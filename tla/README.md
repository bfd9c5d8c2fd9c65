# PicoPen in TLA+

PicoPen is firmware for a PicoCalc handheld with a Pico 2 W: a stage-1 bootloader, an operating
system that is one `main()` loop, drivers, services (Wi-Fi, a scoped network inspector, read-only
storage, evidence analysis, preferences, a credential vault) and a graphical interface on the
PicoCalc's screen, one of whose screens is a terminal with a shell.  This directory holds TLA+
models of its core logic, TLC configurations that check them on small instances, and TLAPS proofs
of what matters most for every value of the constants.  Paths below are relative to `src/PicoPen/`.

## 1. The system

### Programs and the flow of control

    ROM -> bootloader/src/main.c -> validated image -> os/src/main.c
             |  ^                                        |
             |  +--- watchdog, reset, power cut ---------+
             +--> recovery console (retry / bootsel / status), ROM USB loader

The three programs share nothing but flash (two boot metadata sectors, the image slot, the
internal file system), the watchdog with its scratch registers, and the watchdog's reset.
There is no RTOS, no second core and no thread.  After the confirmation of the boot, `main()`
runs one loop (os/src/main.c:385-550), whose order every model below keeps:

1. a key from the keyboard controller: `picopen_gui_handle_key()`, which hands it to the shell
   while the terminal is open (gui.c:1153);
2. a storage request that the key left (safe removal, rescan), served at once;
3. `picopen_wifi_poll()`, in which lwIP and the Wi-Fi driver run and call back into `wifi.c` and
   `recon.c`; then the hosts are told of the link, and a new Wi-Fi state goes to the device table;
4. the engagement session; workbench; recon, whose end goes to the hosts and the audit log;
   evidence;
5. every five seconds, device health: keyboard controller, battery, and with the controller found
   again the card;
6. the work queue, two items a turn.

Concurrency is therefore of four kinds: callbacks that come when the network likes, between any
two turns; hardware that changes under the program (cards, cables, a controller that is late,
flash that tears); resets between any two flash operations; and a user whose keys fall between
the steps of long jobs.  Shared state is copied, not locked: the loop owns a record and pushes
copies to the GUI and the shell, and what they write into their copy is theirs.

### Components

| Component | State | Operations | Talks to | What makes it correct | Model |
|---|---|---|---|---|---|
| boot metadata (`src/boot_metadata.c`) | two flash sectors: generation, pending, attempts, last failure, CRC | load, store (erase, program, verify) | bootloader, console, OS | a copy always survives; the newer one is found, also over the wrap | BootMetadata, Boot |
| bootloader (`bootloader/src/main.c`) | scratch registers, watchdog, the record in RAM | attempt, recover, retry, bootsel | boot metadata, validator | attempts bounded; always gets somewhere | Boot, BootPolicy |
| image validator, handoff | none | validate header, digest, vectors; branch | bootloader | branches into the validated image only | Image |
| crash recovery service | crash count in the internal file system | init, clear | OS start, internal fs | counts watchdog resets of an OS, nothing else | Boot |
| engagement scope (`services/policy`) | active, expiry, boundary, its text | activate, expire, deactivate, allows, parse | recon, GUI | a target outside is never addressed; the boundary is what was typed | Engagement, Inputs |
| recon (`services/recon`) | current operation, control blocks, history ring | start, cancel, poll, six lwIP callbacks | lwIP, scope, GUI, hosts, audit | ends once, reported once, recorded in order, nothing leaks | Recon |
| GUI (`services/gui`) | screen, cursor, remembered places, way back; page cache | a key on each screen, state updates, drawing | every service | cursor on the screen, Escape leads back, work cancelled when left; the row shown is the row meant | Gui, Glass (partly) |
| skins and renderers (`services/appearance`) | current skin, one page cache each | draw a page, the home screen, its focus | GUI, display | what is skipped is already there | Glass (partly) |
| storage service, main loop's part | media state, generation, listing, and copies of them | identify, list, read, remove, rescan, check a path | GUI, evidence, shell | copies agree; nothing is shown of a card that is gone | Media, Paths, Shell |
| SD driver | transport, kind of addresses | identify, read sectors, close | storage | reads what was asked for, of the card identified | Sd |
| evidence (`services/evidence`) | job state, digest, offsets, preview | start, hash a chunk, identify, read a record, cancel | storage | a digest is of one file, and so are the strings; every job ends | Media, Inputs |
| app catalog (`services/apps`) | built-in apps, packages of the card | init, scan | storage, GUI | every package is listed | Apps (partly) |
| hosts inventory | 16 records of 8 services | observe (Wi-Fi, recon) | recon, Wi-Fi, GUI | one record for a host, nothing it was told is lost, or it says so | Hosts |
| Wi-Fi service | OFF .. CONNECTED, ERROR; two deadlines; scan list | init, scan, connect, disconnect, poll | driver, DHCP, GUI | no state outlives its cause; attempts end | Wifi |
| vault | failures, lock, sealed record | unlock, save, forget | internal fs, Wi-Fi | locked after five failures; a record whole or not at all | Settings |
| internal fs, preferences | littlefs, one temporary name | replace by rename, load, migrate | most services | old or new, never neither; memory and flash agree | InternalFs, FileStore, Settings |
| shell | line, pending shutdown, own storage service | keys, commands | capability, storage, keyboard | no power-off from the shell without a fresh confirmation (the GUI's POWER dialog is a second way: without a deadline, gui.c:1655-1673); executes what is seen | Shell; the dialog in Gui, Glass |
| terminal (`drivers/terminal`) | cells, dirty cells, cursor, bar | write, render | shell | the glass shows the cells and one bar | Terminal |
| capability, message bus, work queue (`kernel/`) | registrations; slots | authorize; register, dispatch; schedule, run due | shell, services, main | only what is allowed reaches a service; the heartbeat never falls silent | Capability, Kernel |
| keyboard controller (`drivers/keyboard`), device health, device table | found or lost, baud rate, battery; what was told | probe, read, check, battery, power off | main loop, GUI, shell | everybody is told what main() knows; found again whatever happened | Devices, Shell, Media |
| workbench, attachments, audit | idle job; a table of constants; ring of 16 | - | GUI, shell | - | not modelled: see below |
| display, assets | pixels | drawing | - | nothing another part reads | not modelled |
| minimal recovery image (`bringup/`) | a line | two resets | ROM | its bootsel request is Boot's | not modelled: two commands |
| host tools, tests | - | packaging | - | - | not modelled: run on the build machine |
| FatFs, littlefs, lwIP, mbedtls, Pico SDK | - | - | - | - | external: the answers the code handles |

### What is hard here

- **Resets between flash operations.** Erase, program and verify of a boot record are separate,
  the watchdog started by the bootloader runs on into the OS, and the only memory of what
  happened is a scratch register that survives a watchdog reset but no power cut.
- **Answers without an address.** lwIP's callbacks are registered without an argument that names
  the operation; `recon.c` applies whatever arrives to whatever runs.  The keyboard controller's
  answers do not say what they answer but for their first byte, and may be late.
- **Copies.** The loop's storage service, the GUI's and the shell's; the session and its copy in
  the GUI; `sd_info` and the service; whether the controller answers, kept by the driver, by
  `main()`, in both interfaces and in the device table.
- **Caches of what was drawn.** Rows of a page, cells of the terminal: unchanged ones are skipped,
  by four caches none of which knows what the others have drawn.
- **One cursor, one way back.** Every screen uses the same `selection`, and every network task
  returns to the one `task_return_screen`, over lists that change meanwhile.
- **Cards that change silently.** No interrupt tells of a swap; a job that reads 256 bytes a turn,
  and the driver between two commands, live through removals, rescans and lost controllers.
- **Deadlines.** An operation's seven seconds, the session's expiry, Wi-Fi's two times fifteen,
  the shutdown's fifteen, the vault's thirty, the heartbeat's five.
- **Edges of numbers and texts.** Generations that wrap, sector addresses in bytes, offsets that an
  image states of itself, prefixes and octets of a typed scope, a command as long as its row.

`PROJECT.json` lists each of these hazards at its line with the properties that cover it.

## 2. The modules

| Module | Models | Extends / instantiates |
|---|---|---|
| `BootMetadata` | the two copies as pure operators: which to load, which sector to write, wrap-around comparison | |
| `Boot` | bootloader, OS start, console, watchdog, power | extends BootMetadata, instantiates BootPolicy |
| `BootPolicy` | abstract specification: one record, replaced whole or not at all | |
| `Image` | validation of the image and the branch into it | |
| `Engagement` | the session and what it admits | |
| `Paths` | how a path is read, as pure operators | |
| `Inputs` | how a target, a path and the strings of a file are read | extends Paths |
| `Recon` | one network operation at a time, lwIP, the loop's polls | extends Engagement |
| `Hosts` | the inventory of hosts | |
| `Gui` | the screens | |
| `Glass` | what the screens leave on the display | extends Gui |
| `Media` | card, storage service and copies, evidence job | |
| `Sd` | the SD driver, an exchange at a time | |
| `Devices` | board controller and its driver, device health, what is told of them | |
| `Apps` | the package scan | |
| `InternalFs` | a call on the internal file system, one littlefs operation a step | |
| `FileStore` | abstract specification: files replaced whole or not at all | |
| `Settings` | preferences, the vault and the keys of the Wi-Fi screen that reach it | extends InternalFs, instantiates FileStore |
| `Wifi` | the Wi-Fi service, its keys, the driver and the loop's poll | |
| `Capability` | what the kernel grants, as pure operators | |
| `Kernel` | work queue and heartbeat, message bus | extends Capability |
| `Terminal` | the character terminal, as operators on its state | |
| `Shell` | the terminal screen: shell, shutdown, `cat` | extends Terminal, Capability |
| `MCCore` | TLC instance of Boot, Image, Kernel, Sd, Media, Devices | |
| `MCServices` | TLC instance of Settings, Wifi, Shell, Hosts, Inputs | |
| `MCGui`, `MCRecon`, `MCBoot`, `MCMedia`, `MCApps` | TLC instances | |
| `BootProofs`, `CoreProofs`, `ReconProofs`, `GuiProofs`, `MediaProofs`, `ServicesProofs`, `ShellProofs`, `InputsProofs` | theorems; `CoreProofs` about Image, Kernel, Sd and Devices, `GuiProofs` about Gui and Glass, `ServicesProofs` about Settings, Wifi and Hosts, `ShellProofs` about Terminal and Shell, `InputsProofs` about Paths and Inputs | |

**Boot.**  A sector is a record or `Torn`: the CRC is abstracted to whether `metadata_valid()`
accepts the sector.  Generations are numbers modulo `2 * Half` with the code's signed comparison
(`Half` is 2^31 on the device).  `stage` is the program counter over the three programs;
`StoreErase`, `StoreProgram` and the three `...Stored` actions are `picopen_boot_metadata_store()`
with what each caller does with its result; `PowerCycle` and `WatchdogFires` may come between any
two.  With `FlashFaults` a programmed sector may read back wrong.  The image is any image: it may
hang anywhere.  `tries` and `stalled` are history variables for the properties.

**Image.**  What is one bit in Boot.  Addresses count from the start of the slot.  The header's
size and its three offsets, that of the payload included, are any numbers up to the slot's size;
what is hashed and what the reset handler is compared with are placed by the header's offset, as in
the code (image_validator.c:108, 123), and only `Bounded` ties it to the format's.  Of its other faults one stands for those found before the
bounds are looked at and one for those found after, since their order decides what is read.
`reset` is what the vector table says, any address, because `vector_offset` may lead the read of
the table past the payload.

**Recon.**  `phase` is the place in the loop; a key, any number of callbacks, the session poll
and the recon poll follow each other, while `Tick` may come before each of them (both polls use
one reading of the clock).  A callback acts on `current`, whoever it was meant for: the model
keeps lwIP's outstanding queries and control blocks with the operation that asked (`queries`,
`net.pcbs[p].op`), and `current.from` collects whose events have shaped an operation.  `Ends` is
`finish()`, which does nothing for an operation that has ended.  What a peer says is abstracted
to whether it is enough.  Ports and wording are left out.

**Paths, Inputs.**  The scanners of `parse_cidr()`, `valid_hostname()` and `valid_path()`, a character a
step, against definitions that say what a block, a name or a path within the limits is without
reading from left to right.  The alphabet has one character of each kind that the code tells
apart.  A word is the function of its bits, on which `ShiftedLeft` and `And` are what C's operators
do, so that a network and a mask of any width can be reasoned about; only the prefix is a number
that wraps (`WordSize`).  The state is the text alone, as the editor's keys build it.  A third kind
of text is a file: `InspectStrings` folds the bytes of each chunk and carries an unfinished run into
the next (`Polled`).

**Hosts.**  An observation is one action.  `told` is a history of what was ever said of each
address; the inventory is compared with it.

**Gui.**  `screen`, `selection`, one remembered place per list and `back` (`task_return_screen`)
are the code's variables; an action is one branch of `picopen_gui_handle_key()` or one update by
the loop.  Lists are their lengths, apps are indices in the catalogue.  `running` and `hashing`
stand for recon and evidence.  The editors inside the security and Wi-Fi entries are menu lines
here; what the target editor takes is in Inputs, what the Wi-Fi screen does to the services in
Settings and Wifi, what happens on the terminal screen in Shell.

**Glass.**  A line is what it depends on: which screen's, which entry's, whether it is focused and
a version that a state update may change.  `glass` is the rows as they are, each with the skin it
was drawn in, `cache` the three pages that gui.c, the synthwave and the crayon renderer compare
with.  Every key and update of Gui is taken together with what it draws: `Draw` is `render()`,
`DrawFocus` the short way of the home screen, `Kept` the screens that are not redrawn.  `stamp`
tells one state of the services from the next and `ledger` one history of results: a list keeps
its lines while neither changes.

**Media.**  The storage service is a generation and a media state; a listing is the card that it
was read from with the generation at the time; `CardAnswers` gives what a call can say.  `loopAt`
is the place in the loop.  A card that was identified answers until it is taken out.  The evidence
job counts what is left to read; its `sources` collects the cards its bytes came from.

**Sd.**  `exchange` is the place in a call.  Each exchange may go unheard or unanswered; a card may
come or go before any of them.  A card remembers how far it has been set up, so that one that
was swapped in does not answer a read before it is identified.  Cards of high capacity are
addressed by sectors, others in bytes, which `Addresses` does not let overflow.

**Devices.**  An answer is the register it is of, with two bytes.  A controller is `steady`, `late`
or `gone`: a late one may answer any earlier question, at any time.  `loop` is the place in
`main()`, from the bounded search at the start; `known` is what `main()` has found out, `told` the
copies in GUI and shell, `table` the device table.  Time is turns of the loop.

**Kernel.**  A slot is free or holds work that is due some ticks after the `now_ms` of the turn.
A turn may take longer than planned (`lag`).  Only the heartbeat uses the queue in this firmware;
`OneShots` is other work that keeps it contended and full.  On the bus services register and are
called in any order.

**Shell** and **Terminal.**  Terminal keeps the cells, which of them are dirty, cursor and bar, and
the glass that drawing only the dirty ones leaves.  Shell opens it over another screen, types,
erases, enters and leaves.  A command is one or two characters on a screen of five columns, so
that lines wrap and commands reach the edge.  `asked` counts from what the glass showed at Enter,
not from what the code thinks.

**Apps.**  The one module besides Inputs with characters, because what is at stake is how a name
ends.

**Settings.**  `flash` is what survives power, everything else is memory.  `job` is the call of
internal_fs.c under way: the caller starts it (`SetPreference`, `Remember`, `ForgetSaved`,
`InitializeStore`), the steps of `InternalFs` run it, each of which may fail, and the caller ends
it (`PreferenceSaved`, `Remembered`, ...) with what it does with the answer.  `PowerCut` may come
between any two.  The one temporary file is absent, partial or whole.  Of the preferences, "skin"
stands for the fields that version 2 has too and "apps" for those of version 3, which is what the
migration tells apart.  A sealed record opens with the PIN it was sealed with; nothing else is
asked of the cryptography.  `form` is what the screen's editors hold, since the vault fills it and
scrubs it.  littlefs is external: each operation of its interface happens or fails.

**Wifi.**  `state` to `dhcp` are wifi.c's; `driver` is what the CYW43 driver would answer.  A turn
of the loop is a key, the driver's events (its callbacks run in `cyw43_arch_poll()` and nowhere
else), and the service's poll, with `WaitTicks` anywhere.  A deadline is the ticks left to it.
The driver's seven link values are three classes, as the poll tells them apart.  A CONNECT that
the form or the capability policy refuses does not reach the service and is `NoKey`; that it
scrubs the password all the same is `ConnectPressed` in Settings.

Modules interact where the code does: Recon extends Engagement because `target_allowed()` asks
the session; Glass extends Gui, and each of its steps is one of Gui with its drawing; Boot refines
BootPolicy, Settings refines FileStore.  Media uses what Gui proves, that a running job is on its
own screen (`CancelledWhenLeft`), to know which keys reach which branch; Gui uses what Apps
shows, that no package joins the catalogue.  Devices leaves to Media what losing the controller
does to the card, Media leaves to Sd how a card is read.  Where two components share the loop but
no variable they are checked side by side in one instance, a behaviour being of one of them
(`part`): a product of their states would show nothing more.

## 3. The runs

Twelve runs: five that pass and seven in which the code does something other than what a document
says, or plainly fails.

| Run | Instance | Distinct states | What it shows |
|---|---|---|---|
| `core` | Boot: 8 generations, 3 attempts, crash counter mod 3, sound flash; Image: slot of 5; Kernel: 4 slots, budget 2, one other job; Sd: 8 addresses, blocks of 2; Media: 2 cards, 4 generations, 3 chunks, 2 records; Devices: 3 rates of which one works, 2 keys | 595 519 | lineage and survival of the boot copies, crash count, refinement of BootPolicy; the branch into what was hashed; the heartbeat kept and going on; reads of what was asked; digests of one card, copies that agree, jobs that end; everybody told of the controller, and it found again |
| `boot_faults` | 6 generations, 2 attempts, flash that may misprogram | 79 786 | what is loaded and progress when verification fails |
| `recon` | 2 operations (icmp, stream), 2 addresses, a name and a block, 2 TCP blocks, 1 raw block, ring of 2 | 1 523 550 | one record, one report and an end for each operation, scope kept, no block lost but by another's late answer |
| `gui` | three tours of the screens, six with the glass, of which a behaviour takes one | 878 936 | cursor on the screen, nothing runs off its screen, ways back, pages drawn whole, the row shown is the row meant |
| `services` | Settings: 2 values per preference, a PIN and a short one, a password and none, 2 failures, lock of 2; Wifi: 2 networks, list of 3, waits of 2; Shell: 5 columns, 3 rows, commands of 2, one tick; Hosts: 2 records of 1 port; Inputs: 2 octets of 2 bits, texts of up to 7, files of up to 8 bytes in chunks of 3 | 1 232 619 | files whole or not at all, preferences survive restarts, few wrong PINs; POWER works, waits end; glass and line as they should be, power off only as asked; hosts as told; targets, paths and strings as written |
| `boot_no_valid_copy` | as in `core` | - | no valid copy boots the OS instead of recovering |
| `boot_last_copy` | as in `core`, with faults | - | a retry after a failed verification erases the last copy |
| `recon_shown_address` | one kind, 3 operations | - | an operation on a number goes to another's name |
| `gui_terminal_left` | as `gui` | - | System, opened from it, leaves the terminal on the display |
| `media_removed_is_not_ready` | as in `core` | - | the SD device stays ready after a safe removal |
| `media_complete_means_read` | as in `core` | - | a capture that cannot be read on is complete |
| `apps_packages_appear` | up to 2 files | - | no package is ever recognised |

### Properties

*Boot.*  `Lineage`: the two copies are consecutive generations in the sectors of
their parities, on which the signed comparison rests.  `StoredIsLoaded`: whoever goes on after a
verified store would load that record.  `KeepsACopy`: no step takes the last valid copy.
`CrashesAreStalls`: the crash count moves only for an OS that the watchdog reset, through a
scratch register read two programs later.  `Settles`: progress under `FairSpec`.
`ImplementsPolicy`: refinement.  That an image which does not confirm gets three attempts at most
(`AttemptsBounded`) follows from the refinement and is proved.

*Image.*  `EntersWhatIsHashed`: the branch goes to the payload whose digest was compared, behind the
manifest and inside the slot, whatever the header and the payload say of themselves.

*Kernel.*  `HeartbeatKept`: the heartbeat schedules itself again without looking whether that
worked, so a slot must be free whenever it runs.  `HeartbeatGoesOn`: it runs again and again,
although each scan starts at the first slot and ends after two items, and its own deadline is
later than the time the scan goes by.

*Sd.*  `ReadsWhatAsked`: sectors in order, of the card that was identified, with cards swapped
between any two exchanges for ones that are addressed otherwise.

*Devices.*  `ControllerTold`: at the head of each turn the driver's flag, `main()`'s, both copies
and the device table agree, and a key or a reading of the battery is never another register's
answer.  `ControllerFollowed`: a controller that answers for good is found, one gone for good is
reported gone.

*Recon.*  `HistoryInOrder`, `ReportedOnce`: an operation can be ended by six callbacks, a poll
and a key, sometimes several; the ring and the report have it once.  `InScope`: after each turn
no running operation is outside the session the loop knows.  `LeaksOnlyByOthers`: a control block
gets out of the reach of `finish()` only in an operation that another one's late answer has
reached; lwIP has one raw block, so one leak would end ICMP until a restart.  `OperationEnds`.

*Gui.*  `CursorOnScreen`: the code indexes tables and listings with the cursor unchecked.
`CancelledWhenLeft`: nothing but its own screen can cancel a task.  `ReturnsToHost`: Escape leads
back to the action and the host that a task was set up from.  `EscapeLeadsHome`: whoever keeps
pressing Escape gets to Home, unless the last task was set up from a result.  That exception is
real: Enter on a result sets the way back to the result (gui.c:1391), Escape from the result goes
to the list (gui.c:1061) and Escape from the list to the way back (gui.c:1170), so a user is kept
on these screens until a restart.

*Glass.*  `DrawnWhole`: after every redraw the display shows the page of the screen in the current
skin, although rows are skipped by three caches; the one exception is what run
`gui_terminal_left` is about.  `FocusShown`: one row is shown as focused, it is that of the entry
that Enter would act on, and it shows that entry, over state updates, lists that change and hosts
that appear.  Its exceptions are real too, and without any one of the last three TLC finds the
property violated: the evidence picker is not redrawn when its listing is replaced
(gui.c:1118-1141), a list of hosts that was opened empty stays so on the display (`OpenedEmpty`), a
crayon page shows 12 entries (`Beyond`), and the crayon page of POWER has no focus (`Unmarked`).
The last is so because the dialog indents its `>` (gui.c:961-962) while crayon pages look for it at
the head of a line and strip it elsewhere (crayon_renderer.c:94-96, 119): CANCEL and POWER OFF give
the same page, moving the cursor redraws nothing, and Enter on POWER OFF acts on a row that nothing
marks.  docs/COMPLEX_SKINS_TEST.md:24 says "Confirm the selected tile and selected submenu row use
turquoise scribble strokes".  The other skins draw the indented `>` as text, which is what counts
as focus there, without the outline that other menus have.

*Media.*  `OneCard`: a digest never covers bytes of two cards, although the driver may identify
another one while a file is hashed.  `CopyAgrees`: the GUI's copy is of the loop's generation and
differs by an error at most.  `NothingOfRemovedCard`, `RootIsCurrent`: what is shown and what is
reported belong together, in subdirectories too.  `EvidenceEnds`.

*Settings.*  `ReplacedWhole`: refinement of FileStore, over cuts and failures at any step, and no
call formats a store that holds files.  `RestartKeeps`: a restart brings back the preferences
that the user sees, through migration and late formatting, unless the last save was refused or
cut.  `FewWrongPins`: a count, a lock and a deadline that are reset in several places still add
up to at most five wrong PINs in any thirty seconds (the model's two in two ticks), short of a
right PIN or a restart, which the code does not count across.  `OkIsKept`: the screen's OK means
a record in flash.

*Wifi.*  `PowerWorks`: what shows OFF can be enabled, what shows anything else can be disabled.
`CyclesTogether`: the name and the shown network move together although scan results
come between any two keys; its exception is real, a LEFT after a shorter rescan shows the first
network and keeps the old name (gui.c:1544-1551).  `WaitsEnd`: each of the two waits ends
whatever the driver says or does not say.

*Shell.*  `GlassIsTerminal`: cells drawn only when dirty add up to the screen, with one bar.
`LineShown`: what Enter executes is what the user sees behind the prompt.  `PowerOffAsked`: the
power goes, from the shell, only at the confirmation of a fresh request on the same screen.  The
POWER dialog of the menus, where Enter on POWER OFF asks no more, is `ShutdownKey` of Gui.

*Hosts.*  `HostsTold`: a host stands in the list once with all that was ever said of it, or the
list says that it is cut.  *Inputs.*  `TakenAsWritten`: a boundary covers the block or the name
that was typed and nothing else; a path is accepted exactly when its components are within the
limits and none leads out; the strings shown of a file are those of the file, wherever its
chunks end.

### Findings

Each is in `PROJECT.json` with both lines. Two (`boot_no_valid_copy`, `boot_last_copy`) are about
promises of BOOT_CONTRACT.md and BOOTLOADER.md; `recon_shown_address` comes from callbacks that
do not say whose they are; two (`media_...`) from state that a removal or a failed read leaves
behind. `apps_packages_appear` is a plain bug: `manifest_name()` compares the last eight
characters with a suffix of six. `gui_terminal_left` is one too, in the default skin: opening the
terminal invalidates gui.c's page cache (gui.c:1041) but not the renderers', so that the System
menu, unchanged, is not redrawn when the terminal is left. Others met while modelling have no run
of their own:

- *Network.*  RECON_TIMEOUT_MS is 7000 where SCOPED_RECON_EVIDENCE_TEST.md:19 says five seconds;
  outside guarded mode an expired session ends no operation (recon.c:50), where the same document
  says at lines 16-17 that it does; `echo_received()` returns 1, by which lwIP takes the packet to
  have been freed, without freeing it (recon.c:186); a failed activation with an invalid target
  ends the session that it was to replace; a prefix behind the slash is taken modulo 2^32
  (engagement.c:28-47), and what is no block, such as three numbers, is taken for a host name;
  names longer than a record's field are stored cut, never found again, and listed at every
  observation (hosts.c:8).
- *Wi-Fi.*  REMEMBER after CONNECT keeps an empty password, since CONNECT scrubs it and saving
  does not ask for one (gui.c:1598, wifi_vault.c:65); a connection given up at its deadline is not
  left, so the driver goes on joining behind ERROR (wifi.c:164-168); the deadline for an address is
  armed once a connection, so an address lost after it is an ERROR at once (wifi.c:163, 173).
- *Screens.*  A rescan inside a subdirectory keeps its old listing (gui.c:1123); Escape from
  results opened from the apps goes to wherever the last task came from (gui.c:1170); the four
  exceptions of `FocusShown`, among them the POWER dialog of the crayon skin, which does not show
  whether CANCEL or POWER OFF is selected; the header of a page keeps its SCOPE until the page is redrawn;
  the skins screen still says that persistence is not enabled (gui.c:872), while the skin is
  restored at start (main.c:151).
- *Storage and shell.*  The storage service that `cat` reads with is made ready once and, after one
  I/O error, never again (storage.c:233); a card that does not answer CMD8 at all is taken for one
  of version 1, and the CRC of data is not checked; when the answer to the shutdown request is lost
  the shell reports an error although the power goes; the protocol counts of a capture look for
  headers in the 80 bytes that were read, whatever the record's own length (evidence.c:74), so a
  short packet may be counted by the bytes of the next record.
- *Boot.*  BOOT_CONTRACT.md speaks of a branch to the entry offset while the code branches to the
  reset vector (image_validator.c:116-134); `entry_offset` is checked and not used;
  `vector_offset` need only be below the image's size, so the table may be read past the payload
  (image_validator.c:68), and its alignment for VTOR is not checked.

### Bounds, and why they are enough

- *Boot.*  Nothing depends on the number of generations but their parity, their successor and
  half their number; eight wrap after a few boots, and every relation of two copies to the wrap
  comes up.  Three attempts are the device's.  The proofs lift both.
- *Image.*  A slot of five with a manifest of one and words of two holds empty, odd, fitting and
  too long payloads, placed at, before and behind where they may be, with vectors at, before and
  behind each end.  The proof lifts it.
- *Kernel.*  Four slots, two items a scan and one other job a turn: work stands before and behind
  the heartbeat, and can fill the queue before each scan.  A period of three ticks is longer than
  the lag of two, as five seconds are longer than a turn.
- *Sd.*  Eight addresses of two bytes a sector: half of the sectors do not fit.  Two retries tell
  the first from the last; two cards' numbers tell one from the next.
- *Devices.*  Three rates with the good one in the middle: it is passed, found and searched from
  either side.  One key that is an arrow and one that is not; two turns of health, two probes.
- *Recon.*  Interference is between an operation and what an earlier one left in lwIP, so two are
  needed; a third adds only chains (the same run with three operations of two kinds passes too,
  but takes longer).  `Timeout`, `Rate` and the session last one tick each, so every order of
  deadline, expiry, answer and start comes up; `Horizon` only stops the clock after the last
  operation's deadline.  `dns`, `tcp` and `tls` end where a prefix of
  `stream` does.  History, report, scope and types are proved for any numbers.
- *Gui and Glass.*  The whole menu tree with all places remembered at once is a product without
  interaction.  `Tours` splits it: a behaviour draws the screens that the user opens, and the
  sizes of what it meets, from one tour.  The tours overlap where screens share state
  (Apps, the way back).  Two hosts and two results are enough to tell one from another.  The
  tours with the glass are smaller and cover one skin of each renderer, all four where one is
  chosen; a page of seven entries and a listing of seven overflow as twelve would.  On the tours of
the screens alone the glass stands still and shows a terminal that was left, of which its
properties say nothing.  Those of the glass, and that Glass implements Gui, are proved for any
tours, windows and pages.
- *Media.*  Two cards are the least that a swap needs; four generations make the counter wrap;
  chunks and records let a change fall before, between and after reads.
- *Settings and Wifi.*  One PIN is enough, because any other is
  the short one to a record sealed with it; two failures and two ticks are the least at which a
  count, a lock and its end are three moments.  A list of three holds a network twice, as a scan
  may find it, and is longer than a later one.
- *Shell.*  Three rows of five columns scroll after two commands, a command of two leaves
  one column free, fewer than the 31 characters of one on the device do; outputs wrap by words,
  overwrite by a return and hold a character that cannot be printed.
- *Hosts.*  Two records and one port are full at once; three addresses and a long name are more.
- *Inputs.*  Two numbers of two bits with three digits that have a value of zero, two and six: in
  range, out of range, leading zeros, prefixes below, at and above four, up to seven characters,
  one more than the shortest text that has everything.  A file of eight bytes in chunks of three,
  with strings of two to three and room for six characters: a run crosses a chunk, is cut at its
  limit, begins a new one, and the preview overflows.

### Fairness

- *Boot.* `WF` of `FirmwareStep` (the processor executes) and of `WatchdogFires` (the watchdog
  counts).  Nothing is assumed of the image, which may hang, nor of the user; `Settles` names its
  two exceptions, power that keeps being cut and confirmations that keep being interrupted.
- *Kernel.* `WF` of `QueueStep` (the loop never stops: its bodies return) and of `TimePasses`.
- *Recon.* `WF` of the loop's own steps and `SF` of `Tick`: the clock is a hardware counter, and
  the model interleaves it with a loop that it cannot stop.  Nothing is assumed of lwIP.
- *Gui.* `WF` of `TakeRequest` (the loop serves a request in the turn of its key) and of `Escape`
  once the user wants Home and presses nothing else.
- *Media.* `WF` of the loop as a whole; nothing of cards, cables or users.
- *Devices.* `WF` of `MainStep`; nothing of the controller.  `ControllerFollowed` only says what
  follows when it answers, or does not answer, for good.
- *Wifi.* `WF` of the loop's `Keys` turn (which may be no key), of `Poll` and of `WaitTicks`;
  nothing of the driver, which may never answer.

Nothing is needed for Settings, Shell, Hosts, Inputs, Sd, Image and Glass, of which only safety is
stated.  Deadlock is checked in every run.  An image is validated once, so that part of the `core`
instance stutters when it is done (`Ended`).

## 4. The proofs

All theorems are about the modules' specifications (`Spec`, `ImageSpec`, `KernelSpec`, `SdSpec`,
`DevicesSpec`, `MediaSpec`, `SettingsSpec`, `WifiSpec`, `HostsSpec`, `ShellSpec`, `GlassSpec`,
`InputsSpec`) with their constants arbitrary up to the assumptions declared with them (sizes are
naturals, `Half >= 2`, `MaxAttempts >= 1`, the marker values are no data and no records, at least
one entry in the ring, one PIN try and one tick of lock, a glass wider than the longest command, a
largest octet of all ones, a word that can hold the number of address bits, a run that holds the
shortest string).  TLC evaluates each assumption in the run of its module.

| Theorem | States |
|---|---|
| `BootProofs!TypeCorrect`, `LineageHolds`, `StoredIsLoadedHolds`, `CrashesAreStallsHolds` | types; `Lineage`; `StoredIsLoaded`; `CrashesAreStalls`; with or without flash faults |
| `BootProofs!AttemptsBoundedHolds`, `KeepsACopyHolds` | `AttemptsBounded` (which no run checks by itself), `KeepsACopy`, given `~FlashFaults` |
| `BootProofs!Refinement` | Boot implements BootPolicy, given `~FlashFaults` |
| `CoreProofs!EntersWhatIsHashedHolds` | `EntersWhatIsHashed`, of Image |
| `CoreProofs!KernelTypes`, `HeartbeatKeptHolds`, `OnlyAuthorizedHolds` | types; `HeartbeatKept`; a request that reached a service is one it admits |
| `CoreProofs!SdTypes`, `ReadsWhatAskedHolds` | types; `ReadsWhatAsked` |
| `CoreProofs!DevicesTypes`, `ControllerToldHolds` | types; `ControllerTold` |
| `ReconProofs!TypeCorrect`, `HistoryInOrderHolds`, `ReportedOnceHolds`, `InScopeHolds`, `LeaksOnlyByOthersHolds` | as named |
| `GuiProofs!CancelledWhenLeftHolds` | `CancelledWhenLeft` |
| `GuiProofs!GuiTypes`, `CursorOnScreenHolds`, `ReturnsToHostHolds` | types; as named |
| `GuiProofs!GlassFollowsScreens` | Glass implements Gui |
| `GuiProofs!DrawnWholeHolds`, `FocusShownHolds` | as named, of Glass |
| `MediaProofs!TypeCorrect`, `CopyAgreesHolds`, `NothingOfRemovedCardHolds`, `RootIsCurrentHolds`, `OneCardHolds` | as named |
| `ServicesProofs!TypeCorrect`, `OkIsKeptHolds`, `RestartKeepsHolds`, `FewWrongPinsHolds` | as named |
| `ServicesProofs!Refinement` | Settings implements FileStore |
| `ServicesProofs!WifiTypes`, `PowerWorksHolds`, `AddressOnlyConnectedHolds`, `CyclesTogetherHolds` | types; as named |
| `ServicesProofs!HostsToldHolds` | `HostsTold` |
| `ShellProofs!TypeCorrect`, `GlassIsTerminalHolds`, `LineShownHolds`, `PowerOffAskedHolds` | types; as named |
| `InputsProofs!TakenAsWrittenHolds` | `TakenAsWritten` |
| `InputsProofs!PathsAreWithin` | a path is let through when it stays within the card: `PathWithin` of any text over any characters |

**Boot, with faults.**  `Lineage` is not inductive: a store in progress is about to add a
generation to it.  `StoreInv` adds that the record being written follows the one in the other
sector (`FollowsOther`), what the sector under it holds at each step (`StoreInProgress`,
`StoreDone`), and what the console starts from after a failed store, a record that is in its own
sector or whose sector is torn (`ConsoleBase`).  Of two consecutive generations the comparison
finds the newer, for any `Half >= 2` (`LoadNewest`); that gives `StoredIsLoaded`.  `CrashInv`
follows the word "os_entered" from the register through the bootloader's record and flash into
the OS, with a stall behind it at each place; that the OS loads the very record that the
bootloader wrote is `StoredIsLoaded`.

**Boot, sound flash.**  `CleanInv` adds that a store continues from the record in force
(`CleanStore`) and that the count in flash runs ahead of the transfers (`Counted`).  Then an
erase takes the older copy and never what is loaded (`EraseKeepsLoad`), which is `KeepsACopy`, and
each step maps to a step of BootPolicy or to none.  `FlashFaults = FALSE` is needed: run
`boot_last_copy` shows what happens without.

**Image.**  A payload within its bounds lies in the slot behind the manifest (`PayloadInSlot`, which
needs the check of the header's payload offset); a valid verdict has been hashed and its reset
handler lies in the payload (`ImageInv`).

**Kernel.**  While the heartbeat's callback runs, the slot that it was run from is free, whatever
the scan has run before it (`CallbackAt`), so it comes back (`HeartbeatComesBack`); other work
takes only free slots (`OneShotKeeps`).

**Sd.**  A card in mode ready is the one identified (`SameCard`): one swapped in is in its native
mode and answers no read.  With that, the sector given for an address is the one asked for, of
both kinds of addresses and up to the last sector that a byte address can name (`GivenIsAsked`).

**Devices.**  `ToBeTold` says at each step of a turn what is still to be told to whom, and that
what was acted on and measured came from the register meant.

**Recon.**  Each handler that touches the operation either goes on or calls `finish()` (`Moves`).
`EndInv` says that the ring holds the last ended operations in order, agrees with the screen, and
that `dirty` is exactly whether the last end is still to be reported, and is preserved by any
move; `InScope` needs only that the recon poll sees a session the session poll has just cleared.
For `LeaksOnlyByOthers`, `LeakInv` adds that an operation whose name is still asked for holds no
block, unless it has heard another's answer, and that a connection left to lwIP to close belongs to
an ended operation, so that its error is never a running operation's own; what a handler hands to
`finish()` is then within its reach (`Carries`), and `finish()` gives all of that back
(`EndsWithin`).

**Media.**  `CopyInv` is the four invariants about copies with what a loop without a card can
copy (`MainAgrees`).  `HashInv` gives `OneCard`: while the controller is lost the service is not
ready (`Marked`); the poll between the check that loses it and the check that finds it again has
therefore ended any hash (`Polled`); so a hash under way reads the card its bytes came from, or
none (`Reading`).

**Inputs.**  The property compares a reading that goes from left to right, a recursive function on
the places of the text, with a meaning that is about parts: the stretches between separators, as
pairs of places.  That the function exists is `Folds`, proved once for any step; what it says is
shown place by place with `UpTo`, which is induction about a set, because an operator cannot be a
parameter of a fact.  The parts are the same for all three texts: each place is in one
(`PartAt`, `PartIsOne`), it ends at the next separator and the next begins (`PlaceMoves`), and the
number of them that ended before a place is the rank of the one it is in (`BeforeIsEnded`,
`PlaceGrows`); so the n-th part is one thing (`NthPart`).

For a *target*, `Knows` is what a reading that is still good knows of the part it is in: the
numbers before it have the values that are written there, what has been read of this one is a
number of as many digits, and the text before it has the separators of a block.  It lasts over a
digit and over a separator (`KnowsDigit`, `KnowsMark`), and a text that keeps it to its end is a
block (`KnowsLast`, `KnowsOthers`).  The other direction is that on a block no character ends the
reading: the first digits of a number are worth no more than all of them (`PartDigits`,
`BlockIsTaken`).  The prefix is the value modulo a word, which is the value unless the text wraps
(`PrefixFits`).  An address is below
a mask where `b < prefix` in each octet (`MaskIsLeading`, `BlockIsCovered`), and what is no block
is taken for a name exactly when it has no "_" or "/" (`HostnameIsName`).

For a *file*, `HasFound` says that a run is as much of the part as fits, and that the count and the
preview are of the parts that ended.  An unprintable byte joins the run to the preview
(`FoundAtEnd`), where cutting twice is cutting once (`CutConcat`, `JoinedIsCut`) and the first
string is told by an empty preview, which needs that a long string never leaves it empty
(`ShownIsFirst`).  Chunks do not show: inspecting the next chunk from what the last one left is
inspecting the file up to there (`ChunkContinues`), and a poll takes a byte at least, so as many
polls as bytes are enough (`AllIsPolled`).

**Paths.**  `PathsAreWithin` is about every text over any set of characters and every bound: what
the two loops of `valid_path()` let through is what `IsWithin` says of the components, taken as
pairs of places.  The counters mean what they should after each character (`ScanIsCounted`): the
one that the separators reset is above zero exactly behind a character that is no slash.  The
search for dots looks at each component and at nothing else (`NoDotsIsClean`, `CleanComponents`);
and there is one component more than slashes that end one (`ComponentCount`, by a bijection).
Without the last clause on the depth, the one that the mutant leaves out, the last step fails.

**Settings.**  `JobInv` says what a call on the file system has done at each of its steps: at the
rename the temporary file is whole, after it the file is the caller's content, and only a
format is ever under way on a store that is not mounted.  `FlashInv` adds that an unmounted store
holds no files, which is why formatting one loses nothing; the two give the refinement
(`StoreNext`) with every other step a stutter.  For memory, `MemoryHolds` says that the preferences are
what a restart would load, or what the call under way writes, unless a save was refused; `OkInv`
that the screen's OK outlives no record.  A start re-establishes all of it from `FlashInv` alone
(`StartFacts`), so a power cut is one case like any other.  `FewWrongPins` is about a history that
the code does not keep, the ages of the wrong PINs.  `PinInv` relates it to what the code does
keep: the PINs that `failures` no longer counts are all LockTime old, and while a lock holds every
PIN is at least as old as the lock (`LockTime - lockLeft`), so the count that the lock resets to
zero starts when they have left the window.

**Wifi.**  `PowerWorks` and `AddressOnlyConnected` are inductive as they stand; the one case with
an argument is the poll that gives up waiting for an address, which is one that found none.  For
the types, an index is one of the list or one a longer list had (`CycledIsIndex`).

**Hosts.**  An observation tells of up to three addresses at once; it is as if they were heard one
by one (`HeardTogether`).  `HostsInv` adds that a list says it is cut only when it is full, so a
record is appended only for a host that nothing was said of (`ObservedHears`).

**Gui.**  `CancelledWhenLeft` is inductive as it stands: one case per action.  `CursorOnScreen` is
not: a screen that is entered again gets the place remembered for it, so `GuiInv` adds that each
place given back unseen is a line of its list (`Places`).  It lasts because hosts and results only
grow (`LineStays`), files and apps are looked at when they are shown (`ShowKeeps`), and what a view
gives for a line is an app (`AppAtIsListed`, of any finite set of numbers `EachPlaceIsTaken`).  For
`ReturnsToHost`, a task keeps the place of its host as long as its screens are shown (`HostKept`):
the only screens that move that place are not on the way.

**Glass.**  Each step of Glass is a step of Gui (`GlassStepIsGuiStep`), which is why `GuiInv` may
be used of it.  `GlassInv` says of the three caches what none of them knows of the others: only the
renderer of the current skin keeps a page (`OwnPage`), that page is on the glass except for rows
that a terminal has written (`SeenPage`), and at home there is none (`AtHome`).  A step then draws
nothing, shows the terminal, or leaves the whole picture (`StepKeepsGlass`), and the last of these
is `DrawnWhole`.  `FocusShown` is a property of states, so it has to last through the steps that
draw nothing: `Resting` collects what they leave alone, and each screen's lines are shown to depend
on nothing else, or, as the list of hosts and the first line of the apps, not in the row of the
cursor.  `FocusInv` needs `CancelledWhenLeft` for it (a task that ends elsewhere would change a
list in front), that a host whose actions are asked for stays listed (`HostThere`), and that a list
drawn without hosts is the exception named (`EmptySeen`).  That a drawn page has a focused row,
and that of the cursor only, is shown screen by screen (`ScreenInFocus`): a list has one focused
line, the page puts it on `CursorRow` unless it is `Beyond`, and POWER has it unless `Unmarked`.  The attempt corrected the model: one
stamp for all data let any refresh change the results under their list, so the history of results
now has its own, `ledger`, which changes where the code appends to it.

**Shell.**  What write() does is a recursion over a text, and the prover has no induction scheme
to offer.  The lemmas about texts take instead the least number of characters after which the
claim fails, by `WFMin` on the naturals, after showing that the recursive function that the
definition chooses exists.  By these a cell that changed is dirty (`GlassInv`), and a prompt
and a command that follow a new line stay in its row, as the widest command leaves a
column free (`LineInv`).  `RequestInv` says that the deadline of a pending shutdown tells when it
was asked for; with that and `LineInv` a confirmation is one that was seen.

Model-checked only is what holds under fairness (`Settles`, `HeartbeatGoesOn`, `ControllerFollowed`,
`OperationEnds`, `EscapeLeadsHome`, `EvidenceEnds`, `WaitsEnd`), which the prover's backends do not
reach.

Every invariant and every step property that a passing run checks is a theorem.

## 5. The plan

In this order, the most important behaviour first; all but the last are done.

1. `BootMetadata`, `Boot`, `BootPolicy`; their proofs.
2. `Engagement`, `Recon`; proofs of history, report and scope.
3. `Gui`; `CancelledWhenLeft`.
4. `Media`; its proofs.
5. `Apps`.
6. `Wifi`: the service over its two deadlines; its proofs.
7. `InternalFs`, `FileStore`, `Settings`: preferences and vault over power cuts; their proofs.
8. `Image`: the validation that Boot takes for one bit; its proof.
9. `Capability`, `Kernel`: queue slots, budget and callbacks that submit themselves, the message
   bus behind capabilities; their proofs.
10. `Terminal`, `Shell` with the pending shutdown and `cat`'s own storage service.
11. `Hosts` with names cut short; its proof.
12. `Sd` and `Devices`: what Media and Boot took as given of card and controller; their proofs.
13. `Glass`: what Gui's screens leave on the display through three caches.
14. `Inputs`: targets, paths, and strings of a file.
15. Proofs about Terminal, Shell and Glass, of `FewWrongPins`, about `Paths`, taken out of Inputs
    for it, and about Inputs, with words as functions of their bits.
16. Models left: what is listed as partly modelled below.

## 6. Not modelled

- *display*: commands and pixels; it keeps no state that another part reads.
- *workbench*: its job is started by nothing in the firmware (tests/test_apps_platform.py:63-70
  asks for that); `main()` polls an idle job.
- *attachments*: a table filled once with constants.
- *audit log*: an append to a ring that is only printed; that each end of an operation is told to
  it once is `ReportedOnce`.
- *minimal recovery image* (`bringup/`): a line editor and two resets, of which its request for
  the USB loader is Boot's.
- *generated assets* (a font and a screen, half of the lines of the tree), *host tools and tests*,
  *vendored libraries*: data; run on the build machine; external, and modelled by the answers that
  the code handles.

Of the parts that are modelled partly:

- *GUI*: the editors of a session's reference and duration are menu lines; shapes, colours, wording
  and fonts are left out, and so is the status bar.
- *main loop*: the self tests at start and the serial output.
- *app catalog*: the devices that an app asks for, which are shown and never acted on.
- *device table*: registration, once at start and with constants.
- *evidence*: what a packet counts as.
- *Recon*: ports, banners and the wording of results.
