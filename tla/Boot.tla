-------------------------------- MODULE Boot --------------------------------
(***************************************************************************)
(* The boot path of a PicoPen: the stage-1 bootloader                      *)
(* (bootloader/src/main.c), the start of the operating system              *)
(* (os/src/main.c), the store both of them and the recovery console use    *)
(* (src/boot_metadata.c) and the crash record (services/recovery).         *)
(*                                                                         *)
(* Only flash, the watchdog scratch registers and the watchdog itself      *)
(* carry state from one program to the next.  Power can be cut between any *)
(* two flash operations; the watchdog resets whatever program the          *)
(* bootloader transferred to until that program confirms its boot.         *)
(***************************************************************************)
EXTENDS BootMetadata

CONSTANTS
  CrashModulus,  \* size of the crash counter, 2^32 on the device
  FlashFaults    \* may a programmed sector read back wrong?

ASSUME CrashModulusAssumption == CrashModulus \in Nat /\ CrashModulus >= 2
ASSUME FlashFaultsAssumption == FlashFaults \in BOOLEAN

VARIABLES
  copy,      \* the two metadata sectors
  image,     \* does the primary slot pass picopen_validate_primary_image()?
  crashes,   \* the count in /crash.v1, 0 when there is no such file
  scratch,   \* scratch[PICOPEN_BOOT_ATTEMPT_SCRATCH]
  bootsel,   \* scratch[PICOPEN_BOOTSEL_REQUEST_SCRATCH] holds the magic
  dog,       \* the watchdog is counting
  stage,     \* what the processor is doing
  writer,    \* whose picopen_boot_metadata_store() is running
  ram,       \* the running program's picopen_boot_metadata_v1_t
  previous,  \* previous_boot_failure of the running OS
  tries,     \* history: transfers since a confirmed record was last written
  stalled    \* history: the watchdog reset an OS that had been entered; the
             \* power has been on, and no OS has got to running, since

flash == <<copy, image, crashes>>
registers == <<scratch, bootsel, dog>>
program == <<stage, writer, ram, previous>>
history == <<tries, stalled>>
vars == <<copy, image, crashes, scratch, bootsel, dog, stage, writer, ram,
          previous, tries, stalled>>

Stages == {"rom", "usb_loader", "recovery", "erase", "program", "verify",
           "transfer", "os_entry", "confirmed", "running"}
Writers == {"bootloader", "console", "os"}

Storing == {"erase", "program", "verify"}

TypeOK ==
  /\ copy \in [Sectors -> Record \cup {Torn}]
  /\ image \in BOOLEAN
  /\ crashes \in 0 .. (CrashModulus - 1)
  /\ scratch \in Checkpoints
  /\ bootsel \in BOOLEAN
  /\ dog \in BOOLEAN
  /\ stage \in Stages
  /\ writer \in Writers
  /\ ram \in Record
  /\ previous \in Checkpoints
  /\ tries \in 0 .. (MaxAttempts + 1)
  /\ stalled \in BOOLEAN

\* A device whose metadata sectors have never been written.
Init ==
  /\ copy = [s \in Sectors |-> Torn]
  /\ image \in BOOLEAN
  /\ crashes = 0
  /\ scratch = "none" /\ bootsel = FALSE /\ dog = FALSE
  /\ stage = "rom" /\ writer = "bootloader" /\ ram = DefaultRecord
  /\ previous = "none"
  /\ tries = 0 /\ stalled = FALSE

-----------------------------------------------------------------------------
(* The bootloader's main(), up to its first flash write.                   *)

\* Mutant: no limit.
ExhaustedNever(record) == FALSE

Exhausted(record) == record.pending /\ record.attempts >= MaxAttempts

\* Mutant: the attempt is not counted.
AttemptUncounted(record, checkpoint) ==
  Successor(record, TRUE, record.attempts,
            IF record.pending THEN checkpoint ELSE "none")

\* The record the bootloader writes before it transfers.
Attempt(record, checkpoint) ==
  Successor(record, TRUE,
            IF record.attempts < MaxAttempts THEN record.attempts + 1
                                             ELSE record.attempts,
            IF record.pending THEN checkpoint ELSE "none")

\* A BOOTSEL request wins over everything else.
EnterUsbLoader ==
  /\ stage = "rom" /\ bootsel
  /\ bootsel' = FALSE /\ stage' = "usb_loader"
  /\ UNCHANGED <<flash, scratch, dog, writer, ram, previous, history>>

\* The result of the load is ignored: with no valid copy the default record is
\* used like any other.
BootloaderAttempts ==
  LET record == Load(copy) IN
  /\ stage = "rom" /\ ~bootsel
  /\ image /\ ~Exhausted(record)
  /\ ram' = Attempt(record, scratch)
  /\ scratch' = "none" /\ dog' = FALSE
  /\ stage' = "erase" /\ writer' = "bootloader"
  /\ UNCHANGED <<flash, bootsel, previous, history>>

BootloaderRecovers ==
  LET record == Load(copy) IN
  /\ stage = "rom" /\ ~bootsel
  /\ ~image \/ Exhausted(record)
  /\ ram' = record
  /\ scratch' = "none" /\ dog' = FALSE
  /\ stage' = "recovery"
  /\ UNCHANGED <<flash, bootsel, writer, previous, history>>

-----------------------------------------------------------------------------
(* picopen_boot_metadata_store(), one step per flash operation, and what   *)
(* each caller does with its result.                                       *)

StoreErase ==
  /\ stage = "erase"
  /\ copy' = [copy EXCEPT ![SectorOf(ram.generation)] = Torn]
  /\ stage' = "program"
  /\ UNCHANGED <<image, crashes, registers, writer, ram, previous, history>>

StoreProgram(correct) ==
  /\ stage = "program"
  /\ correct \/ FlashFaults
  /\ copy' = [copy EXCEPT ![SectorOf(ram.generation)] =
                IF correct THEN ram ELSE Torn]
  /\ stage' = "verify"
  /\ tries' = IF correct /\ ~ram.pending THEN 0 ELSE tries
  /\ UNCHANGED <<image, crashes, registers, writer, ram, previous, stalled>>

BootloaderStored ==
  /\ stage = "verify" /\ writer = "bootloader"
  /\ IF Verified(copy, ram)
       THEN /\ scratch' = "chaining" /\ dog' = TRUE /\ stage' = "transfer"
            /\ tries' = IF tries <= MaxAttempts THEN tries + 1 ELSE tries
       ELSE /\ scratch' = "metadata_error" /\ stage' = "recovery"
            /\ UNCHANGED <<dog, tries>>
  /\ UNCHANGED <<flash, bootsel, writer, ram, previous, stalled>>

ConsoleStored ==
  /\ stage = "verify" /\ writer = "console"
  /\ IF Verified(copy, ram) THEN stage' = "rom" /\ dog' = FALSE
                            ELSE stage' = "recovery" /\ dog' = dog
  /\ UNCHANGED <<flash, scratch, bootsel, writer, ram, previous, history>>

OsStored ==
  /\ stage = "verify" /\ writer = "os"
  /\ IF Verified(copy, ram) THEN scratch' = "none" /\ stage' = "confirmed"
                            ELSE scratch' = "metadata_error" /\ stage' = "rom"
  /\ dog' = FALSE
  /\ UNCHANGED <<flash, bootsel, writer, ram, previous, history>>

-----------------------------------------------------------------------------
(* The operating system, from its first statement to the end of            *)
(* picopen_recovery_init().                                                *)

OsEnter ==
  /\ stage = "transfer"
  /\ scratch' = "os_entered" /\ stage' = "os_entry"
  /\ UNCHANGED <<flash, bootsel, dog, writer, ram, previous, history>>

OsConfirms ==
  LET record == Load(copy) IN
  /\ stage = "os_entry"
  /\ IF LoadOk(copy) /\ record.pending
       THEN /\ previous' = record.failure
            /\ ram' = Successor(record, FALSE, 0, "none")
            /\ stage' = "erase" /\ writer' = "os"
            /\ UNCHANGED <<scratch, dog>>
       ELSE /\ scratch' = "metadata_error" /\ dog' = FALSE /\ stage' = "rom"
            /\ UNCHANGED <<ram, writer, previous>>
  /\ UNCHANGED <<flash, bootsel, history>>

\* The count of a crash record with one more crash.  One that cannot be read is
\* begun anew.
OneMore(read) == (IF read THEN crashes + 1 ELSE 1) % CrashModulus

\* Mutant: any failed handoff is taken for a crash.
RecoveryInitUnfiltered(read, saved) ==
  /\ stage = "confirmed"
  /\ stage' = "running"
  /\ IF previous # "none" /\ saved THEN crashes' = OneMore(read)
                                  ELSE UNCHANGED crashes
  /\ stalled' = FALSE
  /\ UNCHANGED <<copy, image, registers, writer, ram, previous, tries>>

\* read: the crash record could be read, if there is one; saved: the internal
\* file system was READY and took the new one.
RecoveryInit(read, saved) ==
  /\ stage = "confirmed"
  /\ stage' = "running"
  /\ IF previous = "os_entered" /\ saved THEN crashes' = OneMore(read)
                                        ELSE UNCHANGED crashes
  /\ stalled' = FALSE
  /\ UNCHANGED <<copy, image, registers, writer, ram, previous, tries>>

\* picopen_recovery_clear(true).  When the file cannot be removed only the
\* screen forgets it, until the next start.
ClearCrashRecord(removed) ==
  /\ stage = "running"
  /\ crashes' = IF removed THEN 0 ELSE crashes
  /\ UNCHANGED <<copy, image, registers, program, history>>

-----------------------------------------------------------------------------
(* The recovery console.                                                   *)

\* Mutant: the retry starts over from the default record.
ConsoleRetryFromDefault ==
  /\ stage = "recovery"
  /\ ram' = Successor(DefaultRecord, FALSE, 0, "none")
  /\ stage' = "erase" /\ writer' = "console"
  /\ UNCHANGED <<flash, registers, previous, history>>

ConsoleRetry ==
  /\ stage = "recovery"
  /\ ram' = Successor(ram, FALSE, 0, "none")
  /\ stage' = "erase" /\ writer' = "console"
  /\ UNCHANGED <<flash, registers, previous, history>>

ConsoleBootsel ==
  /\ stage = "recovery"
  /\ bootsel' = TRUE /\ dog' = FALSE /\ stage' = "rom"
  /\ UNCHANGED <<flash, scratch, writer, ram, previous, history>>

-----------------------------------------------------------------------------
(* The environment: the ROM loader, the watchdog, the power switch.        *)

\* The user copies an image to the ROM's USB loader, which then resets; the
\* scratch register may or may not outlive that reset.
UsbLoaderReboots ==
  /\ stage = "usb_loader"
  /\ image' \in BOOLEAN
  /\ scratch' \in {scratch, "none"}
  /\ stage' = "rom"
  /\ UNCHANGED <<copy, crashes, bootsel, dog, writer, ram, previous, history>>

\* PICOPEN_BOOT_ATTEMPT_TIMEOUT_MS after the transfer, at whatever point the
\* image has reached.
WatchdogFires ==
  /\ dog
  /\ dog' = FALSE /\ stage' = "rom"
  /\ stalled' = (stalled \/ scratch = "os_entered")
  /\ UNCHANGED <<flash, scratch, bootsel, writer, ram, previous, tries>>

\* Power goes and comes back, perhaps with the BOOTSEL button held.
PowerCycle ==
  /\ stage' \in {"rom", "usb_loader"}
  /\ scratch' = "none" /\ bootsel' = FALSE /\ dog' = FALSE
  /\ stalled' = FALSE
  /\ UNCHANGED <<flash, writer, ram, previous, tries>>

-----------------------------------------------------------------------------
\* What runs without a user and without trusting the image.
FirmwareStep ==
  \/ EnterUsbLoader
  \/ BootloaderAttempts
  \/ BootloaderRecovers
  \/ StoreErase
  \/ \E correct \in BOOLEAN : StoreProgram(correct)
  \/ BootloaderStored
  \/ ConsoleStored
  \/ OsStored
  \/ \E read, saved \in BOOLEAN : RecoveryInit(read, saved)

Next ==
  \/ FirmwareStep
  \/ OsEnter
  \/ OsConfirms
  \/ \E removed \in BOOLEAN : ClearCrashRecord(removed)
  \/ ConsoleRetry
  \/ ConsoleBootsel
  \/ UsbLoaderReboots
  \/ WatchdogFires
  \/ PowerCycle

Spec == Init /\ [][Next]_vars

\* The processor runs and the watchdog counts.  Nothing is assumed of the
\* image: it may hang anywhere before it confirms.
FairSpec == Spec /\ WF_vars(FirmwareStep) /\ WF_vars(WatchdogFires)
-----------------------------------------------------------------------------
(* What the boot path promises.                                            *)

\* Never more than MaxAttempts transfers to an image that does not confirm,
\* wherever power cuts and watchdog resets fall: the count is in flash before
\* the transfer, and a torn copy never sets it back
\* (bootloader/src/main.c:71-94).
AttemptsBounded == tries <= MaxAttempts

\* The two copies are consecutive generations, each in the sector its parity
\* names, so the signed comparison of generation_newer() always finds the newer
\* one, also across the wrap from 2^32 - 1 to 0 (src/boot_metadata.c:44-46).
Lineage ==
  /\ \A s \in Sectors : copy[s] # Torn => SectorOf(copy[s].generation) = s
  /\ copy["A"] # Torn /\ copy["B"] # Torn =>
       \/ copy["A"].generation = NextGeneration(copy["B"].generation)
       \/ copy["B"].generation = NextGeneration(copy["A"].generation)

\* What a store has verified is what the next load returns: the bootloader
\* transfers only once the attempt is on record, and an OS that believes its
\* boot confirmed is confirmed after any reset (os/src/main.c:111-128).
StoredIsLoaded ==
  stage \in {"transfer", "confirmed", "running"} =>
    LoadOk(copy) /\ Load(copy) = ram

\* A store never takes the last valid copy away, at any of its steps.  Holds
\* only of flash that programs what it is told (src/boot_metadata.c:80-100).
KeepsACopy == [][LoadOk(copy) => LoadOk(copy')]_vars

\* BOOTLOADER.md:67, "Power loss during metadata updates must leave at least
\* one valid metadata copy", of flash that may also program wrongly.
\* The store has advanced metadata->generation when its verification fails, so
\* the console's next store goes to the sector of the only good copy.
KeepsACopyDespiteFaults == KeepsACopy

\* BOOT_CONTRACT.md:120, "Corrupt metadata: select a valid redundant copy; if
\* neither is valid, recover."  main() ignores the result of the load
\* (bootloader/src/main.c:67).
NoValidCopyRecovers ==
  [][stage = "rom" /\ ~LoadOk(copy) /\ ~bootsel =>
       stage' \in {"rom", "usb_loader", "recovery"}]_vars

\* The crash count grows only for an OS that was entered and then reset by the
\* watchdog, at most once for each such reset, and never for a power cut
\* (services/recovery/recovery.c:19-25 with the scratch register's way through
\* last_failure).
CrashesAreStalls ==
  [][crashes' \notin {crashes, 0} => stalled /\ stage' = "running"]_vars

\* Unless the power keeps being cut, or an OS keeps writing its confirmation and
\* being reset before it has stopped the watchdog, the device ends up in the OS,
\* in the recovery console or in the USB loader again and again: an image that
\* does not confirm cannot keep it rebooting (bootloader/src/main.c:73-95).
Settles ==
  \/ []<><<PowerCycle>>_vars
  \/ []<>(stage = "verify" /\ writer = "os")
  \/ []<>(stage \in {"running", "recovery", "usb_loader"})

-----------------------------------------------------------------------------
(* The promise of the two copies together: one record, replaced atomically. *)

Policy == INSTANCE BootPolicy
            WITH record <- Logical(Load(copy)),
                 saving <- IF stage \in {"erase", "program"}
                             THEN Logical(ram) ELSE Torn

\* Without flash faults the A/B store and its callers implement a record that
\* is replaced whole or not at all, by legal successors only.
ImplementsPolicy == Policy!Spec
=============================================================================
