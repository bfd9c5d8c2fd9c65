-------------------------------- MODULE Gui ---------------------------------
(***************************************************************************)
(* The screens of services/gui/gui.c: which one a key leads to, where its  *)
(* cursor comes to stand, and what Escape leaves behind.                   *)
(*                                                                         *)
(* All screens share one cursor, "selection"; a list screen's place is     *)
(* remembered in a variable of its own when it is left and given back when *)
(* it is entered again.  The screens of a network task have no parent of   *)
(* their own: Escape goes to task_return_screen, which the screen that     *)
(* started the last task has set.  Listings, hosts and results change      *)
(* under the screens that show them.                                       *)
(***************************************************************************)
EXTENDS Naturals, Sequences, SequencesExt, FiniteSetsExt

CONSTANTS
  Capacity,  \* PICOPEN_RECON_HISTORY_CAPACITY
  MaxDepth,  \* PICOPEN_STORAGE_MAX_DEPTH
  Tours      \* bound: what a user and the world around do in one behaviour

FilterOrder == <<"all", "favorites", "network", "files", "system", "installed">>

\* The screens that the user opens from a menu, the app views turned to, the
\* apps made favourites, the places in the lists that the preferences held,
\* and the largest inventory and directory that come up.
Tour == [visited : SUBSET STRING, filters : SUBSET Range(FilterOrder),
         liked : SUBSET Nat, saved : SUBSET Nat, hosts : Nat, entries : Nat]

ASSUME SizesAssumption ==
  /\ Capacity \in Nat \ {0} /\ MaxDepth \in Nat
  /\ Tours \subseteq Tour

VARIABLES
  screen,     \* screen
  selection,  \* selection, counted from 0 as in the code
  memory,     \* home_selection, workbench_selection, ...: one for each list
  back,       \* task_return_screen
  filter,     \* app_filter
  favorites,  \* favorite_apps
  info,       \* app_info_index
  taskless,   \* app_catalog.apps[pending_recon_selection] has no task to set up
  field,      \* task_field
  filled,     \* task_target_length > 0
  entries,    \* file_listing.count
  depth,      \* the depth of file_path, 0 for "/"
  request,    \* storage_action
  running,    \* the network operation is RUNNING
  hashing,    \* the evidence job is HASHING or PARSING
  hosts,      \* the size of the host inventory
  results,    \* picopen_recon_history_count()
  launched,   \* history: the host and action that the task was set up from
  leaving,    \* the user wants Home and presses nothing but Escape
  tour        \* one of Tours, from the start

cursor == <<screen, selection, memory>>
apps == <<filter, favorites, info>>
task == <<back, taskless, field, filled, launched>>
files == <<entries, depth, request>>
services == <<running, hashing, hosts, results>>
user == <<leaving, tour>>
vars == <<cursor, apps, task, files, services, user>>

Visited == tour.visited
Filters == tour.filters
Liked == tour.liked
Saved == tour.saved
MaxHosts == tour.hosts
MaxEntries == tour.entries

-----------------------------------------------------------------------------
(* The menus *)

HomeItems == <<"STATUS", "FILES", "DEVICES", "APPS", "AUDIT", "SYSTEM">>
SystemItems == <<"SECURITY", "UPDATE", "SKINS", "TERMINAL", "RECOVERY",
                 "SHUTDOWN", "ABOUT">>
TaskScreens == {"APP_CONFIG", "RECON_CONFIRM", "RECON"}
AppScreens == {"APP_INFO", "APP_DEVICES", "HOSTS", "HOST_ACTIONS",
               "RECON_HISTORY", "DETAIL", "EVIDENCE_PICKER", "EVIDENCE"}
Screens == {"HOME", "FILE_VIEW", "SHUTDOWN_RESULT"} \cup Range(HomeItems)
             \cup Range(SystemItems) \cup TaskScreens \cup AppScreens
Lists == {"HOME", "SYSTEM", "APPS", "HOSTS", "HOST_ACTIONS", "RECON_HISTORY",
          "FILES", "SECURITY", "UPDATE"}

\* The built-in apps, of which each kind has one.  No package of the card ever
\* joins them (PackagesAppear of Apps).
Catalog == <<"devices", "discovery", "host", "http", "ssh", "tls",
             "evidence", "results", "reports">>
Category(kind) ==
  CASE kind \in {"discovery", "host", "http", "ssh", "tls"} -> "network"
    [] kind = "evidence" -> "files"
    [] OTHER -> "system"
Untasked == {"discovery", "reports"}
OpenedBy == [devices |-> "APP_DEVICES", discovery |-> "HOSTS",
             evidence |-> "EVIDENCE_PICKER", results |-> "RECON_HISTORY"]

Matches(i, f, liked) ==
  CASE f = "all" -> TRUE
    [] f = "favorites" -> i \in liked
    [] OTHER -> Category(Catalog[i]) = f
\* The indices into the catalog that a view lists, in the order of the catalog
View(f, liked) == {i \in DOMAIN Catalog : Matches(i, f, liked)}
CurrentView == View(filter, favorites)
ViewCount == Cardinality(CurrentView)  \* app_view_count
\* app_view[line]
AppAt(line) ==
  CHOOSE i \in CurrentView : Cardinality({j \in CurrentView : j < i}) = line

\* move_app_filter(): the next view in that direction that has items
Turned(forward) ==
  LET at == CHOOSE n \in 0 .. 5 : FilterOrder[n + 1] = filter
      step(k) == IF forward THEN (at + k) % 6 ELSE (at + 6 - k) % 6
      k0 == Min({k \in 1 .. 6 : k = 6 \/ View(FilterOrder[step(k) + 1], favorites) # {}})
  IN FilterOrder[step(k0) + 1]

-----------------------------------------------------------------------------
(* What a list holds, and the way back *)

Skins == 4  \* PICOPEN_SKIN_COUNT
Lines(s) ==
  CASE s = "HOME" -> 6
    [] s = "SYSTEM" -> 7
    [] s = "SECURITY" -> 5
    [] s = "UPDATE" -> 9
    [] s = "SKINS" -> Skins
    [] s = "SHUTDOWN" -> 2
    [] s = "APPS" -> ViewCount
    [] s = "HOSTS" -> hosts
    [] s = "HOST_ACTIONS" -> 4
    [] s = "RECON_HISTORY" -> results
    [] s \in {"FILES", "EVIDENCE_PICKER"} -> entries
    [] OTHER -> 0

\* Mutant: the hosts are left like a task, for the screen that started it.
ParentOfHosts(s) ==
  CASE s \in {"APP_CONFIG", "HOSTS"} -> back
    [] s = "FILE_VIEW" -> "FILES"
    [] s \in {"APP_INFO", "APP_DEVICES"} -> "APPS"
    [] s = "HOST_ACTIONS" -> "HOSTS"
    [] s = "DETAIL" -> "RECON_HISTORY"
    [] s \in Range(SystemItems) \cup {"SHUTDOWN_RESULT"} -> "SYSTEM"
    [] OTHER -> "HOME"

Parent(s) ==
  CASE s = "APP_CONFIG" -> back
    [] s = "FILE_VIEW" -> "FILES"
    [] s \in {"APP_INFO", "APP_DEVICES", "HOSTS"} -> "APPS"
    [] s = "HOST_ACTIONS" -> "HOSTS"
    [] s = "DETAIL" -> "RECON_HISTORY"
    [] s \in Range(SystemItems) \cup {"SHUTDOWN_RESULT"} -> "SYSTEM"
    [] OTHER -> "HOME"

\* Showing the apps rebuilds their view, which a lost favourite may have
\* shortened below the cursor.
Show(s, n, m) ==
  /\ screen' = s
  /\ IF s = "APPS" /\ n >= ViewCount'
     THEN selection' = 0 /\ memory' = [m EXCEPT !["APPS"] = 0]
     ELSE selection' = n /\ memory' = m

Up(n) == IF n > 0 THEN n - 1 ELSE n
Down(n, count) == IF n + 1 < count THEN n + 1 ELSE n
Moved(key, count) ==
  CASE key = "up" -> Up(selection)
    [] key = "down" -> Down(selection, count)
    [] OTHER -> selection
Remembering(s, n) == [memory EXCEPT ![s] = n]

Recorded == Min({Capacity, results + 1})  \* remember_result()

\* picopen_gui_init() takes what the preferences say, in whatever combination.
Init ==
  /\ tour \in Tours
  /\ screen = "HOME"
  /\ memory \in {m \in [Lists -> Saved \cup {0}] :
                  /\ m["HOME"] < 6 /\ m["SYSTEM"] < 7
                  /\ m["FILES"] < Max({1, MaxEntries})
                  /\ \A s \in Lists \ {"HOME", "SYSTEM", "FILES", "APPS"} : m[s] = 0}
  /\ selection = memory["HOME"]
  /\ filter \in Filters \cup {"all"} /\ favorites \in SUBSET Liked
  /\ back = "APPS" /\ info = 1
  /\ taskless = FALSE /\ field = 0 /\ filled = FALSE
  /\ entries \in {0, MaxEntries} /\ depth = 0 /\ request = "none"
  /\ running = FALSE /\ hashing = FALSE /\ hosts = 0 /\ results = 0
  /\ launched = <<0, 0>> /\ leaving = FALSE

TypeOK ==
  /\ screen \in Screens /\ selection \in Nat
  /\ memory \in [Lists -> Nat]
  /\ back \in {"APPS", "HOST_ACTIONS", "DETAIL"}
  /\ filter \in Range(FilterOrder) /\ favorites \subseteq Liked
  /\ info \in DOMAIN Catalog /\ taskless \in BOOLEAN
  /\ field \in 0 .. 1 /\ filled \in BOOLEAN
  /\ entries \in 0 .. MaxEntries /\ depth \in 0 .. MaxDepth
  /\ request \in {"none", "safe_remove", "rescan"}
  /\ running \in BOOLEAN /\ hashing \in BOOLEAN
  /\ hosts \in 0 .. MaxHosts
  /\ results \in 0 .. Capacity /\ leaving \in BOOLEAN /\ tour \in Tours
  /\ launched \in Nat \X (0 .. 3)

-----------------------------------------------------------------------------
(* picopen_gui_handle_key(), screen by screen.  The main loop takes a      *)
(* storage request at once, so no key comes while there is one.            *)

Pressing(s) == screen = s /\ request = "none" /\ ~leaving

Keys == {"up", "down", "left", "right", "enter", "f", "h", "s", "r", "text",
         "erase"}

\* A list whose Enter is another action, or none
MoveOn(s, key) ==
  /\ selection' = Moved(key, Lines(s))
  /\ memory' = IF s \in Lists THEN Remembering(s, selection') ELSE memory
  /\ UNCHANGED <<screen, apps, task, files, services, user>>

HomeKey(key) ==
  /\ Pressing("HOME") /\ key # "enter"
  /\ selection' = CASE key = "left" /\ selection % 2 = 1 -> selection - 1
                    [] key = "right" /\ selection % 2 = 0 -> selection + 1
                    [] key = "up" /\ selection >= 2 -> selection - 2
                    [] key = "down" /\ selection + 2 < 6 -> selection + 2
                    [] OTHER -> selection
  /\ UNCHANGED <<screen, memory, apps, task, files, services, user>>

OpenHomeItem ==
  LET to == HomeItems[selection + 1] IN
  /\ Pressing("HOME") /\ to \in Visited
  /\ UNCHANGED <<apps, task, files, services, user>>
  /\ Show(to,
          CASE to = "FILES" -> IF memory["FILES"] < entries THEN memory["FILES"] ELSE 0
            [] to \in {"SYSTEM", "APPS"} -> memory[to]
            [] OTHER -> 0,
          Remembering("HOME", selection))

SystemKey(key) ==
  /\ Pressing("SYSTEM") /\ key # "enter"
  /\ selection' = Moved(key, 7)
  /\ UNCHANGED <<screen, memory, apps, task, files, services, user>>

OpenSystemItem ==
  LET to == SystemItems[selection + 1] IN
  /\ Pressing("SYSTEM") /\ to \in Visited
  /\ screen' = to
  /\ memory' = Remembering("SYSTEM", selection)
  /\ \/ to = "SKINS" /\ selection' \in 0 .. Skins - 1  \* picopen_skin_current_id()
     \/ to # "SKINS" /\ selection' = IF to \in Lists THEN memory[to] ELSE 0
  /\ UNCHANGED <<apps, task, files, services, user>>

\* What Enter does on the security and update screens is not the GUI's state,
\* but that it moves the cursor on over the first three security settings.
SettingsKey(key) ==
  \E s \in {"SECURITY", "UPDATE"} :
    /\ Pressing(s)
    /\ IF s = "SECURITY" /\ key = "enter" /\ selection < 3
       THEN /\ selection' = selection + 1
            /\ memory' = Remembering(s, selection')
            /\ UNCHANGED <<screen, apps, task, files, services, user>>
       ELSE MoveOn(s, key)

SkinsKey(key) ==
  /\ Pressing("SKINS")
  /\ IF key = "enter"
     THEN screen' = "HOME" /\ selection' = memory["HOME"]
     ELSE screen' = screen /\ selection' = Moved(key, Skins)
  /\ UNCHANGED <<memory, apps, task, files, services, user>>

ShutdownKey(key) ==
  /\ Pressing("SHUTDOWN")
  /\ CASE key \in {"up", "down"} -> screen' = screen /\ selection' = 1 - selection
       [] key = "enter" /\ selection = 0 -> screen' = "SYSTEM" /\ selection' = memory["SYSTEM"]
       [] key = "enter" /\ selection # 0 -> screen' = "SHUTDOWN_RESULT" /\ selection' = selection
       [] OTHER -> UNCHANGED <<screen, selection>>
  /\ UNCHANGED <<memory, apps, task, files, services, user>>

-----------------------------------------------------------------------------
(* The apps *)

AppsMove(key) ==
  /\ Pressing("APPS") /\ key \in {"up", "down"}
  /\ selection' = Moved(key, ViewCount)
  /\ memory' = Remembering("APPS", selection')
  /\ UNCHANGED <<screen, apps, task, files, services, user>>

AppsTurn(key) ==
  /\ Pressing("APPS") /\ key \in {"left", "right"}
  /\ filter' = Turned(key = "right") /\ filter' \in Filters
  /\ UNCHANGED <<favorites, info>>
  /\ Show("APPS", 0, Remembering("APPS", 0))
  /\ UNCHANGED <<task, files, services, user>>

Toggle(app) ==
  /\ app \in Liked
  /\ favorites' = (favorites \ {app}) \cup ({app} \ favorites)

AppsFavorite ==
  /\ Pressing("APPS") /\ selection < ViewCount
  /\ Toggle(AppAt(selection))
  /\ UNCHANGED <<filter, info>>
  /\ Show("APPS", selection, memory)
  /\ UNCHANGED <<task, files, services, user>>

AppsInfo ==
  /\ Pressing("APPS") /\ "APP_INFO" \in Visited /\ selection < ViewCount
  /\ info' = AppAt(selection)
  /\ memory' = Remembering("APPS", selection)
  /\ screen' = "APP_INFO"
  /\ UNCHANGED <<selection, filter, favorites, task, files, services, user>>

InfoFavorite ==
  /\ Pressing("APP_INFO")
  /\ Toggle(info)
  /\ UNCHANGED <<cursor, filter, info, task, files, services, user>>

\* The apps without a task have a screen of their own; only the others set
\* task_return_screen.
OpenApp ==
  LET kind == Catalog[AppAt(selection)]
      own == kind \in DOMAIN OpenedBy
      to == IF own THEN OpenedBy[kind] ELSE "APP_CONFIG" IN
  /\ Pressing("APPS") /\ selection < ViewCount /\ to \in Visited
  /\ taskless' = (kind \in Untasked)
  /\ screen' = to
  /\ memory' = Remembering("APPS", selection)
  /\ IF own
     THEN /\ selection' = CASE kind = "devices" -> 0
                            [] kind = "discovery" -> memory["HOSTS"]
                            [] kind = "evidence" ->
                                 IF memory["FILES"] < entries THEN memory["FILES"] ELSE 0
                            [] kind = "results" -> memory["RECON_HISTORY"]
          /\ UNCHANGED <<back, field, launched>>
     ELSE back' = "APPS" /\ field' = 0 /\ launched' = <<0, 0>> /\ UNCHANGED selection
  /\ UNCHANGED <<filled, apps, files, services, user>>

-----------------------------------------------------------------------------
(* Network tasks *)

HostsKey(key) ==
  /\ Pressing("HOSTS")
  /\ IF key = "enter" /\ selection < hosts
     THEN /\ memory' = [memory EXCEPT !["HOSTS"] = selection, !["HOST_ACTIONS"] = 0]
          /\ selection' = 0 /\ screen' = "HOST_ACTIONS"
          /\ UNCHANGED <<apps, task, files, services, user>>
     ELSE MoveOn("HOSTS", key)

HostActionsKey(key) ==
  /\ Pressing("HOST_ACTIONS")
  /\ IF key = "enter" /\ memory["HOSTS"] < hosts
     THEN /\ taskless' = FALSE
          /\ filled' = TRUE /\ field' = 1 /\ back' = "HOST_ACTIONS"
          /\ memory' = Remembering("HOST_ACTIONS", selection)
          /\ screen' = "APP_CONFIG"
          /\ launched' = <<memory["HOSTS"], selection>>
          /\ UNCHANGED <<selection, apps, files, services, user>>
     ELSE MoveOn("HOST_ACTIONS", key)

HistoryKey(key) ==
  /\ Pressing("RECON_HISTORY")
  /\ IF key = "enter" /\ selection < results
     THEN /\ memory' = Remembering("RECON_HISTORY", selection)
          /\ screen' = "DETAIL"
          /\ UNCHANGED <<selection, apps, task, files, services, user>>
     ELSE MoveOn("RECON_HISTORY", key)

DetailEnter ==
  /\ Pressing("DETAIL")
  /\ taskless' = FALSE /\ launched' = <<0, 0>>
  /\ filled' = TRUE /\ field' = 1 /\ back' = "DETAIL" /\ screen' = "APP_CONFIG"
  /\ UNCHANGED <<selection, memory, apps, files, services, user>>

ConfigKey(key) ==
  /\ Pressing("APP_CONFIG") /\ ~taskless
  /\ field' = CASE key = "up" -> 0
                [] key = "down" \/ key = "enter" -> 1
                [] OTHER -> field
  /\ CASE field = 0 /\ key \in {"text", "f", "h", "s", "r"} -> filled' = TRUE
       [] field = 0 /\ key = "erase" -> filled' \in {FALSE, filled}
       [] OTHER -> filled' = filled
  /\ screen' = IF key = "enter" /\ field = 1 /\ filled THEN "RECON_CONFIRM" ELSE screen
  /\ UNCHANGED <<selection, memory, back, taskless, launched, apps,
                 files, services, user>>

\* The operation may not start, start, or end (with or without a result)
\* before picopen_recon_start() returns.
Confirm ==
  /\ Pressing("RECON_CONFIRM")
  /\ \/ ~running /\ screen' = "RECON" /\ running' = TRUE /\ UNCHANGED results
     \/ screen' = "APP_CONFIG" /\ UNCHANGED <<running, results>>
     \/ /\ ~running /\ screen' \in {"RECON", "APP_CONFIG"}
        /\ results' = Recorded /\ UNCHANGED running
  /\ UNCHANGED <<selection, memory, apps, task, files, hashing, hosts, user>>

-----------------------------------------------------------------------------
(* Files and evidence *)

FilesMove(key) ==
  /\ Pressing("FILES") /\ key \notin {"enter", "s", "r"}
  /\ selection' = Moved(key, entries)
  /\ memory' = Remembering("FILES", selection')
  /\ UNCHANGED <<screen, apps, task, files, services, user>>

FilesRequest(key) ==
  /\ Pressing("FILES") /\ key \in {"s", "r"}
  /\ request' = IF key = "s" THEN "safe_remove" ELSE "rescan"
  /\ UNCHANGED <<cursor, entries, depth, apps, task, services, user>>

\* A directory that cannot be listed, or whose path is too long, stays shut.
FilesOpen ==
  /\ Pressing("FILES")
  /\ memory' = Remembering("FILES", selection)
  /\ \/ entries # 0 /\ screen' = "FILE_VIEW" /\ UNCHANGED <<selection, entries, depth>>
     \/ /\ entries # 0 /\ depth < MaxDepth
        /\ depth' = depth + 1 /\ entries' \in 0 .. MaxEntries /\ selection' = 0
        /\ UNCHANGED screen
     \/ UNCHANGED <<screen, selection, entries, depth>>
  /\ UNCHANGED <<request, apps, task, services, user>>

PickerKey(key) ==
  /\ Pressing("EVIDENCE_PICKER")
  /\ \/ key # "enter" /\ MoveOn("EVIDENCE_PICKER", key)
     \/ /\ key = "enter" /\ selection < entries /\ ~hashing
        /\ hashing' = TRUE
        /\ memory' = Remembering("FILES", selection)
        /\ screen' = "EVIDENCE"
        /\ UNCHANGED <<selection, apps, task, files, running, hosts, results, user>>

-----------------------------------------------------------------------------
(* Escape *)

\* Mutant: leaving the task's screen does not cancel it.
CancelNothing == UNCHANGED <<running, results>>

CancelTask ==
  IF running THEN running' = FALSE /\ results' = Recorded
             ELSE UNCHANGED <<running, results>>

\* A subdirectory goes up one level; listing it may fail.
EscapeDirectory ==
  /\ screen = "FILES" /\ depth > 0
  /\ depth' = depth - 1 /\ entries' \in 0 .. MaxEntries /\ selection' = 0
  /\ UNCHANGED <<screen, memory, request, apps, task, services>>

\* Where the cursor of the screen that Escape returns to comes to stand
Restored(s) ==
  CASE s = "FILES" -> IF selection >= entries THEN 0 ELSE selection
    [] s = "DETAIL" /\ screen # "APP_CONFIG" -> memory["RECON_HISTORY"]
    [] s \in Lists \ {"FILES"} -> memory[s]
    [] OTHER -> 0

\* Mutant: the confirmation always goes back to the place in the apps.
EscapeTaskToApp ==
  /\ screen \in {"RECON_CONFIRM", "RECON_HISTORY", "EVIDENCE_PICKER", "RECON"}
  /\ IF screen = "RECON" THEN CancelTask ELSE UNCHANGED <<running, results>>
  /\ UNCHANGED <<apps, task, files, hashing, hosts>>
  /\ Show(back, IF screen = "RECON_CONFIRM" THEN memory["APPS"] ELSE Restored(back),
          memory)

\* The confirmation sets the cursor of no detail screen, which has none.
EscapeTask ==
  /\ screen \in {"RECON_CONFIRM", "RECON_HISTORY", "EVIDENCE_PICKER", "RECON"}
  /\ IF screen = "RECON" THEN CancelTask ELSE UNCHANGED <<running, results>>
  /\ UNCHANGED <<apps, task, files, hashing, hosts>>
  /\ Show(back, IF screen = "RECON_CONFIRM" /\ back # "HOST_ACTIONS"
                THEN memory["APPS"] ELSE Restored(back), memory)

EscapeEvidence ==
  /\ screen = "EVIDENCE"
  /\ hashing' = FALSE
  /\ UNCHANGED <<apps, task, files, running, hosts, results>>
  /\ Show("APPS", memory["APPS"], memory)

EscapeToParent ==
  /\ screen \notin {"RECON_CONFIRM", "RECON_HISTORY", "EVIDENCE_PICKER",
                     "RECON", "EVIDENCE"}
  /\ screen = "FILES" => depth = 0
  /\ UNCHANGED <<apps, task, files, services>>
  /\ Show(Parent(screen), Restored(Parent(screen)),
          IF screen = "FILES" THEN Remembering("FILES", selection) ELSE memory)

Escape ==
  /\ request = "none"
  /\ EscapeDirectory \/ EscapeTask \/ EscapeEvidence \/ EscapeToParent
  /\ UNCHANGED user

-----------------------------------------------------------------------------
(* What changes under the screens *)

\* Mutant: the cursor is left on a listing that has become shorter.
UpdatedUnder(n, ready) ==
  /\ entries' = IF depth = 0 \/ ~ready THEN n ELSE entries
  /\ UNCHANGED <<screen, selection, memory, depth>>

\* picopen_gui_update_state(), with n entries in the root of the card
Updated(n, ready) ==
  /\ entries' = IF depth = 0 \/ ~ready THEN n ELSE entries
  /\ selection' = IF screen = "FILES" /\ selection >= entries' THEN 0 ELSE selection
  /\ UNCHANGED <<screen, memory, depth>>

TakeRequest ==
  /\ request # "none" /\ request' = "none"
  /\ \/ request = "safe_remove" /\ Updated(0, FALSE)
     \/ request = "rescan" /\ \E n \in 0 .. MaxEntries, ready \in BOOLEAN : Updated(n, ready)
  /\ UNCHANGED <<apps, task, services, user>>

DevicesRefresh ==
  /\ request = "none"
  /\ \E n \in 0 .. MaxEntries, ready \in BOOLEAN : Updated(n, ready)
  /\ UNCHANGED <<request, apps, task, services, user>>

TaskEnds ==
  /\ running /\ running' = FALSE /\ results' = Recorded
  /\ hosts' \in {hosts, Min({MaxHosts, hosts + 1})}
  /\ UNCHANGED <<cursor, apps, task, files, hashing, user>>

EvidenceEnds ==
  /\ hashing /\ hashing' = FALSE
  /\ UNCHANGED <<cursor, apps, task, files, running, hosts, results, user>>

HostSeen ==
  /\ hosts < MaxHosts /\ hosts' = hosts + 1
  /\ UNCHANGED <<cursor, apps, task, files, running, hashing, results, user>>

Leave ==
  /\ ~leaving /\ leaving' = TRUE /\ tour' = tour
  /\ UNCHANGED <<cursor, apps, task, files, services>>

Key(key) ==
  \/ HomeKey(key) \/ SystemKey(key) \/ SettingsKey(key) \/ SkinsKey(key)
  \/ ShutdownKey(key) \/ AppsMove(key) \/ AppsTurn(key) \/ HostsKey(key)
  \/ HostActionsKey(key) \/ HistoryKey(key) \/ ConfigKey(key)
  \/ FilesMove(key) \/ FilesRequest(key) \/ PickerKey(key)

Enter ==
  \/ OpenHomeItem \/ OpenSystemItem \/ OpenApp \/ DetailEnter \/ Confirm
  \/ FilesOpen

Next ==
  \/ \E key \in Keys : Key(key)
  \/ Enter \/ AppsFavorite \/ AppsInfo \/ InfoFavorite
  \/ Escape \/ Leave
  \/ TakeRequest \/ DevicesRefresh \/ TaskEnds \/ EvidenceEnds \/ HostSeen

Spec == Init /\ [][Next]_vars

\* The loop takes a storage request, and a user who wants Home keeps pressing
\* Escape.
FairSpec == Spec /\ WF_vars(TakeRequest) /\ WF_vars(leaving /\ Escape)

-----------------------------------------------------------------------------
(* Properties *)

\* The cursor stands on a line of the screen that Enter would act on, however
\* the screen was entered and whatever its list has become since (gui.c
\* indexes its tables and listings with it unchecked, e.g. :1014, :1364, :1438).
CursorOnScreen ==
  /\ screen \in {"HOME", "SYSTEM", "SECURITY", "UPDATE", "SKINS", "SHUTDOWN",
                 "HOST_ACTIONS"} => selection < Lines(screen)
  /\ screen \in {"APPS", "HOSTS", "RECON_HISTORY", "FILES"} =>
       selection < Lines(screen) \/ selection = 0

\* Work that only its own screen can cancel never outlives the stay on that
\* screen (gui.c:1178-1204).
CancelledWhenLeft ==
  /\ running => screen = "RECON"
  /\ hashing => screen = "EVIDENCE"

\* Escape from a task started from a host leads back to that action of that
\* host, whatever hosts the network has shown meanwhile
\* (gui.c:1164-1191, hosts.c:7-23).
ReturnsToHost ==
  [][(screen \in TaskScreens /\ screen' = "HOST_ACTIONS") =>
       (launched = <<memory'["HOSTS"], selection'>>)]_vars

\* Whoever keeps pressing Escape gets to Home, unless the last task was
\* started from a result (gui.c:1163-1250).
EscapeLeadsHome == leaving /\ back # "DETAIL" ~> screen = "HOME"
=============================================================================
