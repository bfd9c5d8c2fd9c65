--------------------------- MODULE ServicesProofs ----------------------------
(***************************************************************************)
(* What holds of the settings in flash for any preferences, PINs and       *)
(* passwords and any number of failures, whatever fails or is cut: types,  *)
(* that files are replaced whole (the refinement of FileStore), that a     *)
(* restart keeps the preferences, that OK means kept, and that no LockTime *)
(* sees more than MaxFailures wrong PINs.  After it, what holds of the     *)
(* Wi-Fi service for any networks, any size of the list and any waits, and *)
(* of the inventory of hosts for any addresses and any room.               *)
(*                                                                         *)
(* The inductive invariant of the settings says what a call on the file    *)
(* system has done when it is at each of its steps (JobInv), that whoever  *)
(* is not mounted holds no files (FlashInv), and where memory and flash    *)
(* agree while no call is at work on the file (MemoryHolds, OkInv).  What   *)
(* the code counts of wrong PINs is related to the times they came in      *)
(* PinInv.                                                                 *)
(***************************************************************************)
EXTENDS Settings, Wifi, Hosts, FiniteSetTheorems, SequenceTheorems,
        WellFoundedInduction, TLAPS

Contents == SettingsFiles \union VaultFiles \union {Foreign, Newer}

OfPath(p) == IF p = "settings" THEN SettingsFiles ELSE VaultFiles

FlashInv ==
  /\ flash \in [formatted : BOOLEAN, files : [Paths -> Contents \union {Absent}],
                temporary : {"absent", "partial", "whole"}]
  /\ \A p \in Paths : flash.files[p] \in OfPath(p) \union Unreadable
  /\ mounted \in {"ready", "uninitialized", "corrupt"}
  /\ IF mounted = "ready" THEN flash.formatted ELSE flash.files = Blank

Replacing == /\ job.path \in Paths /\ job.content \in OfPath(job.path)
             /\ job.step \in {"open", "write", "rename", "done", "failed"}
             /\ job.step # "failed" => mounted = "ready"
             /\ job.step = "rename" => flash.temporary = "whole"
             /\ job.step = "done" => flash.files[job.path] = job.content

Removing == /\ job.path = "vault" /\ job.step \in {"remove", "done", "failed"}
            /\ job.step # "failed" => mounted = "ready"

Formatting == /\ job.path = Absent /\ job.step \in {"format", "mount", "done", "failed"}
              /\ job.step \in {"format", "mount"} => mounted # "ready"
              /\ job.step = "mount" => flash.formatted

JobInv ==
  /\ job \in [call : {"none", "replace", "remove", "format"}, path : Paths \union {Absent},
              content : Contents \union {Absent},
              step : {"none", "open", "write", "rename", "remove", "format", "mount",
                      "done", "failed"}]
  /\ job.call = "none" => job = NoJob
  /\ job.call = "replace" => Replacing
  /\ job.call = "remove" => Removing
  /\ job.call = "format" => Formatting

FsInv == FlashInv /\ JobInv

RamTypes ==
  /\ preferences \in Preferences
  /\ failures \in 0 .. MaxFailures - 1
  /\ lockLeft \in 0 .. LockTime
  /\ form \in Form
  /\ vaultResult \in {"OK", "EMPTY", "LOCKED", "BAD PIN", "STORAGE", "INVALID"}
  /\ refused \in BOOLEAN

\* Memory is what a restart would read, or what the call under way writes.
MemoryHolds ==
  IF job.path = "settings" THEN job.call = "replace" /\ job.content = Version3(preferences)
  ELSE ~refused => preferences = Loaded(flash.files["settings"])

OkInv ==
  vaultResult = "OK" =>
    mounted = "ready" /\ (job.path # "vault" => flash.files["vault"] \in VaultFiles)

SettingsInv == FsInv /\ RamTypes /\ MemoryHolds /\ OkInv

----------------------------------------------------------------------------
(* The file system's own steps. *)

LEMMA PathFacts == /\ "settings" \in Paths /\ "vault" \in Paths
                   /\ Absent # "settings" /\ Absent # "vault"
                   /\ \A p \in Paths : p = "settings" \/ p = "vault"
                   /\ \A p \in Paths : OfPath(p) \subseteq Contents
BY SettingsAssumption, FsAssumption DEF OfPath, Contents

\* What a step of a call leaves alone.
LEMMA FsFrame ==
  ASSUME FsInv, FsStep
  PROVE  /\ FsInv'
         /\ job'.path = job.path /\ job'.content = job.content /\ job'.call = job.call
         /\ mounted = "ready" => mounted' = "ready"
         /\ \A p \in Paths : p # job.path => flash'.files[p] = flash.files[p]
<1>. USE DEF FsInv, FlashInv, JobInv, Goes, Fails
<1>1. CASE Opens
  <2>1. job.call = "replace" /\ UNCHANGED mounted
    BY <1>1 DEF Opens, Removing, Formatting, NoJob
  <2>2. flash'.files = flash.files /\ flash'.formatted = flash.formatted
    BY <1>1 DEF Opens
  <2>3. job' \in {[job EXCEPT !.step = "failed"], [job EXCEPT !.step = "write"]}
    BY <1>1 DEF Opens
  <2>4. FlashInv'
    BY <1>1, <2>1, <2>2 DEF Opens
  <2>5. Replacing'
    BY <1>1, <2>1, <2>2, <2>3 DEF Opens, Replacing
  <2>. QED BY <2>1, <2>2, <2>3, <2>4, <2>5
<1>2. CASE Writes
  <2>1. job.call = "replace" /\ UNCHANGED mounted
    BY <1>2 DEF Writes, Removing, Formatting, NoJob
  <2>2. flash'.files = flash.files /\ flash'.formatted = flash.formatted
    BY <1>2 DEF Writes
  <2>3. \/ job' = [job EXCEPT !.step = "failed"]
        \/ job' = [job EXCEPT !.step = "rename"] /\ flash'.temporary = "whole"
    BY <1>2 DEF Writes
  <2>4. FlashInv'
    BY <1>2, <2>1, <2>2 DEF Writes
  <2>5. Replacing'
    BY <1>2, <2>1, <2>2, <2>3 DEF Writes, Replacing
  <2>. QED BY <2>1, <2>2, <2>3, <2>4, <2>5
<1>3. CASE Renames
  <2>1. job.call = "replace" /\ UNCHANGED mounted
    BY <1>3 DEF Renames, Removing, Formatting, NoJob
  <2>2. Replacing /\ job.step = "rename"
    BY <1>3, <2>1 DEF Renames
  <2>3. CASE Fails /\ UNCHANGED flash
    BY <2>1, <2>2, <2>3 DEF Replacing
  <2>4. CASE Goes("done") /\ ~(Fails /\ UNCHANGED flash)
    <3>1. flash' = [flash EXCEPT !.files[job.path] = job.content, !.temporary = "absent"]
      BY <1>3, <2>2, <2>4 DEF Renames, Replacing
    <3>2. job.path \in Paths /\ job.content \in OfPath(job.path) /\ job.content \in Contents
      BY <2>2, PathFacts DEF Replacing
    <3>3. flash'.files = [flash.files EXCEPT ![job.path] = job.content]
          /\ flash'.formatted = flash.formatted /\ mounted = "ready"
      BY <3>1, <2>2 DEF Replacing
    <3>4. FlashInv'
      BY <3>1, <3>2, <3>3, <2>1
    <3>5. Replacing'
      BY <3>2, <3>3, <2>1, <2>4 DEF Replacing
    <3>. QED BY <3>3, <3>4, <3>5, <2>1, <2>4
  <2>. QED BY <1>3, <2>3, <2>4 DEF Renames
<1>4. CASE Removes
  <2>1. job.call = "remove" /\ UNCHANGED mounted
    BY <1>4 DEF Removes, Replacing, Formatting, NoJob
  <2>2. job.path = "vault" /\ mounted = "ready" /\ job.path \in Paths
    BY <1>4, <2>1, PathFacts DEF Removes, Removing
  <2>3. flash'.files \in {flash.files, [flash.files EXCEPT ![job.path] = Absent]}
        /\ flash'.formatted = flash.formatted
    BY <1>4 DEF Removes
  <2>4. FlashInv'
    BY <1>4, <2>1, <2>2, <2>3 DEF Removes, Unreadable
  <2>5. Removing'
    BY <1>4, <2>1, <2>2 DEF Removes, Removing
  <2>. QED BY <1>4, <2>1, <2>3, <2>2, <2>4, <2>5 DEF Removes
<1>5. CASE Formats
  <2>1. job.call = "format" /\ mounted # "ready" /\ job.path = Absent
    BY <1>5 DEF Formats, Replacing, Removing, Formatting, NoJob
  <2>2. flash'.files = flash.files /\ mounted' \in {mounted, "corrupt"}
    BY <1>5, <2>1 DEF Formats, Blank
  <2>3. FlashInv'
    <3>1. flash' \in {flash, [formatted |-> TRUE, files |-> flash.files,
                             temporary |-> "absent"]}
      BY <1>5, <2>1 DEF Formats
    <3>2. flash' \in [formatted : BOOLEAN, files : [Paths -> Contents \union {Absent}],
                      temporary : {"absent", "partial", "whole"}]
      <4>1. flash.files \in [Paths -> Contents \union {Absent}]
        OBVIOUS
      <4>2. CASE flash' = flash
        BY <4>2
      <4>3. CASE flash' = [formatted |-> TRUE, files |-> flash.files, temporary |-> "absent"]
        BY <4>1, <4>3, Zenon
      <4>. QED BY <3>1, <4>2, <4>3
    <3>. QED BY <2>1, <2>2, <3>2
  <2>4. Formatting'
    BY <1>5, <2>1, <2>2 DEF Formats, Formatting
  <2>. QED BY <1>5, <2>1, <2>2, <2>3, <2>4 DEF Formats
<1>6. CASE Mounts
  <2>1. job.call = "format" /\ mounted # "ready" /\ job.path = Absent /\ flash.formatted
    BY <1>6 DEF Mounts, Replacing, Removing, Formatting, NoJob
  <2>2. FlashInv'
    BY <1>6, <2>1 DEF Mounts
  <2>3. Formatting'
    BY <1>6, <2>1 DEF Mounts, Formatting
  <2>. QED BY <1>6, <2>1, <2>2, <2>3 DEF Mounts
<1>. QED BY <1>1, <1>2, <1>3, <1>4, <1>5, <1>6 DEF FsStep

----------------------------------------------------------------------------
(* What is read of a file. *)

\* Every field of a record of this version is read, and the defaults of what is
\* no record of ours.
LEMMA LoadedFacts ==
  /\ \A f \in SettingsFiles \union Unreadable : Loaded(f) \in Preferences
  /\ \A p \in Preferences : Version3(p) \in SettingsFiles /\ Loaded(Version3(p)) = p
<1>1. Defaults \in Preferences
  BY SettingsAssumption DEF Defaults, Preferences
<1>2. ASSUME NEW p \in Preferences
      PROVE  Version3(p) \in SettingsFiles /\ Loaded(Version3(p)) = p
  <2>1. Version3(p) \in SettingsFiles /\ Version3(p) \notin Unreadable
    BY MarkersAssumption DEF SettingsFiles
  <2>2. Version3(p).version = 3 /\ Version3(p).skin = p.skin /\ Version3(p).apps = p.apps
    BY DEF Version3
  <2>3. Loaded(Version3(p)) = [skin |-> p.skin, apps |-> p.apps]
    BY <2>1, <2>2 DEF Loaded
  <2>. QED BY <2>1, <2>3 DEF Preferences
<1>3. ASSUME NEW v \in Values
      PROVE  Loaded(Version2(v)) \in Preferences
  <2>1. Version2(v).version = 2 /\ Version2(v).skin = v
    BY DEF Version2
  <2>2. Loaded(Version2(v)) \in {Defaults, [Defaults EXCEPT !.skin = v]}
    BY <2>1 DEF Loaded
  <2>. QED BY <1>1, <2>2 DEF Preferences
<1>4. ASSUME NEW f \in SettingsFiles \union Unreadable
      PROVE  Loaded(f) \in Preferences
  BY <1>1, <1>2, <1>3 DEF SettingsFiles, Loaded
<1>. QED BY <1>2, <1>4

\* A start from any flash, the first or one after a power cut.
LEMMA StartFacts ==
  ASSUME FlashInv, Starts(flash), UNCHANGED flash
  PROVE  /\ SettingsInv'
         /\ preferences' = Loaded(flash.files["settings"])
<1>1. FlashInv' /\ job' = NoJob
  BY DEF FlashInv, Starts, Mounting
<1>2. JobInv'
  BY <1>1 DEF JobInv, NoJob
<1>3. preferences' = Loaded(flash.files["settings"])
  <2>1. CASE mounted' = "ready"
    BY <2>1 DEF Starts
  <2>2. CASE mounted' # "ready"
    BY <1>1, <2>2, PathFacts DEF Starts, FlashInv, Blank
  <2>. QED BY <2>1, <2>2
<1>4. RamTypes'
  <2>1. preferences' \in Preferences
    BY <1>3, LoadedFacts, PathFacts DEF FlashInv, OfPath
  <2>2. failures' \in 0 .. MaxFailures - 1 /\ lockLeft' \in 0 .. LockTime
    BY SettingsAssumption DEF Starts
  <2>3. form' \in Form
    BY DEF Starts, EmptyForm, Form
  <2>4. refused' \in BOOLEAN /\ vaultResult' = "EMPTY"
    BY DEF Starts
  <2>. QED BY <2>1, <2>2, <2>3, <2>4 DEF RamTypes
<1>5. MemoryHolds'
  <2>1. job'.path # "settings"
    BY <1>1, PathFacts DEF NoJob
  <2>. QED BY <1>3, <2>1 DEF MemoryHolds
<1>6. OkInv'
  BY DEF OkInv, Starts
<1>. QED BY <1>1, <1>2, <1>3, <1>4, <1>5, <1>6 DEF SettingsInv, FsInv

----------------------------------------------------------------------------
(* Calls. *)

LEMMA ReplaceFacts ==
  ASSUME FsInv, Idle, NEW p \in Paths, NEW c \in OfPath(p), Replace(p, c),
         UNCHANGED <<flash, mounted>>
  PROVE  FsInv' /\ job'.path = p /\ job'.content = c /\ job'.call = "replace"
<1>1. c \in Contents
  BY PathFacts
<1>2. FlashInv'
  BY DEF FsInv, FlashInv
<1>3. job' = [call |-> "replace", path |-> p, content |-> c,
              step |-> IF mounted = "ready" THEN "open" ELSE "failed"]
  BY DEF Replace, Call
<1>. QED BY <1>1, <1>2, <1>3 DEF FsInv, JobInv, Replacing

LEMMA RemoveFacts ==
  ASSUME FsInv, Idle, Remove("vault"), UNCHANGED <<flash, mounted>>
  PROVE  FsInv' /\ job'.path = "vault"
<1>1. FlashInv'
  BY DEF FsInv, FlashInv
<1>2. job' = [call |-> "remove", path |-> "vault", content |-> Absent,
              step |-> IF mounted = "ready" THEN "remove" ELSE "failed"]
  BY DEF Remove, Call
<1>. QED BY <1>1, <1>2, PathFacts DEF FsInv, JobInv, Removing

LEMMA FormatFacts ==
  ASSUME FsInv, Idle, Format, UNCHANGED <<flash, mounted>>
  PROVE  FsInv' /\ job'.path = Absent
<1>1. FlashInv'
  BY DEF FsInv, FlashInv
<1>2. job' = [call |-> "format", path |-> Absent, content |-> Absent,
              step |-> IF mounted = "ready" THEN "failed" ELSE "format"]
  BY DEF Format, NoJob
<1>. QED BY <1>1, <1>2 DEF FsInv, JobInv, Formatting

LEMMA EndFacts ==
  ASSUME FsInv, job' = NoJob, UNCHANGED <<flash, mounted>>
  PROVE  FsInv' /\ job'.path = Absent
BY DEF FsInv, FlashInv, JobInv, NoJob

----------------------------------------------------------------------------
(* Every step keeps the invariant. *)

\* A step that leaves the flash, the job and the preferences alone.
LEMMA ScreenKeeps ==
  ASSUME SettingsInv, UNCHANGED <<flash, mounted, job, preferences, refused>>, RamTypes',
         vaultResult' = "OK" =>
           \/ vaultResult = "OK"
           \/ mounted = "ready" /\ flash.files["vault"] \in VaultFiles
  PROVE  SettingsInv'
<1>1. FsInv'
  BY DEF SettingsInv, FsInv, FlashInv, JobInv, fsVars, Replacing, Removing, Formatting
<1>2. MemoryHolds'
  BY DEF SettingsInv, MemoryHolds, fsVars
<1>3. OkInv'
  BY DEF SettingsInv, OkInv, fsVars
<1>. QED BY <1>1, <1>2, <1>3 DEF SettingsInv

LEMMA TicksStep ==
  ASSUME SettingsInv, LockTicks
  PROVE  SettingsInv'
<1>1. /\ lockLeft' = (IF lockLeft > 0 THEN lockLeft - 1 ELSE 0)
      /\ UNCHANGED <<fsVars, preferences, failures, form, vaultResult, refused>>
  BY Zenon DEF LockTicks
<1>2. lockLeft \in 0 .. LockTime
  BY DEF SettingsInv, RamTypes
<1>3. lockLeft' \in 0 .. LockTime
  BY <1>1, <1>2, SettingsAssumption
<1>4. RamTypes'
  BY <1>1, <1>3 DEF SettingsInv, RamTypes
<1>5. UNCHANGED <<flash, mounted, job, preferences, refused, vaultResult>>
  BY <1>1 DEF fsVars
<1>. QED BY <1>4, <1>5, ScreenKeeps

LEMMA FsKeeps ==
  ASSUME SettingsInv, FsStep, UNCHANGED ram
  PROVE  SettingsInv'
<1>1. /\ FsInv'
      /\ job'.path = job.path /\ job'.content = job.content /\ job'.call = job.call
      /\ mounted = "ready" => mounted' = "ready"
      /\ \A p \in Paths : p # job.path => flash'.files[p] = flash.files[p]
  BY FsFrame DEF SettingsInv
<1>2. RamTypes'
  BY DEF SettingsInv, RamTypes, ram
<1>3. MemoryHolds'
  <2>1. CASE job.path = "settings"
    BY <1>1, <2>1 DEF SettingsInv, MemoryHolds, ram
  <2>2. CASE job.path # "settings"
    <3>1. flash'.files["settings"] = flash.files["settings"]
      BY <1>1, <2>2, PathFacts
    <3>. QED BY <1>1, <2>2, <3>1 DEF SettingsInv, MemoryHolds, ram
  <2>. QED BY <2>1, <2>2
<1>4. OkInv'
  BY <1>1, PathFacts DEF SettingsInv, OkInv, ram
<1>. QED BY <1>1, <1>2, <1>3, <1>4 DEF SettingsInv

LEMMA PreferenceStep ==
  ASSUME SettingsInv, NEW field \in {"skin", "apps"}, NEW v \in Values,
         SetPreference(field, v)
  PROVE  SettingsInv'
<1>1. preferences' \in Preferences
  BY DEF SettingsInv, RamTypes, SetPreference, Preferences
<1>2. Version3(preferences') \in OfPath("settings")
  BY <1>1, LoadedFacts DEF OfPath
<1>3. FsInv' /\ job'.path = "settings" /\ job'.call = "replace"
      /\ job'.content = Version3(preferences')
  BY <1>2, ReplaceFacts, PathFacts DEF SettingsInv, SetPreference
<1>4. RamTypes'
  BY <1>1 DEF SettingsInv, RamTypes, SetPreference
<1>5. MemoryHolds'
  BY <1>3 DEF MemoryHolds
<1>6. OkInv'
  <2>1. job.path = Absent
    BY DEF SetPreference, Idle, NoJob
  <2>. QED BY <2>1, PathFacts DEF SettingsInv, OkInv, SetPreference
<1>. QED BY <1>3, <1>4, <1>5, <1>6 DEF SettingsInv

LEMMA SavedStep ==
  ASSUME SettingsInv, PreferenceSaved
  PROVE  SettingsInv'
<1>1. FsInv' /\ job'.path = Absent
  BY EndFacts DEF SettingsInv, PreferenceSaved
<1>2. job.path = "settings" /\ job.call = "replace" /\ job.content = Version3(preferences)
  BY DEF SettingsInv, MemoryHolds, PreferenceSaved
<1>3. RamTypes'
  <2>1. refused' \in BOOLEAN
    BY DEF PreferenceSaved
  <2>. QED BY <2>1 DEF SettingsInv, RamTypes, PreferenceSaved
<1>4. MemoryHolds'
  <2>1. job.step = "done" => flash.files["settings"] = Version3(preferences)
    BY <1>2 DEF SettingsInv, FsInv, JobInv, Replacing
  <2>2. ~refused' => job.step = "done"
    BY DEF PreferenceSaved
  <2>3. Loaded(Version3(preferences)) = preferences
    BY LoadedFacts DEF SettingsInv, RamTypes
  <2>4. flash' = flash /\ preferences' = preferences
    BY DEF PreferenceSaved
  <2>. QED BY <1>1, <2>1, <2>2, <2>3, <2>4, PathFacts DEF MemoryHolds
<1>5. OkInv'
  BY <1>2 DEF SettingsInv, OkInv, PreferenceSaved
<1>. QED BY <1>1, <1>3, <1>4, <1>5 DEF SettingsInv

\* A key of the Wi-Fi screen that only starts a call.
LEMMA CallStep ==
  ASSUME SettingsInv, Idle, UNCHANGED <<flash, mounted, ram>>,
         Format \/ Remove("vault")
  PROVE  SettingsInv'
<1>1. FsInv' /\ job'.path \in {Absent, "vault"}
  BY FormatFacts, RemoveFacts DEF SettingsInv
<1>2. job.path = Absent
  BY DEF Idle, NoJob
<1>3. RamTypes'
  BY DEF SettingsInv, RamTypes, ram
<1>4. MemoryHolds' /\ OkInv'
  BY <1>1, <1>2, PathFacts DEF SettingsInv, MemoryHolds, OkInv, ram
<1>. QED BY <1>1, <1>3, <1>4 DEF SettingsInv

LEMMA InitializedStep ==
  ASSUME SettingsInv, StoreInitialized
  PROVE  SettingsInv'
<1>1. FsInv' /\ job'.path = Absent
  BY EndFacts DEF SettingsInv, StoreInitialized
<1>2. job.path = Absent
  BY DEF SettingsInv, FsInv, JobInv, Formatting, StoreInitialized
<1>3. RamTypes'
  BY DEF SettingsInv, RamTypes, ram, StoreInitialized
<1>4. MemoryHolds' /\ OkInv'
  BY <1>1, <1>2, PathFacts DEF SettingsInv, MemoryHolds, OkInv, ram, StoreInitialized
<1>. QED BY <1>1, <1>3, <1>4 DEF SettingsInv

\* What the form may hold after any answer of the vault.
LEMMA AnswerTypes ==
  ASSUME NEW named \in BOOLEAN, NEW password \in Passwords \union {NoPassword}
  PROVE  [named |-> named, password |-> password, pin |-> ShortPin] \in Form
BY DEF Form

\* An answer that counts nothing and is not OK.
LEMMA KeepingTypes ==
  ASSUME RamTypes, NothingCounted, UNCHANGED <<preferences, refused>>,
         NEW result \in {"OK", "EMPTY", "LOCKED", "BAD PIN", "STORAGE", "INVALID"},
         Keeping(result)
  PROVE  RamTypes' /\ vaultResult' = result
<1>1. form' \in Form
  BY AnswerTypes DEF Keeping, Answers, RamTypes, Form
<1>. QED BY <1>1 DEF RamTypes, NothingCounted, Keeping, Answers

LEMMA LoadStep ==
  ASSUME SettingsInv, LoadSaved
  PROVE  SettingsInv'
<1>1. UNCHANGED <<flash, mounted, job, preferences, refused>>
  BY Zenon DEF LoadSaved, fsVars
<1> DEFINE record == Reading("vault")
<1>2. mounted = "ready" /\ record = flash.files["vault"]
  BY DEF LoadSaved, Present, Reading
<1>3. CASE Keeping("LOCKED") /\ NothingCounted
  BY <1>1, <1>3, KeepingTypes, ScreenKeeps DEF SettingsInv
<1>4. CASE Keeping("INVALID") /\ NothingCounted
  BY <1>1, <1>4, KeepingTypes, ScreenKeeps DEF SettingsInv
<1>5. CASE Keeping("BAD PIN") /\ BadPin
  <2>1. form' \in Form /\ vaultResult' = "BAD PIN"
    BY <1>5, AnswerTypes DEF SettingsInv, RamTypes, Form, Keeping, Answers
  <2>2. failures \in 0 .. MaxFailures - 1 /\ lockLeft \in 0 .. LockTime
    BY DEF SettingsInv, RamTypes
  <2>3. failures' \in 0 .. MaxFailures - 1 /\ lockLeft' \in 0 .. LockTime
    <3>1. CASE failures + 1 >= MaxFailures
      <4>1. failures' = 0 /\ lockLeft' = LockTime
        BY <1>5, <3>1, Zenon DEF BadPin
      <4>. QED BY <4>1, SettingsAssumption
    <3>2. CASE ~(failures + 1 >= MaxFailures)
      <4>1. failures' = failures + 1 /\ lockLeft' = lockLeft
        BY <1>5, <3>2, Zenon DEF BadPin
      <4>. QED BY <2>2, <3>2, <4>1, SettingsAssumption
    <3>. QED BY <3>1, <3>2
  <2>4. RamTypes'
    BY <1>1, <2>1, <2>3 DEF SettingsInv, RamTypes
  <2>. QED BY <1>1, <2>1, <2>4, ScreenKeeps
<1>6. CASE /\ record # Newer
           /\ Answers("OK", TRUE, record.password) /\ RightPin
  <2>1. record \in VaultFiles
    BY <1>2, <1>6, PathFacts
    DEF SettingsInv, FsInv, FlashInv, OfPath, Unreadable, LoadSaved, Present
  <2>2. record.password \in Passwords \union {NoPassword}
    BY <2>1 DEF VaultFiles, Sealed
  <2>3. form' \in Form /\ vaultResult' = "OK"
    BY <1>6, <2>2, AnswerTypes DEF Answers
  <2>4. failures' \in 0 .. MaxFailures - 1 /\ lockLeft' \in 0 .. LockTime
    BY <1>6, SettingsAssumption DEF RightPin
  <2>5. RamTypes'
    BY <1>1, <2>3, <2>4 DEF SettingsInv, RamTypes
  <2>. QED BY <1>1, <1>2, <2>1, <2>5, ScreenKeeps
<1>. QED BY <1>3, <1>4, <1>5, <1>6, Zenon DEF LoadSaved

LEMMA RememberStep ==
  ASSUME SettingsInv, Remember
  PROVE  SettingsInv'
<1>0. UNCHANGED <<flash, mounted, preferences, refused>> /\ NothingCounted /\ job.path = Absent
  BY DEF Remember, Idle, NoJob
<1>1. CASE UNCHANGED job
  <2>1. Keeping("INVALID") \/ Keeping("STORAGE")
    BY <1>1 DEF Remember, Replace, Call, Idle, NoJob
  <2>2. RamTypes' /\ vaultResult' # "OK"
    BY <1>0, <2>1, KeepingTypes DEF SettingsInv
  <2>. QED BY <1>0, <1>1, <2>2, ScreenKeeps
<1>2. CASE ~UNCHANGED job
  <2>1. /\ form.pin # ShortPin
        /\ Replace("vault", Sealed(form.pin, form.password))
        /\ UNCHANGED <<form, vaultResult>>
    BY <1>2 DEF Remember
  <2>2. Sealed(form.pin, form.password) \in OfPath("vault")
    <3>1. form.pin \in Pins /\ form.password \in Passwords \union {NoPassword}
      BY <2>1 DEF SettingsInv, RamTypes, Form
    <3>2. Sealed(form.pin, form.password) \in VaultFiles
      BY <3>1 DEF VaultFiles, Sealed
    <3>. QED BY <3>2 DEF OfPath
  <2>3. FsInv' /\ job'.path = "vault"
    BY <1>0, <2>1, <2>2, ReplaceFacts, PathFacts DEF SettingsInv, Remember
  <2>4. RamTypes'
    BY <1>0, <2>1 DEF SettingsInv, RamTypes, NothingCounted
  <2>5. MemoryHolds' /\ OkInv'
    BY <1>0, <2>1, <2>3, PathFacts DEF SettingsInv, MemoryHolds, OkInv
  <2>. QED BY <2>3, <2>4, <2>5 DEF SettingsInv
<1>. QED BY <1>1, <1>2

\* A call on the record of credentials ends: it is in flash if the screen says so.
LEMMA RememberedStep ==
  ASSUME SettingsInv, Remembered
  PROVE  SettingsInv'
<1>0. UNCHANGED <<flash, mounted, preferences, refused>> /\ NothingCounted /\ job.path = "vault"
  BY DEF Remembered
<1>1. FsInv' /\ job'.path = Absent
  BY EndFacts DEF SettingsInv, Remembered
<1>2. RamTypes' /\ vaultResult' = IF job.step = "done" THEN "OK" ELSE "STORAGE"
  BY <1>0, KeepingTypes DEF SettingsInv, Remembered
<1>3. MemoryHolds'
  BY <1>0, <1>1, PathFacts DEF SettingsInv, MemoryHolds
<1>4. job.step = "done" => mounted = "ready" /\ flash.files["vault"] \in VaultFiles
  BY <1>0 DEF SettingsInv, FsInv, JobInv, Replacing, OfPath, Remembered
<1>5. OkInv'
  BY <1>0, <1>2, <1>4 DEF OkInv
<1>. QED BY <1>1, <1>2, <1>3, <1>5 DEF SettingsInv

LEMMA ForgottenStep ==
  ASSUME SettingsInv, Forgotten
  PROVE  SettingsInv'
<1>0. UNCHANGED <<flash, mounted, preferences, refused>> /\ NothingCounted
  BY DEF Forgotten
<1>1. FsInv' /\ job'.path = Absent
  BY EndFacts DEF SettingsInv, Forgotten
<1>2. form' \in Form /\ vaultResult' = "EMPTY"
  BY AnswerTypes DEF SettingsInv, RamTypes, Form, Forgotten, Answers
<1>3. RamTypes'
  BY <1>0, <1>2 DEF SettingsInv, RamTypes, NothingCounted
<1>4. job.path = "vault"
  BY DEF SettingsInv, FsInv, JobInv, Removing, Forgotten
<1>5. MemoryHolds' /\ OkInv'
  BY <1>0, <1>1, <1>2, <1>4, PathFacts DEF SettingsInv, MemoryHolds, OkInv
<1>. QED BY <1>1, <1>3, <1>5 DEF SettingsInv

LEMMA FormStep ==
  ASSUME SettingsInv, (\E f \in Form : Types(f)) \/ ConnectPressed
  PROVE  SettingsInv'
<1>1. form' \in Form
  BY DEF SettingsInv, RamTypes, Form, Types, ConnectPressed
<1>2. UNCHANGED <<flash, mounted, job, preferences, failures, lockLeft, vaultResult, refused>>
  BY DEF Types, ConnectPressed, fsVars
<1>3. RamTypes'
  BY <1>1, <1>2 DEF SettingsInv, RamTypes
<1>. QED BY <1>2, <1>3, ScreenKeeps

LEMMA NextKeeps ==
  ASSUME SettingsInv, [SettingsNext]_settingsVars
  PROVE  SettingsInv'
<1>1. CASE PowerCut
  BY <1>1, StartFacts DEF PowerCut, SettingsInv, FsInv
<1>2. CASE FsStep /\ UNCHANGED ram
  BY <1>2, FsKeeps
<1>3. ASSUME NEW field \in {"skin", "apps"}, NEW v \in Values, SetPreference(field, v)
      PROVE  SettingsInv'
  BY <1>3, PreferenceStep
<1>4. CASE (\E f \in Form : Types(f)) \/ ConnectPressed
  BY <1>4, FormStep
<1>5. CASE InitializeStore \/ ForgetSaved
  BY <1>5, CallStep DEF InitializeStore, ForgetSaved
<1>6. CASE UNCHANGED settingsVars
  <2>1. UNCHANGED <<flash, mounted, job, preferences, failures, lockLeft, form,
                    vaultResult, refused>>
    BY <1>6 DEF settingsVars, fsVars, ram
  <2>2. RamTypes'
    BY <2>1 DEF SettingsInv, RamTypes
  <2>. QED BY <2>1, <2>2, ScreenKeeps
<1>. QED
  BY <1>1, <1>2, <1>3, <1>4, <1>5, <1>6, TicksStep, SavedStep, InitializedStep,
     LoadStep, RememberStep, RememberedStep, ForgottenStep DEF SettingsNext

LEMMA InitHolds == SettingsInit => SettingsInv
<1>. SUFFICES ASSUME SettingsInit PROVE SettingsInv
  OBVIOUS
<1> DEFINE WellFormed ==
      /\ flash \in [formatted : BOOLEAN, files : [Paths -> Contents \union {Absent}],
                    temporary : {"absent", "partial", "whole"}]
      /\ \A p \in Paths : flash.files[p] \in OfPath(p) \union Unreadable
      /\ ~flash.formatted => flash.files = Blank
<1>1. WellFormed
  <2>1. CASE flash = [formatted |-> FALSE, files |-> Blank, temporary |-> "absent"]
    BY <2>1 DEF Blank, Unreadable
  <2>2. ASSUME NEW s \in SettingsFiles \union {Absent, Foreign},
               NEW v \in VaultFiles \union {Absent, Newer},
               flash = [formatted |-> TRUE, temporary |-> "absent",
                        files |-> [p \in Paths |-> IF p = "settings" THEN s ELSE v]]
        PROVE  WellFormed
    BY <2>2 DEF Contents, OfPath, Unreadable
  <2>3. \/ flash = [formatted |-> FALSE, files |-> Blank, temporary |-> "absent"]
        \/ \E s \in SettingsFiles \union {Absent, Foreign}, v \in VaultFiles \union {Absent, Newer} :
             flash = [formatted |-> TRUE, temporary |-> "absent",
                      files |-> [p \in Paths |-> IF p = "settings" THEN s ELSE v]]
    BY DEF SettingsInit, Delivered
  <2>. HIDE DEF WellFormed
  <2>. QED BY <2>1, <2>2, <2>3, Zenon
<1>2. FlashInv
  <2>1. mounted \in Mounting(flash)
    BY DEF SettingsInit
  <2>. QED BY <1>1, <2>1 DEF FlashInv, Mounting
<1>3. JobInv
  BY DEF JobInv, SettingsInit, NoJob
<1>4. preferences = Loaded(flash.files["settings"])
  BY <1>2, PathFacts DEF SettingsInit, Reading, FlashInv, Blank
<1>5. RamTypes
  <2>1. preferences \in Preferences
    BY <1>2, <1>4, LoadedFacts, PathFacts DEF FlashInv, OfPath
  <2>2. failures \in 0 .. MaxFailures - 1 /\ lockLeft \in 0 .. LockTime
    BY SettingsAssumption DEF SettingsInit
  <2>3. form \in Form
    BY DEF SettingsInit, EmptyForm, Form
  <2>4. refused \in BOOLEAN /\ vaultResult = "EMPTY"
    BY DEF SettingsInit
  <2>. QED BY <2>1, <2>2, <2>3, <2>4 DEF RamTypes
<1>6. MemoryHolds /\ OkInv
  BY <1>4, PathFacts DEF SettingsInit, MemoryHolds, OkInv, NoJob
<1>. QED BY <1>2, <1>3, <1>5, <1>6 DEF SettingsInv, FsInv

LEMMA Invariant == SettingsSpec => []SettingsInv
BY InitHolds, NextKeeps, PTL DEF SettingsSpec

----------------------------------------------------------------------------
(* What follows from it. *)

\* Whatever fails or is cut, files stay what some version wrote, and memory,
\* form and lock what they may be.
THEOREM TypeCorrect == SettingsSpec => []SettingsTypeOK
<1>1. SettingsInv => SettingsTypeOK
  BY PathFacts DEF SettingsInv, FsInv, FlashInv, RamTypes, OfPath, SettingsTypeOK
<1>. QED BY Invariant, <1>1, PTL

\* A save that failed at any of its steps is not reported as kept
\* (wifi_vault.c:65-84, gui.c:1597-1601).
THEOREM OkIsKeptHolds == SettingsSpec => []OkIsKept
<1>1. SettingsInv => OkIsKept
  BY PathFacts DEF SettingsInv, OkInv, OkIsKept, Idle, NoJob
<1>. QED BY Invariant, <1>1, PTL

\* A restart brings back the preferences that the user sees, unless their last
\* save was refused or is the one that was cut (preferences.c:33-66).
THEOREM RestartKeepsHolds == SettingsSpec => RestartKeeps
<1>1. ASSUME SettingsInv, PowerCut, Idle, ~refused
      PROVE  preferences' = preferences
  <2>1. preferences' = Loaded(flash.files["settings"])
    BY <1>1, StartFacts DEF PowerCut, SettingsInv, FsInv
  <2>2. job.path # "settings"
    BY <1>1, PathFacts DEF Idle, NoJob
  <2>. QED BY <1>1, <2>1, <2>2 DEF SettingsInv, MemoryHolds
<1>. QED BY Invariant, <1>1, PTL DEF SettingsSpec, RestartKeeps

LEMMA StoreInit == SettingsInv => Store!Init
BY DEF SettingsInv, FsInv, FlashInv, Contents, Blank, Store!Init, Store!Blank

\* Each step on the flash is one of the store's, or one that its files do not show.
LEMMA StoreNext ==
  ASSUME SettingsInv, [SettingsNext]_settingsVars
  PROVE  [Store!Next]_<<flash.formatted, flash.files>>
<1>. USE DEF SettingsInv, FsInv, FlashInv, JobInv, Goes, Fails
<1>1. CASE UNCHANGED flash
  BY <1>1
<1>2. CASE Opens \/ Writes
  BY <1>2 DEF Opens, Writes
<1>3. CASE Renames /\ ~UNCHANGED flash
  <2>1. job.call = "replace" /\ job.step = "rename"
    BY <1>3 DEF Renames, Removing, Formatting, NoJob
  <2>2. Replacing
    BY <2>1
  <2>3. job.path \in Paths /\ job.content \in Contents /\ flash.formatted
    BY <2>1, <2>2, PathFacts DEF Replacing
  <2>4. flash' = [flash EXCEPT !.files[job.path] = job.content, !.temporary = "absent"]
    BY <1>3, <2>1, <2>2 DEF Renames, Replacing
  <2>5. flash'.files = [flash.files EXCEPT ![job.path] = job.content]
        /\ flash'.formatted = flash.formatted
    BY <2>4
  <2>6. Store!Replace(job.path, job.content)
    BY <2>3, <2>5 DEF Store!Replace
  <2>. QED BY <2>3, <2>6 DEF Store!Next, Contents
<1>4. CASE Removes /\ ~UNCHANGED flash
  <2>1. job.call = "remove" /\ job.step = "remove"
    BY <1>4 DEF Removes, Replacing, Formatting, NoJob
  <2>2. job.path \in Paths /\ flash.formatted
    BY <2>1, PathFacts DEF Removing
  <2>3. flash'.files = [flash.files EXCEPT ![job.path] = Absent]
        /\ flash'.formatted = flash.formatted
    BY <1>4 DEF Removes
  <2>4. Store!Remove(job.path)
    BY <2>2, <2>3 DEF Store!Remove
  <2>. QED BY <2>2, <2>4 DEF Store!Next
<1>5. CASE Formats /\ ~UNCHANGED flash
  <2>1. job.step = "format" /\ mounted # "ready"
    BY <1>5 DEF Formats, Replacing, Removing, Formatting, NoJob
  <2>2. flash'.files = Blank /\ flash'.formatted = TRUE /\ flash.files = Blank
    BY <1>5, <2>1 DEF Formats
  <2>3. Store!Format
    BY <2>2 DEF Store!Format, Store!Blank, Blank
  <2>. QED BY <2>3 DEF Store!Next
<1>. HIDE DEF SettingsInv, FsInv, FlashInv, JobInv, Goes, Fails
<1>6. CASE ~(FsStep /\ UNCHANGED ram)
  BY <1>1, <1>6
  DEF SettingsNext, PowerCut, LockTicks, SetPreference, PreferenceSaved, Types, ConnectPressed,
      InitializeStore, StoreInitialized, LoadSaved, Remember, Remembered, ForgetSaved, Forgotten,
      settingsVars, fsVars
<1>7. CASE FsStep
  BY <1>1, <1>2, <1>3, <1>4, <1>5, <1>7 DEF FsStep, Mounts
<1>. QED BY <1>6, <1>7

\* Settings implements FileStore: whatever is cut or fails, a file is replaced
\* whole or not at all, and no store that holds files is formatted
\* (internal_fs.c:79-118).
THEOREM Refinement == SettingsSpec => ReplacedWhole
<1>1. SettingsInit => Store!Init
  BY InitHolds, StoreInit
<1>. QED BY <1>1, Invariant, StoreNext, PTL DEF SettingsSpec, ReplacedWhole, Store!Spec

----------------------------------------------------------------------------
(* The wrong PINs: how old those are that are not counted, and those that led
   to a lock that holds. *)

Ages == 0 .. LockTime

\* The wrong PINs that failures does not count are LockTime old, and all are as
\* old as a lock that holds.
PinInv ==
  /\ wrongs \in Seq(Ages) /\ Len(wrongs) <= MaxFailures + 1
  /\ IF lockLeft > 0
     THEN failures = 0 /\ \A i \in 1 .. Len(wrongs) : wrongs[i] >= LockTime - lockLeft
     ELSE \A i \in 1 .. Len(wrongs) - failures : wrongs[i] >= LockTime
  /\ FewWrongPins

LEMMA AgeFacts == LockTime \in Nat /\ Ages = 0 .. LockTime /\ 0 \in Ages /\ LockTime \in Ages
BY SettingsAssumption DEF Ages

LEMMA PinFacts ==
  ASSUME PinInv, RamTypes
  PROVE  /\ wrongs \in Seq(Ages) /\ Len(wrongs) \in Nat /\ Len(wrongs) <= MaxFailures + 1
         /\ DOMAIN wrongs = 1 .. Len(wrongs)
         /\ \A i \in 1 .. Len(wrongs) : wrongs[i] \in 0 .. LockTime
         /\ failures \in 0 .. MaxFailures - 1 /\ lockLeft \in 0 .. LockTime
         /\ MaxFailures \in Nat /\ MaxFailures >= 1 /\ LockTime \in Nat /\ LockTime >= 1
<1>1. wrongs \in Seq(Ages) /\ Len(wrongs) <= MaxFailures + 1
  BY DEF PinInv
<1>2. Len(wrongs) \in Nat /\ DOMAIN wrongs = 1 .. Len(wrongs)
  BY <1>1, LenProperties
<1>3. \A i \in 1 .. Len(wrongs) : wrongs[i] \in Ages
  BY <1>1, ElementOfSeq
<1>4. failures \in 0 .. MaxFailures - 1 /\ lockLeft \in 0 .. LockTime
  BY DEF RamTypes
<1>. QED BY <1>1, <1>2, <1>3, <1>4, AgeFacts, SettingsAssumption

LEMMA PinCounted ==
  ASSUME PinInv, RamTypes, lockLeft = 0, BadPin,
         wrongs' = Append(IF Len(wrongs) > MaxFailures THEN Tail(wrongs) ELSE wrongs, 0)
  PROVE  PinInv'
<1> DEFINE kept == IF Len(wrongs) > MaxFailures THEN Tail(wrongs) ELSE wrongs
<1>0. /\ wrongs' = Append(kept, 0)
      /\ Len(wrongs) > MaxFailures => kept = Tail(wrongs)
      /\ ~(Len(wrongs) > MaxFailures) => kept = wrongs
  BY Zenon
<1>. HIDE DEF kept
<1>1. \A i \in 1 .. Len(wrongs) - failures : wrongs[i] >= LockTime
  BY PinFacts DEF PinInv
<1>2. /\ kept \in Seq(Ages) /\ Len(kept) <= MaxFailures /\ Len(kept) \in Nat
      /\ \A i \in 1 .. Len(kept) - failures : kept[i] >= LockTime
      /\ Len(kept) = MaxFailures => kept[1] >= LockTime
  <2>1. CASE Len(wrongs) > MaxFailures
    <3>1. Len(wrongs) = MaxFailures + 1
      BY <2>1, PinFacts
    <3>2. wrongs \in Seq(Ages) /\ wrongs # <<>> /\ kept = Tail(wrongs)
      BY <1>0, <2>1, <3>1, PinFacts, EmptySeq
    <3>3. /\ kept \in Seq(Ages) /\ Len(kept) = Len(wrongs) - 1
          /\ \A i \in 1 .. Len(kept) : kept[i] = wrongs[i + 1]
      BY <3>2, HeadTailProperties
    <3>. QED BY <1>1, <3>1, <3>3, PinFacts
  <2>2. CASE ~(Len(wrongs) > MaxFailures)
    <3>1. kept = wrongs
      BY <1>0, <2>2, Zenon
    <3>2. kept \in Seq(Ages) /\ Len(kept) <= MaxFailures /\ Len(kept) \in Nat
      BY <3>1, <2>2, PinFacts
    <3>3. \A i \in 1 .. Len(kept) - failures : kept[i] >= LockTime
      BY <3>1, <1>1
    <3>4. Len(kept) = MaxFailures => 1 \in 1 .. Len(kept) - failures
      BY <3>1, PinFacts
    <3>. QED BY <3>2, <3>3, <3>4
  <2>. QED BY <2>1, <2>2
<1>3. /\ wrongs' \in Seq(Ages) /\ Len(wrongs') = Len(kept) + 1
      /\ \A i \in 1 .. Len(kept) : wrongs'[i] = kept[i]
      /\ wrongs'[Len(kept) + 1] = 0
  <2>1. kept \in Seq(Ages) /\ 0 \in Ages /\ wrongs' = Append(kept, 0)
    BY <1>0, <1>2, AgeFacts
  <2>2. /\ Append(kept, 0) \in Seq(Ages) /\ Len(Append(kept, 0)) = Len(kept) + 1
        /\ \A i \in 1 .. Len(kept) : Append(kept, 0)[i] = kept[i]
        /\ Append(kept, 0)[Len(kept) + 1] = 0
    BY <2>1, AppendProperties
  <2>. QED BY <2>1, <2>2, Zenon
<1>4. FewWrongPins'
  <2>1. Len(kept) \in Nat /\ MaxFailures \in Nat /\ MaxFailures >= 1
    BY <1>2, PinFacts
  <2>2. Len(wrongs') > MaxFailures => kept[1] >= LockTime /\ wrongs'[1] = kept[1]
    BY <1>2, <1>3, <2>1
  <2>. QED BY <2>2 DEF FewWrongPins
<1>5. wrongs' \in Seq(Ages) /\ Len(wrongs') <= MaxFailures + 1
  <2>1. Len(kept) \in Nat /\ Len(kept) <= MaxFailures /\ MaxFailures \in Nat
    BY <1>2, PinFacts
  <2>. QED BY <1>3, <2>1
<1>6. CASE failures + 1 >= MaxFailures
  <2>1. failures' = 0 /\ lockLeft' = LockTime
    BY <1>6, Zenon DEF BadPin
  <2>2. \A i \in 1 .. Len(wrongs') : wrongs'[i] \in Ages
    BY <1>5, ElementOfSeq
  <2>3. \A i \in 1 .. Len(wrongs') : wrongs'[i] >= LockTime - lockLeft'
    BY <2>1, <2>2, AgeFacts
  <2>. QED BY <1>4, <1>5, <2>1, <2>3, AgeFacts, SettingsAssumption DEF PinInv
<1>7. CASE ~(failures + 1 >= MaxFailures)
  <2>1. failures' = failures + 1 /\ lockLeft' = 0
    BY <1>7, Zenon DEF BadPin
  <2>2. failures \in Nat /\ Len(kept) \in Nat
    BY <1>2, PinFacts
  <2>3. Len(wrongs') - failures' = Len(kept) - failures
    BY <1>3, <2>1, <2>2
  <2>4. \A i \in 1 .. Len(kept) - failures : i \in 1 .. Len(kept)
    BY <2>2
  <2>5. \A i \in 1 .. Len(wrongs') - failures' : wrongs'[i] >= LockTime
    BY <1>2, <1>3, <2>3, <2>4
  <2>6. ~(lockLeft' > 0)
    BY <2>1
  <2>. QED BY <1>4, <1>5, <2>5, <2>6, Zenon DEF PinInv
<1>. QED BY <1>6, <1>7

LEMMA PinTicks ==
  ASSUME PinInv, RamTypes, LockTicks
  PROVE  PinInv'
<1>2. lockLeft' = (IF lockLeft > 0 THEN lockLeft - 1 ELSE 0) /\ failures' = failures
  BY Zenon DEF LockTicks
<1>3. CASE wrongs' = <<>>
  BY PinFacts, AgeFacts, <1>2, <1>3 DEF PinInv, FewWrongPins
<1>4. CASE wrongs' = [i \in DOMAIN wrongs |-> IF wrongs[i] < LockTime THEN wrongs[i] + 1
                                              ELSE LockTime]
  <2>1. /\ wrongs' \in Seq(Ages) /\ Len(wrongs') = Len(wrongs)
        /\ \A i \in 1 .. Len(wrongs) :
             wrongs'[i] = IF wrongs[i] < LockTime THEN wrongs[i] + 1 ELSE LockTime
    BY PinFacts, AgeFacts, <1>4
  <2>2. FewWrongPins'
    BY PinFacts, AgeFacts, <2>1 DEF FewWrongPins, PinInv
  <2>3. CASE lockLeft > 0
    <3>1. failures = 0 /\ \A i \in 1 .. Len(wrongs) : wrongs[i] >= LockTime - lockLeft
      BY <2>3 DEF PinInv
    <3>2. lockLeft' = lockLeft - 1 /\ failures' = 0
      BY <1>2, <2>3, <3>1
    <3>3. \A i \in 1 .. Len(wrongs) : wrongs'[i] >= LockTime - lockLeft'
      BY PinFacts, <2>1, <2>3, <3>1, <3>2
    <3>4. lockLeft' = 0 => \A i \in 1 .. Len(wrongs) - failures' : wrongs'[i] >= LockTime
      BY PinFacts, <3>2, <3>3
    <3>5. lockLeft' > 0 \/ lockLeft' = 0
      BY PinFacts, <2>3, <3>2
    <3>. QED BY <2>1, <2>2, <3>2, <3>3, <3>4, <3>5, PinFacts DEF PinInv
  <2>4. CASE lockLeft = 0
    <3>1. \A i \in 1 .. Len(wrongs) - failures : wrongs[i] >= LockTime
      BY <2>4 DEF PinInv
    <3>. QED BY PinFacts, AgeFacts, <1>2, <2>1, <2>2, <2>4, <3>1 DEF PinInv
  <2>. QED BY PinFacts, AgeFacts, <2>3, <2>4
<1>. QED BY <1>3, <1>4, Zenon DEF LockTicks

LEMMA PinFresh ==
  ASSUME failures' = 0, lockLeft' = 0, wrongs' = <<>>
  PROVE  PinInv'
BY SettingsAssumption DEF PinInv, FewWrongPins

LEMMA PinKeeps ==
  ASSUME RamTypes, PinInv, [SettingsNext]_settingsVars
  PROVE  PinInv'
<1>1. CASE PowerCut
  BY <1>1, PinFresh DEF PowerCut, Starts
<1>2. CASE LockTicks
  BY <1>2, PinTicks
<1>3. CASE LoadSaved
  <2>1. CASE NothingCounted
    BY <2>1 DEF PinInv, FewWrongPins, NothingCounted
  <2>2. CASE /\ lockLeft = 0 /\ BadPin
             /\ wrongs' = Append(IF Len(wrongs) > MaxFailures THEN Tail(wrongs) ELSE wrongs, 0)
    BY <2>2, PinCounted
  <2>3. CASE RightPin /\ wrongs' = <<>>
    BY <2>3, PinFresh DEF RightPin
  <2>. QED BY <1>3, <2>1, <2>2, <2>3, Zenon DEF LoadSaved
<1>4. CASE UNCHANGED <<failures, lockLeft, wrongs>>
  BY <1>4 DEF PinInv, FewWrongPins
<1>5. CASE UNCHANGED settingsVars
  BY <1>4, <1>5 DEF settingsVars, ram
<1>6. (FsStep /\ UNCHANGED ram) \/ InitializeStore \/ StoreInitialized \/ ForgetSaved
      => UNCHANGED <<failures, lockLeft, wrongs>>
  BY Zenon DEF ram, InitializeStore, StoreInitialized, ForgetSaved
<1>7. (\E field \in {"skin", "apps"}, v \in Values : SetPreference(field, v))
      \/ PreferenceSaved \/ (\E f \in Form : Types(f)) \/ ConnectPressed
      => UNCHANGED <<failures, lockLeft, wrongs>>
  BY Zenon DEF SetPreference, PreferenceSaved, Types, ConnectPressed
<1>8. Remember \/ Remembered \/ Forgotten => UNCHANGED <<failures, lockLeft, wrongs>>
  BY Zenon DEF Remember, Remembered, Forgotten, NothingCounted
<1>. QED BY <1>1, <1>2, <1>3, <1>4, <1>5, <1>6, <1>7, <1>8, Zenon DEF SettingsNext

\* However tries, restarts of the count and waits are mixed, no LockTime long
\* sees more than MaxFailures wrong PINs, short of a right one or a restart
\* (wifi_vault.c:86-118).
THEOREM FewWrongPinsHolds == SettingsSpec => []FewWrongPins
<1>1. SettingsInit => PinInv
  BY SettingsAssumption DEF SettingsInit, PinInv, FewWrongPins
<1>2. SettingsInv /\ PinInv /\ [SettingsNext]_settingsVars => PinInv'
  BY PinKeeps DEF SettingsInv
<1>3. PinInv => FewWrongPins
  BY DEF PinInv
<1>. QED BY <1>1, <1>2, <1>3, Invariant, PTL DEF SettingsSpec

----------------------------------------------------------------------------
(* Two properties of the service that are inductive as they stand, one     *)
(* because only a driver that is up moves the state, the other with the    *)
(* poll as the one action that sets an address.                            *)

LEMMA PowerWorksStep ==
    ASSUME PowerWorks, [WifiNext]_wifiVars
    PROVE  PowerWorks'
<1> USE DEF PowerWorks
<1>1. CASE NoKey
  BY <1>1 DEF NoKey, Key, service
<1>2. CASE Enable
  BY <1>2 DEF Enable
<1>3. CASE Disable
  BY <1>3 DEF Disable
<1>4. CASE Scan
  BY <1>4 DEF Scan
<1>5. CASE Connect
  BY <1>5 DEF Connect
<1>6. CASE Disconnect
  BY <1>6 DEF Disconnect
<1>7. CASE Cycles
  BY <1>7 DEF Cycles, Cycle, service
<1>8. ASSUME NEW n \in Networks, TypeName(n)
      PROVE  PowerWorks'
  BY <1>8 DEF TypeName, service
<1>9. CASE DriverEvent
  BY <1>9 DEF DriverEvent
<1>10. CASE Poll
  <2>1. CASE initialized
    BY <1>10, <2>1 DEF Poll, Linked, Scanned
  <2>2. CASE ~initialized
    BY <1>10, <2>2 DEF Poll
  <2> QED BY <2>1, <2>2
<1>11. CASE WaitTicks
  BY <1>11 DEF WaitTicks
<1>12. CASE UNCHANGED wifiVars
  BY <1>12 DEF wifiVars, service
<1> QED
  BY <1>1, <1>2, <1>3, <1>4, <1>5, <1>6, <1>7, <1>8, <1>9, <1>10, <1>11, <1>12
  DEF WifiNext, Keys

\* The POWER line works in every state, whatever the driver answers to being
\* started (wifi.c:71-86, 136-148).
THEOREM PowerWorksHolds == WifiSpec => []PowerWorks
<1>1. WifiInit => PowerWorks
  BY DEF WifiInit, PowerWorks
<1>2. PowerWorks /\ [WifiNext]_wifiVars => PowerWorks'
  BY PowerWorksStep
<1> QED BY <1>1, <1>2, PTL DEF WifiSpec

----------------------------------------------------------------------------

LEMMA AddressStep ==
    ASSUME AddressOnlyConnected, [WifiNext]_wifiVars
    PROVE  AddressOnlyConnected'
<1> USE DEF AddressOnlyConnected
<1>1. CASE NoKey
  BY <1>1 DEF NoKey, Key, service
<1>2. CASE Enable
  BY <1>2 DEF Enable
<1>3. CASE Disable
  BY <1>3 DEF Disable
<1>4. CASE Scan
  BY <1>4 DEF Scan
<1>5. CASE Connect
  BY <1>5 DEF Connect
<1>6. CASE Disconnect
  BY <1>6 DEF Disconnect
<1>7. CASE Cycles
  BY <1>7 DEF Cycles, Cycle, service
<1>8. ASSUME NEW n \in Networks, TypeName(n)
      PROVE  AddressOnlyConnected'
  BY <1>8 DEF TypeName, service
<1>9. CASE DriverEvent
  BY <1>9 DEF DriverEvent
<1>10. CASE Poll
  <2>1. CASE initialized /\ Linked = "CONNECTED"
    \* Whether the wait is over or not, no address is set without one.
    <3>1. bound' = driver.address
      BY <1>10, <2>1 DEF Poll, Shown
    <3>2. state' = IF WithoutAddress THEN "ERROR" ELSE "CONNECTED"
      BY <1>10, <2>1 DEF Poll
    <3> QED BY <3>1, <3>2 DEF WithoutAddress
  <2>2. CASE initialized /\ Linked # "CONNECTED"
    \* Only a state that was not CONNECTED can lead here.
    <3>1. state # "CONNECTED"
      BY <2>2 DEF Linked, Scanned
    <3>2. bound' = bound
      BY <1>10, <2>2 DEF Poll, Shown
    <3> QED BY <3>1, <3>2
  <2>3. CASE ~initialized
    BY <1>10, <2>3 DEF Poll
  <2> QED BY <2>1, <2>2, <2>3
<1>11. CASE WaitTicks
  BY <1>11 DEF WaitTicks
<1>12. CASE UNCHANGED wifiVars
  BY <1>12 DEF wifiVars, service
<1> QED
  BY <1>1, <1>2, <1>3, <1>4, <1>5, <1>6, <1>7, <1>8, <1>9, <1>10, <1>11, <1>12
  DEF WifiNext, Keys

\* An address is shown only of a connection that stands: every way out of
\* CONNECTED, by key, deadline or power, clears it (wifi.c:118-185).
THEOREM AddressOnlyConnectedHolds == WifiSpec => []AddressOnlyConnected
<1>1. WifiInit => AddressOnlyConnected
  BY DEF WifiInit, AddressOnlyConnected
<1>2. AddressOnlyConnected /\ [WifiNext]_wifiVars => AddressOnlyConnected'
  BY AddressStep
<1> QED BY <1>1, <1>2, PTL DEF WifiSpec

----------------------------------------------------------------------------
(* Types, and the keys that pick a network: an index is always one of the  *)
(* list, or one that a longer list had.                                    *)

LEMMA DrawnIsIndex ==
    ASSUME NEW list \in Seq(Networks), Len(list) <= ApCapacity,
           NEW index \in 0 .. ApCapacity - 1
    PROVE  Drawn(index, list) \in 0 .. ApCapacity - 1
  BY WifiAssumption DEF Drawn

LEMMA CycledIsIndex ==
    ASSUME WifiTypeOK, aps # <<>>
    PROVE  /\ Len(aps) > 0
           /\ Left \in 0 .. ApCapacity - 1
           /\ Right \in 0 .. Len(aps) - 1
           /\ selected < Len(aps) => Left \in 0 .. Len(aps) - 1
<1>1. /\ Len(aps) \in Nat /\ Len(aps) > 0 /\ Len(aps) <= ApCapacity
      /\ selected \in 0 .. ApCapacity - 1 /\ ApCapacity \in Nat
  BY WifiAssumption DEF WifiTypeOK
<1>2. Right \in 0 .. Len(aps) - 1
  BY <1>1 DEF Right
<1> QED BY <1>1, <1>2 DEF Left

LEMMA DriverChanges ==
    ASSUME NEW d \in Drivers
    PROVE  /\ Quiet \in Drivers
           /\ d.scanning \in BOOLEAN /\ d.joining \in BOOLEAN
           /\ d.address \in BOOLEAN /\ d.link \in Links
           /\ [d EXCEPT !.scanning = TRUE] \in Drivers
           /\ [d EXCEPT !.joining = TRUE] \in Drivers
           /\ [d EXCEPT !.joining = FALSE, !.link = "down"] \in Drivers
  BY DEF Drivers, Quiet, Links

LEMMA WifiTypesStep ==
    ASSUME WifiTypeOK, [WifiNext]_wifiVars
    PROVE  WifiTypeOK'
<1> USE WifiAssumption DEF States
<1>r. ASSUME Redraws, aps' \in Seq(Networks), Len(aps') <= ApCapacity
      PROVE  selected' \in 0 .. ApCapacity - 1
  BY <1>r, DrawnIsIndex DEF Redraws, WifiTypeOK
<1>l. <<>> \in Seq(Networks) /\ Len(<<>>) <= ApCapacity
  OBVIOUS
<1>d. /\ driver \in Drivers /\ Quiet \in Drivers
      /\ [driver EXCEPT !.scanning = TRUE] \in Drivers
      /\ [driver EXCEPT !.joining = TRUE] \in Drivers
      /\ Leaving \subseteq Drivers
  BY DriverChanges DEF Leaving, WifiTypeOK
<1>1. CASE NoKey
  BY <1>1 DEF NoKey, Key, service, screenVars, WifiTypeOK
<1>2. CASE Enable
  <2>1. initialized' \in BOOLEAN
    BY <1>2 DEF Enable, WifiTypeOK
  <2>2. driver' \in Drivers
    BY <1>2, <1>d DEF Enable
  <2>3. selected' \in 0 .. ApCapacity - 1
    BY <1>2, <1>r DEF Enable, WifiTypeOK
  <2> QED BY <1>2, <2>1, <2>2, <2>3 DEF Enable, Key, WifiTypeOK
<1>3. CASE Disable
  BY <1>3, <1>r, <1>d DEF Disable, Key, WifiTypeOK
<1>4. CASE Scan
  <2>1. selected' \in 0 .. ApCapacity - 1
    BY <1>4, <1>r, <1>l DEF Scan
  <2>2. driver' \in Drivers
    BY <1>4, <1>d DEF Scan
  <2>3. state' \in States
    BY <1>4 DEF Scan, WifiTypeOK
  <2> QED BY <1>4, <1>l, <2>1, <2>2, <2>3 DEF Scan, Key, WifiTypeOK
<1>5. CASE Connect
  <2>1. dhcp' \in [set : BOOLEAN, left : 0 .. WaitTime]
    BY <1>5 DEF Connect, Unset
  <2>2. driver' \in Drivers
    BY <1>5, <1>d DEF Connect
  <2> QED BY <1>5, <1>r, <2>1, <2>2 DEF Connect, Key, WifiTypeOK
<1>6. CASE Disconnect
  BY <1>6, <1>r, <1>d DEF Disconnect, Key, WifiTypeOK
<1>7. CASE Cycles
  <2>1. ASSUME NEW index \in 0 .. ApCapacity - 1, Cycle(index)
        PROVE  selected' \in 0 .. ApCapacity - 1 /\ ssid' \in Networks
    BY <2>1, DrawnIsIndex DEF Cycle, WifiTypeOK
  <2>2. Left \in 0 .. ApCapacity - 1 /\ Right \in 0 .. ApCapacity - 1
    BY <1>7, CycledIsIndex DEF Cycles, WifiTypeOK
  <2>3. selected' \in 0 .. ApCapacity - 1 /\ ssid' \in Networks
    BY <1>7, <2>1, <2>2 DEF Cycles
  <2> QED BY <1>7, <2>3 DEF Cycles, Cycle, Key, service, WifiTypeOK
<1>8. ASSUME NEW n \in Networks, TypeName(n)
      PROVE  WifiTypeOK'
  BY <1>8, <1>r DEF TypeName, Key, service, WifiTypeOK
<1>9. CASE DriverEvent
  <2>1. aps' \in Seq(Networks) /\ Len(aps') <= ApCapacity
    <3>1. ASSUME NEW n \in Networks
          PROVE  Found(n) \in Seq(Networks) /\ Len(Found(n)) <= ApCapacity
      BY DEF Found, WifiTypeOK
    <3>2. aps' = aps \/ \E n \in Networks : aps' = Found(n)
      BY <1>9 DEF DriverEvent
    <3> QED BY <3>1, <3>2 DEF WifiTypeOK
  <2>2. driver' \in Drivers
    <3>1. ASSUME driver' \in [scanning : {driver.scanning, FALSE}, joining : {driver.joining},
                              link : IF driver.joining THEN Links ELSE {"down"},
                              address : BOOLEAN]
          PROVE  driver' \in Drivers
      <4>1. /\ {driver.scanning, FALSE} \subseteq BOOLEAN
            /\ {driver.joining} \subseteq BOOLEAN
            /\ (IF driver.joining THEN Links ELSE {"down"}) \subseteq Links
        BY <1>d, DriverChanges DEF Links
      <4> QED BY <3>1, <4>1 DEF Drivers
    <3> QED BY <1>9, <1>d, <3>1 DEF DriverEvent
  <2> QED BY <1>9, <2>1, <2>2 DEF DriverEvent, screenVars, WifiTypeOK
<1>10. CASE Poll
  <2>1. selected' \in 0 .. ApCapacity - 1
    BY <1>10, DrawnIsIndex DEF Poll, WifiTypeOK
  <2>2. CASE initialized
    <3>1. state' \in States
      BY <1>10, <2>2 DEF Poll, Linked, Scanned, WifiTypeOK
    <3>2. dhcp' \in [set : BOOLEAN, left : 0 .. WaitTime]
      <4>1. dhcp' = Waiting
        BY <1>10, <2>2 DEF Poll
      <4>2. [set |-> TRUE, left |-> WaitTime] \in [set : BOOLEAN, left : 0 .. WaitTime]
        OBVIOUS
      <4> QED BY <4>1, <4>2 DEF Waiting, WifiTypeOK
    <3>3. bound' \in BOOLEAN
      <4>1. bound' = Shown
        BY <1>10, <2>2 DEF Poll
      <4>2. driver.address \in BOOLEAN
        BY <1>d, DriverChanges
      <4> QED BY <4>1, <4>2 DEF Shown, WifiTypeOK
    <3>4. driver' \in Drivers
      BY <1>10, <2>2, <1>d DEF Poll
    <3> QED BY <1>10, <2>1, <3>1, <3>2, <3>3, <3>4 DEF Poll, WifiTypeOK
  <2>3. CASE ~initialized
    BY <1>10, <2>1, <2>3 DEF Poll, WifiTypeOK
  <2> QED BY <2>2, <2>3
<1>11. CASE WaitTicks
  BY <1>11 DEF WaitTicks, screenVars, WifiTypeOK
<1>12. CASE UNCHANGED wifiVars
  BY <1>12 DEF wifiVars, service, screenVars, WifiTypeOK
<1> QED
  BY <1>1, <1>2, <1>3, <1>4, <1>5, <1>6, <1>7, <1>8, <1>9, <1>10, <1>11, <1>12
  DEF WifiNext, Keys

\* Every variable of the service, of the screen and of the driver keeps its
\* type, the index among them, although lists grow and shrink under it
\* (gui.c:1540-1551, wifi.c:24-46).
THEOREM WifiTypes == WifiSpec => []WifiTypeOK
<1>1. WifiInit => WifiTypeOK
  <2>1. Quiet \in Drivers
    BY DEF Quiet, Drivers, Links
  <2>2. <<>> \in Seq(Networks) /\ Len(<<>>) = 0
    OBVIOUS
  <2>3. Unset \in [set : BOOLEAN, left : 0 .. WaitTime]
    BY WifiAssumption DEF Unset
  <2>4. WifiInit => state \in States /\ known \in States
    BY DEF WifiInit, States
  <2>5. WifiInit => initialized \in BOOLEAN /\ bound \in BOOLEAN
    BY DEF WifiInit
  <2>6. WifiInit => connectLeft \in 0 .. WaitTime /\ selected \in 0 .. ApCapacity - 1
    BY WifiAssumption DEF WifiInit
  <2>7. WifiInit => aps \in Seq(Networks) /\ Len(aps) <= ApCapacity
    BY WifiAssumption, <2>2 DEF WifiInit
  <2> QED BY <2>1, <2>3, <2>4, <2>5, <2>6, <2>7 DEF WifiInit, WifiTypeOK
<1>2. WifiTypeOK /\ [WifiNext]_wifiVars => WifiTypeOK'
  BY WifiTypesStep
<1> QED BY <1>1, <1>2, PTL DEF WifiSpec

LEMMA CyclesTogetherStep ==
    ASSUME WifiTypeOK, Cycles, selected < Len(aps)
    PROVE  ssid' = aps[selected' + 1]
<1>1. ASSUME NEW index \in 0 .. Len(aps) - 1, Cycle(index)
      PROVE  ssid' = aps[selected' + 1]
  BY <1>1 DEF Cycle, Drawn, WifiTypeOK
<1> QED BY <1>1, CycledIsIndex DEF Cycles

\* LEFT and RIGHT change the name and the network that is shown together, but
\* for an index that a longer list has left (gui.c:1540-1551).
THEOREM CyclesTogetherHolds == WifiSpec => CyclesTogether
<1>1. WifiTypeOK => [Cycles /\ selected < Len(aps) => ssid' = aps[selected' + 1]]_wifiVars
  BY CyclesTogetherStep
<1> QED BY <1>1, WifiTypes, PTL DEF CyclesTogether

----------------------------------------------------------------------------
(* The inventory.  What is said of one host is heard by its record alone.  *)
(* The invariant adds to the property that a list says it is cut only when *)
(* it is full, so that a record appended is of a host nothing was said of. *)

Own == HostAddresses \ {Cut[long] : long \in LongNames}

Said(report, reachable, services) ==
    [seen |-> TRUE, reachable |-> report.reachable \/ reachable,
     services |-> report.services \union services]

Heard(reports, names, reachable, services) ==
    [name \in Names |-> IF name \notin names THEN reports[name]
                        ELSE Said(reports[name], reachable, services)]

Agree(record, report) ==
    /\ record.reachable = report.reachable
    /\ record.services \subseteq report.services
    /\ IsFiniteSet(record.services) /\ Cardinality(record.services) <= PortCapacity
    /\ record.services # report.services => Cardinality(record.services) = PortCapacity

AsTold(inv, reports, name) ==
    /\ FoundAt(inv.records, name) = {} => ~reports[name].seen \/ inv.truncated
    /\ \A i \in FoundAt(inv.records, name) :
         /\ FoundAt(inv.records, name) = {i}
         /\ Agree(inv.records[i], reports[name])

Typed(inv, reports) ==
    /\ inv \in [records : Seq(HostRecords), truncated : BOOLEAN]
    /\ Len(inv.records) <= HostCapacity
    /\ reports \in [Names -> Reports]

HostsInv(inv, reports) ==
    /\ Typed(inv, reports)
    /\ inv.truncated => Len(inv.records) >= HostCapacity
    /\ \A name \in Names : ~reports[name].seen =>
         reports[name].reachable = FALSE /\ reports[name].services = {}
    /\ \A name \in Own : AsTold(inv, reports, name)

\* Whether a host answered, and a port that did if there is one
Answer(reachable, services) ==
    /\ reachable \in BOOLEAN
    /\ services \in {{}} \union {{p} : p \in Ports}

LEMMA MergedAgrees ==
    ASSUME NEW record, NEW report, Agree(record, report),
           NEW reachable, NEW services, Answer(reachable, services),
           record = [address |-> record.address, reachable |-> record.reachable,
                     services |-> record.services]
    PROVE  /\ Agree(Merged(record, reachable, services), Said(report, reachable, services))
           /\ Merged(record, reachable, services).address = record.address
<1> DEFINE merged == Merged(record, reachable, services)
           said == Said(report, reachable, services)
           full == services \subseteq record.services \/ Cardinality(record.services) >= PortCapacity
<1>1. /\ merged.address = record.address
      /\ merged.reachable = (record.reachable \/ reachable)
      /\ merged.services = IF full THEN record.services ELSE record.services \union services
  BY DEF Merged
<1>2. said.reachable = (report.reachable \/ reachable) /\ said.services = report.services \union services
  BY DEF Said
<1>3. merged.reachable = said.reachable
  BY <1>1, <1>2 DEF Agree
<1>4. Cardinality(record.services) \in Nat
  BY FS_CardinalityType DEF Agree
<1>5. CASE full
  <2>1. merged.services = record.services
    BY <1>1, <1>5
  <2>2. record.services \subseteq said.services
    BY <1>2 DEF Agree
  <2>3. ASSUME record.services # said.services, services \subseteq record.services
        PROVE  record.services # report.services
    BY <1>2, <2>3
  <2>4. record.services # said.services => Cardinality(record.services) = PortCapacity
    BY <1>4, <1>5, <2>3, HostsAssumption DEF Agree
  <2>5. merged.services \subseteq said.services /\ IsFiniteSet(merged.services)
        /\ Cardinality(merged.services) <= PortCapacity
    BY <2>1, <2>2 DEF Agree
  <2>6. merged.services # said.services => Cardinality(merged.services) = PortCapacity
    BY <2>1, <2>4
  <2>7. Agree(merged, said)
    BY <1>3, <2>5, <2>6 DEF Agree
  <2> QED BY <1>1, <2>7
<1>6. CASE ~full
  <2>1. PICK p \in Ports : services = {p} /\ p \notin record.services
    BY <1>6 DEF Answer
  <2>2. IsFiniteSet(merged.services) /\ Cardinality(merged.services) = Cardinality(record.services) + 1
    BY <1>1, <1>6, <2>1, FS_AddElement DEF Agree
  <2>3. record.services = report.services
    BY <1>6, <1>4, HostsAssumption DEF Agree
  <2>4. merged.services = said.services
    BY <1>1, <1>2, <1>6, <2>3
  <2>5. Cardinality(merged.services) <= PortCapacity
    BY <1>4, <1>6, <2>2, HostsAssumption
  <2>6. Agree(merged, said)
    BY <1>3, <2>2, <2>4, <2>5 DEF Agree
  <2> QED BY <1>1, <2>6
<1> QED BY <1>5, <1>6

LEMMA MinIsOneOf ==
    ASSUME NEW S \in SUBSET Nat, S # {}
    PROVE  Min(S) \in S
<1> DEFINE Less == OpToRel(<, Nat)
<1>1. IsWellFoundedOn(Less, Nat)
  BY NatLessThanWellFounded
<1>2. \A m, n \in Nat : n < m => <<n, m>> \in Less
  BY DEF OpToRel
<1> HIDE DEF Less
<1>3. PICK m \in S : \A n \in S : <<n, m>> \notin Less
  BY <1>1, WFMin
<1>4. ASSUME NEW n \in S
      PROVE  m <= n
  <2>1. m \in Nat /\ n \in Nat
    OBVIOUS
  <2>2. ~(n < m)
    BY <1>2, <1>3, <2>1
  <2> QED BY <2>1, <2>2
<1> QED BY <1>4 DEF Min

LEMMA ObservedHears ==
    ASSUME NEW inv, NEW reports, HostsInv(inv, reports),
           NEW name \in Names, NEW reachable, NEW services, Answer(reachable, services)
    PROVE  HostsInv(Observed(inv, name, reachable, services),
                    Heard(reports, {name}, reachable, services))
<1> DEFINE records == inv.records
           heard == Heard(reports, {name}, reachable, services)
           observed == Observed(inv, name, reachable, services)
<1>t. /\ inv = [records |-> records, truncated |-> inv.truncated]
      /\ records \in Seq(HostRecords) /\ inv.truncated \in BOOLEAN
      /\ Len(records) \in Nat /\ Len(records) <= HostCapacity
      /\ reports \in [Names -> Reports]
      /\ inv.truncated => Len(records) >= HostCapacity
  BY DEF HostsInv, Typed
<1>n. name # NoAddress
  BY HostsAssumption
<1>a. ASSUME NEW record \in HostRecords
      PROVE  Merged(record, reachable, services) \in HostRecords
  BY DEF Merged, HostRecords, Answer
<1>r. ASSUME NEW record \in HostRecords
      PROVE  record = [address |-> record.address, reachable |-> record.reachable,
                       services |-> record.services]
  BY DEF HostRecords
\* What is heard of it changes the report on this host alone.
<1>h. /\ heard \in [Names -> Reports]
      /\ heard[name] = Said(reports[name], reachable, services)
      /\ heard[name].seen = TRUE
      /\ \A other \in Names \ {name} : heard[other] = reports[other]
  <2>1. Said(reports[name], reachable, services) \in Reports
    BY <1>t DEF Said, Reports, Answer
  <2>2. heard = [x \in Names |-> IF x \notin {name} THEN reports[x]
                                 ELSE Said(reports[x], reachable, services)]
    BY DEF Heard
  <2>3. heard[name] = Said(reports[name], reachable, services)
    BY <2>2
  <2>4. heard \in [Names -> Reports]
    BY <1>t, <2>1, <2>2
  <2> QED BY <2>2, <2>3, <2>4 DEF Said
<1>u. \A x \in Names : ~heard[x].seen => heard[x].reachable = FALSE /\ heard[x].services = {}
  BY <1>h DEF HostsInv
<1> HIDE DEF heard
<1>1. CASE FoundAt(records, name) # {}
  <2> DEFINE k == Min(FoundAt(records, name))
             merged == [i \in DOMAIN records |->
                          IF i = k THEN Merged(records[i], reachable, services) ELSE records[i]]
  <2>1. k \in 1 .. Len(records) /\ records[k].address = name
    <3>1. FoundAt(records, name) \in SUBSET Nat
      BY <1>t DEF FoundAt
    <3>2. k \in FoundAt(records, name)
      BY <1>1, <3>1, MinIsOneOf
    <3> QED BY <3>2 DEF FoundAt
  <2>2. observed = [records |-> merged, truncated |-> inv.truncated]
    BY <1>1, <1>t, <1>n DEF Observed
  <2> HIDE DEF k
  <2>3. ASSUME NEW i \in 1 .. Len(records)
        PROVE  /\ records[i] \in HostRecords
               /\ merged[i] = IF i = k THEN Merged(records[i], reachable, services) ELSE records[i]
               /\ merged[i].address = records[i].address
    <3>1. records[i] \in HostRecords /\ DOMAIN records = 1 .. Len(records)
      BY <1>t
    <3>2. Merged(records[i], reachable, services).address = records[i].address
      BY <3>1 DEF Merged, HostRecords
    <3> QED BY <3>1, <3>2
  <2>4. merged \in Seq(HostRecords) /\ Len(merged) = Len(records)
    <3>1. DOMAIN records = 1 .. Len(records)
      BY <1>t
    <3>2. \A i \in 1 .. Len(records) : merged[i] \in HostRecords
      BY <1>a, <2>3
    <3>3. merged \in [1 .. Len(records) -> HostRecords]
      BY <3>1, <3>2
    <3> HIDE DEF merged
    <3> QED BY <1>t, <3>3
  <2> HIDE DEF merged
  <2>5. \A x : FoundAt(merged, x) = FoundAt(records, x)
    BY <2>3, <2>4 DEF FoundAt
  <2>6. ASSUME NEW x \in Own
        PROVE  AsTold(observed, heard, x)
    <3>0. x \in Names /\ AsTold(inv, reports, x)
      BY DEF Own, Names, HostsInv
    <3>1. CASE x = name
      <4>1. FoundAt(records, name) = {k} /\ Agree(records[k], reports[name])
        BY <1>1, <2>1, <3>0, <3>1 DEF AsTold, FoundAt
      <4>2. Agree(merged[k], heard[name])
        BY <1>h, <1>r, <2>1, <2>3, <4>1, MergedAgrees
      <4> QED BY <2>2, <2>5, <3>1, <4>1, <4>2 DEF AsTold
    <3>2. CASE x # name
      <4>1. k \notin FoundAt(records, x)
        BY <2>1, <3>2 DEF FoundAt
      <4>2. \A i \in FoundAt(records, x) : merged[i] = records[i]
        BY <2>3, <4>1 DEF FoundAt
      <4>3. heard[x] = reports[x]
        BY <1>h, <3>0, <3>2
      <4> QED BY <2>2, <2>5, <3>0, <4>2, <4>3 DEF AsTold
    <3> QED BY <3>1, <3>2
  <2>7. observed.records = merged /\ observed.truncated = inv.truncated
        /\ observed \in [records : Seq(HostRecords), truncated : BOOLEAN]
    BY <1>t, <2>2, <2>4
  <2>8. Typed(observed, heard)
    BY <1>t, <1>h, <2>4, <2>7 DEF Typed
  <2> HIDE DEF observed
  <2>9. HostsInv(observed, heard)
    BY <1>t, <1>u, <2>4, <2>6, <2>7, <2>8 DEF HostsInv
  <2> QED BY <2>9 DEF observed, heard
<1>2. CASE FoundAt(records, name) = {} /\ Len(records) >= HostCapacity
  <2>1. observed = [records |-> records, truncated |-> TRUE]
    BY <1>2, <1>t, <1>n DEF Observed
  <2>2. ASSUME NEW x \in Own
        PROVE  AsTold(observed, heard, x)
    <3>0. x \in Names /\ AsTold(inv, reports, x)
      BY DEF Own, Names, HostsInv
    <3>1. CASE x = name
      BY <1>2, <2>1, <3>1 DEF AsTold
    <3>2. CASE x # name
      BY <1>h, <2>1, <3>0, <3>2 DEF AsTold
    <3> QED BY <3>1, <3>2
  <2>3. observed.records = records /\ observed.truncated = TRUE
        /\ observed \in [records : Seq(HostRecords), truncated : BOOLEAN]
    BY <1>t, <2>1
  <2>4. Typed(observed, heard)
    BY <1>t, <1>h, <2>3 DEF Typed
  <2> HIDE DEF observed
  <2>5. HostsInv(observed, heard)
    BY <1>u, <1>2, <2>2, <2>3, <2>4 DEF HostsInv
  <2> QED BY <2>5 DEF observed, heard
<1>3. CASE FoundAt(records, name) = {} /\ ~(Len(records) >= HostCapacity)
  <2> DEFINE empty == [address |-> Kept(name), reachable |-> FALSE, services |-> {}]
             new == Merged(empty, reachable, services)
             longer == Append(records, new)
  <2>1. observed = [records |-> longer, truncated |-> FALSE]
    BY <1>3, <1>t, <1>n DEF Observed
  <2>2. empty \in HostRecords
    BY HostsAssumption DEF Kept, Names, HostRecords
  <2>3. new \in HostRecords /\ new.address = Kept(name)
    <3>1. new.address = empty.address
      BY <2>2 DEF Merged, HostRecords
    <3> QED BY <1>a, <2>2, <3>1
  <2> HIDE DEF new
  <2>4. /\ longer \in Seq(HostRecords) /\ Len(longer) = Len(records) + 1
        /\ \A i \in 1 .. Len(records) : longer[i] = records[i]
        /\ longer[Len(records) + 1] = new
    BY <1>t, <2>3
  <2> HIDE DEF longer
  <2>5. \A x : FoundAt(longer, x) = FoundAt(records, x) \union
                   (IF x = Kept(name) THEN {Len(records) + 1} ELSE {})
    BY <1>t, <2>3, <2>4 DEF FoundAt
  <2>6. ASSUME NEW x \in Own
        PROVE  AsTold(observed, heard, x)
    <3>0. x \in Names /\ x \in HostAddresses /\ AsTold(inv, reports, x)
      BY DEF Own, Names, HostsInv
    <3>1. CASE x = name
      <4>1. Kept(name) = name
        BY <3>0, <3>1, HostsAssumption DEF Kept
      <4>2. FoundAt(longer, name) = {Len(records) + 1}
        BY <1>3, <2>5, <4>1
      <4>3. ~reports[name].seen
        BY <1>3, <1>t, <3>0, <3>1 DEF AsTold
      <4>4. reports[name].reachable = FALSE /\ reports[name].services = {}
        BY <3>0, <3>1, <4>3 DEF HostsInv
      <4>5. Agree(empty, reports[name])
        <5>1. IsFiniteSet({}) /\ Cardinality({}) = 0
          BY FS_EmptySet
        <5>2. empty.services = {} /\ empty.reachable = FALSE
          OBVIOUS
        <5>3. empty.reachable = reports[name].reachable
              /\ empty.services = reports[name].services
          BY <4>4, <5>2
        <5>4. IsFiniteSet(empty.services) /\ Cardinality(empty.services) <= PortCapacity
          BY <5>1, <5>2, HostsAssumption
        <5> HIDE DEF empty
        <5> QED BY <5>3, <5>4 DEF Agree
      <4>6. Agree(new, heard[name])
        <5>1. empty = [address |-> empty.address, reachable |-> empty.reachable,
                       services |-> empty.services]
          OBVIOUS
        <5> HIDE DEF empty
        <5>2. Agree(Merged(empty, reachable, services), Said(reports[name], reachable, services))
          BY <4>5, <5>1, MergedAgrees
        <5> QED BY <1>h, <5>2 DEF new
      <4>7. ASSUME NEW i \in FoundAt(longer, name)
            PROVE  FoundAt(longer, name) = {i} /\ Agree(longer[i], heard[name])
        <5>1. i = Len(records) + 1
          BY <4>2
        <5>2. longer[i] = new
          BY <2>4, <5>1
        <5> QED BY <4>2, <4>6, <5>1, <5>2
      <4>8. FoundAt(longer, name) # {}
        BY <4>2
      <4>9. observed.records = longer
        BY <2>1
      <4> QED BY <3>1, <4>7, <4>8, <4>9 DEF AsTold
    <3>2. CASE x # name
      <4>1. x # Kept(name)
        BY <3>2 DEF Own, Kept
      <4>2. FoundAt(longer, x) = FoundAt(records, x)
        BY <2>5, <4>1
      <4>3. \A i \in FoundAt(records, x) : longer[i] = records[i]
        BY <2>4 DEF FoundAt
      <4>4. heard[x] = reports[x] /\ inv.truncated = FALSE
        BY <1>h, <1>t, <1>3, <3>0, <3>2
      <4> QED BY <2>1, <3>0, <4>2, <4>3, <4>4 DEF AsTold
    <3> QED BY <3>1, <3>2
  <2>7. Len(longer) <= HostCapacity
    BY <1>3, <1>t, <2>4, HostsAssumption
  <2>8. observed.records = longer /\ observed.truncated = FALSE
        /\ observed \in [records : Seq(HostRecords), truncated : BOOLEAN]
    BY <2>1, <2>4
  <2>9. Typed(observed, heard)
    BY <1>h, <2>7, <2>8 DEF Typed
  <2> HIDE DEF observed
  <2>10. HostsInv(observed, heard)
    BY <1>u, <2>6, <2>8, <2>9 DEF HostsInv
  <2> QED BY <2>10 DEF observed, heard
<1> QED BY <1>1, <1>2, <1>3

LEMMA NobodyObserved ==
    ASSUME NEW inv, NEW reports \in [Names -> Reports], NEW reachable, NEW services
    PROVE  /\ Observed(inv, NoAddress, reachable, services) = inv
           /\ Heard(reports, {NoAddress}, reachable, services) = reports
<1>1. \A name \in Names : name \notin {NoAddress}
  BY HostsAssumption
<1> QED BY <1>1 DEF Observed, Heard

\* A link that is up says of each of its addresses that it is reachable.
HeardUp(reports, names) == Heard(reports, names, TRUE, {})

\* To hear the same of three hosts at once is to hear it three times.
LEMMA HeardTogether ==
    ASSUME NEW reports \in [Names -> Reports], NEW A, NEW B, NEW C
    PROVE  HeardUp(HeardUp(HeardUp(reports, A), B), C)
           = HeardUp(reports, A \union B \union C)
<1> DEFINE say(report) == Said(report, TRUE, {})
           first == HeardUp(reports, A)
           second == HeardUp(first, B)
           third == HeardUp(second, C)
           all == HeardUp(reports, A \union B \union C)
<1>1. ASSUME NEW report \in Reports
      PROVE  say(say(report)) = say(report)
  BY DEF Said, Reports
<1>2. \A x \in Names :
        /\ first[x] = IF x \in A THEN say(reports[x]) ELSE reports[x]
        /\ second[x] = IF x \in B THEN say(first[x]) ELSE first[x]
        /\ third[x] = IF x \in C THEN say(second[x]) ELSE second[x]
        /\ all[x] = IF x \in A \union B \union C THEN say(reports[x]) ELSE reports[x]
  BY DEF HeardUp, Heard
<1> HIDE DEF say, first, second, third, all
<1>3. ASSUME NEW x \in Names
      PROVE  third[x] = all[x]
  <2> DEFINE report == reports[x]
  <2>1. say(say(report)) = say(report)
    BY <1>1
  <2>2. first[x] = IF x \in A THEN say(report) ELSE report
    BY <1>2
  <2>3. second[x] = IF x \in A \union B THEN say(report) ELSE report
    BY <1>2, <2>1, <2>2
  <2>4. third[x] = IF x \in A \union B \union C THEN say(report) ELSE report
    BY <1>2, <2>1, <2>3
  <2> QED BY <1>2, <2>4
<1>4. third = [x \in Names |-> third[x]] /\ all = [x \in Names |-> all[x]]
  BY DEF HeardUp, Heard, first, second, third, all
<1>5. third = all
  BY <1>3, <1>4
<1> QED BY <1>5 DEF first, second, third, all

LEMMA HostsStep ==
    ASSUME HostsInv(inventory, told), [HostsNext]_hostsVars
    PROVE  HostsInv(inventory', told')
<1>0. told \in [Names -> Reports]
  BY DEF HostsInv, Typed
<1>o. ASSUME NEW inv, NEW reports, HostsInv(inv, reports), NEW name \in Names \union {NoAddress},
             NEW reachable, NEW services, Answer(reachable, services)
      PROVE  HostsInv(Observed(inv, name, reachable, services),
                      Heard(reports, {name}, reachable, services))
  <2>1. CASE name \in Names
    BY <1>o, <2>1, ObservedHears
  <2>2. CASE name = NoAddress
    <3>1. reports \in [Names -> Reports]
      BY <1>o DEF HostsInv, Typed
    <3> QED BY <1>o, <2>2, <3>1, NobodyObserved
  <2> QED BY <2>1, <2>2
<1>1. ASSUME NEW ipv4 \in HostAddresses \union {NoAddress},
             NEW gateway \in HostAddresses \union {NoAddress},
             NEW dns \in HostAddresses \union {NoAddress},
             ObserveWifi(ipv4, gateway, dns)
      PROVE  HostsInv(inventory', told')
  <2> DEFINE inv1 == Observed(inventory, ipv4, TRUE, {})
             inv2 == Observed(inv1, gateway, TRUE, {})
             inv3 == Observed(inv2, dns, TRUE, {})
             told1 == HeardUp(told, {ipv4})
             told2 == HeardUp(told1, {gateway})
             told3 == HeardUp(told2, {dns})
  <2>1. Answer(TRUE, {})
    BY DEF Answer
  <2>2. {ipv4, gateway, dns} \subseteq Names \union {NoAddress}
    BY DEF Names
  <2>3. told3 = HeardUp(told, {ipv4, gateway, dns})
    <3>1. told3 = HeardUp(told, {ipv4} \union {gateway} \union {dns})
      BY <1>0, HeardTogether
    <3>2. {ipv4} \union {gateway} \union {dns} = {ipv4, gateway, dns}
      OBVIOUS
    <3> QED BY <3>1, <3>2
  <2>4. inventory' = inv3
    BY <1>1 DEF ObserveWifi
  <2>8. told' = told3
    <3>1. Noted({ipv4, gateway, dns}, TRUE, {})
      BY <1>1 DEF ObserveWifi
    <3>2. told' = HeardUp(told, {ipv4, gateway, dns})
      BY <3>1 DEF Noted, HeardUp, Heard, Said
    <3> QED BY <2>3, <3>2
  <2> HIDE DEF inv1, inv2, inv3, told1, told2, told3
  <2>5. HostsInv(inv1, told1)
    BY <1>o, <2>1, <2>2 DEF inv1, told1, HeardUp
  <2>6. HostsInv(inv2, told2)
    BY <1>o, <2>1, <2>2, <2>5 DEF inv2, told2, HeardUp
  <2>7. HostsInv(inv3, told3)
    BY <1>o, <2>1, <2>2, <2>6 DEF inv3, told3, HeardUp
  <2> QED BY <2>4, <2>7, <2>8
<1>2. ASSUME NEW name \in Names, NEW result, NEW port \in {{}} \union {{p} : p \in Ports},
             ObserveRecon(name, result, port)
      PROVE  HostsInv(inventory', told')
  <2> DEFINE reachable == result \in {"complete", "refused"}
             services == IF result = "complete" THEN port ELSE {}
  <2>1. Answer(reachable, services)
    BY DEF Answer
  <2>2. /\ inventory' = Observed(inventory, name, reachable, services)
        /\ told' = Heard(told, {name}, reachable, services)
    BY <1>2 DEF ObserveRecon, Noted, Heard, Said
  <2> HIDE DEF reachable, services
  <2> QED BY <1>o, <2>1, <2>2
<1>3. CASE UNCHANGED hostsVars
  BY <1>3 DEF hostsVars
<1> QED BY <1>1, <1>2, <1>3 DEF HostsNext

\* Whatever is observed, in any order: unless the list is full and says so, a
\* host that was ever seen stands in it once, with all that was said of it
\* (hosts.c:7-59).
THEOREM HostsToldHolds == HostsSpec => []HostsTold
<1> DEFINE Inv == HostsInv(inventory, told)
<1>1. HostsInit => Inv
  <2> SUFFICES ASSUME HostsInit PROVE Inv
    OBVIOUS
  <2>1. inventory = [records |-> << >>, truncated |-> FALSE]
    BY DEF HostsInit
  <2>2. << >> \in Seq(HostRecords) /\ Len(<< >>) = 0
    OBVIOUS
  <2>3. \A name \in Names : told[name] = [seen |-> FALSE, reachable |-> FALSE, services |-> {}]
    BY DEF HostsInit
  <2>4. told \in [Names -> Reports]
    BY DEF HostsInit, Reports
  <2>5. Typed(inventory, told)
    BY <2>1, <2>2, <2>4, HostsAssumption DEF Typed
  <2>6. \A name : FoundAt(inventory.records, name) = {}
    BY <2>1, <2>2 DEF FoundAt
  <2>7. \A name \in Own : AsTold(inventory, told, name)
    BY <2>3, <2>6 DEF AsTold, Own, Names
  <2> QED BY <2>1, <2>3, <2>5, <2>7 DEF HostsInv
<1>2. Inv /\ [HostsNext]_hostsVars => Inv'
  BY HostsStep
<1>3. Inv => HostsTold
  BY DEF HostsInv, AsTold, Agree, Own, HostsTold, Holding
<1> QED BY <1>1, <1>2, <1>3, PTL DEF HostsSpec
=============================================================================
