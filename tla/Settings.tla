------------------------------ MODULE Settings -------------------------------
(***************************************************************************)
(* What the user keeps in the internal flash: the preferences              *)
(* (services/settings/preferences.c), which live in memory and are saved   *)
(* whole at every change, and the Wi-Fi credentials                        *)
(* (services/vault/wifi_vault.c) with the keys of the Wi-Fi screen that    *)
(* reach them (services/gui/gui.c).                                        *)
(*                                                                         *)
(* The preferences are two: "skin" stands for the fields that the records  *)
(* of version 2 have, "apps" for those that came with version 3.  Sealing  *)
(* is abstracted to whether the PIN is the one that a record was sealed    *)
(* with.  Power may be cut between any two operations on the flash.        *)
(***************************************************************************)
EXTENDS InternalFs, Naturals, Sequences

CONSTANTS
  Values,       \* the values of a preference; 0 is the default
  Pins,         \* PINs of a valid length
  ShortPin,     \* and what is too short to be one, the empty line included
  Passwords,    \* of the one network that comes up
  NoPassword,   \* an empty line
  Foreign,      \* a file that no version of the program wrote
  Newer,        \* a file of a version that this one does not know
  MaxFailures,  \* VAULT_MAX_FAILURES
  LockTime      \* VAULT_LOCK_MS, in ticks

ASSUME SettingsAssumption ==
  /\ 0 \in Values
  /\ MaxFailures \in Nat \ {0} /\ LockTime \in Nat \ {0}
  /\ Paths = {"settings", "vault"}

VARIABLES
  preferences,  \* current
  failures,     \* failures
  lockLeft,     \* the ticks until locked_until
  form,         \* wifi_ssid (whether it is filled), wifi_password, wifi_pin
  vaultResult,  \* wifi_vault_result
  refused,      \* history: a change of the preferences was not saved since
  wrongs        \* history: the ticks, up to LockTime, since each of the last
                \* MaxFailures + 1 wrong PINs, until all are that old; a right
                \* one or a restart ends it

ram == <<preferences, failures, lockLeft, form, vaultResult, refused, wrongs>>
settingsVars == <<fsVars, ram>>

Preferences == [skin : Values, apps : Values]
Defaults == [skin |-> 0, apps |-> 0]
Form == [named : BOOLEAN, password : Passwords \union {NoPassword},
         pin : Pins \union {ShortPin}]
EmptyForm == [named |-> FALSE, password |-> NoPassword, pin |-> ShortPin]

Version2(skin) == [version |-> 2, skin |-> skin]
Version3(p) == [version |-> 3, skin |-> p.skin, apps |-> p.apps]
Sealed(pin, password) == [pin |-> pin, password |-> password]

SettingsFiles == {Version2(v) : v \in Values} \union {Version3(p) : p \in Preferences}
VaultFiles == {Sealed(pin, w) : pin \in Pins, w \in Passwords \union {NoPassword}}
Unreadable == {Absent, Foreign, Newer}

\* What is no record of ours is not taken for one.
ASSUME MarkersAssumption == Unreadable \intersect (SettingsFiles \union VaultFiles) = {}

\* Mutant: only the fields that version 2 had are read.
LoadedOld(file) ==
    IF file \in Unreadable THEN Defaults ELSE [Defaults EXCEPT !.skin = file.skin]

\* picopen_preferences_init: what is read of a file, the defaults if nothing is.
Loaded(file) ==
    IF file \in Unreadable THEN Defaults
    ELSE IF file.version = 2 THEN [Defaults EXCEPT !.skin = file.skin]
    ELSE [skin |-> file.skin, apps |-> file.apps]

\* picopen_wifi_vault_present
Present == Reading("vault") \notin {Absent, Foreign}

----------------------------------------------------------------------------
(* Start. *)

Starts(f) ==
    /\ mounted' \in Mounting(f)
    /\ preferences' = Loaded(IF mounted' = "ready" THEN f.files["settings"] ELSE Absent)
    /\ job' = NoJob
    /\ failures' = 0 /\ lockLeft' = 0
    /\ form' = EmptyForm /\ vaultResult' = "EMPTY"
    /\ refused' = FALSE /\ wrongs' = <<>>

\* A flash as it comes to the first start of a behaviour.  A foreign record of
\* credentials is taken for none, and settings of a newer version for foreign.
Delivered ==
    {[formatted |-> FALSE, files |-> Blank, temporary |-> "absent"]} \union
    {[formatted |-> TRUE, temporary |-> "absent",
      files |-> [p \in Paths |-> IF p = "settings" THEN s ELSE v]] :
        s \in SettingsFiles \union {Absent, Foreign}, v \in VaultFiles \union {Absent, Newer}}

SettingsInit ==
    /\ flash \in Delivered
    /\ mounted \in Mounting(flash)
    /\ preferences = Loaded(Reading("settings"))
    /\ job = NoJob
    /\ failures = 0 /\ lockLeft = 0
    /\ form = EmptyForm /\ vaultResult = "EMPTY"
    /\ refused = FALSE /\ wrongs = <<>>

PowerCut == Starts(flash) /\ UNCHANGED flash

----------------------------------------------------------------------------
(* Preferences: a setter changes memory, then saves all of it. *)

SetPreference(field, v) ==
    /\ Idle
    /\ preferences' = [preferences EXCEPT ![field] = v]
    /\ Replace("settings", Version3(preferences'))
    /\ UNCHANGED <<flash, mounted, failures, lockLeft, form, vaultResult, refused, wrongs>>

PreferenceSaved ==
    /\ job.path = "settings" /\ job.step \in {"done", "failed"}
    /\ refused' = (job.step = "failed")
    /\ job' = NoJob
    /\ UNCHANGED <<flash, mounted, preferences, failures, lockLeft, form, vaultResult, wrongs>>

----------------------------------------------------------------------------
(* The Wi-Fi screen: Enter on STORE, REMEMBER or LOAD SAVED, FORGET SAVED. *)

Types(f) ==
    /\ Idle
    /\ form' = f
    /\ UNCHANGED <<fsVars, preferences, failures, lockLeft, vaultResult, refused, wrongs>>

InitializeStore ==
    /\ Idle
    /\ Format
    /\ UNCHANGED <<flash, mounted, ram>>

StoreInitialized ==
    /\ job.call = "format" /\ job.step \in {"done", "failed"}
    /\ job' = NoJob
    /\ UNCHANGED <<flash, mounted, ram>>

\* CONNECT scrubs the password, whether Wi-Fi connects or refuses (see Wifi).
ConnectPressed ==
    /\ Idle
    /\ form' = [form EXCEPT !.password = NoPassword]
    /\ UNCHANGED <<fsVars, preferences, failures, lockLeft, vaultResult, refused, wrongs>>

\* Whatever the vault answers, the PIN is scrubbed.
Answers(result, named, password) ==
    /\ vaultResult' = result
    /\ form' = [named |-> named, password |-> password, pin |-> ShortPin]

Keeping(result) == Answers(result, form.named, form.password)

NothingCounted == UNCHANGED <<failures, lockLeft, wrongs>>

\* Mutant: failures start anew without a lock.
BadPinUnlocked ==
    failures' = (failures + 1) % MaxFailures /\ UNCHANGED lockLeft

BadPin ==
    IF failures + 1 >= MaxFailures
    THEN failures' = 0 /\ lockLeft' = LockTime
    ELSE failures' = failures + 1 /\ UNCHANGED lockLeft

RightPin == failures' = 0 /\ lockLeft' = 0

\* picopen_wifi_vault_load
LoadSaved ==
    /\ Idle /\ Present
    /\ LET record == Reading("vault") IN
       \/ /\ lockLeft > 0
          /\ Keeping("LOCKED") /\ NothingCounted
       \/ /\ lockLeft = 0 /\ record = Newer
          /\ Keeping("INVALID") /\ NothingCounted
       \/ /\ lockLeft = 0 /\ record # Newer /\ record.pin # form.pin
          /\ Keeping("BAD PIN")
          /\ BadPin
          /\ wrongs' = Append(IF Len(wrongs) > MaxFailures THEN Tail(wrongs) ELSE wrongs, 0)
       \/ /\ lockLeft = 0 /\ record # Newer /\ record.pin = form.pin
          /\ Answers("OK", TRUE, record.password)
          /\ RightPin
          /\ wrongs' = <<>>
    /\ UNCHANGED <<fsVars, preferences, refused>>

\* picopen_wifi_vault_save
Remember ==
    /\ Idle /\ ~Present
    /\ \/ /\ ~form.named
          /\ Keeping("INVALID")
          /\ UNCHANGED job
       \/ /\ form.named /\ form.pin = ShortPin
          /\ Keeping("STORAGE")
          /\ UNCHANGED job
       \/ /\ form.named /\ form.pin # ShortPin
          /\ Replace("vault", Sealed(form.pin, form.password))
          /\ UNCHANGED <<form, vaultResult>>
    /\ NothingCounted
    /\ UNCHANGED <<flash, mounted, preferences, refused>>

\* Mutant: what the file system answers is not looked at.
RememberedAnyway ==
    /\ job.path = "vault" /\ job.call = "replace" /\ job.step \in {"done", "failed"}
    /\ Keeping("OK")
    /\ job' = NoJob
    /\ NothingCounted
    /\ UNCHANGED <<flash, mounted, preferences, refused>>

Remembered ==
    /\ job.path = "vault" /\ job.call = "replace" /\ job.step \in {"done", "failed"}
    /\ Keeping(IF job.step = "done" THEN "OK" ELSE "STORAGE")
    /\ job' = NoJob
    /\ NothingCounted
    /\ UNCHANGED <<flash, mounted, preferences, refused>>

\* picopen_wifi_vault_forget
ForgetSaved ==
    /\ Idle
    /\ Remove("vault")
    /\ UNCHANGED <<flash, mounted, ram>>

Forgotten ==
    /\ job.call = "remove" /\ job.step \in {"done", "failed"}
    /\ Answers("EMPTY", form.named, NoPassword)
    /\ job' = NoJob
    /\ NothingCounted
    /\ UNCHANGED <<flash, mounted, preferences, refused>>

----------------------------------------------------------------------------

LockTicks ==
    /\ lockLeft > 0 \/ wrongs # <<>>
    /\ lockLeft' = IF lockLeft > 0 THEN lockLeft - 1 ELSE 0
    /\ wrongs' = IF \A i \in DOMAIN wrongs : wrongs[i] >= LockTime - 1 THEN <<>>
                 ELSE [i \in DOMAIN wrongs |-> IF wrongs[i] < LockTime THEN wrongs[i] + 1
                                               ELSE LockTime]
    /\ UNCHANGED <<fsVars, preferences, failures, form, vaultResult, refused>>

SettingsNext ==
    \/ PowerCut \/ LockTicks
    \/ FsStep /\ UNCHANGED ram
    \/ \E field \in {"skin", "apps"}, v \in Values : SetPreference(field, v)
    \/ PreferenceSaved
    \/ \E f \in Form : Types(f)
    \/ ConnectPressed \/ InitializeStore \/ StoreInitialized
    \/ LoadSaved \/ Remember \/ Remembered \/ ForgetSaved \/ Forgotten

SettingsSpec == SettingsInit /\ [][SettingsNext]_settingsVars

----------------------------------------------------------------------------
(* Properties *)

SettingsTypeOK ==
    /\ flash.formatted \in BOOLEAN
    /\ flash.files["settings"] \in SettingsFiles \union Unreadable
    /\ flash.files["vault"] \in VaultFiles \union Unreadable
    /\ flash.temporary \in {"absent", "partial", "whole"}
    /\ mounted \in {"ready", "uninitialized", "corrupt"}
    /\ preferences \in Preferences
    /\ failures \in 0 .. MaxFailures - 1
    /\ lockLeft \in 0 .. LockTime
    /\ form \in Form
    /\ vaultResult \in {"OK", "EMPTY", "LOCKED", "BAD PIN", "STORAGE", "INVALID"}

Store == INSTANCE FileStore
    WITH formatted <- flash.formatted, files <- flash.files,
         Contents <- SettingsFiles \union VaultFiles \union {Foreign, Newer}

\* Whatever is cut or fails, each file is replaced whole or not at all, and a
\* store that holds files is never formatted (internal_fs.c:79-118).
ReplacedWhole == Store!Spec

\* A restart brings back the preferences that the user sees, unless their last
\* save was refused or is the one that power was cut under: through migration
\* from version 2, files of other versions, and stores formatted late.
RestartKeeps ==
    [][PowerCut /\ Idle /\ ~refused => preferences' = preferences]_settingsVars

\* However tries, restarts of the count and waits are mixed, no LockTime long
\* sees more than MaxFailures wrong PINs, short of a right one or a restart.
FewWrongPins == Len(wrongs) > MaxFailures => wrongs[1] >= LockTime

\* While the screen says OK the vault holds a record: a save that failed at any
\* of its steps is not reported as kept.
OkIsKept == vaultResult = "OK" /\ Idle => flash.files["vault"] \in VaultFiles
=============================================================================
