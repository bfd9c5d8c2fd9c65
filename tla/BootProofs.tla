----------------------------- MODULE BootProofs -----------------------------
(***************************************************************************)
(* Theorems about Boot, for every number of generations, every attempt     *)
(* limit, and with or without flash faults unless a theorem says.          *)
(***************************************************************************)
EXTENDS Boot, TLAPS

USE HalfAssumption, MaxAttemptsAssumption, TornAssumption,
    CrashModulusAssumption, FlashFaultsAssumption

-----------------------------------------------------------------------------
(* Facts about the operators of BootMetadata.                              *)

\* The next generation is a generation, lies in the other sector, and is newer
\* than the one it follows but not the other way round (generation_newer).
LEMMA NextGenerationFacts ==
  ASSUME NEW g \in Generations
  PROVE  /\ NextGeneration(g) \in Generations
         /\ SectorOf(NextGeneration(g)) # SectorOf(g)
         /\ GenerationNewer(NextGeneration(g), g)
         /\ ~GenerationNewer(g, NextGeneration(g))
  BY DEF Generations, NextGeneration, SectorOf, GenerationNewer, Distance

\* The sector of a generation is one of the two.
LEMMA SectorOfType == \A g : SectorOf(g) \in Sectors
  BY DEF SectorOf, Sectors

\* The default record is a record.
LEMMA DefaultType == DefaultRecord \in Record
  BY DEF DefaultRecord, Record, Generations, Checkpoints

\* A load returns a record, whatever the sectors hold.
LEMMA LoadType ==
  ASSUME NEW c \in [Sectors -> Record \cup {Torn}]
  PROVE  /\ Load(c) \in Record
         /\ LoadOk(c) => \E s \in Sectors : c[s] = Load(c)
         /\ ~LoadOk(c) => Load(c) = DefaultRecord
<1>2. CASE ~LoadOk(c)
  BY DefaultType, <1>2 DEF Load
<1>3. CASE LoadOk(c)
  <2>1. c["A"] # Torn \/ c["B"] # Torn
    BY <1>3 DEF LoadOk, Sectors
  <2>2. PrefersB(c) => c["B"] # Torn
    BY DEF PrefersB
  <2>3. ~PrefersB(c) => c["A"] # Torn
    BY <2>1 DEF PrefersB
  <2>4. "A" \in Sectors /\ "B" \in Sectors
    BY DEF Sectors
  <2>. QED
    BY <1>3, <2>2, <2>3, <2>4 DEF Load
<1>. QED
  BY <1>2, <1>3

\* A successor record is a record.
LEMMA SuccessorType ==
  ASSUME NEW old \in Record, NEW p \in BOOLEAN, NEW a \in 0 .. MaxAttempts,
         NEW f \in Checkpoints
  PROVE  Successor(old, p, a, f) \in Record
  BY NextGenerationFacts DEF Successor, Record

\* So is the record of the next attempt.
LEMMA AttemptType ==
  ASSUME NEW old \in Record, NEW f \in Checkpoints
  PROVE  Attempt(old, f) \in Record
<1>1. old.attempts \in 0 .. MaxAttempts
  BY DEF Record
<1>2. (IF old.attempts < MaxAttempts THEN old.attempts + 1 ELSE old.attempts)
        \in 0 .. MaxAttempts
  BY <1>1
<1>3. (IF old.pending THEN f ELSE "none") \in Checkpoints
  BY DEF Checkpoints
<1>. QED
  BY <1>2, <1>3, SuccessorType DEF Attempt

\* The record that confirms a boot, or that the console's retry writes.
LEMMA ConfirmationType ==
  ASSUME NEW old \in Record
  PROVE  Successor(old, FALSE, 0, "none") \in Record
<1>1. 0 \in 0 .. MaxAttempts /\ "none" \in Checkpoints
  BY DEF Checkpoints
<1>. QED
  BY <1>1, SuccessorType

-----------------------------------------------------------------------------
(* Type correctness.                                                       *)

\* The first state is well typed.
LEMMA TypeInit == Init => TypeOK
<1>. SUFFICES ASSUME Init PROVE TypeOK
  OBVIOUS
<1>1. copy \in [Sectors -> Record \cup {Torn}]
  BY DEF Init
<1>2. crashes \in 0 .. (CrashModulus - 1) /\ tries \in 0 .. (MaxAttempts + 1)
  BY DEF Init
<1>. QED
  BY <1>1, <1>2, DefaultType DEF Init, TypeOK, Stages, Writers, Checkpoints

\* Every step, of the firmware, the user or the power switch, keeps the types.
LEMMA TypeNext == TypeOK /\ [Next]_vars => TypeOK'
<1>. SUFFICES ASSUME TypeOK, [Next]_vars PROVE TypeOK'
  OBVIOUS
<1>. USE DEF TypeOK, Stages, Writers, flash, registers, program, history
<1>0. Load(copy) \in Record
  BY LoadType
<1>1. CASE EnterUsbLoader
  BY <1>1 DEF EnterUsbLoader
<1>2. CASE BootloaderAttempts
  <2>1. ram' \in Record
    BY <1>0, <1>2, AttemptType DEF BootloaderAttempts
  <2>. QED
    BY <1>2, <2>1 DEF BootloaderAttempts, Checkpoints
<1>3. CASE BootloaderRecovers
  BY <1>0, <1>3 DEF BootloaderRecovers, Checkpoints
<1>4. CASE StoreErase
  BY <1>4, SectorOfType DEF StoreErase
<1>5. ASSUME NEW correct \in BOOLEAN, StoreProgram(correct)
      PROVE  TypeOK'
  <2>1. copy' \in [Sectors -> Record \cup {Torn}]
    BY <1>5, SectorOfType DEF StoreProgram
  <2>2. tries' \in 0 .. (MaxAttempts + 1)
    BY <1>5 DEF StoreProgram
  <2>. QED
    BY <1>5, <2>1, <2>2 DEF StoreProgram
<1>6. CASE BootloaderStored
  <2>1. tries' \in 0 .. (MaxAttempts + 1)
    <3>1. CASE Verified(copy, ram)
      BY <1>6, <3>1 DEF BootloaderStored
    <3>2. CASE ~Verified(copy, ram)
      BY <1>6, <3>2 DEF BootloaderStored
    <3>. QED
      BY <3>1, <3>2
  <2>2. CASE Verified(copy, ram)
    BY <1>6, <2>1, <2>2 DEF BootloaderStored, Checkpoints
  <2>3. CASE ~Verified(copy, ram)
    BY <1>6, <2>1, <2>3 DEF BootloaderStored, Checkpoints
  <2>. QED
    BY <2>2, <2>3
<1>7. CASE ConsoleStored
  BY <1>7 DEF ConsoleStored
<1>8. CASE OsStored
  BY <1>8 DEF OsStored, Checkpoints
<1>9. ASSUME NEW read \in BOOLEAN, NEW saved \in BOOLEAN,
             RecoveryInit(read, saved)
      PROVE  TypeOK'
  <2>1. OneMore(read) \in 0 .. (CrashModulus - 1)
    <3>1. (IF read THEN crashes + 1 ELSE 1) \in Nat
      OBVIOUS
    <3>. QED
      BY <3>1 DEF OneMore
  <2>2. crashes' \in 0 .. (CrashModulus - 1)
    BY <1>9, <2>1 DEF RecoveryInit
  <2>. QED
    BY <1>9, <2>2 DEF RecoveryInit
<1>10. CASE OsEnter
  BY <1>10 DEF OsEnter, Checkpoints
<1>11. CASE OsConfirms
  <2>1. ram' \in Record
    BY <1>0, <1>11, ConfirmationType DEF OsConfirms
  <2>2. previous' \in Checkpoints
    BY <1>0, <1>11 DEF OsConfirms, Record
  <2>. QED
    BY <1>11, <2>1, <2>2 DEF OsConfirms, Checkpoints
<1>12. CASE \E removed \in BOOLEAN : ClearCrashRecord(removed)
  BY <1>12 DEF ClearCrashRecord
<1>13. CASE ConsoleRetry
  <2>1. ram' \in Record
    BY <1>13, ConfirmationType DEF ConsoleRetry
  <2>. QED
    BY <1>13, <2>1 DEF ConsoleRetry
<1>14. CASE ConsoleBootsel
  BY <1>14 DEF ConsoleBootsel
<1>15. CASE UsbLoaderReboots
  BY <1>15 DEF UsbLoaderReboots, Checkpoints
<1>16. CASE WatchdogFires
  BY <1>16 DEF WatchdogFires
<1>17. CASE PowerCycle
  BY <1>17 DEF PowerCycle, Checkpoints
<1>18. CASE UNCHANGED vars
  BY <1>18 DEF vars
<1>. QED
  BY <1>1, <1>2, <1>3, <1>4, <1>5, <1>6, <1>7, <1>8, <1>9, <1>10, <1>11,
     <1>12, <1>13, <1>14, <1>15, <1>16, <1>17, <1>18 DEF Next, FirmwareStep

\* Every variable of the boot path keeps its type: in particular the attempt
\* count in flash never exceeds what metadata_valid() accepts.
THEOREM TypeCorrect == Spec => []TypeOK
  BY TypeInit, TypeNext, PTL DEF Spec
-----------------------------------------------------------------------------
(* The store.  Lineage and StoredIsLoaded are not inductive: they need to  *)
(* know what a store in progress will add to, and which sector a failed    *)
(* store has left torn when the console starts another.                    *)

\* A record about to be written, or just written, follows the record in the
\* sector it does not go to.
FollowsOther(c, r) ==
  \A s \in Sectors : s # SectorOf(r.generation) /\ c[s] # Torn =>
    r.generation = NextGeneration(c[s].generation)

StoreInProgress ==
  /\ stage \in Storing => FollowsOther(copy, ram)
  /\ stage = "program" => copy[SectorOf(ram.generation)] = Torn
  /\ stage = "verify" => copy[SectorOf(ram.generation)] \in {ram, Torn}

StoreDone ==
  stage \in {"transfer", "confirmed", "running"} =>
    FollowsOther(copy, ram) /\ copy[SectorOf(ram.generation)] = ram

\* The console's record is the one in its sector, or that sector is torn.
ConsoleBase ==
  stage = "recovery" /\ copy[SectorOf(ram.generation)] # Torn =>
    copy[SectorOf(ram.generation)].generation = ram.generation

StoreInv == TypeOK /\ Lineage /\ StoreInProgress /\ StoreDone /\ ConsoleBase

\* A loaded record sits in its own sector.
LEMMA LoadFromSector ==
  ASSUME NEW c \in [Sectors -> Record \cup {Torn}],
         \A s \in Sectors : c[s] # Torn => SectorOf(c[s].generation) = s,
         LoadOk(c)
  PROVE  c[SectorOf(Load(c).generation)] = Load(c)
<1>1. PICK s \in Sectors : c[s] = Load(c)
  BY LoadType
<1>2. c[s] # Torn
  BY <1>1, LoadType
<1>. QED
  BY <1>1, <1>2

\* The successor of the loaded record follows what the other sector holds.
LEMMA SuccessorFollows ==
  ASSUME NEW c \in [Sectors -> Record \cup {Torn}],
         \A s \in Sectors : c[s] # Torn => SectorOf(c[s].generation) = s,
         NEW r, r.generation = NextGeneration(Load(c).generation)
  PROVE  FollowsOther(c, r)
<1>. SUFFICES ASSUME NEW s \in Sectors, s # SectorOf(r.generation),
                     c[s] # Torn
              PROVE  r.generation = NextGeneration(c[s].generation)
  BY DEF FollowsOther
<1>1. LoadOk(c)
  BY DEF LoadOk
<1>2. Load(c) \in Record /\ Load(c).generation \in Generations
  BY LoadType DEF Record
<1>3. SectorOf(r.generation) # SectorOf(Load(c).generation)
  BY <1>2, NextGenerationFacts
<1>4. s = SectorOf(Load(c).generation)
  BY <1>3, SectorOfType DEF Sectors
<1>. QED
  BY <1>1, <1>4, LoadFromSector

\* A record in its sector that follows the other one is the one a load returns.
LEMMA LoadNewest ==
  ASSUME NEW c \in [Sectors -> Record \cup {Torn}], NEW r \in Record,
         c[SectorOf(r.generation)] = r, FollowsOther(c, r)
  PROVE  LoadOk(c) /\ Load(c) = r
<1>1. r # Torn /\ r.generation \in Generations
  BY DEF Record
<1>2. LoadOk(c)
  BY <1>1, SectorOfType DEF LoadOk
<1>3. CASE SectorOf(r.generation) = "A"
  <2>1. c["B"] # Torn => r.generation = NextGeneration(c["B"].generation)
    BY <1>3 DEF FollowsOther, Sectors
  <2>2. c["B"] # Torn => c["B"].generation \in Generations
    BY DEF Sectors, Record
  <2>3. c["B"] # Torn => ~GenerationNewer(c["B"].generation, r.generation)
    BY <2>1, <2>2, NextGenerationFacts
  <2>4. c["A"] = r
    BY <1>3
  <2>5. ~PrefersB(c)
    BY <1>1, <2>3, <2>4 DEF PrefersB
  <2>. QED
    BY <1>2, <2>4, <2>5 DEF Load
<1>4. CASE SectorOf(r.generation) = "B"
  <2>1. c["A"] # Torn => r.generation = NextGeneration(c["A"].generation)
    BY <1>4 DEF FollowsOther, Sectors
  <2>2. c["A"] # Torn => c["A"].generation \in Generations
    BY DEF Sectors, Record
  <2>3. c["A"] # Torn => GenerationNewer(r.generation, c["A"].generation)
    BY <2>1, <2>2, NextGenerationFacts
  <2>4. c["B"] = r
    BY <1>4
  <2>5. PrefersB(c)
    BY <1>1, <2>3, <2>4 DEF PrefersB
  <2>. QED
    BY <1>2, <2>4, <2>5 DEF Load
<1>. QED
  BY <1>3, <1>4, SectorOfType DEF Sectors

\* No store has begun.
LEMMA StoreInit == Init => StoreInv
<1>. SUFFICES ASSUME Init PROVE StoreInv
  OBVIOUS
<1>1. \A s \in Sectors : copy[s] = Torn
  BY DEF Init
<1>. QED
  BY <1>1, TypeInit DEF Init, StoreInv, Lineage, StoreInProgress, StoreDone,
     ConsoleBase, Storing, Sectors

\* Steps that leave flash and the store's record alone, and do not enter a
\* stage about which StoreInv says something, keep it.
LEMMA StoreQuiet ==
  ASSUME StoreInv, TypeOK', copy' = copy,
         \/ stage' \in {"rom", "usb_loader", "os_entry"}
         \/ stage' = stage /\ ram' = ram
  PROVE  StoreInv'
  BY DEF StoreInv, Lineage, StoreInProgress, StoreDone, ConsoleBase, Storing,
         FollowsOther

\* Every step keeps the invariant of the store.
LEMMA StoreNext == StoreInv /\ [Next]_vars => StoreInv'
<1>. SUFFICES ASSUME StoreInv, [Next]_vars PROVE StoreInv'
  OBVIOUS
<1>. USE DEF flash, registers, program, history
<1>0. TypeOK /\ TypeOK'
  BY TypeNext DEF StoreInv
<1>a. /\ copy \in [Sectors -> Record \cup {Torn}] /\ ram \in Record
      /\ copy' \in [Sectors -> Record \cup {Torn}] /\ ram' \in Record
      /\ ram.generation \in Generations
  BY <1>0 DEF TypeOK, Record
<1>b. \A s \in Sectors : copy[s] # Torn => SectorOf(copy[s].generation) = s
  BY DEF StoreInv, Lineage
<1>1. CASE EnterUsbLoader
  BY <1>0, <1>1, StoreQuiet DEF EnterUsbLoader
<1>2. CASE BootloaderAttempts
  <2>1. ram'.generation = NextGeneration(Load(copy).generation)
    BY <1>2 DEF BootloaderAttempts, Attempt, Successor
  <2>2. FollowsOther(copy, ram')
    BY <1>a, <1>b, <2>1, SuccessorFollows
  <2>3. copy' = copy /\ stage' = "erase"
    BY <1>2 DEF BootloaderAttempts
  <2>. QED
    BY <1>0, <2>2, <2>3 DEF StoreInv, Lineage, StoreInProgress, StoreDone,
                            ConsoleBase, Storing
<1>3. CASE BootloaderRecovers
  <2>1. copy' = copy /\ stage' = "recovery" /\ ram' = Load(copy)
    BY <1>3 DEF BootloaderRecovers
  <2>2. LoadOk(copy) => copy[SectorOf(ram'.generation)] = ram'
    BY <1>a, <1>b, <2>1, LoadFromSector
  <2>3. ~LoadOk(copy) => copy[SectorOf(ram'.generation)] = Torn
    BY SectorOfType DEF LoadOk
  <2>4. ConsoleBase'
    BY <2>1, <2>2, <2>3 DEF ConsoleBase
  <2>. QED
    BY <1>0, <2>1, <2>4 DEF StoreInv, Lineage, StoreInProgress, StoreDone,
                            Storing
<1>4. CASE StoreErase
  <2>1. /\ stage = "erase" /\ stage' = "program" /\ ram' = ram
        /\ copy' = [copy EXCEPT ![SectorOf(ram.generation)] = Torn]
    BY <1>4 DEF StoreErase
  <2>2. /\ copy'[SectorOf(ram.generation)] = Torn
        /\ \A s \in Sectors : copy'[s] # Torn => copy'[s] = copy[s]
    BY <1>a, <2>1, SectorOfType
  <2>3. FollowsOther(copy, ram)
    BY <2>1 DEF StoreInv, StoreInProgress, Storing
  <2>4. FollowsOther(copy', ram')
    BY <2>1, <2>2, <2>3 DEF FollowsOther
  <2>5. Lineage'
    BY <2>2 DEF StoreInv, Lineage, Sectors
  <2>. QED
    BY <1>0, <2>1, <2>2, <2>4, <2>5 DEF StoreInv, StoreInProgress, StoreDone,
                                        ConsoleBase
<1>5. ASSUME NEW correct \in BOOLEAN, StoreProgram(correct)
      PROVE  StoreInv'
  <2>. DEFINE target == SectorOf(ram.generation)
  <2>1. /\ stage = "program" /\ stage' = "verify" /\ ram' = ram
        /\ copy' = [copy EXCEPT ![target] = IF correct THEN ram ELSE Torn]
    BY <1>5 DEF StoreProgram
  <2>2. /\ target \in Sectors
        /\ copy'[target] \in {ram, Torn}
        /\ \A s \in Sectors : s # target => copy'[s] = copy[s]
    BY <1>a, <2>1, SectorOfType
  <2>3. FollowsOther(copy, ram)
    BY <2>1 DEF StoreInv, StoreInProgress, Storing
  <2>4. FollowsOther(copy', ram')
    BY <2>1, <2>2, <2>3 DEF FollowsOther
  <2>5. \A s \in Sectors : copy'[s] # Torn =>
          SectorOf(copy'[s].generation) = s
    BY <1>b, <2>2
  <2>6. copy'["A"] # Torn /\ copy'["B"] # Torn =>
          \/ copy'["A"].generation = NextGeneration(copy'["B"].generation)
          \/ copy'["B"].generation = NextGeneration(copy'["A"].generation)
    BY <2>1, <2>2, <2>4 DEF FollowsOther, Sectors
  <2>. QED
    BY <1>0, <2>1, <2>2, <2>4, <2>5, <2>6
       DEF StoreInv, Lineage, StoreInProgress, StoreDone, ConsoleBase
<1>6. CASE BootloaderStored \/ ConsoleStored \/ OsStored
  <2>1. /\ stage = "verify" /\ copy' = copy /\ ram' = ram
        /\ Verified(copy, ram) => stage' \in {"transfer", "rom", "confirmed"}
        /\ ~Verified(copy, ram) => stage' \in {"recovery", "rom"}
    BY <1>6 DEF BootloaderStored, ConsoleStored, OsStored
  <2>2. FollowsOther(copy, ram) /\ copy[SectorOf(ram.generation)] \in {ram, Torn}
    BY <2>1 DEF StoreInv, StoreInProgress, Storing
  <2>3. CASE Verified(copy, ram)
    <3>1. copy[SectorOf(ram.generation)] = ram
      BY <2>2, <2>3 DEF Verified
    <3>. QED
      BY <1>0, <2>1, <2>2, <2>3, <3>1
         DEF StoreInv, Lineage, StoreInProgress, StoreDone, ConsoleBase, Storing
  <2>4. CASE ~Verified(copy, ram)
    <3>1. ram # Torn
      BY <1>a
    <3>2. copy[SectorOf(ram.generation)] = Torn
      BY <2>2, <2>4, <3>1 DEF Verified
    <3>. QED
      BY <1>0, <2>1, <2>4, <3>2
         DEF StoreInv, Lineage, StoreInProgress, StoreDone, ConsoleBase, Storing
  <2>. QED
    BY <2>3, <2>4
<1>7. ASSUME NEW read \in BOOLEAN, NEW saved \in BOOLEAN,
             RecoveryInit(read, saved)
      PROVE  StoreInv'
  <2>1. stage = "confirmed" /\ stage' = "running" /\ copy' = copy /\ ram' = ram
    BY <1>7 DEF RecoveryInit
  <2>. QED
    BY <1>0, <2>1 DEF StoreInv, Lineage, StoreInProgress, StoreDone,
                      ConsoleBase, Storing
<1>8. CASE OsEnter
  BY <1>0, <1>8, StoreQuiet DEF OsEnter
<1>9. CASE OsConfirms
  <2>1. CASE LoadOk(copy) /\ Load(copy).pending
    <3>1. /\ ram'.generation = NextGeneration(Load(copy).generation)
          /\ copy' = copy /\ stage' = "erase"
      BY <1>9, <2>1 DEF OsConfirms, Successor
    <3>2. FollowsOther(copy, ram')
      BY <1>a, <1>b, <3>1, SuccessorFollows
    <3>. QED
      BY <1>0, <3>1, <3>2 DEF StoreInv, Lineage, StoreInProgress, StoreDone,
                              ConsoleBase, Storing
  <2>2. CASE ~(LoadOk(copy) /\ Load(copy).pending)
    BY <1>0, <1>9, <2>2, StoreQuiet DEF OsConfirms
  <2>. QED
    BY <2>1, <2>2
<1>10. CASE \E removed \in BOOLEAN : ClearCrashRecord(removed)
  BY <1>0, <1>10, StoreQuiet DEF ClearCrashRecord
<1>11. CASE ConsoleRetry
  <2>1. /\ ram'.generation = NextGeneration(ram.generation)
        /\ copy' = copy /\ stage = "recovery" /\ stage' = "erase"
    BY <1>11 DEF ConsoleRetry, Successor
  <2>2. SectorOf(ram'.generation) # SectorOf(ram.generation)
    BY <1>a, <2>1, NextGenerationFacts
  <2>3. \A s \in Sectors : s # SectorOf(ram'.generation) =>
          s = SectorOf(ram.generation)
    BY <2>2, SectorOfType DEF Sectors
  <2>4. FollowsOther(copy, ram')
    BY <2>1, <2>3 DEF FollowsOther, StoreInv, ConsoleBase
  <2>. QED
    BY <1>0, <2>1, <2>4 DEF StoreInv, Lineage, StoreInProgress, StoreDone,
                            ConsoleBase, Storing
<1>12. CASE ConsoleBootsel
  BY <1>0, <1>12, StoreQuiet DEF ConsoleBootsel
<1>13. CASE UsbLoaderReboots
  BY <1>0, <1>13, StoreQuiet DEF UsbLoaderReboots
<1>14. CASE WatchdogFires
  BY <1>0, <1>14, StoreQuiet DEF WatchdogFires
<1>15. CASE PowerCycle
  BY <1>0, <1>15, StoreQuiet DEF PowerCycle
<1>16. CASE UNCHANGED vars
  BY <1>0, <1>16, StoreQuiet DEF vars
<1>. QED
  BY <1>1, <1>2, <1>3, <1>4, <1>5, <1>6, <1>7, <1>8, <1>9, <1>10, <1>11,
     <1>12, <1>13, <1>14, <1>15, <1>16 DEF Next, FirmwareStep

\* The invariant of the store holds of every behaviour.
LEMMA StoreInvariant == Spec => []StoreInv
  BY StoreInit, StoreNext, PTL DEF Spec

\* The copies stay consecutive and in their sectors, whatever is cut, reset or
\* programmed wrongly, and across the wrap of the generation counter.
THEOREM LineageHolds == Spec => []Lineage
<1>1. StoreInv => Lineage
  BY DEF StoreInv
<1>. QED
  BY <1>1, StoreInvariant, PTL

\* A transfer, and an OS that goes on after its confirmation, always rest on a
\* record that the next load returns.
THEOREM StoredIsLoadedHolds == Spec => []StoredIsLoaded
<1>1. StoreInv => StoredIsLoaded
  <2>. SUFFICES ASSUME StoreInv, stage \in {"transfer", "confirmed", "running"}
                PROVE  LoadOk(copy) /\ Load(copy) = ram
    BY DEF StoredIsLoaded
  <2>. QED
    BY LoadNewest DEF StoreInv, StoreDone, TypeOK
<1>. QED
  BY <1>1, StoreInvariant, PTL

-----------------------------------------------------------------------------
(* The crash count.  "os_entered" travels from the scratch register into   *)
(* the bootloader's record, through flash into the next OS, and there      *)
(* decides about the count: a stall must stand behind it all the way.      *)

\* The register says so only while the OS has not confirmed, or after a stall.
RegisterTold ==
  /\ scratch = "os_entered" =>
       \/ stalled
       \/ stage = "os_entry"
       \/ stage \in Storing /\ writer = "os"
  /\ stage = "confirmed" => scratch # "os_entered"

\* The bootloader's record says so only after a stall, up to the OS that loads
\* that same record.
RecordTold ==
  /\ \/ stage \in {"transfer", "os_entry"}
     \/ stage \in Storing /\ writer = "bootloader"
     => (ram.failure = "os_entered" => stalled)
  /\ stage = "os_entry" => Load(copy) = ram

\* So does the OS that has loaded it, until it has counted.
FailureTold ==
  stage = "confirmed" \/ (stage \in Storing /\ writer = "os") =>
    (previous = "os_entered" => stalled)

CrashInv == RegisterTold /\ RecordTold /\ FailureTold

\* Nothing is told in the first state.
LEMMA CrashInit == Init => CrashInv
  BY DEF Init, CrashInv, RegisterTold, RecordTold, FailureTold, Storing

\* Every step keeps the stall behind what is told of it.
LEMMA CrashNext ==
  CrashInv /\ StoreInv /\ StoredIsLoaded /\ [Next]_vars => CrashInv'
<1>. SUFFICES ASSUME CrashInv, StoreInv, StoredIsLoaded, [Next]_vars
              PROVE  CrashInv'
  OBVIOUS
<1>. USE DEF flash, registers, program, history,
             CrashInv, RegisterTold, RecordTold, FailureTold, Storing
<1>1. CASE EnterUsbLoader
  BY <1>1 DEF EnterUsbLoader
<1>2. CASE BootloaderAttempts
  <2>1. ram'.failure = "os_entered" => scratch = "os_entered"
    BY <1>2 DEF BootloaderAttempts, Attempt, Successor
  <2>2. /\ stage = "rom" /\ stage' = "erase" /\ writer' = "bootloader"
        /\ scratch' = "none" /\ stalled' = stalled
    BY <1>2 DEF BootloaderAttempts
  <2>. QED
    BY <2>1, <2>2
<1>3. CASE BootloaderRecovers
  BY <1>3 DEF BootloaderRecovers
<1>4. CASE StoreErase
  BY <1>4 DEF StoreErase
<1>5. ASSUME NEW correct \in BOOLEAN, StoreProgram(correct)
      PROVE  CrashInv'
  BY <1>5 DEF StoreProgram
<1>6. CASE BootloaderStored
  BY <1>6 DEF BootloaderStored
<1>7. CASE ConsoleStored
  BY <1>7 DEF ConsoleStored, StoreInv, TypeOK
<1>8. CASE OsStored
  BY <1>8 DEF OsStored
<1>9. ASSUME NEW read \in BOOLEAN, NEW saved \in BOOLEAN,
             RecoveryInit(read, saved)
      PROVE  CrashInv'
  BY <1>9 DEF RecoveryInit
<1>10. CASE OsEnter
  BY <1>10 DEF OsEnter, StoredIsLoaded
<1>11. CASE OsConfirms
  <2>1. Load(copy) = ram /\ (ram.failure = "os_entered" => stalled)
    BY <1>11 DEF OsConfirms
  <2>. QED
    BY <1>11, <2>1 DEF OsConfirms
<1>12. CASE \E removed \in BOOLEAN : ClearCrashRecord(removed)
  BY <1>12 DEF ClearCrashRecord
<1>13. CASE ConsoleRetry
  BY <1>13 DEF ConsoleRetry
<1>14. CASE ConsoleBootsel
  BY <1>14 DEF ConsoleBootsel
<1>15. CASE UsbLoaderReboots
  BY <1>15 DEF UsbLoaderReboots
<1>16. CASE WatchdogFires
  BY <1>16 DEF WatchdogFires
<1>17. CASE PowerCycle
  BY <1>17 DEF PowerCycle
<1>18. CASE UNCHANGED vars
  BY <1>18 DEF vars
<1>. QED
  BY <1>1, <1>2, <1>3, <1>4, <1>5, <1>6, <1>7, <1>8, <1>9, <1>10, <1>11,
     <1>12, <1>13, <1>14, <1>15, <1>16, <1>17, <1>18 DEF Next, FirmwareStep

\* The crash count grows only for an OS that was entered and that the watchdog
\* then reset, once for each such reset and never for a power cut
\* (services/recovery/recovery.c:19-25).
THEOREM CrashesAreStallsHolds == Spec => CrashesAreStalls
<1>. DEFINE Told == crashes' \notin {crashes, 0} => stalled /\ stage' = "running"
<1>1. CrashInv /\ [Next]_vars => [Told]_vars
  <2>. SUFFICES ASSUME CrashInv, Next, crashes' \notin {crashes, 0}
                PROVE  stalled /\ stage' = "running"
    BY DEF vars
  <2>. USE DEF flash, registers, program, history
  <2>1. PICK read, saved \in BOOLEAN : RecoveryInit(read, saved)
    BY DEF Next, FirmwareStep, EnterUsbLoader, BootloaderAttempts,
           BootloaderRecovers, StoreErase, StoreProgram, BootloaderStored,
           ConsoleStored, OsStored, OsEnter, OsConfirms, ClearCrashRecord,
           ConsoleRetry, ConsoleBootsel, UsbLoaderReboots, WatchdogFires,
           PowerCycle
  <2>. QED
    BY <2>1 DEF RecoveryInit, CrashInv, FailureTold
<1>. HIDE DEF Told
<1>2. Spec => []CrashInv
  BY CrashInit, CrashNext, StoreInvariant, StoredIsLoadedHolds, PTL DEF Spec
<1>3. Spec => [][Told]_vars
  BY <1>1, <1>2, PTL DEF Spec
<1>. QED
  BY <1>3 DEF CrashesAreStalls, Told

-----------------------------------------------------------------------------
(* What the boot path promises when flash programs what it is told: a copy *)
(* always survives, the attempts are bounded, and the two copies implement *)
(* the single atomic record of BootPolicy.                                 *)

\* A store in progress is the next generation after the record in force, its
\* programming succeeds, and the console works on the record in force.
CleanStore ==
  /\ stage \in {"erase", "program"} =>
       ram.generation = NextGeneration(Load(copy).generation)
  /\ stage = "verify" => copy[SectorOf(ram.generation)] = ram
  /\ stage = "recovery" => ram = Load(copy)

\* The attempts in flash run ahead of the transfers, never behind.
Counted ==
  /\ ~Load(copy).pending => Load(copy).attempts = 0 /\ Load(copy).failure = "none"
  /\ tries <= Load(copy).attempts
  /\ stage \in {"erase", "program"} /\ writer = "bootloader" =>
       ram.pending /\ ram.attempts = Load(copy).attempts + 1
  /\ stage \in {"erase", "program"} /\ writer # "bootloader" =>
       ~ram.pending /\ ram.attempts = 0 /\ ram.failure = "none"
  /\ stage = "verify" /\ writer = "bootloader" => tries < ram.attempts

CleanInv == ~FlashFaults /\ StoreInv /\ CleanStore /\ Counted

-----------------------------------------------------------------------------
\* Erasing the sector of the next generation leaves the record in force.
LEMMA EraseKeepsLoad ==
  ASSUME NEW c \in [Sectors -> Record \cup {Torn}],
         \A s \in Sectors : c[s] # Torn => SectorOf(c[s].generation) = s,
         NEW d \in [Sectors -> Record \cup {Torn}],
         d = [c EXCEPT ![SectorOf(NextGeneration(Load(c).generation))] = Torn]
  PROVE  Load(d) = Load(c) /\ (LoadOk(c) => LoadOk(d))
<1>. DEFINE r == Load(c)
            home == SectorOf(r.generation)
            target == SectorOf(NextGeneration(r.generation))
<1>1. CASE ~LoadOk(c)
  <2>1. ~LoadOk(d)
    BY <1>1 DEF LoadOk
  <2>. QED
    BY <1>1, <2>1 DEF Load
<1>2. CASE LoadOk(c)
  <2>1. r \in Record /\ r.generation \in Generations
    BY LoadType DEF Record
  <2>2. home \in Sectors /\ target \in Sectors /\ home # target
    BY <2>1, NextGenerationFacts, SectorOfType
  <2>3. d[home] = r
    BY <1>2, <2>2, LoadFromSector
  <2>4. \A s \in Sectors : s # home => d[s] = Torn
    BY <2>2 DEF Sectors
  <2>5. FollowsOther(d, r)
    BY <2>4 DEF FollowsOther
  <2>. HIDE DEF r
  <2>6. LoadOk(d) /\ Load(d) = r
    BY <2>1, <2>3, <2>5, LoadNewest
  <2>. QED
    BY <2>6 DEF r
<1>. QED
  BY <1>1, <1>2

\* What StoreErase does to the record in force: nothing.
LEMMA EraseStep ==
  ASSUME CleanInv, StoreErase
  PROVE  Load(copy') = Load(copy) /\ (LoadOk(copy) => LoadOk(copy'))
<1>1. copy \in [Sectors -> Record \cup {Torn}] /\ ram.generation \in Generations
  BY DEF CleanInv, StoreInv, TypeOK, Record
<1>2. \A s \in Sectors : copy[s] # Torn => SectorOf(copy[s].generation) = s
  BY DEF CleanInv, StoreInv, Lineage
<1>3. /\ ram.generation = NextGeneration(Load(copy).generation)
      /\ copy' = [copy EXCEPT ![SectorOf(ram.generation)] = Torn]
  BY DEF CleanInv, CleanStore, StoreErase
<1>4. copy' \in [Sectors -> Record \cup {Torn}]
  BY <1>1, <1>3
<1>. QED
  BY <1>1, <1>2, <1>3, <1>4, EraseKeepsLoad

\* What StoreProgram does to the record in force: the new record replaces it.
LEMMA ProgramStep ==
  ASSUME CleanInv, [Next]_vars, NEW correct \in BOOLEAN, StoreProgram(correct)
  PROVE  /\ correct /\ LoadOk(copy') /\ Load(copy') = ram
         /\ copy'[SectorOf(ram.generation)] = ram
<1>1. StoreInv' /\ TypeOK
  BY StoreNext DEF CleanInv, StoreInv
<1>2. correct /\ stage' = "verify" /\ ram' = ram
  BY DEF CleanInv, StoreProgram
<1>3. copy'[SectorOf(ram.generation)] = ram
  BY <1>1, <1>2, SectorOfType DEF StoreProgram, TypeOK
<1>4. copy' \in [Sectors -> Record \cup {Torn}] /\ ram \in Record
  BY <1>1 DEF StoreInv, TypeOK
<1>5. FollowsOther(copy', ram)
  BY <1>1, <1>2 DEF StoreInv, StoreInProgress, Storing
<1>. QED
  BY <1>2, <1>3, <1>4, <1>5, LoadNewest

\* A verified record is the record in force.
LEMMA VerifyState ==
  ASSUME CleanInv, stage = "verify"
  PROVE  Verified(copy, ram) /\ Load(copy) = ram
<1>1. /\ copy \in [Sectors -> Record \cup {Torn}] /\ ram \in Record
      /\ copy[SectorOf(ram.generation)] = ram /\ FollowsOther(copy, ram)
  BY DEF CleanInv, CleanStore, StoreInv, TypeOK, StoreInProgress, Storing
<1>2. ram # Torn
  BY <1>1
<1>. QED
  BY <1>1, <1>2, LoadNewest DEF Verified

-----------------------------------------------------------------------------
\* An unwritten device, with sound flash, satisfies the invariant.
LEMMA CleanInit == ~FlashFaults /\ Init => CleanInv
<1>. SUFFICES ASSUME ~FlashFaults, Init PROVE CleanInv
  OBVIOUS
<1>1. ~LoadOk(copy)
  BY DEF Init, LoadOk
<1>2. Load(copy) = DefaultRecord
  BY <1>1 DEF Load
<1>. QED
  BY <1>2, StoreInit DEF CleanInv, CleanStore, Counted, Init, DefaultRecord

\* Steps that keep flash, the history and the store's record, and do not enter
\* a stage about which CleanInv says something, keep it.
LEMMA CleanQuiet ==
  ASSUME CleanInv, StoreInv', copy' = copy, tries' = tries,
         \/ stage' \in {"rom", "usb_loader", "os_entry", "confirmed", "running"}
         \/ stage' = stage /\ ram' = ram /\ writer' = writer
  PROVE  CleanInv'
  BY DEF CleanInv, CleanStore, Counted

\* Every step keeps the invariant of sound flash.
LEMMA CleanNext == CleanInv /\ [Next]_vars => CleanInv'
<1>. SUFFICES ASSUME CleanInv, [Next]_vars PROVE CleanInv'
  OBVIOUS
<1>. USE DEF flash, registers, program, history
<1>0. StoreInv /\ StoreInv' /\ TypeOK /\ ~FlashFaults
  BY StoreNext DEF CleanInv, StoreInv
<1>a. /\ Load(copy) \in Record /\ Load(copy).attempts \in 0 .. MaxAttempts
      /\ tries \in Int /\ Load(copy).pending \in BOOLEAN
  BY <1>0, LoadType DEF TypeOK, Record
<1>1. CASE EnterUsbLoader
  BY <1>0, <1>1, CleanQuiet DEF EnterUsbLoader
<1>2. CASE BootloaderAttempts
  <2>1. Load(copy).attempts < MaxAttempts
    BY <1>2, <1>a DEF BootloaderAttempts, Exhausted, CleanInv, Counted
  <2>2. /\ ram'.generation = NextGeneration(Load(copy).generation)
        /\ ram'.pending /\ ram'.attempts = Load(copy).attempts + 1
        /\ copy' = copy /\ tries' = tries
        /\ stage' = "erase" /\ writer' = "bootloader"
    BY <1>2, <2>1 DEF BootloaderAttempts, Attempt, Successor
  <2>. QED
    BY <1>0, <2>2 DEF CleanInv, CleanStore, Counted
<1>3. CASE BootloaderRecovers
  BY <1>0, <1>3 DEF BootloaderRecovers, CleanInv, CleanStore, Counted
<1>4. CASE StoreErase
  <2>1. Load(copy') = Load(copy)
    BY <1>4, EraseStep
  <2>2. stage = "erase" /\ stage' = "program" /\ UNCHANGED <<ram, writer, tries>>
    BY <1>4 DEF StoreErase
  <2>. QED
    BY <1>0, <2>1, <2>2 DEF CleanInv, CleanStore, Counted
<1>5. ASSUME NEW correct \in BOOLEAN, StoreProgram(correct)
      PROVE  CleanInv'
  <2>1. /\ correct /\ Load(copy') = ram /\ copy'[SectorOf(ram.generation)] = ram
    BY <1>5, ProgramStep
  <2>2. /\ stage = "program" /\ stage' = "verify" /\ UNCHANGED <<ram, writer>>
        /\ tries' = IF ~ram.pending THEN 0 ELSE tries
    BY <1>5, <2>1 DEF StoreProgram
  <2>3. CASE writer = "bootloader"
    BY <1>0, <1>a, <2>1, <2>2, <2>3 DEF CleanInv, CleanStore, Counted
  <2>4. CASE writer # "bootloader"
    BY <1>0, <1>a, <2>1, <2>2, <2>4 DEF CleanInv, CleanStore, Counted
  <2>. QED
    BY <2>3, <2>4
<1>6. CASE BootloaderStored
  <2>1. Verified(copy, ram) /\ Load(copy) = ram
    BY <1>6, VerifyState DEF BootloaderStored
  <2>2. /\ stage = "verify" /\ writer = "bootloader" /\ stage' = "transfer"
        /\ copy' = copy
        /\ tries' = IF tries <= MaxAttempts THEN tries + 1 ELSE tries
    BY <1>6, <2>1 DEF BootloaderStored
  <2>3. tries < Load(copy).attempts
    BY <2>1, <2>2 DEF CleanInv, Counted
  <2>4. tries' <= Load(copy).attempts
    BY <1>a, <2>2, <2>3
  <2>. QED
    BY <1>0, <2>2, <2>4 DEF CleanInv, CleanStore, Counted
<1>7. CASE ConsoleStored \/ OsStored
  <2>1. Verified(copy, ram)
    BY <1>7, VerifyState DEF ConsoleStored, OsStored
  <2>. QED
    BY <1>0, <1>7, <2>1, CleanQuiet DEF ConsoleStored, OsStored
<1>8. ASSUME NEW read \in BOOLEAN, NEW saved \in BOOLEAN,
             RecoveryInit(read, saved)
      PROVE  CleanInv'
  BY <1>0, <1>8, CleanQuiet DEF RecoveryInit
<1>9. CASE OsEnter
  BY <1>0, <1>9, CleanQuiet DEF OsEnter
<1>10. CASE OsConfirms
  <2>1. CASE LoadOk(copy) /\ Load(copy).pending
    <3>1. /\ ram'.generation = NextGeneration(Load(copy).generation)
          /\ ~ram'.pending /\ ram'.attempts = 0 /\ ram'.failure = "none"
          /\ copy' = copy /\ tries' = tries
          /\ stage' = "erase" /\ writer' = "os"
      BY <1>10, <2>1 DEF OsConfirms, Successor
    <3>. QED
      BY <1>0, <3>1 DEF CleanInv, CleanStore, Counted
  <2>2. CASE ~(LoadOk(copy) /\ Load(copy).pending)
    BY <1>0, <1>10, <2>2, CleanQuiet DEF OsConfirms
  <2>. QED
    BY <2>1, <2>2
<1>11. CASE \E removed \in BOOLEAN : ClearCrashRecord(removed)
  BY <1>0, <1>11, CleanQuiet DEF ClearCrashRecord
<1>12. CASE ConsoleRetry
  <2>1. ram = Load(copy)
    BY <1>12 DEF ConsoleRetry, CleanInv, CleanStore
  <2>2. /\ ram'.generation = NextGeneration(Load(copy).generation)
        /\ ~ram'.pending /\ ram'.attempts = 0 /\ ram'.failure = "none"
        /\ copy' = copy /\ tries' = tries
        /\ stage' = "erase" /\ writer' = "console"
    BY <1>12, <2>1 DEF ConsoleRetry, Successor
  <2>. QED
    BY <1>0, <2>2 DEF CleanInv, CleanStore, Counted
<1>13. CASE ConsoleBootsel
  BY <1>0, <1>13, CleanQuiet DEF ConsoleBootsel
<1>14. CASE UsbLoaderReboots
  BY <1>0, <1>14, CleanQuiet DEF UsbLoaderReboots
<1>15. CASE WatchdogFires
  BY <1>0, <1>15, CleanQuiet DEF WatchdogFires
<1>16. CASE PowerCycle
  BY <1>0, <1>16, CleanQuiet DEF PowerCycle
<1>17. CASE UNCHANGED vars
  BY <1>0, <1>17, CleanQuiet DEF vars
<1>. QED
  BY <1>1, <1>2, <1>3, <1>4, <1>5, <1>6, <1>7, <1>8, <1>9, <1>10, <1>11,
     <1>12, <1>13, <1>14, <1>15, <1>16, <1>17 DEF Next, FirmwareStep

\* The invariant of sound flash holds of every behaviour.
LEMMA CleanInvariant == ~FlashFaults /\ Spec => []CleanInv
  BY CleanInit, CleanNext, PTL DEF Spec

-----------------------------------------------------------------------------
\* No image gets more than MaxAttempts transfers without confirming, whatever
\* the power and the watchdog do, as long as flash programs what it is told.
THEOREM AttemptsBoundedHolds == ~FlashFaults /\ Spec => []AttemptsBounded
<1>1. CleanInv => AttemptsBounded
  <2>. SUFFICES ASSUME CleanInv PROVE AttemptsBounded
    OBVIOUS
  <2>1. Load(copy).attempts \in 0 .. MaxAttempts /\ tries \in Int
    BY LoadType DEF CleanInv, StoreInv, TypeOK, Record
  <2>. QED
    BY <2>1 DEF CleanInv, Counted, AttemptsBounded
<1>. QED
  BY <1>1, CleanInvariant, PTL

\* Once a sector holds a valid copy, one always does: no step of a store, and
\* no cut or reset in the middle of one, takes the last copy away.
THEOREM KeepsACopyHolds == ~FlashFaults /\ Spec => KeepsACopy
<1>1. CleanInv /\ [Next]_vars => [LoadOk(copy) => LoadOk(copy')]_vars
  <2>. SUFFICES ASSUME CleanInv, [Next]_vars, LoadOk(copy)
                PROVE  LoadOk(copy')
    OBVIOUS
  <2>. USE DEF flash
  <2>1. CASE StoreErase
    BY <2>1, EraseStep
  <2>2. ASSUME NEW correct \in BOOLEAN, StoreProgram(correct)
        PROVE  LoadOk(copy')
    BY <2>2, ProgramStep
  <2>3. CASE copy' = copy
    BY <2>3
  <2>. QED
    BY <2>1, <2>2, <2>3
       DEF Next, FirmwareStep, vars, EnterUsbLoader, BootloaderAttempts,
           BootloaderRecovers, BootloaderStored, ConsoleStored, OsStored,
           RecoveryInit, OsEnter, OsConfirms, ClearCrashRecord, ConsoleRetry,
           ConsoleBootsel, UsbLoaderReboots, WatchdogFires, PowerCycle
<1>. QED
  BY <1>1, CleanInvariant, PTL DEF KeepsACopy, Spec
-----------------------------------------------------------------------------
\* A record without its generation is never mistaken for no record.
LEMMA LogicalType ==
  ASSUME NEW r \in Record
  PROVE  Logical(r) \in LogicalRecord /\ Logical(r) # Torn
  BY DEF Logical, LogicalRecord, Record

\* An unwritten device shows its users the default record.
LEMMA PolicyInit == Init => Policy!Init
<1>. SUFFICES ASSUME Init PROVE Policy!Init
  OBVIOUS
<1>1. Load(copy) = DefaultRecord
  BY DEF Init, Load, LoadOk
<1>2. Logical(Load(copy)) = Policy!Confirmed
  BY <1>1 DEF Policy!Confirmed, Logical, DefaultRecord
<1>3. stage \notin {"erase", "program"}
  BY DEF Init
<1>. QED
  BY <1>2, <1>3 DEF Policy!Init

\* A step that leaves the record in force and starts or ends no store stutters.
LEMMA PolicyStutter ==
  ASSUME Load(copy') = Load(copy),
         stage \notin {"erase", "program"} /\ stage' \notin {"erase", "program"}
  PROVE  UNCHANGED Policy!vars
  BY DEF Policy!vars, Logical

\* A reset in the middle of a store abandons it.
LEMMA PolicyAbandon ==
  ASSUME CleanInv, Load(copy') = Load(copy),
         stage' \notin {"erase", "program"}
  PROVE  [Policy!Next]_(Policy!vars)
<1>1. CASE stage \notin {"erase", "program"}
  BY <1>1, PolicyStutter
<1>2. CASE stage \in {"erase", "program"}
  <2>1. Logical(ram) # Torn
    BY LogicalType DEF CleanInv, StoreInv, TypeOK
  <2>2. Policy!Abandon
    BY <1>2, <2>1 DEF Policy!Abandon, Logical
  <2>. QED
    BY <2>2 DEF Policy!Next
<1>. QED
  BY <1>1, <1>2

\* Every step of the boot path is a step of the policy, or none.
LEMMA PolicyNext == CleanInv /\ [Next]_vars => [Policy!Next]_(Policy!vars)
<1>. SUFFICES ASSUME CleanInv, [Next]_vars PROVE [Policy!Next]_(Policy!vars)
  OBVIOUS
<1>. USE DEF flash, program
<1>0. TypeOK
  BY DEF CleanInv, StoreInv
<1>a. /\ Load(copy) \in Record /\ Load(copy).attempts \in 0 .. MaxAttempts
      /\ Load(copy).pending \in BOOLEAN
  BY <1>0, LoadType DEF TypeOK, Record
<1>1. CASE BootloaderAttempts
  <2>. DEFINE checkpoint == IF Load(copy).pending THEN scratch ELSE "none"
  <2>1. Load(copy).attempts < MaxAttempts
    BY <1>1, <1>a DEF BootloaderAttempts, Exhausted, CleanInv, Counted
  <2>2. /\ stage = "rom" /\ stage' = "erase" /\ copy' = copy
        /\ Logical(ram') = [pending |-> TRUE,
                            attempts |-> Load(copy).attempts + 1,
                            failure |-> checkpoint]
    BY <1>1, <2>1 DEF BootloaderAttempts, Attempt, Successor, Logical
  <2>3. checkpoint \in Policy!Checkpoints
    BY <1>0 DEF TypeOK, Checkpoints, Policy!Checkpoints
  <2>4. Policy!OfferAttempt(checkpoint)
    BY <2>1, <2>2 DEF Policy!OfferAttempt, Logical
  <2>. QED
    BY <2>3, <2>4 DEF Policy!Next
<1>2. CASE StoreErase
  <2>1. Load(copy') = Load(copy)
    BY <1>2, EraseStep
  <2>2. stage = "erase" /\ stage' = "program" /\ ram' = ram
    BY <1>2 DEF StoreErase
  <2>. QED
    BY <2>1, <2>2 DEF Policy!vars, Logical
<1>3. ASSUME NEW correct \in BOOLEAN, StoreProgram(correct)
      PROVE  [Policy!Next]_(Policy!vars)
  <2>1. Load(copy') = ram
    BY <1>3, ProgramStep
  <2>2. stage = "program" /\ stage' = "verify" /\ Logical(ram) # Torn
    BY <1>0, <1>3, LogicalType DEF StoreProgram, TypeOK
  <2>3. Policy!Commit
    BY <2>1, <2>2 DEF Policy!Commit
  <2>. QED
    BY <2>3 DEF Policy!Next
<1>4. CASE OsConfirms /\ stage' = "erase"
  <2>1. /\ stage = "os_entry" /\ copy' = copy
        /\ ram' = Successor(Load(copy), FALSE, 0, "none")
    BY <1>4 DEF OsConfirms
  <2>2. Policy!OfferConfirmed
    BY <1>4, <2>1 DEF Policy!OfferConfirmed, Policy!Confirmed, Successor, Logical
  <2>. QED
    BY <2>2 DEF Policy!Next
<1>5. CASE ConsoleRetry
  <2>1. /\ stage = "recovery" /\ stage' = "erase" /\ copy' = copy
        /\ ram' = Successor(ram, FALSE, 0, "none")
    BY <1>5 DEF ConsoleRetry
  <2>2. Policy!OfferConfirmed
    BY <2>1 DEF Policy!OfferConfirmed, Policy!Confirmed, Successor, Logical
  <2>. QED
    BY <2>2 DEF Policy!Next
<1>6. CASE UNCHANGED vars
  BY <1>6 DEF vars, Policy!vars, Logical
<1>7. CASE copy' = copy /\ stage' \notin {"erase", "program"}
  BY <1>7, PolicyAbandon
<1>. QED
  BY <1>1, <1>2, <1>3, <1>4, <1>5, <1>6, <1>7
     DEF Next, FirmwareStep, EnterUsbLoader, BootloaderRecovers,
         BootloaderStored, ConsoleStored, OsStored, RecoveryInit, OsEnter,
         OsConfirms, ClearCrashRecord, ConsoleBootsel, UsbLoaderReboots,
         WatchdogFires, PowerCycle

\* Two copies, generations, erase and program steps, power cuts and watchdog
\* resets together look like one record that is replaced whole or not at all,
\* and only by the successors the policy allows.
THEOREM Refinement == ~FlashFaults /\ Spec => ImplementsPolicy
  BY PolicyInit, PolicyNext, CleanInvariant, PTL
     DEF Spec, ImplementsPolicy, Policy!Spec
=============================================================================
