---------------------------- MODULE BootMetadata ----------------------------
(***************************************************************************)
(* The redundant boot record of src/boot_metadata.c: two flash sectors, A  *)
(* and B, each holding one 256-byte record, and the rules by which the     *)
(* program picks the copy to believe and the sector to overwrite.          *)
(*                                                                         *)
(* The CRC and the fixed fields are abstracted: a sector either holds a    *)
(* record that passes metadata_valid() or it is Torn (erased, half         *)
(* programmed, or programmed wrongly).  Generations keep the 32-bit        *)
(* wrap-around and the signed comparison of the code; Half stands for      *)
(* 2^31.                                                                   *)
(***************************************************************************)
EXTENDS Integers

CONSTANTS
  Half,         \* half the number of generations, 2^31 on the device
  MaxAttempts,  \* PICOPEN_BOOT_MAX_ATTEMPTS
  Torn          \* what metadata_valid() rejects

ASSUME HalfAssumption == Half \in Nat /\ Half >= 2
ASSUME MaxAttemptsAssumption == MaxAttempts \in Nat /\ MaxAttempts >= 1

Sectors == {"A", "B"}

Generations == 0 .. (2 * Half - 1)

\* The watchdog scratch checkpoints; "none" is zero.
Checkpoints == {"none", "chaining", "os_entered", "metadata_error"}

Record == [generation : Generations, pending : BOOLEAN,
           attempts : 0 .. MaxAttempts, failure : Checkpoints]

\* A record without its generation: what the callers of load and store see.
LogicalRecord == [pending : BOOLEAN, attempts : 0 .. MaxAttempts,
                  failure : Checkpoints]

Logical(record) == [pending |-> record.pending, attempts |-> record.attempts,
                    failure |-> record.failure]

ASSUME TornAssumption == Torn \notin Record /\ Torn \notin LogicalRecord

\* The increment of a uint32_t generation.
NextGeneration(g) == IF g = 2 * Half - 1 THEN 0 ELSE g + 1

\* The uint32_t subtraction candidate - current.
Distance(candidate, current) ==
  IF candidate >= current THEN candidate - current
                          ELSE candidate - current + 2 * Half

\* (int32_t)(candidate - current) > 0
GenerationNewer(candidate, current) ==
  /\ Distance(candidate, current) > 0
  /\ Distance(candidate, current) < Half

\* Mutant: no alternation between the sectors.
SectorFixed(g) == "A"

\* The sector picopen_boot_metadata_store() writes generation g to.
SectorOf(g) == IF g % 2 = 1 THEN "A" ELSE "B"

DefaultRecord ==
  [generation |-> 0, pending |-> FALSE, attempts |-> 0, failure |-> "none"]

\* What picopen_boot_metadata_load() returns, and what it leaves in *metadata.
LoadOk(copy) == \E s \in Sectors : copy[s] # Torn

PrefersB(copy) ==
  /\ copy["B"] # Torn
  /\ copy["A"] = Torn \/ GenerationNewer(copy["B"].generation,
                                         copy["A"].generation)

Load(copy) ==
  IF ~LoadOk(copy) THEN DefaultRecord
  ELSE IF PrefersB(copy) THEN copy["B"] ELSE copy["A"]

\* The record a store is about to write: the caller's fields, one generation on.
Successor(old, pending, attempts, failure) ==
  [generation |-> NextGeneration(old.generation), pending |-> pending,
   attempts |-> attempts, failure |-> failure]

\* Mutant: the sector is not read back.
VerifiedBlindly(copy, record) == TRUE

\* The verification that ends picopen_boot_metadata_store().
Verified(copy, record) ==
  LET written == copy[SectorOf(record.generation)]
  IN  written # Torn /\ written.generation = record.generation
=============================================================================
