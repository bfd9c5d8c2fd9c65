----------------------------- MODULE BootPolicy -----------------------------
(***************************************************************************)
(* What the boot metadata promises to those who use it, with no copies, no *)
(* generations and no flash: there is one boot record, a new one replaces  *)
(* it whole or not at all, and only three successors are ever offered, the *)
(* next attempt, the confirmation of a pending attempt and the reset by    *)
(* the recovery console.                                                   *)
(***************************************************************************)
EXTENDS Integers

CONSTANTS
  MaxAttempts,  \* attempts before recovery
  Torn          \* no record is being saved

VARIABLES
  record,  \* the boot record
  saving   \* the record being saved, Torn when there is none

vars == <<record, saving>>

Checkpoints == {"none", "chaining", "os_entered", "metadata_error"}

Confirmed == [pending |-> FALSE, attempts |-> 0, failure |-> "none"]

Init == record = Confirmed /\ saving = Torn

\* An attempt is offered only while some are left, and carries on the count.
OfferAttempt(checkpoint) ==
  /\ saving = Torn
  /\ record.attempts < MaxAttempts
  /\ checkpoint = "none" \/ record.pending
  /\ saving' = [pending |-> TRUE, attempts |-> record.attempts + 1,
                failure |-> checkpoint]
  /\ record' = record

\* The OS confirms a pending attempt, or the user resets any record.
OfferConfirmed == saving = Torn /\ saving' = Confirmed /\ record' = record

Commit == saving # Torn /\ record' = saving /\ saving' = Torn

\* A cut or a reset before the commit leaves the old record.
Abandon == saving # Torn /\ saving' = Torn /\ record' = record

Next ==
  \/ \E checkpoint \in Checkpoints : OfferAttempt(checkpoint)
  \/ OfferConfirmed
  \/ Commit
  \/ Abandon

Spec == Init /\ [][Next]_vars
=============================================================================
