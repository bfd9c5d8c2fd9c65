------------------------------ MODULE FileStore ------------------------------
(***************************************************************************)
(* What the internal file system promises to those who keep their settings *)
(* in it: a file is there as it was last written or not at all, whatever   *)
(* happens to power, and a store that holds files is never formatted.      *)
(* Settings implements it (Settings!ReplacedWhole).                        *)
(***************************************************************************)
CONSTANTS Paths,        \* the names that are used
          Contents,     \* what callers write
          Absent        \* no such file
VARIABLES formatted, files

Blank == [p \in Paths |-> Absent]

Init == /\ formatted \in BOOLEAN
        /\ files \in [Paths -> Contents \union {Absent}]
        /\ ~formatted => files = Blank

Replace(p, c) == /\ formatted
                 /\ files' = [files EXCEPT ![p] = c]
                 /\ UNCHANGED formatted

Remove(p) == /\ formatted
             /\ files' = [files EXCEPT ![p] = Absent]
             /\ UNCHANGED formatted

Format == /\ files = Blank
          /\ formatted' = TRUE
          /\ UNCHANGED files

Next == \/ \E p \in Paths : (\E c \in Contents : Replace(p, c)) \/ Remove(p)
        \/ Format

Spec == Init /\ [][Next]_<<formatted, files>>
=============================================================================
