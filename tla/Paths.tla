------------------------------- MODULE Paths --------------------------------
(***************************************************************************)
(* How a path on the card is read (services/storage/storage.c): one loop   *)
(* counts components and their characters, another looks for "." and "..". *)
(* Of the characters that may not be in a name one stands for all.         *)
(***************************************************************************)
EXTENDS Naturals, Sequences, FiniteSets

CONSTANTS
  PathSize,   \* PICOPEN_STORAGE_PATH_SIZE
  PathDepth   \* PICOPEN_STORAGE_MAX_DEPTH

ASSUME PathsAssumption == PathSize \in Nat \ {0} /\ PathDepth \in Nat \ {0}

\* The loop over the characters: components and their lengths
PathCharacter(s, c) ==
  IF ~s.ok THEN s
  ELSE IF s.length >= PathSize - 1 \/ c = ":" THEN [s EXCEPT !.ok = FALSE]
  ELSE CASE c # "/" -> [s EXCEPT !.component = @ + 1, !.length = @ + 1]
         [] c = "/" /\ s.length = 0 -> [s EXCEPT !.length = 1]
         [] OTHER -> [s EXCEPT !.ok = s.component > 0 /\ s.depth < PathDepth,
                               !.depth = @ + 1, !.component = 0, !.length = @ + 1]

PathScanned(s) ==
  LET after[i \in 0 .. Len(s)] ==
        IF i = 0 THEN [length |-> 0, component |-> 0, depth |-> 0, ok |-> TRUE]
        ELSE PathCharacter(after[i - 1], s[i])
  IN after[Len(s)]

\* strchr(component, '/'), or the end of the text
ComponentEnd(s, i) ==
  LET slashes == {j \in i .. Len(s) : s[j] = "/"} IN
  IF slashes = {} THEN Len(s) + 1 ELSE CHOOSE j \in slashes : \A k \in slashes : j <= k

\* The loop over the components, which looks for "." and ".."
NoDots(s) ==
  LET from[i \in 1 .. Len(s) + 1] ==
        \/ i > Len(s)
        \/ s[i] = "/" /\ from[i + 1]
        \/ /\ s[i] # "/"
           /\ SubSeq(s, i, ComponentEnd(s, i) - 1) \notin {<<".">>, <<".", ".">>}
           /\ from[ComponentEnd(s, i)]
  IN from[1]

\* Mutant: the last component is not counted.
ValidPathUncounted(s, allowRoot) ==
  IF s = <<"/">> THEN allowRoot
  ELSE LET end == PathScanned(s) IN
       end.ok /\ end.component > 0 /\ NoDots(s) /\ Len(s) > 0

\* valid_path()
ValidPath(s, allowRoot) ==
  IF s = <<"/">> THEN allowRoot
  ELSE LET end == PathScanned(s) IN
       end.ok /\ end.component > 0 /\ end.depth < PathDepth /\ NoDots(s) /\ Len(s) > 0

-----------------------------------------------------------------------------
(* What a path means, said without reading it from left to right *)

\* The parts of a text between separators, with their places
Parts(s, separators) ==
  LET ends == {i \in 1 .. Len(s) : s[i] \in separators} \union {0, Len(s) + 1}
  IN {p \in ends \X ends : p[1] < p[2] /\ ~ \E i \in ends : p[1] < i /\ i < p[2]}
Part(s, p) == SubSeq(s, p[1] + 1, p[2] - 1)

\* At most PathDepth components, none of them empty or a way out of its
\* directory, and one slash more at the front.
IsWithin(s, allowRoot) ==
  LET parts == {p \in Parts(s, {"/"}) : ~(p = <<0, 1>> /\ Len(s) > 0)} IN
  IF s = <<"/">> THEN allowRoot
  ELSE /\ Len(s) < PathSize /\ Cardinality(parts) <= PathDepth
       /\ ~ \E i \in 1 .. Len(s) : s[i] = ":"
       /\ \A p \in parts : Part(s, p) \notin {<<>>, <<".">>, <<".", ".">>}
=============================================================================
