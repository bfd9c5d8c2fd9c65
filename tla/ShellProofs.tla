----------------------------- MODULE ShellProofs -----------------------------
(***************************************************************************)
(* What holds of the terminal and its shell for glasses of any size, any   *)
(* commands and whatever they print: the glass shows the terminal, the     *)
(* line at the bar is the command, and power goes only when it was asked   *)
(* for.                                                                    *)
(*                                                                         *)
(* Written is a recursion over a text.  Induction on its length is done    *)
(* with the least number of characters after which something fails; the    *)
(* function that its definition chooses is shown to exist first.           *)
(***************************************************************************)
EXTENDS Shell, SequenceTheorems, WellFoundedInduction, TLAPS

-----------------------------------------------------------------------------
(* Texts: what write() has done after so many characters of them.          *)

\* A set of numbers that is not empty has a least one.
LEMMA LeastOf ==
  ASSUME NEW S \in SUBSET Nat, S # {}
  PROVE  \E m \in S : \A n \in S : m <= n
<1> DEFINE Less == OpToRel(<, Nat)
<1>1. IsWellFoundedOn(Less, Nat)
  BY NatLessThanWellFounded
<1>2. \A m, n \in Nat : n < m => <<n, m>> \in Less
  BY DEF OpToRel
<1> HIDE DEF Less
<1>3. PICK m \in S : \A n \in S : <<n, m>> \notin Less
  BY <1>1, WFMin
<1>4. ASSUME NEW n \in S
      PROVE  m <= n
  <2>1. m \in Nat /\ n \in Nat
    OBVIOUS
  <2>2. ~(n < m)
    BY <1>2, <1>3, <2>1
  <2> QED BY <2>1, <2>2
<1> QED BY <1>4

\* f has the terminal after each number of characters.
Stages(f, t, text, m) ==
  /\ f[0] = t
  /\ \A i \in 1 .. m : f[i] = Taken(f[i - 1], text, i)

\* What each character keeps holds after any number of them.
LEMMA StagesKeep ==
  ASSUME NEW S, NEW t \in S, NEW text, NEW m \in Nat, NEW f, Stages(f, t, text, m),
         \A x \in S : \A i \in 1 .. m : Taken(x, text, i) \in S
  PROVE  \A i \in 0 .. m : f[i] \in S
<1> DEFINE Bad == {i \in 0 .. m : f[i] \notin S}
<1>. SUFFICES ASSUME Bad # {} PROVE FALSE
  OBVIOUS
<1>1. Bad \in SUBSET Nat
  OBVIOUS
<1>2. PICK b \in Bad : \A n \in Bad : b <= n
  BY <1>1, LeastOf
<1>3. b \in 0 .. m /\ f[b] \notin S
  BY <1>2
<1>4. b # 0
  BY <1>3 DEF Stages
<1>5. b \in 1 .. m /\ b - 1 \in 0 .. m /\ ~(b <= b - 1)
  BY <1>3, <1>4
<1>6. f[b - 1] \in S
  <2>1. b - 1 \notin Bad
    BY <1>2, <1>5
  <2>. QED BY <1>5, <2>1
<1>. QED BY <1>3, <1>5, <1>6 DEF Stages

\* There is such a function for any number of characters.
LEMMA StagesExist ==
  ASSUME NEW t, NEW text, NEW m \in Nat
  PROVE  \E f : f = [i \in 0 .. m |-> f[i]] /\ Stages(f, t, text, m)
<1> DEFINE Has(n) == \E f : f = [i \in 0 .. n |-> f[i]] /\ Stages(f, t, text, n)
           Bad == {n \in Nat : ~Has(n)}
<1>. SUFFICES ASSUME Bad # {} PROVE FALSE
  OBVIOUS
<1>1. Bad \in SUBSET Nat
  OBVIOUS
<1>2. PICK b \in Bad : \A n \in Bad : b <= n
  BY <1>1, LeastOf
<1>3. b \in Nat /\ ~Has(b)
  BY <1>2
<1>4. CASE b = 0
  <2> DEFINE g == [i \in 0 .. 0 |-> t]
  <2>1. g = [i \in 0 .. 0 |-> g[i]] /\ g[0] = t
    OBVIOUS
  <2>2. Stages(g, t, text, 0)
    BY <2>1 DEF Stages
  <2>. HIDE DEF g
  <2>3. Has(0)
    BY <2>1, <2>2
  <2>. QED BY <1>3, <1>4, <2>3
<1>5. CASE b # 0
  <2>1. b - 1 \in Nat /\ ~(b <= b - 1)
    BY <1>3, <1>5
  <2>2. Has(b - 1)
    <3>1. b - 1 \notin Bad
      BY <1>2, <2>1
    <3>. QED BY <2>1, <3>1
  <2>3. PICK f : f = [i \in 0 .. b - 1 |-> f[i]] /\ Stages(f, t, text, b - 1)
    BY <2>2
  <2> DEFINE g == [i \in 0 .. b |-> IF i = b THEN Taken(f[b - 1], text, b) ELSE f[i]]
  <2>4. g = [i \in 0 .. b |-> g[i]]
    OBVIOUS
  <2>5. /\ \A i \in 0 .. b - 1 : g[i] = f[i]
        /\ g[b] = Taken(f[b - 1], text, b)
    BY <1>3
  <2>6. Stages(g, t, text, b)
    <3>. HIDE DEF g
    <3>1. g[0] = t
      BY <1>3, <1>5, <2>3, <2>5 DEF Stages
    <3>2. ASSUME NEW i \in 1 .. b
          PROVE  g[i] = Taken(g[i - 1], text, i)
      <4>1. i - 1 \in 0 .. b - 1
        BY <1>3
      <4>2. CASE i = b
        BY <2>5, <4>1, <4>2
      <4>3. CASE i # b
        <5>1. i \in 1 .. b - 1 /\ i \in 0 .. b - 1
          BY <1>3, <4>3
        <5>2. f[i] = Taken(f[i - 1], text, i)
          BY <2>3, <5>1 DEF Stages
        <5>. QED BY <2>5, <4>1, <5>1, <5>2
      <4>. QED BY <4>2, <4>3
    <3>. QED BY <3>1, <3>2 DEF Stages
  <2>. HIDE DEF g
  <2>7. Has(b)
    BY <2>4, <2>6
  <2>. QED BY <1>3, <2>7
<1>. QED BY <1>4, <1>5

\* Written takes one character after the other.
LEMMA WrittenInStages ==
  ASSUME NEW t, NEW text, Len(text) \in Nat
  PROVE  \E f : Stages(f, t, text, Len(text)) /\ Written(t, text) = f[Len(text)]
<1> DEFINE m == Len(text)
           Equation(g) == g = [i \in 0 .. m |-> IF i = 0 THEN t ELSE Taken(g[i - 1], text, i)]
           after == CHOOSE g : Equation(g)
<1>1. PICK f : f = [i \in 0 .. m |-> f[i]] /\ Stages(f, t, text, m)
  BY StagesExist
<1>2. Equation(f)
  <2> DEFINE g == [i \in 0 .. m |-> IF i = 0 THEN t ELSE Taken(f[i - 1], text, i)]
  <2>1. ASSUME NEW i \in 0 .. m
        PROVE  f[i] = g[i]
    <3>1. CASE i = 0
      BY <1>1, <3>1 DEF Stages
    <3>2. CASE i # 0
      <4>1. i \in 1 .. m
        BY <3>2
      <4>. QED BY <1>1, <3>2, <4>1 DEF Stages
    <3>. QED BY <3>1, <3>2
  <2>. QED BY <1>1, <2>1
<1>3. Equation(after)
  <2>. HIDE DEF Equation
  <2>. QED BY <1>2, Zenon
<1>4. Written(t, text) = after[m]
  BY Zenon DEF Written
<1>. HIDE DEF after
<1>5. Stages(after, t, text, m)
  <2>1. after[0] = t
    BY <1>3
  <2>2. ASSUME NEW i \in 1 .. m
        PROVE  after[i] = Taken(after[i - 1], text, i)
    <3>1. i \in 0 .. m /\ i # 0
      OBVIOUS
    <3>. QED BY <1>3, <3>1
  <2>. QED BY <2>1, <2>2 DEF Stages
<1>. QED BY <1>4, <1>5

-----------------------------------------------------------------------------
(* The terminal and its glass.                                             *)

Shown == Letters \union {Space}
Terminals == [cells : [Places -> Shown], dirty : SUBSET Places, cursor : Places,
              drawn : Places \union {Unknown}]

\* Where a cell is not dirty the glass shows it, and a bar stands where it was
\* drawn last or in a dirty cell.
Agrees(t) ==
  /\ \A p \in Places : p \notin t.dirty => glass[p] = t.cells[p]
  /\ t.drawn = Unknown => t.dirty = Places
  /\ bars \subseteq t.dirty \union {t.drawn}

LEMMA PlaceFacts ==
  ASSUME NEW p \in Places
  PROVE  /\ p[1] \in 0 .. Rows - 1 /\ p[2] \in 0 .. Columns - 1 /\ p = <<p[1], p[2]>>
         /\ p # Unknown
         /\ Rows \in Nat /\ Columns \in Nat
BY TerminalAssumption DEF Places, Unknown

LEMMA ColumnSet ==
  ASSUME NEW p \in Places, NEW c
  PROVE  [p EXCEPT ![2] = c] = <<p[1], c>>
BY DEF Places

LEMMA PlaceMade ==
  ASSUME NEW r \in 0 .. Rows - 1, NEW c \in 0 .. Columns - 1
  PROVE  <<r, c>> \in Places
BY DEF Places

LEMMA TerminalFields ==
  ASSUME NEW t \in Terminals
  PROVE  /\ t.cells \in [Places -> Shown] /\ t.dirty \subseteq Places /\ t.cursor \in Places
         /\ t.drawn \in Places \union {Unknown}
BY DEF Terminals

\* Moving the cursor draws nothing.
LEMMA CursorMoves ==
  ASSUME NEW t \in Terminals, Agrees(t), NEW p \in Places
  PROVE  /\ [t EXCEPT !.cursor = p] \in Terminals /\ Agrees([t EXCEPT !.cursor = p])
         /\ [t EXCEPT !.cursor = p].cursor = p /\ [t EXCEPT !.cursor = p].cells = t.cells
BY DEF Terminals, Agrees

LEMMA ScrolledFacts ==
  ASSUME NEW t \in Terminals
  PROVE  /\ bars \subseteq Places => Agrees(ScrolledUp(t))
         /\ ScrolledUp(t) \in Terminals
         /\ ScrolledUp(t).cursor = t.cursor
<1> DEFINE c == [p \in Places |-> IF p[1] + 1 < Rows THEN t.cells[<<p[1] + 1, p[2]>>] ELSE Space]
<1>1. c \in [Places -> Shown]
  <2>1. ASSUME NEW p \in Places, p[1] + 1 < Rows
        PROVE  t.cells[<<p[1] + 1, p[2]>>] \in Shown
    <3>1. <<p[1] + 1, p[2]>> \in Places
      BY <2>1, PlaceFacts, PlaceMade
    <3>. QED BY <3>1, TerminalFields
  <2>. QED BY <2>1 DEF Shown
<1>2. ScrolledUp(t) = [t EXCEPT !.cells = c, !.dirty = Places, !.drawn = Unknown]
  BY DEF ScrolledUp
<1>. HIDE DEF c
<1>. QED BY <1>1, <1>2 DEF Terminals, Agrees

LEMMA NextLineFacts ==
  ASSUME NEW t \in Terminals, Agrees(t), bars \subseteq Places
  PROVE  NextLine(t) \in Terminals /\ Agrees(NextLine(t)) /\ NextLine(t).cursor[2] = 0
<1>1. t.cursor \in Places /\ t.cursor[1] \in 0 .. Rows - 1 /\ t.cursor[2] \in 0 .. Columns - 1
      /\ 0 \in 0 .. Columns - 1 /\ Rows \in Nat
  BY TerminalFields, PlaceFacts, TerminalAssumption
<1>2. CASE t.cursor[1] + 1 < Rows
  <2> DEFINE p == <<t.cursor[1] + 1, 0>>
  <2>1. p \in Places /\ p[2] = 0
    BY <1>1, <1>2, PlaceMade
  <2>2. NextLine(t) = [t EXCEPT !.cursor = p]
    BY <1>2 DEF NextLine
  <2>. HIDE DEF p
  <2>. QED BY <2>1, <2>2, CursorMoves
<1>3. CASE ~(t.cursor[1] + 1 < Rows)
  <2> DEFINE p == <<t.cursor[1], 0>>
  <2>1. p \in Places /\ p[2] = 0
    BY <1>1, PlaceMade
  <2>2. [t EXCEPT !.cursor[2] = 0] = [t EXCEPT !.cursor = p]
    BY <1>1, ColumnSet DEF Terminals
  <2>3. NextLine(t) = ScrolledUp([t EXCEPT !.cursor = p])
    BY <1>3, <2>2, Zenon DEF NextLine
  <2>. HIDE DEF p
  <2>4. [t EXCEPT !.cursor = p] \in Terminals /\ [t EXCEPT !.cursor = p].cursor = p
    BY <2>1, CursorMoves
  <2>. QED BY <2>1, <2>3, <2>4, ScrolledFacts
<1>. QED BY <1>2, <1>3

LEMMA PutFacts ==
  ASSUME NEW t \in Terminals, Agrees(t), NEW p \in Places, NEW c \in Shown
  PROVE  /\ Put(t, p, c) \in Terminals /\ Agrees(Put(t, p, c))
         /\ Put(t, p, c).cursor = t.cursor
         /\ Put(t, p, c).cells = [t.cells EXCEPT ![p] = c]
<1>1. /\ Put(t, p, c).cells = [t.cells EXCEPT ![p] = c]
      /\ Put(t, p, c).dirty = t.dirty \union {p}
      /\ Put(t, p, c).cursor = t.cursor /\ Put(t, p, c).drawn = t.drawn
  BY DEF Put, Terminals
<1>2. [t.cells EXCEPT ![p] = c] \in [Places -> Shown]
  BY TerminalFields
<1>3. Put(t, p, c) \in Terminals
  BY <1>2 DEF Put, Terminals
<1>4. \A q \in Places : q # p => [t.cells EXCEPT ![p] = c][q] = t.cells[q]
  BY TerminalFields
<1>. QED BY <1>1, <1>3, <1>4, TerminalFields DEF Agrees

LEMMA AdvancedFacts ==
  ASSUME NEW t \in Terminals, Agrees(t), bars \subseteq Places
  PROVE  /\ Advanced(t) \in Terminals /\ Agrees(Advanced(t))
         /\ t.cursor[2] + 1 < Columns =>
              /\ Advanced(t).cursor = <<t.cursor[1], t.cursor[2] + 1>>
              /\ Advanced(t).cells = t.cells
<1>1. t.cursor \in Places /\ t.cursor[1] \in 0 .. Rows - 1 /\ t.cursor[2] \in 0 .. Columns - 1
      /\ Columns \in Nat
  BY TerminalFields, PlaceFacts
<1>2. CASE t.cursor[2] + 1 < Columns
  <2> DEFINE p == <<t.cursor[1], t.cursor[2] + 1>>
  <2>1. p \in Places
    BY <1>1, <1>2, PlaceMade
  <2>2. [t EXCEPT !.cursor[2] = @ + 1] = [t EXCEPT !.cursor = p]
    BY <1>1, ColumnSet DEF Terminals
  <2>3. Advanced(t) = [t EXCEPT !.cursor = p]
    BY <1>2, <2>2, Zenon DEF Advanced
  <2>4. p = <<t.cursor[1], t.cursor[2] + 1>>
    OBVIOUS
  <2>. HIDE DEF p
  <2>. QED BY <2>1, <2>3, <2>4, CursorMoves
<1>3. CASE ~(t.cursor[2] + 1 < Columns)
  BY <1>3, NextLineFacts, Zenon DEF Advanced
<1>. QED BY <1>2, <1>3

\* Good(t): a terminal to which the glass is true where it is not dirty.
Good == {t \in Terminals : Agrees(t)}

LEMMA WrappedFacts ==
  ASSUME NEW t \in Good, bars \subseteq Places, NEW length
  PROVE  Wrapped(t, length) \in Good
<1>1. t \in Terminals /\ Agrees(t)
  BY DEF Good
<1>2. Wrapped(t, length) = t \/ Wrapped(t, length) = NextLine(t)
  BY Zenon DEF Wrapped
<1>. QED BY <1>1, <1>2, NextLineFacts DEF Good

\* What is printed: the cell at the cursor, and the cursor goes on.
LEMMA PrintedFacts ==
  ASSUME NEW t \in Good, bars \subseteq Places, NEW c \in Shown
  PROVE  /\ Advanced(Put(t, t.cursor, c)) \in Good
         /\ t.cursor[2] + 1 < Columns =>
              /\ Advanced(Put(t, t.cursor, c)).cursor = <<t.cursor[1], t.cursor[2] + 1>>
              /\ Advanced(Put(t, t.cursor, c)).cells = [t.cells EXCEPT ![t.cursor] = c]
<1> DEFINE u == Put(t, t.cursor, c)
<1>1. t \in Terminals /\ Agrees(t) /\ t.cursor \in Places
  BY TerminalFields DEF Good
<1>2. /\ u \in Terminals /\ Agrees(u) /\ u.cursor = t.cursor
      /\ u.cells = [t.cells EXCEPT ![t.cursor] = c]
  BY <1>1, PutFacts
<1>. HIDE DEF u
<1>3. Advanced(u) \in Terminals /\ Agrees(Advanced(u))
  BY <1>2, AdvancedFacts
<1>4. t.cursor[2] + 1 < Columns =>
        /\ Advanced(u).cursor = <<t.cursor[1], t.cursor[2] + 1>>
        /\ Advanced(u).cells = [t.cells EXCEPT ![t.cursor] = c]
  BY <1>2, AdvancedFacts
<1>5. Advanced(u) \in Good
  BY <1>3 DEF Good
<1>. QED BY <1>4, <1>5 DEF u

\* What is erased: the cell before the cursor, which goes back to it.
LEMMA ErasedFacts ==
  ASSUME NEW t \in Good, t.cursor[2] # 0
  PROVE  LET before == <<t.cursor[1], t.cursor[2] - 1>>
             u == [Put(t, before, Space) EXCEPT !.cursor = before]
         IN /\ before \in Places /\ u \in Good /\ u.cursor = before
            /\ u.cells = [t.cells EXCEPT ![before] = Space]
<1> DEFINE before == <<t.cursor[1], t.cursor[2] - 1>>
           u == Put(t, before, Space)
<1>1. t \in Terminals /\ Agrees(t)
  BY DEF Good
<1>2. before \in Places
  <2>1. t.cursor[1] \in 0 .. Rows - 1 /\ t.cursor[2] - 1 \in 0 .. Columns - 1
    BY <1>1, TerminalFields, PlaceFacts
  <2>. QED BY <2>1, PlaceMade
<1>3. Space \in Shown
  BY DEF Shown
<1>. HIDE DEF before
<1>4. u \in Terminals /\ Agrees(u) /\ u.cells = [t.cells EXCEPT ![before] = Space]
  BY <1>1, <1>2, <1>3, PutFacts
<1>. HIDE DEF u
<1>5. /\ [u EXCEPT !.cursor = before] \in Good
      /\ [u EXCEPT !.cursor = before].cursor = before
      /\ [u EXCEPT !.cursor = before].cells = [t.cells EXCEPT ![before] = Space]
  BY <1>2, <1>4, CursorMoves DEF Good
<1>. QED BY <1>2, <1>5 DEF before, u

LEMMA TakenKeeps ==
  ASSUME NEW t \in Good, bars \subseteq Places, NEW text, NEW i, text[i] \in Characters
  PROVE  Taken(t, text, i) \in Good
<1>1. t \in Terminals /\ Agrees(t)
  BY DEF Good
<1>2. CASE text[i] = "newline"
  <2>1. Taken(t, text, i) = NextLine(t)
    BY <1>2 DEF Taken
  <2>. QED BY <1>1, <2>1, NextLineFacts DEF Good
<1>3. CASE text[i] = "return"
  <2> DEFINE p == <<t.cursor[1], 0>>
  <2>1. t.cursor \in Places /\ p \in Places
    <3>1. t.cursor[1] \in 0 .. Rows - 1 /\ 0 \in 0 .. Columns - 1 /\ t.cursor \in Places
      BY <1>1, TerminalFields, PlaceFacts, TerminalAssumption
    <3>. QED BY <3>1, PlaceMade
  <2>2. Taken(t, text, i) = [t EXCEPT !.cursor[2] = 0]
    BY <1>3 DEF Taken
  <2>3. [t EXCEPT !.cursor[2] = 0] = [t EXCEPT !.cursor = p]
    BY <1>1, <2>1, ColumnSet DEF Terminals
  <2>. HIDE DEF p
  <2>. QED BY <1>1, <2>1, <2>2, <2>3, CursorMoves DEF Good
<1>4. CASE text[i] = "backspace"
  <2> DEFINE before == <<t.cursor[1], t.cursor[2] - 1>>
  <2>1. Taken(t, text, i) = IF t.cursor[2] = 0 THEN t
                            ELSE [Put(t, before, Space) EXCEPT !.cursor = before]
    BY <1>4 DEF Taken
  <2>. QED BY <2>1, ErasedFacts
<1>5. CASE text[i] = "unprintable"
  <2>1. Taken(t, text, i) = t
    BY <1>5 DEF Taken
  <2>. QED BY <2>1
<1>6. CASE text[i] \in Shown
  <2> DEFINE u == IF text[i] = Space THEN t ELSE Wrapped(t, WordLength(text, i))
  <2>1. text[i] \notin {"newline", "return", "backspace", "unprintable"}
    BY <1>6, TerminalAssumption DEF Shown, Controls, Space
  <2>2. Taken(t, text, i) = Advanced(Put(u, u.cursor, text[i]))
    BY <2>1 DEF Taken
  <2>3. u \in Good
    BY WrappedFacts
  <2>. HIDE DEF u
  <2>. QED BY <1>6, <2>2, <2>3, PrintedFacts
<1>. QED BY <1>2, <1>3, <1>4, <1>5, <1>6 DEF Characters, Controls, Shown

\* A text ends with what its last character makes of a terminal of its own.
LEMMA WrittenFacts ==
  ASSUME NEW t \in Good, bars \subseteq Places, NEW text \in Seq(Characters)
  PROVE  /\ Written(t, text) \in Good
         /\ \E f : /\ Stages(f, t, text, Len(text)) /\ Written(t, text) = f[Len(text)]
                   /\ \A i \in 0 .. Len(text) : f[i] \in Good
<1>1. Len(text) \in Nat /\ \A i \in 1 .. Len(text) : text[i] \in Characters
  BY LenProperties, ElementOfSeq
<1>2. PICK f : Stages(f, t, text, Len(text)) /\ Written(t, text) = f[Len(text)]
  BY <1>1, WrittenInStages
<1>3. \A x \in Good : \A i \in 1 .. Len(text) : Taken(x, text, i) \in Good
  BY <1>1, TakenKeeps
<1>4. \A i \in 0 .. Len(text) : f[i] \in Good
  BY <1>1, <1>2, <1>3, StagesKeep
<1>5. Len(text) \in 0 .. Len(text)
  BY <1>1
<1>. QED BY <1>2, <1>4, <1>5

\* Drawing leaves nothing dirty, the glass true, and one bar.
LEMMA RenderFacts ==
  ASSUME NEW t \in Good, bars \subseteq Places, Render(t)
  PROVE  /\ term' \in Terminals /\ term'.dirty = {} /\ term'.drawn = term'.cursor
         /\ term'.cursor = t.cursor /\ term'.cells = t.cells
         /\ glass' = t.cells /\ bars' = {t.cursor}
<1>1. t \in Terminals /\ Agrees(t) /\ t.cursor \in Places
  BY TerminalFields DEF Good
<1>2. /\ term' \in Terminals /\ term'.dirty = {} /\ term'.drawn = term'.cursor
      /\ term'.cursor = t.cursor /\ term'.cells = t.cells
  BY <1>1 DEF Render, Terminals
<1>3. t.cells \in [Places -> Shown]
  BY <1>1, TerminalFields
<1>4. \A p \in Places : p \notin Redrawn(t) => glass[p] = t.cells[p]
  BY <1>1 DEF Agrees, Redrawn
<1>5. glass' = [p \in Places |-> IF p \in Redrawn(t) THEN t.cells[p] ELSE glass[p]]
      /\ bars' = (bars \ Redrawn(t)) \union {t.cursor}
  BY DEF Render
<1>6. glass' = t.cells
  BY <1>3, <1>4, <1>5
<1>7. ASSUME NEW b \in bars, b \notin Redrawn(t)
      PROVE  b = t.cursor
  <2>1. b \in Places /\ b # Unknown
    BY PlaceFacts
  <2>2. b \notin t.dirty
    BY <1>7 DEF Redrawn
  <2>3. b = t.drawn
    BY <1>1, <2>2 DEF Agrees
  <2>. QED BY <1>7, <2>1, <2>3 DEF Redrawn
<1>8. bars' = {t.cursor}
  BY <1>5, <1>7
<1>. QED BY <1>2, <1>6, <1>8

-----------------------------------------------------------------------------
(* The line of the shell.                                                  *)

\* A text that ends with a line break and the prompt leaves the prompt alone on
\* a line, and the cursor behind it.
LEMMA PromptFacts ==
  ASSUME NEW t \in Good, bars \subseteq Places, NEW text \in Seq(Characters),
         NEW n \in Nat, Len(text) = n + 3,
         text[n + 1] = "newline", text[n + 2] = ">", text[n + 3] = Space
  PROVE  LET u == Written(t, text)
         IN /\ u \in Good /\ u.cursor[2] = 2
            /\ u.cells[<<u.cursor[1], 0>>] = ">" /\ u.cells[<<u.cursor[1], 1>>] = Space
<1>1. PICK f : /\ Stages(f, t, text, Len(text)) /\ Written(t, text) = f[Len(text)]
               /\ \A i \in 0 .. Len(text) : f[i] \in Good
  BY WrittenFacts
<1> DEFINE x == f[n]  y == f[n + 1]  z == f[n + 2]  u == f[n + 3]
<1>2. x \in Good /\ y \in Good /\ z \in Good /\ u \in Good
  BY <1>1
<1>3. /\ y = Taken(x, text, n + 1) /\ z = Taken(y, text, n + 2) /\ u = Taken(z, text, n + 3)
      /\ Written(t, text) = u
  <2>1. /\ n + 1 \in 1 .. Len(text) /\ (n + 1) - 1 = n
        /\ n + 2 \in 1 .. Len(text) /\ (n + 2) - 1 = n + 1
        /\ n + 3 \in 1 .. Len(text) /\ (n + 3) - 1 = n + 2
    OBVIOUS
  <2>. QED BY <1>1, <2>1 DEF Stages
<1>. HIDE DEF x, y, z, u
<1>4. 2 < Columns /\ 1 < Columns /\ Columns \in Nat
  BY ShellAssumption, TerminalAssumption
<1>5. y.cursor[2] = 0
  <2>1. y = NextLine(x)
    BY <1>3 DEF Taken
  <2>. QED BY <1>2, <2>1, NextLineFacts DEF Good
<1> DEFINE row == y.cursor[1]
<1>6. /\ row \in 0 .. Rows - 1 /\ y.cursor = <<row, 0>> /\ y.cells \in [Places -> Shown]
      /\ <<row, 0>> \in Places /\ <<row, 1>> \in Places
  <2>1. row \in 0 .. Rows - 1 /\ y.cursor = <<row, 0>> /\ y.cells \in [Places -> Shown]
    BY <1>2, <1>5, TerminalFields, PlaceFacts DEF Good
  <2>2. 0 \in 0 .. Columns - 1 /\ 1 \in 0 .. Columns - 1
    BY <1>4
  <2>. HIDE DEF row
  <2>. QED BY <2>1, <2>2, PlaceMade
<1>. HIDE DEF row
<1>7. /\ z.cursor = <<row, 1>> /\ z.cells = [y.cells EXCEPT ![<<row, 0>>] = ">"]
  <2>1. ">" \in Shown /\ ">" # Space
    BY ShellAssumption, TerminalAssumption DEF Shown
  <2>2. z = Advanced(Put(Wrapped(y, WordLength(text, n + 2)),
                         Wrapped(y, WordLength(text, n + 2)).cursor, ">"))
    BY <1>3, <2>1 DEF Taken
  <2>3. Wrapped(y, WordLength(text, n + 2)) = y
    BY <1>5, Zenon DEF Wrapped
  <2>4. z = Advanced(Put(y, y.cursor, ">"))
    BY <2>2, <2>3
  <2>5. y.cursor[2] + 1 < Columns
    BY <1>4, <1>5
  <2>6. y.cursor[1] = row /\ y.cursor[2] + 1 = 1
    BY <1>5, <1>6
  <2>7. /\ z.cursor = <<y.cursor[1], y.cursor[2] + 1>>
        /\ z.cells = [y.cells EXCEPT ![y.cursor] = ">"]
    BY <1>2, <2>1, <2>4, <2>5, PrintedFacts
  <2>. QED BY <1>6, <2>6, <2>7
<1>8. /\ u.cursor = <<row, 2>> /\ u.cells = [z.cells EXCEPT ![<<row, 1>>] = Space]
  <2>1. Space \in Shown
    BY DEF Shown
  <2>2. u = Advanced(Put(z, z.cursor, Space))
    BY <1>3 DEF Taken, Space
  <2>3. z.cursor[2] + 1 < Columns /\ z.cursor[1] = row /\ z.cursor[2] + 1 = 2
    BY <1>4, <1>7
  <2>4. /\ u.cursor = <<z.cursor[1], z.cursor[2] + 1>>
        /\ u.cells = [z.cells EXCEPT ![z.cursor] = Space]
    BY <1>2, <2>1, <2>2, <2>3, PrintedFacts
  <2>. QED BY <1>7, <2>3, <2>4
<1>9. u.cells[<<row, 0>>] = ">" /\ u.cells[<<row, 1>>] = Space /\ <<row, 0>> # <<row, 1>>
  BY <1>6, <1>7, <1>8
<1>10. u.cursor[1] = row /\ u.cursor[2] = 2
  BY <1>8
<1>. QED BY <1>2, <1>3, <1>9, <1>10, Zenon

LEMMA OneWordLength ==
  ASSUME NEW key \in Letters
  PROVE  WordLength(<<key>>, 1) = 1
<1> DEFINE P(n) == /\ \A j \in 1 .. 1 + n - 1 : <<key>>[j] \in Letters
                   /\ 1 + n <= Len(<<key>>) => <<key>>[1 + n] \notin Letters
<1>1. Len(<<key>>) = 1 /\ <<key>>[1] = key
  OBVIOUS
<1>2. P(1)
  BY <1>1
<1>3. \A n \in 0 .. Len(<<key>>) + 1 - 1 : P(n) => n = 1
  BY <1>1
<1>4. 1 \in 0 .. Len(<<key>>) + 1 - 1
  BY <1>1
<1>5. WordLength(<<key>>, 1) = CHOOSE n \in 0 .. Len(<<key>>) + 1 - 1 : P(n)
  BY DEF WordLength
<1>. HIDE DEF P
<1>. QED BY <1>2, <1>3, <1>4, <1>5

\* A key that has a column to spare is printed where the cursor is.
LEMMA TypedFacts ==
  ASSUME NEW t \in Good, bars \subseteq Places, NEW key \in Shown, t.cursor[2] + 1 < Columns
  PROVE  /\ Written(t, <<key>>) \in Good
         /\ Written(t, <<key>>).cursor = <<t.cursor[1], t.cursor[2] + 1>>
         /\ Written(t, <<key>>).cells = [t.cells EXCEPT ![t.cursor] = key]
<1>1. <<key>> \in Seq(Characters) /\ Len(<<key>>) = 1 /\ <<key>>[1] = key
  BY DEF Characters, Shown
<1>2. PICK f : Stages(f, t, <<key>>, Len(<<key>>)) /\ Written(t, <<key>>) = f[Len(<<key>>)]
  BY <1>1, WrittenFacts
<1>3. Written(t, <<key>>) = Taken(t, <<key>>, 1)
  <2>1. 1 \in 1 .. 1 /\ 1 - 1 = 0
    OBVIOUS
  <2>. QED BY <1>1, <1>2, <2>1 DEF Stages
<1> DEFINE u == IF key = Space THEN t ELSE Wrapped(t, WordLength(<<key>>, 1))
<1>4. u = t
  <2>1. CASE key = Space
    BY <2>1
  <2>2. CASE key # Space
    <3>1. key \in Letters
      BY <2>2 DEF Shown
    <3>2. WordLength(<<key>>, 1) = 1
      BY <3>1, OneWordLength
    <3>3. t.cursor[2] \in 0 .. Columns - 1 /\ Columns \in Nat
      BY TerminalFields, PlaceFacts DEF Good
    <3>4. ~(WordLength(<<key>>, 1) > Columns - t.cursor[2])
      BY <3>2, <3>3
    <3>. QED BY <2>2, <3>4, Zenon DEF Wrapped
  <2>. QED BY <2>1, <2>2
<1>5. key \notin {"newline", "return", "backspace", "unprintable"}
  BY TerminalAssumption DEF Shown, Controls, Space
<1>6. Taken(t, <<key>>, 1) = Advanced(Put(u, u.cursor, key))
  BY <1>1, <1>5 DEF Taken
<1>. HIDE DEF u
<1>. QED BY <1>3, <1>4, <1>6, PrintedFacts

LEMMA BackspacedFacts ==
  ASSUME NEW t \in Good, bars \subseteq Places, t.cursor[2] # 0
  PROVE  LET before == <<t.cursor[1], t.cursor[2] - 1>>
             u == Written(t, <<"backspace">>)
         IN /\ before \in Places /\ u \in Good /\ u.cursor = before
            /\ u.cells = [t.cells EXCEPT ![before] = Space]
<1> DEFINE text == <<"backspace">>
           before == <<t.cursor[1], t.cursor[2] - 1>>
<1>1. text \in Seq(Characters) /\ Len(text) = 1 /\ text[1] = "backspace"
  BY DEF Characters, Controls
<1>2. PICK f : Stages(f, t, text, Len(text)) /\ Written(t, text) = f[Len(text)]
  BY <1>1, WrittenFacts
<1>3. Written(t, text) = Taken(t, text, 1)
  <2>1. 1 \in 1 .. 1 /\ 1 - 1 = 0
    OBVIOUS
  <2>. QED BY <1>1, <1>2, <2>1 DEF Stages
<1>4. Taken(t, text, 1) = [Put(t, before, Space) EXCEPT !.cursor = before]
  BY <1>1 DEF Taken
<1> DEFINE u == [Put(t, before, Space) EXCEPT !.cursor = before]
<1>5. /\ before \in Places /\ u \in Good /\ u.cursor = before
      /\ u.cells = [t.cells EXCEPT ![before] = Space]
  BY ErasedFacts, Zenon
<1>6. Written(t, text) = u
  BY <1>3, <1>4, Zenon
<1>. HIDE DEF u, before
<1>7. /\ before \in Places /\ Written(t, text) \in Good /\ Written(t, text).cursor = before
      /\ Written(t, text).cells = [t.cells EXCEPT ![before] = Space]
  BY <1>5, <1>6
<1>. QED BY <1>7, Zenon DEF before

-----------------------------------------------------------------------------
(* The invariant of the shell.                                             *)

\* An open terminal is drawn.
GlassInv ==
  /\ term \in Terminals /\ bars \subseteq Places
  /\ open => /\ term.dirty = {} /\ term.drawn = term.cursor
             /\ glass = term.cells /\ bars = {term.cursor}

\* The prompt and the command stand in the row of the cursor, up to it.
LineInv ==
  /\ command \in Seq(Printables) /\ Len(command) <= CommandSize - 1
  /\ open => /\ term.cursor[2] = Len(command) + 2
             /\ term.cells[<<term.cursor[1], 0>>] = ">"
             /\ term.cells[<<term.cursor[1], 1>>] = Space
             /\ \A i \in 1 .. Len(command) : term.cells[<<term.cursor[1], i + 1>>] = command[i]

\* While a request is pending its deadline tells when it was made.
RequestInv ==
  /\ open \in BOOLEAN /\ pending \in BOOLEAN /\ cardRead \in BOOLEAN /\ powerOff \in BOOLEAN
  /\ timeLeft \in -1 .. Limit /\ asked \in 0 .. Never
  /\ compat \in {"unset", "ready", "error"}
  /\ open /\ pending /\ timeLeft >= 0 => asked = Limit - timeLeft

ShellInv == GlassInv /\ LineInv /\ RequestInv

LEMMA BarPlace ==
  ASSUME GlassInv, open
  PROVE  (CHOOSE p \in Places : bars = {p}) = term.cursor
<1>1. bars = {term.cursor} /\ term.cursor \in Places
  BY TerminalFields DEF GlassInv
<1>. QED BY <1>1

LEMMA LineIsShown ==
  ASSUME GlassInv, LineInv, open
  PROVE  LineAtBar = Prompt \o command
<1>1. /\ term.cursor[2] = Len(command) + 2 /\ command \in Seq(Printables)
      /\ glass = term.cells
      /\ term.cells[<<term.cursor[1], 0>>] = ">"
      /\ term.cells[<<term.cursor[1], 1>>] = Space
      /\ \A i \in 1 .. Len(command) : term.cells[<<term.cursor[1], i + 1>>] = command[i]
  BY DEF LineInv, GlassInv
<1>2. LineAtBar = [i \in 1 .. term.cursor[2] |-> glass[<<term.cursor[1], i - 1>>]]
  <2> DEFINE bar == CHOOSE p \in Places : bars = {p}
  <2>1. LineAtBar = [i \in 1 .. bar[2] |-> glass[<<bar[1], i - 1>>]]
    BY DEF LineAtBar
  <2>2. bar = term.cursor
    BY BarPlace
  <2>. HIDE DEF bar
  <2>. QED BY <2>1, <2>2
<1>3. Len(command) \in Nat
  BY <1>1, LenProperties
<1>4. Prompt \in Seq(Printables) /\ Len(Prompt) = 2 /\ Prompt[1] = ">" /\ Prompt[2] = Space
  BY ShellAssumption DEF Prompt, Printables
<1>5. /\ Prompt \o command \in Seq(Printables)
      /\ Len(Prompt \o command) = 2 + Len(command)
      /\ \A i \in 1 .. 2 + Len(command) :
           (Prompt \o command)[i] = IF i <= 2 THEN Prompt[i] ELSE command[i - 2]
  <2>1. /\ Prompt \o command \in Seq(Printables)
        /\ Len(Prompt \o command) = Len(Prompt) + Len(command)
        /\ \A i \in 1 .. Len(Prompt) + Len(command) :
             (Prompt \o command)[i] = IF i <= Len(Prompt) THEN Prompt[i]
                                      ELSE command[i - Len(Prompt)]
    <3>1. Prompt \in Seq(Printables) /\ command \in Seq(Printables)
      BY <1>1, <1>4
    <3>. QED BY <3>1, ConcatProperties
  <2>2. Len(Prompt) = 2
    BY <1>4
  <2>. QED BY <2>1, <2>2
<1>6. Prompt \o command = [i \in 1 .. 2 + Len(command) |-> (Prompt \o command)[i]]
  BY <1>5, LenProperties
<1>7. ASSUME NEW i \in 1 .. 2 + Len(command)
      PROVE  glass[<<term.cursor[1], i - 1>>] = (Prompt \o command)[i]
  <2>1. CASE i = 1
    BY <1>1, <1>4, <1>5, <2>1
  <2>2. CASE i = 2
    BY <1>1, <1>4, <1>5, <2>2
  <2>3. CASE i > 2
    <3>1. i - 2 \in 1 .. Len(command) /\ (i - 2) + 1 = i - 1 /\ ~(i <= 2)
      BY <1>3, <2>3
    <3>2. term.cells[<<term.cursor[1], i - 1>>] = command[i - 2]
      BY <1>1, <3>1
    <3>3. (Prompt \o command)[i] = command[i - 2]
      BY <1>5, <3>1
    <3>. QED BY <1>1, <3>2, <3>3
  <2>4. i = 1 \/ i = 2 \/ i > 2
    BY <1>3
  <2>. QED BY <2>1, <2>2, <2>3, <2>4
<1>. QED BY <1>1, <1>2, <1>3, <1>6, <1>7

LEMMA TermIsGood == ASSUME GlassInv, open PROVE term \in Good
<1>1. \A p \in Places : p # Unknown
  BY PlaceFacts
<1>. QED BY <1>1, TerminalFields DEF GlassInv, Good, Agrees

LEMMA ClearedIsGood == bars \subseteq Places => Cleared \in Good /\ Cleared.cursor[2] = 0
<1>1. <<0, 0>> \in Places
  <2>1. 0 \in 0 .. Rows - 1 /\ 0 \in 0 .. Columns - 1
    BY TerminalAssumption
  <2>. QED BY <2>1, PlaceMade
<1>. QED BY <1>1 DEF Cleared, Good, Agrees, Terminals, Shown

LEMMA PromptText ==
  ASSUME NEW pre \in Seq(Characters), pre # <<>>, pre[Len(pre)] = "newline"
  PROVE  LET text == pre \o Prompt IN
         /\ text \in Seq(Characters)
         /\ \E n \in Nat : /\ Len(text) = n + 3 /\ text[n + 1] = "newline"
                           /\ text[n + 2] = ">" /\ text[n + 3] = Space
<1>1. Len(pre) \in Nat /\ Len(pre) # 0 /\ Len(pre) - 1 \in Nat
  BY LenProperties, EmptySeq
<1>2. Prompt \in Seq(Characters) /\ Len(Prompt) = 2 /\ Prompt[1] = ">" /\ Prompt[2] = Space
  BY ShellAssumption DEF Prompt, Characters
<1>3. /\ pre \o Prompt \in Seq(Characters) /\ Len(pre \o Prompt) = Len(pre) + 2
      /\ \A i \in 1 .. Len(pre) + 2 :
           (pre \o Prompt)[i] = IF i <= Len(pre) THEN pre[i] ELSE Prompt[i - Len(pre)]
  <2>1. /\ pre \o Prompt \in Seq(Characters) /\ Len(pre \o Prompt) = Len(pre) + Len(Prompt)
        /\ \A i \in 1 .. Len(pre) + Len(Prompt) :
             (pre \o Prompt)[i] = IF i <= Len(pre) THEN pre[i] ELSE Prompt[i - Len(pre)]
    BY <1>2, ConcatProperties, Zenon
  <2>2. Len(Prompt) = 2
    BY <1>2
  <2>. QED BY <2>1, <2>2
<1> DEFINE n == Len(pre) - 1
<1>4. n \in Nat /\ n + 1 = Len(pre) /\ n + 2 = Len(pre) + 1 /\ n + 3 = Len(pre) + 2
  BY <1>1
<1>5. /\ n + 1 \in 1 .. Len(pre) + 2 /\ n + 2 \in 1 .. Len(pre) + 2 /\ n + 3 \in 1 .. Len(pre) + 2
      /\ n + 1 <= Len(pre) /\ ~(n + 2 <= Len(pre)) /\ ~(n + 3 <= Len(pre))
      /\ (n + 2) - Len(pre) = 1 /\ (n + 3) - Len(pre) = 2
  BY <1>1, <1>4
<1>. HIDE DEF n
<1>6. (pre \o Prompt)[n + 1] = "newline"
  BY <1>3, <1>4, <1>5
<1>7. (pre \o Prompt)[n + 2] = ">" /\ (pre \o Prompt)[n + 3] = Space
  BY <1>2, <1>3, <1>5
<1>. QED BY <1>3, <1>4, <1>6, <1>7

\* Showing a text that ends with the prompt
LEMMA PromptShown ==
  ASSUME NEW t \in Good, bars \subseteq Places, NEW pre \in Seq(Characters), pre # <<>>,
         pre[Len(pre)] = "newline", Render(Written(t, pre \o Prompt)), command' = <<>>
  PROVE  GlassInv' /\ LineInv'
<1> DEFINE u == Written(t, pre \o Prompt)
<1>1. /\ u \in Good /\ u.cursor[2] = 2
      /\ u.cells[<<u.cursor[1], 0>>] = ">" /\ u.cells[<<u.cursor[1], 1>>] = Space
  BY PromptText, PromptFacts
<1>2. Render(u)
  OBVIOUS
<1>. HIDE DEF u
<1>3. u.cursor \in Places
  BY <1>1, TerminalFields DEF Good
<1>4. /\ term' \in Terminals /\ term'.dirty = {} /\ term'.drawn = term'.cursor
      /\ term'.cursor = u.cursor /\ term'.cells = u.cells
      /\ glass' = u.cells /\ bars' = {u.cursor}
  BY <1>1, <1>2, RenderFacts
<1>5. GlassInv'
  BY <1>3, <1>4 DEF GlassInv
<1>6. command' \in Seq(Printables) /\ Len(command') = 0 /\ 0 <= CommandSize - 1
  BY ShellAssumption
<1>7. LineInv'
  BY <1>1, <1>4, <1>6 DEF LineInv
<1>. QED BY <1>5, <1>7

\* What stands behind the prompt tells the commands apart.
LEMMA PromptTells ==
  ASSUME NEW a \in Seq(Printables), NEW b \in Seq(Printables), Prompt \o a = Prompt \o b
  PROVE  a = b
<1>1. Prompt \in Seq(Printables) /\ Len(Prompt) = 2 /\ Len(a) \in Nat /\ Len(b) \in Nat
  BY ShellAssumption, LenProperties DEF Prompt, Printables
<1>2. /\ Len(Prompt \o a) = 2 + Len(a)
      /\ \A i \in 1 .. 2 + Len(a) :
           (Prompt \o a)[i] = IF i <= 2 THEN Prompt[i] ELSE a[i - 2]
  <2>1. /\ Len(Prompt \o a) = Len(Prompt) + Len(a)
        /\ \A i \in 1 .. Len(Prompt) + Len(a) :
             (Prompt \o a)[i] = IF i <= Len(Prompt) THEN Prompt[i] ELSE a[i - Len(Prompt)]
    BY <1>1, ConcatProperties
  <2>2. Len(Prompt) = 2
    BY <1>1
  <2>. QED BY <2>1, <2>2
<1>3. /\ Len(Prompt \o b) = 2 + Len(b)
      /\ \A i \in 1 .. 2 + Len(b) :
           (Prompt \o b)[i] = IF i <= 2 THEN Prompt[i] ELSE b[i - 2]
  <2>1. /\ Len(Prompt \o b) = Len(Prompt) + Len(b)
        /\ \A i \in 1 .. Len(Prompt) + Len(b) :
             (Prompt \o b)[i] = IF i <= Len(Prompt) THEN Prompt[i] ELSE b[i - Len(Prompt)]
    BY <1>1, ConcatProperties
  <2>2. Len(Prompt) = 2
    BY <1>1
  <2>. QED BY <2>1, <2>2
<1>4. Len(a) = Len(b)
  BY <1>1, <1>2, <1>3
<1>5. ASSUME NEW i \in 1 .. Len(a)
      PROVE  a[i] = b[i]
  <2>1. i + 2 \in 1 .. 2 + Len(a) /\ ~(i + 2 <= 2) /\ (i + 2) - 2 = i
    BY <1>1
  <2>2. (Prompt \o a)[i + 2] = a[i]
    BY <1>2, <2>1
  <2>3. (Prompt \o b)[i + 2] = b[i]
    BY <1>3, <1>4, <2>1
  <2>. QED BY <2>2, <2>3
<1>6. a = [i \in 1 .. Len(a) |-> a[i]] /\ b = [i \in 1 .. Len(b) |-> b[i]]
  BY LenProperties
<1>. QED BY <1>4, <1>5, <1>6

LEMMA CommandFacts ==
  /\ \A v \in Verbs : Commands[v] \in Seq(Printables)
  /\ Commands["shutdown"] # Commands["cancel"] /\ Commands["shutdown"] # Commands["confirm"]
<1>1. \A v \in Verbs : Commands[v] \in Seq(Printables)
  BY ShellAssumption
<1>2. "shutdown" \in Verbs /\ "cancel" \in Verbs /\ "confirm" \in Verbs
  BY DEF Verbs
<1>. QED BY <1>1, <1>2, ShellAssumption

\* Enter counts a request, and its end, by the line that is executed.
LEMMA EnteredFacts ==
  ASSUME GlassInv, LineInv, open, Entered
  PROVE  /\ command = Commands["shutdown"] => asked' = 0
         /\ command \in {Commands["cancel"], Commands["confirm"]} => asked' = Never
         /\ command \notin {Commands["shutdown"], Commands["cancel"], Commands["confirm"]}
              => asked' = asked
<1>1. LineAtBar = Prompt \o command /\ command \in Seq(Printables)
  BY LineIsShown DEF LineInv
<1>2. "shutdown" \in Verbs /\ "cancel" \in Verbs /\ "confirm" \in Verbs
  BY DEF Verbs
<1> DEFINE s == Commands["shutdown"]  c == Commands["cancel"]  k == Commands["confirm"]
<1>3. /\ s \in Seq(Printables) /\ c \in Seq(Printables) /\ k \in Seq(Printables)
      /\ s # c /\ s # k
  BY <1>2, CommandFacts
<1>4. asked' = CASE LineAtBar = Prompt \o s -> 0
                 [] LineAtBar \in {Prompt \o c, Prompt \o k} -> Never
                 [] OTHER -> asked
  BY DEF Entered
<1>. HIDE DEF s, c, k
<1>5. /\ (LineAtBar = Prompt \o s) <=> command = s
      /\ (LineAtBar = Prompt \o c) <=> command = c
      /\ (LineAtBar = Prompt \o k) <=> command = k
  BY <1>1, <1>3, PromptTells
<1>6. asked' = CASE command = s -> 0
                 [] command \in {c, k} -> Never
                 [] OTHER -> asked
  <2>1. (LineAtBar \in {Prompt \o c, Prompt \o k}) <=> command \in {c, k}
    BY <1>5
  <2>. QED BY <1>4, <1>5, <2>1
<1>7. /\ command = s => asked' = 0
      /\ command \in {c, k} => asked' = Never
      /\ command \notin {s, c, k} => asked' = asked
  BY <1>3, <1>6
<1>. QED BY <1>7 DEF s, c, k

\* Enter prints and comes back to the prompt.
LEMMA PrintsStep ==
  ASSUME GlassInv, LineInv, open, NEW text \in Outputs, Prints(text)
  PROVE  GlassInv' /\ LineInv'
<1> DEFINE pre == <<"newline">> \o text \o <<"newline">>
<1>1. text \in Seq(Characters) /\ <<"newline">> \in Seq(Characters)
  BY ShellAssumption DEF Characters, Controls
<1>2. <<"newline">> \o text \in Seq(Characters)
  BY <1>1, ConcatProperties
<1>3. pre = Append(<<"newline">> \o text, "newline")
  BY <1>2
<1>4. "newline" \in Characters
  BY DEF Characters, Controls
<1>. HIDE DEF pre
<1>5. pre \in Seq(Characters) /\ pre # <<>> /\ pre[Len(pre)] = "newline"
  BY <1>2, <1>3, <1>4, AppendProperties
<1>6. Render(Written(term, pre \o Prompt)) /\ command' = <<>>
  BY Zenon DEF Prints, pre
<1>7. term \in Good /\ bars \subseteq Places
  BY TermIsGood DEF GlassInv
<1>. QED BY <1>5, <1>6, <1>7, PromptShown

LEMMA ShellFacts ==
  /\ CommandSize \in Nat /\ CommandSize >= 1 /\ CommandSize + 1 < Columns /\ Columns \in Nat
  /\ Limit \in Nat /\ Never = Limit + 1 /\ Printables = Shown
BY ShellAssumption, TerminalAssumption DEF Never, Printables, Shown

LEMMA CommandTyped ==
  ASSUME LineInv
  PROVE  command \in Seq(Printables) /\ Len(command) \in Nat /\ Len(command) <= CommandSize - 1
BY LenProperties DEF LineInv

LEMMA TypeStep ==
  ASSUME GlassInv, LineInv, NEW key \in Printables, Type(key)
  PROVE  GlassInv' /\ LineInv'
<1>1. /\ open /\ open' = open /\ Len(command) < CommandSize - 1
      /\ command' = Append(command, key) /\ Render(Written(term, <<key>>))
  BY DEF Type
<1>2. term \in Good /\ bars \subseteq Places
  BY <1>1, TermIsGood DEF GlassInv
<1> DEFINE u == Written(term, <<key>>)  row == term.cursor[1]  col == term.cursor[2]
<1>3. /\ col = Len(command) + 2 /\ term.cells[<<row, 0>>] = ">" /\ term.cells[<<row, 1>>] = Space
      /\ \A i \in 1 .. Len(command) : term.cells[<<row, i + 1>>] = command[i]
  BY <1>1 DEF LineInv
<1>4. /\ term.cells \in [Places -> Shown] /\ term.cursor \in Places /\ term.cursor = <<row, col>>
      /\ row \in 0 .. Rows - 1 /\ col \in 0 .. Columns - 1
  BY <1>2, TerminalFields, PlaceFacts DEF Good
<1>5. col + 1 < Columns
  BY <1>1, <1>3, CommandTyped, ShellFacts
<1>6. /\ u \in Good /\ u.cursor = <<row, col + 1>>
      /\ u.cells = [term.cells EXCEPT ![<<row, col>>] = key]
  BY <1>2, <1>4, <1>5, ShellFacts, TypedFacts
<1>7. Render(u)
  BY <1>1
<1>. HIDE DEF u, row, col
<1>8. /\ term' \in Terminals /\ term'.dirty = {} /\ term'.drawn = term'.cursor
      /\ term'.cursor = <<row, col + 1>>
      /\ term'.cells = [term.cells EXCEPT ![<<row, col>>] = key]
      /\ glass' = term'.cells /\ bars' = {term'.cursor}
  BY <1>2, <1>6, <1>7, RenderFacts
<1>9. GlassInv'
  <2>1. term'.cursor \in Places
    BY <1>8, TerminalFields
  <2>. QED BY <1>8, <2>1 DEF GlassInv
<1>10. /\ command' \in Seq(Printables) /\ Len(command') = Len(command) + 1
       /\ \A i \in 1 .. Len(command) : command'[i] = command[i]
       /\ command'[Len(command) + 1] = key
  BY <1>1, CommandTyped, AppendProperties
<1>11. \A c \in 0 .. col : <<row, c>> \in Places
  <2>1. \A c \in 0 .. col : c \in 0 .. Columns - 1
    BY <1>4, ShellFacts
  <2>. QED BY <1>4, <2>1, PlaceMade
<1>12. \A c \in 0 .. col : term'.cells[<<row, c>>] = IF c = col THEN key
                                                    ELSE term.cells[<<row, c>>]
  BY <1>4, <1>8, <1>11
<1>13. term'.cells[<<row, 0>>] = ">" /\ term'.cells[<<row, 1>>] = Space
  <2>1. 0 \in 0 .. col /\ 1 \in 0 .. col /\ 0 # col /\ 1 # col
    BY <1>3, CommandTyped
  <2>. QED BY <1>3, <1>12, <2>1
<1>14. ASSUME NEW i \in 1 .. Len(command')
       PROVE  term'.cells[<<row, i + 1>>] = command'[i]
  <2>1. i + 1 \in 0 .. col /\ (i + 1 = col <=> i = Len(command) + 1)
    BY <1>3, <1>10, CommandTyped
  <2>2. CASE i = Len(command) + 1
    BY <1>10, <1>12, <2>1, <2>2
  <2>3. CASE i # Len(command) + 1
    <3>1. i \in 1 .. Len(command)
      BY <1>10, <2>3, CommandTyped
    <3>. QED BY <1>3, <1>10, <1>12, <2>1, <2>3, <3>1
  <2>. QED BY <2>2, <2>3
<1>15. term'.cursor[1] = row /\ term'.cursor[2] = Len(command') + 2
  <2>1. term'.cursor[1] = row /\ term'.cursor[2] = col + 1
    BY <1>8
  <2>. QED BY <1>3, <1>10, <2>1, CommandTyped
<1>16. Len(command') <= CommandSize - 1
  BY <1>1, <1>10, CommandTyped, ShellFacts
<1>17. LineInv'
  BY <1>10, <1>13, <1>14, <1>15, <1>16 DEF LineInv
<1>. QED BY <1>9, <1>17

LEMMA BackspaceStep ==
  ASSUME GlassInv, LineInv, Backspace
  PROVE  GlassInv' /\ LineInv'
<1>1. /\ open /\ open' = open /\ command # <<>>
      /\ command' = SubSeq(command, 1, Len(command) - 1)
      /\ Render(Written(term, <<"backspace">>))
  BY DEF Backspace
<1>2. term \in Good /\ bars \subseteq Places
  BY <1>1, TermIsGood DEF GlassInv
<1> DEFINE u == Written(term, <<"backspace">>)  row == term.cursor[1]  col == term.cursor[2]
<1>3. /\ col = Len(command) + 2 /\ term.cells[<<row, 0>>] = ">" /\ term.cells[<<row, 1>>] = Space
      /\ \A i \in 1 .. Len(command) : term.cells[<<row, i + 1>>] = command[i]
  BY <1>1 DEF LineInv
<1>4. /\ term.cells \in [Places -> Shown]
      /\ row \in 0 .. Rows - 1 /\ col \in 0 .. Columns - 1
  BY <1>2, TerminalFields, PlaceFacts DEF Good
<1>5. col # 0 /\ Len(command) \in Nat /\ Len(command) >= 1
  BY <1>1, <1>3, CommandTyped, EmptySeq
<1>6. /\ <<row, col - 1>> \in Places /\ u \in Good /\ u.cursor = <<row, col - 1>>
      /\ u.cells = [term.cells EXCEPT ![<<row, col - 1>>] = Space]
  BY <1>2, <1>5, BackspacedFacts
<1>7. Render(u)
  BY <1>1
<1>. HIDE DEF u, row, col
<1>8. /\ term' \in Terminals /\ term'.dirty = {} /\ term'.drawn = term'.cursor
      /\ term'.cursor = <<row, col - 1>>
      /\ term'.cells = [term.cells EXCEPT ![<<row, col - 1>>] = Space]
      /\ glass' = term'.cells /\ bars' = {term'.cursor}
  BY <1>2, <1>6, <1>7, RenderFacts
<1>9. GlassInv'
  BY <1>6, <1>8 DEF GlassInv
<1>10. /\ command' \in Seq(Printables) /\ Len(command') = Len(command) - 1
       /\ \A i \in 1 .. Len(command) - 1 : command'[i] = command[i]
  BY <1>1, <1>5, CommandTyped, SubSeqProperties
<1>11. \A c \in 0 .. col - 2 : term'.cells[<<row, c>>] = term.cells[<<row, c>>]
  <2>1. \A c \in 0 .. col - 2 : c \in 0 .. Columns - 1 /\ c # col - 1
    BY <1>4, ShellFacts
  <2>2. \A c \in 0 .. col - 2 : <<row, c>> \in Places
    BY <1>4, <2>1, PlaceMade
  <2>. QED BY <1>4, <1>8, <2>1, <2>2
<1>12. term'.cells[<<row, 0>>] = ">" /\ term'.cells[<<row, 1>>] = Space
  <2>1. 0 \in 0 .. col - 2 /\ 1 \in 0 .. col - 2
    BY <1>3, <1>5
  <2>. QED BY <1>3, <1>11, <2>1
<1>13. ASSUME NEW i \in 1 .. Len(command')
       PROVE  term'.cells[<<row, i + 1>>] = command'[i]
  <2>1. i + 1 \in 0 .. col - 2 /\ i \in 1 .. Len(command) /\ i \in 1 .. Len(command) - 1
    BY <1>3, <1>5, <1>10
  <2>. QED BY <1>3, <1>10, <1>11, <2>1
<1>14. term'.cursor[1] = row /\ term'.cursor[2] = Len(command') + 2
  <2>1. term'.cursor[1] = row /\ term'.cursor[2] = col - 1
    BY <1>8
  <2>. QED BY <1>3, <1>5, <1>10, <2>1
<1>15. Len(command') <= CommandSize - 1
  BY <1>5, <1>10, CommandTyped, ShellFacts
<1>16. LineInv'
  BY <1>10, <1>12, <1>13, <1>14, <1>15 DEF LineInv
<1>. QED BY <1>9, <1>16

LEMMA OpenStep ==
  ASSUME GlassInv, Open
  PROVE  GlassInv' /\ LineInv'
<1>1. Cleared \in Good /\ bars \subseteq Places
  BY ClearedIsGood DEF GlassInv
<1>2. Render(Written(Cleared, Welcome \o Prompt)) /\ command' = <<>>
  BY DEF Open
<1>3. Welcome \in Seq(Characters) /\ Welcome # <<>> /\ Welcome[Len(Welcome)] = "newline"
  BY ShellAssumption
<1>. QED BY <1>1, <1>2, <1>3, PromptShown

LEMMA LeaveStep ==
  ASSUME GlassInv, LineInv, Leave
  PROVE  GlassInv' /\ LineInv'
BY DEF Leave, GlassInv, LineInv

\* What neither draws nor takes a key
LEMMA QuietStep ==
  ASSUME GlassInv, LineInv, UNCHANGED <<terminalVars, open, command>>
  PROVE  GlassInv' /\ LineInv'
BY DEF GlassInv, LineInv, terminalVars

\* The commands of Enter, but for what they do to the request
LEMMA EnterDraws ==
  ASSUME GlassInv, LineInv, Shutdown \/ Cancel \/ Confirm \/ Cat \/ OtherCommand
  PROVE  GlassInv' /\ LineInv'
<1>1. open /\ \E text \in Outputs : Prints(text)
  BY Zenon DEF Shutdown, Cancel, Confirm, Cat, OtherCommand, Is
<1>. QED BY <1>1, PrintsStep

LEMMA DrawingStep ==
  ASSUME GlassInv, LineInv, [ShellNext]_<<terminalVars, shellVars>>
  PROVE  GlassInv' /\ LineInv'
<1>1. UpdateState \/ ShutdownTick \/ UNCHANGED <<terminalVars, shellVars>>
      => UNCHANGED <<terminalVars, open, command>>
  BY Zenon DEF UpdateState, ShutdownTick, shellVars
<1>. QED
  BY <1>1, OpenStep, LeaveStep, TypeStep, BackspaceStep, EnterDraws, QuietStep DEF ShellNext

\* The request: made, ended, and counted by Enter and the clock alone
LEMMA RequestStep ==
  ASSUME GlassInv, LineInv, RequestInv, [ShellNext]_<<terminalVars, shellVars>>
  PROVE  RequestInv'
<1>1. /\ open \in BOOLEAN /\ pending \in BOOLEAN /\ cardRead \in BOOLEAN /\ powerOff \in BOOLEAN
      /\ compat \in {"unset", "ready", "error"}
  BY DEF RequestInv
<1>2. timeLeft \in -1 .. Limit /\ asked \in 0 .. Never /\ 0 \in 0 .. Never /\ Never \in 0 .. Never
      /\ -1 \in -1 .. Limit /\ Limit \in -1 .. Limit
  BY ShellFacts DEF RequestInv
<1>3. open /\ pending /\ timeLeft >= 0 => asked = Limit - timeLeft
  BY DEF RequestInv
<1>4. CASE Open
  BY <1>1, <1>2, <1>4 DEF Open, RequestInv
<1>5. CASE Leave
  BY <1>1, <1>2, <1>5 DEF Leave, RequestInv
<1>6. CASE UNCHANGED <<open, pending, timeLeft, cardRead, compat, powerOff, asked>>
  BY <1>1, <1>2, <1>3, <1>6 DEF RequestInv
<1>7. CASE (\E key \in Printables : Type(key)) \/ Backspace \/ UNCHANGED <<terminalVars, shellVars>>
  <2>1. UNCHANGED <<open, pending, timeLeft, cardRead, compat, powerOff, asked>>
    BY <1>7, Zenon DEF Type, Backspace, shellVars
  <2>. QED BY <1>6, <2>1
<1>8. CASE Shutdown
  <2>1. open /\ command = Commands["shutdown"] /\ Entered
    BY <1>8 DEF Shutdown, Is
  <2>2. asked' = 0
    BY <2>1, EnteredFacts
  <2>3. pending' = TRUE /\ timeLeft' = Limit /\ UNCHANGED <<open, cardRead, compat, powerOff>>
    BY <1>8 DEF Shutdown
  <2>. QED BY <1>1, <1>2, <2>2, <2>3, ShellFacts DEF RequestInv
<1>9. CASE Cancel \/ Confirm
  <2>1. open /\ command \in {Commands["cancel"], Commands["confirm"]} /\ Entered
    BY <1>9 DEF Cancel, Confirm, Is
  <2>2. asked' = Never
    BY <2>1, EnteredFacts
  <2>3. pending' = FALSE /\ UNCHANGED <<open, timeLeft, cardRead, compat>>
    BY <1>9, Zenon DEF Cancel, Confirm
  <2>4. Authorized \in BOOLEAN
    BY <1>1 DEF Authorized, Authorize
  <2>5. powerOff' \in BOOLEAN
    BY <1>1, <1>9, <2>4 DEF Cancel, Confirm
  <2>. QED BY <1>1, <1>2, <2>2, <2>3, <2>5 DEF RequestInv
<1>10. CASE Cat \/ OtherCommand
  <2>1. /\ open /\ Entered
        /\ command \notin {Commands["shutdown"], Commands["cancel"], Commands["confirm"]}
    <3>1. CASE Cat
      <4>1. "cat" \in Verbs /\ "shutdown" \in Verbs /\ "cancel" \in Verbs /\ "confirm" \in Verbs
        BY DEF Verbs
      <4>. QED BY <3>1, <4>1, ShellAssumption DEF Cat, Is
    <3>2. CASE OtherCommand
      BY <3>2 DEF OtherCommand, Is, Verbs
    <3>. QED BY <1>10, <3>1, <3>2
  <2>2. asked' = asked
    BY <2>1, EnteredFacts
  <2>3. UNCHANGED <<open, pending, timeLeft, cardRead, powerOff>>
    BY <1>10, Zenon DEF Cat, OtherCommand
  <2>4. compat' \in {"unset", "ready", "error"}
    BY <1>1, <1>10 DEF Cat, OtherCommand, ReadRootFile
  <2>. QED BY <1>1, <1>2, <1>3, <2>2, <2>3, <2>4 DEF RequestInv
<1>11. CASE UpdateState
  BY <1>1, <1>2, <1>3, <1>11 DEF UpdateState, RequestInv
<1>12. CASE ShutdownTick
  <2>1. /\ timeLeft' = (IF timeLeft >= 0 THEN timeLeft - 1 ELSE timeLeft)
        /\ asked' = (IF asked < Never THEN asked + 1 ELSE asked)
        /\ UNCHANGED <<open, pending, cardRead, compat, powerOff>>
    BY <1>12, Zenon DEF ShutdownTick
  <2>2. timeLeft' \in -1 .. Limit /\ asked' \in 0 .. Never
    BY <1>2, <2>1, ShellFacts
  <2>3. ASSUME open, pending, timeLeft' >= 0
        PROVE  asked' = Limit - timeLeft'
    <3>1. timeLeft >= 0 /\ timeLeft' = timeLeft - 1
      BY <1>2, <2>1, <2>3, ShellFacts
    <3>2. asked = Limit - timeLeft
      BY <1>3, <2>3, <3>1
    <3>. QED BY <1>2, <2>1, <3>1, <3>2, ShellFacts
  <2>. QED BY <1>1, <2>1, <2>2, <2>3 DEF RequestInv
<1>. QED BY <1>4, <1>5, <1>7, <1>8, <1>9, <1>10, <1>11, <1>12, Zenon DEF ShellNext

LEMMA ShellInitHolds == ShellInit => ShellInv
<1>. SUFFICES ASSUME ShellInit PROVE ShellInv
  OBVIOUS
<1>1. bars = {} /\ term = Cleared /\ open = FALSE /\ command = <<>>
  BY DEF ShellInit
<1>2. term \in Terminals
  BY <1>1, ClearedIsGood DEF Good
<1>3. GlassInv
  BY <1>1, <1>2 DEF GlassInv
<1>4. LineInv
  BY <1>1, ShellFacts DEF LineInv
<1>5. RequestInv
  <2>1. /\ open = FALSE /\ pending = FALSE /\ powerOff = FALSE /\ cardRead \in BOOLEAN
        /\ timeLeft = -1 /\ asked = Never /\ compat = "unset"
    BY DEF ShellInit
  <2>2. -1 \in -1 .. Limit /\ Never \in 0 .. Never
    BY ShellFacts
  <2>. QED BY <2>1, <2>2 DEF RequestInv
<1>. QED BY <1>3, <1>4, <1>5 DEF ShellInv

LEMMA ShellInvariant == ShellSpec => []ShellInv
<1>1. ShellInv /\ [ShellNext]_<<terminalVars, shellVars>> => ShellInv'
  BY DrawingStep, RequestStep DEF ShellInv
<1>. QED BY <1>1, ShellInitHolds, PTL DEF ShellSpec

-----------------------------------------------------------------------------
(* What follows from it. *)

\* The command fits its buffer with the terminating zero, the cursor and the
\* bar stay on the glass, and the clocks stay within their bounds
\* (shell.c:10-16, 203-224; terminal.c:113-120, 180-219).
THEOREM TypeCorrect == ShellSpec => []ShellTypeOK
<1>1. ShellInv => ShellTypeOK
  <2>. SUFFICES ASSUME ShellInv PROVE ShellTypeOK
    OBVIOUS
  <2>1. GlassInv /\ RequestInv /\ LineInv
    BY DEF ShellInv
  <2>2. Len(command) \in 0 .. CommandSize - 1 /\ command \in [1 .. Len(command) -> Printables]
    BY <2>1, CommandTyped, LenProperties, ShellFacts
  <2>3. command \in UNION {[1 .. n -> Printables] : n \in 0 .. CommandSize - 1}
    BY <2>2
  <2>4. term.cursor \in Places /\ bars \subseteq Places
    BY <2>1, TerminalFields DEF GlassInv
  <2>. QED BY <2>1, <2>3, <2>4 DEF ShellTypeOK, RequestInv
<1>. QED BY <1>1, ShellInvariant, PTL

\* While the terminal is open its glass shows each cell as it is, and one bar,
\* at the cursor, whatever was written and drawn (terminal.c:221-241,
\* gui.c:1040-1047).
THEOREM GlassIsTerminalHolds == ShellSpec => []GlassIsTerminal
<1>1. ShellInv => GlassIsTerminal
  BY DEF ShellInv, GlassInv, GlassIsTerminal
<1>. QED BY <1>1, ShellInvariant, PTL

\* What Enter will execute is what stands between the prompt and the bar
\* (shell.c:203-224).
THEOREM LineShownHolds == ShellSpec => []LineShown
<1>1. ShellInv => LineShown
  BY LineIsShown DEF ShellInv, LineShown
<1>. QED BY <1>1, ShellInvariant, PTL

\* The power goes only at Enter on a line that shows the confirmation, within
\* the limit after Enter on one that showed the request (shell.c:140-164).
THEOREM PowerOffAskedHolds == ShellSpec => PowerOffAsked
<1>1. ASSUME ShellInv, [ShellNext]_<<terminalVars, shellVars>>, powerOff' # powerOff
      PROVE  LineAtBar = Prompt \o Commands["confirm"] /\ asked <= Limit
  <2>1. Confirm
    BY <1>1, Zenon DEF ShellNext, shellVars, Open, Leave, Type, Backspace, Shutdown, Cancel, Cat,
       OtherCommand, UpdateState, ShutdownTick
  <2>2. open /\ command = Commands["confirm"]
    BY <2>1 DEF Confirm, Is
  <2>3. LineAtBar = Prompt \o Commands["confirm"]
    BY <1>1, <2>2, LineIsShown DEF ShellInv
  <2>4. RequestInv
    BY <1>1 DEF ShellInv
  <2>5. powerOff' = powerOff \/ powerOff' = (powerOff \/ Authorized)
    BY <2>1 DEF Confirm
  <2>6. Authorized
    BY <1>1, <2>4, <2>5 DEF RequestInv, Authorized, Authorize
  <2>7. pending /\ timeLeft >= 0
    BY <2>6 DEF Authorized
  <2>8. asked = Limit - timeLeft /\ timeLeft \in -1 .. Limit
    BY <2>2, <2>4, <2>7 DEF RequestInv
  <2>. QED BY <2>3, <2>7, <2>8, ShellFacts
<1>. QED BY <1>1, ShellInvariant, PTL DEF ShellSpec, PowerOffAsked
=============================================================================
