---------------------------- MODULE InputsProofs -----------------------------
(***************************************************************************)
(* TakenAsWritten, for every text and every width: what three readings     *)
(* from left to right make of a text is what the whole text means.         *)
(*                                                                         *)
(* A reading is a recursive function on the places of the text; Folds says *)
(* that there is one, and UpTo is the induction on its places.  The        *)
(* meaning is about the parts of the text between separators, Ended counts *)
(* those that end before a place, and PlaceGrows moves from a place to the *)
(* next.  What a reading has when it is in a part is related to the parts: *)
(* Knows for a target, Counted for a path, HasFound for a file.            *)
(***************************************************************************)
EXTENDS Inputs, FiniteSetTheorems, FunctionTheorems, SequenceTheorems,
        WellFoundedInduction, TLAPS

-----------------------------------------------------------------------------
(* Numbers and recursive functions                                         *)

\* A set of numbers that is not empty has a least one.
LEMMA LeastOf ==
  ASSUME NEW S \in SUBSET Nat, S # {}
  PROVE  \E m \in S : \A n \in S : m <= n
<1> DEFINE Less == OpToRel(<, Nat)
<1>1. IsWellFoundedOn(Less, Nat)
  BY NatLessThanWellFounded
<1>2. \A m, n \in Nat : n < m => <<n, m>> \in Less
  BY DEF OpToRel
<1> HIDE DEF Less
<1>3. PICK m \in S : \A n \in S : <<n, m>> \notin Less
  BY <1>1, WFMin
<1>4. ASSUME NEW n \in S
      PROVE  m <= n
  <2>1. m \in Nat /\ n \in Nat
    OBVIOUS
  <2>2. ~(n < m)
    BY <1>2, <1>3, <2>1
  <2> QED BY <2>1, <2>2
<1> QED BY <1>4

\* Induction up to m, about a set, which the provers can name.
LEMMA UpTo ==
  ASSUME NEW m \in Nat, NEW P, 0 \in P, \A i \in 0 .. m - 1 : i \in P => i + 1 \in P
  PROVE  \A i \in 0 .. m : i \in P
<1> DEFINE Bad == {i \in 0 .. m : i \notin P}
<1>1. SUFFICES ASSUME Bad # {} PROVE FALSE
  OBVIOUS
<1>2. Bad \in SUBSET Nat
  OBVIOUS
<1>3. PICK b \in Bad : \A n \in Bad : b <= n
  BY <1>1, <1>2, LeastOf
<1>4. b \in 1 .. m /\ b - 1 \in 0 .. m - 1 /\ ~(b <= b - 1) /\ b - 1 + 1 = b
  BY <1>3
<1>5. b - 1 \in P
  BY <1>3, <1>4
<1> QED BY <1>3, <1>4, <1>5

\* The values of a recursive function up to m: the first one, and each of the
\* others from the one before it
Folds(f, m, start, step) ==
  f[0] = start /\ \A i \in 1 .. m : f[i] = step[<<f[i - 1], i>>]

\* There is such a function.
LEMMA FoldExists ==
  ASSUME NEW m \in Nat, NEW St, NEW start \in St, NEW step \in [St \X (1 .. m) -> St]
  PROVE  \E f \in [0 .. m -> St] : Folds(f, m, start, step)
<1> DEFINE P == {n \in 0 .. m : \E f \in [0 .. n -> St] : Folds(f, n, start, step)}
<1>1. 0 \in P
  <2> DEFINE g == [i \in 0 .. 0 |-> start]
  <2>1. g \in [0 .. 0 -> St] /\ g[0] = start
    OBVIOUS
  <2> HIDE DEF g
  <2> QED BY <2>1 DEF Folds
<1>2. ASSUME NEW n \in 0 .. m - 1, n \in P
      PROVE  n + 1 \in P
  <2>1. PICK f \in [0 .. n -> St] : Folds(f, n, start, step)
    BY <1>2
  <2>2. n + 1 \in 1 .. m /\ f[n] \in St
    BY <2>1
  <2> DEFINE g == [i \in 0 .. n + 1 |-> IF i = n + 1 THEN step[<<f[n], n + 1>>] ELSE f[i]]
  <2>3. step[<<f[n], n + 1>>] \in St
    BY <2>2
  <2>4. /\ g \in [0 .. n + 1 -> St]
        /\ g[n + 1] = step[<<f[n], n + 1>>]
        /\ \A i \in 0 .. n : g[i] = f[i]
    BY <2>1, <2>3
  <2> HIDE DEF g
  <2>5. g[0] = start
    BY <2>1, <2>4 DEF Folds
  <2>6. ASSUME NEW i \in 1 .. n + 1
        PROVE  g[i] = step[<<g[i - 1], i>>]
    <3>1. CASE i = n + 1
      <4>1. i - 1 = n /\ g[n] = f[n]
        BY <2>4, <3>1
      <4> QED BY <2>4, <3>1, <4>1
    <3>2. CASE i # n + 1
      <4>1. i \in 1 .. n /\ i \in 0 .. n /\ i - 1 \in 0 .. n
        BY <3>2
      <4> QED BY <2>1, <2>4, <4>1 DEF Folds
    <3> QED BY <3>1, <3>2
  <2>7. n + 1 \in 0 .. m
    OBVIOUS
  <2> QED BY <2>4, <2>5, <2>6, <2>7 DEF Folds
<1> HIDE DEF P
<1>3. m \in P
  BY <1>1, <1>2, UpTo
<1> QED BY <1>3 DEF P

-----------------------------------------------------------------------------
(* The parts of a text                                                     *)

\* p is what stands between two separators, or a separator and an end.
IsPart(s, Z, a, b) ==
  /\ a \in 0 .. Len(s) /\ b \in 1 .. Len(s) + 1 /\ a < b
  /\ a > 0 => s[a] \in Z
  /\ b <= Len(s) => s[b] \in Z
  /\ \A k \in 1 .. Len(s) : a < k /\ k < b => s[k] \notin Z

\* Parts has these, and only these.
LEMMA PartPlaces ==
  ASSUME NEW s, NEW Z, Len(s) \in Nat
  PROVE  /\ \A p \in Parts(s, Z) : p = <<p[1], p[2]>> /\ IsPart(s, Z, p[1], p[2])
         /\ \A a, b : IsPart(s, Z, a, b) => <<a, b>> \in Parts(s, Z)
<1> DEFINE ends == {i \in 1 .. Len(s) : s[i] \in Z} \union {0, Len(s) + 1}
<1>1. Parts(s, Z) = {p \in ends \X ends : p[1] < p[2] /\ ~ \E i \in ends : p[1] < i /\ i < p[2]}
  BY DEF Parts
<1>2. \A i : i \in ends <=> i = 0 \/ i = Len(s) + 1 \/ (i \in 1 .. Len(s) /\ s[i] \in Z)
  OBVIOUS
<1> HIDE DEF ends
<1>3. ASSUME NEW p \in Parts(s, Z)
      PROVE  p = <<p[1], p[2]>> /\ IsPart(s, Z, p[1], p[2])
  <2>1. p \in ends \X ends /\ p[1] < p[2] /\ ~ \E i \in ends : p[1] < i /\ i < p[2]
    BY <1>1
  <2>2. PICK a \in ends, b \in ends : p = <<a, b>>
    BY <2>1
  <2>3. a < b /\ p[1] = a /\ p[2] = b /\ ~ \E i \in ends : a < i /\ i < b
    BY <2>1, <2>2
  <2>4. a \in 0 .. Len(s) + 1 /\ b \in 0 .. Len(s) + 1
    BY <1>2, <2>2
  <2>5. a \in 0 .. Len(s) /\ b \in 1 .. Len(s) + 1
    BY <2>3, <2>4
  <2>6. a > 0 => s[a] \in Z
    BY <1>2, <2>2, <2>5
  <2>7. b <= Len(s) => s[b] \in Z
    BY <1>2, <2>2, <2>5
  <2>8. \A k \in 1 .. Len(s) : a < k /\ k < b => s[k] \notin Z
    BY <1>2, <2>3
  <2> QED BY <2>2, <2>3, <2>5, <2>6, <2>7, <2>8 DEF IsPart
<1>4. ASSUME NEW a, NEW b, IsPart(s, Z, a, b)
      PROVE  <<a, b>> \in Parts(s, Z)
  <2>1. /\ a \in 0 .. Len(s) /\ b \in 1 .. Len(s) + 1 /\ a < b
        /\ a > 0 => s[a] \in Z
        /\ b <= Len(s) => s[b] \in Z
        /\ \A k \in 1 .. Len(s) : a < k /\ k < b => s[k] \notin Z
    BY <1>4 DEF IsPart
  <2>2. a \in ends
    BY <1>2, <2>1
  <2>3. b \in ends
    BY <1>2, <2>1
  <2>4. ASSUME NEW i \in ends, a < i, i < b
        PROVE  FALSE
    <3>1. i \in 1 .. Len(s) /\ s[i] \in Z
      BY <1>2, <2>1, <2>4
    <3> QED BY <2>1, <2>4, <3>1
  <2>5. <<a, b>>[1] = a /\ <<a, b>>[2] = b /\ <<a, b>> \in ends \X ends
    BY <2>2, <2>3
  <2> QED BY <1>1, <2>1, <2>4, <2>5
<1> QED BY <1>3, <1>4

\* The parts that p is compared with are disjoint from it: before it or behind it.
LEMMA PartsApart ==
  ASSUME NEW s, NEW Z, Len(s) \in Nat, NEW p \in Parts(s, Z), NEW q \in Parts(s, Z)
  PROVE  /\ p[1] \in 0 .. Len(s) /\ p[2] \in 1 .. Len(s) + 1 /\ p[1] < p[2]
         /\ p[1] < q[1] => p[2] <= q[1]
         /\ p[1] = q[1] => p = q
         /\ p[2] = q[2] => p = q
<1>1. /\ p = <<p[1], p[2]>> /\ IsPart(s, Z, p[1], p[2])
      /\ q = <<q[1], q[2]>> /\ IsPart(s, Z, q[1], q[2])
  BY PartPlaces
<1>2. PICK a, b, c, d : /\ p = <<a, b>> /\ q = <<c, d>> /\ p[1] = a /\ p[2] = b /\ q[1] = c /\ q[2] = d
                        /\ IsPart(s, Z, a, b) /\ IsPart(s, Z, c, d)
  BY <1>1
<1>3. /\ a \in 0 .. Len(s) /\ b \in 1 .. Len(s) + 1 /\ a < b
      /\ (a > 0 => s[a] \in Z) /\ (b <= Len(s) => s[b] \in Z)
      /\ \A k \in 1 .. Len(s) : a < k /\ k < b => s[k] \notin Z
      /\ c \in 0 .. Len(s) /\ d \in 1 .. Len(s) + 1 /\ c < d
      /\ (c > 0 => s[c] \in Z) /\ (d <= Len(s) => s[d] \in Z)
      /\ \A k \in 1 .. Len(s) : c < k /\ k < d => s[k] \notin Z
  BY <1>2 DEF IsPart
<1>4. a < c => b <= c
  BY <1>3
<1>5. a = c => b = d
  BY <1>3
<1>6. b = d => a = c
  BY <1>3
<1> QED BY <1>2, <1>3, <1>4, <1>5, <1>6

\* Each place is in one part, which ends at the next separator.
LEMMA PartAt ==
  ASSUME NEW s, NEW Z, Len(s) \in Nat, NEW i \in 0 .. Len(s)
  PROVE  \E p \in Parts(s, Z) : p[1] <= i /\ i < p[2]
<1> DEFINE starts == {n \in 0 .. i : n = i \/ s[i - n] \in Z}
           stops == {j \in i + 1 .. Len(s) + 1 : j = Len(s) + 1 \/ s[j] \in Z}
<1>1. PICK n \in starts : \A o \in starts : n <= o
  <2>1. starts \in SUBSET Nat /\ i \in starts
    OBVIOUS
  <2> QED BY <2>1, LeastOf
<1>2. PICK b \in stops : \A o \in stops : b <= o
  <2>1. stops \in SUBSET Nat /\ Len(s) + 1 \in stops
    OBVIOUS
  <2> QED BY <2>1, LeastOf
<1> DEFINE a == i - n
<1>3. n \in 0 .. i /\ (n = i \/ s[i - n] \in Z)
  BY <1>1
<1>4. b \in i + 1 .. Len(s) + 1 /\ (b = Len(s) + 1 \/ s[b] \in Z)
  BY <1>2
<1>5. ASSUME NEW k \in 1 .. Len(s), a < k, k < b
      PROVE  s[k] \notin Z
  <2>1. CASE k <= i
    <3>1. i - k \in 0 .. i /\ ~(n <= i - k) /\ i - (i - k) = k
      BY <1>3, <1>5, <2>1
    <3>2. i - k \notin starts
      BY <1>1, <3>1
    <3> QED BY <3>1, <3>2
  <2>2. CASE ~(k <= i)
    <3>1. k \in i + 1 .. Len(s) + 1 /\ ~(b <= k)
      BY <1>4, <1>5, <2>2
    <3>2. k \notin stops
      BY <1>2, <3>1
    <3> QED BY <3>1, <3>2
  <2> QED BY <2>1, <2>2
<1>6. a \in 0 .. Len(s) /\ b \in 1 .. Len(s) + 1 /\ a < b /\ a <= i /\ i < b
  BY <1>3, <1>4
<1>7. (a > 0 => s[a] \in Z) /\ (b <= Len(s) => s[b] \in Z)
  BY <1>3, <1>4
<1>8. IsPart(s, Z, a, b)
  BY <1>5, <1>6, <1>7 DEF IsPart
<1>9. <<a, b>> \in Parts(s, Z)
  BY <1>8, PartPlaces
<1> HIDE DEF a
<1>10. <<a, b>>[1] = a /\ <<a, b>>[2] = b
  OBVIOUS
<1> QED BY <1>6, <1>9, <1>10

\* Some of the parts, those of them that have ended
Ended(F, i) == {p \in F : p[2] <= i}

\* Parts are finitely many, and one ends where the text or a separator does.
LEMMA EndedGrow ==
  ASSUME NEW s, NEW Z, Len(s) \in Nat, NEW F \in SUBSET Parts(s, Z),
         NEW i \in 0 .. Len(s), NEW p \in Parts(s, Z), p[1] <= i, i < p[2]
  PROVE  /\ p \notin Ended(F, i)
         /\ Ended(F, i + 1) = Ended(F, i) \cup (IF p \in F /\ p[2] = i + 1 THEN {p} ELSE {})
<1>1. \A q \in F : q \in Parts(s, Z)
  OBVIOUS
<1>2. p[2] \in 1 .. Len(s) + 1 /\ p[1] \in 0 .. Len(s)
  BY PartsApart
<1>3. p \notin Ended(F, i)
  BY <1>2 DEF Ended
<1>4. ASSUME NEW q \in F
      PROVE  q[2] <= i + 1 <=> q[2] <= i \/ (p[2] = i + 1 /\ q = p)
  <2>1. q[2] \in 1 .. Len(s) + 1
    BY <1>1, PartsApart
  <2>2. q[2] = i + 1 => p[2] = i + 1 /\ q = p
    <3>1. ASSUME q[2] = i + 1
          PROVE  p = q
      <4>1. /\ q[1] \in 0 .. Len(s) /\ q[1] < q[2]
            /\ (p[1] < q[1] => p[2] <= q[1]) /\ (q[1] < p[1] => q[2] <= p[1])
            /\ (p[1] = q[1] => p = q)
        BY <1>1, PartsApart
      <4>2. p[1] = q[1]
        BY <1>2, <3>1, <4>1
      <4> QED BY <4>1, <4>2
    <3> QED BY <3>1
  <2> QED BY <1>2, <2>1, <2>2
<1> QED BY <1>3, <1>4 DEF Ended

\* How many parts have ended
LEMMA EndedCount ==
  ASSUME NEW s, NEW Z, Len(s) \in Nat, NEW F \in SUBSET Parts(s, Z)
  PROVE  /\ Ended(F, 0) = {} /\ Ended(F, Len(s) + 1) = F
         /\ \A i \in 0 .. Len(s) + 1 : IsFiniteSet(Ended(F, i)) /\ Cardinality(Ended(F, i)) \in Nat
<1>1. \A q \in F : q[2] \in 1 .. Len(s) + 1
  BY PartsApart
<1>2. Ended(F, 0) = {} /\ Ended(F, Len(s) + 1) = F
  BY <1>1 DEF Ended
<1> DEFINE P == {i \in 0 .. Len(s) + 1 : IsFiniteSet(Ended(F, i))}
<1>3. 0 \in P
  BY <1>2, FS_EmptySet
<1>4. ASSUME NEW i \in 0 .. Len(s) + 1 - 1, i \in P
      PROVE  i + 1 \in P
  <2>1. i \in 0 .. Len(s) /\ i + 1 \in 0 .. Len(s) + 1
    OBVIOUS
  <2>2. PICK p \in Parts(s, Z) : p[1] <= i /\ i < p[2]
    BY <2>1, PartAt
  <2>3. Ended(F, i + 1) = Ended(F, i) \cup (IF p \in F /\ p[2] = i + 1 THEN {p} ELSE {})
    BY <2>1, <2>2, EndedGrow
  <2>4. IsFiniteSet(Ended(F, i)) /\ IsFiniteSet({p})
    BY <1>4, FS_Singleton
  <2>5. IsFiniteSet(Ended(F, i) \cup {p})
    BY <2>4, FS_Union
  <2>6. Ended(F, i + 1) = Ended(F, i) \/ Ended(F, i + 1) = Ended(F, i) \cup {p}
    BY <2>3
  <2> QED BY <2>1, <2>4, <2>5, <2>6
<1>5. Len(s) + 1 \in Nat
  OBVIOUS
<1> HIDE DEF P
<1>6. \A i \in 0 .. Len(s) + 1 : i \in P
  BY <1>3, <1>4, <1>5, UpTo
<1> QED BY <1>2, <1>6, FS_CardinalityType DEF P

\* As many parts stand before the one at a place as have ended there.
LEMMA BeforeIsEnded ==
  ASSUME NEW s, NEW Z, Len(s) \in Nat, NEW F \in SUBSET Parts(s, Z),
         NEW i \in 0 .. Len(s), NEW p \in Parts(s, Z), p[1] <= i, i < p[2]
  PROVE  Before(p, F) = Cardinality(Ended(F, i)) /\ Before(p, F) \in Nat
<1>1. ASSUME NEW q \in F
      PROVE  q[1] < p[1] <=> q[2] <= i
  <2>1. q \in Parts(s, Z)
    OBVIOUS
  <2>2. /\ p[1] \in 0 .. Len(s) /\ p[2] \in 1 .. Len(s) + 1
        /\ q[1] \in 0 .. Len(s) /\ q[2] \in 1 .. Len(s) + 1 /\ q[1] < q[2]
        /\ (q[1] < p[1] => q[2] <= p[1]) /\ (p[1] < q[1] => p[2] <= q[1])
        /\ (p[1] = q[1] => p = q)
    BY <2>1, PartsApart
  <2>3. CASE q[1] < p[1]
    BY <2>2, <2>3
  <2>4. CASE p[1] < q[1]
    BY <2>2, <2>4
  <2>5. CASE p[1] = q[1]
    BY <2>2, <2>5
  <2> QED BY <2>2, <2>3, <2>4, <2>5
<1>2. {q \in F : q[1] < p[1]} = Ended(F, i)
  BY <1>1 DEF Ended
<1>3. i \in 0 .. Len(s) + 1
  OBVIOUS
<1>4. Cardinality(Ended(F, i)) \in Nat
  BY <1>3, EndedCount
<1>5. Before(p, F) = Cardinality(Ended(F, i))
  BY <1>2 DEF Before
<1> QED BY <1>4, <1>5

\* So does the rank of a part.
LEMMA RankIsNumber ==
  ASSUME NEW s, NEW Z, Len(s) \in Nat, NEW F \in SUBSET Parts(s, Z), NEW p \in Parts(s, Z)
  PROVE  Before(p, F) = Cardinality(Ended(F, p[1])) /\ Before(p, F) \in Nat
<1>1. p[1] \in 0 .. Len(s) /\ p[2] \in 1 .. Len(s) + 1 /\ p[1] < p[2]
  BY PartsApart
<1>2. PICK i : i = p[1]
  OBVIOUS
<1>3. i \in 0 .. Len(s) /\ p[1] <= i /\ i < p[2]
  BY <1>1, <1>2
<1> QED BY <1>2, <1>3, BeforeIsEnded

\* A part that ends makes one more.
LEMMA NextBefore ==
  ASSUME NEW s, NEW Z, Len(s) \in Nat, NEW F \in SUBSET Parts(s, Z),
         NEW i \in 0 .. Len(s), NEW p \in Parts(s, Z), p[1] <= i, p[2] = i + 1
  PROVE  Cardinality(Ended(F, i + 1)) = Before(p, F) + IF p \in F THEN 1 ELSE 0
<1>1. i < p[2] /\ i \in 0 .. Len(s) + 1
  OBVIOUS
<1>2. Before(p, F) = Cardinality(Ended(F, i)) /\ Before(p, F) \in Nat
  BY <1>1, BeforeIsEnded
<1>3. IsFiniteSet(Ended(F, i))
  BY <1>1, EndedCount
<1>4. /\ p \notin Ended(F, i)
      /\ Ended(F, i + 1) = Ended(F, i) \cup (IF p \in F THEN {p} ELSE {})
  BY <1>1, EndedGrow
<1>5. CASE p \in F
  <2>1. Cardinality(Ended(F, i) \cup {p}) = Cardinality(Ended(F, i)) + 1
    BY <1>3, <1>4, FS_AddElement
  <2> QED BY <1>2, <1>4, <1>5, <2>1
<1>6. CASE p \notin F
  <2>1. Ended(F, i + 1) = Ended(F, i)
    BY <1>4, <1>6
  <2> QED BY <1>2, <1>6, <2>1
<1> QED BY <1>5, <1>6

\* A part behind another has a higher rank.
LEMMA BeforeGrows ==
  ASSUME NEW s, NEW Z, Len(s) \in Nat, NEW F \in SUBSET Parts(s, Z),
         NEW p \in F, NEW q \in Parts(s, Z), p[1] < q[1]
  PROVE  Before(p, F) < Before(q, F)
<1>1. /\ p \in Parts(s, Z) /\ q \in Parts(s, Z)
      /\ p[1] \in 0 .. Len(s) /\ p[2] \in 1 .. Len(s) + 1 /\ p[1] < p[2] /\ p[2] <= q[1]
      /\ q[1] \in 0 .. Len(s) /\ q[2] \in 1 .. Len(s) + 1 /\ q[1] < q[2]
  BY PartsApart
<1> DEFINE i == p[2] - 1
<1>2. i \in 0 .. Len(s) /\ p[1] <= i /\ p[2] = i + 1
  BY <1>1
<1>3. Cardinality(Ended(F, i + 1)) = Before(p, F) + 1
  BY <1>1, <1>2, NextBefore
<1> HIDE DEF i
<1>4. Before(q, F) = Cardinality(Ended(F, q[1])) /\ Before(q, F) \in Nat
  BY <1>1, RankIsNumber
<1>5. Before(p, F) \in Nat
  BY <1>1, RankIsNumber
<1>6. Ended(F, i + 1) \subseteq Ended(F, q[1])
  <2>1. \A r \in F : r[2] \in 1 .. Len(s) + 1
    BY PartsApart
  <2> QED BY <1>1, <1>2, <2>1 DEF Ended
<1>7. IsFiniteSet(Ended(F, q[1]))
  <2>1. q[1] \in 0 .. Len(s) + 1
    BY <1>1
  <2> QED BY <2>1, EndedCount
<1>8. Cardinality(Ended(F, i + 1)) <= Cardinality(Ended(F, q[1]))
  BY <1>6, <1>7, FS_Subset
<1> QED BY <1>3, <1>4, <1>5, <1>8

\* A place is in one part only.
LEMMA PartIsOne ==
  ASSUME NEW s, NEW Z, Len(s) \in Nat, NEW i \in 0 .. Len(s),
         NEW p \in Parts(s, Z), NEW q \in Parts(s, Z), p[1] <= i, i < p[2], q[1] <= i, i < q[2]
  PROVE  p = q
<1>1. /\ p[1] \in 0 .. Len(s) /\ q[1] \in 0 .. Len(s)
      /\ p[2] \in 1 .. Len(s) + 1 /\ q[2] \in 1 .. Len(s) + 1
      /\ p[1] < q[1] => p[2] <= q[1]
      /\ q[1] < p[1] => q[2] <= p[1]
      /\ p[1] = q[1] => p = q
  BY PartsApart
<1> QED BY <1>1

\* The next place is in the same part, or a separator ends it and the next begins.
LEMMA PlaceMoves ==
  ASSUME NEW s, NEW Z, Len(s) \in Nat,
         NEW i \in 0 .. Len(s) - 1, NEW p \in Parts(s, Z), p[1] <= i, i < p[2]
  PROVE  /\ s[i + 1] \notin Z => i + 1 < p[2]
         /\ s[i + 1] \in Z =>
              p[2] = i + 1 /\ \E q \in Parts(s, Z) : q[1] = i + 1 /\ i + 1 < q[2]
<1>1. IsPart(s, Z, p[1], p[2])
  BY PartPlaces
<1>2. PICK a, b : a = p[1] /\ b = p[2] /\ IsPart(s, Z, a, b) /\ a <= i /\ i < b
  BY <1>1
<1>3. /\ a \in 0 .. Len(s) /\ b \in 1 .. Len(s) + 1
      /\ b <= Len(s) => s[b] \in Z
      /\ \A k \in 1 .. Len(s) : a < k /\ k < b => s[k] \notin Z
  BY <1>2 DEF IsPart
<1>4. s[i + 1] \notin Z => i + 1 < b
  <2>1. ASSUME ~(i + 1 < b)
        PROVE  s[i + 1] \in Z
    <3>1. b = i + 1 /\ b <= Len(s)
      BY <1>2, <1>3, <2>1
    <3> QED BY <1>3, <3>1
  <2> QED BY <2>1
<1>5. s[i + 1] \in Z => b = i + 1
  <2>1. ASSUME b # i + 1
        PROVE  s[i + 1] \notin Z
    <3>1. i + 1 \in 1 .. Len(s) /\ a < i + 1 /\ i + 1 < b
      BY <1>2, <1>3, <2>1
    <3> QED BY <1>3, <3>1
  <2> QED BY <2>1
<1>6. ASSUME s[i + 1] \in Z
      PROVE  \E q \in Parts(s, Z) : q[1] = i + 1 /\ i + 1 < q[2]
  <2>1. i + 1 \in 0 .. Len(s) /\ i \in 0 .. Len(s)
    OBVIOUS
  <2>2. PICK q \in Parts(s, Z) : q[1] <= i + 1 /\ i + 1 < q[2]
    BY <2>1, PartAt
  <2>3. p[2] = i + 1
    BY <1>2, <1>5, <1>6
  <2>4. q[1] = i + 1
    <3>1. q[1] \in 0 .. Len(s)
      BY PartsApart
    <3>2. ASSUME q[1] <= i
          PROVE  FALSE
      <4>1. i < q[2]
        <5>1. q[2] \in 1 .. Len(s) + 1
          BY PartsApart
        <5> QED BY <2>2, <5>1
      <4>2. p = q
        BY <2>1, <3>2, <4>1, PartIsOne
      <4> QED BY <2>2, <2>3, <4>2
    <3> QED BY <2>2, <3>1, <3>2
  <2> QED BY <2>2, <2>4
<1> QED BY <1>2, <1>4, <1>5, <1>6

\* As many parts of F are before the next part as are before this, and itself.
LEMMA PlaceGrows ==
  ASSUME NEW s, NEW Z, Len(s) \in Nat, NEW F \in SUBSET Parts(s, Z),
         NEW i \in 0 .. Len(s) - 1, NEW p \in Parts(s, Z), p[1] <= i, i < p[2]
  PROVE  /\ s[i + 1] \notin Z => i + 1 < p[2]
         /\ s[i + 1] \in Z =>
              /\ p[2] = i + 1
              /\ \E q \in Parts(s, Z) :
                   /\ q[1] = i + 1 /\ i + 1 < q[2]
                   /\ Before(q, F) = Before(p, F) + IF p \in F THEN 1 ELSE 0
<1>1. CASE s[i + 1] \in Z
  <2>1. PICK q \in Parts(s, Z) : q[1] = i + 1 /\ i + 1 < q[2]
    BY <1>1, PlaceMoves
  <2>2. p[2] = i + 1
    BY <1>1, PlaceMoves
  <2>3. i + 1 \in 0 .. Len(s) /\ i \in 0 .. Len(s) /\ q[1] <= i + 1
    BY <2>1
  <2>4. Before(q, F) = Cardinality(Ended(F, i + 1))
    BY <2>1, <2>3, BeforeIsEnded
  <2>5. Cardinality(Ended(F, i + 1)) = Before(p, F) + IF p \in F THEN 1 ELSE 0
    BY <2>2, <2>3, NextBefore
  <2> QED BY <1>1, <2>1, <2>2, <2>4, <2>5
<1>2. CASE s[i + 1] \notin Z
  BY <1>2, PlaceMoves
<1> QED BY <1>1, <1>2

\* The rank of a part is less than their number, and one less for the last.
LEMMA RankIsBelow ==
  ASSUME NEW s, NEW Z, Len(s) \in Nat, NEW F \in SUBSET Parts(s, Z), NEW p \in F
  PROVE  /\ Before(p, F) < Cardinality(F)
         /\ p[2] = Len(s) + 1 => Cardinality(F) = Before(p, F) + 1
<1>1. p \in Parts(s, Z) /\ p[1] \in 0 .. Len(s) /\ p[2] \in 1 .. Len(s) + 1 /\ p[1] < p[2]
  BY PartsApart
<1>2. PICK i : i = p[2] - 1
  OBVIOUS
<1>3. i \in 0 .. Len(s) /\ p[1] <= i /\ p[2] = i + 1 /\ i + 1 \in 0 .. Len(s) + 1
  BY <1>1, <1>2
<1>4. Cardinality(Ended(F, i + 1)) = Before(p, F) + 1
  BY <1>1, <1>3, NextBefore
<1>5. Before(p, F) \in Nat
  BY <1>1, RankIsNumber
<1>6. Len(s) + 1 \in 0 .. Len(s) + 1
  OBVIOUS
<1>7. Ended(F, Len(s) + 1) = F /\ IsFiniteSet(Ended(F, Len(s) + 1))
  BY <1>6, EndedCount
<1>8. Ended(F, i + 1) \subseteq F
  BY DEF Ended
<1>9. Cardinality(Ended(F, i + 1)) <= Cardinality(F) /\ Cardinality(F) \in Nat
  BY <1>7, <1>8, FS_Subset, FS_CardinalityType
<1>10. p[2] = Len(s) + 1 => Ended(F, i + 1) = F
  <2>1. p[2] = Len(s) + 1 => i + 1 = Len(s) + 1
    BY <1>3
  <2> QED BY <1>7, <2>1
<1> QED BY <1>4, <1>5, <1>9, <1>10

\* Each number below the count is the rank of one part, which Nth finds.
LEMMA NthPart ==
  ASSUME NEW s, NEW Z, Len(s) \in Nat, NEW F \in SUBSET Parts(s, Z)
  PROVE  /\ \A p \in F : Before(p, F) \in Nat /\ Nth(Before(p, F), F) = p
         /\ \A n \in 0 .. Cardinality(F) - 1 : Nth(n, F) \in F /\ Before(Nth(n, F), F) = n
<1>1. ASSUME NEW p \in F, NEW q \in F, p[1] < q[1]
      PROVE  Before(p, F) < Before(q, F)
  <2>1. q \in Parts(s, Z)
    OBVIOUS
  <2> QED BY <1>1, <2>1, BeforeGrows
<1>2. ASSUME NEW p \in F, NEW q \in F, Before(p, F) = Before(q, F)
      PROVE  p = q
  <2>1. /\ p \in Parts(s, Z) /\ q \in Parts(s, Z) /\ p[1] \in 0 .. Len(s) /\ q[1] \in 0 .. Len(s)
        /\ (p[1] = q[1] => p = q) /\ p[1] < p[2] /\ q[1] < q[2]
    BY PartsApart
  <2>2. Before(p, F) \in Nat
    BY <2>1, RankIsNumber
  <2>3. ~(p[1] < q[1]) /\ ~(q[1] < p[1])
    BY <1>1, <1>2, <2>2
  <2> QED BY <2>1, <2>3
<1>3. ASSUME NEW p \in F
      PROVE  Before(p, F) \in Nat /\ Nth(Before(p, F), F) = p
  <2>1. p \in Parts(s, Z) /\ p[1] \in 0 .. Len(s) /\ p[1] < p[2]
    BY PartsApart
  <2>2. Before(p, F) \in Nat
    BY <2>1, RankIsNumber
  <2> DEFINE n == Nth(Before(p, F), F)
  <2>3. n \in F /\ Before(n, F) = Before(p, F)
    BY DEF Nth
  <2> QED BY <1>2, <2>2, <2>3
<1> DEFINE P == {i \in 0 .. Len(s) + 1 :
                   \A n \in Nat : n < Cardinality(Ended(F, i)) => \E p \in F : Before(p, F) = n}
<1>4. 0 \in P
  BY EndedCount, FS_EmptySet
<1>5. ASSUME NEW i \in 0 .. Len(s) + 1 - 1, i \in P
      PROVE  i + 1 \in P
  <2>1. i \in 0 .. Len(s) /\ i + 1 \in 0 .. Len(s) + 1 /\ i \in 0 .. Len(s) + 1
    OBVIOUS
  <2>2. PICK p \in Parts(s, Z) : p[1] <= i /\ i < p[2]
    BY <2>1, PartAt
  <2>3. Cardinality(Ended(F, i)) \in Nat /\ Before(p, F) = Cardinality(Ended(F, i))
    BY <2>1, <2>2, BeforeIsEnded
  <2>4. CASE p \in F /\ p[2] = i + 1
    <3>1. Cardinality(Ended(F, i + 1)) = Cardinality(Ended(F, i)) + 1
      BY <2>1, <2>2, <2>3, <2>4, NextBefore
    <3>2. ASSUME NEW n \in Nat, n < Cardinality(Ended(F, i + 1))
          PROVE  \E q \in F : Before(q, F) = n
      <4>1. n < Cardinality(Ended(F, i)) \/ n = Before(p, F)
        BY <2>3, <3>1, <3>2
      <4> QED BY <1>5, <2>4, <4>1
    <3> QED BY <2>1, <3>2
  <2>5. CASE ~(p \in F /\ p[2] = i + 1)
    <3>1. Ended(F, i + 1) = Ended(F, i)
      <4>1. Ended(F, i + 1) = Ended(F, i) \cup (IF p \in F /\ p[2] = i + 1 THEN {p} ELSE {})
        BY <2>1, <2>2, EndedGrow
      <4> QED BY <2>5, <4>1
    <3> QED BY <1>5, <2>1, <3>1
  <2> QED BY <2>4, <2>5
<1>6. Len(s) + 1 \in P
  <2>1. Len(s) + 1 \in Nat /\ Len(s) + 1 \in 0 .. Len(s) + 1
    OBVIOUS
  <2> HIDE DEF P
  <2> QED BY <1>4, <1>5, <2>1, UpTo
<1>7. ASSUME NEW n \in 0 .. Cardinality(F) - 1
      PROVE  Nth(n, F) \in F /\ Before(Nth(n, F), F) = n
  <2>1. Cardinality(F) \in Nat /\ Ended(F, Len(s) + 1) = F
    <3>1. Len(s) + 1 \in 0 .. Len(s) + 1
      OBVIOUS
    <3> QED BY <3>1, EndedCount
  <2>2. n \in Nat /\ n < Cardinality(F)
    BY <2>1
  <2>3. \E p \in F : Before(p, F) = n
    BY <1>6, <2>1, <2>2
  <2> QED BY <2>3 DEF Nth
<1> QED BY <1>3, <1>7

-----------------------------------------------------------------------------
(* What digits are worth                                                   *)

\* A digit is worth a number.
LEMMA DigitIsNumber ==
  ASSUME NEW d \in Digits
  PROVE  DigitValue[d] \in Nat
<1>1. DigitValue \in [Digits -> 0 .. 9]
  BY InputsAssumption
<1>2. DigitValue[d] \in 0 .. 9
  BY <1>1
<1> QED BY <1>2

\* Number adds up the digits, the last one last.
LEMMA NumberSteps ==
  ASSUME NEW s \in Seq(Digits)
  PROVE  \E f \in [0 .. Len(s) -> Nat] :
           /\ f[0] = 0 /\ \A i \in 1 .. Len(s) : f[i] = f[i - 1] * 10 + DigitValue[s[i]]
           /\ Number(s) = f[Len(s)]
<1> DEFINE m == Len(s)
           step == [x \in Nat \X (1 .. m) |-> x[1] * 10 + DigitValue[s[x[2]]]]
           Equation(g) == g = [i \in 0 .. m |-> IF i = 0 THEN 0 ELSE g[i - 1] * 10 + DigitValue[s[i]]]
           value == CHOOSE g : Equation(g)
<1>1. m \in Nat /\ \A i \in 1 .. m : s[i] \in Digits
  BY LenProperties, ElementOfSeq
<1>2. \A d \in Digits : DigitValue[d] \in Nat
  BY DigitIsNumber
<1>3. step \in [Nat \X (1 .. m) -> Nat]
  <2>1. ASSUME NEW x \in Nat \X (1 .. m)
        PROVE  x[1] * 10 + DigitValue[s[x[2]]] \in Nat
    <3>1. x[1] \in Nat /\ x[2] \in 1 .. m
      OBVIOUS
    <3>2. DigitValue[s[x[2]]] \in Nat
      BY <1>1, <1>2, <3>1
    <3> QED BY <3>1, <3>2
  <2> QED BY <2>1
<1>4. PICK f \in [0 .. m -> Nat] : f[0] = 0 /\ \A i \in 1 .. m : f[i] = step[<<f[i - 1], i>>]
  <2>1. 0 \in Nat
    OBVIOUS
  <2> HIDE DEF step, m
  <2>2. \E f \in [0 .. m -> Nat] : Folds(f, m, 0, step)
    BY <1>1, <1>3, <2>1, FoldExists
  <2> QED BY <2>2 DEF Folds
<1>5. \A i \in 1 .. m : f[i] = f[i - 1] * 10 + DigitValue[s[i]]
  <2>1. ASSUME NEW i \in 1 .. m
        PROVE  f[i] = f[i - 1] * 10 + DigitValue[s[i]]
    <3>1. f[i - 1] \in Nat /\ i \in 1 .. m
      OBVIOUS
    <3>2. step[<<f[i - 1], i>>] = f[i - 1] * 10 + DigitValue[s[i]]
      BY <3>1
    <3> QED BY <1>4, <3>2
  <2> QED BY <2>1
<1> HIDE DEF step
<1>6. Equation(f)
  <2>1. f = [i \in 0 .. m |-> f[i]]
    OBVIOUS
  <2>2. ASSUME NEW i \in 0 .. m
        PROVE  f[i] = IF i = 0 THEN 0 ELSE f[i - 1] * 10 + DigitValue[s[i]]
    <3>1. i = 0 \/ i \in 1 .. m
      OBVIOUS
    <3> QED BY <1>4, <1>5, <3>1
  <2> HIDE DEF m
  <2> QED BY <2>1, <2>2
<1>7. Equation(value)
  <2> HIDE DEF Equation
  <2> QED BY <1>6, Zenon
<1>8. Number(s) = value[m]
  BY Zenon DEF Number
<1> HIDE DEF value
<1>9. value[m] = f[m]
  <2> DEFINE P == {i \in 0 .. m : value[i] = f[i]}
  <2>1. 0 \in P
    BY <1>1, <1>4, <1>7
  <2>2. ASSUME NEW i \in 0 .. m - 1, i \in P
        PROVE  i + 1 \in P
    <3>1. i + 1 \in 1 .. m /\ i + 1 \in 0 .. m /\ i + 1 # 0 /\ i + 1 - 1 = i
      BY <1>1
    <3>2. value[i + 1] = value[i] * 10 + DigitValue[s[i + 1]]
      BY <1>7, <3>1
    <3>3. f[i + 1] = f[i] * 10 + DigitValue[s[i + 1]]
      BY <1>5, <3>1
    <3> QED BY <2>2, <3>1, <3>2, <3>3
  <2>3. m \in Nat /\ m \in 0 .. m
    BY <1>1
  <2> HIDE DEF P, m
  <2>4. \A i \in 0 .. m : i \in P
    BY <2>1, <2>2, <2>3, UpTo
  <2> QED BY <2>3, <2>4 DEF P
<1> QED BY <1>4, <1>5, <1>8, <1>9

\* One digit more, and none
LEMMA NumberAppend ==
  ASSUME NEW s \in Seq(Digits), NEW d \in Digits
  PROVE  /\ Number(s) \in Nat /\ Number(<<>>) = 0 /\ DigitValue[d] \in Nat
         /\ Number(Append(s, d)) = Number(s) * 10 + DigitValue[d]
         /\ Number(s) <= Number(Append(s, d))
<1> DEFINE t == Append(s, d)
           m == Len(s)
<1>1. t \in Seq(Digits) /\ m \in Nat /\ Len(t) = m + 1 /\ t[m + 1] = d /\ \A i \in 1 .. m : t[i] = s[i]
  BY AppendProperties, LenProperties
<1> HIDE DEF t
<1>2. PICK f \in [0 .. m -> Nat] :
           /\ f[0] = 0 /\ \A i \in 1 .. m : f[i] = f[i - 1] * 10 + DigitValue[s[i]]
           /\ Number(s) = f[m]
  BY NumberSteps
<1>3. PICK g \in [0 .. m + 1 -> Nat] :
           /\ g[0] = 0 /\ \A i \in 1 .. m + 1 : g[i] = g[i - 1] * 10 + DigitValue[t[i]]
           /\ Number(t) = g[m + 1]
  <2>1. PICK g \in [0 .. Len(t) -> Nat] :
           /\ g[0] = 0 /\ \A i \in 1 .. Len(t) : g[i] = g[i - 1] * 10 + DigitValue[t[i]]
           /\ Number(t) = g[Len(t)]
    BY <1>1, NumberSteps
  <2> QED BY <1>1, <2>1
<1>4. g[m] = f[m]
  <2> DEFINE P == {i \in 0 .. m : g[i] = f[i]}
  <2>1. 0 \in P
    BY <1>1, <1>2, <1>3
  <2>2. ASSUME NEW i \in 0 .. m - 1, i \in P
        PROVE  i + 1 \in P
    <3>1. i + 1 \in 1 .. m /\ i + 1 \in 1 .. m + 1 /\ i + 1 \in 0 .. m /\ i + 1 - 1 = i
      BY <1>1
    <3>2. g[i + 1] = g[i] * 10 + DigitValue[s[i + 1]]
      BY <1>1, <1>3, <3>1
    <3>3. f[i + 1] = f[i] * 10 + DigitValue[s[i + 1]]
      BY <1>2, <3>1
    <3> QED BY <2>2, <3>1, <3>2, <3>3
  <2>3. m \in Nat /\ m \in 0 .. m
    BY <1>1
  <2> HIDE DEF P, m
  <2>4. \A i \in 0 .. m : i \in P
    BY <2>1, <2>2, <2>3, UpTo
  <2> QED BY <2>3, <2>4 DEF P
<1>5. g[m + 1] = g[m] * 10 + DigitValue[d]
  <2>1. m + 1 \in 1 .. m + 1 /\ m + 1 - 1 = m
    BY <1>1
  <2> QED BY <1>1, <1>3, <2>1
<1>6. f[m] \in Nat
  BY <1>1, <1>2
<1>7. DigitValue[d] \in Nat
  BY DigitIsNumber
<1>8. Number(<<>>) = 0
  <2>1. <<>> \in Seq(Digits) /\ Len(<<>>) = 0
    OBVIOUS
  <2> QED BY <2>1, NumberSteps
<1>9. Number(t) = Number(s) * 10 + DigitValue[d]
  BY <1>2, <1>3, <1>4, <1>5
<1>10. Number(s) \in Nat
  BY <1>2, <1>6
<1>11. Number(s) <= Number(s) * 10 + DigitValue[d]
  BY <1>7, <1>10
<1> QED BY <1>7, <1>8, <1>9, <1>10, <1>11 DEF t

\* What stands in a text up to a place, and one character more
LEMMA Longer ==
  ASSUME NEW S, NEW s \in Seq(S), NEW a \in 0 .. Len(s), NEW i \in a .. Len(s)
  PROVE  /\ SubSeq(s, a + 1, i) \in Seq(S) /\ Len(SubSeq(s, a + 1, i)) = i - a
         /\ \A k \in 1 .. i - a : SubSeq(s, a + 1, i)[k] = s[a + k]
         /\ i = a => SubSeq(s, a + 1, i) = <<>>
         /\ i < Len(s) => SubSeq(s, a + 1, i + 1) = Append(SubSeq(s, a + 1, i), s[i + 1])
<1>1. Len(s) \in Nat /\ \A k \in 1 .. Len(s) : s[k] \in S
  BY LenProperties, ElementOfSeq
<1>2. ASSUME NEW j \in a .. Len(s)
      PROVE  /\ SubSeq(s, a + 1, j) \in Seq(S) /\ Len(SubSeq(s, a + 1, j)) = j - a
             /\ \A k \in 1 .. j - a : SubSeq(s, a + 1, j)[k] = s[a + k]
  <2>1. a + 1 \in Int /\ j \in Int /\ \A k \in a + 1 .. j : s[k] \in S
    BY <1>1
  <2>2. /\ SubSeq(s, a + 1, j) \in Seq(S)
        /\ Len(SubSeq(s, a + 1, j)) = IF a + 1 <= j THEN j - (a + 1) + 1 ELSE 0
        /\ \A k \in 1 .. j - (a + 1) + 1 : SubSeq(s, a + 1, j)[k] = s[a + 1 + k - 1]
    BY <2>1, SubSeqProperties
  <2>3. (IF a + 1 <= j THEN j - (a + 1) + 1 ELSE 0) = j - a
    BY <1>1
  <2>4. \A k \in 1 .. j - a : SubSeq(s, a + 1, j)[k] = s[a + k]
    <3>1. ASSUME NEW k \in 1 .. j - a
          PROVE  SubSeq(s, a + 1, j)[k] = s[a + k]
      <4>1. k \in 1 .. j - (a + 1) + 1 /\ a + 1 + k - 1 = a + k
        BY <1>1
      <4> QED BY <2>2, <4>1
    <3> QED BY <3>1
  <2> QED BY <2>2, <2>3, <2>4
<1>3. i = a => SubSeq(s, a + 1, i) = <<>>
  <2>1. a + 1 \in Int /\ a \in Int /\ a < a + 1
    OBVIOUS
  <2> QED BY <2>1, SubSeqEmpty
<1>4. ASSUME i < Len(s)
      PROVE  SubSeq(s, a + 1, i + 1) = Append(SubSeq(s, a + 1, i), s[i + 1])
  <2>1. a + 1 \in 1 .. Len(s) /\ i + 1 \in a + 1 .. Len(s) /\ i + 1 - 1 = i /\ s[i + 1] \in S
    BY <1>1, <1>4
  <2>2. SubSeq(s, a + 1, i + 1) = SubSeq(s, a + 1, i + 1 - 1) \o <<s[i + 1]>>
    BY <2>1, SubSeqRecursiveSecond
  <2>3. SubSeq(s, a + 1, i) \o <<s[i + 1]>> = Append(SubSeq(s, a + 1, i), s[i + 1])
    <3>1. SubSeq(s, a + 1, i) \in Seq(S)
      BY <1>2
    <3> HIDE <1>2
    <3> QED BY <2>1, <3>1, AppendIsConcat
  <2> QED BY <2>1, <2>2, <2>3
<1> QED BY <1>2, <1>3, <1>4


-----------------------------------------------------------------------------
(* How a target is read                                                    *)

\* What the constants are
LEMMA Widths ==
  /\ Octets \in Nat /\ Octets # 0 /\ OctetBits \in Nat /\ OctetBits # 0
  /\ OctetDigits \in Nat /\ TargetSize \in Nat /\ MaxOctet \in Nat
  /\ WordSize \in Nat /\ WordSize # 0 /\ Bits \in Nat /\ Bits < WordSize
<1>1. {Octets, OctetBits, OctetDigits, TargetSize} \subseteq Nat \ {0}
  BY InputsAssumption
<1>2. MaxOctet \in Nat /\ WordSize \in Nat /\ WordSize > Bits
  BY InputsAssumption
<1>3. Octets \in Nat /\ Octets # 0 /\ OctetBits \in Nat /\ OctetBits # 0
  BY <1>1
<1>4. OctetDigits \in Nat /\ TargetSize \in Nat
  BY <1>1
<1>5. Bits \in Nat
  BY <1>3 DEF Bits
<1>6. WordSize # 0 /\ Bits < WordSize
  BY <1>2, <1>5
<1> QED BY <1>2, <1>3, <1>4, <1>5, <1>6

\* The other characters are no digits.
LEMMA NoDigits ==
  "." \notin Digits /\ "/" \notin Digits /\ "a" \notin Digits /\ "_" \notin Digits
<1>1. Digits \cap {"a", "_", ".", "/"} = {}
  BY InputsAssumption
<1> QED BY <1>1

\* What the reading of a target is at between two characters
Readings == [octets : Seq(Nat), value : Nat, digits : Nat, prefix : Nat, ok : BOOLEAN]

\* What OctetEnds makes of a reading
LEMMA OctetIsEnded ==
  ASSUME NEW r \in Readings
  PROVE  OctetEnds(r) = [octets |-> Append(r.octets, r.value), value |-> 0, digits |-> 0,
                         prefix |-> r.prefix, ok |-> r.digits > 0]
<1>1. OctetEnds(r) = [r EXCEPT !.octets = Append(r.octets, r.value), !.value = 0,
                               !.digits = 0, !.ok = r.digits > 0]
  BY DEF OctetEnds
<1>2. PICK a, b : a = Append(r.octets, r.value) /\ b = (r.digits > 0)
  OBVIOUS
<1>3. PICK o, v0, d, p, k : r = [octets |-> o, value |-> v0, digits |-> d, prefix |-> p, ok |-> k]
  BY DEF Readings
<1>4. PICK r1 : r1 = [r EXCEPT !.octets = a]
  OBVIOUS
<1>5. r1 = [octets |-> a, value |-> v0, digits |-> d, prefix |-> p, ok |-> k]
  BY <1>3, <1>4
<1>6. PICK r2 : r2 = [r1 EXCEPT !.value = 0]
  OBVIOUS
<1>7. r2 = [octets |-> a, value |-> 0, digits |-> d, prefix |-> p, ok |-> k]
  BY <1>5, <1>6
<1>8. PICK r3 : r3 = [r2 EXCEPT !.digits = 0]
  OBVIOUS
<1>9. r3 = [octets |-> a, value |-> 0, digits |-> 0, prefix |-> p, ok |-> k]
  BY <1>7, <1>8
<1>10. [r3 EXCEPT !.ok = b] = [octets |-> a, value |-> 0, digits |-> 0, prefix |-> p, ok |-> b]
  BY <1>9
<1>11. OctetEnds(r) = [r3 EXCEPT !.ok = b]
  BY <1>1, <1>2, <1>4, <1>6, <1>8
<1>12. r.prefix = p
  BY <1>3
<1> QED BY <1>2, <1>10, <1>11, <1>12

\* What CharacterRead makes of each kind of character
LEMMA CharacterKinds ==
  ASSUME NEW r \in Readings, NEW c \in TargetKeys
  PROVE  LET t == CharacterRead(r, c)
             v == r.value * 10 + DigitValue[c]
             w == (r.prefix * 10 + DigitValue[c]) % WordSize
         IN /\ ~r.ok => t = r
            /\ r.ok /\ c \in Digits /\ Len(r.octets) # Octets =>
                 t = [octets |-> r.octets, value |-> v, digits |-> r.digits + 1,
                      prefix |-> r.prefix, ok |-> r.digits + 1 <= OctetDigits /\ v <= MaxOctet]
            /\ r.ok /\ c \in Digits /\ Len(r.octets) = Octets =>
                 t = [octets |-> r.octets, value |-> r.value, digits |-> r.digits + 1,
                      prefix |-> w, ok |-> TRUE]
            /\ r.ok /\ c = "." /\ Len(r.octets) < Octets - 1 =>
                 t = [octets |-> Append(r.octets, r.value), value |-> 0, digits |-> 0,
                      prefix |-> r.prefix, ok |-> r.digits > 0]
            /\ r.ok /\ c = "/" /\ Len(r.octets) = Octets - 1 =>
                 t = [octets |-> Append(r.octets, r.value), value |-> 0, digits |-> 0,
                      prefix |-> 0, ok |-> r.digits > 0]
            /\ r.ok /\ c \notin Digits /\ ~(c = "." /\ Len(r.octets) < Octets - 1)
                 /\ ~(c = "/" /\ Len(r.octets) = Octets - 1) =>
                 t = [octets |-> r.octets, value |-> r.value, digits |-> r.digits,
                      prefix |-> r.prefix, ok |-> FALSE]
<1> DEFINE v == r.value * 10 + DigitValue[c]
           w == (r.prefix * 10 + DigitValue[c]) % WordSize
           t == CharacterRead(r, c)
<1>1. r = [octets |-> r.octets, value |-> r.value, digits |-> r.digits, prefix |-> r.prefix, ok |-> r.ok]
  BY DEF Readings
<1>2. ~r.ok => t = r
  BY DEF CharacterRead
<1>3. ASSUME r.ok, c \in Digits, Len(r.octets) # Octets
      PROVE  t = [octets |-> r.octets, value |-> v, digits |-> r.digits + 1,
                  prefix |-> r.prefix, ok |-> r.digits + 1 <= OctetDigits /\ v <= MaxOctet]
  <2>1. t = OctetTaken(r, c)
    BY <1>3, Widths, NoDigits DEF CharacterRead, AtPrefix
  <2> HIDE DEF t
  <2> QED BY <1>1, <2>1 DEF OctetTaken
<1>4. ASSUME r.ok, c \in Digits, Len(r.octets) = Octets
      PROVE  t = [octets |-> r.octets, value |-> r.value, digits |-> r.digits + 1,
                  prefix |-> w, ok |-> TRUE]
  <2>1. t = PrefixTaken(r, c)
    BY <1>4, Widths, NoDigits DEF CharacterRead, AtPrefix
  <2> HIDE DEF t
  <2> QED BY <1>1, <1>4, <2>1 DEF PrefixTaken, Readings
<1>5. OctetEnds(r) = [octets |-> Append(r.octets, r.value), value |-> 0, digits |-> 0,
                      prefix |-> r.prefix, ok |-> r.digits > 0]
  BY OctetIsEnded
<1>6. ASSUME r.ok, c = ".", Len(r.octets) < Octets - 1
      PROVE  t = OctetEnds(r)
  BY <1>6, Widths, NoDigits DEF CharacterRead
<1>7. ASSUME r.ok, c = "/", Len(r.octets) = Octets - 1
      PROVE  t = [OctetEnds(r) EXCEPT !.prefix = 0]
  BY <1>7, Widths, NoDigits DEF CharacterRead
<1>8. ASSUME r.ok, c \notin Digits, ~(c = "." /\ Len(r.octets) < Octets - 1),
             ~(c = "/" /\ Len(r.octets) = Octets - 1)
      PROVE  t = [octets |-> r.octets, value |-> r.value, digits |-> r.digits,
                  prefix |-> r.prefix, ok |-> FALSE]
  <2>1. t = [r EXCEPT !.ok = FALSE]
    BY <1>8 DEF CharacterRead
  <2> HIDE DEF t
  <2> QED BY <1>1, <2>1
<1> HIDE DEF t, v, w
<1>9. r.ok /\ c = "." /\ Len(r.octets) < Octets - 1 =>
        t = [octets |-> Append(r.octets, r.value), value |-> 0, digits |-> 0,
             prefix |-> r.prefix, ok |-> r.digits > 0]
  BY <1>5, <1>6
<1>10. r.ok /\ c = "/" /\ Len(r.octets) = Octets - 1 =>
         t = [octets |-> Append(r.octets, r.value), value |-> 0, digits |-> 0,
              prefix |-> 0, ok |-> r.digits > 0]
  BY <1>5, <1>7
<1> QED BY <1>2, <1>3, <1>4, <1>8, <1>9, <1>10 DEF t, v, w

\* It stays of its kind.
LEMMA ReadingsStay ==
  ASSUME NEW r \in Readings, NEW c \in TargetKeys
  PROVE  CharacterRead(r, c) \in Readings
<1> DEFINE t == CharacterRead(r, c)
           v == r.value * 10 + DigitValue[c]
           w == (r.prefix * 10 + DigitValue[c]) % WordSize
<1>1. PICK o, a, d, p, k :
        /\ o = r.octets /\ a = r.value /\ d = r.digits /\ p = r.prefix /\ k = r.ok
        /\ o \in Seq(Nat) /\ a \in Nat /\ d \in Nat /\ p \in Nat /\ k \in BOOLEAN
  BY DEF Readings
<1>2. \A x \in Seq(Nat), y \in Nat, z \in Nat, q \in Nat, b \in BOOLEAN :
        [octets |-> x, value |-> y, digits |-> z, prefix |-> q, ok |-> b] \in Readings
  BY DEF Readings
<1>3. Append(o, a) \in Seq(Nat) /\ 0 \in Nat /\ d + 1 \in Nat /\ (r.digits > 0) \in BOOLEAN
  BY <1>1
<1>4. c \in Digits => v \in Nat /\ w \in Nat
  <2>1. ASSUME c \in Digits
        PROVE  v \in Nat /\ w \in Nat
    <3>1. PICK n : n = DigitValue[c] /\ n \in Nat
      BY <2>1, DigitIsNumber
    <3>2. PICK m : m = WordSize /\ m \in Nat \ {0}
      BY Widths
    <3>3. p * 10 + n \in Nat /\ a * 10 + n \in Nat
      BY <1>1, <3>1
    <3>4. PICK x : x = p * 10 + n /\ x \in Nat
      BY <3>3
    <3>5. x % m \in Nat
      BY <3>2, <3>4
    <3> QED BY <1>1, <3>1, <3>2, <3>3, <3>4, <3>5
  <2> QED BY <2>1
<1> DEFINE fits == r.digits + 1 <= OctetDigits /\ v <= MaxOctet
<1>5. fits \in BOOLEAN /\ TRUE \in BOOLEAN /\ FALSE \in BOOLEAN
  OBVIOUS
<1>6. /\ ~r.ok => t = r
      /\ r.ok /\ c \in Digits /\ Len(r.octets) # Octets =>
           t = [octets |-> r.octets, value |-> v, digits |-> r.digits + 1,
                prefix |-> r.prefix, ok |-> fits]
      /\ r.ok /\ c \in Digits /\ Len(r.octets) = Octets =>
           t = [octets |-> r.octets, value |-> r.value, digits |-> r.digits + 1,
                prefix |-> w, ok |-> TRUE]
      /\ r.ok /\ c = "." /\ Len(r.octets) < Octets - 1 =>
           t = [octets |-> Append(r.octets, r.value), value |-> 0, digits |-> 0,
                prefix |-> r.prefix, ok |-> r.digits > 0]
      /\ r.ok /\ c = "/" /\ Len(r.octets) = Octets - 1 =>
           t = [octets |-> Append(r.octets, r.value), value |-> 0, digits |-> 0,
                prefix |-> 0, ok |-> r.digits > 0]
      /\ r.ok /\ c \notin Digits /\ ~(c = "." /\ Len(r.octets) < Octets - 1)
           /\ ~(c = "/" /\ Len(r.octets) = Octets - 1) =>
           t = [octets |-> r.octets, value |-> r.value, digits |-> r.digits,
                prefix |-> r.prefix, ok |-> FALSE]
  BY CharacterKinds
<1> HIDE DEF t, v, w, fits
<1>7. CASE ~r.ok
  BY <1>6, <1>7 DEF t
<1>8. CASE r.ok /\ c \in Digits /\ Len(r.octets) # Octets
  <2>1. t = [octets |-> o, value |-> v, digits |-> d + 1, prefix |-> p, ok |-> fits]
    BY <1>1, <1>6, <1>8
  <2>2. [octets |-> o, value |-> v, digits |-> d + 1, prefix |-> p, ok |-> fits] \in Readings
    BY <1>1, <1>2, <1>3, <1>4, <1>5, <1>8
  <2> QED BY <2>1, <2>2 DEF t
<1>9. CASE r.ok /\ c \in Digits /\ Len(r.octets) = Octets
  <2>1. t = [octets |-> o, value |-> a, digits |-> d + 1, prefix |-> w, ok |-> TRUE]
    BY <1>1, <1>6, <1>9
  <2>2. [octets |-> o, value |-> a, digits |-> d + 1, prefix |-> w, ok |-> TRUE] \in Readings
    BY <1>1, <1>2, <1>3, <1>4, <1>5, <1>9
  <2> QED BY <2>1, <2>2 DEF t
<1>10. CASE r.ok /\ c = "." /\ Len(r.octets) < Octets - 1
  <2>1. t = [octets |-> Append(o, a), value |-> 0, digits |-> 0, prefix |-> p, ok |-> r.digits > 0]
    BY <1>1, <1>6, <1>10
  <2>2. [octets |-> Append(o, a), value |-> 0, digits |-> 0, prefix |-> p, ok |-> r.digits > 0]
          \in Readings
    BY <1>1, <1>2, <1>3
  <2> QED BY <2>1, <2>2 DEF t
<1>11. CASE r.ok /\ c = "/" /\ Len(r.octets) = Octets - 1
  <2>1. t = [octets |-> Append(o, a), value |-> 0, digits |-> 0, prefix |-> 0, ok |-> r.digits > 0]
    BY <1>1, <1>6, <1>11
  <2>2. [octets |-> Append(o, a), value |-> 0, digits |-> 0, prefix |-> 0, ok |-> r.digits > 0]
          \in Readings
    BY <1>1, <1>2, <1>3
  <2> QED BY <2>1, <2>2 DEF t
<1>12. CASE r.ok /\ c \notin Digits /\ ~(c = "." /\ Len(r.octets) < Octets - 1)
              /\ ~(c = "/" /\ Len(r.octets) = Octets - 1)
  <2>1. t = [octets |-> o, value |-> a, digits |-> d, prefix |-> p, ok |-> FALSE]
    BY <1>1, <1>6, <1>12
  <2>2. [octets |-> o, value |-> a, digits |-> d, prefix |-> p, ok |-> FALSE] \in Readings
    BY <1>1, <1>2, <1>5
  <2> QED BY <2>1, <2>2 DEF t
<1> QED BY <1>7, <1>8, <1>9, <1>10, <1>11, <1>12 DEF t

\* A target is read a character at a time.
LEMMA TargetSteps ==
  ASSUME NEW s \in Seq(TargetKeys)
  PROVE  \E f \in [0 .. Len(s) -> Readings] :
           /\ f[0] = NothingRead /\ \A i \in 1 .. Len(s) : f[i] = CharacterRead(f[i - 1], s[i])
           /\ TargetScanned(s) = f[Len(s)]
<1> DEFINE m == Len(s)
           step == [x \in Readings \X (1 .. m) |-> CharacterRead(x[1], s[x[2]])]
           Equation(g) ==
             g = [i \in 0 .. m |-> IF i = 0 THEN NothingRead ELSE CharacterRead(g[i - 1], s[i])]
           after == CHOOSE g : Equation(g)
<1>1. m \in Nat /\ \A i \in 1 .. m : s[i] \in TargetKeys
  BY LenProperties, ElementOfSeq
<1>2. NothingRead \in Readings
  <2>1. Bits \in Nat
    BY Widths
  <2>2. <<>> \in Seq(Nat)
    OBVIOUS
  <2> QED BY <2>1, <2>2 DEF NothingRead, Readings
<1>3. step \in [Readings \X (1 .. m) -> Readings]
  <2>1. ASSUME NEW x \in Readings \X (1 .. m)
        PROVE  CharacterRead(x[1], s[x[2]]) \in Readings
    <3>1. x[1] \in Readings /\ s[x[2]] \in TargetKeys
      BY <1>1
    <3> QED BY <3>1, ReadingsStay
  <2> QED BY <2>1
<1>4. PICK f \in [0 .. m -> Readings] :
           f[0] = NothingRead /\ \A i \in 1 .. m : f[i] = step[<<f[i - 1], i>>]
  <2> HIDE DEF step, m
  <2>1. \E f \in [0 .. m -> Readings] : Folds(f, m, NothingRead, step)
    BY <1>1, <1>2, <1>3, FoldExists
  <2> QED BY <2>1 DEF Folds
<1>5. \A i \in 1 .. m : f[i] = CharacterRead(f[i - 1], s[i])
  <2>1. ASSUME NEW i \in 1 .. m
        PROVE  f[i] = CharacterRead(f[i - 1], s[i])
    <3>1. f[i - 1] \in Readings /\ i \in 1 .. m
      BY <1>1
    <3>2. step[<<f[i - 1], i>>] = CharacterRead(f[i - 1], s[i])
      BY <3>1
    <3> QED BY <1>4, <3>2
  <2> QED BY <2>1
<1> HIDE DEF step
<1>6. Equation(f)
  <2>1. f = [i \in 0 .. m |-> f[i]]
    OBVIOUS
  <2>2. ASSUME NEW i \in 0 .. m
        PROVE  f[i] = IF i = 0 THEN NothingRead ELSE CharacterRead(f[i - 1], s[i])
    <3>1. i = 0 \/ i \in 1 .. m
      BY <1>1
    <3> QED BY <1>4, <1>5, <3>1
  <2> HIDE DEF m
  <2> QED BY <2>1, <2>2
<1>7. Equation(after)
  <2> HIDE DEF Equation
  <2> QED BY <1>6, Zenon
<1>8. TargetScanned(s) = after[m]
  BY Zenon DEF TargetScanned
<1> HIDE DEF after
<1>9. after[0] = NothingRead /\ \A i \in 1 .. m : after[i] = CharacterRead(after[i - 1], s[i])
  BY <1>1, <1>7
<1> DEFINE P == {i \in 0 .. m : after[i] \in Readings}
<1>10. 0 \in P
  BY <1>1, <1>2, <1>9
<1>11. ASSUME NEW i \in 0 .. m - 1, i \in P
       PROVE  i + 1 \in P
  <2>1. i + 1 \in 1 .. m /\ i + 1 \in 0 .. m /\ i + 1 - 1 = i
    BY <1>1
  <2>2. after[i + 1] = CharacterRead(after[i], s[i + 1]) /\ s[i + 1] \in TargetKeys
    BY <1>1, <1>9, <2>1
  <2>3. CharacterRead(after[i], s[i + 1]) \in Readings
    BY <1>11, <2>2, ReadingsStay
  <2> QED BY <2>1, <2>2, <2>3
<1>12. \A i \in 0 .. m : i \in P
  <2> HIDE DEF P, m
  <2> QED BY <1>1, <1>10, <1>11, UpTo
<1>13. after \in [0 .. m -> Readings]
  <2>1. \A i \in 0 .. m : after[i] \in Readings
    BY <1>12
  <2>2. after = [i \in 0 .. m |-> after[i]]
    <3>1. PICK g : g = [i \in 0 .. m |->
                          IF i = 0 THEN NothingRead ELSE CharacterRead(after[i - 1], s[i])]
      OBVIOUS
    <3>2. after = g
      BY <1>7, <3>1
    <3>3. g = [i \in 0 .. m |-> g[i]]
      BY <3>1
    <3> QED BY <3>2, <3>3
  <2> HIDE DEF m, P, Equation
  <2> QED BY <2>1, <2>2
<1> QED BY <1>8, <1>9, <1>13

\* What stands between the numbers of a block
Marks == {".", "/"}

\* What of a part stands before a place
Seen(s, p, i) == SubSeq(s, p[1] + 1, i)

\* What has to stand before the part with n parts before it
Leads(s, p, n) == n = 0 \/ s[p[1]] = IF n < Octets THEN "." ELSE "/"

\* A part that is a number of an address
IsOctet(s, p, n) ==
  /\ n < Octets /\ Part(s, p) \in Seq(Digits) /\ Part(s, p) # <<>> /\ Leads(s, p, n)
  /\ Len(Part(s, p)) <= OctetDigits /\ Number(Part(s, p)) <= MaxOctet

\* What a reading knows of the part it is in, which has n parts before it
Knows(s, p, n, i, r) ==
  /\ Len(r.octets) = n /\ n <= Octets /\ r.digits = i - p[1]
  /\ Seen(s, p, i) \in Seq(Digits) /\ Leads(s, p, n)
  /\ n < Octets => /\ r.value = Number(Seen(s, p, i)) /\ r.prefix = Bits
                   /\ r.digits <= OctetDigits /\ r.value <= MaxOctet
  /\ n = Octets => (Number(Seen(s, p, i)) < WordSize => r.prefix = Number(Seen(s, p, i)))

\* It goes on knowing it with another digit.
LEMMA KnowsDigit ==
  ASSUME NEW s \in Seq(TargetKeys), NEW p \in Parts(s, Marks), NEW n \in Nat,
         NEW i \in 0 .. Len(s) - 1, p[1] <= i, NEW r \in Readings, r.ok, Knows(s, p, n, i, r),
         s[i + 1] \in Digits, CharacterRead(r, s[i + 1]).ok
  PROVE  /\ Knows(s, p, n, i + 1, CharacterRead(r, s[i + 1]))
         /\ CharacterRead(r, s[i + 1]).octets = r.octets
<1>1. PICK m, c, t, e : m = Len(s) /\ c = s[i + 1] /\ t = CharacterRead(r, c) /\ e = p[1]
  OBVIOUS
<1>2. m \in Nat /\ c \in TargetKeys /\ c \in Digits /\ i \in 0 .. m - 1
  <2>1. Len(s) \in Nat /\ i + 1 \in 1 .. Len(s)
    BY LenProperties
  <2>2. s[i + 1] \in TargetKeys
    BY <2>1, ElementOfSeq
  <2> QED BY <1>1, <2>1, <2>2
<1>3. e \in 0 .. i
  <2>1. p[1] \in 0 .. Len(s)
    <3>1. Len(s) \in Nat
      BY LenProperties
    <3> QED BY <3>1, PartsApart
  <2> QED BY <1>1, <2>1
<1>4. PICK seen, next : seen = SubSeq(s, e + 1, i) /\ next = SubSeq(s, e + 1, i + 1)
  OBVIOUS
<1>5. next = Append(seen, c)
  <2>1. e \in 0 .. Len(s) /\ i \in e .. Len(s) /\ i < Len(s)
    BY <1>1, <1>2, <1>3
  <2>2. SubSeq(s, e + 1, i + 1) = Append(SubSeq(s, e + 1, i), s[i + 1])
    BY <2>1, Longer
  <2> QED BY <1>1, <1>4, <2>2
<1>6. Seen(s, p, i) = seen /\ Seen(s, p, i + 1) = next
  BY <1>1, <1>4 DEF Seen
<1>7. seen \in Seq(Digits)
  BY <1>6 DEF Knows
<1>8. next \in Seq(Digits)
  BY <1>2, <1>5, <1>7
<1>9. PICK d, x, y : d = DigitValue[c] /\ x = Number(seen) /\ y = Number(next)
  OBVIOUS
<1>10. x \in Nat /\ d \in Nat /\ y = x * 10 + d /\ x <= y
  BY <1>2, <1>5, <1>7, <1>9, NumberAppend
<1>11. r.digits \in Nat /\ r.value \in Nat /\ r.prefix \in Nat
  BY DEF Readings
<1>12. Leads(s, p, n) /\ n <= Octets /\ Len(r.octets) = n /\ r.digits = i - e
  BY <1>1 DEF Knows
<1>13. t.ok
  BY <1>1
<1>14. CASE n < Octets
  <2>1. Octets \in Nat /\ Len(r.octets) # Octets
    BY <1>12, <1>14, Widths
  <2>2. t = [octets |-> r.octets, value |-> r.value * 10 + d, digits |-> r.digits + 1,
             prefix |-> r.prefix,
             ok |-> r.digits + 1 <= OctetDigits /\ r.value * 10 + d <= MaxOctet]
    BY <1>1, <1>2, <1>9, <2>1, CharacterKinds
  <2>3. r.value = x /\ r.prefix = Bits
    BY <1>6, <1>9, <1>14 DEF Knows
  <2>4. /\ t.octets = r.octets /\ t.value = r.value * 10 + d /\ t.digits = r.digits + 1
        /\ t.prefix = r.prefix /\ r.digits + 1 <= OctetDigits /\ r.value * 10 + d <= MaxOctet
    BY <1>13, <2>2
  <2>5. t.value = y /\ t.value <= MaxOctet /\ t.prefix = Bits /\ t.digits <= OctetDigits
    BY <1>10, <2>3, <2>4
  <2>6. t.digits = (i + 1) - e /\ Len(t.octets) = n
    BY <1>3, <1>12, <2>4
  <2>7. Octets \in Nat /\ n # Octets
    BY <1>14, Widths
  <2>8. Knows(s, p, n, i + 1, t)
    <3>1. Len(t.octets) = n /\ n <= Octets /\ t.digits = (i + 1) - p[1]
      BY <1>1, <1>12, <2>6
    <3>2. Seen(s, p, i + 1) \in Seq(Digits) /\ Leads(s, p, n)
      BY <1>6, <1>8, <1>12
    <3>3. t.value = Number(Seen(s, p, i + 1))
      BY <1>6, <1>9, <2>5
    <3> QED BY <2>5, <2>7, <3>1, <3>2, <3>3 DEF Knows
  <2> QED BY <1>1, <2>4, <2>8
<1>15. CASE n = Octets
  <2>1. PICK w : w = (r.prefix * 10 + d) % WordSize
    OBVIOUS
  <2>2. t = [octets |-> r.octets, value |-> r.value, digits |-> r.digits + 1,
             prefix |-> w, ok |-> TRUE]
    BY <1>1, <1>2, <1>9, <1>12, <1>15, <2>1, CharacterKinds
  <2>3. t.octets = r.octets /\ t.digits = r.digits + 1 /\ t.prefix = w
    BY <2>2
  <2>4. ASSUME y < WordSize
        PROVE  t.prefix = y
    <3>1. PICK z : z = WordSize /\ z \in Nat \ {0}
      BY Widths
    <3>2. x < z /\ y < z /\ y \in Nat
      BY <1>10, <2>4, <3>1
    <3>3. r.prefix = x
      BY <1>6, <1>9, <1>15, <3>1, <3>2 DEF Knows
    <3>4. w = y % z
      BY <1>10, <2>1, <3>1, <3>3
    <3>5. y % z = y
      BY <3>1, <3>2
    <3> QED BY <2>3, <3>4, <3>5
  <2>5. t.digits = (i + 1) - e /\ Len(t.octets) = n
    BY <1>3, <1>12, <2>3
  <2>6. Octets \in Nat /\ ~(n < Octets)
    BY <1>15, Widths
  <2>7. Knows(s, p, n, i + 1, t)
    <3>1. Len(t.octets) = n /\ n <= Octets /\ t.digits = (i + 1) - p[1]
      BY <1>1, <1>12, <2>5
    <3>2. Seen(s, p, i + 1) \in Seq(Digits) /\ Leads(s, p, n)
      BY <1>6, <1>8, <1>12
    <3>3. Number(Seen(s, p, i + 1)) = y
      BY <1>6, <1>9
    <3>4. Number(Seen(s, p, i + 1)) < WordSize => t.prefix = Number(Seen(s, p, i + 1))
      BY <2>4, <3>3
    <3> QED BY <2>6, <3>1, <3>2, <3>4 DEF Knows
  <2> QED BY <1>1, <2>3, <2>7
<1>16. n < Octets \/ n = Octets
  BY <1>12, Widths
<1> QED BY <1>14, <1>15, <1>16

\* What a reading knows of a part in which no more is read
LEMMA KnowsPart ==
  ASSUME NEW s \in Seq(TargetKeys), NEW p \in Parts(s, Marks), NEW i \in 0 .. Len(s), p[2] = i + 1
  PROVE  /\ Part(s, p) = Seen(s, p, i) /\ i - p[1] \in Nat
         /\ Len(Part(s, p)) = i - p[1] /\ (Part(s, p) = <<>> <=> i - p[1] = 0)
<1>1. Len(s) \in Nat
  BY LenProperties
<1>2. PICK e : e = p[1] /\ e \in 0 .. i
  BY <1>1, PartsApart
<1>3. Part(s, p) = SubSeq(s, e + 1, i) /\ Seen(s, p, i) = SubSeq(s, e + 1, i)
  <2>1. i + 1 - 1 = i
    OBVIOUS
  <2> QED BY <1>2, <2>1 DEF Part, Seen
<1>4. e \in 0 .. Len(s) /\ i \in e .. Len(s)
  BY <1>1, <1>2
<1>5. /\ SubSeq(s, e + 1, i) \in Seq(TargetKeys) /\ Len(SubSeq(s, e + 1, i)) = i - e
      /\ i = e => SubSeq(s, e + 1, i) = <<>>
  BY <1>4, Longer
<1>6. i - e \in Nat /\ (i - e = 0 <=> i = e)
  BY <1>2
<1>7. SubSeq(s, e + 1, i) = <<>> => i - e = 0
  <2>1. Len(<<>>) = 0
    OBVIOUS
  <2> QED BY <1>5, <2>1
<1> QED BY <1>2, <1>3, <1>5, <1>6, <1>7

\* At a mark it turns to the next part, and has a number more.
LEMMA KnowsMark ==
  ASSUME NEW s \in Seq(TargetKeys), NEW p \in Parts(s, Marks), NEW q \in Parts(s, Marks),
         NEW n \in Nat, NEW i \in 0 .. Len(s) - 1, p[2] = i + 1, q[1] = i + 1,
         NEW r \in Readings, r.ok, Knows(s, p, n, i, r), CharacterRead(r, s[i + 1]).ok
  PROVE  /\ Knows(s, q, n + 1, i + 1, CharacterRead(r, s[i + 1])) /\ IsOctet(s, p, n)
         /\ CharacterRead(r, s[i + 1]).octets = Append(r.octets, Number(Part(s, p)))
<1>1. PICK c, t : c = s[i + 1] /\ t = CharacterRead(r, c)
  OBVIOUS
<1>2. Len(s) \in Nat /\ i \in 0 .. Len(s) /\ i + 1 \in 1 .. Len(s)
  BY LenProperties
<1>3. c \in TargetKeys
  BY <1>1, <1>2, ElementOfSeq
<1>4. c \in Marks
  <2>1. IsPart(s, Marks, p[1], p[2])
    BY <1>2, PartPlaces
  <2>2. p[2] <= Len(s)
    BY <1>2
  <2> QED BY <1>1, <2>1, <2>2 DEF IsPart
<1>5. Part(s, p) = Seen(s, p, i) /\ Len(Part(s, p)) = i - p[1] /\ (Part(s, p) = <<>> <=> i - p[1] = 0)
  BY <1>2, KnowsPart
<1>6. /\ Len(r.octets) = n /\ n <= Octets /\ r.digits = i - p[1]
      /\ Seen(s, p, i) \in Seq(Digits) /\ Leads(s, p, n)
  BY DEF Knows
<1>7. r.digits \in Nat /\ r.value \in Nat /\ r.prefix \in Nat /\ r.octets \in Seq(Nat)
  BY DEF Readings
<1>8. Octets \in Nat /\ c \notin Digits /\ t.ok
  BY <1>1, <1>4, Widths, NoDigits DEF Marks
<1>9. (c = "." /\ n < Octets - 1) \/ (c = "/" /\ n = Octets - 1)
  <2>1. SUFFICES ASSUME ~(c = "." /\ n < Octets - 1), ~(c = "/" /\ n = Octets - 1) PROVE FALSE
    OBVIOUS
  <2>2. t = [octets |-> r.octets, value |-> r.value, digits |-> r.digits,
             prefix |-> r.prefix, ok |-> FALSE]
    BY <1>1, <1>3, <1>6, <1>8, <2>1, CharacterKinds
  <2> QED BY <1>8, <2>2
<1>10. PICK x : x = (IF c = "." THEN r.prefix ELSE 0)
  OBVIOUS
<1>11. t = [octets |-> Append(r.octets, r.value), value |-> 0, digits |-> 0,
            prefix |-> x, ok |-> r.digits > 0]
  BY <1>1, <1>3, <1>6, <1>9, <1>10, CharacterKinds
<1>12. /\ t.octets = Append(r.octets, r.value) /\ t.value = 0 /\ t.digits = 0
       /\ t.prefix = x /\ r.digits > 0
  BY <1>8, <1>11
<1>13. n < Octets
  BY <1>8, <1>9
<1>14. /\ r.value = Number(Seen(s, p, i)) /\ r.prefix = Bits
       /\ r.digits <= OctetDigits /\ r.value <= MaxOctet
  BY <1>13 DEF Knows
<1>15. IsOctet(s, p, n)
  <2>1. Part(s, p) \in Seq(Digits) /\ Part(s, p) # <<>>
    BY <1>5, <1>6, <1>7, <1>12
  <2>2. Len(Part(s, p)) <= OctetDigits /\ Number(Part(s, p)) <= MaxOctet
    BY <1>5, <1>6, <1>14
  <2> QED BY <1>6, <1>13, <2>1, <2>2 DEF IsOctet
<1>16. t.octets = Append(r.octets, Number(Part(s, p))) /\ Len(t.octets) = n + 1
  <2>1. Len(Append(r.octets, r.value)) = Len(r.octets) + 1
    BY <1>7, AppendProperties
  <2> QED BY <1>5, <1>6, <1>12, <1>14, <2>1
<1>17. Seen(s, q, i + 1) = <<>>
  <2>1. i + 1 \in 0 .. Len(s) /\ i + 1 \in i + 1 .. Len(s)
    BY <1>2
  <2>2. SubSeq(s, i + 1 + 1, i + 1) = <<>>
    BY <2>1, Longer
  <2> QED BY <2>2 DEF Seen
<1>18. Number(<<>>) = 0 /\ <<>> \in Seq(Digits)
  <2>1. <<>> \in Seq(Digits) /\ Len(<<>>) = 0
    OBVIOUS
  <2> QED BY <2>1, NumberSteps
<1>19. Leads(s, q, n + 1)
  BY <1>1, <1>8, <1>9 DEF Leads
<1>20. n + 1 < Octets => t.value = Number(Seen(s, q, i + 1)) /\ t.prefix = Bits
  <2>1. ASSUME n + 1 < Octets
        PROVE  t.prefix = Bits
    <3>1. c = "."
      BY <1>8, <1>9, <2>1
    <3> QED BY <1>10, <1>12, <1>14, <3>1
  <2> QED BY <1>12, <1>17, <1>18, <2>1
<1>21. t.digits <= OctetDigits /\ t.value <= MaxOctet
  BY <1>12, Widths
<1>22. n + 1 = Octets => t.prefix = Number(Seen(s, q, i + 1))
  <2>1. ASSUME n + 1 = Octets
        PROVE  x = 0
    <3>1. c # "."
      BY <1>8, <1>9, <2>1
    <3> QED BY <1>10, <3>1
  <2> QED BY <1>12, <1>17, <1>18, <2>1
<1>23. Len(t.octets) = n + 1 /\ n + 1 <= Octets /\ t.digits = (i + 1) - q[1]
  BY <1>8, <1>12, <1>13, <1>16
<1>24. Seen(s, q, i + 1) \in Seq(Digits)
  BY <1>17, <1>18
<1>25. Knows(s, q, n + 1, i + 1, t)
  BY <1>19, <1>20, <1>21, <1>22, <1>23, <1>24 DEF Knows
<1> QED BY <1>1, <1>15, <1>16, <1>25

\* What a reading knows of the text before a place
KnowsAll(s, i, r) ==
  /\ \A p \in Parts(s, Marks) :
       p[1] <= i /\ i < p[2] => Knows(s, p, Before(p, Parts(s, Marks)), i, r)
  /\ \A q \in Parts(s, Marks) :
       q[2] <= i => /\ IsOctet(s, q, Before(q, Parts(s, Marks)))
                    /\ r.octets[Before(q, Parts(s, Marks)) + 1] = Number(Part(s, q))

\* Before the first character it knows all.
LEMMA KnowsFirst ==
  ASSUME NEW s \in Seq(TargetKeys)
  PROVE  KnowsAll(s, 0, NothingRead)
<1> DEFINE F == Parts(s, Marks)
<1>1. Len(s) \in Nat
  BY LenProperties
<1>2. ASSUME NEW p \in F, p[1] <= 0, 0 < p[2]
      PROVE  Knows(s, p, Before(p, F), 0, NothingRead)
  <2>1. p[1] \in 0 .. Len(s)
    BY <1>1, PartsApart
  <2>2. p[1] = 0 /\ 0 \in 0 .. Len(s) /\ 0 \in 0 .. 0
    BY <1>1, <1>2, <2>1
  <2>3. Before(p, F) = 0
    <3>1. 0 \in 0 .. Len(s) + 1
      BY <1>1
    <3>2. Before(p, F) = Cardinality(Ended(F, 0))
      BY <1>1, <1>2, <2>2, BeforeIsEnded
    <3> QED BY <1>1, <3>2, EndedCount, FS_EmptySet
  <2>4. Seen(s, p, 0) = <<>>
    <3>1. 0 \in 0 .. Len(s) /\ 0 \in 0 .. Len(s)
      BY <1>1
    <3>2. SubSeq(s, 0 + 1, 0) = <<>>
      BY <3>1, Longer
    <3> QED BY <2>2, <3>2 DEF Seen
  <2>5. Number(<<>>) = 0 /\ <<>> \in Seq(Digits)
    <3>1. <<>> \in Seq(Digits) /\ Len(<<>>) = 0
      OBVIOUS
    <3> QED BY <3>1, NumberSteps
  <2>6. /\ NothingRead.octets = <<>> /\ NothingRead.value = 0 /\ NothingRead.digits = 0
        /\ NothingRead.prefix = Bits
    BY DEF NothingRead
  <2> HIDE DEF F
  <2>7. Leads(s, p, 0)
    BY DEF Leads
  <2>8. Len(NothingRead.octets) = 0 /\ 0 <= Octets /\ 0 # Octets
    BY <2>6, Widths
  <2>9. NothingRead.digits <= OctetDigits /\ NothingRead.value <= MaxOctet
    BY <2>6, Widths
  <2>10. NothingRead.digits = 0 - p[1]
    BY <2>2, <2>6
  <2>11. Seen(s, p, 0) \in Seq(Digits) /\ NothingRead.value = Number(Seen(s, p, 0))
    BY <2>4, <2>5, <2>6
  <2> QED BY <2>3, <2>6, <2>7, <2>8, <2>9, <2>10, <2>11 DEF Knows
<1>3. ASSUME NEW q \in F, q[2] <= 0
      PROVE  FALSE
  <2>1. q[2] \in 1 .. Len(s) + 1
    BY <1>1, PartsApart
  <2> QED BY <1>3, <2>1
<1> QED BY <1>2, <1>3 DEF KnowsAll

\* It knows as much of a character more.
LEMMA KnowsNext ==
  ASSUME NEW s \in Seq(TargetKeys), NEW i \in 0 .. Len(s) - 1, NEW r \in Readings,
         r.ok, KnowsAll(s, i, r), CharacterRead(r, s[i + 1]).ok
  PROVE  KnowsAll(s, i + 1, CharacterRead(r, s[i + 1]))
<1> DEFINE F == Parts(s, Marks)
<1>1. PICK c, t : c = s[i + 1] /\ t = CharacterRead(r, c)
  OBVIOUS
<1>2. Len(s) \in Nat /\ i \in 0 .. Len(s) /\ i + 1 \in 1 .. Len(s) /\ i + 1 \in 0 .. Len(s)
  BY LenProperties
<1>3. c \in TargetKeys
  BY <1>1, <1>2, ElementOfSeq
<1>4. PICK p \in F : p[1] <= i /\ i < p[2]
  BY <1>2, PartAt
<1>5. PICK n : n = Before(p, F) /\ n \in Nat /\ n = Cardinality(Ended(F, i))
  BY <1>2, <1>4, BeforeIsEnded
<1>6. Knows(s, p, n, i, r)
  BY <1>4, <1>5 DEF KnowsAll
<1>7. \A q \in F : q[2] <= i => /\ IsOctet(s, q, Before(q, F))
                                /\ r.octets[Before(q, F) + 1] = Number(Part(s, q))
  BY DEF KnowsAll
<1>8. /\ s[i + 1] \notin Marks => i + 1 < p[2]
      /\ s[i + 1] \in Marks =>
           /\ p[2] = i + 1
           /\ \E q \in F : /\ q[1] = i + 1 /\ i + 1 < q[2]
                           /\ Before(q, F) = Before(p, F) + IF p \in F THEN 1 ELSE 0
  BY <1>2, <1>4, PlaceGrows
<1>9. \A q \in F : q[2] \in 1 .. Len(s) + 1 /\ q[1] \in 0 .. Len(s)
  BY <1>2, PartsApart
<1>10. CASE c \notin Marks
  <2>1. c \in Digits
    <3>1. SUFFICES ASSUME c \notin Digits PROVE FALSE
      OBVIOUS
    <3>2. c # "." /\ c # "/"
      BY <1>10 DEF Marks
    <3>3. t = [octets |-> r.octets, value |-> r.value, digits |-> r.digits,
               prefix |-> r.prefix, ok |-> FALSE]
      BY <1>1, <1>3, <3>1, <3>2, CharacterKinds
    <3>4. t.ok
      BY <1>1
    <3> QED BY <3>3, <3>4
  <2>2. Knows(s, p, n, i + 1, t) /\ t.octets = r.octets
    BY <1>1, <1>4, <1>5, <1>6, <2>1, KnowsDigit
  <2>3. i + 1 < p[2] /\ p[1] <= i + 1
    BY <1>1, <1>2, <1>4, <1>8, <1>9, <1>10
  <2>4. ASSUME NEW q \in F, q[1] <= i + 1, i + 1 < q[2]
        PROVE  Knows(s, q, Before(q, F), i + 1, t)
    <3>1. q = p
      BY <1>2, <2>3, <2>4, PartIsOne
    <3> QED BY <1>5, <2>2, <3>1
  <2>5. ASSUME NEW q \in F, q[2] <= i + 1
        PROVE  IsOctet(s, q, Before(q, F)) /\ t.octets[Before(q, F) + 1] = Number(Part(s, q))
    <3>1. q[2] # i + 1
      <4>1. IsPart(s, Marks, q[1], q[2])
        BY <1>2, PartPlaces
      <4>2. q[2] <= Len(s) => s[q[2]] \in Marks
        BY <4>1 DEF IsPart
      <4>3. ASSUME q[2] = i + 1
            PROVE  FALSE
        <5>1. q[2] <= Len(s)
          BY <1>2, <4>3
        <5> QED BY <1>1, <1>10, <4>2, <4>3, <5>1
      <4> QED BY <4>3
    <3>2. q[2] <= i
      BY <1>9, <2>5, <3>1
    <3> QED BY <1>7, <2>2, <3>2
  <2> HIDE DEF F
  <2>6. KnowsAll(s, i + 1, t)
    BY <2>4, <2>5 DEF KnowsAll, F
  <2> QED BY <1>1, <2>6
<1>11. CASE c \in Marks
  <2>1. p[2] = i + 1
    BY <1>1, <1>8, <1>11
  <2>2. PICK q \in F : q[1] = i + 1 /\ i + 1 < q[2] /\ Before(q, F) = n + 1
    BY <1>1, <1>5, <1>8, <1>11
  <2>3. /\ Knows(s, q, n + 1, i + 1, t) /\ IsOctet(s, p, n)
        /\ t.octets = Append(r.octets, Number(Part(s, p)))
    BY <1>1, <1>5, <1>6, <2>1, <2>2, KnowsMark
  <2>4. ASSUME NEW x \in F, x[1] <= i + 1, i + 1 < x[2]
        PROVE  Knows(s, x, Before(x, F), i + 1, t)
    <3>1. q[1] <= i + 1
      BY <2>2
    <3>2. x = q
      BY <1>2, <2>2, <2>4, <3>1, PartIsOne
    <3> QED BY <2>2, <2>3, <3>2
  <2>5. r.octets \in Seq(Nat) /\ Len(r.octets) = n
    BY <1>6 DEF Readings, Knows
  <2>6. PICK v : v = Number(Part(s, p)) /\ v \in Nat
    <3>1. Part(s, p) \in Seq(Digits)
      BY <2>3 DEF IsOctet
    <3>2. PICK g \in [0 .. Len(Part(s, p)) -> Nat] : Number(Part(s, p)) = g[Len(Part(s, p))]
      BY <3>1, NumberSteps
    <3>3. Len(Part(s, p)) \in 0 .. Len(Part(s, p))
      BY <3>1, LenProperties
    <3> QED BY <3>2, <3>3
  <2>7. /\ \A k \in 1 .. n : t.octets[k] = r.octets[k]
        /\ t.octets[n + 1] = v
    <3>1. t.octets = Append(r.octets, v)
      BY <2>3, <2>6
    <3> QED BY <2>5, <2>6, <3>1, AppendProperties
  <2>8. ASSUME NEW x \in F, x[2] <= i + 1
        PROVE  IsOctet(s, x, Before(x, F)) /\ t.octets[Before(x, F) + 1] = Number(Part(s, x))
    <3>1. CASE x[2] = i + 1
      <4>1. x = p
        BY <1>2, <2>1, <3>1, PartsApart
      <4> QED BY <1>5, <2>3, <2>6, <2>7, <4>1
    <3>2. CASE x[2] # i + 1
      <4>1. x[2] <= i
        BY <1>9, <2>8, <3>2
      <4>2. IsOctet(s, x, Before(x, F)) /\ r.octets[Before(x, F) + 1] = Number(Part(s, x))
        BY <1>7, <4>1
      <4>3. x[1] < p[1]
        <5>1. /\ x[1] \in 0 .. Len(s) /\ p[1] \in 0 .. Len(s) /\ p[1] < p[2]
              /\ x[1] = p[1] => x = p
              /\ p[1] < x[1] => p[2] <= x[1]
              /\ x[1] < x[2]
          BY <1>2, PartsApart
        <5>2. x # p
          BY <2>1, <3>2
        <5>3. ~(p[1] < x[1])
          BY <1>9, <2>1, <4>1, <5>1
        <5> QED BY <5>1, <5>2, <5>3
      <4>4. Before(x, F) < Before(p, F)
        BY <1>2, <4>3, BeforeGrows
      <4>5. Before(x, F) \in Nat
        BY <1>2, RankIsNumber
      <4>6. Before(x, F) + 1 \in 1 .. n
        BY <1>5, <4>4, <4>5
      <4> QED BY <2>7, <4>2, <4>6
    <3> QED BY <3>1, <3>2
  <2> HIDE DEF F
  <2>9. KnowsAll(s, i + 1, t)
    BY <2>4, <2>8 DEF KnowsAll, F
  <2> QED BY <1>1, <2>9
<1> QED BY <1>10, <1>11

\* A part holds what stands in the text between its ends.
LEMMA PartHolds ==
  ASSUME NEW S, NEW s \in Seq(S), NEW Z, NEW p \in Parts(s, Z)
  PROVE  /\ Part(s, p) \in Seq(S) /\ Len(Part(s, p)) = p[2] - 1 - p[1] /\ p[2] - 1 - p[1] \in Nat
         /\ \A k \in 1 .. Len(Part(s, p)) : p[1] + k \in 1 .. Len(s) /\ Part(s, p)[k] = s[p[1] + k]
         /\ Part(s, p) = <<>> <=> p[2] - 1 - p[1] = 0
<1>1. Len(s) \in Nat
  BY LenProperties
<1>2. PICK a, z : a = p[1] /\ z = p[2] - 1
  OBVIOUS
<1>3. a \in 0 .. Len(s) /\ z \in a .. Len(s)
  BY <1>1, <1>2, PartsApart
<1>4. Part(s, p) = SubSeq(s, a + 1, z)
  BY <1>2 DEF Part
<1>5. /\ SubSeq(s, a + 1, z) \in Seq(S) /\ Len(SubSeq(s, a + 1, z)) = z - a
      /\ \A k \in 1 .. z - a : SubSeq(s, a + 1, z)[k] = s[a + k]
      /\ z = a => SubSeq(s, a + 1, z) = <<>>
  BY <1>3, Longer
<1>6. z - a \in Nat /\ \A k \in 1 .. z - a : a + k \in 1 .. Len(s)
  BY <1>1, <1>3
<1>7. z - a = 0 <=> z = a
  BY <1>3
<1>8. SubSeq(s, a + 1, z) = <<>> => z - a = 0
  <2>1. Len(<<>>) = 0
    OBVIOUS
  <2> QED BY <1>5, <2>1
<1>9. p[2] - 1 - p[1] = z - a
  BY <1>2
<1> HIDE DEF Part
<1> QED BY <1>2, <1>4, <1>5, <1>6, <1>7, <1>8, <1>9

\* It is a sequence of digits when each of its characters is one, wherever it is cut.
LEMMA PartDigits ==
  ASSUME NEW s \in Seq(TargetKeys), NEW p \in Parts(s, Marks),
         \A k \in 1 .. Len(Part(s, p)) : Part(s, p)[k] \in Digits
  PROVE  /\ Part(s, p) \in Seq(Digits)
         /\ \A j \in p[1] .. p[2] - 1 :
              Seen(s, p, j) \in Seq(Digits) /\ Number(Seen(s, p, j)) <= Number(Part(s, p))
<1>1. Len(s) \in Nat
  BY LenProperties
<1>2. PICK a, z : a = p[1] /\ z = p[2] - 1
  OBVIOUS
<1>3. a \in 0 .. Len(s) /\ z \in a .. Len(s)
  BY <1>1, <1>2, PartsApart
<1>4. Part(s, p) = SubSeq(s, a + 1, z) /\ \A j : Seen(s, p, j) = SubSeq(s, a + 1, j)
  BY <1>2 DEF Part, Seen
<1>5. \A k \in a + 1 .. z : s[k] \in Digits
  <2>1. ASSUME NEW k \in a + 1 .. z
        PROVE  s[k] \in Digits
    <3>1. Len(Part(s, p)) = z - a
      BY <1>2, PartHolds
    <3>2. k - a \in 1 .. Len(Part(s, p)) /\ a + (k - a) = k
      BY <1>3, <3>1
    <3>3. Part(s, p)[k - a] = s[a + (k - a)]
      BY <1>2, <3>2, PartHolds
    <3> QED BY <3>2, <3>3
  <2> QED BY <2>1
<1>6. \A j \in a .. z : SubSeq(s, a + 1, j) \in Seq(Digits)
  <2>1. ASSUME NEW j \in a .. z
        PROVE  SubSeq(s, a + 1, j) \in Seq(Digits)
    <3>1. a + 1 \in Int /\ j \in Int /\ \A k \in a + 1 .. j : s[k] \in Digits
      BY <1>3, <1>5
    <3> QED BY <3>1, SubSeqProperties
  <2> QED BY <2>1
<1> DEFINE w == z - a
           whole == Number(SubSeq(s, a + 1, z))
           P == {k \in 0 .. w : Number(SubSeq(s, a + 1, z - k)) <= whole}
<1>7. w \in Nat /\ \A k \in 0 .. w : z - k \in a .. z
  BY <1>3
<1>8. \A j \in a .. z : Number(SubSeq(s, a + 1, j)) \in Nat
  <2>1. ASSUME NEW j \in a .. z
        PROVE  Number(SubSeq(s, a + 1, j)) \in Nat
    <3>1. PICK t : t = SubSeq(s, a + 1, j) /\ t \in Seq(Digits)
      BY <1>6
    <3>2. PICK g \in [0 .. Len(t) -> Nat] : Number(t) = g[Len(t)]
      BY <3>1, NumberSteps
    <3>3. Len(t) \in 0 .. Len(t)
      BY <3>1, LenProperties
    <3> QED BY <3>1, <3>2, <3>3
  <2> QED BY <2>1
<1>9. 0 \in P
  <2>1. z - 0 = z /\ z \in a .. z
    BY <1>3
  <2>2. whole \in Nat
    BY <1>8, <2>1
  <2> QED BY <1>7, <2>1, <2>2
<1>10. ASSUME NEW k \in 0 .. w - 1, k \in P
       PROVE  k + 1 \in P
  <2>1. PICK j : j = z - (k + 1)
    OBVIOUS
  <2>2. k + 1 \in 0 .. w /\ j \in a .. z /\ j + 1 = z - k /\ j + 1 \in a + 1 .. z /\ j + 1 \in a .. z
    BY <1>3, <2>1
  <2>3. a \in 0 .. Len(s) /\ j \in a .. Len(s) /\ j < Len(s)
    BY <1>3, <2>2
  <2>4. SubSeq(s, a + 1, j + 1) = Append(SubSeq(s, a + 1, j), s[j + 1])
    BY <2>3, Longer
  <2>5. SubSeq(s, a + 1, j) \in Seq(Digits) /\ s[j + 1] \in Digits
    BY <1>5, <1>6, <2>2
  <2>6. Number(SubSeq(s, a + 1, j)) <= Number(SubSeq(s, a + 1, j + 1))
    BY <2>4, <2>5, NumberAppend
  <2>7. Number(SubSeq(s, a + 1, j + 1)) <= whole
    BY <1>10, <2>2
  <2>8. /\ Number(SubSeq(s, a + 1, j)) \in Nat /\ Number(SubSeq(s, a + 1, j + 1)) \in Nat
        /\ whole \in Nat
    <3>1. z \in a .. z
      BY <1>3
    <3> QED BY <1>8, <2>2, <3>1
  <2> HIDE DEF whole
  <2>9. Number(SubSeq(s, a + 1, j)) <= whole
    BY <2>6, <2>7, <2>8
  <2> QED BY <2>1, <2>2, <2>9
<1>11. \A k \in 0 .. w : k \in P
  <2> HIDE DEF P, w
  <2> QED BY <1>7, <1>9, <1>10, UpTo
<1>12. ASSUME NEW j \in a .. z
       PROVE  Number(SubSeq(s, a + 1, j)) <= whole
  <2>1. z - j \in 0 .. w /\ z - (z - j) = j
    BY <1>3
  <2> QED BY <1>11, <2>1
<1>13. z \in a .. z
  BY <1>3
<1> QED BY <1>2, <1>4, <1>6, <1>12, <1>13

\* A reading of s, from the first character on
IsReading(f, s) ==
  /\ f \in [0 .. Len(s) -> Readings] /\ f[0] = NothingRead
  /\ \A i \in 1 .. Len(s) : f[i] = CharacterRead(f[i - 1], s[i])

\* As long as it takes what it reads, a reading knows it.
LEMMA KnowsWhole ==
  ASSUME NEW s \in Seq(TargetKeys), NEW f, IsReading(f, s)
  PROVE  \A i \in 0 .. Len(s) : f[i].ok => KnowsAll(s, i, f[i])
<1> DEFINE m == Len(s)
           P == {i \in 0 .. m : f[i].ok => KnowsAll(s, i, f[i])}
<1>1. m \in Nat
  BY LenProperties
<1>2. /\ f \in [0 .. m -> Readings] /\ f[0] = NothingRead
      /\ \A i \in 1 .. m : f[i] = CharacterRead(f[i - 1], s[i])
  BY DEF IsReading
<1>3. 0 \in P
  BY <1>1, <1>2, KnowsFirst
<1>4. ASSUME NEW i \in 0 .. m - 1, i \in P
      PROVE  i + 1 \in P
  <2>1. i \in 0 .. m /\ i + 1 \in 0 .. m /\ i + 1 \in 1 .. m /\ i + 1 - 1 = i
    BY <1>1
  <2>2. f[i] \in Readings /\ f[i + 1] = CharacterRead(f[i], s[i + 1])
    BY <1>2, <2>1
  <2>3. ASSUME f[i + 1].ok
        PROVE  KnowsAll(s, i + 1, f[i + 1])
    <3>1. s[i + 1] \in TargetKeys
      BY <2>1, ElementOfSeq
    <3>2. f[i].ok
      <4>1. ~f[i].ok => CharacterRead(f[i], s[i + 1]) = f[i]
        BY <2>2, <3>1, CharacterKinds
      <4> QED BY <2>2, <2>3, <4>1
    <3>3. KnowsAll(s, i, f[i])
      BY <1>4, <3>2
    <3>4. CharacterRead(f[i], s[i + 1]).ok
      BY <2>2, <2>3
    <3>5. KnowsAll(s, i + 1, CharacterRead(f[i], s[i + 1]))
      BY <2>2, <3>2, <3>3, <3>4, KnowsNext
    <3> QED BY <2>2, <3>5
  <2> QED BY <2>1, <2>3
<1> HIDE DEF P, m
<1>5. \A i \in 0 .. m : i \in P
  BY <1>1, <1>3, <1>4, UpTo
<1> QED BY <1>5 DEF P, m

\* What IsBlock says of a part with n before it, and of all of them
BlockPart(s, p, n) ==
  /\ Part(s, p) # <<>> /\ \A k \in 1 .. Len(Part(s, p)) : Part(s, p)[k] \in Digits
  /\ Leads(s, p, n)
  /\ n < Octets => Len(Part(s, p)) <= OctetDigits /\ Number(Part(s, p)) <= MaxOctet
  /\ n = Octets => Number(Part(s, p)) <= Bits
BlockParts(s) ==
  /\ Cardinality(Parts(s, Marks)) \in {Octets, Octets + 1}
  /\ \A p \in Parts(s, Marks) : BlockPart(s, p, Before(p, Parts(s, Marks)))

\* It says this.
LEMMA BlockIsParts ==
  ASSUME NEW s
  PROVE  IsBlock(s) <=> BlockParts(s)
  BY DEF IsBlock, BlockParts, BlockPart, Leads, Marks

\* A reading takes all of a block.
LEMMA BlockIsTaken ==
  ASSUME NEW s \in Seq(TargetKeys), NEW f, IsReading(f, s), BlockParts(s)
  PROVE  \A i \in 0 .. Len(s) : f[i].ok
<1> DEFINE m == Len(s)
           F == Parts(s, Marks)
           P == {i \in 0 .. m : f[i].ok}
<1>1. m \in Nat
  BY LenProperties
<1>2. /\ f \in [0 .. m -> Readings] /\ f[0] = NothingRead
      /\ \A i \in 1 .. m : f[i] = CharacterRead(f[i - 1], s[i])
  BY DEF IsReading
<1>3. 0 \in P
  BY <1>1, <1>2 DEF NothingRead
<1>4. ASSUME NEW i \in 0 .. m - 1, i \in P
      PROVE  i + 1 \in P
  <2>1. i \in 0 .. m /\ i + 1 \in 0 .. m /\ i + 1 \in 1 .. m /\ i + 1 - 1 = i
    BY <1>1
  <2>2. PICK r, c, t : r = f[i] /\ c = s[i + 1] /\ t = CharacterRead(r, c)
    OBVIOUS
  <2>3. r \in Readings /\ t = f[i + 1] /\ r.ok
    BY <1>2, <1>4, <2>1, <2>2
  <2>4. c \in TargetKeys
    BY <2>1, <2>2, ElementOfSeq
  <2>5. KnowsAll(s, i, r)
    BY <2>1, <2>2, <2>3, KnowsWhole
  <2>6. PICK p \in F : p[1] <= i /\ i < p[2]
    BY <1>1, <2>1, PartAt
  <2>7. PICK n : n = Before(p, F) /\ n \in Nat
    BY <1>1, <2>1, <2>6, BeforeIsEnded
  <2>8. Knows(s, p, n, i, r)
    BY <2>5, <2>6, <2>7 DEF KnowsAll
  <2>9. /\ s[i + 1] \notin Marks => i + 1 < p[2]
        /\ s[i + 1] \in Marks =>
             /\ p[2] = i + 1
             /\ \E q \in F : /\ q[1] = i + 1 /\ i + 1 < q[2]
                             /\ Before(q, F) = Before(p, F) + IF p \in F THEN 1 ELSE 0
    <3>1. i \in 0 .. Len(s) - 1 /\ Len(s) \in Nat /\ F \in SUBSET Parts(s, Marks)
      BY <1>1
    <3> HIDE DEF P, m
    <3> QED BY <2>6, <3>1, PlaceGrows
  <2>10. /\ Part(s, p) # <<>> /\ \A k \in 1 .. Len(Part(s, p)) : Part(s, p)[k] \in Digits
         /\ Leads(s, p, n)
         /\ n < Octets => Len(Part(s, p)) <= OctetDigits /\ Number(Part(s, p)) <= MaxOctet
    BY <2>7 DEF BlockParts, BlockPart
  <2>11. n <= Octets /\ Len(r.octets) = n /\ r.digits = i - p[1]
    BY <2>8 DEF Knows
  <2>12. PICK a, z : a = p[1] /\ z = p[2] - 1 /\ a \in 0 .. i /\ z \in i .. m
    <3>1. p[1] \in 0 .. m /\ p[2] \in 1 .. m + 1
      BY <1>1, PartsApart
    <3>2. p[1] \in 0 .. i /\ p[2] - 1 \in i .. m
      BY <2>1, <2>6, <3>1
    <3> QED BY <3>2
  <2>13. /\ Len(Part(s, p)) = z - a /\ (Part(s, p) = <<>> <=> z - a = 0)
         /\ \A k \in 1 .. Len(Part(s, p)) : Part(s, p)[k] = s[a + k]
    BY <2>12, PartHolds
  <2>14. CASE c \notin Marks
    <3>1. i + 1 <= z
      <4>1. p[2] \in 1 .. m + 1 /\ i + 1 < p[2]
        BY <1>1, <2>2, <2>9, <2>14, PartsApart
      <4> QED BY <2>1, <2>12, <4>1
    <3>2. c \in Digits
      <4>1. i + 1 - a \in 1 .. Len(Part(s, p)) /\ a + (i + 1 - a) = i + 1
        BY <2>1, <2>12, <2>13, <3>1
      <4> QED BY <2>2, <2>10, <2>13, <4>1
    <3>3. CASE n < Octets
      <4>1. PICK d, v : d = DigitValue[c] /\ v = r.value * 10 + d
        OBVIOUS
      <4>2. Len(r.octets) # Octets
        BY <2>7, <2>11, <3>3, Widths
      <4>3. t = [octets |-> r.octets, value |-> v, digits |-> r.digits + 1, prefix |-> r.prefix,
                 ok |-> r.digits + 1 <= OctetDigits /\ v <= MaxOctet]
        BY <2>2, <2>3, <2>4, <3>2, <4>1, <4>2, CharacterKinds
      <4>4. r.digits + 1 <= OctetDigits
        <5>1. z - a <= OctetDigits
          BY <2>10, <2>13, <3>3
        <5> QED BY <2>1, <2>11, <2>12, <3>1, <5>1, Widths
      <4>5. v <= MaxOctet
        <5>1. r.value = Number(Seen(s, p, i))
          BY <2>8, <3>3 DEF Knows
        <5>2. Seen(s, p, i) \in Seq(Digits)
          BY <2>8 DEF Knows
        <5>3. Seen(s, p, i + 1) = Append(Seen(s, p, i), c)
          <6>1. a \in 0 .. Len(s) /\ i \in a .. Len(s) /\ i < Len(s)
            BY <1>1, <2>1, <2>12
          <6>2. SubSeq(s, a + 1, i + 1) = Append(SubSeq(s, a + 1, i), s[i + 1])
            BY <6>1, Longer
          <6> QED BY <2>2, <2>12, <6>2 DEF Seen
        <5>4. v = Number(Seen(s, p, i + 1))
          BY <3>2, <4>1, <5>1, <5>2, <5>3, NumberAppend
        <5>5. i + 1 \in p[1] .. p[2] - 1
          BY <2>1, <2>12, <3>1
        <5>6. Number(Seen(s, p, i + 1)) <= Number(Part(s, p)) /\ Part(s, p) \in Seq(Digits)
          BY <2>10, <5>5, PartDigits
        <5>7. Seen(s, p, i + 1) \in Seq(Digits)
          BY <2>10, <5>5, PartDigits
        <5>8. Number(Part(s, p)) \in Nat /\ Number(Seen(s, p, i + 1)) \in Nat
          BY <3>2, <5>6, <5>7, NumberAppend
        <5>9. Number(Part(s, p)) <= MaxOctet
          BY <2>10, <3>3
        <5> QED BY <5>4, <5>6, <5>8, <5>9, Widths
      <4>6. t.ok
        BY <4>3, <4>4, <4>5
      <4> QED BY <2>1, <2>3, <4>6
    <3>4. CASE n = Octets
      <4>1. PICK d, w : d = DigitValue[c] /\ w = (r.prefix * 10 + d) % WordSize
        OBVIOUS
      <4>2. t = [octets |-> r.octets, value |-> r.value, digits |-> r.digits + 1,
                 prefix |-> w, ok |-> TRUE]
        <5>1. t = CharacterRead(r, c) /\ r \in Readings /\ r.ok /\ Len(r.octets) = Octets
          BY <2>2, <2>3, <2>11, <3>4
        <5> QED BY <2>4, <3>2, <4>1, <5>1, CharacterKinds
      <4>3. t.ok
        BY <4>2
      <4> QED BY <2>1, <2>3, <4>3
    <3>5. n < Octets \/ n = Octets
      BY <2>7, <2>11, Widths
    <3> QED BY <3>3, <3>4, <3>5
  <2>15. CASE c \in Marks
    <3>1. p[2] = i + 1
      BY <2>2, <2>9, <2>15
    <3>2. PICK q \in F : q[1] = i + 1 /\ Before(q, F) = n + 1 /\ i + 1 < q[2]
      BY <2>2, <2>7, <2>9, <2>15
    <3>3. Leads(s, q, n + 1)
      BY <3>2 DEF BlockParts, BlockPart
    <3>4. c = IF n + 1 < Octets THEN "." ELSE "/"
      BY <2>2, <2>7, <3>2, <3>3 DEF Leads
    <3>5. n + 1 <= Octets
      <4>1. Before(q, F) < Cardinality(F)
        BY <1>1, RankIsBelow
      <4>2. Cardinality(F) = Octets \/ Cardinality(F) = Octets + 1
        BY DEF BlockParts
      <4> QED BY <2>7, <3>2, <4>1, <4>2, Widths
    <3>6. r.digits > 0
      BY <2>1, <2>10, <2>11, <2>12, <2>13, <3>1
    <3>7. t.ok
      <4>1. Octets \in Nat
        BY Widths
      <4>2. CASE n + 1 < Octets
        <5>1. c = "." /\ Len(r.octets) < Octets - 1
          BY <2>7, <2>11, <3>4, <4>1, <4>2
        <5>2. t = [octets |-> Append(r.octets, r.value), value |-> 0, digits |-> 0,
                   prefix |-> r.prefix, ok |-> r.digits > 0]
          BY <2>2, <2>3, <2>4, <5>1, CharacterKinds
        <5> QED BY <3>6, <5>2
      <4>3. CASE ~(n + 1 < Octets)
        <5>1. c = "/" /\ Len(r.octets) = Octets - 1
          BY <2>7, <2>11, <3>4, <3>5, <4>1, <4>3
        <5>2. t = [octets |-> Append(r.octets, r.value), value |-> 0, digits |-> 0,
                   prefix |-> 0, ok |-> r.digits > 0]
          BY <2>2, <2>3, <2>4, <5>1, CharacterKinds
        <5> QED BY <3>6, <5>2
      <4> QED BY <4>2, <4>3
    <3> QED BY <2>1, <2>3, <3>7
  <2> QED BY <2>14, <2>15
<1> HIDE DEF P, m
<1>5. \A i \in 0 .. m : i \in P
  BY <1>1, <1>3, <1>4, UpTo
<1> QED BY <1>5 DEF P, m

\* There is a last part, and as many parts as are before it and one.
LEMMA LastPart ==
  ASSUME NEW s \in Seq(TargetKeys)
  PROVE  \E p \in Parts(s, Marks) :
           /\ p[1] \in 0 .. Len(s) /\ p[2] = Len(s) + 1
           /\ Before(p, Parts(s, Marks)) \in Nat
           /\ Cardinality(Parts(s, Marks)) = Before(p, Parts(s, Marks)) + 1
<1>1. Len(s) \in Nat /\ Len(s) \in 0 .. Len(s)
  BY LenProperties
<1>2. PICK p \in Parts(s, Marks) : p[1] <= Len(s) /\ Len(s) < p[2]
  BY <1>1, PartAt
<1>3. p[1] \in 0 .. Len(s) /\ p[2] \in 1 .. Len(s) + 1
  BY <1>1, PartsApart
<1>4. p[2] = Len(s) + 1
  BY <1>1, <1>2, <1>3
<1>5. Before(p, Parts(s, Marks)) \in Nat
  BY <1>1, RankIsNumber
<1>6. Cardinality(Parts(s, Marks)) = Before(p, Parts(s, Marks)) + 1
  BY <1>1, <1>4, RankIsBelow
<1> QED BY <1>3, <1>4, <1>5, <1>6

\* What a reading that took all knows of the last part
LEMMA KnowsLast ==
  ASSUME NEW s \in Seq(TargetKeys), NEW f, IsReading(f, s), NEW p \in Parts(s, Marks),
         p[2] = Len(s) + 1, f[Len(s)].ok, NEW n, n = Before(p, Parts(s, Marks))
  PROVE  LET r == f[Len(s)] IN
         /\ r \in Readings /\ KnowsAll(s, Len(s), r)
         /\ Len(r.octets) = n /\ n <= Octets /\ Leads(s, p, n)
         /\ Part(s, p) \in Seq(Digits) /\ Number(Part(s, p)) \in Nat
         /\ r.digits = Len(Part(s, p)) /\ (r.digits = 0 <=> Part(s, p) = <<>>)
         /\ n < Octets => /\ r.value = Number(Part(s, p)) /\ r.prefix = Bits
                          /\ r.digits <= OctetDigits /\ r.value <= MaxOctet
         /\ n = Octets => (Number(Part(s, p)) < WordSize => r.prefix = Number(Part(s, p)))
<1>1. Len(s) \in Nat /\ Len(s) \in 0 .. Len(s)
  BY LenProperties
<1>2. PICK r : r = f[Len(s)]
  OBVIOUS
<1>3. r \in Readings
  BY <1>1, <1>2 DEF IsReading
<1>4. KnowsAll(s, Len(s), r)
  BY <1>1, <1>2, KnowsWhole
<1>5. p[1] \in 0 .. Len(s)
  BY <1>1, PartsApart
<1>6. p[1] <= Len(s) /\ Len(s) < p[2]
  BY <1>1, <1>5
<1>7. Knows(s, p, n, Len(s), r)
  BY <1>4, <1>6 DEF KnowsAll
<1>8. /\ Part(s, p) = Seen(s, p, Len(s)) /\ Len(Part(s, p)) = Len(s) - p[1]
      /\ (Part(s, p) = <<>> <=> Len(s) - p[1] = 0)
  BY <1>1, KnowsPart
<1>9. /\ Len(r.octets) = n /\ n <= Octets /\ r.digits = Len(s) - p[1]
      /\ Seen(s, p, Len(s)) \in Seq(Digits) /\ Leads(s, p, n)
      /\ n < Octets => /\ r.value = Number(Seen(s, p, Len(s))) /\ r.prefix = Bits
                       /\ r.digits <= OctetDigits /\ r.value <= MaxOctet
      /\ n = Octets => (Number(Seen(s, p, Len(s))) < WordSize => r.prefix = Number(Seen(s, p, Len(s))))
  BY <1>7 DEF Knows
<1>10. Number(Part(s, p)) \in Nat
  <2>1. PICK t : t = Part(s, p) /\ t \in Seq(Digits)
    BY <1>8, <1>9
  <2>2. PICK g \in [0 .. Len(t) -> Nat] : Number(t) = g[Len(t)]
    BY <2>1, NumberSteps
  <2>3. Len(t) \in 0 .. Len(t)
    BY <2>1, LenProperties
  <2> QED BY <2>1, <2>2, <2>3
<1> HIDE <1>7
<1> QED BY <1>2, <1>3, <1>4, <1>8, <1>9, <1>10

\* A prefix that does not wrap is less than what an unsigned int holds.
LEMMA PrefixFits ==
  ASSUME NEW s \in Seq(TargetKeys), NEW p \in Parts(s, Marks), p[2] = Len(s) + 1,
         Before(p, Parts(s, Marks)) = Octets, Leads(s, p, Octets),
         Part(s, p) \in Seq(Digits), Number(Part(s, p)) \in Nat, ~Wraps(s)
  PROVE  Number(Part(s, p)) < WordSize
<1>1. Len(s) \in Nat
  BY LenProperties
<1>2. s[p[1]] = "/"
  <2>1. Octets # 0 /\ ~(Octets < Octets)
    BY Widths
  <2> QED BY <2>1 DEF Leads
<1>3. p = <<p[1], p[2]>> /\ IsPart(s, Marks, p[1], p[2])
  BY <1>1, PartPlaces
<1>4. PICK a, b : a = p[1] /\ b = p[2] /\ p = <<a, b>> /\ IsPart(s, Marks, a, b)
  BY <1>3
<1>5. /\ a \in 0 .. Len(s) /\ b \in 1 .. Len(s) + 1 /\ a < b /\ b = Len(s) + 1
      /\ \A k \in 1 .. Len(s) : a < k /\ k < b => s[k] \notin Marks
  BY <1>4 DEF IsPart
<1>6. \A k \in 1 .. Len(s) : a < k /\ k < b => s[k] # "/"
  BY <1>5 DEF Marks
<1>7. IsPart(s, {"/"}, a, b)
  <2>1. a > 0 => s[a] \in {"/"}
    BY <1>2, <1>4
  <2>2. b <= Len(s) => s[b] \in {"/"}
    BY <1>1, <1>5
  <2> QED BY <1>5, <1>6, <2>1, <2>2 DEF IsPart
<1>8. p \in Parts(s, {"/"})
  BY <1>1, <1>4, <1>7, PartPlaces
<1>9. \A i \in 1 .. Len(Part(s, p)) : Part(s, p)[i] \in Digits
  BY ElementOfSeq
<1>10. p[1] > 0
  <2>1. ASSUME a = 0
        PROVE  FALSE
    <3>1. p[1] = 0
      BY <1>4, <2>1
    <3>2. Before(p, Parts(s, Marks)) = Cardinality(Ended(Parts(s, Marks), 0))
      BY <1>1, <3>1, RankIsNumber
    <3>3. Octets = 0
      BY <1>1, <3>2, EndedCount, FS_EmptySet
    <3> QED BY <3>3, Widths
  <2> QED BY <1>4, <1>5, <2>1
<1>11. ~(Number(Part(s, p)) >= WordSize)
  BY <1>8, <1>9, <1>10 DEF Wraps
<1> QED BY <1>11, Widths

\* The parts before the last are octets that were read.
LEMMA KnowsOthers ==
  ASSUME NEW s \in Seq(TargetKeys), NEW r, KnowsAll(s, Len(s), r), NEW p \in Parts(s, Marks),
         p[2] = Len(s) + 1, NEW q \in Parts(s, Marks), q # p
  PROVE  LET k == Before(q, Parts(s, Marks)) IN
         /\ k \in Nat /\ k < Before(p, Parts(s, Marks)) /\ BlockPart(s, q, k)
         /\ r.octets[k + 1] = Number(Part(s, q))
<1>1. Len(s) \in Nat
  BY LenProperties
<1>2. /\ q[1] \in 0 .. Len(s) /\ q[2] \in 1 .. Len(s) + 1 /\ q[1] < q[2]
      /\ p[1] \in 0 .. Len(s) /\ p[1] < p[2]
      /\ p[1] < q[1] => p[2] <= q[1]
      /\ q[1] = p[1] => q = p
      /\ q[2] = p[2] => q = p
  BY <1>1, PartsApart
<1>3. q[2] <= Len(s) /\ q[1] < p[1]
  BY <1>1, <1>2
<1>4. PICK k : k = Before(q, Parts(s, Marks))
  OBVIOUS
<1>5. k \in Nat /\ k < Before(p, Parts(s, Marks))
  BY <1>1, <1>3, <1>4, BeforeGrows, RankIsNumber
<1>6. IsOctet(s, q, k) /\ r.octets[k + 1] = Number(Part(s, q))
  BY <1>3, <1>4 DEF KnowsAll
<1>7. /\ k < Octets /\ Part(s, q) \in Seq(Digits) /\ Part(s, q) # <<>> /\ Leads(s, q, k)
      /\ Len(Part(s, q)) <= OctetDigits /\ Number(Part(s, q)) <= MaxOctet
  BY <1>6 DEF IsOctet
<1>8. \A i \in 1 .. Len(Part(s, q)) : Part(s, q)[i] \in Digits
  BY <1>7, ElementOfSeq
<1>9. k # Octets
  BY <1>5, <1>7, Widths
<1>10. BlockPart(s, q, k)
  BY <1>7, <1>8, <1>9 DEF BlockPart
<1> QED BY <1>4, <1>5, <1>6, <1>10

\* Octets that are read, and the prefix that is or the widest
BlockNumbers(s, o, x) ==
  LET F == Parts(s, Marks) IN
  /\ \A k \in 0 .. Octets - 1 : o[k + 1] = Number(Part(s, Nth(k, F)))
  /\ x = IF Cardinality(F) > Octets THEN Number(Part(s, Nth(Octets, F))) ELSE Bits

\* parse_cidr takes blocks, with their numbers, and nothing else.
LEMMA CidrIsBlock ==
  ASSUME NEW s \in Seq(TargetKeys), ~Wraps(s)
  PROVE  /\ ~IsBlock(s) => ParseCidr(s) = NoCidr
         /\ IsBlock(s) => \E o : \E x \in 0 .. Bits : ParseCidr(s) = Cidr(o, x) /\ BlockNumbers(s, o, x)
<1> DEFINE F == Parts(s, Marks)
<1>1. Len(s) \in Nat /\ Len(s) \in 0 .. Len(s)
  BY LenProperties
<1>2. PICK f : IsReading(f, s) /\ TargetScanned(s) = f[Len(s)]
  BY TargetSteps DEF IsReading
<1>3. PICK end, all : end = TargetScanned(s) /\ all = IF AtPrefix(end) THEN end ELSE OctetEnds(end)
  OBVIOUS
<1>4. /\ (~end.ok \/ ~all.ok \/ end.digits = 0 \/ Len(all.octets) # Octets \/ all.prefix > Bits) =>
           ParseCidr(s) = NoCidr
      /\ ~(~end.ok \/ ~all.ok \/ end.digits = 0 \/ Len(all.octets) # Octets \/ all.prefix > Bits) =>
           ParseCidr(s) = Cidr(all.octets, all.prefix)
  BY <1>3 DEF ParseCidr
<1>5. PICK p \in F : /\ p[1] \in 0 .. Len(s) /\ p[2] = Len(s) + 1 /\ Before(p, F) \in Nat
                     /\ Cardinality(F) = Before(p, F) + 1
  BY LastPart
<1>6. PICK n : n = Before(p, F) /\ n \in Nat /\ Cardinality(F) = n + 1
  BY <1>5
<1>7. IsBlock(s) <=> BlockParts(s)
  BY BlockIsParts
<1>8. CASE ~end.ok
  <2>1. ~BlockParts(s)
    BY <1>1, <1>2, <1>3, <1>8, BlockIsTaken
  <2> QED BY <1>4, <1>7, <1>8, <2>1
<1>9. CASE end.ok
  <2>1. f[Len(s)] = end /\ f[Len(s)].ok
    BY <1>2, <1>3, <1>9
  <2>2. /\ end \in Readings /\ KnowsAll(s, Len(s), end)
        /\ Len(end.octets) = n /\ n <= Octets /\ Leads(s, p, n)
        /\ Part(s, p) \in Seq(Digits) /\ Number(Part(s, p)) \in Nat
        /\ end.digits = Len(Part(s, p)) /\ (end.digits = 0 <=> Part(s, p) = <<>>)
        /\ n < Octets => /\ end.value = Number(Part(s, p)) /\ end.prefix = Bits
                         /\ end.digits <= OctetDigits /\ end.value <= MaxOctet
        /\ n = Octets => (Number(Part(s, p)) < WordSize => end.prefix = Number(Part(s, p)))
    BY <1>2, <1>5, <1>6, <2>1, KnowsLast
  <2>3. \A q \in F : q # p => /\ Before(q, F) \in Nat /\ Before(q, F) < n
                              /\ BlockPart(s, q, Before(q, F))
                              /\ end.octets[Before(q, F) + 1] = Number(Part(s, q))
    BY <1>5, <1>6, <2>2, KnowsOthers
  <2>4. BlockParts(s) <=> n + 1 \in {Octets, Octets + 1} /\ BlockPart(s, p, n)
    BY <1>6, <2>3 DEF BlockParts
  <2>5. \A i \in 1 .. Len(Part(s, p)) : Part(s, p)[i] \in Digits
    BY <2>2, ElementOfSeq
  <2>6. \A k \in 0 .. n : Nth(k, F) \in F /\ Before(Nth(k, F), F) = k
    BY <1>1, <1>6, NthPart
  <2>7. Nth(n, F) = p
    BY <1>1, <1>6, NthPart
  <2>8. ASSUME NEW k \in 0 .. n - 1
        PROVE  end.octets[k + 1] = Number(Part(s, Nth(k, F)))
    <3>1. k \in 0 .. n /\ k # n
      BY <1>6
    <3>2. Nth(k, F) # p
      BY <1>6, <2>6, <3>1
    <3> QED BY <2>3, <2>6, <3>1, <3>2
  <2>9. end.digits \in Nat /\ end.octets \in Seq(Nat) /\ end.value \in Nat
    BY <2>2 DEF Readings
  <2>10. CASE n = Octets
    <3>1. all = end
      BY <1>3, <2>2, <2>10 DEF AtPrefix
    <3>2. Number(Part(s, p)) < WordSize
      BY <1>5, <1>6, <2>2, <2>10, PrefixFits
    <3>3. end.prefix = Number(Part(s, p))
      BY <2>2, <2>10, <3>2
    <3>4. Octets \in Nat /\ Bits \in Nat /\ ~(n < Octets)
      BY <2>10, Widths
    <3>5. BlockPart(s, p, n) <=> end.digits # 0 /\ Number(Part(s, p)) <= Bits
      BY <2>2, <2>5, <2>10, <3>4 DEF BlockPart
    <3>6. BlockParts(s) <=> end.digits # 0 /\ Number(Part(s, p)) <= Bits
      BY <2>4, <2>10, <3>5
    <3>7. Number(Part(s, p)) <= Bits <=> ~(end.prefix > Bits)
      BY <2>2, <3>3, <3>4
    <3>8. ~BlockParts(s) => ParseCidr(s) = NoCidr
      BY <1>4, <3>1, <3>6, <3>7
    <3>9. BlockParts(s) => ParseCidr(s) = Cidr(end.octets, end.prefix) /\ end.prefix \in 0 .. Bits
      <4>1. ASSUME BlockParts(s)
            PROVE  ParseCidr(s) = Cidr(end.octets, end.prefix) /\ end.prefix \in 0 .. Bits
        <5>1. Len(end.octets) = Octets /\ end.digits # 0 /\ ~(end.prefix > Bits)
          BY <2>2, <2>10, <3>6, <3>7, <4>1
        <5>2. ParseCidr(s) = Cidr(end.octets, end.prefix)
          BY <1>4, <1>9, <3>1, <5>1
        <5> QED BY <2>2, <3>3, <3>4, <3>6, <4>1, <5>2
      <4> QED BY <4>1
    <3>10. BlockNumbers(s, end.octets, end.prefix)
      <4>1. Cardinality(F) > Octets
        BY <1>6, <2>10, <3>4
      <4> QED BY <2>7, <2>8, <2>10, <3>3, <4>1 DEF BlockNumbers
    <3>11. ASSUME IsBlock(s)
           PROVE  \E o : \E x \in 0 .. Bits : ParseCidr(s) = Cidr(o, x) /\ BlockNumbers(s, o, x)
      <4>1. PICK a, b : a = end.octets /\ b = end.prefix
        OBVIOUS
      <4>2. ParseCidr(s) = Cidr(a, b) /\ b \in 0 .. Bits /\ BlockNumbers(s, a, b)
        BY <1>7, <3>9, <3>10, <3>11, <4>1
      <4> QED BY <4>2, Zenon
    <3> QED BY <1>7, <3>8, <3>11
  <2>11. CASE n < Octets
    <3>1. all = [octets |-> Append(end.octets, end.value), value |-> 0, digits |-> 0,
                 prefix |-> end.prefix, ok |-> end.digits > 0]
      <4>1. ~AtPrefix(end)
        BY <1>6, <2>2, <2>11, Widths DEF AtPrefix
      <4> QED BY <1>3, <2>2, <4>1, OctetIsEnded
    <3>2. PICK o : o = Append(end.octets, end.value)
      OBVIOUS
    <3>3. all.octets = o /\ all.prefix = Bits /\ (all.ok <=> end.digits > 0)
      BY <2>2, <2>11, <3>1, <3>2
    <3>4. Len(o) = n + 1 /\ o[n + 1] = Number(Part(s, p)) /\ \A k \in 1 .. n : o[k] = end.octets[k]
      BY <2>2, <2>9, <2>11, <3>2, AppendProperties
    <3>5. Octets \in Nat /\ Bits \in Nat /\ n # Octets
      BY <1>6, <2>11, Widths
    <3>6. BlockPart(s, p, n) <=> end.digits # 0
      BY <2>2, <2>5, <2>11, <3>5 DEF BlockPart
    <3>7. n + 1 \in {Octets, Octets + 1} <=> n + 1 = Octets
      BY <1>6, <3>5
    <3>8. BlockParts(s) <=> n + 1 = Octets /\ end.digits # 0
      BY <2>4, <3>6, <3>7
    <3>9. end.digits > 0 <=> end.digits # 0
      BY <2>9
    <3>10. ~BlockParts(s) => ParseCidr(s) = NoCidr
      BY <1>4, <3>3, <3>4, <3>8, <3>9
    <3>11. BlockParts(s) => ParseCidr(s) = Cidr(o, Bits)
      <4>1. ~(Bits > Bits)
        BY <3>5
      <4> QED BY <1>4, <1>9, <3>3, <3>4, <3>8, <3>9, <4>1
    <3>12. BlockParts(s) => BlockNumbers(s, o, Bits)
      <4>1. ASSUME BlockParts(s)
            PROVE  BlockNumbers(s, o, Bits)
        <5>1. n + 1 = Octets
          BY <3>8, <4>1
        <5>2. ~(Cardinality(F) > Octets)
          BY <1>6, <3>5, <5>1
        <5>3. ASSUME NEW k \in 0 .. Octets - 1
              PROVE  o[k + 1] = Number(Part(s, Nth(k, F)))
          <6>1. k \in 0 .. n - 1 \/ k = n
            BY <1>6, <3>5, <5>1
          <6>2. CASE k = n
            BY <2>7, <3>4, <6>2
          <6>3. CASE k \in 0 .. n - 1
            <7>1. k + 1 \in 1 .. n
              BY <1>6, <6>3
            <7> QED BY <2>8, <3>4, <6>3, <7>1
          <6> QED BY <6>1, <6>2, <6>3
        <5> QED BY <5>2, <5>3 DEF BlockNumbers
      <4> QED BY <4>1
    <3>13. Bits \in 0 .. Bits
      BY <3>5
    <3>14. ASSUME IsBlock(s)
           PROVE  \E y : \E x \in 0 .. Bits : ParseCidr(s) = Cidr(y, x) /\ BlockNumbers(s, y, x)
      <4>1. ParseCidr(s) = Cidr(o, Bits) /\ Bits \in 0 .. Bits /\ BlockNumbers(s, o, Bits)
        BY <1>7, <3>11, <3>12, <3>13, <3>14
      <4> QED BY <4>1, Zenon
    <3> QED BY <1>7, <3>10, <3>14
  <2>12. n = Octets \/ n < Octets
    BY <1>6, <2>2, Widths
  <2> QED BY <2>10, <2>11, <2>12
<1> QED BY <1>8, <1>9

-----------------------------------------------------------------------------
(* Which addresses a block covers                                          *)

\* A number is its quotient and its remainder.
LEMMA Division ==
  ASSUME NEW w \in Nat, w > 0, NEW b \in Nat
  PROVE  b = (b \div w) * w + (b % w) /\ b % w \in 0 .. w - 1
<1>1. b = (b \div w) * w + (b % w)
  BY Z3
<1>2. b % w \in 0 .. w - 1
  OBVIOUS
<1> QED BY <1>1, <1>2

\* A bit of an address is one of one of its numbers.
LEMMA BitsAreOctets ==
  /\ \A b \in 0 .. Bits - 1 :
       /\ b \div OctetBits \in 0 .. Octets - 1 /\ b % OctetBits \in 0 .. OctetBits - 1
       /\ b = (b \div OctetBits) * OctetBits + (b % OctetBits)
  /\ \A k \in 0 .. Octets - 1, c \in 0 .. OctetBits - 1 :
       /\ k * OctetBits + c \in 0 .. Bits - 1
       /\ (k * OctetBits + c) \div OctetBits = k /\ (k * OctetBits + c) % OctetBits = c
<1>1. PICK m, w : m = Octets /\ w = OctetBits /\ m \in Nat /\ w \in Nat /\ w > 0
  BY Widths
<1>2. Bits = m * w /\ m * w \in Nat
  BY <1>1 DEF Bits
<1>3. ASSUME NEW b \in 0 .. m * w - 1
      PROVE  /\ b \div w \in 0 .. m - 1 /\ b % w \in 0 .. w - 1
             /\ b = (b \div w) * w + (b % w)
  <2>1. b \div w \in 0 .. m - 1
    BY <1>1, <1>2
  <2>2. b \in Nat
    BY <1>2
  <2>3. b = (b \div w) * w + (b % w) /\ b % w \in 0 .. w - 1
    BY <1>1, <2>2, Division
  <2> QED BY <2>1, <2>3
<1>4. ASSUME NEW k \in 0 .. m - 1, NEW c \in 0 .. w - 1
      PROVE  k * w + c \in 0 .. m * w - 1 /\ (k * w + c) \div w = k /\ (k * w + c) % w = c
  <2>1. k * w \in Nat /\ k * w + w <= m * w
    <3>1. k + 1 <= m
      BY <1>1
    <3>2. (k + 1) * w <= m * w
      BY <1>1, <3>1
    <3>3. (k + 1) * w = k * w + w
      BY <1>1
    <3>4. k * w \in Nat
      BY <1>1
    <3> QED BY <3>2, <3>3, <3>4
  <2>2. k * w + c \in 0 .. m * w - 1
    BY <1>1, <1>2, <2>1
  <2>3. (k * w + c) \div w = k
    BY <1>1
  <2>4. (k * w + c) % w = c
    BY <1>1
  <2> QED BY <2>2, <2>3, <2>4
<1> QED BY <1>1, <1>2, <1>3, <1>4

\* The mask is of the leading bits.
LEMMA MaskIsLeading ==
  ASSUME NEW x \in 0 .. Bits, NEW b \in 0 .. Bits - 1
  PROVE  Mask(x)[b] = (b < x)
<1>1. Bits \in Nat
  BY Widths
<1>2. CASE x = 0
  <2>1. Mask(x)[b] = FALSE
    BY <1>2 DEF Mask, NoBits
  <2>2. (b < x) = FALSE
    BY <1>1, <1>2
  <2> QED BY <2>1, <2>2, Zenon
<1>3. CASE x # 0
  <2> DEFINE ones == [c \in 0 .. Bits - 1 |-> TRUE]
  <2>1. Mask(x)[b] = (b + (Bits - x) < Bits /\ ones[b + (Bits - x)])
    BY <1>3 DEF Mask, ShiftedLeft
  <2>2. b + (Bits - x) < Bits => b + (Bits - x) \in 0 .. Bits - 1
    BY <1>1
  <2>3. b + (Bits - x) < Bits => ones[b + (Bits - x)]
    BY <2>2
  <2> HIDE DEF ones
  <2>4. b + (Bits - x) < Bits <=> b < x
    BY <1>1
  <2> QED BY <2>1, <2>3, <2>4
<1> QED BY <1>2, <1>3

\* The addresses let through are those of the block.
LEMMA BlockIsCovered ==
  ASSUME NEW s, NEW o, NEW x \in 0 .. Bits, BlockNumbers(s, o, x)
  PROVE  {y \in IPv4 : And(y, Cidr(o, x).netmask) = Cidr(o, x).network} = Block(s)
<1> DEFINE F == Parts(s, Marks)
           number(k) == Number(Part(s, Nth(k, F)))
           prefix == IF Cardinality(F) > Octets THEN number(Octets) ELSE Bits
<1>1. Cidr(o, x).netmask = Mask(x) /\ Cidr(o, x).network = And(Address(o), Mask(x))
  BY DEF Cidr
<1>2. x = prefix /\ \A k \in 0 .. Octets - 1 : o[k + 1] = number(k)
  BY DEF BlockNumbers
<1>3. Block(s) = {y \in IPv4 : \A k \in 0 .. Octets - 1 : \A b \in 0 .. OctetBits - 1 :
                    k * OctetBits + b < prefix => y[k * OctetBits + b] = Bit(number(k), b)}
  BY DEF Block, Marks
<1> HIDE DEF number, prefix
<1>4. \A b \in 0 .. Bits - 1 :
        Address(o)[b] = Bit(o[b \div OctetBits + 1], b % OctetBits)
  BY DEF Address
<1>5. \A k, b : Bit(k, b) \in BOOLEAN
  BY DEF Bit
<1>6. ASSUME NEW y \in IPv4
      PROVE  And(y, Mask(x)) = And(Address(o), Mask(x)) <=>
               \A k \in 0 .. Octets - 1 : \A b \in 0 .. OctetBits - 1 :
                 k * OctetBits + b < prefix => y[k * OctetBits + b] = Bit(number(k), b)
  <2>1. y \in [0 .. Bits - 1 -> BOOLEAN]
    BY DEF IPv4
  <2>2. PICK g, h : g = And(y, Mask(x)) /\ h = And(Address(o), Mask(x))
    OBVIOUS
  <2>3. /\ g = [b \in 0 .. Bits - 1 |-> y[b] /\ Mask(x)[b]]
        /\ h = [b \in 0 .. Bits - 1 |-> Address(o)[b] /\ Mask(x)[b]]
    BY <2>2 DEF And
  <2>4. g = h <=> \A b \in 0 .. Bits - 1 : g[b] = h[b]
    BY <2>3
  <2>5. \A b \in 0 .. Bits - 1 : g[b] = (y[b] /\ b < x)
    BY <2>3, MaskIsLeading
  <2>6. \A b \in 0 .. Bits - 1 : h[b] = (Address(o)[b] /\ b < x)
    BY <2>3, MaskIsLeading
  <2>7. ASSUME NEW b \in 0 .. Bits - 1
        PROVE  g[b] = h[b] <=> (b < x => y[b] = Address(o)[b])
    <3>1. y[b] \in BOOLEAN /\ Address(o)[b] \in BOOLEAN
      BY <1>4, <1>5, <2>1
    <3>2. g[b] = (y[b] /\ b < x) /\ h[b] = (Address(o)[b] /\ b < x)
      BY <2>5, <2>6
    <3>3. CASE b < x
      BY <3>1, <3>2, <3>3, Zenon
    <3>4. CASE ~(b < x)
      BY <3>1, <3>2, <3>4, Zenon
    <3> QED BY <3>3, <3>4
  <2>8. g = h <=> \A b \in 0 .. Bits - 1 : b < x => y[b] = Address(o)[b]
    BY <2>4, <2>7
  <2>9. ASSUME NEW k \in 0 .. Octets - 1, NEW b \in 0 .. OctetBits - 1
        PROVE  /\ k * OctetBits + b \in 0 .. Bits - 1
               /\ Address(o)[k * OctetBits + b] = Bit(number(k), b)
    <3>1. PICK c : c = k * OctetBits + b
      OBVIOUS
    <3>2. c \in 0 .. Bits - 1 /\ c \div OctetBits = k /\ c % OctetBits = b
      BY <3>1, BitsAreOctets
    <3>3. Address(o)[c] = Bit(o[c \div OctetBits + 1], c % OctetBits)
      BY <1>4, <3>2
    <3>4. Address(o)[c] = Bit(o[k + 1], b)
      BY <3>2, <3>3
    <3> QED BY <1>2, <3>1, <3>2, <3>4
  <2>10. ASSUME NEW b \in 0 .. Bits - 1
         PROVE  \E k \in 0 .. Octets - 1 : \E c \in 0 .. OctetBits - 1 : b = k * OctetBits + c
    <3>1. PICK k, c : k = b \div OctetBits /\ c = b % OctetBits
      OBVIOUS
    <3>2. k \in 0 .. Octets - 1 /\ c \in 0 .. OctetBits - 1 /\ b = k * OctetBits + c
      BY <3>1, BitsAreOctets, Zenon
    <3> QED BY <3>2, Zenon
  <2>11. (\A b \in 0 .. Bits - 1 : b < x => y[b] = Address(o)[b]) <=>
           \A k \in 0 .. Octets - 1 : \A b \in 0 .. OctetBits - 1 :
             k * OctetBits + b < prefix => y[k * OctetBits + b] = Bit(number(k), b)
    <3>1. ASSUME \A b \in 0 .. Bits - 1 : b < x => y[b] = Address(o)[b],
                 NEW k \in 0 .. Octets - 1, NEW b \in 0 .. OctetBits - 1,
                 k * OctetBits + b < prefix
          PROVE  y[k * OctetBits + b] = Bit(number(k), b)
      <4>1. PICK c : c = k * OctetBits + b
        OBVIOUS
      <4>2. c \in 0 .. Bits - 1 /\ Address(o)[c] = Bit(number(k), b) /\ c < x
        BY <1>2, <2>9, <3>1, <4>1
      <4> QED BY <3>1, <4>1, <4>2
    <3>2. ASSUME \A k \in 0 .. Octets - 1 : \A b \in 0 .. OctetBits - 1 :
                   k * OctetBits + b < prefix => y[k * OctetBits + b] = Bit(number(k), b),
                 NEW b \in 0 .. Bits - 1, b < x
          PROVE  y[b] = Address(o)[b]
      <4>1. PICK k \in 0 .. Octets - 1, c \in 0 .. OctetBits - 1 : b = k * OctetBits + c
        BY <2>10
      <4>2. y[b] = Bit(number(k), c)
        BY <1>2, <3>2, <4>1
      <4>3. Address(o)[b] = Bit(number(k), c)
        BY <2>9, <4>1
      <4> QED BY <4>2, <4>3
    <3> QED BY <3>1, <3>2
  <2> QED BY <2>2, <2>8, <2>11
<1> QED BY <1>1, <1>3, <1>6

\* A name is what a hostname may be.
LEMMA HostnameIsName ==
  ASSUME NEW s \in Seq(TargetKeys), Len(s) < TargetSize
  PROVE  ValidHostname(s) <=> IsName(s)
<1>1. Len(s) \in Nat
  BY LenProperties
<1>2. Len(s) <= TargetSize - 1
  BY <1>1, Widths
<1>3. ASSUME NEW i \in 1 .. Len(s)
      PROVE  s[i] \in Digits \union {"a", "."} <=> s[i] \notin {"_", "/"}
  <2>1. s[i] \in TargetKeys
    BY ElementOfSeq
  <2> QED BY <2>1, NoDigits DEF TargetKeys
<1>4. (\A i \in 1 .. Len(s) : s[i] \in Digits \union {"a", "."}) <=>
        ~ \E i \in 1 .. Len(s) : s[i] \in {"_", "/"}
  BY <1>3
<1>5. s[1] # "." /\ s[Len(s)] # "." <=> "." \notin {s[1], s[Len(s)]}
  OBVIOUS
<1> QED BY <1>2, <1>4, <1>5 DEF ValidHostname, IsName

\* What a scope covers and takes is what was written.
LEMMA TargetIsWritten ==
  ASSUME use = "target" => text \in Seq(TargetKeys) /\ Len(text) < TargetSize
  PROVE  TargetAsWritten
<1> SUFFICES ASSUME use = "target", text # <<>>, ~Wraps(text)
             PROVE  LET read == Boundary(text) IN
                    /\ read.accepted <=> IsBlock(text) \/ IsName(text)
                    /\ read.addresses = IF IsBlock(text) THEN Block(text) ELSE {}
                    /\ read.names = IF IsName(text) /\ ~IsBlock(text) THEN {text} ELSE {}
  BY DEF TargetAsWritten
<1>1. PICK s : s = text /\ s \in Seq(TargetKeys) /\ Len(s) < TargetSize /\ ~Wraps(s)
  OBVIOUS
<1>2. ValidHostname(s) <=> IsName(s)
  BY <1>1, HostnameIsName
<1>3. CASE IsBlock(s)
  <2>1. PICK o : \E x \in 0 .. Bits : ParseCidr(s) = Cidr(o, x) /\ BlockNumbers(s, o, x)
    BY <1>1, <1>3, CidrIsBlock
  <2>2. PICK x \in 0 .. Bits : ParseCidr(s) = Cidr(o, x) /\ BlockNumbers(s, o, x)
    BY <2>1
  <2>3. Cidr(o, x).cidr = TRUE
    BY DEF Cidr
  <2>4. {y \in IPv4 : And(y, Cidr(o, x).netmask) = Cidr(o, x).network} = Block(s)
    BY <2>2, BlockIsCovered
  <2>5. Boundary(s) = [accepted |-> TRUE, names |-> {}, addresses |-> Block(s)]
    BY <2>2, <2>3, <2>4 DEF Boundary
  <2> QED BY <1>1, <1>3, <2>5
<1>4. CASE ~IsBlock(s)
  <2>1. ParseCidr(s) = NoCidr /\ NoCidr.cidr = FALSE
    BY <1>1, <1>4, CidrIsBlock DEF NoCidr
  <2>2. CASE IsName(s)
    <3>1. Boundary(s) = [accepted |-> TRUE, addresses |-> {}, names |-> {s}]
      BY <1>2, <2>1, <2>2 DEF Boundary
    <3> QED BY <1>1, <1>4, <2>2, <3>1
  <2>3. CASE ~IsName(s)
    <3>1. Boundary(s) = [accepted |-> FALSE, addresses |-> {}, names |-> {}]
      BY <1>2, <2>1, <2>3 DEF Boundary
    <3> QED BY <1>1, <1>4, <2>3, <3>1
  <2> QED BY <2>2, <2>3
<1> QED BY <1>3, <1>4

-----------------------------------------------------------------------------
(* How a text is cut                                                       *)

\* The first m characters of a text, or as many as it has
Cut(t, m) == SubSeq(t, 1, IF Len(t) < m THEN Len(t) ELSE m)

\* They are its first.
LEMMA CutHolds ==
  ASSUME NEW S, NEW t \in Seq(S), NEW m \in Nat
  PROVE  /\ Cut(t, m) \in Seq(S) /\ Len(Cut(t, m)) \in Nat
         /\ Len(Cut(t, m)) = IF Len(t) < m THEN Len(t) ELSE m
         /\ \A k \in 1 .. Len(Cut(t, m)) : Cut(t, m)[k] = t[k]
         /\ Len(t) <= m => Cut(t, m) = t
<1>1. Len(t) \in Nat /\ \A k \in 1 .. Len(t) : t[k] \in S
  BY LenProperties, ElementOfSeq
<1>2. PICK n : n = IF Len(t) < m THEN Len(t) ELSE m
  OBVIOUS
<1>3. n \in Nat /\ n <= Len(t) /\ 1 \in Int /\ n \in Int
  BY <1>1, <1>2
<1>4. \A k \in 1 .. n : t[k] \in S
  BY <1>1, <1>3
<1>5. /\ SubSeq(t, 1, n) \in Seq(S)
      /\ Len(SubSeq(t, 1, n)) = IF 1 <= n THEN n - 1 + 1 ELSE 0
      /\ \A k \in 1 .. n - 1 + 1 : SubSeq(t, 1, n)[k] = t[1 + k - 1]
  BY <1>3, <1>4, SubSeqProperties
<1>6. Len(SubSeq(t, 1, n)) = n
  BY <1>3, <1>5
<1>7. \A k \in 1 .. n : SubSeq(t, 1, n)[k] = t[k]
  <2>1. ASSUME NEW k \in 1 .. n
        PROVE  SubSeq(t, 1, n)[k] = t[k]
    <3>1. k \in 1 .. n - 1 + 1 /\ 1 + k - 1 = k
      BY <1>3
    <3> QED BY <1>5, <3>1
  <2> QED BY <2>1
<1>8. Cut(t, m) = SubSeq(t, 1, n)
  BY <1>2 DEF Cut
<1>9. Len(t) <= m => Cut(t, m) = t
  <2>1. SubSeq(t, 1, Len(t)) = t
    BY SubSeqFull
  <2>2. Len(t) <= m => n = Len(t)
    BY <1>1, <1>2
  <2> QED BY <1>8, <2>1, <2>2
<1> QED BY <1>2, <1>3, <1>5, <1>6, <1>7, <1>8, <1>9

\* Two texts together are cut to the first of them and what has room of the other.
LEMMA CutConcat ==
  ASSUME NEW S, NEW t \in Seq(S), NEW r \in Seq(S), NEW m \in Nat
  PROVE  Cut(t \o r, m) = Cut(t, m) \o Cut(r, m - Len(Cut(t, m)))
<1>1. PICK a, b : a = Len(t) /\ b = Len(r) /\ a \in Nat /\ b \in Nat
  BY LenProperties
<1>2. PICK w : w = t \o r /\ w \in Seq(S) /\ Len(w) = a + b
  BY <1>1, ConcatProperties
<1>3. \A k \in 1 .. a + b : w[k] = IF k <= a THEN t[k] ELSE r[k - a]
  BY <1>1, <1>2, ConcatProperties
<1>4. PICK c : /\ c = Cut(t, m) /\ c \in Seq(S) /\ Len(c) = (IF a < m THEN a ELSE m)
               /\ \A k \in 1 .. Len(c) : c[k] = t[k]
  BY <1>1, CutHolds
<1>5. Len(c) \in Nat /\ m - Len(c) \in Nat
  BY <1>1, <1>4
<1>6. PICK d : /\ d = Cut(r, m - Len(c)) /\ d \in Seq(S)
               /\ Len(d) = (IF b < m - Len(c) THEN b ELSE m - Len(c))
               /\ \A k \in 1 .. Len(d) : d[k] = r[k]
  BY <1>1, <1>5, CutHolds
<1>7. PICK e : /\ e = Cut(w, m) /\ e \in Seq(S) /\ Len(e) = (IF a + b < m THEN a + b ELSE m)
               /\ \A k \in 1 .. Len(e) : e[k] = w[k]
  <2>1. PICK e : e = Cut(w, m)
    OBVIOUS
  <2>2. /\ e \in Seq(S) /\ Len(e) = (IF Len(w) < m THEN Len(w) ELSE m)
        /\ \A k \in 1 .. Len(e) : e[k] = w[k]
    BY <1>2, <2>1, CutHolds
  <2> QED BY <1>2, <2>1, <2>2
<1>8. /\ c \o d \in Seq(S) /\ Len(c \o d) = Len(c) + Len(d)
      /\ \A k \in 1 .. Len(c) + Len(d) : (c \o d)[k] = IF k <= Len(c) THEN c[k] ELSE d[k - Len(c)]
  BY <1>4, <1>6, ConcatProperties
<1>9. Len(d) \in Nat /\ Len(e) \in Nat /\ Len(e) = Len(c) + Len(d)
  <2>1. PICK i, j, l : i = Len(c) /\ j = Len(d) /\ l = Len(e)
    OBVIOUS
  <2>2. /\ i = (IF a < m THEN a ELSE m) /\ j = (IF b < m - i THEN b ELSE m - i)
        /\ l = (IF a + b < m THEN a + b ELSE m)
    BY <1>4, <1>6, <1>7, <2>1
  <2>3. j \in Nat /\ l \in Nat /\ l = i + j
    <3>1. CASE a < m
      <4>1. i = a /\ m - i \in Nat /\ (a + b < m <=> b < m - i)
        BY <1>1, <2>2, <3>1
      <4>2. CASE b < m - i
        BY <1>1, <2>2, <4>1, <4>2
      <4>3. CASE ~(b < m - i)
        BY <1>1, <2>2, <4>1, <4>3
      <4> QED BY <4>2, <4>3
    <3>2. CASE ~(a < m)
      <4>1. i = m /\ m - i = 0 /\ ~(b < m - i) /\ ~(a + b < m)
        BY <1>1, <2>2, <3>2
      <4> QED BY <2>2, <4>1
    <3> QED BY <3>1, <3>2
  <2> QED BY <2>1, <2>3
<1>10. ASSUME NEW k \in 1 .. Len(e)
       PROVE  e[k] = (c \o d)[k]
  <2>1. k \in 1 .. a + b /\ e[k] = w[k]
    BY <1>1, <1>7
  <2>2. CASE k <= Len(c)
    <3>1. k \in 1 .. Len(c) /\ k <= a
      BY <1>1, <1>4, <1>5, <2>2
    <3> QED BY <1>3, <1>4, <1>8, <1>9, <2>1, <2>2, <3>1
  <2>3. CASE ~(k <= Len(c))
    <3>1. Len(c) = a /\ k - a \in 1 .. Len(d) /\ ~(k <= a)
      <4>1. PICK i, j : i = Len(c) /\ j = Len(d) /\ i \in Nat /\ j \in Nat
        BY <1>5, <1>9
      <4>2. i = (IF a < m THEN a ELSE m) /\ k \in 1 .. i + j /\ ~(k <= i)
        BY <1>4, <1>9, <2>3, <4>1
      <4>3. j = (IF b < m - i THEN b ELSE m - i)
        BY <1>6, <4>1
      <4>4. i = a
        <5>1. CASE a < m
          BY <4>2, <5>1
        <5>2. CASE ~(a < m)
          <6>1. i = m /\ m - i = 0 /\ ~(b < m - i)
            BY <1>1, <4>2, <5>2
          <6>2. j = 0
            BY <4>3, <6>1
          <6> QED BY <4>1, <4>2, <6>2
        <5> QED BY <5>1, <5>2
      <4>5. k - a \in 1 .. j /\ ~(k <= a)
        BY <4>1, <4>2, <4>4
      <4> QED BY <4>1, <4>4, <4>5
    <3>2. e[k] = r[k - a] /\ d[k - a] = r[k - a]
      BY <1>3, <1>6, <2>1, <3>1
    <3>3. (c \o d)[k] = d[k - Len(c)]
      BY <1>8, <1>9, <2>3
    <3> QED BY <3>1, <3>2, <3>3
  <2> QED BY <2>2, <2>3
<1>11. e = c \o d
  BY <1>7, <1>8, <1>9, <1>10, SeqEqual
<1> QED BY <1>2, <1>4, <1>6, <1>7, <1>11

-----------------------------------------------------------------------------
(* How the strings of a file are found                                     *)

\* What the constants are
LEMMA StringWidths ==
  /\ StringMin \in Nat /\ StringMin > 0 /\ StringSize \in Nat /\ StringMin < StringSize
  /\ PreviewSize - 1 \in Nat /\ StringSize - 1 \in Nat /\ ChunkSize \in Nat /\ ChunkSize > 0
<1>1. /\ {FileSize, ChunkSize, StringMin, StringSize, PreviewSize} \subseteq Nat \ {0}
      /\ StringMin < StringSize
  BY InputsAssumption
<1>2. ChunkSize \in Nat \ {0} /\ StringMin \in Nat \ {0} /\ StringSize \in Nat \ {0}
  BY <1>1
<1>3. PreviewSize \in Nat \ {0}
  BY <1>1
<1> QED BY <1>1, <1>2, <1>3

\* The bytes of a file
LEMMA ByteKinds ==
  /\ Gap \in Printable /\ Printable \subseteq FileBytes /\ "unprintable" \in FileBytes
  /\ \A b \in FileBytes : b \notin Printable <=> b = "unprintable"
  BY DEF Gap, Printable, FileBytes

\* What an inspection has between two bytes
Inspections == [run : Seq(Printable), count : Nat, preview : Seq(Printable)]

\* A preview with another string
Apart(preview) ==
  IF preview # <<>> /\ PreviewSize - 1 - Len(preview) > 0 THEN Append(preview, Gap) ELSE preview
Joined(preview, run) == Apart(preview) \o Cut(run, PreviewSize - 1 - Len(Apart(preview)))

\* What RetainString makes of an inspection
LEMMA RetainIs ==
  ASSUME NEW r \in Inspections
  PROVE  /\ Len(r.run) < StringMin =>
              RetainString(r) = [run |-> <<>>, count |-> r.count, preview |-> r.preview]
         /\ ~(Len(r.run) < StringMin) =>
              RetainString(r) = [run |-> <<>>, count |-> r.count + 1,
                                 preview |-> Joined(r.preview, r.run)]
<1>1. ASSUME Len(r.run) < StringMin
      PROVE  RetainString(r) = [run |-> <<>>, count |-> r.count, preview |-> r.preview]
  <2>1. RetainString(r) = [r EXCEPT !.run = <<>>]
    BY <1>1 DEF RetainString
  <2>2. r = [run |-> r.run, count |-> r.count, preview |-> r.preview]
    BY DEF Inspections
  <2> QED BY <2>1, <2>2
<1>2. ASSUME ~(Len(r.run) < StringMin)
      PROVE  RetainString(r) = [run |-> <<>>, count |-> r.count + 1,
                                preview |-> Joined(r.preview, r.run)]
  <2>1. PICK a : a = Apart(r.preview)
    OBVIOUS
  <2>2. RetainString(r) =
          [run |-> <<>>, count |-> r.count + 1,
           preview |-> a \o SubSeq(r.run, 1, IF Len(r.run) < PreviewSize - 1 - Len(a) THEN Len(r.run)
                                             ELSE PreviewSize - 1 - Len(a))]
    BY <1>2, <2>1 DEF RetainString, Apart
  <2> QED BY <2>1, <2>2 DEF Joined, Cut
<1> QED BY <1>1, <1>2

\* A preview is what is joined so far, cut.
LEMMA JoinedIsCut ==
  ASSUME NEW u \in Seq(Printable), NEW run \in Seq(Printable)
  PROVE  Joined(Cut(u, PreviewSize - 1), run) =
           Cut((u \o (IF u = <<>> THEN <<>> ELSE <<Gap>>)) \o run, PreviewSize - 1)
<1>1. PICK m : m = PreviewSize - 1 /\ m \in Nat
  BY StringWidths
<1>2. PICK c : /\ c = Cut(u, m) /\ c \in Seq(Printable) /\ Len(c) \in Nat
               /\ Len(c) = (IF Len(u) < m THEN Len(u) ELSE m) /\ (Len(u) <= m => c = u)
  <2>1. PICK c : c = Cut(u, m)
    OBVIOUS
  <2>2. /\ c \in Seq(Printable) /\ Len(c) \in Nat
        /\ Len(c) = (IF Len(u) < m THEN Len(u) ELSE m) /\ (Len(u) <= m => c = u)
    BY <1>1, <2>1, CutHolds
  <2> QED BY <2>1, <2>2
<1>3. Len(u) \in Nat /\ (u = <<>> <=> Len(u) = 0) /\ Len(<<>>) = 0 /\ <<>> \in Seq(Printable)
  BY LenProperties, EmptySeq
<1>4. <<Gap>> \in Seq(Printable) /\ Len(<<Gap>>) = 1
  BY ByteKinds
<1>5. PICK g : g = (IF u = <<>> THEN <<>> ELSE <<Gap>>) /\ g \in Seq(Printable)
  BY <1>3, <1>4
<1>6. Apart(c) = Cut(u \o g, m)
  <2>1. Cut(u \o g, m) = c \o Cut(g, m - Len(c))
    BY <1>1, <1>2, <1>5, CutConcat
  <2>2. CASE u = <<>>
    <3>1. c = <<>> /\ g = <<>>
      BY <1>1, <1>2, <1>3, <1>5, <2>2
    <3>2. u \o g = <<>>
      BY <2>2, <3>1
    <3>3. Cut(<<>>, m) = <<>>
      BY <1>1, <1>2, <2>2, <3>1
    <3> QED BY <3>1, <3>2, <3>3 DEF Apart
  <2>3. CASE u # <<>> /\ Len(u) < m
    <3>1. c = u /\ g = <<Gap>> /\ m - Len(c) > 0 /\ m - Len(c) \in Nat /\ 1 <= m - Len(c)
      BY <1>1, <1>2, <1>3, <1>5, <2>3
    <3>2. Cut(g, m - Len(c)) = g
      BY <1>4, <1>5, <3>1, CutHolds
    <3>3. Apart(c) = Append(c, Gap)
      BY <1>1, <2>3, <3>1 DEF Apart
    <3>4. Append(c, Gap) = c \o <<Gap>>
      BY <1>2, ByteKinds, AppendIsConcat
    <3> QED BY <2>1, <3>1, <3>2, <3>3, <3>4
  <2>4. CASE u # <<>> /\ ~(Len(u) < m)
    <3>1. Len(c) = m /\ m - Len(c) = 0 /\ ~(m - Len(c) > 0)
      BY <1>1, <1>2, <2>4
    <3>2. Apart(c) = c
      BY <1>1, <3>1 DEF Apart
    <3>3. Cut(g, m - Len(c)) = <<>>
      <4>1. Cut(g, 0) \in Seq(Printable) /\ Len(Cut(g, 0)) = IF Len(g) < 0 THEN Len(g) ELSE 0
        BY <1>5, CutHolds
      <4>2. Len(g) \in Nat
        BY <1>5, LenProperties
      <4>3. Len(Cut(g, 0)) = 0
        BY <4>1, <4>2
      <4> QED BY <3>1, <4>1, <4>3, EmptySeq
    <3>4. c \o <<>> = c
      BY <1>2, ConcatEmptySeq
    <3> QED BY <2>1, <3>2, <3>3, <3>4
  <2> QED BY <2>2, <2>3, <2>4
<1>7. u \o g \in Seq(Printable)
  BY <1>5, ConcatProperties
<1>8. Cut((u \o g) \o run, m) = Cut(u \o g, m) \o Cut(run, m - Len(Cut(u \o g, m)))
  BY <1>1, <1>7, CutConcat
<1>9. Joined(c, run) = Cut(u \o g, m) \o Cut(run, m - Len(Cut(u \o g, m)))
  BY <1>1, <1>6 DEF Joined
<1> QED BY <1>1, <1>2, <1>5, <1>8, <1>9

\* An inspection stays of its kind.
LEMMA InspectionsStay ==
  ASSUME NEW r \in Inspections
  PROVE  /\ RetainString(r) \in Inspections
         /\ \A b \in FileBytes : ByteInspected(r, b) \in Inspections
         /\ \A b \in FileBytes :
              /\ b = "unprintable" => ByteInspected(r, b) = RetainString(r)
              /\ b # "unprintable" =>
                   ByteInspected(r, b) =
                     [run |-> IF Len(r.run) + 1 < StringSize THEN Append(r.run, b) ELSE r.run,
                      count |-> r.count, preview |-> r.preview]
<1>1. r.run \in Seq(Printable) /\ r.count \in Nat /\ r.preview \in Seq(Printable)
  BY DEF Inspections
<1>2. \A x \in Seq(Printable), n \in Nat, y \in Seq(Printable) :
        [run |-> x, count |-> n, preview |-> y] \in Inspections
  BY DEF Inspections
<1>3. <<>> \in Seq(Printable) /\ r.count + 1 \in Nat
  BY <1>1
<1>4. Apart(r.preview) \in Seq(Printable)
  <2>1. Append(r.preview, Gap) \in Seq(Printable)
    BY <1>1, ByteKinds, AppendProperties
  <2> QED BY <1>1, <2>1 DEF Apart
<1>5. Joined(r.preview, r.run) \in Seq(Printable)
  <2>1. PICK a, x : a = Apart(r.preview) /\ x = PreviewSize - 1 - Len(a) /\ a \in Seq(Printable)
    BY <1>4
  <2>2. PICK n : n = (IF Len(r.run) < x THEN Len(r.run) ELSE x)
    OBVIOUS
  <2>3. n \in Int /\ 1 \in Int /\ n <= Len(r.run)
    <3>1. Len(a) \in Nat /\ Len(r.run) \in Nat
      BY <1>1, <2>1, LenProperties
    <3>2. x \in Int
      BY <2>1, <3>1, StringWidths
    <3> QED BY <2>2, <3>1, <3>2
  <2>4. \A i \in 1 .. n : r.run[i] \in Printable
    <3>1. \A i \in 1 .. Len(r.run) : r.run[i] \in Printable
      BY <1>1, ElementOfSeq
    <3>2. Len(r.run) \in Nat
      BY <1>1, LenProperties
    <3> QED BY <2>3, <3>1, <3>2
  <2>5. SubSeq(r.run, 1, n) \in Seq(Printable)
    BY <2>3, <2>4, SubSeqProperties
  <2>6. a \o SubSeq(r.run, 1, n) \in Seq(Printable)
    BY <2>1, <2>5, ConcatProperties
  <2> QED BY <2>1, <2>2, <2>6 DEF Joined, Cut
<1>6. RetainString(r) \in Inspections
  BY <1>1, <1>2, <1>3, <1>5, RetainIs
<1>7. ASSUME NEW b \in FileBytes
      PROVE  /\ ByteInspected(r, b) \in Inspections
             /\ b = "unprintable" => ByteInspected(r, b) = RetainString(r)
             /\ b # "unprintable" =>
                  ByteInspected(r, b) =
                    [run |-> IF Len(r.run) + 1 < StringSize THEN Append(r.run, b) ELSE r.run,
                     count |-> r.count, preview |-> r.preview]
  <2>1. CASE b = "unprintable"
    <3>1. b \notin Printable
      BY <2>1, ByteKinds
    <3>2. ByteInspected(r, b) = RetainString(r)
      BY <3>1 DEF ByteInspected
    <3> QED BY <1>6, <2>1, <3>2
  <2>2. CASE b # "unprintable"
    <3>1. b \in Printable
      BY <2>2, ByteKinds
    <3>2. r = [run |-> r.run, count |-> r.count, preview |-> r.preview]
      BY DEF Inspections
    <3>3. CASE Len(r.run) + 1 < StringSize
      <4>1. ByteInspected(r, b) = [r EXCEPT !.run = Append(r.run, b)]
        BY <3>1, <3>3 DEF ByteInspected
      <4>2. PICK x : x = Append(r.run, b) /\ x \in Seq(Printable)
        BY <1>1, <3>1, AppendProperties
      <4>3. [r EXCEPT !.run = x] = [run |-> x, count |-> r.count, preview |-> r.preview]
        BY <3>2
      <4>4. [run |-> x, count |-> r.count, preview |-> r.preview] \in Inspections
        BY <1>1, <1>2, <4>2
      <4> QED BY <2>2, <3>3, <4>1, <4>2, <4>3, <4>4
    <3>4. CASE ~(Len(r.run) + 1 < StringSize)
      <4>1. ByteInspected(r, b) = r
        BY <3>1, <3>4 DEF ByteInspected
      <4> QED BY <2>2, <3>2, <3>4, <4>1
    <3> QED BY <3>3, <3>4
  <2> QED BY <2>1, <2>2
<1> QED BY <1>6, <1>7

\* An inspection of s, from r on
IsInspection(f, r, s) ==
  /\ f \in [0 .. Len(s) -> Inspections] /\ f[0] = r
  /\ \A i \in 1 .. Len(s) : f[i] = ByteInspected(f[i - 1], s[i])

\* The bytes of a chunk are inspected one by one.
LEMMA InspectionSteps ==
  ASSUME NEW r \in Inspections, NEW s \in Seq(FileBytes)
  PROVE  \E f : IsInspection(f, r, s) /\ InspectStrings(r, s) = f[Len(s)]
<1> DEFINE m == Len(s)
           step == [x \in Inspections \X (1 .. m) |-> ByteInspected(x[1], s[x[2]])]
           Equation(g) == g = [i \in 0 .. m |-> IF i = 0 THEN r ELSE ByteInspected(g[i - 1], s[i])]
           after == CHOOSE g : Equation(g)
<1>1. m \in Nat /\ \A i \in 1 .. m : s[i] \in FileBytes
  BY LenProperties, ElementOfSeq
<1>2. step \in [Inspections \X (1 .. m) -> Inspections]
  <2>1. ASSUME NEW x \in Inspections \X (1 .. m)
        PROVE  ByteInspected(x[1], s[x[2]]) \in Inspections
    <3>1. x[1] \in Inspections /\ s[x[2]] \in FileBytes
      BY <1>1
    <3> QED BY <3>1, InspectionsStay
  <2> QED BY <2>1
<1>3. PICK f \in [0 .. m -> Inspections] :
           f[0] = r /\ \A i \in 1 .. m : f[i] = step[<<f[i - 1], i>>]
  <2> HIDE DEF step, m
  <2>1. \E f \in [0 .. m -> Inspections] : Folds(f, m, r, step)
    BY <1>1, <1>2, FoldExists
  <2> QED BY <2>1 DEF Folds
<1>4. \A i \in 1 .. m : f[i] = ByteInspected(f[i - 1], s[i])
  <2>1. ASSUME NEW i \in 1 .. m
        PROVE  f[i] = ByteInspected(f[i - 1], s[i])
    <3>1. f[i - 1] \in Inspections /\ i \in 1 .. m
      BY <1>1
    <3>2. step[<<f[i - 1], i>>] = ByteInspected(f[i - 1], s[i])
      BY <3>1
    <3> QED BY <1>3, <3>2
  <2> QED BY <2>1
<1> HIDE DEF step
<1>5. Equation(f)
  <2>1. f = [i \in 0 .. m |-> f[i]]
    OBVIOUS
  <2>2. ASSUME NEW i \in 0 .. m
        PROVE  f[i] = IF i = 0 THEN r ELSE ByteInspected(f[i - 1], s[i])
    <3>1. i = 0 \/ i \in 1 .. m
      BY <1>1
    <3> QED BY <1>3, <1>4, <3>1
  <2> HIDE DEF m
  <2> QED BY <2>1, <2>2
<1>6. Equation(after)
  <2> HIDE DEF Equation
  <2> QED BY <1>5, Zenon
<1>7. InspectStrings(r, s) = after[m]
  BY Zenon DEF InspectStrings
<1> HIDE DEF after
<1>8. after[0] = r /\ \A i \in 1 .. m : after[i] = ByteInspected(after[i - 1], s[i])
  BY <1>1, <1>6
<1> DEFINE P == {i \in 0 .. m : after[i] \in Inspections}
<1>9. 0 \in P
  BY <1>1, <1>8
<1>10. ASSUME NEW i \in 0 .. m - 1, i \in P
       PROVE  i + 1 \in P
  <2>1. i + 1 \in 1 .. m /\ i + 1 \in 0 .. m /\ i + 1 - 1 = i
    BY <1>1
  <2>2. after[i + 1] = ByteInspected(after[i], s[i + 1]) /\ s[i + 1] \in FileBytes
    BY <1>1, <1>8, <2>1
  <2>3. ByteInspected(after[i], s[i + 1]) \in Inspections
    BY <1>10, <2>2, InspectionsStay
  <2> QED BY <2>1, <2>2, <2>3
<1>11. \A i \in 0 .. m : i \in P
  <2> HIDE DEF P, m
  <2> QED BY <1>1, <1>9, <1>10, UpTo
<1>12. after \in [0 .. m -> Inspections]
  <2>1. \A i \in 0 .. m : after[i] \in Inspections
    BY <1>11
  <2>2. after = [i \in 0 .. m |-> after[i]]
    <3>1. PICK g : g = [i \in 0 .. m |-> IF i = 0 THEN r ELSE ByteInspected(after[i - 1], s[i])]
      OBVIOUS
    <3>2. after = g
      BY <1>6, <3>1
    <3>3. g = [i \in 0 .. m |-> g[i]]
      BY <3>1
    <3> QED BY <3>2, <3>3
  <2> HIDE DEF m, P, Equation
  <2> QED BY <2>1, <2>2
<1>13. IsInspection(after, r, s)
  BY <1>8, <1>12 DEF IsInspection
<1> QED BY <1>7, <1>13

\* A chunk is inspected as it would be with all before it.
LEMMA ChunkContinues ==
  ASSUME NEW s \in Seq(FileBytes), NEW r, NEW f, IsInspection(f, r, s),
         NEW a \in 0 .. Len(s), NEW w \in 0 .. Len(s) - a
  PROVE  InspectStrings(f[a], SubSeq(s, a + 1, a + w)) = f[a + w]
<1>1. PICK m : m = Len(s) /\ m \in Nat
  BY LenProperties
<1>2. /\ f \in [0 .. m -> Inspections]
      /\ \A i \in 1 .. m : f[i] = ByteInspected(f[i - 1], s[i])
  BY <1>1 DEF IsInspection
<1>3. PICK z : z = a + w
  OBVIOUS
<1>4. a \in 0 .. m /\ w \in Nat /\ z \in a .. m /\ z - a = w
  BY <1>1, <1>3
<1>5. PICK t : t = SubSeq(s, a + 1, z)
  OBVIOUS
<1>6. t \in Seq(FileBytes) /\ Len(t) = w /\ \A k \in 1 .. w : t[k] = s[a + k]
  BY <1>1, <1>4, <1>5, Longer
<1>7. f[a] \in Inspections
  BY <1>2, <1>4
<1>8. PICK g : IsInspection(g, f[a], t) /\ InspectStrings(f[a], t) = g[Len(t)]
  BY <1>6, <1>7, InspectionSteps
<1>9. g[0] = f[a] /\ \A i \in 1 .. w : g[i] = ByteInspected(g[i - 1], t[i])
  BY <1>6, <1>8 DEF IsInspection
<1> DEFINE P == {i \in 0 .. w : g[i] = f[a + i]}
<1>10. 0 \in P
  <2>1. a + 0 = a /\ 0 \in 0 .. w
    BY <1>4
  <2> QED BY <1>9, <2>1
<1>11. ASSUME NEW i \in 0 .. w - 1, i \in P
       PROVE  i + 1 \in P
  <2>1. i + 1 \in 1 .. w /\ i + 1 \in 0 .. w /\ i + 1 - 1 = i
    BY <1>4
  <2>2. PICK k : k = a + i + 1
    OBVIOUS
  <2>3. k \in 1 .. m /\ k - 1 = a + i /\ a + (i + 1) = k
    BY <1>1, <1>3, <1>4, <2>2
  <2>4. g[i + 1] = ByteInspected(g[i], t[i + 1])
    BY <1>9, <2>1
  <2>5. f[k] = ByteInspected(f[a + i], s[k])
    BY <1>2, <2>3
  <2>6. t[i + 1] = s[k]
    BY <1>6, <2>1, <2>3
  <2>7. g[i + 1] = f[a + (i + 1)]
    BY <1>11, <2>3, <2>4, <2>5, <2>6
  <2> QED BY <2>1, <2>7
<1>12. w \in P
  <2>1. w \in 0 .. w
    BY <1>4
  <2> HIDE DEF P
  <2>2. \A i \in 0 .. w : i \in P
    BY <1>4, <1>10, <1>11, UpTo
  <2> QED BY <2>1, <2>2
<1> QED BY <1>3, <1>5, <1>6, <1>8, <1>12

\* All chunks are inspected, as the file would be at once.
LEMMA AllIsPolled ==
  ASSUME NEW s \in Seq(FileBytes), NEW f, IsInspection(f, NoStrings, s)
  PROVE  StringsFound(s) = RetainString(f[Len(s)])
<1> DEFINE m == Len(s)
           first == [processed |-> 0, strings |-> NoStrings]
           Jobs == [processed : 0 .. m, strings : Inspections]
           step == [x \in Jobs \X (1 .. m) |-> Polled(x[1], s)]
           Equation(g) == g = [n \in 0 .. m |-> IF n = 0 THEN first ELSE Polled(g[n - 1], s)]
           polled == CHOOSE g : Equation(g)
<1>1. m \in Nat
  BY LenProperties
<1>2. f \in [0 .. m -> Inspections] /\ f[0] = NoStrings
  BY DEF IsInspection
<1>3. NoStrings \in Inspections
  BY <1>1, <1>2
<1>4. first \in Jobs
  BY <1>1, <1>3
<1>5. ASSUME NEW j \in Jobs
      PROVE  /\ j.processed \in 0 .. m /\ j.strings \in Inspections
             /\ ~(j.processed < m) => Polled(j, s) = j
             /\ j.processed < m =>
                  \E w \in 1 .. m - j.processed :
                    Polled(j, s) = [processed |-> j.processed + w,
                                    strings |-> InspectStrings(j.strings,
                                                  SubSeq(s, j.processed + 1, j.processed + w))]
  <2>1. j.processed \in 0 .. m /\ j.strings \in Inspections
    OBVIOUS
  <2>2. PICK a : a = j.processed /\ a \in 0 .. m
    BY <2>1
  <2>3. ~(a < m) => Polled(j, s) = j
    BY <1>1, <2>2 DEF Polled
  <2>4. ASSUME a < m
        PROVE  \E w \in 1 .. m - a :
                 Polled(j, s) = [processed |-> a + w,
                                 strings |-> InspectStrings(j.strings, SubSeq(s, a + 1, a + w))]
    <3>1. PICK w : w = IF m - a < ChunkSize THEN m - a ELSE ChunkSize
      OBVIOUS
    <3>2. w \in 1 .. m - a
      BY <1>1, <2>2, <2>4, <3>1, StringWidths
    <3>3. ~(a >= m)
      BY <1>1, <2>2, <2>4
    <3>4. Polled(j, s) = [processed |-> a + w,
                          strings |-> InspectStrings(j.strings, SubSeq(s, a + 1, a + w))]
      BY <2>2, <3>1, <3>3 DEF Polled
    <3> QED BY <3>2, <3>4, Zenon
  <2> QED BY <2>1, <2>2, <2>3, <2>4
<1>6. ASSUME NEW j \in Jobs
      PROVE  Polled(j, s) \in Jobs
  <2>1. CASE ~(j.processed < m)
    BY <1>5, <2>1
  <2>2. CASE j.processed < m
    <3>1. PICK a : a = j.processed /\ a \in 0 .. m
      BY <1>5
    <3>2. PICK w \in 1 .. m - a :
            Polled(j, s) = [processed |-> a + w,
                            strings |-> InspectStrings(j.strings, SubSeq(s, a + 1, a + w))]
      BY <1>5, <2>2, <3>1
    <3>3. PICK z : z = a + w /\ z \in 0 .. m /\ a \in 0 .. Len(s) /\ z \in a .. Len(s)
      BY <1>1, <3>1
    <3>4. PICK t : t = SubSeq(s, a + 1, z) /\ t \in Seq(FileBytes)
      BY <3>3, Longer
    <3>5. PICK r : r = j.strings /\ r \in Inspections
      BY <1>5
    <3>6. InspectStrings(r, t) \in Inspections
      <4>1. PICK g : IsInspection(g, r, t) /\ InspectStrings(r, t) = g[Len(t)]
        BY <3>4, <3>5, InspectionSteps
      <4>2. Len(t) \in 0 .. Len(t)
        <5>1. Len(t) \in Nat
          BY <3>4, LenProperties
        <5> QED BY <5>1
      <4>3. g \in [0 .. Len(t) -> Inspections]
        BY <4>1 DEF IsInspection
      <4> QED BY <4>1, <4>2, <4>3
    <3>7. Polled(j, s) = [processed |-> z, strings |-> InspectStrings(r, t)]
      BY <3>2, <3>3, <3>4, <3>5
    <3> QED BY <3>3, <3>6, <3>7
  <2> QED BY <2>1, <2>2
<1> HIDE DEF first, Jobs
<1>7. step \in [Jobs \X (1 .. m) -> Jobs]
  <2>1. ASSUME NEW x \in Jobs \X (1 .. m)
        PROVE  Polled(x[1], s) \in Jobs
    <3>1. x[1] \in Jobs
      OBVIOUS
    <3> QED BY <1>6, <3>1
  <2> QED BY <2>1
<1>8. PICK h \in [0 .. m -> Jobs] : h[0] = first /\ \A i \in 1 .. m : h[i] = step[<<h[i - 1], i>>]
  <2> HIDE DEF step, m
  <2>1. \E h \in [0 .. m -> Jobs] : Folds(h, m, first, step)
    BY <1>1, <1>4, <1>7, FoldExists
  <2> QED BY <2>1 DEF Folds
<1>9. \A i \in 1 .. m : h[i] = Polled(h[i - 1], s)
  <2>1. ASSUME NEW i \in 1 .. m
        PROVE  h[i] = Polled(h[i - 1], s)
    <3>1. h[i - 1] \in Jobs /\ i \in 1 .. m
      BY <1>1
    <3>2. step[<<h[i - 1], i>>] = Polled(h[i - 1], s)
      BY <3>1
    <3> QED BY <1>8, <3>2
  <2> QED BY <2>1
<1> HIDE DEF step
<1>10. Equation(h)
  <2>1. h = [i \in 0 .. m |-> h[i]]
    OBVIOUS
  <2>2. ASSUME NEW i \in 0 .. m
        PROVE  h[i] = IF i = 0 THEN first ELSE Polled(h[i - 1], s)
    <3>1. i = 0 \/ i \in 1 .. m
      BY <1>1
    <3> QED BY <1>8, <1>9, <3>1
  <2> HIDE DEF m
  <2> QED BY <2>1, <2>2
<1>11. Equation(polled)
  <2> HIDE DEF Equation
  <2> QED BY <1>10, Zenon
<1>12. StringsFound(s) = RetainString(polled[m].strings)
  BY Zenon DEF StringsFound, first
<1> HIDE DEF polled
<1>13. polled[0] = first /\ \A i \in 1 .. m : polled[i] = Polled(polled[i - 1], s)
  BY <1>1, <1>11
<1> DEFINE P == {i \in 0 .. m : /\ polled[i] \in Jobs /\ polled[i].processed >= i
                                /\ polled[i].strings = f[polled[i].processed]}
<1>14. 0 \in P
  <2>1. polled[0] \in Jobs /\ polled[0].processed = 0 /\ polled[0].strings = NoStrings
    BY <1>4, <1>13 DEF first
  <2>2. 0 \in 0 .. m
    BY <1>1
  <2> QED BY <1>2, <2>1, <2>2
<1>15. ASSUME NEW i \in 0 .. m - 1, i \in P
       PROVE  i + 1 \in P
  <2>1. i + 1 \in 1 .. m /\ i + 1 \in 0 .. m /\ i + 1 - 1 = i
    BY <1>1
  <2>2. PICK j, t : j = polled[i] /\ t = polled[i + 1]
    OBVIOUS
  <2>3. j \in Jobs /\ t = Polled(j, s) /\ j.strings = f[j.processed] /\ j.processed >= i
    BY <1>13, <1>15, <2>1, <2>2
  <2>4. t \in Jobs
    BY <1>6, <2>3
  <2>5. PICK a : a = j.processed /\ a \in 0 .. m
    BY <1>5, <2>3
  <2>6. CASE ~(a < m)
    <3>1. t = j
      BY <1>5, <2>3, <2>5, <2>6
    <3>2. t.processed >= i + 1
      BY <1>1, <2>1, <2>5, <2>6, <3>1
    <3> QED BY <2>1, <2>2, <2>3, <2>4, <3>1, <3>2
  <2>7. CASE a < m
    <3>1. PICK w \in 1 .. m - a :
            t = [processed |-> a + w,
                 strings |-> InspectStrings(j.strings, SubSeq(s, a + 1, a + w))]
      BY <1>5, <2>3, <2>5, <2>7
    <3>2. t.processed = a + w /\ t.strings = InspectStrings(f[a], SubSeq(s, a + 1, a + w))
      BY <2>3, <2>5, <3>1
    <3>3. a \in 0 .. Len(s) /\ w \in 0 .. Len(s) - a
      BY <1>1, <2>5
    <3>4. InspectStrings(f[a], SubSeq(s, a + 1, a + w)) = f[a + w]
      BY <3>3, ChunkContinues
    <3>5. t.processed >= i + 1
      BY <1>1, <2>3, <2>5, <3>2
    <3> QED BY <2>1, <2>2, <2>4, <3>2, <3>4, <3>5
  <2> QED BY <2>6, <2>7
<1>16. m \in P
  <2>1. m \in 0 .. m
    BY <1>1
  <2> HIDE DEF P, m
  <2>2. \A i \in 0 .. m : i \in P
    BY <1>1, <1>14, <1>15, UpTo
  <2> QED BY <2>1, <2>2
<1>17. polled[m].processed = m
  <2>1. PICK a : a = polled[m].processed
    OBVIOUS
  <2>2. a \in 0 .. m /\ a >= m
    BY <1>5, <1>16, <2>1
  <2> QED BY <1>1, <2>1, <2>2
<1> QED BY <1>12, <1>16, <1>17

\* What stands between the strings of a file
Breaks == {"unprintable"}

\* The parts of a file that are reported
LongParts(s) == {p \in Parts(s, Breaks) : Len(Part(s, p)) >= StringMin}

\* All bytes of a part can be printed.
LEMMA PartsArePrintable ==
  ASSUME NEW s \in Seq(FileBytes), NEW p \in Parts(s, Breaks), NEW j \in p[1] .. p[2] - 1
  PROVE  /\ Seen(s, p, j) \in Seq(Printable) /\ Len(Seen(s, p, j)) = j - p[1]
         /\ j = p[1] => Seen(s, p, j) = <<>>
         /\ j + 1 \in p[1] .. p[2] - 1 => Seen(s, p, j + 1) = Append(Seen(s, p, j), s[j + 1])
         /\ j = p[2] - 1 => Part(s, p) = Seen(s, p, j)
<1>1. PICK m : m = Len(s) /\ m \in Nat
  BY LenProperties
<1>2. IsPart(s, Breaks, p[1], p[2])
  BY <1>1, PartPlaces
<1>3. PICK a, b : a = p[1] /\ b = p[2] /\ IsPart(s, Breaks, a, b)
  BY <1>2
<1>4. /\ a \in 0 .. m /\ b \in 1 .. m + 1 /\ a < b
      /\ \A k \in 1 .. m : a < k /\ k < b => s[k] \notin Breaks
  BY <1>1, <1>3 DEF IsPart
<1>5. j \in a .. b - 1 /\ j \in a .. m
  BY <1>1, <1>3, <1>4
<1>6. ASSUME NEW k \in a + 1 .. j
      PROVE  s[k] \in Printable
  <2>1. k \in 1 .. m /\ a < k /\ k < b
    BY <1>1, <1>4, <1>5
  <2>2. s[k] \in FileBytes
    BY <1>1, <2>1, ElementOfSeq
  <2>3. s[k] # "unprintable"
    BY <1>4, <2>1 DEF Breaks
  <2> QED BY <2>2, <2>3, ByteKinds
<1>7. SubSeq(s, a + 1, j) \in Seq(Printable)
  <2>1. a + 1 \in Int /\ j \in Int
    BY <1>4, <1>5
  <2> QED BY <1>6, <2>1, SubSeqProperties
<1>8. a \in 0 .. Len(s) /\ j \in a .. Len(s)
  BY <1>1, <1>4, <1>5
<1>9. /\ Len(SubSeq(s, a + 1, j)) = j - a
      /\ j = a => SubSeq(s, a + 1, j) = <<>>
      /\ j < Len(s) => SubSeq(s, a + 1, j + 1) = Append(SubSeq(s, a + 1, j), s[j + 1])
  BY <1>8, Longer
<1>10. j + 1 \in a .. b - 1 => j < Len(s)
  BY <1>1, <1>4, <1>5
<1>11. Seen(s, p, j) = SubSeq(s, a + 1, j) /\ Seen(s, p, j + 1) = SubSeq(s, a + 1, j + 1)
  BY <1>3 DEF Seen
<1>12. Part(s, p) = SubSeq(s, a + 1, b - 1)
  BY <1>3 DEF Part
<1> HIDE DEF Part, Seen
<1> QED BY <1>3, <1>7, <1>9, <1>10, <1>11, <1>12

\* What is shown of the first n of them
IsShown(shown, s) ==
  LET F == LongParts(s) IN
  /\ shown \in [0 .. Cardinality(F) -> Seq(Printable)] /\ shown[0] = <<>>
  /\ \A n \in 1 .. Cardinality(F) :
       shown[n] = shown[n - 1] \o (IF n > 1 THEN <<Gap>> ELSE <<>>) \o
                  Cut(Part(s, Nth(n - 1, F)), StringSize - 1)

\* A long part is shown as something.
LEMMA LongIsShown ==
  ASSUME NEW s \in Seq(FileBytes), NEW p \in LongParts(s)
  PROVE  /\ Part(s, p) \in Seq(Printable) /\ Cut(Part(s, p), StringSize - 1) \in Seq(Printable)
         /\ Len(Cut(Part(s, p), StringSize - 1)) >= StringMin
         /\ Cut(Part(s, p), StringSize - 1) # <<>>
<1>1. p \in Parts(s, Breaks) /\ Len(Part(s, p)) >= StringMin
  BY DEF LongParts
<1>2. Len(s) \in Nat
  BY LenProperties
<1>3. p[1] \in 0 .. Len(s) /\ p[2] \in 1 .. Len(s) + 1 /\ p[1] < p[2]
  BY <1>1, <1>2, PartsApart
<1>4. PICK j : j = p[2] - 1 /\ j \in p[1] .. p[2] - 1
  BY <1>3
<1>5. Part(s, p) \in Seq(Printable)
  BY <1>1, <1>4, PartsArePrintable
<1>6. PICK t, c, m : t = Part(s, p) /\ c = Cut(t, m) /\ m = StringSize - 1 /\ m \in Nat
  BY StringWidths
<1>7. c \in Seq(Printable) /\ Len(c) = (IF Len(t) < m THEN Len(t) ELSE m)
  BY <1>5, <1>6, CutHolds
<1>8. Len(t) \in Nat
  BY <1>5, <1>6, LenProperties
<1>9. Len(c) >= StringMin
  BY <1>1, <1>6, <1>7, <1>8, StringWidths
<1>10. c # <<>>
  <2>1. Len(<<>>) = 0
    OBVIOUS
  <2> QED BY <1>9, <2>1, StringWidths
<1> QED BY <1>5, <1>6, <1>7, <1>9, <1>10

\* Before the n-th string something is shown unless it is the first.
LEMMA ShownIsFirst ==
  ASSUME NEW s \in Seq(FileBytes), NEW shown, IsShown(shown, s),
         NEW n \in 0 .. Cardinality(LongParts(s))
  PROVE  shown[n] \in Seq(Printable) /\ (shown[n] = <<>> <=> n = 0)
<1> DEFINE F == LongParts(s)
<1>1. Len(s) \in Nat /\ F \in SUBSET Parts(s, Breaks)
  BY LenProperties DEF LongParts
<1>2. Cardinality(F) \in Nat
  <2>1. Len(s) + 1 \in 0 .. Len(s) + 1
    BY <1>1
  <2> HIDE DEF F
  <2> QED BY <1>1, <2>1, EndedCount
<1> HIDE DEF F
<1>3. /\ shown \in [0 .. Cardinality(F) -> Seq(Printable)] /\ shown[0] = <<>>
      /\ \A k \in 1 .. Cardinality(F) :
           shown[k] = shown[k - 1] \o (IF k > 1 THEN <<Gap>> ELSE <<>>) \o
                      Cut(Part(s, Nth(k - 1, F)), StringSize - 1)
  BY DEF IsShown, F
<1>4. n \in 0 .. Cardinality(F)
  BY DEF F
<1>5. ASSUME n # 0
      PROVE  shown[n] # <<>>
  <2>1. n \in 1 .. Cardinality(F) /\ n - 1 \in 0 .. Cardinality(F) - 1 /\ n - 1 \in 0 .. Cardinality(F)
    BY <1>2, <1>4, <1>5
  <2>2. Nth(n - 1, F) \in F
    BY <1>1, <2>1, NthPart
  <2>3. PICK x, y, z : /\ x = shown[n - 1] /\ y = (IF n > 1 THEN <<Gap>> ELSE <<>>)
                       /\ z = Cut(Part(s, Nth(n - 1, F)), StringSize - 1)
    OBVIOUS
  <2>4. z \in Seq(Printable) /\ z # <<>>
    BY <2>2, <2>3, LongIsShown DEF F
  <2>5. x \in Seq(Printable)
    BY <1>3, <2>1, <2>3
  <2>6. y \in Seq(Printable)
    <3>1. <<Gap>> \in Seq(Printable) /\ <<>> \in Seq(Printable)
      BY ByteKinds
    <3> QED BY <2>3, <3>1
  <2>7. shown[n] = (x \o y) \o z
    BY <1>3, <2>1, <2>3
  <2>8. x \o y \in Seq(Printable)
    BY <2>5, <2>6, ConcatProperties
  <2>9. (x \o y) \o z = <<>> => z = <<>>
    BY <2>4, <2>8, ConcatEqualIffEmpty
  <2> QED BY <2>4, <2>7, <2>9
<1> QED BY <1>3, <1>4, <1>5

\* What an inspection has found of a part, and of those before it
HasFound(s, shown, p, i, r) ==
  LET n == Before(p, LongParts(s)) IN
  /\ r.run = Cut(Seen(s, p, i), StringSize - 1)
  /\ r.count = n /\ r.preview = Cut(shown[n], PreviewSize - 1)

\* Where the part ends it counts if it is long enough, and is shown.
LEMMA FoundAtEnd ==
  ASSUME NEW s \in Seq(FileBytes), NEW shown, IsShown(shown, s), NEW i \in 0 .. Len(s),
         NEW p \in Parts(s, Breaks), p[2] = i + 1, NEW r \in Inspections,
         HasFound(s, shown, p, i, r)
  PROVE  LET n == Cardinality(Ended(LongParts(s), i + 1)) IN
         RetainString(r) = [run |-> <<>>, count |-> n, preview |-> Cut(shown[n], PreviewSize - 1)]
<1> DEFINE F == LongParts(s)
<1>1. Len(s) \in Nat /\ F \in SUBSET Parts(s, Breaks)
  BY LenProperties DEF LongParts
<1>2. p[1] \in 0 .. Len(s) /\ p[1] <= i /\ i < p[2]
  <2>1. p[1] \in 0 .. Len(s) /\ p[1] < p[2]
    BY <1>1, PartsApart
  <2> QED BY <2>1
<1>3. i \in p[1] .. p[2] - 1 /\ i = p[2] - 1
  BY <1>2
<1>4. Part(s, p) = Seen(s, p, i) /\ Part(s, p) \in Seq(Printable)
  BY <1>3, PartsArePrintable
<1>5. p \in F <=> Len(Part(s, p)) >= StringMin
  BY DEF LongParts
<1>6. PICK n, k : n = Before(p, F) /\ k = Cardinality(Ended(F, i + 1))
  OBVIOUS
<1> HIDE DEF F
<1>7. k = n + (IF p \in F THEN 1 ELSE 0)
  BY <1>1, <1>2, <1>6, NextBefore
<1>8. n \in Nat
  BY <1>1, <1>6, RankIsNumber
<1>9. PICK t, m : t = Part(s, p) /\ m = StringSize - 1 /\ m \in Nat
  BY StringWidths
<1>10. r.run = Cut(t, m) /\ r.count = n /\ r.preview = Cut(shown[n], PreviewSize - 1)
  BY <1>4, <1>6, <1>9 DEF HasFound, F
<1>11. /\ Cut(t, m) \in Seq(Printable) /\ Len(t) \in Nat
       /\ Len(Cut(t, m)) = (IF Len(t) < m THEN Len(t) ELSE m)
  BY <1>4, <1>9, CutHolds, LenProperties
<1>12. Len(r.run) < StringMin <=> p \notin F
  BY <1>5, <1>9, <1>10, <1>11, StringWidths
<1>13. CASE p \notin F
  <2>1. k = n
    BY <1>7, <1>8, <1>13
  <2>2. RetainString(r) = [run |-> <<>>, count |-> r.count, preview |-> r.preview]
    BY <1>12, <1>13, RetainIs
  <2> QED BY <1>6, <1>10, <2>1, <2>2 DEF F
<1>14. CASE p \in F
  <2>1. k = n + 1
    BY <1>7, <1>8, <1>14
  <2>2. RetainString(r) = [run |-> <<>>, count |-> n + 1, preview |-> Joined(r.preview, r.run)]
    BY <1>10, <1>12, <1>14, RetainIs
  <2>3. PICK c : c = Cardinality(F) /\ c \in Nat
    <3>1. Len(s) + 1 \in 0 .. Len(s) + 1
      BY <1>1
    <3>2. Ended(F, Len(s) + 1) = F
      BY <1>1, EndedCount
    <3>3. Cardinality(Ended(F, Len(s) + 1)) \in Nat
      BY <1>1, <3>1, EndedCount
    <3> QED BY <3>2, <3>3
  <2>4. n < c
    BY <1>1, <1>6, <1>14, <2>3, RankIsBelow
  <2>5. k \in 1 .. c /\ k - 1 = n /\ n \in 0 .. c /\ (k > 1 <=> n # 0)
    BY <1>8, <2>1, <2>3, <2>4
  <2>6. Nth(n, F) = p
    BY <1>1, <1>6, <1>14, NthPart
  <2>7. \A j \in 1 .. c :
          shown[j] = shown[j - 1] \o (IF j > 1 THEN <<Gap>> ELSE <<>>) \o
                     Cut(Part(s, Nth(j - 1, F)), StringSize - 1)
    BY <2>3 DEF IsShown, F
  <2>8. PICK u : u = shown[n] /\ u \in Seq(Printable) /\ (u = <<>> <=> n = 0)
    BY <2>3, <2>5, ShownIsFirst DEF F
  <2>9. shown[k] = (u \o (IF u = <<>> THEN <<>> ELSE <<Gap>>)) \o r.run
    <3>1. shown[k] = shown[n] \o (IF k > 1 THEN <<Gap>> ELSE <<>>) \o Cut(t, m)
      BY <1>9, <2>5, <2>6, <2>7
    <3>2. (IF k > 1 THEN <<Gap>> ELSE <<>>) = (IF u = <<>> THEN <<>> ELSE <<Gap>>)
      BY <2>5, <2>8
    <3> QED BY <1>10, <2>8, <3>1, <3>2
  <2>10. r.run \in Seq(Printable)
    BY <1>10, <1>11
  <2>11. Joined(Cut(u, PreviewSize - 1), r.run) = Cut(shown[k], PreviewSize - 1)
    BY <2>8, <2>9, <2>10, JoinedIsCut
  <2>12. Joined(r.preview, r.run) = Cut(shown[k], PreviewSize - 1)
    BY <1>10, <2>8, <2>11
  <2> QED BY <1>6, <2>1, <2>2, <2>12 DEF F
<1> QED BY <1>13, <1>14

\* A part of a file grows by each byte that is printable, and the next part
\* starts behind each one that is not.
LEMMA NextPart ==
  ASSUME NEW s \in Seq(FileBytes), NEW i \in 0 .. Len(s) - 1,
         NEW p \in Parts(s, Breaks), p[1] <= i, i < p[2]
  PROVE  /\ s[i + 1] \notin Breaks => i + 1 < p[2]
         /\ s[i + 1] \in Breaks =>
              /\ p[2] = i + 1
              /\ \E q \in Parts(s, Breaks) :
                   /\ q[1] = i + 1 /\ i + 1 < q[2]
                   /\ Before(q, LongParts(s)) =
                        Before(p, LongParts(s)) + IF p \in LongParts(s) THEN 1 ELSE 0
<1>1. Len(s) \in Nat /\ LongParts(s) \in SUBSET Parts(s, Breaks)
  BY LenProperties DEF LongParts
<1>2. PICK Z, F : Z = Breaks /\ F = LongParts(s) /\ F \in SUBSET Parts(s, Z)
  BY <1>1
<1>3. p \in Parts(s, Z)
  BY <1>2
<1>5. /\ s[i + 1] \notin Z => i + 1 < p[2]
      /\ s[i + 1] \in Z =>
           p[2] = i + 1 /\ \E q \in Parts(s, Z) : q[1] = i + 1 /\ i + 1 < q[2]
  BY <1>1, <1>3, PlaceMoves
<1>6. CASE s[i + 1] \in Z
  <2>1. PICK q \in Parts(s, Z) : q[1] = i + 1 /\ i + 1 < q[2]
    BY <1>5, <1>6
  <2>2. p[2] = i + 1
    BY <1>5, <1>6
  <2>3. PICK x, y : x = Before(p, F) /\ y = Cardinality(Ended(F, i + 1))
    OBVIOUS
  <2>4. i \in 0 .. Len(s) /\ i + 1 \in 0 .. Len(s) /\ p[2] = i + 1
    BY <1>1, <2>2
  <2>5. y = x + (IF p \in F THEN 1 ELSE 0)
    BY <1>1, <1>2, <1>3, <2>3, <2>4, NextBefore
  <2>6. q[1] <= i + 1 /\ i + 1 < q[2]
    BY <1>1, <2>1
  <2>7. Before(q, F) = y
    BY <1>1, <1>2, <2>3, <2>4, <2>6, BeforeIsEnded
  <2> QED BY <1>2, <1>5, <2>1, <2>2, <2>3, <2>5, <2>7
<1> QED BY <1>2, <1>5, <1>6

\* An inspection has found what stands before each place.
LEMMA FoundSoFar ==
  ASSUME NEW s \in Seq(FileBytes), NEW shown, IsShown(shown, s),
         NEW f, IsInspection(f, NoStrings, s)
  PROVE  \A i \in 0 .. Len(s) : \A p \in Parts(s, Breaks) :
           p[1] <= i /\ i < p[2] => HasFound(s, shown, p, i, f[i])
<1> DEFINE m == Len(s)
           F == LongParts(s)
           P == {i \in 0 .. m : \A p \in Parts(s, Breaks) :
                   p[1] <= i /\ i < p[2] => HasFound(s, shown, p, i, f[i])}
<1>1. m \in Nat /\ Len(s) \in Nat /\ F \in SUBSET Parts(s, Breaks)
  BY LenProperties DEF LongParts
<1>2. /\ f \in [0 .. m -> Inspections] /\ f[0] = NoStrings
      /\ \A i \in 1 .. m : f[i] = ByteInspected(f[i - 1], s[i])
  BY DEF IsInspection
<1>3. <<>> \in Seq(Printable) /\ \A n \in Nat : Cut(<<>>, n) = <<>>
  <2>1. <<>> \in Seq(Printable) /\ Len(<<>>) = 0
    OBVIOUS
  <2>2. ASSUME NEW n \in Nat
        PROVE  Cut(<<>>, n) = <<>>
    <3>1. Len(<<>>) <= n
      BY <2>1
    <3> QED BY <2>1, <3>1, CutHolds
  <2> QED BY <2>1, <2>2
<1>4. 0 \in P
  <2>1. ASSUME NEW p \in Parts(s, Breaks), p[1] <= 0, 0 < p[2]
        PROVE  HasFound(s, shown, p, 0, f[0])
    <3>1. p[1] = 0 /\ 0 \in p[1] .. p[2] - 1
      <4>1. p[1] \in 0 .. Len(s) /\ p[2] \in 1 .. Len(s) + 1
        BY <1>1, PartsApart
      <4> QED BY <2>1, <4>1
    <3>2. Seen(s, p, 0) = <<>>
      BY <3>1, PartsArePrintable
    <3>3. Before(p, F) = 0
      <4>1. Before(p, F) = Cardinality(Ended(F, 0))
        <5> HIDE DEF F
        <5> QED BY <1>1, <3>1, RankIsNumber
      <4>2. Ended(F, 0) = {}
        <5> HIDE DEF F
        <5> QED BY <1>1, EndedCount
      <4> QED BY <4>1, <4>2, FS_EmptySet
    <3>4. shown[0] = <<>>
      BY DEF IsShown
    <3>5. Cut(<<>>, StringSize - 1) = <<>> /\ Cut(<<>>, PreviewSize - 1) = <<>>
      BY <1>3, StringWidths
    <3>6. f[0].run = <<>> /\ f[0].count = 0 /\ f[0].preview = <<>>
      BY <1>2 DEF NoStrings
    <3> QED BY <3>2, <3>3, <3>4, <3>5, <3>6 DEF HasFound
  <2> QED BY <1>1, <2>1
<1>5. ASSUME NEW i \in 0 .. m - 1, i \in P
      PROVE  i + 1 \in P
  <2>1. i \in 0 .. m /\ i + 1 \in 0 .. m /\ i + 1 \in 1 .. m /\ i + 1 - 1 = i
    BY <1>1
  <2>2. PICK p \in Parts(s, Breaks) : p[1] <= i /\ i < p[2]
    BY <1>1, <2>1, PartAt
  <2>3. PICK r, b, t : r = f[i] /\ b = s[i + 1] /\ t = f[i + 1]
    OBVIOUS
  <2>4. r \in Inspections /\ t = ByteInspected(r, b) /\ b \in FileBytes
    <3>1. s[i + 1] \in FileBytes
      BY <2>1, ElementOfSeq
    <3> QED BY <1>2, <2>1, <2>3, <3>1
  <2>5. HasFound(s, shown, p, i, r)
    BY <1>5, <2>2, <2>3
  <2>6. /\ s[i + 1] \notin Breaks => i + 1 < p[2]
        /\ s[i + 1] \in Breaks =>
             /\ p[2] = i + 1
             /\ \E q \in Parts(s, Breaks) :
                  /\ q[1] = i + 1 /\ i + 1 < q[2]
                  /\ Before(q, F) = Before(p, F) + IF p \in F THEN 1 ELSE 0
    <3>1. i \in 0 .. Len(s) - 1
      BY <1>1
    <3> QED BY <2>2, <3>1, NextPart DEF F
  <2>7. p[1] \in 0 .. m /\ p[2] \in 1 .. m + 1
    BY <1>1, PartsApart
  <2>8. CASE b # "unprintable"
    <3>1. i + 1 < p[2] /\ p[1] <= i + 1
      BY <2>2, <2>3, <2>6, <2>7, <2>8 DEF Breaks
    <3>2. i \in p[1] .. p[2] - 1 /\ i + 1 \in p[1] .. p[2] - 1
      BY <2>1, <2>2, <2>7, <3>1
    <3>3. PICK x, y : x = Seen(s, p, i) /\ y = Seen(s, p, i + 1)
      OBVIOUS
    <3>4. x \in Seq(Printable) /\ y \in Seq(Printable) /\ y = Append(x, b)
      BY <2>3, <3>2, <3>3, PartsArePrintable
    <3>5. b \in Printable
      BY <2>4, <2>8, ByteKinds
    <3>6. PICK n : n = StringSize - 1 /\ n \in Nat
      BY StringWidths
    <3>7. r.run = Cut(x, n)
      BY <2>5, <3>3, <3>6 DEF HasFound
    <3>8. t = [run |-> IF Len(r.run) + 1 < StringSize THEN Append(r.run, b) ELSE r.run,
               count |-> r.count, preview |-> r.preview]
      BY <2>4, <2>8, InspectionsStay
    <3>9. t.run = Cut(y, n)
      <4>1. Len(x) \in Nat /\ Len(y) = Len(x) + 1
        BY <3>4, <3>5, AppendProperties, LenProperties
      <4>2. /\ Cut(x, n) \in Seq(Printable) /\ Len(Cut(x, n)) = (IF Len(x) < n THEN Len(x) ELSE n)
            /\ Len(x) <= n => Cut(x, n) = x
        BY <3>4, <3>6, CutHolds
      <4>3. Len(y) <= n => Cut(y, n) = y
        BY <3>4, <3>6, CutHolds
      <4>4. CASE Len(x) < n
        <5>1. Len(x) <= n /\ Len(y) <= n /\ Len(x) + 1 < StringSize
          BY <3>6, <4>1, <4>4, StringWidths
        <5>2. r.run = x
          BY <3>7, <4>2, <5>1
        <5>3. t.run = Append(x, b)
          BY <3>8, <5>1, <5>2
        <5> QED BY <3>4, <4>3, <5>1, <5>3
      <4>5. CASE ~(Len(x) < n)
        <5>1. Len(r.run) = n /\ ~(n + 1 < StringSize)
          BY <3>6, <3>7, <4>2, <4>5, StringWidths
        <5>2. t.run = r.run
          BY <3>8, <5>1
        <5>3. y = x \o <<b>>
          BY <3>4, <3>5, AppendIsConcat
        <5>4. <<b>> \in Seq(Printable) /\ Len(<<b>>) = 1
          BY <3>5
        <5>5. Cut(x \o <<b>>, n) = Cut(x, n) \o Cut(<<b>>, n - Len(Cut(x, n)))
          BY <3>4, <3>6, <5>4, CutConcat
        <5>6. n - Len(Cut(x, n)) = 0
          BY <3>6, <3>7, <5>1
        <5>7. Cut(<<b>>, 0) = <<>>
          <6>1. PICK w, z : w = <<b>> /\ z = 0 /\ w \in Seq(Printable) /\ Len(w) = 1 /\ z \in Nat
            BY <5>4
          <6>2. Cut(w, z) \in Seq(Printable)
                /\ Len(Cut(w, z)) = IF Len(w) < z THEN Len(w) ELSE z
            BY <6>1, CutHolds
          <6>3. Len(Cut(w, z)) = 0
            BY <6>1, <6>2
          <6>4. Cut(w, z) = <<>>
            BY <6>2, <6>3, EmptySeq
          <6> QED BY <6>1, <6>4
        <5>8. Cut(x, n) \o <<>> = Cut(x, n)
          BY <4>2, ConcatEmptySeq
        <5> QED BY <3>7, <5>2, <5>3, <5>5, <5>6, <5>7, <5>8
      <4> QED BY <4>4, <4>5
    <3>10. t.count = r.count /\ t.preview = r.preview
      BY <3>8
    <3>11. HasFound(s, shown, p, i + 1, t)
      BY <2>5, <3>3, <3>6, <3>9, <3>10 DEF HasFound
    <3>12. ASSUME NEW q \in Parts(s, Breaks), q[1] <= i + 1, i + 1 < q[2]
           PROVE  HasFound(s, shown, q, i + 1, t)
      <4>1. q = p
        BY <1>1, <2>1, <3>1, <3>12, PartIsOne
      <4> QED BY <3>11, <4>1
    <3> QED BY <2>1, <2>3, <3>12
  <2>9. CASE b = "unprintable"
    <3>1. s[i + 1] \in Breaks
      BY <2>3, <2>9 DEF Breaks
    <3>2. p[2] = i + 1
      BY <2>6, <3>1
    <3>3. PICK n : n = Cardinality(Ended(F, i + 1))
      OBVIOUS
    <3>4. RetainString(r) = [run |-> <<>>, count |-> n, preview |-> Cut(shown[n], PreviewSize - 1)]
      BY <2>1, <2>4, <2>5, <3>2, <3>3, FoundAtEnd
    <3>5. t = [run |-> <<>>, count |-> n, preview |-> Cut(shown[n], PreviewSize - 1)]
      BY <2>4, <2>9, <3>4, InspectionsStay
    <3>6. ASSUME NEW q \in Parts(s, Breaks), q[1] <= i + 1, i + 1 < q[2]
          PROVE  HasFound(s, shown, q, i + 1, t)
      <4>1. PICK x \in Parts(s, Breaks) : x[1] = i + 1 /\ i + 1 < x[2]
        BY <2>6, <3>1
      <4>2. q = x
        <5>1. x[1] <= i + 1
          BY <2>1, <4>1
        <5> QED BY <1>1, <2>1, <3>6, <4>1, <5>1, PartIsOne
      <4>3. q[1] = i + 1 /\ i + 1 \in q[1] .. q[2] - 1
        <5>1. q[2] \in 1 .. m + 1
          BY <1>1, PartsApart
        <5> QED BY <2>1, <3>6, <4>1, <4>2, <5>1
      <4>4. Seen(s, q, i + 1) = <<>>
        BY <4>3, PartsArePrintable
      <4>5. Before(q, F) = n
        <5> HIDE DEF F
        <5> QED BY <1>1, <2>1, <3>3, <3>6, BeforeIsEnded
      <4>6. Cut(<<>>, StringSize - 1) = <<>>
        BY <1>3, StringWidths
      <4>7. t.run = <<>> /\ t.count = n /\ t.preview = Cut(shown[n], PreviewSize - 1)
        BY <3>5
      <4> QED BY <4>4, <4>5, <4>6, <4>7 DEF HasFound
    <3> QED BY <2>1, <2>3, <3>6
  <2> QED BY <2>8, <2>9
<1> HIDE DEF P, m
<1>6. \A i \in 0 .. m : i \in P
  BY <1>1, <1>4, <1>5, UpTo
<1> QED BY <1>6 DEF P, m

\* What is shown of the long parts, one after the other
ShownOf(s) ==
  LET F == LongParts(s)
      shown[n \in 0 .. Cardinality(F)] ==
        IF n = 0 THEN <<>>
        ELSE shown[n - 1] \o (IF n > 1 THEN <<Gap>> ELSE <<>>) \o
             Cut(Part(s, Nth(n - 1, F)), StringSize - 1)
  IN shown

\* There is such a text for each number of them.
LEMMA ShownSteps ==
  ASSUME NEW s \in Seq(FileBytes)
  PROVE  IsShown(ShownOf(s), s) /\ Cardinality(LongParts(s)) \in Nat
<1> DEFINE F == LongParts(s)
           m == Cardinality(F)
           Next(x, n) == x \o (IF n > 1 THEN <<Gap>> ELSE <<>>) \o
                         Cut(Part(s, Nth(n - 1, F)), StringSize - 1)
           St == Seq(Printable)
           step == [x \in St \X (1 .. m) |-> Next(x[1], x[2])]
           Equation(g) == g = [n \in 0 .. m |-> IF n = 0 THEN <<>> ELSE Next(g[n - 1], n)]
           shown == CHOOSE g : Equation(g)
<1>1. Len(s) \in Nat /\ F \in SUBSET Parts(s, Breaks)
  BY LenProperties DEF LongParts
<1>2. m \in Nat
  <2> HIDE DEF F
  <2>1. Len(s) + 1 \in 0 .. Len(s) + 1
    BY <1>1
  <2>2. Ended(F, Len(s) + 1) = F
    BY <1>1, EndedCount
  <2>3. Cardinality(Ended(F, Len(s) + 1)) \in Nat
    BY <1>1, <2>1, EndedCount
  <2> QED BY <2>2, <2>3
<1>3. ASSUME NEW n \in 1 .. m, NEW x \in St
      PROVE  Next(x, n) \in St
  <2>1. Nth(n - 1, F) \in F
    <3>1. n - 1 \in 0 .. Cardinality(F) - 1
      BY <1>2
    <3> HIDE DEF F
    <3> QED BY <1>1, <3>1, NthPart
  <2>2. PICK c : c = Cut(Part(s, Nth(n - 1, F)), StringSize - 1) /\ c \in Seq(Printable)
    BY <2>1, LongIsShown
  <2>3. PICK g : g = (IF n > 1 THEN <<Gap>> ELSE <<>>) /\ g \in Seq(Printable)
    <3>1. Gap \in Printable
      BY ByteKinds
    <3>2. <<Gap>> \in Seq(Printable)
      BY <3>1
    <3>3. <<>> \in Seq(Printable)
      OBVIOUS
    <3>4. CASE n > 1
      BY <3>2, <3>4
    <3>5. CASE ~(n > 1)
      BY <3>3, <3>5
    <3> QED BY <3>4, <3>5
  <2>4. (x \o g) \in Seq(Printable)
    BY <2>3, ConcatProperties
  <2>5. (x \o g) \o c \in Seq(Printable)
    BY <2>2, <2>4, ConcatProperties
  <2> QED BY <2>2, <2>3, <2>5
<1> HIDE DEF F
<1>4. step \in [St \X (1 .. m) -> St]
  <2>1. ASSUME NEW x \in St \X (1 .. m)
        PROVE  Next(x[1], x[2]) \in St
    <3>1. x[1] \in St /\ x[2] \in 1 .. m
      BY <1>2
    <3> HIDE DEF Next, St, m
    <3> QED BY <1>3, <3>1
  <2> HIDE DEF Next, St, m
  <2> QED BY <2>1
<1>5. PICK f \in [0 .. m -> St] : f[0] = <<>> /\ \A i \in 1 .. m : f[i] = step[<<f[i - 1], i>>]
  <2>1. <<>> \in St
    OBVIOUS
  <2> HIDE DEF step, m, St
  <2>2. \E f \in [0 .. m -> St] : Folds(f, m, <<>>, step)
    BY <1>2, <1>4, <2>1, FoldExists
  <2> QED BY <2>2 DEF Folds
<1> HIDE DEF St, Next
<1>6. \A i \in 1 .. m : f[i] = Next(f[i - 1], i)
  <2>1. ASSUME NEW i \in 1 .. m
        PROVE  f[i] = Next(f[i - 1], i)
    <3>1. f[i - 1] \in St /\ i \in 1 .. m
      BY <1>2
    <3>2. step[<<f[i - 1], i>>] = Next(f[i - 1], i)
      BY <3>1
    <3> QED BY <1>5, <3>2
  <2> QED BY <2>1
<1> HIDE DEF step
<1>7. Equation(f)
  <2>1. f = [i \in 0 .. m |-> f[i]]
    OBVIOUS
  <2>2. ASSUME NEW i \in 0 .. m
        PROVE  f[i] = IF i = 0 THEN <<>> ELSE Next(f[i - 1], i)
    <3>1. i = 0 \/ i \in 1 .. m
      BY <1>2
    <3> QED BY <1>5, <1>6, <3>1
  <2> HIDE DEF m
  <2> QED BY <2>1, <2>2
<1>8. Equation(shown)
  <2> HIDE DEF Equation
  <2> QED BY <1>7, Zenon
<1>9. ShownOf(s) = shown
  BY Zenon DEF ShownOf, Next, F
<1> HIDE DEF shown
<1>10. shown[0] = <<>> /\ \A i \in 1 .. m : shown[i] = Next(shown[i - 1], i)
  BY <1>2, <1>8
<1> DEFINE P == {i \in 0 .. m : shown[i] \in St}
<1>11. 0 \in P
  <2>1. <<>> \in St
    BY DEF St
  <2>2. 0 \in 0 .. m
    BY <1>2
  <2> HIDE DEF St, m
  <2> QED BY <1>10, <2>1, <2>2
<1>12. ASSUME NEW i \in 0 .. m - 1, i \in P
       PROVE  i + 1 \in P
  <2>1. i + 1 \in 1 .. m /\ i + 1 \in 0 .. m /\ i + 1 - 1 = i
    BY <1>2
  <2>2. shown[i + 1] = Next(shown[i], i + 1)
    BY <1>10, <2>1
  <2>3. Next(shown[i], i + 1) \in St
    <3> HIDE DEF m
    <3> QED BY <1>3, <1>12, <2>1
  <2> QED BY <2>1, <2>2, <2>3
<1>13. \A i \in 0 .. m : i \in P
  <2> HIDE DEF P, m
  <2> QED BY <1>2, <1>11, <1>12, UpTo
<1>14. shown \in [0 .. m -> St]
  <2>1. \A i \in 0 .. m : shown[i] \in St
    BY <1>13
  <2>2. shown = [i \in 0 .. m |-> shown[i]]
    <3>1. PICK g : g = [i \in 0 .. m |-> IF i = 0 THEN <<>> ELSE Next(shown[i - 1], i)]
      OBVIOUS
    <3>2. shown = g
      BY <1>8, <3>1
    <3>3. g = [i \in 0 .. m |-> g[i]]
      BY <3>1
    <3> QED BY <3>2, <3>3
  <2> HIDE DEF m, P, Equation
  <2> QED BY <2>1, <2>2
<1>15. IsShown(shown, s)
  BY <1>10, <1>14 DEF IsShown, Next, St, F
<1> QED BY <1>2, <1>9, <1>15 DEF F

\* The strings reported of a file are those of the file.
LEMMA StringsAreFound ==
  ASSUME use = "file" => text \in Seq(FileBytes)
  PROVE  StringsAsFound
<1> SUFFICES ASSUME use = "file"
             PROVE  StringsAsFound
  BY Zenon DEF StringsAsFound
<1>1. PICK s : s = text /\ s \in Seq(FileBytes)
  OBVIOUS
<1>2. PICK m : m = Len(s) /\ m \in Nat
  BY <1>1, LenProperties
<1>3. NoStrings \in Inspections
  BY DEF NoStrings, Inspections
<1>4. PICK f : IsInspection(f, NoStrings, s)
  BY <1>1, <1>3, InspectionSteps
<1>5. StringsFound(s) = RetainString(f[m])
  BY <1>1, <1>2, <1>4, AllIsPolled
<1>6. PICK shown : shown = ShownOf(s) /\ IsShown(shown, s)
  BY <1>1, ShownSteps
<1>7. m \in 0 .. m /\ m \in 0 .. Len(s)
  BY <1>2
<1>8. PICK p \in Parts(s, Breaks) : p[1] <= m /\ m < p[2]
  BY <1>2, <1>7, PartAt
<1>9. p[2] = m + 1
  <2>1. p[2] \in 1 .. Len(s) + 1
    BY <1>2, PartsApart
  <2> QED BY <1>2, <1>8, <2>1
<1>10. HasFound(s, shown, p, m, f[m])
  BY <1>1, <1>4, <1>6, <1>7, <1>8, FoundSoFar
<1>11. f[m] \in Inspections
  BY <1>2, <1>4, <1>7 DEF IsInspection
<1>12. PICK n : n = Cardinality(Ended(LongParts(s), m + 1))
  OBVIOUS
<1>13. PICK r : r = f[m] /\ r \in Inspections /\ HasFound(s, shown, p, m, r)
  BY <1>10, <1>11
<1>14. RetainString(r) = [run |-> <<>>, count |-> n, preview |-> Cut(shown[n], PreviewSize - 1)]
  BY <1>1, <1>6, <1>7, <1>8, <1>9, <1>12, <1>13, FoundAtEnd
<1>15. Ended(LongParts(s), m + 1) = LongParts(s)
  <2>1. PICK F : F = LongParts(s) /\ F \in SUBSET Parts(s, Breaks)
    BY DEF LongParts
  <2>2. Ended(F, Len(s) + 1) = F
    BY <1>2, <2>1, EndedCount
  <2> QED BY <1>2, <2>1, <2>2
<1>16. /\ StringsFound(s).count = Cardinality(LongParts(s))
       /\ StringsFound(s).preview = Cut(ShownOf(s)[Cardinality(LongParts(s))], PreviewSize - 1)
  BY <1>5, <1>6, <1>12, <1>13, <1>14, <1>15
<1>17. /\ StringsFound(text).count = Cardinality(LongParts(text))
       /\ StringsFound(text).preview =
            Cut(ShownOf(text)[Cardinality(LongParts(text))], PreviewSize - 1)
  BY <1>1, <1>16
<1> QED BY <1>17, Zenon DEF StringsAsFound, ShownOf, LongParts, Breaks, Cut

-----------------------------------------------------------------------------
(* Reading a path: the two loops of valid_path() against what a path means. *)
(* A recursive definition is a function chosen by its equation; that one    *)
(* such function exists, and what it says after each character, is shown by *)
(* the least character for which it would not.                              *)

\* The counters before the first character
NothingSeen == [length |-> 0, component |-> 0, depth |-> 0, ok |-> TRUE]

\* f has the counters after each number of characters.
Scans(f, s, m) ==
  /\ f[0] = NothingSeen
  /\ \A i \in 1 .. m : f[i] = PathCharacter(f[i - 1], s[i])

\* The counters are defined after every number of characters.
LEMMA ScansExist ==
  ASSUME NEW s, NEW m \in Nat
  PROVE  \E f : f = [i \in 0 .. m |-> f[i]] /\ Scans(f, s, m)
<1> DEFINE Has(n) == \E f : f = [i \in 0 .. n |-> f[i]] /\ Scans(f, s, n)
           Bad == {n \in Nat : ~Has(n)}
<1>. SUFFICES ASSUME Bad # {} PROVE FALSE
  OBVIOUS
<1>1. Bad \in SUBSET Nat
  OBVIOUS
<1>2. PICK b \in Bad : \A n \in Bad : b <= n
  BY <1>1, LeastOf
<1>3. b \in Nat /\ ~Has(b)
  BY <1>2
<1>4. CASE b = 0
  <2> DEFINE g == [i \in 0 .. 0 |-> NothingSeen]
  <2>1. g = [i \in 0 .. 0 |-> g[i]] /\ g[0] = NothingSeen
    OBVIOUS
  <2>2. Scans(g, s, 0)
    BY <2>1 DEF Scans
  <2>. HIDE DEF g
  <2>3. Has(0)
    BY <2>1, <2>2
  <2>. QED BY <1>3, <1>4, <2>3
<1>5. CASE b # 0
  <2>1. b - 1 \in Nat /\ ~(b <= b - 1)
    BY <1>3, <1>5
  <2>2. Has(b - 1)
    <3>1. b - 1 \notin Bad
      BY <1>2, <2>1
    <3>. QED BY <2>1, <3>1
  <2>3. PICK f : f = [i \in 0 .. b - 1 |-> f[i]] /\ Scans(f, s, b - 1)
    BY <2>2
  <2> DEFINE g == [i \in 0 .. b |-> IF i = b THEN PathCharacter(f[b - 1], s[b]) ELSE f[i]]
  <2>4. g = [i \in 0 .. b |-> g[i]]
    OBVIOUS
  <2>5. /\ \A i \in 0 .. b - 1 : g[i] = f[i]
        /\ g[b] = PathCharacter(f[b - 1], s[b])
    BY <1>3
  <2>6. Scans(g, s, b)
    <3>. HIDE DEF g
    <3>1. g[0] = NothingSeen
      BY <1>3, <1>5, <2>3, <2>5 DEF Scans
    <3>2. ASSUME NEW i \in 1 .. b
          PROVE  g[i] = PathCharacter(g[i - 1], s[i])
      <4>1. i - 1 \in 0 .. b - 1
        BY <1>3
      <4>2. CASE i = b
        BY <2>5, <4>1, <4>2
      <4>3. CASE i # b
        <5>1. i \in 1 .. b - 1 /\ i \in 0 .. b - 1
          BY <1>3, <4>3
        <5>2. f[i] = PathCharacter(f[i - 1], s[i])
          BY <2>3, <5>1 DEF Scans
        <5>. QED BY <2>5, <4>1, <5>1, <5>2
      <4>. QED BY <4>2, <4>3
    <3>. QED BY <3>1, <3>2 DEF Scans
  <2>. HIDE DEF g
  <2>7. Has(b)
    BY <2>4, <2>6
  <2>. QED BY <1>3, <2>7
<1>. QED BY <1>4, <1>5

\* The answer of the first loop is the last counters of such a function.
LEMMA PathScans ==
  ASSUME NEW s, Len(s) \in Nat
  PROVE  \E f : Scans(f, s, Len(s)) /\ PathScanned(s) = f[Len(s)]
<1> DEFINE m == Len(s)
           Equation(g) == g = [i \in 0 .. m |-> IF i = 0 THEN NothingSeen ELSE PathCharacter(g[i - 1], s[i])]
           after == CHOOSE g : Equation(g)
<1>1. PICK f : f = [i \in 0 .. m |-> f[i]] /\ Scans(f, s, m)
  BY ScansExist
<1>2. Equation(f)
  <2> DEFINE g == [i \in 0 .. m |-> IF i = 0 THEN NothingSeen ELSE PathCharacter(f[i - 1], s[i])]
  <2>1. ASSUME NEW i \in 0 .. m
        PROVE  f[i] = g[i]
    <3>1. CASE i = 0
      BY <1>1, <3>1 DEF Scans
    <3>2. CASE i # 0
      <4>1. i \in 1 .. m
        BY <3>2
      <4>. QED BY <1>1, <3>2, <4>1 DEF Scans
    <3>. QED BY <3>1, <3>2
  <2>. QED BY <1>1, <2>1
<1>3. Equation(after)
  <2>. HIDE DEF Equation
  <2>. QED BY <1>2, Zenon
<1>4. PathScanned(s) = after[m]
  BY Zenon DEF PathScanned, NothingSeen
<1>. HIDE DEF after
<1>5. Scans(after, s, m)
  <2>1. after[0] = NothingSeen
    BY <1>3
  <2>2. ASSUME NEW i \in 1 .. m
        PROVE  after[i] = PathCharacter(after[i - 1], s[i])
    <3>1. i \in 0 .. m /\ i # 0
      OBVIOUS
    <3>. QED BY <1>3, <3>1
  <2>. QED BY <2>1, <2>2 DEF Scans
<1>. QED BY <1>4, <1>5

-----------------------------------------------------------------------------
(* What the counters of valid_path() say of the characters read.           *)

\* The counters
Counters == [length : Nat, component : Nat, depth : Nat, ok : BOOLEAN]

\* The slashes that end a component, and what is wanted of the first i characters
Slashes(s, i) == {j \in 2 .. i : s[j] = "/"}
FineTo(s, i) ==
  /\ i <= PathSize - 1
  /\ \A j \in 1 .. i : s[j] # ":"
  /\ \A j \in 2 .. i : s[j] = "/" => s[j - 1] # "/"
  /\ Cardinality(Slashes(s, i)) <= PathDepth

\* What counters c say after i characters
Counted(s, i, c) ==
  /\ c \in Counters
  /\ c.ok <=> FineTo(s, i)
  /\ c.ok => /\ c.length = i /\ c.depth = Cardinality(Slashes(s, i))
             /\ c.component > 0 <=> i > 0 /\ s[i] # "/"

\* One character more adds at most one slash that ends a component.
LEMMA SlashesGrow ==
  ASSUME NEW s, NEW i \in Nat
  PROVE  /\ IsFiniteSet(Slashes(s, i)) /\ Cardinality(Slashes(s, i)) \in Nat
         /\ i + 1 \notin Slashes(s, i)
         /\ Slashes(s, i + 1) = Slashes(s, i) \cup
                                (IF i > 0 /\ s[i + 1] = "/" THEN {i + 1} ELSE {})
         /\ Cardinality(Slashes(s, i + 1)) =
              Cardinality(Slashes(s, i)) + IF i > 0 /\ s[i + 1] = "/" THEN 1 ELSE 0
<1>1. IsFiniteSet(2 .. i)
  BY FS_Interval
<1>2. Slashes(s, i) \in SUBSET (2 .. i)
  BY DEF Slashes
<1>3. IsFiniteSet(Slashes(s, i)) /\ Cardinality(Slashes(s, i)) \in Nat
  BY <1>1, <1>2, FS_Subset, FS_CardinalityType
<1>4. i + 1 \notin Slashes(s, i)
  BY <1>2
<1>5. 2 .. i + 1 = (2 .. i) \cup (IF i > 0 THEN {i + 1} ELSE {})
  OBVIOUS
<1>6. Slashes(s, i + 1) = Slashes(s, i) \cup (IF i > 0 /\ s[i + 1] = "/" THEN {i + 1} ELSE {})
  BY <1>5 DEF Slashes
<1>7. CASE i > 0 /\ s[i + 1] = "/"
  BY <1>3, <1>4, <1>6, <1>7, FS_AddElement
<1>8. CASE ~(i > 0 /\ s[i + 1] = "/")
  <2>1. Slashes(s, i + 1) = Slashes(s, i)
    BY <1>6, <1>8
  <2> QED BY <1>3, <1>4, <1>6, <1>8, <2>1
<1> QED BY <1>7, <1>8

\* What one character more has to satisfy.
LEMMA FineToNext ==
  ASSUME NEW s, NEW i \in Nat
  PROVE  FineTo(s, i + 1) <=>
           /\ FineTo(s, i) /\ i + 1 <= PathSize - 1 /\ s[i + 1] # ":"
           /\ i > 0 /\ s[i + 1] = "/" => s[i] # "/"
           /\ i > 0 /\ s[i + 1] = "/" => Cardinality(Slashes(s, i)) + 1 <= PathDepth
<1>1. /\ Cardinality(Slashes(s, i)) \in Nat
      /\ Cardinality(Slashes(s, i + 1)) =
           Cardinality(Slashes(s, i)) + IF i > 0 /\ s[i + 1] = "/" THEN 1 ELSE 0
  BY SlashesGrow
<1>2. 1 .. i + 1 = (1 .. i) \cup {i + 1}
  OBVIOUS
<1>3. 2 .. i + 1 = (2 .. i) \cup (IF i > 0 THEN {i + 1} ELSE {})
  OBVIOUS
<1>4. i + 1 - 1 = i
  OBVIOUS
<1>5. (\A j \in 1 .. i + 1 : s[j] # ":") <=> (\A j \in 1 .. i : s[j] # ":") /\ s[i + 1] # ":"
  BY <1>2
<1>6. (\A j \in 2 .. i + 1 : s[j] = "/" => s[j - 1] # "/") <=>
        /\ \A j \in 2 .. i : s[j] = "/" => s[j - 1] # "/"
        /\ i > 0 /\ s[i + 1] = "/" => s[i] # "/"
  BY <1>3, <1>4
<1>7. PathSize \in Nat /\ PathDepth \in Nat
  BY PathsAssumption
<1>8. Cardinality(Slashes(s, i + 1)) <= PathDepth <=>
        /\ Cardinality(Slashes(s, i)) <= PathDepth
        /\ i > 0 /\ s[i + 1] = "/" => Cardinality(Slashes(s, i)) + 1 <= PathDepth
  BY <1>1, <1>7
<1>9. i + 1 <= PathSize - 1 => i <= PathSize - 1
  BY <1>7
<1> QED BY <1>5, <1>6, <1>8, <1>9, Zenon DEF FineTo

\* One turn of the first loop keeps what its counters say of the text.
LEMMA CharacterCounted ==
  ASSUME NEW s, NEW i \in Nat, NEW c, Counted(s, i, c)
  PROVE  Counted(s, i + 1, PathCharacter(c, s[i + 1]))
<1> DEFINE d == PathCharacter(c, s[i + 1])
           k == Cardinality(Slashes(s, i))
<1>1. c \in Counters /\ (c.ok <=> FineTo(s, i))
  BY DEF Counted
<1>2. c.ok => /\ c.length = i /\ c.depth = k
              /\ c.component > 0 <=> i > 0 /\ s[i] # "/"
  BY DEF Counted
<1>3. /\ PathSize \in Nat /\ PathDepth \in Nat /\ k \in Nat
      /\ Cardinality(Slashes(s, i + 1)) = k + IF i > 0 /\ s[i + 1] = "/" THEN 1 ELSE 0
  BY PathsAssumption, SlashesGrow
<1>n. /\ c.length \in Nat /\ c.component \in Nat /\ c.depth \in Nat
      /\ c = [length |-> c.length, component |-> c.component, depth |-> c.depth, ok |-> c.ok]
  BY <1>1 DEF Counters
<1> HIDE DEF k
<1>4. CASE ~c.ok
  <2>1. d = c
    BY <1>4 DEF PathCharacter
  <2>2. ~FineTo(s, i + 1)
    BY <1>1, <1>4, FineToNext
  <2> QED BY <1>1, <1>4, <2>1, <2>2 DEF Counted
<1>5. CASE c.ok /\ (c.length >= PathSize - 1 \/ s[i + 1] = ":")
  <2>0. c.length >= PathSize - 1 => ~(c.length < PathSize - 1)
    BY <1>n, <1>3
  <2>1. d = [c EXCEPT !.ok = FALSE]
    BY <1>5, <2>0 DEF PathCharacter
  <2>2. ~FineTo(s, i + 1)
    <3>1. i >= PathSize - 1 => ~(i + 1 <= PathSize - 1)
      BY <1>3
    <3> QED BY <1>2, <1>5, <3>1, FineToNext
  <2>3. d \in Counters /\ ~d.ok
    BY <1>1, <2>1 DEF Counters
  <2> QED BY <2>2, <2>3 DEF Counted
<1>6. CASE c.ok /\ c.length < PathSize - 1 /\ s[i + 1] \notin {":", "/"}
  <2>1. d = [c EXCEPT !.component = @ + 1, !.length = @ + 1]
    BY <1>3, <1>n, <1>6 DEF PathCharacter
  <2>2. FineTo(s, i + 1)
    <3>1. i + 1 <= PathSize - 1
      BY <1>2, <1>3, <1>6
    <3> QED BY <1>1, <1>6, <3>1, FineToNext
  <2>3. d \in Counters /\ d.ok /\ d.length = i + 1 /\ d.depth = c.depth /\ d.component > 0
    <3>1. d = [length |-> c.length + 1, component |-> c.component + 1,
               depth |-> c.depth, ok |-> c.ok]
      BY <1>n, <2>1
    <3>2. c.component + 1 \in Nat /\ c.component + 1 > 0 /\ c.length + 1 \in Nat
      BY <1>n
    <3> HIDE DEF d
    <3> QED BY <1>2, <1>n, <1>6, <3>1, <3>2 DEF Counters
  <2>4. i + 1 > 0 /\ Cardinality(Slashes(s, i + 1)) = k
    BY <1>3, <1>6
  <2> QED BY <1>2, <1>6, <2>2, <2>3, <2>4 DEF Counted
<1>7. CASE c.ok /\ c.length < PathSize - 1 /\ s[i + 1] = "/" /\ i = 0
  <2>1. d = [c EXCEPT !.length = 1]
    BY <1>2, <1>3, <1>7 DEF PathCharacter
  <2>2. FineTo(s, i + 1)
    <3>1. i + 1 <= PathSize - 1
      BY <1>2, <1>3, <1>7
    <3> QED BY <1>1, <1>7, <3>1, FineToNext
  <2>3. d \in Counters /\ d.ok /\ d.length = i + 1 /\ d.depth = c.depth /\ ~(d.component > 0)
    <3>1. d = [length |-> 1, component |-> c.component, depth |-> c.depth, ok |-> c.ok]
      BY <1>n, <2>1
    <3> HIDE DEF d
    <3> QED BY <1>2, <1>n, <1>7, <3>1 DEF Counters
  <2>4. Cardinality(Slashes(s, i + 1)) = k
    BY <1>3, <1>7
  <2> QED BY <1>2, <1>7, <2>2, <2>3, <2>4 DEF Counted
<1>8. CASE c.ok /\ c.length < PathSize - 1 /\ s[i + 1] = "/" /\ i # 0
  <2>1. d = [c EXCEPT !.ok = c.component > 0 /\ c.depth < PathDepth,
                      !.depth = @ + 1, !.component = 0, !.length = @ + 1]
    BY <1>2, <1>3, <1>8 DEF PathCharacter
  <2>2. c.component > 0 /\ c.depth < PathDepth <=> FineTo(s, i + 1)
    <3>1. i + 1 <= PathSize - 1 /\ i > 0
      BY <1>2, <1>3, <1>8
    <3>2. c.depth < PathDepth <=> k + 1 <= PathDepth
      BY <1>2, <1>3, <1>8
    <3>3. c.component > 0 <=> s[i] # "/"
      BY <1>2, <1>8, <3>1
    <3>4. FineTo(s, i + 1) <=> s[i] # "/" /\ k + 1 <= PathDepth
      BY <1>1, <1>8, <3>1, FineToNext DEF k
    <3> QED BY <3>2, <3>3, <3>4
  <2>3. /\ d \in Counters /\ (d.ok <=> c.component > 0 /\ c.depth < PathDepth)
        /\ d.length = i + 1 /\ d.depth = k + 1 /\ ~(d.component > 0)
    <3> DEFINE o == c.component > 0 /\ c.depth < PathDepth
    <3>1. d = [length |-> c.length + 1, component |-> 0, depth |-> c.depth + 1, ok |-> o]
      BY <1>n, <2>1
    <3>2. o \in BOOLEAN /\ c.depth + 1 \in Nat /\ c.length + 1 \in Nat
      BY <1>n
    <3>3. c.length = i /\ c.depth = k
      BY <1>2, <1>8
    <3> HIDE DEF d, o
    <3>4. d \in Counters /\ d.ok = o /\ d.length = i + 1 /\ d.depth = k + 1 /\ d.component = 0
      BY <3>1, <3>2, <3>3 DEF Counters
    <3>5. d.component = 0 => ~(d.component > 0)
      OBVIOUS
    <3>6. d.ok <=> c.component > 0 /\ c.depth < PathDepth
      BY <3>4 DEF o
    <3> QED BY <3>4, <3>5, <3>6
  <2>4. Cardinality(Slashes(s, i + 1)) = k + 1
    BY <1>3, <1>8
  <2> QED BY <1>8, <2>2, <2>3, <2>4 DEF Counted
<1>9. c.length >= PathSize - 1 \/ c.length < PathSize - 1
  BY <1>1, <1>3 DEF Counters
<1> QED BY <1>4, <1>5, <1>6, <1>7, <1>8, <1>9

\* At the end of the text the counters say it of the whole text.
LEMMA ScanIsCounted ==
  ASSUME NEW S, NEW s \in Seq(S)
  PROVE  Counted(s, Len(s), PathScanned(s))
<1>1. Len(s) \in Nat
  BY LenProperties
<1>2. PICK f : Scans(f, s, Len(s)) /\ PathScanned(s) = f[Len(s)]
  BY <1>1, PathScans
<1> DEFINE Bad == {i \in 0 .. Len(s) : ~Counted(s, i, f[i])}
<1> SUFFICES ASSUME Bad # {} PROVE FALSE
  BY <1>1, <1>2
<1>3. Bad \in SUBSET Nat
  OBVIOUS
<1>4. PICK b \in Bad : \A n \in Bad : b <= n
  BY <1>3, LeastOf
<1>5. b \in 0 .. Len(s) /\ ~Counted(s, b, f[b])
  BY <1>4
<1>6. CASE b = 0
  <2>1. Slashes(s, 0) = {}
    BY DEF Slashes
  <2>2. FineTo(s, 0) /\ Cardinality(Slashes(s, 0)) = 0
    <3>1. Cardinality(Slashes(s, 0)) = 0
      BY <2>1, FS_EmptySet
    <3> QED BY <3>1, PathsAssumption DEF FineTo
  <2>3. Counted(s, 0, NothingSeen)
    BY <2>2 DEF Counted, NothingSeen, Counters
  <2> QED BY <1>2, <1>5, <1>6, <2>3 DEF Scans
<1>7. CASE b # 0
  <2>1. b \in 1 .. Len(s) /\ b - 1 \in 0 .. Len(s) /\ ~(b <= b - 1) /\ b - 1 \in Nat
        /\ b - 1 + 1 = b
    BY <1>1, <1>5, <1>7
  <2>2. Counted(s, b - 1, f[b - 1])
    <3>1. b - 1 \notin Bad
      BY <1>4, <2>1
    <3> QED BY <2>1, <3>1
  <2>3. Counted(s, b - 1 + 1, PathCharacter(f[b - 1], s[b - 1 + 1]))
    BY <2>1, <2>2, CharacterCounted
  <2> QED BY <1>2, <1>5, <2>1, <2>3 DEF Scans
<1> QED BY <1>6, <1>7

-----------------------------------------------------------------------------
(* What the second loop of valid_path() finds.                             *)

\* The names that are ways out
Dots == {<<".">>, <<".", ".">>}

\* No component that starts at i or after it is a dot or two
CleanFrom(s, i) ==
  \A j \in i .. Len(s) :
    s[j] # "/" /\ (j = i \/ s[j - 1] = "/") => SubSeq(s, j, ComponentEnd(s, j) - 1) \notin Dots

\* strchr() finds the first slash, or the end.
LEMMA EndFound ==
  ASSUME NEW s, Len(s) \in Nat, NEW i \in 1 .. Len(s)
  PROVE  /\ ComponentEnd(s, i) \in i .. Len(s) + 1
         /\ ComponentEnd(s, i) <= Len(s) => s[ComponentEnd(s, i)] = "/"
         /\ \A k \in i .. Len(s) : k < ComponentEnd(s, i) => s[k] # "/"
<1> DEFINE slashes == {j \in i .. Len(s) : s[j] = "/"}
           least == CHOOSE j \in slashes : \A k \in slashes : j <= k
<1>1. CASE slashes = {}
  <2>1. ComponentEnd(s, i) = Len(s) + 1
    BY <1>1 DEF ComponentEnd
  <2> QED BY <1>1, <2>1
<1>2. CASE slashes # {}
  <2>1. ComponentEnd(s, i) = least
    BY <1>2 DEF ComponentEnd
  <2>2. slashes \in SUBSET Nat
    OBVIOUS
  <2>3. \E m \in slashes : \A n \in slashes : m <= n
    BY <1>2, <2>2, LeastOf
  <2>4. least \in slashes /\ \A k \in slashes : least <= k
    BY <2>3
  <2> HIDE DEF least
  <2>5. ASSUME NEW k \in i .. Len(s), k < least
        PROVE  s[k] # "/"
    <3>1. least \in Nat /\ ~(least <= k)
      BY <2>4, <2>5
    <3> QED BY <2>4, <3>1
  <2> QED BY <2>1, <2>4, <2>5
<1> QED BY <1>1, <1>2

\* A slash is passed over.
LEMMA CleanAtSlash ==
  ASSUME NEW s, Len(s) \in Nat, NEW i \in 1 .. Len(s), s[i] = "/"
  PROVE  CleanFrom(s, i) <=> CleanFrom(s, i + 1)
<1>1. ASSUME CleanFrom(s, i), NEW j \in i + 1 .. Len(s), s[j] # "/", j = i + 1 \/ s[j - 1] = "/"
      PROVE  SubSeq(s, j, ComponentEnd(s, j) - 1) \notin Dots
  <2>1. j \in i .. Len(s) /\ (j = i + 1 => j - 1 = i)
    OBVIOUS
  <2>2. s[j - 1] = "/"
    BY <1>1, <2>1
  <2> QED BY <1>1, <2>1, <2>2 DEF CleanFrom
<1>2. ASSUME CleanFrom(s, i + 1), NEW j \in i .. Len(s), s[j] # "/", j = i \/ s[j - 1] = "/"
      PROVE  SubSeq(s, j, ComponentEnd(s, j) - 1) \notin Dots
  <2>1. j \in i + 1 .. Len(s)
    BY <1>2
  <2> QED BY <1>2, <2>1 DEF CleanFrom
<1> QED BY <1>1, <1>2 DEF CleanFrom

\* Behind a component the search goes on where the component ends.
LEMMA CleanAtComponent ==
  ASSUME NEW s, Len(s) \in Nat, NEW i \in 1 .. Len(s), s[i] # "/"
  PROVE  CleanFrom(s, i) <=>
           /\ SubSeq(s, i, ComponentEnd(s, i) - 1) \notin Dots
           /\ CleanFrom(s, ComponentEnd(s, i))
<1> DEFINE e == ComponentEnd(s, i)
<1>1. /\ e \in i .. Len(s) + 1 /\ (e <= Len(s) => s[e] = "/")
      /\ \A k \in i .. Len(s) : k < e => s[k] # "/"
  BY EndFound
<1> HIDE DEF e
<1>2. e > i
  <2>1. e # i
    BY <1>1
  <2> QED BY <1>1, <2>1
<1>3. ASSUME CleanFrom(s, i)
      PROVE  SubSeq(s, i, e - 1) \notin Dots /\ CleanFrom(s, e)
  <2>1. SubSeq(s, i, e - 1) \notin Dots
    <3>1. i \in i .. Len(s)
      OBVIOUS
    <3> QED BY <1>3, <3>1 DEF CleanFrom, e
  <2>2. ASSUME NEW j \in e .. Len(s), s[j] # "/", j = e \/ s[j - 1] = "/"
        PROVE  SubSeq(s, j, ComponentEnd(s, j) - 1) \notin Dots
    <3>1. j \in i .. Len(s) /\ j # e
      BY <1>1, <2>2
    <3> QED BY <1>3, <2>2, <3>1 DEF CleanFrom
  <2> QED BY <2>1, <2>2 DEF CleanFrom
<1>4. ASSUME SubSeq(s, i, e - 1) \notin Dots, CleanFrom(s, e),
             NEW j \in i .. Len(s), s[j] # "/", j = i \/ s[j - 1] = "/"
      PROVE  SubSeq(s, j, ComponentEnd(s, j) - 1) \notin Dots
  <2>1. CASE j = i
    BY <1>4, <2>1 DEF e
  <2>2. CASE j # i
    <3>1. j - 1 \in i .. Len(s) /\ s[j - 1] = "/"
      BY <1>4, <2>2
    <3>2. ~(j - 1 < e)
      BY <1>1, <3>1
    <3>3. j \in e .. Len(s)
      BY <1>1, <3>2
    <3> QED BY <1>4, <3>1, <3>3 DEF CleanFrom
  <2> QED BY <2>1, <2>2
<1> QED BY <1>3, <1>4 DEF CleanFrom, e

\* from has the second loop's answer for what starts at each character.
Searches(from, s) ==
  from = [i \in 1 .. Len(s) + 1 |->
            \/ i > Len(s)
            \/ s[i] = "/" /\ from[i + 1]
            \/ /\ s[i] # "/"
               /\ SubSeq(s, i, ComponentEnd(s, i) - 1) \notin {<<".">>, <<".", ".">>}
               /\ from[ComponentEnd(s, i)]]

\* CleanFrom is an answer of the second loop.
LEMMA CleanSearches ==
  ASSUME NEW s, Len(s) \in Nat
  PROVE  Searches([i \in 1 .. Len(s) + 1 |-> CleanFrom(s, i)], s)
<1> DEFINE f == [i \in 1 .. Len(s) + 1 |-> CleanFrom(s, i)]
           g == [i \in 1 .. Len(s) + 1 |->
                   \/ i > Len(s)
                   \/ s[i] = "/" /\ f[i + 1]
                   \/ /\ s[i] # "/"
                      /\ SubSeq(s, i, ComponentEnd(s, i) - 1) \notin {<<".">>, <<".", ".">>}
                      /\ f[ComponentEnd(s, i)]]
<1>1. ASSUME NEW i \in 1 .. Len(s) + 1
      PROVE  f[i] = g[i]
  <2>1. CASE i > Len(s)
    <3>1. i .. Len(s) = {}
      BY <2>1
    <3>2. CleanFrom(s, i) = TRUE
      BY <3>1 DEF CleanFrom
    <3>3. f[i] = TRUE
      BY <3>2
    <3>4. g[i] = TRUE
      BY <2>1
    <3> QED BY <3>3, <3>4
  <2>2. CASE i \in 1 .. Len(s) /\ s[i] = "/"
    <3>1. i + 1 \in 1 .. Len(s) + 1 /\ ~(i > Len(s))
      BY <2>2
    <3>2. CleanFrom(s, i) = CleanFrom(s, i + 1)
      <4>1. CleanFrom(s, i) <=> CleanFrom(s, i + 1)
        BY <2>2, CleanAtSlash
      <4> QED BY <4>1 DEF CleanFrom
    <3>3. f[i + 1] = CleanFrom(s, i + 1) /\ f[i] = CleanFrom(s, i)
      BY <3>1
    <3>4. g[i] = (\/ i > Len(s)
                  \/ s[i] = "/" /\ f[i + 1]
                  \/ /\ s[i] # "/"
                     /\ SubSeq(s, i, ComponentEnd(s, i) - 1) \notin {<<".">>, <<".", ".">>}
                     /\ f[ComponentEnd(s, i)])
      OBVIOUS
    <3>5. CleanFrom(s, i + 1) \in BOOLEAN
      BY DEF CleanFrom
    <3> HIDE DEF f, g
    <3> QED BY <2>2, <3>1, <3>2, <3>3, <3>4, <3>5
  <2>3. CASE i \in 1 .. Len(s) /\ s[i] # "/"
    <3> DEFINE e == ComponentEnd(s, i)
               word == SubSeq(s, i, ComponentEnd(s, i) - 1)
    <3>1. e \in 1 .. Len(s) + 1 /\ ~(i > Len(s))
      BY <2>3, EndFound
    <3>2. CleanFrom(s, i) <=> word \notin Dots /\ CleanFrom(s, e)
      BY <2>3, CleanAtComponent
    <3>3. f[e] = CleanFrom(s, e) /\ f[i] = CleanFrom(s, i)
      BY <3>1
    <3>4. g[i] = (\/ i > Len(s)
                  \/ s[i] = "/" /\ f[i + 1]
                  \/ /\ s[i] # "/"
                     /\ word \notin {<<".">>, <<".", ".">>}
                     /\ f[e])
      OBVIOUS
    <3>5. CleanFrom(s, e) \in BOOLEAN /\ CleanFrom(s, i) \in BOOLEAN
      BY DEF CleanFrom
    <3> HIDE DEF f, g, e, word
    <3> QED BY <2>3, <3>1, <3>2, <3>3, <3>4, <3>5 DEF Dots
  <2>4. i > Len(s) \/ i \in 1 .. Len(s)
    OBVIOUS
  <2> QED BY <2>1, <2>2, <2>3, <2>4
<1>2. f = g
  <2>1. f = [i \in 1 .. Len(s) + 1 |-> f[i]] /\ g = [i \in 1 .. Len(s) + 1 |-> g[i]]
    OBVIOUS
  <2> HIDE DEF f, g
  <2> QED BY <1>1, <2>1
<1> HIDE DEF f
<1>3. Searches(f, s)
  BY <1>2, Zenon DEF Searches
<1> QED BY <1>3 DEF f

\* It is the only one.
LEMMA SearchIsClean ==
  ASSUME NEW s, Len(s) \in Nat, NEW from, Searches(from, s), NEW i \in 1 .. Len(s) + 1
  PROVE  from[i] <=> CleanFrom(s, i)
<1> DEFINE far(n) == Len(s) + 1 - n
           Bad == {n \in 0 .. Len(s) : ~(from[far(n)] <=> CleanFrom(s, far(n)))}
<1>1. ASSUME Bad # {}
      PROVE  FALSE
  <2>1. Bad \in SUBSET Nat
    OBVIOUS
  <2>2. PICK b \in Bad : \A n \in Bad : b <= n
    BY <1>1, <2>1, LeastOf
  <2> DEFINE k == far(b)
  <2>3. b \in 0 .. Len(s) /\ k \in 1 .. Len(s) + 1 /\ ~(from[k] <=> CleanFrom(s, k))
    BY <2>2
  <2>4. ASSUME NEW j \in 1 .. Len(s) + 1, j > k
        PROVE  from[j] <=> CleanFrom(s, j)
    <3>1. far(j) \in 0 .. Len(s) /\ ~(b <= far(j)) /\ far(far(j)) = j
      BY <2>3, <2>4
    <3>2. far(j) \notin Bad
      BY <2>2, <3>1
    <3> QED BY <3>1, <3>2
  <2> HIDE DEF Bad, far, k
  <2>5. from[k] = (\/ k > Len(s)
                   \/ s[k] = "/" /\ from[k + 1]
                   \/ /\ s[k] # "/"
                      /\ SubSeq(s, k, ComponentEnd(s, k) - 1) \notin {<<".">>, <<".", ".">>}
                      /\ from[ComponentEnd(s, k)])
    BY <2>3, Zenon DEF Searches
  <2>6. CASE k > Len(s)
    <3>1. k .. Len(s) = {}
      BY <2>3, <2>6
    <3>2. CleanFrom(s, k)
      BY <3>1 DEF CleanFrom
    <3> QED BY <2>3, <2>5, <2>6, <3>2
  <2>7. CASE k \in 1 .. Len(s) /\ s[k] = "/"
    <3>1. k + 1 \in 1 .. Len(s) + 1 /\ k + 1 > k /\ ~(k > Len(s))
      BY <2>7
    <3>2. from[k + 1] <=> CleanFrom(s, k + 1)
      BY <2>4, <3>1
    <3>3. CleanFrom(s, k) <=> CleanFrom(s, k + 1)
      BY <2>7, CleanAtSlash
    <3> QED BY <2>3, <2>5, <2>7, <3>1, <3>2, <3>3
  <2>8. CASE k \in 1 .. Len(s) /\ s[k] # "/"
    <3> DEFINE e == ComponentEnd(s, k)
    <3>1. /\ e \in k .. Len(s) + 1 /\ ~(k > Len(s))
          /\ e <= Len(s) => s[e] = "/"
      BY <2>8, EndFound
    <3>2. e \in 1 .. Len(s) + 1 /\ e > k
      <4> HIDE DEF e
      <4>1. e # k
        BY <2>8, <3>1
      <4> QED BY <2>8, <3>1, <4>1
    <3>3. from[e] <=> CleanFrom(s, e)
      BY <2>4, <3>2
    <3>4. CleanFrom(s, k) <=> SubSeq(s, k, e - 1) \notin Dots /\ CleanFrom(s, e)
      BY <2>8, CleanAtComponent
    <3> QED BY <2>3, <2>5, <2>8, <3>1, <3>3, <3>4 DEF Dots
  <2>9. k > Len(s) \/ k \in 1 .. Len(s)
    BY <2>3
  <2> QED BY <2>6, <2>7, <2>8, <2>9
<1>2. far(i) \in 0 .. Len(s) /\ far(far(i)) = i
  OBVIOUS
<1> QED BY <1>1, <1>2

\* The second loop finds every component that is a dot or two.
LEMMA NoDotsIsClean ==
  ASSUME NEW s, Len(s) \in Nat
  PROVE  NoDots(s) <=> CleanFrom(s, 1)
<1> DEFINE from == CHOOSE g : Searches(g, s)
<1>1. NoDots(s) <=> from[1]
  BY Zenon DEF NoDots, Searches
<1>2. Searches(from, s)
  BY CleanSearches, Zenon
<1>3. 1 \in 1 .. Len(s) + 1
  OBVIOUS
<1> HIDE DEF from
<1> QED BY <1>1, <1>2, <1>3, SearchIsClean

-----------------------------------------------------------------------------
(* The components of a path as pairs of places.                            *)

\* The components of IsWithin
Components(s) == {p \in Parts(s, {"/"}) : ~(p = <<0, 1>> /\ Len(s) > 0)}

\* A component is what stands between places a and b.
Between(s, a, b) ==
  /\ a \in 0 .. Len(s) /\ b \in 2 .. Len(s) + 1 /\ a < b
  /\ a > 0 => s[a] = "/"
  /\ b <= Len(s) => s[b] = "/"
  /\ \A k \in 1 .. Len(s) : a < k /\ k < b => s[k] # "/"

\* The components are what stands between two places, and nothing else.
LEMMA ComponentPlaces ==
  ASSUME NEW s, Len(s) \in Nat, Len(s) > 0
  PROVE  /\ \A p \in Components(s) : p = <<p[1], p[2]>> /\ Between(s, p[1], p[2])
         /\ \A a \in Nat, b \in Nat : Between(s, a, b) => <<a, b>> \in Components(s)
<1> DEFINE ends == {i \in 1 .. Len(s) : s[i] \in {"/"}} \union {0, Len(s) + 1}
<1>1. Parts(s, {"/"}) = {p \in ends \X ends : p[1] < p[2] /\ ~ \E i \in ends : p[1] < i /\ i < p[2]}
  BY DEF Parts
<1>2. \A i : i \in ends <=> i = 0 \/ i = Len(s) + 1 \/ (i \in 1 .. Len(s) /\ s[i] = "/")
  OBVIOUS
<1> HIDE DEF ends
<1>3. ASSUME NEW p \in Components(s)
      PROVE  p = <<p[1], p[2]>> /\ Between(s, p[1], p[2])
  <2>1. /\ p \in ends \X ends /\ p[1] < p[2] /\ ~ \E i \in ends : p[1] < i /\ i < p[2]
        /\ p # <<0, 1>>
    BY <1>1 DEF Components
  <2>2. PICK a \in ends, b \in ends : p = <<a, b>>
    BY <2>1
  <2>3. a < b /\ ~(a = 0 /\ b = 1) /\ p[1] = a /\ p[2] = b /\ ~ \E i \in ends : a < i /\ i < b
    BY <2>1, <2>2
  <2>4. a \in 0 .. Len(s) + 1 /\ b \in 0 .. Len(s) + 1
    BY <1>2, <2>2
  <2>5. a \in 0 .. Len(s) /\ b \in 2 .. Len(s) + 1
    BY <2>3, <2>4
  <2>6. a > 0 => s[a] = "/"
    BY <1>2, <2>2, <2>5
  <2>7. b <= Len(s) => s[b] = "/"
    BY <1>2, <2>2, <2>5
  <2>8. \A k \in 1 .. Len(s) : a < k /\ k < b => s[k] # "/"
    BY <1>2, <2>3
  <2> QED BY <2>2, <2>3, <2>5, <2>6, <2>7, <2>8 DEF Between
<1>4. ASSUME NEW a \in Nat, NEW b \in Nat, Between(s, a, b)
      PROVE  <<a, b>> \in Components(s)
  <2>1. /\ a \in 0 .. Len(s) /\ b \in 2 .. Len(s) + 1 /\ a < b
        /\ a > 0 => s[a] = "/"
        /\ b <= Len(s) => s[b] = "/"
        /\ \A k \in 1 .. Len(s) : a < k /\ k < b => s[k] # "/"
    BY <1>4 DEF Between
  <2>2. a \in ends
    BY <1>2, <2>1
  <2>3. b \in ends
    BY <1>2, <2>1
  <2>4. ASSUME NEW i \in ends, a < i, i < b
        PROVE  FALSE
    <3>1. i \in 1 .. Len(s) /\ s[i] = "/"
      BY <1>2, <2>1, <2>4
    <3> QED BY <2>1, <2>4, <3>1
  <2>5. <<a, b>>[1] = a /\ <<a, b>>[2] = b /\ <<a, b>> \in ends \X ends
    BY <2>2, <2>3
  <2>6. <<a, b>> \in Parts(s, {"/"})
    BY <1>1, <2>1, <2>4, <2>5
  <2>7. <<a, b>> # <<0, 1>>
    BY <2>1
  <2> QED BY <2>6, <2>7 DEF Components
<1> QED BY <1>3, <1>4

\* What ends somewhere starts somewhere.
LEMMA StartFound ==
  ASSUME NEW s, Len(s) \in Nat, NEW b \in 2 .. Len(s) + 1
  PROVE  \E a \in 0 .. Len(s) :
           /\ a < b /\ (a > 0 => s[a] = "/")
           /\ \A k \in 1 .. Len(s) : a < k /\ k < b => s[k] # "/"
<1> DEFINE steps == {n \in 1 .. b : n = b \/ s[b - n] = "/"}
<1>1. steps \in SUBSET Nat /\ b \in steps
  OBVIOUS
<1>2. PICK n \in steps : \A o \in steps : n <= o
  BY <1>1, LeastOf
<1> DEFINE a == b - n
<1>3. n \in 1 .. b /\ (n = b \/ s[b - n] = "/")
  BY <1>2
<1>4. a \in 0 .. Len(s) /\ a < b
  BY <1>3
<1>5. a > 0 => s[a] = "/"
  BY <1>3
<1>6. ASSUME NEW k \in 1 .. Len(s), a < k, k < b
      PROVE  s[k] # "/"
  <2>1. b - k \in 1 .. b /\ ~(n <= b - k) /\ b - k # b /\ b - (b - k) = k
    BY <1>3, <1>6
  <2>2. b - k \notin steps
    BY <1>2, <2>1
  <2> QED BY <2>1, <2>2
<1> QED BY <1>4, <1>5, <1>6

\* A path has one component more than slashes that end one.
LEMMA ComponentCount ==
  ASSUME NEW s, Len(s) \in Nat, Len(s) > 0
  PROVE  Cardinality(Components(s)) = Cardinality(Slashes(s, Len(s))) + 1
<1> DEFINE lasts == Slashes(s, Len(s)) \cup {Len(s) + 1}
           last == [p \in Components(s) |-> p[2]]
<1>1. \A b : b \in lasts <=> b \in 2 .. Len(s) + 1 /\ (b <= Len(s) => s[b] = "/")
  BY DEF Slashes
<1>2. IsFiniteSet(lasts) /\ Cardinality(lasts) = Cardinality(Slashes(s, Len(s))) + 1
  <2>1. /\ IsFiniteSet(Slashes(s, Len(s))) /\ Cardinality(Slashes(s, Len(s))) \in Nat
        /\ Len(s) + 1 \notin Slashes(s, Len(s))
    BY SlashesGrow
  <2> QED BY <2>1, FS_AddElement
<1> HIDE DEF lasts
<1>3. last \in [Components(s) -> lasts]
  <2>1. ASSUME NEW p \in Components(s)
        PROVE  p[2] \in lasts
    <3>1. Between(s, p[1], p[2])
      BY ComponentPlaces
    <3> QED BY <1>1, <3>1 DEF Between
  <2> QED BY <2>1
<1>4. ASSUME NEW p \in Components(s), NEW q \in Components(s), last[p] = last[q]
      PROVE  p = q
  <2>1. /\ p = <<p[1], p[2]>> /\ Between(s, p[1], p[2])
        /\ q = <<q[1], q[2]>> /\ Between(s, q[1], q[2])
    BY ComponentPlaces
  <2>2. PICK a, b, c : p = <<a, b>> /\ q = <<c, b>> /\ Between(s, a, b) /\ Between(s, c, b)
    BY <1>4, <2>1
  <2>3. /\ a \in 0 .. Len(s) /\ a < b /\ (a > 0 => s[a] = "/")
        /\ c \in 0 .. Len(s) /\ c < b /\ (c > 0 => s[c] = "/")
        /\ \A k \in 1 .. Len(s) : a < k /\ k < b => s[k] # "/"
        /\ \A k \in 1 .. Len(s) : c < k /\ k < b => s[k] # "/"
    BY <2>2 DEF Between
  <2>4. ~(a < c)
    BY <2>3
  <2>5. ~(c < a)
    BY <2>3
  <2>6. a = c
    BY <2>3, <2>4, <2>5
  <2> QED BY <2>2, <2>6
<1>5. ASSUME NEW b \in lasts
      PROVE  \E p \in Components(s) : last[p] = b
  <2>1. b \in 2 .. Len(s) + 1 /\ (b <= Len(s) => s[b] = "/")
    BY <1>1
  <2>2. PICK a \in 0 .. Len(s) : Between(s, a, b)
    BY <2>1, StartFound DEF Between
  <2>3. <<a, b>> \in Components(s)
    BY <2>1, <2>2, ComponentPlaces
  <2>4. last[<<a, b>>] = b
    BY <2>3
  <2> QED BY <2>3, <2>4
<1> HIDE DEF last
<1>6. last \in Bijection(Components(s), lasts)
  BY <1>3, <1>4, <1>5, Fun_IsBij
<1>7. ExistsBijection(lasts, Components(s))
  BY <1>6, Fun_ExistsBij, Fun_ExistsBijSymmetric
<1> QED BY <1>2, <1>7, FS_Bijection

\* A component is empty when nothing stands between its places.
LEMMA WordOf ==
  ASSUME NEW S, NEW s \in Seq(S), Len(s) > 0, NEW a, NEW b, Between(s, a, b)
  PROVE  /\ Part(s, <<a, b>>) = SubSeq(s, a + 1, b - 1)
         /\ Part(s, <<a, b>>) = <<>> <=> b = a + 1
<1>1. Len(s) \in Nat
  BY LenProperties
<1>2. a \in 0 .. Len(s) /\ b \in 2 .. Len(s) + 1 /\ a < b
  BY DEF Between
<1>3. Part(s, <<a, b>>) = SubSeq(s, a + 1, b - 1)
  BY DEF Part
<1>4. CASE b = a + 1
  <2>1. a + 1 \in Int /\ b - 1 \in Int /\ b - 1 < a + 1
    BY <1>1, <1>2, <1>4
  <2>2. SubSeq(s, a + 1, b - 1) = <<>>
    BY <2>1, SubSeqEmpty
  <2> QED BY <1>3, <1>4, <2>2
<1>5. CASE b # a + 1
  <2>1. a + 1 \in Int /\ b - 1 \in Int /\ a + 1 <= b - 1
    BY <1>1, <1>2, <1>5
  <2>2. \A i \in a + 1 .. b - 1 : s[i] \in S
    <3>1. \A i \in 1 .. Len(s) : s[i] \in S
      BY ElementOfSeq
    <3> QED BY <1>1, <1>2, <3>1
  <2>3. Len(SubSeq(s, a + 1, b - 1)) = IF a + 1 <= b - 1 THEN b - 1 - (a + 1) + 1 ELSE 0
    BY <2>1, <2>2, SubSeqProperties
  <2>4. Len(SubSeq(s, a + 1, b - 1)) # 0
    BY <1>1, <1>2, <2>1, <2>3
  <2>5. Len(<<>>) = 0
    OBVIOUS
  <2> QED BY <1>3, <1>5, <2>4, <2>5
<1> QED BY <1>4, <1>5

\* No component is empty.
NoneEmpty(s) ==
  /\ \A j \in 2 .. Len(s) : s[j] = "/" => s[j - 1] # "/"
  /\ s[Len(s)] # "/"

\* No component is empty when no slash follows another and none is last.
LEMMA EmptyComponents ==
  ASSUME NEW S, NEW s \in Seq(S), Len(s) > 0
  PROVE  NoneEmpty(s) <=> \A p \in Components(s) : Part(s, p) # <<>>
<1>1. Len(s) \in Nat
  BY LenProperties
<1>2. ASSUME NoneEmpty(s), NEW p \in Components(s)
      PROVE  Part(s, p) # <<>>
  <2>1. p = <<p[1], p[2]>> /\ Between(s, p[1], p[2])
    BY <1>1, ComponentPlaces
  <2>2. PICK a, b : p = <<a, b>> /\ Between(s, a, b)
    BY <2>1
  <2>3. /\ a \in 0 .. Len(s) /\ b \in 2 .. Len(s) + 1 /\ a < b
        /\ (a > 0 => s[a] = "/") /\ (b <= Len(s) => s[b] = "/")
    BY <2>2 DEF Between
  <2>4. b # a + 1
    <3>1. SUFFICES ASSUME b = a + 1 PROVE FALSE
      OBVIOUS
    <3>2. a > 0 /\ s[a] = "/" /\ a = b - 1
      BY <1>1, <2>3, <3>1
    <3>3. CASE b <= Len(s)
      <4>1. b \in 2 .. Len(s) /\ s[b] = "/"
        BY <1>1, <2>3, <3>3
      <4> QED BY <1>2, <3>2, <4>1 DEF NoneEmpty
    <3>4. CASE ~(b <= Len(s))
      <4>1. a = Len(s)
        BY <1>1, <2>3, <3>1, <3>4
      <4> QED BY <1>2, <3>2, <4>1 DEF NoneEmpty
    <3> QED BY <3>3, <3>4
  <2> QED BY <2>2, <2>4, WordOf
<1>3. ASSUME \A p \in Components(s) : Part(s, p) # <<>>
      PROVE  NoneEmpty(s)
  <2>1. ASSUME NEW a \in Nat, NEW b \in Nat, Between(s, a, b), b = a + 1
        PROVE  FALSE
    <3>1. <<a, b>> \in Components(s)
      BY <1>1, <2>1, ComponentPlaces
    <3>2. Part(s, <<a, b>>) = <<>>
      BY <2>1, WordOf
    <3> QED BY <1>3, <3>1, <3>2
  <2>2. ASSUME NEW j \in 2 .. Len(s), s[j] = "/", s[j - 1] = "/"
        PROVE  FALSE
    <3>1. Between(s, j - 1, j)
      BY <1>1, <2>2 DEF Between
    <3>2. j - 1 \in Nat /\ j \in Nat /\ j = j - 1 + 1
      BY <1>1
    <3> QED BY <2>1, <3>1, <3>2
  <2>3. ASSUME s[Len(s)] = "/"
        PROVE  FALSE
    <3>1. Between(s, Len(s), Len(s) + 1)
      BY <1>1, <2>3 DEF Between
    <3> QED BY <1>1, <2>1, <3>1
  <2> QED BY <2>2, <2>3 DEF NoneEmpty
<1> QED BY <1>2, <1>3

\* What the second loop looks for is a component, and it looks at each one.
LEMMA CleanComponents ==
  ASSUME NEW S, NEW s \in Seq(S), Len(s) > 0, NoneEmpty(s)
  PROVE  CleanFrom(s, 1) <=> \A p \in Components(s) : Part(s, p) \notin Dots
<1>1. Len(s) \in Nat
  BY LenProperties
<1>2. ASSUME CleanFrom(s, 1), NEW p \in Components(s)
      PROVE  Part(s, p) \notin Dots
  <2>1. p = <<p[1], p[2]>> /\ Between(s, p[1], p[2])
    BY <1>1, ComponentPlaces
  <2>2. PICK a, b : p = <<a, b>> /\ Between(s, a, b)
    BY <2>1
  <2>3. /\ a \in 0 .. Len(s) /\ b \in 2 .. Len(s) + 1 /\ a < b
        /\ (a > 0 => s[a] = "/") /\ (b <= Len(s) => s[b] = "/")
        /\ \A k \in 1 .. Len(s) : a < k /\ k < b => s[k] # "/"
    BY <2>2 DEF Between
  <2>4. b # a + 1
    <3>1. Part(s, p) # <<>>
      BY EmptyComponents
    <3> QED BY <2>2, <3>1, WordOf
  <2> DEFINE i == a + 1
             e == ComponentEnd(s, a + 1)
  <2>5. i \in 1 .. Len(s) /\ i < b /\ s[i] # "/" /\ i - 1 = a
    BY <1>1, <2>3, <2>4
  <2>6. /\ e \in i .. Len(s) + 1 /\ (e <= Len(s) => s[e] = "/")
        /\ \A k \in i .. Len(s) : k < e => s[k] # "/"
    BY <1>1, <2>5, EndFound
  <2> HIDE DEF e
  <2>7. e = b
    <3>1. ~(b < e)
      BY <1>1, <2>3, <2>5, <2>6
    <3>2. ~(e < b)
      BY <1>1, <2>3, <2>5, <2>6
    <3> QED BY <2>3, <2>6, <3>1, <3>2
  <2>8. i = 1 \/ s[i - 1] = "/"
    BY <1>1, <2>3, <2>5
  <2>9. SubSeq(s, i, e - 1) \notin Dots
    BY <1>2, <2>5, <2>8 DEF CleanFrom, e
  <2> QED BY <2>2, <2>7, <2>9, WordOf
<1>3. ASSUME \A p \in Components(s) : Part(s, p) \notin Dots,
             NEW j \in 1 .. Len(s), s[j] # "/", j = 1 \/ s[j - 1] = "/"
      PROVE  SubSeq(s, j, ComponentEnd(s, j) - 1) \notin Dots
  <2> DEFINE a == j - 1
             e == ComponentEnd(s, j)
  <2>1. /\ e \in j .. Len(s) + 1 /\ (e <= Len(s) => s[e] = "/")
        /\ \A k \in j .. Len(s) : k < e => s[k] # "/"
    BY <1>1, EndFound
  <2> HIDE DEF e
  <2>2. e # j
    BY <1>1, <1>3, <2>1
  <2>3. a \in Nat /\ e \in Nat /\ a + 1 = j
    BY <1>1, <2>1
  <2>4. Between(s, a, e)
    BY <1>1, <1>3, <2>1, <2>2 DEF Between
  <2>5. <<a, e>> \in Components(s)
    BY <1>1, <2>3, <2>4, ComponentPlaces
  <2>6. Part(s, <<a, e>>) = SubSeq(s, j, e - 1)
    BY <2>3, <2>4, WordOf
  <2> QED BY <1>3, <2>5, <2>6 DEF e
<1> QED BY <1>2, <1>3 DEF CleanFrom

\* valid_path() lets a path through exactly when it stays within the card: for
\* every text and every bound, what its two loops count and look for says that
\* the path has at most PathDepth components, none empty and none a way out of
\* its directory. It is PathWithin of Inputs, said of every text.
THEOREM PathsAreWithin ==
  ASSUME NEW S, NEW s \in Seq(S), NEW allowRoot \in BOOLEAN
  PROVE  ValidPath(s, allowRoot) <=> IsWithin(s, allowRoot)
<1>1. Len(s) \in Nat
  BY LenProperties
<1>2. CASE s = <<"/">>
  BY <1>2 DEF ValidPath, IsWithin
<1>3. CASE Len(s) = 0
  <2>1. s # <<"/">> /\ ~ValidPath(s, allowRoot)
    <3>1. Len(<<"/">>) = 1
      OBVIOUS
    <3>2. s # <<"/">>
      BY <1>3, <3>1
    <3> QED BY <1>3, <3>2 DEF ValidPath
  <2>2. <<0, 1>> \in Components(s)
    <3>1. <<0, 1>> \in Parts(s, {"/"})
      BY <1>3 DEF Parts
    <3> QED BY <1>3, <3>1 DEF Components
  <2>3. Part(s, <<0, 1>>) = <<>>
    <3>1. SubSeq(s, 1, 0) = <<>>
      BY SubSeqEmpty
    <3> QED BY <3>1 DEF Part
  <2>4. ~IsWithin(s, allowRoot)
    BY <2>1, <2>2, <2>3 DEF IsWithin, Components
  <2> QED BY <2>1, <2>4
<1>4. CASE s # <<"/">> /\ Len(s) > 0
  <2> DEFINE end == PathScanned(s)
             k == Cardinality(Slashes(s, Len(s)))
             m == Len(s)
  <2>1. /\ end.ok <=> FineTo(s, m)
        /\ end.ok => end.depth = k /\ (end.component > 0 <=> m > 0 /\ s[m] # "/")
    BY ScanIsCounted DEF Counted
  <2>2. /\ k \in Nat /\ PathSize \in Nat /\ PathDepth \in Nat
        /\ Cardinality(Components(s)) = k + 1
    BY <1>1, <1>4, SlashesGrow, ComponentCount, PathsAssumption
  <2>3. ValidPath(s, allowRoot) <=> end.ok /\ end.component > 0 /\ end.depth < PathDepth /\ NoDots(s)
    BY <1>4 DEF ValidPath
  <2>4. NoDots(s) <=> CleanFrom(s, 1)
    BY <1>1, NoDotsIsClean
  <2>5. FineTo(s, m) <=>
          /\ m <= PathSize - 1 /\ k <= PathDepth
          /\ \A j \in 1 .. m : s[j] # ":"
          /\ \A j \in 2 .. m : s[j] = "/" => s[j - 1] # "/"
    BY DEF FineTo
  <2>6. IsWithin(s, allowRoot) <=>
          /\ m < PathSize /\ Cardinality(Components(s)) <= PathDepth
          /\ ~ \E i \in 1 .. m : s[i] = ":"
          /\ \A p \in Components(s) : Part(s, p) \notin {<<>>, <<".">>, <<".", ".">>}
    BY <1>4, Zenon DEF IsWithin, Components
  <2>7. (\A p \in Components(s) : Part(s, p) \notin {<<>>, <<".">>, <<".", ".">>}) <=>
          NoneEmpty(s) /\ CleanFrom(s, 1)
    <3>1. (\A p \in Components(s) : Part(s, p) \notin {<<>>, <<".">>, <<".", ".">>}) <=>
            /\ \A p \in Components(s) : Part(s, p) # <<>>
            /\ \A p \in Components(s) : Part(s, p) \notin Dots
      BY Zenon DEF Dots
    <3> QED BY <1>4, <3>1, EmptyComponents, CleanComponents
  <2> DEFINE single == \A j \in 2 .. m : s[j] = "/" => s[j - 1] # "/"
             colons == \E i \in 1 .. m : s[i] = ":"
             last == s[m] # "/"
             clean == CleanFrom(s, 1)
  <2>8. /\ m <= PathSize - 1 <=> m < PathSize
        /\ k + 1 <= PathDepth <=> k < PathDepth
        /\ k < PathDepth => k <= PathDepth
    BY <1>1, <2>2
  <2>9. ValidPath(s, allowRoot) <=>
          m < PathSize /\ k < PathDepth /\ ~colons /\ single /\ last /\ clean
    <3>1. m > 0
      BY <1>4
    <3>2. end.ok <=> m < PathSize /\ k <= PathDepth /\ ~colons /\ single
      BY <2>1, <2>5, <2>8
    <3>3. end.ok => (end.component > 0 <=> last) /\ (end.depth < PathDepth <=> k < PathDepth)
      BY <2>1, <3>1
    <3> HIDE DEF end, k, m, single, colons, last, clean
    <3> QED BY <2>3, <2>4, <2>8, <3>2, <3>3 DEF clean
  <2>10. IsWithin(s, allowRoot) <=>
           m < PathSize /\ k < PathDepth /\ ~colons /\ single /\ last /\ clean
    <3>1. NoneEmpty(s) <=> single /\ last
      BY DEF NoneEmpty
    <3>2. Cardinality(Components(s)) <= PathDepth <=> k < PathDepth
      BY <2>2, <2>8
    <3> QED BY <2>6, <2>7, <3>1, <3>2
  <2> QED BY <2>9, <2>10
<1>5. s = <<"/">> \/ Len(s) = 0 \/ (s # <<"/">> /\ Len(s) > 0)
  BY <1>1
<1> QED BY <1>2, <1>3, <1>4, <1>5

-----------------------------------------------------------------------------
(* The theorem                                                             *)

\* What a text holds
InputsTypes ==
  /\ use \in {"target", "path", "file"}
  /\ use = "target" => text \in Seq(TargetKeys) /\ Len(text) < TargetSize
  /\ use = "path" => text \in Seq(PathCharacters)
  /\ use = "file" => text \in Seq(FileBytes)

\* A text of any kind without its last character is of that kind.
LEMMA ErasedStays ==
  ASSUME NEW S, NEW s \in Seq(S), Len(s) > 0
  PROVE  SubSeq(s, 1, Len(s) - 1) \in Seq(S) /\ Len(SubSeq(s, 1, Len(s) - 1)) = Len(s) - 1
<1>1. PICK n : n = Len(s) /\ n \in Nat /\ n - 1 \in Int /\ 1 \in Int /\ n - 1 \in Nat
  BY LenProperties
<1>2. \A i \in 1 .. n - 1 : s[i] \in S
  BY <1>1, ElementOfSeq
<1>3. /\ SubSeq(s, 1, n - 1) \in Seq(S)
      /\ Len(SubSeq(s, 1, n - 1)) = IF 1 <= n - 1 THEN n - 1 - 1 + 1 ELSE 0
  BY <1>1, <1>2, SubSeqProperties
<1> QED BY <1>1, <1>3

\* It keeps to its kind.
LEMMA TypesHold == InputsSpec => []InputsTypes
<1>1. InputsInit => InputsTypes
  <2> SUFFICES ASSUME InputsInit PROVE InputsTypes
    OBVIOUS
  <2>1. text = <<>> /\ use \in {"target", "path", "file"}
    BY DEF InputsInit
  <2>2. Len(<<>>) < TargetSize
    <3>1. TargetSize \in Nat /\ TargetSize # 0
      BY InputsAssumption
    <3>2. Len(<<>>) = 0
      OBVIOUS
    <3> QED BY <3>1, <3>2
  <2> QED BY <2>1, <2>2 DEF InputsTypes
<1>2. InputsTypes /\ [InputsNext]_inputsVars => InputsTypes'
  <2> SUFFICES ASSUME InputsTypes, [InputsNext]_inputsVars
               PROVE  InputsTypes'
    OBVIOUS
  <2>1. CASE Insert
    <3>1. use = "target" /\ use' = use /\ text \in Seq(TargetKeys) /\ Len(text) + 1 < TargetSize
      BY <2>1 DEF Insert, InputsTypes
    <3>2. PICK c \in TargetKeys : text' = Append(text, c)
      BY <2>1 DEF Insert
    <3>3. text' \in Seq(TargetKeys) /\ Len(text') = Len(text) + 1
      BY <3>1, <3>2, AppendProperties
    <3> QED BY <3>1, <3>3 DEF InputsTypes
  <2>2. CASE Erase
    <3>1. Len(text) > 0 /\ text' = SubSeq(text, 1, Len(text) - 1) /\ use' = use
      BY <2>2 DEF Erase
    <3>2. ASSUME NEW S, text \in Seq(S)
          PROVE  text' \in Seq(S) /\ Len(text') = Len(text) - 1 /\ Len(text) \in Nat
      <4>1. PICK s : s = text /\ s \in Seq(S) /\ Len(s) > 0 /\ text' = SubSeq(s, 1, Len(s) - 1)
        BY <3>1, <3>2
      <4>2. Len(s) \in Nat
        BY <4>1, LenProperties
      <4>3. SubSeq(s, 1, Len(s) - 1) \in Seq(S) /\ Len(SubSeq(s, 1, Len(s) - 1)) = Len(s) - 1
        BY <4>1, ErasedStays
      <4> QED BY <4>1, <4>2, <4>3
    <3>3. CASE use = "target"
      <4>1. text' \in Seq(TargetKeys) /\ Len(text') = Len(text) - 1 /\ Len(text) \in Nat
        BY <3>2, <3>3 DEF InputsTypes
      <4>2. Len(text') < TargetSize
        <5>1. PICK n, m : n = Len(text) /\ m = Len(text') /\ n \in Nat /\ m = n - 1 /\ n < TargetSize
          BY <3>3, <4>1 DEF InputsTypes
        <5>2. TargetSize \in Nat
          BY InputsAssumption
        <5> QED BY <5>1, <5>2
      <4> QED BY <3>1, <3>3, <4>1, <4>2 DEF InputsTypes
    <3>4. CASE use = "path"
      <4>1. text' \in Seq(PathCharacters)
        BY <3>2, <3>4 DEF InputsTypes
      <4> QED BY <3>1, <3>4, <4>1 DEF InputsTypes
    <3>5. CASE use = "file"
      <4>1. text' \in Seq(FileBytes)
        BY <3>2, <3>5 DEF InputsTypes
      <4> QED BY <3>1, <3>5, <4>1 DEF InputsTypes
    <3> QED BY <3>3, <3>4, <3>5 DEF InputsTypes
  <2>3. CASE Extend
    <3>1. use = "path" /\ use' = use /\ text \in Seq(PathCharacters)
      BY <2>3 DEF Extend, InputsTypes
    <3>2. PICK c \in PathCharacters : text' = Append(text, c)
      BY <2>3 DEF Extend
    <3>3. text' \in Seq(PathCharacters)
      BY <3>1, <3>2, AppendProperties
    <3> QED BY <3>1, <3>3 DEF InputsTypes
  <2>4. CASE Grow
    <3>1. use = "file" /\ use' = use /\ text \in Seq(FileBytes)
      BY <2>4 DEF Grow, InputsTypes
    <3>2. PICK b \in FileBytes : text' = Append(text, b)
      BY <2>4 DEF Grow
    <3>3. text' \in Seq(FileBytes)
      BY <3>1, <3>2, AppendProperties
    <3> QED BY <3>1, <3>3 DEF InputsTypes
  <2>5. CASE UNCHANGED inputsVars
    BY <2>5 DEF inputsVars, InputsTypes
  <2> QED BY <2>1, <2>2, <2>3, <2>4, <2>5 DEF InputsNext
<1> QED BY <1>1, <1>2, PTL DEF InputsSpec

\* What a target, a path and a file are taken for is what they mean, whatever
\* the digits, the widths and the bounds: read from left to right by
\* parse_cidr(), valid_path() and inspect_strings(), said of the whole text by
\* TakenAsWritten.
THEOREM TakenAsWrittenHolds == InputsSpec => []TakenAsWritten
<1>1. InputsTypes => TakenAsWritten
  <2> SUFFICES ASSUME InputsTypes PROVE TakenAsWritten
    OBVIOUS
  <2>1. TargetAsWritten
    <3>1. use = "target" => text \in Seq(TargetKeys) /\ Len(text) < TargetSize
      BY DEF InputsTypes
    <3> QED BY <3>1, TargetIsWritten
  <2>2. PathWithin
    <3>1. use = "path" => text \in Seq(PathCharacters)
      BY DEF InputsTypes
    <3>2. ASSUME use = "path", NEW allowRoot \in BOOLEAN
          PROVE  ValidPath(text, allowRoot) <=> IsWithin(text, allowRoot)
      BY <3>1, <3>2, PathsAreWithin
    <3> QED BY <3>2, Zenon DEF PathWithin
  <2>3. StringsAsFound
    <3>1. use = "file" => text \in Seq(FileBytes)
      BY DEF InputsTypes
    <3> QED BY <3>1, StringsAreFound
  <2> QED BY <2>1, <2>2, <2>3 DEF TakenAsWritten
<1> QED BY <1>1, TypesHold, PTL
=============================================================================
