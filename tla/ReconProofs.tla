---------------------------- MODULE ReconProofs -----------------------------
(***************************************************************************)
(* Proofs about Recon for any number of operations, control blocks and     *)
(* history entries and any times.                                          *)
(*                                                                         *)
(* Every handler that touches the current operation either goes on or      *)
(* calls finish() with some result (Moves), so the invariants about its    *)
(* end, its record and its report are proved of Moves and not handler by   *)
(* handler.                                                                *)
(***************************************************************************)
EXTENDS Recon, TLAPS

Record == Operation \cup {Idle}

Moves(c, n) == GoesOn(c, n) \/ \E result \in Results : Finish(c, result, n)

\* The same operation, or a new one after the last has ended.
Follows(c) ==
  \/ c.op = current.op /\ c.state = current.state
  \/ ~Running /\ c.op = current.op + 1 /\ c.state = "running"

-----------------------------------------------------------------------------
(* Types.                                                                  *)

LEMMA ModSmall ==
  ASSUME NEW m \in Nat \ {0}, NEW x \in 0 .. (m - 1)
  PROVE  x % m = x
  BY SMT

LEMMA ModOnce ==
  ASSUME NEW m \in Nat \ {0}, NEW x \in m .. (2 * m - 1)
  PROVE  x % m = x - m
  BY SMT

LEMMA RememberType ==
  ASSUME NEW ring \in Ring, NEW op \in Nat, NEW result \in Results
  PROVE  Remember(ring, op, result) \in Ring
<1> USE CapacityAssumption
<1>1. (ring.next + 1) % Capacity \in 0 .. (Capacity - 1)
  BY DEF Ring
<1>2. (IF ring.count < Capacity THEN ring.count + 1 ELSE ring.count) \in 0 .. Capacity
  BY DEF Ring
<1>3. [ring.entry EXCEPT ![ring.next] = [op |-> op, result |-> result]]
        \in [0 .. (Capacity - 1) -> [op : Nat, result : Results \cup {"none"}]]
  BY DEF Ring
<1> QED BY <1>1, <1>2, <1>3 DEF Remember, Ring

LEMMA ReleasedType ==
  ASSUME NEW n \in Network, NEW abort \in BOOLEAN
  PROVE  Released(n, abort) \in Network
<1>1. Free \in [st : PcbStates, op : Nat]
  BY DEF Free, PcbStates
<1>2. CASE n.tcp = NoPcb
  BY <1>2 DEF Released, Network
<1>3. CASE n.tcp # NoPcb
  <2> DEFINE block == n.pcbs[n.tcp]
             left == IF abort \/ block.st = "connecting" THEN Free
                     ELSE [block EXCEPT !.st = "closing"]
  <2>1. n.tcp \in TcpPcbs /\ block \in [st : PcbStates, op : Nat]
    BY <1>3 DEF Network
  <2>2. left \in [st : PcbStates, op : Nat]
    BY <1>1, <2>1 DEF PcbStates
  <2>3. [n.pcbs EXCEPT ![n.tcp] = left] \in [TcpPcbs -> [st : PcbStates, op : Nat]]
    BY <2>1, <2>2 DEF Network
  <2> QED BY <1>3, <2>3 DEF Released, Network
<1> QED BY <1>2, <1>3

\* What a handler leaves behind has its type.
LEMMA MovesType ==
  ASSUME TypeOK, NEW c \in Record, NEW n \in Network, Moves(c, n)
  PROVE  current' \in Record /\ net' \in Network /\ history' \in Ring /\ dirty' \in BOOLEAN
<1>1. CASE GoesOn(c, n)
  BY <1>1 DEF GoesOn, TypeOK, Record
<1>2. ASSUME NEW result \in Results, Finish(c, result, n)
      PROVE  current' \in Record /\ net' \in Network /\ history' \in Ring /\ dirty' \in BOOLEAN
  <2>1. CASE c.state = "running"
    <3>1. c \in Operation
      BY <2>1 DEF Record, Idle
    <3>2. [c EXCEPT !.state = result] \in Operation
      BY <3>1 DEF Operation
    <3>3. Remember(history, c.op, result) \in Ring
      BY <3>1, RememberType DEF TypeOK, Operation
    <3>4. Released(n, result # "complete") \in Network
      BY ReleasedType
    <3> QED BY <1>2, <2>1, <3>2, <3>3, <3>4 DEF Finish, Ends, Record
  <2>2. CASE c.state # "running"
    BY <1>2, <2>2 DEF Finish, Ends, TypeOK, Record
  <2> QED BY <2>1, <2>2
<1> QED BY <1>1, <1>2 DEF Moves

\* start_operation() and dns_complete() move the operation they are given.
LEMMA StartTcpMoves ==
  ASSUME TypeOK, NEW c \in Operation, StartTcp(c)
  PROVE  \E n \in Network : Moves(c, n)
<1>1. CASE Finish(c, "error", [net EXCEPT !.tcp = NoPcb])
  BY <1>1 DEF TypeOK, Network, Moves, Results
<1>2. ASSUME NEW p \in TcpPcbs,
             LET n == [net EXCEPT !.tcp = p,
                            !.pcbs[p] = [st |-> "connecting", op |-> c.op]] IN
             GoesOn(c, n) \/ Finish(c, "error", n)
      PROVE  \E n \in Network : Moves(c, n)
  <2> DEFINE n == [net EXCEPT !.tcp = p, !.pcbs[p] = [st |-> "connecting", op |-> c.op]]
  <2>1. [st |-> "connecting", op |-> c.op] \in [st : PcbStates, op : Nat]
    BY DEF PcbStates, Operation
  <2>2. n \in Network
    BY <2>1 DEF TypeOK, Network
  <2>3. Moves(c, n)
    BY <1>2 DEF Moves, Results
  <2> QED BY <2>2, <2>3
<1> QED BY <1>1, <1>2 DEF StartTcp

LEMMA StartEchoMoves ==
  ASSUME TypeOK, NEW c \in Operation, StartEcho(c)
  PROVE  \E n \in Network : Moves(c, n)
<1>1. CASE Finish(c, "error", [net EXCEPT !.raw = NoPcb])
  BY <1>1 DEF TypeOK, Network, Moves, Results
<1>2. ASSUME NEW p \in RawPcbs,
             LET n == [net EXCEPT !.raw = p, !.raws = @ \cup {p}, !.echo = c.op] IN
             GoesOn(c, n) \/ Finish(c, "error", n)
      PROVE  \E n \in Network : Moves(c, n)
  <2> DEFINE n == [net EXCEPT !.raw = p, !.raws = @ \cup {p}, !.echo = c.op]
  <2>1. n \in Network
    BY DEF TypeOK, Network, Operation
  <2>2. Moves(c, n)
    BY <1>2 DEF Moves, Results
  <2> QED BY <2>1, <2>2
<1> QED BY <1>1, <1>2 DEF StartEcho

LEMMA ResolvedMoves ==
  ASSUME TypeOK, NEW answered \in Operation, NEW address \in Addresses,
         Resolved(answered, address)
  PROVE  \E c \in Operation, n \in Network :
           c.op = answered.op /\ c.state = answered.state /\ Moves(c, n)
<1> DEFINE c == [answered EXCEPT !.address = address]
<1>1. c \in Operation /\ c.op = answered.op /\ c.state = answered.state
  BY DEF Operation
<1>2. net \in Network
  BY DEF TypeOK
<1>3. \E n \in Network : Moves(c, n)
  <2> HIDE DEF c
  <2>1. CASE Finish(c, "denied", net)
    BY <1>2, <2>1 DEF Moves, Results
  <2>2. CASE Finish(c, "complete", net)
    BY <1>2, <2>2 DEF Moves, Results
  <2>3. CASE StartEcho(c)
    BY <1>1, <2>3, StartEchoMoves
  <2>4. CASE StartTcp(c)
    BY <1>1, <2>4, StartTcpMoves
  <2>5. \/ Finish(c, "denied", net) \/ Finish(c, "complete", net)
        \/ StartEcho(c) \/ StartTcp(c)
    BY DEF Resolved, c
  <2> QED BY <2>1, <2>2, <2>3, <2>4, <2>5
<1> QED BY <1>1, <1>3

LEMMA StartMoves ==
  ASSUME TypeOK, NEW kind \in Kinds, NEW target \in Targets, Start(kind, target)
  PROVE  \E c \in Record, n \in Network :
           ~Running /\ c.op = current.op + 1 /\ c.state = "running" /\ Moves(c, n)
<1> DEFINE c == [op |-> current.op + 1, kind |-> kind, target |-> target,
                 state |-> "running", address |-> NoAddress, started |-> now,
                 guarded |-> guarded, from |-> {},
                 scoped |-> IsActive(session, now)]
<1>1. current.op \in Nat
  BY DEF TypeOK, Operation, Idle
<1>2. IsActive(session, now) \in BOOLEAN
  BY DEF IsActive, TypeOK, Session
<1>3. c \in Operation /\ c.op = current.op + 1 /\ c.state = "running"
  BY <1>1, <1>2 DEF TypeOK, Operation
<1>4. ~Running /\ net \in Network
  BY DEF Start, TypeOK
<1>5. \/ \E address \in Addresses : Resolved(c, address)
      \/ GoesOn(c, net)
      \/ Finish(c, "error", net)
  BY DEF Start
<1>6. \A o : o \in Operation => o \in Record
  BY DEF Record
<1> HIDE DEF c
<1>7. CASE \E address \in Addresses : Resolved(c, address)
  BY <1>3, <1>4, <1>6, <1>7, ResolvedMoves
<1>8. CASE GoesOn(c, net) \/ Finish(c, "error", net)
  BY <1>3, <1>4, <1>6, <1>8 DEF Moves, Results
<1> QED BY <1>5, <1>7, <1>8

LEMMA HeardType ==
  ASSUME TypeOK, NEW op \in Nat
  PROVE  /\ Heard(current, op) \in Record
         /\ Heard(current, op).op = current.op
         /\ Heard(current, op).state = current.state
         /\ Running => Heard(current, op) \in Operation
  BY DEF TypeOK, Record, Heard, Running, Operation, Idle

\* Every callback of lwIP but the silent one, and the user's cancel.
Callback ==
  \/ Cancel
  \/ \E op \in queries, address \in Addresses \cup {NoAddress} : DnsAnswer(op, address)
  \/ \E p \in TcpPcbs :
       \/ TcpConnected(p)
       \/ \E enough \in BOOLEAN : TcpData(p, enough)
       \/ TcpClosed(p)
       \/ \E refused \in BOOLEAN : TcpError(p, refused)
  \/ EchoReply

LEMMA CallbackMoves ==
  ASSUME TypeOK, Callback
  PROVE  \E c \in Record, n \in Network :
           c.op = current.op /\ c.state = current.state /\ Moves(c, n)
<1>1. net \in Network /\ current \in Record
  BY DEF TypeOK, Record
<1>2. CASE Cancel
  BY <1>1, <1>2 DEF Cancel, Moves, Results
<1>3. CASE EchoReply
  <2>1. current.op \in Nat
    BY DEF TypeOK, Operation, Idle
  <2> QED BY <1>1, <1>3, <2>1, HeardType DEF EchoReply, Moves, Results
<1>4. ASSUME NEW op \in queries, NEW address \in Addresses \cup {NoAddress},
             DnsAnswer(op, address)
      PROVE  \E c \in Record, n \in Network :
               c.op = current.op /\ c.state = current.state /\ Moves(c, n)
  <2>1. op \in Nat
    BY DEF TypeOK
  <2>2. CASE ~Running
    BY <1>1, <1>4, <2>2 DEF DnsAnswer, Moves
  <2>3. CASE Running /\ address = NoAddress
    BY <1>1, <1>4, <2>1, <2>3, HeardType DEF DnsAnswer, Moves, Results
  <2>4. CASE Running /\ address # NoAddress
    <3>1. Resolved(Heard(current, op), address)
      BY <1>4, <2>4 DEF DnsAnswer
    <3>2. Heard(current, op) \in Operation /\ address \in Addresses
      BY <2>1, <2>4, HeardType
    <3>3. PICK c \in Operation, n \in Network :
            /\ c.op = Heard(current, op).op /\ c.state = Heard(current, op).state
            /\ Moves(c, n)
      BY <3>1, <3>2, ResolvedMoves
    <3>4. c \in Record
      BY DEF Record
    <3> QED BY <2>1, <3>3, <3>4, HeardType
  <2> QED BY <2>2, <2>3, <2>4
<1>5. ASSUME NEW p \in TcpPcbs,
             \/ TcpConnected(p)
             \/ \E enough \in BOOLEAN : TcpData(p, enough)
             \/ TcpClosed(p)
             \/ \E refused \in BOOLEAN : TcpError(p, refused)
      PROVE  \E c \in Record, n \in Network :
               c.op = current.op /\ c.state = current.state /\ Moves(c, n)
  <2> DEFINE c == Heard(current, net.pcbs[p].op)
  <2>1. net.pcbs[p] \in [st : PcbStates, op : Nat]
    BY <1>1 DEF Network
  <2>2. net.pcbs[p].op \in Nat
    BY <2>1
  <2>3. c \in Record /\ c.op = current.op /\ c.state = current.state
    BY <2>2, HeardType
  <2>4. CASE TcpConnected(p)
    <3> DEFINE n == [net EXCEPT !.pcbs[p].st = "open"]
    <3>1. n \in Network
      BY <1>1, <2>1 DEF Network, PcbStates
    <3>2. \/ GoesOn(c, n)
          \/ \E result \in {"complete", "unavailable", "error"} : Finish(c, result, n)
      BY <2>4 DEF TcpConnected
    <3>3. Moves(c, n)
      BY <3>2 DEF Moves, Results
    <3> HIDE DEF c, n
    <3> QED BY <2>3, <3>1, <3>3
  <2>5. CASE \E enough \in BOOLEAN : TcpData(p, enough)
    <3>1. GoesOn(c, net) \/ Finish(c, "complete", net)
      BY <2>5 DEF TcpData
    <3> HIDE DEF c
    <3> QED BY <1>1, <2>3, <3>1 DEF Moves, Results
  <2>6. CASE TcpClosed(p)
    <3> DEFINE n == [net EXCEPT !.pcbs[p].st = "peer_closed"]
    <3>1. n \in Network
      BY <1>1, <2>1 DEF Network, PcbStates
    <3>2. Finish(c, "complete", n)
      BY <2>6 DEF TcpClosed
    <3> HIDE DEF c, n
    <3> QED BY <2>3, <3>1, <3>2 DEF Moves, Results
  <2>7. CASE \E refused \in BOOLEAN : TcpError(p, refused)
    <3> DEFINE n == [net EXCEPT !.pcbs[p] = Free, !.tcp = NoPcb]
    <3>1. n \in Network
      BY <1>1, <2>1 DEF Network, PcbStates, Free
    <3>2. \E result \in {"refused", "error"} : Finish(c, result, n)
      BY <2>7 DEF TcpError
    <3> HIDE DEF c, n
    <3> QED BY <2>3, <3>1, <3>2 DEF Moves, Results
  <2> QED BY <1>5, <2>4, <2>5, <2>6, <2>7
<1> QED BY <1>2, <1>3, <1>4, <1>5 DEF Callback

-----------------------------------------------------------------------------
(* The ring of finished operations.                                        *)

Place(next, i) == (next + Capacity - 1 - i) % Capacity
Get(ring, i) == ring.entry[Place(ring.next, i)]

InOrder(ring, last) ==
  /\ ring.count = IF last < Capacity THEN last ELSE Capacity
  /\ \A i \in 0 .. (ring.count - 1) : Get(ring, i).op = last - i

\* Where the i-th newest entry is, and that remembering shifts it by one.
LEMMA Shift ==
  ASSUME NEW next \in 0 .. (Capacity - 1), NEW i \in 0 .. (Capacity - 1)
  PROVE  /\ Place((next + 1) % Capacity, i) \in 0 .. (Capacity - 1)
         /\ i = 0 => Place((next + 1) % Capacity, i) = next
         /\ i > 0 => /\ Place((next + 1) % Capacity, i) # next
                     /\ Place((next + 1) % Capacity, i) = Place(next, i - 1)
<1> USE CapacityAssumption
<1> DEFINE after == (next + 1) % Capacity
           sum == after + Capacity - 1 - i
           old == next + Capacity - 1 - (i - 1)
<1>1. after = IF next + 1 < Capacity THEN next + 1 ELSE 0
  <2>1. CASE next + 1 < Capacity
    <3>1. next + 1 \in 0 .. (Capacity - 1)
      BY <2>1
    <3> QED BY <2>1, <3>1, ModSmall
  <2>2. CASE next + 1 = Capacity
    <3>1. next + 1 \in Capacity .. (2 * Capacity - 1)
      BY <2>2
    <3> QED BY <2>2, <3>1, ModOnce
  <2> QED BY <2>1, <2>2
<1>2. sum \in 0 .. (2 * Capacity - 1)
  BY <1>1
<1>3. sum % Capacity = IF sum < Capacity THEN sum ELSE sum - Capacity
  <2> HIDE DEF sum
  <2>1. CASE sum < Capacity
    <3>1. sum \in 0 .. (Capacity - 1)
      BY <1>2, <2>1
    <3> QED BY <2>1, <3>1, ModSmall
  <2>2. CASE ~(sum < Capacity)
    <3>1. sum \in Capacity .. (2 * Capacity - 1)
      BY <1>2, <2>2
    <3> QED BY <2>2, <3>1, ModOnce
  <2> QED BY <2>1, <2>2
<1>4. i > 0 => old % Capacity = IF old < Capacity THEN old ELSE old - Capacity
  <2> SUFFICES ASSUME i > 0
               PROVE  old % Capacity = IF old < Capacity THEN old ELSE old - Capacity
    OBVIOUS
  <2>1. old \in 0 .. (2 * Capacity - 1)
    OBVIOUS
  <2> HIDE DEF old
  <2>2. CASE old < Capacity
    <3>1. old \in 0 .. (Capacity - 1)
      BY <2>1, <2>2
    <3> QED BY <2>2, <3>1, ModSmall
  <2>3. CASE ~(old < Capacity)
    <3>1. old \in Capacity .. (2 * Capacity - 1)
      BY <2>1, <2>3
    <3> QED BY <2>3, <3>1, ModOnce
  <2> QED BY <2>2, <2>3
<1> QED
  <2>1. sum % Capacity \in 0 .. (Capacity - 1)
    BY <1>2, <1>3
  <2>2. i = 0 => sum % Capacity = next
    BY <1>1, <1>3
  <2>3. i > 0 => sum % Capacity # next /\ sum % Capacity = old % Capacity
    BY <1>1, <1>3, <1>4
  <2> QED BY <2>1, <2>2, <2>3 DEF Place

LEMMA RememberInOrder ==
  ASSUME NEW ring \in Ring, NEW last \in Nat, NEW result \in Results,
         InOrder(ring, last)
  PROVE  /\ InOrder(Remember(ring, last + 1, result), last + 1)
         /\ Get(Remember(ring, last + 1, result), 0).result = result
<1> DEFINE new == Remember(ring, last + 1, result)
           put == [op |-> last + 1, result |-> result]
<1>1. /\ ring.next \in 0 .. (Capacity - 1)
      /\ ring.entry \in [0 .. (Capacity - 1) -> [op : Nat, result : Results \cup {"none"}]]
      /\ ring.count \in 0 .. Capacity
  BY DEF Ring
<1>2. /\ new.entry = [ring.entry EXCEPT ![ring.next] = put]
      /\ new.next = (ring.next + 1) % Capacity
      /\ new.count = IF ring.count < Capacity THEN ring.count + 1 ELSE ring.count
  BY DEF Remember
<1>3. new.count = IF last + 1 < Capacity THEN last + 1 ELSE Capacity
  BY <1>1, <1>2, CapacityAssumption DEF InOrder
<1> HIDE DEF new
<1>4. Get(new, 0) = put
  <2>1. 0 \in 0 .. (Capacity - 1)
    BY CapacityAssumption
  <2>2. Place(new.next, 0) = ring.next
    BY <1>1, <1>2, <2>1, Shift
  <2> QED BY <1>1, <1>2, <2>2 DEF Get
<1>5. ASSUME NEW i \in 0 .. (new.count - 1)
      PROVE  Get(new, i).op = last + 1 - i
  <2>1. i \in 0 .. (Capacity - 1) /\ new.count \in Nat
    BY <1>3, CapacityAssumption
  <2>2. CASE i = 0
    BY <1>4, <2>2
  <2>3. CASE i > 0
    <3>1. /\ Place(new.next, i) \in 0 .. (Capacity - 1)
          /\ Place(new.next, i) # ring.next
          /\ Place(new.next, i) = Place(ring.next, i - 1)
      BY <1>1, <1>2, <2>1, <2>3, Shift
    <3>2. new.entry[Place(new.next, i)] = ring.entry[Place(new.next, i)]
      BY <1>1, <1>2, <3>1
    <3>3. i - 1 \in 0 .. (ring.count - 1)
      <4>1. new.count <= ring.count + 1 /\ ring.count \in Nat
        BY <1>1, <1>2, CapacityAssumption
      <4> QED BY <2>1, <2>3, <4>1
    <3>4. Get(ring, i - 1).op = last - (i - 1)
      BY <3>3 DEF InOrder
    <3>5. Get(new, i) = Get(ring, i - 1)
      BY <3>1, <3>2 DEF Get
    <3> QED BY <3>4, <3>5, <2>1
  <2> QED BY <2>1, <2>2, <2>3
<1> QED BY <1>3, <1>4, <1>5 DEF InOrder, new

-----------------------------------------------------------------------------
(* The invariant about the end of operations: the history is in order, and *)
(* snapshot_dirty tells exactly whether the last end is still to be        *)
(* reported.                                                               *)

Agrees == Terminal => Get(history, 0).result = current.state

Unreported ==
  /\ reported = IF Terminal /\ dirty THEN current.op - 1 ELSE LastEnded
  /\ current = Idle => ~dirty

EndInv ==
  /\ TypeOK
  /\ InOrder(history, LastEnded)
  /\ Agrees
  /\ Unreported
  /\ phase = "key" => ~dirty

LEMMA RecordFacts ==
  ASSUME NEW c \in Record
  PROVE  /\ c.op \in Nat
         /\ c.state \in {"running", "idle"} \cup Results
         /\ c.state = "idle" => c = Idle /\ c.op = 0
         /\ c.state = "running" => c \in Operation
         /\ "running" \notin Results /\ "idle" \notin Results
  BY DEF Record, Operation, Idle, Results

\* A handler that moves on from the current operation keeps what the invariant
\* says of it.
LEMMA MovesEndInv ==
  ASSUME EndInv, NEW c \in Record, NEW n \in Network, Follows(c), Moves(c, n),
         c.op # current.op => ~dirty,
         reported' = reported
  PROVE  InOrder(history, LastEnded)' /\ Agrees' /\ Unreported'
<1>1. current \in Record /\ history \in Ring /\ dirty \in BOOLEAN
  BY DEF EndInv, TypeOK, Record
<1>2. /\ c.op \in Nat /\ current.op \in Nat
      /\ c.state = "idle" => c = Idle /\ c.op = 0
      /\ c.state \in {"running", "idle"} \cup Results
      /\ current.state \in {"running", "idle"} \cup Results
      /\ current.state = "idle" => current = Idle /\ current.op = 0
      /\ "running" \notin Results /\ "idle" \notin Results
  BY <1>1, RecordFacts
<1>3. InOrder(history, LastEnded) /\ Agrees /\ Unreported
  BY DEF EndInv
<1>4. CASE /\ current' = c /\ history' = history
           /\ dirty' = (dirty \/ c.op # current.op)
  <2>1. CASE c.op = current.op /\ c.state = current.state
    <3>1. LastEnded' = LastEnded /\ Terminal' = Terminal
      BY <1>4, <2>1 DEF LastEnded, Running, Terminal
    <3>2. (current = Idle) <=> (current' = Idle)
      BY <1>2, <1>4, <2>1 DEF Idle
    <3>3. dirty' = dirty
      BY <1>1, <1>4, <2>1
    <3> QED BY <1>3, <1>4, <2>1, <3>1, <3>2, <3>3 DEF Agrees, Unreported, InOrder
  <2>2. CASE ~Running /\ c.op = current.op + 1 /\ c.state = "running"
    <3>1. LastEnded' = LastEnded /\ ~Terminal' /\ current' # Idle
      BY <1>2, <1>4, <2>2 DEF LastEnded, Running, Terminal, Idle
    <3>2. ~dirty
      BY <1>2, <2>2
    <3> QED BY <1>3, <1>4, <3>1, <3>2 DEF Agrees, Unreported, InOrder
  <2> QED BY <2>1, <2>2 DEF Follows
<1>5. ASSUME NEW result \in Results, c.state = "running",
             current' = [c EXCEPT !.state = result],
             history' = Remember(history, c.op, result), dirty'
      PROVE  InOrder(history, LastEnded)' /\ Agrees' /\ Unreported'
  <2>1. c \in Operation
    BY <1>5, RecordFacts
  <2>2. current'.op = c.op /\ current'.state = result
    BY <1>5, <2>1 DEF Operation
  <2>3. Terminal' /\ LastEnded' = c.op /\ current' # Idle
    BY <1>2, <1>5, <2>2 DEF Terminal, LastEnded, Running, Idle
  <2>4. LastEnded \in Nat /\ c.op = LastEnded + 1 /\ reported = LastEnded
    <3>1. CASE c.op = current.op /\ c.state = current.state
      <4>1. Running /\ ~Terminal /\ c.op # 0
        BY <1>2, <1>5, <2>1, <3>1 DEF Running, Terminal, Operation
      <4> QED BY <1>2, <1>3, <3>1, <4>1 DEF LastEnded, Unreported
    <3>2. CASE ~Running /\ c.op = current.op + 1
      <4>1. ~dirty
        BY <1>2, <3>2
      <4> QED BY <1>2, <1>3, <3>2, <4>1 DEF LastEnded, Unreported
    <3> QED BY <3>1, <3>2 DEF Follows
  <2>5. /\ InOrder(Remember(history, LastEnded + 1, result), LastEnded + 1)
        /\ Get(Remember(history, LastEnded + 1, result), 0).result = result
    BY <1>1, <1>3, <2>4, RememberInOrder
  <2>6. history' = Remember(history, LastEnded + 1, result) /\ LastEnded' = LastEnded + 1
    BY <1>5, <2>3, <2>4
  <2>7. InOrder(history, LastEnded)' /\ Agrees'
    BY <2>2, <2>5, <2>6 DEF InOrder, Agrees, Get
  <2> QED BY <1>5, <2>2, <2>3, <2>4, <2>7 DEF Unreported
<1>6. CASE GoesOn(c, n)
  BY <1>4, <1>6 DEF GoesOn
<1>7. ASSUME NEW result \in Results, Finish(c, result, n)
      PROVE  InOrder(history, LastEnded)' /\ Agrees' /\ Unreported'
  <2>1. CASE c.state = "running"
    BY <1>5, <1>7, <2>1 DEF Finish, Ends
  <2>2. CASE c.state # "running"
    <3>1. c.op = current.op
      BY <2>2 DEF Follows
    <3> QED BY <1>1, <1>4, <1>7, <2>2, <3>1 DEF Finish, Ends
  <2> QED BY <2>1, <2>2
<1> QED BY <1>6, <1>7 DEF Moves

\* The poll's way through finish(), which has the end reported at once.
LEMMA ReconPollEndInv ==
  ASSUME EndInv, ReconPoll
  PROVE  EndInv'
<1>1. current \in Record /\ history \in Ring /\ net \in Network /\ dirty \in BOOLEAN
  BY DEF EndInv, TypeOK, Record
<1>2. /\ current.op \in Nat
      /\ current.state = "idle" => current = Idle /\ current.op = 0
      /\ current.state \in {"running", "idle"} \cup Results
      /\ Running => current \in Operation
      /\ "running" \notin Results /\ "idle" \notin Results
  BY <1>1, RecordFacts DEF Running
<1>3. InOrder(history, LastEnded) /\ Agrees /\ Unreported /\ reported \in Nat
  BY DEF EndInv, TypeOK
<1>4. ASSUME NEW result \in Results, Running, Ends(current, result, net, FALSE)
      PROVE  EndInv'
  <2>1. /\ current' = [current EXCEPT !.state = result]
        /\ net' = Released(net, result # "complete")
        /\ history' = Remember(history, current.op, result)
        /\ ~dirty' /\ dirty' \in BOOLEAN
    BY <1>4 DEF Ends, Running
  <2>2. current' \in Operation /\ current'.op = current.op /\ current'.state = result
    BY <1>2, <1>4, <2>1 DEF Operation
  <2>3. Terminal' /\ LastEnded' = current.op /\ current' # Idle /\ current' # current
    BY <1>2, <1>4, <2>2 DEF Terminal, LastEnded, Running, Idle
  <2>4. LastEnded \in Nat /\ current.op = LastEnded + 1 /\ reported = LastEnded
    BY <1>2, <1>3, <1>4 DEF LastEnded, Unreported, Terminal, Running, Operation
  <2>5. reported' = reported + 1
    BY <2>3 DEF ReconPoll
  <2>6. /\ InOrder(Remember(history, LastEnded + 1, result), LastEnded + 1)
        /\ Get(Remember(history, LastEnded + 1, result), 0).result = result
    BY <1>1, <1>3, <2>4, RememberInOrder
  <2>7. history' = Remember(history, LastEnded + 1, result) /\ LastEnded' = LastEnded + 1
    BY <2>1, <2>3, <2>4
  <2>8. InOrder(history, LastEnded)' /\ Agrees'
    BY <2>2, <2>6, <2>7 DEF InOrder, Agrees, Get
  <2>9. Unreported'
    BY <2>1, <2>3, <2>4, <2>5, <2>7 DEF Unreported
  <2>10. history' \in Ring /\ net' \in Network
    BY <1>1, <1>2, <2>1, RememberType, ReleasedType
  <2>11. UNCHANGED <<now, policy, queries>> /\ phase' = "key"
    BY DEF ReconPoll
  <2>12. TypeOK'
    BY <1>3, <2>1, <2>2, <2>5, <2>10, <2>11 DEF EndInv, TypeOK, policy
  <2> QED BY <2>1, <2>8, <2>9, <2>12 DEF EndInv
<1>5. CASE dirty' = FALSE /\ UNCHANGED <<current, history, net>>
  <2>1. reported' = IF dirty /\ ~Running THEN reported + 1 ELSE reported
    BY <1>5 DEF ReconPoll
  <2>2. LastEnded' = LastEnded /\ Terminal' = Terminal /\ Running' = Running
    BY <1>5 DEF LastEnded, Terminal, Running
  <2>3. Unreported'
    <3>1. CASE dirty /\ ~Running
      <4>1. Terminal /\ LastEnded = current.op
        BY <1>2, <1>3, <3>1 DEF Terminal, Running, Unreported, LastEnded
      <4> QED BY <1>2, <1>3, <1>5, <2>1, <2>2, <3>1, <4>1 DEF Unreported
    <3>2. CASE ~(dirty /\ ~Running)
      <4>1. ~(Terminal /\ dirty)
        BY <1>2, <3>2 DEF Terminal, Running
      <4> QED BY <1>3, <1>5, <2>1, <2>2, <3>2, <4>1 DEF Unreported
    <3> QED BY <3>1, <3>2
  <2>4. InOrder(history, LastEnded)' /\ Agrees'
    BY <1>3, <1>5, <2>2 DEF InOrder, Agrees, Get
  <2>5. UNCHANGED <<now, policy, queries>> /\ phase' = "key"
    BY DEF ReconPoll
  <2>6. reported' \in Nat
    BY <1>3, <2>1
  <2>7. TypeOK'
    BY <1>5, <2>5, <2>6 DEF EndInv, TypeOK, policy
  <2> QED BY <1>5, <2>3, <2>4, <2>7 DEF EndInv
<1>6. "denied" \in Results /\ "timeout" \in Results
  BY DEF Results
<1> QED BY <1>4, <1>5, <1>6 DEF ReconPoll

\* Steps that leave the operation and its record alone.
LEMMA ElsewhereEndInv ==
  ASSUME EndInv, TypeOK', UNCHANGED <<current, dirty, history, reported>>,
         phase' = "key" => phase = "key"
  PROVE  EndInv'
  BY DEF EndInv, InOrder, Agrees, Unreported, Get, LastEnded, Terminal, Running

LEMMA EndInvInit == Init => EndInv
<1> SUFFICES ASSUME Init PROVE EndInv
  OBVIOUS
<1> USE CapacityAssumption
<1>1. NoSession \in Session
  BY DEF NoSession, Session, Unlimited, Limit
<1>2. history \in Ring
  BY DEF Init, Ring
<1>3. net \in Network
  BY DEF Init, Network, Free, PcbStates
<1>4. TypeOK
  BY <1>1, <1>2, <1>3 DEF Init, TypeOK
<1>5. LastEnded = 0 /\ ~Terminal /\ history.count = 0 /\ current = Idle /\ ~dirty /\ reported = 0
  BY DEF Init, LastEnded, Terminal, Running, Idle, Results
<1> QED BY <1>4, <1>5 DEF EndInv, InOrder, Agrees, Unreported

LEMMA EndInvStep == EndInv /\ [Next]_vars => EndInv'
<1> SUFFICES ASSUME EndInv, [Next]_vars PROVE EndInv'
  OBVIOUS
<1>1. TypeOK
  BY DEF EndInv
<1>2. ASSUME NEW c \in Record, NEW n \in Network, Follows(c), Moves(c, n),
             c.op # current.op => ~dirty,
             UNCHANGED <<policy, reported>>, now' \in Nat, phase' = "network",
             queries' \subseteq Nat
      PROVE  EndInv'
  <2>1. InOrder(history, LastEnded)' /\ Agrees' /\ Unreported'
    BY <1>2, MovesEndInv
  <2>2. current' \in Record /\ net' \in Network /\ history' \in Ring /\ dirty' \in BOOLEAN
    BY <1>1, <1>2, MovesType
  <2>3. TypeOK'
    BY <1>1, <1>2, <2>2 DEF TypeOK, policy, Record
  <2> QED BY <1>2, <2>1, <2>3 DEF EndInv
<1>3. ASSUME NEW kind \in Kinds, NEW target \in Targets, Start(kind, target)
      PROVE  EndInv'
  <2>1. PICK c \in Record, n \in Network :
          ~Running /\ c.op = current.op + 1 /\ c.state = "running" /\ Moves(c, n)
    BY <1>1, <1>3, StartMoves
  <2>2. c.op \in Nat /\ c.op \in Nat
    BY RecordFacts
  <2>3. ~dirty /\ Follows(c)
    BY <1>3, <2>1 DEF EndInv, Start, Follows
  <2>4. queries' \subseteq Nat
    <3>1. queries' \in {queries, queries \cup {current.op + 1}}
      BY <1>3 DEF Start
    <3>2. current.op + 1 \in Nat
      BY <1>1 DEF TypeOK, Operation, Idle
    <3> QED BY <1>1, <3>1, <3>2 DEF TypeOK
  <2>5. UNCHANGED <<now, policy, reported>> /\ phase' = "network" /\ now' \in Nat
    BY <1>1, <1>3 DEF Start, TypeOK
  <2> QED BY <1>2, <2>1, <2>3, <2>4, <2>5
<1>4. CASE Callback
  <2>1. PICK c \in Record, n \in Network :
          c.op = current.op /\ c.state = current.state /\ Moves(c, n)
    BY <1>1, <1>4, CallbackMoves
  <2>2. /\ UNCHANGED <<now, policy, reported>> /\ phase' = "network"
        /\ queries' \subseteq queries
    BY <1>4 DEF Callback, Cancel, DnsAnswer, TcpConnected, TcpData, TcpClosed,
                TcpError, EchoReply
  <2>3. now' \in Nat /\ queries' \subseteq Nat
    BY <1>1, <2>2 DEF TypeOK
  <2> QED BY <1>2, <2>1, <2>2, <2>3 DEF Follows
<1>5. ASSUME NEW p \in TcpPcbs, TcpForgets(p)
      PROVE  EndInv'
  <2>1. net' \in Network
    BY <1>1, <1>5 DEF TcpForgets, TypeOK, Network, Free, PcbStates
  <2>2. TypeOK'
    BY <1>1, <1>5, <2>1 DEF TypeOK, TcpForgets, policy
  <2> QED BY <1>5, <2>2, ElsewhereEndInv DEF TcpForgets
<1>6. ASSUME NEW limit \in Limits, NEW duration \in Durations, NEW boundaryOk \in BOOLEAN,
             ToggleSession(limit, duration, boundaryOk)
      PROVE  EndInv'
  <2>1. NoSession \in Session /\ Activated(limit, now, duration) \in Session
    <3>1. Unlimited \in Limit /\ limit \in Limit
      <4>1. Unlimited \in Limit
        BY DEF Limit, Unlimited
      <4>2. \A name \in Names : HostLimit(name) \in Limit
        BY DEF Limit, HostLimit
      <4>3. \A block \in Networks : NetLimit(block) \in Limit
        <5>1. \A block \in Networks : block \in SUBSET Addresses
          BY TargetsAssumption
        <5> QED BY <5>1 DEF Limit, NetLimit
      <4> QED BY <4>1, <4>2, <4>3 DEF Limits
    <3> QED BY <1>1, <3>1, TimesAssumption DEF NoSession, Activated, Session, TypeOK
  <2>2. session' \in Session
    BY <1>6, <2>1 DEF ToggleSession
  <2>3. gate' \in BOOLEAN
    BY <1>1, <1>6, <2>2 DEF ToggleSession, IsActive, TypeOK, Session
  <2>4. TypeOK'
    BY <1>1, <1>6, <2>2, <2>3 DEF TypeOK, ToggleSession
  <2> QED BY <1>6, <2>4, ElsewhereEndInv DEF ToggleSession
<1>7. CASE ChangeMode
  <2>1. TypeOK'
    BY <1>1, <1>7 DEF TypeOK, ChangeMode
  <2> QED BY <1>7, <2>1, ElsewhereEndInv DEF ChangeMode
<1>8. CASE NoKey
  <2>1. TypeOK'
    BY <1>1, <1>8 DEF TypeOK, NoKey, policy
  <2> QED BY <1>8, <2>1, ElsewhereEndInv DEF NoKey
<1>9. CASE SessionPoll
  <2>1. NoSession \in Session
    BY DEF NoSession, Session, Unlimited, Limit
  <2>2. TypeOK'
    BY <1>1, <1>9, <2>1 DEF TypeOK, SessionPoll, IsActive, Session
  <2> QED BY <1>9, <2>2, ElsewhereEndInv DEF SessionPoll
<1>10. CASE ReconPoll
  BY <1>10, ReconPollEndInv
<1>11. CASE Tick
  <2>1. TypeOK'
    BY <1>1, <1>11 DEF TypeOK, Tick, policy
  <2> QED BY <1>11, <2>1, ElsewhereEndInv DEF Tick
<1>12. CASE UNCHANGED vars
  <2>1. TypeOK'
    BY <1>1, <1>12 DEF TypeOK, vars
  <2> QED BY <1>12, <2>1, ElsewhereEndInv DEF vars
<1> QED
  BY <1>3, <1>4, <1>5, <1>6, <1>7, <1>8, <1>9, <1>10, <1>11, <1>12
     DEF Next, Key, NetworkEvent, Callback

\* Every variable of the network operations keeps its type, whatever lwIP does.
THEOREM TypeCorrect == Spec => []TypeOK
<1>1. EndInv => TypeOK
  BY DEF EndInv
<1> QED BY EndInvInit, EndInvStep, <1>1, PTL DEF Spec

\* The history holds the last operations to have ended, newest first and each
\* once, even with answers that come late or twice (recon.c:71-81).
THEOREM HistoryInOrderHolds == Spec => []HistoryInOrder
<1>1. EndInv => HistoryInOrder
  BY DEF EndInv, HistoryInOrder, InOrder, Agrees, HistoryGet, Get, Place
<1> QED BY EndInvInit, EndInvStep, <1>1, PTL DEF Spec

\* Every end is passed on to the inventory and the audit log once
\* (recon.c:285-310).
THEOREM ReportedOnceHolds == Spec => []ReportedOnce
<1>1. EndInv => ReportedOnce
  BY DEF EndInv, ReportedOnce, Unreported
<1> QED BY EndInvInit, EndInvStep, <1>1, PTL DEF Spec

-----------------------------------------------------------------------------
(* Scope: the recon poll sees the session the session poll has just        *)
(* cleared.                                                                *)

ScopeInv ==
  /\ phase = "recon" /\ session.active => session.expires > now
  /\ InScope

\* After a poll no operation runs that its session does not admit
\* (recon.c:292-298).
THEOREM InScopeHolds == Spec => []InScope
<1>1. Init => ScopeInv
  BY DEF Init, ScopeInv, InScope, Running, Idle, NoSession
<1>2. ScopeInv /\ TypeOK /\ [Next]_vars => ScopeInv'
  <2> SUFFICES ASSUME ScopeInv, TypeOK, [Next]_vars PROVE ScopeInv'
    OBVIOUS
  <2>1. ASSUME phase' = "network" PROVE ScopeInv'
    BY <2>1 DEF ScopeInv, InScope
  <2>2. CASE \E kind \in Kinds, target \in Targets : Start(kind, target)
    BY <2>1, <2>2 DEF Start
  <2>3. CASE Cancel \/ ChangeMode \/ NoKey
    BY <2>1, <2>3 DEF Cancel, ChangeMode, NoKey
  <2>4. CASE \E limit \in Limits, duration \in Durations, boundaryOk \in BOOLEAN :
               ToggleSession(limit, duration, boundaryOk)
    BY <2>1, <2>4 DEF ToggleSession
  <2>5. CASE NetworkEvent
    <3>1. phase' = "network"
      BY <2>5 DEF NetworkEvent, DnsAnswer, TcpConnected, TcpData, TcpClosed, TcpError,
                  TcpForgets, EchoReply
    <3> QED BY <2>1, <3>1
  <2>6. CASE SessionPoll
    BY <2>6 DEF ScopeInv, InScope, SessionPoll, IsActive, NoSession
  <2>7. CASE ReconPoll
    <3>1. phase' = "key" /\ UNCHANGED <<now, session>>
      BY <2>7 DEF ReconPoll, policy
    <3>2. Running' => Allowed /\ current' = current
      <4>1. ASSUME NEW result \in {"denied", "timeout"}, Running,
                   Ends(current, result, net, FALSE)
            PROVE  ~Running'
        <5>1. current \in Operation
          BY <4>1, RecordFacts DEF TypeOK, Record, Running
        <5>2. current' = [current EXCEPT !.state = result]
          BY <4>1 DEF Ends, Running
        <5> QED BY <5>1, <5>2 DEF Operation, Running
      <4>2. ASSUME Running => Allowed /\ now < Deadline,
                   UNCHANGED <<current, history, net>>, Running'
            PROVE  Allowed /\ current' = current
        BY <4>2 DEF Running
      <4> QED BY <2>7, <4>1, <4>2 DEF ReconPoll
    <3>3. session.active => IsActive(session, now)
      BY <2>7 DEF ScopeInv, ReconPoll, IsActive
    <3> QED BY <3>1, <3>2, <3>3 DEF ScopeInv, InScope, Allowed, TargetAllowed, IsActive
  <2>8. CASE Tick
    BY <2>8 DEF Tick, policy, ScopeInv, InScope, Running
  <2>9. CASE UNCHANGED vars
    BY <2>9 DEF vars, ScopeInv, InScope, Running
  <2> QED BY <2>2, <2>3, <2>4, <2>5, <2>6, <2>7, <2>8, <2>9 DEF Next, Key
<1>3. ScopeInv => InScope
  BY DEF ScopeInv
<1> QED BY <1>1, <1>2, <1>3, TypeCorrect, PTL DEF Spec

-----------------------------------------------------------------------------
(* Control blocks.  What has to hold for none to get lost: an operation    *)
(* whose name is still being resolved holds none, unless an earlier one's  *)
(* answer has started it, and a connection left to lwIP to close belongs   *)
(* to an operation that has ended.                                         *)

InUse == {"connecting", "open", "peer_closed"}

\* OwnAnswers and Reachable, of an operation c and a network n
OwnFrom(c) == c.op = 0 \/ c.from \subseteq {c.op}
Within(c, n) ==
  /\ \A p \in TcpPcbs : n.pcbs[p].st \in InUse =>
       c.state = "running" /\ n.tcp = p /\ n.pcbs[p].op = c.op
  /\ n.raws \subseteq {n.raw}

NoneHeld(n) == n.tcp = NoPcb /\ n.raw = NoPcb

LeakInv(c, n, asked) ==
  /\ c.state # "running" => NoneHeld(n)
  /\ c.state = "running" /\ OwnFrom(c) /\ c.op \in asked => NoneHeld(n)
  /\ \A op \in asked : op <= c.op
  /\ \A p \in TcpPcbs : n.pcbs[p].op <= c.op
  /\ \A p \in TcpPcbs : c.state = "running" /\ n.pcbs[p].op = c.op => n.pcbs[p].st # "closing"

LEMMA BlockFacts ==
  ASSUME NEW n \in Network, NEW p \in TcpPcbs
  PROVE  /\ n.pcbs[p].st \in PcbStates /\ n.pcbs[p].op \in Nat
         /\ n.pcbs \in [TcpPcbs -> [st : PcbStates, op : Nat]]
         /\ p # NoPcb
<1>1. n.pcbs[p] \in [st : PcbStates, op : Nat]
  BY DEF Network
<1> QED BY <1>1, PcbsAssumption DEF Network

\* finish() gives back every block it can reach.
LEMMA EndsWithin ==
  ASSUME NEW c \in Record, NEW n \in Network, NEW asked \in SUBSET Nat,
         NEW result \in Results, NEW announce \in BOOLEAN,
         LeakInv(c, n, asked), Ends(c, result, n, announce), queries' = asked
  PROVE  LeakInv(current, net, queries)' /\ (Within(c, n) => Within(current, net)')
<1>1. CASE c.state # "running"
  BY <1>1 DEF Ends
<1>2. CASE c.state = "running"
  <2> DEFINE m == Released(n, result # "complete")
  <2>1. c \in Operation /\ c.op \in Nat /\ result # "running"
    BY <1>2, RecordFacts
  <2>2. /\ current' = [c EXCEPT !.state = result] /\ net' = m
        /\ current'.op = c.op /\ current'.state # "running"
    BY <1>2, <2>1 DEF Ends, Operation
  <2>3. NoneHeld(m) /\ m.raws = n.raws \ {n.raw}
    BY DEF Released, NoneHeld, Network
  <2>4. \A p \in TcpPcbs : p # n.tcp => m.pcbs[p] = n.pcbs[p]
    BY DEF Released, Network
  <2>5. n.tcp \in TcpPcbs => m.pcbs[n.tcp].st \notin InUse /\ m.pcbs[n.tcp].op <= c.op
    <3> SUFFICES ASSUME n.tcp \in TcpPcbs
                 PROVE  m.pcbs[n.tcp].st \notin InUse /\ m.pcbs[n.tcp].op <= c.op
      OBVIOUS
    <3>1. n.tcp # NoPcb /\ n.pcbs[n.tcp] \in [st : PcbStates, op : Nat]
      BY BlockFacts DEF Network
    <3>2. m.pcbs[n.tcp] = Free \/ m.pcbs[n.tcp] = [n.pcbs[n.tcp] EXCEPT !.st = "closing"]
      BY <3>1 DEF Released, Network
    <3>3. n.pcbs[n.tcp].op <= c.op
      BY DEF LeakInv
    <3> QED BY <2>1, <3>1, <3>2, <3>3 DEF Free, InUse
  <2> HIDE DEF m
  <2>6. \A p \in TcpPcbs : m.pcbs[p].op <= c.op
    BY <2>4, <2>5 DEF LeakInv
  <2>7. LeakInv(current, net, queries)'
    BY <2>2, <2>3, <2>6 DEF LeakInv
  <2>8. ASSUME Within(c, n)
        PROVE  Within(current, net)'
    <3>1. m.raws \subseteq {m.raw}
      BY <2>3, <2>8 DEF Within
    <3>2. \A p \in TcpPcbs : m.pcbs[p].st \notin InUse
      BY <2>4, <2>5, <2>8 DEF Within
    <3> QED BY <2>2, <3>1, <3>2 DEF Within
  <2> QED BY <2>7, <2>8
<1> QED BY <1>1, <1>2

\* What a handler makes of operation and network before it goes on or finishes
Carries(c, n) ==
  /\ LeakInv(c, n, queries')
  /\ Within(current, net) /\ OwnFrom(c) => Within(c, n)

\* So a handler loses no block.
Keeps ==
  /\ LeakInv(current, net, queries)'
  /\ Within(current, net) /\ OwnFrom(current') => Within(current', net')

LEMMA MovesWithin ==
  ASSUME NEW c \in Record, NEW n \in Network, queries' \in SUBSET Nat,
         Carries(c, n), Moves(c, n)
  PROVE  Keeps
<1>1. CASE GoesOn(c, n)
  BY <1>1 DEF GoesOn, Carries, Keeps
<1>2. ASSUME NEW result \in Results, Finish(c, result, n)
      PROVE  Keeps
  <2>1. LeakInv(current, net, queries)' /\ (Within(c, n) => Within(current, net)')
    BY <1>2, EndsWithin DEF Finish, Carries
  <2>2. OwnFrom(current') => OwnFrom(c)
    <3>1. CASE c.state = "running"
      <4>1. c \in Operation /\ current' = [c EXCEPT !.state = result]
        BY <1>2, <3>1, RecordFacts DEF Finish, Ends
      <4>2. current'.op = c.op /\ current'.from = c.from
        BY <4>1 DEF Operation
      <4> QED BY <4>2 DEF OwnFrom
    <3>2. CASE c.state # "running"
      BY <1>2, <3>2 DEF Finish, Ends
    <3> QED BY <3>1, <3>2
  <2> QED BY <2>1, <2>2 DEF Keeps, Carries
<1> QED BY <1>1, <1>2 DEF Moves

LEMMA OperationFacts ==
  ASSUME NEW c \in Operation
  PROVE  c.op \in Nat \ {0} /\ c \in Record
  BY DEF Operation, Record

\* Starting takes blocks for an operation that holds none.
LEMMA ResolvedKeeps ==
  ASSUME TypeOK, queries' \in SUBSET Nat,
         NEW answered \in Operation, NEW address \in Addresses,
         answered.state = "running", Carries(answered, net),
         OwnFrom(answered) => NoneHeld(net) /\ answered.op \notin queries',
         Resolved(answered, address)
  PROVE  Keeps
<1> DEFINE c == [answered EXCEPT !.address = address]
<1>1. /\ c \in Operation /\ c \in Record /\ c.op \in Nat
      /\ c.op = answered.op /\ c.state = "running" /\ c.from = answered.from
  <2>1. c \in Operation /\ c.op = answered.op /\ c.state = "running" /\ c.from = answered.from
    BY DEF Operation
  <2> QED BY <2>1, OperationFacts
<1>2. net \in Network
  BY DEF TypeOK
<1>3. /\ Carries(c, net)
      /\ OwnFrom(c) => NoneHeld(net) /\ c.op \notin queries'
  <2> HIDE DEF c
  <2> QED BY <1>1 DEF Carries, LeakInv, Within, OwnFrom
<1>4. \/ \E result \in {"denied", "complete"} : Finish(c, result, net)
      \/ StartEcho(c) \/ StartTcp(c)
  BY DEF Resolved
<1> HIDE DEF c
<1>5. CASE \E result \in {"denied", "complete"} : Finish(c, result, net)
  BY <1>1, <1>2, <1>3, <1>5, MovesWithin DEF Moves, Results
<1>6. CASE StartTcp(c)
  <2>1. CASE Finish(c, "error", [net EXCEPT !.tcp = NoPcb])
    <3> DEFINE n == [net EXCEPT !.tcp = NoPcb]
    <3>1. /\ n \in Network /\ n.pcbs = net.pcbs /\ n.raws = net.raws /\ n.raw = net.raw
          /\ n.tcp = NoPcb
      BY <1>2 DEF Network
    <3> HIDE DEF n
    <3>2. Carries(c, n)
      BY <1>1, <1>3, <3>1 DEF Carries, LeakInv, Within, NoneHeld
    <3> QED BY <1>1, <2>1, <3>1, <3>2, MovesWithin DEF Moves, Results, n
  <2>2. ASSUME NEW p \in TcpPcbs, net.pcbs[p].st = "free",
               LET n == [net EXCEPT !.tcp = p,
                              !.pcbs[p] = [st |-> "connecting", op |-> c.op]] IN
               GoesOn(c, n) \/ Finish(c, "error", n)
        PROVE  Keeps
    <3> DEFINE block == [st |-> "connecting", op |-> c.op]
               n == [net EXCEPT !.tcp = p, !.pcbs[p] = block]
    <3>1. block \in [st : PcbStates, op : Nat]
      BY <1>1 DEF PcbStates
    <3>2. /\ n \in Network /\ n.tcp = p /\ n.raw = net.raw /\ n.raws = net.raws
          /\ n.pcbs[p] = block
          /\ \A q \in TcpPcbs : q # p => n.pcbs[q] = net.pcbs[q]
      BY <1>2, <3>1 DEF Network
    <3>3. Moves(c, n)
      BY <2>2 DEF Moves, Results
    <3> HIDE DEF n
    <3>4. LeakInv(c, n, queries')
      BY <1>1, <1>3, <3>2 DEF Carries, LeakInv
    <3>5. Within(current, net) /\ OwnFrom(c) => Within(c, n)
      <4> SUFFICES ASSUME Within(current, net), OwnFrom(c) PROVE Within(c, n)
        OBVIOUS
      <4>1. Within(c, net) /\ net.tcp = NoPcb
        BY <1>3 DEF Carries, NoneHeld
      <4>2. \A q \in TcpPcbs : net.pcbs[q].st \notin InUse
        BY <4>1, PcbsAssumption DEF Within
      <4> QED BY <1>1, <3>2, <4>1, <4>2 DEF Within
    <3> QED BY <1>1, <3>2, <3>3, <3>4, <3>5, MovesWithin DEF Carries
  <2> QED BY <1>6, <2>1, <2>2 DEF StartTcp
<1>7. CASE StartEcho(c)
  <2>1. CASE Finish(c, "error", [net EXCEPT !.raw = NoPcb])
    <3> DEFINE n == [net EXCEPT !.raw = NoPcb]
    <3>1. /\ n \in Network /\ n.pcbs = net.pcbs /\ n.raws = net.raws /\ n.raw = NoPcb
          /\ n.tcp = net.tcp
      BY <1>2 DEF Network
    <3> HIDE DEF n
    <3>2. Carries(c, n)
      BY <1>1, <1>3, <3>1 DEF Carries, LeakInv, Within, NoneHeld
    <3> QED BY <1>1, <2>1, <3>1, <3>2, MovesWithin DEF Moves, Results, n
  <2>2. ASSUME NEW p \in RawPcbs \ net.raws,
               LET n == [net EXCEPT !.raw = p, !.raws = @ \cup {p}, !.echo = c.op] IN
               GoesOn(c, n) \/ Finish(c, "error", n)
        PROVE  Keeps
    <3> DEFINE n == [net EXCEPT !.raw = p, !.raws = @ \cup {p}, !.echo = c.op]
    <3>1. /\ n \in Network /\ n.tcp = net.tcp /\ n.raw = p /\ n.raws = net.raws \cup {p}
          /\ n.pcbs = net.pcbs
      BY <1>1, <1>2 DEF Network
    <3>2. Moves(c, n)
      BY <2>2 DEF Moves, Results
    <3> HIDE DEF n
    <3>3. LeakInv(c, n, queries')
      BY <1>1, <1>3, <3>1 DEF Carries, LeakInv
    <3>4. Within(current, net) /\ OwnFrom(c) => Within(c, n)
      <4> SUFFICES ASSUME Within(current, net), OwnFrom(c) PROVE Within(c, n)
        OBVIOUS
      <4>1. Within(c, net) /\ net.raw = NoPcb
        BY <1>3 DEF Carries, NoneHeld
      <4>2. net.raws = {}
        BY <1>2, <4>1, PcbsAssumption DEF Within, Network
      <4> QED BY <3>1, <4>1, <4>2 DEF Within
    <3> QED BY <1>1, <3>1, <3>2, <3>3, <3>4, MovesWithin DEF Carries
  <2> QED BY <1>7, <2>1, <2>2 DEF StartEcho
<1> QED BY <1>4, <1>5, <1>6, <1>7

LEMMA StartKeeps ==
  ASSUME TypeOK, LeakInv(current, net, queries),
         NEW kind \in Kinds, NEW target \in Targets, Start(kind, target)
  PROVE  Keeps
<1> DEFINE c == [op |-> current.op + 1, kind |-> kind, target |-> target,
                 state |-> "running", address |-> NoAddress, started |-> now,
                 guarded |-> guarded, from |-> {},
                 scoped |-> IsActive(session, now)]
<1>1. /\ current \in Record /\ current.op \in Nat /\ net \in Network
      /\ queries \subseteq Nat /\ current.state # "running"
  BY DEF TypeOK, Operation, Idle, Record, Start, Running
<1>2. IsActive(session, now) \in BOOLEAN
  BY DEF IsActive, TypeOK, Session
<1>3. /\ c \in Operation /\ c.op = current.op + 1 /\ c.state = "running" /\ c.from = {}
  BY <1>1, <1>2 DEF TypeOK, Operation
<1>4. /\ queries' = queries \/ queries' = queries \cup {c.op}
      /\ \/ \E address \in Addresses : Resolved(c, address) /\ queries' = queries
         \/ GoesOn(c, net)
         \/ Finish(c, "error", net)
  BY DEF Start
<1> HIDE DEF c
<1>5. c \in Record /\ queries' \in SUBSET Nat
  BY <1>1, <1>3, <1>4, OperationFacts
<1>6. NoneHeld(net)
  BY <1>1 DEF LeakInv
<1>7. \A p \in TcpPcbs : net.pcbs[p].op <= current.op /\ net.pcbs[p].op \in Nat
  BY <1>1, BlockFacts DEF LeakInv
<1>8. \A op \in queries : op <= current.op /\ op \in Nat
  BY <1>1 DEF LeakInv
<1>9. LeakInv(c, net, queries')
  <2>1. \A op \in queries' : op <= c.op
    <3> SUFFICES ASSUME NEW op \in queries' PROVE op <= c.op
      OBVIOUS
    <3>1. c.op \in Nat /\ current.op <= c.op
      BY <1>1, <1>3
    <3>2. CASE op \in queries
      <4>1. op \in Nat /\ op <= current.op
        BY <1>8, <3>2
      <4> QED BY <1>1, <3>1, <4>1
    <3>3. CASE op = c.op
      BY <3>1, <3>3
    <3> QED BY <1>4, <3>2, <3>3
  <2>2. \A p \in TcpPcbs : net.pcbs[p].op <= c.op /\ net.pcbs[p].op # c.op
    BY <1>1, <1>3, <1>7
  <2> QED BY <1>6, <2>1, <2>2 DEF LeakInv
<1>10. Within(current, net) => Within(c, net)
  BY <1>1 DEF Within
<1>11. Carries(c, net)
  BY <1>9, <1>10 DEF Carries
<1>12. CASE \E address \in Addresses : Resolved(c, address) /\ queries' = queries
  <2>1. c.op \notin queries'
    BY <1>1, <1>3, <1>8, <1>12
  <2> QED BY <1>3, <1>5, <1>6, <1>11, <1>12, <2>1, ResolvedKeeps
<1>13. CASE GoesOn(c, net) \/ Finish(c, "error", net)
  BY <1>1, <1>5, <1>11, <1>13, MovesWithin DEF Moves, Results
<1> QED BY <1>4, <1>12, <1>13

LEMMA HeardFrom ==
  ASSUME TypeOK, NEW op \in Nat
  PROVE  /\ Heard(current, op) \in Record /\ Heard(current, op).op = current.op
         /\ Heard(current, op).state = current.state
         /\ Running => Heard(current, op) \in Operation
         /\ ~Running => Heard(current, op) = current
         /\ OwnFrom(Heard(current, op)) => OwnFrom(current)
         /\ Running /\ OwnFrom(Heard(current, op)) => op = current.op
<1>1. CASE Running
  <2>1. current \in Operation /\ current.op # 0 /\ current.from \in SUBSET Nat
    BY <1>1 DEF TypeOK, Operation, Idle, Running
  <2>2. /\ Heard(current, op) = [current EXCEPT !.from = @ \cup {op}]
        /\ Heard(current, op).from = current.from \cup {op}
        /\ Heard(current, op).op = current.op
    BY <1>1, <2>1 DEF Heard, Running, Operation
  <2> QED BY <1>1, <2>1, <2>2, HeardType DEF OwnFrom
<1>2. CASE ~Running
  BY <1>2, HeardType DEF Heard, Running
<1> QED BY <1>1, <1>2

\* Nor does any callback of lwIP's lose one, unless the operation hears another's
\* answer.
LEMMA CallbackKeeps ==
  ASSUME TypeOK, LeakInv(current, net, queries), Callback
  PROVE  Keeps
<1>1. /\ net \in Network /\ current \in Record /\ current.op \in Nat
      /\ queries \in SUBSET Nat /\ (Running <=> current.state = "running")
  BY DEF TypeOK, Record, Operation, Idle, Running
<1>2. CASE Cancel
  <2>1. queries' = queries /\ Finish(current, "cancelled", net)
    BY <1>2 DEF Cancel
  <2>2. Carries(current, net)
    BY <2>1 DEF Carries
  <2> QED BY <1>1, <2>1, <2>2, MovesWithin DEF Moves, Results
<1>3. ASSUME NEW op \in Nat, queries' \in SUBSET queries,
             Running /\ OwnFrom(Heard(current, op)) =>
               current.op \notin queries' \/ queries' = queries
      PROVE  Carries(Heard(current, op), net)
  <2> DEFINE c == Heard(current, op)
  <2>1. /\ c.op = current.op /\ c.state = current.state
        /\ OwnFrom(c) => OwnFrom(current)
    BY HeardFrom
  <2> HIDE DEF c
  <2>2. LeakInv(c, net, queries')
    BY <1>1, <1>3, <2>1 DEF LeakInv, c
  <2>3. Within(current, net) => Within(c, net)
    BY <2>1 DEF Within
  <2> QED BY <2>2, <2>3 DEF Carries, c
<1>4. CASE EchoReply
  <2>1. queries' = queries /\ Finish(Heard(current, current.op), "complete", net)
    BY <1>4 DEF EchoReply
  <2>2. Carries(Heard(current, current.op), net)
    BY <1>1, <1>3, <2>1
  <2> QED BY <1>1, <2>1, <2>2, HeardFrom, MovesWithin DEF Moves, Results
<1>5. ASSUME NEW op \in queries, NEW address \in Addresses \cup {NoAddress},
             DnsAnswer(op, address)
      PROVE  Keeps
  <2> DEFINE c == Heard(current, op)
  <2>1. op \in Nat /\ queries' = queries \ {op} /\ queries' \in SUBSET Nat
    BY <1>1, <1>5 DEF DnsAnswer
  <2>2. c \in Record /\ (Running /\ OwnFrom(c) => op = current.op /\ OwnFrom(current))
    BY <2>1, HeardFrom
  <2>3. Carries(c, net)
    BY <1>3, <2>1, <2>2
  <2>4. CASE ~Running
    <3>1. c = current /\ GoesOn(current, net)
      BY <1>5, <2>1, <2>4, HeardFrom DEF DnsAnswer
    <3> HIDE DEF c
    <3> QED BY <1>1, <2>1, <2>3, <3>1, MovesWithin DEF Moves
  <2>5. CASE Running /\ address = NoAddress
    <3>1. Finish(c, "error", net)
      BY <1>5, <2>5 DEF DnsAnswer
    <3> HIDE DEF c
    <3> QED BY <1>1, <2>1, <2>2, <2>3, <3>1, MovesWithin DEF Moves, Results
  <2>6. CASE Running /\ address # NoAddress
    <3>1. Resolved(c, address) /\ address \in Addresses
      BY <1>5, <2>6 DEF DnsAnswer
    <3>2. c \in Operation /\ c.op = current.op /\ c.state = "running"
      BY <1>1, <2>1, <2>6, HeardFrom
    <3>3. OwnFrom(c) => NoneHeld(net) /\ c.op \notin queries'
      BY <1>1, <2>1, <2>2, <2>6, <3>2 DEF LeakInv
    <3> HIDE DEF c
    <3> QED BY <2>1, <2>3, <3>1, <3>2, <3>3, ResolvedKeeps
  <2> QED BY <2>4, <2>5, <2>6
<1>6. ASSUME NEW p \in TcpPcbs,
             \/ TcpConnected(p)
             \/ \E enough \in BOOLEAN : TcpData(p, enough)
             \/ TcpClosed(p)
             \/ \E refused \in BOOLEAN : TcpError(p, refused)
      PROVE  Keeps
  <2> DEFINE c == Heard(current, net.pcbs[p].op)
  <2>1. /\ net.pcbs[p] \in [st : PcbStates, op : Nat] /\ net.pcbs[p].op \in Nat
        /\ p # NoPcb
    BY <1>1, BlockFacts DEF Network
  <2>2. /\ c \in Record /\ c.op = current.op /\ c.state = current.state
        /\ OwnFrom(c) => OwnFrom(current)
        /\ Running /\ OwnFrom(c) => net.pcbs[p].op = current.op
    BY <2>1, HeardFrom
  <2>3. queries' = queries
    BY <1>6 DEF TcpConnected, TcpData, TcpClosed, TcpError
  <2>4. Carries(c, net)
    BY <1>1, <1>3, <2>1, <2>3
  <2>5. ASSUME NEW st \in {"open", "peer_closed"}, net.pcbs[p].st \in InUse
        PROVE  /\ [net EXCEPT !.pcbs[p].st = st] \in Network
               /\ Carries(c, [net EXCEPT !.pcbs[p].st = st])
    <3> DEFINE n == [net EXCEPT !.pcbs[p].st = st]
    <3>1. /\ n \in Network /\ n.tcp = net.tcp /\ n.raw = net.raw /\ n.raws = net.raws
          /\ n.pcbs[p].st = st /\ n.pcbs[p].op = net.pcbs[p].op
          /\ \A q \in TcpPcbs : q # p => n.pcbs[q] = net.pcbs[q]
      BY <1>1, <2>1 DEF Network, PcbStates
    <3> HIDE DEF n, c
    <3>2. LeakInv(c, n, queries')
      BY <2>4, <3>1 DEF Carries, LeakInv, NoneHeld
    <3>3. Within(current, net) /\ OwnFrom(c) => Within(c, n)
      BY <2>4, <2>5, <3>1 DEF Carries, Within
    <3> QED BY <3>1, <3>2, <3>3 DEF Carries, n
  <2>6. CASE TcpConnected(p)
    <3> DEFINE n == [net EXCEPT !.pcbs[p].st = "open"]
    <3>1. n \in Network /\ Carries(c, n)
      BY <2>5, <2>6 DEF TcpConnected, InUse
    <3>2. \/ GoesOn(c, n)
          \/ \E result \in {"complete", "unavailable", "error"} : Finish(c, result, n)
      BY <2>6 DEF TcpConnected
    <3> HIDE DEF c, n
    <3> QED BY <1>1, <2>2, <2>3, <3>1, <3>2, MovesWithin DEF Moves, Results
  <2>7. CASE \E enough \in BOOLEAN : TcpData(p, enough)
    <3>1. GoesOn(c, net) \/ Finish(c, "complete", net)
      BY <2>7 DEF TcpData
    <3> HIDE DEF c
    <3> QED BY <1>1, <2>2, <2>3, <2>4, <3>1, MovesWithin DEF Moves, Results
  <2>8. CASE TcpClosed(p)
    <3> DEFINE n == [net EXCEPT !.pcbs[p].st = "peer_closed"]
    <3>1. n \in Network /\ Carries(c, n) /\ Finish(c, "complete", n)
      BY <2>5, <2>8 DEF TcpClosed, InUse
    <3> HIDE DEF c, n
    <3> QED BY <1>1, <2>2, <2>3, <3>1, MovesWithin DEF Moves, Results
  <2>9. CASE \E refused \in BOOLEAN : TcpError(p, refused)
    <3> DEFINE n == [net EXCEPT !.pcbs[p] = Free, !.tcp = NoPcb]
    <3>1. /\ n \in Network /\ n.tcp = NoPcb /\ n.raw = net.raw /\ n.raws = net.raws
          /\ n.pcbs[p] = Free
          /\ \A q \in TcpPcbs : q # p => n.pcbs[q] = net.pcbs[q]
      BY <1>1, <2>1 DEF Network, PcbStates, Free
    <3>2. (\E result \in {"refused", "error"} : Finish(c, result, n)) /\ net.pcbs[p].st # "free"
      BY <2>9 DEF TcpError
    <3> HIDE DEF n, c
    <3>3. LeakInv(c, n, queries')
      BY <1>1, <2>2, <2>4, <3>1 DEF Carries, LeakInv, NoneHeld, Free
    <3>4. Within(current, net) /\ OwnFrom(c) => Within(c, n)
      <4> SUFFICES ASSUME Within(current, net), OwnFrom(c) PROVE Within(c, n)
        OBVIOUS
      <4>1. Within(c, net)
        BY <2>4 DEF Carries
      <4>2. ASSUME Running PROVE net.pcbs[p].st \in InUse
        <5>1. net.pcbs[p].st # "closing"
          BY <1>1, <2>2, <4>2 DEF LeakInv
        <5> QED BY <2>1, <3>2, <5>1 DEF InUse, PcbStates
      <4>3. \A q \in TcpPcbs : q # p => net.pcbs[q].st \notin InUse
        BY <1>1, <2>2, <4>1, <4>2 DEF Within
      <4> QED BY <3>1, <4>1, <4>3 DEF Within, Free, InUse
    <3> QED BY <1>1, <2>2, <2>3, <3>1, <3>2, <3>3, <3>4, MovesWithin DEF Carries, Moves, Results
  <2> QED BY <1>6, <2>6, <2>7, <2>8, <2>9
<1> QED BY <1>2, <1>4, <1>5, <1>6 DEF Callback

LEMMA StepKeepsBlocks ==
  ASSUME TypeOK, LeakInv(current, net, queries), [Next]_vars
  PROVE  Keeps
<1>1. /\ net \in Network /\ current \in Record /\ current.op \in Nat
      /\ queries \in SUBSET Nat
  BY DEF TypeOK, Record, Operation, Idle
<1>2. CASE \E kind \in Kinds, target \in Targets : Start(kind, target)
  BY <1>2, StartKeeps
<1>3. CASE Callback
  BY <1>3, CallbackKeeps
<1>4. ASSUME UNCHANGED <<current, net, queries>>
      PROVE  Keeps
  BY <1>4 DEF Keeps
<1>5. CASE \/ \E limit \in Limits, duration \in Durations, boundaryOk \in BOOLEAN :
                ToggleSession(limit, duration, boundaryOk)
           \/ ChangeMode \/ NoKey \/ SessionPoll \/ Tick \/ UNCHANGED vars
  BY <1>4, <1>5 DEF ToggleSession, ChangeMode, NoKey, SessionPoll, Tick, vars
<1>6. ASSUME NEW p \in TcpPcbs, TcpForgets(p)
      PROVE  Keeps
  <2>1. /\ net.pcbs[p].st = "closing" /\ UNCHANGED <<current, queries>>
        /\ net'.pcbs[p] = Free /\ net'.tcp = net.tcp /\ net'.raw = net.raw
        /\ net'.raws = net.raws
        /\ \A q \in TcpPcbs : q # p => net'.pcbs[q] = net.pcbs[q]
    BY <1>1, <1>6 DEF TcpForgets, Network
  <2>2. LeakInv(current, net, queries)'
    BY <1>1, <2>1 DEF LeakInv, NoneHeld, Free
  <2>3. Within(current, net) => Within(current', net')
    BY <2>1 DEF Within, InUse, Free
  <2> QED BY <2>2, <2>3 DEF Keeps
<1>7. CASE ReconPoll
  <2>1. queries' = queries
    BY <1>7 DEF ReconPoll
  <2>2. ASSUME NEW result \in {"denied", "timeout"}, Ends(current, result, net, FALSE)
        PROVE  Keeps
    <3>1. result \in Results /\ FALSE \in BOOLEAN
      BY DEF Results
    <3> QED BY <1>1, <2>1, <2>2, <3>1, EndsWithin DEF Keeps
  <2> QED BY <1>4, <1>7, <2>1, <2>2 DEF ReconPoll
<1> QED
  BY <1>2, <1>3, <1>5, <1>6, <1>7 DEF Next, Key, NetworkEvent, Callback

\* A control block gets out of reach only in an operation that an earlier one's
\* late answer has reached: of any number of blocks, in any number of operations
\* (recon.c:59-69, :168-173, :222-239).
THEOREM LeaksOnlyByOthersHolds == Spec => LeaksOnlyByOthers
<1>1. Init => LeakInv(current, net, queries)
  BY DEF Init, LeakInv, NoneHeld, Idle, Free
<1>2. TypeOK /\ LeakInv(current, net, queries) /\ [Next]_vars =>
        /\ LeakInv(current, net, queries)'
        /\ [Reachable /\ ~Reachable' => ~OwnAnswers']_vars
  <2> SUFFICES ASSUME TypeOK, LeakInv(current, net, queries), [Next]_vars
               PROVE  /\ LeakInv(current, net, queries)'
                      /\ Reachable /\ ~Reachable' => ~OwnAnswers'
    OBVIOUS
  <2>1. Keeps
    BY StepKeepsBlocks
  <2>2. /\ Reachable <=> Within(current, net)
        /\ Reachable' <=> Within(current', net')
        /\ OwnAnswers' <=> OwnFrom(current')
    BY DEF Reachable, Within, InUse, OwnAnswers, OwnFrom, Running
  <2> QED BY <2>1, <2>2 DEF Keeps
<1> QED BY <1>1, <1>2, TypeCorrect, PTL DEF Spec, LeaksOnlyByOthers
=============================================================================
