------------------------------- MODULE Recon --------------------------------
(***************************************************************************)
(* One network operation at a time, as services/recon/recon.c runs it on   *)
(* lwIP: a name is resolved, a TCP connection or an ICMP echo tried, and   *)
(* the operation ends with its answer, at its deadline, when its scope     *)
(* ends, or when the user cancels it.                                      *)
(*                                                                         *)
(* Everything runs on one core in the loop of os/src/main.c, in the order  *)
(* key, lwIP callbacks (cyw43_arch_poll), session poll, recon poll.  lwIP  *)
(* answers when it likes: its callbacks carry no argument that would say   *)
(* which operation they belong to.                                         *)
(***************************************************************************)
EXTENDS Engagement, FiniteSets

CONSTANTS
  Kinds,       \* the kinds of operation the user starts
  TcpPcbs,     \* lwIP's TCP control blocks, MEMP_NUM_TCP_PCB of them
  RawPcbs,     \* its raw control blocks, MEMP_NUM_RAW_PCB of them
  NoPcb,       \* a null control block
  Timeout,     \* RECON_TIMEOUT_MS
  Rate,        \* RECON_RATE_MS
  Capacity,    \* PICOPEN_RECON_HISTORY_CAPACITY
  Durations,   \* the session durations the security screen offers
  MaxOps,      \* bound: operations started
  Horizon      \* bound: the time at which the clock stops

ASSUME KindsAssumption == Kinds \subseteq {"dns", "icmp", "tcp", "stream", "tls"}
ASSUME PcbsAssumption == NoPcb \notin TcpPcbs \cup RawPcbs
ASSUME TimesAssumption ==
  /\ Timeout \in Nat /\ Rate \in Nat /\ Horizon \in Nat
  /\ Durations \subseteq Nat
ASSUME CapacityAssumption == Capacity \in Nat \ {0}
ASSUME MaxOpsAssumption == MaxOps \in Nat

VARIABLES
  now,       \* time_us_64() / 1000
  phase,     \* where the main loop is
  session,   \* the engagement session
  gate,      \* gui_state.security.engagement_active
  guarded,   \* security_mode = PICOPEN_SECURITY_GUARDED
  current,   \* the current operation
  dirty,     \* snapshot_dirty
  history,   \* the ring of finished operations
  net,       \* tcp_control, raw_control and the control blocks lwIP holds
  queries,   \* the operations whose name lwIP is still resolving
  reported   \* history: ended operations the loop has passed on to the host
             \* inventory and the audit log

policy == <<session, gate, guarded>>
vars == <<now, phase, session, gate, guarded, current, dirty, history, net,
          queries, reported>>

Ops == 1 .. MaxOps
Results == {"complete", "denied", "timeout", "cancelled", "refused",
            "unavailable", "error"}
PcbStates == {"free", "connecting", "open", "peer_closed", "closing"}
Free == [st |-> "free", op |-> 0]

\* from: history, the operations whose network events have shaped this one.
\* scoped: history, a session was active when it started.
Operation == [op : Nat \ {0}, kind : Kinds, target : Targets,
              state : {"running"} \cup Results,
              address : Addresses \cup {NoAddress},
              started : Nat, guarded : BOOLEAN,
              from : SUBSET Nat, scoped : BOOLEAN]
Idle == [op |-> 0, state |-> "idle"]

Ring == [entry : [0 .. (Capacity - 1) -> [op : Nat, result : Results \cup {"none"}]],
         count : 0 .. Capacity, next : 0 .. (Capacity - 1)]

Network == [tcp : TcpPcbs \cup {NoPcb}, raw : RawPcbs \cup {NoPcb},
            pcbs : [TcpPcbs -> [st : PcbStates, op : Nat]],
            raws : SUBSET RawPcbs, echo : Nat]

TypeOK ==
  /\ now \in Nat
  /\ phase \in {"key", "network", "recon"}
  /\ session \in Session
  /\ gate \in BOOLEAN /\ guarded \in BOOLEAN
  /\ current \in Operation \cup {Idle}
  /\ dirty \in BOOLEAN
  /\ history \in Ring
  /\ net \in Network
  /\ queries \subseteq Nat
  /\ reported \in Nat

Init ==
  /\ now = 0 /\ phase = "key"
  /\ session = NoSession /\ gate = FALSE /\ guarded \in BOOLEAN
  /\ current = Idle /\ dirty = FALSE
  /\ history = [entry |-> [i \in 0 .. (Capacity - 1) |-> [op |-> 0, result |-> "none"]],
                count |-> 0, next |-> 0]
  /\ net = [tcp |-> NoPcb, raw |-> NoPcb, pcbs |-> [p \in TcpPcbs |-> Free],
            raws |-> {}, echo |-> 0]
  /\ queries = {} /\ reported = 0

Running == current.state = "running"
Terminal == current.state \in Results

-----------------------------------------------------------------------------
(* recon.c's helpers.                                                      *)

\* remember_result()
Remember(ring, op, result) ==
  [entry |-> [ring.entry EXCEPT ![ring.next] = [op |-> op, result |-> result]],
   next  |-> (ring.next + 1) % Capacity,
   count |-> IF ring.count < Capacity THEN ring.count + 1 ELSE ring.count]

\* Mutant: the echo's control block is kept.
ReleasedTcpOnly(n, abort) ==
  [n EXCEPT !.tcp = NoPcb, !.raw = NoPcb,
            !.pcbs = IF n.tcp = NoPcb THEN n.pcbs
                     ELSE [n.pcbs EXCEPT ![n.tcp] = Free]]

\* release_transport().  tcp_close() of a connection not yet made frees it; of
\* an established one it leaves lwIP to close it.  tcp_abort() calls
\* tcp_error(), which finds the operation ended.
Released(n, abort) ==
  [n EXCEPT !.tcp = NoPcb, !.raw = NoPcb, !.raws = n.raws \ {n.raw},
            !.pcbs = IF n.tcp = NoPcb THEN n.pcbs
                     ELSE [n.pcbs EXCEPT ![n.tcp] =
                             IF abort \/ @.st = "connecting" THEN Free
                             ELSE [@ EXCEPT !.st = "closing"]]]

\* Mutants: a second end is recorded too; an end is not announced.
EndsAgain(c, result, n, announce) ==
  /\ current' = [c EXCEPT !.state = result]
  /\ net' = Released(n, result # "complete")
  /\ history' = Remember(history, c.op, result)
  /\ dirty' = announce

EndsQuietly(c, result, n, announce) ==
  IF c.state = "running"
    THEN /\ current' = [c EXCEPT !.state = result]
         /\ net' = Released(n, result # "complete")
         /\ history' = Remember(history, c.op, result)
         /\ dirty' = (dirty /\ announce)
    ELSE /\ current' = c /\ net' = n
         /\ UNCHANGED <<history, dirty>>

\* finish(), c and n being what the caller has made of current and net.
Ends(c, result, n, announce) ==
  IF c.state = "running"
    THEN /\ current' = [c EXCEPT !.state = result]
         /\ net' = Released(n, result # "complete")
         /\ history' = Remember(history, c.op, result)
         /\ dirty' = announce
    ELSE /\ current' = c /\ net' = n
         /\ UNCHANGED <<history, dirty>>

Finish(c, result, n) == Ends(c, result, n, TRUE)

\* A handler that returns without ending the operation.
GoesOn(c, n) ==
  /\ current' = c /\ net' = n
  /\ dirty' = (dirty \/ c.op # current.op)
  /\ UNCHANGED history

\* The event of operation op has something to say to a running operation.
Heard(c, op) == IF c.state = "running" THEN [c EXCEPT !.from = @ \cup {op}] ELSE c

\* start_operation() for a TCP kind.  A null tcp_new_ip_type() overwrites
\* tcp_control all the same.
StartTcp(c) ==
  \/ /\ \A p \in TcpPcbs : net.pcbs[p].st # "free"
     /\ Finish(c, "error", [net EXCEPT !.tcp = NoPcb])
  \/ \E p \in TcpPcbs :
       LET n == [net EXCEPT !.tcp = p,
                            !.pcbs[p] = [st |-> "connecting", op |-> c.op]] IN
       /\ net.pcbs[p].st = "free"
       /\ GoesOn(c, n) \/ Finish(c, "error", n)

\* start_operation() for an ICMP echo.
StartEcho(c) ==
  \/ /\ RawPcbs \subseteq net.raws
     /\ Finish(c, "error", [net EXCEPT !.raw = NoPcb])
  \/ \E p \in RawPcbs \ net.raws :
       LET n == [net EXCEPT !.raw = p, !.raws = @ \cup {p}, !.echo = c.op] IN
       GoesOn(c, n) \/ Finish(c, "error", n)

\* dns_complete() with an address: also the way of a numeric target.  The scope
\* is asked at the time the operation started.
Resolved(answered, address) ==
  LET c == [answered EXCEPT !.address = address] IN
  IF ~TargetAllowed(session, c.guarded, c.target, address, c.started)
    THEN Finish(c, "denied", net)
  ELSE CASE c.kind = "dns"  -> Finish(c, "complete", net)
         [] c.kind = "icmp" -> StartEcho(c)
         [] OTHER           -> StartTcp(c)
-----------------------------------------------------------------------------
(* Keys.  While an operation runs its screen takes no key but Esc, so the  *)
(* session and the mode change only between operations.                    *)

\* next_allowed_ms
NextAllowed == IF current.op = 0 THEN 0 ELSE current.started + Rate

\* picopen_recon_start() as the confirmation screen calls it.  A name is
\* answered from lwIP's table, asked for, or refused.
Start(kind, target) ==
  /\ phase = "key" /\ ~Running
  /\ guarded => gate
  /\ now >= NextAllowed
  /\ current.op < MaxOps /\ now + Timeout <= Horizon
  /\ LET c == [op |-> current.op + 1, kind |-> kind, target |-> target,
               state |-> "running", address |-> NoAddress, started |-> now,
               guarded |-> guarded, from |-> {},
               scoped |-> IsActive(session, now)]
     IN \/ target \in Addresses /\ Resolved(c, target) /\ UNCHANGED queries
        \/ /\ target \in Names
           /\ \/ /\ \E address \in Addresses : Resolved(c, address)
                 /\ UNCHANGED queries
              \/ GoesOn(c, net) /\ queries' = queries \cup {c.op}
              \/ Finish(c, "error", net) /\ UNCHANGED queries
  /\ phase' = "network"
  /\ UNCHANGED <<now, policy, reported>>

\* Esc on the operation's screen: picopen_recon_cancel().
Cancel ==
  /\ phase = "key" /\ Running
  /\ Finish(current, "cancelled", net)
  /\ phase' = "network"
  /\ UNCHANGED <<now, policy, queries, reported>>

\* Enter on the security screen's last row but one: end the session, or start
\* one with the reference and boundary typed in.  A bad boundary is noticed
\* after the new session has replaced the old one.
ToggleSession(limit, duration, boundaryOk) ==
  /\ phase = "key" /\ ~Running
  /\ session' = IF IsActive(session, now) \/ ~boundaryOk THEN NoSession
                ELSE Activated(limit, now, duration)
  /\ gate' = IsActive(session', now)
  /\ phase' = "network"
  /\ UNCHANGED <<now, guarded, current, dirty, history, net, queries, reported>>

ChangeMode ==
  /\ phase = "key" /\ ~Running
  /\ guarded' = ~guarded
  /\ phase' = "network"
  /\ UNCHANGED <<now, session, gate, current, dirty, history, net, queries, reported>>

\* No key, or one that changes nothing here.
NoKey ==
  /\ phase = "key"
  /\ phase' = "network"
  /\ UNCHANGED <<now, policy, current, dirty, history, net, queries, reported>>
-----------------------------------------------------------------------------
(* lwIP's callbacks.                                                       *)

\* dns_complete().  It does not look at the name it is called with.
DnsAnswer(op, address) ==
  /\ phase = "network" /\ op \in queries
  /\ queries' = queries \ {op}
  /\ IF ~Running THEN GoesOn(current, net)
     ELSE IF address = NoAddress THEN Finish(Heard(current, op), "error", net)
     ELSE Resolved(Heard(current, op), address)
  /\ UNCHANGED <<now, phase, policy, reported>>

\* tcp_connected(); lwIP calls it with ERR_OK only.  The metadata of TLS is not
\* read: that operation ends here.  Of the stream kinds HTTP sends a request.
TcpConnected(p) ==
  LET c == Heard(current, net.pcbs[p].op)
      n == [net EXCEPT !.pcbs[p].st = "open"] IN
  /\ phase = "network" /\ net.pcbs[p].st = "connecting"
  /\ CASE current.kind = "tcp"    -> Finish(c, "complete", n)
       [] current.kind = "tls"    -> Finish(c, "unavailable", n)
       [] current.kind = "stream" -> GoesOn(c, n) \/ Finish(c, "error", n)
       [] OTHER                   -> GoesOn(c, n)
  /\ UNCHANGED <<now, phase, policy, queries, reported>>

\* tcp_received() with a packet: the first printable octets end the operation,
\* and so do RECON_RESPONSE_LIMIT octets of any kind.
TcpData(p, enough) ==
  LET c == Heard(current, net.pcbs[p].op) IN
  /\ phase = "network" /\ net.pcbs[p].st = "open"
  /\ IF enough THEN Finish(c, "complete", net) ELSE GoesOn(c, net)
  /\ UNCHANGED <<now, phase, policy, queries, reported>>

\* tcp_received() without one: the peer has closed its side.
TcpClosed(p) ==
  /\ phase = "network" /\ net.pcbs[p].st = "open"
  /\ Finish(Heard(current, net.pcbs[p].op), "complete",
            [net EXCEPT !.pcbs[p].st = "peer_closed"])
  /\ UNCHANGED <<now, phase, policy, queries, reported>>

\* tcp_error(): lwIP has freed the control block.  A connection that
\* release_transport() has left to tcp_close() still has the callback.
TcpError(p, refused) ==
  /\ phase = "network" /\ net.pcbs[p].st # "free"
  /\ Finish(Heard(current, net.pcbs[p].op), IF refused THEN "refused" ELSE "error",
            [net EXCEPT !.pcbs[p] = Free, !.tcp = NoPcb])
  /\ UNCHANGED <<now, phase, policy, queries, reported>>

\* lwIP is done with a connection recon.c has closed.
TcpForgets(p) ==
  /\ phase = "network" /\ net.pcbs[p].st = "closing"
  /\ net' = [net EXCEPT !.pcbs[p] = Free]
  /\ UNCHANGED <<now, phase, policy, current, dirty, history, queries, reported>>

\* echo_received() with the identifier and sequence number of this operation;
\* any other echo reply is passed over.
EchoReply ==
  /\ phase = "network" /\ net.raws # {} /\ net.echo = current.op
  /\ Finish(Heard(current, current.op), "complete", net)
  /\ UNCHANGED <<now, phase, policy, queries, reported>>
-----------------------------------------------------------------------------
(* The rest of the loop.                                                   *)

\* picopen_engagement_session_poll(), and the copy of the session that the main
\* loop passes to the GUI when it differs.
SessionPoll ==
  /\ phase = "network"
  /\ session' = IF IsActive(session, now) THEN session ELSE NoSession
  /\ gate' = IsActive(session, now)
  /\ phase' = "recon"
  /\ UNCHANGED <<now, guarded, current, dirty, history, net, queries, reported>>

Deadline == current.started + Timeout

Allowed == TargetAllowed(session, current.guarded, current.target,
                         current.address, now)

\* Mutants: the scope is not asked again; there is no deadline.
ReconPollUnscoped ==
  /\ phase = "recon"
  /\ IF Running /\ now >= Deadline
       THEN Ends(current, "timeout", net, FALSE)
       ELSE dirty' = FALSE /\ UNCHANGED <<current, history, net>>
  /\ reported' = IF current' # current \/ (dirty /\ ~Running) THEN reported + 1
                                                             ELSE reported
  /\ phase' = "key"
  /\ UNCHANGED <<now, policy, queries>>

ReconPollForever ==
  /\ phase = "recon"
  /\ IF Running /\ ~Allowed
       THEN Ends(current, "denied", net, FALSE)
       ELSE dirty' = FALSE /\ UNCHANGED <<current, history, net>>
  /\ reported' = IF current' # current \/ (dirty /\ ~Running) THEN reported + 1
                                                             ELSE reported
  /\ phase' = "key"
  /\ UNCHANGED <<now, policy, queries>>

\* picopen_recon_poll(), and what the loop does with an operation that has
\* ended: picopen_hosts_observe_recon() and an audit record.
ReconPoll ==
  /\ phase = "recon"
  /\ \/ Running /\ ~Allowed /\ Ends(current, "denied", net, FALSE)
     \/ Running /\ Allowed /\ now >= Deadline /\ Ends(current, "timeout", net, FALSE)
     \/ /\ Running => Allowed /\ now < Deadline
        /\ dirty' = FALSE /\ UNCHANGED <<current, history, net>>
  /\ reported' = IF current' # current \/ (dirty /\ ~Running) THEN reported + 1
                                                             ELSE reported
  /\ phase' = "key"
  /\ UNCHANGED <<now, policy, queries>>

\* Both polls use one reading of the clock.
Tick ==
  /\ phase # "recon" /\ now < Horizon
  /\ now' = now + 1
  /\ UNCHANGED <<phase, policy, current, dirty, history, net, queries, reported>>
-----------------------------------------------------------------------------
Key ==
  \/ \E kind \in Kinds, target \in Targets : Start(kind, target)
  \/ Cancel
  \/ \E limit \in Limits, duration \in Durations, boundaryOk \in BOOLEAN :
       ToggleSession(limit, duration, boundaryOk)
  \/ ChangeMode
  \/ NoKey

NetworkEvent ==
  \/ \E op \in queries, address \in Addresses \cup {NoAddress} : DnsAnswer(op, address)
  \/ \E p \in TcpPcbs :
       \/ TcpConnected(p)
       \/ \E enough \in BOOLEAN : TcpData(p, enough)
       \/ TcpClosed(p)
       \/ \E refused \in BOOLEAN : TcpError(p, refused)
       \/ TcpForgets(p)
  \/ EchoReply

Next == Key \/ NetworkEvent \/ SessionPoll \/ ReconPoll \/ Tick

Spec == Init /\ [][Next]_vars

\* The loop goes round and the clock, which a turn of the loop does not stop,
\* runs.  Nothing is assumed of the network or of the user.
FairSpec ==
  /\ Spec
  /\ WF_vars(NoKey) /\ WF_vars(SessionPoll) /\ WF_vars(ReconPoll) /\ SF_vars(Tick)
-----------------------------------------------------------------------------
(* What recon.c promises.                                                  *)

\* picopen_recon_history_get(): the i-th newest entry.
HistoryGet(i) == history.entry[(history.next + Capacity - 1 - i) % Capacity]

\* Operations are numbered and run one after the other, so the last one to have
\* ended is the current one or the one before.
LastEnded == IF Running THEN current.op - 1 ELSE current.op

\* The history lists the last operations, newest first, each of them once, and
\* agrees with what the screen shows of the current one, however often lwIP
\* reports to an operation that has already ended (recon.c:71-81).
HistoryInOrder ==
  /\ history.count = IF LastEnded < Capacity THEN LastEnded ELSE Capacity
  /\ \A i \in 0 .. (history.count - 1) : HistoryGet(i).op = LastEnded - i
  /\ Terminal => HistoryGet(0).result = current.state

\* Every operation that ends, at a key, in a callback or in the poll, is
\* passed on to the host inventory and the audit log once, in the same turn of
\* the loop (recon.c:285-310, os/src/main.c's loop).
ReportedOnce == phase = "key" => reported = LastEnded

\* No operation is left running by a turn of the loop that its session, as the
\* loop knows it, does not admit; a guarded one none without a session
\* (recon.c:292-298 with the session poll before it).
InScope ==
  phase = "key" /\ Running =>
    IF session.active THEN Admits(session.limit, current.target, current.address)
                      ELSE ~current.guarded

\* Every operation ends, whatever the network does (recon.c:299-303).
OperationEnds == Running ~> ~Running

\* What lwIP has reported to the current operation was about that operation.
OwnAnswers == current.op = 0 \/ current.from \subseteq {current.op}

\* Control blocks in use are those of the running operation, and finish() can
\* reach them.
Reachable ==
  /\ \A p \in TcpPcbs : net.pcbs[p].st \in {"connecting", "open", "peer_closed"} =>
       Running /\ net.tcp = p /\ net.pcbs[p].op = current.op
  /\ net.raws \subseteq {net.raw}

\* lwIP has two TCP blocks and one raw block to give.  None is lost by an
\* operation that hears only its own answers, however it fails or ends: a block
\* gets out of reach only in an operation that an earlier one's late answer has
\* reached (recon.c:59-69, :168-173, :222-239).
LeaksOnlyByOthers == [][Reachable /\ ~Reachable' => ~OwnAnswers']_vars

\* SCOPED_RECON_EVIDENCE_TEST.md:14, "each result screen shows the target,
\* resolved address": a numeric target is its own address.
ShownAddress ==
  current.op # 0 /\ current.target \in Addresses =>
    current.address \in {NoAddress, current.target}
=============================================================================
