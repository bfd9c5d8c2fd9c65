------------------------------- MODULE Kernel --------------------------------
(***************************************************************************)
(* The work queue (kernel/work_queue.c) with its one client, the heartbeat *)
(* of os/src/main.c, and the message bus (kernel/ipc.c).                   *)
(*                                                                         *)
(* Nothing else uses the queue yet.  So that it is ever contended, and     *)
(* full, the model adds work that runs once (OneShots), at most Arrivals   *)
(* of it in a turn of the main loop.                                       *)
(***************************************************************************)
EXTENDS Integers, Capability

CONSTANTS
  QueueCapacity,  \* PICOPEN_WORK_QUEUE_CAPACITY
  Budget,         \* of a picopen_work_run_due()
  Period,         \* the 5 s of a heartbeat, in ticks
  OneShots,       \* bound: other work
  Arrivals,       \* bound: how much of it a turn of the loop brings
  MaxLag,         \* bound: the ticks that a turn of the loop takes
  BusCapacity,    \* PICOPEN_IPC_MAX_SERVICES
  Services,       \* identifiers of services
  Asked           \* bound: the capabilities that services ask for

ASSUME KernelAssumption ==
  /\ QueueCapacity \in Nat \ {0} /\ Budget \in Nat \ {0} /\ Period \in Nat \ {0}
  /\ Arrivals \in Nat /\ MaxLag \in Nat /\ BusCapacity \in Nat
  /\ "heartbeat" \notin OneShots /\ "none" \notin OneShots
  /\ Asked \subseteq Capabilities

VARIABLES
  items,    \* queue->items: what is active, due how many ticks after now_ms
  scanAt,       \* index of the scan, -1 when no picopen_work_run_due() runs
  ran,      \* completed
  callback, \* the callback that is running
  lag,      \* the ticks since the loop took now_ms
  arrived,  \* what this turn has brought of OneShots
  bus,      \* bus->services: the capability that each registered one requires
  handled   \* history: the last request that reached a handler

queueVars == <<items, scanAt, ran, callback, lag, arrived>>
busVars == <<bus, handled>>
kernelVars == <<queueVars, busVars>>

Slots == 0 .. QueueCapacity - 1
Free == [work |-> "none", due |-> 0]
Works == OneShots \union {"heartbeat"}
Waits == 0 .. Period + MaxLag

FreeSlots == {i \in Slots : items[i] = Free}

KernelTypeOK ==
  /\ items \in [Slots -> [work : Works, due : Waits] \union {Free}]
  /\ scanAt \in -1 .. QueueCapacity /\ ran \in 0 .. Budget
  /\ callback \in Works \union {"none"}
  /\ lag \in 0 .. MaxLag /\ arrived \in 0 .. Arrivals

-----------------------------------------------------------------------------
(* The work queue *)

\* picopen_work_schedule, wait ticks from now, which fails when all is taken
Schedule(work, wait) ==
  \/ FreeSlots = {} /\ UNCHANGED items
  \/ \E i \in FreeSlots :
       /\ \A j \in FreeSlots : i <= j
       /\ items' = [items EXCEPT ![i] = [work |-> work, due |-> lag + wait]]

\* main() schedules the first heartbeat at once.
QueueInit ==
  /\ items = [i \in Slots |-> IF i = 0 THEN [work |-> "heartbeat", due |-> 0] ELSE Free]
  /\ scanAt = -1 /\ ran = 0 /\ callback = "none" /\ lag = 0 /\ arrived = 0

Submit(work) ==
  /\ scanAt = -1 /\ arrived < Arrivals
  /\ \E wait \in 0 .. 1 : Schedule(work, wait)
  /\ arrived' = arrived + 1
  /\ UNCHANGED <<scanAt, ran, callback, lag, busVars>>

\* The loop calls picopen_work_run_due with the now_ms that it took at its head.
RunDue ==
  /\ scanAt = -1
  /\ scanAt' = 0 /\ ran' = 0
  /\ UNCHANGED <<items, callback, lag, arrived, busVars>>

Due(i) == items[i] # Free /\ items[i].due = 0

Skip ==
  /\ scanAt \in Slots /\ ran < Budget /\ callback = "none"
  /\ ~Due(scanAt)
  /\ scanAt' = scanAt + 1
  /\ UNCHANGED <<items, ran, callback, lag, arrived, busVars>>

\* Mutant: the slot is freed when the callback has returned.
StartKept ==
  /\ scanAt \in Slots /\ ran < Budget /\ callback = "none"
  /\ Due(scanAt)
  /\ callback' = items[scanAt].work
  /\ UNCHANGED <<items, scanAt, ran, lag, arrived, busVars>>

\* The slot is free before the callback runs.
Start ==
  /\ scanAt \in Slots /\ ran < Budget /\ callback = "none"
  /\ Due(scanAt)
  /\ items' = [items EXCEPT ![scanAt] = Free]
  /\ callback' = items[scanAt].work
  /\ UNCHANGED <<scanAt, ran, lag, arrived, busVars>>

\* heartbeat() schedules itself again, from the time that it is then, and does
\* not look whether that succeeds.
Return ==
  /\ callback # "none"
  /\ IF callback = "heartbeat" THEN Schedule("heartbeat", Period) ELSE UNCHANGED items
  /\ callback' = "none" /\ ran' = ran + 1 /\ scanAt' = scanAt + 1
  /\ UNCHANGED <<lag, arrived, busVars>>

\* Mutant: the time is taken once, before the loop.
TurnStale ==
  /\ scanAt = QueueCapacity \/ (scanAt \in Slots /\ ran = Budget)
  /\ scanAt' = -1 /\ ran' = 0 /\ lag' = 0 /\ arrived' = 0
  /\ UNCHANGED <<items, callback, busVars>>

\* The next turn of the loop takes the time anew.
Turn ==
  /\ scanAt = QueueCapacity \/ (scanAt \in Slots /\ ran = Budget)
  /\ items' = [i \in Slots |->
       IF items[i] = Free THEN Free
       ELSE [items[i] EXCEPT !.due = IF @ > lag THEN @ - lag ELSE 0]]
  /\ scanAt' = -1 /\ ran' = 0 /\ lag' = 0 /\ arrived' = 0
  /\ UNCHANGED <<callback, busVars>>

TimePasses ==
  /\ lag < MaxLag
  /\ lag' = lag + 1
  /\ UNCHANGED <<items, scanAt, ran, callback, arrived, busVars>>

QueueStep == RunDue \/ Skip \/ Start \/ Return \/ Turn

-----------------------------------------------------------------------------
(* The message bus *)

Needs == Asked \union {"nothing"}
Unregistered == "unregistered"

\* picopen_ipc_register, by a service that starts
Register(name, need) ==
  /\ bus' = IF bus[name] # Unregistered \/
               Cardinality({s \in Services : bus[s] # Unregistered}) >= BusCapacity
            THEN bus ELSE [bus EXCEPT ![name] = need]
  /\ UNCHANGED <<queueVars, handled>>

\* A request that a handler has not seen
Unhandled == [name |-> "none", engaged |-> FALSE, confirmed |-> FALSE]

BusInit == bus = [s \in Services |-> Unregistered] /\ handled = Unhandled

Allowed(need, request) ==
  need = "nothing" \/ Authorize(ShellGrants, request.engaged, need, request.confirmed)

\* picopen_ipc_dispatch: a request that is malformed, for no service, or denied
\* reaches none; what the handler makes of it is its own affair.
Dispatch(request, wellFormed) ==
  /\ handled' = IF /\ wellFormed /\ bus[request.name] # Unregistered
                   /\ Allowed(bus[request.name], request)
                THEN request ELSE handled
  /\ UNCHANGED <<queueVars, bus>>

BusNext ==
  \E name \in Services :
    \/ \E need \in Needs : Register(name, need)
    \/ \E engaged, confirmed, wellFormed \in BOOLEAN :
         Dispatch([name |-> name, engaged |-> engaged, confirmed |-> confirmed],
                  wellFormed)

-----------------------------------------------------------------------------
KernelInit == QueueInit /\ BusInit

QueueNext == QueueStep \/ TimePasses \/ \E work \in OneShots : Submit(work)

KernelNext == QueueNext \/ BusNext

\* The loop of main() never stops, and time passes meanwhile.
KernelFairness == WF_kernelVars(QueueStep) /\ WF_kernelVars(TimePasses)

KernelSpec == KernelInit /\ [][KernelNext]_kernelVars /\ KernelFairness

-----------------------------------------------------------------------------
(* Properties *)

Holders == {i \in Slots : items[i].work = "heartbeat"}

\* The heartbeat keeps itself going: it is in the queue once, or running and
\* sure of a place to put itself back, however full other work has made the
\* queue.  Nothing would start it again, and heartbeat() does not look whether
\* picopen_work_schedule() succeeds (os/src/main.c:53).
HeartbeatKept ==
  IF callback = "heartbeat" THEN Holders = {} /\ FreeSlots # {}
  ELSE \E i \in Slots : Holders = {i}

\* As long as the queue is scanned the heartbeat does not fall silent, although
\* it may stand behind other work in the scan and the budget of a scan is limited
\* ("The OS then prints a heartbeat every five seconds",
\* docs/GETTING_STARTED.md:143).
HeartbeatGoesOn == scanAt = 0 ~> callback = "heartbeat"

\* What last reached a service, the service as it is registered now would still
\* admit: nobody changes what is asked of callers under a name that is taken.
OnlyAuthorized ==
  handled # Unhandled => Allowed(bus[handled.name], handled)
=============================================================================
