----------------------------- MODULE CoreProofs ------------------------------
(***************************************************************************)
(* Proofs about Image, Kernel, Sd and Devices.  Each part has an inductive *)
(* invariant that adds to its properties what holds between two steps of a *)
(* call; that a step preserves it is proved action by action.              *)
(***************************************************************************)
EXTENDS Image, Kernel, Sd, Devices, TLAPS

-----------------------------------------------------------------------------
(* Validation of the image *)

ImageInv ==
  /\ manifest \in Manifests
  /\ checked /\ verdict = "none" => Bounded
  /\ hashed # {} => hashed = Payload /\ Bounded
  /\ verdict = "valid" => hashed # {} /\ manifest.reset \in Payload
  /\ entered # -1 => entered = manifest.reset /\ verdict = "valid"

\* A payload within its bounds lies in the slot, behind the manifest.
LEMMA PayloadInSlot ==
  ASSUME manifest \in Manifests, Bounded
  PROVE  Payload \subseteq PayloadOffset .. SlotSize - 1
  BY ImageAssumption DEF Manifests, Bounded, Payload, Offsets

\* No step of the validation breaks its invariant.
LEMMA ImageInvStep == ImageInv /\ [ImageNext]_imageVars => ImageInv'
<1> SUFFICES ASSUME ImageInv, [ImageNext]_imageVars PROVE ImageInv'
  OBVIOUS
<1> USE DEF ImageInv
<1>1. CASE ValidateHeader
  BY <1>1 DEF ValidateHeader, Bounded, Payload, EarlyFaults, LateFaults
<1>2. CASE Hash
  BY <1>2 DEF Hash, Bounded, Payload, DigestFaults
<1>3. CASE ValidateVectors
  <2> manifest' = manifest /\ hashed' = hashed /\ checked' = checked /\ entered' = entered
    BY <1>3 DEF ValidateVectors
  <2>1. Bounded' = Bounded /\ Payload' = Payload
    BY DEF Bounded, Payload
  <2>2. verdict' \in {"valid", "bad-bounds"} /\ entered = -1 /\ hashed # {}
    BY <1>3 DEF ValidateVectors
  <2>3. verdict' = "valid" => manifest.reset \in Payload
    BY <1>3, ImageAssumption DEF ValidateVectors, Payload, Manifests, Offsets
  <2> QED
    BY <2>1, <2>2, <2>3
<1>4. CASE ChainImage
  BY <1>4 DEF ChainImage, Bounded, Payload
<1>5. CASE UNCHANGED imageVars
  BY <1>5 DEF imageVars, Bounded, Payload
<1> QED
  BY <1>1, <1>2, <1>3, <1>4, <1>5 DEF ImageNext

\* What is branched to has been hashed and lies in the slot behind the manifest,
\* for every size of the slot and of the manifest and whatever a header states
\* of the payload's place and size (image_validator.c:61-66, 107-128).
THEOREM EntersWhatIsHashedHolds == ImageSpec => []EntersWhatIsHashed
<1>1. ImageInit => ImageInv
  BY DEF ImageInit, ImageInv
<1>2. ImageInv => EntersWhatIsHashed
  BY PayloadInSlot DEF ImageInv, EntersWhatIsHashed
<1> QED
  BY <1>1, <1>2, ImageInvStep, PTL DEF ImageSpec

-----------------------------------------------------------------------------
(* The work queue *)

Item == [work : Works, due : Waits]

\* A callback runs from a slot that has been freed, within the budget.
CallbackAt == callback # "none" => scanAt \in Slots /\ ran < Budget /\ items[scanAt] = Free

QueueInv == KernelTypeOK /\ CallbackAt /\ HeartbeatKept

\* A free slot is told from every item by its work.
LEMMA FreeIsNoItem == Free \notin Item /\ Free.work = "none" /\ "none" \notin Works
BY KernelAssumption DEF Free, Item, Works

\* Scheduling keeps the items well formed and fills one free slot, if there is
\* one.
LEMMA Scheduled ==
  ASSUME KernelTypeOK, NEW work \in Works, NEW wait \in 0 .. Period, Schedule(work, wait)
  PROVE  /\ items' \in [Slots -> Item \union {Free}]
         /\ \/ FreeSlots = {} /\ items' = items
            \/ \E i \in FreeSlots : \E item \in Item :
                 item.work = work /\ items' = [items EXCEPT ![i] = item]
<1>1. CASE FreeSlots = {} /\ UNCHANGED items
  BY <1>1 DEF KernelTypeOK, Item
<1>2. ASSUME NEW i \in FreeSlots,
             items' = [items EXCEPT ![i] = [work |-> work, due |-> lag + wait]]
      PROVE  /\ items' \in [Slots -> Item \union {Free}]
             /\ \E j \in FreeSlots : \E item \in Item :
                  item.work = work /\ items' = [items EXCEPT ![j] = item]
  <2> DEFINE item == [work |-> work, due |-> lag + wait]
  <2>1. lag + wait \in Waits
    BY KernelAssumption DEF KernelTypeOK, Waits
  <2>2. item \in Item /\ item.work = work
    BY <2>1 DEF Item
  <2>3. i \in Slots
    BY DEF FreeSlots
  <2>4. items' = [items EXCEPT ![i] = item]
    BY <1>2
  <2> HIDE DEF item
  <2>5. items' \in [Slots -> Item \union {Free}]
    BY <2>2, <2>3, <2>4 DEF KernelTypeOK, Item
  <2> QED
    BY <2>2, <2>4, <2>5
<1> QED
  BY <1>1, <1>2 DEF Schedule

\* Other work takes no place that is not free and leaves the one heartbeat where
\* it is.
LEMMA OneShotKeeps ==
  ASSUME QueueInv, callback = "none", NEW work \in OneShots, NEW wait \in 0 .. Period,
         Schedule(work, wait)
  PROVE  \E i \in Slots : Holders' = {i}
<1>1. work \in Works /\ work # "heartbeat"
  BY KernelAssumption DEF Works
<1>2. PICK h \in Slots : Holders = {h}
  BY DEF QueueInv, HeartbeatKept
<1>3. CASE FreeSlots = {} /\ items' = items
  BY <1>2, <1>3 DEF Holders
<1>4. ASSUME NEW i \in FreeSlots, NEW item \in Item, item.work = work,
             items' = [items EXCEPT ![i] = item]
      PROVE  Holders' = {h}
  <2>1. i \in Slots /\ items[i].work = "none" /\ i # h
    BY <1>2, FreeIsNoItem DEF FreeSlots, Holders
  <2>2. \A j \in Slots : items'[j] = IF j = i THEN item ELSE items[j]
    BY <1>4, <2>1 DEF QueueInv, KernelTypeOK
  <2> QED
    BY <1>1, <1>2, <1>4, <2>1, <2>2 DEF Holders
<1> QED
  BY <1>1, <1>2, <1>3, <1>4, Scheduled DEF QueueInv

\* The heartbeat finds its place again: the slot that it ran from is free.
LEMMA HeartbeatComesBack ==
  ASSUME QueueInv, callback = "heartbeat", Schedule("heartbeat", Period)
  PROVE  \E i \in Slots : Holders' = {i}
<1>1. Holders = {} /\ FreeSlots # {}
  BY DEF QueueInv, HeartbeatKept
<1>2. PICK i \in FreeSlots, item \in Item :
        item.work = "heartbeat" /\ items' = [items EXCEPT ![i] = item]
  BY <1>1, Scheduled, KernelAssumption DEF QueueInv, Works
<1>3. i \in Slots /\ \A j \in Slots : items'[j] = IF j = i THEN item ELSE items[j]
  BY <1>2 DEF QueueInv, KernelTypeOK, FreeSlots
<1>4. Holders' = {i}
  BY <1>1, <1>2, <1>3 DEF Holders
<1> QED
  BY <1>3, <1>4

LEMMA QueueInvInit == KernelInit => QueueInv
<1> SUFFICES ASSUME KernelInit PROVE QueueInv
  OBVIOUS
<1>1. 0 \in Slots /\ 0 \in Waits /\ "heartbeat" \in Works /\ -1 \in -1 .. QueueCapacity
  BY KernelAssumption DEF Slots, Waits, Works
<1>2. KernelTypeOK
  BY <1>1, KernelAssumption DEF KernelInit, QueueInit, KernelTypeOK
<1>3. CallbackAt
  BY DEF KernelInit, QueueInit, CallbackAt
<1>4. Holders = {0}
  BY <1>1 DEF KernelInit, QueueInit, Holders, Free
<1>5. callback # "heartbeat"
  BY DEF KernelInit, QueueInit
<1> QED
  BY <1>1, <1>2, <1>3, <1>4, <1>5 DEF QueueInv, HeartbeatKept

LEMMA QueueInvStep == QueueInv /\ [KernelNext]_kernelVars => QueueInv'
<1> SUFFICES ASSUME QueueInv, [KernelNext]_kernelVars PROVE QueueInv'
  OBVIOUS
<1> USE KernelAssumption
<1> Free \notin Item /\ Free.work = "none" /\ "none" \notin Works
  BY FreeIsNoItem
<1>1. ASSUME NEW work \in OneShots, Submit(work) PROVE QueueInv'
  <2>1. PICK wait \in 0 .. 1 : Schedule(work, wait)
    BY <1>1 DEF Submit
  <2>2. wait \in 0 .. Period /\ work \in Works
    BY DEF Works
  <2>3. callback = "none"
    BY <1>1 DEF Submit, QueueInv, CallbackAt, Slots
  <2>4. \E i \in Slots : Holders' = {i}
    BY <2>1, <2>2, <2>3, OneShotKeeps
  <2>5. items' \in [Slots -> Item \union {Free}]
    BY <2>1, <2>2, Scheduled DEF QueueInv
  <2>6. KernelTypeOK'
    BY <1>1, <2>5 DEF Submit, QueueInv, KernelTypeOK, Item
  <2>7. callback' = "none"
    BY <1>1, <2>3 DEF Submit
  <2> QED
    BY <2>4, <2>6, <2>7 DEF QueueInv, HeartbeatKept, CallbackAt
<1>2. CASE RunDue
  <2>1. callback = "none"
    BY <1>2 DEF RunDue, QueueInv, CallbackAt, Slots
  <2>2. KernelTypeOK'
    BY <1>2 DEF RunDue, QueueInv, KernelTypeOK
  <2> QED
    BY <1>2, <2>1, <2>2 DEF RunDue, QueueInv, HeartbeatKept, CallbackAt, Holders, FreeSlots
<1>3. CASE Skip
  <2>1. KernelTypeOK'
    BY <1>3 DEF Skip, QueueInv, KernelTypeOK, Slots
  <2> QED
    BY <1>3, <2>1 DEF Skip, QueueInv, HeartbeatKept, CallbackAt, Holders, FreeSlots
<1>4. CASE Start
  <2>1. scanAt \in Slots /\ items[scanAt] \in Item /\ callback' = items[scanAt].work
    BY <1>4 DEF Start, Due, QueueInv, KernelTypeOK, Item
  <2>2. callback' \in Works
    BY <2>1 DEF Item
  <2>3. \A j \in Slots : items'[j] = IF j = scanAt THEN Free ELSE items[j]
    BY <1>4 DEF Start, QueueInv, KernelTypeOK
  <2>4. KernelTypeOK'
    BY <1>4, <2>2 DEF Start, QueueInv, KernelTypeOK
  <2>5. CallbackAt' /\ FreeSlots' # {}
    BY <1>4, <2>1, <2>3 DEF Start, CallbackAt, FreeSlots
  <2>6. PICK h \in Slots : Holders = {h}
    BY <1>4 DEF Start, QueueInv, HeartbeatKept
  <2>7. CASE h = scanAt
    BY <2>1, <2>3, <2>4, <2>5, <2>6, <2>7 DEF QueueInv, HeartbeatKept, Holders
  <2>8. CASE h # scanAt
    <3>1. callback' # "heartbeat"
      BY <2>1, <2>6, <2>8 DEF Holders
    <3>2. Holders' = {h}
      BY <2>3, <2>6, <2>8 DEF Holders
    <3> QED
      BY <2>4, <2>5, <3>1, <3>2 DEF QueueInv, HeartbeatKept
  <2> QED
    BY <2>7, <2>8
<1>5. CASE Return
  <2>1. callback' = "none"
    BY <1>5 DEF Return
  <2>2. \E i \in Slots : Holders' = {i}
    <3>1. CASE callback = "heartbeat"
      BY <1>5, <3>1, HeartbeatComesBack DEF Return
    <3>2. CASE callback # "heartbeat"
      BY <1>5, <3>2 DEF Return, QueueInv, HeartbeatKept, Holders
    <3> QED
      BY <3>1, <3>2
  <2>3. items' \in [Slots -> Item \union {Free}]
    <3>1. CASE callback = "heartbeat"
      <4>1. Period \in 0 .. Period /\ "heartbeat" \in Works
        BY DEF Works
      <4> QED
        BY <1>5, <3>1, <4>1, Scheduled DEF Return, QueueInv
    <3>2. CASE callback # "heartbeat"
      BY <1>5, <3>2 DEF Return, QueueInv, KernelTypeOK, Item
    <3> QED
      BY <3>1, <3>2
  <2>4. KernelTypeOK'
    BY <1>5, <2>3 DEF Return, QueueInv, CallbackAt, KernelTypeOK, Item, Slots
  <2> QED
    BY <2>1, <2>2, <2>4 DEF QueueInv, HeartbeatKept, CallbackAt
<1>6. CASE Turn
  <2>1. callback = "none"
    BY <1>6 DEF Turn, QueueInv, CallbackAt, KernelTypeOK, Slots
  <2>2. \A j \in Slots :
          /\ items'[j] \in Item \union {Free}
          /\ items'[j].work = items[j].work
    <3> TAKE j \in Slots
    <3>1. CASE items[j] = Free
      BY <1>6, <3>1 DEF Turn
    <3>2. CASE items[j] # Free
      <4>1. items[j] \in Item /\ lag \in 0 .. MaxLag
        BY <3>2 DEF QueueInv, KernelTypeOK, Item
      <4>2. items'[j] = [items[j] EXCEPT !.due =
                           IF items[j].due > lag THEN items[j].due - lag ELSE 0]
        BY <1>6, <3>2 DEF Turn
      <4> QED
        BY <4>1, <4>2 DEF Item, Waits
    <3> QED
      BY <3>1, <3>2
  <2>3. items' \in [Slots -> Item \union {Free}]
    BY <1>6, <2>2 DEF Turn
  <2>4. KernelTypeOK'
    BY <1>6, <2>3 DEF Turn, QueueInv, KernelTypeOK, Item
  <2>5. Holders' = Holders
    BY <2>2 DEF Holders
  <2> QED
    BY <1>6, <2>1, <2>4, <2>5 DEF Turn, QueueInv, HeartbeatKept, CallbackAt
<1>7. CASE TimePasses
  <2>1. KernelTypeOK'
    BY <1>7 DEF TimePasses, QueueInv, KernelTypeOK
  <2> QED
    BY <1>7, <2>1 DEF TimePasses, QueueInv, HeartbeatKept, CallbackAt, Holders, FreeSlots
<1>8. CASE UNCHANGED queueVars
  BY <1>8 DEF queueVars, QueueInv, KernelTypeOK, HeartbeatKept, CallbackAt, Holders, FreeSlots
<1>9. ASSUME BusNext PROVE UNCHANGED queueVars
  BY <1>9 DEF BusNext, Register, Dispatch
<1> QED
  BY <1>1, <1>2, <1>3, <1>4, <1>5, <1>6, <1>7, <1>8, <1>9
     DEF KernelNext, QueueNext, QueueStep, kernelVars

\* The queue's variables keep their types.
THEOREM KernelTypes == KernelSpec => []KernelTypeOK
<1>1. QueueInv => KernelTypeOK
  BY DEF QueueInv
<1> QED
  BY <1>1, QueueInvInit, QueueInvStep, PTL DEF KernelSpec

\* The heartbeat is never lost, for queues and budgets of any size and under
\* any amount of other work.
THEOREM HeartbeatKeptHolds == KernelSpec => []HeartbeatKept
<1>1. QueueInv => HeartbeatKept
  BY DEF QueueInv
<1> QED
  BY <1>1, QueueInvInit, QueueInvStep, PTL DEF KernelSpec

-----------------------------------------------------------------------------
(* The message bus *)

BusInv ==
  /\ bus \in [Services -> Needs \union {Unregistered}]
  /\ handled # Unhandled =>
       /\ handled.name \in Services /\ bus[handled.name] # Unregistered
       /\ Allowed(bus[handled.name], handled)

LEMMA BusInvStep == BusInv /\ [KernelNext]_kernelVars => BusInv'
<1> SUFFICES ASSUME BusInv, [KernelNext]_kernelVars PROVE BusInv'
  OBVIOUS
<1>1. CASE UNCHANGED busVars
  BY <1>1 DEF busVars, BusInv, Allowed
<1>2. ASSUME NEW name \in Services, NEW need \in Needs, Register(name, need) PROVE BusInv'
  <2>1. CASE bus' = bus
    BY <1>2, <2>1 DEF Register, BusInv, Allowed
  <2>2. CASE bus[name] = Unregistered /\ bus' = [bus EXCEPT ![name] = need]
    <3>1. \A s \in Services : s # name => bus'[s] = bus[s]
      BY <2>2 DEF BusInv
    <3>2. handled # Unhandled => handled.name # name
      BY <2>2 DEF BusInv
    <3> QED
      BY <1>2, <2>2, <3>1, <3>2 DEF Register, BusInv, Allowed
  <2> QED
    BY <1>2, <2>1, <2>2 DEF Register
<1>3. ASSUME NEW name \in Services, NEW engaged \in BOOLEAN, NEW confirmed \in BOOLEAN,
             NEW wellFormed \in BOOLEAN,
             Dispatch([name |-> name, engaged |-> engaged, confirmed |-> confirmed], wellFormed)
      PROVE  BusInv'
  <2> DEFINE request == [name |-> name, engaged |-> engaged, confirmed |-> confirmed]
  <2>1. request.name = name
    OBVIOUS
  <2>2. bus' = bus /\ \/ handled' = handled
                      \/ /\ handled' = request /\ bus[request.name] # Unregistered
                         /\ Allowed(bus[request.name], request)
    BY <1>3 DEF Dispatch
  <2> HIDE DEF request
  <2> QED
    BY <2>1, <2>2 DEF BusInv, Allowed
<1>4. ASSUME NEW work \in OneShots, Submit(work) PROVE UNCHANGED busVars
  BY <1>4 DEF Submit
<1>5. ASSUME QueueStep \/ TimePasses PROVE UNCHANGED busVars
  BY <1>5 DEF QueueStep, RunDue, Skip, Start, Return, Turn, TimePasses
<1> QED
  BY <1>1, <1>2, <1>3, <1>4, <1>5 DEF KernelNext, QueueNext, BusNext, kernelVars

\* Whatever registers and asks in whatever order, what a service last handled
\* is what it admits; for every set of services and every size of the bus.
THEOREM OnlyAuthorizedHolds == KernelSpec => []OnlyAuthorized
<1>1. KernelInit => BusInv
  BY DEF KernelInit, BusInit, BusInv
<1>2. BusInv => OnlyAuthorized
  BY DEF BusInv, OnlyAuthorized
<1> QED
  BY <1>1, <1>2, BusInvStep, PTL DEF KernelSpec

-----------------------------------------------------------------------------
(* The SD driver *)

Identifying == {"idle", "condition", "init", "ocr"}
Open == transport \/ exchange \in {"boot", "partition", "read"}

\* A card that answers while sectors are read is the one that was identified,
\* and is addressed as the driver addresses it: a card that has come since is
\* not set up.
SameCard ==
  Open /\ InMode("ready") => inserted.id = opened /\ (wide <=> inserted.kind = "high capacity")

ClosedMeanwhile == exchange \in Identifying => ~transport
NothingYet == exchange \in {"boot", "partition"} => got = << >>
AtFirstSector == exchange = "boot" => wanted.first = 0

SdInv == SdTypeOK /\ SameCard /\ ClosedMeanwhile /\ NothingYet /\ AtFirstSector /\ ReadsWhatAsked

LEMMA SectorOfAddress ==
  ASSUME NEW a \in Nat, NEW b \in Nat, NEW S \in Nat \ {0}, a * S = b * S
  PROVE  a = b
<1>1. CASE a < b
  <2>1. a * S + S <= b * S
    <3>1. PICK d \in Nat : b = a + d /\ d >= 1
      BY <1>1
    <3>2. b * S = a * S + d * S
      BY <3>1
    <3>3. d * S >= S
      BY <3>1
    <3> QED
      BY <3>2, <3>3
  <2> QED
    BY <2>1
<1>2. CASE b < a
  <2>1. b * S + S <= a * S
    <3>1. PICK d \in Nat : a = b + d /\ d >= 1
      BY <1>2
    <3>2. a * S = b * S + d * S
      BY <3>1
    <3>3. d * S >= S
      BY <3>1
    <3> QED
      BY <3>2, <3>3
  <2> QED
    BY <2>1
<1> QED
  BY <1>1, <1>2

\* A card that is addressed as the driver thinks gives the sector asked for.
LEMMA GivenIsAsked ==
  ASSUME SdInv, Open, NEW lba \in Nat, NEW sector \in Given(lba)
  PROVE  /\ sector = lba /\ lba \in Lbas
         /\ inserted.id = opened /\ inserted.id \in 0 .. 1
<1>1. InMode("ready") /\ inserted.id = opened /\ (wide <=> inserted.kind = "high capacity")
  BY DEF Given, SdInv, SameCard
<1>2. inserted.id \in 0 .. 1
  BY <1>1 DEF InMode, SdInv, SdTypeOK, CardStates
<1>3. sector \in Lbas
  BY DEF Given
<1>4. PICK address \in Addresses(lba) :
        IF inserted.kind = "high capacity" THEN sector = address
        ELSE sector * SectorSize = address
  BY DEF Given
<1>5. CASE wide
  <2>1. Addresses(lba) = {lba}
    BY <1>5, Zenon DEF Addresses
  <2>2. sector = lba
    BY <1>1, <1>4, <1>5, <2>1
  <2> QED
    BY <1>1, <1>2, <1>3, <2>2
<1>6. CASE ~wide
  <2> DEFINE byte == lba * SectorSize
  <2>0. Addresses(lba) = IF byte > MaxAddress THEN {} ELSE {byte % (MaxAddress + 1)}
    BY <1>6, Zenon DEF Addresses
  <2>1. byte \in Nat /\ SectorSize \in Nat \ {0} /\ MaxAddress \in Nat
    BY SdAssumption
  <2>2. byte <= MaxAddress /\ address = byte % (MaxAddress + 1)
    <3> HIDE DEF byte
    <3>1. address \in Addresses(lba)
      BY <1>4
    <3>2. ~(byte > MaxAddress)
      BY <2>0, <3>1
    <3>3. Addresses(lba) = {byte % (MaxAddress + 1)}
      BY <2>0, <3>2
    <3> QED
      BY <2>1, <3>1, <3>2, <3>3
  <2>3. address = byte
    <3> HIDE DEF byte
    <3> QED
      BY <2>1, <2>2
  <2>4. sector * SectorSize = lba * SectorSize
    BY <1>1, <1>4, <1>6, <2>3
  <2>5. sector \in Nat
    BY <1>3, SdAssumption DEF Lbas
  <2> QED
    BY <1>1, <1>2, <1>3, <2>1, <2>4, <2>5, SectorOfAddress
<1> QED
  BY <1>1, <1>2, <1>3, <1>5, <1>6 DEF Lbas

\* What is read next is what comes next.
LEMMA NextSector ==
  ASSUME SdInv, Open, Reads(wanted.first + Len(got)), opened' = opened, wanted' = wanted
  PROVE  ReadsWhatAsked' /\ got' \in Seq([id : 0 .. 1, sector : Lbas])
<1> DEFINE lba == wanted.first + Len(got)
<1>1. got \in Seq([id : 0 .. 1, sector : Lbas]) /\ lba \in Nat /\ wanted.first \in Nat
  BY SdAssumption DEF SdInv, SdTypeOK, Lbas
<1>2. PICK sector \in Given(lba) : got' = Append(got, [id |-> inserted.id, sector |-> sector])
  BY DEF Reads
<1>3. sector = lba /\ lba \in Lbas /\ inserted.id = opened /\ inserted.id \in 0 .. 1
  <2> HIDE DEF lba
  <2> QED
    BY <1>1, <1>2, GivenIsAsked
<1>4. got' = Append(got, [id |-> opened, sector |-> wanted.first + Len(got)])
  BY <1>2, <1>3
<1>5. Len(got') = Len(got) + 1
  BY <1>1, <1>4
<1>6. ASSUME NEW i \in 1 .. Len(got')
      PROVE  got'[i] = [id |-> opened, sector |-> wanted.first + i - 1]
  <2>1. CASE i = Len(got) + 1
    BY <1>1, <1>4, <2>1
  <2>2. CASE i # Len(got) + 1
    <3>1. i \in 1 .. Len(got) /\ got'[i] = got[i]
      BY <1>1, <1>4, <1>5, <2>2
    <3> QED
      BY <3>1 DEF SdInv, ReadsWhatAsked
  <2> QED
    BY <2>1, <2>2
<1>7. [id |-> inserted.id, sector |-> sector] \in [id : 0 .. 1, sector : Lbas]
  BY <1>3
<1> QED
  BY <1>1, <1>2, <1>6, <1>7 DEF ReadsWhatAsked

\* Nothing has been read.
LEMMA NothingRead ==
  ASSUME NEW sectors, sectors = << >>
  PROVE  sectors \in Seq([id : 0 .. 1, sector : Lbas]) /\ 1 .. Len(sectors) = {}
<1>1. Len(sectors) = 0
  OBVIOUS
<1> QED
  BY <1>1

LEMMA NothingWrong == ASSUME got = << >> PROVE ReadsWhatAsked
BY NothingRead DEF ReadsWhatAsked

LEMMA SdInvInit == SdInit => SdInv
<1> SUFFICES ASSUME SdInit PROVE SdInv
  OBVIOUS
<1>1. got \in Seq([id : 0 .. 1, sector : Lbas]) /\ ReadsWhatAsked
  BY NothingRead, NothingWrong DEF SdInit
<1>2. 0 \in Lbas
  BY SdAssumption DEF Lbas
<1>3. wanted \in [first : Lbas, count : 0 .. MaxBlocks \union {1}]
  BY <1>2 DEF SdInit
<1>4. SdTypeOK
  <2>1. opened \in 0 .. 1 /\ nextId \in 0 .. 1 /\ retries \in Nat
    BY DEF SdInit
  <2>2. softwareSpi \in BOOLEAN /\ transport \in BOOLEAN /\ wide \in BOOLEAN
          /\ version2 \in BOOLEAN
    BY DEF SdInit
  <2>3. inserted = EmptySlot /\ exchange = "none"
    BY DEF SdInit
  <2> QED
    BY <1>1, <1>3, <2>1, <2>2, <2>3 DEF SdTypeOK
<1> QED
  BY <1>1, <1>4 DEF SdInit, SdInv, SameCard, Open, ClosedMeanwhile, NothingYet, AtFirstSector

\* A call that ends without the card keeps the rest.
LEMMA GivingUp ==
  ASSUME SdInv, GiveUp, inserted' \in CardStates \union {EmptySlot}, nextId' = nextId
  PROVE  SdInv'
<1>1. SdTypeOK'
  BY DEF SdInv, GiveUp, SdTypeOK
<1>2. ~Open' /\ exchange' = "none"
  BY DEF GiveUp, Open
<1>3. ReadsWhatAsked'
  BY DEF SdInv, ReadsWhatAsked, GiveUp
<1> QED
  BY <1>1, <1>2, <1>3 DEF SdInv, SameCard, ClosedMeanwhile, NothingYet, AtFirstSector, Identifying

\* A step of the identification that reads nothing
LEMMA StillIdentifying ==
  ASSUME SdInv, inserted' \in CardStates \union {EmptySlot}, nextId' = nextId,
         transport' = FALSE, softwareSpi' \in BOOLEAN, version2' \in BOOLEAN, wide' \in BOOLEAN,
         exchange' \in Identifying, retries' \in Nat,
         UNCHANGED <<wanted, got, opened>>
  PROVE  SdInv'
<1>1. SdTypeOK'
  BY DEF SdInv, SdTypeOK, Identifying
<1>2. ~Open' /\ exchange' \notin {"boot", "partition"}
  BY DEF Open, Identifying
<1>3. ReadsWhatAsked'
  BY DEF SdInv, ReadsWhatAsked
<1> QED
  BY <1>1, <1>2, <1>3 DEF SdInv, SameCard, ClosedMeanwhile, NothingYet, AtFirstSector

\* A card that has heard a command is still a card.
LEMMA ModeChanges ==
  ASSUME SdInv, NEW mode \in {"idle", "ready"}, NEW hears \in BOOLEAN,
         hears => inserted # EmptySlot,
         IF hears THEN Becomes(mode) ELSE UNCHANGED slotVars
  PROVE  inserted' \in CardStates \union {EmptySlot} /\ nextId' = nextId
<1>1. CASE hears
  BY <1>1 DEF Becomes, SdInv, SdTypeOK, CardStates
<1>2. CASE ~hears
  BY <1>2 DEF slotVars, SdInv, SdTypeOK
<1> QED
  BY <1>1, <1>2

LEMMA SdInvStep == SdInv /\ [SdNext]_sdVars => SdInv'
<1> SUFFICES ASSUME SdInv, [SdNext]_sdVars PROVE SdInv'
  OBVIOUS
<1>t. /\ inserted \in CardStates \union {EmptySlot} /\ nextId \in 0 .. 1
      /\ softwareSpi \in BOOLEAN /\ transport \in BOOLEAN /\ wide \in BOOLEAN
      /\ version2 \in BOOLEAN /\ retries \in Nat /\ opened \in 0 .. 1
      /\ got \in Seq([id : 0 .. 1, sector : Lbas])
      /\ wanted \in [first : Lbas, count : 0 .. MaxBlocks \union {1}]
  BY DEF SdInv, SdTypeOK
<1>1. ASSUME NEW kind \in Kinds, InsertCard(kind) PROVE SdInv'
  <2>1. inserted' = [id |-> nextId, kind |-> kind, mode |-> "native"]
    BY <1>1 DEF InsertCard
  <2>2. inserted' \in CardStates /\ ~InMode("ready")'
    BY <1>t, <2>1 DEF CardStates, InMode
  <2>3. SdTypeOK'
    BY <1>1, <2>2, <1>t DEF InsertCard, SdInv, SdTypeOK
  <2> QED
    BY <1>1, <2>2, <2>3 DEF InsertCard, SdInv, SameCard, ClosedMeanwhile, NothingYet,
                            AtFirstSector, ReadsWhatAsked
<1>2. CASE RemoveCard
  <2>1. SdTypeOK' /\ ~InMode("ready")'
    BY <1>2 DEF RemoveCard, SdInv, SdTypeOK, InMode
  <2> QED
    BY <1>2, <2>1 DEF RemoveCard, SdInv, SameCard, ClosedMeanwhile, NothingYet, AtFirstSector,
                      ReadsWhatAsked
<1>3. CASE IdentifyCard
  <2>1. got' = << >> /\ exchange' = "idle" /\ transport' = FALSE
    BY <1>3 DEF IdentifyCard
  <2>2. got' \in Seq([id : 0 .. 1, sector : Lbas]) /\ ReadsWhatAsked'
    BY <2>1, NothingRead DEF ReadsWhatAsked
  <2>3. SdTypeOK'
    BY <1>3, <1>t, <2>1, <2>2 DEF IdentifyCard, slotVars, SdTypeOK
  <2> QED
    BY <2>1, <2>2, <2>3 DEF SdInv, SameCard, Open, ClosedMeanwhile, NothingYet, AtFirstSector
<1>4. CASE EnterIdle
  <2>1. PICK heard \in BOOLEAN, answered \in BOOLEAN :
          LET hears == heard /\ inserted # EmptySlot IN
          /\ IF hears THEN Becomes("idle") ELSE UNCHANGED slotVars
          /\ \/ /\ exchange' = "condition"
                /\ UNCHANGED <<softwareSpi, transport, wide, version2, retries, wanted, got,
                               opened>>
             \/ /\ retries' = retries + 1
                /\ UNCHANGED <<softwareSpi, transport, wide, version2, exchange, wanted, got,
                               opened>>
             \/ /\ softwareSpi' = TRUE /\ retries' = 0
                /\ UNCHANGED <<transport, wide, version2, exchange, wanted, got, opened>>
             \/ GiveUp
    BY <1>4 DEF EnterIdle
  <2>2. exchange = "idle" /\ transport = FALSE
    BY <1>4, <1>t DEF EnterIdle, SdInv, ClosedMeanwhile, Identifying
  <2>3. inserted' \in CardStates \union {EmptySlot} /\ nextId' = nextId
    BY <2>1, ModeChanges
  <2>4. CASE GiveUp
    BY <2>3, <2>4, GivingUp
  <2>5. CASE ~GiveUp
    <3>1. /\ transport' = transport /\ softwareSpi' \in {softwareSpi, TRUE}
          /\ exchange' \in {exchange, "condition"} /\ retries' \in {retries, retries + 1, 0}
          /\ UNCHANGED <<wide, version2, wanted, got, opened>>
      BY <2>1, <2>5
    <3>2. retries' \in Nat /\ exchange' \in Identifying
      BY <1>t, <2>2, <3>1 DEF Identifying
    <3>3. transport' = FALSE /\ softwareSpi' \in BOOLEAN
      BY <1>t, <2>2, <3>1
    <3> QED
      BY <1>t, <2>3, <3>1, <3>2, <3>3, StillIdentifying
  <2> QED
    BY <2>4, <2>5
<1>5. CASE CheckInterfaceCondition
  <2>1. exchange = "condition" /\ transport = FALSE /\ UNCHANGED slotVars
    BY <1>5, <1>t DEF CheckInterfaceCondition, SdInv, ClosedMeanwhile, Identifying
  <2>2. CASE GiveUp
    BY <1>t, <2>1, <2>2, GivingUp DEF slotVars
  <2>3. CASE ~GiveUp
    <3>1. /\ version2' \in BOOLEAN /\ exchange' = "init" /\ retries' = 0
          /\ UNCHANGED <<softwareSpi, transport, wide, wanted, got, opened>>
      BY <1>5, <2>3 DEF CheckInterfaceCondition
    <3> QED
      BY <1>t, <2>1, <3>1, StillIdentifying DEF slotVars, Identifying
  <2> QED
    BY <2>2, <2>3
<1>6. CASE WaitUntilReady
  <2>1. PICK hears \in BOOLEAN :
          /\ hears => inserted # EmptySlot
          /\ IF hears THEN Becomes("ready") ELSE UNCHANGED slotVars
          /\ \/ /\ exchange' = "ocr"
                /\ UNCHANGED <<softwareSpi, transport, wide, version2, retries, wanted, got,
                               opened>>
             \/ /\ retries' = retries + 1
                /\ UNCHANGED <<softwareSpi, transport, wide, version2, exchange, wanted, got,
                               opened>>
             \/ GiveUp
    <3>1. PICK heard \in BOOLEAN, answered \in BOOLEAN, busy \in BOOLEAN :
            LET hears == heard /\ (InMode("idle") \/ InMode("ready"))
                isReady == InMode("ready") \/
                           (~busy /\ (version2 \/ inserted.kind # "high capacity"))
            IN
            /\ IF hears /\ isReady THEN Becomes("ready") ELSE UNCHANGED slotVars
            /\ \/ /\ exchange' = "ocr"
                  /\ UNCHANGED <<softwareSpi, transport, wide, version2, retries, wanted, got,
                                 opened>>
               \/ /\ retries' = retries + 1
                  /\ UNCHANGED <<softwareSpi, transport, wide, version2, exchange, wanted, got,
                                 opened>>
               \/ GiveUp
      BY <1>6 DEF WaitUntilReady
    <3> DEFINE hears == heard /\ (InMode("idle") \/ InMode("ready"))
               isReady == InMode("ready") \/
                          (~busy /\ (version2 \/ inserted.kind # "high capacity"))
    <3>2. (hears /\ isReady) \in BOOLEAN
      OBVIOUS
    <3>3. hears => inserted # EmptySlot
      BY DEF InMode
    <3> QED
      BY <3>1, <3>2, <3>3
  <2>2. exchange = "init" /\ transport = FALSE
    BY <1>6, <1>t DEF WaitUntilReady, SdInv, ClosedMeanwhile, Identifying
  <2>3. inserted' \in CardStates \union {EmptySlot} /\ nextId' = nextId
    BY <2>1, ModeChanges
  <2>4. CASE GiveUp
    BY <2>3, <2>4, GivingUp
  <2>5. CASE ~GiveUp
    <3>1. /\ transport' = FALSE /\ softwareSpi' = softwareSpi /\ version2' = version2
          /\ wide' = wide /\ exchange' \in Identifying /\ retries' \in Nat
          /\ UNCHANGED <<wanted, got, opened>>
      BY <1>t, <2>1, <2>2, <2>5 DEF Identifying
    <3> QED
      BY <1>t, <2>3, <3>1, StillIdentifying
  <2> QED
    BY <2>4, <2>5
<1>7. CASE ReadOcr
  <2>1. UNCHANGED slotVars
    BY <1>7 DEF ReadOcr
  <2>2. CASE GiveUp
    BY <1>t, <2>1, <2>2, GivingUp DEF slotVars
  <2>3. CASE ~GiveUp
    <3>1. /\ InMode("ready") /\ wide' = (inserted.kind = "high capacity")
          /\ opened' = inserted.id /\ exchange' = "boot" /\ got' = << >>
          /\ wanted' = [first |-> 0, count |-> 1]
          /\ UNCHANGED <<softwareSpi, transport, version2, retries>>
      BY <1>7, <2>3 DEF ReadOcr
    <3>2. wide' \in BOOLEAN /\ opened' \in 0 .. 1
      BY <1>t, <3>1 DEF InMode, CardStates
    <3>3. wanted' \in [first : Lbas, count : 0 .. MaxBlocks \union {1}]
      <4>1. 0 \in Lbas
        BY SdAssumption DEF Lbas
      <4> QED
        BY <3>1, <4>1
    <3>4. got' \in Seq([id : 0 .. 1, sector : Lbas]) /\ ReadsWhatAsked'
      BY <3>1, NothingRead DEF ReadsWhatAsked
    <3>5. SdTypeOK'
      BY <1>t, <2>1, <3>1, <3>2, <3>3, <3>4 DEF SdTypeOK, slotVars
    <3>6. SameCard'
      BY <2>1, <3>1 DEF SameCard, slotVars, InMode
    <3>7. wanted'.first = 0
      BY <3>1
    <3> QED
      BY <3>1, <3>4, <3>5, <3>6, <3>7
         DEF SdInv, ClosedMeanwhile, Identifying, NothingYet, AtFirstSector
  <2> QED
    BY <2>2, <2>3
<1>8. ASSUME exchange \in {"boot", "partition"}, UNCHANGED slotVars,
             Reads(wanted.first), Ready, UNCHANGED wanted
      PROVE  SdInv'
  <2>1. Open /\ got = << >> /\ opened' = opened
    BY <1>8 DEF Open, SdInv, NothingYet, Ready
  <2>2. wanted.first + Len(got) = wanted.first
    BY <1>t, <2>1, SdAssumption DEF Lbas
  <2>3. ReadsWhatAsked' /\ got' \in Seq([id : 0 .. 1, sector : Lbas])
    BY <1>8, <2>1, <2>2, NextSector
  <2>4. SdTypeOK'
    BY <1>t, <1>8, <2>3 DEF SdTypeOK, Ready, slotVars
  <2>5. SameCard'
    BY <1>8, <2>1 DEF SdInv, SameCard, Ready, slotVars, InMode
  <2> QED
    BY <1>8, <2>3, <2>4, <2>5
       DEF SdInv, Ready, ClosedMeanwhile, Identifying, NothingYet, AtFirstSector
<1>9. CASE InspectBootSector
  <2>1. exchange = "boot" /\ UNCHANGED slotVars
    BY <1>9 DEF InspectBootSector
  <2>2. CASE Reads(0) /\ Ready /\ UNCHANGED wanted
    <3>1. wanted.first = 0
      BY <2>1 DEF SdInv, AtFirstSector
    <3> QED
      BY <1>8, <2>1, <2>2, <3>1
  <2>3. ASSUME NEW lba \in Lbas \ {0}, got' = << >>,
               wanted' = [first |-> lba, count |-> 1], exchange' = "partition",
               UNCHANGED <<softwareSpi, transport, wide, version2, retries, opened>>
        PROVE  SdInv'
    <3>1. wanted' \in [first : Lbas, count : 0 .. MaxBlocks \union {1}]
      BY <2>3
    <3>2. SdTypeOK'
      BY <1>t, <2>1, <2>3, <3>1 DEF SdTypeOK, slotVars
    <3>3. SameCard'
      BY <2>1, <2>3 DEF SdInv, SameCard, Open, slotVars, InMode
    <3> QED
      BY <2>3, <3>2, <3>3 DEF SdInv, ClosedMeanwhile, Identifying, NothingYet, AtFirstSector,
                              ReadsWhatAsked
  <2>4. CASE GiveUp
    BY <1>t, <2>1, <2>4, GivingUp DEF slotVars
  <2> QED
    BY <1>9, <2>2, <2>3, <2>4 DEF InspectBootSector
<1>10. CASE InspectPartition
  <2>1. exchange = "partition" /\ UNCHANGED slotVars
    BY <1>10 DEF InspectPartition
  <2>2. CASE GiveUp
    BY <1>t, <2>1, <2>2, GivingUp DEF slotVars
  <2> QED
    BY <1>8, <1>10, <2>1, <2>2 DEF InspectPartition
<1>11. ASSUME NEW first \in Lbas, NEW count \in 1 .. MaxBlocks, ReadBlocks(first, count)
       PROVE  SdInv'
  <2>1. /\ transport /\ exchange' = "read" /\ got' = << >>
        /\ wanted' = [first |-> first, count |-> count]
        /\ UNCHANGED <<slotVars, softwareSpi, transport, wide, version2, retries, opened>>
    BY <1>11 DEF ReadBlocks
  <2>2. wanted' \in [first : Lbas, count : 0 .. MaxBlocks \union {1}]
    BY <2>1, SdAssumption
  <2>3. SdTypeOK'
    BY <1>t, <2>1, <2>2 DEF SdTypeOK, slotVars
  <2>4. SameCard'
    BY <2>1 DEF SdInv, SameCard, Open, slotVars, InMode
  <2> QED
    BY <2>1, <2>3, <2>4 DEF SdInv, ClosedMeanwhile, Identifying, NothingYet, AtFirstSector,
                            ReadsWhatAsked
<1>12. CASE ReadNext
  <2>1. /\ exchange = "read" /\ UNCHANGED slotVars /\ exchange' \in {"none", "read"}
        /\ UNCHANGED <<softwareSpi, transport, wide, version2, retries, wanted, opened>>
    BY <1>12 DEF ReadNext
  <2>2. Open
    BY <2>1 DEF Open
  <2>3. ReadsWhatAsked' /\ got' \in Seq([id : 0 .. 1, sector : Lbas])
    <3>1. CASE Reads(wanted.first + Len(got))
      BY <2>1, <2>2, <3>1, NextSector
    <3>2. CASE UNCHANGED got
      BY <1>t, <2>1, <3>2 DEF SdInv, ReadsWhatAsked
    <3> QED
      BY <1>12, <3>1, <3>2 DEF ReadNext
  <2>4. SdTypeOK'
    BY <1>t, <2>1, <2>3 DEF SdTypeOK, slotVars
  <2>5. SameCard'
    BY <2>1, <2>2 DEF SdInv, SameCard, slotVars, InMode
  <2> QED
    BY <2>1, <2>3, <2>4, <2>5 DEF SdInv, ClosedMeanwhile, Identifying, NothingYet, AtFirstSector
<1>13. CASE Close
  BY <1>t, <1>13, GivingUp DEF Close, slotVars
<1>14. CASE UNCHANGED sdVars
  BY <1>14 DEF sdVars, SdInv, SdTypeOK, SameCard, Open, InMode, ClosedMeanwhile, NothingYet,
               AtFirstSector, ReadsWhatAsked
<1> QED
  BY <1>1, <1>2, <1>3, <1>4, <1>5, <1>6, <1>7, <1>9, <1>10, <1>11, <1>12, <1>13, <1>14 DEF SdNext

\* The driver's variables keep their types.
THEOREM SdTypes == SdSpec => []SdTypeOK
<1>1. SdInv => SdTypeOK
  BY DEF SdInv
<1> QED
  BY <1>1, SdInvInit, SdInvStep, PTL DEF SdSpec

\* Whatever cards come and go, a call reads the sectors it was asked for of the
\* card that was identified; for every size of addresses, sectors and calls and
\* any number of retries.
THEOREM ReadsWhatAskedHolds == SdSpec => []ReadsWhatAsked
<1>1. SdInv => ReadsWhatAsked
  BY DEF SdInv
<1> QED
  BY <1>1, SdInvInit, SdInvStep, PTL DEF SdSpec

-----------------------------------------------------------------------------
(* The board controller *)

DeviceNames == {"KEYBOARD", "BATTERY", "WIFI"}
DeviceStates == {"READY", "DOWN", "READY-LOCAL", "DISABLED"}
Radios == {"off", "error", "on"}
Knowledge == [keyboard : BOOLEAN, battery : BOOLEAN, reading : Nat]

DevicesTypeOK ==
  /\ known \in Knowledge /\ told \in Knowledge
  /\ table \in [DeviceNames -> DeviceStates]
  /\ radio \in Radios /\ lastRadio \in Radios
  /\ initialized \in BOOLEAN /\ starting \in BOOLEAN /\ stateChanged \in BOOLEAN
  /\ loop \in {"probe", "unfound", "keys", "radio", "health", "battery"}

\* The table says what has been told, whatever is known by now.
TableSays(devices, what, of) ==
  /\ devices \in [DeviceNames -> DeviceStates]
  /\ devices["KEYBOARD"] = UpOrDown(what.keyboard)
  /\ devices["BATTERY"] = UpOrDown(what.battery)
  /\ devices["WIFI"] = RadioState(of)

\* What differs from what has been told, is still to be told in this turn.
ToBeTold ==
  /\ loop \in {"keys", "radio", "health"} =>
       ~starting /\ told = known /\ known.keyboard = initialized
         /\ (known.battery => known.keyboard)
  /\ loop \in {"probe", "unfound"} => ~known.keyboard /\ ~known.battery /\ ~initialized
  /\ loop \in {"probe", "unfound"} /\ ~starting => told = known
  /\ loop = "battery" => known.keyboard /\ initialized
  /\ loop = "battery" /\ ~starting /\ ~stateChanged => told = known
  /\ starting => lastRadio = "off"

Origins == acted = "fifo" /\ measured = "battery"

DevicesInv == DevicesTypeOK /\ TableSays(table, told, lastRadio) /\ ToBeTold /\ Origins

LEMMA StatesOfDevices ==
  /\ \A is \in BOOLEAN : UpOrDown(is) \in DeviceStates
  /\ \A of \in Radios : RadioState(of) \in DeviceStates
  /\ RadioState("off") = "DISABLED"
BY DEF UpOrDown, RadioState, DeviceStates, Radios

\* Telling changes the two entries that it is about.
LEMMA TellingTells ==
  ASSUME NEW devices, NEW what \in Knowledge, NEW then \in Knowledge, NEW of,
         TableSays(devices, what, of)
  PROVE  TableSays(Synchronized(devices, then), then, of)
<1> DEFINE k == UpOrDown(then.keyboard)
           b == UpOrDown(then.battery)
           both == [[devices EXCEPT !["KEYBOARD"] = k] EXCEPT !["BATTERY"] = b]
<1>1. k \in DeviceStates /\ b \in DeviceStates
  BY StatesOfDevices DEF Knowledge
<1>2. Synchronized(devices, then) = both
  BY Zenon DEF Synchronized, SetState
<1>3. devices \in [DeviceNames -> DeviceStates] /\ devices["WIFI"] = RadioState(of)
  BY DEF TableSays
<1> HIDE DEF k, b
<1>4. /\ both \in [DeviceNames -> DeviceStates]
      /\ both["KEYBOARD"] = k /\ both["BATTERY"] = b /\ both["WIFI"] = devices["WIFI"]
  BY <1>1, <1>3 DEF DeviceNames
<1> HIDE DEF both
<1> QED
  BY <1>2, <1>3, <1>4 DEF TableSays, k, b

LEMMA RegisteredSays ==
  ASSUME NEW what \in Knowledge
  PROVE  TableSays(Registered(what), what, "off")
<1>1. UpOrDown(what.keyboard) \in DeviceStates /\ UpOrDown(what.battery) \in DeviceStates
  BY StatesOfDevices DEF Knowledge
<1> DEFINE k == UpOrDown(what.keyboard)
           b == UpOrDown(what.battery)
<1>2. Registered(what) = [name \in DeviceNames |->
        CASE name = "KEYBOARD" -> k [] name = "BATTERY" -> b [] name = "WIFI" -> "DISABLED"]
  BY Zenon DEF Registered, DeviceNames
<1> HIDE DEF k, b
<1>3. k \in DeviceStates /\ b \in DeviceStates /\ "DISABLED" \in DeviceStates
  BY <1>1 DEF k, b, DeviceStates
<1>4. /\ Registered(what) \in [DeviceNames -> DeviceStates]
      /\ Registered(what)["KEYBOARD"] = k /\ Registered(what)["BATTERY"] = b
      /\ Registered(what)["WIFI"] = "DISABLED"
  BY <1>2, <1>3 DEF DeviceNames
<1> QED
  BY <1>4, StatesOfDevices DEF TableSays, k, b

\* Only a key's answer has the state of a key, and only a battery's its tag.
LEMMA AnswersTold ==
  ASSUME NEW register \in Registers, NEW answer \in ReadRegister(register)
  PROVE  /\ Acts(answer) => answer.of = "fifo"
         /\ IsReading(answer) => answer.of = "battery" /\ answer.second \in Nat
<1>1. answer = NoAnswer \/ answer \in UNION {Answers[r] : r \in Registers}
  BY Zenon DEF ReadRegister
<1>2. CASE answer = NoAnswer
  BY <1>2 DEF Acts, IsEvent, IsReading
<1>3. CASE answer \in Answers["version"]
  BY <1>3 DEF Answers, Answer, Acts, IsReading, Pressed, Held, BatteryTag
<1>4. CASE answer \in Answers["fifo"]
  BY <1>4, DevicesAssumption
     DEF Answers, Answer, Acts, IsReading, Pressed, Held, Released, BatteryTag
<1>5. CASE answer \in Answers["battery"]
  BY <1>5, DevicesAssumption DEF Answers, Answer, Acts, IsReading, Pressed, Held, BatteryTag
<1> QED
  BY <1>1, <1>2, <1>3, <1>4, <1>5 DEF Registers

LEMMA DevicesInvInit == DevicesInit => DevicesInv
<1> SUFFICES ASSUME DevicesInit PROVE DevicesInv
  OBVIOUS
<1>1. NothingKnown \in Knowledge /\ ~NothingKnown.keyboard /\ ~NothingKnown.battery
  BY DEF NothingKnown, Knowledge
<1>2. TableSays(table, told, lastRadio)
  BY <1>1, RegisteredSays DEF DevicesInit
<1>3. known = NothingKnown /\ told = NothingKnown
  BY DEF DevicesInit
<1>4. table \in [DeviceNames -> DeviceStates]
  BY <1>2 DEF TableSays
<1>5. DevicesTypeOK
  BY <1>1, <1>3, <1>4 DEF DevicesInit, DevicesTypeOK, Radios
<1>6. ToBeTold /\ Origins
  BY <1>1, <1>3 DEF DevicesInit, ToBeTold, Origins
<1> QED
  BY <1>2, <1>5, <1>6 DEF DevicesInv

\* The loop is entered with what is known told to all.
LEMMA Entered ==
  ASSUME DevicesInv, NEW what \in Knowledge, what.battery => what.keyboard,
         starting, Enter(what), known' = what, initialized' = what.keyboard,
         UNCHANGED <<radio, stateChanged, lastRadio, origins>>
  PROVE  DevicesInv'
<1>1. lastRadio = "off" /\ told' = what /\ table' = Registered(what) /\ loop' = "keys"
        /\ starting' = FALSE
  BY DEF DevicesInv, ToBeTold, Enter
<1>2. TableSays(table', told', lastRadio')
  BY <1>1, RegisteredSays
<1>3. DevicesTypeOK'
  BY <1>1, <1>2 DEF DevicesInv, DevicesTypeOK, TableSays, Knowledge
<1>4. ToBeTold' /\ Origins'
  BY <1>1 DEF ToBeTold, Origins, DevicesInv, origins
<1> QED
  BY <1>2, <1>3, <1>4 DEF DevicesInv, TableSays

\* What is known is told, and the loop goes on.
LEMMA ToldNow ==
  ASSUME DevicesInv, NEW what \in Knowledge, what.battery => what.keyboard,
         ~starting, Tell(what), known' = what, initialized' = what.keyboard,
         loop' = "keys", stateChanged' \in BOOLEAN,
         UNCHANGED <<radio, lastRadio, starting, origins>>
  PROVE  DevicesInv'
<1>1. told' = what /\ table' = Synchronized(table, what) /\ told \in Knowledge
  BY DEF Tell, DevicesInv, DevicesTypeOK
<1>2. TableSays(table', told', lastRadio')
  BY <1>1, TellingTells DEF DevicesInv
<1>3. DevicesTypeOK'
  BY <1>1, <1>2 DEF DevicesInv, DevicesTypeOK, TableSays, Knowledge
<1>4. ToBeTold' /\ Origins'
  BY <1>1 DEF ToBeTold, Origins, DevicesInv, origins
<1> QED
  BY <1>2, <1>3, <1>4 DEF DevicesInv, TableSays

\* Nothing that is told or known changes.
LEMMA NothingNew ==
  ASSUME DevicesInv, UNCHANGED <<known, told, table, lastRadio, stateChanged, starting, origins>>,
         radio' \in Radios, initialized' \in BOOLEAN,
         loop' \in {"probe", "unfound", "keys", "radio", "health", "battery"}, ToBeTold'
  PROVE  DevicesInv'
<1>1. DevicesTypeOK' /\ Origins'
  BY DEF DevicesInv, DevicesTypeOK, Origins, origins
<1> QED
  BY <1>1 DEF DevicesInv, TableSays

LEMMA DevicesInvStep == DevicesInv /\ [DevicesNext]_devicesVars => DevicesInv'
<1> SUFFICES ASSUME DevicesInv, [DevicesNext]_devicesVars PROVE DevicesInv'
  OBVIOUS
<1>t. /\ known \in Knowledge /\ told \in Knowledge /\ table \in [DeviceNames -> DeviceStates]
      /\ radio \in Radios /\ lastRadio \in Radios
      /\ initialized \in BOOLEAN /\ starting \in BOOLEAN /\ stateChanged \in BOOLEAN
      /\ loop \in {"probe", "unfound", "keys", "radio", "health", "battery"}
  BY DEF DevicesInv, DevicesTypeOK
<1>k. known.keyboard \in BOOLEAN /\ known.battery \in BOOLEAN /\ known.reading \in Nat
  BY <1>t DEF Knowledge
<1>1. CASE Probe
  <2>1. loop = "probe" /\ UNCHANGED <<outside, start, lastRadio, view, waits, origins>>
    BY <1>1 DEF Probe
  <2>2. CASE /\ initialized' = TRUE /\ loop' = "battery"
             /\ known' = [known EXCEPT !.keyboard = TRUE] /\ stateChanged' = TRUE
    <3>1. known' \in Knowledge /\ known'.keyboard
      BY <1>t, <2>2 DEF Knowledge
    <3>2. DevicesTypeOK'
      BY <1>t, <2>1, <2>2, <3>1 DEF DevicesTypeOK, outside, start, view
    <3>3. ToBeTold' /\ Origins'
      BY <2>1, <2>2, <3>1 DEF DevicesInv, ToBeTold, Origins, start, origins
    <3> QED
      BY <2>1, <3>2, <3>3 DEF DevicesInv, TableSays, view
  <2>3. CASE loop' = "probe" /\ UNCHANGED <<initialized, known, stateChanged>>
    <3>1. ToBeTold'
      BY <2>1, <2>3 DEF DevicesInv, ToBeTold, start, view
    <3> QED
      BY <1>t, <2>1, <2>3, <3>1, NothingNew DEF outside, start, view, origins
  <2>4. CASE initialized' = FALSE /\ loop' = "unfound" /\ UNCHANGED <<known, stateChanged>>
    <3>1. ToBeTold'
      BY <2>1, <2>4 DEF DevicesInv, ToBeTold, start, view
    <3> QED
      BY <1>t, <2>1, <2>4, <3>1, NothingNew DEF outside, start, view, origins
  <2> QED
    BY <1>1, <2>1, <2>2, <2>3, <2>4 DEF Probe
<1>2. CASE Retry
  <2>1. /\ loop = "unfound" /\ loop' = "probe"
        /\ UNCHANGED <<outside, initialized, starting, mainVars, view, waits, origins>>
    BY <1>2 DEF Retry
  <2>2. ToBeTold'
    BY <2>1 DEF DevicesInv, ToBeTold, mainVars, view
  <2> QED
    BY <1>t, <2>1, <2>2, NothingNew DEF outside, mainVars, view
<1>3. CASE StartWithout
  <2>1. ~known.keyboard /\ ~known.battery /\ ~initialized /\ starting
    BY <1>3 DEF StartWithout, DevicesInv, ToBeTold
  <2>2. /\ Enter(known) /\ known' = known /\ initialized' = initialized
        /\ UNCHANGED <<radio, stateChanged, lastRadio, origins>>
    BY <1>3 DEF StartWithout, outside, driver, mainVars
  <2>3. initialized = known.keyboard
    BY <1>t, <1>k, <2>1
  <2> QED
    BY <1>t, <2>1, <2>2, <2>3, Entered
<1>4. CASE PollKeys
  <2>1. /\ loop = "keys" /\ loop' = "radio"
        /\ UNCHANGED <<outside, driver, start, mainVars, view, healthIn, measured>>
    BY <1>4 DEF PollKeys
  <2>2. acted' = "fifo"
    <3>1. PICK answer \in (IF known.keyboard /\ initialized
                           THEN ReadRegister("fifo") ELSE {NoAnswer}) :
            IF Acts(answer) THEN acted' = answer.of ELSE UNCHANGED acted
      BY <1>4 DEF PollKeys
    <3>2. ~Acts(NoAnswer)
      BY DEF Acts, IsEvent
    <3>3. Acts(answer) => answer.of = "fifo"
      BY <3>1, <3>2, AnswersTold DEF Registers
    <3> QED
      BY <3>1, <3>3 DEF DevicesInv, Origins
  <2>3. DevicesTypeOK'
    BY <1>t, <2>1 DEF DevicesTypeOK, outside, driver, start, mainVars, view
  <2>4. ToBeTold'
    BY <2>1 DEF DevicesInv, ToBeTold, driver, start, mainVars, view
  <2> QED
    BY <2>1, <2>2, <2>3, <2>4 DEF DevicesInv, Origins, TableSays, view, mainVars
<1>5. CASE WatchRadio
  <2>1. /\ loop = "radio" /\ loop' = "health" /\ lastRadio' = radio
        /\ table' = IF radio = lastRadio THEN table
                    ELSE SetState(table, "WIFI", RadioState(radio))
        /\ UNCHANGED <<outside, driver, start, known, stateChanged, told, waits, origins>>
    BY <1>5 DEF WatchRadio
  <2>2. RadioState(radio) \in DeviceStates
    BY <1>t, StatesOfDevices
  <2>3. TableSays(table', told', lastRadio')
    <3>1. CASE radio = lastRadio
      BY <2>1, <3>1 DEF DevicesInv
    <3>2. CASE radio # lastRadio
      <4> DEFINE state == RadioState(radio)
      <4>1. table' = [table EXCEPT !["WIFI"] = state]
        BY <2>1, <3>2 DEF SetState
      <4>2. state \in DeviceStates
        BY <2>2
      <4> HIDE DEF state
      <4>3. /\ table' \in [DeviceNames -> DeviceStates] /\ table'["WIFI"] = state
            /\ table'["KEYBOARD"] = table["KEYBOARD"] /\ table'["BATTERY"] = table["BATTERY"]
        BY <1>t, <4>1, <4>2 DEF DeviceNames
      <4> QED
        BY <2>1, <4>3 DEF DevicesInv, TableSays, state
    <3> QED
      BY <3>1, <3>2
  <2>4. DevicesTypeOK'
    BY <1>t, <2>1, <2>3 DEF DevicesTypeOK, TableSays, outside, driver, start
  <2>5. ToBeTold' /\ Origins'
    BY <1>t, <2>1 DEF DevicesInv, ToBeTold, Origins, outside, driver, start, origins
  <2> QED
    BY <2>3, <2>4, <2>5 DEF DevicesInv, TableSays
<1>6. CASE Turns
  <2>1. /\ loop = "health" /\ loop' = "keys"
        /\ UNCHANGED <<outside, driver, start, mainVars, view, origins>>
    BY <1>6 DEF Turns
  <2>2. ToBeTold'
    BY <2>1 DEF DevicesInv, ToBeTold, driver, start, mainVars, view
  <2> QED
    BY <1>t, <2>1, <2>2, NothingNew DEF outside, driver, start, mainVars, view
<1>7. CASE Check
  <2>1. /\ loop = "health" /\ known.keyboard
        /\ UNCHANGED <<outside, rate, start, lastRadio, origins>>
    BY <1>7 DEF Check
  <2>2. ~starting /\ told = known /\ initialized = known.keyboard
    BY <2>1 DEF DevicesInv, ToBeTold
  <2>3. CASE /\ loop' = "battery" /\ stateChanged' = FALSE
             /\ UNCHANGED <<initialized, known, view, waits>>
    <3>1. DevicesTypeOK'
      BY <1>t, <2>1, <2>3 DEF DevicesTypeOK, outside, start, view
    <3>2. ToBeTold' /\ Origins'
      BY <2>1, <2>2, <2>3 DEF DevicesInv, ToBeTold, Origins, start, view, origins
    <3> QED
      BY <2>1, <2>3, <3>1, <3>2 DEF DevicesInv, TableSays, view
  <2>4. CASE /\ initialized' = FALSE
             /\ known' = [known EXCEPT !.keyboard = FALSE, !.battery = FALSE]
             /\ Tell(known') /\ NextHealth
             /\ UNCHANGED stateChanged
    <3>1. known' \in Knowledge /\ known'.keyboard = FALSE /\ known'.battery = FALSE
      BY <1>t, <2>4 DEF Knowledge
    <3>2. loop' = "keys"
      BY <2>4 DEF NextHealth
    <3> QED
      BY <1>t, <2>1, <2>2, <2>4, <3>1, <3>2, ToldNow DEF outside, start
  <2> QED
    BY <1>7, <2>3, <2>4 DEF Check
<1>8. CASE Search
  <2>1. /\ loop = "health" /\ ~known.keyboard /\ loop' = "probe"
        /\ UNCHANGED <<outside, initialized, start, mainVars, view, waits, origins>>
    BY <1>8 DEF Search
  <2>2. ToBeTold'
    BY <1>t, <1>k, <2>1 DEF DevicesInv, ToBeTold, start, mainVars, view
  <2> QED
    BY <1>t, <2>1, <2>2, NothingNew DEF outside, start, mainVars, view
<1>9. CASE NotFound
  <2>1. /\ loop = "unfound" /\ ~starting /\ loop' = "keys"
        /\ UNCHANGED <<outside, driver, start, mainVars, view, origins>>
    BY <1>9 DEF NotFound, NextHealth
  <2>2. ToBeTold'
    BY <1>t, <1>k, <2>1 DEF DevicesInv, ToBeTold, driver, start, mainVars, view
  <2> QED
    BY <1>t, <2>1, <2>2, NothingNew DEF outside, driver, start, mainVars, view
<1>10. CASE ReadBattery
  <2>1. /\ loop = "battery"
        /\ UNCHANGED <<outside, driver, probesLeft, stateChanged, lastRadio, acted>>
    BY <1>10 DEF ReadBattery
  <2>2. PICK answer \in (IF initialized THEN ReadRegister("battery") ELSE {NoAnswer}) :
          /\ known' = Measured(answer)
          /\ measured' = IF IsReading(answer) THEN answer.of ELSE measured
          /\ IF starting THEN Enter(known') /\ UNCHANGED repeatIn
             ELSE /\ NextHealth /\ UNCHANGED starting
                  /\ IF stateChanged \/ Differs(known') THEN Tell(known')
                     ELSE UNCHANGED view
    BY <1>10 DEF ReadBattery
  <2>3. known.keyboard /\ initialized
    BY <2>1 DEF DevicesInv, ToBeTold
  <2>4. IsReading(answer) => answer.of = "battery" /\ answer.second \in Nat
    BY <2>2, <2>3, AnswersTold DEF Registers
  <2>5. known' \in Knowledge /\ known'.keyboard /\ UNCHANGED origins
    <3>1. CASE IsReading(answer)
      <4>1. known' = [known EXCEPT !.battery = TRUE, !.reading = answer.second]
        BY <2>2, <3>1 DEF Measured
      <4> QED
        BY <1>t, <2>1, <2>2, <2>3, <2>4, <3>1, <4>1 DEF Knowledge, DevicesInv, Origins, origins
    <3>2. CASE ~IsReading(answer)
      <4>1. known' = [known EXCEPT !.battery = FALSE]
        BY <2>2, <3>2 DEF Measured
      <4> QED
        BY <1>t, <2>1, <2>2, <2>3, <3>2, <4>1 DEF Knowledge, origins
    <3> QED
      BY <3>1, <3>2
  <2>6. initialized' = known'.keyboard /\ UNCHANGED <<radio, stateChanged, lastRadio>>
    BY <1>t, <2>1, <2>3, <2>5 DEF driver, outside, Knowledge
  <2>7. CASE starting
    BY <2>2, <2>5, <2>6, <2>7, Entered
  <2>8. CASE ~starting /\ (stateChanged \/ Differs(known'))
    BY <1>t, <2>2, <2>5, <2>6, <2>8, ToldNow DEF NextHealth
  <2>9. CASE ~starting /\ ~(stateChanged \/ Differs(known'))
    <3>1. UNCHANGED view /\ UNCHANGED starting /\ loop' = "keys" /\ told = known
      BY <2>1, <2>2, <2>9 DEF NextHealth, DevicesInv, ToBeTold
    <3>2. known' = known
      <4>1. CASE IsReading(answer)
        <5>1. known' = [known EXCEPT !.battery = TRUE, !.reading = answer.second]
          BY <2>2, <4>1 DEF Measured
        <5>2. known'.battery = TRUE /\ known'.reading = answer.second
          BY <1>t, <5>1 DEF Knowledge
        <5>3. known.battery = TRUE /\ known.reading = answer.second
          BY <1>k, <2>9, <5>2 DEF Differs
        <5> QED
          BY <1>t, <5>1, <5>3 DEF Knowledge
      <4>2. CASE ~IsReading(answer)
        <5>1. known' = [known EXCEPT !.battery = FALSE]
          BY <2>2, <4>2 DEF Measured
        <5>2. known'.battery = FALSE
          BY <1>t, <5>1 DEF Knowledge
        <5>3. known.battery = FALSE
          BY <1>k, <2>9, <5>2 DEF Differs
        <5> QED
          BY <1>t, <5>1, <5>3 DEF Knowledge
      <4> QED
        BY <4>1, <4>2
    <3>3. ToBeTold'
      BY <2>1, <2>3, <2>6, <2>9, <3>1, <3>2 DEF DevicesInv, ToBeTold, view
    <3> QED
      BY <1>t, <2>1, <2>5, <2>6, <3>1, <3>2, <3>3, NothingNew DEF view, driver
  <2> QED
    BY <2>7, <2>8, <2>9
<1>11. CASE ControllerChanges
  <2>1. ToBeTold'
    BY <1>11 DEF ControllerChanges, DevicesInv, ToBeTold, driver, start, mainVars, view
  <2> QED
    BY <1>t, <1>11, <2>1, NothingNew DEF ControllerChanges, driver, start, mainVars, view
<1>12. CASE RadioChanges
  <2>1. ToBeTold'
    BY <1>12 DEF RadioChanges, DevicesInv, ToBeTold, driver, start, mainVars, view
  <2> QED
    BY <1>t, <1>12, <2>1, NothingNew
       DEF RadioChanges, Radios, driver, start, mainVars, view
<1>13. CASE UNCHANGED devicesVars
  <2>1. ToBeTold'
    BY <1>13 DEF devicesVars, DevicesInv, ToBeTold, driver, start, mainVars, view
  <2> QED
    BY <1>t, <1>13, <2>1, NothingNew DEF devicesVars, outside, driver, start, mainVars, view
<1> QED
  BY <1>1, <1>2, <1>3, <1>4, <1>5, <1>6, <1>7, <1>8, <1>9, <1>10, <1>11, <1>12, <1>13
     DEF DevicesNext, MainStep

\* The variables of main() and the driver keep their types.
THEOREM DevicesTypes == DevicesSpec => []DevicesTypeOK
<1>1. DevicesInv => DevicesTypeOK
  BY DEF DevicesInv
<1> QED
  BY <1>1, DevicesInvInit, DevicesInvStep, PTL DEF DevicesSpec

\* At the head of the loop everybody is told what main() and the driver know,
\* for any number of rates, keys, readings and periods.
THEOREM ControllerToldHolds == DevicesSpec => []ControllerTold
<1>1. DevicesInv => ControllerTold
  BY DEF DevicesInv, ToBeTold, TableSays, Origins, ControllerTold
<1> QED
  BY <1>1, DevicesInvInit, DevicesInvStep, PTL DEF DevicesSpec
=============================================================================
