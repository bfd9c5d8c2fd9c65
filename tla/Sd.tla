--------------------------------- MODULE Sd ----------------------------------
(***************************************************************************)
(* The SD driver (drivers/sd/sd.c) and the card in its slot, which is      *)
(* swapped when it pleases.  One step is one exchange with the card: its   *)
(* command, which the card may not hear, and its answer, which may get     *)
(* lost.  Altered bits are left out: the driver does not check the CRC of  *)
(* what it reads.                                                          *)
(***************************************************************************)
EXTENDS Integers, Sequences

CONSTANTS
  MaxAddress,    \* UINT32_MAX
  SectorSize,    \* SD_SECTOR_SIZE
  MaxBlocks,     \* SD_MAX_READ_BLOCKS
  IdleAttempts,  \* SD_IDLE_ATTEMPTS
  InitAttempts,  \* SD_INIT_ATTEMPTS
  EmptySlot

Kinds == {"version 1", "standard", "high capacity"}
CardStates == [id : 0 .. 1, kind : Kinds, mode : {"native", "idle", "ready"}]
Lbas == 0 .. MaxAddress

ASSUME SdAssumption ==
  /\ MaxAddress \in Nat /\ SectorSize \in Nat \ {0} /\ MaxBlocks \in Nat
  /\ IdleAttempts \in Nat \ {0} /\ InitAttempts \in Nat \ {0}
  /\ EmptySlot \notin CardStates

VARIABLES
  inserted,      \* the card: how it is addressed and how far it is set up
  nextId,        \* what tells the next card inserted from this one
  softwareSpi,   \* software_spi
  transport,     \* transport_ready
  wide,          \* info->high_capacity, then transport_high_capacity
  version2,      \* info->version_2
  exchange,          \* where the call is, "none" between calls
  retries,         \* attempt
  wanted,        \* the first sector and the number of them that the call reads
  got,           \* the sectors it has read, and of which card
  opened         \* history: the card whose OCR was read last

sdVars == <<inserted, nextId, softwareSpi, transport, wide, version2, exchange, retries,
            wanted, got, opened>>

SdTypeOK ==
  /\ inserted \in CardStates \union {EmptySlot} /\ nextId \in 0 .. 1
  /\ softwareSpi \in BOOLEAN /\ transport \in BOOLEAN
  /\ wide \in BOOLEAN /\ version2 \in BOOLEAN
  /\ exchange \in {"none", "idle", "condition", "init", "ocr", "boot", "partition", "read"}
  /\ retries \in Nat /\ opened \in 0 .. 1
  /\ wanted \in [first : Lbas, count : 0 .. MaxBlocks \union {1}]
  /\ got \in Seq([id : 0 .. 1, sector : Lbas])

SdInit ==
  /\ inserted = EmptySlot /\ nextId = 0
  /\ softwareSpi = FALSE /\ transport = FALSE /\ wide = FALSE /\ version2 = FALSE
  /\ exchange = "none" /\ retries = 0 /\ opened = 0
  /\ wanted = [first |-> 0, count |-> 1] /\ got = << >>

-----------------------------------------------------------------------------
(* The slot *)

InsertCard(kind) ==
  /\ inserted = EmptySlot
  /\ inserted' = [id |-> nextId, kind |-> kind, mode |-> "native"]
  /\ nextId' = 1 - nextId
  /\ UNCHANGED <<softwareSpi, transport, wide, version2, exchange, retries, wanted, got, opened>>

RemoveCard ==
  /\ inserted # EmptySlot
  /\ inserted' = EmptySlot
  /\ UNCHANGED <<nextId, softwareSpi, transport, wide, version2, exchange, retries, wanted,
                 got, opened>>

slotVars == <<inserted, nextId>>

-----------------------------------------------------------------------------
(* Identifying a card: picopen_sd_identify *)

IdentifyCard ==
  /\ exchange = "none"
  /\ exchange' = "idle" /\ retries' = 0
  /\ softwareSpi' = FALSE /\ transport' = FALSE /\ wide' = FALSE /\ version2' = FALSE
  /\ got' = << >>
  /\ UNCHANGED <<slotVars, wanted, opened>>

\* finish_transport, and the call returns false
GiveUp ==
  /\ exchange' = "none" /\ transport' = FALSE
  /\ UNCHANGED <<softwareSpi, wide, version2, retries, wanted, got, opened>>

Becomes(mode) == inserted' = [inserted EXCEPT !.mode = mode] /\ UNCHANGED nextId

\* enter_idle: by software once the hardware has failed
EnterIdle ==
  /\ exchange = "idle"
  /\ \E heard, answered \in BOOLEAN :
       LET hears == heard /\ inserted # EmptySlot IN
       /\ IF hears THEN Becomes("idle") ELSE UNCHANGED slotVars
       /\ \/ /\ hears /\ answered
             /\ exchange' = "condition"
             /\ UNCHANGED <<softwareSpi, transport, wide, version2, retries, wanted, got,
                            opened>>
          \/ /\ ~(hears /\ answered) /\ retries + 1 < IdleAttempts
             /\ retries' = retries + 1
             /\ UNCHANGED <<softwareSpi, transport, wide, version2, exchange, wanted, got,
                            opened>>
          \/ /\ ~(hears /\ answered) /\ retries + 1 >= IdleAttempts /\ ~softwareSpi
             /\ softwareSpi' = TRUE /\ retries' = 0
             /\ UNCHANGED <<transport, wide, version2, exchange, wanted, got, opened>>
          \/ /\ ~(hears /\ answered) /\ retries + 1 >= IdleAttempts /\ softwareSpi
             /\ GiveUp

InMode(mode) == inserted # EmptySlot /\ inserted.mode = mode

\* check_interface_condition.  No answer, 0xFF, has the bit set that says that
\* the command is illegal: the card is taken to be of version 1.
CheckInterfaceCondition ==
  /\ exchange = "condition" /\ UNCHANGED slotVars
  /\ \E through, echoed \in BOOLEAN :
       LET version == through /\ InMode("idle") /\ inserted.kind # "version 1" IN
       IF version /\ ~echoed THEN GiveUp
       ELSE /\ version2' = version
            /\ exchange' = "init" /\ retries' = 0
            /\ UNCHANGED <<softwareSpi, transport, wide, wanted, got, opened>>

\* wait_until_ready.  A card of high capacity waits to be told that the host
\* knows such cards.
WaitUntilReady ==
  /\ exchange = "init"
  /\ \E heard, answered, busy \in BOOLEAN :
       LET hears == heard /\ (InMode("idle") \/ InMode("ready"))
           isReady == InMode("ready") \/
                      (~busy /\ (version2 \/ inserted.kind # "high capacity"))
       IN
       /\ IF hears /\ isReady THEN Becomes("ready") ELSE UNCHANGED slotVars
       /\ \/ /\ hears /\ isReady /\ answered
             /\ exchange' = "ocr"
             /\ UNCHANGED <<softwareSpi, transport, wide, version2, retries, wanted, got,
                            opened>>
          \/ /\ ~(hears /\ isReady /\ answered) /\ retries + 1 < InitAttempts
             /\ retries' = retries + 1
             /\ UNCHANGED <<softwareSpi, transport, wide, version2, exchange, wanted, got,
                            opened>>
          \/ ~(hears /\ isReady /\ answered) /\ GiveUp

ReadOcr ==
  /\ exchange = "ocr" /\ UNCHANGED slotVars
  /\ \/ /\ InMode("ready")
        /\ wide' = (inserted.kind = "high capacity")
        /\ opened' = inserted.id
        /\ exchange' = "boot"
        /\ wanted' = [first |-> 0, count |-> 1] /\ got' = << >>
        /\ UNCHANGED <<softwareSpi, transport, version2, retries>>
     \/ GiveUp

-----------------------------------------------------------------------------
(* Reading: read_sector *)

\* Mutant: a sector whose address does not fit is read all the same.
AddressesWrapped(lba) ==
  IF wide THEN {lba} ELSE {(lba * SectorSize) % (MaxAddress + 1)}

\* The address of a sector, and none when it does not fit
Addresses(lba) ==
  IF wide THEN {lba}
  ELSE IF lba * SectorSize > MaxAddress THEN {}
  ELSE {(lba * SectorSize) % (MaxAddress + 1)}

\* The sectors that the card in the slot gives for lba
Given(lba) ==
  {sector \in Lbas :
     /\ InMode("ready")
     /\ \E address \in Addresses(lba) :
          IF inserted.kind = "high capacity" THEN sector = address
          ELSE sector * SectorSize = address}

Reads(lba) ==
  \E sector \in Given(lba) : got' = Append(got, [id |-> inserted.id, sector |-> sector])

\* inspect_boot_sectors has read all that it wants.
Ready ==
  /\ exchange' = "none" /\ transport' = TRUE
  /\ UNCHANGED <<softwareSpi, wide, version2, retries, opened>>

\* The first sector holds a volume, or nothing, or the place of a partition.
InspectBootSector ==
  /\ exchange = "boot" /\ UNCHANGED slotVars
  /\ \/ Reads(0) /\ Ready /\ UNCHANGED wanted
     \/ \E lba \in Lbas \ {0} :
          /\ Given(0) # {} /\ got' = << >>
          /\ wanted' = [first |-> lba, count |-> 1]
          /\ exchange' = "partition"
          /\ UNCHANGED <<softwareSpi, transport, wide, version2, retries, opened>>
     \/ GiveUp

InspectPartition ==
  /\ exchange = "partition" /\ UNCHANGED slotVars
  /\ \/ Reads(wanted.first) /\ Ready /\ UNCHANGED wanted
     \/ GiveUp

\* picopen_sd_read_blocks
ReadBlocks(first, count) ==
  /\ exchange = "none" /\ transport
  /\ count \in 1 .. MaxBlocks /\ first <= MaxAddress - (count - 1)
  /\ wanted' = [first |-> first, count |-> count] /\ got' = << >>
  /\ exchange' = "read"
  /\ UNCHANGED <<slotVars, softwareSpi, transport, wide, version2, retries, opened>>

ReadNext ==
  /\ exchange = "read" /\ UNCHANGED slotVars
  /\ \/ /\ Reads(wanted.first + Len(got))
        /\ exchange' = IF Len(got) + 1 = wanted.count THEN "none" ELSE "read"
     \/ exchange' = "none" /\ UNCHANGED got
  /\ UNCHANGED <<softwareSpi, transport, wide, version2, retries, wanted, opened>>

Close ==
  /\ exchange = "none" /\ transport
  /\ UNCHANGED slotVars /\ GiveUp

-----------------------------------------------------------------------------
SdNext ==
  \/ \E kind \in Kinds : InsertCard(kind)
  \/ RemoveCard
  \/ IdentifyCard \/ EnterIdle \/ CheckInterfaceCondition \/ WaitUntilReady \/ ReadOcr
  \/ InspectBootSector \/ InspectPartition
  \/ \E first \in Lbas, count \in 1 .. MaxBlocks : ReadBlocks(first, count)
  \/ ReadNext \/ Close

SdSpec == SdInit /\ [][SdNext]_sdVars

\* What a call reads are the sectors that it was asked for, in their order, and
\* all of the card that was identified: whichever card comes between two
\* exchanges, however it is addressed, and wherever its table says that a
\* partition begins (drivers/sd/sd.c:200, :387).
ReadsWhatAsked ==
  \A i \in 1 .. Len(got) :
    got[i] = [id |-> opened, sector |-> wanted.first + i - 1]
=============================================================================
