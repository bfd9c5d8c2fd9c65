-------------------------------- MODULE Image --------------------------------
(***************************************************************************)
(* How the bootloader validates the image in the primary slot and enters   *)
(* it (bootloader/src/image_validator.c, handoff.c), on a small flash:     *)
(* addresses count from the start of the slot, behind which the flash goes *)
(* on.  In Boot the whole of it is one bit.                                *)
(***************************************************************************)
EXTENDS Integers

CONSTANTS
  SlotSize,       \* PICOPEN_IMAGE_SLOT_SIZE
  PayloadOffset,  \* PICOPEN_IMAGE_PAYLOAD_OFFSET, the size of the manifest
  WordSize        \* of a word of the vector table

ASSUME ImageAssumption ==
  /\ SlotSize \in Nat /\ WordSize \in Nat \ {0}
  /\ PayloadOffset \in Nat \ {0} /\ PayloadOffset <= SlotSize

VARIABLES
  manifest,   \* what the slot holds: the header, and the vectors that it points at
  verdict,    \* what validation says, "none" before
  hashed,     \* history: the payload whose digest has been compared
  checked,    \* validate_header has run
  entered     \* where the bootloader has branched to, -1 before

imageVars == <<manifest, verdict, hashed, checked, entered>>

\* Faults of a header that are found before its bounds are looked at (one
\* stands for its magic, format, CRC, target and flags), those that are found
\* after (one for version, algorithm and policy), and those of its payload
EarlyFaults == {"bad-header-crc"}
LateFaults == {"bad-policy"}
DigestFaults == {"digest-unavailable", "bad-digest"}
Faults == EarlyFaults \union LateFaults \union DigestFaults

Offsets == 0 .. SlotSize
Manifests ==
  [fault : Faults \union {"none"}, size : Offsets, offset : Offsets, entry : Offsets,
   vector : Offsets, stackInRam : BOOLEAN, reset : 0 .. SlotSize + 1]

\* The Thumb bit of reset is left out: what it tells is the address itself.
ImageTypeOK ==
  /\ manifest \in Manifests
  /\ verdict \in Faults \union {"none", "bad-bounds", "valid"}
  /\ hashed \subseteq 0 .. 2 * SlotSize /\ checked \in BOOLEAN
  /\ entered \in -1 .. SlotSize + 1

\* Where the header says that the payload is
Payload == manifest.offset .. manifest.offset + manifest.size - 1

ImageInit ==
  /\ manifest \in Manifests
  /\ verdict = "none" /\ hashed = {} /\ checked = FALSE /\ entered = -1

\* The bounds that validate_header checks
Bounded ==
  /\ manifest.size # 0 /\ manifest.size <= SlotSize - PayloadOffset
  /\ manifest.size % WordSize = 0
  /\ manifest.offset = PayloadOffset
  /\ manifest.entry < manifest.size /\ manifest.vector < manifest.size

\* validate_header
ValidateHeader ==
  /\ verdict = "none" /\ ~checked
  /\ checked' = TRUE
  /\ verdict' = IF manifest.fault \in EarlyFaults THEN manifest.fault
                ELSE IF ~Bounded THEN "bad-bounds"
                ELSE IF manifest.fault \in LateFaults THEN manifest.fault
                ELSE "none"
  /\ UNCHANGED <<manifest, hashed, entered>>

Hash ==
  /\ verdict = "none" /\ checked /\ hashed = {}
  /\ hashed' = IF manifest.fault = "digest-unavailable" THEN {} ELSE Payload
  /\ verdict' = IF manifest.fault \in DigestFaults THEN manifest.fault ELSE "none"
  /\ UNCHANGED <<manifest, checked, entered>>

\* Mutant: one past the end of the payload is taken to be inside.
ValidateVectorsInclusive ==
  /\ verdict = "none" /\ hashed # {}
  /\ verdict' = IF /\ manifest.stackInRam
                   /\ manifest.reset >= manifest.offset
                   /\ manifest.reset <= manifest.offset + manifest.size
                THEN "valid" ELSE "bad-bounds"
  /\ UNCHANGED <<manifest, hashed, checked, entered>>

\* The initial stack and the reset handler, wherever vector_offset finds them,
\* the last of them behind the payload or even the slot: reset may be any address.
ValidateVectors ==
  /\ verdict = "none" /\ hashed # {}
  /\ verdict' = IF /\ manifest.stackInRam
                   /\ manifest.reset >= manifest.offset
                   /\ manifest.reset < manifest.offset + manifest.size
                THEN "valid" ELSE "bad-bounds"
  /\ UNCHANGED <<manifest, hashed, checked, entered>>

\* picopen_chain_image: to the reset handler, whatever entry_offset says
ChainImage ==
  /\ verdict = "valid" /\ entered = -1
  /\ entered' = manifest.reset
  /\ UNCHANGED <<manifest, verdict, hashed, checked>>

ImageNext == ValidateHeader \/ Hash \/ ValidateVectors \/ ChainImage

ImageSpec == ImageInit /\ [][ImageNext]_imageVars

\* What the bootloader branches to is code whose digest it has compared, and
\* that lies in the slot behind the manifest, whatever sizes and offsets the
\* header states, the one that places the payload among them
\* (image_validator.c:61-66, 107-110, 123-128).
EntersWhatIsHashed ==
  entered # -1 => entered \in hashed /\ hashed \subseteq PayloadOffset .. SlotSize - 1
=============================================================================
