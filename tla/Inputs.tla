------------------------------- MODULE Inputs -------------------------------
(***************************************************************************)
(* How three texts are read: the target of an engagement, as the Security  *)
(* screen takes it key by key (services/policy/engagement.c), a path on    *)
(* the card (services/storage/storage.c), and the strings of a file under  *)
(* inspection, which comes in chunks (services/evidence/evidence.c).  A    *)
(* word is the function of its bits, the leading one first, shortened to   *)
(* Octets numbers of OctetBits bits; the alphabet has one character of     *)
(* each kind that the code tells from the others.                          *)
(***************************************************************************)
EXTENDS Paths

CONSTANTS
  DigitValue,    \* the digits that are typed and what they are worth
  Octets,        \* numbers of an address, 4 in the code
  OctetBits,     \* 8 in the code
  OctetDigits,   \* 3 in the code
  MaxOctet,      \* 255 in the code
  WordSize,      \* what unsigned int wraps at, 2^32 in the code
  TargetSize,    \* PICOPEN_ENGAGEMENT_TARGET_SIZE
  FileSize,      \* bounds the file
  ChunkSize,     \* HASH_CHUNK_SIZE
  StringMin,     \* 4 in the code
  StringSize,    \* sizeof(string_run)
  PreviewSize    \* PICOPEN_EVIDENCE_PREVIEW_SIZE

Digits == DOMAIN DigitValue
Bits == Octets * OctetBits
IPv4 == [0 .. Bits - 1 -> BOOLEAN]

ASSUME InputsAssumption ==
  /\ DigitValue \in [Digits -> 0 .. 9] /\ Digits \cap {"a", "_", ".", "/"} = {}
  /\ {Octets, OctetBits, OctetDigits, TargetSize} \subseteq Nat \ {0}
  /\ MaxOctet \in Nat /\ MaxOctet = 2 ^ OctetBits - 1
  /\ {FileSize, ChunkSize, StringMin, StringSize, PreviewSize} \subseteq Nat \ {0}
  /\ StringMin < StringSize
  /\ WordSize \in Nat /\ WordSize > Bits

VARIABLES
  text,   \* engagement_target, the path of a request, or the bytes of a file
  use     \* which of them it is

inputsVars == <<text, use>>

\* The Security screen's keys; a name on the card may hold more.
TargetKeys == Digits \union {"a", "_", ".", "/"}
PathCharacters == {"a", ".", "/", ":"}   \* ':' for what the code refuses
Gap == " "
Printable == {"a", Gap}
FileBytes == Printable \union {"unprintable"}

\* What digits are worth together
Number(digits) ==
  LET value[i \in 0 .. Len(digits)] ==
        IF i = 0 THEN 0 ELSE value[i - 1] * 10 + DigitValue[digits[i]]
  IN value[Len(digits)]

-----------------------------------------------------------------------------
(* Reading a target *)

\* parse_octet(), a digit at a time: the length and the value are looked at
\* after each of them.
OctetTaken(s, c) ==
  LET value == s.value * 10 + DigitValue[c] IN
  [s EXCEPT !.value = value, !.digits = @ + 1,
            !.ok = s.digits + 1 <= OctetDigits /\ value <= MaxOctet]

\* The prefix is an unsigned int of any number of digits.
PrefixTaken(s, c) ==
  [s EXCEPT !.prefix = (@ * 10 + DigitValue[c]) % WordSize, !.digits = @ + 1]

\* parse_octet() ends at what is not a digit.
OctetEnds(s) ==
  [s EXCEPT !.octets = Append(@, s.value), !.value = 0, !.digits = 0, !.ok = s.digits > 0]

AtPrefix(s) == Len(s.octets) = Octets

CharacterRead(s, c) ==
  IF ~s.ok THEN s ELSE
  CASE c \in Digits /\ ~AtPrefix(s) -> OctetTaken(s, c)
    [] c \in Digits /\ AtPrefix(s) -> PrefixTaken(s, c)
    [] c = "." /\ Len(s.octets) < Octets - 1 -> OctetEnds(s)
    [] c = "/" /\ Len(s.octets) = Octets - 1 -> [OctetEnds(s) EXCEPT !.prefix = 0]
    [] OTHER -> [s EXCEPT !.ok = FALSE]

NothingRead == [octets |-> <<>>, value |-> 0, digits |-> 0, prefix |-> Bits, ok |-> TRUE]
TargetScanned(s) ==
  LET after[i \in 0 .. Len(s)] ==
        IF i = 0 THEN NothingRead ELSE CharacterRead(after[i - 1], s[i])
  IN after[Len(s)]

\* A bit of an octet, and the bits of the four
Bit(octet, b) == octet \div 2 ^ (OctetBits - 1 - b) % 2 = 1
Address(octets) == [b \in 0 .. Bits - 1 |-> Bit(octets[b \div OctetBits + 1], b % OctetBits)]

\* The operators << and & of C, and the mask made with the first
ShiftedLeft(x, n) == [b \in 0 .. Bits - 1 |-> b + n < Bits /\ x[b + n]]
And(x, y) == [b \in 0 .. Bits - 1 |-> x[b] /\ y[b]]
NoBits == [b \in 0 .. Bits - 1 |-> FALSE]
Mask(prefix) ==
  IF prefix = 0 THEN NoBits ELSE ShiftedLeft([b \in 0 .. Bits - 1 |-> TRUE], Bits - prefix)

\* No block, and the addresses that agree with one in as many leading bits
NoCidr == [cidr |-> FALSE, network |-> NoBits, netmask |-> NoBits]
Cidr(octets, prefix) ==
  [cidr |-> TRUE, network |-> And(Address(octets), Mask(prefix)), netmask |-> Mask(prefix)]

\* Mutant: "/" with nothing behind it is the prefix 0.
CidrOrSlash(s) ==
  LET end == TargetScanned(s)
      all == IF AtPrefix(end) THEN end ELSE OctetEnds(end)
  IN IF ~end.ok \/ ~all.ok \/ Len(all.octets) # Octets \/ all.prefix > Bits
     THEN NoCidr ELSE Cidr(all.octets, all.prefix)

\* parse_cidr()
ParseCidr(s) ==
  LET end == TargetScanned(s)
      all == IF AtPrefix(end) THEN end ELSE OctetEnds(end)
  IN IF ~end.ok \/ ~all.ok \/ end.digits = 0 \/ Len(all.octets) # Octets \/ all.prefix > Bits
     THEN NoCidr ELSE Cidr(all.octets, all.prefix)

ValidHostname(s) ==
  /\ Len(s) >= 3 /\ Len(s) <= TargetSize - 1
  /\ \A i \in 1 .. Len(s) : s[i] \in Digits \union {"a", "."}
  /\ s[1] # "." /\ s[Len(s)] # "."

\* What session_activate_boundary() makes of a text: whom allows_ipv4() and
\* allows_hostname() then let through.
Boundary(s) ==
  LET read == ParseCidr(s) IN
  CASE read.cidr ->
         [accepted |-> TRUE, names |-> {},
          addresses |-> {x \in IPv4 : And(x, read.netmask) = read.network}]
    [] ~read.cidr /\ ValidHostname(s) ->
         [accepted |-> TRUE, addresses |-> {}, names |-> {s}]
    [] OTHER -> [accepted |-> FALSE, addresses |-> {}, names |-> {}]

-----------------------------------------------------------------------------
(* The strings of a file *)

\* retain_string(): a run that is long enough is counted and joined to the
\* preview as far as that goes.
RetainString(s) ==
  LET room(preview) == PreviewSize - 1 - Len(preview)
      apart == IF s.preview # <<>> /\ room(s.preview) > 0 THEN Append(s.preview, Gap)
               ELSE s.preview
      taken == IF Len(s.run) < room(apart) THEN Len(s.run) ELSE room(apart)
  IN IF Len(s.run) < StringMin THEN [s EXCEPT !.run = <<>>]
     ELSE [run |-> <<>>, count |-> s.count + 1, preview |-> apart \o SubSeq(s.run, 1, taken)]

\* A byte of a chunk
ByteInspected(s, byte) ==
  CASE byte \notin Printable -> RetainString(s)
    [] byte \in Printable /\ Len(s.run) + 1 < StringSize -> [s EXCEPT !.run = Append(@, byte)]
    [] OTHER -> s

\* Mutant: each chunk starts a new run.
InspectAnew(s, data) ==
  LET after[i \in 0 .. Len(data)] ==
        IF i = 0 THEN RetainString(s) ELSE ByteInspected(after[i - 1], data[i])
  IN after[Len(data)]

\* inspect_strings()
InspectStrings(s, data) ==
  LET after[i \in 0 .. Len(data)] ==
        IF i = 0 THEN s ELSE ByteInspected(after[i - 1], data[i])
  IN after[Len(data)]

\* poll_hash(): the next chunk
NoStrings == [run |-> <<>>, count |-> 0, preview |-> <<>>]
Polled(job, file) ==
  LET remaining == Len(file) - job.processed
      wanted == IF remaining < ChunkSize THEN remaining ELSE ChunkSize
      data == SubSeq(file, job.processed + 1, job.processed + wanted)
  IN IF job.processed >= Len(file) THEN job
     ELSE [processed |-> job.processed + wanted, strings |-> InspectStrings(job.strings, data)]

\* From picopen_evidence_start() to finish_hash(); a poll takes a byte at least.
StringsFound(file) ==
  LET polled[n \in 0 .. Len(file)] ==
        IF n = 0 THEN [processed |-> 0, strings |-> NoStrings] ELSE Polled(polled[n - 1], file)
  IN RetainString(polled[Len(file)].strings)

-----------------------------------------------------------------------------
InputsInit == text = <<>> /\ use \in {"target", "path", "file"}

\* A key of the editor of the Security screen
Insert ==
  /\ use = "target" /\ Len(text) + 1 < TargetSize
  /\ \E c \in TargetKeys : text' = Append(text, c)
  /\ UNCHANGED use

\* Backspace, a shorter path or file
Erase == Len(text) > 0 /\ text' = SubSeq(text, 1, Len(text) - 1) /\ UNCHANGED use

\* A longer path; one character more than fits.
Extend ==
  /\ use = "path" /\ Len(text) < PathSize
  /\ \E c \in PathCharacters : text' = Append(text, c)
  /\ UNCHANGED use

\* A longer file
Grow ==
  /\ use = "file" /\ Len(text) < FileSize
  /\ \E byte \in FileBytes : text' = Append(text, byte)
  /\ UNCHANGED use

InputsNext == Insert \/ Erase \/ Extend \/ Grow

InputsSpec == InputsInit /\ [][InputsNext]_inputsVars

-----------------------------------------------------------------------------
(* What the texts mean, said without reading them from left to right *)

Before(p, parts) == Cardinality({q \in parts : q[1] < p[1]})
Nth(n, parts) == CHOOSE p \in parts : Before(p, parts) = n

\* Numbers with dots between them, and perhaps one more behind a slash
IsBlock(s) ==
  LET parts == Parts(s, {".", "/"}) IN
  /\ Cardinality(parts) \in {Octets, Octets + 1}
  /\ \A p \in parts :
       /\ Part(s, p) # <<>> /\ \A i \in 1 .. Len(Part(s, p)) : Part(s, p)[i] \in Digits
       /\ Before(p, parts) = 0 \/ s[p[1]] = IF Before(p, parts) < Octets THEN "." ELSE "/"
       /\ Before(p, parts) < Octets =>
            Len(Part(s, p)) <= OctetDigits /\ Number(Part(s, p)) <= MaxOctet
       /\ Before(p, parts) = Octets => Number(Part(s, p)) <= Bits

\* The addresses that agree with the numbers written in as many leading bits
Block(s) ==
  LET parts == Parts(s, {".", "/"})
      number(n) == Number(Part(s, Nth(n, parts)))
      prefix == IF Cardinality(parts) > Octets THEN number(Octets) ELSE Bits
  IN {x \in IPv4 : \A n \in 0 .. Octets - 1 : \A b \in 0 .. OctetBits - 1 :
        n * OctetBits + b < prefix => x[n * OctetBits + b] = Bit(number(n), b)}

\* A prefix that does not fit into an unsigned int is taken modulo its size.
Wraps(s) ==
  \E p \in Parts(s, {"/"}) : p[1] > 0 /\
    LET part == Part(s, p) IN
    (\A i \in 1 .. Len(part) : part[i] \in Digits) /\ Number(part) >= WordSize

IsName(s) ==
  /\ Len(s) >= 3 /\ ~ \E i \in 1 .. Len(s) : s[i] \in {"_", "/"}
  /\ "." \notin {s[1], s[Len(s)]}

TargetAsWritten ==
  use = "target" /\ text # <<>> /\ ~Wraps(text) =>
    LET read == Boundary(text) IN
    /\ read.accepted <=> IsBlock(text) \/ IsName(text)
    /\ read.addresses = IF IsBlock(text) THEN Block(text) ELSE {}
    /\ read.names = IF IsName(text) /\ ~IsBlock(text) THEN {text} ELSE {}

PathWithin ==
  use = "path" =>
    \A allowRoot \in BOOLEAN : ValidPath(text, allowRoot) <=> IsWithin(text, allowRoot)

\* Its strings are the parts between unprintable bytes that are long enough,
\* each shown as far as a run holds it, with blanks between them.
StringsAsFound ==
  use = "file" =>
    LET parts == {p \in Parts(text, {"unprintable"}) : Len(Part(text, p)) >= StringMin}
        cut(s, size) == SubSeq(s, 1, IF Len(s) < size THEN Len(s) ELSE size)
        shown[n \in 0 .. Cardinality(parts)] ==
          IF n = 0 THEN <<>>
          ELSE shown[n - 1] \o (IF n > 1 THEN <<Gap>> ELSE <<>>) \o
               cut(Part(text, Nth(n - 1, parts)), StringSize - 1)
        found == StringsFound(text)
    IN /\ found.count = Cardinality(parts)
       /\ found.preview = cut(shown[Cardinality(parts)], PreviewSize - 1)

\* A scope covers the addresses of the block that was written, or the one name
\* that was, and nothing else is accepted; a path names at most PathDepth
\* components, none of them empty or a way out of its directory; the strings
\* reported of a file are those of the file, wherever its chunks end
\* (engagement.c:8-47, 105-155; storage.c:11-60; evidence.c:46-72, 132-163).
TakenAsWritten == TargetAsWritten /\ PathWithin /\ StringsAsFound
=============================================================================
