---------------------------- MODULE MediaProofs -----------------------------
(***************************************************************************)
(* The safety of the card's life, for any cards and any number of media    *)
(* generations.                                                            *)
(*                                                                         *)
(* OneCard is the interesting one.  A hash goes on over a loss of the      *)
(* keyboard controller and the driver may read another card after it;      *)
(* what keeps the two apart is that the loop polls the job between the     *)
(* check that loses the controller, which marks the service and with it    *)
(* the job's copy, and the check that finds it again: HashInv.             *)
(***************************************************************************)
EXTENDS Media, FiniteSetTheorems, TLAPS

Dead == {"absent", "removed", "changed"}

\* A main loop without a card that can be read has nothing to copy.
MainAgrees ==
  /\ storage.media \in Dead => ~ready /\ root = Nothing
  /\ root # Nothing => root.gen = storage.gen

Marked == ~keyboard => storage.media # "ready"
Polled == ~keyboard /\ loopAt = "health" => analysis # "hashing"
Reading == analysis = "hashing" /\ keyboard => served = NoCard \/ sources \subseteq {served}
Single == \E c \in Cards \cup {NoCard} : sources \subseteq {c}

CopyInv == MediaTypeOK /\ MainAgrees /\ CopyAgrees /\ NothingOfRemovedCard /\ RootIsCurrent
HashInv == Marked /\ Polled /\ Reading /\ Single

-----------------------------------------------------------------------------
(* The service *)

LEMMA BumpedType ==
  ASSUME NEW s \in Service, NEW media \in MediaStates
  PROVE  /\ Bumped(s, media) \in Service
         /\ Bumped(s, media).media = media
BY MediaAssumption DEF Bumped, Service

LEMMA FinishedType ==
  ASSUME NEW s \in Service, NEW answer
  PROVE  /\ Finished(s, answer) \in Service
         /\ Finished(s, answer).gen = s.gen
         /\ Finished(s, answer).media \in {s.media, "error"}
BY DEF Finished, Service, MediaStates

\* Listing the root leaves the main loop's three variables in agreement.
LEMMA RootListedAgrees ==
  ASSUME NEW s \in Service, NEW c \in Cards \cup {NoCard}, NEW at \in RootListed(s, c)
  PROVE  /\ at.storage \in Service /\ at.ready \in BOOLEAN /\ at.root \in Listing
         /\ at.storage.gen = s.gen /\ at.storage.media \in {s.media, "error"}
         /\ at.storage.media \in Dead => ~at.ready /\ at.root = Nothing
         /\ at.root # Nothing => at.root.gen = at.storage.gen
<1> DEFINE failed == Finished(s, "failed")
<1>1. failed \in Service /\ failed.gen = s.gen
  BY FinishedType
<1>2. Nothing \in Listing
  BY MediaAssumption DEF Nothing, Listing
<1>3. s.gen \in 0 .. MediaGenerations - 1 /\ s.media \in MediaStates
  BY DEF Service
<1>4. CASE s.media # "ready"
  <2>1. at = [storage |-> s, ready |-> FALSE, root |-> Nothing]
    BY <1>4 DEF RootListed
  <2> QED  BY <1>2, <2>1
<1>5. CASE s.media = "ready"
  <2>1. failed.media = "error"
    BY <1>5 DEF Finished, Service
  <2>2. \/ /\ at = [storage |-> s, ready |-> TRUE, root |-> [card |-> c, gen |-> s.gen]]
        \/ at = [storage |-> failed, ready |-> FALSE, root |-> [card |-> c, gen |-> s.gen]]
        \/ at = [storage |-> failed, ready |-> FALSE, root |-> Nothing]
    BY <1>5 DEF RootListed
  <2>3. [card |-> c, gen |-> s.gen] \in Listing
    BY <1>3 DEF Listing
  <2> HIDE DEF failed
  <2>4. CASE at = [storage |-> s, ready |-> TRUE, root |-> [card |-> c, gen |-> s.gen]]
    BY <1>5, <2>3, <2>4 DEF Dead
  <2>5. CASE at = [storage |-> failed, ready |-> FALSE, root |-> [card |-> c, gen |-> s.gen]]
    BY <1>1, <2>1, <2>3, <2>5 DEF Dead
  <2>6. CASE at = [storage |-> failed, ready |-> FALSE, root |-> Nothing]
    BY <1>1, <1>2, <2>1, <2>6 DEF Dead
  <2> QED  BY <2>2, <2>4, <2>5, <2>6
<1> QED  BY <1>4, <1>5

\* So does marking it changed, and ready if a card was identified.
LEMMA RelistedAgrees ==
  ASSUME storage \in Service, served' \in Cards \cup {NoCard}, Relisted
  PROVE  /\ storage' \in Service /\ ready' \in BOOLEAN /\ root' \in Listing
         /\ MainAgrees'
<1>1. PICK changed : changed = Bumped(storage, "changed")
  OBVIOUS
<1>2. changed \in Service
  BY <1>1, BumpedType DEF MediaStates
<1>3. PICK s : s = IF served' # NoCard THEN Bumped(changed, "ready") ELSE changed
  OBVIOUS
<1>4. s \in Service
  BY <1>2, <1>3, BumpedType DEF MediaStates
<1>5. PICK at \in RootListed(s, served') :
        storage' = at.storage /\ ready' = at.ready /\ root' = at.root
  BY <1>1, <1>3 DEF Relisted
<1> QED  BY <1>4, <1>5, RootListedAgrees DEF MainAgrees

\* A copy agrees with what it was made from.
LEMMA CopiedAgrees ==
  ASSUME storage' \in Service, ready' \in BOOLEAN, sd' \in BOOLEAN, root' \in Listing,
         shown \in Listing, MainAgrees', Copied, inside \in BOOLEAN
  PROVE  /\ gui' \in [storage : Service, ready : BOOLEAN, sd : BOOLEAN]
         /\ gui'.storage = storage' /\ shown' \in Listing
         /\ CopyAgrees' /\ NothingOfRemovedCard' /\ RootIsCurrent'
<1>1. /\ gui' = [storage |-> storage', ready |-> ready', sd |-> sd']
      /\ shown' = IF ~inside \/ ~ready' THEN root' ELSE shown
      /\ inside' = inside
  BY DEF Copied
<1>2. gui'.storage = storage' /\ gui'.ready = ready'
  BY <1>1
<1>3. CopyAgrees'
  BY <1>2 DEF CopyAgrees
<1>4. NothingOfRemovedCard'
  BY <1>1, <1>2 DEF NothingOfRemovedCard, MainAgrees, Dead
<1>5. RootIsCurrent'
  BY <1>1, <1>2 DEF RootIsCurrent, MainAgrees
<1> QED  BY <1>1, <1>2, <1>3, <1>4, <1>5

\* A call on the GUI's copy keeps what the copies have in common.
LEMMA CallAgrees ==
  ASSUME CopyInv, NEW answer, UNCHANGED <<storage, ready>>,
         gui' = [gui EXCEPT !.storage = Finished(gui.storage, answer)]
  PROVE  /\ gui' \in [storage : Service, ready : BOOLEAN, sd : BOOLEAN]
         /\ gui'.storage.gen = gui.storage.gen
         /\ gui'.storage.media \in {gui.storage.media, "error"}
         /\ gui'.ready = gui.ready
         /\ CopyAgrees'
<1>1. gui \in [storage : Service, ready : BOOLEAN, sd : BOOLEAN]
  BY DEF CopyInv, MediaTypeOK
<1>2. gui' = [storage |-> Finished(gui.storage, answer), ready |-> gui.ready, sd |-> gui.sd]
  BY <1>1
<1> DEFINE f == Finished(gui.storage, answer)
<1>3. /\ f \in Service /\ f.gen = gui.storage.gen
      /\ f.media \in {gui.storage.media, "error"}
  BY <1>1, FinishedType
<1> HIDE DEF f
<1>4. /\ gui' \in [storage : Service, ready : BOOLEAN, sd : BOOLEAN]
      /\ gui'.storage = f /\ gui'.ready = gui.ready
  BY <1>1, <1>2, <1>3 DEF f
<1>5. CopyAgrees'
  BY <1>3, <1>4 DEF CopyAgrees, CopyInv
<1> QED  BY <1>3, <1>4, <1>5

-----------------------------------------------------------------------------
(* The copies agree *)

LEMMA InitCopies == MediaInit => CopyInv
<1> SUFFICES ASSUME MediaInit PROVE CopyInv
  OBVIOUS
<1> DEFINE s0 == IF sd THEN [gen |-> 2 % MediaGenerations, media |-> "ready"]
                 ELSE [gen |-> 1 % MediaGenerations, media |-> "absent"]
<1>1. s0 \in Service
  BY MediaAssumption DEF Service, MediaStates
<1>2. served \in Cards \cup {NoCard} /\ served \in {NoCard, slot}
  BY DEF MediaInit
<1>3. PICK at \in RootListed(s0, served) :
        /\ storage = at.storage /\ ready = at.ready /\ root = at.root
        /\ \E answer \in CardAnswers(storage, served) :
             gui = [storage |-> Finished(storage, answer), ready |-> ready, sd |-> sd]
  BY DEF MediaInit
<1> HIDE DEF s0
<1>4. /\ storage \in Service /\ ready \in BOOLEAN /\ root \in Listing
      /\ MainAgrees
  BY <1>1, <1>2, <1>3, RootListedAgrees DEF MainAgrees
<1>5. PICK answer : gui = [storage |-> Finished(storage, answer), ready |-> ready, sd |-> sd]
  BY <1>3
<1>6. sd \in BOOLEAN
  BY DEF MediaInit
<1> DEFINE f == Finished(storage, answer)
<1>7. f \in Service /\ f.gen = storage.gen /\ f.media \in {storage.media, "error"}
  BY <1>4, FinishedType
<1> HIDE DEF f
<1>8. /\ gui = [storage |-> f, ready |-> ready, sd |-> sd]
      /\ gui.storage = f /\ gui.ready = ready
  BY <1>5 DEF f
<1>9. gui \in [storage : Service, ready : BOOLEAN, sd : BOOLEAN]
  BY <1>4, <1>6, <1>7, <1>8
<1>10. MediaTypeOK
  <2>1. shown \in Listing
    BY <1>4 DEF MediaInit
  <2>2. keyboard \in BOOLEAN /\ cable \in BOOLEAN /\ inside \in BOOLEAN
    BY DEF MediaInit
  <2>3. empty \in BOOLEAN /\ located \in BOOLEAN /\ sources \subseteq Cards
    BY DEF MediaInit
  <2>4. unread \in 0 .. MaxChunks + MaxRecords
    BY MediaAssumption DEF MediaInit
  <2>5. /\ analysis \in {"idle", "hashing", "parsing", "complete", "cancelled", "error"}
        /\ loopAt \in {"keys", "evidence", "health"} /\ slot \in Cards \cup {NoCard}
    BY DEF MediaInit
  <2> QED  BY <1>2, <1>4, <1>6, <1>9, <2>1, <2>2, <2>3, <2>4, <2>5 DEF MediaTypeOK
<1>11. CopyAgrees
  BY <1>7, <1>8 DEF CopyAgrees
<1>12. shown = root
  BY DEF MediaInit
<1>13. NothingOfRemovedCard
  BY <1>4, <1>7, <1>8, <1>12 DEF NothingOfRemovedCard, MainAgrees, Dead
<1>14. RootIsCurrent
  BY <1>4, <1>7, <1>8, <1>12 DEF RootIsCurrent, MainAgrees
<1> QED  BY <1>4, <1>10, <1>11, <1>13, <1>14 DEF CopyInv

LEMMA StepCopies == CopyInv /\ [MediaNext]_mediaVars => CopyInv'
<1> SUFFICES ASSUME CopyInv, [MediaNext]_mediaVars PROVE CopyInv'
  OBVIOUS
<1> USE DEF CopyInv
\* What a step keeps when it only copies what the main loop has
<1>1. ASSUME Copied, MainAgrees', storage' \in Service, ready' \in BOOLEAN,
             sd' \in BOOLEAN, root' \in Listing
      PROVE  /\ gui' \in [storage : Service, ready : BOOLEAN, sd : BOOLEAN]
             /\ shown' \in Listing /\ UNCHANGED inside
             /\ CopyAgrees' /\ NothingOfRemovedCard' /\ RootIsCurrent'
  BY <1>1, CopiedAgrees DEF MediaTypeOK, Copied
<1>2. /\ Bumped(storage, "removed") \in Service
      /\ Bumped(storage, "removed").media = "removed"
  BY BumpedType DEF MediaTypeOK, MediaStates
<1>3. Nothing \in Listing
  BY MediaAssumption DEF Nothing, Listing
<1>4. CASE SafeRemove
  <2>1. /\ storage' \in Service /\ ready' = FALSE /\ root' \in Listing /\ sd' \in BOOLEAN
        /\ MainAgrees'
    BY <1>2, <1>3, <1>4 DEF SafeRemove, MainAgrees, MediaTypeOK
  <2>2. Copied
    BY <1>4 DEF SafeRemove
  <2> QED  BY <1>1, <1>4, <2>1, <2>2 DEF SafeRemove, evidence, MediaTypeOK
<1>5. CASE Rescan
  <2>1. served' \in Cards \cup {NoCard} /\ sd' \in BOOLEAN /\ served' \in {NoCard, slot'}
    BY <1>5 DEF Rescan, Identify, MediaTypeOK
  <2>2. /\ storage' \in Service /\ ready' \in BOOLEAN /\ root' \in Listing
        /\ MainAgrees'
    BY <1>5, <2>1, RelistedAgrees DEF Rescan, MediaTypeOK
  <2>3. Copied
    BY <1>5 DEF Rescan
  <2> QED  BY <1>1, <1>5, <2>1, <2>2, <2>3 DEF Rescan, Identify, evidence, MediaTypeOK
<1>6. CASE OpenDirectory
  <2>1. PICK answer \in CardAnswers(gui.storage, served) :
          /\ gui' = [gui EXCEPT !.storage = Finished(gui.storage, answer)]
          /\ IF answer = "ok"
             THEN inside' = TRUE /\ shown' = [card |-> served, gen |-> gui.storage.gen]
             ELSE UNCHANGED <<inside, shown>>
    BY <1>6 DEF OpenDirectory
  <2>2. UNCHANGED <<card, main, evidence>> /\ loopAt' = "evidence"
    BY <1>6 DEF OpenDirectory
  <2>3. /\ gui' \in [storage : Service, ready : BOOLEAN, sd : BOOLEAN]
        /\ gui'.storage.gen = gui.storage.gen
        /\ gui'.storage.media \in {gui.storage.media, "error"}
        /\ CopyAgrees'
    BY <2>1, <2>2, CallAgrees DEF main
  <2>4. shown' \in Listing /\ inside' \in BOOLEAN
    <3>1. gui.storage.gen \in 0 .. MediaGenerations - 1 /\ served \in Cards \cup {NoCard}
      BY DEF MediaTypeOK, Service
    <3>2. [card |-> served, gen |-> gui.storage.gen] \in Listing
      BY <3>1 DEF Listing
    <3>3. CASE answer = "ok"
      BY <2>1, <3>2, <3>3
    <3>4. CASE answer # "ok"
      BY <2>1, <3>4 DEF MediaTypeOK
    <3> QED  BY <3>3, <3>4
  <2>5. answer = "ok" => gui.storage.media = "ready"
    BY <2>1 DEF CardAnswers
  <2>6. NothingOfRemovedCard'
    BY <2>1, <2>3, <2>5 DEF NothingOfRemovedCard
  <2>7. RootIsCurrent'
    BY <2>1, <2>3 DEF RootIsCurrent
  <2> QED  BY <2>2, <2>3, <2>4, <2>6, <2>7 DEF MediaTypeOK, MainAgrees, card, main, evidence
<1>7. CASE EscapeDirectory
  <2>1. PICK answer \in CardAnswers(gui.storage, served) :
          /\ gui' = [gui EXCEPT !.storage = Finished(gui.storage, answer)]
          /\ shown' = IF answer = "ok" THEN [card |-> served, gen |-> gui.storage.gen]
                      ELSE Nothing
    BY <1>7 DEF EscapeDirectory
  <2>2. UNCHANGED <<card, main, evidence>> /\ loopAt' = "evidence" /\ inside' \in BOOLEAN
    BY <1>7 DEF EscapeDirectory
  <2>3. /\ gui' \in [storage : Service, ready : BOOLEAN, sd : BOOLEAN]
        /\ gui'.storage.gen = gui.storage.gen
        /\ gui'.storage.media \in {gui.storage.media, "error"}
        /\ CopyAgrees'
    BY <2>1, <2>2, CallAgrees DEF main
  <2>4. shown' \in Listing
    BY <2>1, <1>3 DEF MediaTypeOK, Listing, Service
  <2>5. answer = "ok" => gui.storage.media = "ready"
    BY <2>1 DEF CardAnswers
  <2>6. NothingOfRemovedCard'
    BY <2>1, <2>3, <2>5 DEF NothingOfRemovedCard
  <2>7. RootIsCurrent'
    <3>1. shown' = Nothing \/ shown' = [card |-> served, gen |-> gui.storage.gen]
      BY <2>1
    <3> QED  BY <2>3, <3>1 DEF RootIsCurrent
  <2> QED  BY <2>2, <2>3, <2>4, <2>6, <2>7 DEF MediaTypeOK, MainAgrees, card, main, evidence
\* A read through the GUI's copy, of a file shown or of the evidence
<1>8. ASSUME NEW answer, gui' = [gui EXCEPT !.storage = Finished(gui.storage, answer)],
             UNCHANGED <<main, shown, inside>>
      PROVE  /\ gui' \in [storage : Service, ready : BOOLEAN, sd : BOOLEAN]
             /\ MainAgrees' /\ CopyAgrees' /\ NothingOfRemovedCard' /\ RootIsCurrent'
  <2>1. /\ gui' \in [storage : Service, ready : BOOLEAN, sd : BOOLEAN]
        /\ gui'.storage.gen = gui.storage.gen
        /\ gui'.storage.media \in {gui.storage.media, "error"}
        /\ CopyAgrees'
    BY <1>8, CallAgrees DEF main
  <2> QED  BY <1>8, <2>1 DEF MainAgrees, NothingOfRemovedCard, RootIsCurrent, main
<1>9. CASE ViewFile
  <2>1. PICK answer \in CardAnswers(gui.storage, served) :
          gui' = [gui EXCEPT !.storage = Finished(gui.storage, answer)]
    BY <1>9 DEF ViewFile
  <2>2. UNCHANGED <<card, main, shown, inside, evidence>> /\ loopAt' = "evidence"
    BY <1>9 DEF ViewFile
  <2> QED  BY <1>8, <2>1, <2>2 DEF MediaTypeOK, card, main, evidence
<1>10. CASE StartEvidence \/ CancelEvidence \/ OtherKey
  <2>1. UNCHANGED <<card, main, files>> /\ loopAt' = "evidence"
    BY <1>10 DEF StartEvidence, CancelEvidence, OtherKey
  <2>2. /\ analysis' \in {"idle", "hashing", "parsing", "complete", "cancelled", "error"}
        /\ empty' \in BOOLEAN /\ sources' \subseteq Cards /\ located' \in BOOLEAN
        /\ unread' \in 0 .. MaxChunks + MaxRecords
    <3>1. CASE StartEvidence
      <4>1. unread' \in 0 .. MaxChunks + MaxRecords
        BY <3>1, MediaAssumption DEF StartEvidence
      <4>2. empty' \in BOOLEAN /\ sources' \subseteq Cards /\ located' \in BOOLEAN
        BY <3>1, Zenon DEF StartEvidence
      <4> QED  BY <3>1, <4>1, <4>2 DEF StartEvidence
    <3>2. CASE CancelEvidence
      BY <3>2 DEF CancelEvidence, MediaTypeOK
    <3>3. CASE OtherKey
      BY <3>3 DEF OtherKey, evidence, MediaTypeOK
    <3> QED  BY <1>10, <3>1, <3>2, <3>3
  <2> QED
    BY <2>1, <2>2 DEF MediaTypeOK, MainAgrees, CopyAgrees, NothingOfRemovedCard, RootIsCurrent,
                      card, main, files
<1>11. CASE EvidencePoll
  <2>1. UNCHANGED <<card, main, shown, inside, empty>> /\ loopAt' = "health"
    BY <1>11 DEF EvidencePoll
  <2>2. /\ analysis' \in {"idle", "hashing", "parsing", "complete", "cancelled", "error"}
        /\ sources' \subseteq Cards /\ located' \in BOOLEAN
        /\ unread' \in 0 .. MaxChunks + MaxRecords
    <3>1. CASE PollHash
      <4>1. ReadAt("ok") => served \in Cards
        BY DEF ReadAt, CardAnswers, MediaTypeOK
      <4> QED  BY <3>1, <4>1, MediaAssumption DEF PollHash, MediaTypeOK
    <3>2. CASE IdentifyCapture
      <4>1. unread' \in 0 .. MaxChunks + MaxRecords
        BY <3>2, MediaAssumption DEF IdentifyCapture, MediaTypeOK
      <4>2. located' \in BOOLEAN /\ sources' \subseteq Cards
        BY <3>2, Zenon DEF IdentifyCapture, MediaTypeOK
      <4>3. analysis' \in {"parsing", "complete", "error"}
        BY <3>2 DEF IdentifyCapture
      <4> QED  BY <4>1, <4>2, <4>3
    <3>3. CASE PollCapture
      BY <3>3, MediaAssumption DEF PollCapture, MediaTypeOK
    <3>4. CASE ~Running /\ UNCHANGED <<analysis, sources, unread, located, gui>>
      BY <3>4 DEF MediaTypeOK
    <3> QED  BY <1>11, <3>1, <3>2, <3>3, <3>4 DEF EvidencePoll
  <2>3. \/ \E answer : gui' = [gui EXCEPT !.storage = Finished(gui.storage, answer)]
        \/ UNCHANGED gui
    BY <1>11 DEF EvidencePoll, PollHash, IdentifyCapture, PollCapture, ReadAt
  <2>4. CASE \E answer : gui' = [gui EXCEPT !.storage = Finished(gui.storage, answer)]
    BY <1>8, <2>1, <2>2, <2>4 DEF MediaTypeOK, card, main
  <2>5. CASE UNCHANGED gui
    BY <2>1, <2>2, <2>5 DEF MediaTypeOK, MainAgrees, CopyAgrees, NothingOfRemovedCard,
                            RootIsCurrent, card, main
  <2> QED  BY <2>3, <2>4, <2>5
<1>12. CASE Health
  <2>1. loopAt' = "keys" /\ UNCHANGED evidence
    BY <1>12 DEF Health
  <2>2. CASE KeyboardLost
    <3>1. /\ storage' \in Service /\ ready' = FALSE /\ root' \in Listing /\ sd' = FALSE
          /\ MainAgrees'
      BY <1>2, <1>3, <2>2 DEF KeyboardLost, MainAgrees
    <3>2. Copied
      BY <2>2 DEF KeyboardLost
    <3> QED  BY <1>1, <2>1, <2>2, <3>1, <3>2 DEF KeyboardLost, card, evidence, MediaTypeOK
  <2>3. CASE KeyboardBack
    <3>1. served' \in Cards \cup {NoCard} /\ sd' \in BOOLEAN /\ served' \in {NoCard, slot'}
      BY <2>3 DEF KeyboardBack, Identify, MediaTypeOK
    <3>2. /\ storage' \in Service /\ ready' \in BOOLEAN /\ root' \in Listing
          /\ MainAgrees'
      BY <2>3, <3>1, RelistedAgrees DEF KeyboardBack, MediaTypeOK
    <3>3. Copied
      BY <2>3 DEF KeyboardBack
    <3> QED
      BY <1>1, <2>1, <2>3, <3>1, <3>2, <3>3 DEF KeyboardBack, Identify, evidence, MediaTypeOK
  <2>4. CASE BatteryChanged
    <3>1. /\ storage' \in Service /\ ready' \in BOOLEAN /\ root' \in Listing /\ sd' \in BOOLEAN
          /\ MainAgrees'
      BY <2>4 DEF BatteryChanged, MainAgrees, main, MediaTypeOK
    <3>2. Copied
      BY <2>4 DEF BatteryChanged
    <3> QED  BY <1>1, <2>1, <2>4, <3>1, <3>2 DEF BatteryChanged, card, main, evidence, MediaTypeOK
  <2>5. CASE UNCHANGED <<card, main, files>>
    BY <2>1, <2>5 DEF MediaTypeOK, MainAgrees, CopyAgrees, NothingOfRemovedCard, RootIsCurrent,
                      card, main, files, evidence
  <2> QED  BY <1>12, <2>2, <2>3, <2>4, <2>5 DEF Health
<1>13. CASE Insert \/ TakeOut \/ CableChange
  <2>1. UNCHANGED <<main, files, evidence, loopAt>>
    BY <1>13 DEF Insert, TakeOut, CableChange
  <2>2. /\ slot' \in Cards \cup {NoCard} /\ served' \in {NoCard, slot'} /\ cable' \in BOOLEAN
    BY <1>13 DEF Insert, TakeOut, CableChange, MediaTypeOK
  <2> QED
    BY <2>1, <2>2 DEF MediaTypeOK, MainAgrees, CopyAgrees, NothingOfRemovedCard, RootIsCurrent,
                      main, files, evidence
<1>14. CASE Refreshed
  <2>1. /\ storage' \in Service /\ ready' \in BOOLEAN /\ root' \in Listing /\ sd' \in BOOLEAN
        /\ MainAgrees'
    BY <1>14 DEF Refreshed, MainAgrees, main, MediaTypeOK
  <2>2. Copied
    BY <1>14 DEF Refreshed
  <2> QED  BY <1>1, <1>14, <2>1, <2>2 DEF Refreshed, card, main, evidence, MediaTypeOK
<1>15. CASE UNCHANGED mediaVars
  BY <1>15 DEF MediaTypeOK, MainAgrees, CopyAgrees, NothingOfRemovedCard, RootIsCurrent,
               mediaVars, card, main, files, evidence
<1> QED
  BY <1>4, <1>5, <1>6, <1>7, <1>9, <1>10, <1>11, <1>12, <1>13, <1>14, <1>15
  DEF MediaNext, Loop, FileKeys

-----------------------------------------------------------------------------
(* The hash *)

\* What a key does to the job: a job starts with no bytes of any card.
LEMMA KeysHash ==
  ASSUME CopyInv, HashInv, FileKeys
  PROVE  HashInv'
<1>1. CASE StartEvidence
  <2>1. keyboard' = TRUE /\ sources' = {} /\ loopAt' = "evidence"
    BY <1>1 DEF StartEvidence, Pressing, main, CopyInv, MediaTypeOK
  <2> QED  BY <2>1 DEF HashInv, Marked, Polled, Reading, Single
<1>2. CASE FileKeys /\ ~StartEvidence /\ ~OtherKey
  <2>1. keyboard /\ UNCHANGED <<keyboard, sources>> /\ loopAt' = "evidence" /\ analysis' # "hashing"
    BY <1>2 DEF FileKeys, SafeRemove, Rescan, OpenDirectory, EscapeDirectory, ViewFile,
                CancelEvidence, Pressing, Running, main, evidence
  <2> QED  BY <2>1 DEF HashInv, Marked, Polled, Reading, Single
<1>3. CASE OtherKey
  BY <1>3 DEF OtherKey, HashInv, Marked, Polled, Reading, Single, card, main, files, evidence
<1> QED  BY <1>1, <1>2, <1>3

LEMMA StepHash == CopyInv /\ HashInv /\ [MediaNext]_mediaVars => HashInv'
<1> SUFFICES ASSUME CopyInv, HashInv, [MediaNext]_mediaVars PROVE HashInv'
  OBVIOUS
<1>1. CASE FileKeys
  BY <1>1, KeysHash
<1>2. CASE EvidencePoll
  <2>1. UNCHANGED <<served, keyboard, storage, ready>> /\ loopAt' = "health"
    BY <1>2 DEF EvidencePoll, card, main
  <2>2. CASE PollHash
    <3>1. CASE unread > 0 /\ ReadAt("ok")
      <4>1. gui.storage.media = "ready" /\ served # NoCard
        BY <3>1 DEF ReadAt, CardAnswers
      <4>2. keyboard
        BY <4>1 DEF HashInv, Marked, CopyInv, CopyAgrees
      <4>3. sources \subseteq {served} /\ served \in Cards
        BY <2>2, <4>1, <4>2 DEF PollHash, HashInv, Reading, CopyInv, MediaTypeOK
      <4>4. sources' \subseteq sources \cup {served}
        BY <2>2 DEF PollHash
      <4> QED
        BY <2>1, <4>2, <4>3, <4>4 DEF HashInv, Marked, Polled, Reading, Single
    <3>2. CASE analysis' # "hashing" /\ UNCHANGED sources
      BY <2>1, <3>2 DEF HashInv, Marked, Polled, Reading, Single
    <3> QED  BY <2>2, <3>1, <3>2 DEF PollHash
  <2>3. CASE ~PollHash
    <3>1. analysis' # "hashing" /\ UNCHANGED sources
      BY <1>2, <2>3 DEF EvidencePoll, IdentifyCapture, PollCapture, Running
    <3> QED  BY <2>1, <3>1 DEF HashInv, Marked, Polled, Reading, Single
  <2> QED  BY <2>2, <2>3
<1>3. CASE Health
  <2>1. loopAt' = "keys" /\ UNCHANGED <<analysis, sources>>
    BY <1>3 DEF Health, evidence
  <2>2. CASE KeyboardLost
    <3>1. ~keyboard' /\ storage'.media = "removed"
      BY <2>2, BumpedType DEF KeyboardLost, CopyInv, MediaTypeOK, MediaStates
    <3> QED  BY <2>1, <3>1 DEF HashInv, Marked, Polled, Reading, Single
  \* The job was polled between the two checks, and its read was refused.
  <2>3. CASE KeyboardBack
    <3>1. ~keyboard /\ keyboard' /\ loopAt = "health"
      BY <1>3, <2>3 DEF Health, KeyboardBack
    <3>2. analysis # "hashing"
      BY <3>1 DEF HashInv, Polled
    <3> QED  BY <2>1, <3>1, <3>2 DEF HashInv, Marked, Polled, Reading, Single
  <2>4. CASE BatteryChanged
    <3>1. UNCHANGED <<keyboard, storage, served>>
      BY <2>4 DEF BatteryChanged, card, main
    <3> QED  BY <2>1, <3>1 DEF HashInv, Marked, Polled, Reading, Single
  <2>5. CASE UNCHANGED <<card, main, files>>
    BY <2>1, <2>5 DEF HashInv, Marked, Polled, Reading, Single, card, main, files
  <2> QED  BY <1>3, <2>2, <2>3, <2>4, <2>5 DEF Health
<1>4. CASE Insert \/ TakeOut \/ CableChange \/ Refreshed
  <2>1. /\ UNCHANGED <<keyboard, storage, analysis, sources, loopAt>>
        /\ served' \in {served, NoCard}
    BY <1>4 DEF Insert, TakeOut, CableChange, Refreshed, card, main, evidence
  <2> QED  BY <2>1 DEF HashInv, Marked, Polled, Reading, Single
<1>5. CASE UNCHANGED mediaVars
  BY <1>5 DEF HashInv, Marked, Polled, Reading, Single, mediaVars, card, main, evidence
<1> QED  BY <1>1, <1>2, <1>3, <1>4, <1>5 DEF MediaNext, Loop

LEMMA InitHash == MediaInit => HashInv
<1> SUFFICES ASSUME MediaInit PROVE HashInv
  OBVIOUS
<1>1. sources = {} /\ analysis = "idle"
  BY DEF MediaInit
\* A card is identified only behind a keyboard controller that answers.
<1>2. ~keyboard => storage.media # "ready"
  <2> SUFFICES ASSUME ~keyboard PROVE storage.media # "ready"
    OBVIOUS
  <2>1. ~sd
    BY DEF MediaInit
  <2> DEFINE s0 == [gen |-> 1 % MediaGenerations, media |-> "absent"]
  <2>2. PICK at \in RootListed(s0, served) : storage = at.storage
    BY <2>1 DEF MediaInit
  <2>3. storage = s0
    BY <2>2 DEF RootListed
  <2> QED  BY <2>3
<1> QED  BY <1>1, <1>2 DEF HashInv, Marked, Polled, Reading, Single

-----------------------------------------------------------------------------
(* The theorems *)

\* For any cards and any number of generations, every variable keeps its type.
THEOREM TypeCorrect == MediaSpec => []MediaTypeOK
<1>1. CopyInv => MediaTypeOK
  BY DEF CopyInv
<1> QED  BY <1>1, InitCopies, StepCopies, PTL DEF MediaSpec

\* The GUI's copy of the service is of the main loop's generation and differs
\* at most by an error (main.c:422-429, 533-544).
THEOREM CopyAgreesHolds == MediaSpec => []CopyAgrees
<1>1. CopyInv => CopyAgrees
  BY DEF CopyInv
<1> QED  BY <1>1, InitCopies, StepCopies, PTL DEF MediaSpec

\* Nothing is shown of a card that was removed or not found, in whatever
\* directory the user was (gui.c:1118-1142).
THEOREM NothingOfRemovedCardHolds == MediaSpec => []NothingOfRemovedCard
<1>1. CopyInv => NothingOfRemovedCard
  BY DEF CopyInv
<1> QED  BY <1>1, InitCopies, StepCopies, PTL DEF MediaSpec

\* The root that is shown was listed under the reported generation
\* (gui.c:857, 1213).
THEOREM RootIsCurrentHolds == MediaSpec => []RootIsCurrent
<1>1. CopyInv => RootIsCurrent
  BY DEF CopyInv
<1> QED  BY <1>1, InitCopies, StepCopies, PTL DEF MediaSpec

\* The bytes that a digest covers are of one card, however the keyboard
\* controller and the cards come and go while a file is hashed
\* (main.c:495-546, evidence.c:146-163).
THEOREM OneCardHolds == MediaSpec => []OneCard
<1>1. HashInv => OneCard
  <2> SUFFICES ASSUME HashInv PROVE OneCard
    OBVIOUS
  <2>1. PICK c : sources \subseteq {c}
    BY DEF HashInv, Single
  <2>2. IsFiniteSet({c}) /\ Cardinality({c}) = 1
    BY FS_Singleton
  <2>3. Cardinality(sources) <= Cardinality({c})
    BY <2>1, <2>2, FS_Subset
  <2> QED  BY <2>2, <2>3 DEF OneCard
<1> QED  BY <1>1, InitCopies, StepCopies, InitHash, StepHash, PTL DEF MediaSpec
=============================================================================
