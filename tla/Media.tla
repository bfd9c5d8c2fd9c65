------------------------------- MODULE Media --------------------------------
(***************************************************************************)
(* The SD card as the main loop (os/src/main.c), the storage service       *)
(* (services/storage), the files screens and the evidence job see it.      *)
(*                                                                         *)
(* The main loop owns the service record and a listing of the root, and    *)
(* copies both into the GUI's state, on whose copy the files screens and   *)
(* the evidence job read the card and leave their errors.  No interrupt    *)
(* tells of a card that is swapped: only a rescan, or a keyboard           *)
(* controller that comes back, identifies the card anew.                   *)
(***************************************************************************)
EXTENDS Naturals, FiniteSets

CONSTANTS
  Cards,        \* the cards that a user has
  NoCard,
  MediaGenerations,  \* the values of media_generation, 2^32 in the code
  MaxChunks,    \* bound: the chunks of a file that is hashed
  MaxRecords    \* bound: the records of a capture

ASSUME MediaAssumption ==
  /\ NoCard \notin Cards
  /\ MediaGenerations \in Nat \ {0} /\ MaxChunks \in Nat /\ MaxRecords \in Nat

VARIABLES
  slot,      \* the card in the slot
  cable,     \* the keyboard controller answers
  served,    \* the card that the driver reads: identified, and not taken out since
  keyboard,  \* keyboard_ready
  sd,        \* sd_info.status = PICOPEN_SD_READY
  storage,   \* storage_service: its media_generation and media_state
  ready,     \* storage_ready
  root,      \* storage_listing: the card and the generation that it lists
  gui,       \* gui_state: its copies of service, ready and the SD device's state
  shown,     \* file_listing
  inside,    \* file_path is not "/"
  analysis,       \* the evidence job's state
  empty,     \* the job's file has size 0
  sources,   \* history: the cards that the bytes hashed come from
  unread,      \* chunks still to hash, then records still to parse
  located,   \* parse_offset # 0
  loopAt       \* where the main loop is

card == <<slot, cable, served>>
main == <<keyboard, sd, storage, ready, root>>
files == <<gui, shown, inside>>
evidence == <<analysis, empty, sources, unread, located>>
mediaVars == <<card, main, files, evidence, loopAt>>

MediaStates == {"absent", "ready", "removed", "changed", "error"}
Service == [gen : 0 .. MediaGenerations - 1, media : MediaStates]
Listing == [card : Cards \cup {NoCard}, gen : 0 .. MediaGenerations - 1]
Nothing == [card |-> NoCard, gen |-> 0]
Running == analysis \in {"hashing", "parsing"}

MediaTypeOK ==
  /\ slot \in Cards \cup {NoCard} /\ served \in {NoCard, slot}
  /\ cable \in BOOLEAN /\ keyboard \in BOOLEAN /\ sd \in BOOLEAN
  /\ storage \in Service /\ ready \in BOOLEAN
  /\ root \in Listing /\ shown \in Listing
  /\ gui \in [storage : Service, ready : BOOLEAN, sd : BOOLEAN]
  /\ inside \in BOOLEAN
  /\ analysis \in {"idle", "hashing", "parsing", "complete", "cancelled", "error"}
  /\ empty \in BOOLEAN /\ sources \subseteq Cards
  /\ unread \in 0 .. MaxChunks + MaxRecords /\ located \in BOOLEAN
  /\ loopAt \in {"keys", "evidence", "health"}

-----------------------------------------------------------------------------
(* The storage service *)

\* ++media_generation
Bumped(s, media) == [gen |-> (s.gen + 1) % MediaGenerations, media |-> media]

\* What a call on service s says when the driver reads card c: "missing" and
\* "short" are a card's answers, "failed" is a corrupt volume or an I/O error.
CardAnswers(s, c) ==
  IF s.media # "ready" THEN {"notready"}
  ELSE IF c = NoCard THEN {"failed"}
  ELSE {"ok", "short", "missing", "failed"}

\* finish(): after a failure the service takes no further call.
Finished(s, answer) == IF answer = "failed" THEN [s EXCEPT !.media = "error"] ELSE s

\* picopen_storage_list_directory("/"): service, readiness and listing
\* afterwards; a directory read that fails half way leaves what it has.
RootListed(s, c) ==
  IF s.media # "ready" THEN {[storage |-> s, ready |-> FALSE, root |-> Nothing]}
  ELSE (IF c = NoCard THEN {} ELSE
        {[storage |-> s, ready |-> TRUE, root |-> [card |-> c, gen |-> s.gen]],
         [storage |-> Finished(s, "failed"), ready |-> FALSE,
          root |-> [card |-> c, gen |-> s.gen]]})
       \cup {[storage |-> Finished(s, "failed"), ready |-> FALSE, root |-> Nothing]}

\* main() up to the loop: the card is identified, its root listed and, on the
\* GUI's copy of the service, its packages; any of it can fail.
MediaInit ==
  /\ slot \in Cards \cup {NoCard} /\ cable \in BOOLEAN
  /\ keyboard \in {FALSE, cable}
  /\ served \in {NoCard} \cup (IF keyboard THEN {slot} ELSE {})
  /\ sd = (served # NoCard)
  /\ \E at \in RootListed(IF sd THEN [gen |-> 2 % MediaGenerations, media |-> "ready"]
                          ELSE [gen |-> 1 % MediaGenerations, media |-> "absent"], served) :
       /\ storage = at.storage /\ ready = at.ready /\ root = at.root
       /\ \E answer \in CardAnswers(storage, served) :
            gui = [storage |-> Finished(storage, answer), ready |-> ready, sd |-> sd]
  /\ shown = root /\ inside = FALSE
  /\ analysis = "idle" /\ empty = TRUE /\ sources = {} /\ unread = 0 /\ located = FALSE
  /\ loopAt = "keys"

-----------------------------------------------------------------------------
(* The hardware *)

Insert ==
  /\ slot = NoCard /\ slot' \in Cards
  /\ UNCHANGED <<cable, served, main, files, evidence, loopAt>>

\* A card that is taken out loses power and does not answer when put back.
TakeOut ==
  /\ slot # NoCard /\ slot' = NoCard /\ served' = NoCard
  /\ UNCHANGED <<cable, main, files, evidence, loopAt>>

CableChange ==
  /\ cable' = ~cable
  /\ UNCHANGED <<slot, served, main, files, evidence, loopAt>>

\* picopen_sd_identify(), which may fail with a card in the slot
Identify ==
  /\ served' \in {NoCard, slot}
  /\ sd' = (served' # NoCard)
  /\ UNCHANGED <<slot, cable>>

-----------------------------------------------------------------------------
(* The copies *)

\* Mutant: the listing of a subdirectory outlives the card.
CopiedAtRoot ==
  /\ gui' = [storage |-> storage', ready |-> ready', sd |-> sd']
  /\ shown' = IF ~inside THEN root' ELSE shown
  /\ UNCHANGED inside

\* picopen_shell_update_state() and picopen_gui_update_state()
Copied ==
  /\ gui' = [storage |-> storage', ready |-> ready', sd |-> sd']
  /\ shown' = IF ~inside \/ ~ready' THEN root' ELSE shown
  /\ UNCHANGED inside

\* A service marked changed, then ready if the card was identified
Relisted ==
  LET changed == Bumped(storage, "changed") IN
  \E at \in RootListed(IF served' # NoCard THEN Bumped(changed, "ready") ELSE changed, served') :
    storage' = at.storage /\ ready' = at.ready /\ root' = at.root

-----------------------------------------------------------------------------
(* Keys.  While the evidence job runs its screen takes no key but Escape,  *)
(* which cancels the job (CancelledWhenLeft of Gui).                       *)

Pressing == loopAt = "keys" /\ keyboard /\ cable /\ ~Running

SafeRemove ==
  /\ Pressing /\ loopAt' = "evidence"
  /\ served' = NoCard /\ UNCHANGED <<slot, cable>>  \* picopen_sd_close()
  /\ storage' = Bumped(storage, "removed")
  /\ ready' = FALSE /\ root' = Nothing
  /\ UNCHANGED <<keyboard, sd>>
  /\ Copied
  /\ UNCHANGED evidence

Rescan ==
  /\ Pressing /\ loopAt' = "evidence"
  /\ Identify /\ Relisted
  /\ UNCHANGED keyboard
  /\ Copied
  /\ UNCHANGED evidence

\* Enter on a directory, listed with the GUI's own service
OpenDirectory ==
  /\ Pressing /\ loopAt' = "evidence"
  /\ shown.card # NoCard
  /\ \E answer \in CardAnswers(gui.storage, served) :
       /\ gui' = [gui EXCEPT !.storage = Finished(gui.storage, answer)]
       /\ IF answer = "ok"
          THEN inside' = TRUE /\ shown' = [card |-> served, gen |-> gui.storage.gen]
          ELSE UNCHANGED <<inside, shown>>
  /\ UNCHANGED <<card, main, evidence>>

\* Mutant: the parent is not listed.
EscapeDirectoryUnlisted ==
  /\ Pressing /\ loopAt' = "evidence"
  /\ inside /\ inside' \in BOOLEAN
  /\ UNCHANGED <<card, main, gui, shown, evidence>>

EscapeDirectory ==
  /\ Pressing /\ loopAt' = "evidence"
  /\ inside /\ inside' \in BOOLEAN
  /\ \E answer \in CardAnswers(gui.storage, served) :
       /\ gui' = [gui EXCEPT !.storage = Finished(gui.storage, answer)]
       /\ shown' = IF answer = "ok" THEN [card |-> served, gen |-> gui.storage.gen]
                   ELSE Nothing
  /\ UNCHANGED <<card, main, evidence>>

ViewFile ==
  /\ Pressing /\ loopAt' = "evidence"
  /\ shown.card # NoCard
  /\ \E answer \in CardAnswers(gui.storage, served) :
       gui' = [gui EXCEPT !.storage = Finished(gui.storage, answer)]
  /\ UNCHANGED <<card, main, shown, inside, evidence>>

\* picopen_evidence_start(), with the size that the listing gives the file
StartEvidence ==
  /\ Pressing /\ loopAt' = "evidence"
  /\ shown.card # NoCard
  /\ analysis' = "hashing" /\ unread' \in 0 .. MaxChunks
  /\ empty' = (unread' = 0) /\ sources' = {} /\ located' = FALSE
  /\ UNCHANGED <<card, main, files>>

CancelEvidence ==
  /\ loopAt = "keys" /\ keyboard /\ cable /\ Running
  /\ loopAt' = "evidence" /\ analysis' = "cancelled"
  /\ UNCHANGED <<card, main, files, empty, sources, unread, located>>

OtherKey ==
  /\ loopAt = "keys" /\ loopAt' = "evidence"
  /\ UNCHANGED <<card, main, files, evidence>>

\* The network's state or the engagement has changed, and everything is copied
\* with it, whether or not the keyboard answers.
Refreshed ==
  /\ loopAt = "evidence"
  /\ UNCHANGED <<card, main, evidence, loopAt>>
  /\ Copied

-----------------------------------------------------------------------------
(* picopen_evidence_poll() *)

\* read_at(): a read through the GUI's copy of the service
ReadAt(answer) ==
  /\ answer \in CardAnswers(gui.storage, served)
  /\ gui' = [gui EXCEPT !.storage = Finished(gui.storage, answer)]

PollHash ==
  /\ analysis = "hashing"
  /\ \/ /\ unread = 0 /\ analysis' \in {"parsing", "error"}  \* finish_hash()
        /\ UNCHANGED <<sources, unread, gui>>
     \/ /\ unread > 0 /\ ReadAt("ok")
        /\ unread' = unread - 1 /\ sources' = sources \cup {served}
        /\ UNCHANGED analysis
     \/ /\ unread > 0 /\ \E answer \in {"short", "missing", "failed", "notready"} : ReadAt(answer)
        /\ analysis' = "error" /\ UNCHANGED <<sources, unread>>
  /\ UNCHANGED located

\* identify_capture(): a file that starts like no capture is complete, one
\* that is empty too, one that starts like a broken capture is in error.
IdentifyCapture ==
  /\ analysis = "parsing" /\ ~located
  /\ \/ /\ ReadAt("ok")
        /\ \/ analysis' \in {"complete", "error"} /\ UNCHANGED <<unread, located>>
           \/ unread' \in 0 .. MaxRecords /\ located' = TRUE /\ UNCHANGED analysis
     \/ /\ \E answer \in {"short", "missing", "failed", "notready"} : ReadAt(answer)
        /\ analysis' = IF empty THEN "complete" ELSE "error"
        /\ UNCHANGED <<unread, located>>
  /\ UNCHANGED sources

\* Mutant: a record is read again.
PollCaptureAgain ==
  /\ analysis = "parsing" /\ located
  /\ unread > 0 /\ ReadAt("ok")
  /\ UNCHANGED <<analysis, unread, located, sources>>

\* poll_capture(): one record; a record that cannot be read ends the capture.
PollCapture ==
  /\ analysis = "parsing" /\ located
  /\ \/ /\ unread > 0 /\ ReadAt("ok")
        /\ \/ unread' = unread - 1 /\ analysis' = IF unread' = 0 THEN "complete" ELSE analysis
           \/ analysis' = "error" /\ UNCHANGED unread
     \/ /\ \E answer \in {"short", "missing", "failed", "notready"} : ReadAt(answer)
        /\ analysis' = "complete" /\ UNCHANGED unread
  /\ UNCHANGED <<located, sources>>

EvidencePoll ==
  /\ loopAt = "evidence" /\ loopAt' = "health"
  /\ \/ PollHash \/ IdentifyCapture \/ PollCapture
     \/ ~Running /\ UNCHANGED <<analysis, sources, unread, located, gui>>
  /\ UNCHANGED <<card, main, shown, inside, empty>>

-----------------------------------------------------------------------------
(* The device health check *)

\* Mutant: the card is left as it is.
KeyboardLostOnly ==
  /\ keyboard /\ ~cable /\ keyboard' = FALSE
  /\ UNCHANGED <<sd, storage, ready, root>>
  /\ Copied
  /\ UNCHANGED card

\* Mutant: the copies are not brought up to date.
KeyboardLostUnseen ==
  /\ keyboard /\ ~cable /\ keyboard' = FALSE
  /\ storage' = Bumped(storage, "removed")
  /\ sd' = FALSE /\ ready' = FALSE /\ root' = Nothing
  /\ UNCHANGED <<card, files>>

KeyboardLost ==
  /\ keyboard /\ ~cable /\ keyboard' = FALSE
  /\ storage' = Bumped(storage, "removed")
  /\ sd' = FALSE /\ ready' = FALSE /\ root' = Nothing
  /\ Copied
  /\ UNCHANGED card

KeyboardBack ==
  /\ ~keyboard /\ cable /\ keyboard' = TRUE
  /\ Identify /\ Relisted
  /\ Copied

\* The battery's charge has changed, and everything is copied with it.
BatteryChanged ==
  /\ keyboard /\ cable
  /\ UNCHANGED <<card, main>>
  /\ Copied

Health ==
  /\ loopAt = "health" /\ loopAt' = "keys"
  /\ \/ KeyboardLost \/ KeyboardBack \/ BatteryChanged
     \/ UNCHANGED <<card, main, files>>
  /\ UNCHANGED evidence

FileKeys ==
  \/ SafeRemove \/ Rescan \/ OpenDirectory \/ EscapeDirectory \/ ViewFile
  \/ StartEvidence \/ CancelEvidence \/ OtherKey

Loop == FileKeys \/ Refreshed \/ EvidencePoll \/ Health
MediaNext == Loop \/ Insert \/ TakeOut \/ CableChange

MediaSpec == MediaInit /\ [][MediaNext]_mediaVars

\* The loop never stops.
MediaFairSpec == MediaSpec /\ WF_mediaVars(Loop)

-----------------------------------------------------------------------------
(* Properties *)

\* The digest of a file never covers bytes of two cards: a card swapped while
\* it is hashed is either not identified at all, or after a check in which the
\* job's copy of the service was marked removed (main.c:495-546,
\* evidence.c:146-163, keyboard.c:134-145).
OneCard == Cardinality(sources) <= 1

\* The GUI's copy of the service is of the generation that the main loop's
\* is of, and differs at most by an error of its own (main.c:422-429, 533-544).
CopyAgrees ==
  /\ gui.storage.gen = storage.gen
  /\ gui.storage.media \in {storage.media, "error"}
  /\ gui.ready = ready

\* Nothing is shown of a card that was removed or not found, also where a
\* subdirectory of it was shown (gui.c:1118-1142, :1205-1222).
NothingOfRemovedCard == gui.storage.media \in {"absent", "removed", "changed"} => shown = Nothing

\* The root that is shown was listed under the generation that is reported
\* (gui.c:857, main.c:401-430).
RootIsCurrent == ~inside /\ shown # Nothing => shown.gen = gui.storage.gen

\* Every evidence job ends, whatever happens to the card and the keyboard
\* (evidence.c:146-243).
EvidenceEnds == Running ~> ~Running

\* NETWORK_PERSISTENCE_RECOVERY_TEST.md:28-29, "Confirm Files becomes
\* unavailable and the SD/FAT device state no longer reports ready."
RemovedIsNotReady == [][SafeRemove => (~gui'.sd /\ ~gui'.ready)]_mediaVars

\* NETWORK_INSPECTOR_EVIDENCE_TEST.md:37, "Confirm malformed/truncated input
\* reports ERROR": a capture is complete only when its records have been read.
CompleteMeansRead == analysis = "complete" /\ located => unread = 0
=============================================================================
