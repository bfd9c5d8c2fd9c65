----------------------------- MODULE GuiProofs ------------------------------
(***************************************************************************)
(* That no work outlives the only screen that can cancel it, that the      *)
(* cursor stands on a line of its screen, and that Escape leads back to    *)
(* the host that a task came from: for any tours, any room for results and *)
(* any depth of directories.  Then the glass: that a redraw which skips    *)
(* rows leaves a whole page, and that what Enter acts on is what the glass *)
(* shows, on a crayon page and a window of apps of any size.               *)
(***************************************************************************)
EXTENDS Glass, FiniteSetTheorems, SequenceTheorems, WellFoundedInduction, TLAPS

-----------------------------------------------------------------------------
(* Facts about the operators of Gui.                                       *)

\* A set of numbers that is not empty has a least one.
LEMMA MinIsLeast ==
  ASSUME NEW S \in SUBSET Nat, S # {}
  PROVE  Min(S) \in S /\ \A n \in S : Min(S) <= n
<1> DEFINE Less == OpToRel(<, Nat)
<1>1. IsWellFoundedOn(Less, Nat)
  BY NatLessThanWellFounded
<1>2. \A m, n \in Nat : n < m => <<n, m>> \in Less
  BY DEF OpToRel
<1> HIDE DEF Less
<1>3. PICK m \in S : \A n \in S : <<n, m>> \notin Less
  BY <1>1, WFMin
<1>4. ASSUME NEW n \in S
      PROVE  m <= n
  <2>1. m \in Nat /\ n \in Nat
    OBVIOUS
  <2>2. ~(n < m)
    BY <1>2, <1>3, <2>1
  <2> QED BY <2>1, <2>2
<1> QED BY <1>4 DEF Min

\* A result is recorded up to the capacity, and none is taken back.
LEMMA RecordedKeeps ==
  ASSUME results \in 0 .. Capacity
  PROVE  Recorded \in 0 .. Capacity /\ results <= Recorded
<1>1. Capacity \in Nat \ {0}
  BY SizesAssumption
<1>2. {Capacity, results + 1} \in SUBSET Nat
  BY <1>1
<1>3. Recorded \in {Capacity, results + 1} /\ Recorded <= Capacity
  BY <1>2, MinIsLeast DEF Recorded
<1> QED BY <1>1, <1>3

\* A host more is seen, up to as many as a tour has.
LEMMA HostsGrow ==
  ASSUME hosts \in 0 .. MaxHosts, MaxHosts \in Nat
  PROVE  Min({MaxHosts, hosts + 1}) \in 0 .. MaxHosts /\ hosts <= Min({MaxHosts, hosts + 1})
<1> DEFINE m == Min({MaxHosts, hosts + 1})
<1>1. {MaxHosts, hosts + 1} \in SUBSET Nat
  OBVIOUS
<1>2. m \in {MaxHosts, hosts + 1} /\ m <= MaxHosts
  BY <1>1, MinIsLeast
<1> QED BY <1>2

\* A view lists a finite number of apps.
LEMMA ViewIsFinite ==
  ASSUME NEW f, NEW liked
  PROVE  /\ View(f, liked) \subseteq 1 .. 9
         /\ IsFiniteSet(View(f, liked))
         /\ Cardinality(View(f, liked)) \in Nat
<1>1. View(f, liked) \subseteq 1 .. 9
  BY DEF View, Catalog
<1>2. IsFiniteSet(1 .. 9)
  <2>1. 1 \in Int /\ 9 \in Int
    OBVIOUS
  <2> QED BY <2>1, FS_Interval, Zenon
<1> QED BY <1>1, <1>2, FS_Subset, FS_CardinalityType

\* In a set of numbers each place below its size is taken: by a number with as
\* many below it.
LEMMA EachPlaceIsTaken ==
  ASSUME NEW S \in SUBSET Nat, IsFiniteSet(S), NEW line \in Nat, line < Cardinality(S)
  PROVE  \E i \in S : Cardinality({j \in S : j < i}) = line
<1> DEFINE Below(i) == {j \in S : j < i}
           Upto(i) == {j \in S : j <= i}
           Free == {n \in Nat : n < Cardinality(S) /\ \A i \in S : Cardinality(Below(i)) # n}
<1> SUFFICES ASSUME line \in Free PROVE FALSE
  OBVIOUS
<1>1. PICK n \in Free : \A m \in Free : n <= m
  BY MinIsLeast
<1>2. n \in Nat /\ n < Cardinality(S) /\ \A i \in S : Cardinality(Below(i)) # n
  BY <1>1
<1>3. Cardinality(S) \in Nat
  BY FS_CardinalityType
<1>4. PICK T \in SUBSET S : /\ Cardinality(T) = n
                            /\ \A j \in T, i \in S : i < j => i \in T
  <2>1. CASE n = 0
    BY <2>1, FS_EmptySet
  <2>2. CASE n # 0
    <3>1. n - 1 \in Nat /\ n - 1 < Cardinality(S)
      BY <1>2, <1>3, <2>2
    <3>2. n - 1 \notin Free
      BY <1>1, <1>2, <3>1
    <3>3. PICK i \in S : Cardinality(Below(i)) = n - 1
      BY <3>1, <3>2
    <3>4. Upto(i) = Below(i) \cup {i} /\ i \notin Below(i)
      <4>1. \A j \in S : j <= i <=> j < i \/ j = i
        OBVIOUS
      <4>2. ~(i < i)
        OBVIOUS
      <4> QED BY <4>1, <4>2
    <3>5. IsFiniteSet(Below(i))
      BY FS_Subset
    <3>6. Cardinality(Upto(i)) = Cardinality(Below(i)) + 1
      <4> HIDE DEF Below, Upto
      <4> QED BY <3>4, <3>5, FS_AddElement
    <3>7. Cardinality(Upto(i)) = n
      BY <1>2, <3>3, <3>6
    <3>8. \A j \in Upto(i), k \in S : k < j => k \in Upto(i)
      OBVIOUS
    <3> QED BY <3>7, <3>8
  <2> QED BY <2>1, <2>2
<1>5. S \ T # {}
  <2>1. T # S
    BY <1>2, <1>3, <1>4
  <2> QED BY <2>1
<1>6. PICK k \in S \ T : \A i \in S \ T : k <= i
  BY <1>5, MinIsLeast
<1>7. Below(k) = T
  <2>1. ASSUME NEW j \in S, j < k
        PROVE  j \in T
    BY <1>6, <2>1
  <2>2. ASSUME NEW j \in T
        PROVE  j < k
    <3>1. ~(k < j) /\ k # j
      BY <1>4, <1>6
    <3>2. j \in Nat /\ k \in Nat
      OBVIOUS
    <3> QED BY <3>1, <3>2
  <2> QED BY <2>1, <2>2
<1> QED BY <1>2, <1>4, <1>6, <1>7

\* A line of the view shows one of its apps.
LEMMA AppAtIsListed ==
  ASSUME NEW line \in Nat, line < ViewCount
  PROVE  AppAt(line) \in CurrentView
<1>1. CurrentView \in SUBSET Nat /\ IsFiniteSet(CurrentView)
  BY ViewIsFinite DEF CurrentView
<1>2. \E i \in CurrentView : Cardinality({j \in CurrentView : j < i}) = line
  BY <1>1, EachPlaceIsTaken DEF ViewCount
<1> QED BY <1>2 DEF AppAt

\* LEFT and RIGHT turn to one of the views.
LEMMA TurnedIsFilter ==
  ASSUME filter \in Range(FilterOrder), NEW forward \in BOOLEAN
  PROVE  Turned(forward) \in Range(FilterOrder)
<1> DEFINE at == CHOOSE n \in 0 .. 5 : FilterOrder[n + 1] = filter
           step(k) == IF forward THEN (at + k) % 6 ELSE (at + 6 - k) % 6
           found == {k \in 1 .. 6 : k = 6 \/ View(FilterOrder[step(k) + 1], favorites) # {}}
<1>1. at \in 0 .. 5
  <2>1. PICK m \in DOMAIN FilterOrder : FilterOrder[m] = filter
    BY DEF Range
  <2>2. m \in 1 .. 6
    BY <2>1 DEF FilterOrder
  <2>3. m - 1 \in 0 .. 5 /\ FilterOrder[(m - 1) + 1] = filter
    BY <2>1, <2>2
  <2> QED BY <2>3
<1>2. 6 \in found /\ found \in SUBSET Nat
  OBVIOUS
<1> HIDE DEF at, found
<1>3. Min(found) \in found
  BY <1>2, MinIsLeast
<1>4. Min(found) \in 1 .. 6
  BY <1>3 DEF found
<1>5. \A k \in 1 .. 6 : step(k) \in 0 .. 5
  BY <1>1
<1>6. step(Min(found)) \in 0 .. 5
  BY <1>4, <1>5
<1>7. \A n \in 0 .. 5 : FilterOrder[n + 1] \in Range(FilterOrder)
  BY DEF Range, FilterOrder
<1> HIDE DEF step
<1>8. FilterOrder[step(Min(found)) + 1] \in Range(FilterOrder)
  BY <1>6, <1>7
<1> QED BY <1>8 DEF Turned, at, step, found

\* Only the confirmation and the picker start work, and both show its screen.
LEMMA KeysStartNothingElse ==
  ASSUME CancelledWhenLeft, NEW key \in Keys, Key(key)
  PROVE  CancelledWhenLeft'
<1> USE DEF CancelledWhenLeft, Pressing
<1>1. CASE HomeKey(key)
  BY <1>1 DEF HomeKey, services
<1>2. CASE SystemKey(key)
  BY <1>2 DEF SystemKey, services
<1>3. CASE SettingsKey(key)
  BY <1>3 DEF SettingsKey, MoveOn, services
<1>4. CASE SkinsKey(key)
  BY <1>4 DEF SkinsKey, services
<1>5. CASE ShutdownKey(key)
  BY <1>5 DEF ShutdownKey, services
<1>6. CASE AppsMove(key)
  BY <1>6 DEF AppsMove, services
<1>7. CASE AppsTurn(key)
  BY <1>7 DEF AppsTurn, services
<1>8. CASE HostsKey(key)
  BY <1>8 DEF HostsKey, MoveOn, services
<1>9. CASE HostActionsKey(key)
  BY <1>9 DEF HostActionsKey, MoveOn, services
<1>10. CASE HistoryKey(key)
  BY <1>10 DEF HistoryKey, MoveOn, services
<1>11. CASE ConfigKey(key)
  BY <1>11 DEF ConfigKey, services
<1>12. CASE FilesMove(key)
  BY <1>12 DEF FilesMove, services
<1>13. CASE FilesRequest(key)
  BY <1>13 DEF FilesRequest, services
<1>14. CASE PickerKey(key)
  <2>1. ~running
    BY <1>14 DEF PickerKey
  <2>2. CASE MoveOn("EVIDENCE_PICKER", key)
    BY <1>14, <2>2 DEF PickerKey, MoveOn, services
  <2>3. CASE screen' = "EVIDENCE" /\ UNCHANGED running
    BY <2>1, <2>3
  <2> QED  BY <1>14, <2>2, <2>3 DEF PickerKey
<1> QED
  BY <1>1, <1>2, <1>3, <1>4, <1>5, <1>6, <1>7, <1>8, <1>9, <1>10, <1>11,
     <1>12, <1>13, <1>14 DEF Key

\* Opening a screen leaves one on which nothing runs, or starts its work there.
LEMMA EnterStartsItsOwn ==
  ASSUME CancelledWhenLeft, Enter
  PROVE  CancelledWhenLeft'
<1> USE DEF CancelledWhenLeft, Pressing
<1>1. CASE OpenHomeItem
  BY <1>1 DEF OpenHomeItem, services
<1>2. CASE OpenSystemItem
  BY <1>2 DEF OpenSystemItem, services
<1>3. CASE OpenApp
  BY <1>3 DEF OpenApp, services
<1>4. CASE DetailEnter
  BY <1>4 DEF DetailEnter, services
<1>5. CASE Confirm
  BY <1>5 DEF Confirm
<1>6. CASE FilesOpen
  BY <1>6 DEF FilesOpen, services
<1> QED  BY <1>1, <1>2, <1>3, <1>4, <1>5, <1>6 DEF Enter

\* Escape cancels before it leaves.
LEMMA EscapeCancels ==
  ASSUME CancelledWhenLeft, Escape
  PROVE  CancelledWhenLeft'
<1> USE DEF CancelledWhenLeft
<1>1. CASE EscapeDirectory
  BY <1>1 DEF EscapeDirectory, services
<1>2. CASE EscapeTask
  <2>1. ~running'
    BY <1>2 DEF EscapeTask, CancelTask
  <2>2. ~hashing'
    BY <1>2 DEF EscapeTask
  <2> QED  BY <2>1, <2>2
<1>3. CASE EscapeEvidence
  BY <1>3 DEF EscapeEvidence
<1>4. CASE EscapeToParent
  BY <1>4 DEF EscapeToParent, services
<1> QED  BY <1>1, <1>2, <1>3, <1>4 DEF Escape

\* No step leaves work behind.
LEMMA StepCancels ==
  ASSUME CancelledWhenLeft, [Next]_vars
  PROVE  CancelledWhenLeft'
<1>1. CASE \E key \in Keys : Key(key)
  BY <1>1, KeysStartNothingElse
<1>2. CASE Enter
  BY <1>2, EnterStartsItsOwn
<1>3. CASE Escape
  BY <1>3, EscapeCancels
<1>4. CASE AppsFavorite \/ AppsInfo \/ InfoFavorite
  BY <1>4 DEF AppsFavorite, AppsInfo, InfoFavorite, Pressing, cursor, services,
              CancelledWhenLeft
<1>5. CASE Leave \/ TakeRequest \/ DevicesRefresh
  BY <1>5 DEF Leave, TakeRequest, DevicesRefresh, Updated, cursor, services,
              CancelledWhenLeft
<1>6. CASE TaskEnds \/ EvidenceEnds \/ HostSeen
  BY <1>6 DEF TaskEnds, EvidenceEnds, HostSeen, cursor, CancelledWhenLeft
<1>7. CASE UNCHANGED vars
  BY <1>7 DEF vars, cursor, services, CancelledWhenLeft
<1> QED  BY <1>1, <1>2, <1>3, <1>4, <1>5, <1>6, <1>7 DEF Next

\* Whatever the sizes of the lists, work that only its own screen can cancel
\* never outlives the stay on that screen (gui.c:1178-1204).
THEOREM CancelledWhenLeftHolds == Spec => []CancelledWhenLeft
<1>1. Init => CancelledWhenLeft
  BY DEF Init, CancelledWhenLeft
<1> QED  BY <1>1, StepCancels, PTL DEF Spec

-----------------------------------------------------------------------------
(* The cursor.  That it stands on a line is not inductive by itself: a     *)
(* screen that is entered again gets the place that was remembered for it. *)

\* The cursor may stand on line n of screen s, with v apps in the view, h hosts,
\* r results and e entries.
LineOf(s, n, v, h, r, e) ==
  /\ s = "HOME" => n < 6
  /\ s = "SYSTEM" => n < 7
  /\ s = "SECURITY" => n < 5
  /\ s = "UPDATE" => n < 9
  /\ s = "SKINS" => n < 4
  /\ s = "SHUTDOWN" => n < 2
  /\ s = "HOST_ACTIONS" => n < 4
  /\ s = "APPS" => n < v \/ n = 0
  /\ s = "HOSTS" => n < h \/ n = 0
  /\ s = "RECON_HISTORY" => n < r \/ n = 0
  /\ s = "FILES" => n < e \/ n = 0
Held(s, n) == LineOf(s, n, ViewCount, hosts, results, entries)

\* The lists whose places are given back without a look at them.  Those of
\* apps and files are looked at.
Unchecked == {"HOME", "SYSTEM", "SECURITY", "UPDATE", "HOST_ACTIONS", "HOSTS",
              "RECON_HISTORY"}
Places == \A s \in Unchecked : Held(s, memory[s])

GuiInv == TypeOK /\ Held(screen, selection) /\ Places

LEMMA CursorIsHeld == CursorOnScreen <=> Held(screen, selection)
  BY DEF CursorOnScreen, LineOf, Held, Lines, Skins

\* What a tour allows.
LEMMA TourFacts ==
  ASSUME tour \in Tours
  PROVE  /\ MaxHosts \in Nat /\ MaxEntries \in Nat /\ Saved \subseteq Nat
         /\ Liked \subseteq Nat /\ Filters \subseteq Range(FilterOrder)
  BY SizesAssumption DEF Tour, MaxHosts, MaxEntries, Saved, Liked, Filters

\* The screens, one by one.
LEMMA ScreensAre ==
  Screens = {"HOME", "FILE_VIEW", "SHUTDOWN_RESULT", "STATUS", "FILES",
             "DEVICES", "APPS", "AUDIT", "SYSTEM", "SECURITY", "UPDATE",
             "SKINS", "TERMINAL", "RECOVERY", "SHUTDOWN", "ABOUT",
             "APP_CONFIG", "RECON_CONFIRM", "RECON", "APP_INFO",
             "APP_DEVICES", "HOSTS", "HOST_ACTIONS", "RECON_HISTORY",
             "DETAIL", "EVIDENCE_PICKER", "EVIDENCE"}
<1>1. Range(HomeItems) = {"STATUS", "FILES", "DEVICES", "APPS", "AUDIT", "SYSTEM"}
  BY DEF Range, HomeItems
<1>2. Range(SystemItems) = {"SECURITY", "UPDATE", "SKINS", "TERMINAL",
                            "RECOVERY", "SHUTDOWN", "ABOUT"}
  BY DEF Range, SystemItems
<1> QED BY <1>1, <1>2 DEF Screens, TaskScreens, AppScreens

\* A key moves the cursor of a list to a line of the list.
LEMMA MovedIsLine ==
  ASSUME selection \in Nat, NEW count \in Nat, NEW key
  PROVE  /\ Moved(key, count) \in Nat
         /\ selection < count => Moved(key, count) < count
         /\ selection < count \/ selection = 0 =>
              Moved(key, count) < count \/ Moved(key, count) = 0
  BY DEF Moved, Up, Down

\* The number of lines of a screen.
LEMMA LinesType ==
  ASSUME TypeOK, NEW s
  PROVE  Lines(s) \in Nat
<1>1. ViewCount \in Nat
  BY ViewIsFinite DEF ViewCount, CurrentView
<1>2. hosts \in Nat /\ results \in Nat /\ entries \in Nat
  BY DEF TypeOK
<1> QED BY <1>1, <1>2 DEF Lines, Skins

\* A move in a list keeps cursor and place on its lines.
LEMMA MoveKeeps ==
  ASSUME GuiInv, NEW s, NEW key, screen = s, s \notin {"HOME", "SYSTEM"}, MoveOn(s, key)
  PROVE  GuiInv'
<1> USE DEF GuiInv, apps, task, files, services, user
<1>1. Lines(s) \in Nat /\ selection \in Nat /\ selection' = Moved(key, Lines(s))
  BY LinesType DEF MoveOn, TypeOK
<1>2. selection' \in Nat
  BY <1>1, MovedIsLine
<1>3. memory' \in [Lists -> Nat]
  BY <1>2 DEF MoveOn, TypeOK, Remembering
<1>4. TypeOK'
  BY <1>2, <1>3 DEF MoveOn, TypeOK, MaxHosts, MaxEntries, Liked
<1>5. ViewCount' = ViewCount
  BY DEF MoveOn, ViewCount, CurrentView, View, Matches
<1>6. Held(s, selection)'
  BY <1>1, <1>5, MovedIsLine DEF MoveOn, LineOf, Held, Lines, Skins
<1>7. Places'
  <2> SUFFICES ASSUME NEW t \in Unchecked PROVE Held(t, memory[t])'
    BY DEF Places
  <2>1. CASE t = s
    <3>1. memory'[t] = selection'
      BY <2>1 DEF MoveOn, Remembering, TypeOK, Unchecked, Lists
    <3> QED BY <1>6, <2>1, <3>1
  <2>2. CASE t # s
    <3>1. memory'[t] = memory[t]
      BY <2>2 DEF MoveOn, Remembering, TypeOK
    <3> QED BY <1>5, <3>1 DEF MoveOn, LineOf, Held, Places
  <2> QED BY <2>1, <2>2
<1> QED BY <1>4, <1>6, <1>7 DEF MoveOn

\* A screen is entered at a place that it has, and apps at one that their view
\* has: Show sees to that.
LEMMA ShowKeeps ==
  ASSUME NEW s \in Screens, NEW n \in Nat, NEW m \in [Lists -> Nat],
         Show(s, n, m), ViewCount' \in Nat,
         s # "APPS" => LineOf(s, n, ViewCount', hosts', results', entries'),
         \A t \in Unchecked : LineOf(t, m[t], ViewCount', hosts', results', entries')
  PROVE  /\ screen' \in Screens /\ selection' \in Nat /\ memory' \in [Lists -> Nat]
         /\ Held(screen, selection)' /\ Places'
<1>1. CASE s = "APPS" /\ n >= ViewCount'
  <2>1. screen' = "APPS" /\ selection' = 0 /\ memory' = [m EXCEPT !["APPS"] = 0]
    BY <1>1 DEF Show
  <2>2. \A t \in Unchecked : memory'[t] = m[t]
    BY <2>1 DEF Unchecked, Lists
  <2> QED BY <1>1, <2>1, <2>2 DEF LineOf, Held, Places, Lists
<1>2. CASE ~(s = "APPS" /\ n >= ViewCount')
  <2>1. screen' = s /\ selection' = n /\ memory' = m
    BY <1>2 DEF Show
  <2> QED BY <1>2, <2>1 DEF LineOf, Held, Places
<1> QED BY <1>1, <1>2

\* The number of apps in the view, before and after a step.
LEMMA ViewCountType == ViewCount \in Nat /\ ViewCount' \in Nat
  BY ViewIsFinite DEF ViewCount, CurrentView

LEMMA HomeKeeps ==
  ASSUME GuiInv, NEW key \in Keys, HomeKey(key) \/ SystemKey(key) \/ OpenHomeItem \/ OpenSystemItem
  PROVE  GuiInv'
<1> USE DEF GuiInv, apps, task, files, services, user, Pressing
<1>a. ViewCount \in Nat
  BY ViewCountType
<1>b. selection \in Nat /\ memory \in [Lists -> Nat]
  BY DEF TypeOK
<1>1. CASE HomeKey(key)
  <2>1. selection < 6
    BY <1>1 DEF HomeKey, LineOf, Held
  <2>2. selection' \in Nat /\ selection' < 6
    BY <1>1, <1>b, <2>1 DEF HomeKey
  <2>3. screen' = "HOME" /\ memory' = memory
    BY <1>1 DEF HomeKey
  <2>4. TypeOK'
    BY <1>1, <2>2, <2>3 DEF HomeKey, TypeOK, MaxHosts, MaxEntries, Liked
  <2>5. hosts' = hosts /\ results' = results
    BY <1>1 DEF HomeKey
  <2> QED BY <2>2, <2>3, <2>4, <2>5 DEF LineOf, Held, Places, Unchecked
<1>2. CASE SystemKey(key)
  <2>1. selection < 7
    BY <1>2 DEF SystemKey, LineOf, Held
  <2>2. selection' \in Nat /\ selection' < 7
    BY <1>2, <1>b, <2>1, MovedIsLine DEF SystemKey
  <2>3. screen' = "SYSTEM" /\ memory' = memory
    BY <1>2 DEF SystemKey
  <2>4. TypeOK'
    BY <1>2, <2>2, <2>3 DEF SystemKey, TypeOK, MaxHosts, MaxEntries, Liked
  <2>5. hosts' = hosts /\ results' = results
    BY <1>2 DEF SystemKey
  <2> QED BY <2>2, <2>3, <2>4, <2>5 DEF LineOf, Held, Places, Unchecked
<1>3. CASE OpenHomeItem
  <2> DEFINE to == HomeItems[selection + 1]
             place == CASE to = "FILES" -> IF memory["FILES"] < entries THEN memory["FILES"] ELSE 0
                        [] to \in {"SYSTEM", "APPS"} -> memory[to]
                        [] OTHER -> 0
             left == Remembering("HOME", selection)
  <2>1. selection < 6
    BY <1>3 DEF OpenHomeItem, LineOf, Held
  <2>2. to \in {"STATUS", "FILES", "DEVICES", "APPS", "AUDIT", "SYSTEM"}
    BY <1>b, <2>1 DEF HomeItems
  <2>3. to \in Screens
    BY <2>2, ScreensAre
  <2>4. UNCHANGED <<apps, task, files, services, user>> /\ Show(to, place, left)
    BY <1>3 DEF OpenHomeItem
  <2> HIDE DEF to
  <2>5. entries \in Nat
    BY DEF TypeOK
  <2>6. place \in Nat
    BY <1>b, <2>5 DEF Lists
  <2>7. left \in [Lists -> Nat] /\ left["HOME"] = selection
    BY <1>b DEF Remembering, Lists
  <2>8. \A t \in Unchecked : t # "HOME" => left[t] = memory[t]
    BY <1>b DEF Remembering, Unchecked, Lists
  <2>9. to # "APPS" => LineOf(to, place, ViewCount', hosts', results', entries')
    BY <2>2, <2>4 DEF LineOf, Held, Places, Unchecked
  <2>10. \A t \in Unchecked : LineOf(t, left[t], ViewCount', hosts', results', entries')
    BY <2>1, <2>4, <2>7, <2>8 DEF LineOf, Held, Places, Unchecked
  <2> HIDE DEF place, left
  <2>11. /\ screen' \in Screens /\ selection' \in Nat /\ memory' \in [Lists -> Nat]
         /\ Held(screen, selection)' /\ Places'
    BY <2>3, <2>4, <2>6, <2>7, <2>9, <2>10, ViewCountType, ShowKeeps
  <2>12. TypeOK'
    BY <2>4, <2>11 DEF TypeOK, MaxHosts, MaxEntries, Liked
  <2> QED BY <2>11, <2>12
<1>4. CASE OpenSystemItem
  <2> DEFINE to == SystemItems[selection + 1]
  <2>1. selection < 7
    BY <1>4 DEF OpenSystemItem, LineOf, Held
  <2>2. to \in {"SECURITY", "UPDATE", "SKINS", "TERMINAL", "RECOVERY", "SHUTDOWN", "ABOUT"}
    BY <1>b, <2>1 DEF SystemItems
  <2>3. to \in Screens
    BY <2>2, ScreensAre
  <2>4. /\ screen' = to /\ memory' = Remembering("SYSTEM", selection)
        /\ \/ to = "SKINS" /\ selection' \in 0 .. Skins - 1
           \/ to # "SKINS" /\ selection' = IF to \in Lists THEN memory[to] ELSE 0
        /\ UNCHANGED <<apps, task, files, services, user>>
    BY <1>4 DEF OpenSystemItem
  <2> HIDE DEF to
  <2>5. selection' \in Nat
    BY <1>b, <2>4 DEF Skins
  <2>6. memory' \in [Lists -> Nat] /\ memory'["SYSTEM"] = selection
    BY <1>b, <2>4 DEF Remembering, Lists
  <2>7. \A t \in Unchecked : t # "SYSTEM" => memory'[t] = memory[t]
    BY <1>b, <2>4 DEF Remembering, Unchecked, Lists
  <2>8. Places'
    BY <2>1, <2>4, <2>6, <2>7 DEF LineOf, Held, Places, Unchecked
  <2>9. Held(screen, selection)'
    BY <2>2, <2>4 DEF LineOf, Held, Places, Unchecked, Lists, Skins
  <2>10. TypeOK'
    BY <2>3, <2>4, <2>5, <2>6 DEF TypeOK, MaxHosts, MaxEntries, Liked
  <2> QED BY <2>8, <2>9, <2>10
<1> QED BY <1>1, <1>2, <1>3, <1>4

\* No list whose place is given back unseen gets shorter.
Grown ==
  /\ hosts' \in Nat /\ hosts <= hosts'
  /\ results' \in Nat /\ results <= results'

\* So a place in such a list stays one.
LEMMA LineStays ==
  ASSUME GuiInv, Grown, NEW s \in Unchecked
  PROVE  LineOf(s, memory[s], ViewCount', hosts', results', entries')
<1>1. memory[s] \in Nat /\ hosts \in Nat /\ results \in Nat
  BY DEF GuiInv, TypeOK, Unchecked, Lists
<1> QED BY <1>1 DEF GuiInv, Places, Unchecked, LineOf, Held, Grown

\* Where the places are kept they stay places.
LEMMA PlacesStay ==
  ASSUME GuiInv, Grown, \A s \in Unchecked : memory'[s] = memory[s]
  PROVE  Places'
  BY LineStays DEF Places, Held

\* Nor does a step that only changes what is under other screens move the
\* cursor off its line.
LEMMA CursorRests ==
  ASSUME GuiInv, UNCHANGED cursor, Grown,
         screen = "APPS" => ViewCount' = ViewCount,
         screen = "FILES" => entries' = entries
  PROVE  Held(screen, selection)' /\ Places'
<1>1. Places'
  BY PlacesStay DEF cursor
<1>2. selection \in Nat /\ hosts \in Nat /\ results \in Nat
  BY DEF GuiInv, TypeOK
<1>3. Held(screen, selection)'
  BY <1>2 DEF GuiInv, cursor, Held, LineOf, Grown
<1> QED BY <1>1, <1>3

\* A step that leaves the services alone
LEMMA ServicesStay ==
  ASSUME TypeOK, UNCHANGED <<hosts, results>>
  PROVE  Grown
  BY DEF TypeOK, Grown

\* The view depends on the filter and the favourites.
LEMMA ViewStays ==
  ASSUME UNCHANGED <<filter, favorites>>
  PROVE  ViewCount' = ViewCount
  BY DEF ViewCount, CurrentView, View, Matches

\* The screens of the settings, the skins and the shutdown.
LEMMA SystemScreensKeep ==
  ASSUME GuiInv, NEW key \in Keys, SettingsKey(key) \/ SkinsKey(key) \/ ShutdownKey(key)
  PROVE  GuiInv'
<1> USE DEF apps, task, files, services, user, Pressing
<1>a. TypeOK /\ Held(screen, selection) /\ Places /\ selection \in Nat /\ memory \in [Lists -> Nat]
  BY DEF GuiInv, TypeOK
<1>1. CASE SettingsKey(key)
  <2>1. PICK s \in {"SECURITY", "UPDATE"} :
          /\ Pressing(s)
          /\ IF s = "SECURITY" /\ key = "enter" /\ selection < 3
             THEN /\ selection' = selection + 1
                  /\ memory' = Remembering(s, selection')
                  /\ UNCHANGED <<screen, apps, task, files, services, user>>
             ELSE MoveOn(s, key)
    BY <1>1 DEF SettingsKey
  <2>2. CASE MoveOn(s, key)
    BY <2>1, <2>2, MoveKeeps
  <2>3. CASE /\ s = "SECURITY" /\ selection < 3 /\ selection' = selection + 1
             /\ memory' = Remembering(s, selection')
             /\ UNCHANGED <<screen, apps, task, files, services, user>>
    <3>1. selection' \in Nat /\ selection' < 5
      BY <1>a, <2>3
    <3>2. memory' \in [Lists -> Nat] /\ memory'["SECURITY"] = selection'
      BY <1>a, <2>3, <3>1 DEF Remembering, Lists
    <3>3. \A t \in Unchecked : t # "SECURITY" => memory'[t] = memory[t]
      BY <1>a, <2>3 DEF Remembering, Unchecked, Lists
    <3>4. Places'
      <4>1. Grown
        BY <1>a, <2>3, ServicesStay
      <4>2. \A t \in Unchecked : LineOf(t, memory'[t], ViewCount', hosts', results', entries')
        BY <3>1, <3>2, <3>3, <4>1, LineStays DEF LineOf
      <4> QED BY <4>2 DEF Places, Held
    <3>5. Held(screen, selection)'
      BY <2>1, <2>3, <3>1 DEF Held, LineOf
    <3>6. TypeOK'
      BY <1>a, <2>3, <3>1, <3>2 DEF TypeOK, MaxHosts, MaxEntries, Liked
    <3> QED BY <3>4, <3>5, <3>6 DEF GuiInv
  <2> QED BY <2>1, <2>2, <2>3
<1>2. CASE SkinsKey(key) \/ ShutdownKey(key)
  <2>1. /\ UNCHANGED <<memory, apps, task, files, services, user>>
        /\ screen' \in {"HOME", "SKINS", "SHUTDOWN", "SYSTEM", "SHUTDOWN_RESULT"}
    BY <1>2 DEF SkinsKey, ShutdownKey
  <2>2. selection' \in Nat /\ LineOf(screen', selection', ViewCount', hosts', results', entries')
    <3>1. CASE SkinsKey(key) /\ key = "enter"
      BY <1>a, <3>1 DEF SkinsKey, Places, Unchecked, Held, LineOf, Lists
    <3>2. CASE SkinsKey(key) /\ key # "enter"
      BY <1>a, <3>2, MovedIsLine DEF SkinsKey, Skins, Held, LineOf
    <3>3. CASE ShutdownKey(key) /\ key \in {"up", "down"}
      BY <1>a, <3>3 DEF ShutdownKey, Held, LineOf
    <3>4. CASE ShutdownKey(key) /\ key = "enter" /\ selection = 0
      BY <1>a, <3>4 DEF ShutdownKey, Places, Unchecked, Held, LineOf, Lists
    <3>5. CASE ShutdownKey(key) /\ key = "enter" /\ selection # 0
      BY <1>a, <3>5 DEF ShutdownKey, Held, LineOf
    <3>6. CASE ShutdownKey(key) /\ key \notin {"up", "down", "enter"}
      BY <1>a, <3>6 DEF ShutdownKey, Held, LineOf
    <3> QED BY <1>2, <3>1, <3>2, <3>3, <3>4, <3>5, <3>6
  <2>3. Places'
    BY <1>a, <2>1, ServicesStay, PlacesStay DEF GuiInv
  <2>4. TypeOK'
    BY <1>a, <2>1, <2>2, ScreensAre DEF TypeOK, MaxHosts, MaxEntries, Liked
  <2> QED BY <2>2, <2>3, <2>4 DEF GuiInv, Held
<1> QED BY <1>1, <1>2

\* The screens of the apps.
LEMMA AppsKeep ==
  ASSUME GuiInv, NEW key \in Keys,
         AppsMove(key) \/ AppsTurn(key) \/ AppsFavorite \/ AppsInfo \/ InfoFavorite
  PROVE  GuiInv'
<1> USE DEF apps, task, files, services, user, Pressing
<1>a. TypeOK /\ Held(screen, selection) /\ Places /\ selection \in Nat /\ memory \in [Lists -> Nat]
  BY DEF GuiInv, TypeOK
<1>b. ViewCount \in Nat /\ ViewCount' \in Nat
  BY ViewCountType
<1>c. UNCHANGED <<task, files, services, user>> /\ Grown
  BY <1>a, ServicesStay DEF AppsMove, AppsTurn, AppsFavorite, AppsInfo, InfoFavorite
<1>1. CASE AppsMove(key)
  <2>1. MoveOn("APPS", key) /\ screen = "APPS"
    BY <1>1 DEF AppsMove, MoveOn, Lines, Lists
  <2> QED BY <2>1, MoveKeeps
<1>2. CASE AppsTurn(key)
  <2>1. filter' \in Range(FilterOrder)
    BY <1>a, <1>2, TurnedIsFilter DEF AppsTurn, TypeOK
  <2>2. Show("APPS", 0, Remembering("APPS", 0)) /\ UNCHANGED <<favorites, info>>
    BY <1>2 DEF AppsTurn
  <2>3. Remembering("APPS", 0) \in [Lists -> Nat]
    BY <1>a DEF Remembering
  <2>4. \A t \in Unchecked : LineOf(t, Remembering("APPS", 0)[t], ViewCount', hosts', results', entries')
    BY <1>a, <1>c, LineStays DEF Remembering, Unchecked, Lists
  <2> HIDE DEF Remembering
  <2>5. /\ screen' \in Screens /\ selection' \in Nat /\ memory' \in [Lists -> Nat]
        /\ Held(screen, selection)' /\ Places'
    BY <1>b, <2>2, <2>3, <2>4, ShowKeeps, ScreensAre
  <2>6. TypeOK'
    BY <1>a, <1>c, <2>1, <2>2, <2>5 DEF TypeOK, MaxHosts, MaxEntries, Liked
  <2> QED BY <2>5, <2>6 DEF GuiInv
<1>3. CASE AppsFavorite
  <2>1. /\ Show("APPS", selection, memory) /\ UNCHANGED <<filter, info>>
        /\ Toggle(AppAt(selection))
    BY <1>3 DEF AppsFavorite
  <2>2. favorites' \subseteq Liked
    BY <1>a, <2>1 DEF TypeOK, Toggle
  <2>3. \A t \in Unchecked : LineOf(t, memory[t], ViewCount', hosts', results', entries')
    BY <1>c, LineStays
  <2>4. /\ screen' \in Screens /\ selection' \in Nat /\ memory' \in [Lists -> Nat]
        /\ Held(screen, selection)' /\ Places'
    BY <1>a, <1>b, <2>1, <2>3, ShowKeeps, ScreensAre
  <2>5. TypeOK'
    BY <1>a, <1>c, <2>1, <2>2, <2>4 DEF TypeOK, MaxHosts, MaxEntries, Liked
  <2> QED BY <2>4, <2>5 DEF GuiInv
<1>4. CASE AppsInfo
  <2>1. /\ selection < ViewCount /\ info' = AppAt(selection)
        /\ memory' = Remembering("APPS", selection) /\ screen' = "APP_INFO"
        /\ UNCHANGED <<selection, filter, favorites>>
    BY <1>4 DEF AppsInfo
  <2>2. info' \in DOMAIN Catalog
    <3>1. AppAt(selection) \in CurrentView
      BY <1>a, <2>1, AppAtIsListed
    <3> QED BY <2>1, <3>1 DEF CurrentView, View
  <2>3. memory' \in [Lists -> Nat] /\ \A t \in Unchecked : memory'[t] = memory[t]
    BY <1>a, <2>1 DEF Remembering, Unchecked, Lists
  <2>4. Places'
    BY <1>c, <2>3, PlacesStay
  <2>5. Held(screen, selection)'
    BY <2>1 DEF Held, LineOf
  <2>6. TypeOK'
    BY <1>a, <1>c, <2>1, <2>2, <2>3, ScreensAre DEF TypeOK, MaxHosts, MaxEntries, Liked
  <2> QED BY <2>4, <2>5, <2>6 DEF GuiInv
<1>5. CASE InfoFavorite
  <2>1. UNCHANGED <<cursor, filter, info>> /\ screen = "APP_INFO" /\ Toggle(info)
    BY <1>5 DEF InfoFavorite
  <2>2. favorites' \subseteq Liked
    BY <1>a, <2>1 DEF TypeOK, Toggle
  <2>3. Held(screen, selection)' /\ Places'
    BY <1>c, <2>1, CursorRests
  <2>4. TypeOK'
    BY <1>a, <1>c, <2>1, <2>2 DEF TypeOK, MaxHosts, MaxEntries, Liked, cursor
  <2> QED BY <2>3, <2>4 DEF GuiInv
<1> QED BY <1>1, <1>2, <1>3, <1>4, <1>5

\* Enter on an app: its own screen gets the place that was remembered for it.
LEMMA OpenAppKeeps ==
  ASSUME GuiInv, OpenApp
  PROVE  GuiInv'
<1> USE DEF apps, task, files, services, user, Pressing
<1>a. /\ TypeOK /\ Places /\ selection \in Nat /\ memory \in [Lists -> Nat] /\ entries \in Nat
      /\ screen = "APPS"
  BY DEF GuiInv, TypeOK, OpenApp
<1>b. UNCHANGED <<filled, apps, files, services, user>> /\ Grown
  BY <1>a, ServicesStay DEF OpenApp
<1>1. AppAt(selection) \in DOMAIN Catalog
  <2>1. AppAt(selection) \in CurrentView
    BY <1>a, AppAtIsListed DEF OpenApp
  <2> QED BY <2>1 DEF CurrentView, View
<1> DEFINE kind == Catalog[AppAt(selection)]
           own == kind \in DOMAIN OpenedBy
           to == IF own THEN OpenedBy[kind] ELSE "APP_CONFIG"
<1>2. kind \in {"devices", "discovery", "host", "http", "ssh", "tls", "evidence",
                "results", "reports"}
  BY <1>1 DEF Catalog
<1>3. /\ kind = "devices" => to = "APP_DEVICES" /\ own
      /\ kind = "discovery" => to = "HOSTS" /\ own
      /\ kind = "evidence" => to = "EVIDENCE_PICKER" /\ own
      /\ kind = "results" => to = "RECON_HISTORY" /\ own
      /\ kind \notin {"devices", "discovery", "evidence", "results"} =>
           to = "APP_CONFIG" /\ ~own
  BY DEF OpenedBy
<1>4. /\ screen' = to /\ memory' = Remembering("APPS", selection)
      /\ taskless' = (kind \in Untasked)
      /\ IF own
         THEN /\ selection' = CASE kind = "devices" -> 0
                                [] kind = "discovery" -> memory["HOSTS"]
                                [] kind = "evidence" ->
                                     IF memory["FILES"] < entries THEN memory["FILES"] ELSE 0
                                [] kind = "results" -> memory["RECON_HISTORY"]
              /\ UNCHANGED <<back, field, launched>>
         ELSE back' = "APPS" /\ field' = 0 /\ launched' = <<0, 0>> /\ UNCHANGED selection
  BY DEF OpenApp
<1> HIDE DEF kind, own, to
<1>5. memory' \in [Lists -> Nat] /\ \A t \in Unchecked : memory'[t] = memory[t]
  BY <1>a, <1>4 DEF Remembering, Unchecked, Lists
<1>6. Places'
  BY <1>b, <1>5, PlacesStay
<1>7. memory["HOSTS"] \in Nat /\ memory["FILES"] \in Nat /\ memory["RECON_HISTORY"] \in Nat
  BY <1>a DEF Lists
<1>8. selection' \in Nat
  BY <1>a, <1>2, <1>3, <1>4, <1>7
<1>9. Held(screen, selection)'
  <2>1. /\ LineOf("HOSTS", memory["HOSTS"], ViewCount', hosts', results', entries')
        /\ LineOf("RECON_HISTORY", memory["RECON_HISTORY"], ViewCount', hosts', results', entries')
    BY <1>b, LineStays DEF Unchecked
  <2>2. screen' \in {"APP_DEVICES", "HOSTS", "EVIDENCE_PICKER", "RECON_HISTORY", "APP_CONFIG"}
    BY <1>2, <1>3, <1>4
  <2>3. screen' = "HOSTS" => selection' = memory["HOSTS"]
    BY <1>2, <1>3, <1>4
  <2>4. screen' = "RECON_HISTORY" => selection' = memory["RECON_HISTORY"]
    BY <1>2, <1>3, <1>4
  <2> QED BY <2>1, <2>2, <2>3, <2>4 DEF Held, LineOf
<1>10. TypeOK'
  <2>1. screen' \in Screens
    BY <1>2, <1>3, <1>4, ScreensAre
  <2>2. back' \in {"APPS", "HOST_ACTIONS", "DETAIL"} /\ field' \in 0 .. 1
    BY <1>a, <1>4 DEF TypeOK
  <2>3. launched' \in Nat \X (0 .. 3)
    BY <1>a, <1>4 DEF TypeOK
  <2>4. taskless' \in BOOLEAN
    BY <1>4
  <2> QED BY <1>a, <1>b, <1>5, <1>8, <2>1, <2>2, <2>3, <2>4 DEF TypeOK, MaxHosts, MaxEntries, Liked
<1> QED BY <1>6, <1>9, <1>10 DEF GuiInv

\* The screens of the network tasks.
LEMMA TaskScreensKeep ==
  ASSUME GuiInv, NEW key \in Keys,
         HostsKey(key) \/ HostActionsKey(key) \/ HistoryKey(key)
  PROVE  GuiInv'
<1> USE DEF apps, task, files, services, user, Pressing
<1>a. TypeOK /\ Held(screen, selection) /\ Places /\ selection \in Nat /\ memory \in [Lists -> Nat]
  BY DEF GuiInv, TypeOK
<1>1. CASE HostsKey(key)
  <2>1. CASE MoveOn("HOSTS", key)
    BY <1>1, <2>1, MoveKeeps DEF HostsKey
  <2>2. CASE /\ memory' = [memory EXCEPT !["HOSTS"] = selection, !["HOST_ACTIONS"] = 0]
             /\ selection' = 0 /\ screen' = "HOST_ACTIONS"
             /\ selection < hosts
             /\ UNCHANGED <<apps, task, files, services, user>>
    <3>1. /\ memory' \in [Lists -> Nat]
          /\ memory'["HOSTS"] = selection /\ memory'["HOST_ACTIONS"] = 0
          /\ \A t \in Unchecked : t \notin {"HOSTS", "HOST_ACTIONS"} => memory'[t] = memory[t]
      BY <1>a, <2>2 DEF Unchecked, Lists
    <3>2. Grown
      BY <1>a, <2>2, ServicesStay
    <3>3. Places'
      <4> SUFFICES ASSUME NEW t \in Unchecked
                   PROVE  LineOf(t, memory'[t], ViewCount', hosts', results', entries')
        BY DEF Places, Held
      <4>1. CASE t = "HOSTS"
        BY <2>2, <3>1, <4>1 DEF LineOf
      <4>2. CASE t = "HOST_ACTIONS"
        BY <3>1, <4>2 DEF LineOf
      <4>3. CASE t \notin {"HOSTS", "HOST_ACTIONS"}
        BY <3>1, <3>2, <4>3, LineStays
      <4> QED BY <4>1, <4>2, <4>3
    <3>4. TypeOK'
      BY <1>a, <2>2, <3>1, ScreensAre DEF TypeOK, MaxHosts, MaxEntries, Liked
    <3>5. Held(screen, selection)'
      BY <2>2 DEF Held, LineOf
    <3> QED BY <3>3, <3>4, <3>5 DEF GuiInv
  <2> QED BY <1>1, <2>1, <2>2 DEF HostsKey
<1>2. CASE HostActionsKey(key)
  <2>1. CASE MoveOn("HOST_ACTIONS", key)
    BY <1>2, <2>1, MoveKeeps DEF HostActionsKey
  <2>2. CASE key = "enter" /\ memory["HOSTS"] < hosts
    <3>1. /\ screen = "HOST_ACTIONS" /\ screen' = "APP_CONFIG" /\ selection' = selection
          /\ taskless' = FALSE /\ filled' = TRUE /\ field' = 1 /\ back' = "HOST_ACTIONS"
          /\ memory' = Remembering("HOST_ACTIONS", selection)
          /\ UNCHANGED <<apps, files, services, user>>
      BY <1>2, <2>2 DEF HostActionsKey
    <3>2. selection < 4
      BY <1>a, <3>1 DEF Held, LineOf
    <3>3. /\ memory' \in [Lists -> Nat] /\ memory'["HOST_ACTIONS"] = selection
          /\ \A t \in Unchecked : t # "HOST_ACTIONS" => memory'[t] = memory[t]
      BY <1>a, <3>1 DEF Remembering, Unchecked, Lists
    <3>4. Grown
      BY <1>a, <3>1, ServicesStay
    <3>5. \A t \in Unchecked : LineOf(t, memory'[t], ViewCount', hosts', results', entries')
      BY <3>2, <3>3, <3>4, LineStays DEF LineOf
    <3>6. memory["HOSTS"] \in Nat /\ selection \in 0 .. 3
      BY <1>a, <3>2 DEF Lists
    <3>7. launched' \in Nat \X (0 .. 3)
      <4>1. launched' = <<memory["HOSTS"], selection>>
        BY <1>2, <2>2 DEF HostActionsKey
      <4> QED BY <3>6, <4>1
    <3>8. TypeOK'
      <4>1. /\ screen' \in Screens /\ selection' \in Nat
            /\ field' \in 0 .. 1 /\ back' \in {"APPS", "HOST_ACTIONS", "DETAIL"}
        BY <1>a, <3>1, ScreensAre
      <4>0. taskless' \in BOOLEAN /\ filled' \in BOOLEAN
        BY <3>1, Zenon
      <4>2. UNCHANGED <<apps, files, services, user>>
        BY <3>1
      <4> QED BY <1>a, <3>3, <3>7, <4>0, <4>1, <4>2 DEF TypeOK, MaxHosts, MaxEntries, Liked
    <3> QED BY <3>1, <3>5, <3>8 DEF GuiInv, Held, LineOf, Places
  <2> QED BY <1>2, <2>1, <2>2 DEF HostActionsKey
<1>3. CASE HistoryKey(key)
  <2>1. CASE MoveOn("RECON_HISTORY", key)
    BY <1>3, <2>1, MoveKeeps DEF HistoryKey
  <2>2. CASE key = "enter" /\ selection < results
    <3>1. /\ memory' = Remembering("RECON_HISTORY", selection) /\ screen' = "DETAIL"
          /\ UNCHANGED <<selection, apps, task, files, services, user>>
      BY <1>3, <2>2 DEF HistoryKey
    <3>2. /\ memory' \in [Lists -> Nat] /\ memory'["RECON_HISTORY"] = selection
          /\ \A t \in Unchecked : t # "RECON_HISTORY" => memory'[t] = memory[t]
      BY <1>a, <3>1 DEF Remembering, Unchecked, Lists
    <3>3. Grown
      BY <1>a, <3>1, ServicesStay
    <3>4. \A t \in Unchecked : LineOf(t, memory'[t], ViewCount', hosts', results', entries')
      BY <2>2, <3>1, <3>2, <3>3, LineStays DEF LineOf
    <3>5. TypeOK'
      BY <1>a, <3>1, <3>2, ScreensAre DEF TypeOK, MaxHosts, MaxEntries, Liked
    <3> QED BY <3>1, <3>4, <3>5 DEF GuiInv, Held, LineOf, Places
  <2> QED BY <1>3, <2>1, <2>2 DEF HistoryKey
<1> QED BY <1>1, <1>2, <1>3

\* Setting up a task and confirming it: no list is shown.
LEMMA SettingUpKeeps ==
  ASSUME GuiInv, NEW key \in Keys, DetailEnter \/ ConfigKey(key) \/ Confirm
  PROVE  GuiInv'
<1> USE DEF apps, task, files, services, user, Pressing
<1>a. TypeOK
  BY DEF GuiInv
<1>b. results \in 0 .. Capacity /\ Capacity \in Nat
  BY <1>a, SizesAssumption DEF TypeOK
<1>1. /\ UNCHANGED <<selection, memory, apps, files, hosts, user>>
      /\ screen' \in TaskScreens
      /\ results' \in 0 .. Capacity /\ results <= results'
  <2>1. CASE DetailEnter
    BY <1>b, <2>1 DEF DetailEnter, TaskScreens
  <2>2. CASE ConfigKey(key)
    BY <1>b, <2>2 DEF ConfigKey, TaskScreens
  <2>3. CASE Confirm
    <3>1. results' \in {results, Recorded}
      BY <2>3 DEF Confirm
    <3>2. results' \in 0 .. Capacity /\ results <= results'
      BY <1>b, <3>1, RecordedKeeps
    <3> QED BY <2>3, <3>2 DEF Confirm, TaskScreens
  <2> QED BY <2>1, <2>2, <2>3
<1>2. Grown
  BY <1>a, <1>1 DEF Grown, TypeOK
<1>3. Places'
  BY <1>1, <1>2, PlacesStay
<1>4. Held(screen, selection)'
  BY <1>1 DEF Held, LineOf, TaskScreens
<1>5. running' \in BOOLEAN /\ hashing' \in BOOLEAN
  BY <1>a DEF TypeOK, DetailEnter, ConfigKey, Confirm
<1>6. /\ taskless' \in BOOLEAN /\ filled' \in BOOLEAN /\ field' \in 0 .. 1
      /\ back' \in {"APPS", "HOST_ACTIONS", "DETAIL"} /\ launched' \in Nat \X (0 .. 3)
  <2>1. CASE DetailEnter
    <3>0. taskless' \in BOOLEAN /\ filled' \in BOOLEAN
      BY <2>1, Zenon DEF DetailEnter
    <3>1. field' \in 0 .. 1 /\ back' \in {"APPS", "HOST_ACTIONS", "DETAIL"}
      BY <2>1 DEF DetailEnter
    <3>2. launched' \in Nat \X (0 .. 3)
      BY <2>1 DEF DetailEnter
    <3> QED BY <3>0, <3>1, <3>2
  <2>2. CASE ConfigKey(key)
    <3>1. filled' \in BOOLEAN
      <4>1. filled \in BOOLEAN
        BY <1>a DEF TypeOK
      <4>2. filled' = TRUE \/ filled' \in {FALSE, filled} \/ filled' = filled
        BY <2>2 DEF ConfigKey
      <4> QED BY <4>1, <4>2
    <3>0. field' \in 0 .. 1
      <4>1. field \in 0 .. 1
        BY <1>a DEF TypeOK
      <4>2. field' = 0 \/ field' = 1 \/ field' = field
        BY <2>2 DEF ConfigKey
      <4> QED BY <4>1, <4>2
    <3>2. UNCHANGED <<taskless, back, launched>>
      BY <2>2 DEF ConfigKey
    <3> QED BY <1>a, <3>0, <3>1, <3>2 DEF TypeOK
  <2>3. CASE Confirm
    BY <1>a, <2>3 DEF TypeOK, Confirm
  <2> QED BY <2>1, <2>2, <2>3
<1>7. TypeOK'
  BY <1>a, <1>1, <1>5, <1>6 DEF TypeOK, MaxHosts, MaxEntries, Liked, Screens
<1> QED BY <1>3, <1>4, <1>7 DEF GuiInv

\* Files, and a file to look at for evidence.
LEMMA FilesKeep ==
  ASSUME GuiInv, NEW key \in Keys,
         FilesMove(key) \/ FilesRequest(key) \/ FilesOpen \/ PickerKey(key)
  PROVE  GuiInv'
<1> USE DEF apps, task, files, services, user, Pressing
<1>a. /\ TypeOK /\ Held(screen, selection) /\ Places /\ selection \in Nat
      /\ memory \in [Lists -> Nat] /\ depth \in 0 .. MaxDepth /\ entries \in 0 .. MaxEntries
  BY DEF GuiInv, TypeOK
<1>b. MaxEntries \in Nat /\ MaxDepth \in Nat
  BY <1>a, TourFacts, SizesAssumption DEF TypeOK
<1>c. UNCHANGED <<task, apps, hosts, results, user>> /\ Grown
  BY <1>a, ServicesStay DEF FilesMove, FilesRequest, FilesOpen, PickerKey, MoveOn
<1>1. CASE FilesMove(key)
  <2>1. MoveOn("FILES", key) /\ screen = "FILES"
    BY <1>1 DEF FilesMove, MoveOn, Lines, Lists
  <2> QED BY <2>1, MoveKeeps
<1>2. CASE FilesRequest(key)
  <2>1. /\ request' \in {"safe_remove", "rescan"}
        /\ UNCHANGED <<cursor, entries, depth, services>>
    BY <1>2 DEF FilesRequest
  <2>2. ViewCount' = ViewCount
    BY <1>c, ViewStays
  <2>3. Held(screen, selection)' /\ Places'
    BY <1>c, <2>1, <2>2, CursorRests
  <2>4. TypeOK'
    BY <1>a, <1>c, <2>1 DEF TypeOK, MaxHosts, MaxEntries, Liked, cursor
  <2> QED BY <2>3, <2>4 DEF GuiInv
<1>3. CASE FilesOpen
  <2>1. /\ memory' = Remembering("FILES", selection) /\ UNCHANGED <<request, services>>
        /\ screen = "FILES"
    BY <1>3 DEF FilesOpen
  <2>2. memory' \in [Lists -> Nat] /\ \A t \in Unchecked : memory'[t] = memory[t]
    BY <1>a, <2>1 DEF Remembering, Unchecked, Lists
  <2>3. Places'
    BY <1>c, <2>2, PlacesStay
  <2>4. /\ screen' \in {"FILES", "FILE_VIEW"} /\ selection' \in Nat
        /\ entries' \in 0 .. MaxEntries /\ depth' \in 0 .. MaxDepth
    BY <1>a, <1>b, <1>3 DEF FilesOpen
  <2>5. Held(screen, selection)'
    BY <1>a, <1>3, <2>1 DEF FilesOpen, Held, LineOf
  <2>6. TypeOK'
    BY <1>a, <1>c, <2>1, <2>2, <2>4, ScreensAre DEF TypeOK, MaxHosts, MaxEntries, Liked
  <2> QED BY <2>3, <2>5, <2>6 DEF GuiInv
<1>4. CASE PickerKey(key)
  <2>1. CASE MoveOn("EVIDENCE_PICKER", key)
    BY <1>4, <2>1, MoveKeeps DEF PickerKey
  <2>2. CASE /\ hashing' = TRUE /\ memory' = Remembering("FILES", selection)
             /\ screen' = "EVIDENCE"
             /\ UNCHANGED <<selection, apps, task, files, running, hosts, results, user>>
    <3>1. memory' \in [Lists -> Nat] /\ \A t \in Unchecked : memory'[t] = memory[t]
      BY <1>a, <2>2 DEF Remembering, Unchecked, Lists
    <3>2. Places'
      BY <1>c, <3>1, PlacesStay
    <3>3. TypeOK'
      BY <1>a, <2>2, <3>1, ScreensAre DEF TypeOK, MaxHosts, MaxEntries, Liked
    <3> QED BY <2>2, <3>2, <3>3 DEF GuiInv, Held, LineOf
  <2> QED BY <1>4, <2>1, <2>2 DEF PickerKey
<1> QED BY <1>1, <1>2, <1>3, <1>4

\* Where Escape puts the cursor is a line of the screen it leads to.
LEMMA RestoredIsLine ==
  ASSUME GuiInv, Grown, UNCHANGED entries,
         NEW s \in {"FILES", "DETAIL", "HOST_ACTIONS", "HOSTS", "RECON_HISTORY", "SYSTEM",
                    "HOME", "APPS"}
  PROVE  /\ Restored(s) \in Nat
         /\ s # "APPS" => LineOf(s, Restored(s), ViewCount', hosts', results', entries')
<1>1. selection \in Nat /\ memory \in [Lists -> Nat] /\ entries \in Nat
  BY DEF GuiInv, TypeOK
<1>2. memory["RECON_HISTORY"] \in Nat /\ (s \in Lists => memory[s] \in Nat)
  BY <1>1 DEF Lists
<1>3. Restored(s) \in Nat
  BY <1>1, <1>2 DEF Restored
<1>4. CASE s = "FILES"
  <2>1. Restored(s) = IF selection >= entries THEN 0 ELSE selection
    BY <1>4 DEF Restored
  <2> QED BY <1>1, <1>3, <1>4, <2>1 DEF LineOf
<1>5. CASE s = "DETAIL"
  BY <1>3, <1>5 DEF LineOf
<1>6. CASE s \in Unchecked
  <2>1. Restored(s) = memory[s]
    BY <1>6 DEF Restored, Unchecked, Lists
  <2> QED BY <1>3, <1>6, <2>1, LineStays DEF Unchecked
<1> QED BY <1>3, <1>4, <1>5, <1>6 DEF Unchecked

\* Escape from the screens that it stops work on or that have no parent.
LEMMA EscapeTaskKeeps ==
  ASSUME GuiInv, EscapeTask \/ EscapeEvidence, UNCHANGED user
  PROVE  GuiInv'
<1> USE DEF apps, task, files, user
<1>a. TypeOK /\ memory \in [Lists -> Nat] /\ results \in 0 .. Capacity /\ Capacity \in Nat
  BY SizesAssumption DEF GuiInv, TypeOK
<1>b. ViewCount' \in Nat /\ memory["APPS"] \in Nat
  BY <1>a, ViewCountType DEF Lists
<1>1. UNCHANGED <<apps, task, files, hosts, user>>
  BY DEF EscapeTask, EscapeEvidence
<1>2. running' \in BOOLEAN /\ hashing' \in BOOLEAN
  BY <1>a DEF EscapeTask, EscapeEvidence, CancelTask, TypeOK
<1>3. results' \in 0 .. Capacity /\ results <= results'
  <2>1. results' \in {results, Recorded}
    BY DEF EscapeTask, EscapeEvidence, CancelTask
  <2> QED BY <1>a, <2>1, RecordedKeeps
<1>4. Grown
  BY <1>a, <1>1, <1>3 DEF Grown, TypeOK
<1>5. PICK s \in {"DETAIL", "HOST_ACTIONS", "APPS"}, n \in Nat :
        /\ Show(s, n, memory)
        /\ s # "APPS" => LineOf(s, n, ViewCount', hosts', results', entries')
  <2>1. CASE EscapeEvidence
    BY <1>b, <2>1 DEF EscapeEvidence
  <2>2. CASE EscapeTask
    <3>1. back \in {"DETAIL", "HOST_ACTIONS", "APPS"}
      BY <1>a DEF TypeOK
    <3>2. /\ Restored(back) \in Nat
          /\ back # "APPS" => LineOf(back, Restored(back), ViewCount', hosts', results', entries')
      BY <1>1, <1>4, <3>1, RestoredIsLine
    <3>3. CASE Show(back, Restored(back), memory)
      BY <3>1, <3>2, <3>3
    <3>4. CASE back # "HOST_ACTIONS" /\ Show(back, memory["APPS"], memory)
      BY <1>b, <3>1, <3>4 DEF LineOf
    <3> QED BY <2>2, <3>3, <3>4 DEF EscapeTask
  <2> QED BY <2>1, <2>2
<1>6. \A t \in Unchecked : LineOf(t, memory[t], ViewCount', hosts', results', entries')
  BY <1>4, LineStays
<1>7. /\ screen' \in Screens /\ selection' \in Nat /\ memory' \in [Lists -> Nat]
      /\ Held(screen, selection)' /\ Places'
  BY <1>a, <1>b, <1>5, <1>6, ShowKeeps, ScreensAre
<1>8. TypeOK'
  BY <1>a, <1>1, <1>2, <1>3, <1>7 DEF TypeOK, MaxHosts, MaxEntries, Liked
<1> QED BY <1>7, <1>8 DEF GuiInv

\* Escape from the other screens.
LEMMA EscapeToParentKeeps ==
  ASSUME GuiInv, EscapeDirectory \/ EscapeToParent, UNCHANGED user
  PROVE  GuiInv'
<1> USE DEF apps, task, files, services, user
<1>a. /\ TypeOK /\ Places /\ selection \in Nat /\ memory \in [Lists -> Nat]
      /\ depth \in 0 .. MaxDepth /\ MaxDepth \in Nat
  BY SizesAssumption DEF GuiInv, TypeOK
<1>b. ViewCount' \in Nat /\ UNCHANGED <<apps, task, services>> /\ Grown
  BY <1>a, ViewCountType, ServicesStay DEF EscapeDirectory, EscapeToParent
<1>1. CASE EscapeDirectory
  <2>1. /\ screen = "FILES" /\ depth' \in 0 .. MaxDepth /\ selection' = 0
        /\ UNCHANGED <<screen, memory, request>> /\ entries' \in 0 .. MaxEntries
    BY <1>a, <1>1 DEF EscapeDirectory
  <2>2. Places'
    BY <1>b, <2>1, PlacesStay
  <2>3. Held(screen, selection)'
    BY <2>1 DEF Held, LineOf
  <2>4. TypeOK'
    BY <1>a, <1>b, <2>1 DEF TypeOK, MaxHosts, MaxEntries, Liked
  <2> QED BY <2>2, <2>3, <2>4 DEF GuiInv
<1>2. CASE EscapeToParent
  <2> DEFINE to == Parent(screen)
             left == IF screen = "FILES" THEN Remembering("FILES", selection) ELSE memory
  <2>1. to \in {"FILES", "DETAIL", "HOST_ACTIONS", "HOSTS", "RECON_HISTORY", "SYSTEM",
                "HOME", "APPS"}
    <3>1. back \in {"APPS", "HOST_ACTIONS", "DETAIL"}
      BY <1>a DEF TypeOK
    <3> QED BY <3>1 DEF Parent
  <2>2. UNCHANGED <<apps, task, files, services>> /\ Show(to, Restored(to), left)
    BY <1>2 DEF EscapeToParent
  <2> HIDE DEF to
  <2>3. left \in [Lists -> Nat] /\ \A t \in Unchecked : left[t] = memory[t]
    BY <1>a DEF Remembering, Unchecked, Lists
  <2>4. \A t \in Unchecked : LineOf(t, left[t], ViewCount', hosts', results', entries')
    BY <1>b, <2>3, LineStays
  <2>5. /\ Restored(to) \in Nat
        /\ to # "APPS" => LineOf(to, Restored(to), ViewCount', hosts', results', entries')
    BY <1>b, <2>1, <2>2, RestoredIsLine
  <2> HIDE DEF left
  <2>6. /\ screen' \in Screens /\ selection' \in Nat /\ memory' \in [Lists -> Nat]
        /\ Held(screen, selection)' /\ Places'
    BY <1>b, <2>1, <2>2, <2>3, <2>4, <2>5, ShowKeeps, ScreensAre
  <2>7. TypeOK'
    BY <1>a, <1>b, <2>2, <2>6 DEF TypeOK, MaxHosts, MaxEntries, Liked
  <2> QED BY <2>6, <2>7 DEF GuiInv
<1> QED BY <1>1, <1>2

\* What changes under the screens.
LEMMA WorldKeeps ==
  ASSUME GuiInv,
         TakeRequest \/ DevicesRefresh \/ TaskEnds \/ EvidenceEnds \/ HostSeen \/ Leave
  PROVE  GuiInv'
<1> USE DEF apps, task, files, user
<1>a. /\ TypeOK /\ Held(screen, selection) /\ selection \in Nat
      /\ memory \in [Lists -> Nat] /\ results \in 0 .. Capacity /\ Capacity \in Nat
      /\ hosts \in 0 .. MaxHosts /\ entries \in 0 .. MaxEntries
  BY SizesAssumption DEF GuiInv, TypeOK
<1>b. MaxHosts \in Nat /\ MaxEntries \in Nat
  BY <1>a, TourFacts DEF TypeOK
<1>1. CASE TakeRequest \/ DevicesRefresh
  <2>1. PICK n \in 0 .. MaxEntries, ready \in BOOLEAN : Updated(n, ready)
    <3>1. CASE Updated(0, FALSE)
      <4>1. 0 \in 0 .. MaxEntries
        BY <1>b
      <4>2. FALSE \in BOOLEAN
        OBVIOUS
      <4> QED BY <3>1, <4>1, <4>2, Zenon
    <3>2. CASE \E n \in 0 .. MaxEntries, ready \in BOOLEAN : Updated(n, ready)
      BY <3>2
    <3> QED BY <1>1, <3>1, <3>2 DEF TakeRequest, DevicesRefresh
  <2>2. UNCHANGED <<apps, task, services, user>> /\ request' \in {"none", "safe_remove", "rescan"}
    BY <1>1 DEF TakeRequest, DevicesRefresh
  <2>3. /\ entries' \in 0 .. MaxEntries
        /\ selection' = IF screen = "FILES" /\ selection >= entries' THEN 0 ELSE selection
        /\ UNCHANGED <<screen, memory, depth>>
    BY <1>a, <2>1 DEF Updated
  <2>4. Grown /\ ViewCount' = ViewCount
    BY <1>a, <2>2, ServicesStay, ViewStays DEF services
  <2>5. Places'
    BY <2>3, <2>4, PlacesStay
  <2>6. Held(screen, selection)'
    <3>1. entries' \in Nat /\ hosts' = hosts /\ results' = results
      BY <1>b, <2>2, <2>3 DEF services
    <3>2. CASE screen = "FILES"
      BY <1>a, <2>3, <3>1, <3>2 DEF Held, LineOf
    <3>3. CASE screen # "FILES"
      BY <1>a, <2>3, <2>4, <3>1, <3>3 DEF Held, LineOf
    <3> QED BY <3>2, <3>3
  <2>7. TypeOK'
    BY <1>a, <2>2, <2>3 DEF TypeOK, services, MaxHosts, MaxEntries, Liked
  <2> QED BY <2>5, <2>6, <2>7 DEF GuiInv
<1>2. CASE TaskEnds \/ EvidenceEnds \/ HostSeen \/ Leave
  <2>1. UNCHANGED <<cursor, apps, task, files, tour>>
    BY <1>2 DEF TaskEnds, EvidenceEnds, HostSeen, Leave
  <2>2. running' \in BOOLEAN /\ hashing' \in BOOLEAN /\ leaving' \in BOOLEAN
    BY <1>a, <1>2 DEF TaskEnds, EvidenceEnds, HostSeen, Leave, TypeOK, services
  <2>3. results' \in 0 .. Capacity /\ results <= results'
    <3>1. results' \in {results, Recorded}
      BY <1>2 DEF TaskEnds, EvidenceEnds, HostSeen, Leave, services
    <3> QED BY <1>a, <3>1, RecordedKeeps
  <2>4. hosts' \in 0 .. MaxHosts /\ hosts <= hosts'
    <3>1. CASE TaskEnds
      <4>1. hosts' = hosts \/ hosts' = Min({MaxHosts, hosts + 1})
        BY <3>1 DEF TaskEnds
      <4> QED BY <1>a, <1>b, <4>1, HostsGrow
    <3>2. CASE HostSeen
      BY <1>a, <1>b, <3>2 DEF HostSeen
    <3>3. CASE EvidenceEnds \/ Leave
      BY <1>a, <1>b, <3>3 DEF EvidenceEnds, Leave, services
    <3> QED BY <1>2, <3>1, <3>2, <3>3
  <2>5. Grown /\ ViewCount' = ViewCount
    BY <1>a, <1>b, <2>1, <2>3, <2>4, ViewStays DEF Grown
  <2>6. Held(screen, selection)' /\ Places'
    BY <2>1, <2>5, CursorRests
  <2>7. TypeOK'
    BY <1>a, <2>1, <2>2, <2>3, <2>4 DEF TypeOK, cursor, MaxHosts, MaxEntries, Liked
  <2> QED BY <2>6, <2>7 DEF GuiInv
<1> QED BY <1>1, <1>2

\* What cannot happen to a task on its way back to the host it came from: it
\* keeps the host, and the place of the action.
HostKept ==
  (screen \in TaskScreens /\ back = "HOST_ACTIONS") =>
    launched = <<memory["HOSTS"], memory["HOST_ACTIONS"]>>

\* Every step keeps the types, the cursor and the places.
LEMMA StepKeeps ==
  ASSUME GuiInv, [Next]_vars
  PROVE  GuiInv'
<1>1. ASSUME NEW key \in Keys, Key(key)
      PROVE  GuiInv'
  BY <1>1, HomeKeeps, SystemScreensKeep, AppsKeep, TaskScreensKeep, SettingUpKeeps,
     FilesKeep DEF Key
<1>2. ASSUME Enter
      PROVE  GuiInv'
  <2>1. "up" \in Keys
    BY DEF Keys
  <2> QED BY <1>2, <2>1, HomeKeeps, OpenAppKeeps, SettingUpKeeps, FilesKeep DEF Enter
<1>3. ASSUME AppsFavorite \/ AppsInfo \/ InfoFavorite
      PROVE  GuiInv'
  <2>1. "up" \in Keys
    BY DEF Keys
  <2> QED BY <1>3, <2>1, AppsKeep
<1>4. ASSUME Escape
      PROVE  GuiInv'
  BY <1>4, EscapeTaskKeeps, EscapeToParentKeeps DEF Escape
<1>5. ASSUME TakeRequest \/ DevicesRefresh \/ TaskEnds \/ EvidenceEnds \/ HostSeen \/ Leave
      PROVE  GuiInv'
  BY <1>5, WorldKeeps
<1>6. ASSUME UNCHANGED vars
      PROVE  GuiInv'
  <2>1. ViewCount' = ViewCount
    BY <1>6, ViewStays DEF vars, apps
  <2> QED BY <1>6, <2>1 DEF vars, cursor, apps, task, files, services, user, GuiInv, TypeOK,
             MaxHosts, MaxEntries, Liked, Places, Held
<1> QED BY <1>1, <1>2, <1>3, <1>4, <1>5, <1>6 DEF Next

\* What the preferences say is within the lists that do not change.
LEMMA InitialPlaces ==
  ASSUME Init
  PROVE  GuiInv
<1>1. MaxHosts \in Nat /\ MaxEntries \in Nat /\ Saved \subseteq Nat /\ Liked \subseteq Nat
      /\ Filters \subseteq Range(FilterOrder) /\ Capacity \in Nat /\ MaxDepth \in Nat
  BY TourFacts, SizesAssumption DEF Init
<1>2. /\ memory \in [Lists -> Saved \cup {0}] /\ memory["HOME"] < 6 /\ memory["SYSTEM"] < 7
      /\ \A s \in Lists \ {"HOME", "SYSTEM", "FILES", "APPS"} : memory[s] = 0
  BY DEF Init
<1>3. memory \in [Lists -> Nat]
  <2>1. Saved \cup {0} \subseteq Nat
    BY <1>1
  <2> HIDE DEF Saved
  <2> QED BY <1>2, <2>1
<1>4. screen = "HOME" /\ selection = memory["HOME"] /\ selection \in Nat
  BY <1>3 DEF Init, Lists
<1>5. filter \in Range(FilterOrder)
  <2>1. "all" \in Range(FilterOrder)
    BY DEF Range, FilterOrder
  <2> QED BY <1>1, <2>1 DEF Init
<1>6. Held(screen, selection)
  BY <1>2, <1>4 DEF Held, LineOf
<1>7. Places
  <2>1. \A s \in Unchecked : s \in Lists \ {"FILES", "APPS"}
    BY DEF Unchecked, Lists
  <2> QED BY <1>2, <2>1 DEF Places, Held, LineOf
<1>8. /\ screen \in Screens /\ back \in {"APPS", "HOST_ACTIONS", "DETAIL"}
      /\ favorites \subseteq Liked /\ tour \in Tours
      /\ request \in {"none", "safe_remove", "rescan"}
  BY <1>4, ScreensAre DEF Init
<1>9. taskless \in BOOLEAN /\ filled \in BOOLEAN /\ running \in BOOLEAN /\ hashing \in BOOLEAN
      /\ leaving \in BOOLEAN
  BY Zenon DEF Init
<1>10. /\ field \in 0 .. 1 /\ entries \in 0 .. MaxEntries /\ depth \in 0 .. MaxDepth
       /\ hosts \in 0 .. MaxHosts /\ results \in 0 .. Capacity
  BY <1>1 DEF Init
<1>11. info \in DOMAIN Catalog
  BY DEF Init, Catalog
<1>12. launched \in Nat \X (0 .. 3)
  BY DEF Init
<1>13. TypeOK
  BY <1>3, <1>4, <1>5, <1>8, <1>9, <1>10, <1>11, <1>12 DEF TypeOK
<1> QED BY <1>6, <1>7, <1>13 DEF GuiInv

\* The screens, the places and the sizes of the lists stay what the code's types
\* and tables allow, for any tours (gui.c:47-123).
THEOREM GuiTypes == Spec => []TypeOK
<1>1. Spec => []GuiInv
  BY InitialPlaces, StepKeeps, PTL DEF Spec
<1>2. GuiInv => TypeOK
  BY DEF GuiInv
<1> QED BY <1>1, <1>2, PTL

\* The cursor stands on a line of its screen, however the screen was entered and
\* whatever its list has become since (gui.c:1014, :1364, :1438).
THEOREM CursorOnScreenHolds == Spec => []CursorOnScreen
<1>1. Spec => []GuiInv
  BY InitialPlaces, StepKeeps, PTL DEF Spec
<1>2. GuiInv => CursorOnScreen
  BY CursorIsHeld DEF GuiInv
<1> QED BY <1>1, <1>2, PTL

\* A task screen is shown with the place of the host that its task came from, or
\* the step leaves the task screens.
LEMMA HostIsKept ==
  ASSUME GuiInv, HostKept, [Next]_vars
  PROVE  HostKept'
<1> USE DEF apps, task, files, services, user, Pressing, HostKept
<1>a. TypeOK /\ Held(screen, selection) /\ selection \in Nat /\ memory \in [Lists -> Nat]
  BY DEF GuiInv, TypeOK
<1>0. SUFFICES ASSUME screen' \in TaskScreens PROVE HostKept'
  OBVIOUS
<1>1. CASE UNCHANGED <<screen, back, launched, memory>>
  BY <1>1
<1>2. ASSUME NEW key \in Keys, Key(key)
      PROVE  HostKept'
  <2>1. CASE HostActionsKey(key)
    <3>1. CASE MoveOn("HOST_ACTIONS", key)
      BY <1>0, <2>1, <3>1 DEF HostActionsKey, MoveOn, TaskScreens
    <3>2. CASE key = "enter" /\ memory["HOSTS"] < hosts
      <4>1. /\ memory' = Remembering("HOST_ACTIONS", selection)
            /\ launched' = <<memory["HOSTS"], selection>>
        BY <2>1, <3>2 DEF HostActionsKey
      <4>2. memory'["HOST_ACTIONS"] = selection /\ memory'["HOSTS"] = memory["HOSTS"]
        BY <1>a, <4>1 DEF Remembering, Lists
      <4> QED BY <4>1, <4>2
    <3> QED BY <2>1, <3>1, <3>2 DEF HostActionsKey
  <2>2. CASE ConfigKey(key)
    BY <2>2 DEF ConfigKey, TaskScreens
  <2>3. CASE HomeKey(key) \/ SystemKey(key) \/ SkinsKey(key) \/ ShutdownKey(key)
    BY <1>0, <2>3 DEF HomeKey, SystemKey, SkinsKey, ShutdownKey, TaskScreens
  <2>4. CASE SettingsKey(key) \/ AppsMove(key) \/ AppsTurn(key)
    BY <1>0, <2>4 DEF SettingsKey, MoveOn, AppsMove, AppsTurn, Show, TaskScreens
  <2>5. CASE HostsKey(key) \/ HistoryKey(key) \/ PickerKey(key)
    BY <1>0, <2>5 DEF HostsKey, HistoryKey, PickerKey, MoveOn, TaskScreens
  <2>6. CASE FilesMove(key) \/ FilesRequest(key)
    BY <1>0, <2>6 DEF FilesMove, FilesRequest, cursor, TaskScreens
  <2> QED BY <1>2, <2>1, <2>2, <2>3, <2>4, <2>5, <2>6 DEF Key
<1>3. CASE OpenHomeItem
  <2>1. HomeItems[selection + 1] \in {"STATUS", "FILES", "DEVICES", "APPS", "AUDIT", "SYSTEM"}
    BY <1>a, <1>3 DEF OpenHomeItem, Held, LineOf, HomeItems
  <2>2. screen' = HomeItems[selection + 1]
    BY <1>3 DEF OpenHomeItem, Show
  <2> QED BY <1>0, <2>1, <2>2 DEF TaskScreens
<1>4. CASE OpenSystemItem
  <2>1. SystemItems[selection + 1] \in {"SECURITY", "UPDATE", "SKINS", "TERMINAL",
                                        "RECOVERY", "SHUTDOWN", "ABOUT"}
    BY <1>a, <1>4 DEF OpenSystemItem, Held, LineOf, SystemItems
  <2>2. screen' = SystemItems[selection + 1]
    BY <1>4 DEF OpenSystemItem
  <2> QED BY <1>0, <2>1, <2>2 DEF TaskScreens
<1>5. CASE OpenApp
  <2> DEFINE kind == Catalog[AppAt(selection)]
  <2>1. CASE kind \in DOMAIN OpenedBy
    <3>1. screen' = OpenedBy[kind]
      BY <1>5, <2>1 DEF OpenApp
    <3>2. OpenedBy[kind] \in {"APP_DEVICES", "HOSTS", "EVIDENCE_PICKER", "RECON_HISTORY"}
      BY <2>1 DEF OpenedBy
    <3> QED BY <1>0, <3>1, <3>2 DEF TaskScreens
  <2>2. CASE kind \notin DOMAIN OpenedBy
    <3>1. back' = "APPS"
      BY <1>5, <2>2 DEF OpenApp
    <3> QED BY <3>1
  <2> QED BY <2>1, <2>2
<1>6. CASE DetailEnter
  BY <1>6 DEF DetailEnter
<1>7. CASE Confirm
  BY <1>7 DEF Confirm, TaskScreens
<1>8. CASE FilesOpen \/ AppsFavorite \/ AppsInfo
  BY <1>0, <1>8 DEF FilesOpen, AppsFavorite, AppsInfo, Show, TaskScreens
<1>9. CASE Escape
  <2>1. back \in {"APPS", "HOST_ACTIONS", "DETAIL"}
    BY <1>a DEF TypeOK
  <2>2. Parent(screen) \notin TaskScreens
    BY <2>1 DEF Parent, TaskScreens
  <2>3. screen' \notin TaskScreens
    BY <1>9, <2>1, <2>2
    DEF Escape, EscapeDirectory, EscapeTask, EscapeEvidence, EscapeToParent, Show, TaskScreens
  <2> QED BY <1>0, <2>3
<1>10. CASE \/ TakeRequest \/ DevicesRefresh \/ TaskEnds \/ EvidenceEnds \/ HostSeen \/ Leave
            \/ InfoFavorite \/ UNCHANGED vars
  BY <1>1, <1>10 DEF TakeRequest, DevicesRefresh, Updated, TaskEnds, EvidenceEnds, HostSeen,
                     Leave, InfoFavorite, cursor, vars
<1> QED BY <1>2, <1>3, <1>4, <1>5, <1>6, <1>7, <1>8, <1>9, <1>10 DEF Next, Enter

\* The step back shows the host's actions at the one that the task is.
LEMMA StepReturnsToHost ==
  ASSUME GuiInv, HostKept, [Next]_vars, screen \in TaskScreens, screen' = "HOST_ACTIONS"
  PROVE  launched = <<memory'["HOSTS"], selection'>>
<1> USE DEF TaskScreens, Pressing
<1>1. Escape
  <2>1. ASSUME NEW key \in Keys, Key(key)
        PROVE  FALSE
    <3>1. ConfigKey(key)
      BY <2>1 DEF Key, HomeKey, SystemKey, SettingsKey, SkinsKey, ShutdownKey, AppsMove,
                  AppsTurn, HostsKey, HostActionsKey, HistoryKey, FilesMove, FilesRequest,
                  PickerKey
    <3> QED BY <3>1 DEF ConfigKey
  <2>2. ~Enter
    BY DEF Enter, OpenHomeItem, OpenSystemItem, OpenApp, DetailEnter, Confirm, FilesOpen
  <2>3. ~(AppsFavorite \/ AppsInfo \/ InfoFavorite)
    BY DEF AppsFavorite, AppsInfo, InfoFavorite
  <2>4. ~(\/ TakeRequest \/ DevicesRefresh \/ TaskEnds \/ EvidenceEnds \/ HostSeen \/ Leave
          \/ UNCHANGED vars)
    BY DEF TakeRequest, DevicesRefresh, Updated, TaskEnds, EvidenceEnds, HostSeen, Leave,
           cursor, vars
  <2> QED BY <2>1, <2>2, <2>3, <2>4 DEF Next
<1>2. back \in {"APPS", "HOST_ACTIONS", "DETAIL"}
  BY DEF GuiInv, TypeOK
<1>3. back = "HOST_ACTIONS" /\ Show(back, Restored(back), memory)
  <2>1. CASE EscapeTask
    BY <1>2, <2>1 DEF EscapeTask, Show
  <2>2. CASE EscapeToParent
    <3>1. screen = "APP_CONFIG"
      BY <2>2 DEF EscapeToParent
    <3>2. Parent(screen) = back
      <4>1. "APP_CONFIG" \notin Range(SystemItems)
        BY DEF Range, SystemItems
      <4> QED BY <3>1, <4>1 DEF Parent
    <3> QED BY <1>2, <2>2, <3>1, <3>2 DEF EscapeToParent, Show
  <2> QED BY <1>1, <2>1, <2>2 DEF Escape, EscapeDirectory, EscapeEvidence
<1>4. Restored(back) = memory["HOST_ACTIONS"]
  BY <1>3 DEF Restored, Lists
<1>5. selection' = memory["HOST_ACTIONS"] /\ memory' = memory
  BY <1>3, <1>4 DEF Show
<1> QED BY <1>3, <1>5 DEF HostKept

\* Escape from a task started from a host leads back to that action of that
\* host, whatever hosts the network has shown meanwhile (gui.c:1164-1191).
THEOREM ReturnsToHostHolds == Spec => ReturnsToHost
<1>1. Init => HostKept
  BY DEF Init, HostKept, TaskScreens
<1>2. GuiInv /\ HostKept /\ [Next]_vars => HostKept'
  BY HostIsKept
<1>3. GuiInv /\ HostKept /\ [Next]_vars =>
        [(screen \in TaskScreens /\ screen' = "HOST_ACTIONS") =>
           (launched = <<memory'["HOSTS"], selection'>>)]_vars
  BY StepReturnsToHost
<1> QED BY <1>1, <1>2, <1>3, InitialPlaces, StepKeeps, PTL DEF Spec, ReturnsToHost

-----------------------------------------------------------------------------
(* What is on the glass: that a redraw leaves a whole page                 *)

\* The page that the renderer of the current skin drew last
drawn == cache[Renderer(skin)]

\* The title of a crayon page, which has no scope
TitleOf(s) == <<FALSE, IF s = "APP_DEVICES" THEN "DEVICES" ELSE s, 0, 0>>

\* No other renderer keeps a page: gui.c forgets its own whenever another
\* draws, and the two skins forget theirs when one is chosen (gui.c:226-268).
OwnPage == cache = [k \in Renderers |-> IF k = Renderer(skin) THEN drawn ELSE None]

\* What is kept of a page is on the glass, but for what a terminal wrote over,
\* and a crayon page with the title of its screen, which is compared no more.
SeenPage ==
  drawn.lines # NoLines =>
    /\ drawn.skin = skin
    /\ \A r \in Rows : glass[r] \in {<<skin, drawn.lines[r]>>, Terminal}
    /\ skin = Crayon => drawn.lines[1] = TitleOf(drawn.screen)

\* The home screen is whole, and its renderer keeps no page beside it.
AtHome == screen = "HOME" => glass = Paint(Home) /\ drawn = None

\* What a step of the glass keeps
GlassInv == OwnPage /\ glass = [r \in Rows |-> glass[r]] /\ SeenPage /\ AtHome

\* The whole picture is there, or a terminal that was left is.
Whole == Leftover \/ glass = Paint(Picture)

\* No key but Enter and Escape leads away from home,
LEMMA HomeKeysStay ==
  ASSUME NEW key, Key(key), screen = "HOME"
  PROVE  screen' = "HOME"
<1> USE DEF Pressing, cursor
<1>1. CASE HomeKey(key)
  BY <1>1 DEF HomeKey
<1>2. CASE ~HomeKey(key)
  <2>1. ~SystemKey(key) /\ ~SettingsKey(key) /\ ~SkinsKey(key) /\ ~ShutdownKey(key)
    BY DEF SystemKey, SettingsKey, SkinsKey, ShutdownKey
  <2>2. ~AppsMove(key) /\ ~AppsTurn(key) /\ ~HostsKey(key) /\ ~HostActionsKey(key)
    BY DEF AppsMove, AppsTurn, HostsKey, HostActionsKey
  <2>3. ~HistoryKey(key) /\ ~ConfigKey(key) /\ ~FilesMove(key) /\ ~FilesRequest(key)
          /\ ~PickerKey(key)
    BY DEF HistoryKey, ConfigKey, FilesMove, FilesRequest, PickerKey
  <2> QED BY <1>2, <2>1, <2>2, <2>3 DEF Key
<1> QED BY <1>1, <1>2

\* or leads there.
LEMMA OtherKeysStayAway ==
  ASSUME NEW key, Key(key), screen # "HOME", ~(screen = "SKINS" /\ key = "enter")
  PROVE  screen' # "HOME"
<1> USE DEF Pressing, cursor
<1>1. CASE SystemKey(key) \/ SettingsKey(key) \/ SkinsKey(key)
  BY <1>1 DEF SystemKey, SettingsKey, SkinsKey, MoveOn
<1>2. CASE ShutdownKey(key)
  BY <1>2 DEF ShutdownKey
<1>3. CASE AppsMove(key) \/ AppsTurn(key)
  BY <1>3 DEF AppsMove, AppsTurn, Show
<1>4. CASE HostsKey(key) \/ HostActionsKey(key) \/ HistoryKey(key)
  BY <1>4 DEF HostsKey, HostActionsKey, HistoryKey, MoveOn
<1>5. CASE ConfigKey(key)
  BY <1>5 DEF ConfigKey
<1>6. CASE FilesMove(key) \/ FilesRequest(key) \/ PickerKey(key)
  BY <1>6 DEF FilesMove, FilesRequest, PickerKey, MoveOn
<1>7. CASE HomeKey(key)
  BY <1>7 DEF HomeKey
<1> QED BY <1>1, <1>2, <1>3, <1>4, <1>5, <1>6, <1>7 DEF Key

\* Every skin has a renderer.
LEMMA Renders == \A s : Renderer(s) \in Renderers
BY DEF Renderer, Renderers, Synthwave, Crayon

\* The first row of a page is its title.
LEMMA PageTitle ==
  /\ Page = [r \in Rows |-> Page[r]]
  /\ Page[1] = Title
BY DEF Page, OnRows, Rows

\* What is left of the caches when a draw begins: at most the page of the skin.
LeftFor(kept, s) == kept = [k \in Renderers |-> IF k = Renderer(s) THEN kept[Renderer(s)] ELSE None]

\* Home is drawn whole over anything.
LEMMA HomeIsDrawn ==
  ASSUME NEW kept, screen' = "HOME", DrawHome(kept),
         kept = [k \in Renderers |-> IF k \in {Renderer(skin'), "gui"} THEN kept[k] ELSE None]
  PROVE  GlassInv' /\ Whole'
<1>1. cache' = [k \in Renderers |-> None]
  BY Renders DEF DrawHome, Renderers
<1>2. drawn' = None
  BY <1>1, Renders DEF drawn
<1>3. OwnPage'
  BY <1>1, <1>2, Zenon DEF OwnPage
<1>4. glass' = Paint(Home)'
  BY DEF DrawHome
<1>5. glass' = [r \in Rows |-> glass'[r]]
  BY <1>4 DEF Paint
<1>6. SeenPage'
  BY <1>2 DEF SeenPage, None
<1>7. AtHome'
  BY <1>2, <1>4 DEF AtHome
<1>8. Whole'
  BY <1>4 DEF Whole, Picture
<1> QED BY <1>3, <1>5, <1>6, <1>7, <1>8 DEF GlassInv

\* The terminal writes over every row, and a skin's renderer is not told.
LEMMA TerminalIsDrawn ==
  ASSUME GlassInv, skin' = skin, screen' = "TERMINAL", DrawTerminal(cache)
  PROVE  GlassInv'
<1>1. drawn' = drawn \/ drawn' = None
  BY Renders DEF DrawTerminal, drawn, GlassInv, OwnPage
<1>2. OwnPage'
  BY Renders DEF OwnPage, DrawTerminal, GlassInv, drawn
<1>3. glass' = [r \in Rows |-> Terminal]
  BY DEF DrawTerminal
<1>4. glass' = [r \in Rows |-> glass'[r]]
  BY <1>3
<1>5. SeenPage'
  <2>1. CASE drawn' = None
    BY <2>1 DEF SeenPage, None
  <2>2. CASE drawn' = drawn
    <3>1. SeenPage
      BY DEF GlassInv
    <3>2. \A r \in Rows : glass'[r] = Terminal
      BY <1>3
    <3> QED BY <2>2, <3>1, <3>2 DEF SeenPage
  <2> QED BY <1>1, <2>1, <2>2
<1>6. AtHome'
  BY DEF AtHome
<1> QED BY <1>2, <1>4, <1>5, <1>6 DEF GlassInv

\* A page over what is there, as gui.c and the renderers draw it.
LEMMA PageIsDrawn ==
  ASSUME NEW kept, LeftFor(kept, skin'), screen' \notin {"HOME", "TERMINAL"},
         glass = [r \in Rows |-> glass[r]], DrawPage(kept),
         LET old == kept[Renderer(skin')] IN
         old.lines # NoLines /\ old.skin = skin' =>
           /\ \A r \in Rows : glass[r] \in {<<skin', old.lines[r]>>, Terminal}
           /\ skin' = Crayon => old.lines[1] = TitleOf(old.screen)
  PROVE  GlassInv' /\ Whole'
<1> DEFINE old == kept[Renderer(skin')]
           page == Page'
           full == old.lines = NoLines \/ old.screen # screen' \/ old.skin # skin'
           new == [screen |-> screen', skin |-> skin', lines |-> page]
<1>1. /\ glass' = [r \in Rows |-> IF full \/ (page[r] # old.lines[r] /\ Compared(r))
                                  THEN <<skin', page[r]>> ELSE glass[r]]
      /\ cache' = [kept EXCEPT !["gui"] = None, ![Renderer(skin')] = new]
  BY DEF DrawPage
<1>2. page = [r \in Rows |-> page[r]] /\ page[1] = Title'
  BY PageTitle DEF Page, OnRows, Rows
<1>3. skin' = Crayon => page[1] = TitleOf(screen')
  BY <1>2 DEF Title, TitleOf
<1>4. drawn' = new
  BY <1>1, Renders DEF LeftFor, drawn
<1>5. OwnPage'
  <2>1. cache' = [k \in Renderers |-> IF k = Renderer(skin') THEN new ELSE None]
    BY <1>1, Renders DEF LeftFor
  <2> QED BY <2>1, <1>4, Zenon DEF OwnPage
<1>6. ASSUME NEW r \in Rows
      PROVE  glass'[r] \in {<<skin', page[r]>>, Terminal}
  <2>1. CASE full
    BY <1>1, <2>1
  <2>2. CASE ~full
    <3>1. glass[r] \in {<<skin', old.lines[r]>>, Terminal}
      BY <2>2
    <3>2. CASE page[r] = old.lines[r]
      BY <1>1, <2>2, <3>1, <3>2
    <3>3. CASE page[r] # old.lines[r]
      <4>1. skin' = Crayon => r # 1
        BY <1>3, <2>2, <3>3
      <4> QED BY <1>1, <3>3, <4>1 DEF Compared
    <3> QED BY <3>2, <3>3
  <2> QED BY <2>1, <2>2
<1>7. SeenPage'
  BY <1>3, <1>4, <1>6 DEF SeenPage
<1>8. glass' = [r \in Rows |-> glass'[r]]
  BY <1>1
<1>9. Whole'
  <2>1. CASE \E r \in Rows : glass'[r] = Terminal
    BY <2>1 DEF Whole, Leftover
  <2>2. CASE \A r \in Rows : glass'[r] = <<skin', page[r]>>
    BY <1>8, <2>2 DEF Whole, Paint, Picture
  <2> QED BY <1>6, <2>1, <2>2
<1> QED BY <1>5, <1>7, <1>8, <1>9 DEF GlassInv, AtHome

\* render() with the caches as they are
LEMMA DrawKeeps ==
  ASSUME GlassInv, Draw(cache), skin' = skin
  PROVE  GlassInv' /\ (screen' # "TERMINAL" => Whole')
<1>1. LeftFor(cache, skin')
  BY DEF GlassInv, OwnPage, LeftFor, drawn
<1>2. CASE screen' = "HOME"
  <2>1. cache = [k \in Renderers |-> IF k \in {Renderer(skin'), "gui"} THEN cache[k] ELSE None]
    BY <1>1, Renders DEF LeftFor
  <2>2. DrawHome(cache)
    BY <1>2 DEF Draw
  <2> QED BY <1>2, <2>1, <2>2, HomeIsDrawn
<1>3. CASE screen' = "TERMINAL"
  <2>1. DrawTerminal(cache)
    BY <1>3 DEF Draw
  <2> QED BY <1>3, <2>1, TerminalIsDrawn
<1>4. CASE screen' \notin {"HOME", "TERMINAL"}
  <2>1. DrawPage(cache)
    BY <1>4 DEF Draw
  <2>2. LET old == cache[Renderer(skin')] IN
         old.lines # NoLines /\ old.skin = skin' =>
           /\ \A r \in Rows : glass[r] \in {<<skin', old.lines[r]>>, Terminal}
           /\ skin' = Crayon => old.lines[1] = TitleOf(old.screen)
    BY DEF GlassInv, SeenPage, drawn
  <2>3. glass = [r \in Rows |-> glass[r]]
    BY DEF GlassInv
  <2> QED BY <1>1, <1>4, <2>1, <2>2, <2>3, PageIsDrawn
<1> QED BY <1>2, <1>3, <1>4

\* Where the cursor neither was nor is, the home screen is what it was.
LEMMA TilesOfHome ==
  ASSUME NEW r \in Rows, r # selection + 2, r # selection' + 2, scope' = scope,
         selection \in Nat, selection' \in Nat
  PROVE  Home'[r] = Home[r]
<1>1. Len(Tiles) = 6 /\ Len(Tiles)' = 6
  BY DEF Tiles, Items
<1>2. ASSUME NEW i \in 1 .. 6, i = r - 1
      PROVE  Tiles'[i] = Tiles[i]
  <2>1. ~(selection = i - 1) /\ ~(selection' = i - 1)
    <3>1. r = i + 1
      BY <1>2 DEF Rows
    <3>2. selection # i - 1
      BY <3>1
    <3>3. selection' # i - 1
      <4>1. PICK n \in Nat : n = selection'
        OBVIOUS
      <4>2. r # n + 2
        BY <4>1
      <4>3. n # i - 1
        BY <3>1, <4>2
      <4> QED BY <4>1, <4>3
    <3> QED BY <3>2, <3>3, Zenon
  <2>2. Tiles[i] = <<selection = i - 1, "tile", i - 1, 0>>
          /\ Tiles'[i] = <<selection' = i - 1, "tile", i - 1, 0>>
    BY DEF Tiles, Items, Item
  <2>3. (selection = i - 1) = (selection' = i - 1)
    BY <2>1, Zenon
  <2> QED BY <2>2, <2>3, Zenon
<1>3. CASE r = 1
  BY <1>3 DEF Home, OnRows, Line, Bit
<1>4. CASE r # 1
  <2>1. Home[r] = (IF r - 1 <= Len(Tiles) THEN Tiles[r - 1] ELSE Blank)
    BY <1>4 DEF Home, OnRows, Rows
  <2>2. Home'[r] = (IF r - 1 <= Len(Tiles)' THEN Tiles'[r - 1] ELSE Blank)
    BY <1>4 DEF Home, OnRows, Rows, Blank, Line
  <2>3. CASE r - 1 <= 6
    <3>1. r - 1 \in 1 .. 6
      BY <1>4, <2>3 DEF Rows
    <3>2. Tiles'[r - 1] = Tiles[r - 1]
      BY <1>2, <3>1
    <3> QED BY <1>1, <2>1, <2>2, <2>3, <3>2
  <2>4. CASE ~(r - 1 <= 6)
    BY <1>1, <2>1, <2>2, <2>4
  <2> QED BY <2>3, <2>4
<1> QED BY <1>3, <1>4

\* Two tiles are enough when the cursor moves at home (redraw_home_focus()).
LEMMA FocusIsDrawn ==
  ASSUME GlassInv, screen = "HOME", screen' = "HOME", DrawFocus,
         skin' = skin, scope' = scope, selection \in Nat, selection' \in Nat
  PROVE  GlassInv' /\ Whole'
<1>1. glass = Paint(Home) /\ drawn = None
  BY DEF GlassInv, AtHome
<1>2. glass' = Paint(Home)'
  <2>1. ASSUME NEW r \in Rows
        PROVE  glass'[r] = <<skin', Home'[r]>>
    <3>1. CASE r \in Refocused
      BY <3>1 DEF DrawFocus
    <3>2. CASE r \notin Refocused
      <4>1. Home'[r] = Home[r]
        BY <3>2, TilesOfHome DEF Refocused
      <4> QED BY <1>1, <3>2, <4>1 DEF DrawFocus, Paint
    <3> QED BY <3>1, <3>2
  <2>2. glass' = [r \in Rows |-> glass'[r]]
    BY DEF DrawFocus
  <2> QED BY <2>1, <2>2 DEF Paint
<1>3. drawn' = None /\ cache' = cache
  BY <1>1 DEF DrawFocus, drawn
<1>4. OwnPage'
  BY <1>1, <1>3 DEF GlassInv, OwnPage
<1>5. SeenPage'
  BY <1>3 DEF SeenPage, None
<1> QED BY <1>2, <1>3, <1>4, <1>5 DEF GlassInv, AtHome, Paint, Whole, Picture

\* Nothing is drawn, and nothing that a glass shows changes.
LEMMA KeptKeeps ==
  ASSUME GlassInv, Kept, skin' = skin,
         screen' = "HOME" => screen = "HOME" /\ selection' = selection /\ scope' = scope
  PROVE  GlassInv'
<1>1. OwnPage' /\ SeenPage' /\ (glass = [r \in Rows |-> glass[r]])'
  BY DEF Kept, GlassInv, OwnPage, SeenPage, drawn
<1>2. AtHome'
  <2> SUFFICES ASSUME screen' = "HOME"
               PROVE  glass' = Paint(Home)' /\ drawn' = None
    BY DEF AtHome
  <2>1. glass = Paint(Home) /\ drawn = None
    BY DEF GlassInv, AtHome
  <2>2. Paint(Home)' = Paint(Home)
    BY DEF Paint, Home, OnRows, Tiles, Items, Item, Line, Bit, Blank
  <2> QED BY <2>1, <2>2 DEF Kept, drawn
<1> QED BY <1>1, <1>2 DEF GlassInv

\* The home screen is drawn before the first step.
LEMMA GlassStarts ==
  ASSUME GlassInit
  PROVE  GlassInv
<1>1. cache = [k \in Renderers |-> None] /\ glass = Paint(Home)
  BY DEF GlassInit
<1>2. drawn = None
  BY <1>1, Renders DEF drawn
<1>3. OwnPage
  BY <1>1, <1>2, Zenon DEF OwnPage
<1>4. glass = [r \in Rows |-> glass[r]]
  BY <1>1 DEF Paint
<1>5. SeenPage
  BY <1>2 DEF SeenPage, None
<1> QED BY <1>1, <1>2, <1>3, <1>4, <1>5 DEF GlassInv, AtHome

\* A key redraws two tiles of the home screen, a page, or nothing.
LEMMA PressKeeps ==
  ASSUME GlassInv, NEW key, PressKey(key), selection \in Nat, selection' \in Nat
  PROVE  /\ GlassInv'
         /\ \/ Kept /\ screen # "HOME" /\ request' # "none"
            \/ screen' = "TERMINAL" \/ Whole'
<1>1. CASE screen = "HOME"
  <2>1. screen' = "HOME" /\ DrawFocus /\ skin' = skin /\ scope' = scope
    BY <1>1, HomeKeysStay DEF PressKey
  <2> QED BY <1>1, <2>1, FocusIsDrawn
<1>2. CASE screen # "HOME" /\ request' # "none"
  <2>1. Kept /\ skin' = skin /\ screen' # "HOME"
    BY <1>2, OtherKeysStayAway DEF PressKey
  <2> QED BY <1>2, <2>1, KeptKeeps
<1>3. CASE screen # "HOME" /\ request' = "none"
  <2>1. Draw(cache) /\ skin' = skin
    BY <1>3 DEF PressKey
  <2> QED BY <2>1, DrawKeeps
<1> QED BY <1>1, <1>2, <1>3

\* A skin is chosen on its menu, and home is drawn in it.
LEMMA ChooseKeeps ==
  ASSUME GlassInv, ChooseSkin
  PROVE  GlassInv' /\ Whole'
<1> DEFINE kept == [cache EXCEPT ![Crayon] = None, ![Synthwave] = None]
<1>1. Draw(kept)
  BY DEF ChooseSkin
<1>2. screen' = "HOME"
  BY DEF ChooseSkin, SkinsKey
<1>3. kept = [k \in Renderers |-> IF k = "gui" THEN kept[k] ELSE None]
  BY DEF GlassInv, OwnPage, Renderers
<1> HIDE DEF kept
<1>4. kept = [k \in Renderers |-> IF k \in {Renderer(skin'), "gui"} THEN kept[k] ELSE None]
  BY <1>3, Renders
<1>5. DrawHome(kept)
  BY <1>1, <1>2 DEF Draw
<1> QED BY <1>2, <1>4, <1>5, HomeIsDrawn

\* The steps that draw nothing
Skipping ==
  \/ \E key \in Keys : PressKey(key) /\ screen # "HOME" /\ request' # "none"
  \/ StateUpdate /\ screen \notin Updating
  \/ WorkbenchRefresh /\ screen \notin {"APPS", "RECON", "EVIDENCE"}
  \/ Unseen \/ UNCHANGED glassVars

\* A step draws nothing, shows the terminal, or leaves a whole picture.
LEMMA StepKeepsGlass ==
  ASSUME GlassInv, selection \in Nat, selection' \in Nat, [GlassNext]_glassVars
  PROVE  GlassInv' /\ ((Kept /\ Skipping) \/ screen' = "TERMINAL" \/ Whole')
<1>1. CASE ChooseSkin
  BY <1>1, ChooseKeeps
<1>2. ASSUME NEW key \in Keys, PressKey(key)
      PROVE  GlassInv' /\ ((Kept /\ Skipping) \/ screen' = "TERMINAL" \/ Whole')
  BY <1>2, PressKeeps DEF Skipping
<1>3. CASE OpenOrLeave
  BY <1>3, DrawKeeps DEF OpenOrLeave
<1>4. CASE StateUpdate
  <2>1. skin' = skin
    BY <1>4 DEF StateUpdate
  <2>2. CASE screen \in Updating
    <3>1. Draw(cache)
      BY <1>4, <2>2 DEF StateUpdate
    <3> QED BY <2>1, <3>1, DrawKeeps
  <2>3. CASE screen \notin Updating
    <3>1. Kept
      BY <1>4, <2>3 DEF StateUpdate
    <3>2. screen' = screen
      BY <1>4 DEF StateUpdate, TakeRequest, DevicesRefresh, Updated, vars, cursor
    <3>3. screen' # "HOME"
      BY <2>3, <3>2 DEF Updating
    <3> QED BY <1>4, <2>1, <2>3, <3>1, <3>3, KeptKeeps DEF Skipping
  <2> QED BY <2>2, <2>3
<1>5. CASE WorkbenchRefresh
  <2>1. skin' = skin /\ scope' = scope /\ screen' = screen /\ selection' = selection
    BY <1>5 DEF WorkbenchRefresh, TaskEnds, EvidenceEnds, cursor
  <2>2. CASE screen \in {"APPS", "RECON", "EVIDENCE"}
    <3>1. Draw(cache)
      BY <1>5, <2>2 DEF WorkbenchRefresh
    <3> QED BY <2>1, <3>1, DrawKeeps
  <2>3. CASE screen \notin {"APPS", "RECON", "EVIDENCE"}
    <3>1. Kept
      BY <1>5, <2>3 DEF WorkbenchRefresh
    <3> QED BY <1>5, <2>1, <2>3, <3>1, KeptKeeps DEF Skipping
  <2> QED BY <2>2, <2>3
<1>6. CASE Unseen \/ UNCHANGED glassVars
  <2>1. /\ skin' = skin /\ scope' = scope /\ screen' = screen /\ selection' = selection
        /\ Kept
    BY <1>6 DEF Unseen, HostSeen, picture, glassVars, vars, cursor, Kept
  <2> QED BY <1>6, <2>1, KeptKeeps DEF Skipping
<1> QED BY <1>1, <1>2, <1>3, <1>4, <1>5, <1>6 DEF GlassNext

\* The glass shows the screens as they are without it: what is drawn leads to
\* no other screen, cursor or listing than Gui allows.
LEMMA GlassStepIsGuiStep == [GlassNext]_glassVars => [Next]_vars
<1>1. ChooseSkin => Next
  BY DEF ChooseSkin, Next, Key, Keys
<1>2. \A key \in Keys : PressKey(key) => Next
  BY DEF PressKey, Next
<1>3. OpenOrLeave => Next
  BY DEF OpenOrLeave, Next
<1>4. StateUpdate => Next \/ UNCHANGED vars
  BY DEF StateUpdate, Next
<1>5. WorkbenchRefresh => Next
  BY DEF WorkbenchRefresh, Next
<1>6. Unseen => Next
  BY DEF Unseen, Next
<1>7. UNCHANGED glassVars => UNCHANGED vars
  BY DEF glassVars
<1> QED BY <1>1, <1>2, <1>3, <1>4, <1>5, <1>6, <1>7 DEF GlassNext

\* Who is asked for the actions on a host has been shown one.
HostThere == screen = "HOST_ACTIONS" \/ back = "HOST_ACTIONS" => hosts > 0

\* A step that keeps the hosts, and that leads to the actions on a host from
\* the list of hosts or from a task on one.
Among ==
  /\ hosts' = hosts
  /\ \/ hosts > 0
     \/ /\ back' = "HOST_ACTIONS" => back = "HOST_ACTIONS"
        /\ screen' = "HOST_ACTIONS" => "HOST_ACTIONS" \in {screen, back}

\* Keys find no host and lose none.
LEMMA KeysAmong ==
  ASSUME NEW key, Key(key), selection \in Nat, hosts \in Nat, memory["HOSTS"] \in Nat
  PROVE  Among
<1> USE DEF Pressing, cursor, services, task, Among
<1>1. CASE HomeKey(key) \/ SystemKey(key) \/ SettingsKey(key) \/ SkinsKey(key)
  BY <1>1 DEF HomeKey, SystemKey, SettingsKey, SkinsKey, MoveOn
<1>2. CASE ShutdownKey(key)
  BY <1>2 DEF ShutdownKey
<1>3. CASE AppsMove(key) \/ AppsTurn(key)
  BY <1>3 DEF AppsMove, AppsTurn, Show
<1>4. CASE HostsKey(key)
  BY <1>4 DEF HostsKey, MoveOn
<1>5. CASE HostActionsKey(key)
  BY <1>5 DEF HostActionsKey, MoveOn
<1>6. CASE HistoryKey(key) \/ PickerKey(key)
  BY <1>6 DEF HistoryKey, PickerKey, MoveOn
<1>7. CASE ConfigKey(key)
  BY <1>7 DEF ConfigKey
<1>8. CASE FilesMove(key) \/ FilesRequest(key)
  BY <1>8 DEF FilesMove, FilesRequest
<1> QED BY <1>1, <1>2, <1>3, <1>4, <1>5, <1>6, <1>7, <1>8 DEF Key

\* Nor do Enter and Escape.
LEMMA EnterAmong ==
  ASSUME Enter \/ AppsFavorite \/ AppsInfo \/ InfoFavorite \/ Escape, GuiInv
  PROVE  Among
<1> USE DEF Pressing, cursor, services, task, Among
<1>0. selection \in Nat /\ Held(screen, selection)
  BY DEF GuiInv, TypeOK
<1>1. CASE OpenHomeItem
  <2>1. selection \in 0 .. 5
    BY <1>0, <1>1 DEF OpenHomeItem, Held, LineOf
  <2>2. screen' # "HOST_ACTIONS"
    BY <1>1, <2>1 DEF OpenHomeItem, HomeItems, Show
  <2> QED BY <1>1, <2>2 DEF OpenHomeItem
<1>2. CASE OpenSystemItem
  <2>1. selection \in 0 .. 6
    BY <1>0, <1>2 DEF OpenSystemItem, Held, LineOf
  <2>2. screen' # "HOST_ACTIONS"
    BY <1>2, <2>1 DEF OpenSystemItem, SystemItems
  <2> QED BY <1>2, <2>2 DEF OpenSystemItem
<1>3. CASE OpenApp
  <2>1. screen' \in {"APP_DEVICES", "HOSTS", "EVIDENCE_PICKER", "RECON_HISTORY", "APP_CONFIG"}
    BY <1>3 DEF OpenApp, OpenedBy
  <2>2. back' = back \/ back' = "APPS"
    BY <1>3 DEF OpenApp
  <2> QED BY <1>3, <2>1, <2>2 DEF OpenApp
<1>4. CASE DetailEnter \/ Confirm \/ FilesOpen
  BY <1>4 DEF DetailEnter, Confirm, FilesOpen
<1>5. CASE AppsFavorite \/ AppsInfo \/ InfoFavorite
  BY <1>5 DEF AppsFavorite, AppsInfo, InfoFavorite, Show
<1>6. CASE Escape
  <2>1. CASE EscapeDirectory
    BY <2>1 DEF EscapeDirectory
  <2>2. CASE EscapeTask
    BY <2>2 DEF EscapeTask, Show
  <2>3. CASE EscapeEvidence
    BY <2>3 DEF EscapeEvidence, Show
  <2>4. CASE EscapeToParent
    <3>1. screen' = Parent(screen)
      BY <2>4 DEF EscapeToParent, Show
    <3>2. Parent(screen) = "HOST_ACTIONS" => back = "HOST_ACTIONS"
      BY DEF Parent
    <3> QED BY <2>4, <3>1, <3>2 DEF EscapeToParent
  <2> QED BY <1>6, <2>1, <2>2, <2>3, <2>4 DEF Escape
<1> QED BY <1>1, <1>2, <1>3, <1>4, <1>5, <1>6 DEF Enter

\* Hosts are only added while the actions on one are open.
LEMMA HostStaysThere ==
  ASSUME GuiInv, HostThere, [Next]_vars
  PROVE  HostThere'
<1>0. /\ selection \in Nat /\ hosts \in Nat /\ memory["HOSTS"] \in Nat /\ MaxHosts \in Nat
      /\ hosts \in 0 .. MaxHosts
  BY TourFacts DEF GuiInv, TypeOK, Lists
<1>1. CASE Among
  BY <1>0, <1>1 DEF HostThere, Among
<1>2. CASE hosts <= hosts' /\ hosts' \in Nat /\ screen' = screen /\ back' = back
  BY <1>0, <1>2 DEF HostThere
<1>3. CASE \E key \in Keys : Key(key)
  BY <1>0, <1>1, <1>3, KeysAmong
<1>4. CASE Enter \/ AppsFavorite \/ AppsInfo \/ InfoFavorite \/ Escape
  BY <1>1, <1>4, EnterAmong
<1>5. CASE TakeRequest \/ DevicesRefresh
  BY <1>0, <1>2, <1>5 DEF TakeRequest, DevicesRefresh, Updated, services, task
<1>6. CASE TaskEnds
  <2>1. hosts' = hosts \/ hosts' = Min({MaxHosts, hosts + 1})
    BY <1>6 DEF TaskEnds
  <2>2. hosts <= hosts' /\ hosts' \in Nat
    BY <1>0, <2>1, HostsGrow
  <2> QED BY <1>2, <1>6, <2>2 DEF TaskEnds, cursor, task
<1>7. CASE EvidenceEnds \/ HostSeen \/ Leave \/ UNCHANGED vars
  BY <1>0, <1>2, <1>7 DEF EvidenceEnds, HostSeen, Leave, vars, cursor, task, services
<1> QED BY <1>3, <1>4, <1>5, <1>6, <1>7 DEF Next

\* A step that draws nothing: what it leaves alone.
Resting ==
  /\ UNCHANGED <<screen, selection, memory, filter, favorites, results, ledger, skin>>
  /\ hosts <= hosts'
  /\ screen \in Updating => UNCHANGED <<scope, stamp, entries, depth>>

\* The row under the cursor is the same row.
SameRow(r) == Picture'[r] = Picture[r] \/ (~Picture'[r][1] /\ ~Picture[r][1])

\* Every screen but home is a page.
LEMMA PicturesAre ==
  /\ screen # "HOME" => Picture = Page
  /\ screen' # "HOME" => Picture' = Page'
BY DEF Picture

\* The rows under the title are those of the body.
LEMMA TitleApart ==
  ASSUME screen # "HOME", screen' = screen, NEW r \in Rows,
         r # 1 => Page'[r] = Page[r] \/ (~Page'[r][1] /\ ~Page[r][1])
  PROVE  SameRow(r)
<1>1. CASE r = 1
  <2>1. Page[1] = Title /\ Page'[1] = Title'
    BY DEF Page, OnRows, Rows
  <2>2. ~Title[1] /\ ~Title'[1]
    BY DEF Title
  <2> QED BY <1>1, <2>1, <2>2, PicturesAre DEF SameRow
<1>2. CASE r # 1
  BY <1>2, PicturesAre DEF SameRow
<1> QED BY <1>1, <1>2

\* The same body gives the same rows.
LEMMA SameBody ==
  ASSUME screen # "HOME", screen' = screen, skin' = skin, Body' = Body, NEW r \in Rows
  PROVE  SameRow(r)
<1>1. ASSUME r # 1
      PROVE  Page'[r] = Page[r]
  <2>1. Fitting(Body)' = Fitting(Body)
    BY DEF Fitting
  <2> QED BY <1>1, <2>1 DEF Page, OnRows, Rows, Blank, Line
<1> QED BY <1>1, TitleApart

\* Screens whose lines follow from what a step that draws nothing leaves alone
LEMMA FixedScreensRest ==
  ASSUME Resting, screen \in {"FILES", "SECURITY", "UPDATE", "SYSTEM", "SKINS", "SHUTDOWN",
                              "RECON_HISTORY"},
         NEW r \in Rows
  PROVE  SameRow(r)
<1> USE DEF Resting, Items, Item, Line, Bit, Updating
<1>1. screen' = screen /\ skin' = skin /\ screen # "HOME"
  OBVIOUS
<1>2. CASE screen = "FILES"
  <2>1. Body = RenderFiles /\ Body' = RenderFiles'
    BY <1>1, <1>2 DEF Body
  <2>2. RenderFiles' = RenderFiles
    BY <1>2 DEF RenderFiles
  <2> QED BY <1>1, <2>1, <2>2, SameBody
<1>3. CASE screen = "SECURITY"
  <2>1. Body = RenderSecurity /\ Body' = RenderSecurity'
    BY <1>1, <1>3 DEF Body
  <2>2. RenderSecurity' = RenderSecurity
    BY <1>3 DEF RenderSecurity
  <2> QED BY <1>1, <2>1, <2>2, SameBody
<1>4. CASE screen = "UPDATE"
  <2>1. Body = RenderUpdate /\ Body' = RenderUpdate'
    BY <1>1, <1>4 DEF Body
  <2>2. RenderUpdate' = RenderUpdate
    BY <1>4 DEF RenderUpdate
  <2> QED BY <1>1, <2>1, <2>2, SameBody
<1>5. CASE screen = "SYSTEM"
  <2>1. Body = RenderSystem /\ Body' = RenderSystem'
    BY <1>1, <1>5 DEF Body
  <2>2. RenderSystem' = RenderSystem
    BY DEF RenderSystem
  <2> QED BY <1>1, <2>1, <2>2, SameBody
<1>6. CASE screen = "SKINS"
  <2>1. Body = RenderSkins /\ Body' = RenderSkins'
    BY <1>1, <1>6 DEF Body
  <2>2. RenderSkins' = RenderSkins
    BY DEF RenderSkins
  <2> QED BY <1>1, <2>1, <2>2, SameBody
<1>7. CASE screen = "SHUTDOWN"
  <2>1. Body = RenderShutdown /\ Body' = RenderShutdown'
    BY <1>1, <1>7 DEF Body
  <2>2. RenderShutdown' = RenderShutdown
    BY <1>1 DEF RenderShutdown
  <2> QED BY <1>1, <2>1, <2>2, SameBody
<1>8. CASE screen = "RECON_HISTORY"
  <2>1. Body = RenderReconHistory /\ Body' = RenderReconHistory'
    BY <1>1, <1>8 DEF Body
  <2>2. RenderReconHistory' = RenderReconHistory
    BY DEF RenderReconHistory
  <2> QED BY <1>1, <2>1, <2>2, SameBody
<1> QED BY <1>2, <1>3, <1>4, <1>5, <1>6, <1>7, <1>8

\* So is home, which is redrawn when the scope changes.
LEMMA HomeRests ==
  ASSUME Resting, screen = "HOME", NEW r \in Rows
  PROVE  SameRow(r)
<1>1. Home' = Home
  BY DEF Resting, Updating, Home, OnRows, Tiles, Items, Item, Line, Bit, Blank
<1>2. Picture = Home /\ Picture' = Home'
  BY DEF Resting, Picture
<1> QED BY <1>1, <1>2 DEF SameRow

\* The host that was chosen stays listed.
LEMMA HostActionsRest ==
  ASSUME Resting, GuiInv, HostThere, hosts' \in Nat, screen = "HOST_ACTIONS", NEW r \in Rows
  PROVE  SameRow(r)
<1>1. /\ memory["HOSTS"] \in Nat /\ hosts \in Nat /\ hosts > 0
      /\ memory["HOSTS"] < hosts \/ memory["HOSTS"] = 0
  BY TourFacts DEF GuiInv, TypeOK, Places, Held, LineOf, Unchecked, Lists, HostThere
<1>2. memory["HOSTS"] < hosts /\ memory'["HOSTS"] < hosts' /\ memory' = memory
  BY <1>1 DEF Resting
<1>a. ~(memory["HOSTS"] >= hosts) /\ ~(memory'["HOSTS"] >= hosts')
  BY <1>1, <1>2
<1>3. screen' = screen /\ skin' = skin /\ selection' = selection
  BY DEF Resting
<1>4. Body = RenderHostActions /\ Body' = RenderHostActions'
  BY <1>3 DEF Body
<1>5. RenderHostActions = <<<<FALSE, "host", memory["HOSTS"], 0>>>> \o Items("action", 4, 0)
  BY <1>a, Zenon DEF RenderHostActions
<1>6. RenderHostActions' = <<<<FALSE, "host", memory'["HOSTS"], 0>>>> \o Items("action", 4, 0)'
  BY <1>a, Zenon DEF RenderHostActions
<1>7. Items("action", 4, 0)' = Items("action", 4, 0)
  BY <1>3 DEF Items, Item
<1> QED BY <1>2, <1>3, <1>4, <1>5, <1>6, <1>7, SameBody

-----------------------------------------------------------------------------
\* What of a page comes onto a row, and what a crayon page cuts off
LEMMA FittingRow ==
  ASSUME NEW S, NEW body \in Seq(S), NEW title, NEW r \in Rows, r # 1
  PROVE  OnRows(title, Fitting(body))[r] = IF r - 1 <= Len(body) /\ (skin = Crayon => r - 1 <= Slots)
                   THEN body[r - 1] ELSE Blank
<1> DEFINE n == Len(body)
           m == Min({Slots, n})
<1>1. n \in Nat /\ Slots \in Nat
  BY GlassAssumption, LenProperties
<1>2. m \in {Slots, n} /\ m <= Slots /\ m <= n
  <2>1. {Slots, n} \in SUBSET Nat
    BY <1>1
  <2> QED BY <2>1, MinIsLeast
<1>3. m \in Nat
  BY <1>1, <1>2
<1>4. \A i \in 1 .. n : body[i] \in S
  BY ElementOfSeq
<1> HIDE DEF m, n
<1>5. Len(SubSeq(body, 1, m)) = m /\ \A i \in 1 .. m : SubSeq(body, 1, m)[i] = body[i]
  <2>1. \A i \in 1 .. m : body[i] \in S
    BY <1>1, <1>2, <1>3, <1>4
  <2>2. /\ Len(SubSeq(body, 1, m)) = IF 1 <= m THEN m - 1 + 1 ELSE 0
        /\ \A i \in 1 .. m - 1 + 1 : SubSeq(body, 1, m)[i] = body[1 + i - 1]
    BY <1>3, <2>1, SubSeqProperties
  <2> QED BY <1>3, <2>2
<1>6. CASE skin = Crayon
  <2>1. Fitting(body) = SubSeq(body, 1, m)
    BY <1>6 DEF Fitting, m, n
  <2>2. r - 1 <= m <=> r - 1 <= n /\ r - 1 <= Slots
    BY <1>1, <1>2, <1>3 DEF Rows
  <2>3. r - 1 <= m => r - 1 \in 1 .. m
    BY <1>3 DEF Rows
  <2> QED BY <1>5, <1>6, <2>1, <2>2, <2>3 DEF OnRows, n
<1>7. CASE skin # Crayon
  BY <1>7 DEF Fitting, OnRows, n
<1> QED BY <1>6, <1>7

\* A function on 1 .. n is a sequence of length n.
LEMMA FunctionIsSeq ==
  ASSUME NEW S, NEW n \in Nat, NEW f \in [1 .. n -> S]
  PROVE  f \in Seq(S) /\ Len(f) = n
OBVIOUS

\* Two sequences that have their first elements for themselves
ApartFrom(d, e, a, b) ==
  Len(d) = Len(e) /\ d[1] = a /\ e[1] = b /\ \A i \in 2 .. Len(d) : d[i] = e[i]

\* What follows two first elements is in the same places.
LEMMA HeadApart ==
  ASSUME NEW S, NEW a \in S, NEW b \in S, NEW p \in Seq(S), NEW q \in Seq(S),
         NEW d, d = <<a>> \o p \o q, NEW e, e = <<b>> \o p \o q
  PROVE  d \in Seq(S) /\ e \in Seq(S) /\ ApartFrom(d, e, a, b)
<1> DEFINE c == <<a>> \o p
           k == <<b>> \o p
<1>1. Len(p) \in Nat /\ Len(q) \in Nat
  BY LenProperties
<1>2. <<a>> \in Seq(S) /\ <<b>> \in Seq(S) /\ Len(<<a>>) = 1 /\ Len(<<b>>) = 1
  OBVIOUS
<1>3. /\ c \in Seq(S) /\ Len(c) = 1 + Len(p)
      /\ \A i \in 1 .. 1 + Len(p) : c[i] = IF i <= 1 THEN <<a>>[i] ELSE p[i - 1]
  BY <1>2, ConcatProperties
<1>4. /\ k \in Seq(S) /\ Len(k) = 1 + Len(p)
      /\ \A i \in 1 .. 1 + Len(p) : k[i] = IF i <= 1 THEN <<b>>[i] ELSE p[i - 1]
  BY <1>2, ConcatProperties
<1> HIDE DEF c, k
<1>d. d = c \o q /\ e = k \o q
  BY DEF c, k
<1>5. /\ c \o q \in Seq(S) /\ Len(c \o q) = Len(c) + Len(q)
      /\ \A i \in 1 .. Len(c) + Len(q) : (c \o q)[i] = IF i <= Len(c) THEN c[i] ELSE q[i - Len(c)]
  BY <1>3, ConcatProperties
<1>6. /\ k \o q \in Seq(S) /\ Len(k \o q) = Len(k) + Len(q)
      /\ \A i \in 1 .. Len(k) + Len(q) : (k \o q)[i] = IF i <= Len(k) THEN k[i] ELSE q[i - Len(k)]
  BY <1>4, ConcatProperties
<1>7. c[1] = a /\ k[1] = b /\ \A i \in 2 .. 1 + Len(p) : c[i] = k[i]
  <2>0. 1 \in 1 .. 1 + Len(p) /\ 1 <= 1
    BY <1>1
  <2>1. c[1] = <<a>>[1] /\ k[1] = <<b>>[1]
    BY <1>3, <1>4, <2>0, Zenon
  <2>2. ASSUME NEW i \in 2 .. 1 + Len(p)
        PROVE  c[i] = k[i]
    <3>1. i \in 1 .. 1 + Len(p) /\ ~(i <= 1)
      BY <1>1
    <3>2. c[i] = p[i - 1] /\ k[i] = p[i - 1]
      BY <1>3, <1>4, <3>1
    <3> QED BY <3>2
  <2> QED BY <2>1, <2>2
<1>8. (c \o q)[1] = a /\ (k \o q)[1] = b
  BY <1>1, <1>3, <1>4, <1>5, <1>6, <1>7
<1>9. \A i \in 2 .. Len(c \o q) : (c \o q)[i] = (k \o q)[i]
  <2> TAKE i \in 2 .. Len(c \o q)
  <2>1. i \in 2 .. 1 + Len(p) + Len(q)
    BY <1>3, <1>5
  <2>2. CASE i <= 1 + Len(p)
    BY <1>1, <1>3, <1>4, <1>5, <1>6, <1>7, <2>1, <2>2
  <2>3. CASE ~(i <= 1 + Len(p))
    BY <1>1, <1>3, <1>4, <1>5, <1>6, <2>1, <2>3
  <2> QED BY <2>2, <2>3
<1>10. Len(c \o q) = Len(k \o q)
  BY <1>3, <1>4, <1>5, <1>6
<1> QED BY <1>d, <1>5, <1>6, <1>8, <1>9, <1>10 DEF ApartFrom

\* The first line of the view shows the scope, which may change under it.
LEMMA AppsRest ==
  ASSUME Resting, GuiInv, screen = "APPS", selection < ViewCount, NEW r \in Rows
  PROVE  SameRow(r)
<1>1. UNCHANGED <<screen, selection, filter, favorites, skin>>
  BY DEF Resting
<1>2. CurrentView' = CurrentView /\ ViewCount' = ViewCount
  BY <1>1 DEF ViewCount, CurrentView
<1>3. \A i : AppAt(i)' = AppAt(i)
  BY <1>2 DEF AppAt
<1> DEFINE offset == IF selection >= VisibleApps THEN selection - (VisibleApps - 1) ELSE 0
           shown == Min({VisibleApps, ViewCount - offset})
           p == [n \in 1 .. shown |->
                   LET i == offset + n - 1 app == AppAt(i)
                   IN <<selection = i, Catalog[app], i, Bit(app \in favorites)>>]
           q == IF CurrentView = {} THEN <<Line("no apps in this view", 0)>> ELSE <<>>
           a == Line(filter, Bit(scope))
           b == Line(filter, Bit(scope'))
           S == {a, b, Line("no apps in this view", 0)} \cup {p[n] : n \in 1 .. shown}
<1>4. Body = <<a>> \o p \o q
  BY DEF Body, RenderWorkbench
<1>5. Body' = <<b>> \o p \o q
  <2>1. Body' = RenderWorkbench'
    BY <1>1 DEF Body
  <2> QED BY <1>1, <1>2, <1>3, <2>1 DEF RenderWorkbench, Line, Bit
<1>6. shown \in Nat
  <2>1. VisibleApps \in Nat \ {0} /\ selection \in Nat /\ ViewCount \in Nat
    BY GlassAssumption, ViewCountType DEF GuiInv, TypeOK
  <2>2. {VisibleApps, ViewCount - offset} \in SUBSET Nat
    BY <2>1
  <2> QED BY <2>2, MinIsLeast
<1>7. p \in Seq(S)
  <2>1. p \in [1 .. shown -> S]
    OBVIOUS
  <2> HIDE DEF p, S, shown
  <2> QED BY <1>6, <2>1, FunctionIsSeq
<1>8. a \in S /\ b \in S /\ Line("no apps in this view", 0) \in S
  OBVIOUS
<1> HIDE DEF p, a, b, S
<1>q. q \in Seq(S)
  <2>1. ASSUME NEW z \in S
        PROVE  <<z>> \in Seq(S)
    OBVIOUS
  <2>2. <<>> \in Seq(S)
    BY EmptySeq
  <2> QED BY <1>8, <2>1, <2>2
<1> HIDE DEF q
<1> DEFINE d == <<a>> \o p \o q
           e == <<b>> \o p \o q
<1>e. d = <<a>> \o p \o q /\ e = <<b>> \o p \o q
  OBVIOUS
<1> HIDE DEF d, e
<1>f. d \in Seq(S) /\ e \in Seq(S) /\ ApartFrom(d, e, a, b)
  BY <1>7, <1>8, <1>e, <1>q, HeadApart, Zenon
<1>9. /\ d \in Seq(S) /\ e \in Seq(S) /\ Len(d) = Len(e)
      /\ d[1] = a /\ e[1] = b
      /\ \A i \in 2 .. Len(d) : d[i] = e[i]
  BY <1>f DEF ApartFrom
<1>10. Body = d /\ Body' = e
  BY <1>4, <1>5, <1>e
<1>11. Page = OnRows(Title, Fitting(d))
  BY <1>10 DEF Page
<1>12. Page' = OnRows(Title', Fitting(e))
  BY <1>1, <1>10 DEF Page, Fitting, OnRows, Rows, Blank, Line
<1>13. ASSUME r # 1
       PROVE  Page'[r] = Page[r] \/ (~Page'[r][1] /\ ~Page[r][1])
  <2>1. Page[r] = IF r - 1 <= Len(d) /\ (skin = Crayon => r - 1 <= Slots) THEN d[r - 1] ELSE Blank
    BY <1>9, <1>11, <1>13, FittingRow
  <2>2. Page'[r] = IF r - 1 <= Len(e) /\ (skin = Crayon => r - 1 <= Slots) THEN e[r - 1] ELSE Blank
    BY <1>9, <1>12, <1>13, FittingRow
  <2>3. CASE r = 2
    <3>1. Page[r] \in {a, Blank} /\ Page'[r] \in {b, Blank}
      BY <1>9, <2>1, <2>2, <2>3
    <3>2. ~a[1] /\ ~b[1] /\ ~Blank[1]
      BY DEF a, b, Blank, Line
    <3> QED BY <3>1, <3>2
  <2>4. CASE r # 2
    <3>1. r - 1 <= Len(d) => r - 1 \in 2 .. Len(d)
      <4>1. Len(d) \in Nat
        BY <1>9, LenProperties
      <4> QED BY <1>13, <2>4, <4>1 DEF Rows
    <3> QED BY <1>9, <2>1, <2>2, <3>1
  <2> QED BY <2>3, <2>4
<1> QED BY <1>1, <1>13, TitleApart

\* The lines of a list of n entries under a heading
Headed(a, what, n, v) == <<a>> \o Items(what, n, v)

\* The entry of each line
LEMMA HeadedLines ==
  ASSUME NEW a, NEW what, NEW v, NEW n \in Nat
  PROVE  \E S : /\ Headed(a, what, n, v) \in Seq(S) /\ Len(Headed(a, what, n, v)) = n + 1
                /\ Headed(a, what, n, v)[1] = a
                /\ \A i \in 2 .. n + 1 : Headed(a, what, n, v)[i] = Item(what, i - 2, v)
<1> DEFINE p == Items(what, n, v)
           S == {a} \cup {p[i] : i \in 1 .. n}
<1>1. \A i \in 1 .. n : p[i] = Item(what, i - 1, v)
  BY DEF Items
<1>2. p \in Seq(S) /\ Len(p) = n
  <2>1. p \in [1 .. n -> S]
    BY DEF Items
  <2> HIDE DEF p, S
  <2> QED BY <2>1, FunctionIsSeq
<1>3. a \in S
  OBVIOUS
<1> HIDE DEF p, S
<1>4. <<a>> \in Seq(S) /\ Len(<<a>>) = 1 /\ <<a>>[1] = a
  BY <1>3
<1>5. /\ <<a>> \o p \in Seq(S) /\ Len(<<a>> \o p) = 1 + n
      /\ \A i \in 1 .. 1 + n : (<<a>> \o p)[i] = IF i <= 1 THEN <<a>>[i] ELSE p[i - 1]
  BY <1>2, <1>4, ConcatProperties
<1>6. Headed(a, what, n, v) = <<a>> \o p
  BY DEF Headed, p
<1>7. (<<a>> \o p)[1] = a
  <2>1. 1 \in 1 .. 1 + n /\ 1 <= 1
    OBVIOUS
  <2> QED BY <1>4, <1>5, <2>1, Zenon
<1>8. ASSUME NEW i \in 2 .. n + 1
      PROVE  (<<a>> \o p)[i] = Item(what, i - 2, v)
  <2>1. i \in 1 .. 1 + n /\ ~(i <= 1) /\ i - 1 \in 1 .. n /\ i - 1 - 1 = i - 2
    OBVIOUS
  <2>2. (<<a>> \o p)[i] = p[i - 1]
    BY <1>5, <2>1
  <2>3. p[i - 1] = Item(what, i - 2, v)
    BY <1>1, <2>1
  <2> QED BY <2>2, <2>3
<1> QED BY <1>5, <1>6, <1>7, <1>8

\* The lines of a list of h hosts (RenderHosts), none of which moves when
\* another host is found
HostLines(h) == Headed(Line("hosts", h), "host", h, 0)

\* The host of each line
LEMMA HostLinesAre ==
  ASSUME NEW h \in Nat
  PROVE  \E S : /\ HostLines(h) \in Seq(S) /\ Len(HostLines(h)) = h + 1
                /\ HostLines(h)[1] = Line("hosts", h)
                /\ \A i \in 2 .. h + 1 : HostLines(h)[i] = Item("host", i - 2, 0)
BY HeadedLines DEF HostLines

\* A line of the list stays one of a longer list.
LEMMA OneBelow ==
  ASSUME NEW n \in Nat, NEW k \in Nat, NEW h \in Nat, n < k, k <= h
  PROVE  n + 2 <= k + 1 /\ n + 2 <= h + 1
OBVIOUS

\* Hosts are found at the end of the list, which is not redrawn for them
\* (gui.c:1144-1150), and the line of the cursor stays where it is.
LEMMA HostsRest ==
  ASSUME Resting, GuiInv, hosts' \in Nat, screen = "HOSTS", selection < hosts,
         skin = Crayon => selection + 1 < Slots, NEW r \in Rows
  PROVE  SameRow(r)
<1>1. /\ UNCHANGED <<screen, selection, skin>> /\ hosts \in Nat /\ selection \in Nat
      /\ hosts <= hosts' /\ Slots \in Nat
  BY TourFacts, GlassAssumption DEF Resting, GuiInv, TypeOK
<1>2. Body = HostLines(hosts)
  <2>1. hosts # 0
    BY <1>1
  <2> QED BY <2>1, Zenon DEF Body, RenderHosts, HostLines, Headed
<1>3. Body' = HostLines(hosts')
  <2>1. hosts' # 0
    BY <1>1
  <2>2. Body' = RenderHosts'
    BY <1>1 DEF Body
  <2>3. Items("host", hosts, 0)' = Items("host", hosts', 0)
    BY <1>1 DEF Items, Item
  <2>4. RenderHosts' = <<Line("hosts", hosts')>> \o Items("host", hosts, 0)'
    BY <2>1, Zenon DEF RenderHosts, Line
  <2> QED BY <2>2, <2>3, <2>4 DEF HostLines, Headed
<1>4. ASSUME r # 1
      PROVE  Page'[r] = Page[r] \/ (~Page'[r][1] /\ ~Page[r][1])
  <2>1. Page[r] = IF r - 1 <= hosts + 1 /\ (skin = Crayon => r - 1 <= Slots)
                  THEN HostLines(hosts)[r - 1] ELSE Blank
    <3>1. Page = OnRows(Title, Fitting(HostLines(hosts)))
      BY <1>2 DEF Page
    <3> QED BY <1>1, <1>4, <3>1, HostLinesAre, FittingRow
  <2>2. Page'[r] = IF r - 1 <= hosts' + 1 /\ (skin = Crayon => r - 1 <= Slots)
                   THEN HostLines(hosts')[r - 1] ELSE Blank
    <3>1. Page' = OnRows(Title', Fitting(HostLines(hosts')))
      BY <1>1, <1>3 DEF Page, Fitting, OnRows, Rows, Blank, Line
    <3> QED BY <1>4, <3>1, HostLinesAre, FittingRow
  <2>3. ~Blank[1]
    BY DEF Blank, Line
  <2>4. CASE r = 2
    <3>1. HostLines(hosts)[1] = Line("hosts", hosts) /\ HostLines(hosts')[1] = Line("hosts", hosts')
      BY <1>1, HostLinesAre
    <3>2. Page[r] \in {Blank, HostLines(hosts)[1]} /\ Page'[r] \in {Blank, HostLines(hosts')[1]}
      BY <2>1, <2>2, <2>4
    <3>3. ~Line("hosts", hosts)[1] /\ ~Line("hosts", hosts')[1]
      BY DEF Line
    <3> QED BY <2>3, <3>1, <3>2, <3>3
  <2>5. CASE r # 2
    <3>1. ASSUME NEW h \in Nat, r - 1 <= h + 1
          PROVE  HostLines(h)[r - 1] = Item("host", r - 3, 0)
      <4>1. r - 1 \in 2 .. h + 1
        BY <1>4, <2>5, <3>1 DEF Rows
      <4>2. HostLines(h)[r - 1] = Item("host", r - 1 - 2, 0)
        BY <4>1, HostLinesAre
      <4>3. r - 1 - 2 = r - 3
        BY DEF Rows
      <4> QED BY <4>2, <4>3
    <3>2. CASE selection = r - 3
      <4>1. /\ r - 1 <= hosts + 1 /\ r - 1 <= hosts' + 1
            /\ skin = Crayon => r - 1 <= Slots
        <5>1. r = selection + 3
          BY <1>1, <3>2 DEF Rows
        <5>2. PICK h \in Nat : h = hosts' /\ hosts <= h
          BY <1>1
        <5>3. r - 1 <= hosts + 1 /\ r - 1 <= h + 1
          <6>1. hosts \in Nat /\ selection \in Nat
            BY <1>1
          <6>2. selection + 2 <= hosts + 1 /\ selection + 2 <= h + 1
            BY <5>2, <6>1, OneBelow
          <6>3. r - 1 = selection + 2
            BY <5>1, <6>1
          <6> QED BY <6>2, <6>3
        <5>4. selection + 1 < Slots => r - 1 <= Slots
          BY <1>1, <5>1
        <5> QED BY <5>2, <5>3, <5>4
      <4>2. Page[r] = HostLines(hosts)[r - 1] /\ Page'[r] = HostLines(hosts')[r - 1]
        BY <2>1, <2>2, <4>1
      <4> QED BY <1>1, <3>1, <4>1, <4>2
    <3>3. CASE selection # r - 3
      <4>1. ~Item("host", r - 3, 0)[1]
        BY <3>3 DEF Item
      <4>2. Page[r] \in {Blank, Item("host", r - 3, 0)}
        BY <1>1, <2>1, <3>1
      <4>3. Page'[r] \in {Blank, Item("host", r - 3, 0)}
        BY <1>1, <2>2, <3>1
      <4> QED BY <2>3, <4>1, <4>2, <4>3
    <3> QED BY <3>2, <3>3
  <2> QED BY <2>4, <2>5
<1> QED BY <1>1, <1>4, TitleApart

-----------------------------------------------------------------------------
(* The one focused row of what is drawn is that of the cursor.             *)

InFocus == {r \in Rows : Picture[r][1]} = {CursorRow}

\* A body whose focused line is the c-th, where it is on the page
FocusedLine(c) ==
  \E S : /\ Body \in Seq(S) /\ c \in 1 .. Len(Body)
         /\ \A i \in 1 .. Len(Body) : Body[i][1] <=> i = c

\* Such a body puts the focus on the row of the cursor and on no other.
LEMMA PageInFocus ==
  ASSUME screen # "HOME", ~Beyond, NEW c \in Nat, CursorRow = c + 1, FocusedLine(c)
  PROVE  InFocus
<1>1. PICK S : /\ Body \in Seq(S) /\ c \in 1 .. Len(Body)
               /\ \A i \in 1 .. Len(Body) : Body[i][1] <=> i = c
  BY DEF FocusedLine
<1>2. c + 1 \in Rows /\ (skin = Crayon => c <= Slots)
  BY GlassAssumption DEF Beyond
<1>3. Picture = OnRows(Title, Fitting(Body)) /\ Len(Body) \in Nat
  BY <1>1, LenProperties DEF Picture, Page
<1>4. ASSUME NEW r \in Rows
      PROVE  Picture[r][1] <=> r = c + 1
  <2>1. CASE r = 1
    <3>1. Picture[1] = Title /\ r # c + 1
      BY <1>1, <1>3, <2>1 DEF OnRows, Rows
    <3> QED BY <2>1, <3>1 DEF Title
  <2>2. CASE r # 1
    <3>1. Picture[r] = IF r - 1 <= Len(Body) /\ (skin = Crayon => r - 1 <= Slots)
                       THEN Body[r - 1] ELSE Blank
      BY <1>1, <1>3, <2>2, FittingRow
    <3>2. CASE r = c + 1
      <4>1. r - 1 = c /\ c <= Len(Body)
        BY <1>1, <3>2
      <4>2. Picture[r] = Body[c]
        BY <1>2, <3>1, <4>1
      <4> QED BY <1>1, <3>2, <4>2
    <3>3. CASE r # c + 1
      <4>1. ~Blank[1]
        BY DEF Blank, Line
      <4>2. r - 1 <= Len(Body) => r - 1 \in 1 .. Len(Body) /\ r - 1 # c
        BY <1>3, <2>2, <3>3 DEF Rows
      <4> QED BY <1>1, <3>1, <3>3, <4>1, <4>2
    <3> QED BY <3>2, <3>3
  <2> QED BY <2>1, <2>2
<1> QED BY <1>2, <1>4 DEF InFocus

\* A list under a heading
LEMMA HeadedInFocus ==
  ASSUME NEW a, ~a[1], NEW what, NEW v, NEW n \in Nat, selection \in Nat, selection < n,
         Body = Headed(a, what, n, v)
  PROVE  FocusedLine(selection + 2)
<1>1. PICK S : /\ Body \in Seq(S) /\ Len(Body) = n + 1 /\ Body[1] = a
               /\ \A i \in 2 .. n + 1 : Body[i] = Item(what, i - 2, v)
  BY HeadedLines
<1>2. ASSUME NEW i \in 1 .. n + 1
      PROVE  Body[i][1] <=> i = selection + 2
  <2>1. CASE i = 1
    BY <1>1, <2>1
  <2>2. CASE i # 1
    <3>1. i \in 2 .. n + 1
      BY <2>2
    <3>a. Body[i] = Item(what, i - 2, v)
      BY <1>1, <3>1
    <3>b. Item(what, i - 2, v)[1] <=> selection = i - 2
      BY Zenon DEF Item
    <3>2. Body[i][1] <=> selection = i - 2
      BY <3>a, <3>b
    <3>3. selection = i - 2 <=> i = selection + 2
      OBVIOUS
    <3> QED BY <3>2, <3>3
  <2> QED BY <2>1, <2>2
<1>3. selection + 2 \in 1 .. n + 1
  OBVIOUS
<1> QED BY <1>1, <1>2, <1>3 DEF FocusedLine

\* A list without one
LEMMA ListInFocus ==
  ASSUME NEW n \in Nat, NEW f, f = [i \in 1 .. n |-> f[i]], Body = f,
         selection \in Nat, selection < n,
         \A i \in 1 .. n : f[i][1] <=> selection = i - 1
  PROVE  FocusedLine(selection + 1)
<1> DEFINE S == {f[i] : i \in 1 .. n}
<1>1. f \in [1 .. n -> S]
  OBVIOUS
<1> HIDE DEF S
<1>2. f \in Seq(S) /\ Len(f) = n
  BY <1>1, FunctionIsSeq
<1>3. \A i \in 1 .. n : selection = i - 1 <=> i = selection + 1
  OBVIOUS
<1>4. selection + 1 \in 1 .. n
  OBVIOUS
<1> QED BY <1>2, <1>3, <1>4 DEF FocusedLine

\* The apps, of which the page shows a window that ends at the cursor
LEMMA AppsInFocus ==
  ASSUME GuiInv, screen = "APPS", selection < ViewCount
  PROVE  \E c \in Nat : CursorRow = c + 1 /\ FocusedLine(c)
<1>1. VisibleApps \in Nat \ {0} /\ selection \in Nat /\ ViewCount \in Nat
  BY GlassAssumption, ViewCountType DEF GuiInv, TypeOK
<1>2. CurrentView # {}
  BY <1>1, FS_EmptySet DEF ViewCount, CurrentView
<1> DEFINE offset == IF selection >= VisibleApps THEN selection - (VisibleApps - 1) ELSE 0
           shown == Min({VisibleApps, ViewCount - offset})
           last == Min({selection, VisibleApps - 1})
           p == [n \in 1 .. shown |->
                   LET i == offset + n - 1 app == AppAt(i)
                   IN <<selection = i, Catalog[app], i, Bit(app \in favorites)>>]
           a == Line(filter, Bit(scope))
           S == {a} \cup {p[n] : n \in 1 .. shown}
<1>3. Body = <<a>> \o p \o <<>>
  <2>1. Body = RenderWorkbench
    BY DEF Body
  <2>2. RenderWorkbench = <<a>> \o p \o <<>>
    BY <1>2, Zenon DEF RenderWorkbench
  <2> QED BY <2>1, <2>2
<1>4. CursorRow = 3 + last
  BY DEF CursorRow
<1>5. shown \in {VisibleApps, ViewCount - offset} /\ shown \in Nat /\ offset \in Nat
      /\ shown <= VisibleApps /\ shown <= ViewCount - offset
  <2>1. {VisibleApps, ViewCount - offset} \in SUBSET Nat
    BY <1>1
  <2> QED BY <1>1, <2>1, MinIsLeast
<1>6. last \in {selection, VisibleApps - 1} /\ last \in Nat
      /\ last <= selection /\ last <= VisibleApps - 1
  <2>1. {selection, VisibleApps - 1} \in SUBSET Nat
    BY <1>1
  <2> QED BY <1>1, <2>1, MinIsLeast
<1>7. p \in Seq(S) /\ Len(p) = shown
  <2>1. p \in [1 .. shown -> S]
    OBVIOUS
  <2> HIDE DEF p, S, shown
  <2> QED BY <1>5, <2>1, FunctionIsSeq
<1>8. \A n \in 1 .. shown : p[n][1] <=> selection = offset + n - 1
  OBVIOUS
<1>9. offset + last = selection /\ last + 1 <= shown
  <2>1. CASE selection >= VisibleApps
    BY <1>1, <1>5, <1>6, <2>1
  <2>2. CASE ~(selection >= VisibleApps)
    BY <1>1, <1>5, <1>6, <2>2
  <2> QED BY <2>1, <2>2
<1>10. a \in S /\ ~a[1]
  BY DEF Line
<1> HIDE DEF offset, shown, last, p, a, S
<1>11. <<a>> \in Seq(S) /\ Len(<<a>>) = 1 /\ <<a>>[1] = a
  BY <1>10
<1>12. /\ <<a>> \o p \in Seq(S) /\ Len(<<a>> \o p) = 1 + shown
       /\ \A i \in 1 .. 1 + shown : (<<a>> \o p)[i] = IF i <= 1 THEN <<a>>[i] ELSE p[i - 1]
  BY <1>7, <1>11, ConcatProperties
<1>13. Body = <<a>> \o p
  BY <1>3, <1>12, ConcatEmptySeq
<1>14. ASSUME NEW i \in 1 .. 1 + shown
       PROVE  Body[i][1] <=> i = last + 2
  <2>1. CASE i = 1
    <3>1. Body[i] = a
      BY <1>11, <1>12, <1>13, <2>1
    <3> QED BY <1>6, <1>10, <2>1, <3>1
  <2>2. CASE i # 1
    <3>1. Body[i] = p[i - 1] /\ i - 1 \in 1 .. shown
      BY <1>5, <1>12, <1>13, <2>2
    <3>2. Body[i][1] <=> selection = offset + (i - 1) - 1
      BY <1>8, <3>1
    <3>3. selection = offset + (i - 1) - 1 <=> i = last + 2
      BY <1>1, <1>5, <1>6, <1>9
    <3> QED BY <3>2, <3>3
  <2> QED BY <2>1, <2>2
<1>15. last + 2 \in 1 .. 1 + shown
  BY <1>5, <1>6, <1>9
<1>16. FocusedLine(last + 2)
  BY <1>12, <1>13, <1>14, <1>15 DEF FocusedLine
<1>17. last + 2 \in Nat /\ CursorRow = (last + 2) + 1
  BY <1>4, <1>6
<1> QED BY <1>16, <1>17

\* The tile of the cursor
LEMMA HomeInFocus ==
  ASSUME screen = "HOME", selection \in Nat, selection < 6
  PROVE  InFocus
<1>1. Picture = OnRows(Line("HOME", Bit(scope)), Tiles) /\ CursorRow = selection + 2
  BY DEF Picture, Home, CursorRow
<1>2. Len(Tiles) = 6 /\ \A i \in 1 .. 6 : Tiles[i] = Item("tile", i - 1, 0)
  BY DEF Tiles, Items
<1>3. ASSUME NEW r \in Rows
      PROVE  Picture[r][1] <=> r = selection + 2
  <2>1. CASE r = 1
    BY <1>1, <2>1 DEF OnRows, Line
  <2>2. CASE r # 1
    <3>1. Picture[r] = IF r - 1 <= 6 THEN Tiles[r - 1] ELSE Blank
      BY <1>1, <1>2, <2>2 DEF OnRows
    <3>2. CASE r - 1 <= 6
      <4>1. r - 1 \in 1 .. 6
        BY <2>2, <3>2 DEF Rows
      <4>a. Picture[r] = Item("tile", r - 1 - 1, 0)
        BY <1>2, <3>1, <3>2, <4>1
      <4>b. Item("tile", r - 1 - 1, 0)[1] <=> selection = r - 1 - 1
        BY Zenon DEF Item
      <4>2. Picture[r][1] <=> selection = r - 1 - 1
        BY <4>a, <4>b
      <4>3. selection = r - 1 - 1 <=> r = selection + 2
        BY DEF Rows
      <4> QED BY <4>2, <4>3
    <3>3. CASE ~(r - 1 <= 6)
      <4>1. r # selection + 2
        BY <3>3
      <4>2. Picture[r] = Blank
        BY <3>1, <3>3
      <4>3. ~Blank[1]
        BY DEF Blank, Line
      <4> QED BY <4>1, <4>2, <4>3
    <3> QED BY <3>2, <3>3
  <2> QED BY <2>1, <2>2
<1>4. selection + 2 \in Rows
  BY DEF Rows
<1> QED BY <1>1, <1>3, <1>4 DEF InFocus

\* Screen by screen, the entry of the cursor is on the page and is focused.
LEMMA ScreenInFocus ==
  ASSUME GuiInv, HostThere, screen \in Lists \cup {"SKINS", "SHUTDOWN"},
         selection < Lines(screen), ~Beyond, ~Unmarked
  PROVE  InFocus
<1>1. /\ selection \in Nat /\ hosts \in Nat /\ results \in Nat /\ entries \in Nat
      /\ ViewCount \in Nat
  BY ViewCountType DEF GuiInv, TypeOK
<1>2. ASSUME screen \in {"FILES", "SECURITY", "UPDATE", "HOSTS", "HOST_ACTIONS"}
      PROVE  InFocus
  <2>1. CursorRow = (selection + 2) + 1 /\ selection + 2 \in Nat /\ screen # "HOME"
    BY <1>1, <1>2 DEF CursorRow
  <2>2. \A x, v : ~Line(x, v)[1]
    BY DEF Line
  <2> USE DEF Lines
  <2>3. CASE screen = "FILES"
    <3>1. Body = Headed(Line("path", depth), "file", entries, stamp)
      <4>1. Body = RenderFiles /\ entries # 0
        BY <1>1, <2>3 DEF Body
      <4> QED BY <4>1, Zenon DEF RenderFiles, Headed
    <3> QED BY <1>1, <2>1, <2>2, <2>3, <3>1, HeadedInFocus, PageInFocus
  <2>4. CASE screen = "SECURITY"
    <3>1. Body = Headed(Line("boundary", Bit(scope)), "setting", 5, Bit(scope))
      BY <2>4 DEF Body, RenderSecurity, Headed
    <3> QED BY <1>1, <2>1, <2>2, <2>4, <3>1, HeadedInFocus, PageInFocus
  <2>5. CASE screen = "UPDATE"
    <3>1. Body = Headed(Line("interface", stamp), "wifi", 9, 0)
      BY <2>5 DEF Body, RenderUpdate, Headed
    <3> QED BY <1>1, <2>1, <2>2, <2>5, <3>1, HeadedInFocus, PageInFocus
  <2>6. CASE screen = "HOSTS"
    <3>1. Body = HostLines(hosts)
      <4>1. Body = RenderHosts /\ hosts # 0
        BY <1>1, <2>6 DEF Body
      <4> QED BY <4>1, Zenon DEF RenderHosts, HostLines, Headed
    <3> QED BY <1>1, <2>1, <2>2, <2>6, <3>1, HeadedInFocus, PageInFocus DEF HostLines
  <2>7. CASE screen = "HOST_ACTIONS"
    <3>1. memory["HOSTS"] \in Nat /\ ~(memory["HOSTS"] >= hosts)
      BY <1>1, <2>7, TourFacts DEF GuiInv, TypeOK, Places, Held, LineOf, Unchecked, Lists, HostThere
    <3> DEFINE a == <<FALSE, "host", memory["HOSTS"], 0>>
    <3>2. Body = Headed(a, "action", 4, 0) /\ ~a[1]
      <4>1. Body = RenderHostActions
        BY <2>7 DEF Body
      <4>2. ~a[1]
        OBVIOUS
      <4> QED BY <3>1, <4>1, <4>2, Zenon DEF RenderHostActions, Headed
    <3> HIDE DEF a
    <3> QED BY <1>1, <2>1, <2>7, <3>2, HeadedInFocus, PageInFocus
  <2> QED BY <1>2, <2>3, <2>4, <2>5, <2>6, <2>7
<1>3. ASSUME screen \in {"SYSTEM", "RECON_HISTORY", "SKINS", "SHUTDOWN"}
      PROVE  InFocus
  <2>1. CursorRow = (selection + 1) + 1 /\ selection + 1 \in Nat /\ screen # "HOME"
    BY <1>1, <1>3 DEF CursorRow
  <2> USE DEF Lines, Items, Item
  <2>2. CASE screen = "SYSTEM"
    <3> DEFINE f == [i \in 1 .. 7 |->
                    <<selection = i - 1, "system", i - 1, 0>>]
    <3>1. Body = f
      <4>1. Body = RenderSystem
        BY <2>2 DEF Body
      <4> QED BY <4>1, Zenon DEF RenderSystem
    <3>2. \A i \in 1 .. 7 : f[i][1] <=> selection = i - 1
      BY Zenon
    <3>3. f = [i \in 1 .. 7 |-> f[i]] /\ 7 \in Nat /\ selection < 7
      BY <1>1, <2>2 DEF Skins
    <3> HIDE DEF f
    <3>4. FocusedLine(selection + 1)
      BY <1>1, <3>1, <3>2, <3>3, ListInFocus
    <3> QED BY <2>1, <3>4, PageInFocus
  <2>3. CASE screen = "RECON_HISTORY"
    <3> DEFINE f == [i \in 1 .. results |->
                    <<selection = i - 1, "result", i - 1, ledger>>]
    <3>1. Body = f
      <4>1. Body = RenderReconHistory
        BY <2>3 DEF Body
      <4>2. results # 0
        BY <1>1, <2>3
      <4> QED BY <4>1, <4>2, Zenon DEF RenderReconHistory
    <3>2. \A i \in 1 .. results : f[i][1] <=> selection = i - 1
      BY Zenon
    <3>3. f = [i \in 1 .. results |-> f[i]] /\ results \in Nat /\ selection < results
      BY <1>1, <2>3 DEF Skins
    <3> HIDE DEF f
    <3>4. FocusedLine(selection + 1)
      BY <1>1, <3>1, <3>2, <3>3, ListInFocus
    <3> QED BY <2>1, <3>4, PageInFocus
  <2>4. CASE screen = "SKINS"
    <3> DEFINE f == [i \in 1 .. Skins |->
                    <<selection = i - 1, "skin", i - 1, Bit(SkinIds[i] = skin)>>]
    <3>1. Body = f
      <4>1. Body = RenderSkins
        BY <2>4 DEF Body
      <4> QED BY <4>1, Zenon DEF RenderSkins
    <3>2. \A i \in 1 .. Skins : f[i][1] <=> selection = i - 1
      BY Zenon
    <3>3. f = [i \in 1 .. Skins |-> f[i]] /\ Skins \in Nat /\ selection < Skins
      BY <1>1, <2>4 DEF Skins
    <3> HIDE DEF f
    <3>4. FocusedLine(selection + 1)
      BY <1>1, <3>1, <3>2, <3>3, ListInFocus
    <3> QED BY <2>1, <3>4, PageInFocus
  <2>5. CASE screen = "SHUTDOWN"
    <3> DEFINE f == [i \in 1 .. 2 |->
                    <<skin # Crayon /\ selection = i - 1, "power", i - 1, 0>>]
    <3>1. Body = f
      <4>1. Body = RenderShutdown
        BY <2>5 DEF Body
      <4> QED BY <4>1, Zenon DEF RenderShutdown
    <3>a. skin # Crayon
      BY <2>5 DEF Unmarked
    <3>2. \A i \in 1 .. 2 : f[i][1] <=> selection = i - 1
      BY <3>a, Zenon
    <3>3. f = [i \in 1 .. 2 |-> f[i]] /\ 2 \in Nat /\ selection < 2
      BY <1>1, <2>5 DEF Skins
    <3> HIDE DEF f
    <3>4. FocusedLine(selection + 1)
      BY <1>1, <3>1, <3>2, <3>3, ListInFocus
    <3> QED BY <2>1, <3>4, PageInFocus
  <2> QED BY <1>3, <2>2, <2>3, <2>4, <2>5
<1>4. CASE screen = "HOME"
  BY <1>1, <1>4, HomeInFocus DEF Lines
<1>5. CASE screen = "APPS"
  <2>1. selection < ViewCount /\ screen # "HOME"
    BY <1>5 DEF Lines
  <2> QED BY <1>5, <2>1, AppsInFocus, PageInFocus
<1> QED BY <1>2, <1>3, <1>4, <1>5 DEF Lists

-----------------------------------------------------------------------------
\* A list of hosts that was drawn empty is seen to be.
EmptySeen == screen = "HOSTS" /\ hosts = 0 /\ ~Leftover => OpenedEmpty

\* What was there before a step that draws nothing is what Enter acts on still.
LEMMA RestKeepsFocus ==
  ASSUME Resting, Kept, GuiInv, GuiInv', HostThere, EmptySeen, FocusShown
  PROVE  FocusShown' /\ EmptySeen'
<1>1. /\ UNCHANGED <<screen, selection, skin, glass>> /\ Leftover' = Leftover
      /\ CursorRow' = CursorRow /\ Beyond' = Beyond
      /\ OpenedEmpty' = OpenedEmpty /\ Unmarked' = Unmarked
  BY DEF Resting, Kept, Leftover, CursorRow, Beyond, OpenedEmpty, Unmarked
<1>2. hosts \in Nat /\ hosts' \in Nat /\ selection \in Nat /\ Held(screen, selection)
  BY TourFacts DEF GuiInv, TypeOK
<1>3. EmptySeen'
  <2>1. hosts' = 0 => hosts = 0
    BY <1>2 DEF Resting
  <2> QED BY <1>1, <2>1 DEF EmptySeen
<1> SUFFICES ASSUME /\ screen' \in Lists \cup {"SKINS", "SHUTDOWN"}
                    /\ selection' < Lines(screen)'
                    /\ ~Leftover' /\ ~Beyond' /\ ~OpenedEmpty' /\ ~Unmarked'
             PROVE  /\ {r \in Rows : glass'[r][2][1]} = {CursorRow'}
                    /\ glass'[CursorRow'] = <<skin', Picture'[CursorRow']>>
  BY <1>3 DEF FocusShown
<1>4. selection < Lines(screen)
  <2>1. CASE screen = "HOSTS"
    <3>1. hosts # 0
      BY <1>1, <2>1 DEF EmptySeen
    <3> QED BY <1>2, <2>1, <3>1 DEF Held, LineOf, Lines
  <2>2. CASE screen # "HOSTS"
    <3>1. ViewCount' = ViewCount
      BY DEF Resting, ViewCount, CurrentView
    <3>2. Lines(screen)' = Lines(screen)
      BY <1>1, <2>2, <3>1 DEF Lines, Resting, Updating
    <3> QED BY <1>1, <3>2
  <2> QED BY <2>1, <2>2
<1>5. ASSUME NEW r \in Rows
      PROVE  SameRow(r)
  <2>1. CASE screen = "APPS"
    <3>1. selection < ViewCount
      BY <1>4, <2>1 DEF Lines
    <3> QED BY <2>1, <3>1, AppsRest
  <2>2. CASE screen = "HOSTS"
    <3>1. selection < hosts /\ (skin = Crayon => selection + 1 < Slots)
      BY <1>1, <1>2, <1>4, <2>2, GlassAssumption DEF Lines, Beyond, CursorRow
    <3> QED BY <1>2, <2>2, <3>1, HostsRest
  <2>3. CASE screen = "HOME"
    BY <2>3, HomeRests
  <2>4. CASE screen = "HOST_ACTIONS"
    BY <1>2, <2>4, HostActionsRest
  <2>5. CASE screen \in {"FILES", "SECURITY", "UPDATE", "SYSTEM", "SKINS", "SHUTDOWN",
                         "RECON_HISTORY"}
    BY <2>5, FixedScreensRest
  <2> QED BY <1>1, <2>1, <2>2, <2>3, <2>4, <2>5 DEF Lists
<1>6. /\ {r \in Rows : glass[r][2][1]} = {CursorRow}
      /\ glass[CursorRow] = <<skin, Picture[CursorRow]>>
  BY <1>1, <1>4 DEF FocusShown
<1>7. CursorRow \in Rows /\ Picture[CursorRow][1]
  BY <1>6
<1>8. Picture'[CursorRow] = Picture[CursorRow]
  BY <1>5, <1>7 DEF SameRow
<1> QED BY <1>1, <1>6, <1>8

\* A step that draws, draws the row that Enter acts on.
LEMMA DrawnInFocus ==
  ASSUME GuiInv, HostThere, Whole
  PROVE  FocusShown /\ EmptySeen
<1> SUFFICES ASSUME ~Leftover, glass = Paint(Picture)
             PROVE  FocusShown /\ EmptySeen
  BY DEF Whole, FocusShown, EmptySeen
<1>1. \A r \in Rows : glass[r] = <<skin, Picture[r]>> /\ glass[r][2] = Picture[r]
  BY DEF Paint
<1>2. FocusShown
  <2> SUFFICES ASSUME screen \in Lists \cup {"SKINS", "SHUTDOWN"},
                      selection < Lines(screen), ~Beyond, ~Unmarked
               PROVE  /\ {r \in Rows : glass[r][2][1]} = {CursorRow}
                      /\ glass[CursorRow] = <<skin, Picture[CursorRow]>>
    BY DEF FocusShown
  <2>1. {r \in Rows : glass[r][2][1]} = {r \in Rows : Picture[r][1]}
    BY <1>1
  <2>2. {r \in Rows : Picture[r][1]} = {CursorRow}
    BY ScreenInFocus DEF InFocus
  <2> QED BY <1>1, <2>1, <2>2
<1>3. EmptySeen
  <2> SUFFICES ASSUME screen = "HOSTS", hosts = 0
               PROVE  glass[3][2][2] # "host"
    BY DEF EmptySeen, OpenedEmpty
  <2> DEFINE a == Line("hosts", hosts)
             b == Line("no hosts observed", 0)
  <2>0. Body = <<a>> \o <<b>>
    BY DEF Body, RenderHosts
  <2>1. ~(b[2] = "host") /\ ~(Blank[2] = "host")
    BY DEF Blank, Line
  <2> HIDE DEF a, b
  <2>2. /\ <<a>> \o <<b>> \in Seq({a, b}) /\ Len(<<a>> \o <<b>>) = 2
        /\ (<<a>> \o <<b>>)[2] = b
    <3>1. /\ <<a>> \in Seq({a, b}) /\ Len(<<a>>) = 1
          /\ <<b>> \in Seq({a, b}) /\ Len(<<b>>) = 1 /\ <<b>>[1] = b
      OBVIOUS
    <3>2. /\ <<a>> \o <<b>> \in Seq({a, b}) /\ Len(<<a>> \o <<b>>) = 2
          /\ \A i \in 1 .. 2 : (<<a>> \o <<b>>)[i] = IF i <= 1 THEN <<a>>[i] ELSE <<b>>[i - 1]
      BY <3>1, ConcatProperties
    <3>3. 2 \in 1 .. 2 /\ ~(2 <= 1) /\ 2 - 1 = 1
      OBVIOUS
    <3> QED BY <3>1, <3>2, <3>3
  <2>3. Page = OnRows(Title, Fitting(<<a>> \o <<b>>))
    BY <2>0 DEF Page
  <2>4. 3 \in Rows /\ 3 # 1 /\ 3 - 1 = 2
    BY DEF Rows
  <2>5. Page[3] = b \/ Page[3] = Blank
    BY <2>2, <2>3, <2>4, FittingRow
  <2>6. Page[3][2] # "host"
    BY <2>1, <2>5
  <2> QED BY <1>1, <2>4, <2>6 DEF Picture
<1> QED BY <1>2, <1>3

\* The screens with the glass implement the screens without it: drawing decides
\* nothing, and what is proved of Gui holds of what is drawn (gui.c:1118-1675).
THEOREM GlassFollowsScreens == GlassSpec => Spec
<1>1. GlassInit => Init
  BY DEF GlassInit
<1> QED BY <1>1, GlassStepIsGuiStep, PTL DEF GlassSpec, Spec

\* A step from where the glass and the screens can be
LEMMA GlassSteps ==
  ASSUME GlassInv, GuiInv, [GlassNext]_glassVars
  PROVE  /\ GuiInv' /\ GlassInv'
         /\ (Kept /\ Skipping) \/ screen' = "TERMINAL" \/ Whole'
<1>1. GuiInv'
  BY StepKeeps, GlassStepIsGuiStep
<1>2. selection \in Nat /\ selection' \in Nat
  BY <1>1 DEF GuiInv, TypeOK
<1> QED BY <1>1, <1>2, StepKeepsGlass

\* After every redraw the glass shows the whole page of its screen in the
\* current skin, although gui.c and the renderers skip the rows that they drew
\* last (gui.c:226-268, synthwave_renderer.c:131-146, crayon_renderer.c:175-210).
THEOREM DrawnWholeHolds == GlassSpec => DrawnWhole
<1>1. GlassInit => GlassInv /\ GuiInv
  BY GlassStarts, InitialPlaces DEF GlassInit
<1>2. GlassInv /\ GuiInv /\ [GlassNext]_glassVars => (GlassInv /\ GuiInv)'
  BY GlassSteps
<1>3. GlassInv /\ GuiInv /\ [GlassNext]_glassVars =>
        [(glass' # glass \/ cache' # cache) /\ screen' # "TERMINAL" =>
           Leftover' \/ glass' = Paint(Picture)']_glassVars
  BY GlassSteps DEF Whole, Kept
<1> QED BY <1>1, <1>2, <1>3, PTL DEF GlassSpec, DrawnWhole

-----------------------------------------------------------------------------
(* What Enter acts on between two redraws                                  *)

\* Only the Files screen asks the storage for something, and draws when it has it.
LEMMA RequestIsOfFiles ==
  ASSUME NEW key, Key(key), request' # "none"
  PROVE  FilesRequest(key)
<1> USE DEF Pressing, files
<1>1. ~HomeKey(key) /\ ~SystemKey(key) /\ ~SettingsKey(key)
  BY DEF HomeKey, SystemKey, SettingsKey, MoveOn
<1>2. ~SkinsKey(key) /\ ~ShutdownKey(key) /\ ~AppsMove(key) /\ ~AppsTurn(key)
  BY DEF SkinsKey, ShutdownKey, AppsMove, AppsTurn
<1>3. ~HostsKey(key) /\ ~HostActionsKey(key) /\ ~HistoryKey(key)
  BY DEF HostsKey, HostActionsKey, HistoryKey, MoveOn
<1>4. ~ConfigKey(key) /\ ~FilesMove(key) /\ ~PickerKey(key)
  BY DEF ConfigKey, FilesMove, PickerKey, MoveOn
<1> QED BY <1>1, <1>2, <1>3, <1>4 DEF Key

\* A step that draws nothing leaves alone what the screen in front is made of.
\* A task that ends would not, but ends only where it is drawn: no task
\* outlives its screen.
LEMMA SkippingRests ==
  ASSUME GuiInv, GuiInv', CancelledWhenLeft, Skipping
  PROVE  Resting
<1>0. hosts \in Nat /\ hosts' \in Nat
  BY TourFacts DEF GuiInv, TypeOK
<1> USE DEF Resting
<1>1. ASSUME NEW key \in Keys, PressKey(key), request' # "none"
      PROVE  Resting
  <2>1. FilesRequest(key) /\ UNCHANGED <<skin, stamp, ledger>>
    BY <1>1, RequestIsOfFiles DEF PressKey
  <2>2. screen = "FILES"
    BY <2>1 DEF FilesRequest, Pressing
  <2>3. UNCHANGED scope
    BY <1>1, <2>2 DEF PressKey
  <2> QED BY <1>0, <2>1, <2>2, <2>3 DEF FilesRequest, cursor, apps, services
<1>2. CASE StateUpdate /\ screen \notin Updating
  <2>1. skin' = skin /\ ledger' = ledger
    BY <1>2 DEF StateUpdate
  <2>2. CASE TakeRequest \/ DevicesRefresh
    <3>1. screen # "FILES"
      BY <1>2 DEF Updating
    <3>2. UNCHANGED <<screen, selection, memory, apps, services>>
      BY <2>2, <3>1 DEF TakeRequest, DevicesRefresh, Updated
    <3> QED BY <1>0, <1>2, <2>1, <3>2 DEF apps, services
  <2>3. CASE UNCHANGED vars
    BY <1>0, <1>2, <2>1, <2>3 DEF vars, cursor, apps, services
  <2> QED BY <1>2, <2>2, <2>3 DEF StateUpdate
<1>3. ~(WorkbenchRefresh /\ screen \notin {"APPS", "RECON", "EVIDENCE"})
  BY DEF WorkbenchRefresh, TaskEnds, EvidenceEnds, CancelledWhenLeft
<1>4. CASE Unseen
  BY <1>0, <1>4 DEF Unseen, HostSeen, picture, cursor, apps, files
<1>5. CASE UNCHANGED glassVars
  BY <1>0, <1>5 DEF glassVars, picture, vars, cursor, apps, files, services
<1> QED BY <1>1, <1>2, <1>3, <1>4, <1>5 DEF Skipping

\* The inductive invariant
FocusInv == GlassInv /\ GuiInv /\ CancelledWhenLeft /\ HostThere /\ EmptySeen /\ FocusShown

\* It is kept by a step that draws nothing, shows the terminal, or draws.
LEMMA FocusKeeps ==
  ASSUME FocusInv, [GlassNext]_glassVars
  PROVE  FocusInv'
<1>1. /\ GuiInv' /\ GlassInv' /\ CancelledWhenLeft' /\ HostThere'
      /\ (Kept /\ Skipping) \/ screen' = "TERMINAL" \/ Whole'
  BY GlassSteps, GlassStepIsGuiStep, StepCancels, HostStaysThere DEF FocusInv
<1>2. CASE Kept /\ Skipping
  BY <1>1, <1>2, SkippingRests, RestKeepsFocus DEF FocusInv
<1>3. CASE screen' = "TERMINAL"
  BY <1>1, <1>3 DEF FocusInv, FocusShown, EmptySeen, Lists
<1>4. CASE Whole'
  <2>1. (GuiInv /\ HostThere /\ Whole => FocusShown /\ EmptySeen)'
    BY DrawnInFocus, PTL
  <2> QED BY <1>1, <1>4, <2>1 DEF FocusInv
<1> QED BY <1>1, <1>2, <1>3, <1>4

\* What Enter would act on is what the focused row shows, whatever has been
\* listed, found or ended since the screen was drawn (gui.c:1118-1150,
\* main.c:405-491).
THEOREM FocusShownHolds == GlassSpec => []FocusShown
<1>1. GlassInit => FocusInv
  <2> SUFFICES ASSUME GlassInit PROVE FocusInv
    OBVIOUS
  <2>1. GlassInv /\ GuiInv
    BY GlassStarts, InitialPlaces DEF GlassInit
  <2>2. CancelledWhenLeft /\ HostThere
    BY DEF GlassInit, Init, CancelledWhenLeft, HostThere
  <2>3. Whole
    BY DEF GlassInit, Init, Whole, Picture
  <2> QED BY <2>1, <2>2, <2>3, DrawnInFocus DEF FocusInv
<1>2. FocusInv /\ [GlassNext]_glassVars => FocusInv'
  BY FocusKeeps
<1>3. FocusInv => FocusShown
  BY DEF FocusInv
<1> QED BY <1>1, <1>2, <1>3, PTL DEF GlassSpec
=============================================================================
