------------------------------- MODULE Glass --------------------------------
(***************************************************************************)
(* What the screens of Gui leave on the glass.  The display has no frame   *)
(* that is swapped: a page is drawn row by row over what was there, and    *)
(* rows that have not changed since the last page are skipped.  What they  *)
(* are compared with is kept three times, by gui.c and by the renderers of *)
(* two skins, each in ignorance of what the others and the terminal draw.  *)
(*                                                                         *)
(* A line is <<focused, what, which, version>>: wording and layout are     *)
(* left out, what a line depends on is kept.                               *)
(***************************************************************************)
EXTENDS Gui

CONSTANTS
  Slots,        \* the entries of a page of the crayon skin, 12 in the code
  VisibleApps   \* GUI_APPS_VISIBLE_ITEMS

ASSUME GlassAssumption == Slots \in Nat \ {0} /\ VisibleApps \in Nat \ {0}

VARIABLES
  skin,    \* current_skin
  scope,   \* picopen_engagement_session_active()
  stamp,   \* tells one state of the services from the next
  ledger,  \* tells one history of results from the next
  glass,   \* the rows of the display, each with the skin it was drawn in
  cache    \* cached_lines and rendered_lines, or None when not valid

picture == <<skin, scope, stamp, ledger, glass, cache>>

Synthwave == "SYNTHWAVE"
Crayon == "CRAYON"
SkinIds == <<Synthwave, Crayon, "HIGH CONTRAST", "MINIMAL DARK">>
Renderers == {Synthwave, Crayon, "gui"}
Renderer(s) == IF s \in {Synthwave, Crayon} THEN s ELSE "gui"
NoLines == <<>>
None == [screen |-> "", skin |-> "", lines |-> NoLines]

Rows == 1 .. 12   \* as many of the 20 as the longest page here needs
Line(what, v) == <<FALSE, what, 0, v>>
Item(what, i, v) == <<selection = i, what, i, v>>
Items(what, n, v) == [i \in 1 .. n |-> Item(what, i - 1, v)]
Blank == Line("", 0)
Bit(b) == IF b THEN 1 ELSE 0
Terminal == <<"TERMINAL", Blank>>

-----------------------------------------------------------------------------
(* The pages: what each render_...() puts after its title *)

RenderStatus == <<Line("keyboard, card, battery, bus", stamp)>>
RenderFiles ==
  IF entries = 0 THEN <<Line("no files found", depth)>>
  ELSE <<Line("path", depth)>> \o Items("file", entries, stamp)
RenderFile == <<<<FALSE, "file", selection, stamp>>, Line("bytes", stamp)>>
RenderDevices == <<Line("devices", stamp), Line("attachments", 0)>>

\* A window on the view that ends at the cursor
RenderWorkbench ==
  LET offset == IF selection >= VisibleApps THEN selection - (VisibleApps - 1) ELSE 0
      shown == Min({VisibleApps, ViewCount - offset})
  IN <<Line(filter, Bit(scope))>> \o
     [n \in 1 .. shown |->
        LET i == offset + n - 1 app == AppAt(i)
        IN <<selection = i, Catalog[app], i, Bit(app \in favorites)>>] \o
     IF CurrentView = {} THEN <<Line("no apps in this view", 0)>> ELSE <<>>

RenderAppInfo == <<Line(Catalog[info], 0)>>
RenderAppConfig ==
  IF taskless THEN <<Line("session reports", results)>>
  ELSE <<<<field = 0, "target", 0, Bit(filled)>>, <<field = 1, "port", 0, 0>>>>
RenderReconConfirm == <<Line("operation and target", 0), Line("limit", Bit(scope))>>
RenderReconHistory ==
  IF results = 0 THEN <<Line("no results", 0)>> ELSE Items("result", results, ledger)
RenderDetail == <<<<FALSE, "selected_result", memory["RECON_HISTORY"], 0>>>>
RenderHosts ==
  <<Line("hosts", hosts)>> \o
  IF hosts = 0 THEN <<Line("no hosts observed", 0)>> ELSE Items("host", hosts, 0)
RenderHostActions ==
  IF memory["HOSTS"] >= hosts THEN <<Line("host no longer available", 0)>>
  ELSE <<<<FALSE, "host", memory["HOSTS"], 0>>>> \o Items("action", 4, 0)
RenderEvidencePicker ==
  IF entries = 0 THEN <<Line("no files available", 0)>>
  ELSE <<Line("path", depth)>> \o Items("file", entries, stamp)
RenderRecon == <<Line("operation", Bit(running))>>
RenderEvidence == <<Line("analysis", Bit(hashing))>>
RenderAudit == <<Line("last record", stamp)>>
RenderSystem == Items("system", 7, 0)
RenderRecovery == <<Line("store and card", stamp), Item("clear crash record", 0, 0)>>
RenderSkins ==
  [i \in 1 .. Skins |-> <<selection = i - 1, "skin", i - 1, Bit(SkinIds[i] = skin)>>]
RenderSecurity == <<Line("boundary", Bit(scope))>> \o Items("setting", 5, Bit(scope))
RenderUpdate == <<Line("interface", stamp)>> \o Items("wifi", 9, 0)
RenderAbout == <<Line("about", 0)>>
\* Its markers do not stand at the head of their lines (gui.c:961-962), where a
\* crayon page looks for them; others show them as text.
RenderShutdown ==
  [i \in 1 .. 2 |-> <<skin # Crayon /\ selection = i - 1, "power", i - 1, 0>>]
RenderShutdownResult == <<Line("accepted or error", 0)>>

Body ==
  CASE screen = "STATUS" -> RenderStatus
    [] screen = "FILES" -> RenderFiles
    [] screen = "FILE_VIEW" -> RenderFile
    [] screen \in {"DEVICES", "APP_DEVICES"} -> RenderDevices
    [] screen = "APPS" -> RenderWorkbench
    [] screen = "APP_INFO" -> RenderAppInfo
    [] screen = "APP_CONFIG" -> RenderAppConfig
    [] screen = "RECON_CONFIRM" -> RenderReconConfirm
    [] screen = "RECON_HISTORY" -> RenderReconHistory
    [] screen = "DETAIL" -> RenderDetail
    [] screen = "HOSTS" -> RenderHosts
    [] screen = "HOST_ACTIONS" -> RenderHostActions
    [] screen = "EVIDENCE_PICKER" -> RenderEvidencePicker
    [] screen = "RECON" -> RenderRecon
    [] screen = "EVIDENCE" -> RenderEvidence
    [] screen = "AUDIT" -> RenderAudit
    [] screen = "SYSTEM" -> RenderSystem
    [] screen = "RECOVERY" -> RenderRecovery
    [] screen = "SKINS" -> RenderSkins
    [] screen = "SECURITY" -> RenderSecurity
    [] screen = "UPDATE" -> RenderUpdate
    [] screen = "ABOUT" -> RenderAbout
    [] screen = "SHUTDOWN" -> RenderShutdown
    [] OTHER -> RenderShutdownResult

\* begin(): the two DEVICES screens have one title; a crayon page has no scope.
Title ==
  <<FALSE, IF screen = "APP_DEVICES" THEN "DEVICES" ELSE screen, 0,
    IF skin = Crayon THEN 0 ELSE Bit(scope)>>

\* build_entries(): what does not fit on a crayon page is not drawn.
Fitting(body) == IF skin = Crayon THEN SubSeq(body, 1, Min({Slots, Len(body)})) ELSE body

OnRows(title, body) ==
  [r \in Rows |-> IF r = 1 THEN title
                  ELSE IF r - 1 <= Len(body) THEN body[r - 1] ELSE Blank]
Page == OnRows(Title, Fitting(Body))

\* The tiles of the home screen and what is around them
Tiles == Items("tile", 6, 0)
Home == OnRows(Line("HOME", Bit(scope)), Tiles)

Picture == IF screen = "HOME" THEN Home ELSE Page

-----------------------------------------------------------------------------
(* Drawing *)

Paint(lines) == [r \in Rows |-> <<skin, lines[r]>>]

\* render_home(): everything, and whoever drew it forgets its page, as does gui.c.
DrawHome(kept) ==
  /\ glass' = Paint(Home)'
  /\ cache' = [kept EXCEPT ![Renderer(skin')] = None, !["gui"] = None]

\* The title of a crayon page is drawn with the whole page only.
Compared(r) == skin' = Crayon => r # 1

\* Mutant: gui.c and the renderers look at the lines alone, not at the screen.
DrawPageOfAny(kept) ==
  LET old == kept[Renderer(skin')]
      full == old.lines = NoLines IN
  \E page \in {Page'} :
  /\ glass' = [r \in Rows |-> IF full \/ (page[r] # old.lines[r] /\ Compared(r))
                              THEN <<skin', page[r]>> ELSE glass[r]]
  /\ cache' = [kept EXCEPT !["gui"] = None,
                 ![Renderer(skin')] = [screen |-> "", skin |-> "", lines |-> page]]

\* present() and the renderers' ..._page(): the rows that are not what this
\* renderer drew last.
DrawPage(kept) ==
  LET old == kept[Renderer(skin')]
      full == old.lines = NoLines \/ old.screen # screen' \/ old.skin # skin' IN
  \E page \in {Page'} :
  /\ glass' = [r \in Rows |-> IF full \/ (page[r] # old.lines[r] /\ Compared(r))
                              THEN <<skin', page[r]>> ELSE glass[r]]
  /\ cache' = [kept EXCEPT !["gui"] = None,
                 ![Renderer(skin')] =
                   [screen |-> screen', skin |-> skin', lines |-> page]]

\* open_system_item() for the terminal, which draws every cell itself
DrawTerminal(kept) ==
  /\ glass' = [r \in Rows |-> Terminal]
  /\ cache' = [kept EXCEPT !["gui"] = None]

\* render(), with what the caller has left of the caches
Draw(kept) ==
  \/ screen' = "HOME" /\ DrawHome(kept)
  \/ screen' = "TERMINAL" /\ DrawTerminal(kept)
  \/ screen' \notin {"HOME", "TERMINAL"} /\ DrawPage(kept)

\* restore_home_focus() and draw_home_focus(): the tile left and the one entered
Refocused == {selection + 2, selection' + 2}

\* redraw_home_focus(): two tiles
DrawFocus ==
  /\ glass' = [r \in Rows |-> IF r \in Refocused
                              THEN <<skin, Home'[r]>> ELSE glass[r]]
  /\ UNCHANGED cache

Kept == UNCHANGED <<glass, cache>>

-----------------------------------------------------------------------------
GlassInit ==
  /\ Init
  /\ skin \in Range(SkinIds)  \* preferences, main.c:151
  /\ scope = FALSE /\ stamp = 0 /\ ledger = 0
  /\ cache = [k \in Renderers |-> None]
  /\ glass = Paint(Home)

\* The place of the skin in the menu is where its cursor starts.
AtCurrentSkin ==
  (screen' = "SKINS" /\ screen = "SYSTEM") => SkinIds[selection' + 1] = skin

ChooseSkin ==
  /\ screen = "SKINS" /\ SkinsKey("enter")
  /\ skin' = SkinIds[selection + 1] /\ UNCHANGED <<scope, stamp, ledger>>
  /\ Draw([cache EXCEPT ![Crayon] = None, ![Synthwave] = None])

\* A storage request draws nothing until it is taken; ACTIVATE or END SCOPE
\* may be refused.
PressKey(key) ==
  /\ ~(screen = "SKINS" /\ key = "enter")
  /\ Key(key)
  /\ UNCHANGED <<skin, stamp, ledger>>
  /\ IF screen = "SECURITY" /\ selection = 3 /\ key = "enter"
     THEN scope' \in BOOLEAN ELSE UNCHANGED scope
  /\ IF screen = "HOME" THEN DrawFocus
     ELSE IF request' # "none" THEN Kept ELSE Draw(cache)

\* Opening, leaving, and the keys that the screens of apps have of their own.
\* A directory has entries of its own; a task that is confirmed or left may
\* have come to a result.
OpenOrLeave ==
  /\ Enter \/ AppsFavorite \/ AppsInfo \/ InfoFavorite \/ Escape
  /\ AtCurrentSkin
  /\ IF depth' # depth THEN stamp' = 1 - stamp ELSE UNCHANGED stamp
  /\ IF screen \in {"RECON_CONFIRM", "RECON"} THEN ledger' \in 0 .. 1
     ELSE UNCHANGED ledger
  /\ UNCHANGED <<skin, scope>>
  /\ Draw(cache)

\* Mutant: the Files screen is not among them.
WithoutFiles == {"STATUS", "HOME", "DEVICES", "SECURITY", "UPDATE"}

\* picopen_gui_update_state() redraws these.
Updating == {"STATUS", "HOME", "DEVICES", "SECURITY", "UPDATE", "FILES"}

StateUpdate ==
  /\ \/ (TakeRequest \/ DevicesRefresh) /\ stamp' \in 0 .. 1 /\ UNCHANGED scope
     \/ scope' = ~scope /\ UNCHANGED vars /\ UNCHANGED stamp  \* main.c:450
  /\ UNCHANGED <<skin, ledger>>
  /\ IF screen \in Updating THEN Draw(cache) ELSE Kept

\* picopen_gui_refresh_workbench()
WorkbenchRefresh ==
  /\ \/ TaskEnds /\ ledger' = 1 - ledger
     \/ EvidenceEnds /\ UNCHANGED ledger
  /\ stamp' = 1 - stamp /\ UNCHANGED <<skin, scope>>
  /\ IF screen \in {"APPS", "RECON", "EVIDENCE"} THEN Draw(cache) ELSE Kept

Unseen == HostSeen /\ UNCHANGED picture

GlassNext ==
  \/ ChooseSkin \/ \E key \in Keys : PressKey(key)
  \/ OpenOrLeave \/ StateUpdate \/ WorkbenchRefresh \/ Unseen

glassVars == <<vars, picture>>
GlassSpec == GlassInit /\ [][GlassNext]_glassVars

-----------------------------------------------------------------------------
(* Properties *)

Leftover == screen # "TERMINAL" /\ \E r \in Rows : glass[r] = Terminal

\* What is skipped is already there: after every redraw the glass shows the
\* whole page of the screen in the current skin and nothing of another, unless
\* it shows something of a terminal that has been left (EscapeReturns;
\* gui.c:226-268, synthwave_renderer.c:131-146, crayon_renderer.c:175-210).
DrawnWhole ==
  [][(glass' # glass \/ cache' # cache) /\ screen' # "TERMINAL" =>
       Leftover' \/ glass' = Paint(Picture)']_glassVars

\* The row of the entry that Enter acts on
CursorRow ==
  CASE screen = "APPS" -> 3 + Min({selection, VisibleApps - 1})
    [] screen \in {"FILES", "SECURITY", "UPDATE", "HOSTS", "HOST_ACTIONS"} -> 3 + selection
    [] OTHER -> 2 + selection

Beyond ==
  CursorRow \notin Rows \/ (skin = Crayon /\ screen # "HOME" /\ CursorRow - 1 > Slots)
OpenedEmpty == screen = "HOSTS" /\ glass[3][2][2] # "host"
Unmarked == screen = "SHUTDOWN" /\ skin = Crayon

\* The row of the entry that Enter would act on is the one focused row, and shows
\* that entry, whatever has been listed, found or ended meanwhile.  Not so on
\* the evidence picker, which is no list here and is not redrawn when its
\* listing is replaced (gui.c:1118-1141), on a list of hosts that was opened
\* empty, on a page with more lines than fit, and on the crayon page of POWER,
\* which looks the same on CANCEL and on POWER OFF (gui.c:961-962,
\* crayon_renderer.c:94-96, 119).
FocusShown ==
  (screen \in Lists \cup {"SKINS", "SHUTDOWN"} /\ selection < Lines(screen)
     /\ ~Leftover /\ ~Beyond /\ ~OpenedEmpty /\ ~Unmarked) =>
  /\ {r \in Rows : glass[r][2][1]} = {CursorRow}
  /\ glass[CursorRow] = <<skin, Picture[CursorRow]>>

\* "Escape returns to System" (docs/GUI_BASELINE_TEST.md:22): a screen that is
\* not the terminal does not show it.
EscapeReturns == ~Leftover
=============================================================================
