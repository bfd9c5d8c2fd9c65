------------------------------- MODULE MCGui --------------------------------
(* Instances of Gui and Glass for TLC.  A behaviour is of the screens alone, *)
(* with tours through the network tasks, through the files and the apps, and *)
(* through the system's menus, or of the screens with the glass, on smaller  *)
(* tours.                                                                    *)
EXTENDS Glass

VARIABLE part

TaskTour ==
  [visited |-> {"APPS", "HOSTS", "RECON_HISTORY", "APP_CONFIG"},
   filters |-> {}, liked |-> {}, saved |-> {0}, hosts |-> 2, entries |-> 0]
FileTour ==
  [visited |-> {"FILES", "APPS", "APP_INFO", "APP_DEVICES", "EVIDENCE_PICKER"},
   filters |-> {"all", "favorites", "system"}, liked |-> {1, 6, 9},
   saved |-> {0, 8}, hosts |-> 0, entries |-> 2]
MenuTour ==
  [visited |-> {"STATUS", "DEVICES", "AUDIT", "SYSTEM"} \cup Range(SystemItems),
   filters |-> {}, liked |-> {}, saved |-> {0, 3, 6}, hosts |-> 0, entries |-> 0]
ScreenTours == {TaskTour, FileTour, MenuTour}

HostTour == [TaskTour EXCEPT !.visited = {"APPS", "HOSTS"},
                             !.filters = {"favorites"}, !.liked = {2}, !.hosts = 1]
\* The results, which the task before them may have added to
ResultTour == [HostTour EXCEPT !.visited = {"APPS", "APP_CONFIG", "RECON_HISTORY"},
                               !.liked = {3, 8}, !.hosts = 0]
ListTour == [FileTour EXCEPT !.visited = {"FILES", "APPS", "EVIDENCE_PICKER"},
                             !.filters = {"all", "favorites"}, !.liked = {1}, !.saved = {0}]
LongTour == [ListTour EXCEPT !.visited = {"FILES"}, !.entries = 7]
DrawTour == [MenuTour EXCEPT !.saved = {0}, !.visited = @ \ {"UPDATE"}]
WifiTour == [DrawTour EXCEPT !.visited = {"SYSTEM", "UPDATE"}]
\* One skin of each renderer, all four where one is chosen
GlassTours == {HostTour, ResultTour, ListTour, LongTour, DrawTour, WifiTour}
StartSkins(t) ==
  CASE t = ListTour -> {Synthwave, Crayon}
    [] t \in {HostTour, ResultTour, LongTour} -> {Crayon}
    [] t = DrawTour -> {Synthwave}
    [] OTHER -> {"MINIMAL DARK"}
AllTours == ScreenTours \cup GlassTours

\* Where the glass takes no part it shows a terminal that was left, of which
\* the properties of the glass say nothing.
NoPicture == skin = Synthwave /\ scope = FALSE /\ stamp = 0 /\ ledger = 0
               /\ glass = [r \in Rows |-> Terminal] /\ cache = <<>>

MCInit ==
  \/ part = "screens" /\ Init /\ tour \in ScreenTours /\ NoPicture
  \/ /\ part = "glass" /\ GlassInit /\ tour \in GlassTours /\ skin \in StartSkins(tour)
     /\ tour \in {HostTour, ResultTour} => filter = "favorites" /\ favorites = Liked
MCNext == /\ part' = part
          /\ \/ part = "screens" /\ Next /\ UNCHANGED picture
             \/ part = "glass" /\ GlassNext
mcVars == <<part, glassVars>>
Alone(A) == part = "screens" /\ A /\ UNCHANGED <<part, picture>>

MCSpec == /\ MCInit /\ [][MCNext]_mcVars
          /\ WF_mcVars(Alone(TakeRequest)) /\ WF_mcVars(Alone(leaving /\ Escape))

EscapeReturnsOnGlass == part = "glass" => EscapeReturns
=============================================================================
