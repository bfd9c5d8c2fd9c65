-------------------------------- MODULE Apps --------------------------------
(***************************************************************************)
(* The app catalog (services/apps/apps.c): the built-in apps, and after    *)
(* them the packages in the card's /PicoPen/apps.                          *)
(*                                                                         *)
(* The directory is listed once, when the GUI starts; a rescan of the card *)
(* does not list it again.  FatFs is built without long names              *)
(* (FF_USE_LFN 0) and lists a file under its 8.3 name.  Names are          *)
(* sequences of characters, for what is at stake is how they end.          *)
(***************************************************************************)
EXTENDS Naturals, Sequences, SequencesExt

CONSTANTS
  Files,     \* the files that can be in the directory: name and 8.3 name
  Builtins,  \* PICOPEN_APP_BUILTIN_COUNT
  Capacity,  \* PICOPEN_APP_CAPACITY
  MaxFiles   \* bound: the files in the directory

VARIABLES
  directory,  \* the files in the card's /PicoPen/apps, in order
  listed,     \* history: what the directory was when it was last listed
  packages,   \* the catalog's apps after the built-in ones, by 8.3 name
  truncated   \* catalog.truncated

vars == <<directory, listed, packages, truncated>>

Suffix == <<".", "p", "p", "a", "p", "p">>
Directories == UNION {[1 .. n -> Files] : n \in 0 .. MaxFiles}

\* manifest_name(): strcmp of the name's last eight characters with the suffix
ManifestName(name) == Len(name) > 8 /\ SubSeq(name, Len(name) - 7, Len(name)) = Suffix

\* picopen_apps_scan_sd(), of a directory that the card lists to its end
Scan(files) ==
  LET names == [i \in DOMAIN files |-> files[i].short]
      found == SelectSeq(names, ManifestName)
      room == Capacity - Builtins
  IN /\ packages' = SubSeq(found, 1, IF Len(found) < room THEN Len(found) ELSE room)
     /\ truncated' = (Len(found) > room)
     /\ listed' = files

\* Before the GUI starts
Init ==
  /\ directory \in Directories
  /\ listed = <<>> /\ packages = <<>> /\ truncated = FALSE

Start == Scan(directory) /\ UNCHANGED directory

\* Another card, identified by a rescan
Rescan ==
  /\ directory' \in Directories
  /\ UNCHANGED <<listed, packages, truncated>>

Next == Start \/ Rescan
Spec == Init /\ [][Next]_vars

\* APPS_OWNER_MODE_TEST.md:33-34, "place a harmless file ending in .ppapp
\* there. Reboot or rescan and confirm it appears with SD": once the directory
\* has been listed the catalog has every such file, or says that it has no room.
PackagesAppear ==
  \/ truncated
  \/ \A i \in DOMAIN listed :
       IsSuffix(Suffix, listed[i].name) => Contains(packages, listed[i].short)
=============================================================================
