----------------------------- MODULE InternalFs ------------------------------
(***************************************************************************)
(* services/settings/internal_fs.c: the files in the internal flash.  A    *)
(* call is a job of one or more littlefs operations; power may be cut      *)
(* before each of them, which only the flash survives.  littlefs itself is *)
(* taken at its word: each operation of its interface happens or fails.    *)
(***************************************************************************)
CONSTANTS Paths,        \* the names that are used
          Absent,       \* no such file
          Partial       \* a file that was opened but not written whole

ASSUME FsAssumption == Absent \notin Paths

VARIABLES flash,        \* [formatted, files, temporary]; of the temporary, whether
                        \* it is "absent", "partial" or "whole", with the job's content
          mounted,      \* state: "ready", "uninitialized", "corrupt"
          job           \* the call under way: [call, path, content, step]

fsVars == <<flash, mounted, job>>

NoJob == [call |-> "none", path |-> Absent, content |-> Absent, step |-> "none"]

Idle == job = NoJob

Blank == [p \in Paths |-> Absent]

\* picopen_internal_fs_init: what mounting can say of a flash.
Mounting(f) == IF f.formatted THEN {"ready"} ELSE {"uninitialized", "corrupt"}

\* picopen_internal_fs_read: the file's content, Absent when it cannot be read.
Reading(p) == IF mounted = "ready" THEN flash.files[p] ELSE Absent

----------------------------------------------------------------------------
(* Calls: a caller starts one in its own action; the steps below run it. *)

Call(name, p, c, step) ==
    job' = [call |-> name, path |-> p, content |-> c,
            step |-> IF mounted = "ready" THEN step ELSE "failed"]

Replace(p, c) == Call("replace", p, c, "open")

Remove(p) == Call("remove", p, Absent, "remove")

\* Only what is not mounted may be formatted.
Format == job' = [NoJob EXCEPT !.call = "format",
                               !.step = IF mounted = "ready" THEN "failed" ELSE "format"]

Goes(step) == job' = [job EXCEPT !.step = step]

Fails == Goes("failed") /\ UNCHANGED mounted

\* Mutant: the file itself is opened and cut to nothing.
OpensInPlace ==
    /\ job.step = "open"
    /\ Goes("write")
    /\ flash' = [flash EXCEPT !.temporary = "partial", !.files[job.path] = Partial]
    /\ UNCHANGED mounted

Opens ==
    /\ job.step = "open"
    /\ \/ Fails /\ UNCHANGED flash
       \/ /\ Goes("write")
          /\ flash' = [flash EXCEPT !.temporary = "partial"]
          /\ UNCHANGED mounted

\* Write, sync and close; the temporary is removed if one of them fails.
Writes ==
    /\ job.step = "write"
    /\ \/ /\ Fails
          /\ \E left \in {"absent", "partial"} : flash' = [flash EXCEPT !.temporary = left]
       \/ /\ Goes("rename")
          /\ flash' = [flash EXCEPT !.temporary = "whole"]
          /\ UNCHANGED mounted

Renames ==
    /\ job.step = "rename"
    /\ \/ Fails /\ UNCHANGED flash
       \/ /\ Goes("done")
          /\ flash' = [flash EXCEPT !.files[job.path] =
                                      IF flash.temporary = "whole" THEN job.content ELSE Partial,
                                    !.temporary = "absent"]
          /\ UNCHANGED mounted

Removes ==
    /\ job.step = "remove"
    /\ \/ Fails /\ UNCHANGED flash
       \/ /\ Goes("done")
          /\ flash' = [flash EXCEPT !.files[job.path] = Absent]
          /\ UNCHANGED mounted

Formats ==
    /\ job.step = "format"
    /\ \/ Goes("failed") /\ mounted' = "corrupt" /\ UNCHANGED flash
       \/ /\ Goes("mount")
          /\ flash' = [formatted |-> TRUE, files |-> Blank, temporary |-> "absent"]
          /\ UNCHANGED mounted

Mounts ==
    /\ job.step = "mount"
    /\ \/ Goes("failed") /\ mounted' = "corrupt"
       \/ Goes("done") /\ mounted' = "ready"
    /\ UNCHANGED flash

FsStep == Opens \/ Writes \/ Renames \/ Removes \/ Formats \/ Mounts
=============================================================================
