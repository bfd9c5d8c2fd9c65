-------------------------------- MODULE Shell --------------------------------
(***************************************************************************)
(* The terminal screen: its shell (services/shell/shell.c) on the terminal,*)
(* entered from the system menu and left by Escape (services/gui/gui.c),   *)
(* the request that powers the device off (drivers/keyboard/keyboard.c),   *)
(* and the file that "cat" reads with a storage service of its own         *)
(* (services/storage/storage.c).                                           *)
(*                                                                         *)
(* A command is a short line of its own; what a command prints is any of   *)
(* Outputs.  The shell's copy of the state (shell_state) is abstracted to  *)
(* what the commands ask of it: whether the card is ready.                 *)
(***************************************************************************)
EXTENDS Terminal, Capability

CONSTANTS
  CommandSize,  \* SHELL_COMMAND_SIZE, the terminating zero included
  Commands,     \* the line of "shutdown", of its "confirm" and "cancel", of "cat"
  Outputs,      \* bound: the texts that commands print
  Welcome,      \* what stands above the first prompt
  Limit         \* the 15 s of a request to shut down, in ticks

Verbs == {"shutdown", "confirm", "cancel", "cat"}
Printables == Letters \union {Space}

\* The prompt and a full command leave a column free; no two commands are alike.
ASSUME ShellAssumption ==
  /\ CommandSize \in Nat \ {0} /\ CommandSize + 1 < Columns
  /\ ">" \in Letters /\ Limit \in Nat
  /\ Commands \in [Verbs -> Seq(Printables)]
  /\ \A v, w \in Verbs : Commands[v] = Commands[w] => v = w
  /\ Outputs \subseteq Seq(Characters)
  /\ Welcome \in Seq(Characters) \ {<<>>} /\ Welcome[Len(Welcome)] = "newline"

VARIABLES
  open,     \* screen = GUI_TERMINAL
  command,  \* command, up to command_length
  pending,  \* shutdown_pending
  timeLeft, \* the ticks to shutdown_deadline_ms, -1 when it is over
  cardRead, \* shell_state.storage_ready
  compat,   \* compatibility_service: not yet initialized, ready or in error
  powerOff, \* the controller has been told to cut the power
  asked     \* history: the ticks since Enter on a line that shows "shutdown",
            \* or Never; lines that show "cancel" or "confirm", and leaving, undo it

shellVars == <<open, command, pending, timeLeft, cardRead, compat, powerOff, asked>>

Prompt == <<">", Space>>
Never == Limit + 1

ShellTypeOK ==
  /\ open \in BOOLEAN /\ pending \in BOOLEAN /\ cardRead \in BOOLEAN /\ powerOff \in BOOLEAN
  /\ command \in UNION {[1 .. n -> Printables] : n \in 0 .. CommandSize - 1}
  /\ timeLeft \in -1 .. Limit /\ asked \in 0 .. Never
  /\ compat \in {"unset", "ready", "error"}
  /\ term.cursor \in Places /\ bars \subseteq Places

ShellInit ==
  /\ term = Cleared
  /\ glass = [p \in Places |-> OtherScreen] /\ bars = {}
  /\ open = FALSE /\ command = <<>> /\ pending = FALSE /\ timeLeft = -1
  /\ cardRead \in BOOLEAN /\ compat = "unset"
  /\ powerOff = FALSE /\ asked = Never

-----------------------------------------------------------------------------
(* Opening and leaving *)

\* Mutant: a request survives the screen that it was made on.
OpenPending ==
  /\ ~open /\ open' = TRUE
  /\ Render(Written(Cleared, Welcome \o Prompt))
  /\ command' = <<>>
  /\ UNCHANGED <<pending, timeLeft, cardRead, compat, powerOff, asked>>

\* open_system_item and picopen_shell_init
Open ==
  /\ ~open /\ open' = TRUE
  /\ Render(Written(Cleared, Welcome \o Prompt))
  /\ command' = <<>> /\ pending' = FALSE /\ timeLeft' = -1
  /\ UNCHANGED <<cardRead, compat, powerOff, asked>>

\* Escape: other screens draw where they like.
Leave ==
  /\ open /\ open' = FALSE
  /\ glass' = [p \in Places |-> OtherScreen] /\ bars' = {}
  /\ asked' = Never
  /\ UNCHANGED <<term, command, pending, timeLeft, cardRead, compat, powerOff>>

-----------------------------------------------------------------------------
(* Keys: picopen_shell_handle_key *)

\* Mutant: the last byte, kept for the zero, is typed into, and further.
TypePast(key) ==
  /\ open /\ Len(command) < CommandSize + 1
  /\ command' = Append(command, key)
  /\ Render(Written(term, <<key>>))
  /\ UNCHANGED <<open, pending, timeLeft, cardRead, compat, powerOff, asked>>

Type(key) ==
  /\ open /\ Len(command) < CommandSize - 1
  /\ command' = Append(command, key)
  /\ Render(Written(term, <<key>>))
  /\ UNCHANGED <<open, pending, timeLeft, cardRead, compat, powerOff, asked>>

Backspace ==
  /\ open /\ command # <<>>
  /\ command' = SubSeq(command, 1, Len(command) - 1)
  /\ Render(Written(term, <<"backspace">>))
  /\ UNCHANGED <<open, pending, timeLeft, cardRead, compat, powerOff, asked>>

\* What execute() prints around the text of a command
Prints(text) ==
  /\ Render(Written(term, <<"newline">> \o text \o <<"newline">> \o Prompt))
  /\ command' = <<>>

\* Enter, by what the glass shows
Entered ==
  asked' = CASE LineAtBar = Prompt \o Commands["shutdown"] -> 0
             [] LineAtBar \in {Prompt \o Commands["cancel"], Prompt \o Commands["confirm"]} -> Never
             [] OTHER -> asked

Is(verb) == open /\ command = Commands[verb]

Shutdown ==
  /\ Is("shutdown") /\ Entered
  /\ pending' = TRUE /\ timeLeft' = Limit
  /\ \E text \in Outputs : Prints(text)
  /\ UNCHANGED <<open, cardRead, compat, powerOff>>

Cancel ==
  /\ Is("cancel") /\ Entered
  /\ pending' = FALSE
  /\ \E text \in Outputs : Prints(text)
  /\ UNCHANGED <<open, timeLeft, cardRead, compat, powerOff>>

Authorized ==
  pending /\ timeLeft >= 0 /\ Authorize(ShellGrants, FALSE, "system.shutdown", TRUE)

\* picopen_keyboard_request_shutdown: the write may fail; when the answer to it
\* is lost the shell reports an error, but the power goes.
Confirm ==
  /\ Is("confirm") /\ Entered
  /\ pending' = FALSE
  /\ powerOff' \in {powerOff, powerOff \/ Authorized}
  /\ \E text \in Outputs : Prints(text)
  /\ UNCHANGED <<open, timeLeft, cardRead, compat>>

\* compatibility() makes its service ready once; one in error stays so.
Compatibility == IF compat = "unset" THEN "ready" ELSE compat

\* picopen_storage_read_root_file: a name with a separator is refused at once,
\* and a service in error is not asked to look at the card again.
ReadRootFile ==
  \/ UNCHANGED compat
  \/ Compatibility = "ready" /\ compat' \in {"ready", "error"}

\* show_file
Cat ==
  /\ Is("cat") /\ Entered
  /\ IF cardRead THEN ReadRootFile ELSE UNCHANGED compat
  /\ \E text \in Outputs : Prints(text)
  /\ UNCHANGED <<open, pending, timeLeft, cardRead, powerOff>>

\* Any other line, the empty one included
OtherCommand ==
  /\ open /\ \A verb \in Verbs : ~Is(verb)
  /\ Entered
  /\ \E text \in Outputs : Prints(text)
  /\ UNCHANGED <<open, pending, timeLeft, cardRead, compat, powerOff>>

-----------------------------------------------------------------------------
(* The rest of the system *)

\* picopen_shell_update_state, which draws nothing while the terminal is open
UpdateState ==
  /\ cardRead' \in BOOLEAN
  /\ UNCHANGED <<terminalVars, open, command, pending, timeLeft, compat, powerOff, asked>>

ShutdownTick ==
  /\ timeLeft >= 0 \/ asked < Never
  /\ timeLeft' = IF timeLeft >= 0 THEN timeLeft - 1 ELSE timeLeft
  /\ asked' = IF asked < Never THEN asked + 1 ELSE asked
  /\ UNCHANGED <<terminalVars, open, command, pending, cardRead, compat, powerOff>>

ShellNext ==
  \/ Open \/ Leave
  \/ \E key \in Printables : Type(key)
  \/ Backspace \/ Shutdown \/ Cancel \/ Confirm \/ Cat \/ OtherCommand
  \/ UpdateState \/ ShutdownTick

ShellSpec == ShellInit /\ [][ShellNext]_<<terminalVars, shellVars>>

-----------------------------------------------------------------------------
(* Properties *)

\* While the terminal is open its glass shows each cell as it is, and one bar,
\* at the cursor, over scrolling, wrapped words and erased characters
\* (terminal.c:221-241), also after other screens have drawn over it
\* (gui.c:1040-1047).
GlassIsTerminal == open => glass = term.cells /\ bars = {term.cursor}

\* What Enter will execute is what stands between the prompt and the bar: no
\* row ends under a command, and Backspace erases what was typed (shell.c:203-224).
LineShown == open => LineAtBar = Prompt \o command

\* The power goes only at Enter on a line that shows the confirmation, at most
\* 15 s after Enter on a line that showed the request, with no line between them
\* that cancels or confirms, and the screen not left (shell.c:140-164).
PowerOffAsked ==
  [][powerOff' # powerOff => LineAtBar = Prompt \o Commands["confirm"] /\ asked <= Limit]_<<terminalVars, shellVars>>
=============================================================================
