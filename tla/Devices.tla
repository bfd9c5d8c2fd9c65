------------------------------- MODULE Devices --------------------------------
(***************************************************************************)
(* The board controller, with keyboard and battery, behind its I2C driver  *)
(* (drivers/keyboard/keyboard.c); what main() knows of it, shows of it and *)
(* acts on (os/src/main.c); and the table of devices                       *)
(* (services/device/device.c).                                             *)
(*                                                                         *)
(* A register is asked by one write and answered by one read.  Answers do  *)
(* not say what they answer except by their first byte, and a controller   *)
(* that is late answers what it was asked before.  What losing and finding *)
(* the controller does to the card is in Media, what keys do in Gui.       *)
(***************************************************************************)
EXTENDS Integers

CONSTANTS
  Rates,        \* the number of probe_bauds
  GoodRates,    \* those at which the controller answers
  KeyCodes,     \* nonzero codes of keys
  Navigation,   \* those of the four arrows
  MaxReading,   \* bound: the readings of a battery, 100 % charging the greatest
  ReadyTries,   \* bound: the probes that fit in PICOPEN_CONTROLLER_READY_MS
  HealthTurns,  \* bound: the turns of the loop in PICOPEN_DEVICE_HEALTH_MS
  PressWait,    \* the 300 ms after a key pressed, in turns
  HoldWait      \* the 140 ms after a key held

ASSUME DevicesAssumption ==
  /\ Rates \in Nat \ {0} /\ GoodRates \subseteq 1 .. Rates /\ GoodRates # {}
  /\ KeyCodes \subseteq Nat \ {0} /\ Navigation \subseteq KeyCodes
  /\ MaxReading \in Nat /\ ReadyTries \in Nat \ {0} /\ HealthTurns \in Nat
  /\ PressWait \in Nat /\ HoldWait \in Nat

VARIABLES
  controller,  \* answers what it is asked, late, or not at all
  radio,       \* wifi_status.state, by what it means for the table
  initialized, \* of the driver
  rate,        \* index of the baud rate of the bus
  loop,        \* where main() is
  starting,    \* the main loop is not reached yet
  probesLeft,       \* probes left until the deadline of the start
  known,       \* keyboard_ready, battery_ready and battery_info of main()
  stateChanged,     \* state_changed
  lastRadio,   \* last_wifi_state, as radio
  told,        \* shell_state and the copies that shell and GUI have of it
  table,       \* shell_state.devices
  healthIn,    \* the turns to next_device_health_ms
  repeatIn,    \* the turns to next_key_repeat_ms
  acted,       \* history: the register whose answer the last key came from
  measured     \* history: ... the battery's reading came from

outside == <<controller, radio>>
driver == <<initialized, rate>>
start == <<starting, probesLeft>>
mainVars == <<known, stateChanged, lastRadio>>
view == <<told, table>>
waits == <<healthIn, repeatIn>>
origins == <<acted, measured>>
devicesVars == <<outside, driver, loop, start, mainVars, view, waits, origins>>

Pressed == 1
Held == 2
Released == 3
BatteryTag == 11  \* KEYBOARD_REGISTER_BATTERY

-----------------------------------------------------------------------------
(* The controller *)

Answer(register, first, second) == [of |-> register, first |-> first, second |-> second]
NoAnswer == Answer("nothing", 0, 0)

Answers ==
  [version |-> {Answer("version", 0, 1)},
   fifo |-> {Answer("fifo", 0, 0)} \union
            {Answer("fifo", state, key) :
               state \in Pressed .. Released, key \in KeyCodes},
   battery |-> {Answer("battery", BatteryTag, r) : r \in 0 .. MaxReading + 1}]

Registers == {"version", "fifo", "battery"}

\* read_register: either transfer may fail, and the bytes be of an earlier question.
ReadRegister(register) ==
  CASE controller = "gone" \/ rate \notin GoodRates -> {NoAnswer}
    [] controller = "steady" /\ rate \in GoodRates -> Answers[register]
    [] OTHER -> {NoAnswer} \union UNION {Answers[r] : r \in Registers}

ControllerChanges ==
  /\ controller' \in {"steady", "late", "gone"}
  /\ UNCHANGED <<radio, driver, loop, start, mainVars, view, waits, origins>>

\* picopen_wifi_poll, and the keys of the Wi-Fi screen
RadioChanges ==
  /\ radio' \in {"off", "error", "on"}
  /\ UNCHANGED <<controller, driver, loop, start, mainVars, view, waits, origins>>

-----------------------------------------------------------------------------
(* The driver's reading of answers *)

\* picopen_keyboard_init and picopen_keyboard_health_check
IsVersion(answer) == answer # NoAnswer /\ answer.first = 0 /\ answer.second # 0

\* picopen_keyboard_poll
IsEvent(answer) ==
  /\ answer # NoAnswer /\ answer.first <= Released
  /\ ~(answer.first = 0 /\ answer.second = 0)

\* picopen_keyboard_read_battery
IsReading(answer) ==
  answer # NoAnswer /\ answer.first = BatteryTag /\ answer.second <= MaxReading

-----------------------------------------------------------------------------
(* The table *)

UpOrDown(is) == IF is THEN "READY" ELSE "DOWN"
RadioState(of) ==
  CASE of = "on" -> "READY-LOCAL" [] of = "off" -> "DISABLED" [] OTHER -> "DOWN"

\* picopen_device_set_state, of one that is registered
SetState(devices, name, state) == [devices EXCEPT ![name] = state]

\* synchronize_device_states
Synchronized(devices, what) ==
  SetState(SetState(devices, "KEYBOARD", UpOrDown(what.keyboard)),
           "BATTERY", UpOrDown(what.battery))

\* main() registers each device once: nine, of the twelve that there is room for.
Registered(what) ==
  [name \in {"KEYBOARD", "BATTERY", "WIFI"} |->
     CASE name = "KEYBOARD" -> UpOrDown(what.keyboard)
       [] name = "BATTERY" -> UpOrDown(what.battery)
       [] name = "WIFI" -> "DISABLED"]

\* picopen_shell_update_state and picopen_gui_update_state
Tell(what) == told' = what /\ table' = Synchronized(table, what)

-----------------------------------------------------------------------------
(* The start *)

NothingKnown == [keyboard |-> FALSE, battery |-> FALSE, reading |-> 0]

DevicesInit ==
  /\ controller \in {"steady", "late", "gone"} /\ radio = "off"
  /\ initialized = FALSE /\ rate = 1
  /\ loop = "probe" /\ starting = TRUE /\ probesLeft = ReadyTries
  /\ known = NothingKnown /\ stateChanged = FALSE /\ lastRadio = "off"
  /\ told = NothingKnown /\ table = Registered(NothingKnown)
  /\ healthIn = HealthTurns /\ repeatIn = 0
  /\ acted = "fifo" /\ measured = "battery"

\* picopen_shell_init, picopen_gui_init and the loop
Enter(what) ==
  /\ loop' = "keys" /\ starting' = FALSE /\ healthIn' = HealthTurns
  /\ told' = what /\ table' = Registered(what)

\* picopen_keyboard_init, a rate at a time
Probe ==
  /\ loop = "probe"
  /\ \E answer \in ReadRegister("version") :
       \/ /\ IsVersion(answer)
          /\ initialized' = TRUE /\ loop' = "battery"
          /\ known' = [known EXCEPT !.keyboard = TRUE] /\ stateChanged' = TRUE
          /\ UNCHANGED rate
       \/ /\ ~IsVersion(answer) /\ rate < Rates
          /\ rate' = rate + 1
          /\ UNCHANGED <<initialized, loop, known, stateChanged>>
       \/ /\ ~IsVersion(answer) /\ rate = Rates
          /\ initialized' = FALSE /\ loop' = "unfound"
          /\ UNCHANGED <<rate, known, stateChanged>>
  /\ UNCHANGED <<outside, start, lastRadio, view, waits, origins>>

\* initialize_keyboard_bounded: until the deadline all rates are tried again.
Retry ==
  /\ loop = "unfound" /\ starting /\ probesLeft > 1
  /\ probesLeft' = probesLeft - 1 /\ loop' = "probe" /\ rate' = 1
  /\ UNCHANGED <<outside, initialized, starting, mainVars, view, waits, origins>>

\* The deadline has passed.
StartWithout ==
  /\ loop = "unfound" /\ starting
  /\ Enter(known)
  /\ UNCHANGED <<outside, driver, probesLeft, mainVars, repeatIn, origins>>

-----------------------------------------------------------------------------
(* The loop *)

\* A key is acted upon when it is pressed, and again while an arrow is held.
Acts(answer) ==
  /\ IsEvent(answer)
  /\ \/ answer.first = Pressed
     \/ answer.first = Held /\ answer.second \in Navigation /\ repeatIn = 0

PollKeys ==
  /\ loop = "keys"
  /\ \E answer \in (IF known.keyboard /\ initialized
                    THEN ReadRegister("fifo") ELSE {NoAnswer}) :
       IF Acts(answer)
       THEN /\ acted' = answer.of
            /\ repeatIn' = IF answer.first = Pressed THEN PressWait ELSE HoldWait
       ELSE UNCHANGED <<acted, repeatIn>>
  /\ loop' = "radio"
  /\ UNCHANGED <<outside, driver, start, mainVars, view, healthIn, measured>>

WatchRadio ==
  /\ loop = "radio"
  /\ lastRadio' = radio
  /\ table' = IF radio = lastRadio THEN table
            ELSE SetState(table, "WIFI", RadioState(radio))
  /\ loop' = "health"
  /\ UNCHANGED <<outside, driver, start, known, stateChanged, told, waits, origins>>

Sooner(turns) == IF turns > 0 THEN turns - 1 ELSE 0

\* Nothing to look at yet
Turns ==
  /\ loop = "health" /\ healthIn > 0
  /\ loop' = "keys" /\ healthIn' = healthIn - 1
  /\ repeatIn' = Sooner(repeatIn)
  /\ UNCHANGED <<outside, driver, start, mainVars, view, origins>>

NextHealth ==
  /\ loop' = "keys" /\ healthIn' = HealthTurns
  /\ repeatIn' = Sooner(repeatIn)

\* picopen_keyboard_health_check; that it passes, the battery's reading follows.
Check ==
  /\ loop = "health" /\ healthIn = 0 /\ known.keyboard
  /\ \E answer \in (IF initialized THEN ReadRegister("version") ELSE {NoAnswer}) :
       IF IsVersion(answer)
       THEN /\ loop' = "battery" /\ stateChanged' = FALSE
            /\ UNCHANGED <<initialized, known, view, waits>>
       ELSE /\ initialized' = FALSE
            /\ known' = [known EXCEPT !.keyboard = FALSE, !.battery = FALSE]
            /\ Tell(known') /\ NextHealth
            /\ UNCHANGED stateChanged
  /\ UNCHANGED <<outside, rate, start, lastRadio, origins>>

\* Mutant: the rates are tried from where the last search ended.
SearchOnward ==
  /\ loop = "health" /\ healthIn = 0 /\ ~known.keyboard
  /\ loop' = "probe"
  /\ UNCHANGED <<outside, driver, start, mainVars, view, waits, origins>>

\* A controller that is lost is probed once in each period.
Search ==
  /\ loop = "health" /\ healthIn = 0 /\ ~known.keyboard
  /\ loop' = "probe" /\ rate' = 1
  /\ UNCHANGED <<outside, initialized, start, mainVars, view, waits, origins>>

NotFound ==
  /\ loop = "unfound" /\ ~starting
  /\ NextHealth
  /\ UNCHANGED <<outside, driver, start, mainVars, view, origins>>

\* picopen_keyboard_read_battery: what cannot be read keeps its last reading.
Measured(answer) ==
  IF IsReading(answer)
  THEN [known EXCEPT !.battery = TRUE, !.reading = answer.second]
  ELSE [known EXCEPT !.battery = FALSE]

\* Mutant: only a reading that differs is told.
DiffersInReading(what) == what.battery /\ what.reading # known.reading

\* state_changed of a battery that is read again
Differs(what) ==
  what.battery # known.battery \/ (what.battery /\ what.reading # known.reading)

ReadBattery ==
  /\ loop = "battery"
  /\ \E answer \in (IF initialized THEN ReadRegister("battery") ELSE {NoAnswer}) :
       /\ known' = Measured(answer)
       /\ measured' = IF IsReading(answer) THEN answer.of ELSE measured
       /\ IF starting THEN Enter(known') /\ UNCHANGED repeatIn
          ELSE /\ NextHealth /\ UNCHANGED starting
               /\ IF stateChanged \/ Differs(known') THEN Tell(known')
                  ELSE UNCHANGED view
  /\ UNCHANGED <<outside, driver, probesLeft, stateChanged, lastRadio, acted>>

MainStep ==
  \/ Probe \/ Retry \/ StartWithout \/ PollKeys \/ WatchRadio \/ Turns
  \/ Check \/ Search \/ NotFound \/ ReadBattery

DevicesNext == MainStep \/ ControllerChanges \/ RadioChanges

\* main() goes on whatever the controller does: each transfer has a time limit.
DevicesSpec == DevicesInit /\ [][DevicesNext]_devicesVars /\ WF_devicesVars(MainStep)

-----------------------------------------------------------------------------
(* Properties *)

\* At the head of the loop what GUI, shell and the table of devices say is what
\* main() knows and the driver agrees with, over a controller lost, found and
\* late (os/src/main.c:495-547, keyboard.c:134-145); and an answer is taken for
\* a key or a reading of the battery only when it is one, although it may be
\* that to another question (keyboard.c:117-164).
ControllerTold ==
  /\ loop = "keys" =>
       /\ told = known /\ known.keyboard = initialized
       /\ known.battery => known.keyboard
       /\ table["KEYBOARD"] = UpOrDown(known.keyboard)
       /\ table["BATTERY"] = UpOrDown(known.battery)
       /\ table["WIFI"] = RadioState(lastRadio)
  /\ acted = "fifo" /\ measured = "battery"

\* Once it answers for good the controller is found, in whatever state main()
\* and driver are then, and once it is gone for good everybody is told so
\* ("Confirm the five-second runtime health cycle can recover keyboard, battery",
\* docs/STANDALONE_BOOT_TEST.md:22-23).
ControllerFollowed ==
  /\ <>[](controller = "steady") => <>[](told.keyboard /\ table["KEYBOARD"] = "READY")
  /\ <>[](controller = "gone") => <>[](~told.keyboard /\ ~told.battery)
=============================================================================
