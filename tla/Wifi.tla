-------------------------------- MODULE Wifi ---------------------------------
(***************************************************************************)
(* services/network/wifi.c with the keys of the Wi-Fi screen that reach it *)
(* (services/gui/gui.c) and the main loop's poll.  The driver runs in      *)
(* cyw43_arch_poll() only: what it does between two keys, events, comes    *)
(* before the service looks at it.  Deadlines are the ticks left to them.  *)
(***************************************************************************)
EXTENDS Naturals, Sequences

CONSTANTS
  Networks,    \* the names that a scan finds
  ApCapacity,  \* PICOPEN_WIFI_AP_CAPACITY
  WaitTime     \* the 15 s of a connection, and those of an address, in ticks

ASSUME WifiAssumption == ApCapacity \in Nat \ {0} /\ WaitTime \in Nat \ {0}

VARIABLES
  state,        \* current.state
  initialized,  \* driver_initialized
  aps,          \* current.aps, ap_count
  bound,        \* current.dhcp_bound, with the addresses that are shown
  connectLeft,  \* the ticks to connect_deadline_ms
  dhcp,         \* dhcp_deadline_ms: [set, left]
  driver,       \* [scanning, joining, link, address]
  selected,     \* wifi_ap_selection
  ssid,         \* wifi_ssid
  known,        \* last_wifi_state, from which the device's state was set
  turn          \* whose turn of the main loop it is: "key", "poll"

service == <<state, initialized, aps, bound, connectLeft, dhcp>>
screenVars == <<selected, ssid>>
wifiVars == <<service, driver, screenVars, known, turn>>

\* The values of cyw43_wifi_link_status(), as far as the poll tells them apart:
\* JOIN and UP; BADAUTH, FAIL and NONET; DOWN and NOIP.
Links == {"joined", "refused", "down"}

Quiet == [scanning |-> FALSE, joining |-> FALSE, link |-> "down", address |-> FALSE]
Unset == [set |-> FALSE, left |-> 0]

WifiInit ==
    /\ state = "OFF" /\ initialized = FALSE
    /\ aps = <<>> /\ bound = FALSE
    /\ connectLeft = 0 /\ dhcp = Unset
    /\ driver = Quiet
    /\ selected = 0 /\ ssid \in Networks
    /\ known = "OFF" /\ turn = "key"

\* render_update: an index beyond the list is put back to its first entry.
Drawn(index, list) == IF Len(list) > 0 /\ index >= Len(list) THEN 0 ELSE index

Redraws == selected' = Drawn(selected, aps')

----------------------------------------------------------------------------
(* Keys.  Each is the key of one turn, and redraws the screen. *)

Key == turn = "key" /\ turn' = "poll" /\ UNCHANGED known

NoKey == Key /\ UNCHANGED <<service, driver, screenVars>>

TypeName(n) ==
    /\ Key /\ ssid' = n
    /\ UNCHANGED <<service, driver>>
    /\ Redraws

\* POWER ENABLE, if the capability policy allows it: picopen_wifi_enable.
Enable ==
    /\ Key /\ state = "OFF" /\ ~initialized
    /\ \/ /\ state' = "READY" /\ initialized' = TRUE
          /\ driver' = Quiet
       \/ /\ state' = "ERROR" /\ UNCHANGED <<initialized, driver>>
    /\ UNCHANGED <<aps, bound, connectLeft, dhcp, ssid>>
    /\ Redraws

\* Mutant: the driver is forgotten to be down.
DisableStillUp ==
    /\ Key /\ state # "OFF"
    /\ state' = "OFF" /\ UNCHANGED initialized
    /\ bound' = FALSE
    /\ driver' = Quiet
    /\ UNCHANGED <<aps, connectLeft, dhcp, ssid>>
    /\ Redraws

\* POWER DISABLE: picopen_wifi_disable.
Disable ==
    /\ Key /\ state # "OFF"
    /\ state' = "OFF" /\ initialized' = FALSE
    /\ bound' = FALSE
    /\ driver' = Quiet
    /\ UNCHANGED <<aps, connectLeft, dhcp, ssid>>
    /\ Redraws

\* PASSIVE SCAN: picopen_wifi_scan_passive; the driver may refuse.
Scan ==
    /\ Key /\ initialized /\ state = "READY"
    /\ aps' = <<>>
    /\ \/ state' = "SCANNING" /\ driver' = [driver EXCEPT !.scanning = TRUE]
       \/ UNCHANGED <<state, driver>>
    /\ UNCHANGED <<initialized, bound, connectLeft, dhcp, ssid>>
    /\ Redraws

\* CONNECT, with a password: picopen_wifi_connect; the driver may refuse.
Connect ==
    /\ Key /\ initialized /\ state = "READY"
    /\ state' = "CONNECTING"
    /\ connectLeft' = WaitTime /\ dhcp' = Unset
    /\ driver' = [driver EXCEPT !.joining = TRUE]
    /\ UNCHANGED <<initialized, aps, bound, ssid>>
    /\ Redraws

\* cyw43_wifi_leave, which may fail.
Leaving == {driver, [driver EXCEPT !.joining = FALSE, !.link = "down"]}

\* DISCONNECT or CANCEL: picopen_wifi_disconnect.
Disconnect ==
    /\ Key /\ initialized /\ state \in {"CONNECTING", "CONNECTED"}
    /\ state' = "READY" /\ bound' = FALSE
    /\ driver' \in Leaving
    /\ UNCHANGED <<initialized, aps, connectLeft, dhcp, ssid>>
    /\ Redraws

\* LEFT and RIGHT on the name: the next network that was found.
Left == IF selected = 0 THEN Len(aps) - 1 ELSE selected - 1
\* Mutant: it does not wrap.
RightOn == selected + 1
Right == (selected + 1) % Len(aps)

Cycle(index) ==
    /\ selected' = Drawn(index, aps)
    /\ ssid' = IF index < Len(aps) THEN aps[index + 1] ELSE ssid
    /\ UNCHANGED <<service, driver>>

Cycles == Key /\ aps # <<>> /\ (Cycle(Left) \/ Cycle(Right))

----------------------------------------------------------------------------
(* The poll. *)

\* scan_result
Found(n) == IF Len(aps) < ApCapacity THEN Append(aps, n) ELSE aps

\* cyw43_arch_poll: any event of the driver, any number of them a turn.
DriverEvent ==
    /\ turn = "poll" /\ initialized
    /\ \/ /\ driver.scanning
          /\ \E n \in Networks : aps' = Found(n)
          /\ UNCHANGED driver
       \/ /\ driver' \in [scanning : {driver.scanning, FALSE}, joining : {driver.joining},
                          link : IF driver.joining THEN Links ELSE {"down"},
                          address : BOOLEAN]
          /\ UNCHANGED aps
    /\ UNCHANGED <<state, initialized, bound, connectLeft, dhcp, screenVars, known, turn>>

Scanned == IF state = "SCANNING" /\ ~driver.scanning THEN "READY" ELSE state

\* The state after the link has been looked at.
Linked ==
    IF Scanned # "CONNECTING" THEN Scanned
    ELSE IF driver.link = "joined" THEN "CONNECTED"
    ELSE IF connectLeft = 0 \/ driver.link = "refused" THEN "ERROR"
    ELSE "CONNECTING"

\* Mutant: no wait for an address is started.
WaitingUnset == dhcp
\* A connection starts the wait for an address; nothing starts it again.
Waiting == IF Linked = "CONNECTED" /\ state = "CONNECTING"
           THEN [set |-> TRUE, left |-> WaitTime] ELSE dhcp

WithoutAddress == /\ Linked = "CONNECTED" /\ ~driver.address
                  /\ Waiting.set /\ Waiting.left = 0

\* What update_ip makes of the interface, once there is a connection.
Shown == IF Linked = "CONNECTED" THEN driver.address ELSE bound

\* picopen_wifi_poll.  The main loop pushes a changed state to the screen.
Poll ==
    /\ turn = "poll"
    /\ IF initialized
       THEN /\ state' = IF WithoutAddress THEN "ERROR" ELSE Linked
            /\ dhcp' = Waiting
            /\ bound' = Shown
            /\ driver' \in IF WithoutAddress THEN Leaving ELSE {driver}
       ELSE UNCHANGED <<state, dhcp, bound, driver>>
    /\ known' = state' /\ turn' = "key"
    /\ \/ selected' = Drawn(selected, aps)
       \/ state' = known /\ UNCHANGED selected
    /\ UNCHANGED <<initialized, aps, connectLeft, ssid>>

WaitTicks ==
    /\ connectLeft > 0 \/ dhcp.left > 0
    /\ connectLeft' = IF connectLeft > 0 THEN connectLeft - 1 ELSE 0
    /\ dhcp' = [dhcp EXCEPT !.left = IF @ > 0 THEN @ - 1 ELSE 0]
    /\ UNCHANGED <<state, initialized, aps, bound, driver, screenVars, known, turn>>

Keys == \/ NoKey \/ Enable \/ Disable \/ Scan \/ Connect \/ Disconnect \/ Cycles
        \/ \E n \in Networks : TypeName(n)

WifiNext == Keys \/ DriverEvent \/ Poll \/ WaitTicks

\* The loop turns and the clock runs; nothing is assumed of the driver.
WifiFairness == WF_wifiVars(Keys) /\ WF_wifiVars(Poll) /\ WF_wifiVars(WaitTicks)

WifiSpec == WifiInit /\ [][WifiNext]_wifiVars /\ WifiFairness

----------------------------------------------------------------------------
(* Properties *)

States == {"OFF", "READY", "SCANNING", "CONNECTING", "CONNECTED", "ERROR"}
Drivers == [scanning : BOOLEAN, joining : BOOLEAN, link : Links, address : BOOLEAN]

WifiTypeOK ==
    /\ state \in States /\ known \in States
    /\ initialized \in BOOLEAN /\ bound \in BOOLEAN
    /\ aps \in Seq(Networks) /\ Len(aps) <= ApCapacity
    /\ connectLeft \in 0 .. WaitTime
    /\ dhcp \in [set : BOOLEAN, left : 0 .. WaitTime]
    /\ driver \in Drivers
    /\ selected \in 0 .. ApCapacity - 1 /\ ssid \in Networks
    /\ turn \in {"key", "poll"}

\* The POWER line works in every state: what shows OFF has no driver up, for
\* which enabling would be refused, and only a driver that is up, or failed to
\* start, is behind any other state (wifi.c:71-86, 136-148).
PowerWorks == /\ state = "OFF" => ~initialized
              /\ initialized \/ state \in {"OFF", "ERROR"}

\* An address is shown only of a connection that stands: every way out of
\* CONNECTED, by key, deadline or power, clears it.
AddressOnlyConnected == bound => state = "CONNECTED"

\* LEFT and RIGHT change the name and the network that is shown together,
\* although scan results come between any two keys.  The one exception is an
\* index that a longer list of an earlier scan has left.
CyclesTogether ==
    [][Cycles /\ selected < Len(aps) => ssid' = aps[selected' + 1]]_wifiVars

\* No wait is forever: a connection is made or given up whatever the driver
\* says or does not say, and so is a wait for the first address.
WaitsEnd ==
    /\ state = "CONNECTING" ~> state # "CONNECTING"
    /\ (state = "CONNECTED" /\ ~bound) ~> (state # "CONNECTED" \/ bound)
=============================================================================
