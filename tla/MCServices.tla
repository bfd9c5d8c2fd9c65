----------------------------- MODULE MCServices ------------------------------
(***************************************************************************)
(* The services that share no variable in one instance for TLC: a          *)
(* behaviour is one of one of the parts, the others standing idle.         *)
(***************************************************************************)
EXTENDS Settings, Wifi, Shell, Hosts, Inputs

VARIABLE part   \* the component that this behaviour is of

glassVars == <<terminalVars, shellVars>>
partVars == <<part, settingsVars, wifiVars, glassVars, hostsVars, inputsVars>>

Files == {"settings", "vault"}

\* Two hosts fill the inventory; the long name is cut to one that nothing has.
CutNames == [long \in LongNames |-> "c"]

\* The screen is narrow enough for words to wrap and for commands to fill a row.
Lines == [verb \in Verbs |->
            CASE verb = "shutdown" -> <<"s">> [] verb = "confirm" -> <<"s", "c">>
              [] verb = "cancel" -> <<"s", "x">> [] verb = "cat" -> <<"c">>]
Texts == {<<>>,
          <<"s", "s", Space, "c", "c", "c", "unprintable">>,
          <<"s", "s", "s", "s", "s", "s", "return", "c">>}
\* Two numbers of two bits, with three digits
Worth == [d \in {"0", "2", "6"} |-> CASE d = "0" -> 0 [] d = "2" -> 2 [] d = "6" -> 6]
Top == <<"c", "newline", "newline">>

MCInit ==
  /\ part \in {"settings", "wifi", "shell", "hosts", "inputs"}
  /\ SettingsInit /\ (part # "settings" => flash.files = Blank /\ mounted = "uninitialized")
  /\ WifiInit /\ (part # "wifi" => ssid = CHOOSE n \in Networks : TRUE)
  /\ ShellInit /\ (part # "shell" => ~cardRead)
  /\ HostsInit
  /\ InputsInit /\ (part # "inputs" => use = "path")

Of(p) == part = p /\ UNCHANGED part
SettingsTurn(A) == Of("settings") /\ A /\ UNCHANGED <<wifiVars, glassVars, hostsVars, inputsVars>>
WifiTurn(A) == Of("wifi") /\ A /\ UNCHANGED <<settingsVars, glassVars, hostsVars, inputsVars>>
ShellTurn(A) == Of("shell") /\ A /\ UNCHANGED <<settingsVars, wifiVars, hostsVars, inputsVars>>
HostsTurn(A) == Of("hosts") /\ A /\ UNCHANGED <<settingsVars, wifiVars, glassVars, inputsVars>>
InputsTurn(A) == Of("inputs") /\ A /\ UNCHANGED <<settingsVars, wifiVars, glassVars, hostsVars>>

MCNext ==
  \/ SettingsTurn(SettingsNext) \/ WifiTurn(WifiNext)
  \/ ShellTurn(ShellNext) \/ HostsTurn(HostsNext) \/ InputsTurn(InputsNext)

MCSpec ==
  /\ MCInit /\ [][MCNext]_partVars
  /\ WF_partVars(WifiTurn(Keys))
  /\ WF_partVars(WifiTurn(Poll))
  /\ WF_partVars(WifiTurn(WaitTicks))
=============================================================================
