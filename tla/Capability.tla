----------------------------- MODULE Capability ------------------------------
(* What the kernel grants (kernel/capability.c): a capability that is held, *)
(* under an engagement and with the user's confirmation where it needs them. *)
EXTENDS FiniteSets

Capabilities ==
  {"storage.read", "storage.write", "network.connect", "network.probe",
   "radio.receive", "radio.transmit", "gpio.read", "gpio.drive", "usb.hid",
   "target.power", "remote.control", "system.shutdown"}

RequiresEngagement ==
  {"network.probe", "radio.transmit", "gpio.drive", "usb.hid", "target.power",
   "remote.control"}

RequiresConfirmation ==
  (RequiresEngagement \ {"network.probe"}) \union {"network.connect", "system.shutdown"}

\* picopen_security_authorize
Authorize(grants, engaged, capability, confirmed) ==
  /\ capability \in grants
  /\ capability \in RequiresEngagement => engaged
  /\ capability \in RequiresConfirmation => confirmed

\* main(): what the shell and the services that act for it hold
ShellGrants ==
  {"storage.read", "network.connect", "network.probe", "radio.receive",
   "system.shutdown"}
=============================================================================
