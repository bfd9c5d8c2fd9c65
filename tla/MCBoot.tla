------------------------------- MODULE MCBoot -------------------------------
(* TLC's instance of Boot: eight generations, so that the counter wraps    *)
(* after a few boots, and the device's three attempts.                     *)
EXTENDS Boot
=============================================================================
