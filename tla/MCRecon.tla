------------------------------ MODULE MCRecon -------------------------------
(* Instances of Recon for TLC: one host name, two addresses, and one CIDR    *)
(* block that holds the first of them.                                       *)
EXTENDS Recon
CONSTANTS a1, a2, host1
OneBlock == {{a1}}
NoBlock == {}
=============================================================================
