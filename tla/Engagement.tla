----------------------------- MODULE Engagement -----------------------------
(***************************************************************************)
(* The engagement session of a PicoPen (services/policy/engagement.c): a   *)
(* reference, a time at which it ends and an optional boundary, which is a *)
(* CIDR block or one host name.  A network operation asks it whether its   *)
(* target may be addressed.  Ports are passed everywhere and looked at     *)
(* nowhere, so they are left out.                                          *)
(***************************************************************************)
EXTENDS Integers

CONSTANTS
  Addresses,  \* IPv4 addresses
  Names,      \* host names
  Networks,   \* the CIDR blocks a user may enter, as sets of addresses
  NoAddress   \* ip_addr_t * NULL

ASSUME TargetsAssumption ==
  /\ Addresses \cap Names = {}
  /\ NoAddress \notin Addresses
  /\ Networks \subseteq SUBSET Addresses

Targets == Addresses \cup Names

\* boundary_configured, hostname_target with target, network with netmask.
Limit == [configured : BOOLEAN, hosts : SUBSET Names, net : SUBSET Addresses]

Unlimited == [configured |-> FALSE, hosts |-> {}, net |-> {}]
HostLimit(name) == [configured |-> TRUE, hosts |-> {name}, net |-> {}]
NetLimit(net) == [configured |-> TRUE, hosts |-> {}, net |-> net]

\* The boundaries picopen_engagement_session_activate_optional_boundary()
\* accepts: none, a host name, a block.
Limits == {Unlimited} \cup {HostLimit(name) : name \in Names}
                      \cup {NetLimit(net) : net \in Networks}

Session == [active : BOOLEAN, expires : Nat, limit : Limit]

NoSession == [active |-> FALSE, expires |-> 0, limit |-> Unlimited]

IsActive(session, time) == session.active /\ session.expires > time

Activated(limit, time, duration) ==
  [active |-> TRUE, expires |-> time + duration, limit |-> limit]

\* allows_hostname() or, once there is an address, allows_ipv4().
Admits(limit, target, address) ==
  \/ ~limit.configured
  \/ target \in limit.hosts
  \/ address \in limit.net

\* recon.c's target_allowed().
TargetAllowed(session, guarded, target, address, time) ==
  IF IsActive(session, time) THEN Admits(session.limit, target, address)
                             ELSE ~guarded
=============================================================================
