-------------------------------- MODULE Hosts --------------------------------
(***************************************************************************)
(* The inventory of hosts (services/hosts/hosts.c), which main() tells of  *)
(* the addresses of a connected Wi-Fi link, in every turn of its loop, and *)
(* of every reconnaissance job that has ended.                             *)
(***************************************************************************)
EXTENDS Naturals, Sequences, FiniteSetsExt

CONSTANTS
  HostAddresses,   \* addresses, and names that fit into a record
  LongNames,       \* names that do not
  Cut,             \* what a record keeps of each of LongNames
  HostCapacity,    \* PICOPEN_HOST_CAPACITY
  PortCapacity,    \* PICOPEN_HOST_SERVICE_CAPACITY
  Ports

NoAddress == "none"   \* empty, or 0.0.0.0
Names == HostAddresses \union LongNames

ASSUME HostsAssumption ==
  /\ HostAddresses \cap LongNames = {} /\ NoAddress \notin Names
  /\ Cut \in [LongNames -> HostAddresses]
  /\ HostCapacity \in Nat /\ PortCapacity \in Nat

VARIABLES
  inventory,   \* records, in the order of their appearance, and truncated
  told         \* history: for each address, what was ever said of it

hostsVars == <<inventory, told>>

HostRecords == [address : HostAddresses, reachable : BOOLEAN, services : SUBSET Ports]
Reports == [seen : BOOLEAN, reachable : BOOLEAN, services : SUBSET Ports]

HostsTypeOK ==
  /\ inventory \in [records : Seq(HostRecords), truncated : BOOLEAN]
  /\ Len(inventory.records) <= HostCapacity
  /\ told \in [Names -> Reports]

HostsInit ==
  /\ inventory = [records |-> << >>, truncated |-> FALSE]
  /\ told = [name \in Names |-> [seen |-> FALSE, reachable |-> FALSE, services |-> {}]]

Kept(name) == IF name \in LongNames THEN Cut[name] ELSE name

\* strcmp: a record never equals a name that was cut to be kept in it.
FoundAt(records, name) == {i \in 1 .. Len(records) : records[i].address = name}

\* One more port that answered, while there is room
Merged(record, reachable, services) ==
  [record EXCEPT
     !.reachable = @ \/ reachable,
     !.services = IF services \subseteq @ \/ Cardinality(@) >= PortCapacity THEN @
                  ELSE @ \union services]

\* Mutant: a full inventory is not searched any more.
ObservedIfRoom(inv, name, reachable, services) ==
  IF name = NoAddress THEN inv
  ELSE IF Len(inv.records) >= HostCapacity THEN [inv EXCEPT !.truncated = TRUE]
  ELSE IF FoundAt(inv.records, name) # {}
  THEN [inv EXCEPT !.records =
          [i \in DOMAIN @ |-> IF i = Min(FoundAt(@, name))
                              THEN Merged(@[i], reachable, services) ELSE @[i]]]
  ELSE [inv EXCEPT !.records =
          Append(@, Merged([address |-> Kept(name), reachable |-> FALSE, services |-> {}],
                           reachable, services))]

\* find_or_add, and what its callers do with the record
Observed(inv, name, reachable, services) ==
  IF name = NoAddress THEN inv
  ELSE IF FoundAt(inv.records, name) # {}
  THEN [inv EXCEPT !.records =
          [i \in DOMAIN @ |-> IF i = Min(FoundAt(@, name))
                              THEN Merged(@[i], reachable, services) ELSE @[i]]]
  ELSE IF Len(inv.records) >= HostCapacity THEN [inv EXCEPT !.truncated = TRUE]
  ELSE [inv EXCEPT !.records =
          Append(@, Merged([address |-> Kept(name), reachable |-> FALSE, services |-> {}],
                           reachable, services))]

Noted(names, reachable, services) ==
  told' = [name \in Names |->
    IF name \notin names THEN told[name]
    ELSE [seen |-> TRUE, reachable |-> told[name].reachable \/ reachable,
          services |-> told[name].services \union services]]

\* picopen_hosts_observe_wifi, of a link that is connected
ObserveWifi(ipv4, gateway, dns) ==
  /\ inventory' = Observed(Observed(Observed(inventory, ipv4, TRUE, {}),
                                    gateway, TRUE, {}), dns, TRUE, {})
  /\ Noted({ipv4, gateway, dns}, TRUE, {})

\* picopen_hosts_observe_recon: the address that the target was resolved to, or
\* the target.  A host that refuses is there, but no service of it is.
ObserveRecon(name, result, port) ==
  LET reachable == result \in {"complete", "refused"}
      services == IF result = "complete" THEN port ELSE {}
  IN
  /\ inventory' = Observed(inventory, name, reachable, services)
  /\ Noted({name}, reachable, services)

HostsNext ==
  \/ \E ipv4, gateway, dns \in HostAddresses \union {NoAddress} :
       ObserveWifi(ipv4, gateway, dns)
  \/ \E name \in Names, result \in {"complete", "refused", "timeout", "failed"},
        port \in {{}} \union {{p} : p \in Ports} :
       ObserveRecon(name, result, port)

HostsSpec == HostsInit /\ [][HostsNext]_hostsVars

Holding(name) == FoundAt(inventory.records, name)

\* Unless the list has had to leave hosts out, and says so, a host that was ever
\* seen stands in it once, is reachable if it ever answered, and lists the ports
\* that ever did, as many as it has room for.  Once listed, that stays true of a
\* host when the list is full.  Names too long for a record are excepted: they
\* are stored cut, are not found again, and fill the list (hosts.c:8).
HostsTold ==
  \A name \in HostAddresses \ {Cut[long] : long \in LongNames} :
    /\ Holding(name) = {} => ~told[name].seen \/ inventory.truncated
    /\ \A i \in Holding(name) :
         LET record == inventory.records[i] IN
         /\ Holding(name) = {i}
         /\ record.reachable = told[name].reachable
         /\ record.services \subseteq told[name].services
         /\ record.services # told[name].services => Cardinality(record.services) = PortCapacity
=============================================================================
