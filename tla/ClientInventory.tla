--------------------------- MODULE ClientInventory ---------------------------
(***************************************************************************)
(* The client inventory of one session: how the DHCP leases and the ARP    *)
(* table of a snapshot are merged into clients (_network_clients), what    *)
(* _emit_transitions says of them, and the entities that routes/entities.py *)
(* lists for them.                                                         *)
(*                                                                         *)
(* A snapshot is read and applied in one step.  Leases and ARP entries     *)
(* change at will between two polls, so the two endpoints may return any   *)
(* leases with any ARP table.  Reads that are applied out of order are the *)
(* subject of TransitionEvents.                                            *)
(***************************************************************************)
CONSTANTS Hosts,  \* hosts of the network, each with a MAC and an IP address
          Texts,  \* hostnames and descriptions
          None,
          Networks  \* the networks to explore: each host with its kind

\* What leases and ARP entries tell of a host.
Kinds == [leaseMac : BOOLEAN,  \* does its lease carry the MAC?
          arpMac : BOOLEAN,    \* does its ARP entry?
          hostname : Texts \cup {None}, descr : Texts \cup {None},  \* what its lease has
          arpName : Texts \cup {None}]  \* what its ARP entry has

ASSUME NetworksAssumption == None \notin Texts /\ Networks \subseteq [Hosts -> Kinds]

VARIABLES
    kind,     \* kind[h]: the kind of host h; it never changes
    last,     \* clients of last_state, or None before the first snapshot
    told,     \* history: told[i]: what baseline and events have said of client i
    answered, \* history: hosts that answered ARP in the latest snapshot
    emitted   \* events scheduled by the latest step

vars == <<kind, last, told, answered, emitted>>

\* The strings that the code makes of a host: ids, names, or both.  Hosts differ
\* in their addresses and may share a hostname or a description.
Identifiers == [of : Hosts, form : {"mac", "ip"}] \cup [of : Texts, form : {"text"}]
Mac(h) == [of |-> h, form |-> "mac"]
Ip(h) == [of |-> h, form |-> "ip"]
Named(text) == [of |-> text, form |-> "text"]

Clients == [id : Identifiers, name : Identifiers, online : BOOLEAN]
Events == [type : {"discovered", "online", "offline"}, device : Identifiers]

\* network.client.discovered has no status: what a client was then is history.
Heard == {"unknown", "online", "offline", "found online", "found offline"}

\* _network_clients builds a dict: an id is listed once.
TypeOK ==
    /\ kind \in Networks
    /\ last # None => last \subseteq Clients /\ \A a, b \in last : a.id = b.id => a = b
    /\ told \in [Identifiers -> Heard]
    /\ answered \subseteq Hosts
    /\ emitted \subseteq Events

Init ==
    /\ kind \in Networks
    /\ last = None
    /\ told = [i \in Identifiers |-> "unknown"]
    /\ answered = {}
    /\ emitted = {}

-----------------------------------------------------------------------------
(* _network_clients *)

LeaseIdByAddress(h) == Ip(h)
LeaseId(h) == IF kind[h].leaseMac THEN Mac(h) ELSE Ip(h)
ArpId(h) == IF kind[h].arpMac THEN Mac(h) ELSE Ip(h)

\* The first of some texts that is there, or else the address.
NameOf(h, text, otherwise) ==
    IF text # None THEN Named(text)
    ELSE IF otherwise # None THEN Named(otherwise)
    ELSE Ip(h)

\* The client that a lease makes, before ARP is looked at.
FromLease(h, status) ==
    [id |-> LeaseId(h),
     name |-> NameOf(h, kind[h].hostname, kind[h].descr),
     online |-> status = "online"]

\* An ARP entry keeps the hostname of the client that the leases made under its
\* id, but not a name that is only a description.
Hostname(h, leases) ==
    IF leases[h] # "none" /\ LeaseId(h) = ArpId(h) THEN kind[h].hostname ELSE None
FromArpKeepsStatus(h, leases) ==
    [id |-> ArpId(h),
     name |-> NameOf(h, Hostname(h, leases), kind[h].arpName),
     online |-> leases[h] # "offline"]
FromArp(h, leases) ==
    [id |-> ArpId(h),
     name |-> NameOf(h, Hostname(h, leases), kind[h].arpName),
     online |-> TRUE]

Leased(leases) == {FromLease(h, leases[h]) : h \in {g \in Hosts : leases[g] # "none"}}
Seen(leases, answering) == {FromArp(h, leases) : h \in answering}

MergedAppended(leases, answering) == Leased(leases) \cup Seen(leases, answering)
Merged(leases, answering) ==
    {c \in Leased(leases) : \A a \in Seen(leases, answering) : a.id # c.id}
        \cup Seen(leases, answering)

Ids(clients) == {c.id : c \in clients}

-----------------------------------------------------------------------------
(* _emit_transitions *)

\* The statuses remembered by name.  Of clients that share a name the last one
\* by id is remembered, which may be any of them.
Memories(clients) ==
    {old \in [{c.name : c \in clients} -> BOOLEAN] :
        \A n \in DOMAIN old : \E c \in clients : c.name = n /\ c.online = old[n]}

Changed(old, clients) ==
    {[type |-> IF c.online THEN "online" ELSE "offline", device |-> c.name] :
        c \in {d \in clients : d.name \in DOMAIN old /\ old[d.name] # d.online}}

\* The entities of clients have their ids, and so do these events.
VanishedByName(prev, clients) ==
    {[type |-> "offline", device |-> c.name] :
        c \in {d \in prev : d.online /\ d.id \notin Ids(clients)}}
Vanished(prev, clients) ==
    {[type |-> "offline", device |-> c.id] :
        c \in {d \in prev : d.online /\ d.id \notin Ids(clients)}}
Discovered(prev, clients) ==
    {[type |-> "discovered", device |-> i] : i \in Ids(clients) \ Ids(prev)}

\* What a follower knows of a client: the baseline, and what the types say of the
\* events that name it by id or, as long as it is listed, by name.
Says(events, type, clients, i) ==
    \E v \in events :
        /\ v.type = type
        /\ v.device = i \/ \E c \in clients : c.id = i /\ c.name = v.device
IsOnline(clients, i) == \E c \in clients : c.id = i /\ c.online
Told(clients, events) ==
    [i \in Identifiers |->
        IF Says(events, "offline", clients, i) THEN "offline"
        ELSE IF Says(events, "online", clients, i) THEN "online"
        ELSE IF Says(events, "discovered", clients, i)
             THEN IF IsOnline(clients, i) THEN "found online" ELSE "found offline"
        ELSE IF last = None /\ i \in Ids(clients)
             THEN IF IsOnline(clients, i) THEN "online" ELSE "offline"
        ELSE told[i]]

-----------------------------------------------------------------------------
(* read_snapshot and _apply_snapshot *)

Publish(clients) ==
    /\ IF last = None
       THEN emitted' = {}
       ELSE \E old \in Memories(last) :
           emitted' = Changed(old, clients) \cup Vanished(last, clients)
                          \cup Discovered(last, clients)
    /\ told' = Told(clients, emitted')
    /\ last' = clients
    /\ UNCHANGED kind

\* An endpoint that fails yields nothing, as one does that has nothing to return.
Poll ==
    \E leases \in [Hosts -> {"none", "offline", "online"}], answering \in SUBSET Hosts :
        /\ Publish(Merged(leases, answering))
        /\ answered' = answering

Next == Poll

Spec == Init /\ [][Next]_vars

-----------------------------------------------------------------------------
\* The lease and the ARP entry of the host both carry the MAC, or neither does.
IdentifiedAlike(h) == kind[h].leaseMac = kind[h].arpMac

\* docs/contract.md: the inventory "merges DHCP and ARP observations into child
\* entities".  A host whose observations carry the same identifier is one client
\* however it is observed; any other is two when it is leased and answers ARP.
OneEntityPerClient ==
    last # None => \A a, b \in last :
        (a.id.of = b.id.of /\ IdentifiedAlike(a.id.of)) => a = b

\* The names under which a host may be listed.
Names(h) ==
    {FromLease(h, "online").name}
        \cup {FromArp(h, [g \in Hosts |-> s]).name : s \in {"none", "online"}}
NamedAlike(h) == \A m, n \in Names(h) : m = n
OwnNames(h) == \A g \in Hosts \ {h} : Names(g) \cap Names(h) = {}

\* Of a host that is one client under one name of its own, whoever follows the
\* events knows whether it is online, or has been told of its discovery and has
\* missed nothing since; and nobody believes that it is online when it is no longer
\* listed, whichever endpoints fail in between.
ClientStatusDelivered ==
    last # None => \A h \in Hosts :
        (IdentifiedAlike(h) /\ NamedAlike(h) /\ OwnNames(h)) =>
            (told[LeaseId(h)] \in {"online", "found online"} <=> IsOnline(last, LeaseId(h)))

\* A host that answers ARP in a snapshot is not reported offline by it, neither by
\* id nor by a name of its own, even if its lease says so.
NoFalseOffline ==
    \A h \in answered : \A v \in emitted :
        (v.type = "offline" /\ IdentifiedAlike(h)) =>
            /\ v.device # LeaseId(h)
            /\ OwnNames(h) => v.device \notin Names(h)
=============================================================================
