------------------------ MODULE ClientInventoryProofs -----------------------
(***************************************************************************)
(* The properties of ClientInventory, for any number of hosts of any kinds *)
(* in any networks.  All of them rest on what _network_clients makes of a  *)
(* snapshot: each client belongs to a host, by its id and by its name, and *)
(* ARP takes precedence.                                                   *)
(***************************************************************************)
EXTENDS ClientInventory, TLAPS

\* A client that an observation of host h may make.
ClientOf(c, h) ==
    /\ c \in Clients
    /\ c.id \in {Mac(h), Ip(h)}
    /\ IdentifiedAlike(h) => c.id = LeaseId(h)
    /\ c.name \in Names(h)

Orderly(clients) ==
    /\ \A c \in clients : c.id.of \in Hosts /\ ClientOf(c, c.id.of)
    /\ \A a, b \in clients : a.id = b.id => a = b

InventoryInv ==
    /\ TypeOK
    /\ last # None => Orderly(last)

\* The hosts of which ClientStatusDelivered speaks.
Followed(h) == IdentifiedAlike(h) /\ NamedAlike(h) /\ OwnNames(h)

-----------------------------------------------------------------------------
(* _network_clients *)

\* What the assumption says of a host.
LEMMA HostKinds ==
  ASSUME TypeOK, NEW h \in Hosts
  PROVE  /\ kind[h].leaseMac \in BOOLEAN /\ kind[h].arpMac \in BOOLEAN
         /\ kind[h].hostname \in Texts \cup {None} /\ kind[h].descr \in Texts \cup {None}
         /\ kind[h].arpName \in Texts \cup {None}
<1>1. kind[h] \in Kinds
  BY NetworksAssumption DEF TypeOK
<1> QED
  BY <1>1 DEF Kinds

\* Addresses tell hosts apart, and from texts.
LEMMA Addresses ==
  ASSUME NEW h \in Hosts
  PROVE  /\ Mac(h) \in Identifiers /\ Ip(h) \in Identifiers
         /\ Mac(h).of = h /\ Ip(h).of = h
         /\ LeaseId(h) \in {Mac(h), Ip(h)} /\ ArpId(h) \in {Mac(h), Ip(h)}
         /\ \A text : Named(text) \notin {Mac(h), Ip(h)}
BY DEF Mac, Ip, Named, Identifiers, LeaseId, ArpId

\* A name is a text or the address.
LEMMA NameForms ==
  ASSUME NEW h \in Hosts, NEW text \in Texts \cup {None}, NEW otherwise \in Texts \cup {None}
  PROVE  /\ NameOf(h, text, otherwise) \in Identifiers
         /\ NameOf(h, text, otherwise) = Ip(h)
              \/ \E t \in Texts : NameOf(h, text, otherwise) = Named(t)
BY DEF NameOf, Identifiers, Named, Ip

\* A lease makes a client of its host.
LEMMA LeasedClient ==
  ASSUME TypeOK, NEW h \in Hosts, NEW status
  PROVE  /\ ClientOf(FromLease(h, status), h)
         /\ FromLease(h, status).id.of = h
<1> DEFINE c == FromLease(h, status)
           name == NameOf(h, kind[h].hostname, kind[h].descr)
<1>1. c = [id |-> LeaseId(h), name |-> name, online |-> status = "online"]
      /\ FromLease(h, "online").name = name
  BY DEF FromLease
<1>2. name \in Identifiers
  BY HostKinds, NameForms
<1>3. LeaseId(h) \in Identifiers /\ LeaseId(h) \in {Mac(h), Ip(h)} /\ LeaseId(h).of = h
  BY Addresses
<1>4. (status = "online") \in BOOLEAN
  OBVIOUS
<1> HIDE DEF name, c
<1>5. c \in Clients /\ c.id = LeaseId(h) /\ c.name = name
  BY <1>1, <1>2, <1>3, <1>4 DEF Clients
<1>6. name \in Names(h)
  BY <1>1 DEF Names
<1>7. ClientOf(c, h)
  BY <1>3, <1>5, <1>6 DEF ClientOf
<1> QED
  BY <1>3, <1>5, <1>7 DEF c

\* An ARP entry makes an online client of its host.
LEMMA SeenClient ==
  ASSUME TypeOK, NEW h \in Hosts, NEW leases
  PROVE  /\ ClientOf(FromArp(h, leases), h)
         /\ FromArp(h, leases).id = ArpId(h) /\ FromArp(h, leases).id.of = h
         /\ FromArp(h, leases).online = TRUE
<1> DEFINE c == FromArp(h, leases)
           name == NameOf(h, Hostname(h, leases), kind[h].arpName)
<1>1. c = [id |-> ArpId(h), name |-> name, online |-> TRUE]
  BY DEF FromArp
<1>2. Hostname(h, leases) \in Texts \cup {None}
  BY HostKinds DEF Hostname
<1>3. name \in Identifiers
  BY <1>2, HostKinds, NameForms
<1>4. ArpId(h) \in Identifiers /\ ArpId(h) \in {Mac(h), Ip(h)} /\ ArpId(h).of = h
  BY Addresses
<1>5. IdentifiedAlike(h) => ArpId(h) = LeaseId(h)
  BY DEF IdentifiedAlike, ArpId, LeaseId
<1>6. name \in Names(h)
  <2> DEFINE s == IF leases[h] = "none" THEN "none" ELSE "online"
  <2>1. Hostname(h, [g \in Hosts |-> s]) = Hostname(h, leases)
    BY DEF Hostname
  <2>2. FromArp(h, [g \in Hosts |-> s]).name = name
    BY <2>1 DEF FromArp
  <2>3. s \in {"none", "online"}
    OBVIOUS
  <2> HIDE DEF s
  <2> QED
    BY <2>2, <2>3 DEF Names
<1> HIDE DEF name, c
<1>7. c \in Clients /\ c.id = ArpId(h) /\ c.name = name /\ c.online = TRUE
  BY <1>1, <1>3, <1>4 DEF Clients
<1>8. ClientOf(c, h)
  BY <1>4, <1>5, <1>6, <1>7 DEF ClientOf
<1> QED
  BY <1>4, <1>7, <1>8 DEF c

\* Every client of a snapshot is one of its host, ids are listed once, and a host
\* that answers ARP and is identified alike comes out online.
LEMMA MergedIsOrderly ==
  ASSUME TypeOK, NEW leases, NEW answering \in SUBSET Hosts
  PROVE  /\ Orderly(Merged(leases, answering))
         /\ \A h \in answering : IdentifiedAlike(h) =>
              /\ LeaseId(h) \in Ids(Merged(leases, answering))
              /\ \A c \in Merged(leases, answering) : c.id = LeaseId(h) => c.online = TRUE
<1> DEFINE clients == Merged(leases, answering)
<1>1. ASSUME NEW c \in clients
      PROVE  \/ /\ \E h \in Hosts : c = FromLease(h, leases[h])
                /\ \A a \in Seen(leases, answering) : a.id # c.id
             \/ \E h \in answering : c = FromArp(h, leases)
  BY DEF Merged, Leased, Seen
<1>2. ASSUME NEW c \in clients
      PROVE  c.id.of \in Hosts /\ ClientOf(c, c.id.of)
  <2>1. ASSUME NEW h \in Hosts, c = FromLease(h, leases[h]) \/ c = FromArp(h, leases)
        PROVE  c.id.of \in Hosts /\ ClientOf(c, c.id.of)
    <3>1. FromLease(h, leases[h]).id.of = h /\ ClientOf(FromLease(h, leases[h]), h)
      BY LeasedClient
    <3>2. FromArp(h, leases).id.of = h /\ ClientOf(FromArp(h, leases), h)
      BY SeenClient
    <3>3. c.id.of = h /\ ClientOf(c, h)
      BY <2>1, <3>1, <3>2
    <3> QED
      BY <3>3
  <2> QED
    BY <1>1, <2>1
<1>3. ASSUME NEW a \in clients, NEW b \in clients, a.id = b.id
      PROVE  a = b
  <2>1. ASSUME NEW x \in clients, NEW y \in clients, x.id = y.id,
               NEW h \in answering, x = FromArp(h, leases)
        PROVE  x = y
    <3>1. x \in Seen(leases, answering)
      BY <2>1 DEF Seen
    <3>2. PICK g \in answering : y = FromArp(g, leases)
      BY <1>1, <2>1, <3>1
    <3>3. g \in Hosts /\ h \in Hosts
      OBVIOUS
    <3>4. x.id.of = h /\ y.id.of = g
      BY <2>1, <3>2, <3>3, SeenClient
    <3> QED
      BY <2>1, <3>2, <3>4
  <2>2. CASE \E h \in answering : a = FromArp(h, leases)
    BY <1>3, <2>1, <2>2
  <2>3. CASE \E h \in answering : b = FromArp(h, leases)
    BY <1>3, <2>1, <2>3
  <2>4. CASE \E g, h \in Hosts : a = FromLease(g, leases[g]) /\ b = FromLease(h, leases[h])
    BY <1>3, <2>4, LeasedClient
  <2> QED
    BY <1>1, <2>2, <2>3, <2>4
<1>4. ASSUME NEW h \in answering, IdentifiedAlike(h)
      PROVE  /\ LeaseId(h) \in Ids(clients)
             /\ \A c \in clients : c.id = LeaseId(h) => c.online = TRUE
  <2>1. h \in Hosts /\ ArpId(h) = LeaseId(h)
    BY <1>4 DEF IdentifiedAlike, ArpId, LeaseId
  <2>2. /\ FromArp(h, leases) \in clients
        /\ FromArp(h, leases).id = LeaseId(h) /\ FromArp(h, leases).online = TRUE
    BY <2>1, SeenClient DEF Seen, Merged
  <2> QED
    BY <1>3, <2>2 DEF Ids
<1> QED
  BY <1>2, <1>3, <1>4 DEF Orderly

-----------------------------------------------------------------------------
(* _apply_snapshot *)

\* What a poll does: the clients of some orderly snapshot are published.
LEMMA PollPublishes ==
  ASSUME InventoryInv, Poll
  PROVE  \E clients \in SUBSET Clients :
            /\ Orderly(clients) /\ Publish(clients)
            /\ answered' \subseteq Hosts
            /\ \A h \in answered' : IdentifiedAlike(h) =>
                  /\ LeaseId(h) \in Ids(clients)
                  /\ \A c \in clients : c.id = LeaseId(h) => c.online = TRUE
<1>1. PICK leases \in [Hosts -> {"none", "offline", "online"}], answering \in SUBSET Hosts :
        Publish(Merged(leases, answering)) /\ answered' = answering
  BY DEF Poll
<1>2. Orderly(Merged(leases, answering))
      /\ \A h \in answering : IdentifiedAlike(h) =>
           /\ LeaseId(h) \in Ids(Merged(leases, answering))
           /\ \A c \in Merged(leases, answering) : c.id = LeaseId(h) => c.online = TRUE
  BY MergedIsOrderly DEF InventoryInv
<1>3. Merged(leases, answering) \in SUBSET Clients
  BY <1>2 DEF Orderly, ClientOf
<1> QED
  BY <1>1, <1>2, <1>3

\* The kinds of the hosts never change, so neither does what depends on them.
LEMMA HostsStay ==
  ASSUME kind' = kind, NEW h
  PROVE  /\ Names(h)' = Names(h)
         /\ LeaseId(h)' = LeaseId(h)
         /\ IdentifiedAlike(h)' <=> IdentifiedAlike(h)
BY DEF Names, LeaseId, IdentifiedAlike, FromLease, FromArp, Hostname, NameOf, ArpId, Ip, Mac

LEMMA FollowedStay ==
  ASSUME kind' = kind, NEW h
  PROVE  /\ OwnNames(h)' <=> OwnNames(h)
         /\ Followed(h)' <=> Followed(h)
<1>1. OwnNames(h)' <=> OwnNames(h)
  BY HostsStay DEF OwnNames
<1>2. NamedAlike(h)' <=> NamedAlike(h)
  BY HostsStay DEF NamedAlike
<1> QED
  BY <1>1, <1>2, HostsStay DEF Followed

LEMMA OrderlyStays ==
  ASSUME kind' = kind, NEW clients, Orderly(clients)
  PROVE  Orderly(clients)'
<1>1. ASSUME NEW c, NEW h PROVE ClientOf(c, h)' <=> ClientOf(c, h)
  BY HostsStay DEF ClientOf
<1> QED
  BY <1>1 DEF Orderly

\* What followers have heard is one of five things.
LEMMA ToldTypes ==
  ASSUME TypeOK, NEW clients, NEW events
  PROVE  Told(clients, events) \in [Identifiers -> Heard]
BY DEF Told, TypeOK, Heard

\* A poll leaves an orderly list of clients in last_state.
LEMMA PollTypes ==
  ASSUME InventoryInv, Poll
  PROVE  InventoryInv' /\ last' \in SUBSET Clients
<1>1. PICK clients \in SUBSET Clients :
         Orderly(clients) /\ Publish(clients) /\ answered' \subseteq Hosts
  BY PollPublishes
<1>2. TypeOK /\ last' = clients /\ kind' = kind
  BY <1>1 DEF InventoryInv, Publish
<1>3. told' \in [Identifiers -> Heard]
  BY <1>1, <1>2, ToldTypes DEF Publish
<1>4. emitted' \subseteq Events
  <2>1. CASE last = None
    BY <1>1, <2>1 DEF Publish
  <2>2. CASE last # None
    <3>1. last \subseteq Clients
      BY <1>2, <2>2 DEF TypeOK
    <3>2. PICK old : emitted' = Changed(old, clients) \cup Vanished(last, clients)
                                  \cup Discovered(last, clients)
      BY <1>1, <2>2 DEF Publish
    <3>3. Changed(old, clients) \subseteq Events
      BY <1>1 DEF Changed, Events, Clients
    <3>4. Vanished(last, clients) \subseteq Events
      BY <3>1 DEF Vanished, Events, Clients
    <3>5. Discovered(last, clients) \subseteq Events
      BY <1>1 DEF Discovered, Events, Clients, Ids
    <3> QED
      BY <3>2, <3>3, <3>4, <3>5
  <2> QED
    BY <2>1, <2>2
<1>5. \A a, b \in clients : a.id = b.id => a = b
  BY <1>1 DEF Orderly
<1>6. TypeOK'
  BY <1>1, <1>2, <1>3, <1>4, <1>5 DEF TypeOK
<1>7. Orderly(last)'
  BY <1>1, <1>2, OrderlyStays DEF Orderly, ClientOf
<1> QED
  BY <1>1, <1>2, <1>6, <1>7 DEF InventoryInv

\* Nothing but a poll touches last_state.
LEMMA InventoryPreserved == InventoryInv /\ [Next]_vars => InventoryInv'
<1> SUFFICES ASSUME InventoryInv, [Next]_vars PROVE InventoryInv'
  OBVIOUS
<1>1. CASE UNCHANGED vars
  <2>1. TypeOK' /\ kind' = kind /\ last' = last
    BY <1>1 DEF vars, InventoryInv, TypeOK
  <2> QED
    BY <2>1, OrderlyStays DEF InventoryInv
<1> QED
  BY <1>1, PollTypes DEF Next

-----------------------------------------------------------------------------
(* _emit_transitions *)

\* Only one of its own clients has an address of a host for its name.
LEMMA NamesAreOwn ==
  ASSUME TypeOK, NEW g \in Hosts, NEW h \in Hosts, NEW n \in Names(g)
  PROVE  /\ n \in {Mac(h), Ip(h)} => g = h
         /\ OwnNames(h) /\ n \in Names(h) => g = h
<1>1. n = Ip(g) \/ \E t \in Texts : n = Named(t)
  <2>1. CASE n = FromLease(g, "online").name
    <3>1. n = NameOf(g, kind[g].hostname, kind[g].descr)
      BY <2>1 DEF FromLease
    <3> QED
      BY <3>1, HostKinds, NameForms
  <2>2. ASSUME NEW s \in {"none", "online"}, n = FromArp(g, [f \in Hosts |-> s]).name
        PROVE  n = Ip(g) \/ \E t \in Texts : n = Named(t)
    <3>1. n = NameOf(g, Hostname(g, [f \in Hosts |-> s]), kind[g].arpName)
      BY <2>2 DEF FromArp
    <3>2. Hostname(g, [f \in Hosts |-> s]) \in Texts \cup {None}
      BY HostKinds DEF Hostname
    <3> QED
      BY <3>1, <3>2, HostKinds, NameForms
  <2> QED
    BY <2>1, <2>2 DEF Names
<1>2. n \in {Mac(h), Ip(h)} => g = h
  BY <1>1, Addresses
<1>3. OwnNames(h) /\ n \in Names(h) => g = h
  BY DEF OwnNames
<1> QED
  BY <1>2, <1>3

\* So a client that is addressed by the id of a host that is identified alike, or
\* by a name that is its own, is the client of that host.
LEMMA AddressedClient ==
  ASSUME TypeOK, NEW clients, Orderly(clients), NEW c \in clients,
         NEW h \in Hosts, IdentifiedAlike(h)
  PROVE  /\ c.name = LeaseId(h) => c.id = LeaseId(h)
         /\ OwnNames(h) /\ c.name \in Names(h) => c.id = LeaseId(h)
         /\ c.id \in Names(h) => c.id = LeaseId(h)
<1> DEFINE g == c.id.of
<1>1. g \in Hosts /\ c.name \in Names(g) /\ c.id \in {Mac(g), Ip(g)}
      /\ (IdentifiedAlike(g) => c.id = LeaseId(g))
  BY DEF Orderly, ClientOf
<1> HIDE DEF g
<1>2. c.name = LeaseId(h) => g = h
  BY <1>1, Addresses, NamesAreOwn
<1>3. OwnNames(h) /\ c.name \in Names(h) => g = h
  BY <1>1, NamesAreOwn
<1>4. c.id \in Names(h) => g = h
  BY <1>1, NamesAreOwn
<1> QED
  BY <1>1, <1>2, <1>3, <1>4

\* What events say of a host that is one client under one name of its own: that
\* this client has changed, is gone, or is new.
LEMMA EventsAboutHost ==
  ASSUME InventoryInv, last # None, NEW clients, Orderly(clients), NEW old \in Memories(last),
         NEW v \in Changed(old, clients) \cup Vanished(last, clients) \cup Discovered(last, clients),
         NEW h \in Hosts, Followed(h),
         v.device = LeaseId(h) \/ v.device \in Names(h)
  PROVE  \/ \E c \in clients, d \in last :
               /\ c.id = LeaseId(h) /\ d.id = LeaseId(h) /\ c.online # d.online
               /\ v.type = IF c.online THEN "online" ELSE "offline"
         \/ LeaseId(h) \notin Ids(clients) /\ v.type = "offline"
         \/ LeaseId(h) \in Ids(clients) \ Ids(last) /\ v.type = "discovered"
<1>1. TypeOK /\ Orderly(last) /\ IdentifiedAlike(h) /\ OwnNames(h)
  BY DEF InventoryInv, Followed
<1>2. CASE v \in Changed(old, clients)
  <2>1. PICK c \in clients : /\ c.name \in DOMAIN old /\ old[c.name] # c.online
                             /\ v.device = c.name
                             /\ v.type = IF c.online THEN "online" ELSE "offline"
    BY <1>2 DEF Changed
  <2>2. PICK d \in last : d.name = c.name /\ d.online = old[c.name]
    BY <2>1 DEF Memories
  <2>3. c.id = LeaseId(h) /\ d.id = LeaseId(h)
    BY <1>1, <2>1, <2>2, AddressedClient
  <2> QED
    BY <2>1, <2>2, <2>3
<1>3. CASE v \in Vanished(last, clients)
  <2>1. PICK d \in last : v.device = d.id /\ d.id \notin Ids(clients) /\ v.type = "offline"
    BY <1>3 DEF Vanished
  <2> QED
    BY <1>1, <2>1, AddressedClient
<1>4. CASE v \in Discovered(last, clients)
  <2>1. v.device \in Ids(clients) \ Ids(last) /\ v.type = "discovered"
    BY <1>4 DEF Discovered
  <2>2. PICK c \in clients : c.id = v.device
    BY <2>1 DEF Ids
  <2> QED
    BY <1>1, <2>1, <2>2, AddressedClient
<1> QED
  BY <1>2, <1>3, <1>4

\* An event says offline of a client that is listed offline or no longer listed:
\* neither is so of a host that has answered.
LEMMA PollIsNotFalse ==
  ASSUME InventoryInv, Poll
  PROVE  NoFalseOffline'
<1>1. PICK clients \in SUBSET Clients :
         /\ Orderly(clients) /\ Publish(clients) /\ answered' \subseteq Hosts
         /\ \A h \in answered' : IdentifiedAlike(h) =>
               /\ LeaseId(h) \in Ids(clients)
               /\ \A c \in clients : c.id = LeaseId(h) => c.online = TRUE
  BY PollPublishes
<1>2. TypeOK /\ kind' = kind
  BY <1>1 DEF InventoryInv, Publish
<1> SUFFICES ASSUME NEW h \in answered', NEW v \in emitted', v.type = "offline",
                    IdentifiedAlike(h),
                    v.device = LeaseId(h) \/ (OwnNames(h) /\ v.device \in Names(h))
             PROVE  FALSE
  BY <1>2, HostsStay, FollowedStay DEF NoFalseOffline
<1>3. h \in Hosts /\ LeaseId(h) \in Ids(clients)
      /\ \A c \in clients : c.id = LeaseId(h) => c.online = TRUE
  BY <1>1
<1>4. last # None
  BY <1>1 DEF Publish
<1>5. PICK old \in Memories(last) :
        emitted' = Changed(old, clients) \cup Vanished(last, clients) \cup Discovered(last, clients)
  BY <1>1, <1>4 DEF Publish
<1>6. CASE v \in Changed(old, clients)
  <2>1. PICK c \in clients : ~c.online /\ v.device = c.name
    BY <1>6 DEF Changed
  <2> QED
    BY <1>1, <1>2, <1>3, <2>1, AddressedClient
<1>7. CASE v \in Vanished(last, clients)
  <2>1. PICK d \in last : v.device = d.id /\ d.id \notin Ids(clients)
    BY <1>7 DEF Vanished
  <2>2. Orderly(last)
    BY <1>4 DEF InventoryInv
  <2> QED
    BY <1>2, <1>3, <2>1, <2>2, AddressedClient
<1>8. CASE v \in Discovered(last, clients)
  BY <1>8 DEF Discovered
<1> QED
  BY <1>5, <1>6, <1>7, <1>8

-----------------------------------------------------------------------------
(* What followers of the events know *)

NothingTold == last = None => \A i \in Identifiers : told[i] = "unknown"

StatusInv == InventoryInv /\ NothingTold /\ ClientStatusDelivered

\* Every change of such a client is an event under its id or its name, and these
\* events say which.
LEMMA PollDelivers ==
  ASSUME StatusInv, Poll
  PROVE  ClientStatusDelivered'
<1>1. InventoryInv /\ TypeOK
  BY DEF StatusInv, InventoryInv
<1>2. PICK clients \in SUBSET Clients : Orderly(clients) /\ Publish(clients)
  BY <1>1, PollPublishes
<1>3. last' = clients /\ told' = Told(clients, emitted') /\ kind' = kind
  BY <1>2 DEF Publish
<1> SUFFICES ASSUME NEW h \in Hosts, Followed(h)
             PROVE  told'[LeaseId(h)] \in {"online", "found online"}
                       <=> IsOnline(clients, LeaseId(h))
  <2>1. \A g : LeaseId(g)' = LeaseId(g) /\ (Followed(g)' <=> Followed(g))
    BY <1>3, HostsStay, FollowedStay
  <2> QED
    BY <1>3, <2>1 DEF ClientStatusDelivered, Followed, IsOnline
<1> DEFINE i == LeaseId(h)
           Said(type) == Says(emitted', type, clients, i)
<1>4. i \in Identifiers
  BY Addresses
<1>5. told'[i] = IF Said("offline") THEN "offline"
                 ELSE IF Said("online") THEN "online"
                 ELSE IF Said("discovered")
                      THEN IF IsOnline(clients, i) THEN "found online" ELSE "found offline"
                 ELSE IF last = None /\ i \in Ids(clients)
                      THEN IF IsOnline(clients, i) THEN "online" ELSE "offline"
                 ELSE told[i]
  BY <1>3, <1>4 DEF Told
<1>6. /\ IsOnline(clients, i) \in BOOLEAN /\ \A type : Said(type) \in BOOLEAN
      /\ IsOnline(clients, i) => i \in Ids(clients)
  BY DEF IsOnline, Ids, Says
<1>7. \A a, b \in clients : a.id = i /\ b.id = i => a = b
  BY <1>2 DEF Orderly
<1>8. CASE last = None
  <2>1. told[i] = "unknown"
    BY <1>4, <1>8 DEF StatusInv, NothingTold
  <2>2. ~Said("offline") /\ ~Said("online") /\ ~Said("discovered")
    BY <1>2, <1>8 DEF Publish, Says
  <2>3. told'[i] = IF i \in Ids(clients)
                   THEN IF IsOnline(clients, i) THEN "online" ELSE "offline" ELSE "unknown"
    BY <1>5, <1>8, <2>1, <2>2
  <2> QED
    BY <1>6, <2>3
<1>9. CASE last # None
  <2>1. Orderly(last) /\ \A a, b \in last : a.id = i /\ b.id = i => a = b
    BY <1>1, <1>9 DEF InventoryInv, Orderly
  <2>2. told[i] \in {"online", "found online"} <=> IsOnline(last, i)
    BY <1>9 DEF StatusInv, ClientStatusDelivered, Followed
  <2>3. PICK old \in Memories(last) :
          emitted' = Changed(old, clients) \cup Vanished(last, clients)
                         \cup Discovered(last, clients)
    BY <1>2, <1>9 DEF Publish
  <2>4. ASSUME NEW type, Said(type)
        PROVE  \/ \E c \in clients, d \in last :
                     /\ c.id = i /\ d.id = i /\ c.online # d.online
                     /\ type = IF c.online THEN "online" ELSE "offline"
               \/ i \notin Ids(clients) /\ type = "offline"
               \/ i \in Ids(clients) \ Ids(last) /\ type = "discovered"
    <3>1. PICK v \in emitted' :
             /\ v.type = type
             /\ v.device = i \/ \E c \in clients : c.id = i /\ c.name = v.device
      BY <2>4 DEF Says
    <3>2. \A c \in clients : c.id = i => c.name \in Names(h)
      <4>1. \A c \in clients : c.id = i => c.id.of = h
        BY Addresses
      <4> QED
        BY <1>2, <4>1 DEF Orderly, ClientOf
    <3> HIDE DEF i
    <3>3. i = LeaseId(h)
      BY DEF i
    <3> QED
      BY <1>1, <1>2, <1>9, <2>3, <3>1, <3>2, <3>3, EventsAboutHost
  <2>5. CASE i \in Ids(clients) \cap Ids(last)
    <3>1. PICK c \in clients, d \in last : c.id = i /\ d.id = i
      BY <2>5 DEF Ids
    <3>2. \A type : Said(type) =>
             c.online # d.online /\ type = IF c.online THEN "online" ELSE "offline"
      BY <1>7, <2>1, <2>4, <2>5, <3>1
    <3>3. c.online # d.online => Said(IF c.online THEN "online" ELSE "offline")
      <4>1. d.name = c.name
        <5>1. c.id.of = h /\ d.id.of = h
          BY <3>1, Addresses
        <5>2. c.name \in Names(h) /\ d.name \in Names(h)
          BY <1>2, <2>1, <5>1 DEF Orderly, ClientOf
        <5> QED
          BY <5>2 DEF Followed, NamedAlike
      <4>2. d.name \in DOMAIN old
        BY DEF Memories
      <4>3. PICK b \in last : b.name = d.name /\ b.online = old[d.name]
        BY <4>2 DEF Memories
      <4>4. b.id = i
        <5>1. d.name \in Names(h)
          <6>1. d.id.of = h
            BY <3>1, Addresses
          <6> QED
            BY <2>1, <6>1 DEF Orderly, ClientOf
        <5> QED
          BY <1>1, <2>1, <4>3, <5>1, AddressedClient DEF Followed
      <4>5. old[c.name] = d.online
        BY <2>1, <3>1, <4>1, <4>3, <4>4
      <4>6. ASSUME c.online # d.online
            PROVE  [type |-> IF c.online THEN "online" ELSE "offline", device |-> c.name]
                      \in emitted'
        BY <2>3, <4>1, <4>2, <4>5, <4>6 DEF Changed
      <4> QED
        BY <3>1, <4>6 DEF Says
    <3>4. (IsOnline(clients, i) <=> c.online) /\ (IsOnline(last, i) <=> d.online)
      BY <1>7, <2>1, <3>1 DEF IsOnline
    <3>5. c.online \in BOOLEAN /\ d.online \in BOOLEAN
      BY <1>2, <2>1 DEF Orderly, ClientOf, Clients
    <3>6. CASE c.online = d.online
      <4>1. ~Said("offline") /\ ~Said("online") /\ ~Said("discovered")
        BY <3>2, <3>6
      <4>2. told'[i] = told[i]
        BY <1>5, <1>9, <4>1
      <4>3. IsOnline(clients, i) <=> IsOnline(last, i)
        BY <3>4, <3>6
      <4> QED
        BY <2>2, <4>2, <4>3
    <3>7. CASE c.online # d.online
      BY <1>5, <1>6, <3>2, <3>3, <3>4, <3>5, <3>7
    <3> QED
      BY <3>6, <3>7
  <2>6. CASE i \in Ids(clients) /\ i \notin Ids(last)
    <3> DEFINE news == [type |-> "discovered", device |-> i]
    <3>1. Said("discovered")
      <4>1. news \in emitted'
        BY <2>3, <2>6 DEF Discovered
      <4>2. news.type = "discovered" /\ news.device = i
        OBVIOUS
      <4> HIDE DEF news
      <4> QED
        BY <4>1, <4>2 DEF Says
    <3>2. ~Said("offline") /\ ~Said("online")
      BY <2>4, <2>6 DEF Ids
    <3> QED
      BY <1>5, <1>6, <3>1, <3>2
  <2>7. CASE i \notin Ids(clients)
    <3>1. ~Said("online") /\ ~Said("discovered")
      BY <2>4, <2>7 DEF Ids
    <3> DEFINE loss == [type |-> "offline", device |-> i]
    <3>2. IsOnline(last, i) => Said("offline")
      <4>1. IsOnline(last, i) => loss \in emitted'
        BY <2>3, <2>7 DEF IsOnline, Vanished
      <4>2. loss.type = "offline" /\ loss.device = i
        OBVIOUS
      <4> HIDE DEF loss
      <4> QED
        BY <4>1, <4>2 DEF Says
    <3> QED
      BY <1>5, <1>6, <1>9, <2>2, <2>7, <3>1, <3>2
  <2> QED
    BY <2>5, <2>6, <2>7
<1> QED
  BY <1>8, <1>9

\* Between polls nobody is told anything.
LEMMA StatusPreserved ==
  ASSUME None \notin SUBSET Clients, StatusInv, [Next]_vars
  PROVE  StatusInv'
<1>1. InventoryInv'
  BY InventoryPreserved DEF StatusInv
<1>2. CASE Poll
  <2>1. last' # None
    BY <1>2, PollTypes DEF StatusInv
  <2> QED
    BY <1>1, <1>2, <2>1, PollDelivers DEF StatusInv, NothingTold
<1>3. CASE UNCHANGED vars
  <2>1. \A h : LeaseId(h)' = LeaseId(h) /\ (Followed(h)' <=> Followed(h))
    BY <1>3, HostsStay, FollowedStay DEF vars
  <2> QED
    BY <1>1, <1>3, <2>1
    DEF StatusInv, NothingTold, ClientStatusDelivered, Followed, IsOnline, vars
<1> QED
  BY <1>2, <1>3 DEF Next

\* Only a poll emits events.
LEMMA StaysTrue == InventoryInv /\ NoFalseOffline /\ [Next]_vars => NoFalseOffline'
<1> SUFFICES ASSUME InventoryInv, NoFalseOffline, [Next]_vars PROVE NoFalseOffline'
  OBVIOUS
<1>1. CASE UNCHANGED vars
  BY <1>1, HostsStay, FollowedStay DEF vars, NoFalseOffline
<1> QED
  BY <1>1, PollIsNotFalse DEF Next

-----------------------------------------------------------------------------
(* The theorems *)

\* Nothing has been listed or told.
LEMMA InitEstablishes == Init => StatusInv /\ NoFalseOffline
<1> SUFFICES ASSUME Init PROVE StatusInv /\ NoFalseOffline
  OBVIOUS
<1>1. TypeOK
  BY DEF Init, TypeOK, Heard
<1> QED
  BY <1>1 DEF Init, StatusInv, InventoryInv, NothingTold, ClientStatusDelivered, NoFalseOffline

\* All variables of the inventory keep their types: in particular, no snapshot
\* lists two clients under one id.
THEOREM TypeCorrect == Spec => []TypeOK
<1>1. Init => InventoryInv
  BY InitEstablishes DEF StatusInv
<1>2. InventoryInv => TypeOK
  BY DEF InventoryInv
<1> QED
  BY <1>1, <1>2, InventoryPreserved, PTL DEF Spec

\* docs/contract.md: the inventory "merges DHCP and ARP observations into child
\* entities".  A host whose lease and ARP entry carry the same identifier is one
\* client in every snapshot, whatever else they say and whoever shares its name.
THEOREM HostsAreOneClient == Spec => []OneEntityPerClient
<1>1. Init => InventoryInv
  BY InitEstablishes DEF StatusInv
<1>2. InventoryInv => OneEntityPerClient
  <2> SUFFICES ASSUME InventoryInv, last # None, NEW a \in last, NEW b \in last,
                      a.id.of = b.id.of, IdentifiedAlike(a.id.of)
               PROVE  a = b
    BY DEF OneEntityPerClient
  <2>1. a.id = LeaseId(a.id.of) /\ b.id = LeaseId(a.id.of)
    BY DEF InventoryInv, Orderly, ClientOf
  <2> QED
    BY <2>1 DEF InventoryInv, Orderly
<1> QED
  BY <1>1, <1>2, InventoryPreserved, PTL DEF Spec

\* A host that answers ARP and is identified alike is never reported offline by the
\* same snapshot.
THEOREM NeverFalselyOffline == Spec => []NoFalseOffline
<1>1. Init => InventoryInv /\ NoFalseOffline
  BY InitEstablishes DEF StatusInv
<1> QED
  BY <1>1, InventoryPreserved, StaysTrue, PTL DEF Spec

\* By what the events say, their followers know which hosts are online, or have
\* heard of their discovery and missed nothing since, as long as these hosts are one
\* client under one name of their own: no sequence of snapshots leaves them behind.
THEOREM StatusReachesFollowers ==
  ASSUME None \notin SUBSET Clients
  PROVE  Spec => []ClientStatusDelivered
<1>1. Init => StatusInv
  BY InitEstablishes
<1>2. StatusInv /\ [Next]_vars => StatusInv'
  BY StatusPreserved
<1>3. StatusInv => ClientStatusDelivered
  BY DEF StatusInv
<1> QED
  BY <1>1, <1>2, <1>3, PTL DEF Spec
=============================================================================
