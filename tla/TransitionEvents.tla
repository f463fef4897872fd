-------------------------- MODULE TransitionEvents --------------------------
(***************************************************************************)
(* How one session turns snapshots into transition events: the reads that  *)
(* _poll_loop and refresh() have under way, and _apply_snapshot with       *)
(* _emit_transitions (service.py).                                         *)
(*                                                                         *)
(* One collection of the snapshot is modelled: gateways, interfaces or     *)
(* services, CARP addresses by id instead of name, or the client           *)
(* inventory, which has rules of its own and, here, names that never       *)
(* change (see ClientInventory).  Items are numbers because the rules      *)
(* depend on their list order.                                             *)
(* A read samples the endpoint of the collection at some moment and its    *)
(* result is applied later, so two reads may be applied out of order.      *)
(* configure() may replace the session: it samples a probe, lets the old   *)
(* session go on meanwhile, stops its poller, and starts from the probe.   *)
(* A refresh of the old session may still return and be applied to it.     *)
(*                                                                         *)
(* The version of a status is history, not code: it tells apart what the   *)
(* properties speak about and no rule looks at it.                         *)
(***************************************************************************)
EXTENDS Naturals, FiniteSets, FiniteSetsExt

CONSTANTS Items,       \* members the collection may have, by list position
          Readers,     \* the poller and the refreshes that may overlap it
          Settings,    \* the circumstances to explore
          MaxVersion,  \* bound: status changes per item
          None

Status == {"up", "down", "absent"}

ASSUME TransitionAssumption ==
    /\ Items \subseteq Nat /\ IsFiniteSet(Items)
    /\ MaxVersion \in Nat \ {0}
    /\ None \notin [Items -> [status : Status, version : 0 .. MaxVersion]]
    /\ Settings \subseteq [
           clients  : BOOLEAN,          \* is this the client inventory?
           failing  : BOOLEAN,          \* may the endpoint of the collection fail?
           readers  : SUBSET Readers,   \* who reads
           refreshes : SUBSET Readers,  \* which of them outlive a session
           replaced : BOOLEAN,          \* may the session be replaced once?
           statuses : SUBSET Status,    \* what an item of the firewall may be
           name     : [Items -> Nat]]   \* the projected name of each item

VARIABLES
    setting,   \* the circumstances of this run; they never change
    world,     \* world[i]: the status item i has at the firewall
    inflight,  \* inflight[r]: the observation reader r returns with, or None
    last,      \* last_state: the observation applied last, or None
    told,      \* history: told[i]: what the baseline and events have said of item i
    emitted,   \* the events that the latest step has scheduled
    probe,     \* the probe of the session that is to replace this one, or None
    retired,   \* last_state of the replaced session, or None
    detached,  \* readers whose read was made for the replaced session
    overtaken, \* history: was anything applied after the probe was sampled?
    missed     \* history: items whose status the replacement has kept from told

vars == <<setting, world, inflight, last, told, emitted, probe, retired, detached,
          overtaken, missed>>
replacement == <<probe, retired, detached, overtaken, missed>>

Versioned == [status : Status, version : 0 .. MaxVersion]
Observation == [Items -> Versioned]
Unknown == [status |-> "absent", version |-> 0]

\* An event has a type, and that is all that it says of a status: one type for
\* each of the two, and network.client.discovered, which carries none.
Event(i, type) == [item |-> i, says |-> type]
EventTypes == [item : Items, says : {"up", "down", "discovered"}]

\* Of a client that was discovered followers know that it is there.  What it was
\* then is history, to tell whether they have missed anything since.
Found(s) == IF s = "up" THEN "found up" ELSE IF s = "down" THEN "found down" ELSE s
Heard == [status : Status \cup {"found up", "found down"}, version : 0 .. MaxVersion]

TypeOK ==
    /\ setting \in Settings
    /\ world \in Observation
    /\ inflight \in [Readers -> Observation \cup {None}]
    /\ last \in Observation \cup {None}
    /\ told \in [Items -> Heard]
    /\ emitted \subseteq EventTypes
    /\ probe \in Observation \cup {None}
    /\ retired \in Observation \cup {None}
    /\ detached \subseteq {r \in setting.refreshes : inflight[r] # None}
    /\ overtaken \in BOOLEAN
    /\ missed \subseteq Items

Init ==
    /\ setting \in Settings
    /\ world \in [Items -> {[status |-> s, version |-> 1] : s \in setting.statuses}]
    /\ inflight = [r \in Readers |-> None]
    /\ last = None
    /\ told = [i \in Items |-> Unknown]
    /\ emitted = {}
    /\ probe = None /\ retired = None
    /\ detached = {}
    /\ overtaken = FALSE
    /\ missed = {}

-----------------------------------------------------------------------------
Present(obs) == {i \in Items : obs[i].status # "absent"}

\* A failed endpoint is projected as an empty collection.
EmptyLeavesOut == [i \in {} |-> Unknown]
Empty == [i \in Items |-> Unknown]

\* The dict that _emit_transitions keys by name: of the items that share a
\* name, the last one of the list is the one remembered.
RemembersName(obs, name) == \E i \in Present(obs) : setting.name[i] = name
Remembered(obs, name) == obs[Max({i \in Present(obs) : setting.name[i] = name})].status

\* An event for each item whose status differs from the one remembered under its
\* name, of the type of the status that it has now.
Compared(prev, cur) == {i \in Present(cur) : RemembersName(prev, setting.name[i])}
ChangedOrNot(prev, cur) == {Event(i, cur[i].status) : i \in Compared(prev, cur)}
ChangedTypesSwapped(prev, cur) ==
    {Event(i, Remembered(prev, setting.name[i])) :
        i \in {j \in Compared(prev, cur) :
                 Remembered(prev, setting.name[j]) # cur[j].status}}
ChangedOneWay(prev, cur) ==
    {Event(i, "down") :
        i \in {j \in Compared(prev, cur) :
                 Remembered(prev, setting.name[j]) = "up" /\ cur[j].status = "down"}}
Changed(prev, cur) ==
    {Event(i, cur[i].status) :
        i \in {j \in Compared(prev, cur) :
                 Remembered(prev, setting.name[j]) # cur[j].status}}

\* Clients are also compared by id: network.client.offline for one that was
\* online and is gone, network.client.discovered for one that is new.
Vanished(prev, cur) ==
    {Event(i, "down") :
        i \in {j \in Items \ Present(cur) : setting.clients /\ prev[j].status = "up"}}
Discovered(prev, cur) ==
    {Event(i, "discovered") :
        i \in {j \in Present(cur) \ Present(prev) : setting.clients}}

Events(prev, cur) ==
    IF prev = None THEN {}
    ELSE Changed(prev, cur) \cup Vanished(prev, cur) \cup Discovered(prev, cur)

-----------------------------------------------------------------------------
(* The firewall *)

Flip(i) ==
    /\ world[i].version < MaxVersion
    /\ \E s \in setting.statuses \ {world[i].status} :
        world' = [world EXCEPT ![i] = [status |-> s, version |-> world[i].version + 1]]
    /\ emitted' = {}
    /\ UNCHANGED <<setting, inflight, last, told, replacement>>

(* read_snapshot *)

Sample(r) ==
    /\ inflight[r] = None
    /\ \/ inflight' = [inflight EXCEPT ![r] = world]
       \/ setting.failing /\ inflight' = [inflight EXCEPT ![r] = Empty]
    /\ emitted' = {}
    /\ UNCHANGED <<setting, world, last, told, replacement>>

\* The system endpoint fails, or the read is cancelled: nothing is applied.
ReadFails(r) ==
    /\ inflight[r] # None
    /\ inflight' = [inflight EXCEPT ![r] = None]
    /\ detached' = detached \ {r}
    /\ emitted' = {}
    /\ UNCHANGED <<setting, world, last, told, probe, retired, overtaken, missed>>

(* _apply_snapshot *)

\* What followers of the events know: the baseline, that is the first snapshot, and
\* since then what the types of the events say.
Told(cur, events) ==
    [i \in Items |->
        IF Event(i, "up") \in events THEN [cur[i] EXCEPT !.status = "up"]
        ELSE IF Event(i, "down") \in events THEN [cur[i] EXCEPT !.status = "down"]
        ELSE IF Event(i, "discovered") \in events
             THEN [cur[i] EXCEPT !.status = Found(cur[i].status)]
        ELSE IF last = None /\ i \in Present(cur) THEN cur[i]
        ELSE told[i]]

\* They know the status s of item i, or have heard of its discovery with that status
\* and of nothing since.
AgreesWith(heard, s) ==
    heard.status = s \/ (setting.clients /\ heard.status = Found(s))

Reported(events) == {e.item : e \in events}

ApplyKeepsFirst(r) ==
    /\ inflight[r] # None /\ r \notin detached
    /\ emitted' = Events(last, inflight[r])
    /\ told' = Told(inflight[r], emitted')
    /\ last' = IF last = None THEN inflight[r] ELSE last
    /\ inflight' = [inflight EXCEPT ![r] = None]
    /\ overtaken' = (overtaken \/ probe # None)
    /\ missed' = missed \ Reported(emitted')
    /\ UNCHANGED <<setting, world, probe, retired, detached>>
Apply(r) ==
    /\ inflight[r] # None /\ r \notin detached
    /\ emitted' = Events(last, inflight[r])
    /\ told' = Told(inflight[r], emitted')
    /\ last' = inflight[r]
    /\ inflight' = [inflight EXCEPT ![r] = None]
    /\ overtaken' = (overtaken \/ probe # None)
    /\ missed' = missed \ Reported(emitted')
    /\ UNCHANGED <<setting, world, probe, retired, detached>>

(* configure() of a configuration that has a session *)

Probe ==
    /\ setting.replaced /\ retired = None /\ probe = None /\ last # None
    /\ probe' \in {world} \cup (IF setting.failing THEN {Empty} ELSE {})
    /\ emitted' = {}
    /\ UNCHANGED <<setting, world, inflight, last, told, retired, detached, overtaken,
                   missed>>

\* The poller is cancelled and the client closed.  A refresh whose system
\* endpoint has answered goes on; the endpoints that have not yet, fail.
Replace ==
    /\ probe # None
    /\ \E late \in SUBSET {r \in setting.refreshes : inflight[r] # None},
          cut \in SUBSET Readers :
        /\ cut \subseteq late
        /\ detached' = late
        /\ inflight' = [r \in Readers |->
              IF r \in cut THEN Empty ELSE IF r \in late THEN inflight[r] ELSE None]
    /\ retired' = last
    /\ last' = probe
    /\ probe' = None
    /\ emitted' = {}
    /\ missed' = {i \in Items : ~AgreesWith(told[i], probe[i].status)}
    /\ UNCHANGED <<setting, world, told, overtaken>>

\* The refresh of a session that has been replaced is applied like any other, and
\* is compared with what that session has seen.
ApplyDetached(r) ==
    /\ r \in detached
    /\ emitted' = Events(retired, inflight[r])
    /\ told' = Told(inflight[r], emitted')
    /\ retired' = inflight[r]
    /\ detached' = detached \ {r}
    /\ inflight' = [inflight EXCEPT ![r] = None]
    /\ missed' = {i \in missed \cup Reported(emitted') :
                     ~AgreesWith(told'[i], last[i].status)}
    /\ UNCHANGED <<setting, world, last, probe, overtaken>>

Next ==
    \/ \E i \in Items : Flip(i)
    \/ \E r \in setting.readers :
        Sample(r) \/ ReadFails(r) \/ Apply(r) \/ ApplyDetached(r)
    \/ Probe
    \/ Replace

Spec == Init /\ [][Next]_vars

\* The poller reads again and again, and it is not the case that all its reads
\* fail from some moment on.
FairSpec ==
    /\ Spec
    /\ \A r \in Readers :
        /\ WF_vars(r \in setting.readers /\ Sample(r))
        /\ SF_vars(r \in setting.readers /\ Apply(r))

-----------------------------------------------------------------------------
\* README.md: "Gateway, interface, and service up/down transitions are
\* delivered as Runtime SDK integration events".  Whoever follows the events
\* knows the status that the latest snapshot has for every item in it.
TransitionsDelivered ==
    last # None => \A i \in Present(last) : AgreesWith(told[i], last[i].status)

\* Whom the rules can tell apart and compare: items with names of their own.  Of
\* the collections that only compare statuses, also those that are never empty
\* for a while, because the endpoint fails or the item is not there.
OwnNames == \A i, j \in Items : setting.name[i] = setting.name[j] => i = j
Comparable ==
    OwnNames /\ (setting.clients \/ (~setting.failing /\ "absent" \notin setting.statuses))

\* They do for those, in whatever order reads are applied.  The client inventory is
\* immune to failures, because its disappearances are events too.  Of a client that
\* was discovered followers know no more than that, and that its status has not
\* changed since.
\* Replacing the session costs followers the changes that fall between the last
\* snapshot of the old session and the probe of the new one, and what a late
\* refresh of the old session takes back, until the item changes again.
DeliveredWhenAnswered ==
    (last # None /\ Comparable) =>
        \A i \in Present(last) \ missed : AgreesWith(told[i], last[i].status)

\* docs/contract.md: events are emitted "only after an observed child state
\* transition".  An event for an item reports a status newer than what had
\* been said of it: nothing is reported twice, made up, or taken back.  That
\* takes a single reader, none that outlives its session, and items with names of
\* their own.  A failing endpoint loses events and adds none, except for clients,
\* which all seem to vanish.
\* Nor does replacing the session add any, unless the old one goes on reporting
\* after the new one was probed: then the new one reports the same again.
Orderly ==
    /\ \A a, b \in setting.readers : a = b
    /\ setting.refreshes = {}
    /\ OwnNames
    /\ ~(setting.clients /\ setting.failing)
NoSpuriousEventsInOrder ==
    [][(Orderly /\ ~overtaken) =>
           \A e \in emitted' : last'[e.item].version > told[e.item].version]_vars

\* When the firewall is stable and reads keep succeeding, the followers of the
\* events end up with the true status of items with names of their own, or with
\* the discovery of a client that has it, in whatever order reads are applied and
\* also after a replacement, but for what that has kept from them.
EventuallyTold ==
    \A i \in Items :
        (/\ ~setting.failing
         /\ world[i].version = MaxVersion
         /\ world[i].status # "absent")
            ~> (AgreesWith(told[i], world[i].status) \/ i \in missed)
=============================================================================
