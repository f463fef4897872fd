----------------------- MODULE TransitionEventsProofs -----------------------
(***************************************************************************)
(* What TransitionEvents promises for any number of items and readers, of  *)
(* any circumstances: endpoints that fail, reads applied in any order, a   *)
(* session that is replaced with refreshes that outlive it.                *)
(*                                                                         *)
(* Two arguments, that share only the types.  Delivery needs no order:     *)
(* followers agree with the snapshot applied last, whichever that is.      *)
(* That nothing is made up is all about order: with one reader every       *)
(* snapshot is at least as new as the one before.                          *)
(***************************************************************************)
EXTENDS TransitionEvents, TLAPS

\* Nothing is left out.
Full(obs) == Present(obs) = Items

\* Of a comparable collection that only compares statuses, everything that the
\* session in service has been or will be compared with is full.
FullDiscipline ==
    (Comparable /\ ~setting.clients) =>
        /\ Full(world)
        /\ last # None => Full(last)
        /\ probe # None => Full(probe)
        /\ \A r \in Readers : inflight[r] # None /\ r \notin detached => Full(inflight[r])

\* Before the first snapshot there is nothing to replace.
BaselineDiscipline == last = None => probe = None /\ detached = {}

DeliveryInv == TypeOK /\ FullDiscipline /\ BaselineDiscipline /\ DeliveredWhenAnswered

\* One status of an item is that of another or an earlier one; and what stands for
\* an item of a failed endpoint, which is of no version at all.
Precedes(a, b) == a = b \/ a.version < b.version
Blank(a) == a.version = 0

\* A snapshot has an item as it is or was, and followers have not heard of anything
\* newer; or its endpoint failed.
Sound(obs, i) ==
    IF Blank(obs[i])
    THEN setting.failing /\ obs[i].status = "absent"
    ELSE told[i].version <= obs[i].version /\ Precedes(obs[i], world[i])

\* Snapshots are sound, and the one applied last is no newer than one under way.
OrderDiscipline ==
    (Orderly /\ ~overtaken) =>
        \A i \in Items :
            /\ ~Blank(world[i]) /\ told[i].version <= world[i].version
            /\ last # None => Sound(last, i)
            /\ last = None => probe = None
            /\ probe # None => Sound(probe, i)
            /\ \A r \in setting.readers : inflight[r] # None =>
                /\ Sound(inflight[r], i)
                /\ last # None /\ ~Blank(last[i]) /\ ~Blank(inflight[r][i])
                      => Precedes(last[i], inflight[r][i])

OrderInv == TypeOK /\ OrderDiscipline

-----------------------------------------------------------------------------
(* Types *)

\* What the assumption says of the circumstances of a run, and of None.
LEMMA SettingTypes ==
  ASSUME TypeOK
  PROVE  /\ setting.clients \in BOOLEAN /\ setting.failing \in BOOLEAN
         /\ setting.readers \subseteq Readers /\ setting.refreshes \subseteq Readers
         /\ setting.statuses \subseteq Status
         /\ setting.name \in [Items -> Nat]
BY TransitionAssumption DEF TypeOK

\* What the assumption says of the constants.
LEMMA ConstantTypes ==
  /\ Items \subseteq Nat
  /\ MaxVersion \in Nat \ {0}
  /\ None \notin Observation
  /\ Unknown \in Versioned /\ Unknown \in Heard
  /\ Empty \in Observation
<1>1. Unknown \in Versioned
  BY TransitionAssumption DEF Unknown, Versioned, Status
<1>2. Empty \in Observation
  BY <1>1 DEF Empty, Observation
<1>3. Unknown \in Heard
  BY <1>1 DEF Versioned, Heard
<1> QED
  BY <1>1, <1>2, <1>3, TransitionAssumption DEF Observation, Versioned

\* What followers have heard is a status, and the version of it.
LEMMA ToldTypes ==
  ASSUME TypeOK, NEW cur \in Observation, NEW events
  PROVE  Told(cur, events) \in [Items -> Heard]
<1> SUFFICES ASSUME NEW i \in Items PROVE Told(cur, events)[i] \in Heard
  BY DEF Told
<1>1. cur[i] \in Versioned /\ told[i] \in Heard
  BY DEF Observation, TypeOK
<1>2. Found(cur[i].status) \in Status \cup {"found up", "found down"}
  BY <1>1 DEF Found, Versioned
<1>3. \A x \in Status \cup {"found up", "found down"} : [cur[i] EXCEPT !.status = x] \in Heard
  BY <1>1 DEF Versioned, Heard
<1>4. "up" \in Status /\ "down" \in Status /\ cur[i] \in Heard
  BY <1>1 DEF Versioned, Heard, Status
<1> QED
  BY <1>1, <1>2, <1>3, <1>4 DEF Told

\* Versions are numbers.
LEMMA VersionTypes ==
  ASSUME TypeOK, NEW i \in Items
  PROVE  /\ told[i].version \in Nat /\ world[i].version \in Nat
         /\ \A obs \in Observation : obs[i].version \in Nat
<1>1. told[i] \in Heard /\ world[i] \in Versioned
  BY DEF TypeOK, Observation
<1>2. told[i].version \in 0 .. MaxVersion
  BY <1>1 DEF Heard
<1>3. 0 .. MaxVersion \subseteq Nat
  BY ConstantTypes
<1> QED
  BY <1>1, <1>2, <1>3 DEF Versioned, Observation

\* What is scheduled are events of a type.
LEMMA EventsTypes ==
  ASSUME NEW prev, NEW cur \in Observation
  PROVE  Events(prev, cur) \subseteq EventTypes
<1>1. \A i \in Present(cur) : i \in Items /\ cur[i].status \in {"up", "down"}
  BY DEF Present, Observation, Versioned, Status
<1>2. Changed(prev, cur) \subseteq EventTypes
  BY <1>1 DEF Changed, Compared, Event, EventTypes
<1>3. Vanished(prev, cur) \subseteq EventTypes /\ Discovered(prev, cur) \subseteq EventTypes
  BY <1>1 DEF Vanished, Discovered, Event, EventTypes
<1> QED
  BY <1>2, <1>3 DEF Events

\* Every step keeps the types.
LEMMA TypesPreserved == TypeOK /\ [Next]_vars => TypeOK'
<1> SUFFICES ASSUME TypeOK, [Next]_vars PROVE TypeOK'
  OBVIOUS
<1> USE ConstantTypes
<1>1. ASSUME NEW i \in Items, Flip(i) PROVE TypeOK'
  <2>1. PICK s \in setting.statuses :
          world' = [world EXCEPT ![i] = [status |-> s, version |-> world[i].version + 1]]
    BY <1>1 DEF Flip
  <2>2. world[i].version + 1 \in 0 .. MaxVersion /\ s \in Status
    BY <1>1, <2>1, SettingTypes DEF Flip, TypeOK, Observation, Versioned
  <2>3. world' \in Observation
    BY <2>1, <2>2 DEF TypeOK, Observation, Versioned
  <2> QED
    BY <1>1, <2>3 DEF Flip, TypeOK, replacement
<1>2. ASSUME NEW r \in Readers, Sample(r) PROVE TypeOK'
  <2>1. PICK obs \in Observation : inflight' = [inflight EXCEPT ![r] = obs]
    BY <1>2 DEF Sample, TypeOK
  <2>2. inflight' \in [Readers -> Observation \cup {None}]
    BY <2>1 DEF TypeOK
  <2>3. detached \subseteq {q \in setting.refreshes : inflight'[q] # None}
    BY <1>2, <2>1, SettingTypes DEF Sample, TypeOK
  <2> QED
    BY <1>2, <2>2, <2>3 DEF Sample, TypeOK, replacement
<1>3. ASSUME NEW r \in Readers, ReadFails(r) PROVE TypeOK'
  BY <1>3 DEF ReadFails, TypeOK
<1>4. ASSUME NEW r \in Readers, Apply(r) PROVE TypeOK'
  <2>1. inflight[r] \in Observation
    BY <1>4 DEF Apply, TypeOK
  <2>2. told' \in [Items -> Heard]
    BY <1>4, <2>1, ToldTypes DEF Apply
  <2>3. emitted' \subseteq EventTypes
    BY <1>4, <2>1, EventsTypes DEF Apply
  <2>4. inflight' \in [Readers -> Observation \cup {None}] /\ overtaken' \in BOOLEAN
    BY <1>4 DEF Apply, TypeOK
  <2>5. detached \subseteq {q \in setting.refreshes : inflight'[q] # None}
    BY <1>4, SettingTypes DEF Apply, TypeOK
  <2> QED
    BY <1>4, <2>1, <2>2, <2>3, <2>4, <2>5 DEF Apply, TypeOK
<1>5. ASSUME NEW r \in Readers, ApplyDetached(r) PROVE TypeOK'
  <2>1. inflight[r] \in Observation
    BY <1>5 DEF ApplyDetached, TypeOK
  <2>2. told' \in [Items -> Heard]
    BY <1>5, <2>1, ToldTypes DEF ApplyDetached
  <2>3. emitted' \subseteq EventTypes
    BY <1>5, <2>1, EventsTypes DEF ApplyDetached
  <2>4. missed' \subseteq Items
    BY <1>5, <2>3 DEF ApplyDetached, Reported, EventTypes, TypeOK
  <2> QED
    BY <1>5, <2>1, <2>2, <2>3, <2>4 DEF ApplyDetached, TypeOK
<1>6. CASE Probe
  BY <1>6 DEF Probe, TypeOK
<1>7. CASE Replace
  <2>1. probe \in Observation
    BY <1>7 DEF Replace, TypeOK
  <2>2. told' \in [Items -> Heard]
    BY <1>7 DEF Replace, TypeOK
  <2>3. /\ inflight' \in [Readers -> Observation \cup {None}]
        /\ detached' \subseteq {r \in setting.refreshes : inflight'[r] # None}
    BY <1>7, SettingTypes DEF Replace, TypeOK
  <2>4. missed' \subseteq Items /\ emitted' = {}
    BY <1>7 DEF Replace
  <2> QED
    BY <1>7, <2>1, <2>2, <2>3, <2>4 DEF Replace, TypeOK
<1>8. CASE UNCHANGED vars
  BY <1>8 DEF vars, TypeOK
<1> QED
  BY <1>1, <1>2, <1>3, <1>4, <1>5, <1>6, <1>7, <1>8, SettingTypes DEF Next

\* The circumstances never change.
LEMMA SettingStays ==
  ASSUME [Next]_vars
  PROVE  setting' = setting
BY DEF Next, Flip, Sample, ReadFails, Apply, ApplyDetached, Probe, Replace, vars

-----------------------------------------------------------------------------
(* _emit_transitions *)

\* A name of its own leads back to its item.
LEMMA OwnNameRemembered ==
  ASSUME TypeOK, OwnNames, NEW obs, NEW i \in Items
  PROVE  /\ RemembersName(obs, setting.name[i]) <=> i \in Present(obs)
         /\ i \in Present(obs) => Remembered(obs, setting.name[i]) = obs[i].status
<1>1. RemembersName(obs, setting.name[i]) <=> i \in Present(obs)
  BY DEF RemembersName, OwnNames, Present
<1>2. ASSUME i \in Present(obs) PROVE Remembered(obs, setting.name[i]) = obs[i].status
  <2>1. {j \in Present(obs) : setting.name[j] = setting.name[i]} = {i}
    BY <1>2 DEF OwnNames, Present
  <2>2. Max({i}) = i
    <3>1. \E x \in {i} : \A y \in {i} : x >= y
      BY ConstantTypes
    <3> QED
      BY <3>1 DEF Max
  <2> QED
    BY <2>1, <2>2 DEF Remembered
<1> QED
  BY <1>1, <1>2

\* So a status is compared with that of the same item, ...
LEMMA ChangesAreOwn ==
  ASSUME TypeOK, OwnNames, NEW prev, NEW cur, NEW e
  PROVE  e \in Changed(prev, cur) <=>
            \E i \in Present(cur) \cap Present(prev) :
                e = Event(i, cur[i].status) /\ prev[i].status # cur[i].status
<1>1. \A i \in Present(cur) : i \in Items
  BY DEF Present
<1>2. \A i \in Present(cur) :
        /\ i \in Compared(prev, cur) <=> i \in Present(prev)
        /\ i \in Compared(prev, cur) => Remembered(prev, setting.name[i]) = prev[i].status
  BY <1>1, OwnNameRemembered DEF Compared
<1> QED
  BY <1>2 DEF Changed, Compared

\* ... and an item about which nothing is emitted has the status it had, where
\* snapshots are full or new items are announced.
LEMMA SilenceIsAgreement ==
  ASSUME TypeOK, OwnNames, NEW prev, prev # None, NEW cur,
         setting.clients \/ Full(prev),
         NEW i \in Present(cur), i \notin Reported(Events(prev, cur))
  PROVE  i \in Present(prev) /\ prev[i].status = cur[i].status
<1>1. \A s : Event(i, s) \notin Events(prev, cur)
  BY DEF Reported, Event
<1>2. i \in Present(prev)
  <2>1. CASE setting.clients
    BY <1>1, <2>1 DEF Events, Discovered
  <2>2. CASE Full(prev)
    BY <2>2 DEF Full, Present
  <2> QED
    BY <2>1, <2>2
<1>3. Event(i, cur[i].status) \notin Changed(prev, cur)
  BY <1>1 DEF Events
<1> QED
  BY <1>2, <1>3, ChangesAreOwn

\* What events say of an item that is there is the status it has, or that it is new.
LEMMA EventsSayTheStatus ==
  ASSUME NEW prev, NEW cur, NEW i \in Present(cur), NEW s, Event(i, s) \in Events(prev, cur)
  PROVE  s = cur[i].status \/ (s = "discovered" /\ setting.clients)
<1>1. \A j, t : Event(i, s) = Event(j, t) => i = j /\ s = t
  BY DEF Event
<1>2. Event(i, s) \notin Vanished(prev, cur)
  BY <1>1 DEF Vanished
<1>3. Event(i, s) \in Changed(prev, cur) => s = cur[i].status
  BY <1>1 DEF Changed
<1>4. Event(i, s) \in Discovered(prev, cur) => s = "discovered" /\ setting.clients
  BY <1>1 DEF Discovered
<1> QED
  BY <1>2, <1>3, <1>4 DEF Events

\* Of an item followers know what an event has just said, the baseline, or what they
\* knew.
LEMMA ToldOf ==
  ASSUME NEW cur \in Observation, NEW events \in SUBSET EventTypes, NEW i \in Items
  PROVE  /\ \/ Told(cur, events)[i] = told[i]
            \/ Told(cur, events)[i].version = cur[i].version
         /\ i \notin Reported(events) /\ (last # None \/ i \notin Present(cur))
               => Told(cur, events)[i] = told[i]
         /\ i \notin Reported(events) /\ last = None /\ i \in Present(cur)
               => Told(cur, events)[i] = cur[i]
<1>1. cur[i] \in Versioned
  BY DEF Observation
<1>2. \A x : [cur[i] EXCEPT !.status = x].version = cur[i].version
  BY <1>1 DEF Versioned
<1>3. i \notin Reported(events) => \A s : Event(i, s) \notin events
  BY DEF Reported, Event
<1> QED
  BY <1>2, <1>3 DEF Told

\* Of an item about which something is emitted, they know the status that it has.
LEMMA ReportsAreHeard ==
  ASSUME NEW prev, NEW cur \in Observation, NEW i \in Present(cur),
         i \in Reported(Events(prev, cur))
  PROVE  AgreesWith(Told(cur, Events(prev, cur))[i], cur[i].status)
<1> DEFINE events == Events(prev, cur)
<1>1. i \in Items /\ cur[i] \in Versioned
  BY DEF Present, Observation
<1>2. PICK e \in events : e.item = i
  BY DEF Reported
<1>3. e = Event(i, e.says) /\ e.says \in {"up", "down", "discovered"}
  BY <1>2, EventsTypes DEF EventTypes, Event
<1>4. Event(i, "up") \in events \/ Event(i, "down") \in events
         \/ Event(i, "discovered") \in events
  BY <1>2, <1>3
<1>5. /\ Event(i, "up") \in events => cur[i].status = "up"
      /\ Event(i, "down") \in events => cur[i].status = "down"
      /\ Event(i, "discovered") \in events /\ cur[i].status # "discovered" => setting.clients
  BY EventsSayTheStatus
<1>6. cur[i].status # "discovered"
  BY <1>1 DEF Versioned, Status
<1>7. \A x : [cur[i] EXCEPT !.status = x].status = x
  BY <1>1 DEF Versioned
<1> QED
  BY <1>1, <1>4, <1>5, <1>6, <1>7 DEF Told, AgreesWith

-----------------------------------------------------------------------------
(* Delivery *)

\* Followers agree with a snapshot that has been applied, but for the items that
\* a replacement has kept from them and that it says nothing new of.
LEMMA ApplyDelivers ==
  ASSUME DeliveryInv, NEW r \in Readers, Apply(r)
  PROVE  DeliveredWhenAnswered'
<1> DEFINE cur == inflight[r]
<1>1. cur \in Observation /\ told' = Told(cur, emitted') /\ emitted' = Events(last, cur)
      /\ emitted' \in SUBSET EventTypes /\ last' = cur /\ UNCHANGED setting
  BY EventsTypes DEF Apply, DeliveryInv, TypeOK
<1> SUFFICES ASSUME Comparable, NEW i \in Present(cur), i \notin missed'
             PROVE  AgreesWith(told'[i], cur[i].status)
  BY <1>1 DEF DeliveredWhenAnswered, Comparable, OwnNames, Present, AgreesWith
<1>2. i \in Items
  BY DEF Present
<1>3. CASE i \in Reported(emitted')
  BY <1>1, <1>3, ReportsAreHeard
<1>4. CASE i \notin Reported(emitted') /\ last # None
  <2>1. i \in Present(last) /\ last[i].status = cur[i].status
    BY <1>1, <1>4, SilenceIsAgreement DEF DeliveryInv, FullDiscipline, Comparable
  <2>2. i \notin missed
    BY <1>4 DEF Apply
  <2>3. AgreesWith(told[i], cur[i].status)
    BY <1>4, <2>1, <2>2 DEF DeliveryInv, DeliveredWhenAnswered
  <2> QED
    BY <1>1, <1>2, <1>4, <2>3, ToldOf
<1>5. CASE i \notin Reported(emitted') /\ last = None
  <2>1. told'[i] = cur[i]
    BY <1>1, <1>2, <1>5, ToldOf
  <2> QED
    BY <2>1 DEF AgreesWith
<1> QED
  BY <1>3, <1>4, <1>5

\* A replacement says nothing, and what it keeps from followers is missed.
LEMMA ReplaceDelivers ==
  ASSUME DeliveryInv, Replace
  PROVE  DeliveredWhenAnswered'
<1>1. UNCHANGED <<setting, told>> /\ last' = probe
      /\ missed' = {i \in Items : ~AgreesWith(told[i], probe[i].status)}
  BY DEF Replace
<1> QED
  BY <1>1 DEF DeliveredWhenAnswered, Present, AgreesWith

\* A late refresh of the old session tells followers what it likes, and the items of
\* which it leaves them with another status than the new session are missed.
LEMMA ApplyDetachedDelivers ==
  ASSUME DeliveryInv, NEW r \in Readers, ApplyDetached(r)
  PROVE  DeliveredWhenAnswered'
<1> DEFINE cur == inflight[r]
<1>1. /\ cur \in Observation /\ emitted' \in SUBSET EventTypes
      /\ told' = Told(cur, emitted') /\ UNCHANGED <<setting, last>>
      /\ missed' = {j \in missed \cup Reported(emitted') :
                       ~AgreesWith(told'[j], last[j].status)}
  BY EventsTypes DEF ApplyDetached, DeliveryInv, TypeOK
<1> SUFFICES ASSUME last # None, Comparable, NEW i \in Present(last), i \notin missed'
             PROVE  AgreesWith(told'[i], last[i].status)
  BY <1>1 DEF DeliveredWhenAnswered, Comparable, OwnNames, Present, AgreesWith
<1>2. i \in Items
  BY DEF Present
<1>3. CASE i \in missed \cup Reported(emitted')
  BY <1>1, <1>3
<1>4. CASE i \notin missed \cup Reported(emitted')
  <2>1. AgreesWith(told[i], last[i].status)
    BY <1>4 DEF DeliveryInv, DeliveredWhenAnswered
  <2> QED
    BY <1>1, <1>2, <1>4, <2>1, ToldOf
<1> QED
  BY <1>3, <1>4

\* Full snapshots stay full: nothing of the firewall becomes absent, no endpoint
\* fails, and what a closed client could not fetch goes to the old session.
LEMMA FullPreserved ==
  ASSUME DeliveryInv, [Next]_vars
  PROVE  FullDiscipline'
<1> SUFFICES ASSUME Comparable, ~setting.clients
             PROVE  /\ Full(world)'
                    /\ last' # None => Full(last)'
                    /\ probe' # None => Full(probe)'
                    /\ \A r \in Readers :
                          inflight'[r] # None /\ r \notin detached' => Full(inflight'[r])
  BY SettingStays DEF FullDiscipline, Comparable, OwnNames, Full, Present
<1>1. ~setting.failing /\ "absent" \notin setting.statuses
  BY DEF Comparable
<1>2. /\ Full(world)
      /\ last # None => Full(last)
      /\ probe # None => Full(probe)
      /\ \A r \in Readers : inflight[r] # None /\ r \notin detached => Full(inflight[r])
  BY DEF DeliveryInv, FullDiscipline
<1>3. TypeOK
  BY DEF DeliveryInv
<1>4. ASSUME NEW i \in Items, Flip(i) PROVE Full(world)'
  BY <1>1, <1>2, <1>3, <1>4 DEF Flip, TypeOK, Observation, Full, Present
<1>5. ASSUME NEW r \in Readers, Sample(r)
      PROVE  \A q \in Readers : inflight'[q] # None /\ q \notin detached => Full(inflight'[q])
  BY <1>1, <1>2, <1>3, <1>5 DEF Sample, TypeOK
<1>6. ASSUME NEW r \in Readers, ReadFails(r) \/ Apply(r) \/ ApplyDetached(r)
      PROVE  /\ \A q \in Readers : inflight'[q] # None /\ q \notin detached' => Full(inflight'[q])
             /\ last' # None => Full(last)'
             /\ UNCHANGED <<world, probe>>
  <2>1. inflight' = [inflight EXCEPT ![r] = None] /\ detached' \in {detached, detached \ {r}}
    BY <1>6 DEF ReadFails, Apply, ApplyDetached
  <2>2. \A q \in Readers \ {r} : inflight'[q] = inflight[q] /\ (q \in detached' <=> q \in detached)
    BY <1>3, <2>1 DEF TypeOK
  <2>3. inflight'[r] = None
    BY <1>3, <2>1 DEF TypeOK
  <2>4. last' # None => Full(last)'
    BY <1>2, <1>6 DEF ReadFails, Apply, ApplyDetached, Full, Present
  <2> QED
    BY <1>2, <1>6, <2>2, <2>3, <2>4 DEF ReadFails, Apply, ApplyDetached
<1>7. CASE Probe
  BY <1>1, <1>2, <1>7 DEF Probe, Full, Present
<1>8. CASE Replace
  <2>1. last' = probe /\ probe # None /\ probe' = None /\ UNCHANGED world
    BY <1>8 DEF Replace
  <2>2. \A q \in Readers : q \notin detached' => inflight'[q] = None
    BY <1>8 DEF Replace
  <2> QED
    BY <1>2, <2>1, <2>2 DEF Full, Present
<1>9. CASE UNCHANGED vars
  BY <1>2, <1>9 DEF vars, Full, Present
<1>10. ASSUME NEW i \in Items, Flip(i)
       PROVE  UNCHANGED <<inflight, last, probe, detached>>
  BY <1>10 DEF Flip, replacement
<1>11. ASSUME NEW r \in Readers, Sample(r)
       PROVE  UNCHANGED <<world, last, probe, detached>>
  BY <1>11 DEF Sample, replacement
<1> QED
  BY <1>2, <1>3, <1>4, <1>5, <1>6, <1>7, <1>8, <1>9, <1>10, <1>11, SettingTypes
  DEF Next, Full, Present, Probe

\* Once a snapshot has been applied there always is one.
LEMMA BaselinePreserved ==
  ASSUME DeliveryInv, [Next]_vars
  PROVE  BaselineDiscipline'
<1>1. ASSUME NEW r \in Readers, ApplyDetached(r) PROVE last # None
  BY <1>1 DEF ApplyDetached, DeliveryInv, BaselineDiscipline
<1>2. ASSUME NEW r \in Readers, Apply(r) PROVE last' # None
  BY <1>2 DEF Apply
<1>3. Replace => last' # None
  BY DEF Replace
<1>4. Probe => last' # None
  BY DEF Probe
<1>5. \A r \in Readers : ReadFails(r) => UNCHANGED <<last, probe>> /\ detached' \subseteq detached
  BY DEF ReadFails
<1>6. (\E i \in Items : Flip(i)) \/ (\E r \in Readers : Sample(r)) \/ UNCHANGED vars
        => UNCHANGED <<last, probe, detached>>
  BY DEF Flip, Sample, replacement, vars
<1>7. \A r \in Readers : ApplyDetached(r) => UNCHANGED last
  BY DEF ApplyDetached
<1>8. setting.readers \subseteq Readers
  BY SettingTypes DEF DeliveryInv
<1> QED
  BY <1>1, <1>2, <1>3, <1>4, <1>5, <1>6, <1>7, <1>8
  DEF Next, DeliveryInv, BaselineDiscipline

\* Every step keeps the invariant of delivery.
LEMMA DeliveryPreserved == DeliveryInv /\ [Next]_vars => DeliveryInv'
<1> SUFFICES ASSUME DeliveryInv, [Next]_vars PROVE DeliveryInv'
  OBVIOUS
<1>1. TypeOK' /\ FullDiscipline' /\ BaselineDiscipline'
  BY TypesPreserved, FullPreserved, BaselinePreserved DEF DeliveryInv
<1>2. ASSUME UNCHANGED <<setting, last, told, missed>> PROVE DeliveredWhenAnswered'
  BY <1>2 DEF DeliveryInv, DeliveredWhenAnswered, Comparable, OwnNames, Present, AgreesWith
<1>3. (\E i \in Items : Flip(i)) \/ (\E r \in Readers : Sample(r) \/ ReadFails(r)) \/ Probe
        \/ UNCHANGED vars
        => UNCHANGED <<setting, last, told, missed>>
  BY DEF Flip, Sample, ReadFails, Probe, replacement, vars
<1>4. setting.readers \subseteq Readers
  BY SettingTypes DEF DeliveryInv
<1>5. DeliveredWhenAnswered'
  BY <1>2, <1>3, <1>4, ApplyDelivers, ReplaceDelivers, ApplyDetachedDelivers DEF Next
<1> QED
  BY <1>1, <1>5 DEF DeliveryInv

\* Nothing has been read and nobody told anything.
LEMMA InitDelivers == Init => DeliveryInv
<1> SUFFICES ASSUME Init PROVE DeliveryInv
  OBVIOUS
<1>1. setting \in Settings /\ setting.statuses \subseteq Status
  BY TransitionAssumption DEF Init
<1>2. world \in Observation
  BY <1>1, ConstantTypes DEF Init, Observation, Versioned
<1>3. TypeOK
  BY <1>1, <1>2, ConstantTypes DEF Init, TypeOK, Observation
<1>4. "absent" \notin setting.statuses => Full(world)
  BY DEF Init, Full, Present
<1> QED
  BY <1>3, <1>4
  DEF Init, DeliveryInv, FullDiscipline, BaselineDiscipline, Comparable, DeliveredWhenAnswered

\* The first induction: at every moment followers agree with the snapshot that was
\* applied last, and the snapshots to come are full where that matters.
THEOREM DeliveryInvariance == Spec => []DeliveryInv
BY InitDelivers, DeliveryPreserved, PTL DEF Spec

\* The types, for any items, readers and circumstances.
THEOREM TypeCorrect == Spec => []TypeOK
<1>1. DeliveryInv => TypeOK
  BY DEF DeliveryInv
<1> QED
  BY <1>1, DeliveryInvariance, PTL

\* README.md: transitions "are delivered as Runtime SDK integration events".  In
\* any order of any number of reads, across a replacement and the refreshes that
\* outlive it, followers know the status of whatever can be compared, but for
\* what the replacement keeps from them.
THEOREM TransitionsAreDelivered == Spec => []DeliveredWhenAnswered
<1>1. DeliveryInv => DeliveredWhenAnswered
  BY DEF DeliveryInv
<1> QED
  BY <1>1, DeliveryInvariance, PTL

-----------------------------------------------------------------------------
(* Order *)

\* Nothing ever compares what a snapshot of a failed endpoint has of an item.
LEMMA NoBlankEvents ==
  ASSUME OrderInv, Orderly, ~overtaken,
         NEW r \in setting.readers, inflight[r] # None,
         NEW i \in Reported(Events(last, inflight[r]))
  PROVE  /\ i \in Items /\ last # None /\ ~Blank(last[i]) /\ ~Blank(inflight[r][i])
         /\ last[i] # inflight[r][i]
<1> DEFINE cur == inflight[r]
<1>1. PICK e \in Events(last, cur) : e.item = i
  BY DEF Reported
<1>2. last # None /\ \A j, s : Event(j, s).item = j
  BY <1>1 DEF Events, Event
<1>3. CASE e \in Changed(last, cur)
  <2>1. i \in Present(cur) \cap Present(last) /\ last[i].status # cur[i].status
    BY <1>1, <1>2, <1>3, ChangesAreOwn DEF OrderInv, Orderly
  <2>2. i \in Items /\ Sound(last, i) /\ Sound(cur, i)
    BY <1>2, <2>1 DEF OrderInv, OrderDiscipline, Present
  <2> QED
    BY <1>2, <2>1, <2>2 DEF Sound, Present
<1>4. CASE setting.clients /\ e \in Vanished(last, cur) \cup Discovered(last, cur)
  <2>1. i \in Items /\ last[i].status # cur[i].status
    BY <1>1, <1>2, <1>4 DEF Vanished, Discovered, Present
  <2>2. Sound(last, i) /\ Sound(cur, i) /\ ~setting.failing
    BY <1>2, <1>4, <2>1 DEF OrderInv, OrderDiscipline, Orderly
  <2> QED
    BY <1>2, <2>1, <2>2 DEF Sound
<1> QED
  BY <1>1, <1>2, <1>3, <1>4 DEF Events, Vanished, Discovered

\* What is emitted is newer than what the last snapshot had, and so than what
\* followers know.
LEMMA EventsAreNews ==
  ASSUME OrderInv, Orderly, ~overtaken,
         NEW r \in setting.readers, inflight[r] # None,
         NEW i \in Reported(Events(last, inflight[r]))
  PROVE  inflight[r][i].version > told[i].version
<1>1. i \in Items /\ last # None /\ ~Blank(last[i]) /\ ~Blank(inflight[r][i])
      /\ last[i] # inflight[r][i]
  BY NoBlankEvents
<1>2. told[i].version <= last[i].version /\ Precedes(last[i], inflight[r][i])
  BY <1>1 DEF OrderInv, OrderDiscipline, Sound
<1>3. /\ told[i].version \in Nat /\ last[i].version \in Nat
      /\ inflight[r][i].version \in Nat
  BY <1>1, SettingTypes, VersionTypes DEF OrderInv, TypeOK
<1> QED
  BY <1>1, <1>2, <1>3 DEF Precedes

\* There is nobody to apply anything for a session that has been replaced.
LEMMA NobodyIsDetached ==
  ASSUME TypeOK, Orderly
  PROVE  detached = {}
BY DEF TypeOK, Orderly

\* The firewall goes on.
LEMMA FlipKeepsOrder ==
  ASSUME OrderInv, NEW j \in Items, Flip(j)
  PROVE  OrderDiscipline'
<1> SUFFICES ASSUME Orderly, ~overtaken PROVE OrderDiscipline'
  BY DEF OrderDiscipline, Orderly, OwnNames, Flip, replacement
<1>1. /\ UNCHANGED <<setting, inflight, last, told, probe>>
      /\ \A i \in Items : world'[i] = world[i] \/ world'[i].version = world[i].version + 1
  BY ConstantTypes DEF Flip, replacement, OrderInv, TypeOK, Observation, Versioned
<1>2. \A i \in Items : world[i].version \in Nat /\ told[i].version \in Nat
  BY VersionTypes DEF OrderInv
<1>3. \A i \in Items : /\ ~Blank(world'[i]) /\ told'[i].version <= world'[i].version
                       /\ world[i].version <= world'[i].version
  BY <1>1, <1>2 DEF OrderInv, OrderDiscipline, Blank
<1>4. ASSUME NEW obs \in Observation, NEW i \in Items, Sound(obs, i)
      PROVE  Sound(obs, i)'
  <2>1. obs[i].version \in Nat
    BY ConstantTypes DEF Observation, Versioned
  <2> QED
    BY <1>1, <1>2, <1>4, <2>1 DEF Sound, Precedes, Blank
<1>5. \A r \in setting.readers : inflight[r] \in Observation \cup {None}
  BY SettingTypes DEF OrderInv, TypeOK
<1> QED
  BY <1>1, <1>3, <1>4, <1>5 DEF OrderInv, OrderDiscipline, TypeOK

\* A read or a probe sees the firewall as it is, or nothing of it.
LEMMA FreshIsSound ==
  ASSUME OrderInv, Orderly, ~overtaken, NEW i \in Items,
         NEW obs, obs = world \/ (setting.failing /\ obs = Empty)
  PROVE  Sound(obs, i)
BY DEF OrderInv, OrderDiscipline, Sound, Precedes, Blank, Empty, Unknown

\* A read that begins sees the firewall as it is, or nothing of it.
LEMMA SampleKeepsOrder ==
  ASSUME OrderInv, NEW r \in setting.readers, Sample(r)
  PROVE  OrderDiscipline'
<1> SUFFICES ASSUME Orderly, ~overtaken, NEW i \in Items
             PROVE  inflight'[r] # None =>
                       /\ Sound(inflight'[r], i)
                       /\ last # None /\ ~Blank(last[i]) /\ ~Blank(inflight'[r][i])
                             => Precedes(last[i], inflight'[r][i])
  <2>1. UNCHANGED <<setting, world, last, told, probe, overtaken>>
    BY DEF Sample, replacement
  <2>2. Orderly => \A q \in setting.readers : q = r
    BY DEF Orderly
  <2> QED
    BY <2>1, <2>2 DEF OrderInv, OrderDiscipline, Orderly, OwnNames, Sound
<1>1. inflight'[r] = world \/ (setting.failing /\ inflight'[r] = Empty)
  BY SettingTypes DEF Sample, OrderInv, TypeOK
<1>2. Sound(inflight'[r], i)
  BY <1>1, FreshIsSound
<1>3. CASE inflight'[r] = world
  BY <1>2, <1>3 DEF OrderInv, OrderDiscipline, Sound
<1>4. CASE inflight'[r] = Empty
  <2>1. Blank(inflight'[r][i])
    BY <1>4 DEF Blank, Empty, Unknown
  <2> QED
    BY <1>2, <2>1
<1> QED
  BY <1>1, <1>2, <1>3, <1>4

\* A read that fails leaves nothing behind.
LEMMA ReadFailsKeepsOrder ==
  ASSUME OrderInv, NEW r \in setting.readers, ReadFails(r)
  PROVE  OrderDiscipline'
<1>1. UNCHANGED <<setting, world, last, told, probe, overtaken>> /\ inflight'[r] = None
  BY SettingTypes DEF ReadFails, OrderInv, TypeOK
<1>2. Orderly => \A q \in setting.readers : q = r
  BY DEF Orderly
<1> QED
  BY <1>1, <1>2 DEF OrderInv, OrderDiscipline, Orderly, OwnNames, Sound

\* Nobody hears of anything newer than what is applied.
LEMMA ApplyKeepsOrder ==
  ASSUME OrderInv, NEW r \in setting.readers, Apply(r)
  PROVE  OrderDiscipline'
<1> SUFFICES ASSUME Orderly, ~overtaken, probe = None, NEW i \in Items
             PROVE  told'[i].version <= world[i].version /\ Sound(last, i)'
  <2>1. /\ UNCHANGED <<setting, world, probe>> /\ last' = inflight[r] /\ last' # None
        /\ inflight'[r] = None /\ overtaken' = (overtaken \/ probe # None)
    BY SettingTypes DEF Apply, OrderInv, TypeOK
  <2>2. Orderly => \A q \in setting.readers : q = r
    BY DEF Orderly
  <2> QED
    BY <2>1, <2>2 DEF OrderInv, OrderDiscipline, Orderly, OwnNames, Sound
<1> DEFINE cur == inflight[r]
<1>1. cur \in Observation /\ told' = Told(cur, emitted') /\ emitted' = Events(last, cur)
      /\ emitted' \in SUBSET EventTypes /\ last' = cur /\ UNCHANGED <<setting, world>>
  BY SettingTypes, EventsTypes DEF Apply, OrderInv, TypeOK
<1>2. Sound(cur, i)
  BY DEF Apply, OrderInv, OrderDiscipline
<1>3. told[i].version <= world[i].version
  BY DEF OrderInv, OrderDiscipline
<1>4. told[i].version \in Nat /\ cur[i].version \in Nat /\ world[i].version \in Nat
  BY <1>1, VersionTypes DEF OrderInv
<1>5. CASE Blank(cur[i])
  <2>1. i \notin Reported(emitted')
    BY <1>1, <1>5, NoBlankEvents DEF Apply
  <2>2. i \notin Present(cur)
    BY <1>2, <1>5 DEF Sound, Present
  <2>3. told'[i] = told[i]
    BY <1>1, <2>1, <2>2, ToldOf
  <2> QED
    BY <1>1, <1>2, <1>3, <1>5, <2>3 DEF Sound
<1>6. CASE ~Blank(cur[i])
  <2>1. told[i].version <= cur[i].version /\ Precedes(cur[i], world[i])
    BY <1>2, <1>6 DEF Sound
  <2>2. told'[i].version \in {told[i].version, cur[i].version}
    BY <1>1, ToldOf
  <2>3. told'[i].version <= cur[i].version
    BY <1>4, <2>1, <2>2
  <2>4. told'[i].version <= world[i].version
    BY <1>3, <1>4, <2>1, <2>2 DEF Precedes
  <2> QED
    BY <1>1, <1>6, <2>1, <2>3, <2>4 DEF Sound
<1> QED
  BY <1>5, <1>6

\* A probe sees the firewall as it is, too.
LEMMA ProbeKeepsOrder ==
  ASSUME OrderInv, Probe
  PROVE  OrderDiscipline'
<1> SUFFICES ASSUME Orderly, ~overtaken, NEW i \in Items
             PROVE  Sound(probe', i)
  <2>1. UNCHANGED <<setting, world, inflight, last, told, overtaken>> /\ last # None
    BY DEF Probe
  <2> QED
    BY <2>1 DEF OrderInv, OrderDiscipline, Orderly, OwnNames, Sound
<1>1. probe' = world \/ (setting.failing /\ probe' = Empty)
  BY DEF Probe
<1> QED
  BY <1>1, FreshIsSound

\* What has not been overtaken takes the place of the last snapshot.
LEMMA ReplaceKeepsOrder ==
  ASSUME OrderInv, Replace
  PROVE  OrderDiscipline'
<1> SUFFICES ASSUME Orderly, ~overtaken, NEW i \in Items
             PROVE  told'[i].version <= world[i].version /\ Sound(last, i)'
  <2>1. /\ UNCHANGED <<setting, world, overtaken>>
        /\ last' = probe /\ probe # None /\ probe' = None
    BY DEF Replace
  <2>2. Orderly => \A q \in setting.readers : inflight'[q] = None
    BY SettingTypes DEF Replace, Orderly, OrderInv
  <2> QED
    BY <2>1, <2>2 DEF OrderInv, OrderDiscipline, Orderly, OwnNames, Sound
<1>1. probe # None /\ last' = probe /\ UNCHANGED <<setting, world, told>>
  BY DEF Replace
<1>2. Sound(probe, i) /\ told[i].version <= world[i].version
  BY <1>1 DEF OrderInv, OrderDiscipline
<1> QED
  BY <1>1, <1>2 DEF Sound

\* Every step keeps the order.
LEMMA OrderPreserved == OrderInv /\ [Next]_vars => OrderInv'
<1> SUFFICES ASSUME OrderInv, [Next]_vars PROVE OrderDiscipline'
  BY TypesPreserved DEF OrderInv
<1>1. ASSUME NEW r \in setting.readers, ApplyDetached(r) PROVE OrderDiscipline'
  BY <1>1, NobodyIsDetached
     DEF ApplyDetached, OrderInv, OrderDiscipline, Orderly, OwnNames
<1>2. CASE UNCHANGED vars
  BY <1>2 DEF vars, OrderInv, OrderDiscipline, Orderly, OwnNames, Sound
<1> QED
  BY <1>1, <1>2, FlipKeepsOrder, SampleKeepsOrder, ReadFailsKeepsOrder, ApplyKeepsOrder,
     ProbeKeepsOrder, ReplaceKeepsOrder
  DEF Next

\* The firewall has first versions, and there is nothing else.
LEMMA InitIsOrdered == Init => OrderInv
<1> SUFFICES ASSUME Init PROVE OrderInv
  OBVIOUS
<1>1. TypeOK
  BY InitDelivers DEF DeliveryInv
<1>2. \A i \in Items : world[i].version = 1 /\ told[i].version = 0
  BY DEF Init, Unknown
<1>3. setting.readers \subseteq Readers
  BY <1>1, SettingTypes
<1> QED
  BY <1>1, <1>2, <1>3 DEF Init, OrderInv, OrderDiscipline, Blank

\* The second induction: with a single reader snapshots come in the order of the
\* versions that they hold, until the old session goes on after the probe.
THEOREM OrderInvariance == Spec => []OrderInv
BY InitIsOrdered, OrderPreserved, PTL DEF Spec

\* docs/contract.md: events are emitted "only after an observed child state
\* transition".  With a single reader and items with names of their own, every
\* event reports a status newer than what followers know: none is repeated, made
\* up or taken back, not by failing endpoints and not by a replacement.
THEOREM NoEventIsMadeUp == Spec => NoSpuriousEventsInOrder
<1> DEFINE News == (Orderly /\ ~overtaken) =>
                      \A e \in emitted' : last'[e.item].version > told[e.item].version
<1>1. OrderInv /\ [Next]_vars => [News]_vars
  <2> SUFFICES ASSUME OrderInv, Next, Orderly, ~overtaken, NEW e \in emitted'
               PROVE  last'[e.item].version > told[e.item].version
    OBVIOUS
  <2>1. PICK r \in setting.readers : Apply(r) \/ ApplyDetached(r)
    BY DEF Next, Flip, Sample, ReadFails, Probe, Replace
  <2>2. Apply(r)
    BY <2>1, NobodyIsDetached DEF ApplyDetached, OrderInv
  <2>3. e.item \in Reported(Events(last, inflight[r])) /\ last' = inflight[r]
    BY <2>2 DEF Apply, Reported
  <2> QED
    BY <2>2, <2>3, EventsAreNews DEF Apply
<1> QED
  BY <1>1, OrderInvariance, PTL DEF Spec, NoSpuriousEventsInOrder
=============================================================================
