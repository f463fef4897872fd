--------------------------- MODULE InterfaceRates ---------------------------
(***************************************************************************)
(* How the byte counters of interfaces become bit rates: what              *)
(* _apply_snapshot and apply_interface_rates (service.py) remember between *)
(* snapshots and publish as telemetry, over reads that overlap, fail, and  *)
(* outlive the session they were made for.                                 *)
(*                                                                         *)
(* An interface is named by its pfREST name.  It carries at most one unit  *)
(* of traffic per unit of time: that is the line rate.  One counter        *)
(* stands for bytes received or sent, which are treated alike.             *)
(*                                                                         *)
(* What flowed, was reported and went wrong is history, not code.          *)
(***************************************************************************)
EXTENDS Naturals, FiniteSets, SequencesExt

CONSTANTS Interfaces,
          Settings,    \* the circumstances to explore
          MaxClock,    \* bound: units of time, hence of traffic per interface
          MaxSessions  \* bound: sessions of the configuration, one after another

ASSUME RatesAssumption ==
    /\ IsFiniteSet(Interfaces)
    /\ MaxClock \in Nat /\ MaxSessions \in Nat \ {0}
    /\ Settings \subseteq [
           simulated : BOOLEAN,           \* is the client the simulator?
           failing   : BOOLEAN,           \* may the interface endpoint fail?
           unstable  : BOOLEAN,           \* may interfaces go, and counters reset?
           reads     : Nat,               \* reads under way at a time
           sessions  : 1 .. MaxSessions]

VARIABLES
    setting,   \* the circumstances of this run; they never change
    clock,     \* monotonic()
    link,      \* link[i]: interface i at the firewall
    flowed,    \* flowed[i]: the traffic of i since the start
    reads,     \* reads under way, in the order in which they sampled the firewall
    current,   \* the session in service
    memory,    \* memory[s]: what session s remembers of the snapshot it applied last
    reported,  \* reported[i]: the traffic that all published rates of i add up to
    incidents  \* what has happened that rates depend on

vars == <<setting, clock, link, flowed, reads, current, memory,
          reported, incidents>>
firewall == <<clock, link, flowed>>

Sessions == 1 .. MaxSessions
Amount == 0 .. MaxClock + 1
Amounts == [Interfaces -> Amount]
Counters == UNION {[listed -> Amount] : listed \in SUBSET Interfaces}
Incidents == {"late", "detached", "replaced", "missing", "instant", "reset"}

\* previous_interface_counters and previous_observed_at; how old the snapshot was
\* when it was applied and what had flowed by then is history.
Memories == [bytes : Counters, observed : 0 .. MaxClock, age : 0 .. MaxClock, flowed : Amounts]
Nothing == [i \in {} |-> 0]
Fresh == [bytes |-> Nothing]

TypeOK ==
    /\ setting \in Settings
    /\ clock \in 0 .. MaxClock
    /\ link \in [Interfaces -> [listed : BOOLEAN, bytes : Amount]]
    /\ flowed \in Amounts
    /\ reads \in Seq([session : 1 .. current + 1, sampled : 0 .. clock, bytes : Counters,
                      flowed : Amounts, late : BOOLEAN])
    /\ current \in 1 .. setting.sessions
    /\ memory \in [Sessions -> Memories \cup {Fresh}]
    /\ reported \in [Interfaces -> Nat]
    /\ incidents \subseteq Incidents

\* The first session has applied its probe.  Counters have counted before.
Init ==
    /\ setting \in Settings
    /\ clock = 0
    /\ link = [i \in Interfaces |-> [listed |-> TRUE, bytes |-> 1]]
    /\ flowed = [i \in Interfaces |-> 0]
    /\ reads = <<>>
    /\ current = 1
    /\ memory = [s \in Sessions |->
          IF s = 1 THEN [bytes |-> [i \in Interfaces |-> 1], observed |-> 0,
                         age |-> 0, flowed |-> flowed]
                   ELSE Fresh]
    /\ reported = flowed
    /\ incidents = {}

-----------------------------------------------------------------------------
(* apply_interface_rates *)

\* The traffic that the published rates stand for: the growth of every counter
\* that the previous snapshot has too, divided by the time in between.  There is
\* no rate without such a counter or without any time in between.
Difference(now, before) == now - before
Growth(now, before) == IF now > before THEN now - before ELSE 0

RatedFromZero(bytes, previous, elapsed) ==
    [i \in Interfaces |->
        IF i \in DOMAIN bytes /\ elapsed > 0
        THEN Growth(bytes[i], IF i \in DOMAIN previous THEN previous[i] ELSE 0)
        ELSE 0]
Rated(bytes, previous, elapsed) ==
    [i \in Interfaces |->
        IF i \in DOMAIN bytes \cap DOMAIN previous /\ elapsed > 0
        THEN Growth(bytes[i], previous[i])
        ELSE 0]

\* The counters to compare the next snapshot with.
RememberedAll(bytes, previous) ==
    [i \in DOMAIN bytes \cup DOMAIN previous |->
        IF i \in DOMAIN bytes THEN bytes[i] ELSE previous[i]]
Remembered(bytes, previous) == bytes

(* _apply_snapshot: the rates of all interfaces go to telemetry *)

Elapsed(s) == IF memory[s] = Fresh THEN 0 ELSE clock - memory[s].observed

Publish(s, read) ==
    LET rated == Rated(read.bytes, memory[s].bytes, Elapsed(s))
    IN  /\ reported' = [i \in Interfaces |-> reported[i] + rated[i]]
        /\ memory' = [memory EXCEPT ![s] =
              [bytes |-> Remembered(read.bytes, memory[s].bytes), observed |-> clock,
               age |-> clock - read.sampled, flowed |-> read.flowed]]
        /\ current' = IF s > current THEN s ELSE current
        /\ incidents' = incidents
              \cup (IF read.late THEN {"late"} ELSE {})
              \cup (IF s < current THEN {"detached"} ELSE {})
              \cup (IF s > current THEN {"replaced"} ELSE {})
              \cup (IF DOMAIN read.bytes # Interfaces THEN {"missing"} ELSE {})
              \cup (IF s <= current /\ Elapsed(s) = 0 THEN {"instant"} ELSE {})

-----------------------------------------------------------------------------
(* Time, and the firewall *)

Pass ==
    /\ clock < MaxClock
    /\ clock' = clock + 1
    /\ \E busy \in SUBSET {i \in Interfaces : link[i].listed /\ ~setting.simulated} :
        /\ link' = [i \in Interfaces |->
              IF i \in busy THEN [link[i] EXCEPT !.bytes = @ + 1] ELSE link[i]]
        /\ flowed' = [i \in Interfaces |-> flowed[i] + IF i \in busy THEN 1 ELSE 0]
    /\ UNCHANGED <<setting, reads, current, memory, reported, incidents>>

Unplug(i) ==
    /\ setting.unstable /\ link[i].listed
    /\ link' = [link EXCEPT ![i].listed = FALSE]
    /\ UNCHANGED <<setting, clock, flowed, reads, current, memory,
                   reported, incidents>>

PlugIn(i) ==
    /\ ~link[i].listed
    /\ link' = [link EXCEPT ![i].listed = TRUE]
    /\ UNCHANGED <<setting, clock, flowed, reads, current, memory,
                   reported, incidents>>

Reset(i) ==
    /\ setting.unstable /\ link[i].bytes > 0
    /\ link' = [link EXCEPT ![i].bytes = 0]
    /\ incidents' = incidents \cup {"reset"}
    /\ UNCHANGED <<setting, clock, flowed, reads, current, memory, reported>>

(* read_snapshot of the pfREST client.  A failed endpoint yields nothing. *)

Listed == [i \in {j \in Interfaces : link[j].listed} |-> link[i].bytes]

Reading(s, bytes) ==
    [session |-> s, sampled |-> clock, bytes |-> bytes, flowed |-> flowed, late |-> FALSE]

\* A poll or a refresh of the session in service, or the probe of the next one.
Sample ==
    /\ ~setting.simulated /\ Len(reads) < setting.reads
    /\ \E s \in {current, current + 1}, bytes \in {Listed, Nothing} :
        /\ s <= setting.sessions
        /\ s > current => \A k \in DOMAIN reads : reads[k].session # s
        /\ bytes = Listed \/ setting.failing
        /\ reads' = Append(reads, Reading(s, bytes))
    /\ UNCHANGED <<firewall, setting, current, memory, reported, incidents>>

\* The system endpoint fails or the read is cancelled.
ReadFails(k) ==
    /\ reads' = RemoveAt(reads, k)
    /\ UNCHANGED <<firewall, setting, current, memory, reported, incidents>>

\* The client of a replaced session is closed, and the endpoints that have not
\* answered by then fail.
CutShort(k) ==
    /\ reads[k].session < current /\ reads[k].bytes # Nothing
    /\ reads' = [reads EXCEPT ![k].bytes = Nothing]
    /\ UNCHANGED <<firewall, setting, current, memory, reported, incidents>>

\* A read of a session that has been replaced is applied like any other.
Apply(k) ==
    /\ Publish(reads[k].session, reads[k])
    /\ reads' = [j \in 1 .. Len(reads) - 1 |->
          IF j < k THEN [reads[j] EXCEPT !.late = TRUE] ELSE reads[j + 1]]
    /\ UNCHANGED <<firewall, setting>>

(* read_snapshot of the simulator, which does not suspend: it counts its reads. *)
(* Every session has a simulator of its own.                                    *)

SimulatedRead ==
    /\ setting.simulated
    /\ \E s \in {current, current + 1} :
        LET counted == [i \in Interfaces |-> 1 + IF s = current THEN link[i].bytes ELSE 0]
            sofar == [i \in Interfaces |-> flowed[i] + IF s = current THEN 1 ELSE 0]
        IN  /\ s <= setting.sessions
            /\ \A i \in Interfaces : flowed[i] < MaxClock
            /\ link' = [i \in Interfaces |-> [link[i] EXCEPT !.bytes = counted[i]]]
            /\ flowed' = sofar
            /\ Publish(s, [Reading(s, counted) EXCEPT !.flowed = sofar])
    /\ UNCHANGED <<setting, clock, reads>>

\* The simulator has used up what is explored of it.
Exhausted ==
    /\ setting.simulated /\ clock = MaxClock /\ \E i \in Interfaces : flowed[i] = MaxClock
    /\ UNCHANGED vars

Next ==
    \/ Pass
    \/ \E i \in Interfaces : Unplug(i) \/ PlugIn(i) \/ Reset(i)
    \/ Sample
    \/ \E k \in DOMAIN reads : ReadFails(k) \/ CutShort(k) \/ Apply(k)
    \/ SimulatedRead
    \/ Exhausted

Spec == Init /\ [][Next]_vars

-----------------------------------------------------------------------------
\* README.md: "Interface byte counters are converted into receive/transmit bit
\* rates after the first sample".  Integrated over time, the rates of an
\* interface never add up to more than what had flowed by the latest snapshot:
\* not across failed endpoints, interfaces that come and go, counters that are
\* reset, nor across sessions.  It takes that no read is applied after one that
\* is newer, and none to a session that has been replaced.  When nothing at all
\* happens to the session or the firewall they add up to just that, however long
\* the reads take and however they overlap.
TrafficAccounted ==
    \A i \in Interfaces :
        /\ incidents \cap {"late", "detached"} = {} => reported[i] <= memory[current].flowed[i]
        /\ incidents = {} => reported[i] = memory[current].flowed[i]

\* A rate exceeds the line rate only by what the snapshot before it was old when
\* it was applied, for the time that a rate divides by begins where its counters
\* were remembered.  Only a read applied late and from before a reset breaks this:
\* its counters seem to have grown from nothing.
RateBounded ==
    [][\A s \in Sessions, i \in Interfaces :
        (/\ memory'[s] # memory[s]
         /\ ~setting.simulated /\ ~({"late", "reset"} \subseteq incidents')) =>
            reported'[i] - reported[i] <=
                IF memory[s] = Fresh THEN 0 ELSE Elapsed(s) + memory[s].age]_vars
=============================================================================
