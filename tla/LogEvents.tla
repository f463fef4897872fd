------------------------------ MODULE LogEvents -----------------------------
(***************************************************************************)
(* How one session turns log endpoints into events: _apply_snapshot with   *)
(* _emit_log_events (service.py), fed by reads that may overlap.           *)
(*                                                                         *)
(* Every log stream of the firewall is a growing sequence of entries whose *)
(* endpoint returns the latest few of them.  An entry stands for its       *)
(* content hash: <<stream, position>>.                                     *)
(***************************************************************************)
EXTENDS Naturals, FiniteSets

CONSTANTS Streams,    \* firewall, auth, dhcp, system
          MaxEntries, \* bound: entries ever written to one stream
          Readers,    \* the poller and the refreshes that may overlap it
          Settings,   \* the circumstances to explore
          None

ASSUME LogAssumption ==
    /\ MaxEntries \in Nat
    /\ \A entries \in SUBSET (Streams \X (1 .. MaxEntries)) : entries # None
    /\ Settings \subseteq [
           failing : BOOLEAN,         \* may the endpoint of a stream fail?
           readers : SUBSET Readers,  \* who reads
           window  : 1 .. MaxEntries, \* entries an endpoint returns
           cap     : Nat]             \* the 4096 hashes a session remembers

VARIABLES
    setting,    \* the circumstances of this run; they never change
    written,    \* written[s]: the number of entries of stream s at the firewall
    inflight,   \* inflight[r]: the response reader r returns with, or None
    seen,       \* seen_log_ids, or None before the first response
    delivered,  \* entries for which an event was scheduled
    repeated,   \* history: entries for which more than one was
    old,        \* history: entries written before the response that became the baseline
    silent,     \* history: those of the streams that are in that response
    overlapped, \* history: readers during whose read another response was applied
    forgetful   \* history: has the memory been reset to less than the latest entries?

baseline == <<old, silent>>
vars == <<setting, written, inflight, seen, delivered, repeated, baseline, overlapped,
          forgetful>>

Entries == Streams \X (1 .. MaxEntries)
Response == [entries : SUBSET Entries, written : SUBSET Entries, up : SUBSET Streams]

TypeOK ==
    /\ setting \in Settings
    /\ written \in [Streams -> 0 .. MaxEntries]
    /\ inflight \in [Readers -> Response \cup {None}]
    /\ seen \in (SUBSET Entries) \cup {None}
    /\ old \subseteq Entries
    /\ silent \subseteq old
    /\ delivered \subseteq Entries
    /\ repeated \subseteq delivered
    /\ overlapped \subseteq Readers
    /\ forgetful \in BOOLEAN

Init ==
    /\ setting \in Settings
    /\ written \in [Streams -> 0 .. setting.window]
    /\ inflight = [r \in Readers |-> None]
    /\ seen = None
    /\ delivered = {} /\ repeated = {}
    /\ old = {} /\ silent = {}
    /\ overlapped = {}
    /\ forgetful = FALSE

-----------------------------------------------------------------------------
Written == {x \in Entries : x[2] <= written[x[1]]}

\* What the endpoints of the streams in up return now.
Returned(up) ==
    {x \in Written : x[1] \in up /\ x[2] + setting.window > written[x[1]]}

Write(s) ==
    /\ written[s] < MaxEntries
    /\ written' = [written EXCEPT ![s] = @ + 1]
    /\ UNCHANGED <<setting, inflight, seen, delivered, repeated, baseline, overlapped,
                   forgetful>>

\* read_snapshot: streams whose endpoint fails are missing from the snapshot.  The
\* first response is that of configure(): no other read of the session overlaps it.
Sample(r) ==
    /\ inflight[r] = None
    /\ seen = None => \A q \in Readers : inflight[q] = None
    /\ \E up \in IF setting.failing THEN SUBSET Streams ELSE {Streams} :
        inflight' = [inflight EXCEPT ![r] =
                        [entries |-> Returned(up), written |-> Written, up |-> up]]
    /\ UNCHANGED <<setting, written, seen, delivered, repeated, baseline, overlapped,
                   forgetful>>

\* The first response is remembered and says nothing.
BaselineOfPositions(r) ==
    /\ inflight[r] # None /\ seen = None
    /\ seen' = {<<x[2]>> : x \in inflight[r].entries}
    /\ old' = inflight[r].written
    /\ silent' = {x \in old' : x[1] \in inflight[r].up}
    /\ inflight' = [inflight EXCEPT ![r] = None]
    /\ UNCHANGED <<setting, written, delivered, repeated, overlapped, forgetful>>
Baseline(r) ==
    /\ inflight[r] # None /\ seen = None
    /\ seen' = inflight[r].entries
    /\ old' = inflight[r].written
    /\ silent' = {x \in old' : x[1] \in inflight[r].up}
    /\ inflight' = [inflight EXCEPT ![r] = None]
    /\ UNCHANGED <<setting, written, delivered, repeated, overlapped, forgetful>>

\* The memory is replaced by the response that makes it too large.
Reset(entries) == Cardinality(seen \cup entries) > setting.cap
ForgetAll(entries) == IF Reset(entries) THEN {} ELSE seen \cup entries
NeverRemember(entries) == seen
Remember(entries) == IF Reset(entries) THEN entries ELSE seen \cup entries

New(entries) == entries \ seen

\* Reads that are under way when the response of r is applied.
Others(r) == {q \in Readers \ {r} : inflight[q] # None}

EmitAfterRemembering(r) ==
    /\ inflight[r] # None /\ seen # None
    /\ seen' = Remember(inflight[r].entries)
    /\ inflight' = [inflight EXCEPT ![r] = None]
    /\ overlapped' = Others(r)
    /\ UNCHANGED <<setting, written, delivered, repeated, baseline, forgetful>>
Emit(r) ==
    /\ inflight[r] # None /\ seen # None
    /\ LET entries == inflight[r].entries
       IN  /\ delivered' = delivered \cup New(entries)
           /\ repeated' = repeated \cup (New(entries) \cap delivered)
           /\ seen' = Remember(entries)
           /\ forgetful' =
                (forgetful \/ (/\ Reset(entries)
                               /\ \/ inflight[r].up # Streams
                                  \/ r \in overlapped \/ Others(r) # {}))
    /\ inflight' = [inflight EXCEPT ![r] = None]
    /\ overlapped' = Others(r)
    /\ UNCHANGED <<setting, written, baseline>>

Next ==
    \/ \E s \in Streams : Write(s)
    \/ \E r \in setting.readers : Sample(r) \/ Baseline(r) \/ Emit(r)

Spec == Init /\ [][Next]_vars

-----------------------------------------------------------------------------
\* docs/contract.md: "Log events are content-hash deduplicated".  No entry is
\* delivered twice, although a session forgets what it remembered beyond 4096 hashes
\* and entries may come again; unless the response that it is reset to lacks a
\* stream, or its read overlapped another, so that what either returned and the
\* other did not is forgotten although it may come again.
DeliveredOnce == ~forgetful => repeated = {}

\* README.md: "Log collection establishes the first response as its baseline and
\* emits only new entries afterward".  Nothing written before it is delivered.
BaselineIsSilent == old \cap delivered = {}

\* It is true of the streams that the first response includes, on the same condition,
\* also of the entries that were too old to be in it.
AnsweredBaselineIsSilent == ~forgetful => silent \cap delivered = {}

\* Remembering a hash is never a substitute for delivering the entry.
SeenIsDelivered == seen # None => seen \subseteq old \cup delivered
=============================================================================
