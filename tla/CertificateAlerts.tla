-------------------------- MODULE CertificateAlerts -------------------------
(***************************************************************************)
(* How one session announces expiring certificates: _apply_snapshot with   *)
(* _certificates and _emit_certificate_alerts (service.py), fed by reads   *)
(* that may overlap and be applied out of order.                           *)
(*                                                                         *)
(* The number of an issue is history, not code: renewing a certificate at  *)
(* the firewall keeps its refid, so the runtime sees the days left go up   *)
(* and nothing else.                                                       *)
(***************************************************************************)
EXTENDS Integers, FiniteSets, FiniteSetsExt

CONSTANTS Certificates,  \* refids
          DayValues,     \* numbers of days left worth telling apart
          Readers,       \* the poller and the refreshes that may overlap it
          MaxIssue,      \* bound: issues of one certificate
          None

ASSUME DaysAssumption ==
    /\ DayValues \subseteq Int /\ IsFiniteSet(DayValues) /\ DayValues # {}
    /\ MaxIssue \in Nat \ {0}

VARIABLES
    left,      \* left[c]: the days and the issue of certificate c at the firewall
    inflight,  \* inflight[r]: what reader r returns with, or None
    levels,    \* certificate_alert_levels, 31 for a certificate it lacks
    crossed,   \* crossed[c]: history: thresholds an applied read found crossed
    emitted,   \* the certificates for which the latest step has scheduled an event
    expired    \* certificates announced as expired

vars == <<left, inflight, levels, crossed, emitted, expired>>

Thresholds == {0, 1, 7, 14, 30}
Levels == Thresholds \cup {31}
Left == [days : DayValues, issue : 1 .. MaxIssue]

\* A failed endpoint, and one that is not collected, yields no certificate.
Nothing == [days |-> 12000, issue |-> 0]
Observation == [Certificates -> Left \cup {Nothing}]

TypeOK ==
    /\ left \in [Certificates -> Left]
    /\ inflight \in [Readers -> Observation \cup {None}]
    /\ levels \in [Certificates -> Levels]
    /\ crossed \in [Certificates -> [count : 0 .. 5, issue : 0 .. MaxIssue]]
    /\ emitted \subseteq Certificates
    /\ expired \subseteq Certificates

Init ==
    /\ left \in [Certificates -> {[days |-> d, issue |-> 1] : d \in DayValues}]
    /\ inflight = [r \in Readers |-> None]
    /\ levels = [c \in Certificates |-> 31]
    /\ crossed = [c \in Certificates |-> [count |-> 0, issue |-> 0]]
    /\ emitted = {}
    /\ expired = {}

-----------------------------------------------------------------------------
\* The first threshold that the days left do not exceed.
LevelOffByOne(days) ==
    IF \E t \in Thresholds : days < t THEN Min({t \in Thresholds : days < t}) ELSE 31
Level(days) ==
    IF \E t \in Thresholds : days <= t THEN Min({t \in Thresholds : days <= t}) ELSE 31

\* Certificates of the snapshot whose level is below any announced before.
DueAgain(obs) == {c \in Certificates : Level(obs[c].days) <= 30}
DueUnexpired(obs) == {c \in Certificates : Level(obs[c].days) < levels[c] /\ obs[c].days > 0}
Due(obs) == {c \in Certificates : Level(obs[c].days) < levels[c]}

RecordDays(obs) ==
    [c \in Certificates |-> IF c \in Due(obs) THEN obs[c].days ELSE levels[c]]
Record(obs) ==
    [c \in Certificates |-> IF c \in Due(obs) THEN Level(obs[c].days) ELSE levels[c]]

(* The firewall *)

TimePasses(c) ==
    /\ \E d \in DayValues : d < left[c].days /\ left' = [left EXCEPT ![c].days = d]
    /\ emitted' = {}
    /\ UNCHANGED <<inflight, levels, crossed, expired>>

Renew(c) ==
    /\ left[c].issue < MaxIssue
    /\ left' = [left EXCEPT ![c] = [days |-> Max(DayValues), issue |-> @.issue + 1]]
    /\ emitted' = {}
    /\ UNCHANGED <<inflight, levels, crossed, expired>>

(* read_snapshot and _apply_snapshot *)

Sample(r) ==
    /\ inflight[r] = None
    /\ \/ inflight' = [inflight EXCEPT ![r] = left]
       \/ inflight' = [inflight EXCEPT ![r] = [c \in Certificates |-> Nothing]]
    /\ emitted' = {}
    /\ UNCHANGED <<left, levels, crossed, expired>>

\* The thresholds that applied reads have found the newest issue to have crossed.
\* This is what docs/contract.md counts, whatever Level makes of it.
CrossedBy(days) == Cardinality({t \in {30, 14, 7, 1, 0} : days <= t})
Crossing(obs) ==
    [c \in Certificates |->
        LET now == [count |-> CrossedBy(obs[c].days), issue |-> obs[c].issue]
        IN  IF \/ now.issue > crossed[c].issue
               \/ now.issue = crossed[c].issue /\ now.count > crossed[c].count
            THEN now
            ELSE crossed[c]]

Apply(r) ==
    /\ inflight[r] # None
    /\ LET obs == inflight[r]
       IN  /\ emitted' = Due(obs)
           /\ levels' = Record(obs)
           /\ expired' = expired \cup {c \in Due(obs) : obs[c].days <= 0}
           /\ crossed' = Crossing(obs)
    /\ inflight' = [inflight EXCEPT ![r] = None]
    /\ UNCHANGED left

Next ==
    \/ \E c \in Certificates : TimePasses(c) \/ Renew(c)
    \/ \E r \in Readers : Sample(r) \/ Apply(r)

Spec == Init /\ [][Next]_vars

\* The poller reads again and again, and the certificate endpoint does not fail
\* every time from some moment on.
SampleOk(r) == Sample(r) /\ inflight'[r] = left
FairSpec ==
    Spec /\ \A r \in Readers : SF_vars(SampleOk(r)) /\ WF_vars(Apply(r))

-----------------------------------------------------------------------------
NewlyCrossed ==
    {c \in Certificates : crossed'[c] # crossed[c] /\ crossed'[c].count > 0}

\* docs/contract.md: "Certificate alerts fire as a certificate crosses 30, 14,
\* 7, 1, and 0 days".  They fire then, once, and at no other time: not for
\* a read applied late, nor after an endpoint failure, nor twice for a level.
AlertsAreCrossings == [][emitted' = NewlyCrossed]_vars

\* They do for a certificate that has not been renewed yet.
AlertsUntilRenewal ==
    [][\A c \in Certificates :
        left[c].issue = 1 => (c \in emitted' <=> c \in NewlyCrossed)]_vars

\* A renewal costs alerts but adds none: whoever reads the current issue of a
\* certificate is not alarmed unless that issue has just crossed a threshold.
NoFalseAlarm ==
    [][\A c \in emitted', r \in Readers :
        (/\ inflight[r] # None /\ inflight'[r] = None
         /\ inflight[r][c].issue = left[c].issue) => c \in NewlyCrossed]_vars

\* A certificate that has expired is announced as expired in the end, unless
\* it is renewed before.
ExpiryAnnounced ==
    \A c \in Certificates :
        (left[c].days <= 0 /\ left[c].issue = 1) ~> (c \in expired \/ left[c].issue > 1)
=============================================================================
