----------------------- MODULE CertificateAlertsProofs ----------------------
(***************************************************************************)
(* What CertificateAlerts promises for any number of certificates and      *)
(* readers, for days of any values, and for any number of renewals.        *)
(*                                                                         *)
(* The proofs compare what the code remembers, a level, with what the      *)
(* documentation counts, thresholds: the more of them are crossed, the     *)
(* lower the level.  A renewal parts the two in one direction only, and    *)
(* that is why it can cost alerts and not add any.                         *)
(***************************************************************************)
EXTENDS CertificateAlerts, FiniteSetTheorems, TLAPS

\* The level of a certificate that has crossed that many thresholds.
LevelFor(count) ==
    CASE count = 0 -> 31
      [] count = 1 -> 30
      [] count = 2 -> 14
      [] count = 3 -> 7
      [] count = 4 -> 1
      [] count = 5 -> 0

\* Nobody has seen an issue that is still to come.  The level announced is at
\* most that of the newest issue seen, and the same while there was only one.
AlertDiscipline ==
    \A c \in Certificates :
        /\ crossed[c].issue <= left[c].issue
        /\ crossed[c].issue = 0 => crossed[c].count = 0
        /\ \A r \in Readers : inflight[r] # None => inflight[r][c].issue <= left[c].issue
        /\ levels[c] <= LevelFor(crossed[c].count)
        /\ left[c].issue = 1 => levels[c] = LevelFor(crossed[c].count)

AlertInv == TypeOK /\ AlertDiscipline

-----------------------------------------------------------------------------
(* Levels and thresholds *)

\* Max of the community modules is a member of a finite set of integers, for a
\* smallest subset without a maximum cannot exist.
LEMMA MaxOfFinite ==
  ASSUME NEW S \in SUBSET Int, IsFiniteSet(S), S # {}
  PROVE  Max(S) \in S
<1> DEFINE HasMax(U) == \E x \in U : \A y \in U : x >= y
           Bad == {U \in SUBSET S : U # {} /\ ~HasMax(U)}
<1>1. Bad = {}
  <2> SUFFICES ASSUME Bad # {} PROVE FALSE
    OBVIOUS
  <2>1. IsWellFoundedOn(StrictSubsetOrdering(S), SUBSET S)
    BY FS_StrictSubsetOrderingWellFounded, FS_FiniteSubsetsOfFinite
  <2>2. PICK U \in Bad : \A V \in Bad : <<V, U>> \notin StrictSubsetOrdering(S)
    <3>1. Bad \subseteq SUBSET S
      OBVIOUS
    <3> HIDE DEF Bad
    <3> QED
      BY <2>1, <3>1, WFMin
  <2>3. PICK u \in U : TRUE
    OBVIOUS
  <2>4. U \ {u} # {} /\ ~HasMax(U \ {u})
    <3>1. CASE U = {u}
      <4>1. HasMax(U)
        BY <3>1
      <4> QED
        BY <4>1
    <3>2. CASE HasMax(U \ {u})
      <4>1. PICK x \in U \ {u} : \A y \in U \ {u} : x >= y
        BY <3>2
      <4>2. u \in Int /\ x \in Int /\ U \subseteq Int
        OBVIOUS
      <4>3. (\A y \in U : x >= y) \/ (\A y \in U : u >= y)
        BY <4>1, <4>2
      <4>4. HasMax(U)
        BY <4>3
      <4> QED
        BY <4>4
    <3> QED
      BY <3>1, <3>2
  <2>5. U \ {u} \in Bad /\ <<U \ {u}, U>> \in StrictSubsetOrdering(S)
    BY <2>4 DEF StrictSubsetOrdering
  <2> QED
    BY <2>2, <2>5
<1>2. HasMax(S)
  BY <1>1
<1> QED
  BY <1>2 DEF Max

\* Min is the least member of a set that has one.
LEMMA MinIsLeast ==
  ASSUME NEW S \in SUBSET Int, NEW m \in S, \A y \in S : m <= y
  PROVE  Min(S) = m
<1>1. \E x \in S : \A y \in S : x <= y
  OBVIOUS
<1>2. Min(S) \in S /\ \A y \in S : Min(S) <= y
  BY <1>1 DEF Min
<1>3. Min(S) \in Int /\ Min(S) <= m /\ m <= Min(S)
  BY <1>2
<1> QED
  BY <1>3

\* How many of the thresholds there are from each of them on.
LEMMA ThresholdsCounted ==
  /\ Cardinality({}) = 0
  /\ Cardinality({30}) = 1
  /\ Cardinality({30, 14}) = 2
  /\ Cardinality({30, 14, 7}) = 3
  /\ Cardinality({30, 14, 7, 1}) = 4
  /\ Cardinality({30, 14, 7, 1, 0}) = 5
<1>1. Cardinality({30}) = 1 /\ IsFiniteSet({30})
  BY FS_Singleton
<1>2. Cardinality({30} \cup {14}) = 2 /\ IsFiniteSet({30} \cup {14})
  BY <1>1, FS_AddElement
<1>3. Cardinality({30, 14} \cup {7}) = 3 /\ IsFiniteSet({30, 14} \cup {7})
  <2>1. {30} \cup {14} = {30, 14}
    OBVIOUS
  <2> QED
    BY <1>2, <2>1, FS_AddElement
<1>4. Cardinality({30, 14, 7} \cup {1}) = 4 /\ IsFiniteSet({30, 14, 7} \cup {1})
  <2>1. {30, 14} \cup {7} = {30, 14, 7}
    OBVIOUS
  <2> QED
    BY <1>3, <2>1, FS_AddElement
<1>5. Cardinality({30, 14, 7, 1} \cup {0}) = 5
  <2>1. {30, 14, 7} \cup {1} = {30, 14, 7, 1}
    OBVIOUS
  <2> QED
    BY <1>4, <2>1, FS_AddElement
<1>6. /\ {30} \cup {14} = {30, 14}
      /\ {30, 14} \cup {7} = {30, 14, 7}
      /\ {30, 14, 7} \cup {1} = {30, 14, 7, 1}
      /\ {30, 14, 7, 1} \cup {0} = {30, 14, 7, 1, 0}
  OBVIOUS
<1> QED
  BY <1>1, <1>2, <1>3, <1>4, <1>5, <1>6, FS_EmptySet

\* The level the code computes is the one for the thresholds crossed.
LEMMA LevelCounts ==
  ASSUME NEW days \in Int
  PROVE  CrossedBy(days) \in 0 .. 5 /\ Level(days) = LevelFor(CrossedBy(days))
<1> DEFINE S == {t \in {30, 14, 7, 1, 0} : days <= t}
           T == {t \in Thresholds : days <= t}
<1>1. T = S
  BY DEF Thresholds
<1>2. CrossedBy(days) = Cardinality(S)
  BY DEF CrossedBy
<1>3. Level(days) = IF T = {} THEN 31 ELSE Min(T)
  BY DEF Level
<1>4. \A m \in T : (\A y \in T : m <= y) => Level(days) = m
  BY <1>3, MinIsLeast DEF Thresholds
<1>5. CASE days > 30
  <2>1. S = {}
    BY <1>5
  <2> QED
    BY <1>1, <1>2, <1>3, <2>1, ThresholdsCounted DEF LevelFor
<1>6. CASE 14 < days /\ days <= 30
  <2>1. S = {30}
    BY <1>6
  <2> QED
    BY <1>1, <1>2, <1>4, <2>1, ThresholdsCounted DEF LevelFor
<1>7. CASE 7 < days /\ days <= 14
  <2>1. S = {30, 14}
    BY <1>7
  <2> QED
    BY <1>1, <1>2, <1>4, <2>1, ThresholdsCounted DEF LevelFor
<1>8. CASE 1 < days /\ days <= 7
  <2>1. S = {30, 14, 7}
    BY <1>8
  <2> QED
    BY <1>1, <1>2, <1>4, <2>1, ThresholdsCounted DEF LevelFor
<1>9. CASE 0 < days /\ days <= 1
  <2>1. S = {30, 14, 7, 1}
    BY <1>9
  <2> QED
    BY <1>1, <1>2, <1>4, <2>1, ThresholdsCounted DEF LevelFor
<1>10. CASE days <= 0
  <2>1. S = {30, 14, 7, 1, 0}
    BY <1>10
  <2> QED
    BY <1>1, <1>2, <1>4, <2>1, ThresholdsCounted DEF LevelFor
<1> QED
  BY <1>5, <1>6, <1>7, <1>8, <1>9, <1>10

\* The more thresholds, the lower the level.
LEMMA LevelsFall ==
  /\ \A n \in 0 .. 5 : LevelFor(n) \in Levels
  /\ \A m, n \in 0 .. 5 : m < n <=> LevelFor(n) < LevelFor(m)
BY DEF LevelFor, Levels, Thresholds

-----------------------------------------------------------------------------
(* The steps *)

\* An observation is that of an issue of the firewall, or nothing at all.
LEMMA Observed ==
  ASSUME TypeOK, NEW obs \in Observation, NEW c \in Certificates
  PROVE  /\ obs[c].days \in Int /\ obs[c].issue \in 0 .. MaxIssue
         /\ obs[c].issue = 0 => CrossedBy(obs[c].days) = 0
<1>1. obs[c] \in Left \cup {Nothing}
  BY DEF Observation
<1>2. CASE obs[c] \in Left
  <2>1. obs[c].days \in DayValues /\ obs[c].issue \in 1 .. MaxIssue
    BY <1>2 DEF Left
  <2>2. obs[c].issue \in 0 .. MaxIssue /\ obs[c].issue # 0
    BY <2>1, DaysAssumption
  <2> QED
    BY <2>1, <2>2, DaysAssumption
<1>3. CASE obs[c] = Nothing
  <2>1. {t \in {30, 14, 7, 1, 0} : 12000 <= t} = {}
    OBVIOUS
  <2> QED
    BY <1>3, <2>1, ThresholdsCounted, DaysAssumption DEF Nothing, CrossedBy
<1> QED
  BY <1>1, <1>2, <1>3

\* What one application says of one certificate, in numbers of thresholds.
LEMMA Applied ==
  ASSUME AlertInv, NEW r \in Readers, Apply(r), NEW c \in Certificates
  PROVE  \E n \in 0 .. 5, issue \in 0 .. MaxIssue :
            /\ inflight[r][c].issue = issue
            /\ issue <= left[c].issue
            /\ issue = 0 => n = 0
            /\ c \in emitted' <=> LevelFor(n) < levels[c]
            /\ levels'[c] = IF LevelFor(n) < levels[c] THEN LevelFor(n) ELSE levels[c]
            /\ crossed'[c] =
                  IF \/ issue > crossed[c].issue
                     \/ issue = crossed[c].issue /\ n > crossed[c].count
                  THEN [count |-> n, issue |-> issue]
                  ELSE crossed[c]
<1> DEFINE obs == inflight[r]
           n == CrossedBy(obs[c].days)
<1>1. obs \in Observation /\ obs # None
  BY DEF AlertInv, TypeOK, Apply
<1>2. /\ obs[c].days \in Int /\ obs[c].issue \in 0 .. MaxIssue
      /\ obs[c].issue = 0 => n = 0
  BY <1>1, Observed DEF AlertInv
<1>3. obs[c].issue <= left[c].issue
  BY <1>1 DEF AlertInv, AlertDiscipline
<1>4. n \in 0 .. 5 /\ Level(obs[c].days) = LevelFor(n)
  BY <1>2, LevelCounts
<1>5. /\ emitted' = Due(obs) /\ levels' = Record(obs) /\ crossed' = Crossing(obs)
  BY DEF Apply
<1>6. c \in emitted' <=> LevelFor(n) < levels[c]
  BY <1>4, <1>5 DEF Due
<1>7. levels'[c] = IF LevelFor(n) < levels[c] THEN LevelFor(n) ELSE levels[c]
  BY <1>4, <1>5 DEF Record, Due
<1>8. crossed'[c] = IF \/ obs[c].issue > crossed[c].issue
                       \/ obs[c].issue = crossed[c].issue /\ n > crossed[c].count
                    THEN [count |-> n, issue |-> obs[c].issue]
                    ELSE crossed[c]
  BY <1>5 DEF Crossing
<1> HIDE DEF n
<1> QED
  BY <1>2, <1>3, <1>4, <1>6, <1>7, <1>8

\* Nothing has been seen and nothing announced.
LEMMA InitEstablishes == Init => AlertInv
<1> SUFFICES ASSUME Init PROVE AlertInv
  OBVIOUS
<1>1. TypeOK
  BY DaysAssumption DEF Init, TypeOK, Left, Levels, Thresholds
<1>2. LevelFor(0) = 31
  BY DEF LevelFor
<1>3. \A c \in Certificates : left[c].issue = 1
  BY DEF Init
<1> QED
  BY <1>1, <1>2, <1>3 DEF Init, AlertInv, AlertDiscipline

\* The firewall gives an issue fewer days, or a new one: nobody has seen that.
LEMMA FirewallPreserves ==
  ASSUME AlertInv, NEW c \in Certificates, TimePasses(c) \/ Renew(c)
  PROVE  AlertInv'
<1>1. /\ left' \in [Certificates -> Left]
      /\ \A d \in Certificates : left[d].issue <= left'[d].issue
      /\ \A d \in Certificates : left'[d].issue = 1 => left[d].issue = 1
  <2>1. CASE TimePasses(c)
    BY <2>1, DaysAssumption DEF TimePasses, AlertInv, TypeOK, Left
  <2>2. CASE Renew(c)
    <3>1. Max(DayValues) \in DayValues
      BY DaysAssumption, MaxOfFinite
    <3>2. left[c].issue + 1 \in 1 .. MaxIssue
      BY <2>2, DaysAssumption DEF Renew, AlertInv, TypeOK, Left
    <3>3. left' = [left EXCEPT ![c] = [days |-> Max(DayValues), issue |-> left[c].issue + 1]]
      BY <2>2 DEF Renew
    <3> QED
      BY <3>1, <3>2, <3>3, DaysAssumption DEF AlertInv, TypeOK, Left
  <2> QED
    BY <2>1, <2>2
<1>2. UNCHANGED <<inflight, levels, crossed, expired>> /\ emitted' = {}
  BY DEF TimePasses, Renew
<1>3. TypeOK'
  BY <1>1, <1>2 DEF AlertInv, TypeOK
<1>4. \A d \in Certificates :
        /\ left[d].issue \in Nat /\ left'[d].issue \in Nat /\ crossed[d].issue \in Nat
        /\ \A r \in Readers : inflight[r] # None => inflight[r][d].issue \in Nat
  <2>1. \A d \in Certificates, r \in Readers : inflight[r] # None => inflight[r][d].issue \in Nat
    BY Observed, DaysAssumption DEF AlertInv, TypeOK
  <2> QED
    BY <1>1, <2>1, DaysAssumption DEF AlertInv, TypeOK, Left
<1> QED
  BY <1>1, <1>2, <1>3, <1>4 DEF AlertInv, AlertDiscipline

\* A read returns what the firewall has, or nothing.
LEMMA SamplePreserves ==
  ASSUME AlertInv, NEW r \in Readers, Sample(r)
  PROVE  AlertInv'
<1>1. PICK obs \in Observation :
        /\ inflight' = [inflight EXCEPT ![r] = obs]
        /\ \A c \in Certificates : obs[c].issue <= left[c].issue
  <2>1. left \in Observation /\ [c \in Certificates |-> Nothing] \in Observation
    BY DEF AlertInv, TypeOK, Observation
  <2>2. \A c \in Certificates : Nothing.issue <= left[c].issue /\ left[c].issue <= left[c].issue
    BY DaysAssumption DEF Nothing, AlertInv, TypeOK, Left
  <2> QED
    BY <2>1, <2>2 DEF Sample
<1>2. UNCHANGED <<left, levels, crossed, expired>> /\ emitted' = {}
  BY DEF Sample
<1>3. TypeOK'
  BY <1>1, <1>2 DEF AlertInv, TypeOK
<1> QED
  BY <1>1, <1>2, <1>3 DEF AlertInv, TypeOK, AlertDiscipline

\* An application moves the level and the thresholds crossed in step, unless the
\* certificate was renewed.
LEMMA ApplyPreserves ==
  ASSUME AlertInv, NEW r \in Readers, Apply(r)
  PROVE  AlertInv'
<1>1. \A c \in Certificates :
        /\ levels[c] \in Levels /\ levels[c] \in Int
        /\ crossed[c] \in [count : 0 .. 5, issue : 0 .. MaxIssue]
        /\ left[c].issue \in 1 .. MaxIssue
  BY DEF AlertInv, TypeOK, Left, Levels, Thresholds
<1>2. \A n \in 0 .. 5 : LevelFor(n) \in Levels /\ LevelFor(n) \in Int
  BY LevelsFall DEF Levels, Thresholds
<1>3. UNCHANGED left /\ inflight' = [inflight EXCEPT ![r] = None]
  BY DEF Apply
<1>4. ASSUME NEW c \in Certificates
      PROVE  /\ levels'[c] \in Levels
             /\ crossed'[c] \in [count : 0 .. 5, issue : 0 .. MaxIssue]
             /\ crossed'[c].issue <= left[c].issue
             /\ crossed'[c].issue = 0 => crossed'[c].count = 0
             /\ levels'[c] <= LevelFor(crossed'[c].count)
             /\ left[c].issue = 1 => levels'[c] = LevelFor(crossed'[c].count)
  <2>1. PICK n \in 0 .. 5, issue \in 0 .. MaxIssue :
            /\ issue <= left[c].issue
            /\ issue = 0 => n = 0
            /\ levels'[c] = IF LevelFor(n) < levels[c] THEN LevelFor(n) ELSE levels[c]
            /\ crossed'[c] =
                  IF \/ issue > crossed[c].issue
                     \/ issue = crossed[c].issue /\ n > crossed[c].count
                  THEN [count |-> n, issue |-> issue]
                  ELSE crossed[c]
    BY Applied
  <2>2. /\ levels[c] <= LevelFor(crossed[c].count)
        /\ crossed[c].issue <= left[c].issue
        /\ crossed[c].issue = 0 => crossed[c].count = 0
        /\ left[c].issue = 1 => levels[c] = LevelFor(crossed[c].count)
    BY DEF AlertInv, AlertDiscipline
  <2>3. LevelFor(0) = 31 /\ \A m \in 0 .. 5 : LevelFor(m) <= 31
    BY DEF LevelFor
  <2>4. crossed[c].count \in 0 .. 5 /\ crossed[c].issue \in 0 .. MaxIssue
    BY <1>1
  <2>5. levels'[c] \in Levels
    BY <1>1, <1>2, <2>1
  <2>6. CASE issue > crossed[c].issue
    BY <1>1, <1>2, <2>1, <2>2, <2>3, <2>4, <2>5, <2>6, DaysAssumption
  <2>7. CASE issue = crossed[c].issue /\ n > crossed[c].count
    <3>1. LevelFor(n) < LevelFor(crossed[c].count)
      BY <2>4, <2>7, LevelsFall
    <3> QED
      BY <1>1, <1>2, <2>1, <2>2, <2>3, <2>4, <2>5, <2>7, <3>1, DaysAssumption
  <2>8. CASE /\ ~(issue > crossed[c].issue)
             /\ ~(issue = crossed[c].issue /\ n > crossed[c].count)
    <3>1. crossed'[c] = crossed[c]
      BY <2>1, <2>8, Zenon
    <3>2. left[c].issue = 1 => LevelFor(crossed[c].count) <= LevelFor(n)
      <4>1. issue = crossed[c].issue => ~(crossed[c].count < n)
        BY <2>4, <2>8
      <4>2. issue = crossed[c].issue => ~(LevelFor(n) < LevelFor(crossed[c].count))
        BY <2>4, <4>1, LevelsFall
      <4>3. issue # crossed[c].issue /\ left[c].issue = 1 => issue = 0
        BY <2>1, <2>2, <2>4, <2>8, DaysAssumption
      <4> QED
        BY <1>2, <2>1, <2>3, <2>4, <4>2, <4>3
    <3> QED
      BY <1>1, <1>2, <2>1, <2>2, <2>4, <2>5, <3>1, <3>2
  <2> QED
    BY <2>6, <2>7, <2>8
<1>5. TypeOK'
  <2>1. levels' = [c \in Certificates |-> levels'[c]]
        /\ crossed' = [c \in Certificates |-> crossed'[c]]
    BY DEF Apply, Record, Crossing
  <2>2. levels' \in [Certificates -> Levels]
        /\ crossed' \in [Certificates -> [count : 0 .. 5, issue : 0 .. MaxIssue]]
    BY <1>4, <2>1
  <2>3. emitted' \subseteq Certificates /\ expired' \subseteq Certificates
    BY DEF Apply, Due, AlertInv, TypeOK
  <2> QED
    BY <1>3, <2>2, <2>3 DEF AlertInv, TypeOK
<1> QED
  BY <1>3, <1>4, <1>5 DEF AlertInv, AlertDiscipline, TypeOK

\* Every step keeps the invariant.
LEMMA NextPreserves == AlertInv /\ [Next]_vars => AlertInv'
<1>1. AlertInv /\ UNCHANGED vars => AlertInv'
  BY DEF AlertInv, TypeOK, AlertDiscipline, vars
<1> QED
  BY <1>1, FirewallPreserves, SamplePreserves, ApplyPreserves DEF Next

-----------------------------------------------------------------------------
(* The theorems *)

\* The induction, for any certificates, readers, days and number of renewals.
THEOREM Invariance == Spec => []AlertInv
BY InitEstablishes, NextPreserves, PTL DEF Spec

\* The levels remembered are those of _emit_certificate_alerts and no others.
THEOREM TypeCorrect == Spec => []TypeOK
<1>1. AlertInv => TypeOK
  BY DEF AlertInv
<1> QED
  BY <1>1, Invariance, PTL

\* Only the application of a read announces anything or finds anything crossed.
LEMMA OnlyApplyAlerts ==
  ASSUME AlertInv, [Next]_vars, \A r \in Readers : ~Apply(r)
  PROVE  UNCHANGED crossed /\ (emitted' = {} \/ UNCHANGED vars)
BY DEF Next, TimePasses, Renew, Sample, vars

\* Until a certificate is renewed, a step announces it exactly if an application
\* has found a threshold newly crossed.
LEMMA AlertIsCrossing ==
  ASSUME AlertInv, NEW r \in Readers, Apply(r), NEW c \in Certificates, left[c].issue = 1
  PROVE  c \in emitted' <=> c \in NewlyCrossed
<1>1. PICK n \in 0 .. 5, issue \in 0 .. MaxIssue :
          /\ issue <= left[c].issue
          /\ issue = 0 => n = 0
          /\ c \in emitted' <=> LevelFor(n) < levels[c]
          /\ crossed'[c] =
                IF \/ issue > crossed[c].issue
                   \/ issue = crossed[c].issue /\ n > crossed[c].count
                THEN [count |-> n, issue |-> issue]
                ELSE crossed[c]
  BY Applied
<1>2. /\ crossed[c].count \in 0 .. 5 /\ crossed[c].issue \in 0 .. MaxIssue
      /\ crossed[c].issue <= left[c].issue
      /\ crossed[c].issue = 0 => crossed[c].count = 0
      /\ levels[c] = LevelFor(crossed[c].count)
  BY DEF AlertInv, AlertDiscipline, TypeOK
<1>3. c \in emitted' <=> crossed[c].count < n
  BY <1>1, <1>2, LevelsFall
<1>4. c \in NewlyCrossed <=> crossed'[c] # crossed[c] /\ crossed'[c].count > 0
  BY DEF NewlyCrossed
<1>5. CASE crossed[c].count < n
  <2>1. issue = 1 /\ crossed[c].issue \in {0, 1}
    BY <1>1, <1>2, <1>5, DaysAssumption
  <2>2. crossed'[c] = [count |-> n, issue |-> issue]
    BY <1>1, <1>2, <1>5, <2>1
  <2> QED
    BY <1>2, <1>3, <1>4, <1>5, <2>2
<1>6. CASE ~(crossed[c].count < n)
  <2>1. crossed'[c] = crossed[c] \/ crossed'[c].count = 0
    BY <1>1, <1>2, <1>6, DaysAssumption
  <2> QED
    BY <1>3, <1>4, <1>6, <2>1
<1> QED
  BY <1>5, <1>6

\* docs/contract.md: alerts "fire as a certificate crosses 30, 14, 7, 1, and 0
\* days".  For any days and any order of any number of reads they do, once
\* each and at no other time, until the certificate is renewed.
THEOREM AlertsAreExactUntilRenewal == Spec => AlertsUntilRenewal
<1>1. ASSUME AlertInv, [Next]_vars
      PROVE  [\A c \in Certificates :
                left[c].issue = 1 => (c \in emitted' <=> c \in NewlyCrossed)]_vars
  <2>1. CASE \E r \in Readers : Apply(r)
    BY <1>1, <2>1, AlertIsCrossing
  <2>2. CASE \A r \in Readers : ~Apply(r)
    BY <1>1, <2>2, OnlyApplyAlerts DEF NewlyCrossed
  <2> QED
    BY <2>1, <2>2
<1> QED
  BY <1>1, Invariance, PTL DEF Spec, AlertsUntilRenewal

\* After a renewal alerts may be missing, but a read of the current issue gives
\* no alert that its days left do not justify, whatever was announced before.
THEOREM RenewalsGiveNoFalseAlarm == Spec => NoFalseAlarm
<1>1. ASSUME AlertInv, [Next]_vars, NEW c \in emitted', NEW r \in Readers,
             inflight[r] # None, inflight'[r] = None,
             inflight[r][c].issue = left[c].issue
      PROVE  c \in NewlyCrossed
  <2>1. Apply(r)
    BY <1>1 DEF Next, TimePasses, Renew, Sample, Apply, AlertInv, TypeOK, vars
  <2>2. c \in Certificates
    BY <2>1 DEF Apply, Due
  <2>3. PICK n \in 0 .. 5, issue \in 0 .. MaxIssue :
            /\ inflight[r][c].issue = issue
            /\ c \in emitted' <=> LevelFor(n) < levels[c]
            /\ crossed'[c] =
                  IF \/ issue > crossed[c].issue
                     \/ issue = crossed[c].issue /\ n > crossed[c].count
                  THEN [count |-> n, issue |-> issue]
                  ELSE crossed[c]
    BY <1>1, <2>1, <2>2, Applied
  <2>4. /\ crossed[c].count \in 0 .. 5 /\ crossed[c].issue \in 0 .. MaxIssue
        /\ crossed[c].issue <= issue
        /\ levels[c] \in Int /\ levels[c] <= LevelFor(crossed[c].count)
    <3>1. crossed[c] \in [count : 0 .. 5, issue : 0 .. MaxIssue] /\ levels[c] \in Levels
      BY <1>1, <2>2 DEF AlertInv, TypeOK
    <3>2. crossed[c].issue <= left[c].issue /\ levels[c] <= LevelFor(crossed[c].count)
      BY <1>1, <2>2 DEF AlertInv, AlertDiscipline
    <3>3. issue = left[c].issue
      BY <1>1, <2>3
    <3> QED
      BY <3>1, <3>2, <3>3 DEF Levels, Thresholds
  <2>5. LevelFor(n) < LevelFor(crossed[c].count) /\ LevelFor(n) < LevelFor(0)
    <3>1. \A m \in 0 .. 5 : LevelFor(m) \in Int /\ LevelFor(m) <= LevelFor(0)
      BY DEF LevelFor
    <3> QED
      BY <1>1, <2>3, <2>4, <3>1
  <2>6. n > crossed[c].count /\ n > 0
    BY <2>4, <2>5, LevelsFall
  <2>7. crossed'[c] = [count |-> n, issue |-> issue] /\ crossed'[c] # crossed[c]
    BY <2>3, <2>4, <2>6, DaysAssumption
  <2> QED
    BY <2>2, <2>6, <2>7 DEF NewlyCrossed
<1>2. AlertInv /\ [Next]_vars =>
        [\A c \in emitted', r \in Readers :
            (/\ inflight[r] # None /\ inflight'[r] = None
             /\ inflight[r][c].issue = left[c].issue) => c \in NewlyCrossed]_vars
  BY <1>1
<1> QED
  BY <1>2, Invariance, PTL DEF Spec, NoFalseAlarm
=============================================================================
