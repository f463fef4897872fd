------------------------ MODULE InterfaceRatesProofs ------------------------
(***************************************************************************)
(* What InterfaceRates promises, for any number of interfaces, reads that  *)
(* overlap and sessions, on a firewall that does whatever it likes or one  *)
(* that does not, or on the simulator.                                     *)
(*                                                                         *)
(* The argument is about observations and the order between them.  Of one  *)
(* that was made before another, a counter has grown since by no more than *)
(* what has flowed, resets only make it smaller; and no read that is not   *)
(* late was made before anything that a session remembers.                 *)
(***************************************************************************)
EXTENDS InterfaceRates, SequenceTheorems, TLAPS

\* Observation a was made before observation b.
Before(a, b) ==
    \A i \in Interfaces :
        /\ a.flowed[i] <= b.flowed[i]
        /\ i \in DOMAIN a.bytes \cap DOMAIN b.bytes =>
              b.bytes[i] + a.flowed[i] <= a.bytes[i] + b.flowed[i]

\* No counter was reset before observation a.
Exact(a) == \A i \in DOMAIN a.bytes : a.bytes[i] = 1 + a.flowed[i]

\* What would be observed now, and what it means to have been observed earlier: on
\* a real firewall, no more than the line rate has flowed since.
AtPresent == [bytes |-> [i \in Interfaces |-> link[i].bytes], flowed |-> flowed]
Past(a, sampled) ==
    /\ Before(a, AtPresent)
    /\ ~setting.simulated => \A i \in Interfaces : flowed[i] + sampled <= a.flowed[i] + clock

\* The sessions that may still compare with what they remember.  A session with a
\* simulator is not heard of again once it has been replaced.
Known == {s \in Sessions : s <= current /\ (~setting.simulated \/ s = current)}

\* Sessions follow one another, and each has applied a snapshot since it is in service.
SessionDiscipline ==
    /\ \A s \in Sessions :
          IF s <= current
          THEN /\ memory[s] \in Memories
               /\ memory[s].observed <= clock /\ memory[s].age <= memory[s].observed
          ELSE memory[s] = Fresh
    /\ \A k \in DOMAIN reads : reads[k].session <= setting.sessions
    /\ setting.simulated => reads = <<>>

CounterDiscipline ==
    \A i \in Interfaces :
        /\ link[i].bytes <= 1 + flowed[i] /\ flowed[i] <= MaxClock
        /\ ~setting.simulated => flowed[i] <= clock

PastDiscipline ==
    /\ \A k \in DOMAIN reads : Past(reads[k], reads[k].sampled)
    /\ \A s \in Known : Past(memory[s], memory[s].observed - memory[s].age)

OrderDiscipline ==
    /\ \A j, k \in DOMAIN reads : j < k => Before(reads[j], reads[k])
    /\ \A k \in DOMAIN reads, s \in Known : ~reads[k].late => Before(memory[s], reads[k])

\* Replacing a session resets its simulator, but not a firewall.
Steady == incidents = {} \/ (~setting.simulated /\ "reset" \notin incidents)

ExactDiscipline ==
    /\ Steady =>
        /\ Exact(AtPresent)
        /\ \A k \in DOMAIN reads : Exact(reads[k])
        /\ \A s \in Known : Exact(memory[s])
    /\ incidents = {} => DOMAIN memory[current].bytes = Interfaces

\* Each part needs the others: what is reported is accounted for because reads are
\* in order, and they stay in order because everything is in the past.
RatesInv ==
    /\ TypeOK
    /\ SessionDiscipline
    /\ CounterDiscipline
    /\ PastDiscipline
    /\ OrderDiscipline
    /\ ExactDiscipline
    /\ TrafficAccounted

-----------------------------------------------------------------------------
(* Types *)

\* A read, while session cur is in service and the clock shows now.
ReadsBy(cur, now) ==
    [session : 1 .. cur + 1, sampled : 0 .. now, bytes : Counters, flowed : Amounts,
     late : BOOLEAN]

\* What the assumption says of the circumstances of a run, and so of time and sessions.
LEMMA SettingTypes ==
  ASSUME TypeOK
  PROVE  /\ MaxClock \in Nat /\ MaxSessions \in Nat \ {0}
         /\ setting.simulated \in BOOLEAN
         /\ setting.sessions \in 1 .. MaxSessions
         /\ current \in Sessions /\ clock \in Nat
BY RatesAssumption DEF TypeOK, Sessions

\* Counters are of interfaces, and small.
LEMMA CounterTypes ==
  \A bytes : bytes \in Counters <=>
               DOMAIN bytes \subseteq Interfaces /\ bytes \in [DOMAIN bytes -> Amount]
BY DEF Counters

\* A failed endpoint yields counters too: none.
LEMMA NothingIsCounters == Nothing \in Counters /\ DOMAIN Nothing = {}
BY CounterTypes DEF Nothing

\* An endpoint that answers yields the counters of the listed interfaces.
LEMMA ListedIsCounters ==
  ASSUME TypeOK
  PROVE  Listed \in Counters /\ \A i \in DOMAIN Listed : i \in Interfaces /\ Listed[i] = link[i].bytes
<1>1. \A i \in Interfaces : link[i].bytes \in Amount
  BY DEF TypeOK
<1>2. DOMAIN Listed \subseteq Interfaces /\ \A i \in DOMAIN Listed : Listed[i] = link[i].bytes
  BY DEF Listed
<1>3. Listed \in [DOMAIN Listed -> Amount]
  BY <1>1, <1>2 DEF Listed
<1> QED
  BY <1>2, <1>3, CounterTypes

\* What holds of the numbers in an observation.
LEMMA ObservationTypes ==
  ASSUME NEW a, a.bytes \in Counters, a.flowed \in Amounts, NEW i \in Interfaces
  PROVE  /\ a.flowed[i] \in Nat
         /\ i \in DOMAIN a.bytes => a.bytes[i] \in Nat
BY CounterTypes, RatesAssumption DEF Amounts, Amount

\* What is known of one read under way.
LEMMA ReadTypes ==
  ASSUME TypeOK, NEW k \in DOMAIN reads
  PROVE  /\ reads[k] \in ReadsBy(current, clock)
         /\ reads[k].session \in Nat \ {0} /\ reads[k].session <= current + 1
         /\ reads[k].sampled \in Nat /\ reads[k].sampled <= clock
         /\ reads[k].bytes \in Counters /\ reads[k].flowed \in Amounts
         /\ reads[k].late \in BOOLEAN
<1>1. reads \in Seq(ReadsBy(current, clock)) /\ current \in Nat /\ clock \in Nat
  BY SettingTypes DEF TypeOK, ReadsBy, Sessions
<1>2. reads[k] \in ReadsBy(current, clock)
  BY <1>1, LenProperties, ElementOfSeq
<1> QED
  BY <1>1, <1>2 DEF ReadsBy

\* The reads form a list.
LEMMA ReadCount ==
  ASSUME TypeOK
  PROVE  /\ reads \in Seq(ReadsBy(current, clock))
         /\ Len(reads) \in Nat /\ DOMAIN reads = 1 .. Len(reads)
BY LenProperties DEF TypeOK, ReadsBy

\* A session that has been in service has a snapshot to compare with.
LEMMA MemoryTypes ==
  ASSUME RatesInv, NEW s \in Sessions, s <= current
  PROVE  /\ memory[s].bytes \in Counters /\ memory[s].flowed \in Amounts
         /\ memory[s].observed \in Nat /\ memory[s].observed <= clock
         /\ memory[s].age \in Nat /\ memory[s].age <= memory[s].observed
BY SettingTypes DEF RatesInv, SessionDiscipline, Memories

\* The present is an observation like any other.
LEMMA PresentTypes ==
  ASSUME TypeOK
  PROVE  /\ AtPresent.bytes \in Counters /\ AtPresent.flowed \in Amounts
         /\ AtPresent.flowed = flowed
         /\ DOMAIN AtPresent.bytes = Interfaces
         /\ \A i \in Interfaces : AtPresent.bytes[i] = link[i].bytes
<1>1. \A i \in Interfaces : link[i].bytes \in Amount
  BY DEF TypeOK
<1>2. [i \in Interfaces |-> link[i].bytes] \in [Interfaces -> Amount]
  BY <1>1
<1> QED
  BY <1>2, CounterTypes DEF AtPresent, TypeOK

\* The session in service may always compare.
LEMMA CurrentIsKnown ==
  ASSUME TypeOK
  PROVE  current \in Known
BY SettingTypes DEF Known, Sessions

-----------------------------------------------------------------------------
(* Lists of reads *)

\* What is left of a list when its element k goes.
LEMMA Removed ==
  ASSUME NEW S, NEW seq \in Seq(S), NEW k \in 1 .. Len(seq)
  PROVE  /\ RemoveAt(seq, k) \in Seq(S)
         /\ Len(RemoveAt(seq, k)) = Len(seq) - 1
         /\ \A j \in 1 .. Len(seq) - 1 :
               RemoveAt(seq, k)[j] = IF j < k THEN seq[j] ELSE seq[j + 1]
<1> DEFINE front == SubSeq(seq, 1, k - 1)
           back == SubSeq(seq, k + 1, Len(seq))
<1>1. Len(seq) \in Nat
  BY LenProperties
<1>2. /\ front \in Seq(S) /\ Len(front) = k - 1
      /\ \A j \in 1 .. k - 1 : front[j] = seq[j]
  BY <1>1, SubSeqProperties
<1>3. /\ back \in Seq(S) /\ Len(back) = Len(seq) - k
      /\ \A j \in 1 .. Len(seq) - k : back[j] = seq[k + j]
  BY <1>1, SubSeqProperties
<1>4. RemoveAt(seq, k) = front \o back
  BY DEF RemoveAt
<1>5. /\ front \o back \in Seq(S) /\ Len(front \o back) = Len(seq) - 1
      /\ \A j \in 1 .. Len(seq) - 1 :
            (front \o back)[j] = IF j <= k - 1 THEN front[j] ELSE back[j - (k - 1)]
  <2> HIDE DEF front, back
  <2>1. /\ front \o back \in Seq(S) /\ Len(front \o back) = Len(front) + Len(back)
        /\ \A j \in 1 .. Len(front) + Len(back) :
              (front \o back)[j] = IF j <= Len(front) THEN front[j] ELSE back[j - Len(front)]
    BY <1>2, <1>3, ConcatProperties
  <2> QED
    BY <1>1, <1>2, <1>3, <2>1
<1>6. ASSUME NEW j \in 1 .. Len(seq) - 1
      PROVE  (front \o back)[j] = IF j < k THEN seq[j] ELSE seq[j + 1]
  <2> HIDE DEF front, back
  <2>1. CASE j < k
    BY <1>1, <1>2, <1>5, <2>1
  <2>2. CASE j >= k
    <3>1. PICK m \in 1 .. Len(seq) - k : m = j - (k - 1)
      BY <1>1, <2>2
    <3>2. (front \o back)[j] = back[m] /\ back[m] = seq[k + m]
      BY <1>1, <1>3, <1>5, <2>2, <3>1
    <3>3. k + m = j + 1
      BY <1>1, <3>1
    <3> QED
      BY <1>1, <2>2, <3>2, <3>3
  <2>3. j < k \/ j >= k
    BY <1>1
  <2> QED
    BY <2>1, <2>2, <2>3, Zenon
<1> QED
  BY <1>4, <1>5, <1>6

\* A function on the first n numbers is a list of length n.
LEMMA IsList ==
  ASSUME NEW S, NEW n \in Nat, NEW f \in [1 .. n -> S]
  PROVE  f \in Seq(S) /\ Len(f) = n
<1>1. f \in Seq(S)
  BY SeqDef
<1> QED
  BY <1>1, LenProperties

-----------------------------------------------------------------------------
(* apply_interface_rates *)

\* A rate stands for the growth of a counter, if that is known.
LEMMA RatedBounds ==
  ASSUME NEW bytes \in Counters, NEW previous \in Counters, NEW elapsed \in Nat,
         NEW i \in Interfaces
  PROVE  /\ Rated(bytes, previous, elapsed)[i] \in Nat
         /\ elapsed = 0 => Rated(bytes, previous, elapsed)[i] = 0
         /\ \/ Rated(bytes, previous, elapsed)[i] = 0
            \/ /\ i \in DOMAIN bytes \cap DOMAIN previous
               /\ Rated(bytes, previous, elapsed)[i] = bytes[i] - previous[i]
         /\ (elapsed > 0 /\ i \in DOMAIN bytes \cap DOMAIN previous /\ bytes[i] >= previous[i]) =>
               Rated(bytes, previous, elapsed)[i] = bytes[i] - previous[i]
<1>1. i \in DOMAIN bytes => bytes[i] \in Nat
  BY CounterTypes, RatesAssumption DEF Amount
<1>2. i \in DOMAIN previous => previous[i] \in Nat
  BY CounterTypes, RatesAssumption DEF Amount
<1> QED
  BY <1>1, <1>2 DEF Rated, Growth

-----------------------------------------------------------------------------
(* _apply_snapshot *)

\* Time only elapses for a session that has applied a snapshot.
LEMMA ElapsedTypes ==
  ASSUME RatesInv, NEW s \in Sessions
  PROVE  /\ Elapsed(s) \in Nat
         /\ s > current => Elapsed(s) = 0
         /\ memory[s] # Fresh => s <= current /\ Elapsed(s) = clock - memory[s].observed
         /\ memory[s].bytes \in Counters
<1>1. clock \in Nat /\ current \in Nat /\ s \in Nat
  BY SettingTypes DEF RatesInv, Sessions
<1>2. s > current => memory[s] = Fresh
  BY <1>1 DEF RatesInv, SessionDiscipline
<1>3. s <= current => memory[s].observed \in Nat /\ memory[s].observed <= clock
                      /\ memory[s].bytes \in Counters
  BY MemoryTypes
<1>4. Fresh.bytes \in Counters
  BY NothingIsCounters DEF Fresh
<1> QED
  BY <1>1, <1>2, <1>3, <1>4 DEF Elapsed

\* The session remembers what it has applied, and the others what they had.
LEMMA PublishRemembers ==
  ASSUME RatesInv, NEW s \in Sessions, s <= setting.sessions, NEW read,
         read.bytes \in Counters, read.flowed \in Amounts,
         read.sampled \in Nat, read.sampled <= clock, Publish(s, read)
  PROVE  /\ memory' \in [Sessions -> Memories \cup {Fresh}]
         /\ memory'[s] \in Memories
         /\ memory'[s].bytes = read.bytes /\ memory'[s].flowed = read.flowed
         /\ memory'[s].observed = clock /\ memory'[s].age <= clock
         /\ memory'[s].observed - memory'[s].age = read.sampled
         /\ \A q \in Sessions \ {s} : memory'[q] = memory[q]
<1> DEFINE new == [bytes |-> read.bytes, observed |-> clock, age |-> clock - read.sampled,
                   flowed |-> read.flowed]
<1>1. clock \in 0 .. MaxClock /\ clock - read.sampled \in 0 .. MaxClock
  BY SettingTypes DEF RatesInv, TypeOK
<1>2. memory' = [memory EXCEPT ![s] = new]
  BY DEF Publish, Remembered
<1>3. new \in Memories
  BY <1>1 DEF Memories
<1>4. memory'[s] = new /\ clock - (clock - read.sampled) = read.sampled /\ clock - read.sampled <= clock
  BY <1>1, <1>2 DEF RatesInv, TypeOK
<1> QED
  BY <1>2, <1>3, <1>4 DEF RatesInv, TypeOK

\* It is in service from then on, unless it has been replaced.
LEMMA PublishServes ==
  ASSUME RatesInv, NEW s \in Sessions, s <= setting.sessions, s <= current + 1,
         NEW read, Publish(s, read), UNCHANGED setting
  PROVE  /\ current' \in 1 .. setting.sessions
         /\ current' = IF s > current THEN s ELSE current
         /\ current <= current' /\ s <= current' /\ current' <= current + 1
         /\ incidents' \subseteq Incidents /\ incidents \subseteq incidents'
         /\ read.late => "late" \in incidents'
         /\ s < current => "detached" \in incidents'
         /\ s > current => "replaced" \in incidents'
         /\ DOMAIN read.bytes # Interfaces => "missing" \in incidents'
         /\ s <= current /\ Elapsed(s) = 0 => "instant" \in incidents'
         /\ "reset" \in incidents' <=> "reset" \in incidents
<1>1. /\ current' = IF s > current THEN s ELSE current
      /\ incidents' = incidents
              \cup (IF read.late THEN {"late"} ELSE {})
              \cup (IF s < current THEN {"detached"} ELSE {})
              \cup (IF s > current THEN {"replaced"} ELSE {})
              \cup (IF DOMAIN read.bytes # Interfaces THEN {"missing"} ELSE {})
              \cup (IF s <= current /\ Elapsed(s) = 0 THEN {"instant"} ELSE {})
  BY DEF Publish
<1>2. s \in Nat /\ s >= 1 /\ current \in Nat /\ current >= 1 /\ current <= setting.sessions
      /\ setting.sessions \in Nat
  BY SettingTypes DEF RatesInv, TypeOK, Sessions
<1>3. incidents' \subseteq Incidents
  BY <1>1 DEF RatesInv, TypeOK, Incidents
<1> QED
  BY <1>1, <1>2, <1>3

\* Who may compare with what it remembers, after a snapshot has been applied.
LEMMA PublishKnown ==
  ASSUME RatesInv, NEW s \in Sessions, s <= setting.sessions, s <= current + 1,
         setting.simulated => s >= current,
         NEW read, Publish(s, read), UNCHANGED setting
  PROVE  /\ s \in Known'
         /\ \A q \in Known' : q \in Sessions /\ (q = s \/ q \in Known)
         /\ setting.simulated => Known' = {s}
<1>1. current' = IF s > current THEN s ELSE current
  BY PublishServes
<1>2. current \in Nat /\ s \in Nat /\ \A q \in Sessions : q \in Nat
  BY SettingTypes DEF RatesInv, Sessions
<1> QED
  BY <1>1, <1>2 DEF Known

\* What the rates of one snapshot add.
LEMMA PublishReports ==
  ASSUME RatesInv, NEW s \in Sessions, NEW read, read.bytes \in Counters, Publish(s, read)
  PROVE  /\ reported' \in [Interfaces -> Nat]
         /\ \A i \in Interfaces :
               reported'[i] = reported[i] + Rated(read.bytes, memory[s].bytes, Elapsed(s))[i]
<1>1. reported' = [i \in Interfaces |->
                      reported[i] + Rated(read.bytes, memory[s].bytes, Elapsed(s))[i]]
  BY DEF Publish
<1>2. \A i \in Interfaces : reported[i] \in Nat
                            /\ Rated(read.bytes, memory[s].bytes, Elapsed(s))[i] \in Nat
  BY RatedBounds, ElapsedTypes DEF RatesInv, TypeOK
<1> QED
  BY <1>1, <1>2

\* Traffic stays accounted for: a snapshot that is not late was sampled after the
\* one that the rates compare it with.
LEMMA PublishAccounts ==
  ASSUME RatesInv, NEW s \in Sessions, s <= setting.sessions, s <= current + 1,
         NEW read, read.bytes \in Counters, read.flowed \in Amounts,
         read.sampled \in Nat, read.sampled <= clock,
         ~read.late => /\ \A i \in Interfaces : memory[current].flowed[i] <= read.flowed[i]
                       /\ s = current => Before(memory[current], read),
         incidents = {} /\ s = current => Exact(read),
         Publish(s, read), UNCHANGED setting
  PROVE  TrafficAccounted'
<1> SUFFICES ASSUME NEW i \in Interfaces, incidents' \cap {"late", "detached"} = {}
             PROVE  /\ reported'[i] <= read.flowed[i]
                    /\ incidents' = {} => reported'[i] = read.flowed[i]
  <2>1. "late" \notin incidents' /\ "detached" \notin incidents'
          => s >= current /\ current' = s /\ memory'[s].flowed = read.flowed
    BY PublishServes, PublishRemembers, SettingTypes DEF RatesInv, Sessions
  <2> QED
    BY <2>1 DEF TrafficAccounted
<1>1. ~read.late /\ s >= current /\ incidents \cap {"late", "detached"} = {}
  BY PublishServes, SettingTypes DEF RatesInv, Sessions
<1> DEFINE rated == Rated(read.bytes, memory[s].bytes, Elapsed(s))[i]
           before == memory[current]
<1>2. /\ before.flowed[i] <= read.flowed[i]
      /\ s = current /\ i \in DOMAIN before.bytes \cap DOMAIN read.bytes =>
            read.bytes[i] + before.flowed[i] <= before.bytes[i] + read.flowed[i]
  BY <1>1 DEF Before
<1>3. /\ reported[i] <= before.flowed[i]
      /\ incidents = {} => reported[i] = before.flowed[i]
  BY <1>1 DEF RatesInv, TrafficAccounted
<1>4. /\ before.bytes \in Counters /\ before.flowed[i] \in Nat
      /\ i \in DOMAIN before.bytes => before.bytes[i] \in Nat
  <2>1. before.bytes \in Counters /\ before.flowed \in Amounts
    BY MemoryTypes, SettingTypes DEF RatesInv, Sessions
  <2> QED
    BY <2>1, ObservationTypes
<1>5. read.flowed[i] \in Nat /\ (i \in DOMAIN read.bytes => read.bytes[i] \in Nat)
  BY ObservationTypes
<1>6. reported[i] \in Nat /\ reported'[i] = reported[i] + rated
  BY PublishReports DEF RatesInv, TypeOK
<1>7. CASE s > current
  <2>1. rated = 0
    BY <1>7, RatedBounds, ElapsedTypes
  <2>2. incidents' # {}
    BY <1>7, PublishServes
  <2> QED
    BY <1>2, <1>3, <1>4, <1>5, <1>6, <2>1, <2>2
<1>8. CASE s = current
  <2>1. /\ rated \in Nat
        /\ \/ rated = 0
           \/ /\ i \in DOMAIN before.bytes \cap DOMAIN read.bytes
              /\ rated = read.bytes[i] - before.bytes[i]
        /\ (Elapsed(s) > 0 /\ i \in DOMAIN before.bytes \cap DOMAIN read.bytes
               /\ read.bytes[i] >= before.bytes[i]) =>
                 rated = read.bytes[i] - before.bytes[i]
    BY <1>4, <1>8, RatedBounds, ElapsedTypes
  <2>2. reported'[i] <= read.flowed[i]
    BY <1>2, <1>3, <1>4, <1>5, <1>6, <1>8, <2>1
  <2>3. ASSUME incidents' = {} PROVE reported'[i] = read.flowed[i]
    <3>1. incidents = {} /\ Elapsed(s) > 0 /\ DOMAIN read.bytes = Interfaces
      BY <1>8, <2>3, PublishServes, ElapsedTypes, SettingTypes DEF RatesInv
    <3>2. /\ DOMAIN before.bytes = Interfaces
          /\ before.bytes[i] = 1 + before.flowed[i] /\ read.bytes[i] = 1 + read.flowed[i]
      BY <1>8, <3>1, CurrentIsKnown DEF RatesInv, ExactDiscipline, Steady, Exact
    <3> QED
      BY <1>2, <1>3, <1>4, <1>5, <1>6, <2>1, <3>1, <3>2
  <2> QED
    BY <2>2, <2>3
<1> QED
  BY <1>1, <1>7, <1>8, SettingTypes DEF RatesInv, Sessions

-----------------------------------------------------------------------------
(* Time, and the firewall *)

\* What lies in the past stays there, while counters follow the traffic or are reset
\* and the firewall keeps to the line rate.
LEMMA PastLasts ==
  ASSUME TypeOK, TypeOK', UNCHANGED setting,
         \A i \in Interfaces :
            /\ flowed[i] <= flowed'[i]
            /\ link'[i].bytes + flowed[i] <= link[i].bytes + flowed'[i]
            /\ ~setting.simulated => flowed'[i] + clock <= flowed[i] + clock',
         NEW a, a.bytes \in Counters, a.flowed \in Amounts, NEW sampled \in Nat,
         Past(a, sampled)
  PROVE  Past(a, sampled)'
<1> SUFFICES ASSUME NEW i \in Interfaces
             PROVE  /\ a.flowed[i] <= flowed'[i]
                    /\ i \in DOMAIN a.bytes =>
                          link'[i].bytes + a.flowed[i] <= a.bytes[i] + flowed'[i]
                    /\ ~setting.simulated => flowed'[i] + sampled <= a.flowed[i] + clock'
  BY DEF Past, Before, AtPresent
<1>1. /\ a.flowed[i] <= flowed[i]
      /\ i \in DOMAIN a.bytes => link[i].bytes + a.flowed[i] <= a.bytes[i] + flowed[i]
      /\ ~setting.simulated => flowed[i] + sampled <= a.flowed[i] + clock
  BY DEF Past, Before, AtPresent
<1>2. /\ flowed[i] \in Nat /\ flowed'[i] \in Nat /\ clock \in Nat /\ clock' \in Nat
      /\ link[i].bytes \in Nat /\ link'[i].bytes \in Nat
  BY RatesAssumption DEF TypeOK, Amounts, Amount
<1>3. a.flowed[i] \in Nat /\ (i \in DOMAIN a.bytes => a.bytes[i] \in Nat)
  BY ObservationTypes
<1> QED
  BY <1>1, <1>2, <1>3

\* Steps of the firewall: nobody has noticed yet.
LEMMA FirewallMoves ==
  ASSUME RatesInv, UNCHANGED <<setting, reads, current, memory, reported>>,
         link' \in [Interfaces -> [listed : BOOLEAN, bytes : Nat]],
         flowed' \in [Interfaces -> Nat],
         clock' \in 0 .. MaxClock, clock <= clock',
         \A i \in Interfaces :
            /\ flowed[i] <= flowed'[i] /\ flowed'[i] <= MaxClock
            /\ link'[i].bytes + flowed[i] <= link[i].bytes + flowed'[i]
            /\ ~setting.simulated => flowed'[i] + clock <= flowed[i] + clock',
         incidents' \in {incidents, incidents \cup {"reset"}},
         "reset" \in incidents' \/
            \A i \in Interfaces : link'[i].bytes + flowed[i] = link[i].bytes + flowed'[i]
  PROVE  RatesInv'
<1>1. TypeOK /\ clock \in Nat /\ current \in Nat
  BY SettingTypes DEF RatesInv, Sessions
<1>2. CounterDiscipline'
  <2> SUFFICES ASSUME NEW i \in Interfaces
               PROVE  /\ link'[i].bytes <= 1 + flowed'[i]
                      /\ ~setting.simulated => flowed'[i] <= clock'
    BY DEF CounterDiscipline
  <2>1. link[i].bytes <= 1 + flowed[i] /\ (~setting.simulated => flowed[i] <= clock)
    BY DEF RatesInv, CounterDiscipline
  <2>2. /\ flowed[i] \in Nat /\ flowed'[i] \in Nat /\ link[i].bytes \in Nat /\ link'[i].bytes \in Nat
        /\ clock' \in Nat
    BY <1>1, RatesAssumption DEF TypeOK, Amounts, Amount
  <2> QED
    BY <1>1, <2>1, <2>2
<1>3. TypeOK'
  <2>1. link' \in [Interfaces -> [listed : BOOLEAN, bytes : Amount]] /\ flowed' \in Amounts
    <3>1. \A i \in Interfaces : link'[i].bytes \in Amount /\ flowed'[i] \in Amount
      BY <1>2, RatesAssumption DEF CounterDiscipline, Amount
    <3> QED
      BY <3>1 DEF Amounts
  <2>2. reads' \in Seq(ReadsBy(current, clock'))
    <3>1. ReadsBy(current, clock) \subseteq ReadsBy(current, clock')
      BY <1>1 DEF ReadsBy
    <3> QED
      BY <1>1, <3>1, ReadCount, SeqMonotonic
  <2>3. incidents' \subseteq Incidents
    BY <1>1 DEF TypeOK, Incidents
  <2> QED
    BY <1>1, <2>1, <2>2, <2>3 DEF TypeOK, ReadsBy
<1>4. SessionDiscipline'
  <2>1. \A s \in Sessions : s <= current => memory[s].observed <= clock'
    BY <1>1, MemoryTypes DEF TypeOK
  <2> QED
    BY <2>1 DEF RatesInv, SessionDiscipline
<1>5. PastDiscipline'
  <2>1. ASSUME NEW k \in DOMAIN reads PROVE Past(reads[k], reads[k].sampled)'
    BY <1>1, <1>3, <2>1, PastLasts, ReadTypes DEF RatesInv, PastDiscipline
  <2>2. ASSUME NEW s \in Known PROVE Past(memory[s], memory[s].observed - memory[s].age)'
    <3>1. /\ s \in Sessions /\ s <= current
          /\ Past(memory[s], memory[s].observed - memory[s].age)
      BY DEF Known, RatesInv, PastDiscipline
    <3>2. /\ memory[s].observed - memory[s].age \in Nat
          /\ memory[s].bytes \in Counters /\ memory[s].flowed \in Amounts
      BY <3>1, MemoryTypes
    <3> QED
      BY <1>1, <1>3, <3>1, <3>2, PastLasts
  <2> QED
    BY <2>1, <2>2 DEF PastDiscipline, Known
<1>6. OrderDiscipline'
  BY DEF RatesInv, OrderDiscipline, Known, Before
<1>7. ExactDiscipline'
  <2>1. Steady' => Steady /\ "reset" \notin incidents'
    BY DEF Steady
  <2>2. ASSUME Steady' PROVE Exact(AtPresent)'
    <3>1. \A i \in Interfaces : link[i].bytes = 1 + flowed[i]
      BY <2>1, <2>2 DEF RatesInv, ExactDiscipline, Exact, AtPresent
    <3>2. \A i \in Interfaces :
            /\ flowed[i] \in Nat /\ flowed'[i] \in Nat
            /\ link[i].bytes \in Nat /\ link'[i].bytes \in Nat
      BY <1>1, RatesAssumption DEF TypeOK, Amounts, Amount
    <3>3. \A i \in Interfaces : link'[i].bytes + flowed[i] = link[i].bytes + flowed'[i]
      BY <2>1, <2>2
    <3>4. \A i \in Interfaces : link'[i].bytes = 1 + flowed'[i]
      BY <3>1, <3>2, <3>3
    <3> QED
      BY <3>4 DEF Exact, AtPresent
  <2> QED
    BY <2>1, <2>2 DEF RatesInv, ExactDiscipline, Known, Exact
<1>8. TrafficAccounted'
  BY DEF RatesInv, TrafficAccounted
<1> QED
  BY <1>2, <1>3, <1>4, <1>5, <1>6, <1>7, <1>8 DEF RatesInv

\* In a unit of time a counter counts at most one unit of traffic.
LEMMA PassPreserves == RatesInv /\ Pass => RatesInv'
<1> SUFFICES ASSUME RatesInv, Pass PROVE RatesInv'
  OBVIOUS
<1>1. PICK busy \in SUBSET {i \in Interfaces : link[i].listed /\ ~setting.simulated} :
        /\ link' = [i \in Interfaces |->
              IF i \in busy THEN [link[i] EXCEPT !.bytes = @ + 1] ELSE link[i]]
        /\ flowed' = [i \in Interfaces |-> flowed[i] + IF i \in busy THEN 1 ELSE 0]
  BY DEF Pass
<1>2. /\ UNCHANGED <<setting, reads, current, memory, reported, incidents>>
      /\ clock' = clock + 1 /\ clock' \in 0 .. MaxClock
  BY SettingTypes DEF Pass, RatesInv, TypeOK
<1>3. clock \in Nat /\ MaxClock \in Nat
  BY SettingTypes DEF RatesInv
<1>4. \A i \in Interfaces :
        /\ link[i] \in [listed : BOOLEAN, bytes : Nat] /\ flowed[i] \in Nat
        /\ flowed[i] <= MaxClock /\ (~setting.simulated => flowed[i] <= clock)
  BY <1>3 DEF RatesInv, TypeOK, CounterDiscipline, Amounts, Amount
<1>5. \A i \in Interfaces :
        IF i \in busy
        THEN /\ link'[i] = [link[i] EXCEPT !.bytes = @ + 1] /\ link'[i].bytes = link[i].bytes + 1
             /\ flowed'[i] = flowed[i] + 1 /\ ~setting.simulated
        ELSE link'[i] = link[i] /\ flowed'[i] = flowed[i]
  BY <1>1, <1>4
<1>6. /\ link' \in [Interfaces -> [listed : BOOLEAN, bytes : Nat]]
      /\ flowed' \in [Interfaces -> Nat]
  BY <1>1, <1>4
<1>7. \A i \in Interfaces :
            /\ flowed[i] <= flowed'[i] /\ flowed'[i] <= MaxClock
            /\ link'[i].bytes + flowed[i] = link[i].bytes + flowed'[i]
            /\ ~setting.simulated => flowed'[i] + clock <= flowed[i] + clock'
            /\ link'[i].bytes + flowed[i] <= link[i].bytes + flowed'[i]
  <2> SUFFICES ASSUME NEW i \in Interfaces
               PROVE  /\ flowed[i] <= flowed'[i] /\ flowed'[i] <= MaxClock
                      /\ link'[i].bytes + flowed[i] = link[i].bytes + flowed'[i]
                      /\ ~setting.simulated => flowed'[i] + clock <= flowed[i] + clock'
                      /\ link'[i].bytes + flowed[i] <= link[i].bytes + flowed'[i]
    OBVIOUS
  <2>1. /\ link[i].bytes \in Nat /\ flowed[i] \in Nat /\ flowed[i] <= MaxClock
        /\ ~setting.simulated => flowed[i] <= clock
        /\ clock < MaxClock
    BY <1>4 DEF Pass
  <2>2. CASE i \in busy
    <3>1. /\ link'[i].bytes = link[i].bytes + 1 /\ flowed'[i] = flowed[i] + 1
          /\ flowed[i] <= clock
      BY <1>5, <2>1, <2>2
    <3> QED
      BY <1>2, <1>3, <2>1, <3>1
  <2>3. CASE i \notin busy
    <3>1. link'[i].bytes = link[i].bytes /\ flowed'[i] = flowed[i]
      BY <1>5, <2>3
    <3> QED
      BY <1>2, <1>3, <2>1, <3>1
  <2> QED
    BY <2>2, <2>3
<1> QED
  BY <1>2, <1>3, <1>6, <1>7, FirewallMoves

\* An interface that goes keeps what it has counted, and one that is reset forgets it.
LEMMA LinkPreserves ==
  ASSUME RatesInv, NEW i \in Interfaces, Unplug(i) \/ PlugIn(i) \/ Reset(i)
  PROVE  RatesInv'
<1>1. /\ UNCHANGED <<setting, clock, flowed, reads, current, memory, reported>>
      /\ clock \in 0 .. MaxClock /\ clock \in Nat /\ flowed' \in [Interfaces -> Nat]
  BY RatesAssumption DEF Amounts, Amount, Unplug, PlugIn, Reset, RatesInv, TypeOK
<1>2. \A j \in Interfaces :
        /\ link[j] \in [listed : BOOLEAN, bytes : Nat] /\ flowed[j] \in Nat
        /\ flowed[j] <= MaxClock /\ flowed[j] <= flowed'[j] /\ clock <= clock'
        /\ flowed'[j] + clock <= flowed[j] + clock'
  BY <1>1, RatesAssumption DEF RatesInv, TypeOK, CounterDiscipline, Amounts, Amount
<1>3. CASE Unplug(i) \/ PlugIn(i)
  <2>1. PICK b \in BOOLEAN : link' = [link EXCEPT ![i] = [link[i] EXCEPT !.listed = b]]
    BY <1>3 DEF Unplug, PlugIn
  <2>2. /\ link' \in [Interfaces -> [listed : BOOLEAN, bytes : Nat]]
        /\ \A j \in Interfaces : link'[j].bytes = link[j].bytes
        /\ incidents' = incidents
    BY <1>2, <1>3, <2>1 DEF Unplug, PlugIn, RatesInv, TypeOK
  <2>3. \A j \in Interfaces : link'[j].bytes + flowed[j] <= link[j].bytes + flowed'[j]
    BY <1>1, <1>2, <2>2
  <2> QED
    BY <1>1, <1>2, <2>2, <2>3, FirewallMoves
<1>4. CASE Reset(i)
  <2>1. link' = [link EXCEPT ![i] = [link[i] EXCEPT !.bytes = 0]]
        /\ incidents' = incidents \cup {"reset"}
    BY <1>4 DEF Reset
  <2>2. /\ link' \in [Interfaces -> [listed : BOOLEAN, bytes : Nat]]
        /\ \A j \in Interfaces : link'[j].bytes \in {0, link[j].bytes}
    BY <1>2, <2>1 DEF RatesInv, TypeOK
  <2>3. \A j \in Interfaces : link'[j].bytes + flowed[j] <= link[j].bytes + flowed'[j]
    BY <1>1, <1>2, <2>2
  <2> QED
    BY <1>1, <1>2, <2>1, <2>2, <2>3, FirewallMoves
<1> QED
  BY <1>3, <1>4

-----------------------------------------------------------------------------
(* read_snapshot *)

\* A read that begins sees the present, or nothing of it.
LEMMA ReadingIsPresent ==
  ASSUME TypeOK, NEW s, NEW bytes \in {Listed, Nothing}
  PROVE  /\ Reading(s, bytes).bytes \in Counters /\ Reading(s, bytes).flowed = flowed
         /\ Reading(s, bytes).sampled = clock /\ Reading(s, bytes).session = s
         /\ \A i \in DOMAIN Reading(s, bytes).bytes :
               i \in Interfaces /\ Reading(s, bytes).bytes[i] = AtPresent.bytes[i]
<1>1. bytes \in Counters /\ \A i \in DOMAIN bytes : i \in Interfaces /\ bytes[i] = link[i].bytes
  BY ListedIsCounters, NothingIsCounters
<1> QED
  BY <1>1, PresentTypes DEF Reading

\* So it comes after everything in the past, and is exact if the present is.
LEMMA ReadingIsLast ==
  ASSUME TypeOK, NEW s, NEW bytes \in {Listed, Nothing}
  PROVE  /\ \A a : Before(a, AtPresent) => Before(a, Reading(s, bytes))
         /\ Past(Reading(s, bytes), clock)
         /\ Exact(AtPresent) => Exact(Reading(s, bytes))
<1> DEFINE new == Reading(s, bytes)
<1>1. /\ new.flowed = flowed /\ AtPresent.flowed = flowed /\ DOMAIN AtPresent.bytes = Interfaces
      /\ \A i \in DOMAIN new.bytes : i \in Interfaces /\ new.bytes[i] = AtPresent.bytes[i]
  BY ReadingIsPresent, PresentTypes
<1> HIDE DEF new
<1>2. \A i \in Interfaces : flowed[i] \in Nat /\ link[i].bytes \in Nat
  BY RatesAssumption DEF TypeOK, Amounts, Amount
<1>3. \A a : Before(a, AtPresent) => Before(a, new)
  BY <1>1 DEF Before
<1>4. Past(new, clock)
  <2>1. \A i \in Interfaces : AtPresent.bytes[i] = link[i].bytes
    BY PresentTypes
  <2> QED
    BY <1>1, <1>2, <2>1, SettingTypes DEF Past, Before
<1>5. Exact(AtPresent) => Exact(new)
  BY <1>1 DEF Exact
<1> QED
  BY <1>3, <1>4, <1>5 DEF new

\* A new read is in order, as it comes after all that is in the past.
LEMMA SamplePreserves == RatesInv /\ Sample => RatesInv'
<1> SUFFICES ASSUME RatesInv, Sample PROVE RatesInv'
  OBVIOUS
<1>1. PICK s \in {current, current + 1}, bytes \in {Listed, Nothing} :
        s <= setting.sessions /\ reads' = Append(reads, Reading(s, bytes))
  BY DEF Sample
<1>2. /\ UNCHANGED <<setting, clock, link, flowed, current, memory, reported, incidents>>
      /\ ~setting.simulated
  BY DEF Sample, firewall
<1> DEFINE new == Reading(s, bytes)
           n == Len(reads)
<1>3. TypeOK /\ current \in Nat \ {0} /\ clock \in Nat
  BY SettingTypes DEF RatesInv, Sessions
<1>4. new \in ReadsBy(current, clock) /\ new.session = s /\ new.sampled = clock
  <2>1. new.bytes \in Counters
    BY <1>3, ReadingIsPresent
  <2> QED
    BY <1>3, <2>1 DEF Reading, ReadsBy, TypeOK
<1>5. /\ reads' \in Seq(ReadsBy(current, clock)) /\ DOMAIN reads' = 1 .. n + 1 /\ n \in Nat
      /\ DOMAIN reads = 1 .. n
      /\ reads'[n + 1] = new /\ \A k \in 1 .. n : reads'[k] = reads[k]
  <2>1. reads \in Seq(ReadsBy(current, clock)) /\ n \in Nat /\ DOMAIN reads = 1 .. n
    BY <1>3, ReadCount
  <2>2. /\ reads' \in Seq(ReadsBy(current, clock)) /\ Len(reads') = n + 1
        /\ reads'[n + 1] = new /\ \A k \in 1 .. n : reads'[k] = reads[k]
    BY <1>1, <1>4, <2>1, AppendProperties
  <2>3. DOMAIN reads' = 1 .. n + 1
    BY <2>2, LenProperties
  <2> QED
    BY <2>1, <2>2, <2>3
<1>6. /\ \A a : Before(a, AtPresent) => Before(a, new)
      /\ Past(new, clock)
      /\ Exact(AtPresent) => Exact(new)
  BY <1>3, ReadingIsLast
<1> HIDE DEF new, n
<1>7. \A k \in DOMAIN reads' : (k \in DOMAIN reads /\ reads'[k] = reads[k])
                                  \/ (k = n + 1 /\ reads'[k] = new)
  BY <1>5
<1>8. TypeOK' /\ CounterDiscipline' /\ TrafficAccounted'
  BY <1>2, <1>5 DEF RatesInv, TypeOK, ReadsBy, CounterDiscipline, TrafficAccounted
<1>9. SessionDiscipline'
  BY <1>1, <1>2, <1>4, <1>7 DEF RatesInv, SessionDiscipline
<1>10. PastDiscipline'
  BY <1>2, <1>4, <1>6, <1>7 DEF RatesInv, PastDiscipline, Known, Past, Before, AtPresent
<1>11. OrderDiscipline'
  <2>1. \A k \in DOMAIN reads : Before(reads[k], AtPresent)
    BY DEF RatesInv, PastDiscipline, Past
  <2>2. \A q \in Known : Before(memory[q], AtPresent)
    BY DEF RatesInv, PastDiscipline, Past
  <2>3. ASSUME NEW j \in DOMAIN reads', NEW k \in DOMAIN reads', j < k
        PROVE  Before(reads'[j], reads'[k])
    <3>1. j \in DOMAIN reads /\ reads'[j] = reads[j]
      BY <1>5, <2>3
    <3> QED
      BY <1>6, <1>7, <2>1, <2>3, <3>1 DEF RatesInv, OrderDiscipline
  <2>4. ASSUME NEW k \in DOMAIN reads', NEW q \in Known, ~reads'[k].late
        PROVE  Before(memory[q], reads'[k])
    BY <1>6, <1>7, <2>2, <2>4 DEF RatesInv, OrderDiscipline
  <2>5. Known' = Known
    BY <1>2 DEF Known
  <2> QED
    BY <1>2, <2>3, <2>4, <2>5 DEF OrderDiscipline, Before
<1>12. ExactDiscipline'
  BY <1>2, <1>6, <1>7 DEF RatesInv, ExactDiscipline, Steady, Known, Exact, AtPresent
<1> QED
  BY <1>8, <1>9, <1>10, <1>11, <1>12 DEF RatesInv

\* Reads that lose their counters or become late, and from which some are missing,
\* are still of the past and in order.
LEMMA ReadsThinned ==
  ASSUME RatesInv, UNCHANGED <<setting, clock, link, flowed>>,
         DOMAIN reads' \subseteq Nat,
         NEW pick \in [DOMAIN reads' -> DOMAIN reads],
         \A j, m \in DOMAIN reads' : j < m => pick[j] < pick[m],
         \A j \in DOMAIN reads' :
            /\ reads'[j].session = reads[pick[j]].session
            /\ reads'[j].sampled = reads[pick[j]].sampled
            /\ reads'[j].flowed = reads[pick[j]].flowed
            /\ reads'[j].bytes \in {reads[pick[j]].bytes, Nothing}
  PROVE  /\ \A j \in DOMAIN reads' :
              /\ reads'[j].session <= setting.sessions
              /\ Past(reads[j], reads[j].sampled)'
              /\ Steady => Exact(reads'[j])
              /\ \A a : Before(a, reads[pick[j]]) => Before(a, reads'[j])
         /\ \A j, m \in DOMAIN reads' : j < m => Before(reads'[j], reads'[m])
         /\ setting.simulated => DOMAIN reads' = {}
<1>1. DOMAIN Nothing = {}
  BY NothingIsCounters
<1>2. ASSUME NEW j \in DOMAIN reads'
      PROVE  /\ reads'[j].session <= setting.sessions
             /\ Past(reads[j], reads[j].sampled)'
             /\ Steady => Exact(reads'[j])
  <2>1. /\ reads[pick[j]].session <= setting.sessions
        /\ Past(reads[pick[j]], reads[pick[j]].sampled)
        /\ Steady => Exact(reads[pick[j]])
    BY DEF RatesInv, SessionDiscipline, PastDiscipline, ExactDiscipline
  <2>2. Past(reads[j], reads[j].sampled)'
    BY <1>1, <2>1 DEF Past, Before, AtPresent
  <2>3. Steady => Exact(reads'[j])
    BY <1>1, <2>1 DEF Exact
  <2> QED
    BY <2>1, <2>2, <2>3
<1>3. ASSUME NEW j \in DOMAIN reads', NEW a, Before(a, reads[pick[j]]) PROVE Before(a, reads'[j])
  BY <1>1, <1>3 DEF Before
<1>4. ASSUME NEW j \in DOMAIN reads', NEW m \in DOMAIN reads', j < m
      PROVE  Before(reads'[j], reads'[m])
  <2>1. Before(reads[pick[j]], reads[pick[m]])
    BY <1>4 DEF RatesInv, OrderDiscipline
  <2> QED
    BY <1>1, <2>1 DEF Before
<1>5. setting.simulated => DOMAIN reads' = {}
  <2>1. setting.simulated => DOMAIN reads = {}
    BY EmptySeq, LenProperties DEF RatesInv, SessionDiscipline
  <2> QED
    BY <2>1
<1> QED
  BY <1>2, <1>3, <1>4, <1>5

\* What is left of the reads when one goes, and how far each moves up.
MovedUp(k) == [j \in 1 .. Len(reads) - 1 |-> IF j < k THEN j ELSE j + 1]

\* Nobody overtakes anybody by moving up.
LEMMA MovedUpTypes ==
  ASSUME TypeOK, NEW k \in DOMAIN reads
  PROVE  /\ k \in 1 .. Len(reads) /\ Len(reads) - 1 \in Nat
         /\ MovedUp(k) \in [1 .. Len(reads) - 1 -> DOMAIN reads]
         /\ \A j, m \in 1 .. Len(reads) - 1 : j < m => MovedUp(k)[j] < MovedUp(k)[m]
         /\ \A j \in 1 .. Len(reads) - 1 :
               IF j < k THEN MovedUp(k)[j] = j
                        ELSE MovedUp(k)[j] = j + 1 /\ MovedUp(k)[j] > k
BY ReadCount DEF MovedUp

\* Steps that only concern the reads.
LEMMA ReadsPreserve ==
  ASSUME RatesInv,
         UNCHANGED <<setting, clock, link, flowed, current, memory, reported, incidents>>,
         NEW n \in Nat, DOMAIN reads' = 1 .. n,
         reads' \in Seq(ReadsBy(current, clock)),
         NEW pick \in [1 .. n -> DOMAIN reads],
         \A j, m \in 1 .. n : j < m => pick[j] < pick[m],
         \A j \in 1 .. n :
            /\ reads'[j].session = reads[pick[j]].session
            /\ reads'[j].sampled = reads[pick[j]].sampled
            /\ reads'[j].flowed = reads[pick[j]].flowed
            /\ reads'[j].bytes \in {reads[pick[j]].bytes, Nothing}
            /\ reads'[j].late = reads[pick[j]].late
  PROVE  RatesInv'
<1>1. /\ \A j \in DOMAIN reads' :
            /\ reads'[j].session <= setting.sessions
            /\ Past(reads[j], reads[j].sampled)'
            /\ Steady => Exact(reads'[j])
            /\ \A a : Before(a, reads[pick[j]]) => Before(a, reads'[j])
      /\ \A j, m \in DOMAIN reads' : j < m => Before(reads'[j], reads'[m])
      /\ setting.simulated => DOMAIN reads' = {}
  <2>1. /\ DOMAIN reads' \subseteq Nat
        /\ pick \in [DOMAIN reads' -> DOMAIN reads]
        /\ \A j, m \in DOMAIN reads' : j < m => pick[j] < pick[m]
        /\ \A j \in DOMAIN reads' :
              /\ reads'[j].session = reads[pick[j]].session
              /\ reads'[j].sampled = reads[pick[j]].sampled
              /\ reads'[j].flowed = reads[pick[j]].flowed
              /\ reads'[j].bytes \in {reads[pick[j]].bytes, Nothing}
    OBVIOUS
  <2> QED
    BY <2>1, ReadsThinned
<1>2. TypeOK' /\ CounterDiscipline' /\ TrafficAccounted'
  BY DEF RatesInv, TypeOK, ReadsBy, CounterDiscipline, TrafficAccounted
<1>3. SessionDiscipline'
  <2>1. setting.simulated => reads' = <<>>
    <3>1. DOMAIN reads' = {} => Len(reads') = 0
      BY LenProperties
    <3> QED
      BY <1>1, <3>1, EmptySeq
  <2> QED
    BY <1>1, <2>1 DEF RatesInv, SessionDiscipline
<1>4. PastDiscipline'
  BY <1>1 DEF RatesInv, PastDiscipline, Known, Past, Before, AtPresent
<1>5. OrderDiscipline'
  <2>1. ASSUME NEW j \in DOMAIN reads', NEW q \in Known, ~reads'[j].late
        PROVE  Before(memory[q], reads'[j])
    BY <1>1, <2>1 DEF RatesInv, OrderDiscipline
  <2>2. Known' = Known
    BY DEF Known
  <2> QED
    BY <1>1, <2>1, <2>2 DEF OrderDiscipline, Before
<1>6. ExactDiscipline'
  BY <1>1 DEF RatesInv, ExactDiscipline, Steady, Known, Exact, AtPresent
<1> QED
  BY <1>2, <1>3, <1>4, <1>5, <1>6 DEF RatesInv

\* A read that fails is gone, and the others move up.
LEMMA ReadFailsPreserves ==
  ASSUME RatesInv, NEW k \in DOMAIN reads, ReadFails(k)
  PROVE  RatesInv'
<1> DEFINE n == Len(reads) - 1
<1>1. /\ UNCHANGED <<setting, clock, link, flowed, current, memory, reported, incidents>>
      /\ reads' = RemoveAt(reads, k)
  BY DEF ReadFails, firewall
<1>2. TypeOK
  BY DEF RatesInv
<1>3. /\ reads' \in Seq(ReadsBy(current, clock)) /\ Len(reads') = n
      /\ \A j \in 1 .. n : reads'[j] = IF j < k THEN reads[j] ELSE reads[j + 1]
  <2>1. reads \in Seq(ReadsBy(current, clock)) /\ k \in 1 .. Len(reads)
    BY <1>2, ReadCount
  <2> QED
    BY <1>1, <2>1, Removed
<1>4. DOMAIN reads' = 1 .. n
  BY <1>3, LenProperties
<1>5. /\ n \in Nat /\ MovedUp(k) \in [1 .. n -> DOMAIN reads]
      /\ \A j, m \in 1 .. n : j < m => MovedUp(k)[j] < MovedUp(k)[m]
      /\ \A j \in 1 .. n : IF j < k THEN MovedUp(k)[j] = j ELSE MovedUp(k)[j] = j + 1
  BY <1>2, MovedUpTypes
<1> HIDE DEF n
<1>6. \A j \in 1 .. n : reads'[j] = reads[MovedUp(k)[j]]
  BY <1>3, <1>5
<1> QED
  BY <1>1, <1>3, <1>4, <1>5, <1>6, ReadsPreserve

\* A read whose client is closed loses its counters and nothing else.
LEMMA CutShortPreserves ==
  ASSUME RatesInv, NEW k \in DOMAIN reads, CutShort(k)
  PROVE  RatesInv'
<1> DEFINE n == Len(reads)
           same == [j \in 1 .. n |-> j]
<1>1. /\ UNCHANGED <<setting, clock, link, flowed, current, memory, reported, incidents>>
      /\ reads' = [reads EXCEPT ![k] = [reads[k] EXCEPT !.bytes = Nothing]]
  BY DEF CutShort, firewall
<1>2. TypeOK
  BY DEF RatesInv
<1>3. /\ reads \in Seq(ReadsBy(current, clock)) /\ n \in Nat /\ DOMAIN reads = 1 .. n
      /\ [reads[k] EXCEPT !.bytes = Nothing] \in ReadsBy(current, clock)
  BY <1>2, ReadCount, ReadTypes, NothingIsCounters DEF ReadsBy
<1>4. /\ reads' \in Seq(ReadsBy(current, clock)) /\ Len(reads') = n
      /\ \A j \in 1 .. n :
            reads'[j] = IF j = k THEN [reads[k] EXCEPT !.bytes = Nothing] ELSE reads[j]
  BY <1>1, <1>3, ExceptSeq
<1>5. DOMAIN reads' = 1 .. n
  BY <1>4, LenProperties
<1>6. same \in [1 .. n -> DOMAIN reads] /\ \A j \in 1 .. n : same[j] = j
  BY <1>3
<1> HIDE DEF n, same
<1>7. \A j \in 1 .. n :
        /\ reads'[j].session = reads[same[j]].session
        /\ reads'[j].sampled = reads[same[j]].sampled
        /\ reads'[j].flowed = reads[same[j]].flowed
        /\ reads'[j].bytes \in {reads[same[j]].bytes, Nothing}
        /\ reads'[j].late = reads[same[j]].late
  <2>1. reads[k] \in ReadsBy(current, clock)
    BY <1>2, ReadTypes
  <2> QED
    BY <1>4, <1>6, <2>1 DEF ReadsBy
<1> QED
  BY <1>1, <1>3, <1>4, <1>5, <1>6, <1>7, ReadsPreserve

\* A read is applied: the ones sampled before it are late from then on, and the
\* others were sampled after what its session now remembers.
LEMMA ApplyPreserves ==
  ASSUME RatesInv, NEW k \in DOMAIN reads, Apply(k)
  PROVE  RatesInv'
<1> DEFINE n == Len(reads) - 1
           s == reads[k].session
           read == reads[k]
<1>1. /\ UNCHANGED <<setting, clock, link, flowed>>
      /\ Publish(s, read)
      /\ reads' = [j \in 1 .. n |->
            IF j < k THEN [reads[j] EXCEPT !.late = TRUE] ELSE reads[j + 1]]
  BY DEF Apply, firewall
<1>2. TypeOK /\ DOMAIN reads # {}
  BY DEF RatesInv
<1>3. /\ s \in Sessions /\ s <= current + 1 /\ s <= setting.sessions
      /\ read.bytes \in Counters /\ read.flowed \in Amounts
      /\ read.sampled \in Nat /\ read.sampled <= clock
  <2>1. s <= setting.sessions
    BY DEF RatesInv, SessionDiscipline
  <2> QED
    BY <1>2, <2>1, ReadTypes, SettingTypes DEF Sessions
<1>4. ~setting.simulated
  <2>1. setting.simulated => DOMAIN reads = {}
    BY EmptySeq, LenProperties DEF RatesInv, SessionDiscipline
  <2> QED
    BY <1>2, <2>1
<1>5. /\ n \in Nat /\ MovedUp(k) \in [1 .. n -> DOMAIN reads]
      /\ \A j, m \in 1 .. n : j < m => MovedUp(k)[j] < MovedUp(k)[m]
      /\ \A j \in 1 .. n : IF j < k THEN MovedUp(k)[j] = j
                                    ELSE MovedUp(k)[j] = j + 1 /\ MovedUp(k)[j] > k
  BY <1>2, MovedUpTypes
<1>6. /\ DOMAIN reads' = 1 .. n
      /\ \A j \in 1 .. n :
            IF j < k THEN reads'[j] = [reads[MovedUp(k)[j]] EXCEPT !.late = TRUE]
                     ELSE reads'[j] = reads[MovedUp(k)[j]]
  <2>1. \A j \in 1 .. n : reads'[j] = IF j < k THEN [reads[j] EXCEPT !.late = TRUE]
                                               ELSE reads[j + 1]
    BY <1>1
  <2>2. DOMAIN reads' = 1 .. n
    BY <1>1
  <2> HIDE DEF n
  <2> QED
    BY <1>5, <2>1, <2>2
<1> HIDE DEF n
<1>7. \A j \in 1 .. n :
        /\ reads'[j].session = reads[MovedUp(k)[j]].session
        /\ reads'[j].sampled = reads[MovedUp(k)[j]].sampled
        /\ reads'[j].flowed = reads[MovedUp(k)[j]].flowed
        /\ reads'[j].bytes \in {reads[MovedUp(k)[j]].bytes, Nothing}
        /\ reads'[j] \in ReadsBy(current, clock)
        /\ j < k => reads'[j].late
        /\ j >= k => reads'[j].late = reads[MovedUp(k)[j]].late
  <2> SUFFICES ASSUME NEW j \in 1 .. n
        PROVE /\ reads'[j].session = reads[MovedUp(k)[j]].session
              /\ reads'[j].sampled = reads[MovedUp(k)[j]].sampled
              /\ reads'[j].flowed = reads[MovedUp(k)[j]].flowed
              /\ reads'[j].bytes \in {reads[MovedUp(k)[j]].bytes, Nothing}
              /\ reads'[j] \in ReadsBy(current, clock)
              /\ j < k => reads'[j].late
              /\ j >= k => reads'[j].late = reads[MovedUp(k)[j]].late
    OBVIOUS
  <2>1. reads[MovedUp(k)[j]] \in ReadsBy(current, clock)
    BY <1>2, <1>5, ReadTypes
  <2>2. j < k \/ (j >= k /\ ~(j < k))
    BY <1>2, <1>5, MovedUpTypes
  <2>3. CASE j < k
    <3>1. reads'[j] = [reads[MovedUp(k)[j]] EXCEPT !.late = TRUE] /\ ~(j >= k)
      BY <1>2, <1>5, <1>6, <2>3, MovedUpTypes
    <3> QED
      BY <2>1, <3>1 DEF ReadsBy
  <2>4. CASE j >= k /\ ~(j < k)
    <3>1. reads'[j] = reads[MovedUp(k)[j]]
      BY <1>6, <2>4
    <3> QED
      BY <2>1, <2>4, <3>1
  <2> QED
    BY <2>2, <2>3, <2>4
<1>8. /\ \A j \in DOMAIN reads' :
            /\ reads'[j].session <= setting.sessions
            /\ Past(reads[j], reads[j].sampled)'
            /\ Steady => Exact(reads'[j])
            /\ \A a : Before(a, reads[MovedUp(k)[j]]) => Before(a, reads'[j])
      /\ \A j, m \in DOMAIN reads' : j < m => Before(reads'[j], reads'[m])
  <2>1. /\ DOMAIN reads' \subseteq Nat
        /\ MovedUp(k) \in [DOMAIN reads' -> DOMAIN reads]
        /\ \A j, m \in DOMAIN reads' : j < m => MovedUp(k)[j] < MovedUp(k)[m]
    BY <1>5, <1>6
  <2>2. \A j \in DOMAIN reads' :
          /\ reads'[j].session = reads[MovedUp(k)[j]].session
          /\ reads'[j].sampled = reads[MovedUp(k)[j]].sampled
          /\ reads'[j].flowed = reads[MovedUp(k)[j]].flowed
          /\ reads'[j].bytes \in {reads[MovedUp(k)[j]].bytes, Nothing}
    BY <1>6, <1>7
  <2> QED
    BY <1>1, <2>1, <2>2, ReadsThinned
<1>9. /\ memory' \in [Sessions -> Memories \cup {Fresh}]
      /\ memory'[s] \in Memories
      /\ memory'[s].bytes = read.bytes /\ memory'[s].flowed = read.flowed
      /\ memory'[s].observed = clock /\ memory'[s].age <= clock
      /\ memory'[s].observed - memory'[s].age = read.sampled
      /\ \A q \in Sessions \ {s} : memory'[q] = memory[q]
  BY <1>1, <1>3, PublishRemembers
<1>10. /\ current' \in 1 .. setting.sessions
       /\ current' = IF s > current THEN s ELSE current
       /\ current <= current'
       /\ incidents' \subseteq Incidents /\ incidents \subseteq incidents'
       /\ DOMAIN read.bytes # Interfaces => "missing" \in incidents'
       /\ s < current => "detached" \in incidents'
       /\ "reset" \in incidents' <=> "reset" \in incidents
  BY <1>1, <1>3, PublishServes
<1>11. s \in Known' /\ \A q \in Known' : q \in Sessions /\ (q = s \/ q \in Known)
  BY <1>1, <1>3, <1>4, PublishKnown
<1>12. /\ Past(read, read.sampled)
       /\ ~read.late => \A q \in Known : Before(memory[q], read)
       /\ Steady => Exact(read)
  BY DEF RatesInv, PastDiscipline, OrderDiscipline, ExactDiscipline
<1>13. TrafficAccounted'
  <2>1. ~read.late => Before(memory[current], read)
    BY <1>2, <1>12, CurrentIsKnown
  <2>2. incidents = {} => Exact(read)
    BY <1>12 DEF Steady
  <2> QED
    BY <1>1, <1>3, <2>1, <2>2, PublishAccounts DEF Before
<1>14. TypeOK'
  <2>1. current \in Nat /\ current' \in Nat
    BY <1>2, <1>10, SettingTypes DEF Sessions
  <2>2. reads' \in Seq(ReadsBy(current', clock))
    <3>1. ReadsBy(current, clock) \subseteq ReadsBy(current', clock)
      BY <1>10, <2>1 DEF ReadsBy
    <3>2. reads' \in [1 .. n -> ReadsBy(current', clock)]
      BY <1>1, <1>7, <3>1 DEF n
    <3> QED
      BY <1>5, <3>2, IsList
  <2>3. reported' \in [Interfaces -> Nat]
    BY <1>1, <1>3, PublishReports
  <2> QED
    BY <1>1, <1>2, <1>9, <1>10, <2>2, <2>3 DEF TypeOK, ReadsBy
<1>15. SessionDiscipline'
  <2>1. ASSUME NEW q \in Sessions
        PROVE  IF q <= current'
               THEN /\ memory'[q] \in Memories
                    /\ memory'[q].observed <= clock /\ memory'[q].age <= memory'[q].observed
               ELSE memory'[q] = Fresh
    <3>1. IF q <= current
          THEN /\ memory[q] \in Memories
               /\ memory[q].observed <= clock /\ memory[q].age <= memory[q].observed
          ELSE memory[q] = Fresh
      BY DEF RatesInv, SessionDiscipline
    <3>2. q \in Nat /\ s \in Nat /\ current \in Nat /\ clock \in Nat
      BY <1>2, <1>3, SettingTypes DEF Sessions
    <3>3. CASE q = s
      BY <1>9, <1>10, <3>2, <3>3
    <3>4. CASE q # s
      BY <1>3, <1>9, <1>10, <3>1, <3>2, <3>4
    <3> QED
      BY <3>3, <3>4
  <2> QED
    BY <1>1, <1>4, <1>8, <2>1 DEF SessionDiscipline
<1>16. CounterDiscipline'
  BY <1>1 DEF RatesInv, CounterDiscipline
<1>17. PastDiscipline'
  <2>1. ASSUME NEW q \in Known' PROVE Past(memory[q], memory[q].observed - memory[q].age)'
    <3>1. CASE q = s
      BY <1>1, <1>9, <1>12, <3>1 DEF Past, Before, AtPresent
    <3>2. CASE q # s
      <4>1. q \in Known /\ memory'[q] = memory[q]
        BY <1>9, <1>11, <3>2
      <4> QED
        BY <1>1, <4>1 DEF RatesInv, PastDiscipline, Past, Before, AtPresent
    <3> QED
      BY <3>1, <3>2
  <2> QED
    BY <1>8, <2>1 DEF PastDiscipline
<1>18. OrderDiscipline'
  <2>1. ASSUME NEW j \in DOMAIN reads', NEW q \in Known', ~reads'[j].late
        PROVE  Before(memory'[q], reads'[j])
    <3>1. j >= k /\ ~reads[MovedUp(k)[j]].late /\ MovedUp(k)[j] \in DOMAIN reads /\ MovedUp(k)[j] > k
      <4>1. j \in 1 .. n /\ k \in Nat
        BY <1>2, <1>6, MovedUpTypes
      <4>2. ~(j < k)
        BY <1>7, <2>1, <4>1
      <4> QED
        BY <1>5, <1>7, <2>1, <4>1, <4>2
    <3>2. CASE q = s
      <4>1. Before(reads[k], reads[MovedUp(k)[j]])
        BY <1>2, <3>1, ReadCount DEF RatesInv, OrderDiscipline
      <4>2. Before(reads[k], reads'[j])
        BY <1>8, <4>1
      <4> QED
        BY <1>9, <3>2, <4>2 DEF Before
    <3>3. CASE q # s
      <4>1. q \in Known /\ memory'[q] = memory[q]
        BY <1>9, <1>11, <3>3
      <4>2. Before(memory[q], reads[MovedUp(k)[j]])
        BY <3>1, <4>1 DEF RatesInv, OrderDiscipline
      <4> QED
        BY <1>8, <4>1, <4>2
    <3> QED
      BY <3>2, <3>3
  <2> QED
    BY <1>8, <2>1 DEF OrderDiscipline, Before
<1>19. ExactDiscipline'
  <2>1. Steady' => Steady
    BY <1>1, <1>10 DEF Steady
  <2>2. ASSUME Steady' PROVE Exact(AtPresent)' /\ \A j \in DOMAIN reads' : Exact(reads'[j])
    BY <1>1, <1>8, <2>1, <2>2 DEF RatesInv, ExactDiscipline, Exact, AtPresent
  <2>3. ASSUME Steady', NEW q \in Known' PROVE Exact(memory'[q])
    <3>1. q # s => q \in Known /\ memory'[q] = memory[q]
      BY <1>9, <1>11
    <3> QED
      BY <1>9, <1>12, <2>1, <2>3, <3>1 DEF RatesInv, ExactDiscipline, Exact
  <2>4. incidents' = {} => DOMAIN memory'[current'].bytes = Interfaces
    <3>1. incidents' = {} => current' = s
      BY <1>2, <1>3, <1>10, SettingTypes DEF Sessions
    <3> QED
      BY <1>9, <1>10, <3>1
  <2> QED
    BY <2>2, <2>3, <2>4 DEF ExactDiscipline, Exact
<1> QED
  BY <1>13, <1>14, <1>15, <1>16, <1>17, <1>18, <1>19 DEF RatesInv

\* The simulator counts its reads, and a new one starts over.
LEMMA SimulatedReadPreserves == RatesInv /\ SimulatedRead => RatesInv'
<1> SUFFICES ASSUME RatesInv, SimulatedRead PROVE RatesInv'
  OBVIOUS
<1>1. PICK s \in {current, current + 1} :
        LET counted == [i \in Interfaces |-> 1 + IF s = current THEN link[i].bytes ELSE 0]
            sofar == [i \in Interfaces |-> flowed[i] + IF s = current THEN 1 ELSE 0]
        IN  /\ s <= setting.sessions
            /\ \A i \in Interfaces : flowed[i] < MaxClock
            /\ link' = [i \in Interfaces |-> [link[i] EXCEPT !.bytes = counted[i]]]
            /\ flowed' = sofar
            /\ Publish(s, [Reading(s, counted) EXCEPT !.flowed = sofar])
  BY DEF SimulatedRead
<1> DEFINE counted == [i \in Interfaces |-> 1 + IF s = current THEN link[i].bytes ELSE 0]
           sofar == [i \in Interfaces |-> flowed[i] + IF s = current THEN 1 ELSE 0]
           read == [Reading(s, counted) EXCEPT !.flowed = sofar]
<1>2. /\ s <= setting.sessions
      /\ \A i \in Interfaces : flowed[i] < MaxClock
      /\ link' = [i \in Interfaces |-> [link[i] EXCEPT !.bytes = counted[i]]]
      /\ flowed' = sofar
      /\ Publish(s, read)
  BY <1>1
<1>3. UNCHANGED <<setting, clock, reads>> /\ setting.simulated /\ reads = <<>>
  BY DEF SimulatedRead, RatesInv, SessionDiscipline
<1>4. /\ TypeOK /\ MaxClock \in Nat /\ current \in Nat \ {0} /\ clock \in Nat
      /\ s \in Sessions /\ s <= current + 1 /\ s >= current
  BY <1>2, SettingTypes DEF RatesInv, Sessions
<1>5. \A i \in Interfaces :
        /\ flowed[i] \in Nat /\ link[i].bytes \in Nat /\ link[i].listed \in BOOLEAN
        /\ link[i].bytes <= 1 + flowed[i] /\ flowed[i] < MaxClock
        /\ link'[i] = [link[i] EXCEPT !.bytes = counted[i]]
        /\ link'[i].bytes = counted[i] /\ link'[i].listed = link[i].listed
        /\ flowed'[i] = sofar[i]
        /\ IF s = current THEN counted[i] = 1 + link[i].bytes /\ sofar[i] = flowed[i] + 1
                          ELSE counted[i] = 1 /\ sofar[i] = flowed[i]
        /\ counted[i] \in Amount /\ sofar[i] \in Amount
        /\ counted[i] <= 1 + sofar[i] /\ sofar[i] <= MaxClock
  <2> SUFFICES ASSUME NEW i \in Interfaces
        PROVE  /\ flowed[i] \in Nat /\ link[i].bytes \in Nat /\ link[i].listed \in BOOLEAN
               /\ link[i].bytes <= 1 + flowed[i] /\ flowed[i] < MaxClock
               /\ link'[i] = [link[i] EXCEPT !.bytes = counted[i]]
               /\ link'[i].bytes = counted[i] /\ link'[i].listed = link[i].listed
               /\ flowed'[i] = sofar[i]
               /\ IF s = current THEN counted[i] = 1 + link[i].bytes /\ sofar[i] = flowed[i] + 1
                                 ELSE counted[i] = 1 /\ sofar[i] = flowed[i]
               /\ counted[i] \in Amount /\ sofar[i] \in Amount
               /\ counted[i] <= 1 + sofar[i] /\ sofar[i] <= MaxClock
    OBVIOUS
  <2>1. /\ link[i] \in [listed : BOOLEAN, bytes : Nat] /\ flowed[i] \in Nat
        /\ link[i].bytes <= 1 + flowed[i] /\ flowed[i] < MaxClock
    BY <1>2, <1>4 DEF RatesInv, CounterDiscipline, TypeOK, Amounts, Amount
  <2>2. IF s = current THEN counted[i] = 1 + link[i].bytes /\ sofar[i] = flowed[i] + 1
                       ELSE counted[i] = 1 /\ sofar[i] = flowed[i]
    BY <2>1
  <2>3. /\ link'[i] = [link[i] EXCEPT !.bytes = counted[i]] /\ flowed'[i] = sofar[i]
        /\ link'[i].bytes = counted[i] /\ link'[i].listed = link[i].listed
    BY <1>2, <2>1
  <2> HIDE DEF counted, sofar
  <2> QED
    BY <1>4, <2>1, <2>2, <2>3 DEF Amount
<1>6. counted \in [Interfaces -> Amount] /\ sofar \in Amounts
  BY <1>5 DEF Amounts
<1>7. counted \in Counters /\ DOMAIN counted = Interfaces
  BY <1>6, CounterTypes
<1>8. /\ read.bytes = counted /\ read.flowed = sofar /\ read.sampled = clock
      /\ read.late = FALSE
  BY DEF Reading
<1> HIDE DEF read, counted, sofar
<1>9. AtPresent'.bytes = counted /\ AtPresent'.flowed = sofar
  <2>1. [i \in Interfaces |-> link'[i].bytes] = counted
    BY <1>5, <1>6
  <2> QED
    BY <1>2, <2>1 DEF AtPresent
<1>10. /\ memory' \in [Sessions -> Memories \cup {Fresh}]
       /\ memory'[s] \in Memories
       /\ memory'[s].bytes = counted /\ memory'[s].flowed = sofar
       /\ memory'[s].observed = clock /\ memory'[s].age <= clock
       /\ \A q \in Sessions \ {s} : memory'[q] = memory[q]
  BY <1>2, <1>4, <1>6, <1>7, <1>8, PublishRemembers
<1>11. /\ current' \in 1 .. setting.sessions
       /\ current' = IF s > current THEN s ELSE current
       /\ incidents' \subseteq Incidents /\ incidents \subseteq incidents'
       /\ s > current => "replaced" \in incidents'
  BY <1>2, <1>3, <1>4, PublishServes
<1>12. Known' = {s}
  BY <1>2, <1>3, <1>4, PublishKnown
<1>13. TypeOK'
  <2>1. link' \in [Interfaces -> [listed : BOOLEAN, bytes : Amount]]
    <3>1. \A i \in Interfaces : link[i] \in [listed : BOOLEAN, bytes : Amount]
      BY <1>4 DEF TypeOK
    <3>2. \A i \in Interfaces :
            [link[i] EXCEPT !.bytes = counted[i]] \in [listed : BOOLEAN, bytes : Amount]
      BY <1>6, <3>1
    <3> QED
      BY <1>2, <3>2
  <2>2. reported' \in [Interfaces -> Nat]
    BY <1>2, <1>4, <1>7, <1>8, PublishReports
  <2>3. reads' \in Seq(ReadsBy(current', clock))
    BY <1>3, EmptySeq
  <2> QED
    BY <1>2, <1>3, <1>4, <1>6, <1>10, <1>11, <2>1, <2>2, <2>3 DEF TypeOK, ReadsBy
<1>14. SessionDiscipline'
  <2>1. ASSUME NEW q \in Sessions
        PROVE  IF q <= current'
               THEN /\ memory'[q] \in Memories
                    /\ memory'[q].observed <= clock /\ memory'[q].age <= memory'[q].observed
               ELSE memory'[q] = Fresh
    <3>1. IF q <= current
          THEN /\ memory[q] \in Memories
               /\ memory[q].observed <= clock /\ memory[q].age <= memory[q].observed
          ELSE memory[q] = Fresh
      BY DEF RatesInv, SessionDiscipline
    <3>2. q \in Nat /\ s \in Nat
      BY <1>4 DEF Sessions
    <3>3. CASE q = s
      BY <1>4, <1>10, <1>11, <3>2, <3>3
    <3>4. CASE q # s
      BY <1>4, <1>10, <1>11, <3>1, <3>2, <3>4
    <3> QED
      BY <3>3, <3>4
  <2>2. DOMAIN reads' = {}
    BY <1>3, EmptySeq, LenProperties
  <2> QED
    BY <1>3, <2>1, <2>2 DEF SessionDiscipline
<1>15. CounterDiscipline'
  BY <1>3, <1>5 DEF CounterDiscipline
<1>16. Before(memory[s], AtPresent)'
  <2>1. \A i \in Interfaces : counted[i] \in Nat /\ sofar[i] \in Nat
    BY <1>4, <1>6 DEF Amount, Amounts
  <2> QED
    BY <1>9, <1>10, <2>1 DEF Before
<1>17. PastDiscipline' /\ OrderDiscipline'
  <2>1. DOMAIN reads' = {}
    BY <1>3, EmptySeq, LenProperties
  <2> QED
    BY <1>3, <1>12, <1>16, <2>1 DEF PastDiscipline, OrderDiscipline, Past
<1>18. ExactDiscipline'
  <2>1. Steady' => incidents' = {} /\ incidents = {} /\ s = current
    BY <1>3, <1>4, <1>11 DEF Steady
  <2>2. ASSUME Steady' PROVE \A i \in Interfaces : counted[i] = 1 + sofar[i]
    <3>1. \A i \in Interfaces : AtPresent.bytes[i] = 1 + AtPresent.flowed[i]
      BY <1>4, <2>1, <2>2, PresentTypes DEF RatesInv, ExactDiscipline, Exact, Steady
    <3>2. \A i \in Interfaces : link[i].bytes = 1 + flowed[i]
      BY <1>4, <3>1, PresentTypes
    <3> SUFFICES ASSUME NEW i \in Interfaces PROVE counted[i] = 1 + sofar[i]
      OBVIOUS
    <3>3. counted[i] = 1 + link[i].bytes /\ sofar[i] = flowed[i] + 1 /\ flowed[i] \in Nat
      BY <1>5, <2>1, <2>2
    <3> QED
      BY <3>2, <3>3
  <2>3. Steady' => Exact(AtPresent)' /\ Exact(memory'[s])
    BY <1>7, <1>9, <1>10, <2>2 DEF Exact
  <2>4. DOMAIN reads' = {}
    BY <1>3, EmptySeq, LenProperties
  <2>5. incidents' = {} => DOMAIN memory'[current'].bytes = Interfaces
    BY <1>4, <1>7, <1>10, <1>11
  <2> QED
    BY <1>12, <2>3, <2>4, <2>5 DEF ExactDiscipline, Exact
<1>19. TrafficAccounted'
  <2>1. /\ Past(memory[current], memory[current].observed - memory[current].age)
        /\ memory[current].bytes \in Counters /\ memory[current].flowed \in Amounts
    BY <1>4, CurrentIsKnown, MemoryTypes, SettingTypes DEF RatesInv, PastDiscipline
  <2>2. ASSUME NEW i \in Interfaces
        PROVE  /\ memory[current].flowed[i] <= read.flowed[i]
               /\ s = current /\ i \in DOMAIN memory[current].bytes =>
                     read.bytes[i] + memory[current].flowed[i]
                        <= memory[current].bytes[i] + read.flowed[i]
    <3>1. /\ memory[current].flowed[i] <= flowed[i]
          /\ i \in DOMAIN memory[current].bytes =>
                link[i].bytes + memory[current].flowed[i] <= memory[current].bytes[i] + flowed[i]
      BY <1>4, <2>1, PresentTypes DEF Past, Before
    <3>2. /\ memory[current].flowed[i] \in Nat
          /\ i \in DOMAIN memory[current].bytes => memory[current].bytes[i] \in Nat
      BY <2>1, ObservationTypes
    <3>3. /\ flowed[i] \in Nat /\ link[i].bytes \in Nat
          /\ IF s = current THEN counted[i] = 1 + link[i].bytes /\ sofar[i] = flowed[i] + 1
                            ELSE sofar[i] = flowed[i]
      BY <1>5
    <3>4. read.flowed[i] = sofar[i] /\ read.bytes[i] = counted[i]
      BY <1>8
    <3> QED
      BY <3>1, <3>2, <3>3, <3>4
  <2>3. incidents = {} /\ s = current => Exact(read)
    <3>1. incidents = {} => \A i \in Interfaces : link[i].bytes = 1 + flowed[i]
      BY <1>4, PresentTypes DEF RatesInv, ExactDiscipline, Exact, Steady
    <3> SUFFICES ASSUME incidents = {}, s = current, NEW i \in Interfaces
                 PROVE  counted[i] = 1 + sofar[i]
      BY <1>7, <1>8 DEF Exact
    <3>2. counted[i] = 1 + link[i].bytes /\ sofar[i] = flowed[i] + 1 /\ flowed[i] \in Nat
      BY <1>5
    <3> QED
      BY <3>1, <3>2
  <2>4. s = current => Before(memory[current], read)
    BY <2>2 DEF Before
  <2> QED
    BY <1>2, <1>3, <1>4, <1>6, <1>7, <1>8, <2>2, <2>3, <2>4, PublishAccounts
<1> QED
  BY <1>13, <1>14, <1>15, <1>17, <1>18, <1>19 DEF RatesInv

-----------------------------------------------------------------------------
(* The specification *)

\* The first session starts from its probe.
LEMMA InitEstablishes == Init => RatesInv
<1> SUFFICES ASSUME Init PROVE RatesInv
  OBVIOUS
<1> DEFINE first == [bytes |-> [i \in Interfaces |-> 1], observed |-> 0, age |-> 0,
                     flowed |-> flowed]
<1>1. /\ setting \in Settings /\ setting.sessions \in 1 .. MaxSessions
      /\ MaxClock \in Nat /\ MaxSessions \in Nat \ {0}
      /\ 1 \in Sessions /\ 0 \in Amount /\ 1 \in Amount
  BY RatesAssumption DEF Init, Sessions, Amount
<1>2. /\ flowed \in Amounts /\ \A i \in Interfaces : flowed[i] = 0
      /\ link \in [Interfaces -> [listed : BOOLEAN, bytes : Amount]]
      /\ \A i \in Interfaces : link[i].bytes = 1
      /\ clock = 0 /\ current = 1 /\ reads = <<>> /\ incidents = {} /\ reported = flowed
  BY <1>1 DEF Init, Amounts
<1>3. /\ DOMAIN first.bytes = Interfaces /\ first.bytes \in Counters
      /\ \A i \in Interfaces : first.bytes[i] = 1
  BY <1>1, CounterTypes
<1>4. first \in Memories /\ first.observed = 0 /\ first.age = 0 /\ first.flowed = flowed
  BY <1>1, <1>2, <1>3 DEF Memories
<1> HIDE DEF first
<1>5. \A s \in Sessions : memory[s] = IF s = 1 THEN first ELSE Fresh
  BY <1>1 DEF Init, first
<1>6. TypeOK
  <2>1. memory \in [Sessions -> Memories \cup {Fresh}]
    BY <1>4, <1>5 DEF Init
  <2>2. reported \in [Interfaces -> Nat]
    BY <1>2 DEF Init
  <2> QED
    BY <1>1, <1>2, <2>1, <2>2, EmptySeq DEF TypeOK, Incidents
<1>7. DOMAIN reads = {}
  BY <1>2, EmptySeq, LenProperties
<1>8. \A s \in Known : s = 1
  BY <1>2 DEF Known, Sessions
<1>9. SessionDiscipline
  <2>1. \A s \in Sessions : s <= current <=> s = 1
    BY <1>2 DEF Sessions
  <2> QED
    BY <1>2, <1>4, <1>5, <1>7, <2>1 DEF SessionDiscipline
<1>10. CounterDiscipline
  BY <1>1, <1>2 DEF CounterDiscipline
<1>11. PastDiscipline /\ OrderDiscipline
  <2>1. Past(first, first.observed - first.age)
    BY <1>2, <1>3, <1>4, <1>6, PresentTypes DEF Past, Before
  <2> QED
    BY <1>1, <1>5, <1>7, <1>8, <2>1 DEF PastDiscipline, OrderDiscipline
<1>12. ExactDiscipline
  <2>1. Exact(AtPresent) /\ Exact(first)
    BY <1>2, <1>3, <1>4, <1>6, PresentTypes DEF Exact
  <2> QED
    BY <1>1, <1>2, <1>3, <1>5, <1>7, <1>8, <2>1 DEF ExactDiscipline
<1>13. TrafficAccounted
  BY <1>1, <1>2, <1>4, <1>5 DEF TrafficAccounted
<1> QED
  BY <1>6, <1>9, <1>10, <1>11, <1>12, <1>13 DEF RatesInv

\* Every step preserves the invariant.
LEMMA NextPreserves == RatesInv /\ [Next]_vars => RatesInv'
<1> SUFFICES ASSUME RatesInv, [Next]_vars PROVE RatesInv'
  OBVIOUS
<1>1. CASE UNCHANGED vars
  BY <1>1 DEF vars, RatesInv, TypeOK, SessionDiscipline, CounterDiscipline, PastDiscipline,
              OrderDiscipline, ExactDiscipline, TrafficAccounted, Past, Before, Exact,
              AtPresent, Known, Steady
<1>2. CASE Pass
  BY <1>2, PassPreserves
<1>3. ASSUME NEW i \in Interfaces, Unplug(i) \/ PlugIn(i) \/ Reset(i) PROVE RatesInv'
  BY <1>3, LinkPreserves
<1>4. CASE Sample
  BY <1>4, SamplePreserves
<1>5. ASSUME NEW k \in DOMAIN reads, ReadFails(k) PROVE RatesInv'
  BY <1>5, ReadFailsPreserves
<1>6. ASSUME NEW k \in DOMAIN reads, CutShort(k) PROVE RatesInv'
  BY <1>6, CutShortPreserves
<1>7. ASSUME NEW k \in DOMAIN reads, Apply(k) PROVE RatesInv'
  BY <1>7, ApplyPreserves
<1>8. CASE SimulatedRead
  BY <1>8, SimulatedReadPreserves
<1>9. CASE Exhausted
  BY <1>1, <1>9 DEF Exhausted
<1> QED
  BY <1>1, <1>2, <1>3, <1>4, <1>5, <1>6, <1>7, <1>8, <1>9 DEF Next

\* In every state, reads and what sessions remember are of the past, the reads that
\* are not late are in order, and what is reported is accounted for.
THEOREM Invariance == Spec => []RatesInv
BY InitEstablishes, NextPreserves, PTL DEF Spec

\* What is remembered of a snapshot is of interfaces, in time, and of a session.
THEOREM TypeCorrect == Spec => []TypeOK
<1>1. RatesInv => TypeOK
  BY DEF RatesInv
<1> QED
  BY Invariance, <1>1, PTL

\* The rates published for an interface (apply_interface_rates) never add up to more
\* than the traffic it had carried by the latest snapshot, unless a read is applied
\* after a newer one or to a session that was replaced; and to exactly that when the
\* firewall and the session are left alone.
THEOREM TrafficIsAccounted == Spec => []TrafficAccounted
<1>1. RatesInv => TrafficAccounted
  BY DEF RatesInv
<1> QED
  BY Invariance, <1>1, PTL

-----------------------------------------------------------------------------
(* The line rate *)

\* A read that is applied either comes after what the session remembers, or nothing
\* was ever reset: its counters have grown by no more than what has flowed since.
LEMMA ApplyIsBounded ==
  ASSUME RatesInv, NEW k \in DOMAIN reads, Apply(k), NEW i \in Interfaces,
         ~({"late", "reset"} \subseteq incidents')
  PROVE  LET s == reads[k].session
         IN  reported'[i] - reported[i] <=
                IF memory[s] = Fresh THEN 0 ELSE Elapsed(s) + memory[s].age
<1> DEFINE s == reads[k].session
           read == reads[k]
           before == memory[s]
           rated == Rated(read.bytes, before.bytes, Elapsed(s))[i]
<1>1. TypeOK /\ Publish(s, read) /\ UNCHANGED setting
  BY DEF RatesInv, Apply
<1>2. /\ s \in Sessions /\ s <= current + 1 /\ s <= setting.sessions
      /\ read.bytes \in Counters /\ read.flowed \in Amounts
  <2>1. s <= setting.sessions
    BY DEF RatesInv, SessionDiscipline
  <2> QED
    BY <1>1, <2>1, ReadTypes, SettingTypes DEF Sessions
<1>3. ~setting.simulated
  <2>1. setting.simulated => DOMAIN reads = {}
    BY EmptySeq, LenProperties DEF RatesInv, SessionDiscipline
  <2> QED
    BY <2>1
<1>4. /\ rated \in Nat /\ before.bytes \in Counters /\ Elapsed(s) \in Nat
      /\ Elapsed(s) = 0 => rated = 0
      /\ \/ rated = 0
         \/ /\ i \in DOMAIN read.bytes \cap DOMAIN before.bytes
            /\ rated = read.bytes[i] - before.bytes[i]
  BY <1>2, ElapsedTypes, RatedBounds
<1>5. reported'[i] - reported[i] = rated
  <2>1. reported[i] \in Nat /\ reported'[i] = reported[i] + rated
    BY <1>1, <1>2, PublishReports DEF TypeOK
  <2> QED
    BY <1>4, <2>1
<1>6. CASE before = Fresh
  <2>1. Elapsed(s) = 0
    BY <1>6 DEF Elapsed
  <2> QED
    BY <1>4, <1>5, <1>6, <2>1
<1>7. CASE before # Fresh
  <2>1. s \in Known /\ s <= current /\ Elapsed(s) = clock - before.observed
    BY <1>2, <1>3, <1>7, ElapsedTypes DEF Known
  <2>2. /\ before.flowed \in Amounts /\ before.observed \in Nat /\ before.age \in Nat
        /\ before.age <= before.observed /\ before.observed <= clock /\ clock \in Nat
    BY <1>1, <1>2, <2>1, MemoryTypes, SettingTypes
  <2>3. /\ read.flowed[i] <= flowed[i]
        /\ flowed[i] + (before.observed - before.age) <= before.flowed[i] + clock
    <3>1. Past(read, read.sampled) /\ Past(before, before.observed - before.age)
      BY <2>1 DEF RatesInv, PastDiscipline
    <3> QED
      BY <1>1, <1>3, <3>1, PresentTypes DEF Past, Before
  <2>4. i \in DOMAIN read.bytes \cap DOMAIN before.bytes =>
           read.bytes[i] + before.flowed[i] <= before.bytes[i] + read.flowed[i]
    <3>1. CASE ~read.late
      <4>1. Before(before, read)
        BY <2>1, <3>1 DEF RatesInv, OrderDiscipline
      <4> QED
        BY <4>1 DEF Before
    <3>2. CASE read.late
      <4>1. "late" \in incidents' /\ ("reset" \in incidents' <=> "reset" \in incidents)
        BY <1>1, <1>2, <3>2, PublishServes
      <4>2. Steady
        BY <1>3, <4>1 DEF Steady
      <4>3. Exact(before) /\ Exact(read)
        BY <2>1, <4>2 DEF RatesInv, ExactDiscipline
      <4> QED
        BY <1>2, <2>2, <4>3, ObservationTypes, <1>4 DEF Exact
    <3> QED
      BY <3>1, <3>2
  <2>5. /\ before.flowed[i] \in Nat /\ read.flowed[i] \in Nat /\ flowed[i] \in Nat
        /\ i \in DOMAIN read.bytes => read.bytes[i] \in Nat
        /\ i \in DOMAIN before.bytes => before.bytes[i] \in Nat
    <3>1. /\ before.flowed[i] \in Nat
          /\ i \in DOMAIN before.bytes => before.bytes[i] \in Nat
      BY <1>4, <2>2, ObservationTypes
    <3>2. /\ read.flowed[i] \in Nat
          /\ i \in DOMAIN read.bytes => read.bytes[i] \in Nat
      BY <1>2, ObservationTypes
    <3>3. flowed[i] \in Nat
      BY <1>1, RatesAssumption DEF TypeOK, Amounts, Amount
    <3> QED
      BY <3>1, <3>2, <3>3
  <2>6. rated <= (clock - before.observed) + before.age
    <3> HIDE DEF rated, before, read
    <3>1. CASE rated = 0
      BY <2>2, <3>1
    <3>2. CASE /\ i \in DOMAIN read.bytes \cap DOMAIN before.bytes
               /\ rated = read.bytes[i] - before.bytes[i]
      BY <2>2, <2>3, <2>4, <2>5, <3>2
    <3> QED
      BY <1>4, <3>1, <3>2
  <2> QED
    BY <1>5, <1>7, <2>1, <2>6
<1> QED
  BY <1>6, <1>7

\* A published rate (apply_interface_rates divides by the time since the previous
\* snapshot was applied) exceeds the line rate by no more than what that snapshot was
\* old by then, except for a read that is applied late after a reset.
THEOREM RatesAreBounded == Spec => RateBounded
<1> DEFINE Bound(s, i) ==
        (/\ memory'[s] # memory[s]
         /\ ~setting.simulated /\ ~({"late", "reset"} \subseteq incidents')) =>
            reported'[i] - reported[i] <=
                IF memory[s] = Fresh THEN 0 ELSE Elapsed(s) + memory[s].age
<1>1. ASSUME RatesInv, [Next]_vars, NEW s \in Sessions, NEW i \in Interfaces
      PROVE  Bound(s, i)
  <2>1. ASSUME NEW k \in DOMAIN reads, Apply(k) PROVE Bound(s, i)
    <3>1. /\ Publish(reads[k].session, reads[k]) /\ memory \in [Sessions -> Memories \cup {Fresh}]
          /\ TypeOK
      BY <1>1, <2>1 DEF Apply, RatesInv, TypeOK
    <3>2. memory'[s] # memory[s] => s = reads[k].session
      BY <3>1 DEF Publish
    <3> QED
      BY <1>1, <2>1, <3>2, ApplyIsBounded
  <2>2. CASE SimulatedRead
    BY <2>2 DEF SimulatedRead
  <2>3. CASE UNCHANGED memory
    BY <2>3
  <2>4. \/ \E k \in DOMAIN reads : Apply(k)
        \/ SimulatedRead
        \/ UNCHANGED memory
    BY <1>1 DEF Next, vars, Pass, Unplug, PlugIn, Reset, Sample, ReadFails, CutShort, Exhausted
  <2> QED
    BY <2>1, <2>2, <2>3, <2>4
<1>2. RatesInv /\ [Next]_vars => [\A s \in Sessions, i \in Interfaces : Bound(s, i)]_vars
  BY <1>1
<1>3. Spec => [][\A s \in Sessions, i \in Interfaces : Bound(s, i)]_vars
  BY Invariance, <1>2, PTL DEF Spec
<1> QED
  BY <1>3 DEF RateBounded
=============================================================================
