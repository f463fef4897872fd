--------------------------- MODULE LogEventsProofs --------------------------
(***************************************************************************)
(* What LogEvents promises for any number of streams and entries, and for  *)
(* any capacity of the memory.                                             *)
(*                                                                         *)
(* Every entry is delivered at most once, and the baseline never, although *)
(* reads overlap, endpoints fail and the memory is reset time and again,   *)
(* for as long as each reset keeps the latest entries of every stream: then *)
(* whatever was delivered and is forgotten is too old to be returned again. *)
(* That is so for ever where one reader finds all endpoints answering, and *)
(* where the memory has room for all there is.                             *)
(***************************************************************************)
EXTENDS LogEvents, FiniteSetTheorems, TLAPS

Positions == [Streams -> 0 .. MaxEntries]

\* The entries written when the streams were that long, and those that every
\* endpoint returns then.
Upto(w) == {x \in Entries : x[2] <= w[x[1]]}
Window(w) == {x \in Upto(w) : x[2] + setting.window > w[x[1]]}

NotBefore(v, w) == \A s \in Streams : w[s] <= v[s]

\* A response was sampled when the streams had the length v.
Sampled(response, v) ==
    /\ NotBefore(written, v)
    /\ response.entries = {x \in Window(v) : x[1] \in response.up}
    /\ response.written = Upto(v)

\* What must not be delivered any more.
Known == silent \cup delivered

\* What is read and delivered was written before, and nobody else reads when the
\* first response is asked for.
ReadInv ==
    /\ TypeOK
    /\ \A r \in overlapped : inflight[r] # None
    /\ \A r \in Readers : inflight[r] # None =>
          /\ inflight[r].entries \subseteq inflight[r].written
          /\ inflight[r].written \subseteq Upto(written)
    /\ Known \subseteq Upto(written)
    /\ seen = None => /\ Known = {} /\ repeated = {} /\ overlapped = {}
                      /\ \A q, r \in Readers : inflight[q] # None /\ inflight[r] # None => q = r

\* The memory goes back to when the streams had the length w: an entry that must
\* not be delivered is remembered, or too old then to be returned since.
Recalled(w) ==
    /\ NotBefore(written, w)
    /\ \A x \in Known : x \in seen \/ (x \in Upto(w) /\ x \notin Window(w))
    /\ \A r \in Readers : inflight[r] # None =>
          \E v \in Positions : NotBefore(v, w) /\ Sampled(inflight[r], v)

\* A response that no other one overtook was sampled after all of it was written.
Latest == \A r \in Readers \ overlapped : inflight[r] # None => Known \subseteq inflight[r].written

MemoryInv ==
    /\ ReadInv
    /\ ~forgetful =>
        /\ \E w \in Positions : Recalled(w)
        /\ Latest
        /\ repeated = {}
        /\ silent \cap delivered = {}

-----------------------------------------------------------------------------
(* Types *)

\* What the assumption says of the circumstances of a run.
LEMMA SettingTypes ==
  ASSUME TypeOK
  PROVE  /\ setting.failing \in BOOLEAN /\ setting.readers \subseteq Readers
         /\ setting.window \in 1 .. MaxEntries
BY LogAssumption DEF TypeOK

\* Every step keeps the types; a response holds only entries there are.
LEMMA TypesPreserved == TypeOK /\ [Next]_vars => TypeOK'
<1> SUFFICES ASSUME TypeOK, [Next]_vars PROVE TypeOK'
  OBVIOUS
<1> USE LogAssumption
<1>1. ASSUME NEW s \in Streams, Write(s) PROVE TypeOK'
  BY <1>1 DEF TypeOK, Write, baseline, Entries, Response
<1>2. ASSUME NEW r \in Readers, Sample(r) PROVE TypeOK'
  <2>1. PICK up \in SUBSET Streams :
          inflight' = [inflight EXCEPT ![r] =
                          [entries |-> Returned(up), written |-> Written, up |-> up]]
    BY <1>2 DEF Sample
  <2>2. [entries |-> Returned(up), written |-> Written, up |-> up] \in Response
    BY DEF Returned, Written, Response
  <2>3. inflight' \in [Readers -> Response \cup {None}]
    BY <2>1, <2>2 DEF TypeOK
  <2> QED
    BY <1>2, <2>3 DEF TypeOK, Sample, baseline, Entries
<1>3. ASSUME NEW r \in Readers, Baseline(r) PROVE TypeOK'
  <2>1. inflight[r] \in Response
    BY <1>3 DEF TypeOK, Baseline
  <2> QED
    BY <1>3, <2>1 DEF TypeOK, Baseline, Response
<1>4. ASSUME NEW r \in Readers, Emit(r) PROVE TypeOK'
  <2>1. inflight[r] \in Response /\ seen \in SUBSET Entries
    BY <1>4 DEF TypeOK, Emit
  <2>2. Remember(inflight[r].entries) \subseteq Entries
    BY <2>1 DEF Remember, Response
  <2>3. overlapped' \subseteq Readers
    BY <1>4 DEF Emit, Others
  <2>4. forgetful' \in BOOLEAN
    BY <1>4, Zenon DEF Emit
  <2> QED
    BY <1>4, <2>1, <2>2, <2>3, <2>4 DEF TypeOK, Emit, baseline, New, Response
<1>5. CASE UNCHANGED vars
  BY <1>5 DEF TypeOK, vars, baseline
<1> QED
  BY <1>1, <1>2, <1>3, <1>4, <1>5, SettingTypes DEF Next

\* The initial states have them.
LEMMA InitTypes == Init => TypeOK
<1> SUFFICES ASSUME Init PROVE TypeOK
  OBVIOUS
<1>1. setting.window \in 1 .. MaxEntries
  BY LogAssumption DEF Init
<1>2. written \in [Streams -> 0 .. MaxEntries]
  BY <1>1, LogAssumption DEF Init
<1> QED
  BY <1>2, LogAssumption DEF Init, TypeOK

-----------------------------------------------------------------------------
(* The memory *)

\* A response that was sampled later returns nothing that was too old to be returned
\* before.
LEMMA NothingComesBack ==
  ASSUME TypeOK, NEW w \in Positions, NEW v \in Positions, NotBefore(v, w),
         NEW x \in Window(v), x \in Upto(w)
  PROVE  x \in Window(w)
BY SettingTypes, LogAssumption DEF Window, Upto, NotBefore, Positions, Entries

\* The streams only grow, and what was written stays written.
LEMMA UptoGrows ==
  ASSUME NEW w \in Positions, NEW v \in Positions, NotBefore(v, w)
  PROVE  Upto(w) \subseteq Upto(v)
BY LogAssumption DEF Upto, NotBefore, Positions, Entries

\* What the actions write in the words of these proofs.
LEMMA WrittenNow ==
  ASSUME TypeOK, NEW up \in SUBSET Streams
  PROVE  /\ written \in Positions /\ NotBefore(written, written)
         /\ Written = Upto(written)
         /\ Returned(up) = {x \in Window(written) : x[1] \in up}
BY LogAssumption
DEF TypeOK, Positions, NotBefore, Written, Upto, Returned, Window, Entries

\* A set of entries is never mistaken for an empty memory.
LEMMA EntriesAreSome == \A entries \in SUBSET Entries : entries # None
BY LogAssumption DEF Entries

\* Nothing is known yet.
LEMMA InitRecalls == Init => MemoryInv
<1> SUFFICES ASSUME Init PROVE MemoryInv
  OBVIOUS
<1>1. TypeOK
  BY InitTypes
<1>2. Known = {} /\ \A r \in Readers : inflight[r] = None
  BY DEF Init, Known
<1>3. written \in Positions /\ NotBefore(written, written)
  BY <1>1, WrittenNow
<1>4. Recalled(written)
  BY <1>2, <1>3 DEF Recalled
<1> QED
  BY <1>1, <1>2, <1>3, <1>4 DEF Init, MemoryInv, ReadInv, Latest

\* Streams that grow leave what is known and under way as it is.
LEMMA WriteRecalls ==
  ASSUME MemoryInv, NEW s \in Streams, Write(s)
  PROVE  MemoryInv'
<1>1. TypeOK /\ TypeOK'
  BY TypesPreserved DEF MemoryInv, ReadInv, Next
<1>2. \A v \in Positions : NotBefore(written, v) => NotBefore(written', v)
  BY <1>1, LogAssumption DEF Write, NotBefore, Positions, TypeOK
<1>3. \A v : Window(v)' = Window(v) /\ Upto(v)' = Upto(v)
  BY DEF Write, Window, Upto, Entries
<1>4. Known' = Known /\ inflight' = inflight /\ seen' = seen
  BY DEF Write, Known, baseline
<1>5. Upto(written) \subseteq Upto(written')
  BY <1>1, LogAssumption DEF Write, Upto, TypeOK, Entries
<1>6. ReadInv'
  <2>1. Known' \subseteq Upto(written)'
    BY <1>3, <1>4, <1>5 DEF MemoryInv, ReadInv, Upto, Entries
  <2>2. \A r \in Readers : inflight'[r] # None => inflight'[r].written \subseteq Upto(written)'
    BY <1>3, <1>4, <1>5 DEF MemoryInv, ReadInv, Upto, Entries
  <2> QED
    BY <1>1, <1>4, <2>1, <2>2 DEF MemoryInv, ReadInv, Write
<1>7. \A w \in Positions : Recalled(w) => Recalled(w)'
  <2>1. \A r, v : v \in Positions /\ Sampled(inflight[r], v) => Sampled(inflight[r], v)'
    BY <1>2, <1>3, <1>4 DEF Sampled
  <2> QED
    BY <1>2, <1>3, <1>4, <2>1 DEF Recalled, NotBefore
<1> QED
  BY <1>4, <1>6, <1>7 DEF MemoryInv, Latest, Write, baseline, Positions

\* A response that is asked for now returns what the streams have now.
LEMMA SampleRecalls ==
  ASSUME MemoryInv, NEW r \in setting.readers, Sample(r)
  PROVE  MemoryInv'
<1>1. TypeOK /\ TypeOK'
  BY TypesPreserved DEF MemoryInv, ReadInv, Next
<1>2. r \in Readers
  BY <1>1, SettingTypes
<1>3. PICK up \in SUBSET Streams :
        inflight' = [inflight EXCEPT ![r] =
                        [entries |-> Returned(up), written |-> Written, up |-> up]]
  BY DEF Sample
<1>4. \A q \in Readers : inflight'[q] = IF q = r
          THEN [entries |-> Returned(up), written |-> Written, up |-> up] ELSE inflight[q]
  BY <1>1, <1>2, <1>3 DEF TypeOK
<1>5. Known' = Known /\ seen' = seen /\ written' = written /\ overlapped' = overlapped
  BY DEF Sample, Known, baseline
<1>6. \A v : Window(v)' = Window(v) /\ Upto(v)' = Upto(v)
  BY DEF Sample, Window, Upto, Entries
<1>7. /\ written \in Positions /\ NotBefore(written, written) /\ Written = Upto(written)
      /\ Returned(up) = {x \in Window(written) : x[1] \in up}
  BY <1>1, WrittenNow
<1>8. ReadInv'
  <2>1. \A q \in overlapped' : inflight'[q] # None
    BY <1>1, <1>4, <1>5 DEF MemoryInv, ReadInv, TypeOK, Sample
  <2>2. Known' \subseteq Upto(written)'
    BY <1>5, <1>6 DEF MemoryInv, ReadInv
  <2>3. \A q \in Readers : inflight'[q] # None =>
            /\ inflight'[q].entries \subseteq inflight'[q].written
            /\ inflight'[q].written \subseteq Upto(written)'
    <3>1. Returned(up) \subseteq Written /\ Written \subseteq Upto(written)'
      BY <1>5, <1>6, <1>7 DEF Window
    <3> QED
      BY <1>4, <1>5, <1>6, <3>1 DEF MemoryInv, ReadInv
  <2>4. seen = None => \A q, p \in Readers : inflight'[q] # None /\ inflight'[p] # None => q = p
    BY <1>4 DEF Sample
  <2> QED
    BY <1>1, <1>5, <2>1, <2>2, <2>3, <2>4 DEF MemoryInv, ReadInv, Sample
<1> SUFFICES ASSUME ~forgetful'
             PROVE  (\E w \in Positions : Recalled(w))' /\ Latest'
  BY <1>8 DEF MemoryInv, Sample, baseline
<1>9. PICK w \in Positions : Recalled(w)
  BY DEF MemoryInv, Sample
<1>10. Sampled(inflight[r], written)'
  <2>1. inflight'[r].entries = Returned(up) /\ inflight'[r].written = Written /\ inflight'[r].up = up
    BY <1>2, <1>4
  <2>2. NotBefore(written, written)'
    BY <1>5, <1>7 DEF NotBefore
  <2>3. Written = Upto(written)' /\ Returned(up) = {x \in Window(written)' : x[1] \in up}
    BY <1>5, <1>6, <1>7
  <2> QED
    BY <2>1, <2>2, <2>3 DEF Sampled
<1>11. ASSUME NEW q \in Readers, inflight'[q] # None
       PROVE  \E v \in Positions : NotBefore(v, w) /\ Sampled(inflight[q], v)'
  <2>1. CASE q = r
    BY <1>5, <1>7, <1>9, <1>10, <2>1 DEF Recalled, NotBefore
  <2>2. CASE q # r
    <3>1. inflight'[q] = inflight[q]
      BY <1>4, <2>2
    <3>2. PICK v \in Positions : NotBefore(v, w) /\ Sampled(inflight[q], v)
      BY <1>9, <1>11, <3>1 DEF Recalled
    <3>3. Sampled(inflight[q], v)'
      BY <1>5, <1>6, <3>1, <3>2 DEF Sampled, NotBefore
    <3> QED
      BY <3>2, <3>3
  <2> QED
    BY <2>1, <2>2
<1>12. Recalled(w)'
  BY <1>5, <1>6, <1>9, <1>11 DEF Recalled, NotBefore
<1>13. Latest'
  BY <1>4, <1>5, <1>7 DEF MemoryInv, ReadInv, Latest, Sample
<1> QED
  BY <1>12, <1>13 DEF Positions

\* The first response: what it has of the streams it includes is remembered, and what
\* it lacks of them is too old to be returned again.
LEMMA BaselineRecalls ==
  ASSUME MemoryInv, NEW r \in setting.readers, Baseline(r)
  PROVE  MemoryInv'
<1>1. TypeOK /\ TypeOK'
  BY TypesPreserved DEF MemoryInv, ReadInv, Next
<1>2. r \in Readers /\ inflight[r] \in Response
  BY <1>1, SettingTypes DEF Baseline, TypeOK
<1>3. \A q \in Readers : inflight'[q] = None
  BY <1>1, <1>2 DEF Baseline, MemoryInv, ReadInv, TypeOK
<1>4. seen' # None
  BY <1>2, EntriesAreSome DEF Baseline, Response
<1>5. \A v : Window(v)' = Window(v) /\ Upto(v)' = Upto(v)
  BY DEF Baseline, Window, Upto, Entries
<1>6. delivered' = {} /\ Known' = silent' /\ repeated' = {} /\ overlapped' = {}
  BY DEF MemoryInv, ReadInv, Known, Baseline
<1>7. silent' = {x \in inflight[r].written : x[1] \in inflight[r].up}
  BY DEF Baseline
<1>8. ~forgetful' => \E v \in Positions : Sampled(inflight[r], v)
  BY <1>2 DEF MemoryInv, Recalled, Baseline
<1>9. inflight[r].written \subseteq Upto(written)
  BY <1>2 DEF MemoryInv, ReadInv, Baseline
<1>10. ReadInv'
  BY <1>1, <1>3, <1>4, <1>5, <1>6, <1>7, <1>9 DEF ReadInv, Baseline
<1> SUFFICES ASSUME ~forgetful'
             PROVE  (\E w \in Positions : Recalled(w))' /\ Latest'
  BY <1>6, <1>10 DEF MemoryInv
<1>11. PICK v \in Positions : Sampled(inflight[r], v)
  BY <1>8
<1>12. Recalled(v)'
  <2>1. NotBefore(written, v)' /\ seen' = {x \in Window(v) : x[1] \in inflight[r].up}
        /\ Known' = {x \in Upto(v) : x[1] \in inflight[r].up}
    BY <1>6, <1>7, <1>11 DEF Sampled, Baseline, NotBefore
  <2> QED
    BY <1>3, <1>5, <2>1 DEF Recalled
<1> QED
  BY <1>3, <1>12 DEF Latest, Positions

\* What a response adds to the memory was not known, and what it takes from it is too
\* old to be returned again, unless the response is not the latest of all streams.
LEMMA EmitRecalls ==
  ASSUME MemoryInv, NEW r \in setting.readers, Emit(r)
  PROVE  MemoryInv'
<1>1. TypeOK /\ TypeOK'
  BY TypesPreserved DEF MemoryInv, ReadInv, Next
<1>2. r \in Readers /\ inflight[r] \in Response /\ seen \in SUBSET Entries
  BY <1>1, SettingTypes DEF Emit, TypeOK
<1> DEFINE entries == inflight[r].entries
<1>3. entries \subseteq Entries /\ inflight[r].up \subseteq Streams
  BY <1>2 DEF Response
<1>4. seen' # None
  BY <1>2, <1>3, EntriesAreSome DEF Emit, Remember
<1>5. \A q \in Readers : inflight'[q] = IF q = r THEN None ELSE inflight[q]
  BY <1>1, <1>2 DEF Emit, TypeOK
<1>6. \A v : Window(v)' = Window(v) /\ Upto(v)' = Upto(v)
  BY DEF Emit, Window, Upto, Entries
<1>7. /\ delivered' = delivered \cup (entries \ seen)
      /\ repeated' = repeated \cup ((entries \ seen) \cap delivered)
      /\ silent' = silent /\ written' = written
      /\ Known' = Known \cup (entries \ seen)
  BY DEF Emit, New, Known, baseline
<1>8. ReadInv'
  <2>1. \A q \in overlapped' : inflight'[q] # None
    BY <1>5 DEF Emit, Others
  <2>2. entries \subseteq Upto(written)
    BY <1>2 DEF MemoryInv, ReadInv, Emit
  <2>3. Known' \subseteq Upto(written)'
    BY <1>6, <1>7, <2>2 DEF MemoryInv, ReadInv
  <2>4. \A q \in Readers : inflight'[q] # None =>
            /\ inflight'[q].entries \subseteq inflight'[q].written
            /\ inflight'[q].written \subseteq Upto(written)'
    BY <1>5, <1>6, <1>7 DEF MemoryInv, ReadInv
  <2> QED
    BY <1>1, <1>4, <2>1, <2>3, <2>4 DEF ReadInv
<1> SUFFICES ASSUME ~forgetful'
             PROVE  /\ (\E w \in Positions : Recalled(w))' /\ Latest'
                    /\ repeated' = {} /\ silent' \cap delivered' = {}
  BY <1>8 DEF MemoryInv
<1>9. /\ ~forgetful
      /\ Reset(entries) => inflight[r].up = Streams /\ r \notin overlapped /\ Others(r) = {}
  BY <1>1, <1>2 DEF Emit, TypeOK
<1>10. PICK w \in Positions : Recalled(w)
  BY <1>9 DEF MemoryInv
<1>11. PICK v \in Positions : NotBefore(v, w) /\ Sampled(inflight[r], v)
  BY <1>2, <1>10 DEF Recalled, Emit
<1>12. entries \subseteq Window(v)
  BY <1>11 DEF Sampled
<1>13. (entries \ seen) \cap Known = {}
  BY <1>1, <1>10, <1>11, <1>12, NothingComesBack DEF Recalled
<1>14. repeated' = {} /\ silent' \cap delivered' = {}
  BY <1>7, <1>9, <1>13 DEF MemoryInv, Known
<1>15. Latest'
  BY <1>5 DEF Latest, Emit, Others
<1>16. CASE ~Reset(entries)
  <2>1. seen' = seen \cup entries
    BY <1>16 DEF Emit, Remember
  <2>2. \A q \in Readers : inflight'[q] # None =>
            \E u \in Positions : NotBefore(u, w) /\ Sampled(inflight[q], u)'
    BY <1>5, <1>6, <1>7, <1>10 DEF Recalled, Sampled, NotBefore
  <2>3. \A x \in Known' : x \in seen' \/ (x \in Upto(w) /\ x \notin Window(w))
    BY <1>7, <1>10, <2>1 DEF Recalled
  <2>4. Recalled(w)'
    BY <1>6, <1>7, <1>10, <2>2, <2>3 DEF Recalled, NotBefore
  <2> QED
    BY <1>14, <1>15, <2>4 DEF Positions
<1>17. CASE Reset(entries)
  <2>1. inflight[r].up = Streams /\ r \notin overlapped
    BY <1>9, <1>17
  <2>2. \A q \in Readers : inflight'[q] = None
    BY <1>5, <1>9, <1>17 DEF Others
  <2>3. seen' = Window(v)
    BY <1>11, <1>17, <2>1 DEF Emit, Remember, Sampled, Window, Upto, Entries
  <2>4. Known' \subseteq Upto(v)
    <3>1. Known \subseteq Upto(v)
      BY <1>2, <1>9, <1>11, <2>1 DEF MemoryInv, Latest, Sampled, Emit
    <3> QED
      BY <1>7, <1>12, <3>1 DEF Window
  <2>5. Recalled(v)'
    BY <1>6, <1>7, <1>11, <2>2, <2>3, <2>4 DEF Recalled, NotBefore, Sampled
  <2> QED
    BY <1>14, <1>15, <2>5 DEF Positions
<1> QED
  BY <1>16, <1>17

\* Every step keeps what the memory stands for.
LEMMA MemoryPreserved == MemoryInv /\ [Next]_vars => MemoryInv'
<1> SUFFICES ASSUME MemoryInv, [Next]_vars PROVE MemoryInv'
  OBVIOUS
<1>1. CASE UNCHANGED vars
  <2>1. \A v : Window(v)' = Window(v) /\ Upto(v)' = Upto(v)
    BY <1>1 DEF vars, Window, Upto, Entries
  <2>2. Known' = Known
    BY <1>1 DEF vars, baseline, Known
  <2>3. ReadInv'
    BY <1>1, <2>1, <2>2, TypesPreserved DEF MemoryInv, ReadInv, vars
  <2>4. \A w \in Positions : Recalled(w) => Recalled(w)'
    BY <1>1, <2>1, <2>2 DEF Recalled, Sampled, NotBefore, vars
  <2> QED
    BY <1>1, <2>2, <2>3, <2>4 DEF MemoryInv, Latest, vars, baseline, Positions
<1> QED
  BY <1>1, WriteRecalls, SampleRecalls, BaselineRecalls, EmitRecalls DEF Next

\* What becomes seen is in the baseline, or delivered by the same step.
LEMMA SeenPreserved == MemoryInv /\ SeenIsDelivered /\ [Next]_vars => SeenIsDelivered'
<1> SUFFICES ASSUME MemoryInv, SeenIsDelivered, [Next]_vars PROVE SeenIsDelivered'
  OBVIOUS
<1>1. ASSUME NEW r \in Readers, Baseline(r) PROVE SeenIsDelivered'
  BY <1>1 DEF MemoryInv, ReadInv, Baseline, SeenIsDelivered
<1>2. ASSUME NEW r \in Readers, Emit(r) PROVE SeenIsDelivered'
  BY <1>2 DEF Emit, New, Remember, SeenIsDelivered, baseline
<1>3. CASE UNCHANGED <<seen, baseline, delivered>>
  BY <1>3 DEF SeenIsDelivered, baseline
<1>4. TypeOK
  BY DEF MemoryInv, ReadInv
<1> QED
  BY <1>1, <1>2, <1>3, <1>4, SettingTypes DEF Next, Write, Sample, vars

-----------------------------------------------------------------------------
(* When the memory is never reset to less than the latest *)

\* The poller alone reads a firewall whose endpoints answer.
InOrder == ~setting.failing /\ \A a, b \in setting.readers : a = b

OrderInv ==
    /\ TypeOK
    /\ \A r \in Readers : inflight[r] # None => r \in setting.readers
    /\ InOrder =>
        /\ ~forgetful /\ overlapped = {}
        /\ \A r \in Readers : inflight[r] # None => inflight[r].up = Streams

\* Every response has all streams, and no other read is under way.
LEMMA OrderPreserved == OrderInv /\ [Next]_vars => OrderInv'
<1> SUFFICES ASSUME OrderInv, [Next]_vars PROVE OrderInv'
  OBVIOUS
<1>1. TypeOK /\ TypeOK' /\ setting' = setting /\ setting.readers \subseteq Readers
  BY TypesPreserved, SettingTypes
  DEF OrderInv, Next, Write, Sample, Baseline, Emit, vars
<1>2. ASSUME NEW r \in setting.readers, Sample(r) PROVE OrderInv'
  <2>1. PICK up \in SUBSET Streams :
          /\ InOrder => up = Streams
          /\ inflight' = [inflight EXCEPT ![r] =
                          [entries |-> Returned(up), written |-> Written, up |-> up]]
    BY <1>1, <1>2 DEF Sample, InOrder
  <2>2. \A q \in Readers : inflight'[q] = IF q = r
            THEN [entries |-> Returned(up), written |-> Written, up |-> up] ELSE inflight[q]
    BY <1>1, <2>1 DEF TypeOK
  <2> QED
    BY <1>1, <1>2, <2>1, <2>2 DEF OrderInv, InOrder, Sample
<1>3. ASSUME NEW r \in setting.readers, Baseline(r) \/ Emit(r) PROVE OrderInv'
  <2>1. \A q \in Readers : inflight'[q] = IF q = r THEN None ELSE inflight[q]
    BY <1>1, <1>3 DEF TypeOK, Baseline, Emit
  <2>2. InOrder => Others(r) = {}
    BY <1>3 DEF OrderInv, InOrder, Others
  <2>3. InOrder => ~forgetful' /\ overlapped' = {}
    <3>1. CASE Baseline(r)
      BY <3>1 DEF OrderInv, Baseline
    <3>2. CASE Emit(r)
      BY <1>1, <2>2, <3>2 DEF OrderInv, Emit
    <3> QED
      BY <1>3, <3>1, <3>2
  <2> QED
    BY <1>1, <2>1, <2>3 DEF OrderInv, InOrder
<1>4. CASE UNCHANGED <<inflight, overlapped, forgetful>>
  BY <1>1, <1>4 DEF OrderInv, InOrder
<1> QED
  BY <1>2, <1>3, <1>4 DEF Next, Write, vars

\* The memory has room for every entry there is, and is never reset.
Roomy == IsFiniteSet(Entries) /\ Cardinality(Entries) <= setting.cap

\* No response makes a memory with that much room exceed its capacity.
LEMMA NeverReset ==
  ASSUME TypeOK, Roomy, NEW a \in SUBSET Entries, NEW b \in SUBSET Entries
  PROVE  ~(Cardinality(a \cup b) > setting.cap)
<1>1. IsFiniteSet(a \cup b) /\ Cardinality(a \cup b) <= Cardinality(Entries)
  <2>1. a \cup b \in SUBSET Entries
    OBVIOUS
  <2> QED
    BY <2>1, FS_Subset DEF Roomy
<1>2. setting.cap \in Nat
  BY LogAssumption DEF TypeOK
<1> QED
  BY <1>1, <1>2, FS_CardinalityType DEF Roomy

RoomyInv == TypeOK /\ (Roomy => ~forgetful)

\* It is never reset at all.
LEMMA RoomyPreserved == RoomyInv /\ [Next]_vars => RoomyInv'
<1> SUFFICES ASSUME RoomyInv, [Next]_vars PROVE RoomyInv'
  OBVIOUS
<1>1. TypeOK /\ TypeOK' /\ (Roomy' => Roomy)
  BY TypesPreserved DEF RoomyInv, Roomy, Entries, Next, Write, Sample, Baseline, Emit, vars
<1>2. ASSUME NEW r \in Readers, Emit(r) PROVE RoomyInv'
  <2>1. inflight[r].entries \subseteq Entries /\ seen \subseteq Entries
    BY <1>1, <1>2 DEF TypeOK, Emit, Response
  <2>2. Roomy => ~Reset(inflight[r].entries)
    BY <1>1, <2>1, NeverReset DEF Reset
  <2> QED
    BY <1>1, <1>2, <2>2 DEF RoomyInv, Emit
<1>3. CASE UNCHANGED forgetful
  BY <1>1, <1>3 DEF RoomyInv
<1> QED
  BY <1>1, <1>2, <1>3, SettingTypes DEF Next, Write, Sample, Baseline, vars

-----------------------------------------------------------------------------
(* The theorems *)

\* All variables of log collection keep their types.
THEOREM TypeCorrect == Spec => []TypeOK
BY InitTypes, TypesPreserved, PTL DEF Spec

\* _emit_log_events never takes an entry for known that it neither delivered nor
\* found at the firewall when it set its baseline, however reads overlap, fail or
\* make it forget.
THEOREM RememberedIsDelivered == Spec => []SeenIsDelivered
<1>1. Init => SeenIsDelivered
  BY DEF Init, SeenIsDelivered
<1> QED
  BY <1>1, InitRecalls, MemoryPreserved, SeenPreserved, PTL DEF Spec

\* docs/contract.md: "Log events are content-hash deduplicated".  However reads
\* overlap and whichever endpoints fail, no entry is delivered twice while every
\* reset of the memory keeps the latest entries of all streams.
THEOREM DeliveryIsUnique == Spec => []DeliveredOnce
<1>1. MemoryInv => DeliveredOnce
  BY DEF MemoryInv, DeliveredOnce
<1> QED
  BY <1>1, InitRecalls, MemoryPreserved, PTL DEF Spec

\* README.md: the first response is the baseline, and "only new entries" are
\* emitted afterward.  On the same condition this is so of all that the streams
\* of the first response had, also of entries too old to be returned by then.
THEOREM BaselineIsKept == Spec => []AnsweredBaselineIsSilent
<1>1. MemoryInv => AnsweredBaselineIsSilent
  BY DEF MemoryInv, AnsweredBaselineIsSilent
<1> QED
  BY <1>1, InitRecalls, MemoryPreserved, PTL DEF Spec

\* The poller alone, reading endpoints that answer, delivers every entry once and
\* keeps its baseline whatever the capacity of the memory: every reset keeps
\* the latest entries.
THEOREM InOrderNothingIsRepeated ==
    Spec => [](InOrder => repeated = {} /\ silent \cap delivered = {})
<1>1. Init => OrderInv
  BY InitTypes DEF Init, OrderInv
<1>2. OrderInv /\ MemoryInv => (InOrder => repeated = {} /\ silent \cap delivered = {})
  BY DEF OrderInv, MemoryInv
<1> QED
  BY <1>1, <1>2, OrderPreserved, InitRecalls, MemoryPreserved, PTL DEF Spec

\* With room for all there is, so do readers that overlap and endpoints that fail.
THEOREM WithRoomNothingIsRepeated ==
    Spec => [](Roomy => repeated = {} /\ silent \cap delivered = {})
<1>1. Init => RoomyInv
  BY InitTypes DEF Init, RoomyInv
<1>2. RoomyInv /\ MemoryInv => (Roomy => repeated = {} /\ silent \cap delivered = {})
  BY DEF RoomyInv, MemoryInv
<1> QED
  BY <1>1, <1>2, RoomyPreserved, InitRecalls, MemoryPreserved, PTL DEF Spec
=============================================================================
