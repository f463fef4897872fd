------------------------ MODULE WidgetRecoveryProofs ------------------------
(***************************************************************************)
(* The safety properties of WidgetRecovery, however many streams the host  *)
(* can serve at once and whichever of them it fails to stop.  None of them but the types is inductive: what a     *)
(* card shows is right because of how it was left when the request began   *)
(* that is still pending.                                                  *)
(***************************************************************************)
EXTENDS WidgetRecovery, TLAPS

\* A stream is made only by a session that has none.
StreamDiscipline == request = "subscribe" => unsubscribe = None

\* A card without a stream offers Retry, also while a request that was made to
\* get one is pending; the button is disabled only during a request.
CardDiscipline ==
    /\ (Own /\ unsubscribe = None /\ card.phase # "initial") => card.retry
    /\ request = "none" => ~card.disabled

WidgetInv ==
    /\ TypeOK
    /\ ExactlyOneSubscription
    /\ StreamDiscipline
    /\ LiveIsFed
    /\ CardDiscipline
    /\ OfflineKeepsRetry

-----------------------------------------------------------------------------
(* What the card shows *)

\* renderStatus: only a snapshot or an opened stream is live, and whatever ends a
\* stream or rejects a request leaves a card that offers Retry.
LEMMA RenderedCard ==
  ASSUME TypeOK, NEW kind \in Kinds
  PROVE  /\ Rendered(kind) \in [phase : Phases, retry : BOOLEAN, disabled : BOOLEAN]
         /\ Rendered(kind).phase # "initial"
         /\ Rendered(kind).phase = "live" => kind \in {"snapshot", "open"}
         /\ kind \in {"stale", "offline", "closed", "denied"} => Rendered(kind).retry
         /\ Rendered(kind).disabled = card.disabled
<1>1. /\ Phase(kind) \in Phases \ {"initial"}
      /\ Phase(kind) = "live" => kind \in {"snapshot", "open"}
      /\ kind \in {"stale", "offline", "closed", "denied"} =>
            Phase(kind) \in {"stale", "offline", "error"}
  BY DEF Phase, Phases, Kinds
<1>2. card.disabled \in BOOLEAN
  BY DEF TypeOK
<1>3. /\ Rendered(kind).phase = Phase(kind)
      /\ Rendered(kind).retry = (Phase(kind) \in {"stale", "offline", "error"})
      /\ Rendered(kind).disabled = card.disabled
  BY Zenon DEF Rendered
<1>4. Rendered(kind) \in [phase : Phases, retry : BOOLEAN, disabled : BOOLEAN]
  BY <1>1, <1>2 DEF Rendered
<1> QED
  BY <1>1, <1>3, <1>4

\* onSettled: the same card with its button enabled.
LEMMA SettledCard ==
  ASSUME TypeOK, NEW kind \in Kinds
  PROVE  /\ Settled(Rendered(kind)) \in [phase : Phases, retry : BOOLEAN, disabled : BOOLEAN]
         /\ Settled(Rendered(kind)).phase = Rendered(kind).phase
         /\ Settled(Rendered(kind)).retry = Rendered(kind).retry
         /\ ~Settled(Rendered(kind)).disabled
BY RenderedCard DEF Settled, Rendered

-----------------------------------------------------------------------------
(* One lemma per action *)

\* The widget starts without a stream and without a request.
LEMMA InitEstablishes == Init => WidgetInv
<1> SUFFICES ASSUME Init PROVE WidgetInv
  OBVIOUS
<1>1. card.phase = "initial" /\ ~card.disabled
  BY DEF Init
<1>2. card \in [phase : Phases, retry : BOOLEAN, disabled : BOOLEAN]
  BY DEF Init, Phases
<1> QED
  BY <1>1, <1>2, StreamsAssumption DEF Init, WidgetInv, TypeOK, ExactlyOneSubscription, StreamDiscipline,
    LiveIsFed, CardDiscipline, OfflineKeepsRetry, Own

\* Recover changes the card only by disabling its button.
LEMMA RecoverPreserves == WidgetInv /\ Recover => WidgetInv'
<1> SUFFICES ASSUME WidgetInv, Recover PROVE WidgetInv'
  OBVIOUS
<1>1. /\ card'.phase = card.phase /\ card'.retry = card.retry
      /\ card' \in [phase : Phases, retry : BOOLEAN, disabled : BOOLEAN]
  BY DEF WidgetInv, TypeOK, Recover
<1> QED
  BY <1>1 DEF WidgetInv, Recover, TypeOK, ExactlyOneSubscription, StreamDiscipline,
    LiveIsFed, CardDiscipline, OfflineKeepsRetry, Own

\* A read that resolves subscribes, which leaves a card that offers Retry, or
\* renders the state of a session whose stream is being served.
LEMMA ReadOkPreserves == WidgetInv /\ ReadOk => WidgetInv'
<1> SUFFICES ASSUME WidgetInv, ReadOk PROVE WidgetInv'
  OBVIOUS
<1>1. connected' \in {"unknown", "yes", "no"}
  BY DEF WidgetInv, TypeOK, ReadOk, Learns
<1>2. CASE unsubscribe = None /\ request' = "subscribe" /\ UNCHANGED <<card, stray>>
  BY <1>1, <1>2 DEF WidgetInv, ReadOk, TypeOK, ExactlyOneSubscription, StreamDiscipline,
    LiveIsFed, CardDiscipline, OfflineKeepsRetry, Own
<1>3. CASE /\ unsubscribe # None /\ request' = "none"
           /\ card' = Settled(Rendered(RecoveredKind)) /\ stray' = FALSE
  <2>1. /\ RecoveredKind \in Kinds
        /\ (widget = "overview" /\ connected' = "no") => RecoveredKind = "offline"
    BY DEF RecoveredKind, Kinds
  <2>2. /\ card' \in [phase : Phases, retry : BOOLEAN, disabled : BOOLEAN]
        /\ ~card'.disabled
        /\ RecoveredKind = "offline" => card'.retry
    BY <1>3, <2>1, SettledCard, RenderedCard DEF WidgetInv
  <2> QED
    BY <1>1, <1>3, <2>1, <2>2 DEF WidgetInv, ReadOk, TypeOK, ExactlyOneSubscription,
      StreamDiscipline, LiveIsFed, CardDiscipline, OfflineKeepsRetry, Own
<1> QED
  BY <1>2, <1>3 DEF ReadOk

\* The session had no stream, and the one it gets was not served before.
LEMMA SubscribeOkPreserves == WidgetInv /\ SubscribeOk => WidgetInv'
<1> SUFFICES ASSUME WidgetInv, SubscribeOk PROVE WidgetInv'
  OBVIOUS
<1>1. PICK s \in Streams : /\ stream' = [stream EXCEPT ![s] = "open"]
                           /\ unsubscribe' = s
  BY DEF SubscribeOk
<1>2. /\ s # None /\ stream'[s] = "open"
      /\ stream' \in [Streams -> {"free", "open", "stopping", "abandoned"}]
      /\ \A t \in Streams \ {s} : stream'[t] # "open"
  BY <1>1, StreamsAssumption DEF WidgetInv, SubscribeOk, StreamDiscipline,
    ExactlyOneSubscription, TypeOK
<1>3. /\ RecoveredKind \in Kinds
      /\ (widget = "overview" /\ connected' = "no") => RecoveredKind = "offline"
  BY DEF RecoveredKind, Kinds
<1>4. /\ card' \in [phase : Phases, retry : BOOLEAN, disabled : BOOLEAN]
      /\ ~card'.disabled
      /\ RecoveredKind = "offline" => card'.retry
  BY <1>3, SettledCard, RenderedCard DEF WidgetInv, SubscribeOk
<1> QED
  BY <1>1, <1>2, <1>3, <1>4 DEF WidgetInv, SubscribeOk, TypeOK, ExactlyOneSubscription,
    StreamDiscipline, LiveIsFed, CardDiscipline, OfflineKeepsRetry, Own

\* A rejection is shown as an error, which offers Retry.
LEMMA RejectedPreserves == WidgetInv /\ Rejected => WidgetInv'
<1> SUFFICES ASSUME WidgetInv, Rejected PROVE WidgetInv'
  OBVIOUS
<1>1. /\ card' \in [phase : Phases, retry : BOOLEAN, disabled : BOOLEAN]
      /\ card'.phase # "live" /\ card'.retry /\ ~card'.disabled
  BY SettledCard, RenderedCard DEF WidgetInv, Rejected, Kinds
<1> QED
  BY <1>1 DEF WidgetInv, Rejected, TypeOK, ExactlyOneSubscription, StreamDiscipline,
    LiveIsFed, CardDiscipline, OfflineKeepsRetry, Own

\* The session lets go of its stream when it tells it to stop.
LEMMA StopLetsGo ==
  ASSUME TypeOK, ExactlyOneSubscription, Stop
  PROVE  /\ stream' \in [Streams -> {"free", "open", "stopping", "abandoned"}]
         /\ unsubscribe' = None
         /\ ExactlyOneSubscription'
BY StreamsAssumption DEF Stop, TypeOK, ExactlyOneSubscription

\* An event that ends the stream of the session leaves a card that offers Retry, and
\* any other leaves it the stream; the card of a stream told to stop is not its own.
LEMMA EventPreserves ==
  ASSUME WidgetInv, NEW s \in Streams, NEW kind \in Kinds, Event(s, kind)
  PROVE  WidgetInv'
<1>1. stray' = (stream[s] # "open") /\ (stream[s] = "open" => unsubscribe = s)
  BY DEF WidgetInv, Event, ExactlyOneSubscription
<1>2. connected' \in {"unknown", "yes", "no"} /\ stray' \in BOOLEAN
  BY DEF WidgetInv, TypeOK, Event, Learns
<1>3. /\ ShownKind(kind) \in Kinds
      /\ ShownKind(kind) \in {kind, "offline"}
      /\ (widget = "overview" /\ connected' = "no") => ShownKind(kind) \in {"offline", "denied"}
  BY DEF ShownKind, Kinds
<1>4. /\ card' \in [phase : Phases, retry : BOOLEAN, disabled : BOOLEAN]
      /\ card'.phase # "initial"
      /\ card'.phase = "live" => ShownKind(kind) \in {"snapshot", "open"}
      /\ ShownKind(kind) \in {"offline", "closed", "denied"} => card'.retry
      /\ card'.disabled = card.disabled
  BY <1>3, RenderedCard DEF WidgetInv, Event
<1>5. request' = request /\ widget' = widget /\ gone' = gone
  BY DEF Event
<1>6. CASE kind \in {"closed", "denied"}
  <2>1. card'.retry /\ card'.phase # "live"
    BY <1>3, <1>4, <1>6
  <2>2. /\ stream' \in [Streams -> {"free", "open", "stopping", "abandoned"}]
        /\ unsubscribe' = None /\ ExactlyOneSubscription'
    BY <1>6, StopLetsGo DEF Event, WidgetInv
  <2> QED
    BY <1>2, <1>4, <1>5, <2>1, <2>2 DEF WidgetInv, TypeOK, StreamDiscipline, LiveIsFed,
      CardDiscipline, OfflineKeepsRetry, Own
<1>7. CASE kind \notin {"closed", "denied"}
  <2>1. stream' = stream /\ unsubscribe' = unsubscribe
    BY <1>7 DEF Event
  <2>2. Own' => unsubscribe = s /\ stream[s] = "open" /\ s # None
    BY <1>1, StreamsAssumption DEF Own
  <2> QED
    BY <1>2, <1>3, <1>4, <1>5, <2>1, <2>2 DEF WidgetInv, TypeOK, ExactlyOneSubscription,
      StreamDiscipline, LiveIsFed, CardDiscipline, OfflineKeepsRetry, Own
<1> QED
  BY <1>6, <1>7

\* Of a hidden page only the streams matter.
LEMMA PageHidePreserves == WidgetInv /\ PageHide => WidgetInv'
<1> SUFFICES ASSUME WidgetInv, PageHide PROVE WidgetInv'
  OBVIOUS
<1>1. CASE UNCHANGED <<stream, unsubscribe>>
  BY <1>1 DEF WidgetInv, PageHide, TypeOK, ExactlyOneSubscription, StreamDiscipline,
    LiveIsFed, CardDiscipline, OfflineKeepsRetry, Own
<1>2. CASE Stop
  BY <1>2, StopLetsGo DEF WidgetInv, PageHide, TypeOK, StreamDiscipline,
    LiveIsFed, CardDiscipline, OfflineKeepsRetry, Own
<1> QED
  BY <1>1, <1>2 DEF PageHide

\* The host answers for a stream that the session no longer holds.
LEMMA StopAnsweredPreserves ==
  ASSUME WidgetInv, NEW s \in Streams, StopAnswered(s)
  PROVE  WidgetInv'
<1>1. /\ stream[s] = "stopping"
      /\ stream' \in {[stream EXCEPT ![s] = "free"], [stream EXCEPT ![s] = "abandoned"]}
      /\ UNCHANGED <<widget, request, unsubscribe, connected, card, stray, gone>>
  BY DEF StopAnswered, StopOk, StopFails
<1>2. /\ stream' \in [Streams -> {"free", "open", "stopping", "abandoned"}]
      /\ \A t \in Streams : stream'[t] = "open" <=> stream[t] = "open"
  BY <1>1 DEF WidgetInv, TypeOK
<1> QED
  BY <1>1, <1>2 DEF WidgetInv, TypeOK, ExactlyOneSubscription, StreamDiscipline,
    LiveIsFed, CardDiscipline, OfflineKeepsRetry, Own

\* Every step keeps the invariant.
LEMMA NextPreserves == WidgetInv /\ [Next]_vars => WidgetInv'
<1> SUFFICES ASSUME WidgetInv, [Next]_vars PROVE WidgetInv'
  OBVIOUS
<1>1. CASE UNCHANGED vars
  BY <1>1 DEF vars, WidgetInv, TypeOK, ExactlyOneSubscription, StreamDiscipline, LiveIsFed,
    CardDiscipline, OfflineKeepsRetry, Own
<1>2. CASE Dismissed
  BY <1>1, <1>2 DEF Dismissed
<1> QED
  BY <1>1, <1>2, RecoverPreserves, ReadOkPreserves, SubscribeOkPreserves, RejectedPreserves,
    EventPreserves, PageHidePreserves, StopAnsweredPreserves DEF Next, Answer

-----------------------------------------------------------------------------
(* The theorems *)

\* The induction: no step of createRecoverySession, of its callbacks or of the
\* host breaks the invariant.
THEOREM Invariance == Spec => []WidgetInv
BY InitEstablishes, NextPreserves, PTL DEF Spec

\* The types, for any number of streams and requests.
THEOREM TypeCorrect == Spec => []TypeOK
<1>1. WidgetInv => TypeOK
  BY DEF WidgetInv
<1> QED
  BY <1>1, Invariance, PTL

\* widget.dom.test.mjs: "exactly one subscription".  However many streams the host
\* can serve and whichever stops fail, none is served that the widget neither
\* holds nor has told to stop.
THEOREM OneSubscription == Spec => []ExactlyOneSubscription
<1>1. WidgetInv => ExactlyOneSubscription
  BY DEF WidgetInv
<1> QED
  BY <1>1, Invariance, PTL

\* A card of either widget that says live holds a stream that is being served, unless
\* a stream that was told to stop has set it.
THEOREM LiveCardsAreFed == Spec => []LiveIsFed
<1>1. WidgetInv => LiveIsFed
  BY DEF WidgetInv
<1> QED
  BY <1>1, Invariance, PTL

\* Whenever the session has no stream and no request, its Retry button works, on the
\* same condition.
THEOREM NeverStuck == Spec => []RetryOffered
<1>1. WidgetInv => RetryOffered
  BY DEF WidgetInv, CardDiscipline, RetryOffered
<1> QED
  BY <1>1, Invariance, PTL

\* The overview offers Retry as long as its firewall is known to be offline,
\* whatever its stream goes on to report.
THEOREM OfflineCanRetry == Spec => []OfflineKeepsRetry
<1>1. WidgetInv => OfflineKeepsRetry
  BY DEF WidgetInv
<1> QED
  BY <1>1, Invariance, PTL
=============================================================================
