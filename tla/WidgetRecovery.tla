---------------------------- MODULE WidgetRecovery ---------------------------
(***************************************************************************)
(* How a dashboard widget reads the state of its firewall, follows it and  *)
(* recovers: createRecoverySession (state.js of both widgets) with the     *)
(* callbacks that widget.js gives it and the Retry button.                 *)
(*                                                                         *)
(* A step is what JavaScript runs without returning to the event loop: the *)
(* promise callbacks behind a settled read or subscription run before the  *)
(* next message of the host is handled.  The host delivers events on a     *)
(* stream from the moment subscribe() resolves until its stop succeeds.    *)
(* Stopping takes time and may fail, which the widget does not notice.     *)
(***************************************************************************)

CONSTANTS Streams,  \* streams the host can serve at once
          None

ASSUME StreamsAssumption == None \notin Streams

VARIABLES
    widget,       \* which of the two widgets this is
    request,      \* what activeRequest is waiting for
    unsubscribe,  \* the stream whose stop function the session holds, or None
    stream,       \* what the host does with each stream it can serve
    connected,    \* state.connected, which only the overview widget looks at
    card,         \* data-state of the card and the Retry button
    stray,        \* history: was the card set by a stream that was told to stop?
    gone          \* has the page been hidden?

vars == <<widget, request, unsubscribe, stream, connected, card, stray, gone>>

Phases == {"initial", "live", "loading", "stale", "offline", "error", "waiting"}
Kinds == {"snapshot", "open", "reconnecting", "stale", "offline", "closed", "denied", "other"}

TypeOK ==
    /\ widget \in {"overview", "client security"}
    /\ request \in {"none", "read", "subscribe"}
    /\ unsubscribe \in Streams \cup {None}
    /\ stream \in [Streams -> {"free", "open", "stopping", "abandoned"}]
    /\ connected \in {"unknown", "yes", "no"}
    /\ card \in [phase : Phases, retry : BOOLEAN, disabled : BOOLEAN]
    /\ stray \in BOOLEAN
    /\ gone \in BOOLEAN

Init ==
    /\ widget \in {"overview", "client security"}
    /\ request = "none"
    /\ unsubscribe = None
    /\ stream = [s \in Streams |-> "free"]
    /\ connected = "unknown"
    /\ card = [phase |-> "initial", retry |-> FALSE, disabled |-> FALSE]
    /\ stray = FALSE
    /\ gone = FALSE

-----------------------------------------------------------------------------
(* resolveStatus and renderStatus *)

PhaseForgetsClosed(kind) ==
    CASE kind \in {"snapshot", "open"} -> "live"
      [] kind = "reconnecting" -> "loading"
      [] kind \in {"stale", "offline"} -> kind
      [] kind = "denied" -> "error"
      [] kind \in {"closed", "other"} -> "waiting"
PhaseAsReported(kind) ==
    CASE kind \in {"snapshot", "open"} -> "live"
      [] kind \in {"reconnecting", "stale", "offline"} -> kind
      [] kind \in {"closed", "denied"} -> "error"
      [] kind = "other" -> "waiting"
Phase(kind) ==
    CASE kind \in {"snapshot", "open"} -> "live"
      [] kind = "reconnecting" -> "loading"
      [] kind \in {"stale", "offline"} -> kind
      [] kind \in {"closed", "denied"} -> "error"
      [] kind = "other" -> "waiting"

Rendered(kind) ==
    [phase |-> Phase(kind),
     retry |-> Phase(kind) \in {"stale", "offline", "error"},
     disabled |-> card.disabled]

\* onSettled: the button can be pressed again.
SettledBusy(view) == view
Settled(view) == [view EXCEPT !.disabled = FALSE]

(* What a successful read or a snapshot says of the firewall *)
Learns == connected' \in {connected, "yes", "no"}

\* onEvent of the overview: a firewall known to be offline stays offline,
\* whatever the stream says short of a failure.
ShownKindAsIs(kind) == kind
ShownKind(kind) ==
    IF widget = "overview" /\ connected' = "no" /\ kind # "denied" THEN "offline" ELSE kind

\* onRecovered: the overview is live only when the firewall is.
RecoveredKind ==
    IF widget = "overview" /\ connected' # "yes" THEN "offline" ELSE "snapshot"

-----------------------------------------------------------------------------
(* recover() *)

\* The widget starts, or Retry is pressed; onStart disables the button.
Recover ==
    /\ ~gone
    /\ card.phase = "initial" \/ (card.retry /\ ~card.disabled)
    /\ request = "none"
    /\ request' = "read"
    /\ card' = [card EXCEPT !.disabled = TRUE]
    /\ UNCHANGED <<widget, unsubscribe, stream, connected, stray, gone>>

\* The read resolves.  There is a subscription to make only if there is none.
ReadOkSubscribesAgain ==
    /\ request = "read"
    /\ Learns
    /\ request' = "subscribe"
    /\ UNCHANGED <<widget, unsubscribe, stream, card, stray, gone>>
ReadOk ==
    /\ request = "read"
    /\ Learns
    /\ \/ /\ unsubscribe = None
          /\ request' = "subscribe"
          /\ UNCHANGED <<card, stray>>
       \/ /\ unsubscribe # None
          /\ request' = "none"
          /\ card' = Settled(Rendered(RecoveredKind))
          /\ stray' = FALSE
    /\ UNCHANGED <<widget, unsubscribe, stream, gone>>

SubscribeOk ==
    /\ request = "subscribe"
    /\ \E s \in Streams :
        /\ stream[s] = "free"
        /\ stream' = [stream EXCEPT ![s] = "open"]
        /\ unsubscribe' = s
    /\ request' = "none"
    /\ UNCHANGED connected
    /\ card' = Settled(Rendered(RecoveredKind))
    /\ stray' = FALSE
    /\ UNCHANGED <<widget, gone>>

\* The read or the subscription is rejected.
RejectedUnseen ==
    /\ request \in {"read", "subscribe"}
    /\ request' = "none"
    /\ card' = Settled(Rendered("snapshot"))
    /\ stray' = FALSE
    /\ UNCHANGED <<widget, unsubscribe, stream, connected, gone>>
Rejected ==
    /\ request \in {"read", "subscribe"}
    /\ request' = "none"
    /\ card' = Settled(Rendered("denied"))
    /\ stray' = FALSE
    /\ UNCHANGED <<widget, unsubscribe, stream, connected, gone>>

(* handleEvent() *)

\* The stop function is called and forgotten; the stream goes on until it succeeds.
Stop ==
    /\ stream' = [s \in Streams |-> IF s = unsubscribe THEN "stopping" ELSE stream[s]]
    /\ unsubscribe' = None

\* The handler does not know which stream the event is from: one that was told to
\* stop ends the stream that replaced it.
Event(s, kind) ==
    /\ stream[s] # "free"
    /\ IF kind \in {"closed", "denied"} THEN Stop ELSE UNCHANGED <<stream, unsubscribe>>
    /\ IF kind = "snapshot" THEN Learns ELSE UNCHANGED connected
    /\ card' = Rendered(ShownKind(kind))
    /\ stray' = (stream[s] # "open")
    /\ UNCHANGED <<widget, request, gone>>

(* stop() on pagehide; the listener is added when the first recover() is over *)

PageHide ==
    /\ ~gone
    /\ gone' = TRUE
    /\ IF card.phase = "initial" THEN UNCHANGED <<stream, unsubscribe>> ELSE Stop
    /\ UNCHANGED <<widget, request, connected, card, stray>>

(* The host answers stop(); a rejection is swallowed and nobody can stop the *)
(* stream any more.                                                          *)

StopOk(s) ==
    /\ stream[s] = "stopping"
    /\ stream' = [stream EXCEPT ![s] = "free"]
    /\ UNCHANGED <<widget, request, unsubscribe, connected, card, stray, gone>>

\* Bound: of all the streams the host can serve, one at least is never abandoned.
StopFails(s) ==
    /\ stream[s] = "stopping"
    /\ \E t \in Streams \ {s} : stream[t] # "abandoned"
    /\ stream' = [stream EXCEPT ![s] = "abandoned"]
    /\ UNCHANGED <<widget, request, unsubscribe, connected, card, stray, gone>>

StopAnswered(s) == StopOk(s) \/ StopFails(s)

Answer == ReadOk \/ SubscribeOk \/ Rejected

\* A hidden widget whose requests are over has nothing left to do.
Dismissed == gone /\ request = "none" /\ UNCHANGED vars

Next ==
    \/ Recover
    \/ Answer
    \/ \E s \in Streams, kind \in Kinds : Event(s, kind)
    \/ PageHide
    \/ \E s \in Streams : StopAnswered(s)
    \/ Dismissed

Spec == Init /\ [][Next]_vars

\* The host answers, not always with an error, and somebody presses Retry.
FairSpec ==
    /\ Spec
    /\ WF_vars(Recover) /\ WF_vars(Answer) /\ SF_vars(ReadOk) /\ SF_vars(SubscribeOk)
    /\ \A s \in Streams : WF_vars(StopAnswered(s))

-----------------------------------------------------------------------------
\* widget.dom.test.mjs: a closed stream is restored by "exactly one subscription".
\* Of the streams the host serves, at most one has not been told to stop, and it is
\* the one this widget can stop: none is forgotten by retries, by streams that
\* end, or by both at once.
ExactlyOneSubscription == \A s \in Streams : stream[s] = "open" <=> s = unsubscribe

\* The card shows what the requests and the stream of the session made of it, and
\* not the event of a stream that was told to stop.
Own == ~gone /\ ~stray

\* widget.dom.test.mjs: "a failed subscription is restored by Retry before the
\* card becomes live".  A card that says live is being fed.
LiveIsFed == Own /\ card.phase = "live" => \E s \in Streams : s = unsubscribe /\ stream[s] = "open"

\* A widget that nothing feeds and that waits for nothing can be retried: it
\* is never stuck with a hidden or a disabled button.
RetryOffered ==
    (Own /\ unsubscribe = None /\ request = "none" /\ card.phase # "initial")
        => card.retry /\ ~card.disabled

\* widget.dom.test.mjs: "a streamed offline snapshot cannot erase the Retry state".
OfflineKeepsRetry ==
    (Own /\ widget = "overview" /\ connected = "no" /\ card.phase # "initial")
        => card.retry

\* However often reads, subscriptions, streams and stops fail, retrying succeeds in
\* the end: no failure leaves the session unable to recover.
RetryRecovers == unsubscribe = None ~> (unsubscribe # None \/ ~Own)
=============================================================================
