------------------------------- MODULE Commands ------------------------------
(***************************************************************************)
(* Operational commands (routes/commands.py, the automations of state.py,  *)
(* service.py, pfsense_client.py) running beside everything RuntimeService *)
(* does.  A command captures the session of its configuration, is checked  *)
(* against the allow-lists of that session, and then talks to the firewall *)
(* through the client of that session, without the lock of the service.    *)
(*                                                                         *)
(* The allow-lists of a configuration are those of the request that        *)
(* applied it; which payload it carries is chosen once for each request.   *)
(***************************************************************************)
EXTENDS RuntimeService

CONSTANTS Commands,  \* commands the runtime may be sent, each of them once
          Targets    \* hosts, services and Wake-on-LAN targets

VARIABLES
    at,       \* at[k]: where command k is suspended
    config,   \* config[k]: its local config_id
    aim,      \* aim[k]: the target it names
    using,    \* using[k]: the session it captured
    events,   \* events[k]: the runtime.command events recorded for it, in order
    allows    \* allows[r]: the targets that the configuration of r enables

locals == <<config, aim, using>>
commandVars == <<at, locals, events, allows>>
allVars == <<vars, commandVars>>

Busy(k) == at[k] \in {"looking up", "found", "posting"}

CommandTypeOK ==
    /\ at \in [Commands -> {"unsent", "looking up", "found", "posting", "over"}]
    /\ config \in [Commands -> Configs \cup {None}]
    /\ aim \in [Commands -> Targets \cup {None}]
    /\ using \in [Commands -> RequestOrNone]
    /\ events \in [Commands -> {<<>>, <<"requested">>, <<"requested", "failed">>,
                                <<"requested", "succeeded">>}]
    /\ allows \in [Requests -> SUBSET Targets]

\* What a configuration says of one kind of command, here pings: whether it is
\* enabled and for which targets.  Validation rejects a payload that enables it
\* without any target; targets that are not enabled are of no account.  The other
\* kinds have flags, lists and rules like these (starts and restarts of services
\* share a list), and no configuration looks at those of another kind.
Payloads == [enabled : BOOLEAN, targets : SUBSET Targets]
Valid(payload) == payload.enabled => payload.targets # {}
Enabled(payload) == IF payload.enabled THEN payload.targets ELSE {}

CommandInit ==
    /\ Init
    /\ at = [k \in Commands |-> "unsent"]
    /\ config = [k \in Commands |-> None]
    /\ aim = [k \in Commands |-> None]
    /\ using = [k \in Commands |-> None]
    /\ events = [k \in Commands |-> <<>>]
    /\ allows \in [Requests -> {Enabled(p) : p \in {q \in Payloads : Valid(q)}}]

-----------------------------------------------------------------------------
\* _get_active with the enable flags and _allowlisted_value: session s has t
\* among the targets that its configuration allows.
Permits(s, t) == s # None /\ t \in allows[s]

Reach(k, place) == at' = [at EXCEPT ![k] = place]
Record(k, what) == events' = [events EXCEPT ![k] = Append(@, what)]

\* Commands are taken up while the server accepts requests.
Received(k) == at[k] = "unsent" /\ \A q \in Requests : op[q] # "close"

Return(k) ==
    /\ Reach(k, "over")
    /\ config' = [config EXCEPT ![k] = None]
    /\ aim' = [aim EXCEPT ![k] = None]
    /\ using' = [using EXCEPT ![k] = None]

\* Refused before anything is recorded: an unsupported command or capability,
\* no such entry, or a missing or malformed argument.
Reject(k) ==
    /\ Received(k)
    /\ Return(k)
    /\ UNCHANGED <<events, allows>>

\* The entry exists, but there is no session, its configuration does not enable
\* the command for the target, or the number of pings is out of range.
Refuse(k, c) ==
    /\ Received(k)
    /\ registry[c] # None
    /\ Return(k)
    /\ events' = [events EXCEPT ![k] = <<"requested", "failed">>]
    /\ UNCHANGED allows

\* Allowed: a service command looks up its service first, a ping and a
\* Wake-on-LAN packet are posted at once.
Accept(k, c, t) ==
    /\ Received(k)
    /\ registry[c] # None
    /\ Permits(active[c], t)
    /\ Reach(k, "looking up") \/ Reach(k, "posting")
    /\ config' = [config EXCEPT ![k] = c]
    /\ aim' = [aim EXCEPT ![k] = t]
    /\ using' = [using EXCEPT ![k] = active[c]]
    /\ Record(k, "requested")
    /\ UNCHANGED allows

\* The service list has been received and names the service.
Lookup(k) ==
    /\ at[k] = "looking up"
    /\ Reach(k, "found")
    /\ UNCHANGED <<locals, events, allows>>

\* _service_action goes on: it posts through the same client ...
Post(k) ==
    /\ at[k] = "found"
    /\ client[using[k]] = "open"
    /\ Reach(k, "posting")
    /\ UNCHANGED <<locals, events, allows>>

\* ... which, once closed, raises a RuntimeError that no automation catches.
PostRefused(k) ==
    /\ at[k] = "found"
    /\ client[using[k]] = "closed"
    /\ Return(k)
    /\ UNCHANGED <<events, allows>>

\* PfSenseError: a timeout, an error status, a service that is not in the list.
FailQuietly(k) ==
    /\ at[k] \in {"looking up", "posting"}
    /\ Return(k)
    /\ UNCHANGED <<events, allows>>
FailGoesOn(k) ==
    /\ at[k] \in {"looking up", "posting"}
    /\ Reach(k, "posting")
    /\ Record(k, "failed")
    /\ UNCHANGED <<locals, allows>>
Fail(k) ==
    /\ at[k] \in {"looking up", "posting"}
    /\ Return(k)
    /\ Record(k, "failed")
    /\ UNCHANGED allows

Succeed(k) ==
    /\ at[k] = "posting"
    /\ Return(k)
    /\ Record(k, "succeeded")
    /\ UNCHANGED allows

CommandStep(k) ==
    \/ Reject(k)
    \/ \E c \in Configs : Refuse(k, c) \/ \E t \in Targets : Accept(k, c, t)
    \/ Lookup(k) \/ Post(k) \/ PostRefused(k) \/ Fail(k) \/ Succeed(k)

\* The server drains commands, like requests, before it shuts the service down.
ServiceStep ==
    /\ Next
    /\ (\E r \in Requests : op[r] # "close" /\ op'[r] = "close") => ~\E k \in Commands : Busy(k)
    /\ UNCHANGED commandVars

CommandNext ==
    \/ ServiceStep
    \/ \E k \in Commands : CommandStep(k) /\ UNCHANGED vars

CommandSpec == CommandInit /\ [][CommandNext]_allVars

-----------------------------------------------------------------------------
Posts(k) == at[k] # "posting" /\ at'[k] = "posting"

\* docs/contract.md: commands "accept only targets explicitly allow-listed in
\* the active firewall configuration".  A command checked against one
\* configuration is never sent once another one has become active, nor once a
\* removal has returned: it awaits in between, but the client it holds is closed
\* before that.
ActiveConfigDecides ==
    [][\A k \in Commands : Posts(k) =>
        /\ Permits(using'[k], aim'[k])
        /\ active[config'[k]] \in {using'[k], None}
        /\ InService(using'[k])]_allVars

\* A command that was recorded as requested ends with its outcome recorded,
\* unless its session was taken down between its two requests.
OutcomeRecorded ==
    [][\A k \in Commands :
        (at'[k] = "over" /\ events'[k] = <<"requested">>) =>
            at[k] = "over" \/ client[using[k]] = "closed"]_allVars
=============================================================================
