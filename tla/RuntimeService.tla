--------------------------- MODULE RuntimeService ---------------------------
(***************************************************************************)
(* PfSenseRuntimeService (service.py) and the configuration handlers that  *)
(* drive it (state.py, routes/config.py, lifecycle.py), at the granularity *)
(* of asyncio: one action is the code a coroutine runs between two points  *)
(* where it can suspend.                                                   *)
(*                                                                         *)
(* An HTTP request is one coroutine and is served once, so Requests also   *)
(* bounds the length of a run.  The request that applies a configuration   *)
(* creates one client, one ActiveFirewall and one registry entry, and all  *)
(* three are named by that request.                                        *)
(***************************************************************************)
EXTENDS Naturals, Sequences

CONSTANTS Requests,     \* requests the runtime may serve, each of them once
          Configs,      \* configuration ids
          None,         \* Python's None
          Overlapping,  \* may two changes of one configuration overlap?
          Malformed     \* may a snapshot be one that the projection rejects?

ASSUME ConstantsAssumption ==
    /\ None \notin Requests \cup Configs
    /\ Overlapping \in BOOLEAN
    /\ Malformed \in BOOLEAN

VARIABLES
    pc,         \* pc[r]: where request r is suspended
    op,         \* op[r]: the operation r asks for
    target,     \* target[r]: the configuration id r works on
    saved,      \* saved[r]: the entry apply_config found, its local `previous`
    held,       \* held[r]: the session a refresh captured before its read
    todo,       \* todo[r]: configurations a state sweep has still to refresh
    registry,   \* registry[c]: the entry stored under c
    shown,      \* shown[e]: latest_state of entry e
    active,     \* active[c]: the session in _active under c
    client,     \* client[s]: the pfSense client of session s
    poll,       \* poll[s]: the polling task of session s
    cancelled,  \* sessions whose polling task was sent cancel()
    lockQ,      \* tasks at the asyncio.Lock: its head holds or is granted it
    victim,     \* the session the holder of the lock is stopping
    doomed      \* sessions close() has detached and not yet begun to stop

requestVars == <<pc, op, target, saved, held, todo>>
registryVars == <<registry, shown>>
sessionVars == <<active, client, poll, cancelled>>
lockVars == <<lockQ, victim, doomed>>
vars == <<requestVars, registryVars, sessionVars, lockVars>>

RequestOrNone == Requests \cup {None}
Final == {"done", "failed"}
Stopping == {"stopping", "closing"}
Running == {"starting", "sleeping", "reading"}
StateShown == [by : Requests, connected : BOOLEAN]

TypeOK ==
    /\ pc \in [Requests -> {"idle", "reading", "discarding", "locking"} \cup Stopping \cup Final]
    /\ op \in [Requests -> {"none", "apply", "remove", "refresh", "sweep", "close"}]
    /\ target \in [Requests -> Configs \cup {None}]
    /\ saved \in [Requests -> RequestOrNone]
    /\ held \in [Requests -> RequestOrNone]
    /\ todo \in [Requests -> SUBSET Configs]
    /\ registry \in [Configs -> RequestOrNone]
    /\ shown \in [Requests -> StateShown \cup {None}]
    /\ active \in [Configs -> RequestOrNone]
    /\ client \in [Requests -> {"none", "open", "closed"}]
    /\ poll \in [Requests -> {"none", "done"} \cup Running]
    /\ cancelled \subseteq Requests
    /\ lockQ \in Seq(Requests)
    /\ victim \in RequestOrNone
    /\ doomed \subseteq Requests

Init ==
    /\ pc = [r \in Requests |-> "idle"]
    /\ op = [r \in Requests |-> "none"]
    /\ target = [r \in Requests |-> None]
    /\ saved = [r \in Requests |-> None]
    /\ held = [r \in Requests |-> None]
    /\ todo = [r \in Requests |-> {}]
    /\ registry = [c \in Configs |-> None]
    /\ shown = [r \in Requests |-> None]
    /\ active = [c \in Configs |-> None]
    /\ client = [r \in Requests |-> "none"]
    /\ poll = [r \in Requests |-> "none"]
    /\ cancelled = {}
    /\ lockQ = <<>>
    /\ victim = None
    /\ doomed = {}

-----------------------------------------------------------------------------
(* Helpers *)

\* The sessions the service has: the values of _active.
Installed == {active[c] : c \in Configs} \ {None}

InFlight(r) == pc[r] \notin {"idle"} \cup Final

Changing(c) == \E r \in Requests : InFlight(r) /\ op[r] \in {"apply", "remove"} /\ target[r] = c

\* A change of configuration c may arrive.
Admitted(c) == Overlapping \/ ~Changing(c)

\* A request is taken up while the server accepts requests.
Begin(r, operation, c) ==
    /\ pc[r] = "idle"
    /\ \A q \in Requests : op[q] # "close"
    /\ op' = [op EXCEPT ![r] = operation]
    /\ target' = [target EXCEPT ![r] = c]

Goto(r, place) == pc' = [pc EXCEPT ![r] = place]

\* registry.update_state(c, ...) on behalf of session s: it writes the entry
\* stored under c at that moment, whichever request put it there.
Show(c, s, connected) ==
    shown' = IF registry[c] = None
             THEN shown
             ELSE [shown EXCEPT ![registry[c]] = [by |-> s, connected |-> connected]]

\* `except Exception` in apply_config: put back what was there before.
RollbackToId(r) == registry' = [registry EXCEPT ![target[r]] = target[r]]
NoRollback(r) == UNCHANGED registry
Rollback(r) == registry' = [registry EXCEPT ![target[r]] = saved[r]]

\* asyncio.Lock is FIFO.  A coroutine that finds it free takes it without
\* suspending; here it may also be overtaken by steps that need no lock.
Enqueue(r) == lockQ' = Append(lockQ, r)
AnyTurn(r) == pc[r] = "locking"
Turn(r) == pc[r] = "locking" /\ lockQ # <<>> /\ Head(lockQ) = r
NoRelease == UNCHANGED lockQ
Release == lockQ' = Tail(lockQ)

\* _stop up to its first await: the polling task of s is told to cancel.
StopBegin(s) ==
    /\ victim' = s
    /\ cancelled' = cancelled \cup {s}

\* The holder of the lock has no session left to stop under its configuration.
Vacant(r) ==
    \/ Turn(r) /\ active[target[r]] = None
    \/ pc[r] = "closing"

-----------------------------------------------------------------------------
(* apply_config and configure *)

ApplyStart(r, c) ==
    /\ Begin(r, "apply", c)
    /\ Admitted(c)
    /\ Goto(r, "reading")
    /\ saved' = [saved EXCEPT ![r] = registry[c]]
    /\ registry' = [registry EXCEPT ![c] = r]
    /\ client' = [client EXCEPT ![r] = "open"]
    /\ UNCHANGED <<held, todo, shown, active, poll, cancelled, lockVars>>

\* The client factory raises before anything was awaited, so the entry that
\* was set is rolled back in the same step.
ApplyRejected(r, c) ==
    /\ Begin(r, "apply", c)
    /\ Admitted(c)
    /\ Goto(r, "failed")
    /\ UNCHANGED <<saved, held, todo, registryVars, sessionVars, lockVars>>

ApplyReadOk(r) ==
    /\ pc[r] = "reading" /\ op[r] = "apply"
    /\ Goto(r, "locking")
    /\ Enqueue(r)
    /\ UNCHANGED <<op, target, saved, held, todo, registryVars, sessionVars, victim, doomed>>

\* The probe raises: the new client is closed, which is awaited ...
ApplyReadFailsNoClose(r) ==
    /\ pc[r] = "reading" /\ op[r] = "apply"
    /\ Goto(r, "discarding")
    /\ UNCHANGED <<op, target, saved, held, todo, registryVars, sessionVars, lockVars>>
ApplyReadFails(r) ==
    /\ pc[r] = "reading" /\ op[r] = "apply"
    /\ Goto(r, "discarding")
    /\ client' = [client EXCEPT ![r] = "closed"]
    /\ UNCHANGED <<op, target, saved, held, todo, registryVars, active, poll, cancelled,
                   lockVars>>

\* ... and only then does the exception reach apply_config.
ApplyDiscarded(r) ==
    /\ pc[r] = "discarding"
    /\ Goto(r, "failed")
    /\ Rollback(r)
    /\ UNCHANGED <<op, target, saved, held, todo, shown, sessionVars, lockVars>>

\* `async with self._lock`: detach the session found under the configuration.
EvictKeepsActive(r) ==
    /\ Turn(r) /\ op[r] \in {"apply", "remove"}
    /\ active[target[r]] # None
    /\ Goto(r, "stopping")
    /\ StopBegin(active[target[r]])
    /\ UNCHANGED <<op, target, saved, held, todo, registryVars, active, client, poll, lockQ,
                   doomed>>
Evict(r) ==
    /\ Turn(r) /\ op[r] \in {"apply", "remove"}
    /\ active[target[r]] # None
    /\ Goto(r, "stopping")
    /\ StopBegin(active[target[r]])
    /\ active' = [active EXCEPT ![target[r]] = None]
    /\ UNCHANGED <<op, target, saved, held, todo, registryVars, client, poll, lockQ, doomed>>

\* _stop goes on when the cancelled task has ended, and closes the client.
JoinPollerEarly(r) ==
    /\ pc[r] = "stopping"
    /\ Goto(r, "closing")
    /\ client' = [client EXCEPT ![victim] = "closed"]
    /\ UNCHANGED <<op, target, saved, held, todo, registryVars, active, poll, cancelled,
                   lockVars>>
JoinPollerKeepsClient(r) ==
    /\ pc[r] = "stopping"
    /\ poll[victim] \in {"none", "done"}
    /\ Goto(r, "closing")
    /\ UNCHANGED <<op, target, saved, held, todo, registryVars, sessionVars, lockVars>>
JoinPoller(r) ==
    /\ pc[r] = "stopping"
    /\ poll[victim] \in {"none", "done"}
    /\ Goto(r, "closing")
    /\ client' = [client EXCEPT ![victim] = "closed"]
    /\ UNCHANGED <<op, target, saved, held, todo, registryVars, active, poll, cancelled,
                   lockVars>>

\* The session replaces what was there, its snapshot is projected and
\* published, and its polling task is created.
Install(r) ==
    /\ op[r] = "apply" /\ Vacant(r)
    /\ Goto(r, "done")
    /\ active' = [active EXCEPT ![target[r]] = r]
    /\ Show(target[r], r, TRUE)
    /\ poll' = [poll EXCEPT ![r] = "starting"]
    /\ Release /\ victim' = None
    /\ UNCHANGED <<op, target, saved, held, todo, registry, client, cancelled, doomed>>

\* The projection raises after the session was stored and before the task is
\* created or anything is published.  Nothing undoes the store.
InstallFails(r) ==
    /\ Malformed
    /\ op[r] = "apply" /\ Vacant(r)
    /\ Goto(r, "failed")
    /\ active' = [active EXCEPT ![target[r]] = r]
    /\ Rollback(r)
    /\ Release /\ victim' = None
    /\ UNCHANGED <<op, target, saved, held, todo, shown, client, poll, cancelled, doomed>>

-----------------------------------------------------------------------------
(* remove_config and remove; close at shutdown *)

RemoveStart(r, c) ==
    /\ Begin(r, "remove", c)
    /\ Admitted(c)
    /\ Goto(r, "locking")
    /\ Enqueue(r)
    /\ UNCHANGED <<saved, held, todo, registryVars, sessionVars, victim, doomed>>

RemoveFinish(r) ==
    /\ op[r] = "remove" /\ Vacant(r)
    /\ Goto(r, "done")
    /\ registry' = [registry EXCEPT ![target[r]] = None]
    /\ Release /\ victim' = None
    /\ UNCHANGED <<op, target, saved, held, todo, shown, sessionVars, doomed>>

\* The server has drained its requests before the lifespan hook runs close().
CloseStart(r) ==
    /\ \A q \in Requests : ~InFlight(q)
    /\ Begin(r, "close", None)
    /\ Goto(r, "locking")
    /\ Enqueue(r)
    /\ UNCHANGED <<saved, held, todo, registryVars, sessionVars, victim, doomed>>

\* Every session is detached at once; they are then stopped one by one, while
\* the polling tasks of the others still run.
CloseDetach(r) ==
    /\ Turn(r) /\ op[r] = "close"
    /\ \E s \in Installed :
        /\ StopBegin(s)
        /\ doomed' = Installed \ {s}
    /\ active' = [c \in Configs |-> None]
    /\ Goto(r, "stopping")
    /\ UNCHANGED <<op, target, saved, held, todo, registryVars, client, poll, lockQ>>

CloseNext(r) ==
    /\ op[r] = "close" /\ pc[r] = "closing"
    /\ \E s \in doomed :
        /\ StopBegin(s)
        /\ doomed' = doomed \ {s}
    /\ Goto(r, "stopping")
    /\ UNCHANGED <<op, target, saved, held, todo, registryVars, active, client, poll, lockQ>>

CloseFinishEarly(r) ==
    /\ op[r] = "close"
    /\ \/ Turn(r) /\ Installed = {}
       \/ pc[r] = "closing"
    /\ Goto(r, "done")
    /\ Release /\ victim' = None
    /\ UNCHANGED <<op, target, saved, held, todo, registryVars, sessionVars, doomed>>
CloseFinish(r) ==
    /\ op[r] = "close"
    /\ \/ Turn(r) /\ Installed = {}
       \/ pc[r] = "closing" /\ doomed = {}
    /\ Goto(r, "done")
    /\ Release /\ victim' = None
    /\ UNCHANGED <<op, target, saved, held, todo, registryVars, sessionVars, doomed>>

-----------------------------------------------------------------------------
(* refresh, and the sweep that GET /state runs over every configuration *)

\* refresh() captures the session before it awaits the read.
Capture(r, c) ==
    /\ Goto(r, "reading")
    /\ held' = [held EXCEPT ![r] = active[c]]

RefreshStart(r, c) ==
    /\ Begin(r, "refresh", c)
    /\ registry[c] # None /\ active[c] # None
    /\ Capture(r, c)
    /\ UNCHANGED <<saved, todo, registryVars, sessionVars, lockVars>>

RefreshUnknown(r, c) ==
    /\ Begin(r, "refresh", c)
    /\ registry[c] = None \/ active[c] = None
    /\ Goto(r, "failed")
    /\ UNCHANGED <<saved, held, todo, registryVars, sessionVars, lockVars>>

\* The sweep goes on to a configuration among rest, fails on one that has
\* no session any more, or is complete.
SweepOn(r, rest) ==
    \/ /\ rest = {}
       /\ Goto(r, "done")
       /\ UNCHANGED <<target, held, todo>>
    \/ \E c \in rest :
        /\ active[c] = None
        /\ Goto(r, "failed")
        /\ UNCHANGED <<target, held, todo>>
    \/ \E c \in rest :
        /\ active[c] # None
        /\ Capture(r, c)
        /\ target' = [target EXCEPT ![r] = c]
        /\ todo' = [todo EXCEPT ![r] = rest \ {c}]

SweepStart(r) ==
    /\ pc[r] = "idle"
    /\ \A q \in Requests : op[q] # "close"
    /\ op' = [op EXCEPT ![r] = "sweep"]
    /\ SweepOn(r, {c \in Configs : registry[c] # None})
    /\ UNCHANGED <<saved, registryVars, sessionVars, lockVars>>

\* The snapshot is applied on behalf of the captured session, even when that
\* session has been replaced or removed meanwhile.
RefreshOk(r) ==
    /\ pc[r] = "reading" /\ op[r] \in {"refresh", "sweep"}
    /\ Show(target[r], held[r], TRUE)
    /\ SweepOn(r, todo[r])
    /\ UNCHANGED <<op, saved, registry, sessionVars, lockVars>>

\* The read, or the projection of what it returned, raises.
RefreshFails(r) ==
    /\ pc[r] = "reading" /\ op[r] \in {"refresh", "sweep"}
    /\ Goto(r, "failed")
    /\ UNCHANGED <<op, target, saved, held, todo, registryVars, sessionVars, lockVars>>

-----------------------------------------------------------------------------
(* _poll_loop, one instance per installed session *)

PollGoto(p, place) == poll' = [poll EXCEPT ![p] = place]

\* The loop condition: sleep again while the session is the installed one.
PollOn(p) == PollGoto(p, IF active[target[p]] = p THEN "sleeping" ELSE "done")

PollStart(p) ==
    /\ poll[p] = "starting" /\ p \notin cancelled
    /\ PollOn(p)
    /\ UNCHANGED <<requestVars, registryVars, active, client, cancelled, lockVars>>

PollWake(p) ==
    /\ poll[p] = "sleeping" /\ p \notin cancelled
    /\ PollGoto(p, "reading")
    /\ UNCHANGED <<requestVars, registryVars, active, client, cancelled, lockVars>>

PollReadOkUncancelled(p) ==
    /\ poll[p] = "reading"
    /\ Show(target[p], p, TRUE)
    /\ PollOn(p)
    /\ UNCHANGED <<requestVars, registry, active, client, cancelled, lockVars>>
PollReadOk(p) ==
    /\ poll[p] = "reading" /\ p \notin cancelled
    /\ Show(target[p], p, TRUE)
    /\ PollOn(p)
    /\ UNCHANGED <<requestVars, registry, active, client, cancelled, lockVars>>

\* The read or the projection raises; the task survives and says so.
PollReadFailsDies(p) ==
    /\ poll[p] = "reading" /\ p \notin cancelled
    /\ Show(target[p], p, FALSE)
    /\ PollGoto(p, "done")
    /\ UNCHANGED <<requestVars, registry, active, client, cancelled, lockVars>>
PollReadFailsSilently(p) ==
    /\ poll[p] = "reading" /\ p \notin cancelled
    /\ PollOn(p)
    /\ UNCHANGED <<requestVars, registryVars, active, client, cancelled, lockVars>>
PollReadFails(p) ==
    /\ poll[p] = "reading" /\ p \notin cancelled
    /\ Show(target[p], p, FALSE)
    /\ PollOn(p)
    /\ UNCHANGED <<requestVars, registry, active, client, cancelled, lockVars>>

\* CancelledError is raised at whatever await the task is suspended in.
PollCancelled(p) ==
    /\ poll[p] \in Running /\ p \in cancelled
    /\ PollGoto(p, "done")
    /\ UNCHANGED <<requestVars, registryVars, active, client, cancelled, lockVars>>

-----------------------------------------------------------------------------
Arrive(r) ==
    \/ \E c \in Configs :
        \/ ApplyStart(r, c) \/ ApplyRejected(r, c)
        \/ RemoveStart(r, c)
        \/ RefreshStart(r, c) \/ RefreshUnknown(r, c)
    \/ SweepStart(r)
    \/ CloseStart(r)

HandlerStep(r) ==
    \/ ApplyReadOk(r) \/ ApplyReadFails(r) \/ ApplyDiscarded(r)
    \/ Evict(r) \/ JoinPoller(r) \/ Install(r) \/ InstallFails(r)
    \/ RemoveFinish(r)
    \/ CloseDetach(r) \/ CloseNext(r) \/ CloseFinish(r)
    \/ RefreshOk(r) \/ RefreshFails(r)

PollStep(p) ==
    PollStart(p) \/ PollWake(p) \/ PollReadOk(p) \/ PollReadFails(p) \/ PollCancelled(p)

\* No request is under way and no session polls: the runtime may stay there.
Quiescent ==
    /\ \A r \in Requests : ~InFlight(r) /\ poll[r] \notin Running
    /\ UNCHANGED vars

Next ==
    \/ \E r \in Requests : Arrive(r) \/ HandlerStep(r) \/ PollStep(r)
    \/ Quiescent

Spec == Init /\ [][Next]_vars

\* Every await ends: reads time out, a sleep elapses, the event loop runs every
\* task that is ready.  Requests need not arrive.
FairSpec ==
    /\ Spec
    /\ \A r \in Requests : WF_vars(HandlerStep(r)) /\ WF_vars(PollStep(r))

-----------------------------------------------------------------------------
(* Safety *)

\* A session found in _active can serve: it was built for that configuration,
\* its client is open, and nobody told its polling task to stop.  Commands,
\* refreshes and polls read _active without the lock and rely on this.
ActiveIsLive ==
    \A c \in Configs : active[c] # None =>
        /\ target[active[c]] = c
        /\ client[active[c]] = "open"
        /\ active[c] \notin cancelled
        /\ poll[active[c]] # "done"

\* A polling task never outlives its session: whoever polls is installed, or
\* the holder of the lock is stopping it or will, and its client is open.
NoOrphanPoller ==
    \A p \in Requests : poll[p] \in Running =>
        /\ p \in Installed \cup doomed \/ p = victim
        /\ client[p] = "open"

\* No client is leaked: an open one is installed, being stopped, or still in
\* the hands of the configure() call that created it.
NoLeakedClient ==
    \A s \in Requests : client[s] = "open" =>
        InFlight(s) \/ s \in Installed \cup doomed \/ s = victim

\* A session stays installed although its configure() call raised: its snapshot
\* was malformed.
Broken(s) == s # None /\ pc[s] = "failed"

\* When no change of a configuration is under way, the entry that the API lists
\* is the one whose session polls the firewall (apply_config, remove_config),
\* after failed probes and rollbacks, too.  Only a malformed snapshot parts them,
\* until its session is replaced or removed.  Shutdown keeps the entries.
Coherent ==
    (\A r \in Requests : op[r] # "close") =>
        \A c \in Configs :
            ~Changing(c) /\ ~Broken(active[c]) => registry[c] = active[c]

\* Half of Coherent, as README.md states it: a firewall that the runtime polls
\* is one whose entity it lists.
PolledIsListed ==
    (\A r \in Requests : op[r] # "close") =>
        \A c \in Configs : active[c] # None /\ ~Changing(c) => registry[c] # None

\* latest_state is only written for a session that is installed, that a refresh
\* under way has captured, or that shutdown has not reached yet; a session
\* that was evicted or removed is never heard of again through its poller.
StateProvenance ==
    [][\A e \in Requests :
        shown'[e] # shown[e] =>
            LET s == shown'[e].by
            IN  \/ s \in Installed' \cup doomed
                \/ \E r \in Requests : InFlight(r) /\ held[r] = s]_vars

-----------------------------------------------------------------------------
(* The inductive invariant behind the safety properties *)

InService(s) == s \in Installed \cup doomed \/ s = victim

\* What the local variables of a request hold at the awaits that use them.
RequestDiscipline ==
    \A r \in Requests :
        /\ pc[r] = "idle" => op[r] = "none"
        /\ op[r] = "none" => pc[r] = "idle"
        /\ pc[r] = "reading" => op[r] \in {"apply", "refresh", "sweep"}
        /\ pc[r] = "discarding" => op[r] = "apply"
        /\ pc[r] \in {"locking"} \cup Stopping => op[r] \in {"apply", "remove", "close"}
        /\ op[r] \in {"apply", "remove"} => target[r] \in Configs
        /\ pc[r] = "reading" => target[r] \in Configs
        /\ pc[r] = "reading" /\ op[r] # "apply" => held[r] \in Requests

\* Only the holder of the lock stops sessions, one at a time, and nothing is
\* installed under its configuration behind its back.
LockDiscipline ==
    /\ \A r \in Requests : pc[r] \in Stopping =>
        /\ lockQ # <<>> /\ Head(lockQ) = r
        /\ victim # None
        /\ op[r] = "apply" => active[target[r]] = None
        /\ op[r] # "close" => doomed = {}
        /\ pc[r] = "stopping" => client[victim] = "open"
        /\ pc[r] = "closing" => client[victim] = "closed" /\ poll[victim] \notin Running
    /\ (\A r \in Requests : pc[r] \notin Stopping) => victim = None /\ doomed = {}

\* The life of a session: in the hands of configure(), then in service, then gone.
SessionDiscipline ==
    \A s \in Requests :
        /\ op[s] # "apply" => client[s] = "none" /\ poll[s] = "none"
        /\ InService(s) => op[s] = "apply" /\ pc[s] \in Final
        /\ op[s] = "apply" /\ InFlight(s) => poll[s] = "none" /\ s \notin cancelled
        /\ op[s] = "apply" /\ InFlight(s) /\ pc[s] # "discarding" => client[s] = "open"
        /\ pc[s] = "discarding" => client[s] = "closed"
        /\ s \in Installed => s # victim /\ s \notin doomed
        /\ s \in doomed => s # victim /\ client[s] = "open"
        /\ s = victim => s \in cancelled
        /\ s \in cancelled => s = victim \/ client[s] = "closed"

\* Everything above at once: it is preserved by every step, which none of the
\* safety properties is on its own.
Inv ==
    /\ TypeOK
    /\ RequestDiscipline
    /\ LockDiscipline
    /\ SessionDiscipline
    /\ ActiveIsLive
    /\ NoOrphanPoller
    /\ NoLeakedClient

-----------------------------------------------------------------------------
(* Liveness, under FairSpec *)

\* No request waits for ever: neither for the lock nor for a cancelled task.
RequestsTerminate == \A r \in Requests : InFlight(r) ~> pc[r] \in Final

\* README.md: "The runtime polls firewall health".  A session whose configuration
\* was accepted keeps polling for as long as it is installed, whatever its reads
\* return.
PollingContinues ==
    \A s \in Requests :
        (s \in Installed /\ ~Broken(s)) ~> (poll[s] = "reading" \/ s \notin Installed)

Misattributed(s) ==
    /\ \E c \in Configs : registry[c] = s /\ active[c] = s
    /\ shown[s] # None /\ shown[s].by # s

\* A refresh that captured the previous session overwrites the state of the new
\* one.  The damage does not last: the next poll writes the session's own.
StaleStateHeals == \A s \in Requests : Misattributed(s) ~> ~Misattributed(s)

-----------------------------------------------------------------------------
(* Refinement of SessionLifecycle *)

LifeOf(s) ==
    CASE client[s] = "none" -> "unborn"
      [] client[s] = "closed" -> "retired"
      [] client[s] = "open" /\ s \in Installed -> "installed"
      [] client[s] = "open" /\ s \in doomed \cup {victim} -> "retiring"
      [] OTHER -> "probing"

Lifecycle == INSTANCE SessionLifecycle
    WITH Sessions <- Requests,
         life <- [s \in Requests |-> LifeOf(s)],
         owner <- [s \in Requests |-> IF client[s] = "none" THEN None ELSE target[s]]

\* The lock, the detaching before the first await and the joining of the poller
\* together give what the abstract sessions promise: one owner per firewall.
ImplementsLifecycle == Lifecycle!Spec

\* ... and every session that is taken out of service is torn down.
ImplementsFairLifecycle == Lifecycle!FairSpec
=============================================================================
