# Verification of the pfSense runtime

TLA+ models of the PiPhi Network pfSense runtime (`src/src/piphi_network_pfsense`) and of its
dashboard widgets (`src/widgets`), with the TLC runs that check them on small instances and the
TLAPS proofs of what matters most. Paths below are relative to `src/src/piphi_network_pfsense`
unless they begin with `src/`. `PROJECT.json` maps every definition to the lines it models.

## 1. The system

One Python process serves the runtime's HTTP API (FastAPI on uvicorn) on one asyncio event loop.
For every configured firewall it keeps a client of that firewall's pfREST API and a task that
polls it. There are no threads: a coroutine runs undisturbed from one `await` to the next, and
everything else in the process may happen at an `await`.

| component | state it keeps | operations | talks to |
|---|---|---|---|
| Runtime service (`service.py:23-225`) | `_active` (a session per configuration), `_lock`; per session: client, polling task, `last_state` | `configure`, `remove`, `close`, `refresh`, `_poll_loop`, `_stop` | pfREST client, registry |
| Configuration handlers (`state.py:120-190`, `routes/config.py`, `lifecycle.py`) | the SDK registry: an entry per configuration, with `latest_state` | `apply_config`, `remove_config`, sync, shutdown | runtime service |
| Transition events (`service.py:226-407`) | `last_state` of a session | `_apply_snapshot`, `_emit_transitions` | SDK event delivery |
| Client inventory (`service.py:622-664`, `routes/entities.py`) | none between snapshots but `last_state` | merging leases and ARP, listing entities | transition events |
| Certificate alerts (`service.py:409-445`) | `certificate_alert_levels` | `_emit_certificate_alerts` | SDK event delivery |
| Log events (`service.py:446-480`) | `seen_log_ids` | `_emit_log_events` | SDK event delivery |
| Interface rates and projection (`service.py:226-262`, `511-738`, `770-857`) | `previous_interface_counters` and `previous_observed_at` of a session | `apply_interface_rates`, `snapshot_to_state`, telemetry in `_apply_snapshot` | the above, SDK telemetry |
| Operational commands (`routes/commands.py`, `state.py:216-412`) | locals of a request; recorded events | ping, Wake-on-LAN, service start/restart | runtime service, pfREST client |
| pfREST client (`pfsense_client.py`) | an `httpx.AsyncClient`, open or closed | `read_snapshot`, service actions, `close` | the firewall |
| Simulator (`simulator.py`) | `_sample`, the number of its reads | the client's interface with fixed answers and counters that grow | - |
| Widget recovery (`src/widgets/*/src/state.js`, `widget.js`) | `unsubscribe`, `activeRequest`, the card | `recover`, `handleEvent`, `stop` | the widget host |
| Configuration schema (`schemas.py`) | none | validation of a payload | configuration handlers, commands |
| Read-only routes, contract, manifest, release scripts | none | formatting and checks | - |

What is hard in it, and what makes each part correct:

* **Service and handlers.** Two applies of one configuration probe their firewalls at the same
  time and meet at the lock; `_stop` awaits a task under the lock, perhaps in the middle of its
  read; `refresh` reads without the lock and applies its result to a session that may be gone;
  `apply_config` and `remove_config` change the registry outside the lock and roll it back;
  `close` detaches all sessions and then stops them one by one. Correct means: one owner per
  firewall; no polling task and no client outlives its session; registry and `_active` agree when
  nothing is under way; requests end; polling goes on; stale state does not stay.
* **Events.** Polls and refreshes overlap, endpoints fail one at a time and leave a collection
  empty, and every event is a difference to whatever was applied last. `configure` on a
  configuration that has a session probes while the old session goes on reporting, and starts the
  new one from the probe; a refresh of the old one may still return. Correct means: who follows
  the events knows the status; nothing is made up or said twice.
* **Rates.** A rate divides the growth of a counter by the time between two *applications*, while
  the counters were read earlier, perhaps by overlapping reads; interfaces disappear, counters
  restart at zero, endpoints fail, sessions are replaced. Correct means: no traffic is counted
  twice, none appears from nothing, and no rate exceeds what the line can carry by more than the
  age of a snapshot explains.
* **Client inventory.** A host is seen by two sources that may disagree about its id, name and
  status. Correct means: one entity per client, events that carry its id, no false offline.
* **Certificate alerts.** Thresholds are skipped, reads come late, renewals go backwards.
* **Logs.** Bounded memory, a baseline taken from whichever endpoints answered, late responses.
* **Commands.** They are checked against one configuration and sent after an `await`, when
  another may be active. Correct means: the configuration that allowed it still decides.
* **Widgets.** Streams end, errors arrive and Retry is pressed while a read or a subscription is
  pending. Correct means: one stream, never "live" without it, never stuck.

`PROJECT.json` lists these hazards one by one, each at its line, with the properties that would
catch it going wrong.

## 2. The modules

**`SessionLifecycle`** is the abstract specification of the service: sessions that probe, are
installed, retire and are retired. A session may be installed only when no session of its
configuration is installed or still retiring. There is no lock and no task in it.

**`RuntimeService`** is the service with its handlers. One action is what a coroutine does between
two points where it can suspend.

| variable | code |
|---|---|
| `pc`, `op`, `target`, `saved`, `held`, `todo` | where a request is suspended, and the locals it needs afterwards: `previous` in `apply_config`, the captured `active` in `refresh`, the rest of a state sweep |
| `registry`, `shown` | the registry's entries and their `latest_state` |
| `active`, `client`, `poll`, `cancelled` | `_active`, and client and polling task of every session |
| `lockQ`, `victim`, `doomed` | `asyncio.Lock` with its FIFO waiters; the session that `_stop` works on; those that `close` has yet to stop |

| actions | code |
|---|---|
| `ApplyStart`, `ApplyRejected`, `ApplyReadOk`, `ApplyReadFails`, `ApplyDiscarded` | `apply_config` and `configure` up to the lock: entry set, client made, probe, client closed and entry rolled back on failure |
| `Evict`, `JoinPoller`, `Install`, `InstallFails` | `configure` under the lock: `_active.pop`, `_stop`, store, `_apply_snapshot`, task |
| `RemoveStart`, `RemoveFinish` (with `Evict`, `JoinPoller`) | `remove_config`, `remove` |
| `CloseStart`, `CloseDetach`, `CloseNext`, `CloseFinish` | `lifespan` and `close` |
| `RefreshStart`, `RefreshUnknown`, `RefreshOk`, `RefreshFails`, `SweepStart` | `refresh` and `GET /state` |
| `PollStart`, `PollWake`, `PollReadOk`, `PollReadFails`, `PollCancelled` | `_poll_loop` |

A request is served once, so a session, its client and the entry set for it are all named by the
request that applied it. A configuration sync is a sequence of applies and removals and needs no
action of its own. The lock is granted in order of arrival; a coroutine that finds it free does
not suspend, while the model lets steps that need no lock come in between, which only adds
behaviours. `Overlapping` says whether two changes of one configuration may overlap: the code does
not prevent it, and some properties only hold without. `Malformed` says whether a snapshot may be
one that the projection raises on; both runs of the service allow it.

**`Commands`** extends `RuntimeService` with commands that run beside all of it, each of them one
automation with its two requests to the firewall. A configuration's allow-lists belong to the
request that applied it. They are those of any payload the schema accepts, for one kind of command:
`Payloads`, `Valid` and `Enabled` are the flag and the list of pings in `schemas.py`, its rule that
enabled pings need a host, and the rule of the service that a list without its flag is of no account.
Service commands and Wake-on-LAN have flags, lists and rules of the same form (starts and restarts
share a list), which are not modelled side by side: no rule looks at those of another kind.

**`TransitionEvents`, `CertificateAlerts`, `LogEvents`** each model the part of one session that
turns snapshots into one sort of event. In all of them a read samples the firewall at one moment
and is applied at another, so the reads of poller and refreshes are applied in any order, and the
endpoint may fail. They carry history variables (versions, issues, what followers were `told`)
that no rule looks at. Events are typed as the code types them, and what followers were told of a
status is what the types say: `network.client.discovered` carries none (`service.py:386-391`), so of a
client that was discovered they know only that it is there (`Found`). `TransitionEvents` also replaces the session once: `Probe` samples what the
new session starts from, `Replace` stops the old poller and takes over, and `ApplyDetached` is a
refresh that was made for the old session and is applied to it, as it was read or with the
collections empty that its closed client could no longer fetch. For the other two a new session
is simply a new run: it starts without levels and without hashes. Which sessions still apply
snapshots at all is said by `StateProvenance` of the service.

**`InterfaceRates`** models how byte counters become rates. Time is discrete, an interface carries
at most one unit of traffic per unit of time, and one counter stands for bytes received or sent,
which the code treats alike. `Sample` reads the counters (all, or none when the endpoint fails),
`Apply` publishes the growth since the snapshot applied before and remembers the new counters and
the time, `Sample` and `Apply` of `current + 1` are the probe and the installation of the next
session, and `CutShort` is a read whose client was closed by that. The firewall unplugs
interfaces, plugs them in, and resets counters. `SimulatedRead` is the same with the simulator as
client, which does not suspend and whose counters count its own reads. Rates are kept multiplied
with the time they stand for: `reported` adds up the traffic that they amount to. What had really
flowed (`flowed`) and what went wrong on the way (`incidents`) is history that no rule looks at.

**`ClientInventory`** models how leases and ARP entries become clients, for every kind of host:
lease and ARP entry each with or without MAC and, without it, identified by address (`LeaseId`,
`ArpId`), lease with a hostname, a description, both or neither, ARP entry with or without hostname.
Hosts may share any of these texts. A poll is one step here, and may return any leases with any ARP
table, which covers two endpoints sampled at two moments and endpoints that fail; the order of
reads is the subject of `TransitionEvents`. Events are known by type and device, nothing else.

**`WidgetRecovery`** models `createRecoverySession` with the callbacks of both widgets: a step is
what JavaScript runs without returning to its event loop. `Stop` calls the asynchronous stop function of
a stream and forgets it (`state.js:48-52`); the host answers later. `StopOk` ends the stream,
`StopFails` leaves it served and out of anybody's reach, since the rejection is swallowed. Until a
stop has succeeded the stream goes on delivering events, and `Event` treats them as the code does,
which does not know the stream they are from.

`MC*` modules give constants and symmetry for TLC; the modules named `*Proofs` hold the proofs, one
for each of the modules above but `SessionLifecycle`, whose are in `RuntimeServiceProofs`. The definitions that no module's `Next` uses and that
stand directly before a definition of similar name (`EvictKeepsActive` before `Evict`) are the plausible bugs with which
every property is tested: with any one of them in place of the original, the property it is
listed for in `PROJECT.json` under `mutants` fails.

External, and modelled by how the code uses them: the SDK's registry (a dictionary), its event
delivery and its idempotency store; `asyncio.Lock` and task cancellation; `httpx` (requests end
by their timeout, a closed client raises); uvicorn (requests are drained before shutdown); the
widget host (delivers events from the moment `subscribe` resolves until the stop of the stream succeeds).

## 3. The runs

| run | shows |
|---|---|
| `service_and_commands` | For all overlaps, with snapshots the projection rejects: `ActiveIsLive` (what `_active` holds is usable without the lock), `NoOrphanPoller`, `NoLeakedClient`, `StateProvenance` (a session out of service never writes state through its poller), `Inv` (the induction hypothesis of the proofs), `ImplementsLifecycle`; and of commands, `ActiveConfigDecides` (a command is sent only for a session that permits it, is in service, and has not been superseded by another), `OutcomeRecorded` |
| `service_live` | Without overlapping changes of one configuration, with malformed snapshots: `Coherent` (entry and session belong together whenever no change is under way, failed applies and rollbacks included); under fairness: `RequestsTerminate`, `PollingContinues`, `StaleStateHeals`, `ImplementsFairLifecycle` |
| `transitions` | `DeliveredWhenAnswered` (what the types of the events have said of a status is that of the snapshot applied last, or a client was discovered with it, for what is `Comparable`: items with names of their own; clients, or collections that no snapshot is empty of), `NoSpuriousEventsInOrder`, `EventuallyTold` in six circumstances at once: two readers of a collection in any order; a failing endpoint under one; clients that come and go; clients under failing endpoints and two readers; a session that is replaced, with its poller alone, or as the client inventory with a refresh that outlives it |
| `clients` | `OneEntityPerClient` (of hosts that lease and ARP entry identify alike), `ClientStatusDelivered` (of those that also have one name of their own), `NoFalseOffline` |
| `certificates` | `AlertsUntilRenewal`, `NoFalseAlarm`, `ExpiryAnnounced` |
| `logs` | `DeliveredOnce`, `AnsweredBaselineIsSilent` (both up to a reset to less than the latest entries), `SeenIsDelivered` |
| `rates` | `TrafficAccounted` (what the rates add up to never exceeds what flowed; it is exactly that when nothing happens), `RateBounded` (a rate exceeds the line rate only by the age of the snapshot before it), for three overlapping reads, an unstable firewall, a replaced session, and the simulator |
| `widget_recovery` | `ExactlyOneSubscription` (of the streams not told to stop, also when stops fail); and, while the card is not that of a stream that was told to stop (`Own`), `LiveIsFed`, `RetryOffered`, `OfflineKeepsRetry`, `RetryRecovers` |
| `service_unlisted`, `transitions_gap`, `certificates_renewed`, `logs_baseline` | the disagreements of section 5: one property each, violated |

### Bounds, and why they are enough

* Service: three requests, two configurations; with commands, one command and one target more.
  Three requests are what it takes for an apply, a second change that evicts it, and one that
  overlaps both, and for the shutdown of two sessions of two configurations. The proofs drop the bound for
  all the safety properties of the service.
* Transitions: two items, two readers, two changes of status per item (versions 1 to 3). An item
  can go and come back while an older read is pending; two readers can swap two reads.
  The session is replaced once: its successor could only be replaced in the same way.
* Rates: one interface, since the entries of the dictionary do not depend on each other; three units
  of time, three overlapping reads in the stable circumstances and two in the others, two sessions.
  Three reads are enough for one to be applied late between two others.
* Clients: two hosts. One is of every kind that two texts allow (but a lease with a hostname has no
  description, which would not be looked at); the other is known by its MAC and named by one of the texts, so that the first may share its
  hostname or description, or be confused with it by name. Hosts only interact by sharing a name,
  and two suffice. The proofs are about any hosts and any texts. Nothing else is bounded.
* Certificates: one certificate (levels are independent of each other), two issues, two readers,
  and days on and just above every threshold, and past the last one.
* Logs: two streams, three entries each. `window` and `cap` stand for the entries an endpoint
  returns and the 4096 hashes a session remembers; hashes accumulate over polls, so a cap of three or
  four against windows of two is reached as it is in the code, once or several times in the life of a
  session. It is reached under one reader and answering endpoints, and under two readers and failing
  endpoints, in any combination; a third setting has room for everything. Where a reset is to a
  response that lacks a stream, or whose read overlapped another, `forgetful` becomes true and with it
  the session is excepted from then on, as it really repeats itself (section 5).
* Widget: three streams at once, of which all but one may be abandoned by the host. With more than
  one that is neither held nor told to stop the property is violated already.

Symmetry is used in safety runs only. No run switches deadlock checking off: what may stop
(a service without requests, a hidden widget) has an explicit idle step, and anything else that
stops is an error.

### Fairness, and why the code justifies it

* `RuntimeService!FairSpec`: every request and every polling task that can go on does (weak
  fairness of `HandlerStep` and `PollStep`). asyncio runs every ready task, sleeps elapse, and each
  `httpx` request has a timeout, so every read ends - how it ends is left open. Requests need not arrive.
* `TransitionEvents`, `CertificateAlerts`: pollers read for ever (`PollingContinues` proves the
  ground of it), and reads do not all fail from some moment on; a firewall that never answers
  again is reported through its connection state instead, and no event is promised.
* `WidgetRecovery!FairSpec`: the host answers each request, not always with an error, and
  somebody presses Retry; it answers each `stop`, as often with an error as it likes. Streams and
  errors are under no fairness.
* The other modules state safety only. Nothing there has to happen: a firewall may stay silent.

## 4. The proofs

Every theorem holds for all values of the constants that the named assumption of its module
admits. The assumptions say little:

| assumption | of |
|---|---|
| `ConstantsAssumption`, `LogAssumption`, `NetworksAssumption`, `StreamsAssumption` | types of constants, and that `None` is none of the things it stands beside |
| `TransitionAssumption` | the same; items are numbers, since rules depend on list positions, and a collection is finite |
| `DaysAssumption` | days are a finite set of integers, so that there is a highest: those of a new certificate |
| `RatesAssumption` | types; a finite set of interfaces, at least one session |

| module | theorems |
|---|---|
| `RuntimeServiceProofs` | `Invariance`, `TypeCorrect`, `ActiveSessionsAreLive`, `PollersBelongToSessions`, `ClientsAreNotLeaked`, `StateIsAttributed`, `ListedIsPolled`, `ServiceImplementsLifecycle`, `OneSessionPerFirewall` |
| `CommandsProofs` | `CommandTypeCorrect`, `CommandsAreDecided`, `RequestsHaveOutcomes` |
| `TransitionEventsProofs` | `TypeCorrect`, `TransitionsAreDelivered`, `NoEventIsMadeUp` |
| `CertificateAlertsProofs` | `TypeCorrect`, `AlertsAreExactUntilRenewal`, `RenewalsGiveNoFalseAlarm` |
| `LogEventsProofs` | `TypeCorrect`, `RememberedIsDelivered`, `DeliveryIsUnique`, `BaselineIsKept`, `InOrderNothingIsRepeated`, `WithRoomNothingIsRepeated` |
| `InterfaceRatesProofs` | `TypeCorrect`, `TrafficIsAccounted`, `RatesAreBounded` |
| `ClientInventoryProofs` | `TypeCorrect`, `HostsAreOneClient`, `NeverFalselyOffline`, `StatusReachesFollowers` |
| `WidgetRecoveryProofs` | `TypeCorrect`, `OneSubscription`, `LiveCardsAreFed`, `NeverStuck`, `OfflineCanRetry` |

Those of the service cover both values of `Overlapping` and `Malformed`, except `ListedIsPolled`, and those
of transitions and rates every setting, not only the ones that a run explores.

**Invariant.** `Invariance` is `Spec => []Inv`; `TypeCorrect`, `ActiveSessionsAreLive`,
`PollersBelongToSessions` and `ClientsAreNotLeaked` follow from it. None of these properties is
inductive. `NoOrphanPoller`, for example, survives `JoinPoller`, which closes a client, only
because the session being closed has no running task; that holds because its holder waited for
the task; and *that* stays true only because nobody else can install or stop the session
meanwhile. So `Inv` adds

* `RequestDiscipline`: which operations may be suspended where, and which locals they rely on there;
* `LockDiscipline`: only the head of the lock's queue is stopping a session, that session's client
  is open until its task has been joined and closed afterwards, and nothing is installed under the
  holder's configuration while it waits - the reason why `Install` overwrites nothing;
* `SessionDiscipline`: a session is first in the hands of `configure`, then installed, doomed or
  victim (exactly one of them), then closed; a cancelled task belongs to a victim or a closed session.

There is one lemma per action, with a step per conjunct.

**State.** `StateIsAttributed` (`Spec => StateProvenance`) shows by cases that a step which writes
`latest_state` writes it for an installed or doomed session, or for one a refresh has captured.

**Registry.** `ListedIsPolled` is `~Overlapping => (Spec => []Coherent)`; section 5 shows that it is
false otherwise. `Coherent` only speaks of the moments when no change is under way, so it takes
`ChangeDiscipline` for those in between: there is at most one change of a configuration; once it
stops a session nothing is installed there; an apply finds the entry it has set; and until it
stops anything, the entry it has saved for the rollback is that of the session in service. The
shutdown ends all of this, as it ends the service.

**Refinement.** `ServiceImplementsLifecycle` is `Spec => Lifecycle!Spec`. A session is mapped to
its stage by its client and by whether it is installed, doomed or victim. Seven actions are
visible: `ApplyStart` probes, `ApplyReadFails` discards, `Evict` retires, `JoinPoller` finishes,
`Install` and `InstallFails` install, `CloseDetach` retires all. All others stutter. The crux is
`VacantHasNoOwner`: when the holder of the lock finds nothing under its configuration, no session
of that configuration is retiring either, since retiring happens under the same lock.
`OneSessionPerFirewall` is what the abstraction is for: `OwnersStayAlone` proves `ExclusiveOwner` of
the steps of `SessionLifecycle`, where it takes a few lines, and the refinement carries it over.

**Commands.** `ActiveConfigDecides` needs one more fact of the service than `Inv` has:
`VacantBehind`, that nothing is installed under the configuration of a session while it is being
stopped. With it, `NextKeeps` shows of every step of the service that a session leaves service only
with its client closed (`Kept`), and so a command that finds its client open still holds the
session in service. `CommandDiscipline` carries this from the `await` before to the request after.

**Transitions.** There are two inductions, and they share nothing but the types.
`TransitionsAreDelivered` needs no order at all: followers agree with the snapshot applied last,
whichever that is, because every event is computed from that snapshot and the one before
(`DeliveryInv`). What an event adds to what they know is its type: the case of each event is that
the type stands for the status of its item in that snapshot. For collections that only compare statuses this takes that nothing is ever
missing from a snapshot (`FullDiscipline`), which is why the property excepts them when endpoints
fail or items go (`Comparable`); clients have events for both. `NoEventIsMadeUp` is all about order:
with one reader a read under way is never older than what was applied, and what stands for a
failed endpoint is of no version at all (`OrderDiscipline`, `Sound`). A replacement keeps that up
until the old session reports something after the probe was sampled (`overtaken`).

**Certificates.** What the code remembers is a level, what the documentation counts is thresholds.
`AlertDiscipline` relates the two: the level is at most that of the count, and exactly that as long
as a certificate has had one issue. The first half survives a renewal, and so a renewal can cost alerts
but not add any.

**Rates.** `RatesInv` is about observations and the order between them. `Before(a, b)` says that
a counter has grown from `a` to `b` by no more than what flowed; a reset keeps that true, as it makes
`b` smaller. Everything read or remembered is before the present (`PastDiscipline`), reads are
in the order in which they sampled, and a read that is not late comes after all that
sessions remember (`OrderDiscipline`). From that `TrafficAccounted` is preserved: what is added is
the growth since something that was observed before. Equality takes the counters themselves:
as long as nothing was reset they are what flowed (`ExactDiscipline`). `RatesAreBounded` adds
the line rate: since an observation `o` units of time old at most `o` has flowed (`Past`), and a
rate divides by that less the age. A late read is not ordered, but without a reset it is exact.

**Logs.** `MemoryInv` says what the memory stands for: there is a length `w` of the streams, that of
the baseline or of the latest reset, such that whatever was delivered or is in the baseline is either
remembered or was then too old to be returned (`Recalled`), and every response under way was sampled
after that. `NothingComesBack` is the crux: what was too old then is never returned again. A reset
keeps this up by moving `w` to the response that it is to, which takes that this response has all
streams, that it was sampled after everything delivered was written (`Latest`: no other response was
applied during its read), and that no older one is still under way; these are the conditions of
`forgetful`. It holds for any window and any capacity. `DeliveryIsUnique` and `BaselineIsKept` follow;
`InOrderNothingIsRepeated` and `WithRoomNothingIsRepeated` name two circumstances in which no
reset is ever of the other sort: one reader with answering endpoints, and room for all entries.

**Clients.** First what `_network_clients` guarantees of any leases and ARP table: an id is listed
once, a host that both identify alike is listed under one id, and who answers ARP is online. The
rest is induction over polls. `StatusReachesFollowers` also shows that a name that no other host can
have leads back to the same client: the status remembered under it is that of this client, and an
event that names it is about no other.

**Widgets.** `WidgetInv` adds that a stream is only made by a session without one, that a card without
stream offers Retry even while a request is pending, and that a button is disabled only during a
request. `StopLetsGo` is the step at which the session lets go of a stream that is still served.

What is model-checked only is liveness, which is out of the prover's reach: `RequestsTerminate`,
`PollingContinues`, `StaleStateHeals`, `ImplementsFairLifecycle`, `EventuallyTold`,
`ExpiryAnnounced`, `RetryRecovers`. Every safety property that a passing run checks is stated by a
theorem.

## 5. What the models show about the code

Four disagreements with documents or tests, each reproduced by a run:

1. `service_unlisted`: `remove_config` awaits the service and then drops whatever entry is there.
   An apply of the same id that set its entry meanwhile goes on to install its session: the firewall is
   polled, and has no entry, no entity and no state. The opposite takes an overlap, too: of two applies
   of a new configuration that both fail, the first rolls the entry back, and the second then restores
   the one it had found, that of the first. The API lists a firewall that nobody polls (`PolledIsListed` with its
   implication turned round, in the same configuration, shows it).
2. `transitions_gap`: a failed endpoint is an empty collection, and the next poll is compared with
   it. A gateway that goes down during such a poll is never reported.
3. `certificates_renewed`: alert levels only go down, so a certificate renewed under the same
   `refid` expires without any alert at the levels already announced.
4. `logs_baseline`: a stream that fails in the first response is not part of the baseline, and all
   that its endpoint returns later is delivered as new.

A fifth is behind the condition `~forgetful` of `DeliveredOnce`, which is violated without it by the
settings of `logs`: `docs/contract.md:64` says that log events are deduplicated by content hash, but a
session whose memory exceeds 4096 hashes replaces it by the response at hand (`service.py:477-479`). If a
stream failed in that response, its entries are delivered again when it answers. If a refresh and
the poller overlap at that moment, the older of the two responses forgets what the newer one had
delivered, or itself returns what the newer one no longer had: one entry between the two
reads is enough. The same way entries of the baseline come to be delivered.

The test "restores exactly one subscription" (`src/widgets/pfsense-overview/test/widget.dom.test.mjs:105`)
holds if stops succeed. A rejected `stop()` is swallowed (`state.js:51`), and the host goes on serving a
stream that nobody can stop any more. If it delivers events on it, they are handled like those of the
new stream: a late snapshot makes a card live that nothing feeds and takes its Retry button away, and
a late error ends the stream that replaced the old one.

And behaviour that contradicts no document, of which the models show:

* A snapshot that the projection raises on, right after the session was stored, leaves an
  installed session without polling task, and the registry goes back to the entry before it.
  `PollingContinues` and `Coherent` except such a session (`Broken`); the next apply or removal
  of its configuration ends it.
* A refresh that overlaps the poller may apply the older of two reads last and report a transition
  backwards. The next poll corrects it (`EventuallyTold`).
* Items that share a name shadow each other: their transitions are lost, or repeated at every poll.
  Clients share names easily, since hostnames and descriptions are not unique.
* A client that is discovered is not said to be online or offline (`service.py:386-391`). One that was
  reported offline when it disappeared and comes back is only discovered again: who follows the
  events does not learn that it is online.
* A host whose lease has only a description is renamed when it answers ARP, and a client whose name
  changes together with its status is not announced. A host of which only the lease or only the
  ARP entry carries the MAC (`service.py:627`, `645`) is two clients when it has both.
* Online and offline events of clients carry the display name as their device, which is the id of no
  entity; events of discovered and vanished clients carry the entity's id.
* Changes between the last poll of a session and the probe of the one that replaces it are never
  reported, and what the old poller reports after the probe is reported again by the new session.
* A refresh whose session is replaced may be applied with empty collections, because its client was
  closed under it. For the clients this means that all of them are reported offline; the new session
  says nothing of those that are online until they change.
* A new session starts without certificate levels and log hashes: after reconfiguration or restart,
  levels are announced again, and the first response is a baseline again.
* A read applied after a newer one sets the remembered counters back, and the traffic in between is
  counted twice. If the counter was reset between the two, all that the old one had ever counted
  seems to have flowed in one interval. Two reads applied in the same instant yield no rate for the
  second and lose its traffic.
* A poll that fails changes `connected` in the registry only; no telemetry is sent with it.
* A command whose session is taken down between its two requests ends without a recorded outcome.
* A sweep stops at the first configuration that fails and leaves the rest as they were.

## 6. What is not modelled

* Of the projection: totals, VPN tunnels, CARP addresses, health and the list of alerts. They are
  computed from one snapshot and keep no state. Tunnels, certificates and virtual addresses without
  an identifier are named by their index, so a list that is reordered renames them; whether pfREST
  ever leaves the identifiers out cannot be told from the source.
* Of the schema: the format of single fields (URLs, intervals, MAC addresses, names).
* Of the simulator: its constants and its canned answers to commands.
* pfREST request paths, envelopes, TLS, credentials: I/O. What a snapshot holds when endpoints
  fail, and the two requests of a service command, are in the modules that use them.
* Read-only routes, contract, settings, start-up, behaviours, manifest, release scripts:
  formatting, constants and sequential checks.
* The SDK: idempotency of automations with its ledger, configuration sync order and event delivery
  are its own.
* The list of services changing between the look-up of a service and the request that names its
  number: ids and list are data of the firewall.
* Events that precede the resolution of `subscribe`, and a stop function that throws at once instead of
  returning a promise.
* `pagehide` while a subscription is being made: the stream belongs to a page that is unloaded.

## 7. Plan

Modelled, in this order: `SessionLifecycle` and `RuntimeService` with the refinement; `Commands`;
`TransitionEvents`, `CertificateAlerts`, `LogEvents`, `ClientInventory`; `WidgetRecovery`;
`InterfaceRates`; the replacement of sessions in `TransitionEvents` and `InterfaceRates`; the
payloads in `Commands`.

Of the running system nothing with state is left to model. What could be added are operators for
the projection's totals with reference definitions.

Proved: every safety property of the runs, and the refinement (section 4).

What is left to be proved:

1. Lemmas on `Payloads` of `Commands`: what the rules of the schema make of any payload.
2. An abstract specification of event delivery that `TransitionEvents` and `LogEvents` implement in
   the circumstances that their theorems name: every change is told once, in order.
3. For `InterfaceRates`, how far `reported` may exceed what flowed when a read is applied late.

Liveness under fairness stays with TLC. No module uses a `RECURSIVE` operator.

## 8. Running

    tlc -workers 2 -config ServiceAndCommands.cfg MCCommands
    tlapm RuntimeServiceProofs.tla
    tlapm CommandsProofs.tla

The module of each configuration is in `PROJECT.json` under `runs`. Each run finishes in about two minutes on two cores, or less.
