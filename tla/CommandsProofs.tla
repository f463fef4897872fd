--------------------------- MODULE CommandsProofs ---------------------------
(***************************************************************************)
(* What Commands promises, for any number of commands, targets, requests   *)
(* and configurations.                                                     *)
(*                                                                         *)
(* A command holds on to a session without the lock.  It is safe because a *)
(* session leaves service only by having its client closed, and as long as *)
(* it is in service nothing else is installed under its configuration.     *)
(***************************************************************************)
EXTENDS Commands, RuntimeServiceProofs, SequenceTheorems

\* Nothing is installed under the configuration of a session that is being
\* stopped or will be.
VacantBehind == \A s \in Requests : s = victim \/ s \in doomed => active[target[s]] = None

\* What a command that is under way relies on.
Relies(k) ==
    /\ at[k] = "unsent" => events[k] = <<>>
    /\ Busy(k) =>
        /\ events[k] = <<"requested">>
        /\ using[k] \in Requests /\ config[k] \in Configs
        /\ op[using[k]] = "apply" /\ target[using[k]] = config[k]
        /\ Permits(using[k], aim[k])
        /\ InService(using[k]) \/ client[using[k]] = "closed"

CommandDiscipline == \A k \in Commands : Relies(k)

CommandInv ==
    /\ Inv
    /\ VacantBehind
    /\ CommandTypeOK
    /\ CommandDiscipline

-----------------------------------------------------------------------------
(* Sessions, seen from a command that has captured one *)

\* The session s remains what it is, and it leaves service only with its client closed.
Kept(s) ==
    /\ op[s] = "apply" => op'[s] = "apply" /\ target'[s] = target[s]
    /\ InService(s) => InService(s)' \/ client'[s] = "closed"
    /\ client[s] = "closed" => client'[s] = "closed"

\* While a request waits for the lock at the head of its queue nothing is being stopped.
LEMMA TurnIsCalm ==
  ASSUME Inv, NEW r \in Requests, Turn(r)
  PROVE  victim = None /\ doomed = {}
<1>1. \A q \in Requests : pc[q] \notin Stopping
  BY DEF Inv, LockDiscipline, Turn, Stopping
<1> QED
  BY <1>1 DEF Inv, LockDiscipline

\* Steps that neither install nor detach a session.
LEMMA QuietSteps ==
  ASSUME Inv, VacantBehind,
         active' = active, victim' = victim, doomed' = doomed,
         \A s \in Requests : op[s] = "apply" => op'[s] = "apply" /\ target'[s] = target[s],
         \A s \in Requests : client[s] = "closed" => client'[s] = "closed"
  PROVE  VacantBehind' /\ \A s \in Requests : Kept(s)
<1>1. \A s \in Requests : InService(s)' <=> InService(s)
  BY DEF InService, Installed
<1>2. \A s \in Requests : s = victim \/ s \in doomed => target'[s] = target[s]
  BY DEF Inv, SessionDiscipline, InService
<1> QED
  BY <1>1, <1>2 DEF VacantBehind, Kept

\* A request that begins was idle, and so is no session.
LEMMA Beginnings ==
  ASSUME Inv, NEW r \in Requests, NEW operation, NEW c, Begin(r, operation, c)
  PROVE  \A s \in Requests : op[s] = "apply" => op'[s] = "apply" /\ target'[s] = target[s]
BY DEF Begin, Inv, RequestDiscipline, TypeOK

\* A request that arrives touches no session but the one it makes.
LEMMA ArrivalsKeep ==
  ASSUME Inv, VacantBehind, NEW r \in Requests, Arrive(r)
  PROVE  VacantBehind' /\ \A s \in Requests : Kept(s)
<1>1. ASSUME NEW c \in Configs, ApplyStart(r, c)
      PROVE  VacantBehind' /\ \A s \in Requests : Kept(s)
  <2>1. op[r] = "none" /\ client[r] = "none"
    BY <1>1 DEF ApplyStart, Begin, Inv, RequestDiscipline, SessionDiscipline
  <2>2. \A s \in Requests : client[s] = "closed" => client'[s] = "closed"
    BY <1>1, <2>1 DEF ApplyStart, Inv, TypeOK
  <2> QED
    BY <1>1, <2>2, Beginnings, QuietSteps DEF ApplyStart, lockVars
<1>2. ASSUME NEW c \in Configs,
             ApplyRejected(r, c) \/ RemoveStart(r, c) \/ RefreshStart(r, c) \/ RefreshUnknown(r, c)
      PROVE  VacantBehind' /\ \A s \in Requests : Kept(s)
  BY <1>2, Beginnings, QuietSteps DEF ApplyRejected, RemoveStart, RefreshStart, RefreshUnknown,
    sessionVars, lockVars
<1>3. CASE SweepStart(r)
  <2>1. \A s \in Requests : op[s] = "apply" => op'[s] = "apply" /\ target'[s] = target[s]
    BY <1>3 DEF SweepStart, SweepOn, Inv, RequestDiscipline, TypeOK
  <2> QED
    BY <1>3, <2>1, QuietSteps DEF SweepStart, sessionVars, lockVars
<1>4. CASE CloseStart(r)
  BY <1>4, Beginnings, QuietSteps DEF CloseStart, sessionVars
<1> QED
  BY <1>1, <1>2, <1>3, <1>4 DEF Arrive

\* A polling task touches no session but through its state.
LEMMA PollsKeep ==
  ASSUME Inv, VacantBehind, NEW p \in Requests, PollStep(p) \/ Quiescent
  PROVE  VacantBehind' /\ \A s \in Requests : Kept(s)
BY QuietSteps DEF PollStep, PollStart, PollWake, PollReadOk, PollReadFails, PollCancelled,
    Quiescent, vars, requestVars, sessionVars, lockVars

\* The handler steps that leave the sessions in service alone.
LEMMA ReadsKeep ==
  ASSUME Inv, VacantBehind, NEW r \in Requests,
         \/ ApplyReadOk(r) \/ ApplyReadFails(r) \/ ApplyDiscarded(r) \/ JoinPoller(r)
         \/ RefreshOk(r) \/ RefreshFails(r)
  PROVE  VacantBehind' /\ \A s \in Requests : Kept(s)
<1>1. active' = active /\ victim' = victim /\ doomed' = doomed /\ op' = op
  BY DEF ApplyReadOk, ApplyReadFails, ApplyDiscarded, JoinPoller, RefreshOk, RefreshFails,
    sessionVars, lockVars
<1>2. \A s \in Requests : op[s] = "apply" => target'[s] = target[s]
  BY DEF ApplyReadOk, ApplyReadFails, ApplyDiscarded, JoinPoller, RefreshOk, RefreshFails,
    SweepOn, Inv, TypeOK
<1>3. \A s \in Requests : client[s] = "closed" => client'[s] = "closed"
  BY DEF ApplyReadOk, ApplyReadFails, ApplyDiscarded, JoinPoller, RefreshOk, RefreshFails,
    sessionVars, Inv, TypeOK
<1> QED
  BY <1>1, <1>2, <1>3, QuietSteps

\* What is evicted becomes the victim of the request that evicts it.
LEMMA EvictKeeps ==
  ASSUME Inv, VacantBehind, NEW r \in Requests, Evict(r)
  PROVE  VacantBehind' /\ \A s \in Requests : Kept(s)
<1>1. victim = None /\ doomed = {}
  BY TurnIsCalm DEF Evict
<1>2. target[r] \in Configs
  BY DEF Evict, Inv, RequestDiscipline
<1>3. victim' = active[target[r]] /\ target[victim'] = target[r]
  BY <1>2 DEF Evict, StopBegin, Inv, ActiveIsLive
<1>4. active'[target[r]] = None /\ doomed' = {} /\ op' = op /\ target' = target /\ client' = client
  BY <1>1, <1>2 DEF Evict, Inv, TypeOK
<1>5. VacantBehind'
  BY <1>3, <1>4 DEF VacantBehind
<1>6. \A s \in Requests : InService(s) => InService(s)'
  <2> SUFFICES ASSUME NEW c \in Configs, active[c] # None, active[c] # victim'
               PROVE  active[c] \in Installed'
    BY <1>1, ConstantsAssumption DEF InService, Installed
  <2>1. active'[c] = active[c]
    BY <1>3 DEF Evict, Inv, TypeOK
  <2> QED
    BY <2>1 DEF Installed
<1> QED
  BY <1>4, <1>5, <1>6 DEF Kept

\* A request that has the lock and nothing more to stop lets go of a victim whose
\* client is closed, and installs only where nothing was.
LEMMA ReleaseIsClean ==
  ASSUME Inv, NEW r \in Requests, op[r] # "close", Vacant(r)
  PROVE  /\ doomed = {}
         /\ victim # None => client[victim] = "closed"
         /\ op[r] = "apply" => active[target[r]] = None
<1>1. CASE Turn(r)
  BY <1>1, TurnIsCalm DEF Vacant, Inv, LockDiscipline, Turn, Stopping
<1>2. CASE pc[r] = "closing"
  BY <1>2 DEF Inv, LockDiscipline, Stopping
<1> QED
  BY <1>1, <1>2 DEF Vacant

\* Installing overwrites nothing, and the victim is let go with its client closed.
LEMMA InstallsKeep ==
  ASSUME Inv, VacantBehind, NEW r \in Requests, Install(r) \/ InstallFails(r) \/ RemoveFinish(r)
  PROVE  VacantBehind' /\ \A s \in Requests : Kept(s)
<1>1. /\ op[r] \in {"apply", "remove"} /\ Vacant(r) /\ target[r] \in Configs
      /\ victim' = None /\ doomed' = doomed /\ client' = client /\ op' = op /\ target' = target
      /\ \/ active' = active
         \/ op[r] = "apply" /\ active' = [active EXCEPT ![target[r]] = r]
  BY DEF Install, InstallFails, RemoveFinish, Inv, RequestDiscipline, sessionVars
<1>2. /\ doomed = {} /\ (victim # None => client[victim] = "closed")
      /\ op[r] = "apply" => active[target[r]] = None
  BY <1>1, ReleaseIsClean
<1>3. VacantBehind'
  BY <1>1, <1>2, ConstantsAssumption DEF VacantBehind
<1>4. \A s \in Installed : s \in Installed'
  <2> SUFFICES ASSUME NEW c \in Configs, active[c] # None PROVE active[c] \in Installed'
    BY DEF Installed
  <2>1. active'[c] = active[c]
    BY <1>1, <1>2 DEF Inv, TypeOK
  <2> QED
    BY <2>1 DEF Installed
<1>5. ASSUME NEW s \in Requests, InService(s) PROVE InService(s)' \/ client'[s] = "closed"
  BY <1>1, <1>2, <1>4, <1>5, ConstantsAssumption DEF InService
<1> QED
  BY <1>1, <1>3, <1>5 DEF Kept

\* Shutdown detaches all sessions and keeps those it has yet to stop.
LEMMA ClosesKeep ==
  ASSUME Inv, VacantBehind, NEW r \in Requests, CloseDetach(r) \/ CloseNext(r) \/ CloseFinish(r)
  PROVE  VacantBehind' /\ \A s \in Requests : Kept(s)
<1>1. client' = client /\ op' = op /\ target' = target
  BY DEF CloseDetach, CloseNext, CloseFinish, sessionVars
<1>2. CASE CloseDetach(r)
  <2>1. victim = None /\ doomed = {}
    BY <1>2, TurnIsCalm DEF CloseDetach
  <2>2. PICK v \in Installed : victim' = v /\ doomed' = Installed \ {v}
    BY <1>2 DEF CloseDetach, StopBegin
  <2>3. \A s \in Requests : InService(s) => InService(s)'
    BY <2>1, <2>2, ConstantsAssumption DEF InService
  <2>4. \A s \in Requests : s = victim' \/ s \in doomed' => target[s] \in Configs
    BY <2>2 DEF Installed, Inv, ActiveIsLive
  <2>5. VacantBehind'
    BY <1>1, <1>2, <2>4 DEF CloseDetach, VacantBehind
  <2> QED
    BY <1>1, <2>3, <2>5 DEF Kept
<1>3. CASE CloseNext(r)
  <2>1. client[victim] = "closed" /\ active' = active
    BY <1>3 DEF CloseNext, Inv, LockDiscipline, Stopping
  <2>2. PICK v \in doomed : victim' = v /\ doomed' = doomed \ {v}
    BY <1>3 DEF CloseNext, StopBegin
  <2>3. \A s \in Requests : InService(s) => InService(s)' \/ client[s] = "closed"
    BY <2>1, <2>2 DEF InService, Installed
  <2>4. VacantBehind'
    BY <1>1, <2>1, <2>2 DEF VacantBehind
  <2> QED
    BY <1>1, <2>3, <2>4 DEF Kept
<1>4. CASE CloseFinish(r)
  <2>1. doomed = {} /\ (victim # None => client[victim] = "closed")
    <3>1. CASE Turn(r)
      BY <3>1, TurnIsCalm
    <3>2. CASE pc[r] = "closing" /\ doomed = {}
      BY <3>2 DEF Inv, LockDiscipline, Stopping
    <3> QED
      BY <1>4, <3>1, <3>2 DEF CloseFinish
  <2>2. active' = active /\ victim' = None /\ doomed' = {}
    BY <1>4, <2>1 DEF CloseFinish, sessionVars
  <2>3. \A s \in Requests : InService(s) => InService(s)' \/ client[s] = "closed"
    BY <2>1, <2>2, ConstantsAssumption DEF InService, Installed
  <2>4. VacantBehind'
    BY <2>2, ConstantsAssumption DEF VacantBehind
  <2> QED
    BY <1>1, <2>3, <2>4 DEF Kept
<1> QED
  BY <1>2, <1>3, <1>4

\* Every step of the service keeps the sessions that commands hold on to.
LEMMA NextKeeps ==
  ASSUME Inv, VacantBehind, [Next]_vars
  PROVE  VacantBehind' /\ \A s \in Requests : Kept(s)
<1>1. CASE UNCHANGED vars
  BY <1>1, QuietSteps DEF vars, requestVars, sessionVars, lockVars
<1>2. CASE Quiescent
  BY <1>1, <1>2 DEF Quiescent
<1>3. ASSUME NEW r \in Requests, HandlerStep(r)
      PROVE  VacantBehind' /\ \A s \in Requests : Kept(s)
  BY <1>3, ReadsKeep, EvictKeeps, InstallsKeep, ClosesKeep DEF HandlerStep
<1> QED
  BY <1>1, <1>2, <1>3, ArrivalsKeep, PollsKeep DEF Next

-----------------------------------------------------------------------------
(* Commands *)

\* Before any command nothing is suspended, so nothing is out of place.
LEMMA CommandInitEstablishes == CommandInit => CommandInv
<1> SUFFICES ASSUME CommandInit PROVE CommandInv
  OBVIOUS
<1>1. Inv
  BY InitEstablishes DEF CommandInit
<1>2. VacantBehind
  BY ConstantsAssumption DEF CommandInit, Init, VacantBehind
<1>3. CommandTypeOK
  <2>1. allows \in [Requests -> SUBSET Targets]
    BY DEF CommandInit, Enabled, Payloads
  <2> QED
    BY <2>1 DEF CommandInit, CommandTypeOK, RequestOrNone
<1>4. CommandDiscipline
  BY DEF CommandInit, CommandDiscipline, Relies, Busy
<1> QED
  BY <1>1, <1>2, <1>3, <1>4 DEF CommandInv

\* The service goes on under a command.
LEMMA ServiceStepPreserves ==
  ASSUME CommandInv, ServiceStep \/ UNCHANGED allVars
  PROVE  CommandInv'
<1>1. [Next]_vars /\ UNCHANGED commandVars
  BY DEF ServiceStep, allVars
<1>2. Inv' /\ VacantBehind' /\ \A s \in Requests : Kept(s)
  BY <1>1, NextPreserves, NextKeeps DEF CommandInv
<1>3. CommandTypeOK'
  BY <1>1 DEF CommandInv, CommandTypeOK, commandVars, locals
<1>4. CommandDiscipline'
  BY <1>1, <1>2 DEF CommandInv, CommandDiscipline, Relies, commandVars, locals, Busy, Permits, Kept
<1> QED
  BY <1>2, <1>3, <1>4 DEF CommandInv

\* A step of a command that keeps to what the command relies on, and ends or goes
\* on with the session it holds.
LEMMA CommandKeeps ==
  ASSUME CommandInv, UNCHANGED vars, allows' = allows, CommandTypeOK', CommandDiscipline'
  PROVE  CommandInv'
<1>1. Inv'
  BY NextPreserves DEF CommandInv
<1>2. VacantBehind'
  BY DEF CommandInv, VacantBehind, vars, requestVars, sessionVars, lockVars
<1> QED
  BY <1>1, <1>2 DEF CommandInv

\* The event sequences that a command may have recorded.
LEMMA Recorded ==
  ASSUME NEW a, NEW b
  PROVE  /\ Append(<<>>, a) = <<a>>
         /\ Append(<<a>>, b) = <<a, b>>
         /\ <<a, b>> # <<a>>
         /\ <<>> # <<a>>
<1>1. Append(<<>>, a) = <<a>>
  OBVIOUS
<1>2. Append(<<a>>, b) = <<a, b>>
  <2> DEFINE S == {a, b}  s == Append(<<a>>, b)  t == <<a, b>>
  <2>1. <<a>> \in Seq(S) /\ b \in S
    OBVIOUS
  <2>2. s \in Seq(S) /\ Len(s) = 2 /\ s[1] = a /\ s[2] = b
    BY <2>1
  <2>3. t \in Seq(S) /\ Len(t) = 2 /\ t[1] = a /\ t[2] = b
    OBVIOUS
  <2> HIDE DEF S, s, t
  <2>4. \A i \in 1 .. Len(s) : s[i] = t[i]
    BY <2>2, <2>3
  <2>5. s = t
    BY <2>2, <2>3, <2>4, SeqEqual
  <2> QED
    BY <2>5 DEF s, t
<1>3. Len(<<a, b>>) = 2 /\ Len(<<a>>) = 1 /\ Len(<<>>) = 0
  OBVIOUS
<1>4. <<a, b>> # <<a>> /\ <<>> # <<a>>
  BY <1>3
<1> QED
  BY <1>1, <1>2, <1>4

\* A command that is accepted captures the session that is active, which is in
\* service, was built for this configuration and permits the target.
LEMMA Accepted ==
  ASSUME CommandInv, NEW k \in Commands, NEW c \in Configs, NEW t \in Targets, Accept(k, c, t)
  PROVE  /\ active[c] \in Requests /\ InService(active[c])
         /\ op[active[c]] = "apply" /\ target[active[c]] = c
         /\ at'[k] \in {"looking up", "posting"}
         /\ using'[k] = active[c] /\ config'[k] = c /\ aim'[k] = t
         /\ events'[k] = <<"requested">>
         /\ Permits(active[c], t)
<1>1. active[c] \in Requests /\ active[c] # None
  BY ConstantsAssumption DEF Accept, Permits, CommandInv, Inv, TypeOK, RequestOrNone
<1>2. InService(active[c])
  BY <1>1 DEF InService, Installed
<1>3. op[active[c]] = "apply" /\ target[active[c]] = c
  BY <1>1, <1>2 DEF CommandInv, Inv, SessionDiscipline, ActiveIsLive
<1>4. events[k] = <<>>
  BY DEF CommandInv, CommandDiscipline, Relies, Accept, Received
<1> QED
  BY <1>1, <1>2, <1>3, <1>4, Recorded
  DEF Accept, Reach, Record, CommandInv, CommandTypeOK

\* A step of a command touches no variable of the service.
LEMMA CommandStepPreserves ==
  ASSUME CommandInv, NEW k \in Commands, CommandStep(k), UNCHANGED vars
  PROVE  CommandInv'
<1>1. /\ active' = active /\ victim' = victim /\ doomed' = doomed
      /\ client' = client /\ op' = op /\ target' = target /\ allows' = allows
  BY DEF vars, requestVars, sessionVars, lockVars, CommandStep, Reject, Refuse, Accept, Lookup,
    Post, PostRefused, Fail, Succeed
<1>2. \A s : InService(s)' <=> InService(s)
  BY <1>1 DEF InService, Installed
<1>3. /\ at' = [at EXCEPT ![k] = at'[k]] /\ events' = [events EXCEPT ![k] = events'[k]]
      /\ config' = [config EXCEPT ![k] = config'[k]] /\ aim' = [aim EXCEPT ![k] = aim'[k]]
      /\ using' = [using EXCEPT ![k] = using'[k]]
  BY DEF CommandStep, Reject, Refuse, Accept, Lookup, Post, PostRefused, Fail, Succeed, Return,
    Reach, Record, locals, CommandInv, CommandTypeOK
<1>4. ASSUME NEW q \in Commands, q # k
      PROVE  Relies(q)'
  <2>1. /\ at'[q] = at[q] /\ events'[q] = events[q] /\ config'[q] = config[q]
        /\ aim'[q] = aim[q] /\ using'[q] = using[q]
    BY <1>3, <1>4 DEF CommandInv, CommandTypeOK
  <2>2. Relies(q)
    BY DEF CommandInv, CommandDiscipline
  <2> QED
    BY <1>1, <1>2, <2>1, <2>2 DEF Relies, Busy, Permits
<1>5. SUFFICES ASSUME Relies(k)
               PROVE  /\ at'[k] \in {"looking up", "found", "posting", "over"}
                      /\ config'[k] \in Configs \cup {None} /\ aim'[k] \in Targets \cup {None}
                      /\ using'[k] \in RequestOrNone
                      /\ events'[k] \in {<<>>, <<"requested">>, <<"requested", "failed">>,
                                         <<"requested", "succeeded">>}
                      /\ Relies(k)'
  <2>1. Relies(k)
    BY DEF CommandInv, CommandDiscipline
  <2> SUFFICES ASSUME /\ at'[k] \in {"looking up", "found", "posting", "over"}
                      /\ config'[k] \in Configs \cup {None} /\ aim'[k] \in Targets \cup {None}
                      /\ using'[k] \in RequestOrNone
                      /\ events'[k] \in {<<>>, <<"requested">>, <<"requested", "failed">>,
                                         <<"requested", "succeeded">>}
                      /\ Relies(k)'
               PROVE  CommandInv'
    BY <2>1
  <2>2. CommandTypeOK'
    BY <1>1, <1>3 DEF CommandInv, CommandTypeOK
  <2>3. CommandDiscipline'
    BY <1>4 DEF CommandDiscipline
  <2> QED
    BY <1>1, <2>2, <2>3, CommandKeeps
<1>6. /\ at[k] \in {"unsent", "looking up", "found", "posting", "over"}
      /\ config[k] \in Configs \cup {None} /\ aim[k] \in Targets \cup {None}
      /\ using[k] \in RequestOrNone
      /\ events[k] \in {<<>>, <<"requested">>, <<"requested", "failed">>,
                        <<"requested", "succeeded">>}
  BY DEF CommandInv, CommandTypeOK
<1>7. CASE \E c \in Configs, t \in Targets : Accept(k, c, t)
  <2>1. PICK c \in Configs, t \in Targets : Accept(k, c, t)
    BY <1>7
  <2>2. /\ active[c] \in Requests /\ InService(active[c])
        /\ op[active[c]] = "apply" /\ target[active[c]] = c
        /\ at'[k] \in {"looking up", "posting"}
        /\ using'[k] = active[c] /\ config'[k] = c /\ aim'[k] = t
        /\ events'[k] = <<"requested">>
        /\ Permits(active[c], t)
    BY <2>1, Accepted
  <2>3. Permits(using[k], aim[k])'
    BY <1>1, <2>2 DEF Permits
  <2>4. InService(using[k])'
    BY <1>2, <2>2
  <2>5. Relies(k)'
    BY <1>1, <2>2, <2>3, <2>4 DEF Relies, Busy
  <2> QED
    BY <2>2, <2>5 DEF RequestOrNone
<1>8. CASE Lookup(k) \/ Post(k)
  <2>1. /\ at'[k] \in {"found", "posting"} /\ Busy(k)
        /\ config' = config /\ aim' = aim /\ using' = using /\ events' = events
    BY <1>8 DEF Lookup, Post, Reach, locals, Busy, CommandInv, CommandTypeOK
  <2> QED
    BY <1>1, <1>2, <1>5, <1>6, <2>1 DEF Relies, Busy, Permits
<1>9. CASE Reject(k) \/ (\E c \in Configs : Refuse(k, c)) \/ PostRefused(k) \/ Fail(k) \/ Succeed(k)
  <2>1. at'[k] = "over" /\ config'[k] = None /\ aim'[k] = None /\ using'[k] = None
    BY <1>9 DEF Reject, Refuse, PostRefused, Fail, Succeed, Return, Reach, CommandInv,
      CommandTypeOK
  <2>2. events'[k] \in {<<>>, <<"requested">>, <<"requested", "failed">>,
                        <<"requested", "succeeded">>}
    <3>1. CASE Fail(k) \/ Succeed(k)
      <4>1. events[k] = <<"requested">>
        BY <1>5, <3>1 DEF Fail, Succeed, Relies, Busy
      <4> QED
        BY <3>1, <4>1, Recorded DEF Fail, Succeed, Record, CommandInv, CommandTypeOK
    <3>2. CASE Reject(k) \/ (\E c \in Configs : Refuse(k, c)) \/ PostRefused(k)
      BY <1>6, <3>2 DEF Reject, Refuse, PostRefused, CommandInv, CommandTypeOK
    <3> QED
      BY <1>9, <3>1, <3>2
  <2> QED
    BY <2>1, <2>2 DEF Relies, Busy, RequestOrNone
<1> QED
  BY <1>7, <1>8, <1>9 DEF CommandStep

\* Steps of the service, of commands, and stuttering.
LEMMA CommandNextPreserves == CommandInv /\ [CommandNext]_allVars => CommandInv'
BY ServiceStepPreserves, CommandStepPreserves DEF CommandNext

-----------------------------------------------------------------------------
(* The theorems *)

\* The induction, over the steps of the service and of all commands.
THEOREM CommandInvariance == CommandSpec => []CommandInv
BY CommandInitEstablishes, CommandNextPreserves, PTL DEF CommandSpec

\* The types of commands.
THEOREM CommandTypeCorrect == CommandSpec => []CommandTypeOK
<1>1. CommandInv => CommandTypeOK
  BY DEF CommandInv
<1> QED
  BY <1>1, CommandInvariance, PTL

\* A session in service whose client is open has nothing else installed beside it.
LEMMA NothingBeside ==
  ASSUME CommandInv, NEW s \in Requests, InService(s)
  PROVE  active[target[s]] \in {s, None}
BY DEF CommandInv, VacantBehind, Inv, ActiveIsLive, InService, Installed

\* Only Accept and Post send anything.
LEMMA PostsAreDecided ==
  ASSUME CommandInv, [CommandNext]_allVars, NEW k \in Commands, Posts(k)
  PROVE  /\ Permits(using'[k], aim'[k])
         /\ active[config'[k]] \in {using'[k], None}
         /\ InService(using'[k])
<1>1. CommandStep(k)
  <2>1. CASE UNCHANGED allVars \/ ServiceStep
    BY <2>1 DEF allVars, ServiceStep, commandVars, Posts
  <2>2. CASE \E q \in Commands : CommandStep(q) /\ UNCHANGED vars
    <3>1. PICK q \in Commands : CommandStep(q)
      BY <2>2
    <3>2. at' = [at EXCEPT ![q] = at'[q]]
      BY <3>1 DEF CommandStep, Reject, Refuse, Accept, Lookup, Post, PostRefused, Fail, Succeed,
        Return, Reach, CommandInv, CommandTypeOK
    <3>3. q = k
      BY <3>2 DEF Posts, CommandInv, CommandTypeOK
    <3> QED
      BY <3>1, <3>3
  <2> QED
    BY <2>1, <2>2 DEF CommandNext
<1>2. CASE \E c \in Configs, t \in Targets : Accept(k, c, t)
  <2>1. PICK c \in Configs, t \in Targets : Accept(k, c, t)
    BY <1>2
  <2>2. /\ active[c] \in Requests /\ InService(active[c])
        /\ op[active[c]] = "apply" /\ target[active[c]] = c
        /\ at'[k] \in {"looking up", "posting"}
        /\ using'[k] = active[c] /\ config'[k] = c /\ aim'[k] = t
        /\ events'[k] = <<"requested">>
        /\ Permits(active[c], t)
    BY <2>1, Accepted
  <2> QED
    BY <2>2
<1>3. CASE Post(k)
  <2>1. using' = using /\ config' = config /\ aim' = aim /\ client[using[k]] = "open" /\ Busy(k)
    BY <1>3 DEF Post, locals, Busy
  <2>2. Relies(k)
    BY DEF CommandInv, CommandDiscipline
  <2>3. using[k] \in Requests /\ InService(using[k]) /\ target[using[k]] = config[k]
    BY <2>1, <2>2 DEF Relies
  <2> QED
    BY <2>1, <2>2, <2>3, NothingBeside DEF Relies
<1>4. at'[k] = "posting"
  BY DEF Posts
<1>5. ~(\/ Reject(k) \/ (\E c \in Configs : Refuse(k, c)) \/ Lookup(k) \/ PostRefused(k)
        \/ Fail(k) \/ Succeed(k))
  BY <1>4 DEF Reject, Refuse, Lookup, PostRefused, Fail, Succeed, Return, Reach, CommandInv,
    CommandTypeOK
<1> QED
  BY <1>1, <1>2, <1>3, <1>5 DEF CommandStep

\* docs/contract.md: commands "accept only targets explicitly allow-listed in the
\* active firewall configuration".  However many commands, applies and removals
\* are under way, a command is sent only for a session that permits it, that is
\* still in service, and whose place no other has taken.
THEOREM CommandsAreDecided == CommandSpec => ActiveConfigDecides
<1>1. CommandInv /\ [CommandNext]_allVars =>
        [\A k \in Commands : Posts(k) =>
            /\ Permits(using'[k], aim'[k])
            /\ active[config'[k]] \in {using'[k], None}
            /\ InService(using'[k])]_allVars
  BY PostsAreDecided
<1> QED
  BY <1>1, CommandInvariance, PTL DEF CommandSpec, ActiveConfigDecides

\* A command that ends with no more than its request on record was refused by a
\* client that had been closed under it.
LEMMA OutcomesAreRecorded ==
  ASSUME CommandInv, [CommandNext]_allVars, NEW k \in Commands,
         at'[k] = "over", events'[k] = <<"requested">>, at[k] # "over"
  PROVE  client[using[k]] = "closed"
<1>1. CommandStep(k)
  <2>1. CASE UNCHANGED allVars \/ ServiceStep
    BY <2>1 DEF allVars, ServiceStep, commandVars
  <2>2. CASE \E q \in Commands : CommandStep(q) /\ UNCHANGED vars
    <3>1. PICK q \in Commands : CommandStep(q)
      BY <2>2
    <3>2. at' = [at EXCEPT ![q] = at'[q]]
      BY <3>1 DEF CommandStep, Reject, Refuse, Accept, Lookup, Post, PostRefused, Fail, Succeed,
        Return, Reach, CommandInv, CommandTypeOK
    <3>3. q = k
      BY <3>2 DEF CommandInv, CommandTypeOK
    <3> QED
      BY <3>1, <3>3
  <2> QED
    BY <2>1, <2>2 DEF CommandNext
<1>2. Relies(k)
  BY DEF CommandInv, CommandDiscipline
<1>3. ~Reject(k)
  BY <1>2, Recorded DEF Reject, Received, Relies
<1>4. ~\E c \in Configs : Refuse(k, c)
  BY Recorded DEF Refuse, CommandInv, CommandTypeOK
<1>5. ~(\E c \in Configs, t \in Targets : Accept(k, c, t)) /\ ~Lookup(k) /\ ~Post(k)
  BY DEF Accept, Lookup, Post, Reach, CommandInv, CommandTypeOK
<1>6. ~(Fail(k) \/ Succeed(k))
  <2> SUFFICES ASSUME Fail(k) \/ Succeed(k) PROVE FALSE
    OBVIOUS
  <2>1. events[k] = <<"requested">>
    BY <1>2 DEF Fail, Succeed, Relies, Busy
  <2>2. events'[k] \in {<<"requested", "failed">>, <<"requested", "succeeded">>}
    BY <2>1, Recorded DEF Fail, Succeed, Record, CommandInv, CommandTypeOK
  <2> QED
    BY <2>2, Recorded
<1>7. PostRefused(k)
  BY <1>1, <1>3, <1>4, <1>5, <1>6 DEF CommandStep
<1> QED
  BY <1>7 DEF PostRefused

\* runtime.command events: whatever is recorded as requested has its outcome
\* recorded, unless its session was taken down between two requests.
THEOREM RequestsHaveOutcomes == CommandSpec => OutcomeRecorded
<1>1. CommandInv /\ [CommandNext]_allVars =>
        [\A k \in Commands :
            (at'[k] = "over" /\ events'[k] = <<"requested">>) =>
                at[k] = "over" \/ client[using[k]] = "closed"]_allVars
  BY OutcomesAreRecorded
<1> QED
  BY <1>1, CommandInvariance, PTL DEF CommandSpec, OutcomeRecorded
=============================================================================
