------------------------ MODULE RuntimeServiceProofs ------------------------
(***************************************************************************)
(* What RuntimeService promises, for any number of requests and            *)
(* configurations, overlapping or not, with snapshots that the projection  *)
(* rejects or without.                                                     *)
(*                                                                         *)
(* Inv is an inductive invariant, and the safety properties follow.  There *)
(* is one lemma per action.  In each, one step per conjunct of Inv cites   *)
(* the conjuncts it needs of the state before; the lock enters where a     *)
(* session is installed, evicted or closed.                                *)
(*                                                                         *)
(* On top of it, what the API lists is what polls, where changes of one    *)
(* configuration do not overlap; and the service implements                *)
(* SessionLifecycle, from which exclusiveness follows.                     *)
(***************************************************************************)
EXTENDS RuntimeService, TLAPS

\* Nothing has happened yet, so the invariant holds.
LEMMA InitEstablishes == Init => Inv
BY ConstantsAssumption
   DEF Init, Inv, TypeOK, RequestDiscipline, LockDiscipline, SessionDiscipline, ActiveIsLive,
       NoOrphanPoller, NoLeakedClient, InService, Installed, InFlight, Final, Stopping,
       Running, RequestOrNone, StateShown

-----------------------------------------------------------------------------
(* apply_config and configure: each step keeps the invariant *)

\* The new session is nobody's yet: it has an open client and is in flight.
LEMMA ApplyStartPreserves ==
  ASSUME Inv, NEW r \in Requests, NEW c \in Configs, ApplyStart(r, c)
  PROVE  Inv'
<1>1. TypeOK'
  BY ConstantsAssumption DEF Inv, ApplyStart, TypeOK, Admitted, Begin, Goto, lockVars,
    Final, RequestOrNone, Running, StateShown, Stopping, Changing, InFlight
<1>2. RequestDiscipline'
  BY ConstantsAssumption DEF Inv, ApplyStart, RequestDiscipline, TypeOK, Admitted, Begin,
    Goto, lockVars, Stopping, Final, RequestOrNone, Running, StateShown, Changing, InFlight
<1>3. LockDiscipline'
  BY ConstantsAssumption DEF Inv, ApplyStart, LockDiscipline, TypeOK, SessionDiscipline,
    Admitted, Begin, Goto, lockVars, Running, Stopping, Final, RequestOrNone, StateShown,
    InFlight, InService, Installed, Changing
<1>4. SessionDiscipline'
  <2>1. ~InService(r)
    BY DEF ApplyStart, Begin, Inv, SessionDiscipline, Final
  <2>2. \A s \in Requests : InService(s)' <=> InService(s)
    BY DEF ApplyStart, InService, Installed, lockVars
  <2>3. client[r] = "none" /\ poll[r] = "none" /\ r \notin cancelled
    BY <2>1 DEF ApplyStart, Begin, Inv, RequestDiscipline, SessionDiscipline, InService
  <2> QED
    BY <2>1, <2>2, <2>3
    DEF ApplyStart, Begin, Goto, Inv, TypeOK, SessionDiscipline, Installed, InFlight, Final,
        lockVars
<1>5. ActiveIsLive'
  BY ConstantsAssumption DEF Inv, ApplyStart, ActiveIsLive, TypeOK, SessionDiscipline,
    Admitted, Begin, Goto, lockVars, Final, RequestOrNone, Running, StateShown, Stopping,
    InFlight, InService, Installed, Changing
<1>6. NoOrphanPoller'
  BY ConstantsAssumption DEF Inv, ApplyStart, NoOrphanPoller, Admitted, Begin, Goto,
    lockVars, Installed, Running, Changing, InFlight, Final
<1>7. NoLeakedClient'
  BY ConstantsAssumption DEF Inv, ApplyStart, NoLeakedClient, TypeOK, Admitted, Begin, Goto,
    lockVars, InFlight, Installed, Final, RequestOrNone, Running, StateShown, Stopping,
    Changing
<1> QED
  BY <1>1, <1>2, <1>3, <1>4, <1>5, <1>6, <1>7 DEF Inv

\* No session comes into being.
LEMMA ApplyRejectedPreserves ==
  ASSUME Inv, NEW r \in Requests, NEW c \in Configs, ApplyRejected(r, c)
  PROVE  Inv'
  BY ConstantsAssumption DEF Inv, ApplyRejected, TypeOK, RequestDiscipline, LockDiscipline,
    SessionDiscipline, ActiveIsLive, NoOrphanPoller, NoLeakedClient, Admitted, Begin, Goto,
    lockVars, registryVars, sessionVars, Final, RequestOrNone, Running, StateShown,
    Stopping, InFlight, InService, Installed, Changing

\* The request joins the queue of the lock and nothing else changes.
LEMMA ApplyReadOkPreserves ==
  ASSUME Inv, NEW r \in Requests, ApplyReadOk(r)
  PROVE  Inv'
<1>1. TypeOK'
  BY ConstantsAssumption DEF Inv, ApplyReadOk, TypeOK, Enqueue, Goto, registryVars,
    sessionVars, Final, RequestOrNone, Running, StateShown, Stopping
<1>2. RequestDiscipline'
  BY ConstantsAssumption DEF Inv, ApplyReadOk, RequestDiscipline, Enqueue, Goto,
    registryVars, sessionVars, Stopping
<1>3. LockDiscipline'
  BY ConstantsAssumption DEF Inv, ApplyReadOk, LockDiscipline, Enqueue, Goto, registryVars,
    sessionVars, Running, Stopping
<1>4. SessionDiscipline'
  BY ConstantsAssumption DEF Inv, ApplyReadOk, SessionDiscipline, Enqueue, Goto,
    registryVars, sessionVars, Final, InFlight, InService, Installed
<1>5. ActiveIsLive'
  BY ConstantsAssumption DEF Inv, ApplyReadOk, ActiveIsLive, Enqueue, Goto, registryVars,
    sessionVars
<1>6. NoOrphanPoller'
  BY ConstantsAssumption DEF Inv, ApplyReadOk, NoOrphanPoller, Enqueue, Goto, registryVars,
    sessionVars, Installed, Running
<1>7. NoLeakedClient'
  BY ConstantsAssumption DEF Inv, ApplyReadOk, NoLeakedClient, Enqueue, Goto, registryVars,
    sessionVars, InFlight, Installed, Final
<1> QED
  BY <1>1, <1>2, <1>3, <1>4, <1>5, <1>6, <1>7 DEF Inv

\* The new client is closed before the request can fail.
LEMMA ApplyReadFailsPreserves ==
  ASSUME Inv, NEW r \in Requests, ApplyReadFails(r)
  PROVE  Inv'
<1>1. TypeOK'
  BY ConstantsAssumption DEF Inv, ApplyReadFails, TypeOK, Goto, lockVars, registryVars,
    Final, RequestOrNone, Running, StateShown, Stopping
<1>2. RequestDiscipline'
  BY ConstantsAssumption DEF Inv, ApplyReadFails, RequestDiscipline, Goto, lockVars,
    registryVars, Stopping
<1>3. LockDiscipline'
  BY ConstantsAssumption DEF Inv, ApplyReadFails, LockDiscipline, TypeOK, SessionDiscipline,
    Goto, lockVars, registryVars, Running, Stopping, Final, RequestOrNone, StateShown,
    InFlight, InService, Installed
<1>4. SessionDiscipline'
  BY ConstantsAssumption DEF Inv, ApplyReadFails, SessionDiscipline, TypeOK, Goto, lockVars,
    registryVars, Final, InFlight, InService, Installed, RequestOrNone, Running, StateShown,
    Stopping
<1>5. ActiveIsLive'
  BY ConstantsAssumption DEF Inv, ApplyReadFails, ActiveIsLive, TypeOK, SessionDiscipline,
    Goto, lockVars, registryVars, Final, RequestOrNone, Running, StateShown, Stopping,
    InFlight, InService, Installed
<1>6. NoOrphanPoller'
  BY ConstantsAssumption DEF Inv, ApplyReadFails, NoOrphanPoller, TypeOK, SessionDiscipline,
    Goto, lockVars, registryVars, Installed, Running, Final, RequestOrNone, StateShown,
    Stopping, InFlight, InService
<1>7. NoLeakedClient'
  BY ConstantsAssumption DEF Inv, ApplyReadFails, NoLeakedClient, Goto, lockVars,
    registryVars, InFlight, Installed, Final
<1> QED
  BY <1>1, <1>2, <1>3, <1>4, <1>5, <1>6, <1>7 DEF Inv

\* The entry is rolled back; no session is concerned.
LEMMA ApplyDiscardedPreserves ==
  ASSUME Inv, NEW r \in Requests, ApplyDiscarded(r)
  PROVE  Inv'
<1>1. TypeOK'
  BY ConstantsAssumption DEF Inv, ApplyDiscarded, TypeOK, Goto, Rollback, lockVars,
    sessionVars, Final, RequestOrNone, Running, StateShown, Stopping
<1>2. RequestDiscipline'
  BY ConstantsAssumption DEF Inv, ApplyDiscarded, RequestDiscipline, Goto, Rollback,
    lockVars, sessionVars, Stopping
<1>3. LockDiscipline'
  BY ConstantsAssumption DEF Inv, ApplyDiscarded, LockDiscipline, Goto, Rollback, lockVars,
    sessionVars, Running, Stopping
<1>4. SessionDiscipline'
  BY ConstantsAssumption DEF Inv, ApplyDiscarded, SessionDiscipline, Goto, Rollback,
    lockVars, sessionVars, Final, InFlight, InService, Installed
<1>5. ActiveIsLive'
  BY ConstantsAssumption DEF Inv, ApplyDiscarded, ActiveIsLive, Goto, Rollback, lockVars,
    sessionVars
<1>6. NoOrphanPoller'
  BY ConstantsAssumption DEF Inv, ApplyDiscarded, NoOrphanPoller, Goto, Rollback, lockVars,
    sessionVars, Installed, Running
<1>7. NoLeakedClient'
  BY ConstantsAssumption DEF Inv, ApplyDiscarded, NoLeakedClient, TypeOK, SessionDiscipline,
    Goto, Rollback, lockVars, sessionVars, InFlight, Installed, Final, RequestOrNone,
    Running, StateShown, Stopping, InService
<1> QED
  BY <1>1, <1>2, <1>3, <1>4, <1>5, <1>6, <1>7 DEF Inv

\* The session that is detached becomes the victim of the holder of the lock.
LEMMA EvictPreserves ==
  ASSUME Inv, NEW r \in Requests, Evict(r)
  PROVE  Inv'
<1>1. TypeOK'
  BY ConstantsAssumption DEF Inv, Evict, TypeOK, RequestDiscipline, Goto, StopBegin, Turn,
    registryVars, Final, RequestOrNone, Running, StateShown, Stopping
<1>2. RequestDiscipline'
  BY ConstantsAssumption DEF Inv, Evict, RequestDiscipline, Goto, StopBegin, Turn,
    registryVars, Stopping
<1>3. LockDiscipline'
  BY ConstantsAssumption DEF Inv, Evict, LockDiscipline, TypeOK, RequestDiscipline,
    ActiveIsLive, Goto, StopBegin, Turn, registryVars, Running, Stopping, Final,
    RequestOrNone, StateShown
<1>4. SessionDiscipline'
  BY ConstantsAssumption DEF Inv, Evict, SessionDiscipline, TypeOK, RequestDiscipline,
    LockDiscipline, ActiveIsLive, NoOrphanPoller, Goto, StopBegin, Turn, registryVars,
    Final, InFlight, InService, Installed, RequestOrNone, Running, StateShown, Stopping
<1>5. ActiveIsLive'
  BY ConstantsAssumption DEF Inv, Evict, ActiveIsLive, TypeOK, RequestDiscipline, Goto,
    StopBegin, Turn, registryVars, Final, RequestOrNone, Running, StateShown, Stopping
<1>6. NoOrphanPoller'
  BY ConstantsAssumption DEF Inv, Evict, NoOrphanPoller, TypeOK, LockDiscipline, Goto,
    StopBegin, Turn, registryVars, Installed, Running, Final, RequestOrNone, StateShown,
    Stopping
<1>7. NoLeakedClient'
  BY ConstantsAssumption DEF Inv, Evict, NoLeakedClient, TypeOK, LockDiscipline, Goto,
    StopBegin, Turn, registryVars, InFlight, Installed, Final, RequestOrNone, Running,
    StateShown, Stopping
<1> QED
  BY <1>1, <1>2, <1>3, <1>4, <1>5, <1>6, <1>7 DEF Inv

\* The victim's client is closed when its poller has ended, and not before.
LEMMA JoinPollerPreserves ==
  ASSUME Inv, NEW r \in Requests, JoinPoller(r)
  PROVE  Inv'
<1>1. TypeOK'
  BY ConstantsAssumption DEF Inv, JoinPoller, TypeOK, Goto, lockVars, registryVars, Final,
    RequestOrNone, Running, StateShown, Stopping
<1>2. RequestDiscipline'
  BY ConstantsAssumption DEF Inv, JoinPoller, RequestDiscipline, Goto, lockVars,
    registryVars, Stopping
<1>3. LockDiscipline'
  BY ConstantsAssumption DEF Inv, JoinPoller, LockDiscipline, TypeOK, Goto, lockVars,
    registryVars, Running, Stopping, Final, RequestOrNone, StateShown
<1>4. SessionDiscipline'
  BY ConstantsAssumption DEF Inv, JoinPoller, SessionDiscipline, Goto, lockVars,
    registryVars, Final, InFlight, InService, Installed
<1>5. ActiveIsLive'
  BY ConstantsAssumption DEF Inv, JoinPoller, ActiveIsLive, TypeOK, SessionDiscipline, Goto,
    lockVars, registryVars, Final, RequestOrNone, Running, StateShown, Stopping, InFlight,
    InService, Installed
<1>6. NoOrphanPoller'
  BY ConstantsAssumption DEF Inv, JoinPoller, NoOrphanPoller, Goto, lockVars, registryVars,
    Installed, Running
<1>7. NoLeakedClient'
  BY ConstantsAssumption DEF Inv, JoinPoller, NoLeakedClient, Goto, lockVars, registryVars,
    InFlight, Installed, Final
<1> QED
  BY <1>1, <1>2, <1>3, <1>4, <1>5, <1>6, <1>7 DEF Inv

\* The configuration was vacant, so no session is lost; the new one has an
\* open client and a fresh polling task.
LEMMA InstallPreserves ==
  ASSUME Inv, NEW r \in Requests, Install(r)
  PROVE  Inv'
<1>1. TypeOK'
  BY ConstantsAssumption DEF Inv, Install, TypeOK, RequestDiscipline, LockDiscipline,
    SessionDiscipline, Goto, Release, Show, Vacant, Final, RequestOrNone, Running,
    StateShown, Stopping, InFlight, InService, Installed, Turn
<1>2. RequestDiscipline'
  BY ConstantsAssumption DEF Inv, Install, RequestDiscipline, Goto, Release, Show, Vacant,
    Stopping, Turn
<1>3. LockDiscipline'
  BY ConstantsAssumption DEF Inv, Install, LockDiscipline, TypeOK, Goto, Release, Show,
    Vacant, Running, Stopping, Final, RequestOrNone, StateShown, Turn
<1>4. SessionDiscipline'
  BY ConstantsAssumption DEF Inv, Install, SessionDiscipline, TypeOK, LockDiscipline, Goto,
    Release, Show, Vacant, Final, InFlight, InService, Installed, RequestOrNone, Running,
    StateShown, Stopping, Turn
<1>5. ActiveIsLive'
  BY ConstantsAssumption DEF Inv, Install, ActiveIsLive, TypeOK, SessionDiscipline, Goto,
    Release, Show, Vacant, Final, RequestOrNone, Running, StateShown, Stopping, InFlight,
    InService, Installed, Turn
<1>6. NoOrphanPoller'
  <2>1. /\ active' = [active EXCEPT ![target[r]] = r]
        /\ target[r] \in Configs
        /\ r \in Installed'
    BY ConstantsAssumption
    DEF Install, Installed, Inv, TypeOK, RequestDiscipline, Vacant, Turn
  <2>2. client'[r] = "open"
    <3>1. op[r] = "apply" /\ pc[r] \in {"locking", "closing"}
      BY DEF Install, Vacant, Turn
    <3>2. client[r] = "open"
      BY <3>1 DEF Inv, SessionDiscipline, InFlight, Final
    <3> QED
      BY <3>2 DEF Install
  <2>3. active[target[r]] = None /\ doomed = {}
    BY DEF Install, Inv, LockDiscipline, Vacant, Turn, Stopping
  <2>4. Installed \subseteq Installed'
    BY <2>1, <2>3 DEF Installed, Inv, TypeOK
  <2>5. victim = None \/ poll[victim] \notin Running
    BY DEF Install, Inv, LockDiscipline, Vacant, Turn, Stopping
  <2> SUFFICES ASSUME NEW p \in Requests, poll'[p] \in Running
               PROVE  p \in Installed' /\ client'[p] = "open"
    BY DEF NoOrphanPoller
  <2>6. CASE p = r
    BY <2>1, <2>2, <2>6
  <2>7. CASE p # r
    <3>1. poll[p] \in Running /\ client'[p] = client[p]
      BY <2>7 DEF Install, Inv, TypeOK
    <3> QED
      BY <3>1, <2>3, <2>4, <2>5, ConstantsAssumption DEF Inv, NoOrphanPoller
  <2> QED
    BY <2>6, <2>7
<1>7. NoLeakedClient'
  BY ConstantsAssumption DEF Inv, Install, NoLeakedClient, TypeOK, RequestDiscipline,
    LockDiscipline, SessionDiscipline, Goto, Release, Show, Vacant, InFlight, Installed,
    Final, RequestOrNone, Running, StateShown, Stopping, InService, Turn
<1> QED
  BY <1>1, <1>2, <1>3, <1>4, <1>5, <1>6, <1>7 DEF Inv

\* As Install, but without a polling task: the session is live and yet does
\* not poll.
LEMMA InstallFailsPreserves ==
  ASSUME Inv, NEW r \in Requests, InstallFails(r)
  PROVE  Inv'
<1>1. TypeOK'
  BY ConstantsAssumption DEF Inv, InstallFails, TypeOK, RequestDiscipline, LockDiscipline,
    SessionDiscipline, Goto, Release, Rollback, Vacant, Final, RequestOrNone, Running,
    StateShown, Stopping, InFlight, InService, Installed, Turn
<1>2. RequestDiscipline'
  BY ConstantsAssumption DEF Inv, InstallFails, RequestDiscipline, Goto, Release, Rollback,
    Vacant, Stopping, Turn
<1>3. LockDiscipline'
  BY ConstantsAssumption DEF Inv, InstallFails, LockDiscipline, TypeOK, Goto, Release,
    Rollback, Vacant, Running, Stopping, Final, RequestOrNone, StateShown, Turn
<1>4. SessionDiscipline'
  BY ConstantsAssumption DEF Inv, InstallFails, SessionDiscipline, TypeOK, LockDiscipline,
    Goto, Release, Rollback, Vacant, Final, InFlight, InService, Installed, RequestOrNone,
    Running, StateShown, Stopping, Turn
<1>5. ActiveIsLive'
  BY ConstantsAssumption DEF Inv, InstallFails, ActiveIsLive, TypeOK, SessionDiscipline,
    Goto, Release, Rollback, Vacant, Final, RequestOrNone, Running, StateShown, Stopping,
    InFlight, InService, Installed, Turn
<1>6. NoOrphanPoller'
  BY ConstantsAssumption DEF Inv, InstallFails, NoOrphanPoller, TypeOK, LockDiscipline,
    Goto, Release, Rollback, Vacant, Installed, Running, Final, RequestOrNone, StateShown,
    Stopping, Turn
<1>7. NoLeakedClient'
  BY ConstantsAssumption DEF Inv, InstallFails, NoLeakedClient, TypeOK, RequestDiscipline,
    LockDiscipline, SessionDiscipline, Goto, Release, Rollback, Vacant, InFlight, Installed,
    Final, RequestOrNone, Running, StateShown, Stopping, InService, Turn
<1> QED
  BY <1>1, <1>2, <1>3, <1>4, <1>5, <1>6, <1>7 DEF Inv

-----------------------------------------------------------------------------
(* remove and close: each step keeps the invariant *)

\* The request joins the queue of the lock.
LEMMA RemoveStartPreserves ==
  ASSUME Inv, NEW r \in Requests, NEW c \in Configs, RemoveStart(r, c)
  PROVE  Inv'
<1>1. TypeOK'
  BY ConstantsAssumption DEF Inv, RemoveStart, TypeOK, Admitted, Begin, Enqueue, Goto,
    registryVars, sessionVars, Final, RequestOrNone, Running, StateShown, Stopping,
    Changing, InFlight
<1>2. RequestDiscipline'
  BY ConstantsAssumption DEF Inv, RemoveStart, RequestDiscipline, TypeOK, Admitted, Begin,
    Enqueue, Goto, registryVars, sessionVars, Stopping, Final, RequestOrNone, Running,
    StateShown, Changing, InFlight
<1>3. LockDiscipline'
  BY ConstantsAssumption DEF Inv, RemoveStart, LockDiscipline, Admitted, Begin, Enqueue,
    Goto, registryVars, sessionVars, Running, Stopping, Changing, InFlight, Final
<1>4. SessionDiscipline'
  BY ConstantsAssumption DEF Inv, RemoveStart, SessionDiscipline, TypeOK, RequestDiscipline,
    Admitted, Begin, Enqueue, Goto, registryVars, sessionVars, Final, InFlight, InService,
    Installed, RequestOrNone, Running, StateShown, Stopping, Changing
<1>5. ActiveIsLive'
  <2>1. op[r] = "none"
    BY DEF RemoveStart, Begin, Inv, RequestDiscipline
  <2>2. r \notin Installed
    BY <2>1 DEF Inv, SessionDiscipline, InService
  <2> QED
    BY <2>2, ConstantsAssumption
    DEF RemoveStart, Begin, Inv, TypeOK, ActiveIsLive, Installed, sessionVars, RequestOrNone
<1>6. NoOrphanPoller'
  BY ConstantsAssumption DEF Inv, RemoveStart, NoOrphanPoller, Admitted, Begin, Enqueue,
    Goto, registryVars, sessionVars, Installed, Running, Changing, InFlight, Final
<1>7. NoLeakedClient'
  BY ConstantsAssumption DEF Inv, RemoveStart, NoLeakedClient, Admitted, Begin, Enqueue,
    Goto, registryVars, sessionVars, InFlight, Installed, Changing, Final
<1> QED
  BY <1>1, <1>2, <1>3, <1>4, <1>5, <1>6, <1>7 DEF Inv

\* The victim, if there was one, is closed and forgotten.
LEMMA RemoveFinishPreserves ==
  ASSUME Inv, NEW r \in Requests, RemoveFinish(r)
  PROVE  Inv'
<1>1. TypeOK'
  BY ConstantsAssumption DEF Inv, RemoveFinish, TypeOK, RequestDiscipline, LockDiscipline,
    SessionDiscipline, Goto, Release, Vacant, sessionVars, Final, RequestOrNone, Running,
    StateShown, Stopping, InFlight, InService, Installed, Turn
<1>2. RequestDiscipline'
  BY ConstantsAssumption DEF Inv, RemoveFinish, RequestDiscipline, Goto, Release, Vacant,
    sessionVars, Stopping, Turn
<1>3. LockDiscipline'
  BY ConstantsAssumption DEF Inv, RemoveFinish, LockDiscipline, TypeOK, Goto, Release,
    Vacant, sessionVars, Running, Stopping, Final, RequestOrNone, StateShown, Turn
<1>4. SessionDiscipline'
  BY ConstantsAssumption DEF Inv, RemoveFinish, SessionDiscipline, TypeOK, LockDiscipline,
    Goto, Release, Vacant, sessionVars, Final, InFlight, InService, Installed,
    RequestOrNone, Running, StateShown, Stopping, Turn
<1>5. ActiveIsLive'
  BY ConstantsAssumption DEF Inv, RemoveFinish, ActiveIsLive, Goto, Release, Vacant,
    sessionVars, Turn
<1>6. NoOrphanPoller'
  BY ConstantsAssumption DEF Inv, RemoveFinish, NoOrphanPoller, TypeOK, LockDiscipline,
    Goto, Release, Vacant, sessionVars, Installed, Running, Final, RequestOrNone,
    StateShown, Stopping, Turn
<1>7. NoLeakedClient'
  BY ConstantsAssumption DEF Inv, RemoveFinish, NoLeakedClient, TypeOK, LockDiscipline,
    SessionDiscipline, Goto, Release, Vacant, sessionVars, InFlight, Installed, Final,
    RequestOrNone, Running, StateShown, Stopping, InService, Turn
<1> QED
  BY <1>1, <1>2, <1>3, <1>4, <1>5, <1>6, <1>7 DEF Inv

\* The request joins the queue of the lock.
LEMMA CloseStartPreserves ==
  ASSUME Inv, NEW r \in Requests, CloseStart(r)
  PROVE  Inv'
<1>1. TypeOK'
  BY ConstantsAssumption DEF Inv, CloseStart, TypeOK, Begin, Enqueue, Goto, InFlight,
    registryVars, sessionVars, Final, RequestOrNone, Running, StateShown, Stopping
<1>2. RequestDiscipline'
  BY ConstantsAssumption DEF Inv, CloseStart, RequestDiscipline, TypeOK, Begin, Enqueue,
    Goto, InFlight, registryVars, sessionVars, Stopping, Final, RequestOrNone, Running,
    StateShown
<1>3. LockDiscipline'
  BY ConstantsAssumption DEF Inv, CloseStart, LockDiscipline, Begin, Enqueue, Goto,
    InFlight, registryVars, sessionVars, Running, Stopping, Final
<1>4. SessionDiscipline'
  BY ConstantsAssumption DEF Inv, CloseStart, SessionDiscipline, TypeOK, RequestDiscipline,
    Begin, Enqueue, Goto, InFlight, registryVars, sessionVars, Final, InService, Installed,
    RequestOrNone, Running, StateShown, Stopping
<1>5. ActiveIsLive'
  <2>1. op[r] = "none"
    BY DEF CloseStart, Begin, Inv, RequestDiscipline
  <2>2. r \notin Installed
    BY <2>1 DEF Inv, SessionDiscipline, InService
  <2> QED
    BY <2>2, ConstantsAssumption
    DEF CloseStart, Begin, Inv, TypeOK, ActiveIsLive, Installed, sessionVars, RequestOrNone
<1>6. NoOrphanPoller'
  BY ConstantsAssumption DEF Inv, CloseStart, NoOrphanPoller, Begin, Enqueue, Goto,
    InFlight, registryVars, sessionVars, Installed, Running, Final
<1>7. NoLeakedClient'
  BY ConstantsAssumption DEF Inv, CloseStart, NoLeakedClient, Begin, Enqueue, Goto,
    InFlight, registryVars, sessionVars, Installed, Final
<1> QED
  BY <1>1, <1>2, <1>3, <1>4, <1>5, <1>6, <1>7 DEF Inv

\* One installed session becomes the victim, the others are doomed.
LEMMA CloseDetachPreserves ==
  ASSUME Inv, NEW r \in Requests, CloseDetach(r)
  PROVE  Inv'
<1>1. TypeOK'
  BY ConstantsAssumption DEF Inv, CloseDetach, TypeOK, Goto, Installed, StopBegin, Turn,
    registryVars, Final, RequestOrNone, Running, StateShown, Stopping
<1>2. RequestDiscipline'
  BY ConstantsAssumption DEF Inv, CloseDetach, RequestDiscipline, Goto, Installed,
    StopBegin, Turn, registryVars, Stopping
<1>3. LockDiscipline'
  BY ConstantsAssumption DEF Inv, CloseDetach, LockDiscipline, TypeOK, SessionDiscipline,
    ActiveIsLive, Goto, Installed, StopBegin, Turn, registryVars, Running, Stopping, Final,
    RequestOrNone, StateShown, InFlight, InService
<1>4. SessionDiscipline'
  BY ConstantsAssumption DEF Inv, CloseDetach, SessionDiscipline, TypeOK, LockDiscipline,
    ActiveIsLive, Goto, Installed, StopBegin, Turn, registryVars, Final, InFlight,
    InService, RequestOrNone, Running, StateShown, Stopping
<1>5. ActiveIsLive'
  BY ConstantsAssumption DEF Inv, CloseDetach, ActiveIsLive, Goto, Installed, StopBegin,
    Turn, registryVars
<1>6. NoOrphanPoller'
  BY ConstantsAssumption DEF Inv, CloseDetach, NoOrphanPoller, TypeOK, LockDiscipline, Goto,
    Installed, StopBegin, Turn, registryVars, Running, Final, RequestOrNone, StateShown,
    Stopping
<1>7. NoLeakedClient'
  BY ConstantsAssumption DEF Inv, CloseDetach, NoLeakedClient, TypeOK, LockDiscipline, Goto,
    Installed, StopBegin, Turn, registryVars, InFlight, Final, RequestOrNone, Running,
    StateShown, Stopping
<1> QED
  BY <1>1, <1>2, <1>3, <1>4, <1>5, <1>6, <1>7 DEF Inv

\* A doomed session becomes the victim; the previous one is closed.
LEMMA CloseNextPreserves ==
  ASSUME Inv, NEW r \in Requests, CloseNext(r)
  PROVE  Inv'
<1>1. TypeOK'
  BY ConstantsAssumption DEF Inv, CloseNext, TypeOK, Goto, StopBegin, registryVars, Final,
    RequestOrNone, Running, StateShown, Stopping
<1>2. RequestDiscipline'
  BY ConstantsAssumption DEF Inv, CloseNext, RequestDiscipline, Goto, StopBegin,
    registryVars, Stopping
<1>3. LockDiscipline'
  BY ConstantsAssumption DEF Inv, CloseNext, LockDiscipline, TypeOK, SessionDiscipline,
    Goto, StopBegin, registryVars, Running, Stopping, Final, RequestOrNone, StateShown,
    InFlight, InService, Installed
<1>4. SessionDiscipline'
  BY ConstantsAssumption DEF Inv, CloseNext, SessionDiscipline, TypeOK, LockDiscipline,
    Goto, StopBegin, registryVars, Final, InFlight, InService, Installed, RequestOrNone,
    Running, StateShown, Stopping
<1>5. ActiveIsLive'
  BY ConstantsAssumption DEF Inv, CloseNext, ActiveIsLive, TypeOK, SessionDiscipline, Goto,
    StopBegin, registryVars, Final, RequestOrNone, Running, StateShown, Stopping, InFlight,
    InService, Installed
<1>6. NoOrphanPoller'
  BY ConstantsAssumption DEF Inv, CloseNext, NoOrphanPoller, TypeOK, LockDiscipline, Goto,
    StopBegin, registryVars, Installed, Running, Final, RequestOrNone, StateShown, Stopping
<1>7. NoLeakedClient'
  BY ConstantsAssumption DEF Inv, CloseNext, NoLeakedClient, TypeOK, LockDiscipline, Goto,
    StopBegin, registryVars, InFlight, Installed, Final, RequestOrNone, Running, StateShown,
    Stopping
<1> QED
  BY <1>1, <1>2, <1>3, <1>4, <1>5, <1>6, <1>7 DEF Inv

\* Every session that was detached is closed.
LEMMA CloseFinishPreserves ==
  ASSUME Inv, NEW r \in Requests, CloseFinish(r)
  PROVE  Inv'
<1>1. TypeOK'
  BY ConstantsAssumption DEF Inv, CloseFinish, TypeOK, LockDiscipline, Goto, Installed,
    Release, Turn, registryVars, sessionVars, Final, RequestOrNone, Running, StateShown,
    Stopping
<1>2. RequestDiscipline'
  BY ConstantsAssumption DEF Inv, CloseFinish, RequestDiscipline, Goto, Installed, Release,
    Turn, registryVars, sessionVars, Stopping
<1>3. LockDiscipline'
  BY ConstantsAssumption DEF Inv, CloseFinish, LockDiscipline, TypeOK, Goto, Installed,
    Release, Turn, registryVars, sessionVars, Running, Stopping, Final, RequestOrNone,
    StateShown
<1>4. SessionDiscipline'
  BY ConstantsAssumption DEF Inv, CloseFinish, SessionDiscipline, TypeOK, LockDiscipline,
    Goto, Installed, Release, Turn, registryVars, sessionVars, Final, InFlight, InService,
    RequestOrNone, Running, StateShown, Stopping
<1>5. ActiveIsLive'
  BY ConstantsAssumption DEF Inv, CloseFinish, ActiveIsLive, Goto, Installed, Release, Turn,
    registryVars, sessionVars
<1>6. NoOrphanPoller'
  BY ConstantsAssumption DEF Inv, CloseFinish, NoOrphanPoller, TypeOK, LockDiscipline, Goto,
    Installed, Release, Turn, registryVars, sessionVars, Running, Final, RequestOrNone,
    StateShown, Stopping
<1>7. NoLeakedClient'
  BY ConstantsAssumption DEF Inv, CloseFinish, NoLeakedClient, TypeOK, LockDiscipline,
    SessionDiscipline, Goto, Installed, Release, Turn, registryVars, sessionVars, InFlight,
    Final, RequestOrNone, Running, StateShown, Stopping, InService
<1> QED
  BY <1>1, <1>2, <1>3, <1>4, <1>5, <1>6, <1>7 DEF Inv

-----------------------------------------------------------------------------
(* refresh and the state sweep: each step keeps the invariant *)

\* The captured session is recorded.
LEMMA RefreshStartPreserves ==
  ASSUME Inv, NEW r \in Requests, NEW c \in Configs, RefreshStart(r, c)
  PROVE  Inv'
  BY ConstantsAssumption DEF Inv, RefreshStart, TypeOK, RequestDiscipline, LockDiscipline,
    SessionDiscipline, ActiveIsLive, NoOrphanPoller, NoLeakedClient, Begin, Capture,
    lockVars, registryVars, sessionVars, Final, RequestOrNone, Running, StateShown,
    Stopping, InFlight, InService, Installed, Goto

\* The request fails at once.
LEMMA RefreshUnknownPreserves ==
  ASSUME Inv, NEW r \in Requests, NEW c \in Configs, RefreshUnknown(r, c)
  PROVE  Inv'
  BY ConstantsAssumption DEF Inv, RefreshUnknown, TypeOK, RequestDiscipline, LockDiscipline,
    SessionDiscipline, ActiveIsLive, NoOrphanPoller, NoLeakedClient, Begin, Goto, lockVars,
    registryVars, sessionVars, Final, RequestOrNone, Running, StateShown, Stopping,
    InFlight, InService, Installed

\* The sweep captures a first session, fails, or is complete.
LEMMA SweepStartPreserves ==
  ASSUME Inv, NEW r \in Requests, SweepStart(r)
  PROVE  Inv'
<1>1. TypeOK'
  <2>1. op' \in [Requests -> {"none", "apply", "remove", "refresh", "sweep", "close"}]
    BY DEF SweepStart, Inv, TypeOK
  <2>2. /\ pc' \in [Requests -> {"idle", "reading", "discarding", "locking"}
                                \cup Stopping \cup Final]
        /\ target' \in [Requests -> Configs \cup {None}]
        /\ held' \in [Requests -> RequestOrNone]
        /\ todo' \in [Requests -> SUBSET Configs]
    BY DEF SweepStart, SweepOn, Capture, Goto, Inv, TypeOK, Final, RequestOrNone
  <2> QED
    BY <2>1, <2>2
    DEF SweepStart, Inv, TypeOK, registryVars, sessionVars, lockVars
<1>2. RequestDiscipline'
  BY ConstantsAssumption DEF Inv, SweepStart, RequestDiscipline, TypeOK, SweepOn, lockVars,
    registryVars, sessionVars, Stopping, Final, RequestOrNone, Running, StateShown, Capture,
    Goto
<1>3. LockDiscipline'
  BY ConstantsAssumption DEF Inv, SweepStart, LockDiscipline, TypeOK, SweepOn, lockVars,
    registryVars, sessionVars, Running, Stopping, Final, RequestOrNone, StateShown, Capture,
    Goto
<1>4. SessionDiscipline'
  BY ConstantsAssumption DEF Inv, SweepStart, SessionDiscipline, TypeOK, RequestDiscipline,
    SweepOn, lockVars, registryVars, sessionVars, Final, InFlight, InService, Installed,
    RequestOrNone, Running, StateShown, Stopping, Capture, Goto
<1>5. ActiveIsLive'
  BY ConstantsAssumption DEF Inv, SweepStart, ActiveIsLive, TypeOK, SessionDiscipline,
    SweepOn, lockVars, registryVars, sessionVars, Final, RequestOrNone, Running, StateShown,
    Stopping, InFlight, InService, Installed, Capture, Goto
<1>6. NoOrphanPoller'
  BY ConstantsAssumption DEF Inv, SweepStart, NoOrphanPoller, SweepOn, lockVars,
    registryVars, sessionVars, Installed, Running, Capture, Goto
<1>7. NoLeakedClient'
  BY ConstantsAssumption DEF Inv, SweepStart, NoLeakedClient, TypeOK, SweepOn, lockVars,
    registryVars, sessionVars, InFlight, Installed, Final, RequestOrNone, Running,
    StateShown, Stopping, Capture, Goto
<1> QED
  BY <1>1, <1>2, <1>3, <1>4, <1>5, <1>6, <1>7 DEF Inv

\* The captured session's snapshot is shown; a sweep may capture another.
LEMMA RefreshOkPreserves ==
  ASSUME Inv, NEW r \in Requests, RefreshOk(r)
  PROVE  Inv'
<1>1. TypeOK'
  <2>1. held[r] \in Requests
    BY DEF RefreshOk, Inv, RequestDiscipline
  <2>2. shown' \in [Requests -> StateShown \cup {None}]
    BY <2>1 DEF RefreshOk, Show, Inv, TypeOK, StateShown, RequestOrNone
  <2>3. SweepOn(r, todo[r]) /\ TypeOK
    BY DEF RefreshOk, Inv
  <2>4. pc' \in [Requests -> {"idle", "reading", "discarding", "locking"}
                             \cup Stopping \cup Final]
    BY <2>3 DEF SweepOn, Capture, Goto, TypeOK, Final
  <2>5. target' \in [Requests -> Configs \cup {None}]
    BY <2>3 DEF SweepOn, TypeOK
  <2>6. held' \in [Requests -> RequestOrNone]
    BY <2>3 DEF SweepOn, Capture, TypeOK
  <2>7. todo' \in [Requests -> SUBSET Configs]
    BY <2>3 DEF SweepOn, TypeOK
  <2> QED
    BY <2>2, <2>4, <2>5, <2>6, <2>7
    DEF RefreshOk, Inv, TypeOK, registryVars, sessionVars, lockVars
<1>2. RequestDiscipline'
  BY ConstantsAssumption DEF Inv, RefreshOk, RequestDiscipline, TypeOK, Show, SweepOn,
    lockVars, sessionVars, Stopping, Final, RequestOrNone, Running, StateShown, Capture,
    Goto
<1>3. LockDiscipline'
  BY ConstantsAssumption DEF Inv, RefreshOk, LockDiscipline, TypeOK, Show, SweepOn,
    lockVars, sessionVars, Running, Stopping, Final, RequestOrNone, StateShown, Capture,
    Goto
<1>4. SessionDiscipline'
  BY ConstantsAssumption DEF Inv, RefreshOk, SessionDiscipline, TypeOK, Show, SweepOn,
    lockVars, sessionVars, Final, InFlight, InService, Installed, RequestOrNone, Running,
    StateShown, Stopping, Capture, Goto
<1>5. ActiveIsLive'
  BY ConstantsAssumption DEF Inv, RefreshOk, ActiveIsLive, TypeOK, SessionDiscipline, Show,
    SweepOn, lockVars, sessionVars, Final, RequestOrNone, Running, StateShown, Stopping,
    InFlight, InService, Installed, Capture, Goto
<1>6. NoOrphanPoller'
  BY ConstantsAssumption DEF Inv, RefreshOk, NoOrphanPoller, Show, SweepOn, lockVars,
    sessionVars, Installed, Running, Capture, Goto
<1>7. NoLeakedClient'
  BY ConstantsAssumption DEF Inv, RefreshOk, NoLeakedClient, TypeOK, SessionDiscipline,
    Show, SweepOn, lockVars, sessionVars, InFlight, Installed, Final, RequestOrNone,
    Running, StateShown, Stopping, InService, Capture, Goto
<1> QED
  BY <1>1, <1>2, <1>3, <1>4, <1>5, <1>6, <1>7 DEF Inv

\* The request fails.
LEMMA RefreshFailsPreserves ==
  ASSUME Inv, NEW r \in Requests, RefreshFails(r)
  PROVE  Inv'
  BY ConstantsAssumption DEF Inv, RefreshFails, TypeOK, RequestDiscipline, LockDiscipline,
    SessionDiscipline, ActiveIsLive, NoOrphanPoller, NoLeakedClient, Goto, lockVars,
    registryVars, sessionVars, Final, RequestOrNone, Running, StateShown, Stopping,
    InFlight, InService, Installed

-----------------------------------------------------------------------------
(* the polling tasks: each step keeps the invariant *)

\* The task enters its loop.
LEMMA PollStartPreserves ==
  ASSUME Inv, NEW p \in Requests, PollStart(p)
  PROVE  Inv'
  BY ConstantsAssumption DEF Inv, PollStart, TypeOK, RequestDiscipline, LockDiscipline,
    SessionDiscipline, ActiveIsLive, NoOrphanPoller, NoLeakedClient, PollOn, lockVars,
    registryVars, requestVars, Final, RequestOrNone, Running, StateShown, Stopping,
    InFlight, InService, Installed, PollGoto

\* The task starts to read.
LEMMA PollWakePreserves ==
  ASSUME Inv, NEW p \in Requests, PollWake(p)
  PROVE  Inv'
  BY ConstantsAssumption DEF Inv, PollWake, TypeOK, RequestDiscipline, LockDiscipline,
    SessionDiscipline, ActiveIsLive, NoOrphanPoller, NoLeakedClient, PollGoto, lockVars,
    registryVars, requestVars, Final, RequestOrNone, Running, StateShown, Stopping,
    InFlight, InService, Installed

\* The task publishes and loops: it goes on as long as it is installed.
LEMMA PollReadOkPreserves ==
  ASSUME Inv, NEW p \in Requests, PollReadOk(p)
  PROVE  Inv'
  BY ConstantsAssumption DEF Inv, PollReadOk, TypeOK, RequestDiscipline, LockDiscipline,
    SessionDiscipline, ActiveIsLive, NoOrphanPoller, NoLeakedClient, PollOn, Show, lockVars,
    requestVars, Final, RequestOrNone, Running, StateShown, Stopping, InFlight, InService,
    Installed, PollGoto

\* The task survives a failed read like a successful one.
LEMMA PollReadFailsPreserves ==
  ASSUME Inv, NEW p \in Requests, PollReadFails(p)
  PROVE  Inv'
  BY ConstantsAssumption DEF Inv, PollReadFails, TypeOK, RequestDiscipline, LockDiscipline,
    SessionDiscipline, ActiveIsLive, NoOrphanPoller, NoLeakedClient, PollOn, Show, lockVars,
    requestVars, Final, RequestOrNone, Running, StateShown, Stopping, InFlight, InService,
    Installed, PollGoto

\* Only the victim's task, or one that is closed, is cancelled.
LEMMA PollCancelledPreserves ==
  ASSUME Inv, NEW p \in Requests, PollCancelled(p)
  PROVE  Inv'
  BY ConstantsAssumption DEF Inv, PollCancelled, TypeOK, RequestDiscipline, LockDiscipline,
    SessionDiscipline, ActiveIsLive, NoOrphanPoller, NoLeakedClient, PollGoto, Running,
    lockVars, registryVars, requestVars, Final, RequestOrNone, StateShown, Stopping,
    InFlight, InService, Installed

-----------------------------------------------------------------------------
(* The theorems *)

\* Every step of the service, of a request or of a polling task, keeps Inv.
LEMMA NextPreserves == Inv /\ [Next]_vars => Inv'
<1> SUFFICES ASSUME Inv, [Next]_vars PROVE Inv'
  OBVIOUS
<1>1. CASE UNCHANGED vars
  BY <1>1
  DEF Inv, TypeOK, RequestDiscipline, LockDiscipline, SessionDiscipline, ActiveIsLive,
      NoOrphanPoller, NoLeakedClient, InService, Installed, InFlight, vars, requestVars,
      registryVars, sessionVars, lockVars
<1>2. ASSUME NEW r \in Requests, Arrive(r) PROVE Inv'
  BY <1>2, ApplyStartPreserves, ApplyRejectedPreserves, RemoveStartPreserves,
     RefreshStartPreserves, RefreshUnknownPreserves, SweepStartPreserves, CloseStartPreserves
  DEF Arrive
<1>3. ASSUME NEW r \in Requests, HandlerStep(r) PROVE Inv'
  BY <1>3, ApplyReadOkPreserves, ApplyReadFailsPreserves, ApplyDiscardedPreserves,
     EvictPreserves, JoinPollerPreserves, InstallPreserves, InstallFailsPreserves,
     RemoveFinishPreserves, CloseDetachPreserves, CloseNextPreserves, CloseFinishPreserves,
     RefreshOkPreserves, RefreshFailsPreserves
  DEF HandlerStep
<1>4. ASSUME NEW p \in Requests, PollStep(p) PROVE Inv'
  BY <1>4, PollStartPreserves, PollWakePreserves, PollReadOkPreserves, PollReadFailsPreserves,
     PollCancelledPreserves
  DEF PollStep
<1> QED
  BY <1>1, <1>2, <1>3, <1>4 DEF Next, Quiescent

\* The inductive invariant holds in every reachable state.
THEOREM Invariance == Spec => []Inv
BY InitEstablishes, NextPreserves, PTL DEF Spec

\* Every variable keeps its type, whatever the requests and in whatever order.
THEOREM TypeCorrect == Spec => []TypeOK
<1>1. Inv => TypeOK
  BY DEF Inv
<1> QED
  BY <1>1, Invariance, PTL

\* A session that handlers find in _active is the right one, with an open client
\* and a polling task that nobody has told to stop (configure, remove, close).
THEOREM ActiveSessionsAreLive == Spec => []ActiveIsLive
<1>1. Inv => ActiveIsLive
  BY DEF Inv
<1> QED
  BY <1>1, Invariance, PTL

\* A polling task that runs belongs to a session in service, and reads through
\* an open client: _stop waits for the task before it closes the client.
THEOREM PollersBelongToSessions == Spec => []NoOrphanPoller
<1>1. Inv => NoOrphanPoller
  BY DEF Inv
<1> QED
  BY <1>1, Invariance, PTL

\* No path through configure(), remove() and close() leaves a client open that
\* nothing will close.
THEOREM ClientsAreNotLeaked == Spec => []NoLeakedClient
<1>1. Inv => NoLeakedClient
  BY DEF Inv
<1> QED
  BY <1>1, Invariance, PTL

\* What one step may write into the entries that the API shows.
Attributed ==
    \A e \in Requests :
        shown'[e] # shown[e] =>
            LET s == shown'[e].by
            IN  \/ s \in Installed' \cup doomed
                \/ \E r \in Requests : InFlight(r) /\ held[r] = s

\* Whoever writes through Show leaves its own name, and in one entry only.
LEMMA ShowAttributes ==
  ASSUME TypeOK, NEW c \in Configs, NEW s \in Requests, NEW b \in BOOLEAN, Show(c, s, b),
         NEW e \in Requests, shown'[e] # shown[e]
  PROVE  shown'[e].by = s
  BY DEF TypeOK, Show, RequestOrNone

\* A polling task that writes was not told to stop, so its session is not the
\* victim: it is installed, or waits for close() to reach it.
LEMMA PollersAreAttributed ==
  ASSUME Inv, NEW p \in Requests, NEW b \in BOOLEAN, poll[p] = "reading", p \notin cancelled,
         Show(target[p], p, b), UNCHANGED active
  PROVE  Attributed
<1>1. p \in Installed \cup doomed /\ target[p] \in Configs
  BY DEF Inv, TypeOK, NoOrphanPoller, SessionDiscipline, RequestDiscipline, InService, Running
<1>2. Installed' = Installed
  BY DEF Installed
<1>3. ASSUME NEW e \in Requests, shown'[e] # shown[e] PROVE shown'[e].by = p
  BY <1>1, <1>3, ShowAttributes DEF Inv
<1> QED
  BY <1>1, <1>2, <1>3 DEF Attributed

\* Every step writes on behalf of somebody who may.
LEMMA StepIsAttributed == Inv /\ [Next]_vars => Attributed \/ UNCHANGED vars
<1> SUFFICES ASSUME Inv, Next PROVE Attributed
  OBVIOUS
<1>1. CASE UNCHANGED shown
  BY <1>1 DEF Attributed
<1>2. ASSUME NEW r \in Requests, Install(r) PROVE Attributed
  <2>1. target[r] \in Configs /\ Show(target[r], r, TRUE)
    BY <1>2 DEF Install, Inv, RequestDiscipline
  <2>2. r \in Installed'
    BY <1>2, <2>1, ConstantsAssumption DEF Install, Installed, Inv, TypeOK
  <2>3. ASSUME NEW e \in Requests, shown'[e] # shown[e] PROVE shown'[e].by = r
    BY <2>1, <2>3, ShowAttributes DEF Inv
  <2> QED
    BY <2>2, <2>3 DEF Attributed
<1>3. ASSUME NEW r \in Requests, RefreshOk(r) PROVE Attributed
  <2>1. /\ target[r] \in Configs /\ held[r] \in Requests
        /\ Show(target[r], held[r], TRUE) /\ InFlight(r)
    BY <1>3 DEF RefreshOk, Inv, RequestDiscipline, InFlight, Final
  <2>2. ASSUME NEW e \in Requests, shown'[e] # shown[e] PROVE shown'[e].by = held[r]
    BY <2>1, <2>2, ShowAttributes DEF Inv
  <2> QED
    BY <2>1, <2>2 DEF Attributed
<1>4. ASSUME NEW p \in Requests, PollReadOk(p) \/ PollReadFails(p) PROVE Attributed
  BY <1>4, PollersAreAttributed DEF PollReadOk, PollReadFails
<1>5. ASSUME NEW r \in Requests, Arrive(r) PROVE UNCHANGED shown
  BY <1>5
  DEF Arrive, ApplyStart, ApplyRejected, RemoveStart, RefreshStart, RefreshUnknown, SweepStart,
      CloseStart, registryVars
<1>6. ASSUME NEW r \in Requests, HandlerStep(r) PROVE Attributed \/ UNCHANGED shown
  BY <1>2, <1>3, <1>6
  DEF HandlerStep, ApplyReadOk, ApplyReadFails, ApplyDiscarded, Evict, JoinPoller, InstallFails,
      RemoveFinish, CloseDetach, CloseNext, CloseFinish, RefreshFails, registryVars
<1>7. ASSUME NEW p \in Requests, PollStep(p) PROVE Attributed \/ UNCHANGED shown
  BY <1>4, <1>7 DEF PollStep, PollStart, PollWake, PollCancelled, registryVars
<1>8. Quiescent => UNCHANGED shown
  BY DEF Quiescent, vars, registryVars
<1> QED
  BY <1>1, <1>5, <1>6, <1>7, <1>8 DEF Next

\* A session that was evicted or removed is never heard of again through its
\* poller: only a refresh that was already under way can still write for it.
THEOREM StateIsAttributed == Spec => StateProvenance
<1>1. Inv /\ [Next]_vars => [Attributed]_vars
  BY StepIsAttributed
<1>2. Spec => [][Attributed]_vars
  BY <1>1, Invariance, PTL DEF Spec
<1> QED
  BY <1>2 DEF StateProvenance, Attributed

-----------------------------------------------------------------------------
(* What the API lists is what polls *)

\* A change of a configuration is under way.
Changes(r) == InFlight(r) /\ op[r] \in {"apply", "remove"}

\* Where changes of one configuration do not overlap, each finds the entry and the
\* session as the one before left them: the entry it has saved is that of the
\* session in service, and what it has stopped stays stopped.
ChangeDiscipline ==
    (\A r \in Requests : op[r] # "close") =>
        /\ \A q, r \in Requests :
              Changes(q) /\ Changes(r) /\ target[q] = target[r] => q = r
        /\ \A r \in Requests : Changes(r) =>
              LET current == active[target[r]]
              IN  /\ pc[r] \in Stopping => current = None
                  /\ op[r] = "apply" => registry[target[r]] = r
                  /\ op[r] = "apply" /\ pc[r] \notin Stopping /\ ~Broken(current) =>
                        saved[r] = current

CoherentInv == Inv /\ ChangeDiscipline /\ Coherent

\* A change is of some configuration, and is not that of a session in service.
LEMMA ChangesAreOfConfigs ==
  ASSUME Inv, NEW r \in Requests, Changes(r)
  PROVE  target[r] \in Configs /\ Changing(target[r]) /\ ~InService(r)
BY DEF Inv, RequestDiscipline, SessionDiscipline, Changes, Changing, InFlight

\* Steps that neither begin nor end a change, nor store anything.
LEMMA Undisturbed ==
  ASSUME CoherentInv, UNCHANGED <<registry, active, saved>>,
         \A q \in Requests : op[q] = "close" => op'[q] = "close",
         \A q \in Requests : pc[q] \in Final => pc'[q] = pc[q],
         \A q \in Requests : Changes(q)' <=> Changes(q),
         \A q \in Requests : Changes(q) =>
            /\ op'[q] = op[q] /\ target'[q] = target[q]
            /\ pc'[q] \in Stopping <=> pc[q] \in Stopping
  PROVE  ChangeDiscipline' /\ Coherent'
<1> SUFFICES ASSUME \A r \in Requests : op'[r] # "close" PROVE ChangeDiscipline' /\ Coherent'
  BY DEF ChangeDiscipline, Coherent
<1>1. \A r \in Requests : op[r] # "close"
  OBVIOUS
<1>2. \A c \in Configs : Broken(active[c])' <=> Broken(active[c])
  BY DEF CoherentInv, Inv, TypeOK, SessionDiscipline, InService, Installed, RequestOrNone, Broken
<1>3. \A c \in Configs : Changing(c)' <=> Changing(c)
  BY DEF Changing, Changes
<1>4. Coherent'
  BY <1>1, <1>2, <1>3 DEF CoherentInv, Coherent
<1>5. ChangeDiscipline'
  BY <1>1, <1>2, ChangesAreOfConfigs DEF CoherentInv, ChangeDiscipline
<1> QED
  BY <1>4, <1>5

\* A configuration that is not being changed is applied: its entry is replaced,
\* and the one of the session in service is saved.
LEMMA ApplyStartCoherent ==
  ASSUME ~Overlapping, CoherentInv, NEW r \in Requests, NEW c \in Configs, ApplyStart(r, c)
  PROVE  ChangeDiscipline' /\ Coherent'
<1> SUFFICES ASSUME \A q \in Requests : op'[q] # "close" PROVE ChangeDiscipline' /\ Coherent'
  BY DEF ChangeDiscipline, Coherent
<1>1. /\ \A q \in Requests : op[q] # "close"
      /\ ~Changing(c)
      /\ pc[r] = "idle" /\ op[r] = "none"
  BY DEF ApplyStart, Begin, Admitted, CoherentInv, Inv, RequestDiscipline
<1>2. /\ pc' = [pc EXCEPT ![r] = "reading"] /\ op' = [op EXCEPT ![r] = "apply"]
      /\ target' = [target EXCEPT ![r] = c]
      /\ saved' = [saved EXCEPT ![r] = registry[c]]
      /\ registry' = [registry EXCEPT ![c] = r]
      /\ UNCHANGED active
  BY DEF ApplyStart, Begin, Goto
<1>3. Changes(r)' /\ target'[r] = c
  BY <1>2 DEF Changes, InFlight, Final, CoherentInv, Inv, TypeOK
<1>4. \A q \in Requests \ {r} : /\ Changes(q)' <=> Changes(q)
                                /\ pc'[q] = pc[q] /\ op'[q] = op[q]
                                /\ target'[q] = target[q] /\ saved'[q] = saved[q]
  BY <1>2 DEF Changes, InFlight, CoherentInv, Inv, TypeOK
<1>5. \A d \in Configs : Broken(active[d])' <=> Broken(active[d])
  BY <1>1, <1>2 DEF Broken, CoherentInv, Inv, TypeOK, RequestOrNone
<1>6. \A q \in Requests \ {r} : Changes(q) => target[q] # c
  BY <1>1 DEF Changing, Changes
<1>7. ~Broken(active[c]) => registry[c] = active[c]
  BY <1>1 DEF CoherentInv, Coherent
<1>8. Coherent'
  <2>1. \A d \in Configs : ~Changing(d)' => d # c /\ ~Changing(d)
    BY <1>1, <1>3, <1>4 DEF Changing, Changes
  <2> QED
    BY <1>1, <1>2, <1>5, <2>1 DEF CoherentInv, Inv, TypeOK, Coherent
<1>9. ChangeDiscipline'
  <2>1. /\ pc'[r] \notin Stopping /\ registry'[c] = r
        /\ ~Broken(active[c])' => saved'[r] = active[c]
    BY <1>2, <1>5, <1>7 DEF Stopping, CoherentInv, Inv, TypeOK
  <2>2. \A q \in Requests \ {r} : Changes(q)' =>
          /\ target'[q] # c /\ target'[q] \in Configs
          /\ registry'[target'[q]] = registry[target[q]]
    BY <1>2, <1>4, <1>6, ChangesAreOfConfigs DEF CoherentInv, Inv, TypeOK
  <2> QED
    BY <1>1, <1>2, <1>3, <1>4, <1>5, <2>1, <2>2 DEF CoherentInv, ChangeDiscipline
<1> QED
  BY <1>8, <1>9

\* A configuration that is not being changed is removed.
LEMMA RemoveStartCoherent ==
  ASSUME ~Overlapping, CoherentInv, NEW r \in Requests, NEW c \in Configs, RemoveStart(r, c)
  PROVE  ChangeDiscipline' /\ Coherent'
<1> SUFFICES ASSUME \A q \in Requests : op'[q] # "close" PROVE ChangeDiscipline' /\ Coherent'
  BY DEF ChangeDiscipline, Coherent
<1>1. /\ \A q \in Requests : op[q] # "close"
      /\ ~Changing(c)
      /\ pc[r] = "idle" /\ op[r] = "none"
  BY DEF RemoveStart, Begin, Admitted, CoherentInv, Inv, RequestDiscipline
<1>2. /\ pc' = [pc EXCEPT ![r] = "locking"] /\ op' = [op EXCEPT ![r] = "remove"]
      /\ target' = [target EXCEPT ![r] = c]
      /\ UNCHANGED <<saved, registry, active>>
  BY DEF RemoveStart, Begin, Goto, registryVars, sessionVars
<1>3. Changes(r)' /\ target'[r] = c /\ op'[r] = "remove" /\ pc'[r] \notin Stopping
  BY <1>2 DEF Changes, InFlight, Final, Stopping, CoherentInv, Inv, TypeOK
<1>4. \A q \in Requests \ {r} : /\ Changes(q)' <=> Changes(q)
                                /\ pc'[q] = pc[q] /\ op'[q] = op[q] /\ target'[q] = target[q]
  BY <1>2 DEF Changes, InFlight, CoherentInv, Inv, TypeOK
<1>5. \A d \in Configs : Broken(active[d])' <=> Broken(active[d])
  BY <1>1, <1>2 DEF Broken, CoherentInv, Inv, TypeOK, RequestOrNone
<1>6. \A q \in Requests \ {r} : Changes(q) => target[q] # c
  BY <1>1 DEF Changing, Changes
<1>7. Coherent'
  <2>1. \A d \in Configs : ~Changing(d)' => ~Changing(d)
    BY <1>3, <1>4, <1>1 DEF Changing, Changes
  <2> QED
    BY <1>1, <1>2, <1>5, <2>1 DEF CoherentInv, Coherent
<1>8. ChangeDiscipline'
  BY <1>1, <1>2, <1>3, <1>4, <1>5, <1>6, ChangesAreOfConfigs DEF CoherentInv, ChangeDiscipline
<1> QED
  BY <1>7, <1>8

\* The holder of the lock detaches the session of the configuration it changes,
\* which nobody else is changing.
LEMMA EvictCoherent ==
  ASSUME CoherentInv, NEW r \in Requests, Evict(r)
  PROVE  ChangeDiscipline' /\ Coherent'
<1> SUFFICES ASSUME \A q \in Requests : op'[q] # "close" PROVE ChangeDiscipline' /\ Coherent'
  BY DEF ChangeDiscipline, Coherent
<1> DEFINE c == target[r]
<1>1. /\ pc' = [pc EXCEPT ![r] = "stopping"] /\ active' = [active EXCEPT ![c] = None]
      /\ UNCHANGED <<op, target, saved, registry>>
      /\ pc[r] = "locking" /\ op[r] \in {"apply", "remove"}
  BY DEF Evict, Turn, Goto, registryVars
<1>2. Changes(r) /\ c \in Configs
  BY <1>1, ChangesAreOfConfigs DEF Changes, InFlight, Final, CoherentInv
<1>3. \A q \in Requests : Changes(q)' <=> Changes(q)
  BY <1>1 DEF Changes, InFlight, Final, CoherentInv, Inv, TypeOK
<1>4. \A d \in Configs \ {c} : active'[d] = active[d] /\ (Broken(active[d])' <=> Broken(active[d]))
  BY <1>1 DEF Broken, CoherentInv, Inv, TypeOK, RequestOrNone
<1>5. active'[c] = None
  BY <1>1, <1>2 DEF CoherentInv, Inv, TypeOK
<1>6. \A d \in Configs : Changing(d)' <=> Changing(d)
  BY <1>1, <1>3 DEF Changing, Changes
<1>7. Coherent'
  BY <1>1, <1>2, <1>4, <1>6, ChangesAreOfConfigs DEF CoherentInv, Coherent
<1>8. \A q \in Requests \ {r} : Changes(q) => target[q] \in Configs \ {c} /\ pc'[q] = pc[q]
  BY <1>1, <1>2, ChangesAreOfConfigs DEF CoherentInv, ChangeDiscipline
<1>9. pc'[r] \in Stopping
  BY <1>1 DEF CoherentInv, Inv, TypeOK, Stopping
<1>10. ChangeDiscipline'
  BY <1>1, <1>2, <1>3, <1>4, <1>5, <1>8, <1>9 DEF CoherentInv, ChangeDiscipline
<1> QED
  BY <1>7, <1>10

\* A change of a configuration ends with its entry and its session in agreement, and
\* leaves the other configurations and their changes alone.
LEMMA ChangeEnds ==
  ASSUME CoherentInv, NEW r \in Requests, Changes(r), NEW place \in Final,
         pc' = [pc EXCEPT ![r] = place], UNCHANGED <<op, target, saved>>,
         \A d \in Configs \ {target[r]} : registry'[d] = registry[d] /\ active'[d] = active[d],
         ~Broken(active[target[r]])' => registry'[target[r]] = active'[target[r]]
  PROVE  ChangeDiscipline' /\ Coherent'
<1> SUFFICES ASSUME \A q \in Requests : op'[q] # "close" PROVE ChangeDiscipline' /\ Coherent'
  BY DEF ChangeDiscipline, Coherent
<1> DEFINE c == target[r]
<1>1. c \in Configs
  BY ChangesAreOfConfigs DEF CoherentInv
<1>2. ~Changes(r)' /\ \A q \in Requests \ {r} : (Changes(q)' <=> Changes(q)) /\ pc'[q] = pc[q]
  BY DEF Changes, InFlight, CoherentInv, Inv, TypeOK
<1>3. \A q \in Requests \ {r} : Changes(q) => target[q] \in Configs \ {c}
  BY ChangesAreOfConfigs DEF CoherentInv, ChangeDiscipline
<1>4. \A d \in Configs \ {c} : Broken(active[d])' <=> Broken(active[d])
  <2> SUFFICES ASSUME NEW d \in Configs \ {c}, active[d] # None
               PROVE  active[d] # r /\ active[d] \in Requests
    BY <1>2 DEF Broken
  <2>1. active[d] \in Requests /\ InService(active[d])
    BY DEF InService, Installed, CoherentInv, Inv, TypeOK, RequestOrNone
  <2> QED
    BY <2>1, ChangesAreOfConfigs DEF CoherentInv
<1>5. \A d \in Configs \ {c} : Changing(d)' <=> Changing(d)
  BY <1>2 DEF Changing, Changes
<1>6. Coherent'
  BY <1>4, <1>5 DEF CoherentInv, Coherent
<1>7. ChangeDiscipline'
  BY <1>2, <1>3, <1>4 DEF CoherentInv, ChangeDiscipline
<1> QED
  BY <1>6, <1>7

\* The configuration of a change that has the lock and nothing to stop is vacant.
LEMMA VacantIsVacant ==
  ASSUME CoherentInv, NEW r \in Requests, op[r] \in {"apply", "remove"}, Vacant(r),
         \A q \in Requests : op[q] # "close"
  PROVE  Changes(r) /\ target[r] \in Configs /\ active[target[r]] = None
<1>1. Changes(r)
  BY DEF Vacant, Turn, Changes, InFlight, Final
<1>2. active[target[r]] = None
  BY <1>1 DEF Vacant, Turn, Stopping, CoherentInv, ChangeDiscipline
<1> QED
  BY <1>1, <1>2, ChangesAreOfConfigs DEF CoherentInv

\* A failed probe puts the entry back that belongs to the session in service.
LEMMA ApplyDiscardedCoherent ==
  ASSUME CoherentInv, NEW r \in Requests, ApplyDiscarded(r)
  PROVE  ChangeDiscipline' /\ Coherent'
<1> SUFFICES ASSUME \A q \in Requests : op'[q] # "close" PROVE ChangeDiscipline' /\ Coherent'
  BY DEF ChangeDiscipline, Coherent
<1> DEFINE c == target[r]
<1>1. /\ pc[r] = "discarding" /\ op[r] = "apply"
      /\ pc' = [pc EXCEPT ![r] = "failed"]
      /\ registry' = [registry EXCEPT ![c] = saved[r]]
      /\ UNCHANGED <<op, target, saved, active>>
  BY DEF ApplyDiscarded, Goto, Rollback, sessionVars, CoherentInv, Inv, RequestDiscipline
<1>2. Changes(r) /\ c \in Configs
  BY <1>1, ChangesAreOfConfigs DEF Changes, InFlight, Final, CoherentInv
<1>3. ~Broken(active[c]) => saved[r] = active[c]
  BY <1>1, <1>2 DEF Stopping, CoherentInv, ChangeDiscipline
<1>4. active[c] # r
  BY <1>2, ChangesAreOfConfigs, ConstantsAssumption DEF InService, Installed, CoherentInv
<1>5. Broken(active[c])' <=> Broken(active[c])
  BY <1>1, <1>2, <1>4 DEF Broken, CoherentInv, Inv, TypeOK, RequestOrNone
<1>6. ~Broken(active[c])' => registry'[c] = active'[c]
  BY <1>1, <1>2, <1>3, <1>5 DEF CoherentInv, Inv, TypeOK
<1>7. \A d \in Configs \ {c} : registry'[d] = registry[d] /\ active'[d] = active[d]
  BY <1>1 DEF CoherentInv, Inv, TypeOK
<1> QED
  BY <1>1, <1>2, <1>6, <1>7, ChangeEnds DEF Final

\* A session is installed for the entry that its request has stored; one that is
\* installed although its snapshot was malformed is broken.
LEMMA InstallCoherent ==
  ASSUME CoherentInv, NEW r \in Requests, Install(r) \/ InstallFails(r)
  PROVE  ChangeDiscipline' /\ Coherent'
<1> SUFFICES ASSUME \A q \in Requests : op'[q] # "close" PROVE ChangeDiscipline' /\ Coherent'
  BY DEF ChangeDiscipline, Coherent
<1> DEFINE c == target[r]
<1>1. /\ op[r] = "apply" /\ Vacant(r)
      /\ active' = [active EXCEPT ![c] = r]
      /\ UNCHANGED <<op, target, saved>>
      /\ \/ pc' = [pc EXCEPT ![r] = "done"] /\ UNCHANGED registry
         \/ pc' = [pc EXCEPT ![r] = "failed"] /\ registry' = [registry EXCEPT ![c] = saved[r]]
  BY DEF Install, InstallFails, Goto, Rollback
<1>2. Changes(r) /\ c \in Configs
  BY <1>1, VacantIsVacant
<1>3. registry[c] = r
  BY <1>1, <1>2 DEF CoherentInv, ChangeDiscipline
<1>4. active'[c] = r /\ pc' \in [Requests -> {pc[q] : q \in Requests} \cup Final]
  BY <1>1, <1>2 DEF CoherentInv, Inv, TypeOK, Final
<1>5. ~Broken(active[c])' => registry'[c] = active'[c]
  BY <1>1, <1>3, <1>4, ConstantsAssumption DEF Broken, CoherentInv, Inv, TypeOK
<1>6. \A d \in Configs \ {c} : registry'[d] = registry[d] /\ active'[d] = active[d]
  BY <1>1 DEF CoherentInv, Inv, TypeOK
<1> QED
  BY <1>1, <1>2, <1>5, <1>6, ChangeEnds DEF Final

\* A configuration that is removed has neither an entry nor a session.
LEMMA RemoveFinishCoherent ==
  ASSUME CoherentInv, NEW r \in Requests, RemoveFinish(r)
  PROVE  ChangeDiscipline' /\ Coherent'
<1> SUFFICES ASSUME \A q \in Requests : op'[q] # "close" PROVE ChangeDiscipline' /\ Coherent'
  BY DEF ChangeDiscipline, Coherent
<1> DEFINE c == target[r]
<1>1. /\ op[r] = "remove" /\ Vacant(r)
      /\ pc' = [pc EXCEPT ![r] = "done"]
      /\ registry' = [registry EXCEPT ![c] = None]
      /\ UNCHANGED <<op, target, saved, active>>
  BY DEF RemoveFinish, Goto, sessionVars
<1>2. Changes(r) /\ c \in Configs /\ active[c] = None
  BY <1>1, VacantIsVacant
<1>3. registry'[c] = active'[c]
  BY <1>1, <1>2 DEF CoherentInv, Inv, TypeOK
<1>4. \A d \in Configs \ {c} : registry'[d] = registry[d] /\ active'[d] = active[d]
  BY <1>1 DEF CoherentInv, Inv, TypeOK
<1> QED
  BY <1>1, <1>2, <1>3, <1>4, ChangeEnds DEF Final

\* Reads, refreshes and polls change no entry and no session, and shutdown answers
\* for none any more.
LEMMA OthersCoherent ==
  ASSUME CoherentInv, NEW r \in Requests,
         \/ \E c \in Configs : ApplyRejected(r, c) \/ RefreshStart(r, c) \/ RefreshUnknown(r, c)
         \/ SweepStart(r) \/ CloseStart(r)
         \/ ApplyReadOk(r) \/ ApplyReadFails(r) \/ JoinPoller(r)
         \/ CloseDetach(r) \/ CloseNext(r) \/ CloseFinish(r)
         \/ RefreshOk(r) \/ RefreshFails(r)
         \/ PollStep(r)
  PROVE  ChangeDiscipline' /\ Coherent'
<1> USE DEF CoherentInv, Inv, TypeOK
<1>1. ASSUME NEW c \in Configs,
             ApplyRejected(r, c) \/ RefreshStart(r, c) \/ RefreshUnknown(r, c)
      PROVE  ChangeDiscipline' /\ Coherent'
  <2>1. /\ pc[r] = "idle" /\ op[r] = "none"
        /\ UNCHANGED <<registry, active, saved>>
        /\ pc'[r] \in {"reading"} \cup Final
        /\ op'[r] \in {"refresh", "sweep"} \/ (op'[r] = "apply" /\ pc'[r] = "failed")
        /\ \A q \in Requests \ {r} :
              pc'[q] = pc[q] /\ op'[q] = op[q] /\ target'[q] = target[q]
    BY <1>1 DEF ApplyRejected, RefreshStart, RefreshUnknown, Begin, Goto, Capture,
                registryVars, sessionVars, RequestDiscipline, Final
  <2>2. \A q \in Requests : Changes(q)' <=> Changes(q)
    BY <2>1 DEF Changes, InFlight, Final
  <2> QED
    BY <2>1, <2>2, Undisturbed DEF Final, Changes
<1>2. CASE SweepStart(r)
  <2>1. /\ pc[r] = "idle" /\ op[r] = "none"
        /\ UNCHANGED <<registry, active, saved>>
        /\ op'[r] = "sweep"
        /\ \A q \in Requests \ {r} :
              pc'[q] = pc[q] /\ op'[q] = op[q] /\ target'[q] = target[q]
    BY <1>2 DEF SweepStart, SweepOn, Goto, Capture, registryVars, sessionVars, RequestDiscipline
  <2>2. \A q \in Requests : Changes(q)' <=> Changes(q)
    BY <2>1 DEF Changes, InFlight
  <2> QED
    BY <2>1, <2>2, Undisturbed DEF Final, Changes
<1>3. CASE CloseStart(r) \/ CloseDetach(r) \/ CloseNext(r) \/ CloseFinish(r)
  <2>1. op'[r] = "close"
    BY <1>3 DEF CloseStart, CloseDetach, CloseNext, CloseFinish, Begin
  <2> QED
    BY <2>1 DEF ChangeDiscipline, Coherent
<1>4. CASE ApplyReadOk(r) \/ ApplyReadFails(r) \/ JoinPoller(r)
  <2>1. /\ UNCHANGED <<registry, active, saved, op, target>>
        /\ pc[r] \in {"reading", "stopping"} /\ pc'[r] \in {"locking", "discarding", "closing"}
        /\ pc'[r] \in Stopping <=> pc[r] \in Stopping
        /\ \A q \in Requests \ {r} : pc'[q] = pc[q]
    BY <1>4 DEF ApplyReadOk, ApplyReadFails, JoinPoller, Goto, registryVars, sessionVars, Stopping
  <2>2. \A q \in Requests : Changes(q)' <=> Changes(q)
    BY <2>1 DEF Changes, InFlight, Final
  <2> QED
    BY <2>1, <2>2, Undisturbed DEF Final
<1>5. CASE RefreshOk(r) \/ RefreshFails(r)
  <2>1. /\ UNCHANGED <<registry, active, saved, op>>
        /\ pc[r] = "reading" /\ op[r] \in {"refresh", "sweep"}
        /\ \A q \in Requests \ {r} : pc'[q] = pc[q] /\ target'[q] = target[q]
    BY <1>5 DEF RefreshOk, RefreshFails, SweepOn, Goto, Capture, registryVars, sessionVars
  <2>2. \A q \in Requests : Changes(q)' <=> Changes(q)
    BY <2>1 DEF Changes, InFlight
  <2> QED
    BY <2>1, <2>2, Undisturbed DEF Final, Changes
<1>6. CASE PollStep(r)
  <2>1. UNCHANGED <<registry, active, saved, op, target, pc>>
    BY <1>6 DEF PollStep, PollStart, PollWake, PollReadOk, PollReadFails, PollCancelled,
                requestVars, registryVars
  <2> QED
    BY <2>1, Undisturbed DEF Changes, InFlight
<1> QED
  BY <1>1, <1>2, <1>3, <1>4, <1>5, <1>6

\* Every step keeps entries and sessions together.
LEMMA CoherentPreserved ==
  ASSUME ~Overlapping, CoherentInv, [Next]_vars
  PROVE  CoherentInv'
<1> SUFFICES ChangeDiscipline' /\ Coherent'
  BY NextPreserves DEF CoherentInv
<1>1. CASE UNCHANGED vars
  BY <1>1, Undisturbed
     DEF vars, requestVars, registryVars, sessionVars, Changes, InFlight
<1>2. CASE Quiescent
  BY <1>1, <1>2 DEF Quiescent
<1>3. ASSUME NEW r \in Requests, Arrive(r) \/ HandlerStep(r) \/ PollStep(r)
      PROVE  ChangeDiscipline' /\ Coherent'
  BY <1>3, ApplyStartCoherent, RemoveStartCoherent, EvictCoherent, ApplyDiscardedCoherent,
     InstallCoherent, RemoveFinishCoherent, OthersCoherent
  DEF Arrive, HandlerStep
<1> QED
  BY <1>1, <1>2, <1>3 DEF Next

\* What the API lists is what polls the firewall (apply_config, remove_config), after
\* any sequence of changes, failed probes and rollbacks, but for overlapping changes
\* of one configuration: those may leave a session behind that is not listed.
THEOREM ListedIsPolled == ~Overlapping => (Spec => []Coherent)
<1> SUFFICES ASSUME ~Overlapping PROVE Spec => []Coherent
  OBVIOUS
<1>1. Init => CoherentInv
  BY InitEstablishes DEF Init, CoherentInv, ChangeDiscipline, Coherent, Changes, InFlight
<1>2. CoherentInv /\ [Next]_vars => CoherentInv'
  BY CoherentPreserved
<1>3. CoherentInv => Coherent
  BY DEF CoherentInv
<1> QED
  BY <1>1, <1>2, <1>3, PTL DEF Spec

-----------------------------------------------------------------------------
(* RuntimeService implements SessionLifecycle: every step of the service     *)
(* moves at most one session through its life (all of them at shutdown), and *)
(* installs one only when its configuration has no other.                    *)

\* A session belongs to its configuration from when it has a client.
OwnerOf(s) == IF client[s] = "none" THEN None ELSE target[s]

\* No session exists at the start.
LEMMA InitRefines == Init => Lifecycle!Init
BY DEF Init, Lifecycle!Init, LifeOf

\* A step that changes neither the sessions nor what makes them retiring is
\* invisible, although it may change what requests are about.
LEMMA Invisible ==
  ASSUME UNCHANGED <<active, client>>,
         \A s \in Requests : client[s] # "none" => target'[s] = target[s],
         \A s \in Requests : client[s] = "open" =>
            (s \in doomed' \cup {victim'} <=> s \in doomed \cup {victim})
  PROVE  UNCHANGED Lifecycle!vars
<1>1. \A s \in Requests : LifeOf(s)' = LifeOf(s)
  BY DEF LifeOf, Installed
<1>2. \A s \in Requests : OwnerOf(s)' = OwnerOf(s)
  BY DEF OwnerOf
<1> QED
  BY <1>1, <1>2 DEF Lifecycle!vars, OwnerOf

\* One session moves, the others and all owners stay.
LEMMA OneMoves ==
  ASSUME NEW r \in Requests, NEW from, NEW to, LifeOf(r) = from, LifeOf(r)' = to,
         \A s \in Requests \ {r} : LifeOf(s)' = LifeOf(s)
  PROVE  Lifecycle!MoveTo(r, from, to)
BY DEF Lifecycle!MoveTo

\* Owners that are the same one by one are the same together.
LEMMA OwnersStay ==
  ASSUME \A s \in Requests : OwnerOf(s)' = OwnerOf(s)
  PROVE  UNCHANGED [s \in Requests |-> IF client[s] = "none" THEN None ELSE target[s]]
BY DEF OwnerOf

-----------------------------------------------------------------------------
(* The steps that move a session *)

\* configure() builds a client: the session starts to probe.
LEMMA ApplyStartProbes ==
  ASSUME Inv, NEW r \in Requests, NEW c \in Configs, ApplyStart(r, c)
  PROVE  Lifecycle!Next
<1>1. client[r] = "none" /\ ~InService(r)
  BY DEF ApplyStart, Begin, Inv, RequestDiscipline, SessionDiscipline, Final
<1>2. client' = [client EXCEPT ![r] = "open"] /\ target' = [target EXCEPT ![r] = c]
      /\ UNCHANGED <<active, victim, doomed>>
  BY DEF ApplyStart, Begin, lockVars
<1>3. LifeOf(r) = "unborn" /\ LifeOf(r)' = "probing"
  BY <1>1, <1>2 DEF LifeOf, Inv, TypeOK, InService, Installed
<1>4. \A s \in Requests \ {r} : LifeOf(s)' = LifeOf(s)
  BY <1>2 DEF LifeOf, Inv, TypeOK, Installed
<1>5. [s \in Requests |-> IF client[s] = "none" THEN None ELSE target[s]]'
      = [[s \in Requests |-> IF client[s] = "none" THEN None ELSE target[s]]
            EXCEPT ![r] = c]
  BY <1>2 DEF Inv, TypeOK
<1> QED
  BY <1>3, <1>4, <1>5, OneMoves DEF Lifecycle!Next, Lifecycle!Probe

\* A failed probe closes the client: the session is discarded.
LEMMA ApplyReadFailsDiscards ==
  ASSUME Inv, NEW r \in Requests, ApplyReadFails(r)
  PROVE  Lifecycle!Next
<1>1. client[r] = "open" /\ ~InService(r)
  BY DEF ApplyReadFails, Inv, SessionDiscipline, InFlight, Final
<1>2. client' = [client EXCEPT ![r] = "closed"] /\ UNCHANGED <<active, target, victim, doomed>>
  BY DEF ApplyReadFails, lockVars
<1>3. LifeOf(r) = "probing" /\ LifeOf(r)' = "retired"
  BY <1>1, <1>2 DEF LifeOf, Inv, TypeOK, InService
<1>4. \A s \in Requests \ {r} : LifeOf(s)' = LifeOf(s)
  BY <1>2 DEF LifeOf, Inv, TypeOK, Installed
<1>5. \A s \in Requests : OwnerOf(s)' = OwnerOf(s)
  BY <1>1, <1>2 DEF OwnerOf, Inv, TypeOK
<1> QED
  BY <1>3, <1>4, <1>5, OneMoves, OwnersStay DEF Lifecycle!Next, Lifecycle!Discard

\* The lock is held: until the holder stops a session there is none to stop.
LEMMA TurnIsAlone ==
  ASSUME Inv, NEW r \in Requests, Turn(r)
  PROVE  victim = None /\ doomed = {}
BY DEF Inv, LockDiscipline, Turn, Stopping

\* Under the lock the installed session is detached: it starts to retire.
LEMMA EvictRetires ==
  ASSUME Inv, NEW r \in Requests, Evict(r)
  PROVE  Lifecycle!Next
<1>1. PICK v \in Requests : v = active[target[r]] /\ v \in Installed /\ target[r] \in Configs
  BY DEF Evict, Inv, TypeOK, RequestDiscipline, RequestOrNone, Installed
<1>2. victim = None /\ doomed = {}
  BY TurnIsAlone DEF Evict
<1>3. /\ active' = [active EXCEPT ![target[r]] = None]
      /\ victim' = v
      /\ UNCHANGED <<client, target, doomed>>
  BY <1>1 DEF Evict, StopBegin
<1>4. \A s \in Requests \ {v} : s \in Installed' <=> s \in Installed
  BY <1>1, <1>3, ConstantsAssumption DEF Installed, Inv, TypeOK
<1>5. client[v] = "open" /\ target[v] = target[r] /\ v \notin Installed'
  BY <1>1, <1>3, ConstantsAssumption DEF Inv, ActiveIsLive, Installed, TypeOK
<1>6. LifeOf(v) = "installed"
  <2>1. client[v] = "open" /\ v \in Installed /\ v \notin doomed \cup {victim}
    BY <1>1, <1>2, <1>5, ConstantsAssumption
  <2> QED
    BY <2>1 DEF LifeOf
<1>7. LifeOf(v)' = "retiring"
  <2>1. client'[v] = "open" /\ v \in doomed' \cup {victim'}
    BY <1>3, <1>5
  <2> QED
    BY <1>5, <2>1 DEF LifeOf
<1>8. \A s \in Requests \ {v} : LifeOf(s)' = LifeOf(s)
  BY <1>2, <1>3, <1>4, ConstantsAssumption DEF LifeOf
<1>9. \A s \in Requests : OwnerOf(s)' = OwnerOf(s)
  BY <1>3 DEF OwnerOf
<1> QED
  BY <1>1, <1>6, <1>7, <1>8, <1>9, OneMoves, OwnersStay DEF Lifecycle!Next, Lifecycle!Retire

\* The poller has ended and the client is closed: the session is finished.
LEMMA JoinPollerFinishes ==
  ASSUME Inv, NEW r \in Requests, JoinPoller(r)
  PROVE  Lifecycle!Next \/ UNCHANGED Lifecycle!vars
<1>1. PICK v \in Requests : v = victim /\ v \notin Installed
  BY DEF JoinPoller, Inv, TypeOK, LockDiscipline, SessionDiscipline, Stopping, RequestOrNone
<1>2. client' = [client EXCEPT ![v] = "closed"]
      /\ UNCHANGED <<active, target, victim, doomed>>
  BY <1>1 DEF JoinPoller, lockVars
<1>3. client[v] = "open"
  BY <1>1 DEF JoinPoller, Inv, LockDiscipline, Stopping
<1>4. LifeOf(v) = "retiring" /\ LifeOf(v)' = "retired"
  BY <1>1, <1>2, <1>3 DEF LifeOf, Inv, TypeOK
<1>5. \A s \in Requests \ {v} : LifeOf(s)' = LifeOf(s)
  BY <1>2 DEF LifeOf, Inv, TypeOK, Installed
<1>6. \A s \in Requests : OwnerOf(s)' = OwnerOf(s)
  BY <1>2, <1>3 DEF OwnerOf, Inv, TypeOK
<1> QED
  BY <1>4, <1>5, <1>6, OneMoves, OwnersStay DEF Lifecycle!Next, Lifecycle!Finish

\* The configuration is vacant: no session of it is installed or retiring.
LEMMA VacantHasNoOwner ==
  ASSUME Inv, NEW r \in Requests, Vacant(r), op[r] = "apply", NEW s \in Requests,
         OwnerOf(s) = target[r], client[s] = "open"
  PROVE  ~InService(s)
<1>1. target[r] \in Configs /\ active[target[r]] = None /\ doomed = {}
  BY TurnIsAlone DEF Inv, RequestDiscipline, LockDiscipline, Vacant, Stopping, Turn
<1>2. victim = None \/ client[victim] = "closed"
  BY TurnIsAlone DEF Inv, LockDiscipline, Vacant, Stopping
<1>3. s \notin Installed
  BY <1>1, ConstantsAssumption DEF OwnerOf, Installed, Inv, TypeOK, ActiveIsLive
<1> QED
  BY <1>1, <1>2, <1>3, ConstantsAssumption DEF InService

\* Both ways of installing, with a polling task and without one.
LEMMA InstallInstalls ==
  ASSUME Inv, NEW r \in Requests, Install(r) \/ InstallFails(r)
  PROVE  Lifecycle!Next
<1>1. /\ op[r] = "apply" /\ Vacant(r)
      /\ active' = [active EXCEPT ![target[r]] = r]
      /\ victim' = None
      /\ UNCHANGED <<client, target, doomed>>
  BY DEF Install, InstallFails
<1>2. client[r] = "open" /\ ~InService(r)
  <2>1. pc[r] \in {"locking", "closing"}
    BY <1>1 DEF Vacant, Turn
  <2> QED
    BY <1>1, <2>1 DEF Inv, SessionDiscipline, InFlight, Final
<1>3. target[r] \in Configs /\ active[target[r]] = None /\ doomed = {}
  BY <1>1, TurnIsAlone DEF Inv, RequestDiscipline, LockDiscipline, Vacant, Stopping, Turn
<1>4. victim = None \/ client[victim] = "closed"
  BY <1>1, TurnIsAlone DEF Inv, LockDiscipline, Vacant, Stopping
<1>5. r \in Installed' /\ \A s \in Requests \ {r} : s \in Installed' <=> s \in Installed
  BY <1>1, <1>3, ConstantsAssumption DEF Installed, Inv, TypeOK
<1>6. /\ LifeOf(r) = "probing"
      /\ LifeOf(r)' = "installed"
  <2>1. LifeOf(r) = "probing"
    BY <1>2 DEF LifeOf, InService
  <2>2. client'[r] = "open" /\ r \notin doomed' \cup {victim'}
    BY <1>1, <1>2, <1>3, ConstantsAssumption
  <2>3. LifeOf(r)' = "installed"
    BY <1>5, <2>2 DEF LifeOf
  <2> QED
    BY <2>1, <2>3
<1>7. \A s \in Requests \ {r} : LifeOf(s)' = LifeOf(s)
  BY <1>1, <1>3, <1>4, <1>5, ConstantsAssumption DEF LifeOf
<1>8. \A s \in Requests : OwnerOf(s)' = OwnerOf(s)
  BY <1>1 DEF OwnerOf
<1>9. OwnerOf(r) = target[r]
  BY <1>2 DEF OwnerOf
<1>10. \A s \in Requests : OwnerOf(s) = OwnerOf(r) => LifeOf(s) \notin {"installed", "retiring"}
  BY <1>1, <1>9, VacantHasNoOwner DEF LifeOf, InService
<1> QED
  BY <1>6, <1>7, <1>8, <1>10, OneMoves, OwnersStay
  DEF Lifecycle!Next, Lifecycle!Install, Lifecycle!Owners, OwnerOf

\* Shutdown detaches every installed session in one step.
LEMMA CloseDetachRetiresAll ==
  ASSUME Inv, NEW r \in Requests, CloseDetach(r)
  PROVE  Lifecycle!Next
<1>1. /\ doomed' \cup {victim'} = Installed
      /\ Installed' = {}
      /\ UNCHANGED <<client, target>>
  BY DEF CloseDetach, StopBegin, Installed
<1>2. victim = None /\ doomed = {}
  BY TurnIsAlone DEF CloseDetach
<1>3. \A s \in Requests :
        LifeOf(s)' = IF LifeOf(s) = "installed" THEN "retiring" ELSE LifeOf(s)
  BY <1>1, <1>2, ConstantsAssumption DEF LifeOf
<1>4. \A s \in Requests : OwnerOf(s)' = OwnerOf(s)
  BY <1>1 DEF OwnerOf
<1> QED
  BY <1>3, <1>4, OwnersStay DEF Lifecycle!Next, Lifecycle!RetireAll

-----------------------------------------------------------------------------
(* The steps that the abstract specification does not see *)

\* Requests that arrive, other than those that build a client.
LEMMA ArrivalsAreInvisible ==
  ASSUME Inv, NEW r \in Requests, NEW c \in Configs,
         \/ ApplyRejected(r, c) \/ RemoveStart(r, c) \/ RefreshStart(r, c)
         \/ RefreshUnknown(r, c) \/ SweepStart(r) \/ CloseStart(r)
  PROVE  UNCHANGED Lifecycle!vars
<1>1. client[r] = "none"
  BY DEF ApplyRejected, RemoveStart, RefreshStart, RefreshUnknown, SweepStart, CloseStart, Begin,
         Inv, RequestDiscipline, SessionDiscipline
<1>2. UNCHANGED <<active, client, victim, doomed>>
  BY DEF ApplyRejected, RemoveStart, RefreshStart, RefreshUnknown, SweepStart, CloseStart,
         sessionVars, lockVars
<1>3. \A s \in Requests \ {r} : target'[s] = target[s]
  BY DEF ApplyRejected, RemoveStart, RefreshStart, RefreshUnknown, SweepStart, CloseStart, Begin,
         SweepOn, Inv, TypeOK
<1> QED
  BY <1>1, <1>2, <1>3, Invisible

\* Steps of the handlers that leave every session as it is, or forget one that
\* is closed already.
LEMMA HandlersAreInvisible ==
  ASSUME Inv, NEW r \in Requests,
         \/ ApplyReadOk(r) \/ ApplyDiscarded(r) \/ RemoveFinish(r) \/ CloseNext(r)
         \/ CloseFinish(r) \/ RefreshOk(r) \/ RefreshFails(r)
  PROVE  UNCHANGED Lifecycle!vars
<1>1. UNCHANGED <<active, client>>
  BY DEF ApplyReadOk, ApplyDiscarded, RemoveFinish, CloseNext, CloseFinish, RefreshOk,
         RefreshFails, sessionVars
<1>2. \A s \in Requests : client[s] # "none" => target'[s] = target[s]
  <2>1. CASE RefreshOk(r)
    <3>1. client[r] = "none"
      BY <2>1 DEF RefreshOk, Inv, SessionDiscipline
    <3> QED
      BY <2>1, <3>1 DEF RefreshOk, SweepOn, Inv, TypeOK
  <2> QED
    BY <2>1 DEF ApplyReadOk, ApplyDiscarded, RemoveFinish, CloseNext, CloseFinish, RefreshFails
<1>3. \A s \in Requests :
        client[s] = "open" => (s \in doomed' \cup {victim'} <=> s \in doomed \cup {victim})
  <2>1. CASE RemoveFinish(r) \/ CloseFinish(r)
    <3>1. victim' = None /\ doomed' = doomed
      BY <2>1 DEF RemoveFinish, CloseFinish
    <3>2. victim = None \/ client[victim] = "closed"
      BY <2>1, TurnIsAlone DEF RemoveFinish, CloseFinish, Vacant, Inv, LockDiscipline, Stopping
    <3> QED
      BY <3>1, <3>2, ConstantsAssumption
  <2>2. CASE CloseNext(r)
    <3>1. client[victim] = "closed"
      BY <2>2 DEF CloseNext, Inv, LockDiscipline, Stopping
    <3> QED
      BY <2>2, <3>1 DEF CloseNext, StopBegin
  <2> QED
    BY <2>1, <2>2 DEF ApplyReadOk, ApplyDiscarded, RefreshOk, RefreshFails, lockVars
<1> QED
  BY <1>1, <1>2, <1>3, Invisible

\* The polling tasks never move a session: they follow what handlers decide.
LEMMA PollersAreInvisible ==
  ASSUME NEW p \in Requests, PollStep(p)
  PROVE  UNCHANGED Lifecycle!vars
BY Invisible
   DEF PollStep, PollStart, PollWake, PollReadOk, PollReadFails, PollCancelled, requestVars,
       lockVars

-----------------------------------------------------------------------------
\* Every step maps to a step of the abstract specification, or to a stutter.
LEMMA StepRefines == Inv /\ [Next]_vars => [Lifecycle!Next]_Lifecycle!vars
<1> SUFFICES ASSUME Inv, [Next]_vars PROVE Lifecycle!Next \/ UNCHANGED Lifecycle!vars
  OBVIOUS
<1>1. ASSUME NEW r \in Requests, Arrive(r) PROVE Lifecycle!Next \/ UNCHANGED Lifecycle!vars
  <2>1. CASE \E c \in Configs : ApplyStart(r, c)
    BY <2>1, ApplyStartProbes
  <2>2. CASE SweepStart(r) \/ CloseStart(r)
    <3>1. client[r] = "none" /\ UNCHANGED <<active, client, victim, doomed>>
      BY <2>2 DEF SweepStart, CloseStart, Begin, Inv, RequestDiscipline, SessionDiscipline,
                  sessionVars, lockVars
    <3>2. \A s \in Requests \ {r} : target'[s] = target[s]
      BY <2>2 DEF SweepStart, CloseStart, Begin, SweepOn, Inv, TypeOK
    <3> QED
      BY <3>1, <3>2, Invisible
  <2> QED
    BY <1>1, <2>1, <2>2, ArrivalsAreInvisible DEF Arrive
<1>2. ASSUME NEW r \in Requests, HandlerStep(r)
      PROVE  Lifecycle!Next \/ UNCHANGED Lifecycle!vars
  BY <1>2, ApplyReadFailsDiscards, EvictRetires, JoinPollerFinishes, InstallInstalls,
     CloseDetachRetiresAll, HandlersAreInvisible
  DEF HandlerStep
<1>3. ASSUME NEW p \in Requests, PollStep(p) PROVE UNCHANGED Lifecycle!vars
  BY <1>3, PollersAreInvisible
<1>4. CASE UNCHANGED vars
  BY <1>4, Invisible DEF vars, requestVars, sessionVars, lockVars
<1> QED
  BY <1>1, <1>2, <1>3, <1>4 DEF Next, Quiescent

\* The service keeps what SessionLifecycle promises, for any number of requests
\* and configurations: one owner per firewall, and no session comes back.
THEOREM ServiceImplementsLifecycle == Spec => ImplementsLifecycle
<1>1. Spec => Lifecycle!Init
  BY InitRefines, PTL DEF Spec
<1>2. Spec => [][Lifecycle!Next]_Lifecycle!vars
  BY StepRefines, Invariance, PTL DEF Spec
<1> QED
  BY <1>1, <1>2, PTL DEF ImplementsLifecycle, Lifecycle!Spec

-----------------------------------------------------------------------------
(* What SessionLifecycle promises then holds of the service *)

Owned == {"installed", "retiring"}

\* A step of the abstract specification gives no configuration a second owner: a
\* session becomes an owner only where there is none.
LEMMA OwnersStayAlone ==
  ASSUME Inv, Lifecycle!ExclusiveOwner, [Lifecycle!Next]_Lifecycle!vars
  PROVE  Lifecycle!ExclusiveOwner'
<1> DEFINE life == [s \in Requests |-> LifeOf(s)]
           owner == [s \in Requests |-> IF client[s] = "none" THEN None ELSE target[s]]
<1>1. \A s, t \in Requests : life[s] \in Owned /\ life[t] \in Owned /\ owner[s] = owner[t] => s = t
  BY DEF Lifecycle!ExclusiveOwner, Owned
<1> SUFFICES ASSUME NEW s \in Requests, NEW t \in Requests,
                    life'[s] \in Owned, life'[t] \in Owned, owner'[s] = owner'[t], s # t
             PROVE  FALSE
  BY DEF Lifecycle!ExclusiveOwner, Owned
<1>2. ASSUME NEW p \in Requests, NEW from, NEW to, to \notin Owned \/ from \in Owned,
             Lifecycle!MoveTo(p, from, to), owner' = owner
      PROVE  FALSE
  <2>1. life[p] = from /\ life' = [life EXCEPT ![p] = to]
    BY <1>2 DEF Lifecycle!MoveTo
  <2>2. \A q \in Requests : life'[q] \in Owned => life[q] \in Owned
    BY <1>2, <2>1
  <2> QED
    BY <1>1, <1>2, <2>2
<1>3. ASSUME NEW p \in Requests, NEW c \in Configs, Lifecycle!Probe(p, c) PROVE FALSE
  <2>1. /\ life' = [life EXCEPT ![p] = "probing"]
        /\ owner' = [owner EXCEPT ![p] = c]
    BY <1>3 DEF Lifecycle!Probe, Lifecycle!MoveTo
  <2>2. s # p /\ t # p
    BY <2>1 DEF Owned
  <2> QED
    BY <1>1, <2>1, <2>2
<1>4. ASSUME NEW p \in Requests, Lifecycle!Install(p) PROVE FALSE
  <2>1. /\ \A q \in Requests : owner[q] = owner[p] => life[q] \notin Owned
        /\ life' = [life EXCEPT ![p] = "installed"]
        /\ owner' = owner
    BY <1>4 DEF Lifecycle!Install, Lifecycle!MoveTo, Lifecycle!Owners, Owned
  <2> QED
    BY <1>1, <2>1
<1>5. CASE Lifecycle!RetireAll
  <2>1. /\ life' = [q \in Requests |-> IF life[q] = "installed" THEN "retiring" ELSE life[q]]
        /\ owner' = owner
    BY <1>5 DEF Lifecycle!RetireAll
  <2>2. \A q \in Requests : life'[q] \in Owned => life[q] \in Owned
    BY <2>1 DEF Owned
  <2> QED
    BY <1>1, <2>1, <2>2
<1>6. ASSUME NEW p \in Requests, Lifecycle!Discard(p) \/ Lifecycle!Retire(p) \/ Lifecycle!Finish(p)
      PROVE  FALSE
  BY <1>2, <1>6 DEF Lifecycle!Discard, Lifecycle!Retire, Lifecycle!Finish, Owned
<1>7. CASE UNCHANGED Lifecycle!vars
  BY <1>1, <1>7 DEF Lifecycle!vars
<1> QED
  BY <1>3, <1>4, <1>5, <1>6, <1>7 DEF Lifecycle!Next

\* At most one session at a time polls the firewall of a configuration or is still
\* being taken down, whatever is applied, removed or restored over it.
THEOREM OneSessionPerFirewall == Spec => []Lifecycle!ExclusiveOwner
<1>1. Lifecycle!Init => Lifecycle!ExclusiveOwner
  BY DEF Lifecycle!Init, Lifecycle!ExclusiveOwner
<1> QED
  BY <1>1, OwnersStayAlone, Invariance, ServiceImplementsLifecycle, PTL
  DEF ImplementsLifecycle, Lifecycle!Spec
=============================================================================
