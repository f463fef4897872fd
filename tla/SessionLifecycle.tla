-------------------------- MODULE SessionLifecycle --------------------------
(***************************************************************************)
(* What PfSenseRuntimeService promises about its firewall sessions, with   *)
(* no lock, no task and no HTTP request in sight.                          *)
(*                                                                         *)
(* A session is one pfSense client together with the polling task built on *)
(* it.  It probes its firewall, is installed under one configuration id,   *)
(* and is later taken down for good.  The promise is exclusiveness: a      *)
(* session is installed only when no other session of its configuration is *)
(* installed or still being taken down, and no session comes back.         *)
(***************************************************************************)

CONSTANTS Sessions,   \* every session the runtime may ever build
          Configs,    \* configuration ids
          None        \* "belongs to no configuration yet"

VARIABLES life,       \* life[s]: the stage session s has reached
          owner       \* owner[s]: the configuration s is for, or None

vars == <<life, owner>>

Stages == {"unborn", "probing", "installed", "retiring", "retired"}

TypeOK ==
    /\ life \in [Sessions -> Stages]
    /\ owner \in [Sessions -> Configs \cup {None}]

\* Sessions that own the firewall of configuration c.
Owners(c) == {s \in Sessions : owner[s] = c /\ life[s] \in {"installed", "retiring"}}

Init ==
    /\ life = [s \in Sessions |-> "unborn"]
    /\ owner = [s \in Sessions |-> None]

MoveTo(s, from, to) ==
    /\ life[s] = from
    /\ life' = [life EXCEPT ![s] = to]

Probe(s, c) ==
    /\ MoveTo(s, "unborn", "probing")
    /\ owner' = [owner EXCEPT ![s] = c]

Discard(s) == MoveTo(s, "probing", "retired") /\ UNCHANGED owner

Install(s) ==
    /\ Owners(owner[s]) = {}
    /\ MoveTo(s, "probing", "installed")
    /\ UNCHANGED owner

Retire(s) == MoveTo(s, "installed", "retiring") /\ UNCHANGED owner

\* Shutdown takes every installed session out of service at once.
RetireAll ==
    /\ life' = [s \in Sessions |-> IF life[s] = "installed" THEN "retiring" ELSE life[s]]
    /\ UNCHANGED owner

Finish(s) == MoveTo(s, "retiring", "retired") /\ UNCHANGED owner

Next ==
    \/ \E s \in Sessions, c \in Configs : Probe(s, c)
    \/ \E s \in Sessions : Discard(s) \/ Install(s) \/ Retire(s) \/ Finish(s)
    \/ RetireAll

Spec == Init /\ [][Next]_vars

\* A session taken out of service is eventually torn down completely.
FairSpec == Spec /\ \A s \in Sessions : WF_vars(Finish(s))

\* At most one session owns a firewall at any time: the consequence of the
\* guard of Install that the callers of the service rely on.
ExclusiveOwner ==
    \A s, t \in Sessions :
        /\ life[s] \in {"installed", "retiring"}
        /\ life[t] \in {"installed", "retiring"}
        /\ owner[s] = owner[t]
        => s = t
=============================================================================
