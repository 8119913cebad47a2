---------------------------- MODULE IdleRollout ----------------------------
(***************************************************************************)
(* idle-rollout.sh: a CronJob, one at a time, that deletes the pod of an   *)
(* OnDelete StatefulSet when a new revision waits and nobody has used the  *)
(* pod for a while.  It reads one thing per kubectl call, and asks         *)
(* t3-idle.py in both containers for the seconds since the last use: of    *)
(* T3's database, which both see, and of the container's own terminals.    *)
(* Between any two calls the owner may change the revision or delete the   *)
(* pod, a user may come, and the pod may crash or be replaced.             *)
(*                                                                         *)
(* A run that ends early, with whatever exit code, is back at "idle".      *)
(***************************************************************************)
EXTENDS Naturals

CONSTANTS
    Idle,       \* IDLE_SECONDS, in ticks; an age counts no further
    Deadline,   \* activeDeadlineSeconds, in ticks
    Revision,   \* revisions of the StatefulSet
    MaxUse,     \* bound: uses of the pod
    MaxUpset    \* bound: changes by the owner, crashes and failed or cut runs

\* 240 s against 1800 s
RolloutAssumption == Idle \in Nat /\ Deadline \in Nat /\ Deadline < Idle

VARIABLES
    want,       \* status.updateRevision
    pod,        \* [rev, state]: "none", "starting", "ready", "crash" or "leaving"
    age,        \* age[u]: time since the last use u
    rjob,       \* [pc, want, crash, since]: the run, and the time since it looked at the first age
    uses, troubles

rolloutVars == <<want, pod, age, rjob, uses, troubles>>

Container == {"t3", "sshd"}
Use == Container \cup {"db"}
NoRun == [pc |-> "idle", want |-> 0, crash |-> FALSE, since |-> 0]

RolloutInit ==
    /\ want \in Revision /\ pod \in [rev : Revision, state : {"ready"}]
    /\ age = [u \in Use |-> 0] /\ rjob = NoRun /\ uses = 0 /\ troubles = 0

Least(m, n) == IF m < n THEN m ELSE n
Go(pc) == rjob' = [rjob EXCEPT !.pc = pc]
Ends == rjob' = NoRun
At(pc) == rjob.pc = pc
Quiet == UNCHANGED <<want, pod, age, uses, troubles>>

-----------------------------------------------------------------------------
(* idle-rollout.sh *)

LookWant == At("idle") /\ rjob' = [NoRun EXCEPT !.pc = "pod", !.want = want] /\ Quiet

\* no pod, or one on the revision already: nothing to do
LookPod ==
    /\ At("pod") /\ Quiet
    /\ IF pod.state = "none" \/ pod.rev = rjob.want THEN Ends ELSE Go("waiting")

\* a crash-looping pod is rolled without a look at its users
LookWaiting ==
    /\ At("waiting") /\ Quiet
    /\ CASE pod.state = "none" -> Ends
         [] pod.state = "crash" -> rjob' = [rjob EXCEPT !.pc = "delete", !.crash = TRUE]
         [] OTHER -> Go("ready")

\* a pod that is being deleted stays Ready for a while
LookReady ==
    /\ At("ready") /\ Quiet
    /\ \/ pod.state \in {"ready", "leaving"} /\ Go("t3")
       \/ pod.state # "ready" /\ Ends

\* t3-idle.py in container c
IdleFor(c) == Least(age["db"], age[c])

\* kubectl exec; a pod that is gone, or no longer answers, ends the run
AskIdle(c, next) ==
    /\ At(c) /\ Quiet
    /\ \/ pod.state # "none" /\ IdleFor(c) >= Idle /\ Go(next)
       \/ (pod.state # "ready" \/ IdleFor(c) < Idle) /\ Ends

\* whatever pod has the name by now
Delete ==
    /\ At("delete") /\ Ends
    /\ pod' = IF pod.state = "none" THEN pod ELSE [pod EXCEPT !.state = "leaving"]
    /\ UNCHANGED <<want, age, uses, troubles>>

Job == LookWant \/ LookPod \/ LookWaiting \/ LookReady \/ AskIdle("t3", "sshd") \/ AskIdle("sshd", "delete") \/ Delete

\* a failing call, or activeDeadlineSeconds
JobFails ==
    /\ ~At("idle") /\ Ends /\ troubles < MaxUpset /\ troubles' = troubles + 1
    /\ UNCHANGED <<want, pod, age, uses>>

-----------------------------------------------------------------------------
(* The StatefulSet, the owner and the users *)

\* terminals go with their pod, T3's database stays; the new pod has the newest revision
Replaced ==
    \/ pod.state = "leaving" /\ pod' = [pod EXCEPT !.state = "none"]
       /\ age' = [u \in Use |-> IF u = "db" THEN age[u] ELSE Idle] /\ UNCHANGED <<want, rjob, uses, troubles>>
    \/ pod.state = "none" /\ pod' = [rev |-> want, state |-> "starting"] /\ UNCHANGED <<want, age, rjob, uses, troubles>>

Ready == pod.state = "starting" /\ pod' = [pod EXCEPT !.state = "ready"] /\ UNCHANGED <<want, age, rjob, uses, troubles>>

Upset ==
    /\ troubles < MaxUpset /\ troubles' = troubles + 1 /\ UNCHANGED <<age, rjob, uses>>
    /\ \/ want' \in Revision \ {want} /\ UNCHANGED pod
       \/ UNCHANGED want /\ pod.state \in {"ready", "starting", "crash"} /\ \E s \in {"leaving", "crash", "starting"} : pod' = [pod EXCEPT !.state = s]

Uses(u) ==
    /\ pod.state = "ready" \/ (u = "sshd" /\ pod.state \in {"starting", "crash"})
    /\ uses < MaxUse /\ uses' = uses + 1 /\ age' = [age EXCEPT ![u] = 0]
    /\ UNCHANGED <<want, pod, rjob, troubles>>

\* a run that is slower than its deadline is one that fails
Tick ==
    /\ rjob.since < Deadline
    /\ age' = [u \in Use |-> Least(age[u] + 1, Idle)]
    /\ rjob' = IF rjob.pc \in {"sshd", "delete"} THEN [rjob EXCEPT !.since = @ + 1] ELSE rjob
    /\ UNCHANGED <<want, pod, uses, troubles>>

RolloutNext == Job \/ JobFails \/ Replaced \/ Ready \/ Upset \/ Tick \/ \E u \in Use : Uses(u)

\* the CronJob runs again and again, its calls return, the controllers run
RolloutSpec ==
    RolloutInit /\ [][RolloutNext]_rolloutVars
    /\ WF_rolloutVars(Job) /\ WF_rolloutVars(Replaced) /\ WF_rolloutVars(Ready) /\ WF_rolloutVars(Tick)

-----------------------------------------------------------------------------
\* Nobody who has used the pod in the IDLE_SECONDS before the job looked loses it,
\* although the pod that is deleted need not be the one that was looked at.
UsersSpared ==
    At("delete") /\ ~rjob.crash => \A u \in Use : age[u] >= Idle \/ age[u] <= rjob.since

\* A pod on an old revision is replaced once it is left alone, or crash-loops.
RolledOut == (pod.rev # want) ~> (pod.rev = want)
=============================================================================
