----------------------------- MODULE ImageBuild -----------------------------
(***************************************************************************)
(* t3-build.py: one image built by a kaniko Job in the builder namespace.  *)
(* The tool creates the Job, then the registry Secret and the context      *)
(* ConfigMap the Job owns, follows the log, polls the Job's conditions and *)
(* deletes all three.  Kubernetes (external) starts the pod when what it   *)
(* mounts is there, ends it at its deadline and removes a finished Job     *)
(* after its TTL, and with a Job everything it owns.                       *)
(*                                                                         *)
(* A kubectl call may fail although the API server did what it asked.      *)
(***************************************************************************)
EXTENDS Naturals, FiniteSets

CONSTANTS
    MaxCallFail,    \* bound: kubectl calls that fail
    None

BuildAssumption == MaxCallFail \in Nat /\ None \notin Nat

VARIABLES
    step,       \* where the tool stands; "dead" once it is killed
    authed,     \* --docker-config was given
    made,       \* what is in the namespace, of "job", "secret" and "context"
    kaniko,     \* the Job: "none", "waiting", "building", "complete" or "failed"
    pushed,     \* the registry has the image
    overdue,    \* TIMEOUT has passed since the build started
    result,     \* what build() returned: 0, 1, or None while it has not
    tries,      \* calls of kubectl delete so far
    exit,       \* the exit code of the tool
    failures

buildVars == <<step, authed, made, kaniko, pushed, overdue, result, tries, exit, failures>>
cluster == <<made, kaniko, pushed>>

BuildInit ==
    /\ step = "idle" /\ authed \in BOOLEAN /\ made = {} /\ kaniko = "none"
    /\ pushed = FALSE /\ overdue = FALSE
    /\ result = None /\ tries = 0 /\ exit = None /\ failures = 0

BuildTypeOK ==
    /\ step \in {"idle", "job", "secret", "context", "poll", "cleanup", "exit", "dead"}
    /\ made \subseteq {"job", "secret", "context"}
    /\ kaniko \in {"none", "waiting", "building", "complete", "failed"}
    /\ {authed, pushed, overdue} \subseteq BOOLEAN
    /\ result \in {0, 1, None} /\ exit \in {0, 1, 2, None}
    /\ tries \in 0 .. 2 /\ failures \in 0 .. MaxCallFail

Fail == failures < MaxCallFail /\ failures' = failures + 1

-----------------------------------------------------------------------------
(* The tool *)

\* parse() and the template: nothing exists yet, so a refusal ends the tool at once
Begin ==
    /\ step = "idle"
    /\ \/ step' = "job" /\ UNCHANGED <<exit, failures>>
       \/ Fail /\ step' = "exit" /\ exit' = 1
    /\ UNCHANGED <<authed, cluster, overdue, result, tries>>

\* build() ends with an exception, which main()'s finally turns into a cleanup
Raise == step' = "cleanup" /\ result' = 1

CreateJob ==
    /\ step = "job"
    /\ \/ /\ made' = made \cup {"job"} /\ kaniko' = "waiting"
          /\ step' = IF authed THEN "secret" ELSE "context"
          /\ UNCHANGED <<result, failures>>
       \/ /\ Fail /\ Raise
          /\ \/ made' = made \cup {"job"} /\ kaniko' = "waiting"
             \/ UNCHANGED <<made, kaniko>>
    /\ UNCHANGED <<authed, pushed, overdue, tries, exit>>

\* create() of an object the Job owns; without the Job the garbage collector has
\* nothing to keep it for (Collect)
Create(what, next) ==
    /\ step = what
    /\ \/ made' = made \cup {what} /\ step' = next /\ UNCHANGED <<result, failures>>
       \/ Fail /\ Raise /\ made' \in {made, made \cup {what}}
    /\ UNCHANGED <<authed, kaniko, pushed, overdue, tries, exit>>

\* the log ends with the build, or the stream breaks, or TIMEOUT passes
Follows == Create("secret", "context") \/ Create("context", "poll")

\* the conditions Complete and SuccessCriteriaMet
Completed == kaniko = "complete"

\* One look at the conditions; a Job that the TTL took raises
Poll ==
    /\ step = "poll"
    /\ \/ Completed /\ step' = "cleanup" /\ result' = 0 /\ UNCHANGED failures
       \/ ~Completed /\ (kaniko = "failed" \/ overdue) /\ Raise /\ UNCHANGED failures
       \/ kaniko = "none" /\ Raise /\ UNCHANGED failures
       \/ Fail /\ Raise
    /\ UNCHANGED <<authed, cluster, overdue, tries, exit>>

\* Ctrl-C: during the build it leads to the cleanup, during the cleanup out of it
Interrupt ==
    /\ Fail
    /\ \/ step \in {"job", "secret", "context", "poll"} /\ Raise /\ UNCHANGED exit
       \/ step = "cleanup" /\ step' = "exit" /\ exit' = 1 /\ UNCHANGED result
    /\ UNCHANGED <<authed, cluster, overdue, tries>>

\* the exit code of main()
Code(cleaned) == IF result = 0 /\ ~cleaned THEN 2 ELSE result

\* cleanup(): one kubectl delete of three names, tried twice; a failing one may have
\* deleted some of them
Deleted(rest) ==
    /\ made' = rest
    /\ kaniko' = IF "job" \in rest THEN kaniko ELSE "none"

Cleanup ==
    /\ step = "cleanup" /\ tries' = tries + 1
    /\ \/ Deleted({}) /\ step' = "exit" /\ exit' = Code(TRUE) /\ UNCHANGED failures
       \/ /\ Fail /\ \E rest \in SUBSET made : Deleted(rest)
          /\ IF tries' = 2 THEN step' = "exit" /\ exit' = Code(FALSE) ELSE UNCHANGED <<step, exit>>
    /\ UNCHANGED <<authed, pushed, overdue, result>>

\* SIGKILL, or the workspace pod goes: no finally runs
Killed ==
    /\ step \notin {"idle", "exit", "dead"} /\ step' = "dead"
    /\ UNCHANGED <<authed, cluster, overdue, result, tries, exit, failures>>

Tool == Begin \/ CreateJob \/ Follows \/ Poll \/ Cleanup

-----------------------------------------------------------------------------
(* The template, as Kubernetes and kaniko carry it out *)

\* the ConfigMap volume is required, the Secret's only when --docker-config was given
Mountable == "context" \in made /\ (authed => "secret" \in made)

PodStarts ==
    /\ kaniko = "waiting" /\ Mountable /\ kaniko' = "building"
    /\ UNCHANGED <<step, authed, made, pushed, overdue, result, tries, exit, failures>>

\* kaniko pushes before it exits
Push ==
    /\ kaniko = "building" /\ pushed' = TRUE
    /\ UNCHANGED <<step, authed, made, kaniko, overdue, result, tries, exit, failures>>

Complete ==
    /\ kaniko = "building" /\ pushed /\ kaniko' = "complete"
    /\ UNCHANGED <<step, authed, made, pushed, overdue, result, tries, exit, failures>>

\* a failing build (no retry), or activeDeadlineSeconds
Deadline ==
    /\ kaniko \in {"waiting", "building"} /\ kaniko' = "failed"
    /\ UNCHANGED <<step, authed, made, pushed, overdue, result, tries, exit, failures>>

\* ttlSecondsAfterFinished
Expire ==
    /\ kaniko \in {"complete", "failed"} /\ kaniko' = "none" /\ made' = made \ {"job"}
    /\ UNCHANGED <<step, authed, pushed, overdue, result, tries, exit, failures>>

\* ownerReferences: what the Job owned goes with it
Collect ==
    /\ "job" \notin made /\ made # {} /\ made' = {}
    /\ UNCHANGED <<step, authed, kaniko, pushed, overdue, result, tries, exit, failures>>

\* TIMEOUT is longer than the Job's own deadline
Elapse ==
    /\ step \in {"secret", "context", "poll"} /\ kaniko \notin {"waiting", "building"} /\ ~overdue /\ overdue' = TRUE
    /\ UNCHANGED <<step, authed, cluster, result, tries, exit, failures>>

Kubernetes == Deadline \/ Expire \/ Collect

BuildNext ==
    \/ Tool \/ Interrupt \/ Killed
    \/ PodStarts \/ Push \/ Complete \/ Kubernetes \/ Elapse

\* kubectl's calls return; a Job ends by its deadline, and the controllers run
BuildSpec == BuildInit /\ [][BuildNext]_buildVars /\ WF_buildVars(Tool) /\ WF_buildVars(Kubernetes)

-----------------------------------------------------------------------------
\* The exit code tells the truth: 0 and 2 only when the image is in the registry,
\* and 0 only when nothing of the build is left behind.
ExitTells ==
    step = "exit" =>
        /\ exit # 1 => pushed
        /\ exit = 0 => made = {}

\* Whatever ends the tool, and however its calls failed, the namespace is empty in
\* the end: the registry credentials do not stay.
NothingStays == (step = "job") ~> (made = {} /\ step \in {"exit", "dead"})
=============================================================================
