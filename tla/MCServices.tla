---------------------------- MODULE MCServices ----------------------------
(***************************************************************************)
(* Services, checked in one run with the progress of its components.       *)
(***************************************************************************)
EXTENDS Services, TLC

-----------------------------------------------------------------------------
(* The values of the constants *)

\* a request that is streamed, one that is retried, and one that is never whole
MCBlock(k, n, t) == [kind |-> k, name |-> n, text |-> t]
MCRequest(s, tr, rep) == [msgs |-> <<1, 2>>, tries |-> tr, reply |-> rep, stream |-> s, whole |-> TRUE]
MCRequests ==
    {MCRequest(TRUE, <<"ok">>, <<MCBlock("thinking", None, <<1, 2>>), MCBlock("tool_use", 7, <<3>>)>>),
     MCRequest(FALSE, <<"error", "ok">>, <<MCBlock("text", None, <<1>>), MCBlock("tool_use", 7, << >>)>>),
     [MCRequest(TRUE, << >>, << >>) EXCEPT !.whole = FALSE]}

\* two torrents of one series that share episodes, and one Sonarr does not know
MCVideo(e, r, x) == [eps |-> e, right |-> r, rejected |-> x]
MCFiles ==
    [t \in 1 .. 3 |->
        CASE t = 1 -> {MCVideo({1}, TRUE, FALSE), MCVideo({2}, FALSE, FALSE)}
          [] t = 2 -> {MCVideo({1}, TRUE, FALSE), MCVideo({1, 2}, TRUE, FALSE)}
          [] OTHER -> {}]
MCSeries == [t \in 1 .. 3 |-> IF t = 3 THEN None ELSE 1]
MCWanted == [s \in {1} |-> {1, 2}]

MCStaged(e, sound, checks, contexts, rev) ==
    [env |-> e, sound |-> sound, checks |-> checks, contexts |-> contexts,
     repo |-> IF rev = 2 THEN "other" ELSE "project", rev |-> rev]
MCInputs ==
    {MCStaged("homelab", TRUE, TRUE, {}, 1), MCStaged("homelab", FALSE, TRUE, {}, 2),
     MCStaged("homelab", TRUE, FALSE, {}, 3),
     MCStaged("work", TRUE, TRUE, {"dev", "test"}, 1), MCStaged("work", TRUE, TRUE, {"dev"}, 2)}

MCReviewed(t, u, b) == [tenant |-> t, user |-> u, sub |-> b]
MCDefault == MCReviewed("t1", "ann", "s1")
MCScope == [c \in Context |-> IF c = "dev" THEN MCDefault ELSE MCReviewed("t1", "bob", "s2")]

ASSUME ServicesAssumption

-----------------------------------------------------------------------------
\* The fairness of the modules, each while its component is the one that moves; for
\* the strong ones, one formula says it of all three components that have any.
Weak ==
    /\ \A r \in NotionReq : WF_notionVars(active = "notion" /\ NL!Step(r) /\ ~(nreq[r].pc \in {"cred", "refused"}))
    /\ \A c \in Client : WF_writeVars(active = "writes" /\ VW!Work(c) /\ ~VW!At(c, "lock"))
    /\ WF_sidecarVars(active = "vault" /\ VS!Serve)
    /\ WF_keeperVars(active = "keeper" /\ KS!CutOff /\ stopping)
    /\ WF_keeperVars(active = "keeper" /\ KS!Take)
    /\ WF_keeperVars(active = "keeper" /\ (KS!Login \/ KS!Save \/ KS!SyncAndSelect \/ KS!Write \/ KS!ConfirmWrite))
    /\ WF_keeperVars(active = "keeper" /\ KS!Start)
    /\ WF_keeperVars(active = "keeper" /\ \E c \in Caller : KS!Refuse(c))
    /\ WF_emitVars(active = "emit" /\ TR!Sidecar) /\ WF_emitVars(active = "emit" /\ TR!Second)
    /\ WF_importVars(active = "import" /\ SI!RunStep) /\ WF_importVars(active = "import" /\ SI!ImportFile)
    /\ WF_unlinkVars(active = "unlink" /\ TU!Job)
    /\ WF_bootVars(active = "boot" /\ \E e \in Environments : WB!Start(e)) /\ WF_bootVars(active = "boot" /\ WB!StartUp)
    /\ WF_buildVars(active = "build" /\ IB!Tool) /\ WF_buildVars(active = "build" /\ IB!Kubernetes)
    /\ WF_rolloutVars(active = "rollout" /\ IR!Job) /\ WF_rolloutVars(active = "rollout" /\ IR!Replaced)
    /\ WF_rolloutVars(active = "rollout" /\ IR!Ready) /\ WF_rolloutVars(active = "rollout" /\ IR!Tick)
    /\ \A c \in Caller : WF_authVars(active = "auth" /\ WA!Proceed(c))
    /\ \A c \in GmailCall : WF_gmailVars(active = "gmail" /\ GC!CallStep(c))

strongVars == <<notionVars, writeVars, sidecarVars>>

Strong(i) ==
    \/ active = "notion" /\ UNCHANGED <<writeVars, sidecarVars>> /\ LET r == <<"r1", "r2">>[i] IN NL!Enter(r) \/ NL!Invalidate(r)
    \/ active = "writes" /\ UNCHANGED <<notionVars, sidecarVars>> /\ VW!Acquire(<<"c1", "c2">>[i])
    \/ active = "vault" /\ UNCHANGED <<notionVars, writeVars>> /\ i = 1 /\ VS!Watch /\ spc' # "watch"

Init == active \in Service /\ ServicesInit

Spec == Init /\ [][ServicesNext]_servicesVars /\ Weak /\ \A i \in 1 .. 2 : SF_strongVars(Strong(i))

-----------------------------------------------------------------------------
(* Properties *)

\* vault-client.py serve: the scope file and the agent's keys are only ever those
\* of an unlocked, loaded client, and when failures stop the sidecar settles.
VaultSidecarSettles ==
    /\ [](active = "vault" => VS!ScopeBacked /\ VS!KeysWhole)
    /\ active = "vault" => VS!SidecarSettles

\* What each service owes: Owed(i) is waiting for it, Paid(i) is its end.  One
\* request, client, caller or call stands for the others, which are like it.
Owed(i) ==
    \/ active = "notion" /\ i = 1 /\ nreq["r1"].pc # "idle"
    \/ active = "writes" /\ i = 1 /\ ~VW!At("c1", "new")
    \/ active = "keeper" /\ IF i = 1 THEN stopping ELSE i = 2 /\ call["c1"].pc = "sent"
    \/ active = "emit" /\ i = 1 /\ log["f1"].state = "closed"
    \/ active = "import" /\ tor[IF i = 1 THEN 1 ELSE 3].st = "finished"
    \/ active = "unlink" /\ i = 1 /\ upc = "walk"
    \/ active = "boot" /\ i = 1 /\ WB!Enrolled
    \/ active = "auth" /\ i = 1 /\ wcall["c1"].pc = "wait"
    \/ active = "gmail" /\ i = 1 /\ gcall["c1"].pc # "idle"
    \/ active = "build" /\ i = 1 /\ step = "job"
    \/ active = "rollout" /\ i = 1 /\ pod.rev # want

Paid(i) ==
    \/ active = "notion" /\ nreq["r1"].pc = "idle"
    \/ active = "writes" /\ VW!At("c1", "end")
    \/ active = "keeper" /\ IF i = 1 THEN kpc = "down" ELSE call["c1"].pc # "sent"
    \/ active = "emit" /\ ("f1" \in seen \/ log["f1"].state = "deleted")
    \/ active = "import" /\ LET t == tor[IF i = 1 THEN 1 ELSE 3] IN t.st = "removed" \/ t.tag # "open"
    \/ active = "unlink" /\ upc \in {"done", "aborted"}
    \/ active = "boot" /\ (WB!Running \/ ~WB!Enrolled)
    \/ active = "auth" /\ wcall["c1"].pc \in {"done", "idle"}
    \/ active = "gmail" /\ gcall["c1"].pc \in GC!Answers
    \/ active = "build" /\ made = {} /\ step \in {"exit", "dead"}
    \/ active = "rollout" /\ pod.rev = want

\* Nobody waits for ever, under the fairness of each module: a request for /notion
\* is answered, a vault command ends, a Keeper sidecar told to stop ends and no
\* caller waits for one that has left, a finished transcript is settled, a
\* finished torrent is judged, an unlink run ends, an enrolled home whose starts
\* were interrupted reaches t3 on acceptable inputs unless something in it stands
\* in the way of a start, a kubectl credential call
\* and a Gmail call end, of an image build nothing stays in its namespace, and a
\* new revision is rolled out.
ServicesProgress == \A i \in 1 .. 2 : Owed(i) ~> Paid(i)
=============================================================================
