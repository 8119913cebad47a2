------------------------------ MODULE Services ------------------------------
(***************************************************************************)
(* The services and jobs of the cluster, composed: they share no state.    *)
(* Every instance keeps its own variables, constants and bounds.  The      *)
(* values for TLC, the fairness and the progress are in MCServices, the    *)
(* proofs in ServiceProofs.                                                *)
(***************************************************************************)
EXTENDS Integers, Sequences, FiniteSets, Composition

CONSTANTS
    NotionReq, NotionLife, NotionFlush, NotionPairs, NotionConsents, NotionTime, NotionCrashes,
    Client, Item, First, Field,
    Keys, Retries, MaxMisses, MaxVersion, MaxServeFault,
    Caller, MaxKeeperLogin, MaxStop,
    Log, Requests, Stable, MaxAttempts, MaxPieces, MaxSeen, MaxRestart,
    Torrent, Series, Files, Wanted, MaxDeath,
    TempPath, LibPath, Inode, Batch, MaxChange,
    Environments, Inputs, MaxFault, MaxStage,
    Context, Scope, Default, User, MaxLogin, MaxUpset,
    GmailCall, TokenLife, Margin, LabelLife, MaxTime, MaxRename,
    MaxCallFail, Starting, MaxAlter,
    IdleSeconds, RolloutDeadline, Revision, MaxUse

VARIABLES
    ntime, nissued, nvalid, nrevoked, nsecret, ngrant, nholder, nreq, nboot, nrestarts, nlost,
    vault, cache, wlock, cmd, cl, late, due,
    spc, login, cached, server, tries, misses, scopeFile, version, agent, next, faults,
    kpc, session, stopping, llock, kcode, shown, job, call, stops, cut, replayed,
    log, backlog, epc, seen, attempts, todo, emitted, skipped, paused, restarted,
    tor, have, ipc, listed, cur, picked, command, verdict, deaths, cutOff,
    inodeOf, holds, bad, upc, held, walked, rows, names, attempted, changes, touched, claimed, lost, taken,
    wenv, wpc, mounted, marker, imported, part, snapshot, kube, blocked, project, litter, written, upsets, stages,
    azSession, azLock, wcall, logins, mishaps,
    clock, ended, token, tokenLock, labelLock, label, replaced, lcache, gcall,
    step, authed, made, kaniko, pushed, overdue, result, delTries, exit, failures,
    tree, work, instpc, printed, altered,
    want, pod, age, rjob, uses, troubles

notionVars == <<ntime, nissued, nvalid, nrevoked, nsecret, ngrant, nholder, nreq, nboot, nrestarts, nlost>>
writeVars == <<vault, cache, wlock, cmd, cl, late, due>>
sidecarVars == <<spc, login, cached, server, tries, misses, scopeFile, version, agent, next, faults>>
keeperVars == <<kpc, session, stopping, llock, kcode, shown, job, call, stops, cut, replayed>>
emitVars == <<log, backlog, epc, seen, attempts, todo, emitted, skipped, paused, restarted>>
importVars == <<tor, have, ipc, listed, cur, picked, command, verdict, deaths, cutOff>>
unlinkVars == <<inodeOf, holds, bad, upc, held, walked, rows, names, attempted, changes, touched, claimed, lost, taken>>
bootVars == <<wenv, wpc, mounted, marker, imported, part, snapshot, kube, blocked, project, litter, written, upsets, stages>>
authVars == <<azSession, azLock, wcall, logins, mishaps>>
gmailVars == <<clock, ended, token, tokenLock, labelLock, label, replaced, lcache, gcall>>
buildVars == <<step, authed, made, kaniko, pushed, overdue, result, delTries, exit, failures>>
safetyVars == <<tree, work, instpc, printed, altered>>
rolloutVars == <<want, pod, age, rjob, uses, troubles>>
servicesVars ==
    <<active, notionVars, writeVars, sidecarVars, keeperVars, emitVars,
      importVars, unlinkVars, bootVars, authVars, gmailVars, buildVars, safetyVars, rolloutVars>>

Service == {"notion", "writes", "vault", "keeper", "emit", "import", "unlink", "boot", "auth", "gmail",
            "build", "safety", "rollout"}

-----------------------------------------------------------------------------
(* The instances.  NotionGrant is here for its progress; Tools has its     *)
(* safety, with more pairs and consents.                                   *)

NL == INSTANCE NotionGrant WITH
        time <- ntime, issued <- nissued, valid <- nvalid, revoked <- nrevoked, secret <- nsecret, grant <- ngrant,
        holder <- nholder, req <- nreq, boot <- nboot, restarts <- nrestarts, lost <- nlost,
        Req <- NotionReq, TokenLife <- NotionLife, FlushEvery <- NotionFlush, MaxPair <- NotionPairs,
        MaxConsent <- NotionConsents, MaxTime <- NotionTime, MaxCrash <- NotionCrashes
VW == INSTANCE VaultWrites
VS == INSTANCE VaultSidecar WITH MaxFault <- MaxServeFault
KS == INSTANCE KeeperSidecar WITH code <- kcode, MaxLogin <- MaxKeeperLogin
TR == INSTANCE Transcripts WITH File <- Log
SI == INSTANCE SeadexImport
TU == INSTANCE TempUnlink
WB == INSTANCE WorkspaceBoot
WA == INSTANCE WorkAuth WITH session <- azSession, alock <- azLock
GC == INSTANCE GmailCalls WITH revoked <- ended, alock <- tokenLock, llock <- labelLock, call <- gcall, Call <- GmailCall
IB == INSTANCE ImageBuild WITH tries <- delTries
SF == INSTANCE SafetyInstall WITH ipc <- instpc, seen <- printed, MaxEdit <- MaxAlter, Start <- Starting
IR == INSTANCE IdleRollout WITH Idle <- IdleSeconds, Deadline <- RolloutDeadline

ServicesAssumption ==
    /\ NL!GrantAssumption /\ VW!VaultAssumption /\ KS!KeeperAssumption /\ SI!ImportAssumption
    /\ TU!UnlinkAssumption /\ WB!WorkspaceAssumption /\ WA!WorkAuthAssumption /\ GC!GmailAssumption
    /\ IB!BuildAssumption /\ IR!RolloutAssumption /\ TR!EmitAssumption /\ VS!SidecarAssumption

-----------------------------------------------------------------------------
ServicesInit ==
    /\ NL!GrantInit /\ VW!VaultInit /\ VS!SidecarInit /\ KS!KeeperInit /\ SI!ImportInit
    /\ WA!WorkAuthInit /\ GC!GmailInit /\ SF!InstallInit
    /\ authed \in InitialChoice("build", BOOLEAN, FALSE) /\ IB!BuildInit
    /\ backlog \in InitialChoice("emit", BOOLEAN, FALSE) /\ TR!EmitInit
    /\ inodeOf \in InitialChoice("unlink", [TU!Path -> Inode \cup {None}],
                                 [p \in TU!Path |-> CHOOSE i \in Inode : TRUE])
    /\ holds \in InitialChoice("unlink", SUBSET TempPath, {}) /\ TU!UnlinkInit
    /\ wenv \in InitialChoice("boot", Environments, CHOOSE e \in Environments : TRUE)
    /\ mounted \in InitialChoice("boot", Inputs, CHOOSE i \in Inputs : TRUE)
    /\ imported \in InitialChoice("boot", BOOLEAN, FALSE) /\ WB!WorkspaceInit
    /\ want \in InitialChoice("rollout", Revision, CHOOSE r \in Revision : TRUE)
    /\ pod \in InitialChoice("rollout", [rev : Revision, state : {"ready"}],
                             [rev |-> CHOOSE r \in Revision : TRUE, state |-> "ready"]) /\ IR!RolloutInit

NotionStep ==
    active = "notion" /\ NL!GrantNext
    /\ UNCHANGED <<active, writeVars, sidecarVars, keeperVars, emitVars, importVars, unlinkVars, bootVars, authVars, gmailVars, buildVars, safetyVars, rolloutVars>>

VaultWriteStep ==
    active = "writes" /\ VW!VaultNext
    /\ UNCHANGED <<active, notionVars, sidecarVars, keeperVars, emitVars, importVars, unlinkVars, bootVars, authVars, gmailVars, buildVars, safetyVars, rolloutVars>>

VaultSidecarStep ==
    active = "vault" /\ VS!SidecarNext
    /\ UNCHANGED <<active, notionVars, writeVars, keeperVars, emitVars, importVars, unlinkVars, bootVars, authVars, gmailVars, buildVars, safetyVars, rolloutVars>>

KeeperStep ==
    active = "keeper" /\ KS!KeeperNext
    /\ UNCHANGED <<active, notionVars, writeVars, sidecarVars, emitVars, importVars, unlinkVars, bootVars, authVars, gmailVars, buildVars, safetyVars, rolloutVars>>

TranscriptStep ==
    active = "emit" /\ TR!EmitNext
    /\ UNCHANGED <<active, notionVars, writeVars, sidecarVars, keeperVars, importVars, unlinkVars, bootVars, authVars, gmailVars, buildVars, safetyVars, rolloutVars>>

ImportStep ==
    active = "import" /\ SI!ImportNext
    /\ UNCHANGED <<active, notionVars, writeVars, sidecarVars, keeperVars, emitVars, unlinkVars, bootVars, authVars, gmailVars, buildVars, safetyVars, rolloutVars>>

UnlinkStep ==
    active = "unlink" /\ TU!UnlinkNext
    /\ UNCHANGED <<active, notionVars, writeVars, sidecarVars, keeperVars, emitVars, importVars, bootVars, authVars, gmailVars, buildVars, safetyVars, rolloutVars>>

WorkspaceStep ==
    active = "boot" /\ WB!WorkspaceNext
    /\ UNCHANGED <<active, notionVars, writeVars, sidecarVars, keeperVars, emitVars, importVars, unlinkVars, authVars, gmailVars, buildVars, safetyVars, rolloutVars>>

WorkAuthStep ==
    active = "auth" /\ WA!WorkAuthNext
    /\ UNCHANGED <<active, notionVars, writeVars, sidecarVars, keeperVars, emitVars, importVars, unlinkVars, bootVars, gmailVars, buildVars, safetyVars, rolloutVars>>

GmailStep ==
    active = "gmail" /\ GC!GmailNext
    /\ UNCHANGED <<active, notionVars, writeVars, sidecarVars, keeperVars, emitVars, importVars, unlinkVars, bootVars, authVars, buildVars, safetyVars, rolloutVars>>

ImageBuildStep ==
    active = "build" /\ IB!BuildNext
    /\ UNCHANGED <<active, notionVars, writeVars, sidecarVars, keeperVars, emitVars, importVars, unlinkVars, bootVars, authVars, gmailVars, safetyVars, rolloutVars>>

SafetyInstallStep ==
    active = "safety" /\ SF!InstallNext
    /\ UNCHANGED <<active, notionVars, writeVars, sidecarVars, keeperVars, emitVars, importVars, unlinkVars, bootVars, authVars, gmailVars, buildVars, rolloutVars>>

IdleRolloutStep ==
    active = "rollout" /\ IR!RolloutNext
    /\ UNCHANGED <<active, notionVars, writeVars, sidecarVars, keeperVars, emitVars, importVars, unlinkVars, bootVars, authVars, gmailVars, buildVars, safetyVars>>

ServicesNext ==
    \/ NotionStep \/ VaultWriteStep \/ VaultSidecarStep \/ KeeperStep \/ TranscriptStep
    \/ ImportStep \/ UnlinkStep \/ WorkspaceStep \/ WorkAuthStep \/ GmailStep
    \/ ImageBuildStep \/ SafetyInstallStep \/ IdleRolloutStep

ServicesSpec == active \in Service /\ ServicesInit /\ [][ServicesNext]_servicesVars

-----------------------------------------------------------------------------
(* Properties *)

\* vault-client.py add, update, attach: a confirmed update is not lost to another
\* client of the pod, and an item with an attachment always has an intact one.
VaultWritesKept ==
    active = "writes" => VW!VaultWritesKept

\* keeper-client.py and t3-build.py: what a command reports is true, and no clone
\* code is presented twice unless a login was cut off before it was saved.
ReportsHonest ==
    /\ active = "keeper" => KS!ReportsHonest
    /\ active = "build" => IB!BuildTypeOK /\ IB!ExitTells

\* emit-transcripts.py: a request is printed once and whole, over restarts, the
\* pruning of `seen` and files that are still being written.
TranscriptsWhole ==
    active = "emit" => TR!EmittedOnce /\ TR!EmittedWhole

\* seadexarr-import.py: a series with gaps is reported and an episode is imported once,
\* over runs that die and torrents that share episodes.
ImportSound ==
    active = "import" => SI!ImportSound

\* temp-redundant-name-unlink.py: no inode loses its last name and none that a torrent
\* holds loses any, while others link, move and delete.
UnlinkSafe ==
    active = "unlink" => TU!UnlinkSafe

\* isolated-config.py, the entrypoint, cc-safety-net-install.py and idle-rollout.sh: a
\* home is never built from the other environment's inputs, t3 runs only on a whole
\* configuration of the mounted ones, however many interrupted starts went before,
\* none of them leaves half an artifact that stops the next, and the job that rolls
\* a new revision out does not take a pod from who is using it.
WorkspaceWhole ==
    /\ active = "boot" => WB!WorkspaceWhole
    /\ active = "safety" => SF!NeverHalf /\ SF!EntryReviewed
    /\ active = "rollout" => IR!UsersSpared

\* work-aks-auth.py: kubectl gets no token but that of the reviewed user, although
\* somebody else may log in meanwhile.
WorkAuthReviewed ==
    active = "auth" => WA!WorkAuthReviewed

\* gmail_mcp.py: concurrent calls share one token and one label cache without a
\* needless refusal and without a label older than its lease.
GmailCallsSound ==
    active = "gmail" => GC!GmailCallsSound
=============================================================================
