--------------------------- MODULE SkillRotation ---------------------------
(***************************************************************************)
(* rotate-skills.py: replaces skills inside bundle.json of the Secret      *)
(* t3-runtime-inputs and the bundle's digest in runtime.json next to it.   *)
(* A run reads the Secret, checks it, writes a backup and patches the two  *)
(* keys if the resourceVersion is still the one it read.  Several runs may *)
(* overlap, be killed anywhere or lose the answer of the patch.  Meanwhile *)
(* an edit may leave a bundle that its digest does not cover, and the      *)
(* homelab's GitHub installer (inputs.py) may replace the whole Secret.    *)
(*                                                                         *)
(* A version of a skill is a number, new for every staging; the digest is  *)
(* the bundle it was made of.  The other inputs are one value.             *)
(***************************************************************************)
EXTENDS Naturals, FiniteSets

CONSTANTS
    Run,        \* overlapping runs
    Skill,      \* skill names
    MaxVersion, \* bound: skills staged
    MaxOwner,   \* bound: changes by others
    None

VARIABLES
    inputs,     \* the Secret: [rv, bundle, digest]
    run,        \* run[r]: [pc, new, gone, seen]: staged and removed skills, what was read
    backup,     \* backup[r]: the Secret in r's backup file, or None
    versions,   \* versions staged so far
    others,     \* changes by others so far
    installer,  \* the bundle that the GitHub installer has read, or None
    unreviewed, \* auxiliary: skills in the Secret that nobody reviewed
    owed,       \* auxiliary: owed[s]: what the last change of s put in the Secret
    undo        \* auxiliary: the Secret that the last patch replaced, and whose patch

\* None, for a skill that is not there, is not one of its versions.
SkillAssumption == None \notin Nat

skillVars == <<inputs, run, backup, versions, others, installer, unreviewed, owed, undo>>

Idle == [pc |-> "idle", new |-> [s \in Skill |-> None], gone |-> {}, seen |-> None]

\* skills written by one run share their version
First == [s \in Skill |-> 0]

SkillInit ==
    /\ inputs = [rv |-> 0, bundle |-> First, digest |-> First]
    /\ run = [r \in Run |-> Idle] /\ backup = [r \in Run |-> None]
    /\ versions = 0 /\ others = 0 /\ installer = None /\ unreviewed = {} /\ owed = First /\ undo = None

Move(r, pc) == run' = [run EXCEPT ![r].pc = pc]
Staged(r) == {s \in Skill : run[r].new[s] # None}

\* main(), rotate(): a skill is staged or removed, not both, and something is; the
\* backup must be a new file outside Git
Begin(r) ==
    /\ run[r].pc = "idle" /\ backup[r] = None /\ versions < MaxVersion
    /\ \E new \in SUBSET Skill, gone \in SUBSET Skill :
        /\ new \cup gone # {} /\ new \cap gone = {}
        /\ run' = [run EXCEPT ![r] = [Idle EXCEPT !.pc = "read", !.gone = gone,
                       !.new = [s \in Skill |-> IF s \in new THEN versions + 1 ELSE None]]]
    /\ versions' = versions + 1
    /\ UNCHANGED <<inputs, backup, others, installer, unreviewed, owed, undo>>

\* every digest of runtime.json fits its input
Reviewed(secret) == secret.digest = secret.bundle

Fits(r, secret) ==
    /\ Reviewed(secret)
    /\ \A s \in run[r].gone : secret.bundle[s] # None

Read(r) ==
    /\ run[r].pc = "read"
    /\ IF Fits(r, inputs)
         THEN run' = [run EXCEPT ![r].pc = "backup", ![r].seen = inputs]
         ELSE Move(r, "refused")
    /\ UNCHANGED <<inputs, backup, versions, others, installer, unreviewed, owed, undo>>

\* O_EXCL and fsync; --check ends here without it
Backup(r) ==
    /\ run[r].pc = "backup"
    /\ \/ backup' = [backup EXCEPT ![r] = run[r].seen] /\ Move(r, "patch")
       \/ UNCHANGED backup /\ Move(r, "checked")
    /\ UNCHANGED <<inputs, versions, others, installer, unreviewed, owed, undo>>

NewBundle(r) ==
    [s \in Skill |-> IF s \in run[r].gone THEN None
                     ELSE IF s \in Staged(r) THEN run[r].new[s] ELSE run[r].seen.bundle[s]]

\* the test operation of the patch
Unchanged(r) == inputs.rv = run[r].seen.rv

\* The patch replaces the two keys, or nothing; its answer may be lost
Patch(r) ==
    /\ run[r].pc = "patch" /\ Unchanged(r)
    /\ inputs' = [inputs EXCEPT !.rv = @ + 1, !.bundle = NewBundle(r), !.digest = NewBundle(r)]
    /\ owed' = [s \in Skill |-> IF s \in Staged(r) \cup run[r].gone THEN NewBundle(r)[s] ELSE owed[s]]
    /\ undo' = [by |-> r, was |-> inputs]
    /\ \E answered \in BOOLEAN : Move(r, IF answered THEN "done" ELSE "failed")
    /\ UNCHANGED <<backup, versions, others, installer, unreviewed>>

\* a conflict, an unreachable cluster or a kill; the backup file stays
Fails(r) ==
    /\ run[r].pc \in {"read", "backup", "patch"} /\ Move(r, "failed")
    /\ UNCHANGED <<inputs, backup, versions, others, installer, unreviewed, owed, undo>>

-----------------------------------------------------------------------------
(* Others *)

\* install_github() reads the inputs ...
InstallerReads ==
    /\ installer = None /\ others < MaxOwner /\ others' = others + 1
    /\ installer' = inputs.bundle
    /\ UNCHANGED <<inputs, run, backup, versions, unreviewed, owed, undo>>

\* ... and replaces the Secret as it is by then with them and with new digests of
\* everything; the owner is told to review the result before a start
InstallerPuts ==
    /\ installer # None /\ installer' = None
    /\ inputs' = [rv |-> inputs.rv + 1, bundle |-> installer, digest |-> installer]
    /\ owed' = installer /\ unreviewed' = {}
    /\ UNCHANGED <<run, backup, versions, others, undo>>

\* an edit of the bundle that leaves its digest behind (external)
Tamper(s) ==
    /\ others < MaxOwner /\ others' = others + 1 /\ versions < MaxVersion /\ versions' = versions + 1
    /\ inputs' = [inputs EXCEPT !.rv = @ + 1, !.bundle[s] = versions + 1]
    /\ unreviewed' = unreviewed \cup {versions + 1} /\ owed' = [owed EXCEPT ![s] = versions + 1]
    /\ UNCHANGED <<run, backup, installer, undo>>

SkillNext ==
    \/ \E r \in Run : Begin(r) \/ Read(r) \/ Backup(r) \/ Patch(r) \/ Fails(r)
    \/ InstallerReads \/ InstallerPuts \/ \E s \in Skill : Tamper(s)

SkillSpec == SkillInit /\ [][SkillNext]_skillVars

-----------------------------------------------------------------------------
\* What nobody reviewed is never made to pass the start-up's digest check by a
\* rotation of some other skill.
NothingBlessed == \A s \in Skill : inputs.digest[s] \notin unreviewed

\* No change of a skill is undone by a rotation that read the Secret before it.
ChangesKept == inputs.bundle = owed

\* Whatever a patch replaced is in the backup file of the run that made it, also
\* when that run was killed or never saw the answer.
UndoPossible == undo # None => backup[undo.by] = undo.was
=============================================================================
