----------------------------- MODULE GoogleGrant -----------------------------
(***************************************************************************)
(* The Google grant of the hub.  23.mcp-hub/tools/bootstrap-gmail.py asks  *)
(* the owner for consent in a browser and stores the refresh token, either *)
(* sops-encrypted in the repository (legacy hub) or in the Secret          *)
(* mcp-hub-gmail of the homelab instance.  Several runs may be under way,  *)
(* each may fail at every step and may be killed.                          *)
(*                                                                         *)
(* Google, the browser and kubectl answer as they like.  A grant carries   *)
(* the mailbox it opens and whether every scope was ticked.                *)
(***************************************************************************)
EXTENDS Naturals, FiniteSets

CONSTANTS
    Account,      \* mailboxes somebody may consent with
    Owner,        \* the mailbox the operator expects
    Run,          \* bootstrap runs, each with its path: "instance" or "legacy"
    PathOf,       \* PathOf[r]
    MaxKill,      \* bound: bootstrap runs killed
    None

VARIABLES
    vault,              \* the instance's Secret: grant and version, or None
    file,               \* the committed mcp-hub-gmail.enc.yaml, or None
    temp,               \* temp[r]: its temporary file: "plain", "sealed" or None
    boot,               \* boot[r]: the bootstrap run
    kills

\* No temporary file is not one of its forms.
GoogleAssumption == None \notin {"plain", "sealed"}

gvars == <<vault, file, temp, boot, kills>>

-----------------------------------------------------------------------------
(* bootstrap-gmail.py *)

Fails(r) == boot' = [boot EXCEPT ![r].pc = "failed"]

\* A grant: who consented, and whether with every scope
Grant(r, a, whole) == [run |-> r, acct |-> a, whole |-> whole]

\* main() and _authorize*(): the instance wants exactly its scopes and the account
\* that was typed in, the legacy hub every scope it asked for; both before
\* anything is written
Consents(r, g) == g.whole /\ (PathOf[r] = "instance" => g.acct = Owner)

\* The callback brings a code; code and verifier are traded for tokens and the
\* profile is read with them
Authorized(r) ==
    /\ boot[r].pc = "consent"
    /\ \E a \in Account, whole \in BOOLEAN :
          LET g == Grant(r, a, whole) IN
          IF Consents(r, g)
          THEN boot' = [boot EXCEPT ![r] = [pc |-> "read", grant |-> g, version |-> None]]
          ELSE Fails(r)
    /\ UNCHANGED <<vault, file, temp, kills>>

\* No callback in five minutes, another state, an error, no refresh token, or an
\* exception on the way.  A stray request ends the legacy wait; the instance
\* waits on.
Refused(r) ==
    /\ boot[r].pc = "consent"
    /\ Fails(r)
    /\ UNCHANGED <<vault, file, temp, kills>>

\* _write_instance_secret() reads the Secret, for its resourceVersion
ReadSecret(r) ==
    /\ boot[r].pc = "read" /\ PathOf[r] = "instance"
    /\ \/ boot' = [boot EXCEPT ![r].pc = "write",
                               ![r].version = IF vault = None THEN 0 ELSE vault.version]
       \/ Fails(r)
    /\ UNCHANGED <<vault, file, temp, kills>>

\* Mutant of Current: kubectl apply
CurrentAlways(r) == TRUE

\* kubectl create fails on a Secret that exists, kubectl replace on one that is
\* gone or has another resourceVersion
Current(r) == boot[r].version = (IF vault = None THEN 0 ELSE vault.version)

WriteSecret(r) ==
    /\ boot[r].pc = "write" /\ PathOf[r] = "instance"
    /\ IF Current(r)
       THEN /\ vault' = [grant |-> boot[r].grant, version |-> boot[r].version + 1]
            /\ boot' = [boot EXCEPT ![r].pc = "done"]
       ELSE /\ UNCHANGED vault
            /\ Fails(r)
    /\ UNCHANGED <<file, temp, kills>>

\* _write_secret(): a plaintext temporary file beside the committed one ...
WriteTemp(r) ==
    /\ boot[r].pc = "read" /\ PathOf[r] = "legacy"
    /\ temp' = [temp EXCEPT ![r] = "plain"]
    /\ boot' = [boot EXCEPT ![r].pc = "seal"]
    /\ UNCHANGED <<vault, file, kills>>

\* ... is encrypted in place; when sops fails it is unlinked
Seal(r) ==
    /\ boot[r].pc = "seal"
    /\ \/ /\ temp' = [temp EXCEPT ![r] = "sealed"]
          /\ boot' = [boot EXCEPT ![r].pc = "replace"]
       \/ /\ temp' = [temp EXCEPT ![r] = None]
          /\ Fails(r)
    /\ UNCHANGED <<vault, file, kills>>

\* ... and moved into place
Replace(r) ==
    /\ boot[r].pc = "replace"
    /\ file' = [grant |-> boot[r].grant, form |-> temp[r]]
    /\ temp' = [temp EXCEPT ![r] = None]
    /\ boot' = [boot EXCEPT ![r].pc = "done"]
    /\ UNCHANGED <<vault, kills>>

Killed(r) ==
    /\ boot[r].pc \notin {"done", "failed"}
    /\ kills < MaxKill
    /\ kills' = kills + 1
    /\ boot' = [boot EXCEPT ![r].pc = "killed"]
    /\ UNCHANGED <<vault, file, temp>>

-----------------------------------------------------------------------------
GoogleInit ==
    /\ vault = None /\ file = None
    /\ temp = [r \in Run |-> None]
    /\ boot = [r \in Run |-> [pc |-> "consent", grant |-> None, version |-> None]]
    /\ kills = 0

BootStep(r) ==
    \/ Authorized(r) \/ Refused(r) \/ ReadSecret(r) \/ WriteSecret(r)
    \/ WriteTemp(r) \/ Seal(r) \/ Replace(r) \/ Killed(r)

GoogleNext == \E r \in Run : BootStep(r)

GoogleSpec == GoogleInit /\ [][GoogleNext]_gvars

-----------------------------------------------------------------------------
(* Properties *)

GoogleTypeOK ==
    /\ temp \in [Run -> {"plain", "sealed", None}]
    /\ \A r \in Run : boot[r].pc \in
           {"consent", "read", "write", "seal", "replace", "done", "failed", "killed"}

\* What is stored is a whole grant: of the expected mailbox in the instance, and
\* encrypted in the repository, however many runs fail or are killed on the way;
\* a plaintext is left behind only by a run that was killed (_write_secret).
StoredWhole ==
    /\ vault # None => vault.grant.whole /\ vault.grant.acct = Owner
    /\ file # None => file.grant.whole /\ file.form = "sealed"
    /\ \A r \in Run : temp[r] = "plain" => boot[r].pc \in {"seal", "killed"}

\* A grant that was staged is replaced only by a run that read the Secret after it
\* was staged: of two runs at the same time the later write is refused, never
\* the earlier grant lost unseen (_write_instance_secret).
NoneOverwritten ==
    vault' # vault => \A r \in Run :
        boot[r].pc = "done" /\ vault # None /\ vault.grant = boot[r].grant =>
            \E q \in Run : vault'.grant = boot[q].grant /\ boot[q].version = vault.version
=============================================================================
