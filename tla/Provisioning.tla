---------------------------- MODULE Provisioning ----------------------------
(***************************************************************************)
(* How a workspace backend gets its credentials.  provision.py (work) and  *)
(* inputs.py (homelab) mint a model and a hub token into the Secret        *)
(* t3-runtime-grants, register them with the model proxy and the hub, add  *)
(* a GitHub token, and stage t3-runtime-inputs with the digests of the     *)
(* grants; the pod refuses to start when the two Secrets disagree.  Every  *)
(* kubectl call is a step: a run may stop after any of them, several runs  *)
(* may overlap, and a command may be given in any order: a guard is what   *)
(* the tool checks.  The work tool only creates Secrets, or patches the    *)
(* version it read; the homelab tool replaces whatever is there.           *)
(*                                                                         *)
(* The two environments share no Secret, no hub and no prefix of a model   *)
(* key, so a behaviour is of one of them (`site`).  Tokens are numbers:    *)
(* the model and the hub token minted together share one.  A digest is the *)
(* token.                                                                  *)
(***************************************************************************)
EXTENDS Integers

CONSTANTS
    Operator,   \* overlapping runs of the site's tool
    MaxMint,    \* bound: tokens minted or entered
    MaxStop,    \* bound: runs that stop half way
    None

VARIABLES
    site,       \* "homelab" or "work"
    grants,     \* t3-runtime-grants: [pair, github], or None
    upstream,   \* mcp-hub-searxng of the work hub, or None
    hubreg,     \* mcp-hub-instance: [client, upstream], or None
    keys,       \* the model proxy's client keys of this site: pairs
    staged,     \* t3-runtime-inputs: the grants it was made for, or None
    pod,        \* "none", "waiting" or "running"
    held,       \* the grants in the running container's environment
    oprun,      \* oprun[r]: [pc, cmd, seen, up, fresh]: fresh if it minted what it holds
    finished,   \* a `grants` run has reported success
    crossed,    \* auxiliary: a homelab run has put fresh grants over another run's
    minted,     \* tokens so far
    dropped     \* runs that stopped half way

provisionVars == <<site, grants, upstream, hubreg, keys, staged, pod, held, oprun,
                   finished, crossed, minted, dropped>>

Grant == [pair : Nat, github : Nat \cup {None}]
Registration == [client : Nat \cup {None}, upstream : Nat \cup {None}]
Rest == [pc |-> "rest", cmd |-> None, seen |-> None, up |-> None, fresh |-> FALSE]

ProvisionInit ==
    /\ site \in {"homelab", "work"}
    /\ hubreg = IF site = "homelab" THEN [client |-> None, upstream |-> None] ELSE None
    /\ grants = None /\ upstream = None /\ keys = {} /\ staged = None
    /\ pod = "none" /\ held = None /\ oprun = [r \in Operator |-> Rest]
    /\ finished = FALSE /\ crossed = FALSE /\ minted = 0 /\ dropped = 0

Home(r, pc) == site = "homelab" /\ oprun[r].pc = pc
Work(r, pc) == site = "work" /\ oprun[r].pc = pc
Step(r, pc) == oprun' = [oprun EXCEPT ![r].pc = pc]
See(r, pc, g) == oprun' = [oprun EXCEPT ![r].pc = pc, ![r].seen = g]
Quit(r) == oprun' = [oprun EXCEPT ![r] = Rest]
Mint == minted < MaxMint /\ minted' = minted + 1

cluster == <<site, grants, upstream, hubreg, keys, staged>>
pods == <<pod, held>>
book == <<finished, crossed, minted, dropped>>

\* Every command but the work tool's `grants` begins with require_stopped, and the
\* homelab `provision` goes on only without inputs
Start(r, cmd) ==
    /\ oprun[r].pc = "rest" /\ (cmd = "inputs" => site = "work")
    /\ (site = "work" /\ cmd = "grants") \/ pod = "none"
    /\ site = "homelab" /\ cmd = "grants" => staged = None
    /\ oprun' = [oprun EXCEPT ![r] = [Rest EXCEPT !.pc = cmd, !.cmd = cmd]]
    /\ UNCHANGED <<cluster, pods, book>>

Done(r) ==
    /\ finished' = (finished \/ oprun[r].cmd = "grants")
    /\ Quit(r) /\ UNCHANGED <<crossed, minted, dropped>>

\* grants() reads the runtime Secret
WorkReads(r) ==
    /\ Work(r, "grants") /\ See(r, IF grants = None THEN "mint" ELSE "upstream", grants)
    /\ UNCHANGED <<cluster, pods, book>>

\* create_secret(): the API server refuses a second one
WorkMints(r) ==
    /\ Work(r, "mint")
    /\ \/ /\ grants = None /\ Mint /\ grants' = [pair |-> minted', github |-> None]
          /\ See(r, "upstream", grants')
          /\ UNCHANGED <<site, upstream, hubreg, keys, staged, pods, finished, crossed, dropped>>
       \/ grants # None /\ Quit(r) /\ UNCHANGED <<cluster, pods, book>>

\* The searxng token: read, or created and read
WorkUpstream(r) ==
    /\ Work(r, "upstream")
    /\ IF upstream = None THEN Mint /\ upstream' = minted' ELSE UNCHANGED <<upstream, minted>>
    /\ oprun' = [oprun EXCEPT ![r].pc = "hub", ![r].up = upstream']
    /\ UNCHANGED <<site, grants, hubreg, keys, staged, pods, finished, crossed, dropped>>

\* mcp-hub-instance: created, or compared and never changed
WorkHub(r) ==
    LET desired == [client |-> oprun[r].seen.pair, upstream |-> oprun[r].up] IN
    /\ Work(r, "hub")
    /\ \/ hubreg = None /\ hubreg' = desired /\ Step(r, "model")
       \/ hubreg = desired /\ UNCHANGED hubreg /\ Step(r, "model")
       \/ hubreg \notin {None, desired} /\ UNCHANGED hubreg /\ Quit(r)
    /\ UNCHANGED <<site, grants, upstream, keys, staged, pods, book>>

\* register_model, register_model_key: no other key of the list read here may share
\* the masked prefix ...
ReadKeys(r) ==
    /\ oprun[r].pc = "model"
    /\ IF keys \subseteq {oprun[r].seen.pair} THEN Step(r, "key") ELSE Quit(r)
    /\ UNCHANGED <<cluster, pods, book>>

\* ... and a later PATCH appends this one
Register(r) ==
    /\ oprun[r].pc = "key" /\ keys' = keys \cup {oprun[r].seen.pair}
    /\ IF site = "homelab" THEN Step(r, "digest") /\ UNCHANGED book ELSE Done(r)
    /\ UNCHANGED <<site, grants, upstream, hubreg, staged, pods>>

\* github() of the work tool: read, prompt and ask GitHub, ...
WorkAsks(r) ==
    /\ Work(r, "github")
    /\ IF grants # None /\ grants.github = None THEN See(r, "patch", grants) ELSE Quit(r)
    /\ UNCHANGED <<cluster, pods, book>>

\* ... then a patch that tests the resourceVersion it read
WorkPatches(r) ==
    /\ Work(r, "patch") /\ Mint
    /\ grants' = IF grants = oprun[r].seen THEN [grants EXCEPT !.github = minted'] ELSE grants
    /\ Quit(r) /\ UNCHANGED <<site, upstream, hubreg, keys, staged, pods, finished, crossed, dropped>>

\* inputs(): the digests of the grants read here ...
WorkInputs(r) ==
    /\ Work(r, "inputs")
    /\ IF grants # None /\ grants.github # None THEN See(r, "stage", grants) ELSE Quit(r)
    /\ UNCHANGED <<cluster, pods, book>>

\* ... go, validated, into a Secret that must not exist yet
WorkStages(r) ==
    /\ Work(r, "stage")
    /\ \/ /\ staged = None /\ staged' = oprun[r].seen
          /\ Done(r) /\ UNCHANGED <<site, grants, upstream, hubreg, keys, pods>>
       \/ staged # None /\ Quit(r) /\ UNCHANGED <<cluster, pods, book>>

\* provision(): keeps the tokens it finds, mints the missing ones
HomeReads(r) ==
    /\ Home(r, "grants")
    /\ \/ grants # None /\ See(r, "put", grants) /\ UNCHANGED minted
       \/ /\ grants = None /\ Mint
          /\ oprun' = [oprun EXCEPT ![r].pc = "put", ![r].fresh = TRUE,
                                    ![r].seen = [pair |-> minted', github |-> None]]
    /\ UNCHANGED <<cluster, pods, finished, crossed, dropped>>

\* install_github(): asks for the token, reads both Secrets and adds it
HomeAsks(r) ==
    /\ Home(r, "github")
    /\ IF staged # None /\ grants # None
         THEN Mint /\ See(r, "put", [grants EXCEPT !.github = minted'])
         ELSE Quit(r) /\ UNCHANGED minted
    /\ UNCHANGED <<cluster, pods, finished, crossed, dropped>>

Crosses(r) == crossed' = (crossed \/ (oprun[r].fresh /\ grants # None))

\* Mutant of HomePuts: the inputs are staged before anything is registered
HomePutsLast(r) ==
    /\ Home(r, "put") /\ Crosses(r) /\ grants' = oprun[r].seen
    /\ IF oprun[r].cmd = "grants"
         THEN staged' = oprun[r].seen /\ Step(r, "model")
         ELSE UNCHANGED staged /\ Step(r, "inputs")
    /\ UNCHANGED <<site, upstream, hubreg, keys, pods, finished, minted, dropped>>

\* Cluster.put() of a resource without a resourceVersion: takes the current one and
\* replaces what is there now, whatever this run read
HomePuts(r) ==
    /\ Home(r, "put") /\ Crosses(r) /\ grants' = oprun[r].seen
    /\ Step(r, IF oprun[r].cmd = "grants" THEN "model" ELSE "inputs")
    /\ UNCHANGED <<site, upstream, hubreg, keys, staged, pods, finished, minted, dropped>>

\* register_hub_digest: never replaces another client digest, and puts back the
\* version it read
HomeHub(r) ==
    /\ Home(r, "digest")
    /\ IF hubreg.client \in {None, oprun[r].seen.pair}
         THEN hubreg' = [hubreg EXCEPT !.client = oprun[r].seen.pair] /\ Step(r, "inputs")
         ELSE UNCHANGED hubreg /\ Quit(r)
    /\ UNCHANGED <<site, grants, upstream, keys, staged, pods, book>>

HomeStages(r) ==
    /\ Home(r, "inputs") /\ staged' = oprun[r].seen
    /\ Done(r) /\ UNCHANGED <<site, grants, upstream, hubreg, keys, pods>>

\* A failed call, an exception or Ctrl-C; nothing is undone
Stop(r) ==
    /\ oprun[r].pc # "rest" /\ dropped < MaxStop /\ dropped' = dropped + 1
    /\ Quit(r) /\ UNCHANGED <<cluster, pods, finished, crossed, minted>>

\* The owner scales the backend up or down; missing Secrets block the container,
\* and validate() compares the digests with the environment
Scale ==
    /\ pod' = (IF pod = "none" THEN "waiting" ELSE "none") /\ held' = None
    /\ UNCHANGED <<cluster, oprun, book>>

Boot ==
    /\ pod = "waiting" /\ staged # None /\ staged = grants
    /\ pod' = "running" /\ held' = grants
    /\ UNCHANGED <<cluster, oprun, book>>

WorkStep(r) ==
    \/ WorkReads(r) \/ WorkMints(r) \/ WorkUpstream(r) \/ WorkHub(r) \/ WorkAsks(r)
    \/ WorkPatches(r) \/ WorkInputs(r) \/ WorkStages(r)

HomeStep(r) == HomeReads(r) \/ HomeAsks(r) \/ HomePuts(r) \/ HomeHub(r) \/ HomeStages(r)

ProvisionNext ==
    \/ \E r \in Operator : \/ WorkStep(r) \/ HomeStep(r) \/ ReadKeys(r) \/ Register(r) \/ Stop(r)
                           \/ \E cmd \in {"grants", "github", "inputs"} : Start(r, cmd)
    \/ Scale \/ Boot

ProvisionSpec == ProvisionInit /\ [][ProvisionNext]_provisionVars

ProvisionAssumption ==
    /\ MaxMint \in Nat /\ MaxStop \in Nat
    /\ None \notin Nat \cup Grant \cup Registration

-----------------------------------------------------------------------------
(* Properties *)

\* A running backend holds tokens its hub and the model proxy accept, although
\* its runs may have stopped anywhere and been repeated or overlapped.  The work
\* tool lets `github` and `inputs` pass after a `grants` that failed half way, so
\* there it takes a `grants` that reported success; and once two homelab runs have
\* crossed (see TokensKept), the GitHub command may stage tokens that were
\* never registered, the first provisioning still not.
PodAccepted ==
    /\ pod = "running"
    /\ site = "work" => finished
    /\ crossed => held.github = None
    => hubreg # None /\ hubreg.client = held.pair /\ held.pair \in keys

\* Nobody is locked out by a second token: what the hub knows is what the
\* runtime Secret holds, and the proxy has at most that one key of the backend,
\* unless homelab runs have crossed.
OneToken ==
    ~crossed =>
        /\ hubreg # None /\ hubreg.client # None => grants # None /\ hubreg.client = grants.pair
        /\ \A k \in keys : grants # None /\ k = grants.pair
        /\ site = "work" /\ hubreg # None => hubreg.upstream = upstream

\* The work inputs always carry the digests of the grants next to them: a staged
\* work backend cannot be refused, whatever was run in which order.
WorkStagedFits == site = "work" /\ staged # None => staged = grants

\* No step takes a token back that a Secret already held, but a homelab run that
\* crosses another; only the homelab GitHub token may be entered again.
TokensKept ==
    grants # None =>
        /\ grants'.pair = grants.pair \/ (site = "homelab" /\ crossed')
        /\ (grants.github # None /\ site = "work") => grants'.github = grants.github
=============================================================================
