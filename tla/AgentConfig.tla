----------------------------- MODULE AgentConfig -----------------------------
(***************************************************************************)
(* Registering the hub's paths in the configuration of the coding agents   *)
(* of one home: 23.mcp-hub/tools/hub_clients.py (opencode, claude, pi and  *)
(* codex) and configure() of tools/local-clients.py.  A run loads a        *)
(* configuration, computes the new one and replaces the file; for codex it *)
(* calls the codex CLI once per entry instead.  The agent itself, or its   *)
(* user, may save the same file at any time, and a run may be killed.      *)
(*                                                                         *)
(* An entry is reduced to what the rules look at: whether it is a remote   *)
(* one, whether it is the entry the hub wants, whether its command is one  *)
(* of the removed stdio bridges, and whether the user left it enabled.     *)
(* A permission belongs to one tool of one server.                         *)
(***************************************************************************)
EXTENDS Naturals, FiniteSets

CONSTANTS
    Served,       \* client names of the paths the hub serves
    Unlisted,     \* maintained names that are never selected (vault-secret, ...)
    Retired,      \* hub servers that were retired
    Own,          \* the user's own entries
    Sets,         \* the service lists a run may be given; None is the complete set
    Kinds,        \* subset of {"opencode", "claude", "pi", "codex", "local"}
    MaxEdit,      \* bound: how often a configuration is saved by somebody else
    MaxRun,       \* bound: how many runs are started
    None

Name == Served \cup Unlisted \cup Retired \cup Own

VARIABLES
    kind,      \* whose configuration it is
    config,    \* config[n]: the entry n of that configuration, or None
    perms,     \* perms[n]: OpenCode's permission for the tool of n that must ask
    job,       \* the run in progress, or None
    clean,     \* the service set of the last run, if it ended undisturbed; or None
    edits, runs

cfgvars == <<kind, config, perms, job, clean, edits, runs>>

Entry == [remote : BOOLEAN, hub : BOOLEAN, bridge : BOOLEAN, on : BOOLEAN]

\* What other programs and earlier versions leave in a configuration
Stdio  == [remote |-> FALSE, hub |-> FALSE, bridge |-> FALSE, on |-> TRUE]
Bridge == [Stdio EXCEPT !.bridge = TRUE]
Off    == [remote |-> TRUE, hub |-> FALSE, bridge |-> FALSE, on |-> FALSE]
Foreign == {None, Stdio, Bridge, Off}

\* An entry of the user's own is neither maintained nor retired, what was retired is no
\* longer served, and None is none of the values.
ConfigAssumption ==
    /\ Own \cap (Served \cup Unlisted \cup Retired) = {} /\ Retired \cap Served = {}
    /\ \A e \in Entry : e # None
    /\ \A set \in Sets : [set |-> set] # None
    /\ None \notin Name /\ None # "ask" /\ None # "allow"
    /\ MaxEdit \in Nat /\ MaxRun \in Nat

-----------------------------------------------------------------------------
(* The service set *)

\* validate_services(): a nonempty list of known services, never the vault's;
\* client_servers() without a configuration is the complete set
ValidServices(set) == IF set = None THEN TRUE ELSE set # {} /\ set \subseteq Served

Selected(set) == IF set = None THEN Served ELSE set

Managed == Served \cup Unlisted

\* The entries a run takes out: maintained names outside the set, entries still
\* pointing at a removed bridge, and the retired servers
Dropped(doc, set) ==
    {n \in Name : doc[n] # None /\
        \/ n \in Managed \ Selected(set)
        \/ n \in Retired
        \/ n \notin Served /\ doc[n].bridge}

\* Mutant of HubEntry: the user's choice is forgotten
HubEntryEnabled(old) == [remote |-> TRUE, hub |-> TRUE, bridge |-> FALSE, on |-> TRUE]

\* The entry of a selected server: OpenCode's keeps `enabled` of a remote one
HubEntry(old) ==
    [remote |-> TRUE, hub |-> TRUE, bridge |-> FALSE,
     on |-> IF kind = "opencode" /\ old # None /\ old.remote THEN old.on ELSE TRUE]

\* opencode(), claude(), pi(): the whole new document
Registered(doc, set) ==
    [n \in Name |->
        IF n \in Selected(set) THEN HubEntry(doc[n])
        ELSE IF n \in Dropped(doc, set) THEN None ELSE doc[n]]

\* configure(): the maintained names, prefixed with the instance's, are its own;
\* it takes them all out and looks at nothing else
Prefixed(doc, set) ==
    [n \in Name |->
        IF n \in Managed
        THEN IF n \in Selected(set) THEN HubEntry(None) ELSE None
        ELSE doc[n]]

NewDocument(doc, set) == IF kind = "local" THEN Prefixed(doc, set) ELSE Registered(doc, set)

\* OpenCode's permissions: those of retired servers go, and the tools of the
\* selected servers ask unless a permission is already set
Permitted(old, set) ==
    [n \in Name |->
        IF n \in Retired THEN None
        ELSE IF n \in Selected(set) /\ old[n] = None THEN "ask" ELSE old[n]]

\* codex(): the entries it adds are those that differ
Differing(doc, set) ==
    {n \in Selected(set) : doc[n] = None \/ ~doc[n].hub}

-----------------------------------------------------------------------------
ConfigInit ==
    /\ kind \in Kinds
    /\ config = [n \in Name |-> IF n \in Own THEN Stdio ELSE IF n \in Retired THEN Off ELSE None]
    /\ perms = [n \in Name |-> IF n \in Retired THEN "ask" ELSE None]
    /\ job = None
    /\ clean = None
    /\ edits = 0 /\ runs = 0

\* main() reads the configuration (load_json, or the TOML of codex)
Load(set) ==
    /\ job = None
    /\ runs < MaxRun
    /\ ValidServices(set)
    /\ runs' = runs + 1
    /\ job' = [set |-> set, doc |-> config, perms |-> perms,
               drop |-> IF kind = "codex" THEN Dropped(config, set) ELSE {},
               put |-> IF kind = "codex" THEN Differing(config, set) ELSE {},
               adding |-> None, overlapped |-> FALSE]
    /\ clean' = IF clean = [set |-> set] THEN clean ELSE None
    /\ UNCHANGED <<kind, config, perms, edits>>

PermsAfter(j) == IF kind = "opencode" THEN Permitted(j.perms, j.set) ELSE j.perms

Finished(j) == IF j.overlapped THEN None ELSE [set |-> j.set]

\* write_json(): a sibling temporary file, then os.replace(), of the document as
\* it was loaded with the changes applied; nothing is written when none is needed
Save ==
    /\ job # None /\ kind # "codex"
    /\ IF NewDocument(job.doc, job.set) # job.doc \/ PermsAfter(job) # job.perms
       THEN config' = NewDocument(job.doc, job.set) /\ perms' = PermsAfter(job)
       ELSE UNCHANGED <<config, perms>>
    /\ clean' = Finished(job)
    /\ job' = None
    /\ UNCHANGED <<kind, edits, runs>>

\* codex mcp remove NAME: first the names dropped for good ...
CodexRemove(n) ==
    /\ job # None /\ job.adding = None
    /\ n \in job.drop
    /\ config' = [config EXCEPT ![n] = None]
    /\ job' = [job EXCEPT !.drop = @ \ {n}]
    /\ UNCHANGED <<kind, perms, clean, edits, runs>>

\* ... then, for each selected entry that differs, remove it if there was one ...
CodexReplace(n) ==
    /\ job # None /\ job.adding = None
    /\ job.drop = {} /\ n \in job.put
    /\ config' = [config EXCEPT ![n] = IF job.doc[n] # None THEN None ELSE @]
    /\ job' = [job EXCEPT !.put = @ \ {n}, !.adding = n]
    /\ UNCHANGED <<kind, perms, clean, edits, runs>>

\* ... and codex mcp add NAME --url ... --bearer-token-env-var ...
CodexAdd ==
    /\ job # None /\ job.adding # None
    /\ config' = [config EXCEPT ![job.adding] = HubEntry(None)]
    /\ job' = [job EXCEPT !.adding = None]
    /\ UNCHANGED <<kind, perms, clean, edits, runs>>

CodexDone ==
    /\ job # None /\ kind = "codex" /\ job.adding = None
    /\ job.drop = {} /\ job.put = {}
    /\ clean' = Finished(job)
    /\ job' = None
    /\ UNCHANGED <<kind, config, perms, edits, runs>>

\* A command fails (check=True), the replace fails or the run is killed
RunDies ==
    /\ job # None
    /\ job' = None
    /\ UNCHANGED <<kind, config, perms, clean, edits, runs>>

\* Somebody else saves the file: what a run finds may no longer be what it loaded
Disturb ==
    /\ edits < MaxEdit
    /\ edits' = edits + 1
    /\ clean' = None
    /\ job' = IF job = None THEN None ELSE [job EXCEPT !.overlapped = TRUE]
    /\ UNCHANGED <<kind, runs>>

\* The agent, its user or an older tool saves an entry or switches one off
Edit(n) ==
    /\ Disturb
    /\ \E e \in Foreign \cup (IF config[n] = None THEN {} ELSE {[config[n] EXCEPT !.on = FALSE]}) :
          /\ e # config[n]
          /\ config' = [config EXCEPT ![n] = e]
    /\ UNCHANGED perms

\* ... or answers one of OpenCode's permission questions for good
Answer(n) ==
    /\ kind = "opencode"
    /\ Disturb
    /\ perms[n] # "allow"
    /\ perms' = [perms EXCEPT ![n] = "allow"]
    /\ UNCHANGED config

RunStep ==
    \/ Save \/ CodexAdd \/ CodexDone \/ RunDies
    \/ \E n \in Name : CodexRemove(n) \/ CodexReplace(n)

ConfigNext ==
    \/ \E set \in Sets : Load(set)
    \/ RunStep
    \/ \E n \in Name : Edit(n) \/ Answer(n)

ConfigSpec == ConfigInit /\ [][ConfigNext]_cfgvars

-----------------------------------------------------------------------------
(* Properties *)

ConfigTypeOK ==
    /\ kind \in Kinds
    /\ config \in [Name -> Entry \cup {None}]
    /\ perms \in [Name -> {"ask", "allow", None}]
    /\ edits \in 0 .. MaxEdit /\ runs \in 0 .. MaxRun

\* After a run nobody disturbed, and until somebody saves the file again, the
\* configuration holds the hub's entry for exactly the selected servers: no
\* retired server, no other maintained name and no bridge of the old days is
\* left, whatever earlier runs were killed between a remove and an add.
Exact ==
    clean # None =>
        LET set == Selected(clean.set) IN
        /\ \A n \in set : config[n] # None /\ config[n].hub
        /\ \A n \in Managed \ set : config[n] = None
        /\ kind # "local" => /\ \A n \in Retired : config[n] = None
                             /\ \A n \in Own : config[n] # None => ~config[n].bridge

\* "Everything else in the file is left alone": a step of a run leaves alone the
\* user's own entries, an entry switched off stays off in OpenCode, and an
\* answered permission stays answered, unless somebody saved the file between the
\* run's load and its replace; through the codex CLI not even then.
LeftAlone ==
    RunStep =>
        /\ ~job.overlapped \/ kind = "codex" => \A n \in Own :
               config'[n] = config[n] \/ (job.doc[n] # None /\ job.doc[n].bridge)
        /\ ~job.overlapped /\ kind = "opencode" => \A n \in Name \ Retired :
               /\ config[n] # None /\ config'[n] # None /\ config[n].remote
                    => config'[n].on = config[n].on
               /\ perms[n] = "allow" => perms'[n] = "allow"

\* A run over a configuration that an undisturbed run with the same services
\* left writes nothing ("Idempotent").
Idempotent ==
    RunStep /\ clean = [set |-> job.set] => config' = config /\ perms' = perms
=============================================================================
