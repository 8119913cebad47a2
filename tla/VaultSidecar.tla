---------------------------- MODULE VaultSidecar ----------------------------
(***************************************************************************)
(* `vault-client.py serve`, the sidecar of a workspace pod: it logs in or  *)
(* reuses a cached login, runs `bw serve`, unlocks it, loads the scoped    *)
(* SSH keys into an ssh-agent behind a proxied socket, publishes the scope *)
(* file the other commands wait for, and watches all of it until something *)
(* fails.  Kubernetes restarts it when it ends; the scope file and the     *)
(* login survive in the pod's volumes, processes and sockets do not.       *)
(*                                                                         *)
(* The vault's SSH keys are a numbered version of Keys keys.  An agent is  *)
(* the version it was started for, how many of the keys it holds and       *)
(* whether it still runs.                                                  *)
(***************************************************************************)
EXTENDS Integers

CONSTANTS
    Keys,           \* keys in every version of the scoped key set
    Retries,        \* RETRY_ATTEMPTS
    MaxMisses,      \* failed health checks that end the sidecar (3)
    MaxVersion,     \* bound: changes of the scoped keys
    MaxFault,       \* bound: failures of anything the sidecar depends on
    None

VARIABLES
    spc,        \* where serve() stands; "down" between two containers
    login,      \* data.json: "none", "good", or "stale" (the server forgot it)
    cached,     \* serve(): the login found at the start is still trusted
    server,     \* bw serve: "none", "unauthenticated", "locked", "unlocked"
    tries,      \* attempts of the retry() in progress
    misses,     \* failures
    scopeFile,  \* SCOPE_FILE exists
    version,    \* the scoped keys in the vault
    agent,      \* the agent behind the proxied path, or None
    next,       \* a replacement that is being loaded on next.sock, or None
    faults      \* failures so far

sidecarVars == <<spc, login, cached, server, tries, misses, scopeFile, version, agent, next, faults>>

Agents == [ver : Nat, held : Nat, up : BOOLEAN]

SidecarAssumption == None \notin Agents

Agent(v) == [ver |-> v, held |-> 0, up |-> TRUE]
Whole(a) == a # None /\ a.held = Keys

SidecarInit ==
    /\ spc = "down" /\ login = "none" /\ cached = FALSE /\ server = "none"
    /\ tries = 0 /\ misses = 0 /\ scopeFile = FALSE /\ version = 1
    /\ agent = None /\ next = None /\ faults = 0

Fault == faults < MaxFault /\ faults' = faults + 1
Fine == UNCHANGED faults

\* The exits of ssh_agent() and running_client(), whatever raised: socket, agent,
\* scope file and server go, in that order
CleanUp ==
    /\ spc' = "down" /\ server' = "none" /\ scopeFile' = FALSE
    /\ agent' = None /\ next' = None /\ tries' = 0 /\ misses' = 0
    /\ UNCHANGED <<login, cached, version>>

\* Mutant of Boot: a scope file left by a killed container stays
BootTrusting ==
    /\ spc = "down"
    /\ cached' = (login # "none")
    /\ spc' = IF cached' THEN "spawn" ELSE "login"
    /\ tries' = 0 /\ misses' = 0
    /\ UNCHANGED <<login, server, scopeFile, version, agent, next, faults>>

\* serve() begins: no scope file before the client is ready again
Boot ==
    /\ spc = "down"
    /\ scopeFile' = FALSE
    /\ cached' = (login # "none")
    /\ spc' = IF cached' THEN "spawn" ELSE "login"
    /\ tries' = 0 /\ misses' = 0
    /\ UNCHANGED <<login, server, version, agent, next, faults>>

\* retry(): another attempt, or the error
Again(pc) ==
    /\ Fault
    /\ IF tries + 1 < Retries
       THEN /\ tries' = tries + 1 /\ spc' = pc
            /\ UNCHANGED <<login, cached, server, misses, scopeFile, version, agent, next>>
       ELSE CleanUp

\* open_session(): bw status; log in when it says unauthenticated
Login ==
    /\ spc = "login"
    /\ \/ /\ login' = "good" /\ spc' = "spawn" /\ tries' = 0
          /\ Fine /\ UNCHANGED <<cached, server, misses, scopeFile, version, agent, next>>
       \/ Again("login")

\* running_client(), wait_for_status(): bw serve starts, and shows who is
\* logged in; it may die or never answer
Spawn ==
    /\ spc = "spawn"
    /\ \/ /\ server' \in IF login = "good" THEN {"locked", "unlocked"} ELSE {"unauthenticated"}
          /\ spc' = "judge" /\ Fine
          /\ UNCHANGED <<login, cached, tries, misses, scopeFile, version, agent, next>>
       \/ /\ Fault /\ server' = "none" /\ spc' = "judge"
          /\ UNCHANGED <<login, cached, tries, misses, scopeFile, version, agent, next>>
       \/ Fault /\ CleanUp

\* A cached login that does not work is given up once and replaced by a new
\* one; anything else unexpected ends the sidecar
Judge ==
    /\ spc = "judge"
    /\ IF server \in {"none", "unauthenticated"} THEN
          IF cached
          THEN /\ cached' = FALSE /\ spc' = "login" /\ server' = "none" /\ scopeFile' = FALSE
               /\ UNCHANGED <<login, tries, misses, version, agent, next>>
          ELSE CleanUp
       ELSE /\ spc' = IF server = "locked" THEN "unlock" ELSE "sync"
            /\ UNCHANGED <<login, cached, server, tries, misses, scopeFile, version, agent, next>>
    /\ Fine

\* unlock() with retry(); an unsafe listener is not retried
Unlock ==
    /\ spc = "unlock"
    /\ \/ /\ server = "locked" /\ server' = "unlocked" /\ spc' = "sync" /\ tries' = 0 /\ Fine
          /\ UNCHANGED <<login, cached, misses, scopeFile, version, agent, next>>
       \/ server = "locked" /\ Again("unlock")
       \/ server = "none" /\ CleanUp /\ Fine

\* sync, client_ready(), scoped_keys(), and the agent is started
Sync ==
    /\ spc = "sync"
    /\ \/ /\ server = "unlocked"
          /\ agent' = Agent(version) /\ spc' = "load" /\ Fine
          /\ UNCHANGED <<login, cached, server, tries, misses, scopeFile, version, next>>
       \/ Fault /\ CleanUp
       \/ server = "none" /\ CleanUp /\ Fine

\* loaded_agent(): one ssh-add per key; a failure stops the agent and raises
Load ==
    /\ spc = "load"
    /\ \/ /\ ~Whole(agent) /\ agent.up
          /\ agent' = [agent EXCEPT !.held = @ + 1] /\ Fine
          /\ UNCHANGED <<spc, login, cached, server, tries, misses, scopeFile, version, next>>
       \/ /\ Whole(agent)
          /\ spc' = "publish" /\ Fine
          /\ UNCHANGED <<login, cached, server, tries, misses, scopeFile, version, agent, next>>
       \/ Fault /\ CleanUp
       \/ ~agent.up /\ CleanUp /\ Fine

\* The proxy listens, then publish_scope() renames the scope file into place
Publish ==
    /\ spc = "publish"
    /\ scopeFile' = TRUE /\ spc' = "watch" /\ misses' = 0
    /\ Fine /\ UNCHANGED <<login, cached, server, tries, version, agent, next>>

\* The watch loop.  bw serve or the agent is gone, or three checks in a row
\* failed: the sidecar ends.
Watch ==
    /\ spc = "watch"
    /\ \/ /\ server = "unlocked" /\ agent.up
          /\ misses' = 0 /\ spc' \in {"watch", "refresh"} /\ Fine
          /\ UNCHANGED <<login, cached, server, tries, scopeFile, version, agent, next>>
       \/ /\ server = "unlocked" /\ agent.up /\ Fault
          /\ IF misses + 1 >= MaxMisses THEN CleanUp
             ELSE /\ misses' = misses + 1 /\ spc' \in {"watch", "refresh"}
                  /\ UNCHANGED <<login, cached, server, tries, scopeFile, version, agent, next>>
       \/ (server # "unlocked" \/ ~agent.up) /\ CleanUp /\ Fine

\* refresh(): sync and list; nothing to do, or a replacement is started on
\* next.sock.  A failure keeps the loaded keys; an unsafe listener ends it.
Refresh ==
    /\ spc = "refresh"
    /\ \/ /\ server = "unlocked" /\ agent.ver = version
          /\ spc' = "watch" /\ UNCHANGED next /\ Fine
          /\ UNCHANGED <<login, cached, server, tries, misses, scopeFile, version, agent>>
       \/ /\ server = "unlocked" /\ agent.ver # version
          /\ next' = Agent(version) /\ spc' = "replace" /\ Fine
          /\ UNCHANGED <<login, cached, server, tries, misses, scopeFile, version, agent>>
       \/ /\ IF server = "unlocked" THEN Fault ELSE Fine
          /\ spc' = "watch"
          /\ UNCHANGED <<login, cached, server, tries, misses, scopeFile, version, agent, next>>
       \/ Fault /\ CleanUp

\* loaded_agent() again, then os.replace() and the end of the old agent
Replace ==
    /\ spc = "replace"
    /\ \/ /\ ~Whole(next)
          /\ next' = [next EXCEPT !.held = @ + 1] /\ Fine
          /\ UNCHANGED <<spc, agent>>
       \/ Whole(next) /\ agent' = next /\ next' = None /\ spc' = "watch" /\ Fine
       \/ Fault /\ next' = None /\ spc' = "watch" /\ UNCHANGED agent
    /\ UNCHANGED <<login, cached, server, tries, misses, scopeFile, version>>

-----------------------------------------------------------------------------
(* Around the sidecar *)

\* SIGTERM: Cancelled, in any statement
Cancelled == spc # "down" /\ Fault /\ CleanUp

\* SIGKILL: nothing is cleaned up but what dies with the container
Killed ==
    /\ spc # "down" /\ Fault
    /\ spc' = "down" /\ server' = "none" /\ agent' = None /\ next' = None /\ tries' = 0 /\ misses' = 0
    /\ UNCHANGED <<login, cached, scopeFile, version>>

\* bw serve exits, an agent exits, the vault forgets the login
Breaks ==
    /\ Fault
    /\ \/ server # "none" /\ server' = "none" /\ UNCHANGED <<agent, login>>
       \/ agent # None /\ agent' = [agent EXCEPT !.up = FALSE] /\ UNCHANGED <<server, login>>
       \/ login = "good" /\ login' = "stale" /\ UNCHANGED <<server, agent>>
    /\ UNCHANGED <<spc, cached, tries, misses, scopeFile, version, next>>

NewKeys ==
    /\ version < MaxVersion /\ version' = version + 1
    /\ UNCHANGED <<spc, login, cached, server, tries, misses, scopeFile, agent, next, faults>>

Serve ==
    \/ Boot \/ Login \/ Spawn \/ Judge \/ Unlock \/ Sync \/ Load \/ Publish
    \/ Watch \/ Refresh \/ Replace

SidecarNext == Serve \/ Cancelled \/ Killed \/ Breaks \/ NewKeys

\* The sidecar is scheduled and restarted, its refresh comes due (every 10 s),
\* and what is not broken answers
SidecarFairness ==
    /\ WF_sidecarVars(Serve)
    /\ SF_sidecarVars(Watch /\ spc' # "watch")

SidecarSpec == SidecarInit /\ [][SidecarNext]_sidecarVars /\ SidecarFairness

-----------------------------------------------------------------------------
(* Properties *)

\* The scope file is what every vault command waits for: while the sidecar
\* runs it is there only when the client was unlocked, synced and, with its
\* agent, loaded in this very container (bw serve may have died since; a file
\* left by SIGKILL is gone before the next login).
ScopeBacked ==
    scopeFile /\ spc # "down" => server \in {"unlocked", "none"} /\ Whole(agent)

\* "No request sees a partial key set" (refresh()): whatever is behind the
\* proxied path once the proxy listens holds all keys of one version, through
\* failed loads, reloads, signals and key changes in the middle of a reload.
KeysWhole ==
    spc \in {"publish", "watch", "refresh", "replace"} /\ agent # None => Whole(agent)

\* When failures stop, the sidecar becomes ready and stays so, also from a
\* cached login that the server has forgotten, and the agent ends up with the
\* keys the vault then has.
SidecarSettles == <>[](scopeFile /\ server = "unlocked" /\ agent # None /\ agent.up /\ agent.ver = version)
=============================================================================
