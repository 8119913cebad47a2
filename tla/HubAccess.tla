------------------------------ MODULE HubAccess ------------------------------
(***************************************************************************)
(* Who may call which hub.  23.mcp-hub/files/mcp_hub.py serves three hubs: *)
(* the legacy one, whose clients are in files/clients.json, and the        *)
(* homelab and work instances, whose clients are in the Secret             *)
(* mcp-hub-instance of their namespace.  tools/add-client.py registers a   *)
(* PC with the legacy hub; provision() of tools/local-clients.py stages a  *)
(* token for a machine and appends its digest to an instance, with several *)
(* operators, and the owner, writing the same Secret.                      *)
(*                                                                         *)
(* A token is the hub in its prefix ("legacy" has none) and a number; its  *)
(* digest identifies it.  One service stands for an instance's allowlist.  *)
(* A hub loads its clients when its pod starts (Rollout).                  *)
(***************************************************************************)
EXTENDS Naturals, FiniteSets

CONSTANTS
    Env,         \* the instances: "homelab", "work"
    Machine,     \* homepc, laptop
    Operator,    \* operators that provision at the same time
    Tries,       \* how often provision() tries to append (5)
    MaxMint,     \* bound: tokens minted
    MaxOwner,    \* bound: hand edits of the owner
    None

Legacy == "legacy"

Hub == Env \cup {Legacy}

VARIABLES
    instance,   \* instance[e]: clients, upstream token and resourceVersion of the Secret
    grant,      \* grant[e][m]: the token of the Secret mcp-hub-client-<m>, or None
    keyFile,    \* keyFile[m]: the legacy token on that PC, or None
    clients,    \* files/clients.json: clients[m], or None for a torn file
    serving,    \* serving[h]: what the running hub loaded, or None
    op,         \* op[o]: the run of that operator, or None
    adding,     \* the run of add-client.py, or None
    cut,        \* the PCs whose key was replaced by a run that did not end
    minted, hand

accvars == <<instance, grant, keyFile, clients, serving, op, adding, cut, minted, hand>>

Token == [hub : Hub, n : 1 .. MaxMint]

AccessAssumption ==
    MaxMint \in Nat /\ None \notin Token /\ None \notin [Machine -> Token \cup {None}]

Nobody == [m \in Machine |-> None]

Listed(file) == {file[m] : m \in Machine} \ {None}

-----------------------------------------------------------------------------
(* The hubs *)

\* Mutant of Accepts: a registered digest is enough
AcceptsDigest(h, t) == serving[h] # None /\ t \in serving[h].clients

\* BearerAuth: the digest is one of the hub's and the prefix is its own; the
\* legacy hub refuses the reserved prefixes of the instances
Accepts(h, t) == serving[h] # None /\ t \in serving[h].clients /\ t.hub = h

\* instance_app(): clients are registered, the service has its own credential and
\* that credential is no client token, of this or of another instance
Loadable(e) ==
    /\ Listed(instance[e].clients) # {}
    /\ instance[e].upstream # None
    /\ instance[e].upstream.hub \notin Env
    /\ instance[e].upstream \notin Listed(instance[e].clients)

\* configured_app() and build_app() at the start of the pod; without usable
\* clients it does not start
Rollout(h) ==
    /\ serving' = [serving EXCEPT ![h] =
           IF h \in Env
           THEN IF Loadable(h) THEN [clients |-> Listed(instance[h].clients),
                                     sends |-> {instance[h].upstream}] ELSE None
           ELSE IF clients # None /\ Listed(clients) # {}
                THEN [clients |-> Listed(clients), sends |-> {}] ELSE None]
    /\ serving' # serving
    /\ UNCHANGED <<instance, grant, keyFile, clients, op, adding, cut, minted, hand>>

-----------------------------------------------------------------------------
(* local-clients.py provision *)

Minted(h) == [hub |-> h, n |-> minted + 1]

Provision(o, e, m) ==
    /\ op[o] = None
    /\ op' = [op EXCEPT ![o] = [env |-> e, m |-> m, pc |-> "staged", value |-> None,
                                existing |-> instance[e].clients[m], read |-> None, tries |-> 0]]
    /\ UNCHANGED <<instance, grant, keyFile, clients, serving, adding, cut, minted, hand>>

Ends(o) == op' = [op EXCEPT ![o] = None]

\* A registered client without its token is never rotated; otherwise take the
\* staged token, or mint one
ReadStaged(o) ==
    /\ op[o] # None /\ op[o].pc = "staged"
    /\ LET r == op[o]
           t == grant[r.env][r.m]
       IN  \/ /\ t = None /\ r.existing # None
              /\ Ends(o) /\ UNCHANGED minted
           \/ /\ t = None /\ r.existing = None /\ minted < MaxMint
              /\ minted' = minted + 1
              /\ op' = [op EXCEPT ![o].value = Minted(r.env), ![o].pc = "create"]
           \/ /\ t # None
              /\ op' = [op EXCEPT ![o].value = t, ![o].pc = "look"]
              /\ UNCHANGED minted
    /\ UNCHANGED <<instance, grant, keyFile, clients, serving, adding, cut, hand>>

\* kubectl create: when the Secret exists by now, its token is the one to use
CreateStaged(o) ==
    /\ op[o] # None /\ op[o].pc = "create"
    /\ LET r == op[o]
           t == grant[r.env][r.m]
       IN  /\ grant' = IF t = None THEN [grant EXCEPT ![r.env][r.m] = r.value] ELSE grant
           /\ op' = [op EXCEPT ![o].value = IF t = None THEN r.value ELSE t, ![o].pc = "look"]
    /\ UNCHANGED <<instance, keyFile, clients, serving, adding, cut, minted, hand>>

\* A round of the append loop reads the instance: registered already, registered
\* with another token, tried too often, or to be appended
Look(o) ==
    /\ op[o] # None /\ op[o].pc = "look"
    /\ LET r == op[o] IN
       IF r.tries = Tries \/ instance[r.env].clients[r.m] # None THEN Ends(o)
       ELSE op' = [op EXCEPT ![o].read = instance[r.env], ![o].pc = "patch"]
    /\ UNCHANGED <<instance, grant, keyFile, clients, serving, adding, cut, minted, hand>>

Appended(r) == [r.read EXCEPT !.clients[r.m] = r.value, !.version = @ + 1]

\* The JSON patch tests the resourceVersion that was read
PatchGuard(r) == instance[r.env].version = r.read.version

\* The patch: applied and done, or refused (or lost on the way) and tried again
Patch(o) ==
    /\ op[o] # None /\ op[o].pc = "patch"
    /\ LET r == op[o] IN
       \/ /\ PatchGuard(r)
          /\ instance' = [instance EXCEPT ![r.env] = Appended(r)]
          /\ Ends(o)
       \/ /\ op' = [op EXCEPT ![o].tries = @ + 1, ![o].read = None, ![o].pc = "look"]
          /\ UNCHANGED instance
    /\ UNCHANGED <<grant, keyFile, clients, serving, adding, cut, minted, hand>>

\* ... or applied although the operator's command timed out, or the run is killed
PatchLost(o) ==
    /\ op[o] # None /\ op[o].pc = "patch"
    /\ PatchGuard(op[o])
    /\ instance' = [instance EXCEPT ![op[o].env] = Appended(op[o])]
    /\ Ends(o)
    /\ UNCHANGED <<grant, keyFile, clients, serving, adding, cut, minted, hand>>

Killed(o) ==
    /\ op[o] # None
    /\ Ends(o)
    /\ UNCHANGED <<instance, grant, keyFile, clients, serving, adding, cut, minted, hand>>

-----------------------------------------------------------------------------
(* add-client.py *)

\* A PC's new token replaces the one in its key file before it is registered;
\* --reuse registers the one that is there
AddClient(m) ==
    /\ adding = None
    /\ \/ /\ minted < MaxMint
          /\ minted' = minted + 1
          /\ keyFile' = [keyFile EXCEPT ![m] = Minted(Legacy)]
       \/ /\ keyFile[m] # None
          /\ UNCHANGED <<minted, keyFile>>
    /\ adding' = m
    /\ cut' = IF keyFile' = keyFile THEN cut ELSE cut \cup {m}
    /\ UNCHANGED <<instance, grant, clients, serving, op, hand>>

\* clients.json is read, and rewritten in place; a torn file cannot be read
Register ==
    /\ adding # None
    /\ clients # None
    /\ clients' = [clients EXCEPT ![adding] = keyFile[adding]]
    /\ cut' = cut \ {adding}
    /\ adding' = None
    /\ UNCHANGED <<instance, grant, keyFile, serving, op, minted, hand>>

\* The run ends before, or in the middle of, the rewrite
AddCut ==
    /\ adding # None
    /\ clients' \in {clients, None}
    /\ cut' = IF clients' = None THEN Machine ELSE cut
    /\ adding' = None
    /\ UNCHANGED <<instance, grant, keyFile, serving, op, minted, hand>>

-----------------------------------------------------------------------------
(* The owner's hands *)

ByHand == hand < MaxOwner /\ hand' = hand + 1

\* "Revoke a client by deleting its line"
Revoke(e, m) ==
    /\ ByHand
    /\ instance[e].clients[m] # None
    /\ instance' = [instance EXCEPT ![e].clients[m] = None, ![e].version = @ + 1]
    /\ UNCHANGED <<grant, keyFile, clients, serving, op, adding, cut, minted>>

\* A credential put where it does not belong: as an instance's upstream
\* credential, or in a PC's key file
Misplace(t) ==
    /\ ByHand
    /\ t.n <= minted
    /\ \/ \E e \in Env : instance' = [instance EXCEPT ![e].upstream = t, ![e].version = @ + 1]
          /\ UNCHANGED <<keyFile, cut>>
       \/ \E m \in Machine : keyFile' = [keyFile EXCEPT ![m] = t] /\ cut' = cut \cup {m}
          /\ UNCHANGED instance
    /\ UNCHANGED <<grant, clients, serving, op, adding, minted>>

\* The torn clients.json is restored from git
Restore ==
    /\ ByHand
    /\ clients = None
    /\ clients' = Nobody
    /\ UNCHANGED <<instance, grant, keyFile, serving, op, adding, cut, minted>>

-----------------------------------------------------------------------------
\* An instance starts with a credential of its own for its service
AccessInit ==
    /\ instance = [e \in Env |-> [clients |-> Nobody, version |-> 0,
                                  upstream |-> [hub |-> "upstream", n |-> 0]]]
    /\ grant = [e \in Env |-> Nobody]
    /\ keyFile = Nobody
    /\ clients = Nobody
    /\ serving = [h \in Hub |-> None]
    /\ op = [o \in Operator |-> None]
    /\ adding = None
    /\ cut = {}
    /\ minted = 0 /\ hand = 0

Step(o) == ReadStaged(o) \/ CreateStaged(o) \/ Look(o) \/ Patch(o)

AccessNext ==
    \/ \E h \in Hub : Rollout(h)
    \/ \E o \in Operator : \/ \E e \in Env, m \in Machine : Provision(o, e, m)
                           \/ Step(o) \/ PatchLost(o) \/ Killed(o)
    \/ \E m \in Machine : AddClient(m)
    \/ Register \/ AddCut \/ Restore
    \/ \E e \in Env, m \in Machine : Revoke(e, m)
    \/ \E t \in Token : Misplace(t)

AccessSpec == AccessInit /\ [][AccessNext]_accvars

-----------------------------------------------------------------------------
(* Properties *)

AccessTypeOK ==
    /\ \A e \in Env : instance[e].clients \in [Machine -> Token \cup {None}]
    /\ grant \in [Env -> [Machine -> Token \cup {None}]]
    /\ keyFile \in [Machine -> Token \cup {None}]
    /\ adding \in Machine \cup {None}
    /\ cut \subseteq Machine
    /\ minted \in 0 .. MaxMint

\* No token opens two hubs, and no hub lets in as a client the credential it sends
\* to its own upstream, even when a token was registered or configured where it
\* does not belong (BearerAuth, instance_app).
OneHubEach ==
    \A h \in Hub, t \in Token : Accepts(h, t) =>
        t.hub = h /\ t \notin serving[h].sends

\* The digest an instance holds for a machine is that of the token staged for that
\* machine, however many operators provision it at the same time and wherever
\* their runs are killed (provision).
GrantFits ==
    \A e \in Env, m \in Machine :
        instance[e].clients[m] # None => instance[e].clients[m] = grant[e][m]

\* A PC's key is the one clients.json lists for it, unless a run was cut short
\* between the two files (add-client.py).
KeyListed ==
    \A m \in Machine : m \notin cut /\ clients # None => clients[m] = keyFile[m]

\* An operator's append adds its own machine and touches nothing else: a client or
\* a revocation written meanwhile is never overwritten (provision).
OthersKept ==
    \A e \in Env : \A m \in Machine :
        instance'[e].clients[m] # instance[e].clients[m]
            /\ (\E o \in Operator : Patch(o) \/ PatchLost(o))
        => /\ instance[e].clients[m] = None
           /\ instance'[e].upstream = instance[e].upstream
           /\ \E o \in Operator : op[o] # None /\ op[o].m = m /\ op[o].env = e

\* Who may call which hub, all the time and in every step.
HubAccessSound == [](AccessTypeOK /\ OneHubEach /\ GrantFits /\ KeyListed) /\ [][OthersKept]_accvars
=============================================================================
