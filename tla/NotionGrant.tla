---------------------------- MODULE NotionGrant ----------------------------
(***************************************************************************)
(* The hub's OAuth grant with hosted Notion MCP: the Grant object of       *)
(* mcp-hub/files/notion_grant.py behind the forwarding handler of          *)
(* upstream.py, the Kubernetes Secret that outlives it, and the            *)
(* workstation tool bootstrap-notion.py that replaces the Secret.          *)
(*                                                                         *)
(* A token pair (access and refresh token) is its number in `issued`, which*)
(* keeps when and under which consent Notion issued it.  Every write of    *)
(* the Secret stores a pair it never held before, so the pair a reader saw *)
(* stands for the resourceVersion it read.  Requests run in threads: only  *)
(* the code under Grant._lock excludes itself.  `first` and `lost` are     *)
(* auxiliary.                                                              *)
(***************************************************************************)
EXTENDS Integers, Sequences, FiniteSets

CONSTANTS
    Req,            \* concurrent requests for /notion
    TokenLife,      \* ticks an access token is used (expires_in less 300 s)
    FlushEvery,     \* FLUSH_EVERY
    MaxPair,        \* bound: pairs Notion issues
    MaxConsent,     \* bound: runs of the bootstrap tool
    MaxTime,        \* bound: the last tick explored
    MaxCrash,       \* bound: restarts of the hub
    None

GrantAssumption ==
    /\ {TokenLife, FlushEvery, MaxConsent} \subseteq Nat \ {0}
    /\ {MaxPair, MaxTime, MaxCrash} \subseteq Nat
    /\ None \notin Nat \cup Req \cup [base : Nat, pair : Nat]

VARIABLES
    time,       \* wall clock
    issued,     \* every pair Notion issued, oldest first: [at, consent]
    valid,      \* valid[c]: refresh tokens of consent c Notion still takes
    revoked,    \* access tokens the MCP endpoint refuses before they expire
    secret,     \* the pair in Secret mcp-hub-notion-grant, or None
    grant,      \* Grant: [token, rejected, unsaved, flush]
    holder,     \* the request inside Grant._lock, or None
    req,        \* req[r]: [pc, retry, tok, held, first]
    boot,       \* the pair a bootstrap run was given and has not written yet
    restarts,   \* how often the hub has died
    lost        \* a restart lost a rotation the Secret could not replace

grantVars == <<time, issued, valid, revoked, secret, grant, holder, req, boot,
               restarts, lost>>

world == <<time, issued, valid, revoked, boot, restarts, lost>>

Pair == 1 .. MaxPair

Idle == [pc |-> "idle", retry |-> FALSE, tok |-> None, held |-> None, first |-> None]

Fresh0 == [token |-> None, rejected |-> None, unsaved |-> None, flush |-> 0]

GrantInit ==
    /\ time = 0
    /\ issued = <<>>
    /\ valid = [c \in 1 .. MaxConsent |-> {}]
    /\ revoked = {}
    /\ secret = None
    /\ grant = Fresh0
    /\ holder = None
    /\ req = [r \in Req |-> Idle]
    /\ boot = None
    /\ restarts = 0
    /\ lost = FALSE

Usable(p) == p # None /\ time < issued[p].at + TokenLife

\* The pair a refresh starts from: the Secret's, overridden by a rotation of
\* it that never reached the Secret
Newest(s, unsaved) ==
    IF unsaved # None /\ unsaved.base = s THEN unsaved.pair ELSE s

At(r, pc) == req[r].pc = pc
Inside(r, pc) == At(r, pc) /\ holder = r
Goto(r, pc) == req' = [req EXCEPT ![r].pc = pc]
\* forward() ends: a streamed answer or _error() with the request id
Answer(r) == req' = [req EXCEPT ![r] = Idle]
Leave(r) == holder' = None /\ Answer(r)
\* the credential is returned: out of the lock, on to the upstream request
Send(r, p) == holder' = None /\ req' = [req EXCEPT ![r].pc = "send", ![r].tok = p, ![r].held = None]

-----------------------------------------------------------------------------
(* forward() and Grant *)

Begin(r) == At(r, "idle") /\ Goto(r, "cred") /\ UNCHANGED <<world, secret, grant, holder>>

\* access_token() takes the lock and enters _flush(); a flush that is due puts
\* off the next one before it reads the Secret
Enter(r) ==
    /\ At(r, "cred") /\ holder = None
    /\ holder' = r
    /\ LET due == grant.unsaved # None /\ time >= grant.flush IN
       /\ Goto(r, IF due THEN "flush" ELSE "check")
       /\ grant' = IF due THEN [grant EXCEPT !.flush = time + FlushEvery] ELSE grant
    /\ UNCHANGED <<world, secret>>

\* _flush(): read; an unsaved pair whose base is gone was overtaken by a
\* bootstrap.  A failed read changes nothing.
FlushRead(r) ==
    /\ Inside(r, "flush")
    /\ \/ /\ secret = grant.unsaved.base
          /\ req' = [req EXCEPT ![r].pc = "flushwrite", ![r].held = secret]
          /\ UNCHANGED grant
       \/ /\ secret # grant.unsaved.base
          /\ grant' = [grant EXCEPT !.unsaved = None]
          /\ Goto(r, "check")
       \/ UNCHANGED grant /\ Goto(r, "check")
    /\ UNCHANGED <<world, secret, holder>>

\* Mutant of Patch: the PATCH carries no resourceVersion
PatchBlindly(held, p, ok) ==
    \/ secret' = p
    \/ ~ok /\ UNCHANGED secret

\* SecretStore.write(): the API server applies the PATCH only to the
\* resourceVersion that was read; `ok` is whether the caller learns of it
Patch(held, p, ok) ==
    \/ secret = held /\ secret' = p
    \/ ~ok /\ UNCHANGED secret

FlushWrite(r) ==
    /\ Inside(r, "flushwrite")
    /\ \E ok \in BOOLEAN :
          /\ Patch(req[r].held, grant.unsaved.pair, ok)
          /\ grant' = IF ok THEN [grant EXCEPT !.unsaved = None] ELSE grant
    /\ Goto(r, "check")
    /\ UNCHANGED <<world, holder>>

\* access_token(): the cached token, if it lasts
Check(r) ==
    /\ Inside(r, "check")
    /\ IF Usable(grant.token) THEN Send(r, grant.token) ELSE Goto(r, "read") /\ UNCHANGED holder
    /\ UNCHANGED <<world, secret, grant>>

\* access_token(): read the Secret, prefer an unsaved rotation of what it
\* holds, and use its access token unless that one was refused
Read(r) ==
    /\ Inside(r, "read")
    /\ \/ Leave(r) /\ UNCHANGED grant                     \* the read fails
       \/ /\ secret # None
          /\ LET p == Newest(secret, grant.unsaved)
                 keep == grant.unsaved # None /\ grant.unsaved.base = secret
                 g == IF keep THEN grant ELSE [grant EXCEPT !.unsaved = None]
             IN IF Usable(p) /\ p # grant.rejected
                THEN grant' = [g EXCEPT !.token = p] /\ Send(r, p)
                ELSE /\ grant' = g
                     /\ req' = [req EXCEPT ![r].pc = "post", ![r].tok = p, ![r].held = secret]
                     /\ UNCHANGED holder
    /\ UNCHANGED <<world, secret>>

\* The token endpoint (external): it takes the current and the previous
\* refresh token of a consent, and ends the consent when it is shown another
Rotate(p) ==
    LET c == issued[p].consent IN
    IF p \in valid[c]
    THEN /\ Len(issued) < MaxPair
         /\ issued' = Append(issued, [at |-> time, consent |-> c])
         /\ valid' = [valid EXCEPT ![c] = {p, Len(issued) + 1}]
    ELSE valid' = [valid EXCEPT ![c] = {}] /\ UNCHANGED issued

\* _refresh(): post the refresh token; any answer but a new pair is an error,
\* and an answer may be lost after Notion rotated.  A new pair is kept in memory before the Secret is written.
Post(r) ==
    /\ Inside(r, "post")
    /\ LET p == req[r].tok
           ok == p \in valid[issued[p].consent]
       IN \/ UNCHANGED <<issued, valid, grant>> /\ Leave(r)
          \/ Rotate(p) /\ UNCHANGED grant /\ Leave(r)
          \/ /\ ok /\ Rotate(p)
             /\ LET base == IF grant.unsaved # None THEN grant.unsaved.base ELSE p IN
                grant' = [grant EXCEPT !.unsaved = [base |-> base, pair |-> Len(issued')]]
             /\ Goto(r, "save") /\ UNCHANGED holder
    /\ UNCHANGED <<time, revoked, secret, boot, restarts, lost>>

\* _refresh(): write the pair back; if that fails it stays unsaved and is used
Save(r) ==
    /\ Inside(r, "save")
    /\ LET p == grant.unsaved.pair IN
       /\ \E ok \in BOOLEAN :
             /\ Patch(req[r].held, p, ok)
             /\ grant' = [grant EXCEPT !.token = p, !.rejected = None,
                             !.unsaved = IF ok THEN None ELSE @,
                             !.flush = IF ok THEN @ ELSE time + FlushEvery]
       /\ Send(r, p)
    /\ UNCHANGED world

\* forward(): the upstream request.  A refusal is retried once, after
\* on_unauthorized(); the endpoint may be down, and may refuse (403) at will.
Forward(r) ==
    /\ At(r, "send")
    /\ \/ req[r].tok \notin revoked /\ Answer(r)
       \/ Answer(r)                                        \* unreachable
       \/ /\ req[r].tok \in revoked \/ ~Usable(req[r].tok)
          /\ IF req[r].retry THEN Answer(r)
             ELSE req' = [req EXCEPT ![r].pc = "refused", ![r].first = req[r].tok]
    /\ UNCHANGED <<world, secret, grant, holder>>

\* invalidate(), in its own thread, under the lock; the loop starts over
Invalidate(r) ==
    /\ At(r, "refused") /\ holder = None
    /\ grant' = [grant EXCEPT !.rejected = grant.token, !.token = None]
    /\ req' = [req EXCEPT ![r].pc = "cred", ![r].retry = TRUE, ![r].tok = None]
    /\ UNCHANGED <<world, secret, holder>>

-----------------------------------------------------------------------------
(* The bootstrap tool, restarts and the world *)

\* bootstrap-notion.py: consent in the browser and the code exchange
Consent ==
    /\ boot = None /\ Len(issued) < MaxPair
    /\ \E c \in 1 .. MaxConsent :
          /\ \A i \in 1 .. Len(issued) : issued[i].consent < c
          /\ \A d \in 1 .. c - 1 : \E i \in 1 .. Len(issued) : issued[i].consent = d
          /\ issued' = Append(issued, [at |-> time, consent |-> c])
          /\ valid' = [valid EXCEPT ![c] = {Len(issued) + 1}]
    /\ boot' = Len(issued')
    /\ UNCHANGED <<time, revoked, secret, grant, holder, req, restarts, lost>>

\* its last step: kubectl replace (or create), whatever the Secret holds now;
\* when kubectl fails the tool exits and the pair is gone
Replace ==
    /\ boot # None
    /\ secret' \in {secret, boot}
    /\ boot' = None
    /\ UNCHANGED <<time, issued, valid, revoked, grant, holder, req, restarts, lost>>

\* The pod restarts: Grant.__init__() again, requests in flight are gone
Crash ==
    /\ restarts < MaxCrash
    /\ restarts' = restarts + 1
    /\ grant' = Fresh0 /\ holder' = None /\ req' = [r \in Req |-> Idle]
    /\ lost' = (lost \/ (secret # None /\ secret \notin valid[issued[secret].consent]))
    /\ UNCHANGED <<time, issued, valid, revoked, secret, boot>>

Tick == time < MaxTime /\ time' = time + 1 /\ UNCHANGED <<issued, valid, revoked, secret, grant, holder, req, boot, restarts, lost>>

\* (external) an access token stops working before it expires
Revoke ==
    /\ Cardinality(revoked) < 1
    /\ \E p \in 1 .. Len(issued) : revoked' = {p}
    /\ UNCHANGED <<time, issued, valid, secret, grant, holder, req, boot, restarts, lost>>

Step(r) ==
    \/ Enter(r) \/ FlushRead(r) \/ FlushWrite(r) \/ Check(r) \/ Read(r)
    \/ Post(r) \/ Save(r) \/ Forward(r) \/ Invalidate(r)

GrantNext ==
    \/ \E r \in Req : Begin(r) \/ Step(r)
    \/ Consent \/ Replace \/ Crash \/ Tick \/ Revoke

\* Threads inside the lock are scheduled; one waiting for it competes with the
\* others, so it needs strong fairness
GrantFairness ==
    \A r \in Req :
       /\ WF_grantVars(Step(r) /\ ~(req[r].pc \in {"cred", "refused"}))
       /\ SF_grantVars(Enter(r) \/ Invalidate(r))

GrantSpec == GrantInit /\ [][GrantNext]_grantVars /\ GrantFairness

-----------------------------------------------------------------------------
(* Properties *)

MaybePair == Pair \cup {None}

\* Type invariant: Grant, the Secret and every request hold what the code keeps
\* there, the lock is held by exactly the request inside it, and an unsaved
\* pair was issued after the one it is to replace.
GrantTypeOK ==
    /\ time \in 0 .. MaxTime
    /\ Len(issued) <= MaxPair
    /\ secret \in MaybePair /\ boot \in MaybePair /\ revoked \subseteq Pair
    /\ grant.token \in MaybePair /\ grant.rejected \in MaybePair
    /\ grant.unsaved # None => grant.unsaved.base < grant.unsaved.pair
    /\ \A r \in Req : (holder = r) <=> req[r].pc \in {"flush", "flushwrite", "check", "read", "post", "save"}

\* Notion ends a grant when a rotated-out refresh token is replayed, so the
\* token access_token() would refresh with must always be one Notion still
\* takes: through failed, lost and conflicting Secret writes, lost answers of
\* the token endpoint and any interleaving with a bootstrap run.  The one
\* exception the code accepts is a restart before two rotations in a row were
\* written back.
RefreshTokenUsable ==
    LET p == Newest(secret, grant.unsaved) IN
    p # None /\ ~lost => p \in valid[issued[p].consent]

\* What a bootstrap run wrote stays: the Secret never goes back to an older
\* consent, although the hub may be rotating the old one at that moment.
BootstrapKept == secret # None => secret' # None /\ issued'[secret'].consent >= issued[secret].consent

\* Every request for /notion is answered, whatever the Secret, the token
\* endpoint and the MCP endpoint do (no thread waits for the lock for ever).
RequestAnswered == \A r \in Req : (req[r].pc # "idle") ~> (req[r].pc = "idle")

\* What the grant keeps, all the time and in every step.
NotionGrantKept == [](GrantTypeOK /\ RefreshTokenUsable) /\ [][BootstrapKept]_grantVars

\* After a 401 "never reuse this access token" (invalidate()): the single
\* retry of a request does not present the token it was just refused with.
RejectedNotReused ==
    \A r \in Req : At(r, "send") /\ req[r].retry => req[r].tok # req[r].first
=============================================================================
