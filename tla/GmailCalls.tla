------------------------------ MODULE GmailCalls ------------------------------
(***************************************************************************)
(* 23.mcp-hub/files/gmail_mcp.py in the hub's pod: tool calls run in       *)
(* threads that share one access token (Auth, its own lock, held while the *)
(* token is refreshed) and one cache of label names (_labels, another      *)
(* lock, held while the labels are listed, which needs the token).         *)
(*                                                                         *)
(* A token's life starts when Google issues it.  The pod counts expires_in *)
(* from when it has read the answer, so it takes the token for younger by  *)
(* what the refresh took.  Google refuses a token from the end of its life *)
(* on, and at once when the owner revokes the grant.  One label name       *)
(* stands for all: its id changes when the label is deleted and made anew. *)
(***************************************************************************)
EXTENDS Integers, FiniteSets

CONSTANTS
    Call,         \* tool calls
    TokenLife,    \* expires_in
    Margin,       \* the 60 s by which the pod gives a token up early
    LabelLife,    \* LABEL_TTL
    MaxTime,      \* bound: last instant explored
    MaxRename,    \* bound: how often the label is made anew
    None

\* 3600 s and more against 60 s
GmailAssumption ==
    /\ TokenLife \in Nat /\ Margin \in 0 .. TokenLife - 1 /\ LabelLife \in Nat
    /\ MaxTime \in Nat /\ MaxRename \in Nat
    /\ None \notin Nat \cup Call \cup [until : Nat, dies : Nat]

VARIABLES
    clock,
    revoked,       \* the owner has revoked the grant
    token,         \* Auth._token, or None: until is _expires, dies is when Google ends it
    alock, llock,  \* Auth._lock and _labels_lock
    label,         \* the id Gmail has for the name
    replaced,      \* replaced[i]: when id i went out of use, or None
    lcache,        \* _labels_cache: the id and when it was asked for
    call           \* call[c]

gmvars == <<clock, revoked, token, alock, llock, label, replaced, lcache, call>>

Idle == [pc |-> "idle", token |-> None, taken |-> 0, asked |-> 0, id |-> None, late |-> FALSE]

Answers == {"ok", "rejected", "error"}

Answered(c, how) == call' = [call EXCEPT ![c] = [Idle EXCEPT !.pc = how]]

-----------------------------------------------------------------------------
\* _modify() first needs the labels, the other tools go to the API at once
Begin(c) ==
    /\ call[c].pc = "idle"
    /\ \E first \in {"labels", "token"} : call' = [call EXCEPT ![c].pc = first]
    /\ UNCHANGED <<clock, revoked, token, alock, llock, label, replaced, lcache>>

CacheStale == lcache.id = None \/ clock - lcache.at > LabelLife

\* _labels(), under _labels_lock: listed again when the cache is too old.  The
\* cache itself is returned, to be read after the lock is released.
Labels(c) ==
    /\ call[c].pc = "labels"
    /\ llock = None
    /\ IF CacheStale
       THEN llock' = c /\ call' = [call EXCEPT ![c].pc = "token", ![c].asked = clock]
       ELSE llock' = None /\ call' = [call EXCEPT ![c].pc = "resolve", ![c].asked = clock]
    /\ UNCHANGED <<clock, revoked, token, alock, label, replaced, lcache>>

\* Mutant of TokenFresh: given up when it has expired
TokenFreshToTheEnd == token # None /\ clock <= token.until

TokenFresh == token # None /\ clock + Margin < token.until

\* Auth.token(), under its lock: the shared token, or a refresh that every other
\* call waits for
TakeToken(c) ==
    /\ call[c].pc = "token"
    /\ alock = None
    /\ IF TokenFresh
       THEN /\ call' = [call EXCEPT ![c].pc = "api", ![c].token = token, ![c].taken = clock]
            /\ UNCHANGED alock
       ELSE /\ alock' = c
            /\ call' = [call EXCEPT ![c].pc = "refresh"]
    /\ UNCHANGED <<clock, revoked, token, llock, label, replaced, lcache>>

Unlock(c) == llock' = IF llock = c THEN None ELSE llock

\* Google issues a token while the request waits for its answer: `taken` is when
Issue(c) ==
    /\ call[c].pc = "refresh" /\ ~revoked
    /\ call' = [call EXCEPT ![c].pc = "issued", ![c].taken = clock]
    /\ UNCHANGED <<clock, revoked, token, alock, llock, label, replaced, lcache>>

\* The answer is read: a new token, ...
Refreshed(c) ==
    /\ call[c].pc = "issued" /\ alock' = None
    /\ token' = [until |-> clock + TokenLife, dies |-> call[c].taken + TokenLife]
    /\ call' = [call EXCEPT ![c].pc = "api", ![c].token = token', ![c].taken = clock]
    /\ UNCHANGED <<clock, revoked, llock, label, replaced, lcache>>

\* ... or an error that ends the call and releases the locks it holds
RefreshFails(c) ==
    /\ call[c].pc \in {"refresh", "issued"} /\ alock' = None
    /\ Answered(c, "error") /\ Unlock(c)
    /\ UNCHANGED <<clock, revoked, token, label, replaced, lcache>>

\* How long the refresh of a token took, by which the pod is late to give it up
Latency(t) == t.until - t.dies

Valid(t) == clock < t.dies /\ ~revoked

\* _api(): Google serves a valid token, or refuses it; the network may fail too.
\* Under _labels_lock it is the list of labels that was asked for.
ApiAnswers(c) ==
    /\ call[c].pc = "api"
    /\ \/ /\ Valid(call[c].token)
          /\ IF llock = c
             THEN /\ lcache' = [at |-> call[c].asked, id |-> label]
                  /\ llock' = None
                  /\ call' = [call EXCEPT ![c].pc = "resolve"]
             ELSE Answered(c, "ok") /\ UNCHANGED <<llock, lcache>>
       \/ /\ Unlock(c) /\ UNCHANGED lcache
          /\ IF Valid(call[c].token) THEN Answered(c, "error")
             ELSE call' = [call EXCEPT ![c] = [Idle EXCEPT !.pc = "rejected",
                      !.late = revoked \/ Latency(call[c].token) + clock - call[c].taken > Margin]]
    /\ UNCHANGED <<clock, revoked, token, alock, label, replaced>>

\* _modify() resolves the names with the cache as it is now, then posts
Resolve(c) ==
    /\ call[c].pc = "resolve"
    /\ call' = [call EXCEPT ![c].pc = "token", ![c].id = lcache.id]
    /\ UNCHANGED <<clock, revoked, token, alock, llock, label, replaced, lcache>>

\* Time passes, the owner revokes the grant, a label is deleted and made anew
Tick ==
    /\ clock < MaxTime
    /\ clock' = clock + 1
    /\ UNCHANGED <<revoked, token, alock, llock, label, replaced, lcache, call>>

Revoke ==
    /\ ~revoked
    /\ revoked' = TRUE
    /\ UNCHANGED <<clock, token, alock, llock, label, replaced, lcache, call>>

Rename ==
    /\ label < MaxRename
    /\ label' = label + 1
    /\ replaced' = [replaced EXCEPT ![label] = clock]
    /\ UNCHANGED <<clock, revoked, token, alock, llock, lcache, call>>

GmailInit ==
    /\ clock = 0 /\ revoked = FALSE
    /\ token = None
    /\ alock = None /\ llock = None
    /\ label = 0 /\ replaced = [i \in 0 .. MaxRename |-> None]
    /\ lcache = [at |-> 0, id |-> None]
    /\ call = [c \in Call |-> Idle]

CallStep(c) == Labels(c) \/ TakeToken(c) \/ Issue(c) \/ Refreshed(c) \/ RefreshFails(c) \/ ApiAnswers(c) \/ Resolve(c)

GmailNext ==
    \/ \E c \in Call : Begin(c) \/ CallStep(c)
    \/ Tick \/ Revoke \/ Rename

GmailSpec == GmailInit /\ [][GmailNext]_gmvars

\* Every HTTP request has a timeout, a thread runs on, and a lock that is free for
\* good is taken by whoever waits for it
GmailFairness == \A c \in Call : WF_gmvars(CallStep(c))

-----------------------------------------------------------------------------
(* Properties *)

GmailTypeOK ==
    /\ clock \in 0 .. MaxTime
    /\ token \in [until : 0 .. MaxTime + TokenLife, dies : 0 .. MaxTime + TokenLife] \cup {None}
    /\ alock \in Call \cup {None} /\ llock \in Call \cup {None}
    /\ lcache \in [at : 0 .. MaxTime, id : 0 .. MaxRename \cup {None}]

\* Google refuses a token of the pod only when the grant was revoked, or when what
\* the token's refresh took and what the call dawdled between taking and using it
\* come to more than the safety margin, although all calls share one token and may wait
\* for its refresh (Auth.token): the margin has to cover both.
RejectedForCause == \A c \in Call : call[c].pc = "rejected" => call[c].late

\* gmail_modify applies the id a label has, or had no longer than LABEL_TTL before
\* the call looked: also when another call refreshes the cache it was handed.
LabelRecent ==
    \A c \in Call : call[c].id # None =>
        call[c].id = label \/ replaced[call[c].id] + LabelLife >= call[c].asked

\* What the calls that share one token and one label cache may rely on, together.
GmailCallsSound == GmailTypeOK /\ RejectedForCause /\ LabelRecent

\* No call waits for ever: the two locks are always taken in the same order and
\* released on every error path (_labels, Auth.token).
CallEnds == \A c \in Call : call[c].pc # "idle" ~> call[c].pc \in Answers
=============================================================================
