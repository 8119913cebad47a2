------------------------------ MODULE WorkAuth ------------------------------
(***************************************************************************)
(* work-aks-auth.py, kubectl's exec helper for the work clusters: any      *)
(* number of `token` calls, and the owner's explicit `login`, share the    *)
(* Azure CLI sessions of the home, one cache directory per tenant and      *)
(* account.  A call checks the reviewed inputs, picks the cache, takes its *)
(* lock and only then talks to `az`.                                       *)
(*                                                                         *)
(* A session is the tenant and user `az` is logged in as; a device-code    *)
(* login is for the requested tenant but for whatever user the owner types *)
(* in.  Token lifetimes are left out: an expired session is no session.    *)
(***************************************************************************)
EXTENDS Integers

CONSTANTS
    Caller,     \* concurrent runs of the helper
    Context,    \* approved work contexts
    Scope,      \* Scope[c]: [tenant, user, subscription] reviewed for context c
    Default,    \* the top-level scope of work-auth.json
    User,       \* accounts the owner may log in as
    MaxLogin,   \* bound: logins
    MaxUpset,   \* bound: interrupts, az failures and expiries
    None

VARIABLES
    session,    \* session[d]: [tenant, user] of cache directory d, or Nobody
    alock,      \* alock[d]: the run that holds t3-work-auth.lock of d, or None
    wcall,      \* wcall[c]: [pc, act, ctx, token]
    logins,     \* logins so far
    mishaps     \* interrupts, failures and expiries so far

workAuthVars == <<session, alock, wcall, logins, mishaps>>

\* environment(): ~/.azure itself (<<>>), or a directory per other tenant and account
CacheOf(s) ==
    IF s.tenant = Default.tenant /\ s.user = Default.user THEN <<>>
    ELSE <<s.tenant, s.user>>

Cache(c) == CacheOf(Scope[c])
Caches == {CacheOf(Scope[c]) : c \in Context} \cup {<<>>}

\* A cache nobody is logged in to
Nobody == [tenant |-> None, user |-> None]

Idle == [pc |-> "idle", act |-> None, ctx |-> None, token |-> None]

WorkAuthInit ==
    /\ session = [d \in Caches |-> Nobody] /\ alock = [d \in Caches |-> None]
    /\ wcall = [c \in Caller |-> Idle] /\ logins = 0 /\ mishaps = 0

Mine(c) == Scope[wcall[c].ctx]
Dir(c) == Cache(wcall[c].ctx)
Goto(c, pc) == wcall' = [wcall EXCEPT ![c].pc = pc]
Mishap == mishaps < MaxUpset /\ mishaps' = mishaps + 1

\* run(): validate, scope_for, environment
Call(c, act, x) ==
    /\ wcall[c].pc = "idle"
    /\ act = "login" => logins < MaxLogin
    /\ logins' = logins + (IF act = "login" THEN 1 ELSE 0)
    /\ wcall' = [wcall EXCEPT ![c] = [pc |-> "wait", act |-> act, ctx |-> x, token |-> None]]
    /\ UNCHANGED <<session, alock, mishaps>>

\* Mutant of TakeLock: the call goes on without the lock
TakeNoLock(c) ==
    /\ wcall[c].pc = "wait"
    /\ Goto(c, IF wcall[c].act = "login" THEN "prompt" ELSE "show")
    /\ UNCHANGED <<session, alock, logins, mishaps>>

\* locked(): flock, polled until LOCK_TIMEOUT
TakeLock(c) ==
    /\ wcall[c].pc = "wait" /\ alock[Dir(c)] = None
    /\ alock' = [alock EXCEPT ![Dir(c)] = c]
    /\ Goto(c, IF wcall[c].act = "login" THEN "prompt" ELSE "show")
    /\ UNCHANGED <<session, logins, mishaps>>

\* The end of a run, with or without a credential: the lock file is closed
Leave(c, token) ==
    /\ wcall' = [wcall EXCEPT ![c] = [@ EXCEPT !.pc = "done", !.token = token]]
    /\ alock' = [d \in Caches |-> IF alock[d] = c THEN None ELSE alock[d]]

TimeOut(c) ==
    /\ wcall[c].pc = "wait" /\ alock[Dir(c)] \notin {None, c}
    /\ Leave(c, None) /\ UNCHANGED <<session, logins, mishaps>>

\* az login --tenant: the owner picks the user, or the command fails or times out
Login(c) ==
    /\ wcall[c].pc = "prompt"
    /\ \/ /\ \E u \in User : session' = [session EXCEPT ![Dir(c)] = [tenant |-> Mine(c).tenant, user |-> u]]
          /\ Goto(c, "show") /\ UNCHANGED <<alock, logins, mishaps>>
       \/ Leave(c, None) /\ Mishap /\ UNCHANGED <<session, logins>>

Matches(c) == session[Dir(c)] = [tenant |-> Mine(c).tenant, user |-> Mine(c).user]

\* account(): az account show must be the reviewed tenant, subscription and user;
\* that ends a login, good or bad, and lets a token call go on
Show(c) ==
    /\ wcall[c].pc = "show"
    /\ \/ Matches(c) /\ wcall[c].act = "token" /\ Goto(c, "fetch") /\ UNCHANGED alock
       \/ ~(Matches(c) /\ wcall[c].act = "token") /\ Leave(c, None)
    /\ UNCHANGED <<session, logins, mishaps>>

\* az account get-access-token: only tenant and subscription of its answer are
\* compared.  The token is of whoever the session is at that moment
Fetch(c) ==
    /\ wcall[c].pc = "fetch"
    /\ LET s == session[Dir(c)] IN
       \/ s.tenant = Mine(c).tenant /\ Leave(c, s) /\ UNCHANGED mishaps
       \/ s.tenant # Mine(c).tenant /\ Leave(c, None) /\ UNCHANGED mishaps
       \/ Leave(c, None) /\ Mishap
    /\ UNCHANGED <<session, logins>>

Return(c) ==
    /\ wcall[c].pc = "done" /\ wcall' = [wcall EXCEPT ![c] = Idle]
    /\ UNCHANGED <<session, alock, logins, mishaps>>

\* Ctrl-C reaches the helper and the az it waits for
Interrupt(c) ==
    /\ wcall[c].pc \in {"wait", "prompt", "show", "fetch"} /\ Mishap
    /\ Leave(c, None) /\ UNCHANGED <<session, logins>>

\* Refresh tokens expire or are revoked, the cache is removed
Expire(d) ==
    /\ session[d] # Nobody /\ Mishap /\ session' = [session EXCEPT ![d] = Nobody]
    /\ UNCHANGED <<alock, wcall, logins>>

Proceed(c) == TakeLock(c) \/ TimeOut(c) \/ Login(c) \/ Show(c) \/ Fetch(c)

WorkAuthNext ==
    \/ \E c \in Caller : \/ Proceed(c) \/ Return(c) \/ Interrupt(c)
                         \/ \E act \in {"token", "login"}, x \in Context : Call(c, act, x)
    \/ \E d \in Caches : Expire(d)

\* Every az call and the wait for the lock have a timeout
WorkAuthFairness == \A c \in Caller : WF_workAuthVars(Proceed(c))

WorkAuthSpec == WorkAuthInit /\ [][WorkAuthNext]_workAuthVars /\ WorkAuthFairness

WorkAuthAssumption ==
    /\ MaxLogin \in Nat /\ MaxUpset \in Nat /\ None \notin Caller \cup Context
    /\ \A c \in Context : Scope[c].user \in User /\ Scope[c].tenant # None

-----------------------------------------------------------------------------
\* A credential handed to kubectl is of the tenant and the user reviewed for its
\* context, although get-access-token's answer names no user and an owner may be
\* logging in as somebody else at the same time.
WorkAuthReviewed ==
    \A c \in Caller : wcall[c].token # None =>
        wcall[c].token = [tenant |-> Mine(c).tenant, user |-> Mine(c).user]

\* Every call ends: queued behind a login prompt it times out.
AuthCallEnds == \A c \in Caller : (wcall[c].pc = "wait") ~> (wcall[c].pc \in {"done", "idle"})
=============================================================================
