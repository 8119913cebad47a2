---------------------------- MODULE ServiceProofs ----------------------------
(***************************************************************************)
(* What the services and the jobs of the cluster never do, proved one      *)
(* component at a time and then of their composition.  The components      *)
(* share no state: each section takes one instance of Services,            *)
(* strengthens its property to an inductive invariant, and proves          *)
(*     its initial states satisfy the invariant,                           *)
(*     every step keeps it,                                                *)
(*     the invariant implies the property.                                 *)
(* The last section carries the properties over to ServicesSpec.           *)
(***************************************************************************)
EXTENDS Services, FunctionTheorems, FiniteSetTheorems, TLAPS

-----------------------------------------------------------------------------
(* WorkAuth *)

Tenant == {None} \cup {Scope[x].tenant : x \in Context}
Login == [tenant : Tenant, user : User \cup {None}]

\* A run of the helper as a record, whose fields the provers then know
AuthCall == [pc : {"idle", "wait", "prompt", "show", "fetch", "done"},
             act : {"token", "login", None}, ctx : Context \cup {None}, token : Login \cup {None}]

\* The login reviewed for context x
Reviewed(x) == [tenant |-> Scope[x].tenant, user |-> Scope[x].user]

\* What the run c knows: who may log in under its lock, and whom it has seen
Knows(c) ==
    /\ wcall[c].pc # "idle" => wcall[c].ctx \in Context
    /\ wcall[c].pc # "done" => wcall[c].token = None
    /\ wcall[c].pc \in {"prompt", "show", "fetch"} => azLock[WA!Cache(wcall[c].ctx)] = c
    /\ wcall[c].pc = "fetch" => azSession[WA!Cache(wcall[c].ctx)] \in {WA!Nobody, Reviewed(wcall[c].ctx)}
    /\ wcall[c].token \in {None, Reviewed(wcall[c].ctx)}

AuthInv ==
    /\ azSession \in [WA!Caches -> Login]
    /\ azLock \in [WA!Caches -> Caller \cup {None}]
    /\ wcall \in [Caller -> AuthCall]
    /\ \A c \in Caller : Knows(c)

LEMMA AuthTypes ==
    ASSUME WA!WorkAuthAssumption
    PROVE  /\ WA!Nobody \in Login /\ WA!Idle \in AuthCall
           /\ \A x \in Context : WA!Cache(x) \in WA!Caches /\ Reviewed(x) \in Login
BY DEF WA!WorkAuthAssumption, WA!Nobody, WA!Idle, Login, Tenant, AuthCall, Reviewed, WA!Cache, WA!Caches

LEMMA AuthInitOK == ASSUME WA!WorkAuthAssumption, WA!WorkAuthInit PROVE AuthInv
BY AuthTypes DEF WA!WorkAuthInit, AuthInv, Knows, WA!Idle

\* A run that ends: no lock is its own any more, and nobody else's changes.
LEMMA LeaveKeeps ==
    ASSUME WA!WorkAuthAssumption, AuthInv, NEW c \in Caller, NEW tok \in Login \cup {None},
           wcall[c].ctx \in Context, tok \in {None, Reviewed(wcall[c].ctx)},
           WA!Leave(c, tok), UNCHANGED azSession
    PROVE  AuthInv'
<1>1. wcall' \in [Caller -> AuthCall] /\ wcall'[c].pc = "done" /\ wcall'[c].token = tok
        /\ wcall'[c].ctx = wcall[c].ctx /\ \A b \in Caller \ {c} : wcall'[b] = wcall[b]
    BY Zenon DEF WA!Leave, AuthInv, AuthCall
<1>2. azLock' \in [WA!Caches -> Caller \cup {None}]
        /\ \A d \in WA!Caches, b \in Caller \ {c} : azLock[d] = b => azLock'[d] = b
    BY DEF WA!Leave, AuthInv
<1>3. Knows(c)'
    BY <1>1 DEF Knows
<1>4. ASSUME NEW b \in Caller \ {c} PROVE Knows(b)'
    BY <1>1, <1>2, AuthTypes DEF AuthInv, Knows
<1> QED BY <1>1, <1>2, <1>3, <1>4 DEF AuthInv

\* A step of c that leaves the lock and the sessions alone.
LEMMA GotoKeeps ==
    ASSUME WA!WorkAuthAssumption, AuthInv, NEW c \in Caller, UNCHANGED <<azSession, azLock>>,
           NEW new \in AuthCall, wcall' = [wcall EXCEPT ![c] = new], Knows(c)'
    PROVE  AuthInv'
<1>1. wcall' \in [Caller -> AuthCall] /\ \A b \in Caller \ {c} : wcall'[b] = wcall[b]
    BY DEF AuthInv
<1>2. ASSUME NEW b \in Caller \ {c} PROVE Knows(b)'
    BY <1>1, <1>2 DEF AuthInv, Knows
<1> QED BY <1>1, <1>2 DEF AuthInv

LEMMA AuthCallKeeps ==
    ASSUME WA!WorkAuthAssumption, AuthInv, NEW c \in Caller,
           WA!Return(c) \/ \E act \in {"token", "login"}, x \in Context : WA!Call(c, act, x)
    PROVE  AuthInv'
<1>1. UNCHANGED <<azSession, azLock>>
    BY DEF WA!Return, WA!Call
<1>2. CASE WA!Return(c)
    <2>1. wcall' = [wcall EXCEPT ![c] = WA!Idle] /\ WA!Idle \in AuthCall
        BY <1>2, AuthTypes DEF WA!Return
    <2>2. Knows(c)'
        BY <2>1 DEF AuthInv, Knows, WA!Idle
    <2> QED BY Zenon, <1>1, <2>1, <2>2, GotoKeeps
<1>3. ASSUME NEW act \in {"token", "login"}, NEW x \in Context, WA!Call(c, act, x)
      PROVE  AuthInv'
    <2> DEFINE new == [pc |-> "wait", act |-> act, ctx |-> x, token |-> None]
    <2>1. wcall' = [wcall EXCEPT ![c] = new] /\ new \in AuthCall
        BY <1>3 DEF WA!Call, AuthCall
    <2>2. Knows(c)'
        BY <2>1 DEF AuthInv, Knows
    <2> HIDE DEF new
    <2> QED BY Zenon, <1>1, <2>1, <2>2, GotoKeeps
<1> QED BY <1>2, <1>3

\* Who gets the lock had it from nobody.
LEMMA TakeLockKeeps ==
    ASSUME WA!WorkAuthAssumption, AuthInv, NEW c \in Caller, WA!TakeLock(c) PROVE AuthInv'
<1> DEFINE d == WA!Cache(wcall[c].ctx)
<1>1. /\ wcall[c] \in AuthCall /\ wcall[c].ctx \in Context /\ wcall[c].token = None
      /\ d \in WA!Caches /\ azLock[d] = None
    BY AuthTypes DEF AuthInv, Knows, WA!TakeLock, WA!Dir
<1>2. azLock' = [azLock EXCEPT ![d] = c] /\ UNCHANGED azSession
    BY DEF WA!TakeLock, WA!Dir
<1>3. PICK pc \in {"prompt", "show"} : wcall' = [wcall EXCEPT ![c].pc = pc]
    BY Zenon DEF WA!TakeLock, WA!Goto
<1>4. wcall' \in [Caller -> AuthCall] /\ wcall'[c].pc = pc /\ wcall'[c].token = None
        /\ wcall'[c].ctx = wcall[c].ctx /\ \A b \in Caller \ {c} : wcall'[b] = wcall[b]
    BY <1>1, <1>3 DEF AuthInv, AuthCall
<1>5. azLock' \in [WA!Caches -> Caller \cup {None}] /\ azLock'[d] = c
        /\ \A e \in WA!Caches : azLock[e] # None => azLock'[e] = azLock[e]
    BY <1>1, <1>2 DEF AuthInv
<1>6. Knows(c)'
    BY <1>1, <1>4, <1>5 DEF Knows
<1>7. ASSUME NEW b \in Caller \ {c} PROVE Knows(b)'
    BY <1>2, <1>4, <1>5, AuthTypes DEF AuthInv, Knows, WA!WorkAuthAssumption
<1> QED BY <1>2, <1>4, <1>5, <1>6, <1>7 DEF AuthInv

\* A login is under the lock, so that no other run has looked at the session
\* it replaces.
LEMMA LoginKeeps ==
    ASSUME WA!WorkAuthAssumption, AuthInv, NEW c \in Caller, WA!Login(c) PROVE AuthInv'
<1> DEFINE d == WA!Cache(wcall[c].ctx)
<1>1. /\ wcall[c] \in AuthCall /\ wcall[c].ctx \in Context /\ wcall[c].token = None
      /\ d \in WA!Caches /\ azLock[d] = c
    BY AuthTypes DEF AuthInv, Knows, WA!Login
<1>2. CASE WA!Leave(c, None) /\ UNCHANGED azSession
    BY <1>1, <1>2, LeaveKeeps
<1>3. ASSUME NEW u \in User, WA!Goto(c, "show"), UNCHANGED azLock,
             azSession' = [azSession EXCEPT ![d] = [tenant |-> WA!Mine(c).tenant, user |-> u]]
      PROVE  AuthInv'
    <2>1. [tenant |-> WA!Mine(c).tenant, user |-> u] \in Login
        BY <1>1 DEF WA!Mine, Login, Tenant
    <2>2. azSession' \in [WA!Caches -> Login] /\ \A e \in WA!Caches \ {d} : azSession'[e] = azSession[e]
        BY <1>1, <1>3, <2>1 DEF AuthInv
    <2>3. wcall' \in [Caller -> AuthCall] /\ wcall'[c].pc = "show" /\ wcall'[c].token = None
            /\ wcall'[c].ctx = wcall[c].ctx /\ \A b \in Caller \ {c} : wcall'[b] = wcall[b]
        BY <1>1, <1>3 DEF AuthInv, AuthCall, WA!Goto
    <2>4. Knows(c)'
        BY <1>1, <1>3, <2>3 DEF Knows
    <2>5. ASSUME NEW b \in Caller \ {c} PROVE Knows(b)'
        <3>1. wcall[b].pc = "fetch" => WA!Cache(wcall[b].ctx) \in WA!Caches \ {d}
            BY <1>1, AuthTypes DEF AuthInv, Knows
        <3> QED BY <1>3, <2>2, <2>3, <3>1 DEF AuthInv, Knows
    <2> QED BY <1>3, <2>2, <2>3, <2>4, <2>5 DEF AuthInv
<1> QED BY Zenon, <1>2, <1>3 DEF WA!Login, WA!Dir

LEMMA ShowKeeps ==
    ASSUME WA!WorkAuthAssumption, AuthInv, NEW c \in Caller, WA!Show(c) PROVE AuthInv'
<1>1. wcall[c] \in AuthCall /\ wcall[c].ctx \in Context /\ wcall[c].token = None /\ UNCHANGED azSession
    BY DEF AuthInv, Knows, WA!Show
<1>2. CASE WA!Leave(c, None)
    BY <1>1, <1>2, LeaveKeeps
<1>3. CASE WA!Matches(c) /\ WA!Goto(c, "fetch") /\ UNCHANGED azLock
    <2> DEFINE new == [wcall[c] EXCEPT !.pc = "fetch"]
    <2>1. new \in AuthCall /\ wcall' = [wcall EXCEPT ![c] = new]
        BY <1>1, <1>3 DEF AuthCall, WA!Goto
    <2>2. wcall'[c].pc = "fetch" /\ wcall'[c].token = None /\ wcall'[c].ctx = wcall[c].ctx
        BY <1>1, <2>1 DEF AuthInv, AuthCall
    <2>3. Knows(c)'
        BY <1>1, <1>3, <2>2 DEF Knows, AuthInv, WA!Show, WA!Matches, WA!Mine, WA!Dir, Reviewed
    <2> HIDE DEF new
    <2> QED BY Zenon, <1>1, <1>3, <2>1, <2>3, GotoKeeps
<1> QED BY <1>2, <1>3 DEF WA!Show

\* The session is the one that was seen, or nobody's by now.
LEMMA FetchKeeps ==
    ASSUME WA!WorkAuthAssumption, AuthInv, NEW c \in Caller, WA!Fetch(c) PROVE AuthInv'
<1> DEFINE s == azSession[WA!Dir(c)]
<1>1. wcall[c].ctx \in Context /\ UNCHANGED azSession /\ s \in {WA!Nobody, Reviewed(wcall[c].ctx)}
    BY DEF AuthInv, Knows, WA!Fetch, WA!Dir
<1>2. CASE WA!Leave(c, None)
    BY <1>1, <1>2, LeaveKeeps
<1>3. CASE s.tenant = WA!Mine(c).tenant /\ WA!Leave(c, s)
    <2>1. s = Reviewed(wcall[c].ctx) /\ s \in Login
        BY <1>1, <1>3, AuthTypes DEF WA!Nobody, WA!Mine, WA!WorkAuthAssumption
    <2> QED BY <1>1, <1>3, <2>1, LeaveKeeps
<1> QED BY <1>2, <1>3 DEF WA!Fetch

LEMMA ExpireKeeps ==
    ASSUME WA!WorkAuthAssumption, AuthInv, NEW d \in WA!Caches, WA!Expire(d) PROVE AuthInv'
<1>1. azSession' \in [WA!Caches -> Login] /\ \A e \in WA!Caches : azSession'[e] \in {azSession[e], WA!Nobody}
    BY AuthTypes DEF AuthInv, WA!Expire
<1>2. UNCHANGED <<azLock, wcall>>
    BY DEF WA!Expire
<1>3. ASSUME NEW c \in Caller PROVE Knows(c)'
    BY <1>1, <1>2, AuthTypes DEF AuthInv, Knows
<1> QED BY <1>1, <1>2, <1>3 DEF AuthInv

LEMMA AuthStepOK ==
    ASSUME WA!WorkAuthAssumption, AuthInv, [WA!WorkAuthNext]_(WA!workAuthVars) PROVE AuthInv'
<1>1. CASE UNCHANGED WA!workAuthVars
    BY <1>1 DEF WA!workAuthVars, AuthInv, Knows
<1>2. ASSUME NEW c \in Caller, WA!TimeOut(c) \/ WA!Interrupt(c) PROVE AuthInv'
    <2>1. wcall[c].ctx \in Context /\ WA!Leave(c, None) /\ UNCHANGED azSession
        BY <1>2 DEF AuthInv, Knows, WA!TimeOut, WA!Interrupt
    <2> QED BY <2>1, LeaveKeeps
<1>3. CASE WA!WorkAuthNext
    BY <1>2, <1>3, AuthCallKeeps, TakeLockKeeps, LoginKeeps, ShowKeeps, FetchKeeps, ExpireKeeps
       DEF WA!WorkAuthNext, WA!Proceed
<1> QED BY <1>1, <1>3

LEMMA AuthTells == ASSUME AuthInv PROVE WA!WorkAuthReviewed
BY DEF AuthInv, Knows, Reviewed, WA!WorkAuthReviewed, WA!Mine

\* For any callers, contexts, tenants and users: a credential handed to kubectl is
\* that of the login reviewed for its context, whoever logs in meanwhile (account,
\* run: the check and the token are two calls of az, and the second names no user).
THEOREM TokensAreReviewed ==
    ASSUME WA!WorkAuthAssumption PROVE WA!WorkAuthSpec => []WA!WorkAuthReviewed
BY AuthTells, AuthInitOK, AuthStepOK, PTL DEF WA!WorkAuthSpec
-----------------------------------------------------------------------------
(* IdleRollout: an age that was high enough when the job read it either    *)
(* still is, or starts again after that reading and is then no higher than *)
(* the time since: that, for the ages read so far, is what every step      *)
(* keeps, whoever replaces the pod meanwhile.                              *)

Steps == {"idle", "pod", "waiting", "ready", "t3", "sshd", "delete"}

\* a run of idle-rollout.sh as a record, whose fields the provers then know
Run == [pc : Steps, want : Revision \cup {0}, crash : BOOLEAN, since : 0 .. RolloutDeadline]

Ages ==
    /\ want \in Revision
    /\ age \in [IR!Use -> 0 .. IdleSeconds]
    /\ rjob \in Run

\* u was idle when it was read, and whoever came since came after that
ReadIdle(u) == age[u] >= IdleSeconds \/ age[u] <= rjob.since

ReadSoFar ==
    /\ IR!At("sshd") => ReadIdle("t3") /\ ReadIdle("db")
    /\ IR!At("delete") /\ ~rjob.crash => \A u \in IR!Use : ReadIdle(u)

RInv == Ages /\ ReadSoFar

LEMMA RunEnds == ASSUME IR!RolloutAssumption PROVE IR!NoRun \in Run /\ IR!NoRun.pc = "idle"
BY DEF IR!RolloutAssumption, IR!NoRun, Run, Steps

LEMMA RunGoesOn ==
    ASSUME rjob \in Run, NEW pc \in Steps, IR!Go(pc)
    PROVE  rjob' \in Run /\ rjob'.pc = pc /\ rjob'.crash = rjob.crash /\ rjob'.since = rjob.since
BY DEF Run, IR!Go

LEMMA RolloutInitOK == ASSUME IR!RolloutAssumption, IR!RolloutInit PROVE RInv
<1>1. rjob \in Run /\ rjob.pc = "idle" /\ want \in Revision
    BY RunEnds DEF IR!RolloutInit
<1>2. age \in [IR!Use -> 0 .. IdleSeconds]
    BY DEF IR!RolloutInit, IR!RolloutAssumption
<1> QED BY <1>1, <1>2 DEF RInv, Ages, ReadSoFar, IR!At

\* A step that ends the run, or goes on to one that owes nothing yet, keeps it all.
LEMMA EarlySteps ==
    ASSUME IR!RolloutAssumption, RInv, UNCHANGED <<want, age>>,
           rjob' \in Run, rjob'.pc \in {"idle", "pod", "waiting", "ready", "t3"} \/ (rjob'.pc = "delete" /\ rjob'.crash)
    PROVE  RInv'
BY DEF RInv, Ages, ReadSoFar, ReadIdle, IR!At

\* A step of the run that reads nothing about its users.
LEMMA LooksKeep ==
    ASSUME IR!RolloutAssumption, RInv, IR!LookWant \/ IR!LookPod \/ IR!LookWaiting \/ IR!LookReady \/ IR!Delete \/ IR!JobFails
    PROVE  RInv'
<1>1. UNCHANGED <<want, age>>
    BY DEF IR!LookWant, IR!LookPod, IR!LookWaiting, IR!LookReady, IR!Delete, IR!JobFails, IR!Quiet
<1>2. rjob \in Run /\ want \in Revision
    BY DEF RInv, Ages
<1>3. CASE IR!Ends
    BY <1>1, <1>3, RunEnds, EarlySteps DEF IR!Ends
<1>4. ASSUME NEW pc \in {"waiting", "ready", "t3"}, IR!Go(pc) PROVE RInv'
    BY <1>1, <1>2, <1>4, RunGoesOn, EarlySteps DEF Steps
<1>5. CASE IR!LookWant
    <2>1. rjob' \in Run /\ rjob'.pc = "pod"
        BY Zenon, <1>2, <1>5, RunEnds DEF IR!LookWant, Run, IR!NoRun, Steps
    <2> QED BY <1>1, <2>1, EarlySteps
<1>6. CASE IR!LookWaiting /\ rjob' = [rjob EXCEPT !.pc = "delete", !.crash = TRUE]
    <2>1. rjob' \in Run /\ rjob'.pc = "delete" /\ rjob'.crash
        BY Zenon, <1>2, <1>6 DEF Run, Steps
    <2> QED BY <1>1, <2>1, EarlySteps
<1>7. IR!Ends \/ (\E pc \in {"waiting", "ready", "t3"} : IR!Go(pc)) \/ IR!LookWant
        \/ (IR!LookWaiting /\ rjob' = [rjob EXCEPT !.pc = "delete", !.crash = TRUE])
    BY DEF IR!LookPod, IR!LookWaiting, IR!LookReady, IR!Delete, IR!JobFails
<1> QED BY <1>3, <1>4, <1>5, <1>6, <1>7

\* The readings: what is read is idle, and what was read before keeps its bound.
LEMMA AsksKeep ==
    ASSUME IR!RolloutAssumption, RInv, IR!AskIdle("t3", "sshd") \/ IR!AskIdle("sshd", "delete")
    PROVE  RInv'
<1>1. \A c \in IR!Container : IR!IdleFor(c) >= IdleSeconds => age["db"] >= IdleSeconds /\ age[c] >= IdleSeconds
    BY DEF IR!IdleFor, IR!Least, IR!Use, IR!Container, IR!RolloutAssumption, RInv, Ages
<1>2. UNCHANGED <<want, age>> /\ rjob \in Run
    BY DEF IR!AskIdle, IR!Quiet, RInv, Ages
<1>3. CASE IR!Ends
    BY <1>2, <1>3, RunEnds, EarlySteps DEF IR!Ends
<1>4. CASE IR!At("t3") /\ IR!IdleFor("t3") >= IdleSeconds /\ IR!Go("sshd")
    <2>1. rjob' \in Run /\ rjob'.pc = "sshd"
        BY <1>2, <1>4, RunGoesOn DEF Steps
    <2>2. age["db"] >= IdleSeconds /\ age["t3"] >= IdleSeconds
        BY <1>1, <1>4 DEF IR!Container
    <2> QED BY <1>2, <2>1, <2>2 DEF RInv, Ages, ReadSoFar, ReadIdle, IR!At
<1>5. CASE IR!At("sshd") /\ IR!IdleFor("sshd") >= IdleSeconds /\ IR!Go("delete")
    <2>1. rjob' \in Run /\ rjob'.pc = "delete" /\ rjob'.since = rjob.since
        BY <1>2, <1>5, RunGoesOn DEF Steps
    <2>2. \A u \in IR!Use : ReadIdle(u)
        BY <1>1, <1>5 DEF RInv, ReadSoFar, ReadIdle, IR!At, IR!Use, IR!Container
    <2> QED BY <1>2, <2>1, <2>2 DEF RInv, Ages, ReadSoFar, ReadIdle, IR!At
<1> QED BY <1>3, <1>4, <1>5 DEF IR!AskIdle

\* The owner, the controllers and the users: an age only grows, starts again or
\* goes with its terminals.
LEMMA OthersKeep ==
    ASSUME IR!RolloutAssumption, RInv, IR!Replaced \/ IR!Ready \/ IR!Upset \/ \E u \in IR!Use : IR!Uses(u)
    PROVE  RInv'
<1>0. USE DEF IR!RolloutAssumption, RInv, Ages, ReadSoFar, ReadIdle, Steps, IR!At
<1>1. CASE IR!Replaced BY <1>1 DEF IR!Replaced, IR!Use, IR!Container
<1>2. CASE IR!Ready \/ IR!Upset BY <1>2 DEF IR!Ready, IR!Upset
<1>3. ASSUME NEW u \in IR!Use, IR!Uses(u) PROVE RInv'
    <2>1. UNCHANGED <<want, rjob>> /\ age' = [age EXCEPT ![u] = 0]
        BY <1>3 DEF IR!Uses
    <2>2. age' \in [IR!Use -> 0 .. IdleSeconds]
        BY <2>1
    <2>3. \A v \in IR!Use : ReadIdle(v) => ReadIdle(v)'
        BY <2>1 DEF Run
    <2> QED BY <2>1, <2>2, <2>3 DEF IR!Use, IR!Container
<1> QED BY <1>1, <1>2, <1>3

\* Time adds the same to every age and to the time since the reading.
LEMMA TickKeeps == ASSUME IR!RolloutAssumption, RInv, IR!Tick PROVE RInv'
<1>1. age \in [IR!Use -> 0 .. IdleSeconds] /\ rjob \in Run /\ want \in Revision
    BY DEF RInv, Ages
<1>2. \A u \in IR!Use : age'[u] = IF age[u] + 1 < IdleSeconds THEN age[u] + 1 ELSE IdleSeconds
    BY DEF IR!Tick, IR!Least
<1>3. age' \in [IR!Use -> 0 .. IdleSeconds]
    <2>1. \A u \in IR!Use : IR!Least(age[u] + 1, IdleSeconds) \in 0 .. IdleSeconds
        BY <1>1 DEF IR!Least, IR!RolloutAssumption
    <2> QED BY <2>1 DEF IR!Tick
<1>4. rjob' \in Run /\ rjob'.pc = rjob.pc /\ rjob'.crash = rjob.crash
    BY <1>1 DEF IR!Tick, Run, IR!RolloutAssumption
<1>5. rjob.pc \in {"sshd", "delete"} => rjob'.since = rjob.since + 1
    BY <1>1 DEF IR!Tick, Run
<1>6. ASSUME NEW u \in IR!Use, ReadIdle(u), rjob.pc \in {"sshd", "delete"} PROVE ReadIdle(u)'
    <2>1. age[u] \in Nat /\ rjob.since \in Nat /\ IdleSeconds \in Nat
        BY <1>1 DEF Run, IR!RolloutAssumption
    <2> QED BY <1>2, <1>5, <1>6, <2>1 DEF ReadIdle
<1>7. Ages'
    BY <1>1, <1>3, <1>4 DEF Ages, IR!Tick
<1> QED BY <1>4, <1>6, <1>7 DEF RInv, ReadSoFar, IR!At, IR!Use, IR!Container

LEMMA RolloutStepOK == ASSUME IR!RolloutAssumption, RInv, [IR!RolloutNext]_(IR!rolloutVars) PROVE RInv'
<1>1. CASE UNCHANGED IR!rolloutVars
    BY <1>1 DEF IR!rolloutVars, RInv, Ages, ReadSoFar, ReadIdle, IR!At
<1>2. CASE IR!RolloutNext
    BY <1>2, LooksKeep, AsksKeep, OthersKeep, TickKeeps DEF IR!RolloutNext, IR!Job
<1> QED BY <1>1, <1>2

LEMMA RolloutTells == ASSUME RInv PROVE IR!UsersSpared
BY DEF RInv, ReadSoFar, ReadIdle, IR!UsersSpared

\* idle-rollout.sh never deletes a pod, unless it crash-loops, of which it was read
\* that somebody had used it within IDLE_SECONDS: every use the pod has had since
\* is younger than the reading.
THEOREM RolloutSparesUsers == ASSUME IR!RolloutAssumption PROVE IR!RolloutSpec => []IR!UsersSpared
BY RolloutTells, RolloutInitOK, RolloutStepOK, PTL DEF IR!RolloutSpec

-----------------------------------------------------------------------------
(* GmailCalls: the token a call uses was good for the margin when it was   *)
(* taken; the cache holds an id that was in use when it was asked for; and *)
(* only the holder of the label lock replaces the cache, by a newer one.   *)

Expiry == [until : 0 .. MaxTime + TokenLife, dies : 0 .. MaxTime + TokenLife] \cup {None}
LabelId == 0 .. MaxRename \cup {None}

ToolCall ==
    [pc : {"idle", "labels", "token", "refresh", "issued", "api", "resolve", "ok", "rejected", "error"},
     token : Expiry, taken : 0 .. MaxTime, asked : 0 .. MaxTime, id : LabelId, late : BOOLEAN]

GmailTypes ==
    /\ clock \in 0 .. MaxTime
    /\ token \in Expiry
    /\ tokenLock \in GmailCall \cup {None} /\ labelLock \in GmailCall \cup {None}
    /\ label \in 0 .. MaxRename
    /\ replaced \in [0 .. MaxRename -> 0 .. MaxTime \cup {None}]
    /\ \A i \in 0 .. MaxRename : i < label => replaced[i] # None
    /\ lcache \in [at : 0 .. MaxTime, id : LabelId]
    /\ gcall \in [GmailCall -> ToolCall]

\* id i is the label's, or was at instant at
InUse(i, at) == i <= label /\ (i = label \/ replaced[i] >= at)

CacheSound == lcache.at <= clock /\ (lcache.id # None => InUse(lcache.id, lcache.at))

CallSound(c) ==
    /\ gcall[c].asked <= clock
    /\ gcall[c].pc = "api" => gcall[c].token # None /\ gcall[c].taken + Margin < gcall[c].token.until
    /\ gcall[c].pc \in {"idle", "labels"} => gcall[c].id = None
    /\ gcall[c].pc = "resolve" => lcache.id # None /\ gcall[c].asked <= lcache.at + LabelLife
    /\ gcall[c].pc = "rejected" => gcall[c].late
    /\ labelLock = c => gcall[c].pc \in {"token", "refresh", "issued", "api"} /\ gcall[c].id = None /\ lcache.at <= gcall[c].asked
    /\ gcall[c].id # None => InUse(gcall[c].id, gcall[c].asked - LabelLife)

GmailInv == GmailTypes /\ CacheSound /\ \A c \in GmailCall : CallSound(c)

\* A step of call c: what it has to keep for itself, and for the others no more
\* than a cache that does not grow older and a lock that is not given to them.
LEMMA CallStepKeeps ==
    ASSUME GC!GmailAssumption, GmailInv, NEW c \in GmailCall, UNCHANGED <<clock, label, replaced>>,
           token' \in Expiry, tokenLock' \in GmailCall \cup {None},
           labelLock' \in GmailCall \cup {None}, labelLock' # labelLock => labelLock' \in {c, None},
           lcache' \in [at : 0 .. MaxTime, id : LabelId], CacheSound',
           lcache' # lcache => labelLock = c /\ lcache.at <= lcache'.at /\ lcache'.id # None,
           gcall' \in [GmailCall -> ToolCall], \A b \in GmailCall \ {c} : gcall'[b] = gcall[b],
           CallSound(c)'
    PROVE  GmailInv'
<1>1. GmailTypes'
    BY DEF GmailInv, GmailTypes
<1>2. ASSUME NEW b \in GmailCall \ {c} PROVE CallSound(b)'
    <2>1. gcall[b] \in ToolCall /\ CallSound(b) /\ gcall'[b] = gcall[b]
        BY DEF GmailInv, GmailTypes
    <2>2. labelLock' = b => labelLock = b /\ lcache' = lcache
        BY DEF GC!GmailAssumption
    <2>3. lcache.at \in Int /\ lcache'.at \in Int /\ gcall[b].asked \in Int /\ LabelLife \in Int /\ lcache.at <= lcache'.at
        BY <2>1 DEF GmailInv, GmailTypes, ToolCall, GC!GmailAssumption
    <2>4. lcache.id # None => lcache'.id # None
        OBVIOUS
    <2> QED BY <2>1, <2>2, <2>3, <2>4 DEF CallSound, InUse
<1> QED BY <1>1, <1>2 DEF GmailInv

LEMMA NoCall ==
    ASSUME GC!GmailAssumption
    PROVE  GC!Idle \in ToolCall /\ GC!Idle.pc = "idle" /\ GC!Idle.asked = 0 /\ GC!Idle.id = None
BY DEF GC!Idle, GC!GmailAssumption, ToolCall, Expiry, LabelId

LEMMA GmailInitOK == ASSUME GC!GmailAssumption, GC!GmailInit PROVE GmailInv
<1>1. GC!Idle \in ToolCall /\ GC!Idle.pc = "idle" /\ GC!Idle.asked = 0 /\ GC!Idle.id = None
    BY NoCall
<1>2. GmailTypes
    BY <1>1 DEF GC!GmailInit, GC!GmailAssumption, GmailTypes, Expiry, LabelId
<1>3. CacheSound
    BY DEF GC!GmailInit, CacheSound
<1>4. ASSUME NEW c \in GmailCall PROVE CallSound(c)
    BY <1>1 DEF GC!GmailInit, CallSound, GC!GmailAssumption
<1> QED BY <1>2, <1>3, <1>4 DEF GmailInv

LEMMA BeginKeeps == ASSUME GC!GmailAssumption, GmailInv, NEW c \in GmailCall, GC!Begin(c) PROVE GmailInv'
<1>1. gcall[c] \in ToolCall /\ CallSound(c) /\ GmailTypes /\ CacheSound
    BY DEF GmailInv, GmailTypes
<1>2. PICK first \in {"labels", "token"} : gcall' = [gcall EXCEPT ![c].pc = first]
    BY Zenon DEF GC!Begin
<1>3. gcall' \in [GmailCall -> ToolCall] /\ \A b \in GmailCall \ {c} : gcall'[b] = gcall[b]
    BY Zenon, <1>1, <1>2 DEF GmailTypes, ToolCall
<1>4. gcall'[c] = [gcall[c] EXCEPT !.pc = first]
    BY <1>2 DEF GmailInv, GmailTypes
<1>5. UNCHANGED <<clock, token, tokenLock, labelLock, label, replaced, lcache>> /\ gcall[c].pc = "idle"
    BY DEF GC!Begin
<1>6. CallSound(c)'
    BY <1>1, <1>4, <1>5 DEF CallSound, InUse, ToolCall
<1> QED BY <1>1, <1>3, <1>5, <1>6, CallStepKeeps DEF GmailTypes, CacheSound, InUse

LEMMA LabelsKeeps == ASSUME GC!GmailAssumption, GmailInv, NEW c \in GmailCall, GC!Labels(c) PROVE GmailInv'
<1>1. gcall[c] \in ToolCall /\ CallSound(c) /\ GmailTypes /\ CacheSound
    BY DEF GmailInv, GmailTypes
<1>2. UNCHANGED <<clock, token, tokenLock, label, replaced, lcache>> /\ gcall[c].pc = "labels" /\ labelLock = None
    BY DEF GC!Labels
<1>3. clock \in Int /\ lcache.at \in Int /\ LabelLife \in Int /\ lcache.at <= clock
    BY <1>1 DEF GmailTypes, CacheSound, GC!GmailAssumption
<1>4. PICK pc \in {"token", "resolve"} :
        /\ gcall' = [gcall EXCEPT ![c].pc = pc, ![c].asked = clock]
        /\ pc = "token" => labelLock' = c
        /\ pc = "resolve" => labelLock' = None /\ lcache.id # None /\ clock - lcache.at <= LabelLife
    BY <1>3 DEF GC!Labels, GC!CacheStale
<1>5. gcall' \in [GmailCall -> ToolCall] /\ \A b \in GmailCall \ {c} : gcall'[b] = gcall[b]
    BY Zenon, <1>1, <1>4 DEF GmailTypes, ToolCall
<1>6. gcall'[c].pc = pc /\ gcall'[c].asked = clock /\ gcall'[c].id = None
    BY <1>1, <1>2, <1>4 DEF GmailTypes, ToolCall, CallSound
<1>7. CallSound(c)'
    BY <1>2, <1>3, <1>4, <1>6 DEF CallSound, GC!GmailAssumption
<1> QED BY <1>1, <1>2, <1>4, <1>5, <1>7, CallStepKeeps DEF GmailTypes, CacheSound, InUse

\* a token that is taken was good for the margin, or is new
LEMMA TakeTokenKeeps == ASSUME GC!GmailAssumption, GmailInv, NEW c \in GmailCall, GC!TakeToken(c) PROVE GmailInv'
<1>1. gcall[c] \in ToolCall /\ CallSound(c) /\ GmailTypes /\ CacheSound
    BY DEF GmailInv, GmailTypes
<1>2. UNCHANGED <<clock, token, labelLock, label, replaced, lcache>> /\ gcall[c].pc = "token"
    BY DEF GC!TakeToken
<1>3. CASE GC!TokenFresh
    <2>1. gcall' = [gcall EXCEPT ![c].pc = "api", ![c].token = token, ![c].taken = clock] /\ UNCHANGED tokenLock
        BY <1>3 DEF GC!TakeToken
    <2>2. gcall' \in [GmailCall -> ToolCall] /\ \A b \in GmailCall \ {c} : gcall'[b] = gcall[b]
        BY Zenon, <1>1, <2>1 DEF GmailTypes, ToolCall
    <2>3. gcall'[c] = [gcall[c] EXCEPT !.pc = "api", !.token = token, !.taken = clock]
        BY <1>1, <2>1 DEF GmailTypes
    <2>4. token # None /\ clock + Margin < token.until
        BY <1>1, <1>3 DEF GC!TokenFresh, GmailTypes, Expiry, GC!GmailAssumption
    <2>5. CallSound(c)'
        BY <1>1, <1>2, <2>3, <2>4 DEF CallSound, InUse, ToolCall
    <2> QED BY <1>1, <1>2, <2>1, <2>2, <2>5, CallStepKeeps DEF GmailTypes, CacheSound, InUse
<1>4. CASE ~GC!TokenFresh
    <2>1. gcall' = [gcall EXCEPT ![c].pc = "refresh"] /\ tokenLock' = c
        BY <1>4 DEF GC!TakeToken
    <2>2. gcall' \in [GmailCall -> ToolCall] /\ \A b \in GmailCall \ {c} : gcall'[b] = gcall[b]
        BY Zenon, <1>1, <2>1 DEF GmailTypes, ToolCall
    <2>3. gcall'[c] = [gcall[c] EXCEPT !.pc = "refresh"]
        BY <1>1, <2>1 DEF GmailTypes
    <2>4. CallSound(c)'
        BY <1>1, <1>2, <2>3 DEF CallSound, InUse, ToolCall
    <2> QED BY <1>1, <1>2, <2>1, <2>2, <2>4, CallStepKeeps DEF GmailTypes, CacheSound, InUse
<1> QED BY <1>3, <1>4

LEMMA AnswerIs ==
    ASSUME GC!GmailAssumption, NEW how \in GC!Answers
    PROVE  LET new == [GC!Idle EXCEPT !.pc = how] IN
           new \in ToolCall /\ new.pc = how /\ new.asked = 0 /\ new.id = None
BY NoCall DEF ToolCall, GC!Answers

\* A call that ends: what it held is released, and nothing else moves.
LEMMA AnsweredKeeps ==
    ASSUME GC!GmailAssumption, GmailInv, NEW c \in GmailCall, NEW new \in ToolCall,
           new.pc \in GC!Answers, new.asked = 0, new.id = None, new.pc = "rejected" => new.late,
           UNCHANGED <<clock, token, label, replaced, lcache>>, tokenLock' \in GmailCall \cup {None},
           labelLock' \in {labelLock, None}, labelLock' # c, gcall' = [gcall EXCEPT ![c] = new]
    PROVE  GmailInv'
<1>1. GmailTypes /\ CacheSound
    BY DEF GmailInv
<1>3. gcall' \in [GmailCall -> ToolCall] /\ gcall'[c] = new /\ \A b \in GmailCall \ {c} : gcall'[b] = gcall[b]
    BY <1>1 DEF GmailTypes
<1>4. CallSound(c)'
    BY <1>1, <1>3 DEF CallSound, GC!Answers, GmailTypes
<1>5. labelLock' \in GmailCall \cup {None} /\ CacheSound'
    BY <1>1 DEF GmailTypes, CacheSound, InUse
<1> QED BY <1>1, <1>3, <1>4, <1>5, CallStepKeeps DEF GmailTypes

LEMMA UnlockReleases ==
    ASSUME GC!GmailAssumption, NEW c \in GmailCall, GC!Unlock(c)
    PROVE  labelLock' \in {labelLock, None} /\ labelLock' # c
BY DEF GC!Unlock, GC!GmailAssumption

LEMMA IssueKeeps == ASSUME GC!GmailAssumption, GmailInv, NEW c \in GmailCall, GC!Issue(c) PROVE GmailInv'
<1>1. gcall[c] \in ToolCall /\ CallSound(c) /\ GmailTypes /\ CacheSound
    BY DEF GmailInv, GmailTypes
<1>2. /\ UNCHANGED <<clock, token, tokenLock, labelLock, label, replaced, lcache>> /\ gcall[c].pc = "refresh"
      /\ gcall' = [gcall EXCEPT ![c].pc = "issued", ![c].taken = clock]
    BY DEF GC!Issue
<1>3. gcall' \in [GmailCall -> ToolCall] /\ \A b \in GmailCall \ {c} : gcall'[b] = gcall[b]
    BY Zenon, <1>1, <1>2 DEF GmailTypes, ToolCall
<1>4. gcall'[c] = [gcall[c] EXCEPT !.pc = "issued", !.taken = clock]
    BY <1>1, <1>2 DEF GmailTypes
<1>5. gcall'[c].pc = "issued" /\ gcall'[c].asked = gcall[c].asked /\ gcall'[c].id = gcall[c].id
    BY <1>1, <1>4 DEF ToolCall
<1>6. CallSound(c)'
    BY <1>1, <1>2, <1>5 DEF CallSound, InUse
<1> QED BY <1>1, <1>2, <1>3, <1>6, CallStepKeeps DEF GmailTypes, CacheSound, InUse

LEMMA RefreshedKeeps == ASSUME GC!GmailAssumption, GmailInv, NEW c \in GmailCall, GC!Refreshed(c) PROVE GmailInv'
<1>1. gcall[c] \in ToolCall /\ CallSound(c) /\ GmailTypes /\ CacheSound
    BY DEF GmailInv, GmailTypes
<1>2. /\ UNCHANGED <<clock, labelLock, label, replaced, lcache>> /\ gcall[c].pc = "issued" /\ tokenLock' = None
      /\ token' = [until |-> clock + TokenLife, dies |-> gcall[c].taken + TokenLife]
      /\ gcall' = [gcall EXCEPT ![c].pc = "api", ![c].token = token', ![c].taken = clock]
    BY DEF GC!Refreshed
<1>3. token' \in Expiry /\ token' # None /\ clock + Margin < token'.until
    BY <1>1, <1>2 DEF GmailTypes, ToolCall, Expiry, GC!GmailAssumption
<1>4. gcall' \in [GmailCall -> ToolCall] /\ \A b \in GmailCall \ {c} : gcall'[b] = gcall[b]
    BY Zenon, <1>1, <1>2, <1>3 DEF GmailTypes, ToolCall
<1>5. gcall'[c] = [gcall[c] EXCEPT !.pc = "api", !.token = token', !.taken = clock]
    BY <1>1, <1>2 DEF GmailTypes
<1>6. /\ gcall'[c].pc = "api" /\ gcall'[c].token = token' /\ gcall'[c].taken = clock
      /\ gcall'[c].asked = gcall[c].asked /\ gcall'[c].id = gcall[c].id
    BY <1>1, <1>5 DEF ToolCall
<1>7. CallSound(c)'
    BY <1>1, <1>2, <1>3, <1>6 DEF CallSound, InUse
<1> QED BY <1>1, <1>2, <1>3, <1>4, <1>7, CallStepKeeps DEF GmailTypes, CacheSound, InUse

LEMMA RefreshFailsKeeps == ASSUME GC!GmailAssumption, GmailInv, NEW c \in GmailCall, GC!RefreshFails(c) PROVE GmailInv'
<1> DEFINE new == [GC!Idle EXCEPT !.pc = "error"]
<1>1. UNCHANGED <<clock, token, label, replaced, lcache>> /\ tokenLock' = None /\ GC!Unlock(c)
      /\ gcall' = [gcall EXCEPT ![c] = new]
    BY DEF GC!RefreshFails, GC!Answered
<1>2. new \in ToolCall /\ new.pc = "error" /\ new.asked = 0 /\ new.id = None
    BY AnswerIs DEF GC!Answers
<1> HIDE DEF new
<1> QED BY Zenon, <1>1, UnlockReleases, <1>2, AnsweredKeeps DEF GC!Answers

\* Google's answer: the labels that were asked for, or a refusal for cause
LEMMA ApiKeeps == ASSUME GC!GmailAssumption, GmailInv, NEW c \in GmailCall, GC!ApiAnswers(c) PROVE GmailInv'
<1>1. gcall[c] \in ToolCall /\ CallSound(c) /\ GmailTypes /\ CacheSound
    BY DEF GmailInv, GmailTypes
<1>2. UNCHANGED <<clock, token, tokenLock, label, replaced>> /\ gcall[c].pc = "api" /\ tokenLock \in GmailCall \cup {None}
    BY <1>1 DEF GC!ApiAnswers, GmailTypes
<1>3. CASE labelLock = c /\ lcache' = [at |-> gcall[c].asked, id |-> label] /\ labelLock' = None
           /\ gcall' = [gcall EXCEPT ![c].pc = "resolve"]
    <2>1. gcall' \in [GmailCall -> ToolCall] /\ \A b \in GmailCall \ {c} : gcall'[b] = gcall[b]
        BY Zenon, <1>1, <1>3 DEF GmailTypes, ToolCall
    <2>2. gcall'[c] = [gcall[c] EXCEPT !.pc = "resolve"]
        BY <1>1, <1>3 DEF GmailTypes
    <2>3. lcache' \in [at : 0 .. MaxTime, id : LabelId] /\ lcache'.id # None /\ lcache.at <= lcache'.at
        BY <1>1, <1>3 DEF GmailTypes, LabelId, CallSound, ToolCall, GC!GmailAssumption
    <2>4. CacheSound'
        BY <1>1, <1>2, <1>3 DEF CacheSound, CallSound, InUse, GmailTypes
    <2>5. gcall[c].asked \in Int /\ LabelLife \in Nat /\ lcache'.at = gcall[c].asked
        BY <1>1, <1>3 DEF ToolCall, GC!GmailAssumption
    <2>6. CallSound(c)'
        BY <1>1, <1>2, <1>3, <2>2, <2>3, <2>5 DEF CallSound, ToolCall, GC!GmailAssumption
    <2> QED BY <1>1, <1>2, <1>3, <2>1, <2>3, <2>4, <2>6, CallStepKeeps DEF GmailTypes
<1>4. CASE labelLock # c /\ GC!Answered(c, "ok") /\ UNCHANGED <<labelLock, lcache>>
    <2> DEFINE new == [GC!Idle EXCEPT !.pc = "ok"]
    <2>1. gcall' = [gcall EXCEPT ![c] = new]
        BY <1>4 DEF GC!Answered
    <2>2. new \in ToolCall /\ new.pc = "ok" /\ new.asked = 0 /\ new.id = None
        BY AnswerIs DEF GC!Answers
    <2> HIDE DEF new
    <2> QED BY Zenon, <1>2, <1>4, <2>1, <2>2, AnsweredKeeps DEF GC!Answers
<1>5. CASE GC!Unlock(c) /\ UNCHANGED lcache /\ GC!Answered(c, "error")
    <2> DEFINE new == [GC!Idle EXCEPT !.pc = "error"]
    <2>1. gcall' = [gcall EXCEPT ![c] = new]
        BY <1>5 DEF GC!Answered
    <2>2. new \in ToolCall /\ new.pc = "error" /\ new.asked = 0 /\ new.id = None
        BY AnswerIs DEF GC!Answers
    <2> HIDE DEF new
    <2> QED BY Zenon, <1>2, <1>5, <2>1, UnlockReleases, <2>2, AnsweredKeeps DEF GC!Answers
<1>6. CASE /\ GC!Unlock(c) /\ UNCHANGED lcache /\ ~GC!Valid(gcall[c].token)
           /\ gcall' = [gcall EXCEPT ![c] = [GC!Idle EXCEPT !.pc = "rejected",
                  !.late = ended \/ GC!Latency(gcall[c].token) + clock - gcall[c].taken > Margin]]
    <2> DEFINE cause == ended \/ GC!Latency(gcall[c].token) + clock - gcall[c].taken > Margin
    <2>1. /\ clock \in Int /\ gcall[c].taken \in Int /\ Margin \in Int
          /\ gcall[c].token.until \in Int /\ gcall[c].token.dies \in Int
          /\ gcall[c].taken + Margin < gcall[c].token.until
        BY <1>1, <1>2 DEF GmailTypes, CallSound, ToolCall, Expiry, GC!GmailAssumption
    <2>2. cause
        BY <1>6, <2>1 DEF GC!Valid, GC!Latency
    <2> DEFINE new == [GC!Idle EXCEPT !.pc = "rejected", !.late = cause]
    <2>3. gcall' = [gcall EXCEPT ![c] = new] /\ cause \in BOOLEAN
        BY <1>6
    <2> HIDE DEF cause
    <2>4. new \in ToolCall /\ new.pc = "rejected" /\ new.asked = 0 /\ new.id = None /\ new.late = cause
        BY Zenon, <2>3, NoCall DEF ToolCall
    <2> HIDE DEF new
    <2> QED BY Zenon, <1>2, <1>6, <2>2, <2>3, <2>4, UnlockReleases, AnsweredKeeps DEF GC!Answers
<1> QED BY <1>3, <1>4, <1>5, <1>6 DEF GC!ApiAnswers

\* the id of the cache as it is by now, which is not older than what was handed over
LEMMA ResolveKeeps == ASSUME GC!GmailAssumption, GmailInv, NEW c \in GmailCall, GC!Resolve(c) PROVE GmailInv'
<1>1. gcall[c] \in ToolCall /\ CallSound(c) /\ GmailTypes /\ CacheSound
    BY DEF GmailInv, GmailTypes
<1>2. UNCHANGED <<clock, token, tokenLock, labelLock, label, replaced, lcache>> /\ gcall[c].pc = "resolve"
        /\ gcall' = [gcall EXCEPT ![c].pc = "token", ![c].id = lcache.id]
    BY DEF GC!Resolve
<1>3. gcall' \in [GmailCall -> ToolCall] /\ \A b \in GmailCall \ {c} : gcall'[b] = gcall[b]
    BY Zenon, <1>1, <1>2 DEF GmailTypes, ToolCall
<1>4. gcall'[c].pc = "token" /\ gcall'[c].id = lcache.id /\ gcall'[c].asked = gcall[c].asked
    BY <1>1, <1>2 DEF GmailTypes, ToolCall
<1>5. gcall[c].asked \in Int /\ LabelLife \in Int /\ lcache.at \in Int /\ gcall[c].asked - LabelLife <= lcache.at
    BY <1>1, <1>2 DEF CallSound, ToolCall, GmailTypes, GC!GmailAssumption
<1>6. lcache.id \in 0 .. MaxRename /\ InUse(lcache.id, lcache.at)
    BY <1>1, <1>2 DEF CallSound, CacheSound, GmailTypes, LabelId
<1>7. InUse(lcache.id, gcall[c].asked - LabelLife)
    <2>1. lcache.id < label => replaced[lcache.id] \in Int
        BY <1>1, <1>6 DEF GmailTypes
    <2> QED BY <1>1, <1>5, <1>6, <2>1 DEF InUse, GmailTypes
<1>8. CallSound(c)'
    BY <1>1, <1>2, <1>4, <1>7 DEF CallSound, InUse
<1> QED BY <1>1, <1>2, <1>3, <1>8, CallStepKeeps DEF GmailTypes, CacheSound, InUse

\* Time only moves away from what was asked, and a label that is made anew was
\* in use until now.
LEMMA WorldKeeps == ASSUME GC!GmailAssumption, GmailInv, GC!Tick \/ GC!Revoke \/ GC!Rename PROVE GmailInv'
<1>1. GmailTypes /\ CacheSound
    BY DEF GmailInv
<1>2. CASE GC!Tick
    <2>1. clock' = clock + 1 /\ clock' \in 0 .. MaxTime
        BY <1>1, <1>2 DEF GC!Tick, GmailTypes, GC!GmailAssumption
    <2>2. UNCHANGED <<token, tokenLock, labelLock, label, replaced, lcache, gcall>>
        BY <1>2 DEF GC!Tick
    <2>3. CacheSound'
        BY <1>1, <2>1, <2>2 DEF CacheSound, InUse, GmailTypes
    <2>4. ASSUME NEW c \in GmailCall PROVE CallSound(c)'
        <3>1. gcall[c].asked \in Int /\ clock \in Int /\ CallSound(c)
            BY <1>1 DEF GmailInv, GmailTypes, ToolCall
        <3> QED BY <2>1, <2>2, <3>1 DEF CallSound, InUse
    <2> QED BY <1>1, <2>1, <2>2, <2>3, <2>4 DEF GmailInv, GmailTypes
<1>3. CASE GC!Revoke
    BY <1>3 DEF GC!Revoke, GmailInv, GmailTypes, CacheSound, CallSound, InUse
<1>4. CASE GC!Rename
    <2>1. UNCHANGED <<clock, token, tokenLock, labelLock, lcache, gcall>>
        BY <1>4 DEF GC!Rename
    <2>2. label \in Nat /\ label < MaxRename /\ label' = label + 1 /\ label' \in 0 .. MaxRename /\ clock \in Nat
        BY <1>1, <1>4 DEF GC!Rename, GmailTypes, GC!GmailAssumption
    <2>3. replaced' \in [0 .. MaxRename -> 0 .. MaxTime \cup {None}] /\ replaced'[label] = clock
            /\ \A i \in 0 .. MaxRename : i # label => replaced'[i] = replaced[i]
        BY <1>1, <1>4 DEF GC!Rename, GmailTypes
    <2>4. GmailTypes'
        BY <1>1, <2>1, <2>2, <2>3 DEF GmailTypes, GC!GmailAssumption
    <2>5. ASSUME NEW i \in 0 .. MaxRename, NEW at \in Int, at <= clock, InUse(i, at) PROVE InUse(i, at)'
        <3> QED BY <2>2, <2>3, <2>5 DEF InUse
    <2>6. CacheSound'
        BY <1>1, <2>1, <2>5 DEF CacheSound, GmailTypes, LabelId
    <2>7. ASSUME NEW c \in GmailCall PROVE CallSound(c)'
        <3>1. gcall[c] \in ToolCall /\ CallSound(c)
            BY <1>1 DEF GmailInv, GmailTypes
        <3>2. gcall[c].asked - LabelLife \in Int /\ gcall[c].asked - LabelLife <= clock
            BY <2>2, <3>1 DEF CallSound, ToolCall, GC!GmailAssumption
        <3>3. gcall[c].id # None => InUse(gcall[c].id, gcall[c].asked - LabelLife)'
            BY <2>1, <2>5, <3>1, <3>2 DEF CallSound, ToolCall, LabelId
        <3> QED BY <2>1, <3>1, <3>3 DEF CallSound
    <2> QED BY <2>4, <2>6, <2>7 DEF GmailInv
<1> QED BY <1>2, <1>3, <1>4

LEMMA GmailStepOK == ASSUME GC!GmailAssumption, GmailInv, [GC!GmailNext]_(GC!gmvars) PROVE GmailInv'
<1>1. CASE UNCHANGED GC!gmvars
    BY <1>1 DEF GC!gmvars, GmailInv, GmailTypes, CacheSound, CallSound, InUse
<1>2. CASE GC!GmailNext
    BY <1>2, BeginKeeps, LabelsKeeps, TakeTokenKeeps, IssueKeeps, RefreshedKeeps, RefreshFailsKeeps, ApiKeeps, ResolveKeeps, WorldKeeps
       DEF GC!GmailNext, GC!CallStep
<1> QED BY <1>1, <1>2

LEMMA GmailTells == ASSUME GC!GmailAssumption, GmailInv PROVE GC!GmailCallsSound
<1>1. GC!GmailTypeOK
    BY DEF GmailInv, GmailTypes, GC!GmailTypeOK, Expiry, LabelId
<1>2. GC!RejectedForCause
    BY DEF GmailInv, CallSound, GC!RejectedForCause
<1>3. ASSUME NEW c \in GmailCall, gcall[c].id # None
      PROVE  gcall[c].id = label \/ replaced[gcall[c].id] + LabelLife >= gcall[c].asked
    <2>1. gcall[c].asked \in Int /\ LabelLife \in Int /\ gcall[c].id \in 0 .. MaxRename
            /\ InUse(gcall[c].id, gcall[c].asked - LabelLife)
        BY <1>3 DEF GmailInv, GmailTypes, CallSound, ToolCall, LabelId, GC!GmailAssumption
    <2>2. gcall[c].id # label => replaced[gcall[c].id] \in Int
        BY <2>1 DEF GmailInv, GmailTypes, InUse
    <2> QED BY <2>1, <2>2 DEF InUse
<1> QED BY <1>1, <1>2, <1>3 DEF GC!LabelRecent, GC!GmailCallsSound

\* For any number of calls and all lifetimes with a margin shorter than the
\* token's: concurrent tool calls are refused by Google only for cause, and apply no
\* label id that went out of use more than LABEL_TTL before the call asked.
THEOREM CallsAreSound == ASSUME GC!GmailAssumption PROVE GC!GmailSpec => []GC!GmailCallsSound
BY GmailTells, GmailInitOK, GmailStepOK, PTL DEF GC!GmailSpec

-----------------------------------------------------------------------------
(* TempUnlink: an inode that is worked on has, among the names the walk    *)
(* saw, none that is held, and a name that a torrent has held since the    *)
(* list was seen by the walk where it is; so no held inode is worked on.   *)

\* the batch and the current row, in the steps that have one
AtWork == upc \in {"row", "keep", "check", "unlink"}
InRow == upc \in {"keep", "check", "unlink"}

UnlinkTypes ==
    /\ inodeOf \in [TU!Path -> Inode \cup {None}]
    /\ walked \in [TU!Path -> Inode \cup {None, "todo"}]
    /\ holds \subseteq TU!Path /\ held \subseteq TU!Path
    /\ rows \subseteq Inode /\ touched \in BOOLEAN

\* a name held since the list still stands where the walk met it
ClaimHolds(c) == c[1] \in held /\ inodeOf[c[1]] = c[2] /\ walked[c[1]] \in {"todo", c[2]}

UnlinkInv ==
    /\ UnlinkTypes
    /\ lost = {} /\ taken = {}
    /\ \A c \in claimed : ClaimHolds(c)
    /\ AtWork => (\A p \in TU!Path : walked[p] # "todo") /\ \A i \in rows : TU!Redundant(i)
    /\ InRow => rows # {} /\ names \subseteq TU!Seen(TU!Current, TempPath)
    /\ upc \in {"check", "unlink"} => names # {} /\ (~touched => TU!Counterpart)
    /\ upc = "unlink" /\ ~touched => inodeOf[TU!Name] = TU!Current

LEMMA UnlinkInitOK == ASSUME TU!UnlinkAssumption, TU!UnlinkInit PROVE UnlinkInv
<1>1. (CHOOSE p \in TempPath : TRUE) \in TU!Path
    BY DEF TU!UnlinkAssumption, TU!Path
<1>2. UnlinkTypes
    BY Zenon, <1>1 DEF TU!UnlinkInit, UnlinkTypes
<1> QED BY <1>2 DEF TU!UnlinkInit, UnlinkInv, AtWork, InRow

\* The inode of the current row has no name that was held at the list.
LEMMA CurrentFree ==
    ASSUME TU!UnlinkAssumption, UnlinkInv, InRow
    PROVE  /\ TU!Current \in rows /\ TU!Current \in Inode
           /\ \A c \in claimed : c[2] # TU!Current
           /\ names # {} => TU!Name \in names /\ TU!Name \in TempPath /\ walked[TU!Name] = TU!Current
<1>1. TU!Current \in rows /\ TU!Current \in Inode
    BY DEF UnlinkInv, UnlinkTypes, TU!Current
<1>2. ASSUME NEW c \in claimed, c[2] = TU!Current PROVE FALSE
    <2>1. c[1] \in held /\ c[1] \in TU!Path /\ walked[c[1]] = TU!Current
        BY <1>2 DEF UnlinkInv, UnlinkTypes, ClaimHolds, AtWork, InRow
    <2>2. TU!Seen(TU!Current, TU!Path) \cap held = {}
        BY <1>1 DEF UnlinkInv, AtWork, InRow, TU!Redundant
    <2> QED BY <2>1, <2>2 DEF TU!Seen
<1>3. names # {} => TU!Name \in names
    BY DEF TU!Name
<1>4. names # {} => TU!Name \in TempPath /\ walked[TU!Name] = TU!Current
    BY <1>3 DEF UnlinkInv, TU!Seen
<1> QED BY <1>1, <1>2, <1>3, <1>4

LEMMA ListKeeps == ASSUME TU!UnlinkAssumption, UnlinkInv, TU!List PROVE UnlinkInv'
<1>1. UNCHANGED <<inodeOf, holds, rows, names, attempted, changes, touched, lost, taken>>
    BY DEF TU!List
<1>2. CASE upc' = "aborted" /\ UNCHANGED <<bad, held, walked, claimed>>
    BY <1>1, <1>2 DEF UnlinkInv, UnlinkTypes, ClaimHolds, AtWork, InRow
<1>3. CASE /\ upc' = "walk" /\ held' = holds /\ walked' = [p \in TU!Path |-> "todo"]
           /\ claimed' = {<<p, inodeOf[p]>> : p \in holds}
    <2>1. UnlinkTypes'
        BY <1>1, <1>3 DEF UnlinkInv, UnlinkTypes
    <2>2. ASSUME NEW c \in claimed' PROVE ClaimHolds(c)'
        <3>1. PICK p \in holds : c = <<p, inodeOf[p]>>
            BY <1>3
        <3> QED BY <1>1, <1>3, <3>1 DEF ClaimHolds, UnlinkInv, UnlinkTypes
    <2> QED BY <1>1, <1>3, <2>1, <2>2 DEF UnlinkInv, AtWork, InRow
<1> QED BY <1>2, <1>3 DEF TU!List

LEMMA WalkKeeps == ASSUME TU!UnlinkAssumption, UnlinkInv, NEW p \in TU!Path, TU!Walk(p) PROVE UnlinkInv'
<1>1. UNCHANGED <<inodeOf, holds, upc, held, rows, names, touched, claimed, lost, taken>> /\ upc = "walk"
        /\ walked' = [walked EXCEPT ![p] = inodeOf[p]]
    BY DEF TU!Walk, TU!aux
<1>2. UnlinkTypes'
    BY <1>1 DEF UnlinkInv, UnlinkTypes
<1>3. ASSUME NEW c \in claimed PROVE ClaimHolds(c)'
    BY <1>1 DEF UnlinkInv, UnlinkTypes, ClaimHolds
<1> QED BY <1>1, <1>2, <1>3 DEF UnlinkInv, AtWork, InRow

LEMMA ChooseKeeps == ASSUME TU!UnlinkAssumption, UnlinkInv, TU!Choose PROVE UnlinkInv'
<1> DEFINE fresh == {i \in Inode : TU!Redundant(i) /\ TU!Fresh(i)}
<1>1. UNCHANGED <<inodeOf, holds, held, walked, names, touched, claimed, lost, taken>>
        /\ \A p \in TU!Path : walked[p] # "todo"
    BY DEF TU!Choose, TU!aux
<1>2. upc' \in {"done", "row"} /\ (upc' = "row" => rows' \in SUBSET fresh) /\ (upc' = "done" => rows' = rows)
    BY DEF TU!Choose
<1>3. UnlinkTypes'
    BY <1>1, <1>2 DEF UnlinkInv, UnlinkTypes
<1>4. \A c \in claimed' : ClaimHolds(c)'
    BY <1>1 DEF UnlinkInv, ClaimHolds
<1>5. upc' = "row" => \A i \in rows' : TU!Redundant(i)'
    BY <1>1, <1>2 DEF TU!Redundant, TU!Seen
<1> QED BY <1>1, <1>2, <1>3, <1>4, <1>5 DEF UnlinkInv, AtWork, InRow

LEMMA RowKeeps == ASSUME TU!UnlinkAssumption, UnlinkInv, TU!NextRow \/ TU!Keep PROVE UnlinkInv'
<1>1. UNCHANGED <<inodeOf, holds, held, walked, claimed, lost, taken>>
    BY DEF TU!NextRow, TU!Keep, TU!aux
<1>2. \A c \in claimed' : ClaimHolds(c)'
    BY <1>1 DEF UnlinkInv, ClaimHolds
<1>3. \A i : TU!Redundant(i)' <=> TU!Redundant(i)
    BY <1>1 DEF TU!Redundant, TU!Seen
<1>4. CASE TU!NextRow
    <2>1. /\ UNCHANGED <<rows, touched>> /\ AtWork /\ upc' \in {"list", "keep"}
          /\ upc' = "keep" => rows # {} /\ names' = TU!Seen(TU!Current, TempPath)
        BY <1>4 DEF TU!NextRow, TU!aux, AtWork
    <2>2. TU!Current' = TU!Current /\ TU!Seen(TU!Current, TempPath)' = TU!Seen(TU!Current, TempPath)
        BY <1>1, <2>1 DEF TU!Current, TU!Seen
    <2>3. UnlinkTypes'
        BY <1>1, <2>1 DEF UnlinkInv, UnlinkTypes
    <2> QED BY <1>1, <1>2, <1>3, <2>1, <2>2, <2>3 DEF UnlinkInv, AtWork, InRow
<1>5. CASE TU!Keep
    <2>1. upc = "keep" /\ touched' = FALSE
        BY <1>5 DEF TU!Keep
    <2>2. CASE names # {} /\ TU!Counterpart /\ upc' = "check" /\ UNCHANGED <<rows, names>>
        <3>1. TU!Current' = TU!Current /\ TU!Seen(TU!Current, TempPath)' = TU!Seen(TU!Current, TempPath)
            BY <1>1, <2>2 DEF TU!Current, TU!Seen
        <3>2. TU!Counterpart'
            BY Zenon, <1>1, <2>2 DEF TU!Counterpart, TU!Current, TU!Seen, TU!Names
        <3>3. UnlinkTypes'
            BY Zenon, <1>1, <2>1, <2>2 DEF UnlinkInv, UnlinkTypes
        <3> QED BY <1>1, <1>2, <1>3, <2>1, <2>2, <3>1, <3>2, <3>3 DEF UnlinkInv, AtWork, InRow
    <2>3. CASE TU!RowDone
        <3>1. upc' = "row" /\ rows' \subseteq rows
            BY <2>3 DEF TU!RowDone
        <3>2. UnlinkTypes'
            BY Zenon, <1>1, <2>1, <3>1 DEF UnlinkInv, UnlinkTypes
        <3> QED BY <1>1, <1>2, <1>3, <2>1, <3>1, <3>2 DEF UnlinkInv, AtWork, InRow
    <2> QED BY <1>5, <2>2, <2>3 DEF TU!Keep
<1> QED BY <1>4, <1>5

LEMMA CheckKeeps == ASSUME TU!UnlinkAssumption, UnlinkInv, TU!Check PROVE UnlinkInv'
<1>1. UNCHANGED <<inodeOf, holds, held, walked, rows, touched, claimed, lost, taken>> /\ upc = "check"
    BY DEF TU!Check, TU!aux
<1>2. \A c \in claimed' : ClaimHolds(c)'
    BY <1>1 DEF UnlinkInv, ClaimHolds
<1>3. (\A i : TU!Redundant(i)' <=> TU!Redundant(i)) /\ TU!Current' = TU!Current
        /\ TU!Seen(TU!Current, TempPath)' = TU!Seen(TU!Current, TempPath)
    BY <1>1 DEF TU!Redundant, TU!Seen, TU!Current
<1>4. UnlinkTypes'
    BY <1>1 DEF UnlinkInv, UnlinkTypes
<1>5. CASE inodeOf[TU!Name] = TU!Current /\ upc' = "unlink" /\ UNCHANGED names
    <2>1. TU!Name' = TU!Name /\ (TU!Counterpart => TU!Counterpart')
        BY <1>1, <1>5 DEF TU!Name, TU!Counterpart, TU!Current, TU!Seen, TU!Names
    <2> QED BY <1>1, <1>2, <1>3, <1>4, <1>5, <2>1 DEF UnlinkInv, AtWork, InRow
<1>6. CASE upc' = "keep" /\ names' = names \ {TU!Name}
    BY <1>1, <1>2, <1>3, <1>4, <1>6 DEF UnlinkInv, AtWork, InRow
<1> QED BY <1>5, <1>6 DEF TU!Check

\* The name that goes: if nothing has changed since the re-stat, the library has
\* another one, and no torrent holds the inode.
LEMMA UnlinkKeeps == ASSUME TU!UnlinkAssumption, UnlinkInv, TU!Unlink PROVE UnlinkInv'
<1> DEFINE i == inodeOf[TU!Name]
<1>1. UNCHANGED <<holds, held, walked, rows, touched, claimed>> /\ upc = "unlink" /\ InRow
    BY DEF TU!Unlink, InRow
<1>2. /\ TU!Current \in Inode /\ \A c \in claimed : c[2] # TU!Current
      /\ TU!Name \in names /\ TU!Name \in TempPath /\ walked[TU!Name] = TU!Current
    BY <1>1, CurrentFree DEF UnlinkInv
<1>3. (\A j : TU!Redundant(j)' <=> TU!Redundant(j)) /\ TU!Current' = TU!Current
        /\ TU!Seen(TU!Current, TempPath)' = TU!Seen(TU!Current, TempPath)
    BY <1>1 DEF TU!Redundant, TU!Seen, TU!Current
<1>4. CASE upc' = "aborted" /\ UNCHANGED <<inodeOf, names, lost, taken>>
    BY <1>1, <1>4 DEF UnlinkInv, UnlinkTypes, ClaimHolds, AtWork, InRow
<1>5. CASE /\ inodeOf' = [inodeOf EXCEPT ![TU!Name] = None]
           /\ lost' = IF TU!Names(i) = {TU!Name} /\ ~touched THEN lost \cup {i} ELSE lost
           /\ taken' = IF ~touched /\ \E c \in claimed : c[2] = i THEN taken \cup {i} ELSE taken
           /\ upc' = "keep" /\ names' = names \ {TU!Name}
    <2>1. UnlinkTypes'
        BY Zenon, <1>1, <1>5 DEF UnlinkInv, UnlinkTypes
    <2>2. ASSUME ~touched PROVE i = TU!Current /\ TU!Names(i) # {TU!Name}
        <3>1. i = TU!Current /\ TU!Counterpart
            BY <1>1, <2>2 DEF UnlinkInv
        <3>2. PICK p \in LibPath : inodeOf[p] = i
            BY <3>1 DEF TU!Counterpart, TU!Seen
        <3>3. p \in TU!Names(i) /\ p # TU!Name
            BY <1>2, <3>2 DEF TU!Names, TU!Path, TU!UnlinkAssumption
        <3> QED BY <3>1, <3>3
    <2>3. lost' = {} /\ taken' = {}
        BY <1>2, <1>5, <2>2 DEF UnlinkInv
    <2>4. ASSUME NEW c \in claimed PROVE ClaimHolds(c)'
        <3>1. ClaimHolds(c) /\ c[1] \in TU!Path
            BY DEF UnlinkInv, UnlinkTypes, ClaimHolds
        <3>2. c[1] # TU!Name
            BY <1>1, <1>2, <3>1 DEF ClaimHolds, UnlinkInv, AtWork, InRow
        <3> QED BY <1>1, <1>5, <3>1, <3>2 DEF ClaimHolds, UnlinkInv, UnlinkTypes
    <2> QED BY <1>1, <1>3, <1>5, <2>1, <2>3, <2>4 DEF UnlinkInv, AtWork, InRow
<1> QED BY <1>4, <1>5 DEF TU!Unlink

\* What others change keeps the claims that still hold, and is a touch.
LEMMA ChangeKeeps ==
    ASSUME TU!UnlinkAssumption, UnlinkInv, NEW newNames \in [TU!Path -> Inode \cup {None}],
           NEW newHolds \in SUBSET TU!Path, TU!Change(newNames, newHolds)
    PROVE  UnlinkInv'
<1>1. /\ inodeOf' = newNames /\ holds' = newHolds /\ touched' = (touched \/ newNames # inodeOf)
      /\ claimed' = {c \in claimed : c[1] \in newHolds /\ newNames[c[1]] = c[2]}
      /\ UNCHANGED <<upc, held, walked, rows, names, attempted, lost, taken>>
    BY DEF TU!Change
<1>2. UnlinkTypes'
    BY <1>1 DEF UnlinkInv, UnlinkTypes
<1>3. ASSUME NEW c \in claimed' PROVE ClaimHolds(c)'
    BY <1>1 DEF UnlinkInv, ClaimHolds
<1>4. (\A i : TU!Redundant(i)' <=> TU!Redundant(i)) /\ TU!Current' = TU!Current /\ TU!Name' = TU!Name
        /\ TU!Seen(TU!Current, TempPath)' = TU!Seen(TU!Current, TempPath)
    BY <1>1 DEF TU!Redundant, TU!Seen, TU!Current, TU!Name
<1>5. ~touched' => inodeOf' = inodeOf /\ ~touched
    BY Zenon, <1>1
<1>6. inodeOf' = inodeOf /\ TU!Counterpart => TU!Counterpart'
    BY Zenon, <1>1 DEF TU!Counterpart, TU!Current, TU!Seen, TU!Names
<1> QED BY <1>1, <1>2, <1>3, <1>4, <1>5, <1>6 DEF UnlinkInv, AtWork, InRow

LEMMA OtherNamesKeep == ASSUME TU!UnlinkAssumption, UnlinkInv, TU!Others PROVE UnlinkInv'
<1>1. inodeOf \in [TU!Path -> Inode \cup {None}] /\ holds \in SUBSET TU!Path
    BY DEF UnlinkInv, UnlinkTypes
<1>2. ASSUME NEW p \in TU!Path, TU!Remove(p) \/ TU!Create(p) PROVE UnlinkInv'
    <2>1. PICK i \in Inode \cup {None} : TU!Change([inodeOf EXCEPT ![p] = i], holds)
        BY Zenon, <1>2 DEF TU!Remove, TU!Create
    <2>2. [inodeOf EXCEPT ![p] = i] \in [TU!Path -> Inode \cup {None}]
        BY <1>1
    <2> QED BY Zenon, <1>1, <2>1, <2>2, ChangeKeeps
<1>3. ASSUME NEW p \in TU!Path, NEW q \in TU!Path, TU!Link(p, q) \/ TU!Rename(p, q) PROVE UnlinkInv'
    <2>1. /\ [inodeOf EXCEPT ![p] = inodeOf[q]] \in [TU!Path -> Inode \cup {None}]
          /\ [inodeOf EXCEPT ![p] = inodeOf[q], ![q] = None] \in [TU!Path -> Inode \cup {None}]
        BY <1>1
    <2> QED BY Zenon, <1>1, <1>3, <2>1, ChangeKeeps DEF TU!Link, TU!Rename
<1>4. ASSUME NEW p \in TU!Path, TU!Hold(p) PROVE UnlinkInv'
    <2>1. (holds \cup {p}) \ (holds \cap {p}) \in SUBSET TU!Path
        BY <1>1
    <2> QED BY <1>1, <1>4, <2>1, ChangeKeeps DEF TU!Hold
<1>5. CASE TU!Breaks
    BY <1>1, <1>5, ChangeKeeps DEF TU!Breaks
<1> QED BY <1>2, <1>3, <1>4, <1>5 DEF TU!Others

LEMMA UnlinkStepOK == ASSUME TU!UnlinkAssumption, UnlinkInv, [TU!UnlinkNext]_(TU!unlinkVars) PROVE UnlinkInv'
<1>1. CASE UNCHANGED TU!unlinkVars
    BY <1>1 DEF TU!unlinkVars, UnlinkInv, UnlinkTypes, ClaimHolds, AtWork, InRow, TU!Counterpart, TU!Current,
                TU!Name, TU!Seen, TU!Names, TU!Redundant
<1>2. CASE TU!UnlinkNext
    BY <1>2, ListKeeps, WalkKeeps, ChooseKeeps, RowKeeps, CheckKeeps, UnlinkKeeps, OtherNamesKeep
       DEF TU!UnlinkNext, TU!Job
<1> QED BY <1>1, <1>2

LEMMA UnlinkTells == ASSUME UnlinkInv PROVE TU!UnlinkSafe
BY DEF UnlinkInv, TU!UnlinkSafe, TU!LastNameKept, TU!HeldKept

\* For any names, inodes and batch, and however others link, move, delete and hold
\* names meanwhile: the job takes neither an inode's last name nor one of an inode
\* a torrent has held since the list, but for a change between re-stat and unlink.
THEOREM UnlinksAreSafe == ASSUME TU!UnlinkAssumption PROVE TU!UnlinkSpec => []TU!UnlinkSafe
BY UnlinkTells, UnlinkInitOK, UnlinkStepOK, PTL DEF TU!UnlinkSpec

-----------------------------------------------------------------------------
(* VaultWrites: who is between its read and its last request holds the     *)
(* lock, so nobody else confirms a value or takes an attachment away; a    *)
(* client's own upload is told apart from what was there before, of which  *)
(* a good one is left until the upload has been read back.                 *)

Critical == {"select", "send", "confirm", "verify", "undo", "remove", "gone"}
Sent == {"confirm", "verify", "undo", "remove", "gone"}
Process ==
    [pc : Critical \cup {"new", "lock", "child", "end"}, seen : VW!ItemState \cup {None},
     new : VW!Att \cup {None}, code : VW!Code \cup {None}]

VaultTypes ==
    /\ vault \in [Item -> VW!ItemState \cup {None}]
    /\ wlock \in Client \cup {None} /\ late \in Client \cup {None}
    /\ cmd \in [Client -> VW!Command \cup {None}]
    /\ cl \in [Client -> Process]
    /\ due \in [Item -> [Field -> Client \cup {None}]]

\* nothing in the vault was uploaded by c
NoneBy(c) == \A i \in Item : vault[i] # None => \A a \in vault[i].att : a.by # c

\* a request of c that the vault has not applied yet, and still may
Pending(c) == cl[c].pc = "send" \/ late = c

Command(c) ==
    /\ cl[c].pc # "new" => cmd[c] \in VW!Command
    /\ wlock = c <=> cl[c].pc \in Critical /\ cmd[c].op # "run"
    /\ cl[c].pc \in {"lock", "send"} \cup Sent => cmd[c].op # "run"
    /\ cl[c].pc = "select" => cmd[c].op # "create"
    /\ cl[c].pc \in {"verify", "undo", "remove", "gone"} => cmd[c].op = "attach"
    /\ cl[c].pc = "undo" => cl[c].code \in {2, 130}
    /\ cl[c].pc = "end" => cl[c].code \in VW!Code
    /\ late = c => cl[c].pc = "end" /\ cmd[c].op # "run"

Target(c) ==
    /\ (cl[c].pc = "lock" \/ Pending(c)) /\ cmd[c].op = "create" => vault[VW!It(c)] = None
    /\ (cl[c].pc \in {"send"} \cup Sent \/ late = c) /\ cmd[c].op # "create" =>
          vault[VW!It(c)] # None /\ cl[c].seen \in VW!ItemState
    /\ cl[c].pc = "send" /\ cmd[c].op = "update" =>
          \A g \in Field : due[VW!It(c)][g] # None => cl[c].seen.val[g] = due[VW!It(c)][g]

Uploads(c) ==
    /\ cl[c].pc \in {"new", "lock", "select", "child"} \/ Pending(c) => NoneBy(c)
    /\ cl[c].seen # None => \A a \in cl[c].seen.att : a.by # c
    /\ cl[c].pc \in Sent => cl[c].new \in VW!Att /\ cl[c].new.by = c
    /\ cl[c].pc \in {"confirm", "verify", "remove"} /\ cmd[c].op = "attach" => cl[c].new \in vault[VW!It(c)].att
    /\ cl[c].pc = "remove" => cl[c].new.good
    /\ cl[c].pc \in Sent \ {"gone"} => \E a \in vault[First].att : a.good /\ a.by # c

Kept ==
    /\ vault[First] # None /\ VW!OldCopyKept /\ VW!ConfirmedKept
    /\ \A i \in Item, f \in Field : vault[i] = None => due[i][f] = None

\* an id is given to one new item only
IdsUnique ==
    \A c, d \in Client : c # d /\ cmd[c] # None /\ cmd[d] # None /\ cmd[c].op = "create" /\ cmd[d].op = "create"
        => cmd[c].item # cmd[d].item

VaultInv ==
    /\ VaultTypes /\ Kept /\ IdsUnique
    /\ \A c \in Client : Command(c) /\ Target(c) /\ Uploads(c)

LEMMA VaultInitOK == ASSUME VW!VaultAssumption, VW!VaultInit PROVE VaultInv
<1> DEFINE old == [by |-> "old", good |-> TRUE]
           item == [VW!NewItem EXCEPT !.att = {old}]
<1>1. VW!NewItem \in VW!ItemState /\ old \in VW!Att
    BY DEF VW!NewItem, VW!ItemState, VW!Att
<1>2. item \in VW!ItemState /\ item.att = {old} /\ item # None
    <2> HIDE DEF old
    <2>1. item \in VW!ItemState /\ item.att = {old} BY <1>1 DEF VW!ItemState
    <2> QED BY <2>1 DEF VW!VaultAssumption
<1> HIDE DEF item
<1>3. vault = [i \in Item |-> IF i = First THEN item ELSE None]
    BY DEF VW!VaultInit, item
<1>4. /\ wlock = None /\ late = None /\ cmd = [c \in Client |-> None]
      /\ cl = [c \in Client |-> [pc |-> "new", seen |-> None, new |-> None, code |-> None]]
      /\ due = [i \in Item |-> [f \in Field |-> None]]
    BY DEF VW!VaultInit
<1>5. VaultTypes
    BY <1>2, <1>3, <1>4 DEF VaultTypes, Process
<1>6. Kept
    <2>1. vault[First] = item /\ old \in item.att /\ old.good
        BY <1>2, <1>3 DEF VW!VaultAssumption
    <2>2. \A i \in Item, f \in Field : due[i][f] = None
        BY <1>4
    <2> QED BY Zenon, <1>2, <2>1, <2>2 DEF Kept, VW!OldCopyKept, VW!ConfirmedKept
<1>7. ASSUME NEW c \in Client PROVE Command(c) /\ Target(c) /\ Uploads(c)
    <2>1. NoneBy(c)
        BY <1>2, <1>3 DEF NoneBy, VW!VaultAssumption
    <2> QED BY <1>4, <2>1 DEF Command, Target, Uploads, Pending, Critical, Sent, VW!VaultAssumption
<1> QED BY <1>4, <1>5, <1>6, <1>7 DEF VaultInv, IdsUnique

\* What a step of c may do to the vault as far as the others are concerned: it
\* adds only what bears its name, and takes away only under the lock.
Grows(c) ==
    /\ \A i \in Item : vault[i] # None => vault'[i] # None
    /\ \A i \in Item : vault'[i] # None =>
          \A a \in vault'[i].att : (vault[i] # None /\ a \in vault[i].att) \/ a.by = c
    /\ \A i \in Item : vault[i] = None /\ vault'[i] # None => cmd[c] # None /\ cmd[c].op = "create" /\ i = VW!It(c)
    /\ wlock # c =>
          /\ \A i \in Item : vault[i] # None => vault[i].att \subseteq vault'[i].att
          /\ \A i \in Item, f \in Field : due'[i][f] \in {due[i][f], None}

LEMMA OthersKept ==
    ASSUME VW!VaultAssumption, VaultInv, NEW c \in Client, NEW b \in Client \ {c}, Grows(c),
           cl'[b] = cl[b], cmd'[b] = cmd[b], wlock' = b <=> wlock = b, late' = b => late = b
    PROVE  Command(b)' /\ Target(b)' /\ Uploads(b)'
<1>1. Command(b) /\ Target(b) /\ Uploads(b) /\ VaultTypes /\ Kept /\ IdsUnique
    BY DEF VaultInv
<1>2. VW!It(b)' = VW!It(b) /\ (Pending(b)' => Pending(b)) /\ First \in Item
    BY DEF VW!It, Pending, VW!VaultAssumption
<1>3. cl[b].pc # "new" => cmd[b] \in VW!Command /\ cmd[b] # None /\ VW!It(b) \in Item
    BY <1>1 DEF Command, VW!Command, VW!It, VW!VaultAssumption
<1>4. cl[b].pc \in Critical /\ cmd[b].op # "run" => wlock # c
    BY <1>1 DEF Command
<1>5. Command(b)'
    BY <1>1 DEF Command
<1>6. Target(b)'
    <2>1. cmd[b].op = "create" /\ (cl[b].pc = "lock" \/ Pending(b)) => vault'[VW!It(b)] = None
        BY <1>1, <1>3 DEF Target, Grows, IdsUnique, Command, Pending, VW!It
    <2>2. cmd[b].op # "create" /\ (cl[b].pc \in {"send"} \cup Sent \/ late' = b) =>
              vault'[VW!It(b)] # None /\ cl[b].seen \in VW!ItemState
        BY <1>1, <1>3 DEF Target, Grows, Command, Sent
    <2>3. cl[b].pc = "send" /\ cmd[b].op = "update" =>
              \A g \in Field : due'[VW!It(b)][g] # None => cl[b].seen.val[g] = due'[VW!It(b)][g]
        BY <1>1, <1>3, <1>4 DEF Target, Grows, Critical
    <2> QED BY <1>2, <2>1, <2>2, <2>3 DEF Target
<1>7. Uploads(b)'
    <2>1. NoneBy(b) => NoneBy(b)'
        BY DEF NoneBy, Grows
    <2>2. cl[b].pc \in {"confirm", "verify", "remove"} /\ cmd[b].op = "attach" => cl[b].new \in vault'[VW!It(b)].att
        BY <1>1, <1>3, <1>4 DEF Uploads, Target, Grows, Critical, Sent
    <2>3. cl[b].pc \in Sent \ {"gone"} => \E a \in vault'[First].att : a.good /\ a.by # b
        BY <1>1, <1>2, <1>4 DEF Uploads, Command, Kept, Grows, Critical, Sent
    <2> QED BY <1>1, <1>2, <2>1, <2>2, <2>3 DEF Uploads
<1> QED BY <1>5, <1>6, <1>7

LEMMA WriteStepKeeps ==
    ASSUME VW!VaultAssumption, VaultInv, NEW c \in Client, Grows(c), VaultTypes', Kept', IdsUnique',
           \A b \in Client \ {c} : cl'[b] = cl[b] /\ cmd'[b] = cmd[b] /\ (wlock' = b <=> wlock = b) /\ (late' = b => late = b),
           Command(c)', Target(c)', Uploads(c)'
    PROVE  VaultInv'
BY OthersKept DEF VaultInv

\* A step that leaves the vault and what is owed alone.
LEMMA QuietKeeps ==
    ASSUME VW!VaultAssumption, VaultInv, NEW c \in Client, UNCHANGED <<vault, due>>, VaultTypes', IdsUnique',
           \A b \in Client \ {c} : cl'[b] = cl[b] /\ cmd'[b] = cmd[b] /\ (wlock' = b <=> wlock = b) /\ (late' = b => late = b),
           Command(c)', Target(c)', Uploads(c)'
    PROVE  VaultInv'
<1>1. Kept'
    BY DEF VaultInv, Kept, VW!OldCopyKept, VW!ConfirmedKept
<1>2. Grows(c)
    BY DEF Grows
<1> QED BY <1>1, <1>2, WriteStepKeeps

\* An exit, for the client itself: it owes nothing but a request that may land.
LEMMA ExitOwn ==
    ASSUME VW!VaultAssumption, VaultInv, NEW c \in Client, NEW code \in VW!Code, VW!Exit(c, code), UNCHANGED cmd,
           cl[c].pc \notin {"new", "end"},
           late' = late \/ (cl[c].pc = "send" /\ late' = c /\ UNCHANGED <<vault, due>>)
    PROVE  /\ Command(c)' /\ Target(c)' /\ Uploads(c)' /\ IdsUnique'
           /\ cl' \in [Client -> Process] /\ cmd' \in [Client -> VW!Command \cup {None}]
           /\ wlock' \in Client \cup {None} /\ late' \in Client \cup {None}
           /\ \A b \in Client \ {c} : cl'[b] = cl[b] /\ cmd'[b] = cmd[b] /\ (wlock' = b <=> wlock = b) /\ (late' = b => late = b)
<1>1. Command(c) /\ Target(c) /\ Uploads(c) /\ VaultTypes /\ IdsUnique /\ c # None
    BY DEF VaultInv, VW!VaultAssumption
<1>2. /\ cl' = [cl EXCEPT ![c].pc = "end", ![c].code = code]
      /\ wlock' = IF wlock = c THEN None ELSE wlock
    BY DEF VW!Exit
<1>3. cl[c] \in Process
    BY <1>1 DEF VaultTypes
<1>4. /\ cl' \in [Client -> Process] /\ \A b \in Client \ {c} : cl'[b] = cl[b]
      /\ cl'[c].pc = "end" /\ cl'[c].code = code /\ cl'[c].seen = cl[c].seen
    BY Zenon, <1>1, <1>2, <1>3 DEF VaultTypes, Process
<1>5. late # c /\ cmd[c] \in VW!Command
    BY <1>1 DEF Command
<1>6. Command(c)'
    BY <1>1, <1>2, <1>4, <1>5 DEF Command, Critical, Sent
<1>7. Target(c)'
    BY <1>1, <1>4, <1>5 DEF Target, Pending, Sent, VW!It
<1>8. Uploads(c)'
    <2>1. Pending(c)' => late' = c /\ NoneBy(c)'
        BY <1>1, <1>4, <1>5 DEF Pending, Uploads, NoneBy
    <2> QED BY <1>1, <1>4, <2>1 DEF Uploads, Sent
<1>9. wlock' \in Client \cup {None} /\ late' \in Client \cup {None}
    BY <1>1, <1>2 DEF VaultTypes
<1> QED BY <1>1, <1>2, <1>4, <1>5, <1>6, <1>7, <1>8, <1>9 DEF IdsUnique, VaultTypes, VW!VaultAssumption

LEMMA ExitKeeps ==
    ASSUME VW!VaultAssumption, VaultInv, NEW c \in Client, NEW code \in VW!Code, VW!Exit(c, code),
           UNCHANGED <<vault, due, cmd>>, cl[c].pc \notin {"new", "end"},
           late' = late \/ (cl[c].pc = "send" /\ late' = c)
    PROVE  VaultInv'
<1>1. /\ Command(c)' /\ Target(c)' /\ Uploads(c)' /\ IdsUnique'
      /\ cl' \in [Client -> Process] /\ cmd' \in [Client -> VW!Command \cup {None}]
      /\ wlock' \in Client \cup {None} /\ late' \in Client \cup {None}
      /\ \A b \in Client \ {c} : cl'[b] = cl[b] /\ cmd'[b] = cmd[b] /\ (wlock' = b <=> wlock = b) /\ (late' = b => late = b)
    BY ExitOwn
<1>2. VaultTypes'
    BY <1>1 DEF VaultInv, VaultTypes
<1> QED BY <1>1, <1>2, QuietKeeps

LEMMA StartKeeps == ASSUME VW!VaultAssumption, VaultInv, NEW c \in Client, VW!Start(c) PROVE VaultInv'
<1>1. Command(c) /\ Target(c) /\ Uploads(c) /\ VaultTypes /\ IdsUnique /\ c # None
    BY DEF VaultInv, VW!VaultAssumption
<1>2. PICK op \in VW!Ops, i \in Item, f \in Field :
        /\ op = "create" => vault[i] = None /\ \A d \in Client : cmd[d] # None => cmd[d].item # i
        /\ cmd' = [cmd EXCEPT ![c] = [op |-> op, item |-> i, field |-> f]]
        /\ \/ VW!Goto(c, IF op = "run" THEN "select" ELSE "lock") /\ UNCHANGED wlock
           \/ VW!Exit(c, 1)
    BY Zenon DEF VW!Start
<1>3. UNCHANGED <<vault, late, due>> /\ cl[c].pc = "new" /\ cl[c] \in Process
    BY <1>1 DEF VW!Start, VW!At, VaultTypes
<1>4. wlock # c /\ late # c
    BY <1>1, <1>3 DEF Command, Critical
<1>5. /\ cmd' \in [Client -> VW!Command \cup {None}] /\ cmd'[c] \in VW!Command
      /\ cmd'[c].op = op /\ cmd'[c].item = i /\ \A b \in Client \ {c} : cmd'[b] = cmd[b]
    BY <1>1, <1>2 DEF VaultTypes, VW!Command
<1>6. IdsUnique'
    BY <1>1, <1>2, <1>5 DEF IdsUnique
<1>7. ASSUME NEW pc \in {"select", "lock", "end"}, NEW code \in VW!Code \cup {None},
             cl' = [cl EXCEPT ![c].pc = pc, ![c].code = code], wlock' = wlock,
             pc = "select" => op = "run", pc = "lock" => op # "run", pc = "end" => code \in VW!Code
      PROVE  VaultInv'
    <2>1. /\ cl' \in [Client -> Process] /\ \A b \in Client \ {c} : cl'[b] = cl[b]
          /\ cl'[c].pc = pc /\ cl'[c].code = code /\ cl'[c].seen = cl[c].seen
        BY Zenon, <1>1, <1>3, <1>7 DEF VaultTypes, Process, Critical
    <2>2. VaultTypes'
        BY <1>1, <1>3, <1>5, <1>7, <2>1 DEF VaultTypes
    <2>3. Command(c)'
        BY <1>3, <1>4, <1>5, <1>7, <2>1 DEF Command, Critical, Sent
    <2>4. Target(c)'
        BY <1>2, <1>3, <1>4, <1>5, <2>1 DEF Target, Pending, Sent, VW!It
    <2>5. Uploads(c)'
        BY <1>1, <1>3, <1>4, <2>1 DEF Uploads, Pending, Sent, NoneBy
    <2> QED BY <1>3, <1>5, <1>6, <1>7, <2>1, <2>2, <2>3, <2>4, <2>5, QuietKeeps
<1>8. CASE VW!Exit(c, 1)
    <2>1. cl' = [cl EXCEPT ![c].pc = "end", ![c].code = 1] /\ wlock' = wlock /\ 1 \in VW!Code
        BY <1>4, <1>8 DEF VW!Exit, VW!Code
    <2> QED BY Zenon, <1>7, <2>1
<1>9. CASE VW!Goto(c, IF op = "run" THEN "select" ELSE "lock") /\ UNCHANGED wlock
    <2>1. cl' = [cl EXCEPT ![c].pc = IF op = "run" THEN "select" ELSE "lock", ![c].code = cl[c].code]
        BY Zenon, <1>1, <1>3, <1>9 DEF VW!Goto, VaultTypes, Process
    <2>2. cl[c].code \in VW!Code \cup {None}
        BY <1>3 DEF Process
    <2> QED BY Zenon, <1>7, <1>9, <2>1, <2>2
<1> QED BY <1>2, <1>8, <1>9

\* the lock that is taken was free
LEMMA AcquireKeeps == ASSUME VW!VaultAssumption, VaultInv, NEW c \in Client, VW!Acquire(c) PROVE VaultInv'
<1>1. Command(c) /\ Target(c) /\ Uploads(c) /\ VaultTypes /\ IdsUnique /\ c # None
    BY DEF VaultInv, VW!VaultAssumption
<1>2. /\ UNCHANGED <<vault, cmd, late, due>> /\ cl[c].pc = "lock" /\ cl[c] \in Process /\ wlock = None /\ wlock' = c
      /\ cmd[c] \in VW!Command /\ cmd[c].op # "run" /\ late # c
    BY <1>1 DEF VW!Acquire, VW!At, VaultTypes, Command
<1>3. PICK pc \in {"send", "select"} : /\ cl' = [cl EXCEPT ![c].pc = pc] /\ (pc = "send" <=> cmd[c].op = "create")
    BY Zenon DEF VW!Acquire, VW!Goto
<1>4. /\ cl' \in [Client -> Process] /\ \A b \in Client \ {c} : cl'[b] = cl[b]
      /\ cl'[c].pc = pc /\ cl'[c].code = cl[c].code /\ cl'[c].seen = cl[c].seen
    BY Zenon, <1>1, <1>2, <1>3 DEF VaultTypes, Process, Critical
<1>5. VaultTypes'
    BY <1>1, <1>2, <1>4 DEF VaultTypes
<1>6. Command(c)'
    BY <1>2, <1>3, <1>4 DEF Command, Critical, Sent
<1>7. Target(c)'
    BY <1>1, <1>2, <1>3, <1>4 DEF Target, Pending, Sent, VW!It
<1>8. Uploads(c)'
    BY <1>1, <1>2, <1>4 DEF Uploads, Pending, Sent, NoneBy
<1> QED BY <1>1, <1>2, <1>4, <1>5, <1>6, <1>7, <1>8, QuietKeeps DEF IdsUnique, VW!VaultAssumption

\* What is read is what is in the vault, so it has every value that is owed.
LEMMA SelectKeeps == ASSUME VW!VaultAssumption, VaultInv, NEW c \in Client, VW!Select(c) PROVE VaultInv'
<1>1. Command(c) /\ Target(c) /\ Uploads(c) /\ VaultTypes /\ Kept /\ IdsUnique
    BY DEF VaultInv
<1>2. UNCHANGED <<vault, cmd, late, due>> /\ cl[c].pc = "select" /\ cl[c] \in Process /\ cmd[c] \in VW!Command /\ late # c
    BY <1>1 DEF VW!Select, VW!At, VaultTypes, Command
<1>3. CASE VW!Exit(c, 1)
    BY <1>2, <1>3, ExitKeeps DEF VW!Code
<1>4. ASSUME vault[VW!It(c)] # None, UNCHANGED wlock,
             cl' = [cl EXCEPT ![c].pc = IF cmd[c].op = "run" THEN "child" ELSE "send", ![c].seen = vault[VW!It(c)]]
      PROVE  VaultInv'
    <2> DEFINE x == vault[VW!It(c)]
    <2>1. VW!It(c) \in Item /\ x \in VW!ItemState /\ NoneBy(c)
        BY <1>1, <1>2, <1>4 DEF VaultTypes, VW!It, VW!Command, Uploads
    <2>2. /\ cl' \in [Client -> Process] /\ \A b \in Client \ {c} : cl'[b] = cl[b]
          /\ cl'[c].pc = (IF cmd[c].op = "run" THEN "child" ELSE "send") /\ cl'[c].seen = x
        BY Zenon, <1>1, <1>2, <1>4, <2>1 DEF VaultTypes, Process, Critical
    <2>3. VaultTypes'
        BY <1>1, <1>2, <1>4, <2>2 DEF VaultTypes
    <2>4. Command(c)'
        BY <1>1, <1>2, <1>4, <2>2 DEF Command, Critical, Sent
    <2>5. cmd[c].op # "create"
        BY <1>1, <1>2 DEF Command
    <2>6. Target(c)'
        BY <1>1, <1>2, <1>4, <2>1, <2>2, <2>5 DEF Target, Pending, Sent, VW!It, Kept, VW!ConfirmedKept, VW!Command
    <2>7. Uploads(c)'
        BY <1>1, <1>2, <1>4, <2>1, <2>2 DEF Uploads, Pending, Sent, NoneBy
    <2> QED BY <1>1, <1>2, <1>4, <2>2, <2>3, <2>4, <2>6, <2>7, QuietKeeps DEF IdsUnique
<1> QED BY <1>3, <1>4 DEF VW!Select

\* What a request does when the vault applies it.
LEMMA EffectIs ==
    ASSUME VW!VaultAssumption, NEW c \in Client, NEW x \in VW!ItemState \cup {None}, NEW good \in BOOLEAN,
           cmd[c] \in VW!Command, cmd[c].op # "run",
           cmd[c].op # "create" => x # None /\ cl[c].seen \in VW!ItemState
    PROVE  LET y == VW!Effect(c, x, good) IN
           /\ y \in VW!ItemState
           /\ cmd[c].op = "create" => y.att = {}
           /\ cmd[c].op # "create" => x.att \subseteq y.att /\ \A a \in y.att : a \in x.att \/ a.by = c
           /\ cmd[c].op = "attach" => [by |-> c, good |-> good] \in y.att
           /\ cmd[c].op = "update" => y.val = [cl[c].seen.val EXCEPT ![cmd[c].field] = c]
           /\ cmd[c].op \in {"trash", "attach"} => y.val = x.val
<1> DEFINE y == VW!Effect(c, x, good)
           mine == [by |-> c, good |-> good]
<1>1. mine \in VW!Att /\ mine.by = c
    BY DEF VW!Att
<1>2. CASE cmd[c].op = "create"
    <2>1. y = VW!NewItem
        BY <1>2 DEF VW!Effect
    <2> QED BY <1>2, <2>1 DEF VW!NewItem, VW!ItemState
<1>3. CASE cmd[c].op = "update"
    <2>1. x \in VW!ItemState /\ cl[c].seen \in VW!ItemState /\ cmd[c].field \in Field
        BY <1>3 DEF VW!Command
    <2>2. [cl[c].seen.val EXCEPT ![cmd[c].field] = c] \in [Field -> Client \cup {None}]
        BY <2>1 DEF VW!ItemState
    <2>3. y = [x EXCEPT !.val = [cl[c].seen.val EXCEPT ![cmd[c].field] = c]]
        BY <1>3 DEF VW!Effect
    <2> QED BY <1>3, <2>1, <2>2, <2>3 DEF VW!ItemState
<1>4. CASE cmd[c].op = "trash"
    <2>1. x \in VW!ItemState /\ y = [x EXCEPT !.trashed = TRUE]
        BY <1>4 DEF VW!Effect
    <2> QED BY Zenon, <1>4, <2>1 DEF VW!ItemState
<1>5. CASE cmd[c].op = "attach"
    <2>1. x \in VW!ItemState /\ y = [x EXCEPT !.att = @ \cup {mine}]
        BY <1>5 DEF VW!Effect
    <2>2. y \in VW!ItemState /\ y.att = x.att \cup {mine} /\ y.val = x.val
        BY <1>1, <2>1 DEF VW!ItemState
    <2> QED BY <1>1, <1>5, <2>2
<1> QED BY <1>2, <1>3, <1>4, <1>5 DEF VW!Command, VW!Ops

LEMMA RequestApplies ==
    ASSUME VW!VaultAssumption, VaultInv, NEW c \in Client, Pending(c), NEW good \in BOOLEAN,
           vault' = [vault EXCEPT ![VW!It(c)] = VW!Effect(c, @, good)]
    PROVE  LET i == VW!It(c) IN
           /\ i \in Item /\ vault' \in [Item -> VW!ItemState \cup {None}] /\ vault'[i] \in VW!ItemState
           /\ \A j \in Item \ {i} : vault'[j] = vault[j]
           /\ vault[i] = None <=> cmd[c].op = "create"
           /\ \A j \in Item : vault[j] # None => vault'[j] # None /\ vault[j].att \subseteq vault'[j].att
           /\ \A j \in Item : vault'[j] # None =>
                 \A a \in vault'[j].att : (vault[j] # None /\ a \in vault[j].att) \/ a.by = c
           /\ vault'[First] # None /\ VW!OldCopyKept'
           /\ \E a \in vault'[First].att : a.good /\ a.by # c
           /\ cmd[c].op = "attach" => [by |-> c, good |-> good] \in vault'[i].att
           /\ cmd[c].op = "update" => vault'[i].val = [cl[c].seen.val EXCEPT ![cmd[c].field] = c]
           /\ cmd[c].op \in {"trash", "attach"} => vault'[i].val = vault[i].val
<1> DEFINE i == VW!It(c)
           y == VW!Effect(c, vault[i], good)
<1>1. Command(c) /\ Target(c) /\ Uploads(c) /\ VaultTypes /\ Kept
    BY DEF VaultInv
<1>2. cmd[c] \in VW!Command /\ cmd[c].op # "run" /\ i \in Item /\ NoneBy(c)
    BY <1>1 DEF Command, Pending, Uploads, VW!It, VW!Command
<1>3. /\ cmd[c].op = "create" => vault[i] = None
      /\ cmd[c].op # "create" => vault[i] # None /\ cl[c].seen \in VW!ItemState
    BY <1>1 DEF Target, Pending, Sent
<1>4. vault[i] \in VW!ItemState \cup {None}
    BY <1>1, <1>2 DEF VaultTypes
<1>5. /\ y \in VW!ItemState /\ y # None
      /\ cmd[c].op = "create" => y.att = {}
      /\ cmd[c].op # "create" => vault[i].att \subseteq y.att /\ \A a \in y.att : a \in vault[i].att \/ a.by = c
      /\ cmd[c].op = "attach" => [by |-> c, good |-> good] \in y.att
      /\ cmd[c].op = "update" => y.val = [cl[c].seen.val EXCEPT ![cmd[c].field] = c]
      /\ cmd[c].op \in {"trash", "attach"} => y.val = vault[i].val
    BY <1>2, <1>3, <1>4, EffectIs DEF VW!VaultAssumption
<1>6. vault' = [vault EXCEPT ![i] = y]
    OBVIOUS
<1> HIDE DEF y, i
<1>7. vault'[i] = y /\ \A j \in Item \ {i} : vault'[j] = vault[j]
    BY <1>1, <1>2, <1>6 DEF VaultTypes
<1>8. vault' \in [Item -> VW!ItemState \cup {None}]
    BY Zenon, <1>1, <1>5, <1>6 DEF VaultTypes
<1>9. PICK a \in vault[First].att : a.good
    BY <1>1 DEF Kept, VW!OldCopyKept
<1>10. First \in Item /\ vault[First] # None /\ a.by # c
    BY <1>1, <1>2, <1>9 DEF Kept, NoneBy, VW!VaultAssumption
<1>11. vault'[First] # None /\ a \in vault'[First].att
    BY <1>3, <1>5, <1>7, <1>9, <1>10
<1> QED BY <1>2, <1>3, <1>5, <1>7, <1>8, <1>9, <1>10, <1>11 DEF VW!OldCopyKept, i

\* What an update supersedes is not owed any more, and it sends back everything
\* else that is, because it read it under the lock.
LEMMA SendKeeps == ASSUME VW!VaultAssumption, VaultInv, NEW c \in Client, VW!SendWrite(c) PROVE VaultInv'
<1> DEFINE i == VW!It(c)
<1>1. Command(c) /\ Target(c) /\ Uploads(c) /\ VaultTypes /\ Kept /\ IdsUnique
    BY DEF VaultInv
<1>2. UNCHANGED cmd /\ cl[c].pc = "send" /\ Pending(c) /\ cl[c] \in Process /\ cmd[c] \in VW!Command /\ wlock = c
        /\ late # c /\ cmd[c].op # "run"
    BY <1>1 DEF VW!SendWrite, VW!At, VaultTypes, Command, Pending, Critical
<1>3. PICK good \in BOOLEAN :
        LET done == vault' = [vault EXCEPT ![i] = VW!Effect(c, @, good)] /\ due' = VW!Superseded(c) IN
        \/ done /\ cl' = [cl EXCEPT ![c].pc = "confirm", ![c].new = [by |-> c, good |-> good]] /\ UNCHANGED <<wlock, late>>
        \/ \E code \in {1, 130} :
             /\ VW!Exit(c, code)
             /\ \/ done /\ UNCHANGED late
                \/ UNCHANGED <<vault, due, late>>
                \/ late = None /\ late' = c /\ UNCHANGED <<vault, due>>
    BY ZenonT(60) DEF VW!SendWrite
<1>4. ASSUME vault' = [vault EXCEPT ![i] = VW!Effect(c, @, good)], due' = VW!Superseded(c)
      PROVE  /\ Grows(c) /\ Kept' /\ vault' \in [Item -> VW!ItemState \cup {None}]
             /\ due' \in [Item -> [Field -> Client \cup {None}]]
             /\ i \in Item /\ vault'[i] # None /\ \E a \in vault'[First].att : a.good /\ a.by # c
             /\ cmd[c].op = "attach" => [by |-> c, good |-> good] \in vault'[i].att
    <2>1. /\ i \in Item /\ vault' \in [Item -> VW!ItemState \cup {None}] /\ vault'[i] \in VW!ItemState
          /\ \A j \in Item \ {i} : vault'[j] = vault[j]
          /\ vault[i] = None <=> cmd[c].op = "create"
          /\ \A j \in Item : vault[j] # None => vault'[j] # None /\ vault[j].att \subseteq vault'[j].att
          /\ \A j \in Item : vault'[j] # None =>
                \A a \in vault'[j].att : (vault[j] # None /\ a \in vault[j].att) \/ a.by = c
          /\ vault'[First] # None /\ VW!OldCopyKept'
          /\ \E a \in vault'[First].att : a.good /\ a.by # c
          /\ cmd[c].op = "attach" => [by |-> c, good |-> good] \in vault'[i].att
          /\ cmd[c].op = "update" => vault'[i].val = [cl[c].seen.val EXCEPT ![cmd[c].field] = c]
          /\ cmd[c].op \in {"trash", "attach"} => vault'[i].val = vault[i].val
        BY Zenon, <1>2, <1>4, RequestApplies
    <2>2. /\ cmd[c].op = "update" => due' = [due EXCEPT ![i][cmd[c].field] = None]
          /\ cmd[c].op # "update" => due' = due
        BY <1>4 DEF VW!Superseded
    <2>3. due' \in [Item -> [Field -> Client \cup {None}]]
            /\ \A j \in Item, f \in Field : due'[j][f] \in {due[j][f], None}
        <3>1. cmd[c].field \in Field /\ due[i] \in [Field -> Client \cup {None}]
            BY <1>1, <1>2, <2>1 DEF VaultTypes, VW!Command
        <3>2. due \in [Item -> [Field -> Client \cup {None}]]
            BY <1>1 DEF VaultTypes
        <3>3. CASE cmd[c].op # "update"
            BY <2>2, <3>2, <3>3
        <3>4. CASE cmd[c].op = "update"
            <4> DEFINE row == [due[i] EXCEPT ![cmd[c].field] = None]
            <4>1. row \in [Field -> Client \cup {None}] /\ \A f \in Field : row[f] \in {due[i][f], None}
                BY <3>1
            <4>2. due' = [due EXCEPT ![i] = row]
                BY <2>2, <3>4
            <4> HIDE DEF row, i
            <4> QED BY <2>1, <3>2, <4>1, <4>2
        <3> QED BY <3>3, <3>4
    <2>4. cmd[c].op = "update" => due'[i][cmd[c].field] = None /\ cl[c].seen \in VW!ItemState /\ cmd[c].field \in Field
        BY <1>1, <1>2, <2>1, <2>2 DEF VaultTypes, Target, VW!Command
    <2>5. ASSUME NEW f \in Field, due'[i][f] # None PROVE vault'[i].val[f] = due'[i][f]
        <3>1. due[i][f] # None /\ due'[i][f] = due[i][f]
            BY <2>1, <2>3, <2>5
        <3>2. CASE cmd[c].op = "create"
            BY <1>1, <2>1, <3>1, <3>2 DEF Kept
        <3>3. CASE cmd[c].op = "update"
            <4>1. f # cmd[c].field /\ vault'[i].val[f] = cl[c].seen.val[f]
                BY <2>1, <2>4, <2>5, <3>3 DEF VW!ItemState
            <4>2. cl[c].seen.val[f] = due[i][f]
                BY <1>1, <1>2, <3>1, <3>3 DEF Target
            <4> QED BY <3>1, <4>1, <4>2
        <3>4. CASE cmd[c].op \in {"trash", "attach"}
            BY <1>1, <2>1, <3>1, <3>4 DEF Kept, VW!ConfirmedKept
        <3> QED BY <1>2, <3>2, <3>3, <3>4 DEF VW!Command, VW!Ops
    <2>6. VW!ConfirmedKept'
        <3>1. ASSUME NEW j \in Item, NEW f \in Field, due'[j][f] # None PROVE vault'[j].val[f] = due'[j][f]
            BY <1>1, <2>1, <2>3, <2>5, <3>1 DEF Kept, VW!ConfirmedKept
        <3> QED BY <3>1 DEF VW!ConfirmedKept
    <2>7. Kept'
        BY <1>1, <2>1, <2>3, <2>6 DEF Kept, VW!ItemState, VW!VaultAssumption
    <2>8. Grows(c)
        BY <1>2, <2>1, <2>3 DEF Grows, VW!VaultAssumption
    <2> QED BY <2>1, <2>3, <2>7, <2>8 DEF VW!VaultAssumption
<1>5. CASE /\ vault' = [vault EXCEPT ![i] = VW!Effect(c, @, good)] /\ due' = VW!Superseded(c)
           /\ cl' = [cl EXCEPT ![c].pc = "confirm", ![c].new = [by |-> c, good |-> good]] /\ UNCHANGED <<wlock, late>>
    <2>1. [by |-> c, good |-> good] \in VW!Att
        BY DEF VW!Att
    <2>2. /\ cl' \in [Client -> Process] /\ \A b \in Client \ {c} : cl'[b] = cl[b]
          /\ cl'[c].pc = "confirm" /\ cl'[c].new = [by |-> c, good |-> good] /\ cl'[c].seen = cl[c].seen
        BY Zenon, <1>1, <1>2, <1>5, <2>1 DEF VaultTypes, Process, Critical
    <2>3. VaultTypes'
        BY <1>1, <1>2, <1>4, <1>5, <2>2 DEF VaultTypes
    <2>4. Command(c)'
        BY <1>1, <1>2, <1>5, <2>2 DEF Command, Critical, Sent
    <2>5. Target(c)'
        BY <1>1, <1>2, <1>4, <1>5, <2>2 DEF Target, Pending, Sent, VW!It
    <2>6. Uploads(c)'
        BY <1>1, <1>2, <1>4, <1>5, <2>1, <2>2 DEF Uploads, Pending, Sent, VW!It
    <2> QED BY <1>1, <1>2, <1>4, <1>5, <2>2, <2>3, <2>4, <2>5, <2>6, WriteStepKeeps DEF IdsUnique
<1>6. ASSUME NEW code \in {1, 130}, VW!Exit(c, code)
      PROVE  /\ code \in VW!Code
             /\ UNCHANGED late /\ vault' = [vault EXCEPT ![i] = VW!Effect(c, @, good)] /\ due' = VW!Superseded(c) => VaultInv'
    <2>1. code \in VW!Code
        BY DEF VW!Code
    <2>2. ASSUME UNCHANGED late, vault' = [vault EXCEPT ![i] = VW!Effect(c, @, good)], due' = VW!Superseded(c)
          PROVE  VaultInv'
        <3>1. /\ Command(c)' /\ Target(c)' /\ Uploads(c)' /\ IdsUnique'
              /\ cl' \in [Client -> Process] /\ cmd' \in [Client -> VW!Command \cup {None}]
              /\ wlock' \in Client \cup {None} /\ late' \in Client \cup {None}
              /\ \A b \in Client \ {c} : cl'[b] = cl[b] /\ cmd'[b] = cmd[b] /\ (wlock' = b <=> wlock = b) /\ (late' = b => late = b)
            BY <1>2, <1>6, <2>1, <2>2, ExitOwn
        <3>2. VaultTypes'
            BY <1>4, <2>2, <3>1 DEF VaultTypes
        <3> QED BY <1>4, <2>2, <3>1, <3>2, WriteStepKeeps
    <2> QED BY <2>1, <2>2
<1>7. ASSUME NEW code \in {1, 130}, VW!Exit(c, code), UNCHANGED <<vault, due>>, late' = late \/ late' = c
      PROVE  VaultInv'
    BY <1>2, <1>6, <1>7, ExitKeeps
<1> QED BY <1>3, <1>5, <1>6, <1>7

\* A request that lands late is its client's own upload, or writes what nobody
\* is owed by then.
LEMMA LandKeeps == ASSUME VW!VaultAssumption, VaultInv, VW!Land PROVE VaultInv'
<1>1. late # None /\ VaultTypes /\ Kept /\ IdsUnique
    BY DEF VaultInv, VW!Land
<1>0. PICK c \in Client : c = late
    BY <1>1 DEF VaultTypes
<1> DEFINE i == VW!It(c)
<1>2. c = late /\ Pending(c) /\ Command(c) /\ Target(c) /\ Uploads(c)
    BY <1>0, <1>1 DEF VaultInv, VaultTypes, Pending
<1>3. /\ vault' = [vault EXCEPT ![i] = VW!Effect(c, @, TRUE)] /\ due' = [due EXCEPT ![i] = [f \in Field |-> None]]
      /\ late' = None /\ UNCHANGED <<wlock, cmd, cl>>
    BY <1>0 DEF VW!Land
<1>4. cl[c].pc = "end" /\ cmd[c] # None /\ wlock # c
    BY <1>2 DEF Command, Critical, VW!VaultAssumption
<1>5. i = VW!It(c)
    OBVIOUS
<1> HIDE DEF i
<1>6. /\ i \in Item /\ vault' \in [Item -> VW!ItemState \cup {None}] /\ vault'[i] \in VW!ItemState
      /\ \A j \in Item \ {i} : vault'[j] = vault[j]
      /\ vault[i] = None <=> cmd[c].op = "create"
      /\ \A j \in Item : vault[j] # None => vault'[j] # None /\ vault[j].att \subseteq vault'[j].att
      /\ \A j \in Item : vault'[j] # None =>
            \A a \in vault'[j].att : (vault[j] # None /\ a \in vault[j].att) \/ a.by = c
      /\ vault'[First] # None /\ VW!OldCopyKept'
    BY Zenon, <1>2, <1>3, <1>5, RequestApplies
<1>7. due' \in [Item -> [Field -> Client \cup {None}]] /\ \A j \in Item, f \in Field : due'[j][f] \in {due[j][f], None}
        /\ \A g \in Field : due'[i][g] = None
    <2>1. [f \in Field |-> None] \in [Field -> Client \cup {None}]
        OBVIOUS
    <2> QED BY <1>1, <1>3, <1>6, <2>1 DEF VaultTypes
<1>8. VW!ConfirmedKept'
    <2>1. ASSUME NEW j \in Item, NEW f \in Field, due'[j][f] # None PROVE vault'[j].val[f] = due'[j][f]
        BY <1>1, <1>6, <1>7, <2>1 DEF Kept, VW!ConfirmedKept
    <2> QED BY <2>1 DEF VW!ConfirmedKept
<1>9. Kept'
    BY <1>1, <1>6, <1>7, <1>8 DEF Kept, VW!ItemState, VW!VaultAssumption
<1>10. Grows(c)
    BY <1>4, <1>5, <1>6, <1>7 DEF Grows
<1>11. VaultTypes'
    BY Zenon, <1>1, <1>3, <1>6, <1>7 DEF VaultTypes
<1>12. Command(c)'
    BY <1>2, <1>3, <1>4 DEF Command, VW!VaultAssumption
<1>13. Target(c)'
    BY Zenon, <1>2, <1>3, <1>4 DEF Target, Pending, Sent, VW!VaultAssumption
<1>14. Uploads(c)'
    BY <1>2, <1>3, <1>4 DEF Uploads, Pending, Sent, VW!VaultAssumption
<1>15. \A b \in Client \ {c} : cl'[b] = cl[b] /\ cmd'[b] = cmd[b] /\ (wlock' = b <=> wlock = b) /\ (late' = b => late = b)
    BY <1>3 DEF VW!VaultAssumption
<1>16. IdsUnique'
    BY <1>1, <1>3 DEF IdsUnique
<1> QED BY <1>2, <1>9, <1>10, <1>11, <1>12, <1>13, <1>14, <1>15, <1>16, WriteStepKeeps

\* a value is owed once its update was confirmed, under the lock, and stands
LEMMA ConfirmKeeps == ASSUME VW!VaultAssumption, VaultInv, NEW c \in Client, VW!Confirm(c) PROVE VaultInv'
<1> DEFINE i == VW!It(c)
<1>1. Command(c) /\ Target(c) /\ Uploads(c) /\ VaultTypes /\ Kept /\ IdsUnique
    BY DEF VaultInv
<1>2. /\ UNCHANGED <<vault, cmd, late>> /\ cl[c].pc = "confirm" /\ cl[c] \in Process /\ cmd[c] \in VW!Command
      /\ late # c /\ wlock = c /\ i \in Item
    BY <1>1 DEF VW!Confirm, VW!At, VaultTypes, Command, Critical, Sent, VW!It, VW!Command
<1>3. CASE VW!Exit(c, 2) /\ UNCHANGED due
    BY <1>2, <1>3, ExitKeeps DEF VW!Code
<1>4. CASE cmd[c].op = "attach" /\ VW!Goto(c, "verify") /\ UNCHANGED <<wlock, due>>
    <2>1. /\ cl' \in [Client -> Process] /\ \A b \in Client \ {c} : cl'[b] = cl[b]
          /\ cl'[c].pc = "verify" /\ cl'[c].seen = cl[c].seen /\ cl'[c].new = cl[c].new
        BY Zenon, <1>1, <1>2, <1>4 DEF VaultTypes, Process, Critical, VW!Goto
    <2>2. VaultTypes'
        BY <1>1, <1>2, <1>4, <2>1 DEF VaultTypes
    <2>3. Command(c)'
        BY <1>1, <1>2, <1>4, <2>1 DEF Command, Critical, Sent
    <2>4. Target(c)'
        BY <1>1, <1>2, <1>4, <2>1 DEF Target, Pending, Sent, VW!It
    <2>5. Uploads(c)'
        BY <1>1, <1>2, <1>4, <2>1 DEF Uploads, Pending, Sent, NoneBy, VW!It
    <2> QED BY <1>1, <1>2, <1>4, <2>1, <2>2, <2>3, <2>4, <2>5, QuietKeeps DEF IdsUnique
<1>5. CASE VW!Exit(c, 0) /\ UNCHANGED due
    BY <1>2, <1>5, ExitKeeps DEF VW!Code
<1>6. ASSUME VW!Exit(c, 0), cmd[c].op = "update", vault[i].val[cmd[c].field] = c,
             due' = [due EXCEPT ![i][cmd[c].field] = c]
      PROVE  VaultInv'
    <2>1. /\ Command(c)' /\ Target(c)' /\ Uploads(c)' /\ IdsUnique'
          /\ cl' \in [Client -> Process] /\ cmd' \in [Client -> VW!Command \cup {None}]
          /\ wlock' \in Client \cup {None} /\ late' \in Client \cup {None}
          /\ \A b \in Client \ {c} : cl'[b] = cl[b] /\ cmd'[b] = cmd[b] /\ (wlock' = b <=> wlock = b) /\ (late' = b => late = b)
        BY <1>2, <1>6, ExitOwn DEF VW!Code
    <2>2. cmd[c].field \in Field /\ vault[i] # None /\ due[i] \in [Field -> Client \cup {None}]
        BY <1>1, <1>2, <1>6 DEF Target, Sent, VaultTypes, VW!Command
    <2> DEFINE row == [due[i] EXCEPT ![cmd[c].field] = c]
    <2>3. /\ row \in [Field -> Client \cup {None}]
          /\ \A f \in Field : row[f] = IF f = cmd[c].field THEN c ELSE due[i][f]
        BY <2>2
    <2>4. due' = [due EXCEPT ![i] = row]
        BY <1>6
    <2> HIDE DEF row, i
    <2>5. due' \in [Item -> [Field -> Client \cup {None}]] /\ due'[i] = row /\ \A j \in Item \ {i} : due'[j] = due[j]
        BY <1>1, <1>2, <2>3, <2>4 DEF VaultTypes
    <2>6. VaultTypes'
        BY <1>1, <1>2, <2>1, <2>5 DEF VaultTypes
    <2>7. VW!ConfirmedKept'
        <3>1. ASSUME NEW j \in Item, NEW f \in Field, due'[j][f] # None PROVE vault[j].val[f] = due'[j][f]
            BY <1>1, <1>6, <2>3, <2>5, <3>1 DEF Kept, VW!ConfirmedKept
        <3> QED BY <1>2, <3>1 DEF VW!ConfirmedKept
    <2>8. Kept'
        BY <1>1, <1>2, <2>2, <2>5, <2>7 DEF Kept, VW!OldCopyKept
    <2>9. Grows(c)
        BY <1>2 DEF Grows
    <2> QED BY <2>1, <2>6, <2>8, <2>9, WriteStepKeeps
<1>7. \/ VW!Exit(c, 2) /\ UNCHANGED due
      \/ cmd[c].op = "attach" /\ VW!Goto(c, "verify") /\ UNCHANGED <<wlock, due>>
      \/ /\ VW!Exit(c, 0)
         /\ due' = IF cmd[c].op = "update" /\ vault[i].val[cmd[c].field] = c
                   THEN [due EXCEPT ![i][cmd[c].field] = c] ELSE due
    BY DEF VW!Confirm
<1> QED BY <1>3, <1>4, <1>5, <1>6, <1>7

LEMMA VerifyKeeps == ASSUME VW!VaultAssumption, VaultInv, NEW c \in Client, VW!Verify(c) PROVE VaultInv'
<1>1. Command(c) /\ Target(c) /\ Uploads(c) /\ VaultTypes /\ Kept /\ IdsUnique
    BY DEF VaultInv
<1>2. /\ UNCHANGED <<vault, cmd, late, due>> /\ cl[c].pc = "verify" /\ cl[c] \in Process /\ cmd[c] \in VW!Command
      /\ late # c /\ wlock = c
    BY <1>1 DEF VW!Verify, VW!At, VaultTypes, Command, Critical, Sent
<1>3. CASE VW!Exit(c, 0)
    BY <1>2, <1>3, ExitKeeps DEF VW!Code
<1>4. ASSUME NEW pc \in {"remove", "undo"}, NEW code \in VW!Code \cup {None}, UNCHANGED wlock,
             cl' = [cl EXCEPT ![c].pc = pc, ![c].code = code],
             pc = "remove" => cl[c].new.good, pc = "undo" => code \in {2, 130}
      PROVE  VaultInv'
    <2>1. /\ cl' \in [Client -> Process] /\ \A b \in Client \ {c} : cl'[b] = cl[b]
          /\ cl'[c].pc = pc /\ cl'[c].code = code /\ cl'[c].seen = cl[c].seen /\ cl'[c].new = cl[c].new
        BY Zenon, <1>1, <1>2, <1>4 DEF VaultTypes, Process, Critical
    <2>2. VaultTypes'
        BY <1>1, <1>2, <1>4, <2>1 DEF VaultTypes
    <2>3. Command(c)'
        BY <1>1, <1>2, <1>4, <2>1 DEF Command, Critical, Sent
    <2>4. Target(c)'
        BY <1>1, <1>2, <1>4, <2>1 DEF Target, Pending, Sent, VW!It
    <2>5. Uploads(c)'
        BY <1>1, <1>2, <1>4, <2>1 DEF Uploads, Pending, Sent, NoneBy, VW!It
    <2> QED BY <1>1, <1>2, <1>4, <2>1, <2>2, <2>3, <2>4, <2>5, QuietKeeps DEF IdsUnique
<1>5. CASE cl[c].new.good /\ VW!Goto(c, "remove") /\ UNCHANGED wlock
    <2>1. cl' = [cl EXCEPT ![c].pc = "remove", ![c].code = cl[c].code] /\ cl[c].code \in VW!Code \cup {None}
        BY Zenon, <1>1, <1>2, <1>5 DEF VW!Goto, VaultTypes, Process
    <2> QED BY Zenon, <1>4, <1>5, <2>1
<1>6. ASSUME NEW code \in {2, 130}, cl' = [cl EXCEPT ![c].pc = "undo", ![c].code = code], UNCHANGED wlock PROVE VaultInv'
    BY Zenon, <1>4, <1>6 DEF VW!Code
<1> QED BY <1>3, <1>5, <1>6 DEF VW!Verify

\* What is taken away is the own upload, or what was there before one that was
\* read back: never the last good copy.
LEMMA TakeAwayKeeps ==
    ASSUME VW!VaultAssumption, VaultInv, NEW c \in Client, NEW gone, cl[c].pc \in {"undo", "remove"},
           cl[c].pc = "undo" => gone = {cl[c].new}, cl[c].pc = "remove" => gone = cl[c].seen.att,
           vault' \in {vault, [vault EXCEPT ![VW!It(c)].att = @ \ gone]}, UNCHANGED due
    PROVE  /\ Grows(c) /\ Kept' /\ vault' \in [Item -> VW!ItemState \cup {None}] /\ vault'[VW!It(c)] # None
<1> DEFINE i == VW!It(c)
<1>1. Command(c) /\ Target(c) /\ Uploads(c) /\ VaultTypes /\ Kept
    BY DEF VaultInv
<1>2. i \in Item /\ vault[i] \in VW!ItemState /\ vault[i] # None /\ wlock = c /\ cmd[c].op = "attach"
    BY <1>1 DEF Command, Target, VaultTypes, Critical, Sent, VW!It, VW!Command
<1>3. CASE vault' = vault
    BY <1>1, <1>2, <1>3 DEF Grows, Kept, VW!OldCopyKept, VW!ConfirmedKept, VaultTypes
<1>4. CASE vault' = [vault EXCEPT ![i].att = @ \ gone]
    <2> DEFINE y == [vault[i] EXCEPT !.att = @ \ gone]
    <2>1. y \in VW!ItemState /\ y.att = vault[i].att \ gone /\ y.val = vault[i].val /\ y # None
        BY <1>2 DEF VW!ItemState, VW!VaultAssumption
    <2>2. vault' = [vault EXCEPT ![i] = y]
        BY <1>4
    <2>3. PICK a \in vault[First].att : a.good /\ (i = First => a \notin gone)
        <3>1. CASE cl[c].pc = "undo"
            BY <1>1, <3>1 DEF Uploads, Sent
        <3>2. CASE cl[c].pc = "remove"
            <4>1. cl[c].new \in vault[i].att /\ cl[c].new.good /\ cl[c].new.by = c /\ cl[c].seen \in VW!ItemState
                BY <1>1, <1>2, <3>2 DEF Uploads, Target, Sent
            <4>2. cl[c].new \notin gone
                BY <1>1, <3>2, <4>1 DEF Uploads, VW!VaultAssumption
            <4>3. CASE i = First
                BY <4>1, <4>2, <4>3
            <4>4. CASE i # First
                BY <1>1, <4>4 DEF Kept, VW!OldCopyKept
            <4> QED BY <4>3, <4>4
        <3> QED BY <3>1, <3>2
    <2> HIDE DEF y, i
    <2>4. vault' \in [Item -> VW!ItemState \cup {None}] /\ vault'[i] = y /\ \A j \in Item \ {i} : vault'[j] = vault[j]
        BY <1>1, <1>2, <2>1, <2>2 DEF VaultTypes
    <2>5. First \in Item /\ vault'[First] # None /\ a \in vault'[First].att
        BY <1>1, <2>1, <2>3, <2>4 DEF Kept, VW!VaultAssumption
    <2>6. VW!ConfirmedKept'
        BY <1>1, <2>1, <2>4 DEF Kept, VW!ConfirmedKept
    <2>7. Kept'
        BY <1>1, <2>1, <2>3, <2>4, <2>5, <2>6 DEF Kept, VW!OldCopyKept
    <2>8. Grows(c)
        BY <1>2, <2>1, <2>4 DEF Grows
    <2> QED BY <2>1, <2>4, <2>7, <2>8 DEF i
<1> QED BY <1>3, <1>4

LEMMA UndoKeeps == ASSUME VW!VaultAssumption, VaultInv, NEW c \in Client, VW!Undo(c) PROVE VaultInv'
<1>1. UNCHANGED <<cmd, late, due>> /\ cl[c].pc = "undo" /\ cl[c].code \in VW!Code /\ VW!Exit(c, cl[c].code)
        /\ vault' \in {vault, [vault EXCEPT ![VW!It(c)].att = @ \ {cl[c].new}]}
    BY DEF VW!Undo, VW!At, VaultInv, Command, VW!Code
<1>2. Grows(c) /\ Kept' /\ vault' \in [Item -> VW!ItemState \cup {None}]
    <2> DEFINE gone == {cl[c].new}
    <2>1. /\ vault' \in {vault, [vault EXCEPT ![VW!It(c)].att = @ \ gone]} /\ UNCHANGED due
          /\ cl[c].pc \in {"undo", "remove"} /\ (cl[c].pc = "undo" => gone = {cl[c].new})
          /\ (cl[c].pc = "remove" => gone = cl[c].seen.att)
        BY <1>1
    <2> HIDE DEF gone
    <2> QED BY <2>1, TakeAwayKeeps
<1>3. /\ Command(c)' /\ Target(c)' /\ Uploads(c)' /\ IdsUnique'
      /\ cl' \in [Client -> Process] /\ cmd' \in [Client -> VW!Command \cup {None}]
      /\ wlock' \in Client \cup {None} /\ late' \in Client \cup {None}
      /\ \A b \in Client \ {c} : cl'[b] = cl[b] /\ cmd'[b] = cmd[b] /\ (wlock' = b <=> wlock = b) /\ (late' = b => late = b)
    BY <1>1, ExitOwn
<1>4. VaultTypes'
    BY <1>1, <1>2, <1>3 DEF VaultInv, VaultTypes
<1> QED BY <1>2, <1>3, <1>4, WriteStepKeeps

LEMMA RemoveKeeps == ASSUME VW!VaultAssumption, VaultInv, NEW c \in Client, VW!Remove(c) PROVE VaultInv'
<1>1. UNCHANGED <<cmd, late, due>> /\ cl[c].pc = "remove"
        /\ vault' \in {vault, [vault EXCEPT ![VW!It(c)].att = @ \ cl[c].seen.att]}
    BY DEF VW!Remove, VW!At
<1>2. Grows(c) /\ Kept' /\ vault' \in [Item -> VW!ItemState \cup {None}] /\ vault'[VW!It(c)] # None
    BY <1>1, TakeAwayKeeps
<1>3. CASE VW!Exit(c, 2)
    <2>1. /\ Command(c)' /\ Target(c)' /\ Uploads(c)' /\ IdsUnique'
          /\ cl' \in [Client -> Process] /\ cmd' \in [Client -> VW!Command \cup {None}]
          /\ wlock' \in Client \cup {None} /\ late' \in Client \cup {None}
          /\ \A b \in Client \ {c} : cl'[b] = cl[b] /\ cmd'[b] = cmd[b] /\ (wlock' = b <=> wlock = b) /\ (late' = b => late = b)
        BY <1>1, <1>3, ExitOwn DEF VW!Code
    <2>2. VaultTypes'
        BY <1>1, <1>2, <2>1 DEF VaultInv, VaultTypes
    <2> QED BY <1>2, <2>1, <2>2, WriteStepKeeps
<1>4. CASE VW!Goto(c, "gone") /\ UNCHANGED wlock
    <2>1. Command(c) /\ Target(c) /\ Uploads(c) /\ VaultTypes /\ IdsUnique
        BY DEF VaultInv
    <2>2. cl[c] \in Process /\ late # c
        BY <1>1, <2>1 DEF VaultTypes, Command
    <2>3. /\ cl' \in [Client -> Process] /\ \A b \in Client \ {c} : cl'[b] = cl[b]
          /\ cl'[c].pc = "gone" /\ cl'[c].seen = cl[c].seen /\ cl'[c].new = cl[c].new
        BY Zenon, <1>4, <2>1, <2>2 DEF VaultTypes, Process, Critical, VW!Goto
    <2>4. VaultTypes'
        BY <1>1, <1>2, <1>4, <2>1, <2>3 DEF VaultTypes
    <2>5. Command(c)'
        BY <1>1, <1>4, <2>1, <2>2, <2>3 DEF Command, Critical, Sent
    <2>6. Target(c)'
        BY <1>1, <1>2, <2>1, <2>2, <2>3 DEF Target, Pending, Sent, VW!It
    <2>7. Uploads(c)'
        BY <1>1, <2>1, <2>2, <2>3 DEF Uploads, Pending, Sent
    <2> QED BY <1>1, <1>2, <1>4, <2>1, <2>3, <2>4, <2>5, <2>6, <2>7, WriteStepKeeps DEF IdsUnique
<1> QED BY <1>3, <1>4 DEF VW!Remove

LEMMA EndsKeep ==
    ASSUME VW!VaultAssumption, VaultInv, NEW c \in Client, VW!Gone(c) \/ VW!Child(c) \/ VW!Interrupted(c)
    PROVE  VaultInv'
<1>1. UNCHANGED <<vault, cmd, late, due>> /\ cl[c].pc \notin {"new", "end"}
    BY DEF VW!Gone, VW!Child, VW!Interrupted, VW!At
<1>2. PICK code \in VW!Code : VW!Exit(c, code)
    BY DEF VW!Gone, VW!Child, VW!Interrupted, VW!Code
<1> QED BY <1>1, <1>2, ExitKeeps

LEMMA VaultStepOK == ASSUME VW!VaultAssumption, VaultInv, [VW!VaultNext]_(VW!vaultVars) PROVE VaultInv'
<1>1. ASSUME UNCHANGED <<vault, wlock, cmd, cl, late, due>> PROVE VaultInv'
    BY <1>1 DEF VaultInv, VaultTypes, Kept, VW!OldCopyKept, VW!ConfirmedKept, IdsUnique, Command, Target, Uploads,
                Pending, NoneBy, VW!It
<1>2. CASE UNCHANGED VW!vaultVars
    BY <1>1, <1>2 DEF VW!vaultVars
<1>3. ASSUME NEW i \in Item, VW!CacheFollows(i) PROVE VaultInv'
    BY <1>1, <1>3 DEF VW!CacheFollows
<1>4. CASE VW!VaultNext
    BY <1>3, <1>4, StartKeeps, AcquireKeeps, SelectKeeps, SendKeeps, LandKeeps, ConfirmKeeps, VerifyKeeps, UndoKeeps,
       RemoveKeeps, EndsKeep DEF VW!VaultNext, VW!Work
<1> QED BY <1>2, <1>4

LEMMA VaultTells == ASSUME VW!VaultAssumption, VaultInv PROVE VW!VaultWritesKept
<1>1. wlock # None => cl[wlock].pc \notin {"new", "lock", "end"}
    BY DEF VaultInv, VaultTypes, Command, Critical
<1>2. VW!VaultTypeOK
    BY <1>1 DEF VaultInv, VaultTypes, Command, VW!VaultTypeOK, VW!At
<1> QED BY <1>2 DEF VaultInv, Kept, VW!VaultWritesKept

\* For any clients, items and fields: through damaged uploads, lost and late requests,
\* signals and a cache that lags, an item that had an intact attachment has one, and a
\* confirmed value stays until its field is written again or a late request lands.
THEOREM WritesAreKept == ASSUME VW!VaultAssumption PROVE VW!VaultSpec => []VW!VaultWritesKept
BY VaultTells, VaultInitOK, VaultStepOK, PTL DEF VW!VaultSpec

-----------------------------------------------------------------------------
(* SeadexImport: while a run goes on no tag changes but that of its own    *)
(* torrent, at its end; so a torrent the list showed open is still open    *)
(* when another one is tagged done because of it.  Sonarr works only while *)
(* a run waits for it, and on files whose episodes it does not have.       *)

Known == [st : {"absent", "loading", "finished", "removed"}, tag : {"open", "done", "manual"}]

ImportTypes ==
    /\ tor \in [Torrent -> Known] /\ listed \in [Torrent -> Known]
    /\ have \in [SI!Episode -> 0 .. 2] /\ cutOff \in BOOLEAN

ListStands ==
    ipc # "off" => \A t \in Torrent : tor[t].tag = listed[t].tag /\ (listed[t].st # "absent" => tor[t].st # "absent")

Judged ==
    ipc = "tag" =>
        /\ verdict \in {"done", "manual"}
        /\ verdict = "done" /\ Series[cur] \in DOMAIN Wanted =>
              SI!SeriesMissing(Series[cur]) = {} \/ SI!OthersOpen(cur) # {}

\* a torrent of series s that its gaps are still waiting for, or reported by
Open(s) == \E u \in Torrent :
    Series[u] = s /\ tor[u].st # "absent" /\ (tor[u].tag \in {"open", "manual"} \/ tor[u].st = "removed")

GapsOpen ==
    \A s \in DOMAIN Wanted :
        SI!SeriesMissing(s) # {} /\ (\E t \in Torrent : Series[t] = s /\ tor[t].tag = "done") => Open(s)

\* no file of S has an episode that was imported, and no two have one in common
New(S) ==
    \A f \in S : /\ \A e \in f.eps \cap SI!Episode : have[e] = 0
                 /\ \A g \in S \ {f} : f.eps \cap g.eps = {}

Once ==
    ~cutOff =>
        /\ \A e \in SI!Episode : have[e] <= 1
        /\ command.status = "queued" => ipc \in {"wait", "judge", "tag"} /\ New(command.files)
        /\ ipc = "submit" => New(picked)

ImportInv == ImportTypes /\ ListStands /\ Judged /\ GapsOpen /\ Once

LEMMA ImportInitOK == ASSUME SI!ImportAssumption, SI!ImportInit PROVE ImportInv
<1> DEFINE none == [st |-> "absent", tag |-> "open"]
<1>1. /\ none \in Known /\ none.tag = "open"
      /\ tor = [t \in Torrent |-> none] /\ listed = [t \in Torrent |-> none]
      /\ have = [e \in SI!Episode |-> 0] /\ ipc = "off" /\ command.status # "queued" /\ cutOff = FALSE
    BY DEF SI!ImportInit, Known, SI!NoCommand, SI!ImportAssumption
<1> HIDE DEF none
<1>2. ImportTypes
    <2>1. 0 \in 0 .. 2
        OBVIOUS
    <2> QED BY Zenon, <1>1, <2>1 DEF ImportTypes
<1>3. GapsOpen
    BY <1>1 DEF GapsOpen
<1>4. Once
    BY <1>1 DEF Once
<1> QED BY <1>1, <1>2, <1>3, <1>4 DEF ImportInv, ListStands, Judged

\* A run that is over: what Sonarr still works on is cut off.
LEMMA OffKeeps ==
    ASSUME ImportInv, SI!Off, UNCHANGED <<have, command>>, tor' \in [Torrent -> Known], GapsOpen'
    PROVE  ImportInv'
<1>1. ipc' = "off" /\ cutOff' = (cutOff \/ command.status = "queued")
        /\ listed' = [t \in Torrent |-> [st |-> "absent", tag |-> "open"]]
    BY DEF SI!Off
<1>2. ImportTypes'
    BY <1>1 DEF ImportInv, ImportTypes, Known
<1>3. Once'
    BY Zenon, <1>1 DEF ImportInv, ImportTypes, Once
<1> QED BY <1>1, <1>2, <1>3 DEF ImportInv, ListStands, Judged

\* A step of the run that changes no torrent and nothing in Sonarr.
LEMMA RunKeeps ==
    ASSUME ImportInv, UNCHANGED <<tor, have, cutOff>>, listed' \in [Torrent -> Known],
           ListStands', Judged', Once'
    PROVE  ImportInv'
<1>1. GapsOpen'
    BY DEF ImportInv, GapsOpen, Open, SI!SeriesMissing
<1> QED BY <1>1 DEF ImportInv, ImportTypes

LEMMA GapsSame == ASSUME ImportInv, UNCHANGED <<tor, have>> PROVE GapsOpen'
BY DEF ImportInv, GapsOpen, Open, SI!SeriesMissing

LEMMA RunStepsKeep ==
    ASSUME ImportInv, SI!List \/ SI!Take \/ SI!Select \/ SI!Submit \/ SI!Wait \/ SI!Judge
    PROVE  ImportInv'
<1>1. CASE SI!List
    <2>1. listed' = tor /\ ipc' = "take" /\ ipc = "off" /\ UNCHANGED <<tor, have, command, cutOff>>
        BY <1>1 DEF SI!List
    <2>2. Once'
        BY <2>1 DEF ImportInv, Once
    <2> QED BY <2>1, <2>2, RunKeeps DEF ImportInv, ImportTypes, ListStands, Judged
<1>2. CASE SI!Take
    <2>1. ipc = "take" /\ UNCHANGED <<tor, have, command>>
        BY <1>2 DEF SI!Take
    <2>2. CASE SI!Off
        BY <2>1, <2>2, GapsSame, OffKeeps DEF ImportInv, ImportTypes
    <2>3. CASE UNCHANGED <<listed, picked, cutOff>> /\ (ipc' = "select" \/ (ipc' = "tag" /\ verdict' = "manual"))
        <3>1. Once'
            BY <2>1, <2>3 DEF ImportInv, Once
        <3>2. Judged' /\ ListStands'
            BY <2>1, <2>3 DEF ImportInv, Judged, ListStands
        <3> QED BY <2>1, <2>3, <3>1, <3>2, RunKeeps DEF ImportInv, ImportTypes
    <2> QED BY <1>2, <2>2, <2>3 DEF SI!Take
<1>3. CASE SI!Select
    <2>1. ipc = "select" /\ UNCHANGED <<tor, have, listed, command, cutOff>> /\ ipc' \in {"judge", "submit"}
            /\ picked' = SI!Selected({f \in Files[cur] : ~SI!Existing(f)})
        BY <1>3 DEF SI!Select
    <2>2. New(picked)'
        <3>1. \A e \in SI!Episode : have[e] \in 0 .. 2
            BY DEF ImportInv, ImportTypes
        <3>2. ASSUME NEW f \in picked'
              PROVE  (\A e \in f.eps \cap SI!Episode : have[e] = 0) /\ \A g \in picked' \ {f} : f.eps \cap g.eps = {}
            BY <2>1, <3>1, <3>2 DEF SI!Selected, SI!Rejected
        <3> QED BY <2>1, <3>2 DEF New
    <2>3. Once'
        BY <2>1, <2>2 DEF ImportInv, Once
    <2> QED BY <2>1, <2>3, RunKeeps DEF ImportInv, ImportTypes, ListStands, Judged
<1>4. CASE SI!Submit
    <2>1. ipc = "submit" /\ ipc' = "wait" /\ UNCHANGED <<tor, have, listed, cutOff>>
            /\ command' = [status |-> "queued", files |-> picked]
        BY <1>4 DEF SI!Submit
    <2>2. New(picked) => New(command.files)'
        BY <2>1 DEF New
    <2>3. Once'
        BY <2>1, <2>2 DEF ImportInv, Once
    <2> QED BY <2>1, <2>3, RunKeeps DEF ImportInv, ImportTypes, ListStands, Judged
<1>5. CASE SI!Wait
    <2>1. ipc = "wait" /\ ipc' = "judge" /\ UNCHANGED <<tor, have, listed, command, cutOff>>
        BY <1>5 DEF SI!Wait
    <2>2. Once'
        BY <2>1 DEF ImportInv, Once, New
    <2> QED BY <2>1, <2>2, RunKeeps DEF ImportInv, ImportTypes, ListStands, Judged
<1>6. CASE SI!Judge
    <2>1. ipc = "judge" /\ ipc' = "tag" /\ UNCHANGED <<tor, have, listed, cur, command, cutOff>>
            /\ verdict' = SI!FinalTag(verdict, SI!SeriesMissing(Series[cur]), SI!OthersOpen(cur))
        BY <1>6 DEF SI!Judge
    <2>2. Once'
        BY <2>1 DEF ImportInv, Once, New
    <2>3. SI!SeriesMissing(Series[cur])' = SI!SeriesMissing(Series[cur]) /\ SI!OthersOpen(cur)' = SI!OthersOpen(cur)
        BY <2>1 DEF SI!SeriesMissing, SI!OthersOpen, SI!IsOpen
    <2>4. Judged'
        BY <2>1, <2>3 DEF Judged, SI!FinalTag
    <2> QED BY <2>1, <2>2, <2>4, RunKeeps DEF ImportInv, ImportTypes, ListStands
<1> QED BY <1>1, <1>2, <1>3, <1>4, <1>5, <1>6

LEMMA EndRunKeeps == ASSUME ImportInv, SI!Gone \/ SI!Dies PROVE ImportInv'
<1>1. SI!Off /\ UNCHANGED <<tor, have, command>>
    BY DEF SI!Gone, SI!Dies
<1> QED BY <1>1, GapsSame, OffKeeps DEF ImportInv, ImportTypes

\* Tagged done although there are gaps: the torrent it leaves them to is open still.
LEMMA TagKeeps == ASSUME ImportInv, SI!TagIt PROVE ImportInv'
<1>1. ipc = "tag" /\ SI!Off /\ UNCHANGED <<have, command>> /\ verdict \in {"done", "manual"}
    BY DEF SI!TagIt, ImportInv, Judged
<1>2. CASE UNCHANGED tor
    BY <1>1, <1>2, GapsSame, OffKeeps DEF ImportInv, ImportTypes
<1>3. CASE tor' = [tor EXCEPT ![cur].tag = verdict]
    <2>1. \A t \in Torrent : /\ t = cur => tor'[t].tag = verdict /\ tor'[t].st = tor[t].st
                             /\ t # cur => tor'[t] = tor[t]
        BY <1>3 DEF ImportInv, ImportTypes, Known
    <2>2. tor' \in [Torrent -> Known]
        BY Zenon, <1>1, <1>3 DEF ImportInv, ImportTypes, Known
    <2>3. ASSUME NEW s \in DOMAIN Wanted, SI!SeriesMissing(s) # {}, NEW t \in Torrent, Series[t] = s, tor'[t].tag = "done"
          PROVE  Open(s)'
        <3>1. CASE cur \in Torrent /\ Series[cur] = s /\ verdict = "done"
            <4>1. PICK u \in SI!OthersOpen(cur) : TRUE
                BY <1>1, <2>3, <3>1 DEF ImportInv, Judged
            <4>2. u \in Torrent /\ u # cur /\ Series[u] = s /\ tor[u].tag = "open" /\ tor[u].st # "absent"
                BY <1>1, <3>1, <4>1 DEF SI!OthersOpen, SI!IsOpen, ImportInv, ListStands
            <4> QED BY <2>1, <4>2 DEF Open
        <3>2. CASE ~(cur \in Torrent /\ Series[cur] = s /\ verdict = "done")
            <4>1. tor[t].tag = "done"
                BY <1>1, <2>1, <2>3, <3>2
            <4>2. PICK u \in Torrent :
                    Series[u] = s /\ tor[u].st # "absent" /\ (tor[u].tag \in {"open", "manual"} \/ tor[u].st = "removed")
                BY <2>3, <4>1 DEF ImportInv, GapsOpen, Open
            <4> QED BY <1>1, <2>1, <3>2, <4>2 DEF Open
        <3> QED BY <3>1, <3>2
    <2>4. GapsOpen'
        BY <1>1, <2>3 DEF GapsOpen, SI!SeriesMissing
    <2> QED BY <1>1, <2>2, <2>4, OffKeeps
<1> QED BY <1>2, <1>3 DEF SI!TagIt

\* Sonarr: an episode it imports is one it did not have.
LEMMA ImportFileKeeps == ASSUME ImportInv, SI!ImportFile PROVE ImportInv'
<1>1. UNCHANGED <<tor, ipc, listed, cur, picked, verdict, cutOff>> /\ command.status = "queued" /\ ImportTypes
    BY DEF SI!ImportFile, ImportInv
<1>2. CASE command' = [status |-> "failed", files |-> {}] /\ UNCHANGED have
    <2>1. Once' /\ Judged' /\ ListStands'
        BY <1>1, <1>2 DEF ImportInv, Once, New, Judged, ListStands, SI!SeriesMissing, SI!OthersOpen, SI!IsOpen
    <2> QED BY <1>1, <1>2, <2>1, RunKeeps DEF ImportTypes
<1>3. ASSUME NEW f \in command.files,
             have' = [e \in SI!Episode |-> IF e \in f.eps THEN SI!Cap(have[e]) ELSE have[e]],
             command' = [status |-> IF command.files = {f} THEN "completed" ELSE "queued", files |-> command.files \ {f}]
      PROVE  ImportInv'
    <2>1. \A e \in SI!Episode : have[e] \in 0 .. 2 /\ SI!Cap(have[e]) \in 1 .. 2 /\ (have[e] = 0 => SI!Cap(have[e]) = 1)
        BY <1>1 DEF ImportTypes, SI!Cap
    <2>2. have' \in [SI!Episode -> 0 .. 2] /\ \A e \in SI!Episode : have'[e] = 0 => have[e] = 0
        BY <1>3, <2>1
    <2>3. ASSUME NEW s \in DOMAIN Wanted PROVE SI!SeriesMissing(s)' \subseteq SI!SeriesMissing(s)
        BY <2>2 DEF SI!SeriesMissing, SI!Episode
    <2>4. Judged'
        BY <1>1, <2>3 DEF ImportInv, Judged, SI!OthersOpen, SI!IsOpen
    <2>5. GapsOpen'
        BY <1>1, <2>3 DEF ImportInv, GapsOpen, Open
    <2>6. Once'
        <3> SUFFICES ASSUME ~cutOff PROVE /\ \A e \in SI!Episode : have'[e] <= 1
                                          /\ ipc \in {"wait", "judge", "tag"} /\ New(command.files)'
            BY <1>1 DEF Once
        <3>1. ipc \in {"wait", "judge", "tag"} /\ New(command.files) /\ \A e \in SI!Episode : have[e] <= 1
            BY <1>1 DEF ImportInv, Once
        <3>2. ASSUME NEW e \in SI!Episode PROVE have'[e] <= 1
            <4>1. e \in f.eps => have[e] = 0
                BY <3>1 DEF New
            <4> QED BY <1>3, <2>1, <3>1, <4>1
        <3>3. ASSUME NEW g \in command.files \ {f}
              PROVE  /\ \A e \in g.eps \cap SI!Episode : have'[e] = 0
                     /\ \A h \in (command.files \ {f}) \ {g} : g.eps \cap h.eps = {}
            <4>1. g.eps \cap f.eps = {} /\ \A e \in g.eps \cap SI!Episode : have[e] = 0
                BY <3>1, <3>3 DEF New
            <4> QED BY <1>3, <3>1, <3>3, <4>1 DEF New
        <3>4. command'.files = command.files \ {f}
            BY <1>3
        <3> QED BY <3>1, <3>2, <3>3, <3>4 DEF New
    <2> QED BY <1>1, <2>2, <2>4, <2>5, <2>6 DEF ImportInv, ImportTypes, ListStands
<1> QED BY <1>2, <1>3 DEF SI!ImportFile

\* Torrents come, finish and go; their tags are not touched.
LEMMA TorrentKeeps ==
    ASSUME ImportInv, NEW t \in Torrent, SI!Add(t) \/ SI!Finish(t) \/ SI!Remove(t)
    PROVE  ImportInv'
<1>1. UNCHANGED <<have, ipc, listed, cur, picked, command, verdict, cutOff>> /\ ImportTypes
    BY DEF SI!Add, SI!Finish, SI!Remove, ImportInv
<1>2. PICK st \in {"loading", "finished", "removed"} :
        tor' = [tor EXCEPT ![t].st = st] /\ (tor[t].st = "removed" => st = "removed")
    BY DEF SI!Add, SI!Finish, SI!Remove
<1>3. /\ tor' \in [Torrent -> Known] /\ \A u \in Torrent : tor'[u].tag = tor[u].tag
      /\ \A u \in Torrent : tor[u].st # "absent" => tor'[u].st # "absent"
      /\ \A u \in Torrent : tor[u].st = "removed" => tor'[u].st = "removed"
    BY <1>1, <1>2 DEF ImportTypes, Known
<1>4. GapsOpen'
    BY <1>1, <1>3 DEF ImportInv, GapsOpen, Open, SI!SeriesMissing
<1>5. ListStands'
    BY <1>1, <1>3 DEF ImportInv, ListStands
<1>6. Judged' /\ Once'
    BY <1>1 DEF ImportInv, Judged, Once, New, SI!SeriesMissing, SI!OthersOpen, SI!IsOpen
<1> QED BY <1>1, <1>3, <1>4, <1>5, <1>6 DEF ImportInv, ImportTypes

LEMMA ImportStepOK == ASSUME ImportInv, [SI!ImportNext]_(SI!importVars) PROVE ImportInv'
<1>1. CASE UNCHANGED SI!importVars
    BY <1>1 DEF SI!importVars, ImportInv, ImportTypes, ListStands, Judged, GapsOpen, Open, Once, New,
                SI!SeriesMissing, SI!OthersOpen, SI!IsOpen
<1>2. CASE SI!ImportNext
    BY <1>2, RunStepsKeep, EndRunKeeps, TagKeeps, ImportFileKeeps, TorrentKeeps
       DEF SI!ImportNext, SI!RunStep, SI!World
<1> QED BY <1>1, <1>2

LEMMA ImportTells == ASSUME SI!ImportAssumption, ImportInv PROVE SI!ImportSound
<1>1. SI!ImportedOnce
    BY DEF ImportInv, Once, SI!ImportedOnce
<1>2. ASSUME NEW s \in DOMAIN Wanted,
             LET mine == {t \in Torrent : Series[t] = s /\ tor[t].st # "absent"} IN
             mine # {} /\ (\A t \in mine : tor[t].st = "finished" /\ tor[t].tag # "open") /\ SI!SeriesMissing(s) # {}
      PROVE  \E t \in Torrent : Series[t] = s /\ tor[t].st # "absent" /\ tor[t].tag = "manual"
    <2>1. PICK t \in Torrent : Series[t] = s /\ tor[t].st # "absent" /\ tor[t].tag \in {"done", "manual"}
        BY <1>2 DEF ImportInv, ImportTypes, Known
    <2>2. CASE tor[t].tag = "done"
        BY <1>2, <2>1, <2>2 DEF ImportInv, GapsOpen, Open
    <2> QED BY <2>1, <2>2
<1>3. SI!GapsReported
    BY <1>2 DEF SI!GapsReported
<1> QED BY <1>1, <1>3 DEF SI!ImportSound

\* For any torrents, files and series: gaps that are left are reported by a torrent tagged
\* manual, unless one was deleted, and no episode is imported twice but when a run was
\* over while Sonarr still imported.
THEOREM ImportsAreSound == ASSUME SI!ImportAssumption PROVE SI!ImportSpec => []SI!ImportSound
BY ImportTells, ImportInitOK, ImportStepOK, PTL DEF SI!ImportSpec
-----------------------------------------------------------------------------
(* KeeperSidecar *)

KeeperCall ==
    [pc : {"new", "sent", "taken", "end"}, writes : BOOLEAN, applied : BOOLEAN,
     exit : {0, 1, 2, 130, None}, gone : BOOLEAN]

KeeperTypes ==
    /\ kpc \in {"down", "loop", "login", "save", "wait", "sync", "write", "confirm"}
    /\ session \in {"none", "live", "dead"} /\ stopping \in BOOLEAN
    /\ llock \in {None, "serve", "shell"}
    /\ DOMAIN kcode = {"config", "keeper"} /\ kcode = [config |-> kcode.config, keeper |-> kcode.keeper]
    /\ job \in Caller \cup {None}
    /\ call \in [Caller -> KeeperCall]
    /\ cut \in BOOLEAN /\ replayed \in BOOLEAN

\* The code on disk is the one Keeper expects, or none was ever saved, unless a
\* login was cut off; who is logging in holds the lock and read that code
CodeInv ==
    /\ KS!CloneCodeOnce
    /\ kpc \in {"login", "save"} <=> llock = "serve"
    /\ llock # "shell" /\ kpc # "save" /\ ~cut => kcode.config = 0 \/ kcode.config = kcode.keeper
    /\ kpc = "login" => shown = kcode.config
    /\ kpc = "save" => kcode.keeper = shown + 1

\* The call c as far as the sidecar has got with it
CallTrue(c) ==
    /\ call[c].pc = "taken" <=> job = c
    /\ call[c].pc \in {"new", "sent"} => ~call[c].applied
    /\ call[c].pc = "new" => ~call[c].gone
    /\ call[c].pc = "taken" => (call[c].applied <=> kpc = "confirm")
    /\ call[c].pc = "taken" /\ kpc \in {"write", "confirm"} => call[c].writes
    /\ call[c].gone => call[c].exit \in {1, 130}
    /\ call[c].pc = "end" /\ call[c].exit = 0 /\ call[c].writes => call[c].applied
    /\ call[c].pc = "end" /\ call[c].exit = 1 /\ ~call[c].gone => ~call[c].applied

KeeperInv ==
    /\ KeeperTypes /\ CodeInv
    /\ kpc \in {"sync", "write", "confirm"} <=> job # None
    /\ \A c \in Caller : CallTrue(c)

\* Initially: nothing is asked, and no code was ever saved.
LEMMA KeeperInitOK == ASSUME KS!KeeperAssumption, KS!KeeperInit PROVE KeeperInv
<1>1. KeeperTypes
    BY Zenon DEF KS!KeeperInit, KeeperTypes, KeeperCall
<1>2. CodeInv
    BY DEF KS!KeeperInit, CodeInv, KS!CloneCodeOnce, KS!KeeperAssumption
<1>3. ASSUME NEW c \in Caller PROVE CallTrue(c)
    BY DEF KS!KeeperInit, CallTrue, KS!KeeperAssumption
<1> QED BY <1>1, <1>2, <1>3 DEF KS!KeeperInit, KeeperInv

\* A step that touches neither the requests nor the sidecar's place among them.
LEMMA LoginStep ==
    ASSUME KeeperInv, KeeperTypes', CodeInv', UNCHANGED <<call, job>>,
           kpc \notin {"sync", "write", "confirm"}, kpc' \notin {"sync", "write", "confirm"}
    PROVE  KeeperInv'
<1>1. job = None /\ job' = None BY DEF KeeperInv
<1>2. ASSUME NEW c \in Caller PROVE CallTrue(c)'
    BY <1>1 DEF KeeperInv, CallTrue
<1> QED BY <1>1, <1>2 DEF KeeperInv

LEMMA BeginLoginKeeps == ASSUME KS!KeeperAssumption, KeeperInv, KS!BeginLogin PROVE KeeperInv'
<1>0. /\ kpc = "loop" /\ llock = None /\ kpc' = "login" /\ llock' = "serve" /\ shown' = kcode.config
      /\ session' = "none" /\ UNCHANGED <<stopping, kcode, job, call, stops, cut, replayed>>
    BY DEF KS!BeginLogin, KS!Lock, KS!Serving
<1>1. KeeperTypes' BY <1>0 DEF KeeperInv, KeeperTypes
<1>2. CodeInv' BY <1>0 DEF KeeperInv, CodeInv, KS!CloneCodeOnce, KS!KeeperAssumption
<1> QED BY <1>0, <1>1, <1>2, LoginStep

LEMMA KeeperLoginKeeps == ASSUME KS!KeeperAssumption, KeeperInv, KS!Login PROVE KeeperInv'
<1>0. kpc = "login" /\ llock = "serve" /\ shown = kcode.config /\ UNCHANGED <<session, stopping, shown, job, call, stops, cut>>
    BY DEF KS!Login, KeeperInv, CodeInv
<1>1. CASE shown = kcode.keeper /\ kcode' = [kcode EXCEPT !.keeper = @ + 1] /\ kpc' = "save" /\ UNCHANGED <<llock, replayed>>
    <2>1. kcode'.keeper = shown + 1 /\ kcode'.config = kcode.config /\ kcode' = [config |-> kcode.config, keeper |-> shown + 1]
        BY <1>1 DEF KeeperInv, KeeperTypes
    <2>2. KeeperTypes' BY <1>0, <1>1, <2>1 DEF KeeperInv, KeeperTypes
    <2>3. CodeInv' BY <1>0, <1>1, <2>1 DEF KeeperInv, CodeInv, KS!CloneCodeOnce
    <2> QED BY <1>0, <1>1, <2>2, <2>3, LoginStep
<1>2. CASE shown # kcode.keeper /\ replayed' = (replayed \/ shown # 0) /\ llock' = None /\ kpc' = "wait" /\ UNCHANGED kcode
    <2>1. KeeperTypes' BY <1>0, <1>2 DEF KeeperInv, KeeperTypes
    <2>2. replayed' => cut BY <1>0, <1>2 DEF KeeperInv, KeeperTypes, CodeInv, KS!CloneCodeOnce
    <2>3. CodeInv' BY <1>0, <1>2, <2>2 DEF KeeperInv, CodeInv, KS!CloneCodeOnce, KS!KeeperAssumption
    <2> QED BY <1>0, <1>2, <2>1, <2>3, LoginStep
<1>3. CASE llock' = None /\ kpc' = "wait" /\ UNCHANGED <<kcode, replayed>>
    <2>1. KeeperTypes' BY <1>0, <1>3 DEF KeeperInv, KeeperTypes
    <2>2. CodeInv' BY <1>0, <1>3 DEF KeeperInv, CodeInv, KS!CloneCodeOnce, KS!KeeperAssumption
    <2> QED BY <1>0, <1>3, <2>1, <2>2, LoginStep
<1> QED BY <1>1, <1>2, <1>3, Zenon DEF KS!Login

\* The code is saved: disk and Keeper agree again.
LEMMA SaveKeeps == ASSUME KS!KeeperAssumption, KeeperInv, KS!Save PROVE KeeperInv'
<1>0. /\ kpc = "save" /\ kpc' = "wait" /\ llock' = None /\ session' \in {"none", "live"}
      /\ UNCHANGED <<stopping, shown, job, call, stops, cut, replayed>>
    BY DEF KS!Save
<1>1. kcode'.config = shown + 1 /\ kcode'.keeper = shown + 1 /\ kcode' = [config |-> shown + 1, keeper |-> shown + 1]
    BY <1>0 DEF KS!Save, KeeperInv, KeeperTypes, CodeInv
<1>2. KeeperTypes' BY <1>0, <1>1 DEF KeeperInv, KeeperTypes
<1>3. CodeInv' BY <1>0, <1>1 DEF KeeperInv, CodeInv, KS!CloneCodeOnce, KS!KeeperAssumption
<1> QED BY <1>0, <1>2, <1>3, LoginStep

\* The owner's shell holds the lock from before its login until the code is saved.
LEMMA ShellKeeps == ASSUME KS!KeeperAssumption, KeeperInv, KS!Shell PROVE KeeperInv'
<1>0. /\ llock = None /\ llock' = "shell"
      /\ UNCHANGED <<kpc, session, stopping, shown, job, call, stops, cut, replayed>>
    BY DEF KS!Shell
<1>1. kcode'.config = kcode.config /\ kcode' = [config |-> kcode'.config, keeper |-> kcode'.keeper]
    BY DEF KS!Shell, KeeperInv, KeeperTypes
<1>2. KeeperTypes' BY <1>0, <1>1 DEF KeeperInv, KeeperTypes
<1>3. CodeInv' BY <1>0, <1>1 DEF KeeperInv, CodeInv, KS!CloneCodeOnce, KS!KeeperAssumption
<1>4. ASSUME NEW c \in Caller PROVE CallTrue(c)' BY <1>0 DEF KeeperInv, CallTrue
<1> QED BY <1>0, <1>2, <1>3, <1>4 DEF KeeperInv

LEMMA ShellQuitKeeps == ASSUME KS!KeeperAssumption, KeeperInv, KS!ShellQuit PROVE KeeperInv'
<1>0. /\ llock = "shell" /\ llock' = None /\ cut' = FALSE /\ replayed' = FALSE
      /\ UNCHANGED <<kpc, session, stopping, shown, job, call, stops>>
    BY DEF KS!ShellQuit
<1>1. kcode'.config = kcode.keeper /\ kcode'.keeper = kcode.keeper /\ kcode' = [config |-> kcode'.config, keeper |-> kcode'.keeper]
    BY DEF KS!ShellQuit, KeeperInv, KeeperTypes
<1>2. KeeperTypes' BY Zenon, <1>0, <1>1 DEF KeeperInv, KeeperTypes
<1>3. CodeInv' BY <1>0, <1>1 DEF KeeperInv, CodeInv, KS!CloneCodeOnce, KS!KeeperAssumption
<1>4. ASSUME NEW c \in Caller PROVE CallTrue(c)' BY <1>0 DEF KeeperInv, CallTrue
<1> QED BY <1>0, <1>2, <1>3, <1>4 DEF KeeperInv

\* A step of the requests, with the login's part left alone.
LEMMA RequestStep ==
    ASSUME KeeperInv, UNCHANGED <<llock, kcode, shown, cut, replayed>>,
           kpc \notin {"login", "save"}, kpc' \in {"down", "loop", "wait", "sync", "write", "confirm"},
           session' \in {"none", "live", "dead"}, stopping' \in BOOLEAN,
           job' \in Caller \cup {None}, call' \in [Caller -> KeeperCall],
           kpc' \in {"sync", "write", "confirm"} <=> job' # None,
           \A c \in Caller : CallTrue(c)'
    PROVE  KeeperInv'
<1>1. KeeperTypes' BY DEF KeeperInv, KeeperTypes
<1>2. CodeInv' BY DEF KeeperInv, CodeInv, KS!CloneCodeOnce
<1> QED BY <1>1, <1>2 DEF KeeperInv

\* A call that nobody has taken, and what a caller does on its own.
LEMMA CallStep ==
    ASSUME KeeperInv, UNCHANGED <<kpc, session, stopping, llock, kcode, shown, cut, replayed, job, stops>>,
           NEW c \in Caller, NEW r \in KeeperCall, call' = [call EXCEPT ![c] = r], CallTrue(c)'
    PROVE  KeeperInv'
<1>1. KeeperTypes' BY DEF KeeperInv, KeeperTypes
<1>2. CodeInv' BY DEF KeeperInv, CodeInv, KS!CloneCodeOnce
<1>3. ASSUME NEW d \in Caller, d # c PROVE CallTrue(d)'
    <2>1. call'[d] = call[d] /\ CallTrue(d) BY <1>3 DEF KeeperInv, KeeperTypes
    <2> QED BY <2>1 DEF CallTrue
<1> QED BY <1>1, <1>2, <1>3 DEF KeeperInv

LEMMA CallFacts ==
    ASSUME KeeperInv, NEW c \in Caller
    PROVE  call[c] \in KeeperCall /\ CallTrue(c)
    BY DEF KeeperInv, KeeperTypes

LEMMA AskKeeps == ASSUME KS!KeeperAssumption, KeeperInv, NEW c \in Caller, KS!Ask(c) PROVE KeeperInv'
<1>1. PICK w \in BOOLEAN :
          call' = [call EXCEPT ![c].writes = w, ![c].pc = IF kpc = "down" THEN "end" ELSE "sent",
                               ![c].exit = IF kpc = "down" THEN 1 ELSE None]
    BY Zenon DEF KS!Ask
<1> DEFINE r == [call[c] EXCEPT !.writes = w, !.pc = IF kpc = "down" THEN "end" ELSE "sent",
                                !.exit = IF kpc = "down" THEN 1 ELSE None]
<1>2. call' = [call EXCEPT ![c] = r] BY Zenon, <1>1 DEF KeeperInv, KeeperTypes
<1>3. call[c].pc = "new" /\ call[c] \in KeeperCall /\ CallTrue(c) BY CallFacts DEF KS!Ask
<1>4. /\ r \in KeeperCall /\ r.pc = (IF kpc = "down" THEN "end" ELSE "sent") /\ r.applied = call[c].applied
      /\ r.exit = (IF kpc = "down" THEN 1 ELSE None) /\ r.gone = call[c].gone
    BY Zenon, <1>3 DEF KeeperCall
<1> HIDE DEF r
<1>5. call'[c] = r BY <1>2 DEF KeeperInv, KeeperTypes
<1>6. UNCHANGED <<kpc, session, stopping, llock, kcode, shown, cut, replayed, job, stops>> BY DEF KS!Ask, KS!logins
<1>7. CallTrue(c)' BY <1>3, <1>4, <1>5, <1>6 DEF CallTrue, KS!KeeperAssumption
<1> QED BY Zenon, <1>2, <1>4, <1>6, <1>7, CallStep

LEMMA CallerGivesUpKeeps == ASSUME KS!KeeperAssumption, KeeperInv, NEW c \in Caller, KS!GiveUp(c) PROVE KeeperInv'
<1>1. PICK e \in {1, 130} : call' = [call EXCEPT ![c].gone = TRUE, ![c].exit = e]
    BY Zenon DEF KS!GiveUp
<1> DEFINE r == [call[c] EXCEPT !.gone = TRUE, !.exit = e]
<1>2. call' = [call EXCEPT ![c] = r] BY Zenon, <1>1, CallFacts DEF KeeperInv, KeeperTypes, KeeperCall
<1>3. call[c].pc \in {"sent", "taken"} /\ call[c] \in KeeperCall /\ CallTrue(c) BY CallFacts DEF KS!GiveUp
<1>4. /\ r \in KeeperCall /\ r.pc = call[c].pc /\ r.applied = call[c].applied /\ r.writes = call[c].writes
      /\ r.exit = e /\ r.gone = TRUE
    BY Zenon, <1>3 DEF KeeperCall
<1> HIDE DEF r
<1>5. call'[c] = r BY <1>2 DEF KeeperInv, KeeperTypes
<1>6. UNCHANGED <<kpc, session, stopping, llock, kcode, shown, cut, replayed, job, stops>> BY DEF KS!GiveUp, KS!logins
<1>7. CallTrue(c)' BY <1>3, <1>4, <1>5, <1>6 DEF CallTrue
<1> QED BY Zenon, <1>2, <1>4, <1>6, <1>7, CallStep

LEMMA RefuseKeeps == ASSUME KS!KeeperAssumption, KeeperInv, NEW c \in Caller, KS!Refuse(c) PROVE KeeperInv'
<1> DEFINE r == [call[c] EXCEPT !.pc = "end", !.exit = IF call[c].gone THEN @ ELSE 1]
<1>2. call' = [call EXCEPT ![c] = r] BY Zenon DEF KS!Refuse, KeeperInv, KeeperTypes
<1>3. call[c].pc = "sent" /\ call[c] \in KeeperCall /\ CallTrue(c) BY CallFacts DEF KS!Refuse
<1>4. /\ r \in KeeperCall /\ r.pc = "end" /\ r.applied = call[c].applied
      /\ r.exit = (IF call[c].gone THEN call[c].exit ELSE 1) /\ r.gone = call[c].gone
    BY Zenon, <1>3 DEF KeeperCall
<1> HIDE DEF r
<1>5. call'[c] = r BY <1>2 DEF KeeperInv, KeeperTypes
<1>6. UNCHANGED <<kpc, session, stopping, llock, kcode, shown, cut, replayed, job, stops>> BY DEF KS!Refuse, KS!logins
<1>7. CallTrue(c)' BY <1>3, <1>4, <1>5, <1>6 DEF CallTrue
<1> QED BY Zenon, <1>2, <1>4, <1>6, <1>7, CallStep

\* server.handle_request(): the sidecar leaves, takes a request, refuses one, or
\* finds none.
LEMMA TakeKeeps == ASSUME KS!KeeperAssumption, KeeperInv, KS!Take PROVE KeeperInv'
<1>0. /\ kpc \in {"loop", "wait"} /\ job = None /\ session' \in {"none", "live", "dead"}
      /\ UNCHANGED <<stopping, llock, kcode, shown, cut, replayed, stops>> /\ stopping' \in BOOLEAN
    BY DEF KS!Take, KS!logins, KeeperInv, KeeperTypes
<1>1. CASE kpc' \in {"down", "loop"} /\ UNCHANGED <<job, call>>
    <2>1. \A c \in Caller : CallTrue(c)' BY <1>0, <1>1 DEF KeeperInv, CallTrue
    <2>2. call \in [Caller -> KeeperCall] BY DEF KeeperInv, KeeperTypes
    <2> QED BY <1>0, <1>1, <2>1, <2>2, RequestStep
<1>2. ASSUME NEW c \in Caller, call[c].pc = "sent", kpc' = "sync", job' = c, call' = [call EXCEPT ![c].pc = "taken"]
      PROVE  KeeperInv'
    <2> DEFINE r == [call[c] EXCEPT !.pc = "taken"]
    <2>1. call[c] \in KeeperCall /\ CallTrue(c) BY CallFacts
    <2>2. /\ r \in KeeperCall /\ r.pc = "taken" /\ r.applied = call[c].applied /\ r.writes = call[c].writes
          /\ r.exit = call[c].exit /\ r.gone = call[c].gone
        BY <2>1 DEF KeeperCall
    <2>3. call' = [call EXCEPT ![c] = r] BY <1>2
    <2> HIDE DEF r
    <2>4. call'[c] = r /\ call' \in [Caller -> KeeperCall] BY <2>2, <2>3 DEF KeeperInv, KeeperTypes
    <2>5. CallTrue(c)' BY <1>2, <2>1, <2>2, <2>4 DEF CallTrue
    <2>6. ASSUME NEW d \in Caller, d # c PROVE CallTrue(d)'
        <3>1. call'[d] = call[d] /\ CallTrue(d) BY <2>3, <2>6 DEF KeeperInv, KeeperTypes
        <3>2. call[d].pc # "taken" BY <3>1, <1>0 DEF CallTrue, KS!KeeperAssumption
        <3> QED BY <3>1, <3>2, <1>2, <2>6 DEF CallTrue
    <2>7. c # None BY DEF KS!KeeperAssumption
    <2> QED BY <1>0, <1>2, <2>4, <2>5, <2>6, <2>7, RequestStep
<1>3. ASSUME NEW c \in Caller, call[c].pc = "sent", kpc' = "loop", UNCHANGED job,
             call' = [call EXCEPT ![c].pc = "end", ![c].exit = IF call[c].gone THEN @ ELSE 1]
      PROVE  KeeperInv'
    <2> DEFINE r == [call[c] EXCEPT !.pc = "end", !.exit = IF call[c].gone THEN @ ELSE 1]
    <2>1. call[c] \in KeeperCall /\ CallTrue(c) BY CallFacts
    <2>2. /\ r \in KeeperCall /\ r.pc = "end" /\ r.applied = call[c].applied /\ r.writes = call[c].writes
          /\ r.exit = (IF call[c].gone THEN call[c].exit ELSE 1) /\ r.gone = call[c].gone
        BY Zenon, <2>1 DEF KeeperCall
    <2>3. call' = [call EXCEPT ![c] = r] BY Zenon, <1>3 DEF KeeperInv, KeeperTypes
    <2> HIDE DEF r
    <2>4. call'[c] = r /\ call' \in [Caller -> KeeperCall] BY <2>2, <2>3 DEF KeeperInv, KeeperTypes
    <2>5. CallTrue(c)' BY <1>0, <1>3, <2>1, <2>2, <2>4 DEF CallTrue
    <2>6. ASSUME NEW d \in Caller, d # c PROVE CallTrue(d)'
        <3>1. call'[d] = call[d] /\ CallTrue(d) BY <2>3, <2>6 DEF KeeperInv, KeeperTypes
        <3>2. call[d].pc # "taken" BY <3>1, <1>0 DEF CallTrue, KS!KeeperAssumption
        <3> QED BY <3>1, <3>2, <1>0, <1>3 DEF CallTrue
    <2> QED BY <1>0, <1>3, <2>4, <2>5, <2>6, RequestStep
<1> QED BY Zenon, <1>1, <1>2, <1>3 DEF KS!Take

\* The request in hand moves on to x, or ends; nobody else's changes.
LEMMA JobStep ==
    ASSUME KS!KeeperAssumption, KeeperInv, kpc \in {"sync", "write", "confirm"},
           UNCHANGED <<stopping, llock, kcode, shown, cut, replayed>>,
           session' \in {"none", "live", "dead"}, kpc' \in {"loop", "write", "confirm"},
           NEW r \in KeeperCall, call' = [call EXCEPT ![job] = r],
           r.pc = "taken" => kpc' # "loop" /\ job' = job,
           r.pc # "taken" => kpc' = "loop" /\ job' = None,
           r.pc \in {"taken", "end"}, r.gone = call[job].gone, r.gone => r.exit = call[job].exit,
           r.pc = "taken" => (r.applied <=> kpc' = "confirm") /\ r.writes,
           r.pc = "end" /\ ~r.gone /\ r.exit = 0 /\ r.writes => r.applied,
           r.pc = "end" /\ ~r.gone /\ r.exit = 1 => ~r.applied
    PROVE  KeeperInv'
<1>0. job \in Caller /\ job # None BY DEF KeeperInv, KeeperTypes
<1>1. PICK c \in Caller : c = job BY <1>0
<1>2. call'[c] = r /\ call' \in [Caller -> KeeperCall] BY <1>1 DEF KeeperInv, KeeperTypes
<1>3. CallTrue(c) /\ c # None BY <1>0, <1>1 DEF KeeperInv
<1>4. job' \in Caller \cup {None} /\ stopping' \in BOOLEAN BY <1>0 DEF KeeperInv, KeeperTypes
<1>5. CallTrue(c)' BY <1>1, <1>2, <1>3 DEF CallTrue
<1>6. ASSUME NEW d \in Caller, d # c PROVE CallTrue(d)'
    <2>1. call'[d] = call[d] /\ CallTrue(d) BY <1>1, <1>6 DEF KeeperInv, KeeperTypes
    <2>2. call[d].pc # "taken" /\ job' # d BY <2>1, <1>0, <1>1, <1>6 DEF CallTrue, KS!KeeperAssumption
    <2> QED BY <2>1, <2>2 DEF CallTrue
<1> QED BY <1>0, <1>2, <1>4, <1>5, <1>6, RequestStep

LEMMA AnswerKeeps ==
    ASSUME KS!KeeperAssumption, KeeperInv, kpc \in {"sync", "write", "confirm"},
           UNCHANGED <<stopping, llock, kcode, shown, cut, replayed>>,
           session' \in {"none", "live", "dead"}, NEW e \in {0, 1, 2}, KS!Answer(e),
           e = 0 => kpc = "confirm" \/ ~call[job].writes, e = 1 => kpc # "confirm"
    PROVE  KeeperInv'
<1>0. job \in Caller /\ job # None BY DEF KeeperInv, KeeperTypes
<1>1. call[job] \in KeeperCall /\ CallTrue(job) BY <1>0, CallFacts
<1> DEFINE r == [call[job] EXCEPT !.pc = "end", !.exit = IF call[job].gone THEN @ ELSE e]
<1>2. /\ r \in KeeperCall /\ r.pc = "end" /\ r.applied = call[job].applied /\ r.writes = call[job].writes
      /\ r.exit = (IF call[job].gone THEN call[job].exit ELSE e) /\ r.gone = call[job].gone
    BY Zenon, <1>1 DEF KeeperCall
<1>3. call' = [call EXCEPT ![job] = r] BY Zenon, <1>0 DEF KS!Answer, KeeperInv, KeeperTypes
<1> HIDE DEF r
<1>4. call[job].pc = "taken" BY <1>1 DEF CallTrue
<1>5. job' = None /\ kpc' = "loop" BY DEF KS!Answer
<1> QED BY Zenon, <1>1, <1>2, <1>3, <1>4, <1>5, JobStep DEF CallTrue

\* handle(): a failed sync, a refusal, the answer of a read, or on to the write.
LEMMA SyncAndSelectKeeps == ASSUME KS!KeeperAssumption, KeeperInv, KS!SyncAndSelect PROVE KeeperInv'
<1>0. kpc = "sync" /\ UNCHANGED <<stopping, llock, kcode, shown, cut, replayed>> /\ session \in {"none", "live", "dead"}
    BY DEF KS!SyncAndSelect, KS!logins, KeeperInv, KeeperTypes
<1>1. CASE session' \in {session, "dead"} /\ KS!Answer(1)
    BY <1>0, <1>1, AnswerKeeps
<1>2. CASE ~call[job].writes /\ UNCHANGED session /\ KS!Answer(0)
    BY <1>0, <1>2, AnswerKeeps
<1>3. CASE call[job].writes /\ kpc' = "write" /\ UNCHANGED <<session, job, call>>
    <2>1. job \in Caller /\ job # None BY <1>0 DEF KeeperInv, KeeperTypes
    <2>2. call[job] \in KeeperCall /\ CallTrue(job) BY <2>1, CallFacts
    <2>3. call' = [call EXCEPT ![job] = call[job]] BY <1>3 DEF KeeperInv, KeeperTypes
    <2> QED BY Zenon, <1>0, <1>3, <2>1, <2>2, <2>3, JobStep DEF CallTrue
<1> QED BY <1>1, <1>2, <1>3 DEF KS!SyncAndSelect

\* writing(): applied and confirmed next, not applied, or applied and uncertain.
LEMMA WriteKeeps == ASSUME KS!KeeperAssumption, KeeperInv, KS!Write PROVE KeeperInv'
<1>0. kpc = "write" /\ UNCHANGED <<session, stopping, llock, kcode, shown, cut, replayed>> /\ session' \in {"none", "live", "dead"}
    BY DEF KS!Write, KS!logins, KeeperInv, KeeperTypes
<1>1. job \in Caller /\ job # None BY <1>0 DEF KeeperInv, KeeperTypes
<1>2. call[job] \in KeeperCall /\ CallTrue(job) /\ call[job].writes /\ call[job].pc = "taken"
    BY <1>0, <1>1, CallFacts DEF CallTrue
<1>3. CASE call' = [call EXCEPT ![job].applied = TRUE] /\ kpc' = "confirm" /\ UNCHANGED job
    <2> DEFINE r == [call[job] EXCEPT !.applied = TRUE]
    <2>1. /\ r \in KeeperCall /\ r.pc = "taken" /\ r.applied /\ r.writes
          /\ r.exit = call[job].exit /\ r.gone = call[job].gone
        BY Zenon, <1>2 DEF KeeperCall
    <2>2. call' = [call EXCEPT ![job] = r] BY <1>3
    <2> HIDE DEF r
    <2> QED BY Zenon, <1>0, <1>2, <1>3, <2>1, <2>2, JobStep
<1>4. CASE KS!Answer(2)
    BY <1>0, <1>4, AnswerKeeps
<1>5. CASE /\ call' = [call EXCEPT ![job].applied = TRUE, ![job].pc = "end", ![job].exit = IF call[job].gone THEN @ ELSE 2]
           /\ job' = None /\ kpc' = "loop"
    <2> DEFINE r == [call[job] EXCEPT !.applied = TRUE, !.pc = "end", !.exit = IF call[job].gone THEN @ ELSE 2]
    <2>1. /\ r \in KeeperCall /\ r.pc = "end" /\ r.applied /\ r.writes
          /\ r.exit = (IF call[job].gone THEN call[job].exit ELSE 2) /\ r.gone = call[job].gone
        BY Zenon, <1>2 DEF KeeperCall
    <2>2. call' = [call EXCEPT ![job] = r] BY <1>1, <1>2, <1>5 DEF KeeperInv, KeeperTypes, KeeperCall
    <2> HIDE DEF r
    <2>3. (r.gone => r.exit = call[job].exit) /\ (~r.gone => r.exit = 2) BY <2>1
    <2>4. kpc' = "loop" /\ job' = None BY <1>5
    <2>5. /\ r.pc # "taken" /\ (r.pc = "end" /\ ~r.gone /\ r.exit = 0 /\ r.writes => r.applied)
          /\ ~(r.pc = "end" /\ ~r.gone /\ r.exit = 1)
        BY <2>1, <2>3
    <2>6. r.gone = call[job].gone /\ r \in KeeperCall /\ r.pc \in {"taken", "end"} BY <2>1
    <2> QED BY Zenon, <1>0, <2>2, <2>3, <2>4, <2>5, <2>6, JobStep
<1> QED BY Zenon, <1>3, <1>4, <1>5 DEF KS!Write

LEMMA ConfirmWriteKeeps == ASSUME KS!KeeperAssumption, KeeperInv, KS!ConfirmWrite PROVE KeeperInv'
<1>0. kpc = "confirm" /\ UNCHANGED <<stopping, llock, kcode, shown, cut, replayed>> /\ session \in {"none", "live", "dead"}
    BY DEF KS!ConfirmWrite, KS!logins, KeeperInv, KeeperTypes
<1>1. CASE session' \in {session, "dead"} /\ KS!Answer(2)
    BY <1>0, <1>1, AnswerKeeps
<1>2. CASE UNCHANGED session /\ KS!Answer(0)
    BY <1>0, <1>2, AnswerKeeps
<1> QED BY <1>1, <1>2 DEF KS!ConfirmWrite

\* Whatever was in progress is cut off, and its callers are refused.
LEMMA CutOffKeeps == ASSUME KS!KeeperAssumption, KeeperInv, KS!CutOff PROVE KeeperInv'
<1>0. /\ kpc # "down" /\ cut' = (cut \/ kpc = "save") /\ kpc' = "down" /\ session' = "none" /\ stopping' = FALSE
      /\ job' = None /\ llock' = (IF llock = "serve" THEN None ELSE llock) /\ UNCHANGED <<kcode, shown, replayed>>
    BY Zenon DEF KS!CutOff
<1>1. ASSUME NEW c \in Caller
      PROVE  /\ call'[c] \in KeeperCall /\ CallTrue(c)'
    <2>1. call[c] \in KeeperCall /\ CallTrue(c) BY CallFacts
    <2> DEFINE r == [call[c] EXCEPT !.pc = "end", !.gone = TRUE, !.exit = IF call[c].gone THEN @ ELSE 1]
    <2>2. /\ r \in KeeperCall /\ r.pc = "end" /\ r.applied = call[c].applied /\ r.writes = call[c].writes
          /\ r.gone /\ r.exit = (IF call[c].gone THEN call[c].exit ELSE 1)
        BY Zenon, <2>1 DEF KeeperCall
    <2>3. call'[c] = IF call[c].pc \in {"sent", "taken"} THEN r ELSE call[c] BY Zenon DEF KS!CutOff
    <2> HIDE DEF r
    <2>4. c # None BY DEF KS!KeeperAssumption
    <2>5. CASE call[c].pc \in {"sent", "taken"}
        BY <2>1, <2>2, <2>3, <2>4, <2>5, <1>0 DEF CallTrue
    <2>6. CASE call[c].pc \notin {"sent", "taken"}
        BY <2>1, <2>3, <2>4, <2>6, <1>0 DEF CallTrue
    <2> QED BY <2>5, <2>6
<1>2. call' \in [Caller -> KeeperCall]
    <2> DEFINE E(c) == IF call[c].pc \in {"sent", "taken"}
                       THEN [call[c] EXCEPT !.pc = "end", !.gone = TRUE, !.exit = IF call[c].gone THEN @ ELSE 1]
                       ELSE call[c]
    <2>1. call' = [c \in Caller |-> E(c)] BY Zenon DEF KS!CutOff
    <2> HIDE DEF E
    <2>2. \A c \in Caller : E(c) \in KeeperCall BY <2>1, <1>1
    <2> QED BY <2>1, <2>2
<1>3. cut' \in BOOLEAN /\ (kpc = "save" => cut') /\ (cut => cut') BY Zenon, <1>0 DEF KeeperInv, KeeperTypes
<1>4. KeeperTypes' BY Zenon, <1>0, <1>2, <1>3 DEF KeeperInv, KeeperTypes
<1>5. CodeInv' BY <1>0, <1>3 DEF KeeperInv, KeeperTypes, CodeInv, KS!CloneCodeOnce, KS!KeeperAssumption
<1> QED BY <1>0, <1>1, <1>4, <1>5 DEF KeeperInv

LEMMA KeeperNextKeeps == ASSUME KS!KeeperAssumption, KeeperInv, [KS!KeeperNext]_KS!keeperVars PROVE KeeperInv'
<1>1. CASE KS!Start
    <2>1. KeeperTypes' BY Zenon, <1>1 DEF KS!Start, KS!logins, KeeperInv, KeeperTypes
    <2>2. CodeInv' BY <1>1 DEF KS!Start, KS!logins, KeeperInv, CodeInv, KS!CloneCodeOnce
    <2> QED BY <1>1, <2>1, <2>2, LoginStep DEF KS!Start
<1>2. CASE KS!KeepAlive \/ KS!StopSignal \/ UNCHANGED KS!keeperVars
    <2>1. session' \in {session, "dead"} /\ stopping' \in {stopping, TRUE}
          /\ UNCHANGED <<kpc, llock, kcode, shown, cut, replayed, job, call>>
        BY Zenon, <1>2 DEF KS!KeepAlive, KS!StopSignal, KS!logins, KS!keeperVars
    <2>2. KeeperTypes' BY Zenon, <2>1 DEF KeeperInv, KeeperTypes
    <2>3. CodeInv' BY <2>1 DEF KeeperInv, CodeInv, KS!CloneCodeOnce
    <2>4. ASSUME NEW c \in Caller PROVE CallTrue(c)' BY <2>1 DEF KeeperInv, CallTrue
    <2> QED BY <2>1, <2>2, <2>3, <2>4 DEF KeeperInv
<1> QED
    BY <1>1, <1>2, AskKeeps, CallerGivesUpKeeps, RefuseKeeps, BeginLoginKeeps, KeeperLoginKeeps, SaveKeeps, TakeKeeps,
       SyncAndSelectKeeps, WriteKeeps, ConfirmWriteKeeps, CutOffKeeps, ShellKeeps, ShellQuitKeeps
    DEF KS!KeeperNext, KS!Loop

LEMMA KeeperTells == ASSUME KS!KeeperAssumption, KeeperInv PROVE KS!ReportsHonest
<1>1. ASSUME NEW c \in Caller PROVE call[c].applied /\ call[c].pc # "end" => job = c
    <2>1. call[c] \in KeeperCall /\ CallTrue(c) BY <1>1, CallFacts
    <2> QED BY <2>1 DEF CallTrue, KeeperCall
<1> QED BY <1>1 DEF KeeperInv, CodeInv, CallTrue, KS!ReportsHonest, KS!ReportHonest

\* For any number of callers and logins: exit 0 of a write means that it is in Keeper,
\* exit 1 that it is not, and no clone code is presented twice unless a login was
\* cut off before it was saved (keeper-client.py, dispatch(), writing(), login()).
THEOREM KeeperReportsHonest == ASSUME KS!KeeperAssumption PROVE KS!KeeperSpec => []KS!ReportsHonest
<1>1. KS!KeeperInit => KeeperInv BY KeeperInitOK
<1>2. KeeperInv /\ [KS!KeeperNext]_KS!keeperVars => KeeperInv' BY KeeperNextKeeps
<1>3. KeeperInv => KS!ReportsHonest BY KeeperTells
<1> QED BY <1>1, <1>2, <1>3, PTL DEF KS!KeeperSpec
-----------------------------------------------------------------------------
(* SafetyInstall: what is renamed into place was verified, and nobody but  *)
(* its own run touches a temporary package after that.                     *)

Trees == {"absent", "part", "wrong", "whole"}
InstallPc == {"new", "image", "make", "check", "rename", "done", "failed", "killed"}

InstallInv ==
    /\ tree \in [{"image", "home"} -> Trees] /\ work \in [SF!Run -> Trees] /\ instpc \in [SF!Run -> InstallPc]
    /\ printed \in [SF!Run -> {None, "whole"}] /\ altered \in Nat
    /\ SF!NeverHalf
    /\ \A r \in SF!Run : instpc[r] = "rename" => work[r] = "whole"

LEMMA InstallInitOK == ASSUME SF!InstallInit PROVE InstallInv
BY DEF SF!InstallInit, InstallInv, SF!NeverHalf, Trees, InstallPc

\* What a run looks at, makes and checks stays its own; only a whole tree passes.
LEMMA OwnWorkKeeps ==
    ASSUME InstallInv, NEW r \in SF!Run, SF!LookAtImage(r) \/ SF!Make(r) \/ SF!Check(r) \/ SF!Raises(r) \/ SF!Killed(r)
    PROVE  InstallInv'
<1>1. UNCHANGED <<tree, printed, altered>>
    BY DEF SF!LookAtImage, SF!Make, SF!Check, SF!Raises, SF!Killed
<1>2. /\ instpc' \in [SF!Run -> InstallPc] /\ work' \in [SF!Run -> Trees]
      /\ \A q \in SF!Run \ {r} : instpc'[q] = instpc[q] /\ work'[q] = work[q]
      /\ instpc'[r] = "rename" => work'[r] = "whole"
    BY DEF SF!LookAtImage, SF!Make, SF!Check, SF!Raises, SF!Killed, SF!Move, SF!Come, SF!Verified, InstallInv, Trees, InstallPc
<1> QED BY <1>1, <1>2 DEF InstallInv, SF!NeverHalf

LEMMA LookInstallKeeps == ASSUME InstallInv, NEW r \in SF!Run, SF!Look(r) PROVE InstallInv'
<1>1. UNCHANGED <<tree, work, altered>>
    BY DEF SF!Look
<1>2. instpc' \in [SF!Run -> InstallPc] /\ \A q \in SF!Run : instpc'[q] = "rename" => instpc[q] = "rename"
    BY DEF SF!Look, SF!Move, SF!Builder, InstallInv, InstallPc
<1>3. printed' \in [SF!Run -> {None, "whole"}]
    BY DEF SF!Look, SF!Verified, InstallInv, Trees, InstallPc
<1> QED BY <1>1, <1>2, <1>3 DEF InstallInv, SF!NeverHalf

LEMMA RenameInstallKeeps == ASSUME InstallInv, NEW r \in SF!Run, SF!Rename(r) PROVE InstallInv'
<1> DEFINE p == SF!Place(r)
<1>1. p \in {"image", "home"} /\ work[r] = "whole" /\ UNCHANGED altered
    BY DEF SF!Place, SF!Rename, InstallInv
<1> HIDE DEF p
<1>2. tree' = [tree EXCEPT ![p] = "whole"]
    BY <1>1 DEF SF!Rename, p
<1>3. tree' \in [{"image", "home"} -> Trees] /\ tree'[p] = "whole" /\ \A q \in {"image", "home"} : tree'[q] \in {tree[q], "whole"}
    BY <1>1, <1>2 DEF InstallInv, Trees
<1>4. printed' = [printed EXCEPT ![r] = tree'[p]]
    BY DEF SF!Rename, SF!Prints, p
<1>5. printed' \in [SF!Run -> {None, "whole"}]
    BY <1>3, <1>4 DEF InstallInv
<1>6. /\ instpc' \in [SF!Run -> InstallPc] /\ work' \in [SF!Run -> Trees] /\ instpc'[r] = "done"
      /\ \A q \in SF!Run \ {r} : instpc'[q] = instpc[q] /\ work'[q] = work[q]
    BY DEF SF!Rename, SF!Prints, SF!Move, InstallInv, Trees, InstallPc
<1> QED BY <1>1, <1>3, <1>5, <1>6 DEF InstallInv, SF!NeverHalf

LEMMA InstallStepOK == ASSUME InstallInv, [SF!InstallNext]_(SF!installVars) PROVE InstallInv'
<1>1. CASE UNCHANGED SF!installVars
    BY <1>1 DEF SF!installVars, InstallInv, SF!NeverHalf
<1>2. CASE SF!Alter
    BY <1>2 DEF SF!Alter, InstallInv, Trees, SF!NeverHalf
<1>3. ASSUME NEW r \in SF!Run,
             \/ SF!Look(r) \/ SF!LookAtImage(r) \/ SF!Make(r) \/ SF!Check(r) \/ SF!Rename(r) \/ SF!Raises(r) \/ SF!Killed(r)
      PROVE  InstallInv'
    BY <1>3, LookInstallKeeps, OwnWorkKeeps, RenameInstallKeeps
<1> QED BY <1>1, <1>2, <1>3 DEF SF!InstallNext

LEMMA InstallTells == ASSUME InstallInv PROVE SF!NeverHalf /\ SF!EntryReviewed
BY DEF InstallInv, SF!EntryReviewed

\* cc-safety-net-install.py: whatever starts are killed or overlap and whatever a
\* download or a copy comes out as, a destination never holds half an artifact
\* unless somebody else edited it, and every entry printed pointed at a whole one.
THEOREM InstallsAreWhole == SF!InstallSpec => [](SF!NeverHalf /\ SF!EntryReviewed)
BY InstallTells, InstallInitOK, InstallStepOK, PTL DEF SF!InstallSpec

-----------------------------------------------------------------------------
(* ImageBuild: a Job is complete, and build() returns 0, only after the    *)
(* push; and the namespace is empty once a cleanup said so.                *)

BuildInv ==
    /\ kaniko \in {"none", "waiting", "building", "complete", "failed"} /\ result \in {0, 1, None} /\ delTries \in 0 .. 2
    /\ kaniko = "complete" => pushed
    /\ result = 0 => pushed
    /\ step = "cleanup" => result \in {0, 1} /\ delTries \in 0 .. 1
    /\ step \in {"idle", "job", "secret", "context", "poll"} => delTries = 0
    /\ step = "exit" => exit # None
    /\ IB!ExitTells

LEMMA BuildInitOK == ASSUME IB!BuildAssumption, IB!BuildInit PROVE BuildInv
BY DEF IB!BuildAssumption, IB!BuildInit, BuildInv, IB!ExitTells

\* The tool before its cleanup: it ends only with 1, and with 0 built only a pushed image.
LEMMA ToolKeeps ==
    ASSUME IB!BuildAssumption, BuildInv,
           IB!Begin \/ IB!CreateJob \/ IB!Follows \/ IB!Poll \/ IB!Interrupt \/ IB!Killed
    PROVE  BuildInv'
<1> USE DEF IB!BuildAssumption, BuildInv, IB!ExitTells, IB!Raise, IB!Fail, IB!cluster
<1>1. CASE IB!Begin BY <1>1 DEF IB!Begin
<1>2. CASE IB!CreateJob BY <1>2 DEF IB!CreateJob
<1>3. CASE IB!Follows BY <1>3 DEF IB!Follows, IB!Create
<1>4. CASE IB!Poll BY <1>4 DEF IB!Poll, IB!Completed
<1>5. CASE IB!Interrupt BY <1>5 DEF IB!Interrupt
<1>6. CASE IB!Killed BY <1>6 DEF IB!Killed
<1> QED BY <1>1, <1>2, <1>3, <1>4, <1>5, <1>6

LEMMA CleanupKeeps == ASSUME IB!BuildAssumption, BuildInv, IB!Cleanup PROVE BuildInv'
BY DEF IB!BuildAssumption, BuildInv, IB!ExitTells, IB!Fail, IB!Cleanup, IB!Deleted, IB!Code

\* Kubernetes completes only what was pushed, and what it removes does not come back.
LEMMA ClusterKeeps ==
    ASSUME BuildInv, IB!PodStarts \/ IB!Push \/ IB!Complete \/ IB!Kubernetes \/ IB!Elapse
    PROVE  BuildInv'
BY DEF BuildInv, IB!ExitTells, IB!cluster,
       IB!PodStarts, IB!Push, IB!Complete, IB!Kubernetes, IB!Deadline, IB!Expire, IB!Collect, IB!Elapse

LEMMA BuildStepOK == ASSUME IB!BuildAssumption, BuildInv, [IB!BuildNext]_(IB!buildVars) PROVE BuildInv'
<1>1. CASE UNCHANGED IB!buildVars
    BY <1>1 DEF IB!buildVars, BuildInv, IB!ExitTells
<1>2. CASE IB!BuildNext
    BY <1>2, ToolKeeps, CleanupKeeps, ClusterKeeps DEF IB!BuildNext, IB!Tool
<1> QED BY <1>1, <1>2

\* The rest of the tool's state: where it stands, what it made and how often it failed
BuildSorts ==
    /\ step \in {"idle", "job", "secret", "context", "poll", "cleanup", "exit", "dead"}
    /\ made \subseteq {"job", "secret", "context"}
    /\ exit \in {0, 1, 2, None} /\ failures \in 0 .. MaxCallFail

BuildFlags == {authed, pushed, overdue} \subseteq BOOLEAN

LEMMA BuildTypedAtFirst == ASSUME IB!BuildAssumption, IB!BuildInit PROVE BuildSorts /\ BuildFlags
<1>1. BuildSorts
    BY DEF IB!BuildAssumption, IB!BuildInit, BuildSorts
<1>2. authed \in BOOLEAN /\ pushed \in BOOLEAN /\ overdue \in BOOLEAN
    BY Zenon DEF IB!BuildInit
<1> QED BY <1>1, <1>2 DEF BuildFlags

LEMMA SortsKeep ==
    ASSUME IB!BuildAssumption, BuildInv, BuildSorts, [IB!BuildNext]_(IB!buildVars)
    PROVE  BuildSorts'
<1> USE DEF IB!BuildAssumption, BuildSorts, IB!Raise, IB!Fail, IB!cluster
<1>1. CASE IB!Begin BY <1>1 DEF IB!Begin
<1>2. CASE IB!CreateJob
    <2>1. made' \in {made, made \cup {"job"}} /\ UNCHANGED exit /\ failures' \in {failures, failures + 1}
            /\ (failures' # failures => failures < MaxCallFail)
        BY <1>2 DEF IB!CreateJob
    <2>2. step' \in {"secret", "context", "cleanup"}
        BY <1>2 DEF IB!CreateJob
    <2>3. made' \subseteq {"job", "secret", "context"}
        BY <2>1
    <2>4. failures' \in 0 .. MaxCallFail
        BY <2>1
    <2> QED BY <2>1, <2>2, <2>3, <2>4
<1>3. CASE IB!Follows
    <2>1. PICK what \in {"secret", "context"}, onward \in {"context", "poll"} : IB!Create(what, onward)
        BY <1>3 DEF IB!Follows
    <2>2. made' \in {made, made \cup {what}} /\ UNCHANGED exit /\ failures' \in {failures, failures + 1}
            /\ (failures' # failures => failures < MaxCallFail) /\ step' \in {onward, "cleanup"}
        BY <2>1 DEF IB!Create
    <2>3. made' \subseteq {"job", "secret", "context"}
        BY <2>2
    <2>4. failures' \in 0 .. MaxCallFail
        BY <2>2
    <2> QED BY <2>2, <2>3, <2>4
<1>4. CASE IB!Poll BY <1>4 DEF IB!Poll, IB!Completed
<1>5. CASE IB!Interrupt BY <1>5 DEF IB!Interrupt
<1>6. CASE IB!Cleanup
    <2>1. IB!Code(TRUE) \in {0, 1} /\ IB!Code(FALSE) \in {1, 2}
        BY <1>6 DEF IB!Cleanup, IB!Code, BuildInv
    <2>2. made' \subseteq made
        BY Zenon, <1>6 DEF IB!Cleanup, IB!Deleted
    <2>3. /\ step' \in {step, "exit"} /\ exit' \in {exit, 0, 1, 2}
          /\ failures' \in {failures, failures + 1} /\ (failures' # failures => failures < MaxCallFail)
        BY Zenon, <1>6, <2>1 DEF IB!Cleanup
    <2>4. failures' \in 0 .. MaxCallFail
        BY <2>3
    <2> QED BY <2>2, <2>3, <2>4
<1>7. CASE IB!Killed BY <1>7 DEF IB!Killed
<1>8. CASE IB!PodStarts \/ IB!Push \/ IB!Complete \/ IB!Kubernetes \/ IB!Elapse
    BY Zenon, <1>8 DEF IB!PodStarts, IB!Push, IB!Complete, IB!Kubernetes, IB!Deadline, IB!Expire, IB!Collect, IB!Elapse
<1>9. CASE UNCHANGED IB!buildVars BY <1>9 DEF IB!buildVars
<1> QED BY <1>1, <1>2, <1>3, <1>4, <1>5, <1>6, <1>7, <1>8, <1>9 DEF IB!BuildNext, IB!Tool

\* A flag that changes is set.
LEMMA FlagsKeep == ASSUME BuildFlags, [IB!BuildNext]_(IB!buildVars) PROVE BuildFlags'
<1>1. UNCHANGED authed
    BY Zenon DEF IB!BuildNext, IB!Tool, IB!Begin, IB!CreateJob, IB!Follows, IB!Create, IB!Poll, IB!Interrupt, IB!Cleanup,
       IB!Killed, IB!PodStarts, IB!Push, IB!Complete, IB!Kubernetes, IB!Deadline, IB!Expire, IB!Collect, IB!Elapse,
       IB!buildVars
<1>2. pushed' = pushed \/ pushed' = TRUE
    BY Zenon DEF IB!BuildNext, IB!Tool, IB!Begin, IB!CreateJob, IB!Follows, IB!Create, IB!Poll, IB!Interrupt, IB!Cleanup,
       IB!Killed, IB!PodStarts, IB!Push, IB!Complete, IB!Kubernetes, IB!Deadline, IB!Expire, IB!Collect, IB!Elapse,
       IB!buildVars, IB!cluster
<1>3. overdue' = overdue \/ overdue' = TRUE
    BY Zenon DEF IB!BuildNext, IB!Tool, IB!Begin, IB!CreateJob, IB!Follows, IB!Create, IB!Poll, IB!Interrupt, IB!Cleanup,
       IB!Killed, IB!PodStarts, IB!Push, IB!Complete, IB!Kubernetes, IB!Deadline, IB!Expire, IB!Collect, IB!Elapse,
       IB!buildVars
<1>4. authed \in BOOLEAN /\ pushed \in BOOLEAN /\ overdue \in BOOLEAN
    BY DEF BuildFlags
<1>5. authed' \in BOOLEAN /\ pushed' \in BOOLEAN /\ overdue' \in BOOLEAN
    BY Zenon, <1>1, <1>2, <1>3, <1>4
<1> QED BY <1>5 DEF BuildFlags

LEMMA BuildTyped == ASSUME BuildInv, BuildSorts, BuildFlags PROVE IB!BuildTypeOK
BY DEF BuildInv, BuildSorts, BuildFlags, IB!BuildTypeOK

LEMMA BuildTells == ASSUME BuildInv PROVE IB!ExitTells
BY DEF BuildInv

\* t3-build.py: it exits with 0 or 2 only when the registry has the image, and with 0
\* only when nothing of the build is left in the namespace, although a kubectl call
\* may fail after it did its work and the Job may vanish at any moment.
THEOREM ExitsTell == ASSUME IB!BuildAssumption PROVE IB!BuildSpec => []IB!ExitTells
BY BuildTells, BuildInitOK, BuildStepOK, PTL DEF IB!BuildSpec

-----------------------------------------------------------------------------
(* WorkspaceBoot: a step of a start that was published was done in this  *)
(* start, so a home its owner can use is the one the start found or made.  *)

LEMMA ProgramSteps ==
    /\ WB!Program[1] = "clear" /\ WB!Program[2] = "validate" /\ WB!Program[3] = "mark"
    /\ WB!Program[4] = "skills" /\ WB!Program[5] = "instructions" /\ WB!Program[6] = "publish"
    /\ WB!Program[7] = "git" /\ WB!Program[8] = "clone" /\ WB!Program[9] = "setup"
    /\ WB!Program[10] = "clear" /\ WB!Program[11] = "validate"
    /\ WB!Program[12] = "policy" /\ WB!Program[13] = "safety" /\ WB!Program[14] = "checks"
    /\ WB!Program[15] = "mcp" /\ WB!Program[16] = "codex" /\ WB!Program[17] = "settings"
    /\ WB!Program[18] = "publish" /\ WB!Program[19] = "ready" /\ WB!Program[20] = "running"
BY DEF WB!Program, WB!Linked, WB!Configured

Contexts == UNION {x.contexts : x \in Inputs}

WorkspaceTypes ==
    /\ wenv \in Environments /\ wpc \in 0 .. 20 /\ mounted \in Inputs
    /\ marker \in Environments \cup {None}
    /\ part \in [WB!File -> Inputs \cup {None}] /\ snapshot \in Inputs \cup {None}
    /\ kube \subseteq [ctx : Contexts, of : Inputs]

\* Nothing is written before the marker, which only a start of its environment passes
Owned ==
    /\ marker = None => snapshot = None /\ kube = {} /\ \A f \in WB!File : part[f] = None
    /\ WB!HomeOwned
    /\ wpc > 2 => mounted.env = wenv /\ mounted.sound
    /\ wpc = 3 => marker \in {None, wenv} /\ (marker = None => ~imported)
    /\ wpc > 3 => marker = wenv

\* What the steps behind this start have done
Behind ==
    /\ WB!SnapshotCurrent
    /\ \A j \in 1 .. 20 : j < wpc /\ WB!Program[j] \in WB!File => part[WB!Program[j]] = mounted
    /\ wpc > 8 => project = mounted.repo
    /\ wpc > 14 => mounted.checks
    /\ wpc > 18 /\ wenv = "homelab" => snapshot = mounted
    /\ wpc > 18 /\ wenv = "work" =>
          kube = {[ctx |-> c, of |-> mounted] : c \in mounted.contexts} /\ "kube" \notin litter

\* What install_work_kubeconfigs has written of the mounted contexts
Publishing ==
    /\ written # {} => WB!Doing("publish") /\ wenv = "work"
    /\ written \subseteq mounted.contexts
    /\ \A c \in written : [ctx |-> c, of |-> mounted] \in kube
    /\ \A k \in kube : k.ctx \in written => k.of = mounted

WorkspaceInv == WorkspaceTypes /\ Owned /\ Behind /\ Publishing

LEMMA WorkspaceInitOK == ASSUME WB!WorkspaceAssumption, WB!WorkspaceInit PROVE WorkspaceInv
<1>1. WorkspaceTypes
    BY DEF WB!WorkspaceInit, WorkspaceTypes
<1>2. Owned
    BY DEF WB!WorkspaceInit, Owned, WB!HomeOwned
<1>3. Behind /\ Publishing
    BY DEF WB!WorkspaceInit, Behind, Publishing, WB!SnapshotCurrent, WB!Up
<1> QED BY <1>1, <1>2, <1>3 DEF WorkspaceInv

\* Where in the program a step is
LEMMA Places ==
    ASSUME WorkspaceTypes
    PROVE  /\ WB!Doing("clear") => wpc \in {1, 10}
           /\ WB!Doing("validate") => wpc \in {2, 11}
           /\ WB!Doing("mark") => wpc = 3
           /\ WB!Doing("checks") => wpc = 14
           /\ WB!Doing("publish") => wpc \in {6, 18}
           /\ WB!Doing("git") => wpc = 7
           /\ WB!Doing("clone") => wpc = 8
           /\ WB!Doing("setup") => wpc = 9
           /\ WB!Doing("ready") => wpc = 19
           /\ WB!Doing("running") => wpc = 20
           /\ \A f \in WB!File : WB!Doing(f) => wpc \in {4, 5, 12, 13, 15, 16, 17}
BY ProgramSteps DEF WorkspaceTypes, WB!Doing, WB!Up, WB!File

LEMMA NotFiles ==
    /\ {WB!Program[j] : j \in {1, 2, 3, 6, 7, 8, 9, 10, 11, 14, 18, 19, 20}} \cap WB!File = {}
BY ProgramSteps DEF WB!File

\* The container ends: only what the next start finds matters.
LEMMA StopKeeps ==
    ASSUME WorkspaceInv, wpc' = 0, written' = {},
           UNCHANGED <<wenv, mounted, marker, imported, part, snapshot, kube>>
    PROVE  WorkspaceInv'
<1>1. WorkspaceTypes' /\ Publishing'
    BY DEF WorkspaceInv, WorkspaceTypes, Publishing
<1>2. Owned'
    BY DEF WorkspaceInv, Owned, WB!HomeOwned
<1>3. Behind'
    BY DEF Behind, WB!SnapshotCurrent, WB!Up
<1> QED BY <1>1, <1>2, <1>3 DEF WorkspaceInv

\* A step that only looks: what it found is what the next ones rely on.
LEMMA PassStepKeeps ==
    ASSUME WorkspaceInv, WB!Advance, UNCHANGED <<marker, part, snapshot, kube, litter, written>>,
           wpc \in {2, 7, 9, 11, 14, 19}, wpc = 2 => WB!Valid, wpc = 14 => mounted.checks
    PROVE  WorkspaceInv'
<1>1. wpc' = wpc + 1 /\ UNCHANGED <<wenv, mounted, imported, project>> /\ wpc \in Nat
    BY DEF WB!Advance, WB!Passed, WorkspaceInv, WorkspaceTypes
<1>2. WorkspaceTypes'
    BY <1>1 DEF WorkspaceInv, WorkspaceTypes
<1>3. Owned'
    BY <1>1 DEF WorkspaceInv, Owned, WB!HomeOwned, WB!Valid, WB!HomeMatches, WB!Clean
<1>4. ~WB!Doing("publish") /\ ~WB!Doing("clear")
    BY Places DEF WorkspaceInv
<1>5. written = {} /\ Publishing'
    BY <1>1, <1>4 DEF WorkspaceInv, Publishing
<1>6. WB!Program[wpc] \notin WB!File
    BY NotFiles
<1>7. WB!SnapshotCurrent'
    BY <1>1, <1>4 DEF WorkspaceInv, Behind, WB!SnapshotCurrent, WB!Up
<1>8. Behind'
    BY <1>1, <1>6, <1>7 DEF WorkspaceInv, Behind
<1> QED BY <1>2, <1>3, <1>5, <1>8 DEF WorkspaceInv

LEMMA LooksKeepWorkspace ==
    ASSUME WB!WorkspaceAssumption, WorkspaceInv, WB!Validate \/ WB!Accept \/ WB!SetUp \/ WB!Fail \/ WB!Kill \/ WB!Refuse
    PROVE  WorkspaceInv'
<1>1. CASE WB!Validate
    <2>1. wpc \in {2, 11} BY <1>1, Places DEF WorkspaceInv, WB!Validate
    <2>2. CASE WB!Valid /\ WB!Advance /\ UNCHANGED <<marker, part, snapshot, kube, litter, written>>
        BY <2>1, <2>2, PassStepKeeps
    <2>3. CASE WB!Refuse
        BY <2>3, StopKeeps DEF WB!Refuse
    <2> QED BY <1>1, <2>2, <2>3 DEF WB!Validate
<1>2. CASE WB!Accept
    <2>1. wpc = 14 /\ part["policy"] = mounted
        BY <1>2, Places, ProgramSteps DEF WorkspaceInv, WB!Accept, Behind, WB!File
    <2>2. CASE part["policy"].checks /\ WB!Advance /\ UNCHANGED <<marker, part, snapshot, kube, litter, written>>
        BY <2>1, <2>2, PassStepKeeps
    <2>3. CASE WB!Refuse
        BY <2>3, StopKeeps DEF WB!Refuse
    <2> QED BY <1>2, <2>2, <2>3 DEF WB!Accept
<1>3. CASE WB!SetUp
    <2>1. wpc \in {7, 9, 19} BY <1>3, Places DEF WorkspaceInv, WB!SetUp
    <2> QED BY <1>3, <2>1, PassStepKeeps DEF WB!SetUp
<1>4. CASE WB!Fail
    <2>1. written = {} BY <1>4, Places DEF WorkspaceInv, Publishing, WB!Fail
    <2> QED BY <1>4, <2>1, StopKeeps DEF WB!Fail
<1>5. CASE WB!Kill \/ WB!Refuse
    BY <1>5, StopKeeps DEF WB!Kill, WB!Refuse
<1> QED BY <1>1, <1>2, <1>3, <1>4, <1>5

\* What a workspace's users do stops later starts at most.
LEMMA UseKeeps == ASSUME WorkspaceInv, WB!Use PROVE WorkspaceInv'
BY DEF WB!Use, WorkspaceInv, WorkspaceTypes, Owned, Behind, Publishing, WB!HomeOwned, WB!SnapshotCurrent, WB!Up, WB!Doing

LEMMA CloneKeeps == ASSUME WB!WorkspaceAssumption, WorkspaceInv, WB!Clone PROVE WorkspaceInv'
<1>1. CASE WB!Refuse
    BY <1>1, StopKeeps DEF WB!Refuse
<1>2. CASE project' = mounted.repo /\ WB!Passed /\ UNCHANGED <<marker, part, snapshot, kube, litter, written>>
    <2>1. /\ wpc = 8 /\ wpc' = 9 /\ project' = mounted.repo
          /\ UNCHANGED <<wenv, mounted, marker, imported, part, snapshot, kube, litter, written>>
        BY <1>2, Places DEF WorkspaceInv, WB!Clone, WB!Passed
    <2>2. WorkspaceTypes'
        BY <2>1 DEF WorkspaceInv, WorkspaceTypes
    <2>3. Owned'
        BY <2>1 DEF WorkspaceInv, Owned, WB!HomeOwned
    <2>4. written = {} /\ Publishing'
        BY <2>1, Places DEF WorkspaceInv, Publishing
    <2>5. WB!Program[wpc] \notin WB!File /\ ~WB!Doing("clear")
        BY <2>1, NotFiles, Places DEF WorkspaceInv
    <2>6. WB!SnapshotCurrent'
        BY <2>1, <2>5 DEF WorkspaceInv, Behind, WB!SnapshotCurrent, WB!Up
    <2>7. Behind'
        BY <2>1, <2>5, <2>6 DEF WorkspaceInv, Behind
    <2> QED BY <2>2, <2>3, <2>4, <2>7 DEF WorkspaceInv
<1> QED BY <1>1, <1>2 DEF WB!Clone

LEMMA BetweenStartsKeep ==
    ASSUME WB!WorkspaceAssumption, WorkspaceInv, WB!Stage \/ \E e \in Environments : WB!Start(e)
    PROVE  WorkspaceInv'
<1>1. /\ wpc = 0 /\ wpc' \in {0, 1} /\ wenv' \in Environments /\ mounted' \in Inputs
      /\ UNCHANGED <<marker, imported, part, snapshot, kube, project, litter, written>>
    BY DEF WB!Stage, WB!Start, WorkspaceInv, WorkspaceTypes
<1>2. WorkspaceTypes'
    BY <1>1 DEF WorkspaceInv, WorkspaceTypes
<1>3. Owned'
    BY <1>1 DEF WorkspaceInv, Owned, WB!HomeOwned
<1>4. written = {}
    BY <1>1 DEF WorkspaceInv, Publishing, WB!Doing, WB!Up
<1>5. Publishing'
    BY <1>1, <1>4 DEF Publishing
<1>6. WB!SnapshotCurrent'
    BY <1>1, ProgramSteps DEF WB!SnapshotCurrent, WB!Up, WB!Doing
<1>7. Behind'
    BY <1>1, <1>6 DEF Behind
<1> QED BY <1>2, <1>3, <1>5, <1>7 DEF WorkspaceInv

LEMMA ClearKeeps == ASSUME WB!WorkspaceAssumption, WorkspaceInv, WB!Clear PROVE WorkspaceInv'
<1>1. /\ wpc \in {1, 10} /\ wpc' = wpc + 1 /\ snapshot' \in {snapshot, None} /\ (wenv = "homelab" => snapshot' = None)
      /\ UNCHANGED <<wenv, mounted, marker, imported, part, kube, project, litter, written>>
    BY Places DEF WB!Clear, WB!Advance, WB!Passed, WorkspaceInv
<1>2. WorkspaceTypes'
    BY <1>1 DEF WorkspaceInv, WorkspaceTypes
<1>3. Owned'
    BY <1>1 DEF WorkspaceInv, Owned, WB!HomeOwned
<1>4. written = {} /\ Publishing'
    BY <1>1, Places DEF WorkspaceInv, Publishing
<1>5. WB!Program[wpc] \notin WB!File
    BY <1>1, NotFiles
<1>6. Behind'
    BY <1>1, <1>5 DEF WorkspaceInv, Behind, WB!SnapshotCurrent
<1> QED BY <1>2, <1>3, <1>4, <1>6 DEF WorkspaceInv

\* The marker is written when the home has it already, or nothing at all.
LEMMA MarkKeeps == ASSUME WB!WorkspaceAssumption, WorkspaceInv, WB!Mark PROVE WorkspaceInv'
<1>1. /\ wpc = 3 /\ wpc' = 4 /\ marker' = wenv
      /\ UNCHANGED <<wenv, mounted, imported, part, snapshot, kube, project, litter, written>>
    BY Places DEF WB!Mark, WB!Advance, WB!Passed, WorkspaceInv
<1>2. WorkspaceTypes'
    BY <1>1 DEF WorkspaceInv, WorkspaceTypes
<1>3. Owned'
    BY <1>1 DEF WorkspaceInv, WorkspaceTypes, Owned, WB!HomeOwned, WB!WorkspaceAssumption
<1>4. written = {} /\ Publishing'
    BY <1>1, Places DEF WorkspaceInv, Publishing
<1>5. WB!Program[wpc] \notin WB!File /\ ~WB!Doing("clear")
    BY <1>1, NotFiles, Places DEF WorkspaceInv
<1>6. WB!SnapshotCurrent'
    BY <1>1, <1>5 DEF WorkspaceInv, Behind, WB!SnapshotCurrent, WB!Up
<1>7. Behind'
    BY <1>1, <1>5, <1>6 DEF WorkspaceInv, Behind
<1> QED BY <1>2, <1>3, <1>4, <1>7 DEF WorkspaceInv

LEMMA InstallKeeps == ASSUME WB!WorkspaceAssumption, WorkspaceInv, WB!Install PROVE WorkspaceInv'
<1> PICK f \in WB!File : WB!Doing(f) /\ part' = [part EXCEPT ![f] = mounted]
    BY Zenon DEF WB!Install
<1>1. /\ wpc \in {4, 5, 12, 13, 15, 16, 17} /\ wpc' = wpc + 1 /\ f = WB!Program[wpc]
      /\ UNCHANGED <<wenv, mounted, marker, imported, snapshot, kube, project, litter, written>>
    BY Places DEF WB!Install, WB!Advance, WB!Passed, WorkspaceInv, WB!Doing
<1>2. /\ part' \in [WB!File -> Inputs \cup {None}] /\ part'[f] = mounted /\ \A g \in WB!File \ {f} : part'[g] = part[g]
    BY DEF WorkspaceInv, WorkspaceTypes
<1>3. WorkspaceTypes'
    BY <1>1, <1>2 DEF WorkspaceInv, WorkspaceTypes
<1>4. Owned'
    BY <1>1, <1>2 DEF WorkspaceInv, WorkspaceTypes, Owned, WB!HomeOwned, WB!WorkspaceAssumption
<1>5. ~WB!Doing("clear") /\ ~WB!Doing("publish")
    BY <1>1, Places DEF WorkspaceInv
<1>6. written = {} /\ Publishing'
    BY <1>1, <1>5 DEF WorkspaceInv, Publishing
<1>7. WB!SnapshotCurrent'
    BY <1>1, <1>5 DEF WorkspaceInv, Behind, WB!SnapshotCurrent, WB!Up
<1>8. \A j \in 1 .. 20 : j < wpc' /\ WB!Program[j] \in WB!File => part'[WB!Program[j]] = mounted
    BY <1>1, <1>2 DEF WorkspaceInv, Behind
<1>9. Behind'
    BY <1>1, <1>7, <1>8 DEF WorkspaceInv, Behind
<1> QED BY <1>3, <1>4, <1>6, <1>9 DEF WorkspaceInv

LEMMA PublishServicesKeeps == ASSUME WB!WorkspaceAssumption, WorkspaceInv, WB!PublishServices PROVE WorkspaceInv'
<1>1. /\ wpc \in {6, 18} /\ wpc' = wpc + 1 /\ snapshot' = mounted /\ wenv = "homelab"
      /\ UNCHANGED <<wenv, mounted, marker, imported, part, kube, project, litter, written>>
    BY Places DEF WB!PublishServices, WB!Advance, WB!Passed, WorkspaceInv
<1>2. WorkspaceTypes'
    BY <1>1 DEF WorkspaceInv, WorkspaceTypes
<1>3. Owned'
    BY <1>1 DEF WorkspaceInv, WorkspaceTypes, Owned, WB!HomeOwned, WB!WorkspaceAssumption
<1>4. WB!Program[wpc] \notin WB!File
    BY <1>1, NotFiles
<1>5. Behind'
    BY <1>1, <1>4 DEF WorkspaceInv, Behind, WB!SnapshotCurrent
<1>6. written = {} /\ Publishing'
    BY <1>1 DEF WorkspaceInv, Publishing
<1> QED BY <1>2, <1>3, <1>5, <1>6 DEF WorkspaceInv

LEMMA PublishContextKeeps == ASSUME WB!WorkspaceAssumption, WorkspaceInv, WB!PublishContext PROVE WorkspaceInv'
<1> PICK c \in mounted.contexts \ written :
        /\ kube' = {k \in kube : k.ctx # c} \cup {[ctx |-> c, of |-> mounted]}
        /\ written' = written \cup {c}
    BY DEF WB!PublishContext
<1>1. /\ wpc \in {6, 18} /\ wenv = "work" /\ WB!Doing("publish")
      /\ UNCHANGED <<wenv, wpc, mounted, marker, imported, part, snapshot, project, litter>>
    BY Places DEF WB!PublishContext, WorkspaceInv
<1>2. c \in Contexts /\ [ctx |-> c, of |-> mounted] \in [ctx : Contexts, of : Inputs]
    BY DEF WorkspaceInv, WorkspaceTypes, Contexts
<1>3. WorkspaceTypes'
    BY <1>1, <1>2 DEF WorkspaceInv, WorkspaceTypes
<1>4. marker = "work" /\ mounted.env = "work" /\ marker # None
    BY <1>1 DEF WorkspaceInv, WorkspaceTypes, Owned, WB!WorkspaceAssumption
<1>5. Owned'
    BY <1>1, <1>4 DEF WorkspaceInv, WorkspaceTypes, Owned, WB!HomeOwned
<1>6. WB!Doing("publish")'
    BY <1>1 DEF WB!Doing, WB!Up
<1>7. Publishing'
    BY <1>1, <1>6 DEF WorkspaceInv, Publishing
<1>8. Behind'
    BY <1>1 DEF WorkspaceInv, WorkspaceTypes, Behind, WB!SnapshotCurrent, WB!Up, WB!Doing
<1> QED BY <1>3, <1>5, <1>7, <1>8 DEF WorkspaceInv

\* Every context is written: what is kept of the directory is exactly theirs.
LEMMA DropContextsKeeps == ASSUME WB!WorkspaceAssumption, WorkspaceInv, WB!DropContexts PROVE WorkspaceInv'
<1>1. /\ wpc \in {6, 18} /\ wpc' = wpc + 1 /\ wenv = "work" /\ written = mounted.contexts /\ written' = {}
      /\ kube' = {k \in kube : k.ctx \in written} /\ litter' = litter \ {"kube"}
      /\ UNCHANGED <<wenv, mounted, marker, imported, part, snapshot, project>>
    BY Places DEF WB!DropContexts, WB!Advance, WB!Passed, WorkspaceInv
<1>2. \A k \in kube : k = [ctx |-> k.ctx, of |-> k.of]
    BY DEF WorkspaceInv, WorkspaceTypes
<1>3. kube' = {[ctx |-> c, of |-> mounted] : c \in mounted.contexts}
    BY <1>1, <1>2 DEF WorkspaceInv, Publishing
<1>4. WorkspaceTypes'
    BY <1>1 DEF WorkspaceInv, WorkspaceTypes
<1>5. Owned'
    BY <1>1 DEF WorkspaceInv, Owned, WB!HomeOwned
<1>6. WB!Program[wpc] \notin WB!File
    BY <1>1, NotFiles
<1>7. WB!SnapshotCurrent'
    BY <1>1 DEF WB!SnapshotCurrent, WB!WorkspaceAssumption
<1>8. Behind'
    BY <1>1, <1>3, <1>6, <1>7 DEF WorkspaceInv, Behind
<1>9. Publishing'
    BY <1>1 DEF Publishing
<1> QED BY <1>4, <1>5, <1>8, <1>9 DEF WorkspaceInv

LEMMA WorkspaceStepOK == ASSUME WB!WorkspaceAssumption, WorkspaceInv, [WB!WorkspaceNext]_(WB!workspaceVars) PROVE WorkspaceInv'
<1>1. CASE UNCHANGED WB!workspaceVars
    BY <1>1 DEF WB!workspaceVars, WorkspaceInv, WorkspaceTypes, Owned, Behind, Publishing,
                WB!HomeOwned, WB!SnapshotCurrent, WB!Up, WB!Doing
<1>2. CASE WB!WorkspaceNext
    BY <1>2, LooksKeepWorkspace, UseKeeps, CloneKeeps, BetweenStartsKeep, ClearKeeps, MarkKeeps, InstallKeeps, PublishServicesKeeps,
       PublishContextKeeps, DropContextsKeeps
    DEF WB!WorkspaceNext, WB!StartUp
<1> QED BY <1>1, <1>2

LEMMA WorkspaceTells == ASSUME WB!WorkspaceAssumption, WorkspaceInv PROVE WB!WorkspaceWhole
<1>1. ASSUME WB!Running PROVE WB!RunningWhole
    <2>1. wpc = 20 BY <1>1, Places DEF WorkspaceInv, WB!Running
    <2>2. \A f \in WB!File : part[f] = mounted
        <3> TAKE f \in WB!File
        <3>1. PICK j \in {4, 5, 12, 13, 15, 16, 17} : f = WB!Program[j] BY ProgramSteps DEF WB!File
        <3> QED BY <2>1, <3>1 DEF WorkspaceInv, Behind
    <2> QED BY <2>1, <2>2 DEF WorkspaceInv, Behind, Owned, WB!RunningWhole
<1> QED BY <1>1 DEF WorkspaceInv, Owned, Behind, WB!WorkspaceWhole, WB!RunningWhole

\* isolated-config.py and the entrypoint: however many starts were killed or refused
\* on whatever inputs, a home holds nothing of the other environment's, a start shows
\* no service list but that of the inputs it validated, and t3 runs only when every
\* managed file is of the mounted inputs, which passed their checks.
THEOREM StartsAreWhole == ASSUME WB!WorkspaceAssumption PROVE WB!WorkspaceSpec => []WB!WorkspaceWhole
BY WorkspaceTells, WorkspaceInitOK, WorkspaceStepOK, PTL DEF WB!WorkspaceSpec

-----------------------------------------------------------------------------
(* Transcripts: what a file once was as a candidate bounds what it is when *)
(* it is printed, and a whole file read back is the request it logs.  What *)
(* a recursion computes is proved by sets of naturals that hold 0 and the  *)
(* successor of each member.                                               *)

LEMMA LeastOf ==
    ASSUME NEW T \in SUBSET Nat, T # {}
    PROVE  \E x \in T : \A y \in T : x <= y
<1>1. \E x \in T : \A y \in T : <<y, x>> \notin OpToRel(<, Nat)
    BY Zenon, NatLessThanWellFounded, WFMin
<1>2. \A x, y \in Nat : <<y, x>> \notin OpToRel(<, Nat) => x <= y
    BY DEF OpToRel
<1> QED BY Zenon, <1>1, <1>2

LEMMA Reaches ==
    ASSUME NEW T, NEW n \in Nat, 0 \in T, \A k \in 0 .. n - 1 : k \in T => k + 1 \in T
    PROVE  \A k \in 0 .. n : k \in T
<1> DEFINE Rest == {k \in 0 .. n : k \notin T}
<1>1. ASSUME Rest # {} PROVE FALSE
    <2>1. PICK m \in Rest : \A k \in Rest : m <= k
        <3>1. Rest \in SUBSET Nat
            OBVIOUS
        <3> QED BY Zenon, <1>1, <3>1, LeastOf
    <2>2. m - 1 \in 0 .. n - 1 /\ m - 1 \notin Rest /\ m - 1 + 1 = m
        BY <2>1
    <2> QED BY <2>1, <2>2
<1> QED BY <1>1

\* What Concat() joins, sequence by sequence.
LEMMA JoinedUnfolds ==
    ASSUME NEW seqs, Len(seqs) \in Nat
    PROVE  TR!Joined(seqs) =
               [k \in 0 .. Len(seqs) |-> IF k = 0 THEN << >> ELSE TR!Joined(seqs)[k - 1] \o seqs[k]]
<1> DEFINE Up(g, k) == IF k = 0 THEN << >> ELSE g[k - 1] \o seqs[k]
           T == {n \in Nat : \E g : g = [k \in 0 .. n |-> Up(g, k)]}
<1>1. 0 \in T
    <2> DEFINE g == [k \in 0 .. 0 |-> << >>]
    <2>1. g = [k \in 0 .. 0 |-> Up(g, k)]
        OBVIOUS
    <2> QED BY <2>1
<1>2. ASSUME NEW n \in Nat, n \in T PROVE n + 1 \in T
    <2>1. PICK g : g = [k \in 0 .. n |-> Up(g, k)]
        BY <1>2
    <2> DEFINE h == [k \in 0 .. n + 1 |-> IF k <= n THEN g[k] ELSE Up(g, k)]
    <2>2. ASSUME NEW k \in 0 .. n + 1 PROVE h[k] = Up(h, k)
        <3>1. k > 0 => h[k - 1] = g[k - 1]
            OBVIOUS
        <3>2. Up(h, k) = Up(g, k)
            BY <3>1
        <3>3. CASE k <= n
            <4> HIDE DEF Up
            <4>1. h[k] = g[k] /\ k \in 0 .. n
                BY <3>3
            <4>2. g[k] = Up(g, k)
                BY Zenon, <2>1, <4>1
            <4> QED BY <3>2, <4>1, <4>2
        <3>4. CASE k = n + 1
            BY <3>2, <3>4
        <3> QED BY <3>3, <3>4
    <2> HIDE DEF Up
    <2>3. h = [k \in 0 .. n + 1 |-> Up(h, k)]
        BY <2>2
    <2>4. n + 1 \in Nat
        OBVIOUS
    <2> HIDE DEF h
    <2> QED BY Zenon, <2>3, <2>4
<1> HIDE DEF T
<1>3. \A n \in 0 .. Len(seqs) - 1 : n \in T => n + 1 \in T
    BY <1>2
<1>4. \A n \in 0 .. Len(seqs) : n \in T
    BY <1>1, <1>3, Reaches
<1>5. Len(seqs) \in T
    BY <1>4
<1>6. \E g : g = [k \in 0 .. Len(seqs) |-> Up(g, k)]
    BY Zenon, <1>5 DEF T
<1> QED BY Zenon, <1>6 DEF TR!Joined

\* reassemble_sse(), event by event.
LEMMA KnownUnfolds ==
    ASSUME NEW events, Len(events) \in Nat
    PROVE  TR!Known(events) =
               [k \in 0 .. Len(events) |-> IF k = 0 THEN [blocks |-> << >>, order |-> << >>]
                                           ELSE TR!Read(TR!Known(events)[k - 1], events[k])]
<1> DEFINE Up(g, k) == IF k = 0 THEN [blocks |-> << >>, order |-> << >>] ELSE TR!Read(g[k - 1], events[k])
           T == {n \in Nat : \E g : g = [k \in 0 .. n |-> Up(g, k)]}
<1>1. 0 \in T
    <2> DEFINE g == [k \in 0 .. 0 |-> [blocks |-> << >>, order |-> << >>]]
    <2>1. g = [k \in 0 .. 0 |-> Up(g, k)]
        OBVIOUS
    <2> QED BY <2>1
<1>2. ASSUME NEW n \in Nat, n \in T PROVE n + 1 \in T
    <2>1. PICK g : g = [k \in 0 .. n |-> Up(g, k)]
        BY <1>2
    <2> DEFINE h == [k \in 0 .. n + 1 |-> IF k <= n THEN g[k] ELSE Up(g, k)]
    <2>2. ASSUME NEW k \in 0 .. n + 1 PROVE h[k] = Up(h, k)
        <3>1. k > 0 => h[k - 1] = g[k - 1]
            OBVIOUS
        <3>2. Up(h, k) = Up(g, k)
            BY <3>1
        <3>3. CASE k <= n
            <4> HIDE DEF Up
            <4>1. h[k] = g[k] /\ k \in 0 .. n
                BY <3>3
            <4>2. g[k] = Up(g, k)
                BY Zenon, <2>1, <4>1
            <4> QED BY <3>2, <4>1, <4>2
        <3>4. CASE k = n + 1
            BY <3>2, <3>4
        <3> QED BY <3>3, <3>4
    <2> HIDE DEF Up
    <2>3. h = [k \in 0 .. n + 1 |-> Up(h, k)]
        BY <2>2
    <2>4. n + 1 \in Nat
        OBVIOUS
    <2> HIDE DEF h
    <2> QED BY Zenon, <2>3, <2>4
<1> HIDE DEF T
<1>3. \A n \in 0 .. Len(events) - 1 : n \in T => n + 1 \in T
    BY <1>2
<1>4. \A n \in 0 .. Len(events) : n \in T
    BY <1>1, <1>3, Reaches
<1>5. Len(events) \in T
    BY <1>4
<1>6. \E g : g = [k \in 0 .. Len(events) |-> Up(g, k)]
    BY Zenon, <1>5 DEF T
<1> QED BY Zenon, <1>6 DEF TR!Known

\* u is s and then t.
Glued(s, t, u) == u = s \o t

LEMMA Joining ==
    ASSUME NEW S, NEW s \in Seq(S), NEW t \in Seq(S), NEW u, Glued(s, t, u)
    PROVE  u \in Seq(S)
BY DEF Glued

LEMMA JoiningLen ==
    ASSUME NEW S, NEW s \in Seq(S), NEW t \in Seq(S), NEW u, Glued(s, t, u)
    PROVE  Len(s) \in Nat /\ Len(t) \in Nat /\ Len(u) = Len(s) + Len(t)
BY DEF Glued

LEMMA JoiningLeft ==
    ASSUME NEW S, NEW s \in Seq(S), NEW t \in Seq(S), NEW u, Glued(s, t, u)
    PROVE  \A i \in 1 .. Len(s) : u[i] = s[i]
BY DEF Glued

\* t is found in u behind its first d
Beyond(d, t, u) == \A j \in 1 .. Len(t) : u[d + j] = t[j]

LEMMA JoiningRight ==
    ASSUME NEW S, NEW s \in Seq(S), NEW t \in Seq(S), NEW u, Glued(s, t, u)
    PROVE  Beyond(Len(s), t, u)
BY DEF Glued, Beyond

LEMMA Between ==
    /\ \A a, b \in Nat : a <= a + b /\ \A j \in 1 .. b : a + j \in 1 .. (a + b)
    /\ \A a, b, i \in Nat : ~(i <= a) /\ i <= a + b => i - a \in 1 .. b /\ i = a + (i - a)
OBVIOUS


\* Where the k-th sequence ends in the whole.
Offset(seqs, k) == Len(TR!Joined(seqs)[k])

LEMMA JoinedIsSeq ==
    ASSUME NEW S, NEW seqs \in Seq(Seq(S))
    PROVE  /\ Offset(seqs, 0) = 0 /\ TR!Joined(seqs)[0] = << >>
           /\ \A k \in 0 .. Len(seqs) : TR!Joined(seqs)[k] \in Seq(S) /\ Offset(seqs, k) \in Nat
           /\ \A k \in 1 .. Len(seqs) :
                  /\ seqs[k] \in Seq(S) /\ Glued(TR!Joined(seqs)[k - 1], seqs[k], TR!Joined(seqs)[k])
                  /\ Offset(seqs, k) = Offset(seqs, k - 1) + Len(seqs[k])
<1> DEFINE J == TR!Joined(seqs)
           n == Len(seqs)
           T == {k \in Nat : J[k] \in Seq(S)}
<1>1. n \in Nat /\ \A k \in 1 .. n : seqs[k] \in Seq(S)
    OBVIOUS
<1>2. J = [k \in 0 .. n |-> IF k = 0 THEN << >> ELSE J[k - 1] \o seqs[k]]
    BY <1>1, JoinedUnfolds
<1> HIDE DEF J
<1>3. J[0] = << >>
    BY <1>1, <1>2
<1>4. ASSUME NEW k \in 1 .. n PROVE Glued(J[k - 1], seqs[k], J[k])
    <2>1. k \in 0 .. n /\ k # 0
        BY <1>1
    <2> QED BY Zenon, <1>2, <2>1 DEF Glued
<1>5. 0 \in T
    <2>1. J[0] \in Seq(S)
        BY <1>3
    <2> QED BY <2>1
<1>6. ASSUME NEW k \in 0 .. n - 1, k \in T PROVE k + 1 \in T
    <2>1. k + 1 \in 1 .. n /\ k + 1 \in Nat /\ k + 1 - 1 = k
        BY <1>1
    <2>2. Glued(J[k], seqs[k + 1], J[k + 1])
        <3>1. \A m \in 1 .. n : Glued(J[m - 1], seqs[m], J[m])
            BY <1>4
        <3> QED BY <2>1, <3>1
    <2>3. J[k] \in Seq(S) /\ seqs[k + 1] \in Seq(S)
        BY <1>1, <1>6, <2>1
    <2>4. J[k + 1] \in Seq(S)
        BY Zenon, <2>2, <2>3, Joining
    <2> QED BY <2>1, <2>4
<1>7. \A k \in 0 .. n : k \in T
    <2> HIDE DEF T
    <2> QED BY Zenon, <1>1, <1>5, <1>6, Reaches
<1>8. \A k \in 0 .. n : J[k] \in Seq(S) /\ Len(J[k]) \in Nat
    BY <1>7
<1>9. ASSUME NEW k \in 1 .. n PROVE Len(J[k]) = Len(J[k - 1]) + Len(seqs[k])
    <2>1. J[k - 1] \in Seq(S) /\ seqs[k] \in Seq(S)
        BY <1>1, <1>8
    <2> QED BY Zenon, <1>4, <2>1, JoiningLen
<1> QED BY <1>1, <1>3, <1>4, <1>8, <1>9 DEF J, Offset

\* What was joined stays where it is.
LEMMA JoinedStays ==
    ASSUME NEW S, NEW seqs \in Seq(Seq(S)), NEW k \in 0 .. Len(seqs)
    PROVE  \A m \in k .. Len(seqs) :
               /\ Offset(seqs, k) <= Offset(seqs, m)
               /\ \A i \in 1 .. Offset(seqs, k) : TR!Joined(seqs)[m][i] = TR!Joined(seqs)[k][i]
<1> DEFINE J == TR!Joined(seqs)
           n == Len(seqs)
           T == {d \in Nat : /\ Len(J[k]) <= Len(J[k + d])
                             /\ \A i \in 1 .. Len(J[k]) : J[k + d][i] = J[k][i]}
<1>1. n \in Nat /\ k \in Nat /\ k <= n
    OBVIOUS
<1>2. /\ \A m \in 0 .. n : J[m] \in Seq(S) /\ Len(J[m]) \in Nat
      /\ \A m \in 1 .. n : seqs[m] \in Seq(S) /\ Glued(J[m - 1], seqs[m], J[m])
    BY Zenon, JoinedIsSeq DEF Offset
<1> HIDE DEF J
<1>3. 0 \in T
    BY <1>1, <1>2
<1>4. ASSUME NEW d \in 0 .. (n - k) - 1, d \in T PROVE d + 1 \in T
    <2>1. k + d \in 0 .. n /\ k + d + 1 \in 1 .. n /\ k + d + 1 - 1 = k + d /\ d + 1 \in Nat
        BY <1>1
    <2>2. J[k + d] \in Seq(S) /\ seqs[k + d + 1] \in Seq(S) /\ Glued(J[k + d], seqs[k + d + 1], J[k + d + 1])
        BY <1>2, <2>1
    <2>3. /\ Len(J[k + d]) <= Len(J[k + d + 1])
          /\ \A i \in 1 .. Len(J[k + d]) : J[k + d + 1][i] = J[k + d][i]
        <3>1. \A i \in 1 .. Len(J[k + d]) : J[k + d + 1][i] = J[k + d][i]
            BY Zenon, <2>2, JoiningLeft
        <3>2. /\ Len(J[k + d]) \in Nat /\ Len(seqs[k + d + 1]) \in Nat
              /\ Len(J[k + d + 1]) = Len(J[k + d]) + Len(seqs[k + d + 1])
            BY Zenon, <2>2, JoiningLen
        <3>3. Len(J[k + d]) <= Len(J[k + d + 1])
            BY Zenon, <3>2, Between
        <3> QED BY Zenon, <3>1, <3>3
    <2>4. Len(J[k]) \in Nat /\ Len(J[k + d]) \in Nat /\ Len(J[k + d + 1]) \in Nat
        BY <1>1, <1>2, <2>1
    <2>5. Len(J[k]) <= Len(J[k + d]) /\ \A i \in 1 .. Len(J[k]) : J[k + d][i] = J[k][i]
        BY <1>4
    <2>6. \A i \in 1 .. Len(J[k]) : J[k + d + 1][i] = J[k][i]
        BY <2>3, <2>4, <2>5
    <2>7. k + (d + 1) = k + d + 1
        BY <1>1
    <2> QED BY <2>1, <2>3, <2>4, <2>5, <2>6, <2>7
<1>5. \A d \in 0 .. n - k : d \in T
    <2>1. n - k \in Nat
        BY <1>1
    <2> HIDE DEF T
    <2> QED BY Zenon, <2>1, <1>3, <1>4, Reaches
<1>6. ASSUME NEW m \in k .. n
      PROVE  Len(J[k]) <= Len(J[m]) /\ \A i \in 1 .. Len(J[k]) : J[m][i] = J[k][i]
    <2>1. m - k \in 0 .. n - k /\ k + (m - k) = m
        BY <1>1
    <2> QED BY <1>5, <2>1
<1> QED BY <1>6 DEF J, Offset

\* Concat() holds each sequence at its place, and nothing else.
LEMMA ConcatParts ==
    ASSUME NEW S, NEW seqs \in Seq(Seq(S))
    PROVE  /\ TR!Concat(seqs) \in Seq(S) /\ Len(TR!Concat(seqs)) = Offset(seqs, Len(seqs))
           /\ \A k \in 1 .. Len(seqs) : \A j \in 1 .. Len(seqs[k]) :
                  /\ Offset(seqs, k - 1) + j \in 1 .. Len(TR!Concat(seqs))
                  /\ TR!Concat(seqs)[Offset(seqs, k - 1) + j] = seqs[k][j]
           /\ \A i \in 1 .. Len(TR!Concat(seqs)) :
                  \E k \in 1 .. Len(seqs) : \E j \in 1 .. Len(seqs[k]) : i = Offset(seqs, k - 1) + j
<1> DEFINE J == TR!Joined(seqs)
           n == Len(seqs)
           all == TR!Concat(seqs)
<1>1. n \in Nat /\ n \in 0 .. n
    OBVIOUS
<1>2. /\ J[0] = << >>
      /\ \A m \in 0 .. n : J[m] \in Seq(S) /\ Len(J[m]) \in Nat
      /\ \A m \in 1 .. n : seqs[m] \in Seq(S) /\ Glued(J[m - 1], seqs[m], J[m])
    BY Zenon, JoinedIsSeq DEF Offset
<1>3. all = J[n]
    BY DEF TR!Concat
<1>4. \A k \in 0 .. n : Len(J[k]) <= Len(J[n]) /\ \A i \in 1 .. Len(J[k]) : J[n][i] = J[k][i]
    <2>1. \A k \in 0 .. n : n \in k .. n
        BY <1>1
    <2> QED BY Zenon, <2>1, JoinedStays DEF Offset
<1> HIDE DEF J, all
<1>5. ASSUME NEW k \in 1 .. n, NEW j \in 1 .. Len(seqs[k])
      PROVE  Len(J[k - 1]) + j \in 1 .. Len(all) /\ all[Len(J[k - 1]) + j] = seqs[k][j]
    <2>1. k \in 0 .. n /\ k - 1 \in 0 .. n
        BY <1>1
    <2>2. J[k - 1] \in Seq(S) /\ seqs[k] \in Seq(S) /\ Glued(J[k - 1], seqs[k], J[k])
        BY <1>2, <2>1
    <2>3. Len(J[k - 1]) + j \in 1 .. Len(J[k]) /\ J[k][Len(J[k - 1]) + j] = seqs[k][j]
        <3>1. /\ Len(J[k]) = Len(J[k - 1]) + Len(seqs[k]) /\ Len(J[k - 1]) \in Nat /\ Len(seqs[k]) \in Nat
            BY Zenon, <2>2, JoiningLen
        <3>2. Beyond(Len(J[k - 1]), seqs[k], J[k])
            BY Zenon, <2>2, JoiningRight
        <3>3. Len(J[k - 1]) + j \in 1 .. Len(J[k])
            BY Zenon, <3>1, Between
        <3> QED BY Zenon, <3>2, <3>3 DEF Beyond
    <2>4. Len(J[k]) \in Nat /\ Len(J[n]) \in Nat
        BY <1>1, <1>2, <2>1
    <2>5. Len(J[k]) <= Len(J[n]) /\ \A i \in 1 .. Len(J[k]) : J[n][i] = J[k][i]
        BY Zenon, <1>4, <2>1
    <2>6. PICK x : x = Len(J[k - 1]) + j
        OBVIOUS
    <2>7. x \in 1 .. Len(J[k]) /\ J[k][x] = seqs[k][j]
        BY Zenon, <2>3, <2>6
    <2>8. x \in 1 .. Len(J[n])
        BY <2>4, <2>5, <2>7
    <2>9. J[n][x] = J[k][x]
        BY Zenon, <2>5, <2>7
    <2> QED BY Zenon, <1>3, <2>6, <2>7, <2>8, <2>9
<1>6. ASSUME NEW i \in 1 .. Len(all)
      PROVE  \E k \in 1 .. n : \E j \in 1 .. Len(seqs[k]) : i = Len(J[k - 1]) + j
    <2> DEFINE Reached == {k \in 0 .. n : i <= Len(J[k])}
    <2>1. Reached \in SUBSET Nat /\ n \in Reached
        BY <1>1, <1>2, <1>3
    <2>2. PICK k \in Reached : \A m \in Reached : k <= m
        <3> HIDE DEF Reached
        <3> QED BY Zenon, <2>1, LeastOf
    <2>3. i \in Nat /\ i > 0
        BY <1>1, <1>2, <1>3
    <2>4. k # 0
        BY <1>2, <2>2, <2>3
    <2>5. k \in 1 .. n /\ k - 1 \in 0 .. n /\ k - 1 \notin Reached
        BY <1>1, <2>2, <2>4
    <2>6. J[k - 1] \in Seq(S) /\ seqs[k] \in Seq(S) /\ Glued(J[k - 1], seqs[k], J[k])
        BY Zenon, <1>2, <2>5
    <2>7. Len(J[k]) = Len(J[k - 1]) + Len(seqs[k]) /\ Len(seqs[k]) \in Nat /\ Len(J[k - 1]) \in Nat
        BY Zenon, <2>6, JoiningLen
    <2>8. ~(i <= Len(J[k - 1])) /\ i <= Len(J[k])
        BY Zenon, <2>2, <2>5
    <2>9. i - Len(J[k - 1]) \in 1 .. Len(seqs[k]) /\ i = Len(J[k - 1]) + (i - Len(J[k - 1]))
        BY Zenon, <2>3, <2>7, <2>8, Between
    <2> QED BY Zenon, <2>5, <2>9
<1> QED BY <1>1, <1>2, <1>3, <1>5, <1>6 DEF J, all, Offset


\* The pieces of a file; those without a heading are told of by the events of an answer.
Told ==
    [sec : {"event"}, t : {"start"}, i : Nat, kind : {"text", "thinking", "tool_use"}, name : Nat \cup {None}]
    \cup [sec : {"event"}, t : {"delta"}, i : Nat, key : {"text", "thinking", "tool_use"}, text : Nat]

Event == Told \cup [sec : {"event"}, t : {"json"}, blocks : Seq(TR!Block)]
Copy == [sec : {"api"}, k : Nat] \cup [sec : {"event"}, t : {"error"}, k : Nat] \cup Event
Piece == [sec : {"info", "response"}] \cup [sec : {"body"}, msgs : Seq(Nat)] \cup Copy

\* reassemble_sse() behind the first k blocks of a reply
Through(reply, k) == [blocks |-> [i \in 1 .. k |-> reply[i]], order |-> [i \in 1 .. k |-> i]]

\* and behind the first j deltas of the k-th
Within(reply, k, j) ==
    [blocks |-> [i \in 1 .. k |->
                    IF i = k THEN [kind |-> reply[k].kind, name |-> reply[k].name, text |-> SubSeq(reply[k].text, 1, j)]
                    ELSE reply[i]],
     order |-> [i \in 1 .. k |-> i]]

LEMMA SseNothing == ASSUME NEW reply PROVE Through(reply, 0) = [blocks |-> << >>, order |-> << >>]
<1>1. [i \in 1 .. 0 |-> reply[i]] = << >> /\ [i \in 1 .. 0 |-> i] = << >>
    OBVIOUS
<1> QED BY <1>1 DEF Through

LEMMA SseStart ==
    ASSUME NEW reply \in Seq(TR!Block), NEW k \in 1 .. Len(reply)
    PROVE  TR!Read(Through(reply, k - 1), TR!Start(k, reply[k])) = Within(reply, k, 0)
<1> DEFINE acc == Through(reply, k - 1)
           slot == [kind |-> reply[k].kind, name |-> reply[k].name, text |-> << >>]
<1>1. reply[k] \in TR!Block /\ k \in Nat /\ k > 0
    OBVIOUS
<1>2. TR!Read(acc, TR!Start(k, reply[k])) = TR!Opened(acc, k, slot)
    BY Zenon DEF TR!Read, TR!Start, TR!Slot
<1>3. Append([i \in 1 .. k - 1 |-> i], k) = [i \in 1 .. k |-> i]
    BY <1>1
<1>4. SubSeq(reply[k].text, 1, 0) = << >>
    BY <1>1 DEF TR!Block
<1>5. [j \in (1 .. k - 1) \cup {k} |-> IF j = k THEN slot ELSE [i \in 1 .. k - 1 |-> reply[i]][j]]
          = [i \in 1 .. k |-> IF i = k THEN slot ELSE reply[i]]
    <2>1. (1 .. k - 1) \cup {k} = 1 .. k
        BY <1>1
    <2> HIDE DEF slot
    <2>2. \A j \in 1 .. k : j = k \/ j \in 1 .. k - 1
        BY <1>1
    <2> QED BY <2>1, <2>2
<1> QED BY Zenon, <1>2, <1>3, <1>4, <1>5 DEF TR!Opened, Through, Within

LEMMA ReadDelta ==
    ASSUME NEW acc, NEW e, e.t = "delta", e.i \in DOMAIN acc.blocks
    PROVE  TR!Read(acc, e) = TR!Added(acc, e.i, e.text)
BY DEF TR!Read

LEMMA OtherText ==
    ASSUME NEW a, NEW b, NEW s, NEW u
    PROVE  [[kind |-> a, name |-> b, text |-> s] EXCEPT !.text = u] = [kind |-> a, name |-> b, text |-> u]
OBVIOUS

LEMMA SseDelta ==
    ASSUME NEW reply \in Seq(TR!Block), NEW k \in 1 .. Len(reply), NEW j \in 1 .. Len(reply[k].text)
    PROVE  TR!Read(Within(reply, k, j - 1), TR!Delta(k, reply[k], j)) = Within(reply, k, j)
<1> DEFINE acc == Within(reply, k, j - 1)
           slot(m) == [kind |-> reply[k].kind, name |-> reply[k].name, text |-> SubSeq(reply[k].text, 1, m)]
           t == reply[k].text
<1>1. t \in Seq(Nat) /\ k \in 1 .. k /\ j \in Nat /\ j > 0
    <2>1. reply[k] \in TR!Block
        OBVIOUS
    <2> QED BY <2>1 DEF TR!Block
<1>2. TR!Read(acc, TR!Delta(k, reply[k], j)) = TR!Added(acc, k, t[j])
    <2>1. k \in DOMAIN acc.blocks
        BY <1>1 DEF Within
    <2> DEFINE e == TR!Delta(k, reply[k], j)
    <2>2. e.t = "delta" /\ e.i = k /\ e.text = t[j]
        BY DEF TR!Delta
    <2> HIDE DEF acc, e, t
    <2>3. TR!Read(acc, e) = TR!Added(acc, k, t[j])
        BY Zenon, <2>1, <2>2, ReadDelta
    <2> QED BY Zenon, <2>3 DEF e
<1>3. Append(SubSeq(t, 1, j - 1), t[j]) = SubSeq(t, 1, j)
    <2> HIDE DEF t
    <2>1. j <= Len(t)
        BY DEF t
    <2> QED BY <1>1, <2>1
<1>4. acc = [blocks |-> [i \in 1 .. k |-> IF i = k THEN slot(j - 1) ELSE reply[i]], order |-> [i \in 1 .. k |-> i]]
    BY Zenon DEF Within
<1>5. Within(reply, k, j) = [blocks |-> [i \in 1 .. k |-> IF i = k THEN slot(j) ELSE reply[i]], order |-> [i \in 1 .. k |-> i]]
    BY Zenon DEF Within
<1>6. [slot(j - 1) EXCEPT !.text = Append(@, t[j])] = slot(j)
    <2> HIDE DEF t
    <2>1. slot(j - 1) = [kind |-> reply[k].kind, name |-> reply[k].name, text |-> SubSeq(t, 1, j - 1)]
        BY DEF t
    <2>2. slot(j) = [kind |-> reply[k].kind, name |-> reply[k].name, text |-> SubSeq(t, 1, j)]
        BY DEF t
    <2> HIDE DEF slot
    <2>3. slot(j - 1).text = SubSeq(t, 1, j - 1)
        BY <2>1
    <2>4. [slot(j - 1) EXCEPT !.text = SubSeq(t, 1, j)] = slot(j)
        <3>1. [slot(j - 1) EXCEPT !.text = SubSeq(t, 1, j)]
                  = [kind |-> reply[k].kind, name |-> reply[k].name, text |-> SubSeq(t, 1, j)]
            <4> DEFINE kind == reply[k].kind
                       name == reply[k].name
                       old == SubSeq(t, 1, j - 1)
                       new == SubSeq(t, 1, j)
            <4>1. slot(j - 1) = [kind |-> kind, name |-> name, text |-> old]
                BY <2>1
            <4> HIDE DEF kind, name, old, new
            <4>2. [[kind |-> kind, name |-> name, text |-> old] EXCEPT !.text = new] = [kind |-> kind, name |-> name, text |-> new]
                BY OtherText
            <4>3. [slot(j - 1) EXCEPT !.text = new] = [kind |-> kind, name |-> name, text |-> new]
                BY Zenon, <4>1, <4>2
            <4> QED BY Zenon, <4>3 DEF kind, name, new
        <3> QED BY Zenon, <2>2, <3>1
    <2> QED BY Zenon, <1>3, <2>3, <2>4
<1> HIDE DEF slot
<1>7. [[i \in 1 .. k |-> IF i = k THEN slot(j - 1) ELSE reply[i]] EXCEPT ![k] = slot(j)]
          = [i \in 1 .. k |-> IF i = k THEN slot(j) ELSE reply[i]]
    BY <1>1
<1> HIDE DEF acc, t
<1>8. acc.blocks[k] = slot(j - 1)
    BY <1>1, <1>4
<1>9. TR!Added(acc, k, t[j]) = [acc EXCEPT !.blocks = [acc.blocks EXCEPT ![k] = slot(j)]]
    <2>1. TR!Added(acc, k, t[j])
              = [acc EXCEPT !.blocks = [acc.blocks EXCEPT ![k] = [acc.blocks[k] EXCEPT !.text = Append(acc.blocks[k].text, t[j])]]]
        BY DEF TR!Added
    <2> QED BY Zenon, <1>6, <1>8, <2>1
<1>10. [acc EXCEPT !.blocks = [acc.blocks EXCEPT ![k] = slot(j)]]
          = [blocks |-> [i \in 1 .. k |-> IF i = k THEN slot(j) ELSE reply[i]], order |-> [i \in 1 .. k |-> i]]
    <2> DEFINE old == [i \in 1 .. k |-> IF i = k THEN slot(j - 1) ELSE reply[i]]
               new == [i \in 1 .. k |-> IF i = k THEN slot(j) ELSE reply[i]]
               order == [i \in 1 .. k |-> i]
    <2>1. acc = [blocks |-> old, order |-> order] /\ [old EXCEPT ![k] = slot(j)] = new
        BY Zenon, <1>4, <1>7
    <2> HIDE DEF old, new, order
    <2>2. [acc EXCEPT !.blocks = [acc.blocks EXCEPT ![k] = slot(j)]] = [blocks |-> new, order |-> order]
        BY <2>1
    <2> QED BY Zenon, <2>2 DEF new, order
<1> QED BY Zenon, <1>2, <1>9, <1>10, <1>5 DEF acc

LEMMA SseEnd ==
    ASSUME NEW reply \in Seq(TR!Block), NEW k \in 1 .. Len(reply)
    PROVE  Within(reply, k, Len(reply[k].text)) = Through(reply, k)
<1>1. reply[k] \in TR!Block
    OBVIOUS
<1>2. SubSeq(reply[k].text, 1, Len(reply[k].text)) = reply[k].text
    BY <1>1 DEF TR!Block
<1>3. [kind |-> reply[k].kind, name |-> reply[k].name, text |-> reply[k].text] = reply[k]
    BY <1>1 DEF TR!Block
<1> QED BY <1>2, <1>3 DEF Within, Through

\* The events of each block.
Parts(reply) ==
    [i \in DOMAIN reply |->
        <<TR!Start(i, reply[i])>> \o [k \in DOMAIN reply[i].text |-> TR!Delta(i, reply[i], k)]]

LEMMA PartOf ==
    ASSUME NEW reply \in Seq(TR!Block), NEW k \in 1 .. Len(reply)
    PROVE  /\ Parts(reply)[k] \in Seq(Told) /\ Len(reply[k].text) \in Nat
           /\ Len(Parts(reply)[k]) = 1 + Len(reply[k].text)
           /\ Parts(reply)[k][1] = TR!Start(k, reply[k])
           /\ \A j \in 1 .. Len(reply[k].text) : Parts(reply)[k][1 + j] = TR!Delta(k, reply[k], j)
<1> DEFINE t == reply[k].text
           s == <<TR!Start(k, reply[k])>>
           d == [m \in DOMAIN t |-> TR!Delta(k, reply[k], m)]
<1>1. reply[k] \in TR!Block /\ k \in Nat
    OBVIOUS
<1>2. t \in Seq(Nat) /\ Len(t) \in Nat /\ DOMAIN t = 1 .. Len(t)
    BY <1>1 DEF TR!Block
<1>3. TR!Start(k, reply[k]) \in Told
    BY <1>1 DEF TR!Start, TR!Block, Told
<1>4. \A m \in 1 .. Len(t) : TR!Delta(k, reply[k], m) \in Told
    <2> TAKE m \in 1 .. Len(t)
    <2>1. t[m] \in Nat /\ reply[k].kind \in {"text", "thinking", "tool_use"}
        BY <1>1, <1>2 DEF TR!Block
    <2> QED BY <1>1, <2>1 DEF TR!Delta, Told
<1>5. Parts(reply)[k] = s \o d
    <2>1. k \in DOMAIN reply
        OBVIOUS
    <2> QED BY Zenon, <2>1 DEF Parts
<1> HIDE DEF t
<1>6. d \in Seq(Told) /\ Len(d) = Len(t) /\ \A m \in 1 .. Len(t) : d[m] = TR!Delta(k, reply[k], m)
    BY <1>2, <1>4
<1>7. s \in Seq(Told) /\ Len(s) = 1 /\ s[1] = TR!Start(k, reply[k])
    BY <1>3
<1> HIDE DEF d, s
<1>8. Glued(s, d, Parts(reply)[k])
    BY <1>5 DEF Glued
<1>9. Parts(reply)[k] \in Seq(Told) /\ Len(Parts(reply)[k]) = Len(s) + Len(d)
    BY Zenon, <1>6, <1>7, <1>8, Joining, JoiningLen
<1>10. \A m \in 1 .. Len(s) : Parts(reply)[k][m] = s[m]
    BY Zenon, <1>6, <1>7, <1>8, JoiningLeft
<1>11. Beyond(Len(s), d, Parts(reply)[k])
    BY Zenon, <1>6, <1>7, <1>8, JoiningRight
<1>12. Parts(reply)[k][1] = TR!Start(k, reply[k])
    BY <1>7, <1>10
<1>13. ASSUME NEW j \in 1 .. Len(t) PROVE Parts(reply)[k][1 + j] = TR!Delta(k, reply[k], j)
    BY Zenon, <1>6, <1>7, <1>11 DEF Beyond
<1> QED BY Zenon, <1>2, <1>6, <1>7, <1>9, <1>12, <1>13 DEF t

LEMMA StreamParts ==
    ASSUME NEW reply \in Seq(TR!Block)
    PROVE  /\ TR!Stream(reply) = TR!Concat(Parts(reply))
           /\ Parts(reply) \in Seq(Seq(Told)) /\ Len(Parts(reply)) = Len(reply)
<1>1. TR!Stream(reply) = TR!Concat(Parts(reply))
    BY Zenon DEF TR!Stream, Parts
<1>2. \A k \in 1 .. Len(reply) : Parts(reply)[k] \in Seq(Told)
    BY Zenon, PartOf
<1>3. \E p : p = Parts(reply) /\ p = [i \in 1 .. Len(reply) |-> p[i]] /\ Len(reply) \in Nat
    <2>1. DOMAIN reply = 1 .. Len(reply) /\ Len(reply) \in Nat
        OBVIOUS
    <2> DEFINE F(i) == <<TR!Start(i, reply[i])>> \o [k \in DOMAIN reply[i].text |-> TR!Delta(i, reply[i], k)]
               p == [i \in 1 .. Len(reply) |-> F(i)]
    <2>2. p = Parts(reply)
        BY Zenon, <2>1 DEF Parts
    <2> HIDE DEF F
    <2>3. p = [i \in 1 .. Len(reply) |-> p[i]]
        OBVIOUS
    <2> HIDE DEF p
    <2> QED BY Zenon, <2>1, <2>2, <2>3
<1>4. PICK p : p = Parts(reply) /\ p = [i \in 1 .. Len(reply) |-> p[i]] /\ Len(reply) \in Nat
    BY Zenon, <1>3
<1>5. \A k \in 1 .. Len(reply) : p[k] \in Seq(Told)
    BY Zenon, <1>2, <1>4
<1>6. PICK n : n = Len(reply)
    OBVIOUS
<1>7. n \in Nat /\ p = [i \in 1 .. n |-> p[i]] /\ \A k \in 1 .. n : p[k] \in Seq(Told)
    BY Zenon, <1>4, <1>5, <1>6
<1>8. \A X : (\A k \in 1 .. n : p[k] \in X) => p \in Seq(X) /\ Len(p) = n
    BY <1>7
<1> QED BY Zenon, <1>1, <1>4, <1>6, <1>7, <1>8

LEMMA SseReads ==
    ASSUME NEW reply \in Seq(TR!Block)
    PROVE  /\ TR!Stream(reply) \in Seq(Told)
           /\ TR!Known(TR!Stream(reply))[Len(TR!Stream(reply))] = Through(reply, Len(reply))
<1> DEFINE ev == TR!Stream(reply)
           P == Parts(reply)
           K == TR!Known(ev)
           n == Len(reply)
           off(k) == Offset(P, k)
           length(k) == Len(reply[k].text)
<1>1. ev = TR!Concat(P) /\ P \in Seq(Seq(Told)) /\ Len(P) = n
    BY Zenon, StreamParts
<1>2. n \in Nat
    OBVIOUS
<1>3. /\ ev \in Seq(Told) /\ Len(ev) = off(n)
      /\ \A k \in 1 .. n : \A j \in 1 .. Len(P[k]) :
             off(k - 1) + j \in 1 .. Len(ev) /\ ev[off(k - 1) + j] = P[k][j]
    <2> HIDE DEF P, ev
    <2>1. /\ TR!Concat(P) \in Seq(Told) /\ Len(TR!Concat(P)) = Offset(P, Len(P))
          /\ \A k \in 1 .. Len(P) : \A j \in 1 .. Len(P[k]) :
                 /\ Offset(P, k - 1) + j \in 1 .. Len(TR!Concat(P))
                 /\ TR!Concat(P)[Offset(P, k - 1) + j] = P[k][j]
        BY Zenon, <1>1, ConcatParts
    <2> QED BY Zenon, <1>1, <2>1
<1>4. /\ off(0) = 0 /\ \A k \in 0 .. n : off(k) \in Nat
      /\ \A k \in 1 .. n : off(k) = off(k - 1) + Len(P[k])
    BY Zenon, <1>1, JoinedIsSeq
<1>5. \A k \in 1 .. n :
          /\ length(k) \in Nat /\ Len(P[k]) = 1 + length(k) /\ P[k][1] = TR!Start(k, reply[k])
          /\ \A j \in 1 .. length(k) : P[k][1 + j] = TR!Delta(k, reply[k], j)
    BY Zenon, PartOf
<1>6. Len(ev) \in Nat
    BY <1>2, <1>3, <1>4
<1>7. K = [k \in 0 .. Len(ev) |-> IF k = 0 THEN [blocks |-> << >>, order |-> << >>] ELSE TR!Read(K[k - 1], ev[k])]
    BY Zenon, <1>6, KnownUnfolds
<1> HIDE DEF K, ev, P, off
<1>8. K[0] = Through(reply, 0)
    <2>1. K[0] = [blocks |-> << >>, order |-> << >>]
        BY <1>6, <1>7
    <2> QED BY Zenon, <2>1, SseNothing
<1>9. ASSUME NEW m \in 1 .. Len(ev) PROVE K[m] = TR!Read(K[m - 1], ev[m])
    <2>1. m \in 0 .. Len(ev) /\ m # 0
        BY <1>6
    <2> QED BY Zenon, <1>7, <2>1
<1>10. ASSUME NEW k \in 1 .. n, K[off(k - 1)] = Through(reply, k - 1) PROVE K[off(k)] = Through(reply, k)
    <2> DEFINE o == off(k - 1) + 1
               T == {j \in Nat : K[o + j] = Within(reply, k, j)}
    <2>1. /\ off(k - 1) \in Nat /\ length(k) \in Nat /\ Len(P[k]) = 1 + length(k)
          /\ off(k) = off(k - 1) + Len(P[k])
        BY <1>4, <1>5
    <2> HIDE DEF length
    <2>2. o \in Nat /\ o - 1 = off(k - 1) /\ o + 0 = o /\ off(k) = o + length(k) /\ 1 \in 1 .. Len(P[k])
        BY <2>1
    <2>3. o \in 1 .. Len(ev) /\ ev[o] = TR!Start(k, reply[k])
        <3>1. o \in 1 .. Len(ev) /\ ev[o] = P[k][1]
            BY Zenon, <1>3, <2>2
        <3> QED BY Zenon, <1>5, <3>1
    <2>4. 0 \in T
        <3>1. K[o] = TR!Read(Through(reply, k - 1), TR!Start(k, reply[k]))
            BY Zenon, <1>9, <1>10, <2>2, <2>3
        <3>2. K[o + 0] = Within(reply, k, 0)
            BY Zenon, <2>2, <3>1, SseStart
        <3> QED BY <3>2
    <2>5. ASSUME NEW i \in 0 .. length(k) - 1, i \in T PROVE i + 1 \in T
        <3>1. /\ i + 1 \in 1 .. length(k) /\ i + 1 \in Nat /\ (i + 1) - 1 = i /\ 1 + (i + 1) \in 1 .. Len(P[k])
              /\ off(k - 1) + (1 + (i + 1)) = o + (i + 1) /\ (o + (i + 1)) - 1 = o + i
            BY <2>1
        <3> HIDE DEF o
        <3>2. o + (i + 1) \in 1 .. Len(ev) /\ ev[o + (i + 1)] = P[k][1 + (i + 1)]
            BY Zenon, <1>3, <3>1
        <3>3. ev[o + (i + 1)] = TR!Delta(k, reply[k], i + 1)
            BY Zenon, <1>5, <3>1, <3>2 DEF length
        <3>4. K[o + (i + 1)] = TR!Read(K[o + i], ev[o + (i + 1)])
            <4>1. PICK m : m = o + (i + 1)
                OBVIOUS
            <4>2. m - 1 = o + i /\ m \in 1 .. Len(ev)
                BY Zenon, <3>1, <3>2, <4>1
            <4>3. K[m] = TR!Read(K[m - 1], ev[m])
                BY Zenon, <1>9, <4>2
            <4>4. K[m] = TR!Read(K[o + i], ev[m])
                BY Zenon, <4>2, <4>3
            <4> QED BY Zenon, <4>1, <4>4
        <3>5. K[o + i] = Within(reply, k, i)
            BY <2>5
        <3>6. TR!Read(Within(reply, k, i), TR!Delta(k, reply[k], i + 1)) = Within(reply, k, i + 1)
            <4>1. i + 1 \in 1 .. Len(reply[k].text)
                BY Zenon, <3>1 DEF length
            <4>2. TR!Read(Within(reply, k, (i + 1) - 1), TR!Delta(k, reply[k], i + 1)) = Within(reply, k, i + 1)
                BY Zenon, <4>1, SseDelta
            <4> QED BY Zenon, <3>1, <4>2
        <3>7. K[o + (i + 1)] = Within(reply, k, i + 1)
            BY Zenon, <3>3, <3>4, <3>5, <3>6
        <3> QED BY Zenon, <3>1, <3>7
    <2>6. \A j \in 0 .. length(k) : j \in T
        <3> HIDE DEF T
        <3> QED BY Zenon, <2>1, <2>4, <2>5, Reaches
    <2>7. K[o + length(k)] = Within(reply, k, length(k))
        <3>1. length(k) \in 0 .. length(k)
            BY <2>1
        <3> QED BY Zenon, <2>6, <3>1
    <2>8. Within(reply, k, length(k)) = Through(reply, k)
        BY Zenon, SseEnd DEF length
    <2> QED BY Zenon, <2>2, <2>7, <2>8
<1>11. ASSUME NEW k \in 0 .. n - 1, K[off(k)] = Through(reply, k) PROVE K[off(k + 1)] = Through(reply, k + 1)
    <2>1. k + 1 \in 1 .. n /\ (k + 1) - 1 = k
        BY <1>2
    <2> QED BY Zenon, <1>10, <1>11, <2>1
<1>12. \A k \in 0 .. n : K[off(k)] = Through(reply, k)
    <2> DEFINE T == {k \in Nat : K[off(k)] = Through(reply, k)}
    <2>1. 0 \in T
        BY <1>4, <1>8
    <2>2. \A k \in 0 .. n - 1 : k \in T => k + 1 \in T
        <3>1. \A k \in 0 .. n - 1 : k + 1 \in Nat
            BY <1>2
        <3> QED BY Zenon, <1>11, <3>1
    <2>3. \A k \in 0 .. n : k \in T
        <3> HIDE DEF T
        <3> QED BY Zenon, <1>2, <2>1, <2>2, Reaches
    <2> QED BY Zenon, <2>3
<1>13. n \in 0 .. n
    BY <1>2
<1> QED BY Zenon, <1>3, <1>12, <1>13 DEF K, ev

\* reassemble_sse() gives back what was streamed.
LEMMA SseReassembles ==
    ASSUME NEW reply \in Seq(TR!Block)
    PROVE  TR!ReassembleSse(TR!Stream(reply)) = TR!WithBody(reply)
<1>1. PICK n : n = Len(reply) /\ n \in Nat /\ DOMAIN reply = 1 .. n
    OBVIOUS
<1> DEFINE acc == Through(reply, n)
<1>2. TR!Known(TR!Stream(reply))[Len(TR!Stream(reply))] = acc
    BY Zenon, <1>1, SseReads
<1>3. [k \in DOMAIN acc.order |-> acc.blocks[acc.order[k]]] = reply
    <2>1. DOMAIN acc.order = 1 .. n /\ \A k \in 1 .. n : acc.blocks[acc.order[k]] = reply[k]
        BY <1>1 DEF Through
    <2>2. reply = [k \in 1 .. n |-> reply[k]]
        BY <1>1
    <2> HIDE DEF acc
    <2>3. [k \in DOMAIN acc.order |-> acc.blocks[acc.order[k]]] = [k \in 1 .. n |-> reply[k]]
        BY Zenon, <2>1
    <2> QED BY Zenon, <2>2, <2>3
<1> HIDE DEF acc
<1> QED BY Zenon, <1>2, <1>3 DEF TR!ReassembleSse

\* A set of positions that is laid out anew in the same order.
LEMMA SameSize ==
    ASSUME NEW n \in Nat, NEW D \in SUBSET (1 .. n), NEW g, \A a \in D : g[a] \in Nat,
           \A a, b \in D : a < b => g[a] < g[b]
    PROVE  Cardinality({g[a] : a \in D}) = Cardinality(D)
<1> DEFINE E == {g[a] : a \in D}
           f == [a \in D |-> g[a]]
<1>1. IsFiniteSet(D)
    <2>1. IsFiniteSet(1 .. n)
        BY FS_Interval
    <2> QED BY Zenon, <2>1, FS_Subset
<1>2. \A a, b \in D : a < b \/ b < a \/ a = b
    OBVIOUS
<1>3. \A a, b \in D : g[a] = g[b] => a = b
    BY <1>2
<1>4. f \in [D -> E] /\ \A a, b \in D : f[a] = f[b] => a = b
    BY Zenon, <1>3
<1>5. \A e \in E : \E a \in D : f[a] = e
    BY Zenon
<1>6. f \in Bijection(D, E)
    <2> HIDE DEF f, E
    <2> QED BY Zenon, <1>4, <1>5, Fun_IsBij
<1>7. ExistsBijection(D, E)
    BY Zenon, <1>6 DEF ExistsBijection
<1> HIDE DEF f, E
<1>8. Cardinality(E) = Cardinality(D)
    BY Zenon, <1>1, <1>7, FS_Bijection
<1> QED BY Zenon, <1>8 DEF E

LEMMA SameCount == \A S : TR!Cardinality(S) = Cardinality(S)
BY Zenon DEF TR!Cardinality, Cardinality, TR!IsFiniteSet, IsFiniteSet

\* Where g takes D.
Image(g, D) == {g[a] : a \in D}

LEMMA FirstOnes ==
    ASSUME NEW n \in Nat, NEW D \in SUBSET (1 .. n), NEW g, \A a \in D : g[a] \in Nat,
           \A a, b \in D : a < b => g[a] < g[b]
    PROVE  TR!FirstFive(Image(g, D)) = Image(g, TR!FirstFive(D))
<1> DEFINE E == {g[a] : a \in D}
           upTo(a) == {b \in D : b <= a}
<1>1. ASSUME NEW a \in D PROVE Cardinality({j \in E : j <= g[a]}) = Cardinality(upTo(a))
    <2>1. upTo(a) \in SUBSET (1 .. n) /\ (\A b \in upTo(a) : g[b] \in Nat) /\ \A b, c \in upTo(a) : b < c => g[b] < g[c]
        OBVIOUS
    <2>2. Cardinality({g[b] : b \in upTo(a)}) = Cardinality(upTo(a))
        <3> HIDE DEF upTo
        <3> QED BY Zenon, <2>1, SameSize
    <2>3. \A b \in D : b <= a <=> g[b] <= g[a]
        <3> TAKE b \in D
        <3>1. a \in Nat /\ b \in Nat /\ g[a] \in Nat /\ g[b] \in Nat /\ (a < b => g[a] < g[b]) /\ (b < a => g[b] < g[a])
            OBVIOUS
        <3>2. CASE a < b
            BY <3>1, <3>2
        <3>3. CASE b < a
            BY <3>1, <3>3
        <3>4. CASE a = b
            BY <3>1, <3>4
        <3> QED BY <3>1, <3>2, <3>3, <3>4
    <2>4. {j \in E : j <= g[a]} = {g[b] : b \in upTo(a)}
        <3>1. ASSUME NEW j PROVE j \in {x \in E : x <= g[a]} <=> j \in {g[b] : b \in upTo(a)}
            BY Zenon, <2>3
        <3> HIDE DEF E, upTo
        <3> QED BY Zenon, <3>1
    <2> QED BY Zenon, <2>2, <2>4
<1>2. ASSUME NEW j PROVE j \in TR!FirstFive(E) <=> j \in {g[a] : a \in TR!FirstFive(D)}
    <2>1. j \in E <=> \E a \in D : j = g[a]
        BY Zenon
    <2>2. j \in {g[a] : a \in TR!FirstFive(D)} <=> \E a \in TR!FirstFive(D) : j = g[a]
        BY Zenon
    <2>3. \A a : a \in TR!FirstFive(D) <=> a \in D /\ Cardinality(upTo(a)) <= 5
        BY Zenon, SameCount DEF TR!FirstFive
    <2> HIDE DEF E, upTo
    <2>4. j \in TR!FirstFive(E) <=> j \in E /\ Cardinality({i \in E : i <= j}) <= 5
        BY Zenon, SameCount DEF TR!FirstFive
    <2> QED BY Zenon, <1>1, <2>1, <2>2, <2>3, <2>4
<1> HIDE DEF E
<1>3. TR!FirstFive(E) = {g[a] : a \in TR!FirstFive(D)}
    <2> DEFINE F == {g[a] : a \in TR!FirstFive(D)}
    <2>1. \A j : j \in TR!FirstFive(E) <=> j \in F
        BY Zenon, <1>2
    <2> HIDE DEF F
    <2>2. TR!FirstFive(E) = F
        BY <2>1
    <2> QED BY Zenon, <2>2 DEF F
<1> QED BY Zenon, <1>3 DEF E, Image

\* section(): what lies between a heading and the next.
LEMMA SectionIs ==
    ASSUME NEW raw, NEW source, NEW at \in Nat, NEW end \in Nat, Len(raw) \in Nat, DOMAIN raw = 1 .. Len(raw),
           at \in 1 .. Len(raw), at < end,
           \A i \in 1 .. Len(raw) : (raw[i].sec = source /\ (source = "api" => raw[i].k = 1)) <=> i = at,
           end = Len(raw) + 1 \/ (end \in 1 .. Len(raw) /\ raw[end].sec # "event"),
           \A j \in 1 .. Len(raw) : at < j /\ j < end => raw[j].sec = "event"
    PROVE  TR!Section(raw, source) = SubSeq(raw, at + 1, end - 1)
<1> DEFINE heads == {i \in DOMAIN raw : raw[i].sec = source /\ (source = "api" => raw[i].k = 1)}
           ends == {j \in DOMAIN raw : j > at /\ raw[j].sec # "event"} \cup {Len(raw) + 1}
           first == CHOOSE i \in heads : \A j \in heads : i <= j
           last == CHOOSE j \in ends : \A k \in ends : j <= k
<1>1. heads = {at}
    <2>1. \A i : i \in heads <=> i \in 1 .. Len(raw) /\ i = at
        BY Zenon
    <2> HIDE DEF heads
    <2> QED BY <2>1
<1>2. first = at
    <2>1. at \in heads /\ \A j \in heads : at <= j
        BY <1>1
    <2>2. first \in heads
        <3> HIDE DEF heads
        <3> QED BY Zenon, <2>1
    <2> QED BY Zenon, <1>1, <2>2
<1>3. end \in ends /\ \A k \in ends : end <= k
    <2>1. end \in ends
        OBVIOUS
    <2>2. ASSUME NEW k \in ends, k < end PROVE FALSE
        <3>1. k \in 1 .. Len(raw) /\ at < k /\ raw[k].sec # "event"
            BY <2>2
        <3> QED BY <2>2, <3>1
    <2>3. \A k \in ends : k \in Nat
        OBVIOUS
    <2> HIDE DEF ends
    <2>4. \A k \in ends : end <= k
        BY <2>2, <2>3
    <2> QED BY Zenon, <2>1, <2>4
<1>4. last = end
    <2>1. \A k \in ends : k \in Nat
        OBVIOUS
    <2> HIDE DEF ends
    <2>2. last \in ends /\ \A k \in ends : last <= k
        BY Zenon, <1>3
    <2>3. last \in Nat /\ end \in Nat /\ last <= end /\ end <= last
        BY Zenon, <1>3, <2>1, <2>2
    <2> HIDE DEF last
    <2> QED BY <2>3
<1>5. heads # {}
    BY <1>1
<1>6. TR!Section(raw, source)
          = IF heads = {} THEN << >>
            ELSE SubSeq(raw, first + 1, (CHOOSE j \in {i \in DOMAIN raw : i > first /\ raw[i].sec # "event"} \cup {Len(raw) + 1} :
                                             \A k \in {i \in DOMAIN raw : i > first /\ raw[i].sec # "event"} \cup {Len(raw) + 1} : j <= k) - 1)
    BY Zenon DEF TR!Section
<1>7. TR!Section(raw, source) = SubSeq(raw, at + 1, last - 1)
    <2> HIDE DEF heads, first
    <2> QED BY Zenon, <1>2, <1>5, <1>6
<1> HIDE DEF heads, first, last
<1> QED BY Zenon, <1>4, <1>7

LEMMA NoSection ==
    ASSUME NEW raw, NEW source, \A i \in DOMAIN raw : raw[i].sec # source
    PROVE  TR!Section(raw, source) = << >>
<1>1. {i \in DOMAIN raw : raw[i].sec = source /\ (source = "api" => raw[i].k = 1)} = {}
    BY Zenon
<1> QED BY Zenon, <1>1 DEF TR!Section

LEMMA WiderSeq == ASSUME NEW A, NEW B, A \subseteq B, NEW s \in Seq(A) PROVE s \in Seq(B)
OBVIOUS

LEMMA RequestFields ==
    ASSUME NEW r \in TR!Request
    PROVE  r.msgs \in Seq(Nat) /\ r.tries \in Seq({"ok", "error"}) /\ r.reply \in Seq(TR!Block)
BY DEF TR!Request

LEMMA ReplyIs ==
    ASSUME NEW r \in TR!Request
    PROVE  TR!Reply(r) \in Seq(Event) /\ Len(TR!Reply(r)) \in Nat
<1>1. r.reply \in Seq(TR!Block)
    BY RequestFields
<1>2. CASE r.stream
    <2>1. TR!Stream(r.reply) \in Seq(Told)
        BY Zenon, <1>1, SseReads
    <2>2. TR!Stream(r.reply) \in Seq(Event)
        <3>1. Told \subseteq Event
            BY DEF Event
        <3> QED BY Zenon, <2>1, <3>1, WiderSeq
    <2>3. TR!Reply(r) \in Seq(Event)
        BY Zenon, <1>2, <2>2 DEF TR!Reply
    <2> QED BY <2>3
<1>3. CASE ~r.stream
    <2>1. [sec |-> "event", t |-> "json", blocks |-> r.reply] \in Event
        BY <1>1 DEF Event
    <2>2. TR!Reply(r) = <<[sec |-> "event", t |-> "json", blocks |-> r.reply]>>
        BY Zenon, <1>3 DEF TR!Reply
    <2> QED BY <2>1, <2>2
<1> QED BY Zenon, <1>2, <1>3

\* What a copy says behind its heading.
Answer(r, k) == IF r.tries[k] = "error" THEN <<[sec |-> "event", t |-> "error", k |-> k]>> ELSE TR!Reply(r)

LEMMA AnswerHolds ==
    ASSUME NEW r \in TR!Request, NEW k \in 1 .. Len(r.tries)
    PROVE  /\ k \in Nat /\ Answer(r, k) \in Seq(Copy) /\ Len(Answer(r, k)) \in Nat
           /\ \A j \in 1 .. Len(Answer(r, k)) :
                  /\ Answer(r, k)[j].sec = "event"
                  /\ Answer(r, k)[j].t = "error" <=> r.tries[k] = "error"
           /\ r.tries[k] = "error" => Len(Answer(r, k)) = 1 /\ Answer(r, k)[1].k = k
<1> DEFINE d == Answer(r, k)
           refused == [sec |-> "event", t |-> "error", k |-> k]
<1>1. k \in Nat
    <2>1. Len(r.tries) \in Nat
        BY RequestFields
    <2> QED BY <2>1
<1>2. refused \in Copy
    BY <1>1 DEF Copy
<1>3. \A e \in Event : e.sec = "event" /\ e.t # "error"
    BY DEF Event, Told
<1>4. ASSUME r.tries[k] = "error" PROVE d \in Seq(Copy) /\ Len(d) = 1 /\ d[1] = refused
    <2>1. d = <<refused>>
        BY Zenon, <1>4 DEF Answer
    <2> HIDE DEF d, refused
    <2> QED BY <1>2, <2>1
<1>5. ASSUME r.tries[k] # "error" PROVE d \in Seq(Copy) /\ Len(d) \in Nat /\ \A j \in 1 .. Len(d) : d[j] \in Event
    <2>1. d = TR!Reply(r)
        BY Zenon, <1>5 DEF Answer
    <2>2. d \in Seq(Event) /\ Len(d) \in Nat
        BY Zenon, <2>1, ReplyIs
    <2>3. d \in Seq(Copy)
        <3>1. Event \subseteq Copy
            BY DEF Copy
        <3> QED BY Zenon, <2>2, <3>1, WiderSeq
    <2> HIDE DEF d
    <2> QED BY <2>2, <2>3
<1>6. d \in Seq(Copy) /\ Len(d) \in Nat
    <2> HIDE DEF d, refused
    <2> QED BY <1>4, <1>5
<1>7. \A j \in 1 .. Len(d) : d[j].sec = "event" /\ (d[j].t = "error" <=> r.tries[k] = "error")
    <2>1. refused.sec = "event" /\ refused.t = "error"
        OBVIOUS
    <2> HIDE DEF d, refused
    <2>2. CASE r.tries[k] = "error"
        <3>1. \A j \in 1 .. Len(d) : d[j] = refused
            <4>1. Len(d) = 1 /\ d[1] = refused
                BY Zenon, <1>4, <2>2
            <4>2. \A j \in 1 .. 1 : j = 1
                OBVIOUS
            <4> QED BY Zenon, <4>1, <4>2
        <3> QED BY Zenon, <2>1, <2>2, <3>1
    <2>3. CASE r.tries[k] # "error"
        BY Zenon, <1>3, <1>5, <2>3
    <2> QED BY Zenon, <2>2, <2>3
<1>8. r.tries[k] = "error" => Len(d) = 1 /\ d[1].k = k
    <2>1. refused.k = k
        OBVIOUS
    <2> QED BY Zenon, <1>4, <2>1
<1> QED BY Zenon, <1>1, <1>6, <1>7, <1>8 DEF d

LEMMA AttemptIs ==
    ASSUME NEW r \in TR!Request, NEW k \in 1 .. Len(r.tries)
    PROVE  /\ TR!Attempt(r, k) \in Seq(Copy) /\ Len(Answer(r, k)) \in Nat
           /\ Len(TR!Attempt(r, k)) = 1 + Len(Answer(r, k))
           /\ TR!Attempt(r, k)[1] = [sec |-> "api", k |-> k]
           /\ \A j \in 1 .. Len(Answer(r, k)) : TR!Attempt(r, k)[1 + j] = Answer(r, k)[j]
<1> DEFINE head == [sec |-> "api", k |-> k]
           s == <<head>>
           d == Answer(r, k)
           A == TR!Attempt(r, k)
<1>1. k \in Nat /\ d \in Seq(Copy) /\ Len(d) \in Nat
    BY Zenon, AnswerHolds
<1>2. head \in Copy
    <2> HIDE DEF d
    <2> QED BY <1>1 DEF Copy
<1>3. A = s \o d
    BY Zenon DEF TR!Attempt, Answer
<1> HIDE DEF d, A
<1>4. s \in Seq(Copy) /\ Len(s) = 1 /\ s[1] = head
    BY <1>2
<1> HIDE DEF s, head
<1>5. Glued(s, d, A)
    BY Zenon, <1>3 DEF Glued
<1>6. A \in Seq(Copy) /\ Len(A) = 1 + Len(d)
    BY Zenon, <1>1, <1>4, <1>5, Joining, JoiningLen
<1>7. \A i \in 1 .. Len(s) : A[i] = s[i]
    BY Zenon, <1>1, <1>4, <1>5, JoiningLeft
<1>8. Beyond(Len(s), d, A)
    BY Zenon, <1>1, <1>4, <1>5, JoiningRight
<1>9. A[1] = head
    BY <1>4, <1>7
<1> QED BY Zenon, <1>1, <1>4, <1>6, <1>8, <1>9 DEF Beyond, d, A, head

LEMMA SeqOf ==
    ASSUME NEW X, NEW n \in Nat, NEW p, p = [i \in 1 .. n |-> p[i]], \A k \in 1 .. n : p[k] \in X
    PROVE  p \in Seq(X) /\ Len(p) = n
OBVIOUS

\* The upstream copies of a whole file.
Attempts(r) == [k \in DOMAIN r.tries |-> TR!Attempt(r, k)]
Copies(r) == TR!Concat(Attempts(r))

LEMMA AttemptsAre ==
    ASSUME NEW r \in TR!Request
    PROVE  /\ Len(r.tries) \in Nat /\ DOMAIN r.tries = 1 .. Len(r.tries)
           /\ Attempts(r) \in Seq(Seq(Copy)) /\ Len(Attempts(r)) = Len(r.tries)
           /\ \A k \in 1 .. Len(r.tries) : Attempts(r)[k] = TR!Attempt(r, k)
<1>1. Len(r.tries) \in Nat /\ DOMAIN r.tries = 1 .. Len(r.tries)
    BY RequestFields
<1>2. PICK n : n = Len(r.tries)
    OBVIOUS
<1>3. \A k \in 1 .. n : Attempts(r)[k] = TR!Attempt(r, k)
    BY <1>1, <1>2 DEF Attempts
<1>4. Attempts(r) = [k \in 1 .. n |-> Attempts(r)[k]]
    <2> DEFINE p == [k \in 1 .. n |-> TR!Attempt(r, k)]
    <2>1. Attempts(r) = p
        BY Zenon, <1>1, <1>2 DEF Attempts
    <2>2. p = [k \in 1 .. n |-> p[k]]
        BY Zenon
    <2> HIDE DEF p
    <2> QED BY Zenon, <2>1, <2>2
<1>5. \A k \in 1 .. n : Attempts(r)[k] \in Seq(Copy)
    <2>1. \A k \in 1 .. Len(r.tries) : TR!Attempt(r, k) \in Seq(Copy)
        BY Zenon, AttemptIs
    <2> QED BY Zenon, <1>2, <1>3, <2>1
<1>6. Attempts(r) \in Seq(Seq(Copy)) /\ Len(Attempts(r)) = n
    BY Zenon, <1>1, <1>2, <1>4, <1>5, SeqOf
<1> QED BY Zenon, <1>1, <1>2, <1>3, <1>6

LEMMA LaidOut ==
    ASSUME NEW r \in TR!Request, r.whole
    PROVE  /\ Len(Copies(r)) \in Nat /\ TR!Pieces(r) \in Seq(Piece)
           /\ Len(TR!Pieces(r)) = (3 + Len(Copies(r))) + Len(TR!Reply(r))
           /\ TR!Pieces(r)[1] = [sec |-> "info"] /\ TR!Pieces(r)[2] = [sec |-> "body", msgs |-> r.msgs]
           /\ \A i \in 1 .. Len(Copies(r)) : TR!Pieces(r)[2 + i] = Copies(r)[i]
           /\ TR!Pieces(r)[3 + Len(Copies(r))] = [sec |-> "response"]
           /\ \A j \in 1 .. Len(TR!Reply(r)) : TR!Pieces(r)[(3 + Len(Copies(r))) + j] = TR!Reply(r)[j]
<1> DEFINE P == TR!Pieces(r)
           C == Copies(r)
           R == TR!Reply(r)
           info == [sec |-> "info"]
           body == [sec |-> "body", msgs |-> r.msgs]
           response == [sec |-> "response"]
           s == <<info, body>>
           m == <<response>>
           x == s \o C
           y == x \o m
<1>1. info \in Piece /\ body \in Piece /\ response \in Piece
    BY RequestFields DEF Piece
<1>2. R \in Seq(Piece) /\ Len(R) \in Nat
    <2>1. Event \subseteq Piece
        BY DEF Piece, Copy
    <2> QED BY Zenon, <2>1, ReplyIs, WiderSeq
<1>3. C \in Seq(Piece)
    <2>1. Copy \subseteq Piece
        BY DEF Piece
    <2>2. C \in Seq(Copy)
        <3>1. Attempts(r) \in Seq(Seq(Copy))
            BY Zenon, AttemptsAre
        <3> QED BY Zenon, <3>1, ConcatParts DEF Copies
    <2> QED BY Zenon, <2>1, <2>2, WiderSeq
<1>4. P = y \o R
    BY Zenon DEF TR!Pieces, Copies, Attempts
<1> HIDE DEF P, C, R, info, body, response
<1>5. /\ s \in Seq(Piece) /\ Len(s) = 2 /\ s[1] = info /\ s[2] = body
      /\ m \in Seq(Piece) /\ Len(m) = 1 /\ m[1] = response
    BY <1>1
<1>6. Glued(s, C, x) /\ Glued(x, m, y) /\ Glued(y, R, P)
    BY Zenon, <1>4 DEF Glued
<1> HIDE DEF s, m, x, y
<1>7. x \in Seq(Piece) /\ Len(C) \in Nat /\ Len(x) = Len(s) + Len(C)
    <2>1. x \in Seq(Piece)
        BY Zenon, <1>3, <1>5, <1>6, Joining
    <2>2. s \in Seq(Piece) /\ Glued(s, C, x)
        BY Zenon, <1>5, <1>6
    <2>3. Len(C) \in Nat /\ Len(x) = Len(s) + Len(C)
        BY Zenon, <1>3, <2>2, JoiningLen
    <2> QED BY Zenon, <2>1, <2>3
<1>8. y \in Seq(Piece) /\ Len(y) = Len(x) + Len(m)
    <2>1. y \in Seq(Piece)
        BY Zenon, <1>5, <1>6, <1>7, Joining
    <2>2. m \in Seq(Piece) /\ x \in Seq(Piece) /\ Glued(x, m, y)
        BY Zenon, <1>5, <1>6, <1>7
    <2>3. Len(y) = Len(x) + Len(m)
        BY Zenon, <2>2, JoiningLen
    <2> QED BY Zenon, <2>1, <2>3
<1>9. P \in Seq(Piece) /\ Len(P) = Len(y) + Len(R)
    BY Zenon, <1>2, <1>6, <1>8, Joining, JoiningLen
<1>10. (\A i \in 1 .. Len(s) : x[i] = s[i]) /\ Beyond(Len(s), C, x)
    BY Zenon, <1>3, <1>5, <1>6, JoiningLeft, JoiningRight
<1>11. (\A i \in 1 .. Len(x) : y[i] = x[i]) /\ Beyond(Len(x), m, y)
    BY Zenon, <1>5, <1>6, <1>7, JoiningLeft, JoiningRight
<1>12. (\A i \in 1 .. Len(y) : P[i] = y[i]) /\ Beyond(Len(y), R, P)
    BY Zenon, <1>2, <1>6, <1>8, JoiningLeft, JoiningRight
<1>13. Len(x) = 2 + Len(C) /\ Len(y) = 3 + Len(C)
    BY <1>5, <1>7, <1>8
<1>14. ASSUME NEW i \in 1 .. Len(x) PROVE P[i] = x[i]
    <2>1. i \in 1 .. Len(y)
        BY <1>7, <1>13
    <2> QED BY Zenon, <1>11, <1>12, <2>1
<1>15. P[1] = info /\ P[2] = body
    <2>1. 1 \in 1 .. Len(s) /\ 2 \in 1 .. Len(s) /\ 1 \in 1 .. Len(x) /\ 2 \in 1 .. Len(x)
        BY <1>5, <1>7, <1>13
    <2>2. P[1] = x[1] /\ P[2] = x[2]
        BY Zenon, <1>14, <2>1
    <2>3. x[1] = s[1] /\ x[2] = s[2]
        BY Zenon, <1>10, <2>1
    <2> QED BY Zenon, <1>5, <2>2, <2>3
<1>16. ASSUME NEW i \in 1 .. Len(C) PROVE P[2 + i] = C[i]
    <2>1. 2 + i \in 1 .. Len(x)
        BY <1>7, <1>13
    <2>2. x[2 + i] = C[i]
        BY Zenon, <1>5, <1>10 DEF Beyond
    <2> QED BY Zenon, <1>14, <2>1, <2>2
<1>17. P[3 + Len(C)] = response
    <2>1. 1 \in 1 .. Len(m) /\ 3 + Len(C) \in 1 .. Len(y) /\ Len(x) + 1 = 3 + Len(C)
        BY <1>5, <1>7, <1>13
    <2>2. y[Len(x) + 1] = m[1]
        BY Zenon, <1>11, <2>1 DEF Beyond
    <2> QED BY Zenon, <1>5, <1>12, <2>1, <2>2
<1>18. \A j \in 1 .. Len(R) : P[(3 + Len(C)) + j] = R[j]
    BY Zenon, <1>12, <1>13 DEF Beyond
<1> QED BY Zenon, <1>7, <1>9, <1>13, <1>15, <1>16, <1>17, <1>18 DEF P, C, R, info, body, response

\* Where the heading of the k-th copy stands, and where that of the response.
Place(r, k) == 3 + Offset(Attempts(r), k - 1)
Heading(r) == 3 + Len(Copies(r))

LEMMA PlacesRise ==
    ASSUME NEW r \in TR!Request
    PROVE  /\ Len(r.tries) \in Nat
           /\ \A k \in 1 .. Len(r.tries) :
                  /\ Place(r, k) \in Nat /\ Place(r, k + 1) = Place(r, k) + (1 + Len(Answer(r, k)))
                  /\ Place(r, k + 1) <= Heading(r)
           /\ Place(r, 1) = 3 /\ Place(r, Len(r.tries) + 1) = Heading(r)
           /\ \A a, b \in 1 .. Len(r.tries) : a < b => Place(r, a) < Place(r, b)
<1> DEFINE A == Attempts(r)
           n == Len(r.tries)
<1>1. n \in Nat /\ A \in Seq(Seq(Copy)) /\ Len(A) = n /\ \A k \in 1 .. n : A[k] = TR!Attempt(r, k)
    BY Zenon, AttemptsAre
<1>2. ASSUME NEW k \in 1 .. n PROVE Len(Answer(r, k)) \in Nat /\ Len(TR!Attempt(r, k)) = 1 + Len(Answer(r, k))
    BY Zenon, AttemptIs
<1> HIDE DEF A
<1>3. /\ Offset(A, 0) = 0 /\ \A k \in 0 .. n : Offset(A, k) \in Nat
      /\ \A k \in 1 .. n : Offset(A, k) = Offset(A, k - 1) + Len(A[k])
    BY Zenon, <1>1, JoinedIsSeq
<1>4. \A k \in 0 .. n : \A m \in k .. n : Offset(A, k) <= Offset(A, m)
    BY Zenon, <1>1, JoinedStays
<1>5. Len(Copies(r)) = Offset(A, n)
    <2>1. Len(TR!Concat(A)) = Offset(A, Len(A))
        BY Zenon, <1>1, ConcatParts
    <2> QED BY Zenon, <1>1, <2>1 DEF Copies, A
<1> HIDE DEF n
<1>6. ASSUME NEW k \in 1 .. n
      PROVE  /\ Place(r, k) \in Nat /\ Place(r, k + 1) = Place(r, k) + (1 + Len(Answer(r, k)))
             /\ Place(r, k + 1) <= Heading(r)
    <2>1. k \in 0 .. n /\ k - 1 \in 0 .. n /\ (k + 1) - 1 = k /\ n \in k .. n
        BY <1>1
    <2>2. Offset(A, k) = Offset(A, k - 1) + (1 + Len(Answer(r, k)))
        BY Zenon, <1>1, <1>2, <1>3
    <2>3. Offset(A, k) <= Offset(A, n)
        BY Zenon, <1>4, <2>1
    <2>4. Place(r, k) = 3 + Offset(A, k - 1) /\ Place(r, k + 1) = 3 + Offset(A, k) /\ Heading(r) = 3 + Offset(A, n)
        BY Zenon, <1>5, <2>1 DEF Place, Heading, A
    <2>5. Offset(A, k - 1) \in Nat /\ Offset(A, k) \in Nat /\ Offset(A, n) \in Nat /\ Len(Answer(r, k)) \in Nat
        <3>1. Len(Answer(r, k)) \in Nat
            BY Zenon, <1>2
        <3>2. Offset(A, k - 1) \in Nat /\ Offset(A, k) \in Nat /\ Offset(A, n) \in Nat
            <4>1. n \in 0 .. n
                BY <1>1
            <4> QED BY Zenon, <1>3, <2>1, <4>1
        <3> QED BY Zenon, <3>1, <3>2
    <2> QED BY <2>2, <2>3, <2>4, <2>5
<1>7. Place(r, 1) = 3 /\ Place(r, n + 1) = Heading(r)
    <2>1. (n + 1) - 1 = n /\ 1 - 1 = 0
        BY <1>1
    <2>2. Place(r, 1) = 3 + Offset(A, 0) /\ Place(r, n + 1) = 3 + Offset(A, n)
        BY Zenon, <2>1 DEF Place, A
    <2>3. Place(r, 1) = 3
        BY <1>3, <2>2
    <2> QED BY Zenon, <1>5, <2>2, <2>3 DEF Heading
<1>8. ASSUME NEW a \in 1 .. n, NEW b \in 1 .. n, a < b PROVE Place(r, a) < Place(r, b)
    <2>1. a \in 0 .. n /\ b - 1 \in a .. n /\ b - 1 \in 0 .. n /\ (a + 1) - 1 = a
        BY <1>1, <1>8
    <2>2. Offset(A, a) <= Offset(A, b - 1)
        BY Zenon, <1>4, <2>1
    <2>3. Place(r, a + 1) = 3 + Offset(A, a) /\ Place(r, b) = 3 + Offset(A, b - 1)
        BY Zenon, <2>1 DEF Place, A
    <2>4. Offset(A, a) \in Nat /\ Offset(A, b - 1) \in Nat /\ Len(Answer(r, a)) \in Nat
        BY Zenon, <1>2, <1>3, <2>1
    <2>5. Place(r, a) \in Nat /\ Place(r, a + 1) = Place(r, a) + (1 + Len(Answer(r, a)))
        BY Zenon, <1>6
    <2> QED BY <2>2, <2>3, <2>4, <2>5
<1> QED BY Zenon, <1>1, <1>6, <1>7, <1>8 DEF n

\* What stands there.
LEMMA CopiesAre ==
    ASSUME NEW r \in TR!Request, r.whole
    PROVE  /\ \A k \in 1 .. Len(r.tries) :
                  /\ TR!Pieces(r)[Place(r, k)] = [sec |-> "api", k |-> k]
                  /\ \A j \in 1 .. Len(Answer(r, k)) : TR!Pieces(r)[Place(r, k) + j] = Answer(r, k)[j]
           /\ \A i \in 1 .. Len(Copies(r)) : \E k \in 1 .. Len(r.tries) :
                  2 + i = Place(r, k) \/ \E j \in 1 .. Len(Answer(r, k)) : 2 + i = Place(r, k) + j
<1> DEFINE A == Attempts(r)
           n == Len(r.tries)
           C == Copies(r)
           P == TR!Pieces(r)
<1>1. n \in Nat /\ A \in Seq(Seq(Copy)) /\ Len(A) = n /\ \A k \in 1 .. n : A[k] = TR!Attempt(r, k)
    BY Zenon, AttemptsAre
<1>2. ASSUME NEW k \in 1 .. n
      PROVE  /\ Len(Answer(r, k)) \in Nat /\ Len(TR!Attempt(r, k)) = 1 + Len(Answer(r, k))
             /\ TR!Attempt(r, k)[1] = [sec |-> "api", k |-> k]
             /\ \A j \in 1 .. Len(Answer(r, k)) : TR!Attempt(r, k)[1 + j] = Answer(r, k)[j]
    BY Zenon, AttemptIs
<1>3. \A i \in 1 .. Len(C) : P[2 + i] = C[i]
    BY Zenon, LaidOut
<1> HIDE DEF A, P
<1>4. /\ \A k \in 1 .. n : \A j \in 1 .. Len(A[k]) :
             Offset(A, k - 1) + j \in 1 .. Len(C) /\ C[Offset(A, k - 1) + j] = A[k][j]
      /\ \A i \in 1 .. Len(C) : \E k \in 1 .. n : \E j \in 1 .. Len(A[k]) : i = Offset(A, k - 1) + j
    <2>1. C = TR!Concat(A)
        BY Zenon DEF Copies, A
    <2> HIDE DEF C
    <2>2. /\ \A k \in 1 .. Len(A) : \A j \in 1 .. Len(A[k]) :
                 /\ Offset(A, k - 1) + j \in 1 .. Len(TR!Concat(A))
                 /\ TR!Concat(A)[Offset(A, k - 1) + j] = A[k][j]
          /\ \A i \in 1 .. Len(TR!Concat(A)) :
                  \E k \in 1 .. Len(A) : \E j \in 1 .. Len(A[k]) : i = Offset(A, k - 1) + j
        BY Zenon, <1>1, ConcatParts
    <2> QED BY Zenon, <1>1, <2>1, <2>2
<1>5. \A k \in 1 .. n : Place(r, k) = 3 + Offset(A, k - 1) /\ Offset(A, k - 1) \in Nat
    <2>1. \A k \in 1 .. n : k - 1 \in 0 .. n
        BY <1>1
    <2>2. \A k \in 0 .. n : Offset(A, k) \in Nat
        BY Zenon, <1>1, JoinedIsSeq
    <2>3. \A k \in 1 .. n : Offset(A, k - 1) \in Nat
        BY Zenon, <2>1, <2>2
    <2> QED BY Zenon, <2>3 DEF Place, A
<1> HIDE DEF C, n
<1>6. ASSUME NEW k \in 1 .. n, NEW j \in 1 .. Len(A[k])
      PROVE  P[2 + (Offset(A, k - 1) + j)] = A[k][j]
    BY Zenon, <1>3, <1>4
<1>7. ASSUME NEW k \in 1 .. n
      PROVE  /\ P[Place(r, k)] = [sec |-> "api", k |-> k]
             /\ \A j \in 1 .. Len(Answer(r, k)) : P[Place(r, k) + j] = Answer(r, k)[j]
    <2>1. Len(A[k]) = 1 + Len(Answer(r, k)) /\ Len(Answer(r, k)) \in Nat
        BY Zenon, <1>1, <1>2
    <2>2. 1 \in 1 .. Len(A[k]) /\ 2 + (Offset(A, k - 1) + 1) = Place(r, k)
        BY <1>5, <2>1
    <2>3. P[Place(r, k)] = [sec |-> "api", k |-> k]
        <3>1. P[Place(r, k)] = A[k][1]
            BY Zenon, <1>6, <2>2
        <3> QED BY Zenon, <1>1, <1>2, <3>1
    <2>4. ASSUME NEW j \in 1 .. Len(Answer(r, k)) PROVE P[Place(r, k) + j] = Answer(r, k)[j]
        <3>1. 1 + j \in 1 .. Len(A[k]) /\ 2 + (Offset(A, k - 1) + (1 + j)) = Place(r, k) + j
            BY <1>5, <2>1
        <3>2. P[Place(r, k) + j] = A[k][1 + j]
            BY Zenon, <1>6, <3>1
        <3>3. TR!Attempt(r, k)[1 + j] = Answer(r, k)[j]
            BY Zenon, <1>2
        <3> QED BY Zenon, <1>1, <3>2, <3>3
    <2> QED BY Zenon, <2>3, <2>4
<1>8. ASSUME NEW i \in 1 .. Len(C)
      PROVE  \E k \in 1 .. n : 2 + i = Place(r, k) \/ \E j \in 1 .. Len(Answer(r, k)) : 2 + i = Place(r, k) + j
    <2>1. PICK k \in 1 .. n : \E j \in 1 .. Len(A[k]) : i = Offset(A, k - 1) + j
        BY Zenon, <1>4
    <2>2. PICK j \in 1 .. Len(A[k]) : i = Offset(A, k - 1) + j
        BY Zenon, <2>1
    <2>3. Len(A[k]) = 1 + Len(Answer(r, k)) /\ Len(Answer(r, k)) \in Nat /\ Place(r, k) = 3 + Offset(A, k - 1)
          /\ Offset(A, k - 1) \in Nat
        BY Zenon, <1>1, <1>2, <1>5
    <2>4. CASE j = 1
        <3>1. 2 + i = Place(r, k)
            BY <2>2, <2>3, <2>4
        <3> QED BY Zenon, <3>1
    <2>5. CASE j # 1
        <3>1. j - 1 \in 1 .. Len(Answer(r, k)) /\ 2 + i = Place(r, k) + (j - 1)
            BY <2>2, <2>3, <2>5
        <3> QED BY Zenon, <3>1
    <2> QED BY Zenon, <2>4, <2>5
<1> QED BY Zenon, <1>7, <1>8 DEF P, C, n

LEMMA WhereIs ==
    ASSUME NEW r \in TR!Request, r.whole, NEW i \in 1 .. Len(TR!Pieces(r))
    PROVE  \/ i = 1 /\ TR!Pieces(r)[i].sec = "info"
           \/ i = 2 /\ TR!Pieces(r)[i].sec = "body"
           \/ \E k \in 1 .. Len(r.tries) :
                  i = Place(r, k) /\ TR!Pieces(r)[i].sec = "api" /\ TR!Pieces(r)[i].k = k
           \/ \E k \in 1 .. Len(r.tries) : \E j \in 1 .. Len(Answer(r, k)) :
                  /\ i = Place(r, k) + j /\ TR!Pieces(r)[i].sec = "event"
                  /\ TR!Pieces(r)[i].t = "error" <=> r.tries[k] = "error"
           \/ i = Heading(r) /\ TR!Pieces(r)[i].sec = "response"
           \/ \E j \in 1 .. Len(TR!Reply(r)) :
                  i = Heading(r) + j /\ TR!Pieces(r)[i].sec = "event" /\ TR!Pieces(r)[i].t # "error"
<1> DEFINE P == TR!Pieces(r)
           R == TR!Reply(r)
           c == Len(Copies(r))
           n == Len(r.tries)
<1>1. /\ c \in Nat /\ Len(P) = (3 + c) + Len(R) /\ P[1] = [sec |-> "info"] /\ P[2] = [sec |-> "body", msgs |-> r.msgs]
      /\ P[3 + c] = [sec |-> "response"] /\ \A j \in 1 .. Len(R) : P[(3 + c) + j] = R[j]
    BY Zenon, LaidOut
<1>2. Len(R) \in Nat /\ R \in Seq(Event)
    BY Zenon, ReplyIs
<1>3. \A j \in 1 .. Len(R) : R[j].sec = "event" /\ R[j].t # "error"
    <2>1. \A e \in Event : e.sec = "event" /\ e.t # "error"
        BY DEF Event, Told
    <2>2. \A j \in 1 .. Len(R) : R[j] \in Event
        <3> HIDE DEF R
        <3> QED BY <1>2
    <2> QED BY Zenon, <2>1, <2>2
<1>4. \A k \in 1 .. n :
          /\ P[Place(r, k)] = [sec |-> "api", k |-> k]
          /\ \A j \in 1 .. Len(Answer(r, k)) : P[Place(r, k) + j] = Answer(r, k)[j]
    BY Zenon, CopiesAre
<1>5. \A m \in 1 .. c : \E k \in 1 .. n :
          2 + m = Place(r, k) \/ \E j \in 1 .. Len(Answer(r, k)) : 2 + m = Place(r, k) + j
    BY Zenon, CopiesAre
<1>6. \A k \in 1 .. n : \A j \in 1 .. Len(Answer(r, k)) :
          Answer(r, k)[j].sec = "event" /\ (Answer(r, k)[j].t = "error" <=> r.tries[k] = "error")
    BY Zenon, AnswerHolds
<1> HIDE DEF P, R, c, n
<1>7. Heading(r) = 3 + c
    BY DEF Heading, c
<1>8. CASE i = 1
    <2>1. P[i].sec = "info"
        BY <1>1, <1>8
    <2> QED BY Zenon, <1>8, <2>1 DEF P
<1>9. CASE i = 2
    <2>1. P[i].sec = "body"
        BY <1>1, <1>9
    <2> QED BY Zenon, <1>9, <2>1 DEF P
<1>10. CASE i \in 3 .. 2 + c
    <2>1. i - 2 \in 1 .. c /\ 2 + (i - 2) = i
        BY <1>1, <1>10
    <2>2. PICK k \in 1 .. n : i = Place(r, k) \/ \E j \in 1 .. Len(Answer(r, k)) : i = Place(r, k) + j
        BY Zenon, <1>5, <2>1
    <2>3. CASE i = Place(r, k)
        <3>1. P[i].sec = "api" /\ P[i].k = k
            <4>1. P[i] = [sec |-> "api", k |-> k]
                BY Zenon, <1>4, <2>3
            <4> QED BY <4>1
        <3> QED BY Zenon, <2>3, <3>1 DEF P, n
    <2>4. ASSUME NEW j \in 1 .. Len(Answer(r, k)), i = Place(r, k) + j
          PROVE  P[i].sec = "event" /\ (P[i].t = "error" <=> r.tries[k] = "error")
        <3>1. P[i] = Answer(r, k)[j]
            BY Zenon, <1>4, <2>4
        <3>2. Answer(r, k)[j].sec = "event" /\ (Answer(r, k)[j].t = "error" <=> r.tries[k] = "error")
            BY Zenon, <1>6
        <3> QED BY <3>1, <3>2
    <2>5. CASE \E j \in 1 .. Len(Answer(r, k)) : i = Place(r, k) + j
        BY Zenon, <2>4, <2>5 DEF P, n
    <2> QED BY Zenon, <2>2, <2>3, <2>5
<1>11. CASE i = 3 + c
    <2>1. P[i].sec = "response"
        BY <1>1, <1>11
    <2> QED BY Zenon, <1>7, <1>11, <2>1 DEF P
<1>12. CASE i > 3 + c
    <2>1. i - (3 + c) \in 1 .. Len(R) /\ i = (3 + c) + (i - (3 + c))
        <3>1. i \in 1 .. Len(P)
            BY DEF P
        <3> QED BY <1>1, <1>2, <1>12, <3>1
    <2>2. PICK j \in 1 .. Len(R) : i = (3 + c) + j
        BY Zenon, <2>1
    <2>3. P[i].sec = "event" /\ P[i].t # "error"
        BY Zenon, <1>1, <1>3, <2>2
    <2> QED BY Zenon, <1>7, <2>2, <2>3 DEF P, R
<1>13. i \in Nat /\ i > 0
    <2>1. i \in 1 .. Len(P) /\ Len(P) \in Nat
        BY <1>1, <1>2 DEF P
    <2> QED BY <2>1
<1>14. i = 1 \/ i = 2 \/ i \in 3 .. 2 + c \/ i = 3 + c \/ i > 3 + c
    BY <1>1, <1>13
<1> QED BY Zenon, <1>8, <1>9, <1>10, <1>11, <1>12, <1>14

\* The positions of the copies' headings, and of the errors they report.
Failed(r) == {k \in DOMAIN r.tries : r.tries[k] = "error"}

LEMMA PositionsAre ==
    ASSUME NEW r \in TR!Request, r.whole
    PROVE  /\ DOMAIN TR!Pieces(r) = 1 .. Len(TR!Pieces(r))
           /\ {i \in DOMAIN TR!Pieces(r) : TR!Pieces(r)[i].sec = "api"} = {Place(r, k) : k \in 1 .. Len(r.tries)}
           /\ {i \in DOMAIN TR!Pieces(r) : TR!Pieces(r)[i].sec = "event" /\ TR!Pieces(r)[i].t = "error"}
                  = {Place(r, k) + 1 : k \in Failed(r)}
           /\ \A k \in Failed(r) : TR!Pieces(r)[Place(r, k) + 1].k = k
<1> DEFINE P == TR!Pieces(r)
           n == Len(r.tries)
           apis == {i \in DOMAIN P : P[i].sec = "api"}
           errors == {i \in DOMAIN P : P[i].sec = "event" /\ P[i].t = "error"}
<1>1. P \in Seq(Piece) /\ Len(P) = Heading(r) + Len(TR!Reply(r)) /\ Len(Copies(r)) \in Nat
    BY Zenon, LaidOut DEF Heading
<1>2. Len(TR!Reply(r)) \in Nat /\ Heading(r) = 3 + Len(Copies(r))
    BY Zenon, ReplyIs DEF Heading
<1> HIDE DEF P
<1>3. DOMAIN P = 1 .. Len(P) /\ Len(P) \in Nat
    BY <1>1
<1>4. ASSUME NEW k \in 1 .. n
      PROVE  /\ Place(r, k) \in Nat /\ Place(r, k) > 0 /\ Len(Answer(r, k)) \in Nat
             /\ Place(r, k) + Len(Answer(r, k)) < Heading(r)
    <2>1. /\ Place(r, k) \in Nat /\ Place(r, k + 1) = Place(r, k) + (1 + Len(Answer(r, k)))
          /\ Place(r, k + 1) <= Heading(r)
        BY Zenon, PlacesRise
    <2>2. Len(Answer(r, k)) \in Nat
        BY Zenon, AnswerHolds
    <2>3. Place(r, 1) = 3 /\ 1 \in 1 .. n /\ (1 < k => Place(r, 1) < Place(r, k))
        <3>1. n \in Nat /\ k \in Nat
            BY Zenon, PlacesRise, AnswerHolds
        <3>2. 1 \in 1 .. n
            BY <3>1
        <3> HIDE DEF n
        <3> QED BY Zenon, <3>2, PlacesRise DEF n
    <2>4. k = 1 \/ 1 < k
        OBVIOUS
    <2> QED BY <1>1, <1>2, <2>1, <2>2, <2>3, <2>4
<1>5. ASSUME NEW k \in 1 .. n
      PROVE  /\ P[Place(r, k)].sec = "api"
             /\ \A j \in 1 .. Len(Answer(r, k)) : P[Place(r, k) + j] = Answer(r, k)[j]
    <2>1. /\ P[Place(r, k)] = [sec |-> "api", k |-> k]
          /\ \A j \in 1 .. Len(Answer(r, k)) : P[Place(r, k) + j] = Answer(r, k)[j]
        BY Zenon, CopiesAre DEF P
    <2> QED BY <2>1
<1>6. ASSUME NEW k \in 1 .. n, r.tries[k] = "error"
      PROVE  /\ Len(Answer(r, k)) = 1
             /\ P[Place(r, k) + 1].sec = "event" /\ P[Place(r, k) + 1].t = "error" /\ P[Place(r, k) + 1].k = k
    <2>1. Len(Answer(r, k)) = 1 /\ Answer(r, k)[1].k = k
        BY Zenon, <1>6, AnswerHolds
    <2>2. 1 \in 1 .. Len(Answer(r, k))
        BY <2>1
    <2>3. Answer(r, k)[1].sec = "event" /\ Answer(r, k)[1].t = "error"
        <3>1. \A j \in 1 .. Len(Answer(r, k)) :
                  Answer(r, k)[j].sec = "event" /\ (Answer(r, k)[j].t = "error" <=> r.tries[k] = "error")
            BY Zenon, AnswerHolds
        <3> QED BY Zenon, <1>6, <2>2, <3>1
    <2> QED BY Zenon, <1>5, <2>1, <2>2, <2>3
<1>7. ASSUME NEW i PROVE i \in apis <=> i \in {Place(r, k) : k \in 1 .. n}
    <2>1. ASSUME i \in apis PROVE \E k \in 1 .. n : i = Place(r, k)
        <3>1. i \in 1 .. Len(P) /\ P[i].sec = "api"
            BY Zenon, <1>3, <2>1
        <3>2. "api" # "info" /\ "api" # "body" /\ "api" # "event" /\ "api" # "response"
            OBVIOUS
        <3> QED BY Zenon, <3>1, <3>2, WhereIs DEF P
    <2>2. ASSUME NEW k \in 1 .. n, i = Place(r, k) PROVE i \in apis
        <3>1. i \in 1 .. Len(P)
            BY <1>1, <1>2, <1>4, <2>2
        <3> QED BY Zenon, <1>3, <1>5, <2>2, <3>1
    <2> HIDE DEF apis
    <2> QED BY Zenon, <2>1, <2>2
<1>8. DOMAIN r.tries = 1 .. n
    BY Zenon, AttemptsAre
<1>9. ASSUME NEW i PROVE i \in errors <=> i \in {Place(r, k) + 1 : k \in Failed(r)}
    <2>1. ASSUME i \in errors PROVE \E k \in Failed(r) : i = Place(r, k) + 1
        <3>1. i \in 1 .. Len(P) /\ P[i].sec = "event" /\ P[i].t = "error"
            BY Zenon, <1>3, <2>1
        <3>2. "event" # "info" /\ "event" # "body" /\ "event" # "api" /\ "event" # "response"
            OBVIOUS
        <3>3. PICK k \in 1 .. n : \E j \in 1 .. Len(Answer(r, k)) : i = Place(r, k) + j /\ r.tries[k] = "error"
            BY Zenon, <3>1, <3>2, WhereIs DEF P
        <3>4. PICK j \in 1 .. Len(Answer(r, k)) : i = Place(r, k) + j
            BY Zenon, <3>3
        <3>5. r.tries[k] = "error"
            BY Zenon, <3>3
        <3>6. j = 1
            <4>1. Len(Answer(r, k)) = 1
                BY Zenon, <1>6, <3>5
            <4> QED BY <4>1
        <3> QED BY Zenon, <1>8, <3>4, <3>5, <3>6 DEF Failed
    <2>2. ASSUME NEW k \in Failed(r), i = Place(r, k) + 1 PROVE i \in errors
        <3>1. k \in 1 .. n /\ r.tries[k] = "error"
            BY Zenon, <1>8 DEF Failed
        <3>2. Len(Answer(r, k)) = 1 /\ P[i].sec = "event" /\ P[i].t = "error"
            BY Zenon, <1>6, <2>2, <3>1
        <3>3. i \in 1 .. Len(P)
            <4>1. Place(r, k) \in Nat /\ Place(r, k) + Len(Answer(r, k)) < Heading(r)
                BY Zenon, <1>4, <3>1
            <4> QED BY <1>1, <1>2, <2>2, <3>2, <4>1
        <3> QED BY Zenon, <1>3, <3>2, <3>3
    <2> HIDE DEF errors
    <2> QED BY Zenon, <2>1, <2>2
<1>10. \A k \in Failed(r) : P[Place(r, k) + 1].k = k
    BY Zenon, <1>6, <1>8 DEF Failed
<1>11. apis = {Place(r, k) : k \in 1 .. n}
    <2> DEFINE Q == {Place(r, k) : k \in 1 .. n}
    <2>1. \A i : i \in apis <=> i \in Q
        BY Zenon, <1>7
    <2> HIDE DEF apis, Q
    <2>2. apis = Q
        BY <2>1
    <2> QED BY Zenon, <2>2 DEF Q
<1>12. errors = {Place(r, k) + 1 : k \in Failed(r)}
    <2> DEFINE Q == {Place(r, k) + 1 : k \in Failed(r)}
    <2>1. \A i : i \in errors <=> i \in Q
        BY Zenon, <1>9
    <2> HIDE DEF errors, Q
    <2>2. errors = Q
        BY <2>1
    <2> QED BY Zenon, <2>2 DEF Q
<1> QED BY Zenon, <1>3, <1>10, <1>11, <1>12 DEF P

LEMMA UpstreamIs ==
    ASSUME NEW r \in TR!Request, r.whole
    PROVE  /\ TR!UpstreamDetails(TR!Pieces(r)).attempts = Len(r.tries)
           /\ TR!UpstreamDetails(TR!Pieces(r)).errors = TR!FirstFive(Failed(r))
<1> DEFINE P == TR!Pieces(r)
           n == Len(r.tries)
           apis == {i \in DOMAIN P : P[i].sec = "api"}
           errors == {i \in DOMAIN P : P[i].sec = "event" /\ P[i].t = "error"}
           g == [k \in 1 .. n |-> Place(r, k)]
           h == [k \in 1 .. n |-> Place(r, k) + 1]
           some == TR!FirstFive(Failed(r))
<1>1. n \in Nat /\ \A k \in 1 .. n : g[k] \in Nat
    BY Zenon, PlacesRise
<1>2. \A a, b \in 1 .. n : a < b => g[a] < g[b]
    BY Zenon, PlacesRise
<1>3. apis = {g[k] : k \in 1 .. n} /\ errors = {h[k] : k \in Failed(r)} /\ \A k \in Failed(r) : P[h[k]].k = k
    <2>1. \A k \in Failed(r) : k \in 1 .. n
        <3>1. DOMAIN r.tries = 1 .. n
            BY Zenon, AttemptsAre
        <3> QED BY Zenon, <3>1 DEF Failed
    <2>2. /\ apis = {Place(r, k) : k \in 1 .. n} /\ errors = {Place(r, k) + 1 : k \in Failed(r)}
          /\ \A k \in Failed(r) : P[Place(r, k) + 1].k = k
        BY Zenon, PositionsAre
    <2>3. \A k \in 1 .. n : g[k] = Place(r, k) /\ h[k] = Place(r, k) + 1
        BY Zenon
    <2> HIDE DEF g, h, n, apis, errors, P
    <2>4. {Place(r, k) : k \in 1 .. n} = {g[k] : k \in 1 .. n}
        BY <2>3
    <2>5. {Place(r, k) + 1 : k \in Failed(r)} = {h[k] : k \in Failed(r)}
        BY <2>1, <2>3
    <2>6. \A k \in Failed(r) : P[h[k]].k = k
        BY Zenon, <2>1, <2>2, <2>3
    <2> QED BY Zenon, <2>2, <2>4, <2>5, <2>6
<1>4. Failed(r) \in SUBSET (1 .. n)
    <2>1. DOMAIN r.tries = 1 .. n
        BY Zenon, AttemptsAre
    <2> QED BY Zenon, <2>1 DEF Failed
<1>5. (\A k \in 1 .. n : h[k] \in Nat) /\ \A a, b \in 1 .. n : a < b => h[a] < h[b]
    <2>1. \A k \in 1 .. n : h[k] = g[k] + 1
        BY Zenon
    <2> HIDE DEF g, h, n
    <2> QED BY <1>1, <1>2, <2>1
<1> HIDE DEF g, h, n, apis, errors, P
<1>6. Cardinality(apis) = n
    <2>1. 1 .. n \in SUBSET (1 .. n)
        BY Zenon
    <2>2. Cardinality({g[k] : k \in 1 .. n}) = Cardinality(1 .. n)
        BY Zenon, <1>1, <1>2, <2>1, SameSize
    <2>3. Cardinality(1 .. n) = n
        BY <1>1, FS_Interval
    <2> QED BY Zenon, <1>3, <2>2, <2>3
<1>7. TR!FirstFive(errors) = {h[k] : k \in some}
    <2>1. (\A k \in Failed(r) : h[k] \in Nat) /\ \A a, b \in Failed(r) : a < b => h[a] < h[b]
        BY Zenon, <1>4, <1>5
    <2>2. TR!FirstFive({h[k] : k \in Failed(r)}) = {h[k] : k \in some}
        <3>1. n \in Nat
            BY Zenon, <1>1
        <3>2. PICK D : D = Failed(r)
            OBVIOUS
        <3>3. D \in SUBSET (1 .. n)
            BY Zenon, <1>4, <3>2
        <3>4. \A k \in D : h[k] \in Nat
            BY Zenon, <2>1, <3>2
        <3>5. \A a, b \in D : a < b => h[a] < h[b]
            BY Zenon, <2>1, <3>2
        <3>6. TR!FirstFive(Image(h, D)) = Image(h, TR!FirstFive(D))
            BY Zenon, <3>1, <3>3, <3>4, <3>5, FirstOnes
        <3> QED BY Zenon, <3>2, <3>6 DEF Image
    <2> QED BY Zenon, <1>3, <2>2
<1>8. \A k \in some : k \in Failed(r)
    BY Zenon DEF TR!FirstFive
<1> HIDE DEF some
<1>9. {P[i].k : i \in TR!FirstFive(errors)} = some
    <2>1. ASSUME NEW x PROVE x \in {P[i].k : i \in TR!FirstFive(errors)} <=> x \in some
        <3>1. ASSUME NEW k \in some PROVE k \in {P[i].k : i \in TR!FirstFive(errors)}
            <4>1. h[k] \in TR!FirstFive(errors) /\ P[h[k]].k = k
                BY Zenon, <1>3, <1>7, <1>8
            <4> QED BY Zenon, <4>1
        <3>2. ASSUME NEW i \in TR!FirstFive(errors) PROVE P[i].k \in some
            <4>1. PICK k \in some : i = h[k]
                BY Zenon, <1>7
            <4>2. P[h[k]].k = k
                BY Zenon, <1>3, <1>8
            <4> QED BY Zenon, <4>1, <4>2
        <3> QED BY Zenon, <3>1, <3>2
    <2> DEFINE Q == {P[i].k : i \in TR!FirstFive(errors)}
    <2>2. \A x : x \in Q <=> x \in some
        BY Zenon, <2>1
    <2> HIDE DEF Q
    <2>3. Q = some
        BY <2>2
    <2> QED BY Zenon, <2>3 DEF Q
<1>10. TR!UpstreamDetails(P) = [attempts |-> TR!Cardinality(apis), errors |-> {P[i].k : i \in TR!FirstFive(errors)}]
    BY Zenon DEF TR!UpstreamDetails, apis, errors
<1>11. TR!UpstreamDetails(P) = [attempts |-> n, errors |-> some]
    BY Zenon, <1>6, <1>9, <1>10, SameCount
<1>12. TR!UpstreamDetails(P).attempts = n /\ TR!UpstreamDetails(P).errors = some
    BY <1>11
<1> QED BY Zenon, <1>12 DEF P, n, some

LEMMA CutOut ==
    ASSUME NEW X, NEW u \in Seq(X), NEW Y, NEW d \in Seq(Y), NEW at \in Nat, at + Len(d) <= Len(u), Beyond(at, d, u)
    PROVE  SubSeq(u, at + 1, at + Len(d)) = d
<1>1. Len(d) \in Nat /\ d = [i \in 1 .. Len(d) |-> d[i]]
    OBVIOUS
<1>2. SubSeq(u, at + 1, at + Len(d)) = [i \in 1 .. Len(d) |-> u[at + i]]
    <2> DEFINE v == SubSeq(u, at + 1, at + Len(d))
    <2>1. v \in Seq(X) /\ Len(v) = Len(d)
        BY <1>1
    <2>2. \A i \in 1 .. Len(d) : v[i] = u[at + i]
        BY <1>1
    <2> HIDE DEF v
    <2>3. v = [i \in 1 .. Len(d) |-> v[i]]
        BY <1>1, <2>1
    <2>4. v = [i \in 1 .. Len(d) |-> u[at + i]]
        BY Zenon, <2>2, <2>3
    <2> QED BY Zenon, <2>4 DEF v
<1>3. [i \in 1 .. Len(d) |-> u[at + i]] = [i \in 1 .. Len(d) |-> d[i]]
    BY Zenon DEF Beyond
<1> QED BY Zenon, <1>1, <1>2, <1>3

\* What the client received.
LEMMA ResponseIs ==
    ASSUME NEW r \in TR!Request, r.whole
    PROVE  TR!Section(TR!Pieces(r), "response") = TR!Reply(r)
<1> DEFINE P == TR!Pieces(r)
           R == TR!Reply(r)
           at == Heading(r)
<1>1. /\ P \in Seq(Piece) /\ Len(P) = at + Len(R) /\ Len(Copies(r)) \in Nat
      /\ P[at] = [sec |-> "response"] /\ \A j \in 1 .. Len(R) : P[at + j] = R[j]
    BY Zenon, LaidOut DEF Heading
<1>2. R \in Seq(Event) /\ Len(R) \in Nat
    BY Zenon, ReplyIs
<1>3. at \in Nat /\ at > 2
    <2>1. at = 3 + Len(Copies(r))
        BY DEF Heading
    <2> HIDE DEF at
    <2> QED BY <1>1, <2>1
<1>4. \A k \in 1 .. Len(r.tries) :
          Place(r, k) \in Nat /\ Place(r, k + 1) = Place(r, k) + (1 + Len(Answer(r, k))) /\ Place(r, k + 1) <= at
    BY Zenon, PlacesRise
<1>5. \A k \in 1 .. Len(r.tries) : Len(Answer(r, k)) \in Nat
    BY Zenon, AnswerHolds
<1>6. \A i \in 1 .. Len(P) :
          \/ i = at /\ P[i].sec = "response"
          \/ i # at /\ P[i].sec # "response" /\ (i < at \/ P[i].sec = "event")
    <2> TAKE i \in 1 .. Len(P)
    <2>1. CASE (i = 1 /\ P[i].sec = "info") \/ (i = 2 /\ P[i].sec = "body")
        <3> HIDE DEF P, R, at
        <3> QED BY <1>3, <2>1
    <2>2. ASSUME NEW k \in 1 .. Len(r.tries), i = Place(r, k), P[i].sec = "api"
          PROVE  i # at /\ P[i].sec # "response" /\ i < at
        <3>1. Place(r, k) \in Nat /\ Place(r, k + 1) = Place(r, k) + (1 + Len(Answer(r, k))) /\ Place(r, k + 1) <= at
              /\ Len(Answer(r, k)) \in Nat
            BY Zenon, <1>4, <1>5
        <3> HIDE DEF P, R, at
        <3> QED BY <1>3, <2>2, <3>1
    <2>3. ASSUME NEW k \in 1 .. Len(r.tries), NEW j \in 1 .. Len(Answer(r, k)), i = Place(r, k) + j, P[i].sec = "event"
          PROVE  i # at /\ P[i].sec # "response" /\ i < at
        <3>1. Place(r, k) \in Nat /\ Place(r, k + 1) = Place(r, k) + (1 + Len(Answer(r, k))) /\ Place(r, k + 1) <= at
              /\ Len(Answer(r, k)) \in Nat
            BY Zenon, <1>4, <1>5
        <3> HIDE DEF P, R, at
        <3> QED BY <1>3, <2>3, <3>1
    <2>4. ASSUME NEW j \in 1 .. Len(R), i = at + j, P[i].sec = "event"
          PROVE  i # at /\ P[i].sec # "response"
        <3> HIDE DEF P, R, at
        <3> QED BY <1>2, <1>3, <2>4
    <2> QED BY Zenon, <2>1, <2>2, <2>3, <2>4, WhereIs
<1> HIDE DEF P, R, at
<1>7. Len(P) \in Nat /\ DOMAIN P = 1 .. Len(P) /\ at \in 1 .. Len(P) /\ at < Len(P) + 1 /\ Len(P) + 1 \in Nat
      /\ (Len(P) + 1) - 1 = at + Len(R)
    BY <1>1, <1>2, <1>3
<1>8. \A i \in 1 .. Len(P) : (P[i].sec = "response" /\ ("response" = "api" => P[i].k = 1)) <=> i = at
    <2>1. "response" # "api"
        OBVIOUS
    <2> QED BY Zenon, <1>6, <2>1
<1>9. \A j \in 1 .. Len(P) : at < j /\ j < Len(P) + 1 => P[j].sec = "event"
    BY <1>3, <1>6, <1>7
<1>10. TR!Section(P, "response") = SubSeq(P, at + 1, (Len(P) + 1) - 1)
    BY Zenon, <1>3, <1>7, <1>8, <1>9, SectionIs
<1>11. SubSeq(P, at + 1, at + Len(R)) = R
    <2>1. at + Len(R) <= Len(P)
        BY <1>1, <1>2, <1>3
    <2>2. Beyond(at, R, P)
        BY Zenon, <1>1 DEF Beyond
    <2> QED BY Zenon, <1>1, <1>2, <1>3, <2>1, <2>2, CutOut
<1> QED BY Zenon, <1>7, <1>10, <1>11 DEF P, R

\* What the first upstream copy says.
LEMMA ApiIs ==
    ASSUME NEW r \in TR!Request, r.whole
    PROVE  TR!Section(TR!Pieces(r), "api") = IF Len(r.tries) = 0 THEN << >> ELSE Answer(r, 1)
<1> DEFINE P == TR!Pieces(r)
           n == Len(r.tries)
           d == Answer(r, 1)
           end == Place(r, 2)
<1>1. n \in Nat /\ Place(r, 1) = 3 /\ Place(r, n + 1) = Heading(r)
    BY Zenon, PlacesRise
<1>2. DOMAIN P = 1 .. Len(P) /\ P \in Seq(Piece) /\ Len(P) = Heading(r) + Len(TR!Reply(r)) /\ Len(Copies(r)) \in Nat
      /\ P[Heading(r)] = [sec |-> "response"] /\ Len(TR!Reply(r)) \in Nat
    BY Zenon, LaidOut, PositionsAre, ReplyIs DEF Heading
<1>3. CASE n = 0
    <2>1. \A k \in 1 .. n : FALSE
        BY <1>3
    <2>2. \A i \in DOMAIN P : P[i].sec # "api"
        <3>1. ASSUME NEW i \in DOMAIN P, P[i].sec = "api" PROVE FALSE
            <4>1. P[i].sec # "info" /\ P[i].sec # "body" /\ P[i].sec # "event" /\ P[i].sec # "response"
                BY <3>1
            <4>2. i \in 1 .. Len(P)
                BY Zenon, <1>2
            <4> QED BY Zenon, <2>1, <4>1, <4>2, WhereIs
        <3> QED BY Zenon, <3>1
    <2>3. TR!Section(P, "api") = << >>
        BY Zenon, <2>2, NoSection
    <2> QED BY Zenon, <1>3, <2>3
<1>4. CASE n # 0
    <2>1. 1 \in 1 .. n /\ 1 + 1 = 2
        BY <1>1, <1>4
    <2>2. end = Place(r, 1) + (1 + Len(d)) /\ end <= Heading(r)
        BY Zenon, <2>1, PlacesRise
    <2>3. d \in Seq(Copy) /\ Len(d) \in Nat /\ \A j \in 1 .. Len(d) : d[j].sec = "event"
        <3>1. d \in Seq(Copy) /\ Len(d) \in Nat
            BY Zenon, <2>1, AnswerHolds
        <3>2. \A j \in 1 .. Len(d) : d[j].sec = "event" /\ (d[j].t = "error" <=> r.tries[1] = "error")
            BY Zenon, <2>1, AnswerHolds
        <3> QED BY Zenon, <3>1, <3>2
    <2>4. P[Place(r, 1)] = [sec |-> "api", k |-> 1] /\ \A j \in 1 .. Len(d) : P[Place(r, 1) + j] = d[j]
        BY Zenon, <2>1, CopiesAre
    <2>5. P[end].sec # "event"
        <3>1. CASE n = 1
            <4>1. end = Heading(r)
                BY <1>1, <3>1
            <4>2. P[end] = [sec |-> "response"]
                BY Zenon, <1>2, <4>1
            <4> QED BY <4>2
        <3>2. CASE n # 1
            <4>1. 2 \in 1 .. n
                <5> HIDE DEF n
                <5> QED BY <1>1, <1>4, <3>2
            <4>2. P[end] = [sec |-> "api", k |-> 2]
                BY Zenon, <4>1, CopiesAre
            <4> QED BY <4>2
        <3> QED BY Zenon, <3>1, <3>2
    <2>6. \A i \in 1 .. Len(P) : (P[i].sec = "api" /\ ("api" = "api" => P[i].k = 1)) <=> i = 3
        <3> TAKE i \in 1 .. Len(P)
        <3>1. ASSUME i = 3 PROVE P[i].sec = "api" /\ P[i].k = 1
            <4>1. P[i] = [sec |-> "api", k |-> 1]
                BY Zenon, <1>1, <2>4, <3>1
            <4> QED BY <4>1
        <3>2. ASSUME P[i].sec = "api", P[i].k = 1 PROVE i = 3
            <4>1. P[i].sec # "info" /\ P[i].sec # "body" /\ P[i].sec # "event" /\ P[i].sec # "response"
                BY <3>2
            <4>2. PICK k \in 1 .. n : i = Place(r, k) /\ P[i].k = k
                BY Zenon, <4>1, WhereIs
            <4>3. i = Place(r, 1)
                BY Zenon, <3>2, <4>2
            <4> QED BY Zenon, <1>1, <4>3
        <3> QED BY Zenon, <3>1, <3>2
    <2> HIDE DEF P, n, d, end
    <2>7. Heading(r) \in Nat
        BY <1>2 DEF Heading
    <2>8. /\ end = 3 + (1 + Len(d)) /\ end \in Nat /\ 3 < end /\ 3 \in 1 .. Len(P) /\ end \in 1 .. Len(P)
          /\ Len(P) \in Nat /\ end - 1 = 3 + Len(d) /\ 3 + Len(d) <= Len(P)
        BY <1>1, <1>2, <2>2, <2>3, <2>7
    <2>9. \A j \in 1 .. Len(P) : 3 < j /\ j < end => P[j].sec = "event"
        <3> SUFFICES ASSUME NEW j \in 1 .. Len(P), 3 < j, j < end PROVE P[j].sec = "event"
            BY Zenon
        <3>1. j - 3 \in 1 .. Len(d) /\ 3 + (j - 3) = j
            BY <2>3, <2>8
        <3>2. P[j] = d[j - 3]
            <4>1. PICK i \in 1 .. Len(d) : i = j - 3 /\ 3 + i = j
                BY Zenon, <3>1
            <4>2. P[3 + i] = d[i]
                BY Zenon, <1>1, <2>4
            <4> QED BY Zenon, <4>1, <4>2
        <3> QED BY Zenon, <2>3, <3>1, <3>2
    <2>10. TR!Section(P, "api") = SubSeq(P, 3 + 1, end - 1)
        <3>1. 3 \in Nat
            OBVIOUS
        <3>2. PICK source : source = "api"
            OBVIOUS
        <3>3. \A i \in 1 .. Len(P) : (P[i].sec = source /\ (source = "api" => P[i].k = 1)) <=> i = 3
            BY Zenon, <2>6, <3>2
        <3>4. TR!Section(P, source) = SubSeq(P, 3 + 1, end - 1)
            <4>1. end \in Nat /\ 3 < end /\ 3 \in 1 .. Len(P) /\ Len(P) \in Nat /\ DOMAIN P = 1 .. Len(P)
                BY Zenon, <1>2, <2>8
            <4>2. end = Len(P) + 1 \/ (end \in 1 .. Len(P) /\ P[end].sec # "event")
                BY Zenon, <2>5, <2>8
            <4> QED BY Zenon, <2>9, <3>1, <3>3, <4>1, <4>2, SectionIs
        <3> QED BY Zenon, <3>2, <3>4
    <2>11. SubSeq(P, 3 + 1, 3 + Len(d)) = d
        <3>1. 3 \in Nat
            OBVIOUS
        <3>2. Beyond(3, d, P)
            BY Zenon, <1>1, <2>4 DEF Beyond
        <3> QED BY Zenon, <1>2, <2>3, <2>8, <3>1, <3>2, CutOut
    <2> QED BY Zenon, <1>4, <2>8, <2>10, <2>11 DEF P, n, d
<1> QED BY Zenon, <1>3, <1>4

LEMMA NothingKept == TR!WithBody(<< >>) = << >> /\ TR!ToolNames(<< >>) = << >>
<1>1. Cardinality({}) = 0
    BY FS_EmptySet
<1>2. TR!Cardinality({}) = 0
    BY Zenon, <1>1, SameCount
<1>3. \A seq : TR!Chosen(seq, {}) = << >>
    <2> TAKE seq
    <2> DEFINE F(k) == seq[CHOOSE i \in {} : TR!Cardinality({j \in {} : j <= i}) = k]
    <2>1. TR!Chosen(seq, {}) = [k \in 1 .. 0 |-> F(k)]
        BY Zenon, <1>2 DEF TR!Chosen
    <2> HIDE DEF F
    <2>2. [k \in 1 .. 0 |-> F(k)] = << >>
        OBVIOUS
    <2> QED BY Zenon, <2>1, <2>2
<1>4. DOMAIN << >> = {}
    OBVIOUS
<1>5. {i \in DOMAIN << >> : << >>[i].text # << >>} = {}
      /\ {i \in DOMAIN << >> : << >>[i].kind = "tool_use" /\ << >>[i].name # None} = {}
    BY Zenon, <1>4
<1>6. TR!WithBody(<< >>) = << >>
    BY Zenon, <1>3, <1>5 DEF TR!WithBody
<1>7. TR!ToolNames(<< >>) = [k \in DOMAIN << >> |-> << >>[k].name]
    BY Zenon, <1>3, <1>5 DEF TR!ToolNames
<1>8. [k \in DOMAIN << >> |-> << >>[k].name] = << >>
    BY <1>4
<1> QED BY Zenon, <1>6, <1>7, <1>8

\* An answer without starts and deltas has nothing to put together.
LEMMA NothingRead ==
    ASSUME NEW ev, Len(ev) \in Nat, \A m \in 1 .. Len(ev) : ev[m].t \notin {"start", "delta"}
    PROVE  TR!ReassembleSse(ev) = << >>
<1> DEFINE K == TR!Known(ev)
           none == [blocks |-> << >>, order |-> << >>]
           n == Len(ev)
<1>1. K = [k \in 0 .. n |-> IF k = 0 THEN none ELSE TR!Read(K[k - 1], ev[k])]
    BY Zenon, KnownUnfolds
<1> HIDE DEF K, none
<1>2. ASSUME NEW acc, NEW m \in 1 .. n PROVE TR!Read(acc, ev[m]) = acc
    <2>1. PICK e : e = ev[m] /\ e.t # "start" /\ e.t # "delta"
        BY Zenon
    <2>2. TR!Read(acc, e) = acc
        BY <2>1 DEF TR!Read
    <2> QED BY Zenon, <2>1, <2>2
<1> DEFINE T == {k \in Nat : K[k] = none}
<1>3. 0 \in T
    BY <1>1
<1>4. ASSUME NEW k \in 0 .. n - 1, k \in T PROVE k + 1 \in T
    <2>1. k + 1 \in 1 .. n /\ k + 1 \in 0 .. n /\ k + 1 # 0 /\ (k + 1) - 1 = k /\ k + 1 \in Nat
        OBVIOUS
    <2>2. K[k] = none
        BY <1>4
    <2>3. K[k + 1] = TR!Read(K[(k + 1) - 1], ev[k + 1])
        BY Zenon, <1>1, <2>1
    <2>4. K[k + 1] = none
        BY Zenon, <1>2, <2>1, <2>2, <2>3
    <2> QED BY Zenon, <2>1, <2>4
<1>5. \A k \in 0 .. n : k \in T
    <2> HIDE DEF T
    <2> QED BY Zenon, <1>3, <1>4, Reaches
<1>6. K[n] = none
    <2>1. n \in 0 .. n
        OBVIOUS
    <2> QED BY Zenon, <1>5, <2>1
<1>7. none.order = << >> /\ DOMAIN << >> = {}
    BY DEF none
<1>8. [k \in DOMAIN none.order |-> none.blocks[none.order[k]]] = << >>
    BY <1>7
<1> QED BY Zenon, <1>6, <1>8, NothingKept DEF TR!ReassembleSse, K

LEMMA TurnStreamed ==
    ASSUME NEW raw, NEW source, NEW said, said = TR!ReassembleSse(TR!Section(raw, source)), said # << >>
    PROVE  TR!Turn(raw, source) = [reply |-> said, tools |-> TR!ToolNames(said), source |-> source]
BY Zenon DEF TR!Turn

LEMMA TurnNothing ==
    ASSUME NEW raw, NEW source, NEW body, body = TR!Section(raw, source), TR!ReassembleSse(body) = << >>,
           \A i \in DOMAIN body : body[i].t # "json"
    PROVE  TR!Turn(raw, source) = [reply |-> << >>, tools |-> << >>, source |-> None]
<1>1. {i \in DOMAIN body : body[i].t = "json"} = {}
    BY Zenon
<1> QED BY Zenon, <1>1 DEF TR!Turn

LEMMA TurnJson ==
    ASSUME NEW raw, NEW source, NEW reply,
           TR!Section(raw, source) = <<[sec |-> "event", t |-> "json", blocks |-> reply]>>
    PROVE  TR!Turn(raw, source) = [reply |-> TR!Flatten(reply), tools |-> TR!ToolNames(reply), source |-> source]
<1> DEFINE e == [sec |-> "event", t |-> "json", blocks |-> reply]
           body == TR!Section(raw, source)
           json == {i \in DOMAIN body : body[i].t = "json"}
           at == CHOOSE i \in json : \A j \in json : i <= j
<1>1. e.t = "json" /\ e.blocks = reply
    OBVIOUS
<1>2. body = <<e>>
    OBVIOUS
<1> HIDE DEF e, body
<1>3. Len(body) = 1 /\ DOMAIN body = 1 .. 1 /\ body[1] = e
    BY <1>2
<1>4. \A m \in 1 .. 1 : m = 1
    OBVIOUS
<1>5. TR!ReassembleSse(body) = << >>
    <2>1. Len(body) \in Nat
        BY <1>3
    <2>2. \A m \in 1 .. Len(body) : body[m].t \notin {"start", "delta"}
        <3>1. "json" \notin {"start", "delta"}
            OBVIOUS
        <3> QED BY Zenon, <1>1, <1>3, <1>4, <3>1
    <2> QED BY Zenon, <2>1, <2>2, NothingRead
<1>6. json = {1}
    <2>1. \A i : i \in json <=> i = 1
        <3>1. 1 \in 1 .. 1
            OBVIOUS
        <3> QED BY Zenon, <1>1, <1>3, <1>4, <3>1
    <2> HIDE DEF json
    <2> QED BY <2>1
<1>7. at = 1
    <2> HIDE DEF json
    <2>1. 1 \in json /\ \A j \in json : 1 <= j
        BY <1>6
    <2>2. at \in json
        BY Zenon, <2>1
    <2> HIDE DEF at
    <2> QED BY <1>6, <2>2
<1>8. json # {}
    BY <1>6
<1>9. body[at].blocks = reply
    BY Zenon, <1>1, <1>3, <1>7
<1>10. TR!Turn(raw, source)
           = IF TR!ReassembleSse(body) # << >>
             THEN [reply |-> TR!ReassembleSse(body), tools |-> TR!ToolNames(TR!ReassembleSse(body)), source |-> source]
             ELSE IF json # {}
             THEN [reply |-> TR!Flatten(body[at].blocks), tools |-> TR!ToolNames(body[at].blocks), source |-> source]
             ELSE [reply |-> << >>, tools |-> << >>, source |-> None]
    BY Zenon DEF TR!Turn, body
<1> HIDE DEF json, at
<1> QED BY Zenon, <1>5, <1>8, <1>9, <1>10

\* assistant_turn() finds what was said.
LEMMA AnswerFound ==
    ASSUME NEW r \in TR!Request, r.whole, None # "response"
    PROVE  /\ TR!AssistantTurn(TR!Pieces(r)).reply = TR!Expected(r).reply
           /\ TR!AssistantTurn(TR!Pieces(r)).tools = TR!Expected(r).tools
<1> DEFINE P == TR!Pieces(r)
           said == IF r.stream THEN TR!WithBody(r.reply) ELSE TR!Flatten(r.reply)
           tools == TR!ToolNames(IF r.stream THEN said ELSE r.reply)
<1>1. TR!Expected(r).reply = said /\ TR!Expected(r).tools = tools
    BY DEF TR!Expected
<1>2. r.reply \in Seq(TR!Block)
    BY RequestFields
<1>3. TR!Section(P, "response") = TR!Reply(r)
    BY Zenon, ResponseIs
<1>4. TR!Section(P, "api") = IF Len(r.tries) = 0 THEN << >> ELSE Answer(r, 1)
    BY Zenon, ApiIs
<1> HIDE DEF P, said
<1>5. ASSUME NEW s, s = [reply |-> said, tools |-> tools, source |-> "response"], TR!Turn(P, "response") = s
      PROVE  TR!AssistantTurn(P).reply = said /\ TR!AssistantTurn(P).tools = tools
    <2>1. s.source = "response" /\ s.reply = said /\ s.tools = tools
        BY <1>5
    <2>2. TR!AssistantTurn(P) = s
        BY Zenon, <1>5, <2>1 DEF TR!AssistantTurn
    <2> QED BY Zenon, <2>1, <2>2
<1>6. CASE ~r.stream
    <2>1. TR!Section(P, "response") = <<[sec |-> "event", t |-> "json", blocks |-> r.reply]>>
        BY Zenon, <1>3, <1>6 DEF TR!Reply
    <2>2. TR!Turn(P, "response") = [reply |-> said, tools |-> tools, source |-> "response"]
        BY Zenon, <1>6, <2>1, TurnJson DEF said
    <2> QED BY Zenon, <1>1, <1>5, <2>2 DEF P
<1>7. CASE r.stream /\ said # << >>
    <2>1. said = TR!ReassembleSse(TR!Section(P, "response"))
        BY Zenon, <1>2, <1>3, <1>7, SseReassembles DEF TR!Reply, said
    <2>2. TR!Turn(P, "response") = [reply |-> said, tools |-> tools, source |-> "response"]
        BY Zenon, <1>7, <2>1, TurnStreamed
    <2> QED BY Zenon, <1>1, <1>5, <2>2 DEF P
<1>8. CASE r.stream /\ said = << >>
    <2> DEFINE nothing == [reply |-> << >>, tools |-> << >>, source |-> None]
               all == TR!Stream(r.reply)
    <2>1. TR!ReassembleSse(all) = << >>
        BY Zenon, <1>2, <1>8, SseReassembles DEF said
    <2>2. \A i \in DOMAIN all : all[i].t # "json"
        <3>1. all \in Seq(Told)
            BY Zenon, <1>2, SseReads
        <3>2. \A e \in Told : e.t # "json"
            BY DEF Told
        <3> HIDE DEF all
        <3>3. \A i \in DOMAIN all : all[i] \in Told
            BY <3>1
        <3> QED BY Zenon, <3>2, <3>3
    <2>3. TR!Reply(r) = all
        BY Zenon, <1>8 DEF TR!Reply
    <2>4. TR!Turn(P, "response") = nothing
        BY Zenon, <1>3, <2>1, <2>2, <2>3, TurnNothing
    <2>5. TR!Turn(P, "api") = nothing
        <3>1. CASE Len(r.tries) = 0
            <4>1. TR!Section(P, "api") = << >>
                BY Zenon, <1>4, <3>1
            <4>2. Len(<< >>) \in Nat /\ DOMAIN << >> = {} /\ 1 .. Len(<< >>) = {}
                OBVIOUS
            <4>3. TR!ReassembleSse(<< >>) = << >>
                BY Zenon, <4>2, NothingRead
            <4> QED BY Zenon, <4>1, <4>2, <4>3, TurnNothing
        <3>2. CASE Len(r.tries) # 0 /\ r.tries[1] # "error"
            <4>1. TR!Section(P, "api") = all
                BY Zenon, <1>4, <2>3, <3>2 DEF Answer
            <4> QED BY Zenon, <2>1, <2>2, <4>1, TurnNothing
        <3>3. CASE Len(r.tries) # 0 /\ r.tries[1] = "error"
            <4> DEFINE e == [sec |-> "event", t |-> "error", k |-> 1]
                       body == <<e>>
            <4>1. TR!Section(P, "api") = body
                BY Zenon, <1>4, <3>3 DEF Answer
            <4>2. e.t = "error"
                OBVIOUS
            <4> HIDE DEF e
            <4>3. Len(body) = 1 /\ DOMAIN body = 1 .. 1 /\ body[1] = e
                OBVIOUS
            <4>4. \A m \in 1 .. 1 : m = 1
                OBVIOUS
            <4> HIDE DEF body
            <4>5. \A m \in 1 .. 1 : body[m].t = "error"
                BY Zenon, <4>2, <4>3, <4>4
            <4>6. "error" \notin {"start", "delta"} /\ "error" # "json" /\ 1 \in Nat
                OBVIOUS
            <4>7. TR!ReassembleSse(body) = << >>
                BY Zenon, <4>3, <4>5, <4>6, NothingRead
            <4> QED BY Zenon, <4>1, <4>3, <4>5, <4>6, <4>7, TurnNothing
        <3> QED BY Zenon, <3>1, <3>2, <3>3
    <2>6. nothing.source = None /\ nothing.reply = << >> /\ nothing.tools = << >>
        OBVIOUS
    <2> HIDE DEF nothing
    <2>7. TR!AssistantTurn(P) = nothing
        BY Zenon, <2>4, <2>5, <2>6 DEF TR!AssistantTurn
    <2>8. tools = << >>
        BY Zenon, <1>8, NothingKept
    <2> QED BY Zenon, <1>1, <1>8, <2>6, <2>7, <2>8 DEF P
<1> QED BY Zenon, <1>6, <1>7, <1>8

\* The record of a whole file says what the request and its answer were.
LEMMA WholeRecord ==
    ASSUME NEW r \in TR!Request, r.whole, None # "response"
    PROVE  /\ TR!Record(TR!Pieces(r)).turn = TR!Expected(r).turn
           /\ TR!Record(TR!Pieces(r)).answer.reply = TR!Expected(r).reply
           /\ TR!Record(TR!Pieces(r)).answer.tools = TR!Expected(r).tools
           /\ TR!Record(TR!Pieces(r)).upstream.errors = TR!Expected(r).errors
           /\ TR!Record(TR!Pieces(r)).upstream.attempts = Len(r.tries)
<1> DEFINE P == TR!Pieces(r)
           body == [sec |-> "body", msgs |-> r.msgs]
<1>1. /\ TR!Record(P).turn = TR!LastTurn(P) /\ TR!Record(P).answer = TR!AssistantTurn(P)
      /\ TR!Record(P).upstream = TR!UpstreamDetails(P)
    BY DEF TR!Record
<1>2. /\ TR!Expected(r).errors = TR!FirstFive(Failed(r))
      /\ TR!Expected(r).turn = IF r.msgs = << >> THEN None ELSE r.msgs[Len(r.msgs)]
    BY DEF TR!Expected, Failed
<1>3. TR!Body(P) = body
    <2> DEFINE bodies == {i \in DOMAIN P : P[i].sec = "body"}
    <2>1. P[2] = body /\ DOMAIN P = 1 .. Len(P)
        BY Zenon, LaidOut, PositionsAre
    <2>2. 2 \in 1 .. Len(P)
        <3>1. Len(P) = (3 + Len(Copies(r))) + Len(TR!Reply(r)) /\ Len(Copies(r)) \in Nat /\ Len(TR!Reply(r)) \in Nat
            BY Zenon, LaidOut, ReplyIs
        <3> HIDE DEF P
        <3> QED BY <3>1
    <2>3. ASSUME NEW i \in bodies PROVE i = 2
        <3>1. i \in 1 .. Len(P) /\ P[i].sec = "body"
            BY Zenon, <2>1
        <3>2. "body" # "info" /\ "body" # "api" /\ "body" # "event" /\ "body" # "response"
            OBVIOUS
        <3> QED BY Zenon, <3>1, <3>2, WhereIs
    <2>4. body.sec = "body"
        OBVIOUS
    <2>5. 2 \in bodies
        BY Zenon, <2>1, <2>2, <2>4
    <2>6. (CHOOSE i \in DOMAIN P : P[i].sec = "body") = 2
        <3>1. 2 \in DOMAIN P /\ P[2].sec = "body"
            BY Zenon, <2>1, <2>2, <2>4
        <3>2. \A i \in DOMAIN P : P[i].sec = "body" => i = 2
            BY Zenon, <2>3
        <3> HIDE DEF P, body
        <3> QED BY Zenon, <3>1, <3>2
    <2> QED BY Zenon, <2>1, <2>6 DEF TR!Body
<1>4. body.msgs = r.msgs
    OBVIOUS
<1> HIDE DEF body
<1>5. TR!LastTurn(P) = IF r.msgs = << >> THEN None ELSE r.msgs[Len(r.msgs)]
    BY Zenon, <1>3, <1>4 DEF TR!LastTurn
<1>6. TR!UpstreamDetails(P).attempts = Len(r.tries) /\ TR!UpstreamDetails(P).errors = TR!FirstFive(Failed(r))
    BY Zenon, UpstreamIs
<1>7. TR!AssistantTurn(P).reply = TR!Expected(r).reply /\ TR!AssistantTurn(P).tools = TR!Expected(r).tools
    BY Zenon, AnswerFound
<1> HIDE DEF P
<1>8. TR!Record(P).turn = TR!Expected(r).turn
    BY Zenon, <1>1, <1>2, <1>5
<1> QED BY Zenon, <1>1, <1>2, <1>6, <1>7, <1>8 DEF P

-----------------------------------------------------------------------------
(* Transcripts: which pieces a record was read from *)

\* A record is about the whole request, unless its writer once rested
RecordsComplete ==
    \A f \in Log : \A k \in DOMAIN emitted[f] :
        /\ emitted[f][k] <= Len(TR!Pieces(log[f].req))
        /\ emitted[f][k] = Len(TR!Pieces(log[f].req)) \/ f \in paused

LogFiles == [state : {"absent", "open", "closed", "deleted"}, req : Requests \cup {None}, n : Nat, idle : Nat]

EmitTypes ==
    /\ log \in [Log -> LogFiles] /\ emitted \in [Log -> Seq(Nat)]
    /\ \A c \in todo : c.f \in Log

\* How far the writer of f has come
Growing(f) ==
    /\ log[f].state = "closed" => log[f].n = Len(TR!Pieces(log[f].req))
    /\ log[f].state = "open" => log[f].n < Len(TR!Pieces(log[f].req)) /\ (log[f].idle >= Stable => f \in paused)
    /\ log[f].state # "absent" => log[f].req \in Requests
    /\ emitted[f] # << >> => log[f].state # "absent" /\ log[f].req.whole

\* A candidate that rested is whole by now, unless its writer only paused
Rested == \A c \in todo : c.idle >= Stable => c.f \in paused \/ log[c.f].state \in {"closed", "deleted"}

\* A file that was printed is not forgotten while it is there
Remembered(f) ==
    ~backlog =>
        /\ Len(emitted[f]) <= 1
        /\ emitted[f] # << >> => f \in seen \/ log[f].state = "deleted" \/ epc = "start"

EmitInv == EmitTypes /\ Rested /\ RecordsComplete /\ \A f \in Log : Growing(f) /\ Remembered(f)

LEMMA EmitInitOK == ASSUME TR!EmitInit, TR!EmitAssumption PROVE EmitInv
BY DEF TR!EmitInit, TR!EmitAssumption, EmitInv, EmitTypes, LogFiles, Growing, Rested, Remembered, RecordsComplete

LEMMA PiecesSome == ASSUME NEW r \in TR!Request PROVE TR!Pieces(r) \in Seq(Piece \cup {[sec |-> "other"]}) /\ Len(TR!Pieces(r)) \in Nat \ {0}
<1>1. CASE r.whole
    <2>1. /\ Len(Copies(r)) \in Nat /\ TR!Pieces(r) \in Seq(Piece) /\ Len(TR!Reply(r)) \in Nat
          /\ Len(TR!Pieces(r)) = (3 + Len(Copies(r))) + Len(TR!Reply(r))
        BY Zenon, <1>1, LaidOut, ReplyIs
    <2>2. TR!Pieces(r) \in Seq(Piece \cup {[sec |-> "other"]})
        <3>1. Piece \subseteq Piece \cup {[sec |-> "other"]}
            BY Zenon
        <3> QED BY Zenon, <2>1, <3>1, WiderSeq
    <2> QED BY <2>1, <2>2
<1>2. CASE ~r.whole
    <2>1. TR!Pieces(r) = <<[sec |-> "other"]>>
        BY Zenon, <1>2 DEF TR!Pieces
    <2> QED BY <2>1
<1> QED BY Zenon, <1>1, <1>2

\* What is not a payload file does not parse.
LEMMA ParsesWhole ==
    ASSUME NEW r \in TR!Request, NEW n \in Nat, n <= Len(TR!Pieces(r)), TR!Parses(SubSeq(TR!Pieces(r), 1, n))
    PROVE  r.whole
<1> SUFFICES ASSUME ~r.whole PROVE FALSE
    BY Zenon
<1> DEFINE x == [sec |-> "other"]
           raw == SubSeq(TR!Pieces(r), 1, n)
<1>1. TR!Pieces(r) = <<x>>
    BY Zenon DEF TR!Pieces
<1>2. x.sec # "info"
    OBVIOUS
<1> HIDE DEF x
<1>3. n \in 0 .. 1
    BY <1>1
<1>4. \A i \in DOMAIN raw : raw[i] = x
    BY <1>1, <1>3
<1> HIDE DEF raw
<1>5. \E i \in DOMAIN raw : raw[i].sec = "info"
    BY Zenon DEF TR!Parses, raw
<1> QED BY Zenon, <1>2, <1>4, <1>5

LEMMA EmitTells == ASSUME EmitInv, TR!EmitAssumption PROVE TR!EmittedOnce /\ TR!EmittedWhole
<1>1. TR!EmittedOnce
    BY DEF EmitInv, Remembered, TR!EmittedOnce
<1>2. ASSUME NEW f \in Log, NEW k \in DOMAIN emitted[f]
      PROVE  LET r == log[f].req e == TR!Record(TR!Raw(f, emitted[f][k])) x == TR!Expected(r) IN
             /\ e.n = Len(TR!Pieces(r)) \/ f \in paused
             /\ e.n = Len(TR!Pieces(r)) =>
                   /\ e.turn = x.turn
                   /\ e.answer.reply = x.reply
                   /\ e.answer.tools = x.tools
                   /\ e.upstream.errors = x.errors
                   /\ e.upstream.attempts = Len(r.tries)
    <2> DEFINE r == log[f].req
               P == TR!Pieces(r)
               m == emitted[f][k]
               e == TR!Record(TR!Raw(f, m))
    <2>1. r \in TR!Request /\ r.whole /\ None # "response"
        <3>1. emitted[f] # << >>
            BY <1>2
        <3>2. r \in Requests /\ r.whole
            BY Zenon, <3>1 DEF EmitInv, Growing
        <3>3. Requests \subseteq TR!Request /\ None # "response"
            BY Zenon DEF TR!EmitAssumption
        <3> QED BY Zenon, <3>2, <3>3
    <2>2. m \in Nat /\ m <= Len(P) /\ (m = Len(P) \/ f \in paused)
        <3>1. m \in Nat
            BY <1>2 DEF EmitInv, EmitTypes
        <3> QED BY Zenon, <1>2, <3>1 DEF EmitInv, RecordsComplete
    <2>3. P \in Seq(Piece \cup {[sec |-> "other"]})
        BY Zenon, <2>1, PiecesSome
    <2>4. Len(SubSeq(P, 1, m)) = m
        <3> HIDE DEF P, m
        <3> QED BY <2>2, <2>3
    <2>5. SubSeq(P, 1, Len(P)) = P
        <3> HIDE DEF P
        <3> QED BY <2>3
    <2>6. TR!Raw(f, m) = SubSeq(P, 1, m)
        BY Zenon DEF TR!Raw
    <2>7. e.n = m
        <3>1. e.n = Len(TR!Raw(f, m))
            <4> HIDE DEF m
            <4> QED BY DEF TR!Record
        <3> QED BY Zenon, <2>4, <2>6, <3>1
    <2>8. ASSUME m = Len(P)
          PROVE  /\ e.turn = TR!Expected(r).turn /\ e.answer.reply = TR!Expected(r).reply
                 /\ e.answer.tools = TR!Expected(r).tools /\ e.upstream.errors = TR!Expected(r).errors
                 /\ e.upstream.attempts = Len(r.tries)
        <3>1. TR!Raw(f, m) = P
            BY Zenon, <2>5, <2>6, <2>8
        <3> QED BY Zenon, <2>1, <3>1, WholeRecord
    <2> HIDE DEF m, e
    <2> QED BY Zenon, <2>2, <2>7, <2>8 DEF e, m
<1>3. TR!EmittedWhole
    BY Zenon, <1>2 DEF TR!EmittedWhole
<1> QED BY Zenon, <1>1, <1>3

\* The sidecar goes over the files without printing one.
LEMMA PassKeeps ==
    ASSUME EmitInv, UNCHANGED <<log, backlog, emitted, paused>>, todo' \subseteq todo \/ todo' = TR!Candidates,
           \A f \in Log : ~backlog /\ emitted[f] # << >> => f \in seen' \/ log[f].state = "deleted" \/ epc' = "start"
    PROVE  EmitInv'
<1>1. EmitTypes'
    BY DEF EmitInv, EmitTypes, TR!Candidates, TR!Present
<1>2. \A c \in TR!Candidates : c.idle >= Stable => c.f \in paused \/ log[c.f].state = "closed"
    BY DEF EmitInv, Growing, TR!Candidates, TR!Present
<1>3. Rested'
    BY <1>2 DEF EmitInv, Rested
<1>4. RecordsComplete'
    BY DEF EmitInv, RecordsComplete
<1>5. \A f \in Log : Growing(f)'
    BY DEF EmitInv, Growing
<1>6. \A f \in Log : Remembered(f)'
    BY DEF EmitInv, Remembered
<1> QED BY <1>1, <1>3, <1>4, <1>5, <1>6 DEF EmitInv

LEMMA EmitPrints ==
    ASSUME TR!EmitAssumption, EmitInv, NEW c \in todo, epc = "emit", TR!Emit(c)
    PROVE  EmitInv'
<1>1. /\ UNCHANGED <<log, backlog, epc, paused>> /\ todo' = todo \ {c} /\ seen' = seen \cup {c.f}
      /\ c.f \notin seen /\ c.idle >= Stable
      /\ c.f \in Log /\ log[c.f].state \in {"open", "closed"}
      /\ emitted' = [emitted EXCEPT ![c.f] = Append(@, log[c.f].n)]
    BY DEF EmitInv, EmitTypes, TR!Emit, TR!Pass, TR!Settled, TR!Readable, TR!Present
<1>2. \A f \in Log : f # c.f => emitted'[f] = emitted[f]
    BY <1>1 DEF EmitInv, EmitTypes
<1>3. /\ emitted'[c.f] = Append(emitted[c.f], log[c.f].n) /\ emitted[c.f] \in Seq(Nat) /\ log[c.f].n \in Nat
    BY <1>1 DEF EmitInv, EmitTypes, LogFiles
<1>4. /\ Len(emitted'[c.f]) = Len(emitted[c.f]) + 1
      /\ \A k \in DOMAIN emitted'[c.f] : \/ (k \in DOMAIN emitted[c.f] /\ emitted'[c.f][k] = emitted[c.f][k])
                                          \/ emitted'[c.f][k] = log[c.f].n
    BY <1>3
<1>5. log[c.f].n = Len(TR!Pieces(log[c.f].req)) \/ c.f \in paused
    BY <1>1 DEF EmitInv, Rested, Growing
<1>13. log[c.f].req \in TR!Request
    <2>1. log[c.f].state # "absent"
        BY <1>1
    <2> QED BY Zenon, <1>1, <2>1 DEF EmitInv, Growing, TR!EmitAssumption
<1>14. log[c.f].n <= Len(TR!Pieces(log[c.f].req))
    <2>1. Len(TR!Pieces(log[c.f].req)) \in Nat
        BY <1>13, PiecesSome
    <2>2. \/ log[c.f].n = Len(TR!Pieces(log[c.f].req))
          \/ log[c.f].n < Len(TR!Pieces(log[c.f].req))
        BY <1>1 DEF EmitInv, Growing
    <2> QED BY <1>3, <2>1, <2>2
<1>15. log[c.f].req.whole
    <2>1. TR!Parses(SubSeq(TR!Pieces(log[c.f].req), 1, log[c.f].n))
        BY Zenon DEF TR!Emit, TR!Readable, TR!Raw
    <2> QED BY Zenon, <1>3, <1>13, <1>14, <2>1, ParsesWhole
<1>6. EmitTypes'
    BY <1>1, <1>3 DEF EmitInv, EmitTypes
<1>7. Rested'
    BY <1>1 DEF EmitInv, Rested
<1>8. ASSUME NEW f \in Log, NEW k \in DOMAIN emitted'[f]
      PROVE  /\ emitted'[f][k] <= Len(TR!Pieces(log[f].req))
             /\ emitted'[f][k] = Len(TR!Pieces(log[f].req)) \/ f \in paused
    BY <1>2, <1>4, <1>5, <1>8, <1>14 DEF EmitInv, RecordsComplete
<1>9. RecordsComplete'
    BY <1>1, <1>8 DEF RecordsComplete
<1>10. ~backlog => emitted[c.f] = << >>
    BY <1>1 DEF EmitInv, Remembered
<1>11. \A f \in Log : Growing(f)'
    BY <1>1, <1>2, <1>15 DEF EmitInv, Growing
<1>12. \A f \in Log : Remembered(f)'
    BY <1>1, <1>2, <1>4, <1>10 DEF EmitInv, Remembered
<1> QED BY <1>6, <1>7, <1>9, <1>11, <1>12 DEF EmitInv

LEMMA SidecarKeeps == ASSUME TR!EmitAssumption, EmitInv, TR!Sidecar \/ TR!Restart PROVE EmitInv'
<1>1. CASE TR!Watch
    BY <1>1, PassKeeps DEF TR!Watch, EmitInv, EmitTypes, LogFiles, Growing, TR!Present
<1>2. CASE TR!BeginPass
    BY <1>2, PassKeeps DEF TR!BeginPass, EmitInv, Remembered
<1>3. CASE TR!EndPass
    BY <1>3, PassKeeps DEF TR!EndPass, TR!Kept, TR!Present, EmitInv, EmitTypes, LogFiles, Growing, Remembered
<1>4. CASE TR!Restart
    BY <1>4, PassKeeps DEF TR!Restart
<1>5. ASSUME NEW c \in todo, TR!Ignore(c) \/ TR!TooBig(c) \/ TR!Fails(c) PROVE EmitInv'
    <2>1. UNCHANGED <<log, backlog, epc, emitted, paused>> /\ todo' = todo \ {c} /\ seen \subseteq seen'
        BY <1>5 DEF TR!Ignore, TR!TooBig, TR!Fails, TR!Pass
    <2> QED BY <2>1, PassKeeps DEF EmitInv, Remembered
<1> QED BY <1>1, <1>2, <1>3, <1>4, <1>5, EmitPrints DEF TR!Sidecar

\* The file system and the clock: what was printed stays about the whole request.
LEMMA WriterKeeps ==
    ASSUME EmitInv, UNCHANGED <<backlog, epc, seen, todo, emitted>>, paused \subseteq paused', log' \in [Log -> LogFiles],
           \A f \in Log : /\ log[f].state # "absent" => log'[f].req = log[f].req /\ log'[f].state # "absent"
                          /\ log[f].state = "closed" => log'[f].state \in {"closed", "deleted"}
                          /\ log[f].state = "deleted" => log'[f].state = "deleted"
                          /\ Growing(f)'
    PROVE  EmitInv'
<1>1. EmitTypes'
    BY DEF EmitInv, EmitTypes
<1>2. Rested'
    BY DEF EmitInv, EmitTypes, Rested
<1>3. ASSUME NEW f \in Log, NEW k \in DOMAIN emitted[f]
      PROVE  /\ emitted[f][k] <= Len(TR!Pieces(log'[f].req))
             /\ emitted[f][k] = Len(TR!Pieces(log'[f].req)) \/ f \in paused'
    <2>1. emitted[f] # << >>
        BY <1>3
    <2>2. log'[f].req = log[f].req
        BY <2>1 DEF EmitInv, Growing
    <2> QED BY <2>2, <1>3 DEF EmitInv, RecordsComplete
<1>4. RecordsComplete'
    BY <1>3 DEF RecordsComplete
<1>5. \A f \in Log : Remembered(f)'
    BY DEF EmitInv, Remembered
<1> QED BY <1>1, <1>2, <1>4, <1>5 DEF EmitInv

LEMMA EmitNextKeeps ==
    ASSUME TR!EmitAssumption, EmitInv, TR!EmitNext \/ UNCHANGED TR!emitVars
    PROVE  EmitInv'
<1>1. CASE UNCHANGED TR!emitVars
    BY <1>1, PassKeeps DEF TR!emitVars, EmitInv, Remembered
<1>2. ASSUME NEW f \in Log, NEW new \in LogFiles, log' = [log EXCEPT ![f] = new],
             UNCHANGED <<backlog, epc, seen, attempts, todo, emitted, skipped, paused, restarted>>,
             log[f].state # "absent" => (new.req = log[f].req /\ new.state # "absent"),
             log[f].state = "closed" => new.state \in {"closed", "deleted"},
             log[f].state # "deleted",
             new.state = "closed" => new.n = Len(TR!Pieces(new.req)),
             new.state = "open" => new.idle = 0 /\ new.n < Len(TR!Pieces(new.req)),
             new.state # "absent" => new.req \in Requests
      PROVE  EmitInv'
    <2>1. log' \in [Log -> LogFiles] /\ log'[f] = new /\ \A g \in Log : g # f => log'[g] = log[g]
        BY <1>2 DEF EmitInv, EmitTypes
    <2>2. ASSUME NEW g \in Log PROVE Growing(g)'
        <3>1. CASE g = f
            BY <1>2, <2>1, <3>1 DEF EmitInv, Growing, TR!EmitAssumption
        <3>2. CASE g # f
            <4>1. log'[g] = log[g] BY <2>1, <3>2
            <4>2. Growing(g) BY DEF EmitInv
            <4> QED BY <1>2, <4>1, <4>2 DEF Growing
        <3> QED BY <3>1, <3>2
    <2> QED BY <1>2, <2>1, <2>2, WriterKeeps
<1>3. ASSUME NEW f \in Log, TR!Open(f) PROVE EmitInv'
    <2>1. PICK r \in Requests : log' = [log EXCEPT ![f] = [state |-> "open", req |-> r, n |-> 0, idle |-> 0]]
        BY Zenon, <1>3 DEF TR!Open
    <2>2. PICK new : new = [state |-> "open", req |-> r, n |-> 0, idle |-> 0] BY Zenon
    <2>3. new \in LogFiles /\ new.req = r /\ new.n = 0 /\ new.state = "open" /\ new.idle = 0
        BY <2>2 DEF LogFiles
    <2>4. 0 < Len(TR!Pieces(r))
        <3>1. r \in TR!Request
            BY Zenon DEF TR!EmitAssumption
        <3>2. Len(TR!Pieces(r)) \in Nat \ {0}
            BY Zenon, <3>1, PiecesSome
        <3> QED BY <3>2
    <2>5. log' = [log EXCEPT ![f] = new] /\ log[f].state = "absent"
        BY Zenon, <1>3, <2>1, <2>2 DEF TR!Open
    <2>6. log[f].state # "closed" /\ log[f].state # "deleted" /\ new.state # "closed"
        BY <2>3, <2>5
    <2>7. UNCHANGED <<backlog, epc, seen, attempts, todo, emitted, skipped, paused, restarted>>
        BY Zenon, <1>3 DEF TR!Open
    <2> QED BY Zenon, <1>2, <2>3, <2>4, <2>5, <2>6, <2>7
<1>4. ASSUME NEW f \in Log, TR!Append1(f) PROVE EmitInv'
    <2>1. log[f] \in LogFiles /\ log[f].state = "open" BY <1>4 DEF EmitInv, EmitTypes, TR!Append1
    <2>2. PICK s \in {"closed", "open"} : s = IF log[f].n + 1 = Len(TR!Pieces(log[f].req)) THEN "closed" ELSE "open" OBVIOUS
    <2>3. PICK new : new = [log[f] EXCEPT !.n = log[f].n + 1, !.idle = 0, !.state = s] OBVIOUS
    <2>4. /\ new.state = s /\ new.n = log[f].n + 1 /\ new.idle = 0 /\ new.req = log[f].req
          /\ new \in LogFiles
        <3>1. log[f].n + 1 \in Nat
            BY <2>1 DEF LogFiles
        <3>2. new = [state |-> s, req |-> log[f].req, n |-> log[f].n + 1, idle |-> 0]
            BY Zenon, <2>1, <2>3 DEF LogFiles
        <3> QED BY <2>1, <3>1, <3>2 DEF LogFiles
    <2>5. log' = [log EXCEPT ![f] = new]
        BY Zenon, <1>4, <2>1, <2>2, <2>3 DEF TR!Append1, EmitInv, EmitTypes
    <2>6. log[f].req \in Requests /\ log[f].n < Len(TR!Pieces(log[f].req))
        BY <2>1 DEF EmitInv, Growing
    <2>7. s = "open" => log[f].n + 1 < Len(TR!Pieces(log[f].req))
        <3>1. Len(TR!Pieces(log[f].req)) \in Nat
            BY Zenon, <2>6, PiecesSome DEF TR!EmitAssumption
        <3>2. log[f].n \in Nat
            BY <2>1 DEF LogFiles
        <3> QED BY <2>2, <2>6, <3>1, <3>2
    <2>8. s = "closed" => log[f].n + 1 = Len(TR!Pieces(log[f].req))
        BY <2>2
    <2>9. UNCHANGED <<backlog, epc, seen, attempts, todo, emitted, skipped, paused, restarted>>
        BY Zenon, <1>4 DEF TR!Append1
    <2>10. log[f].state # "closed" /\ log[f].state # "deleted" /\ new.state # "absent"
        BY <2>1, <2>4
    <2> QED BY Zenon, <1>2, <2>4, <2>5, <2>6, <2>7, <2>8, <2>9, <2>10
<1>5. ASSUME NEW f \in Log, TR!Delete(f) PROVE EmitInv'
    <2>1. log[f] \in LogFiles /\ log[f].state = "closed" BY <1>5 DEF EmitInv, EmitTypes, TR!Delete
    <2>2. PICK new : new = [log[f] EXCEPT !.state = "deleted"] BY Zenon
    <2>3. new \in LogFiles /\ new.state = "deleted" /\ new.req = log[f].req
        BY <2>1, <2>2 DEF LogFiles
    <2>4. log' = [log EXCEPT ![f] = new]
        BY <1>5, <2>2 DEF TR!Delete, EmitInv, EmitTypes
    <2>5. log[f].req \in Requests
        BY <2>1 DEF EmitInv, Growing
    <2>6. UNCHANGED <<backlog, epc, seen, attempts, todo, emitted, skipped, paused, restarted>>
        BY Zenon, <1>5 DEF TR!Delete
    <2>7. log[f].state # "deleted" /\ new.state # "open" /\ new.state # "absent" /\ new.state # "closed"
        BY <2>1, <2>3
    <2> QED BY Zenon, <1>2, <2>1, <2>3, <2>4, <2>5, <2>6, <2>7
<1>6. CASE TR!Second
    <2>1. ASSUME NEW f \in Log
          PROVE  /\ log'[f] \in LogFiles /\ log'[f].state = log[f].state /\ log'[f].req = log[f].req /\ log'[f].n = log[f].n
                 /\ log'[f].idle = log[f].idle \/ log'[f].idle = log[f].idle + 1
        <3>1. log[f] \in LogFiles BY DEF EmitInv, EmitTypes
        <3>2. log'[f] = log[f] \/ log'[f] = [log[f] EXCEPT !.idle = @ + 1]
            BY <1>6 DEF TR!Second
        <3> QED BY <3>1, <3>2 DEF LogFiles
    <2>2. log' \in [Log -> LogFiles]
        BY <1>6, <2>1 DEF TR!Second
    <2>3. paused' = paused \cup {f \in Log : log[f].state = "open" /\ log'[f].idle >= Stable}
        BY <1>6 DEF TR!Second
    <2>4. ASSUME NEW f \in Log PROVE Growing(f)'
        <3>1. TR!Pieces(log'[f].req) = TR!Pieces(log[f].req) BY <2>1
        <3> QED BY <1>6, <2>1, <2>3, <3>1 DEF EmitInv, Growing, TR!Second
    <2> QED BY <1>6, <2>1, <2>2, <2>3, <2>4, WriterKeeps DEF TR!Second
<1> QED BY <1>1, <1>3, <1>4, <1>5, <1>6, SidecarKeeps DEF TR!EmitNext, TR!Writer

-----------------------------------------------------------------------------
(* VaultSidecar: where serve() stands says which of the login, the load    *)
(* and the publication are behind it.                                      *)

Loaded == {"publish", "watch", "refresh", "replace"}

ServeInv ==
    /\ version \in Nat /\ agent \in VS!Agents \cup {None} /\ next \in VS!Agents \cup {None}
    /\ scopeFile /\ spc # "down" => spc \in Loaded \ {"publish"}
    /\ spc \in Loaded => VS!Whole(agent)
    /\ spc \in Loaded \cup {"load"} => server \in {"unlocked", "none"}
    /\ spc = "load" => agent # None
    /\ spc = "replace" => next # None

LEMMA ServeInitOK == ASSUME VS!SidecarInit PROVE ServeInv
BY DEF VS!SidecarInit, ServeInv, Loaded

LEMMA ServeTells == ASSUME ServeInv PROVE VS!ScopeBacked /\ VS!KeysWhole
BY DEF ServeInv, Loaded, VS!ScopeBacked, VS!KeysWhole

LEMMA CleanUpKeeps == ASSUME ServeInv, VS!CleanUp PROVE ServeInv'
BY DEF ServeInv, VS!CleanUp, Loaded

LEMMA NewAgent ==
    ASSUME VS!SidecarAssumption, NEW v \in Nat
    PROVE  VS!Agent(v) \in VS!Agents /\ VS!Agent(v) # None
<1>1. VS!Agent(v) \in VS!Agents
    BY DEF VS!Agent, VS!Agents
<1> QED BY <1>1 DEF VS!SidecarAssumption

\* One more key, or an agent that died, is still an agent.
LEMMA AgentsStay ==
    ASSUME VS!SidecarAssumption, NEW a \in VS!Agents
    PROVE  /\ a # None /\ [a EXCEPT !.held = @ + 1] \in VS!Agents
           /\ [a EXCEPT !.up = FALSE] \in VS!Agents /\ [a EXCEPT !.up = FALSE].held = a.held
<1>1. a # None
    BY DEF VS!SidecarAssumption
<1>2. a.ver \in Nat /\ a.held \in Nat /\ a.up \in BOOLEAN
    BY DEF VS!Agents
<1>3. [a EXCEPT !.held = @ + 1] = [ver |-> a.ver, held |-> a.held + 1, up |-> a.up]
    BY DEF VS!Agents
<1>4. [a EXCEPT !.up = FALSE] = [ver |-> a.ver, held |-> a.held, up |-> FALSE]
    <2>1. PICK off \in BOOLEAN : off = FALSE
        OBVIOUS
    <2>2. [a EXCEPT !.up = off] = [ver |-> a.ver, held |-> a.held, up |-> off]
        BY DEF VS!Agents
    <2> QED BY Zenon, <2>1, <2>2
<1>5. a.held + 1 \in Nat
    BY <1>2
<1>6. /\ [ver |-> a.ver, held |-> a.held + 1, up |-> a.up] \in VS!Agents
      /\ [ver |-> a.ver, held |-> a.held, up |-> FALSE] \in VS!Agents
    BY Zenon, <1>2, <1>5 DEF VS!Agents
<1> QED BY Zenon, <1>1, <1>3, <1>4, <1>6

LEMMA ServeKeeps ==
    ASSUME VS!SidecarAssumption, ServeInv, VS!SidecarNext \/ UNCHANGED VS!sidecarVars
    PROVE  ServeInv'
<1> USE CleanUpKeeps
<1>1. CASE UNCHANGED VS!sidecarVars
    BY <1>1 DEF VS!sidecarVars, ServeInv, VS!Whole
<1>2. CASE VS!Boot
    BY <1>2 DEF VS!Boot, ServeInv, Loaded
<1>3. CASE VS!Login
    BY <1>3 DEF VS!Login, VS!Again, ServeInv, Loaded
<1>4. CASE VS!Spawn
    BY <1>4 DEF VS!Spawn, ServeInv, Loaded
<1>5. CASE VS!Judge
    BY <1>5 DEF VS!Judge, ServeInv, Loaded
<1>6. CASE VS!Unlock
    BY <1>6 DEF VS!Unlock, VS!Again, ServeInv, Loaded
<1>7. CASE VS!Sync
    <2>1. CASE VS!CleanUp
        BY <2>1
    <2>2. CASE ~VS!CleanUp
        <3>1. VS!Agent(version) \in VS!Agents /\ VS!Agent(version) # None
            BY NewAgent DEF ServeInv
        <3>2. agent' = VS!Agent(version) /\ spc' = "load" /\ UNCHANGED <<scopeFile, server, version, next>> /\ server = "unlocked"
            BY <1>7, <2>2 DEF VS!Sync
        <3>3. ~scopeFile
            BY <1>7 DEF VS!Sync, ServeInv, Loaded
        <3> QED BY <3>1, <3>2, <3>3 DEF ServeInv, Loaded
    <2> QED BY <2>1, <2>2
<1>8. CASE VS!Load
    <2>1. CASE VS!CleanUp
        BY <2>1
    <2>2. CASE ~VS!Whole(agent) /\ ~VS!CleanUp
        <3>1. /\ spc = "load" /\ agent' = [agent EXCEPT !.held = @ + 1]
              /\ UNCHANGED <<spc, scopeFile, server, version, next>>
            BY <1>8, <2>2 DEF VS!Load
        <3>2. agent' \in VS!Agents /\ agent' # None
            BY <3>1, AgentsStay DEF ServeInv
        <3> QED BY <3>1, <3>2 DEF ServeInv, Loaded
    <2>3. CASE VS!Whole(agent) /\ ~VS!CleanUp
        BY <1>8, <2>3 DEF VS!Load, ServeInv, Loaded, VS!Whole
    <2> QED BY <2>1, <2>2, <2>3
<1>9. CASE VS!Publish
    BY <1>9 DEF VS!Publish, ServeInv, Loaded, VS!Whole
<1>10. CASE VS!Watch
    BY <1>10 DEF VS!Watch, ServeInv, Loaded, VS!Whole
<1>11. CASE VS!Refresh
    <2>1. VS!Agent(version) \in VS!Agents /\ VS!Agent(version) # None
        BY NewAgent DEF ServeInv
    <2> QED BY <1>11, <2>1 DEF VS!Refresh, ServeInv, Loaded, VS!Whole
<1>12. CASE VS!Replace
    BY <1>12, AgentsStay DEF VS!Replace, ServeInv, Loaded, VS!Whole
<1>13. CASE VS!Cancelled \/ VS!Killed
    BY <1>13 DEF VS!Cancelled, VS!Killed, ServeInv, Loaded
<1>14. CASE VS!Breaks
    <2>1. \/ agent' = agent
          \/ agent # None /\ agent' = [agent EXCEPT !.up = FALSE]
        BY <1>14 DEF VS!Breaks
    <2>2. agent' \in VS!Agents \cup {None} /\ (VS!Whole(agent) => VS!Whole(agent)') /\ (agent # None => agent' # None)
        BY <2>1, AgentsStay DEF ServeInv, VS!Whole
    <2> QED BY <1>14, <2>2 DEF VS!Breaks, ServeInv, Loaded
<1>15. CASE VS!NewKeys
    BY <1>15 DEF VS!NewKeys, ServeInv, Loaded, VS!Whole
<1> QED BY <1>1, <1>2, <1>3, <1>4, <1>5, <1>6, <1>7, <1>8, <1>9, <1>10, <1>11, <1>12, <1>13, <1>14, <1>15
        DEF VS!SidecarNext, VS!Serve

-----------------------------------------------------------------------------
(* The composition: a step of one component leaves the variables of all    *)
(* others alone, so each keeps its own invariant.                          *)

LEMMA ServicesSteps ==
    ASSUME [ServicesNext]_servicesVars
    PROVE  /\ VW!VaultNext \/ UNCHANGED writeVars
           /\ KS!KeeperNext \/ UNCHANGED keeperVars
           /\ SI!ImportNext \/ UNCHANGED importVars
           /\ TU!UnlinkNext \/ UNCHANGED unlinkVars
           /\ WB!WorkspaceNext \/ UNCHANGED bootVars
           /\ WA!WorkAuthNext \/ UNCHANGED authVars
           /\ GC!GmailNext \/ UNCHANGED gmailVars
           /\ IB!BuildNext \/ UNCHANGED buildVars
           /\ SF!InstallNext \/ UNCHANGED safetyVars
           /\ IR!RolloutNext \/ UNCHANGED rolloutVars
           /\ TR!EmitNext \/ UNCHANGED emitVars
           /\ VS!SidecarNext \/ UNCHANGED sidecarVars
<1> USE DEF ServicesNext, NotionStep, VaultWriteStep, VaultSidecarStep, KeeperStep, TranscriptStep, ImportStep,
            UnlinkStep, WorkspaceStep, WorkAuthStep, GmailStep, ImageBuildStep, SafetyInstallStep,
            IdleRolloutStep, servicesVars
<1>1. VW!VaultNext \/ UNCHANGED writeVars
    OBVIOUS
<1>2. KS!KeeperNext \/ UNCHANGED keeperVars
    OBVIOUS
<1>3. SI!ImportNext \/ UNCHANGED importVars
    OBVIOUS
<1>4. TU!UnlinkNext \/ UNCHANGED unlinkVars
    OBVIOUS
<1>5. WB!WorkspaceNext \/ UNCHANGED bootVars
    OBVIOUS
<1>6. WA!WorkAuthNext \/ UNCHANGED authVars
    OBVIOUS
<1>7. GC!GmailNext \/ UNCHANGED gmailVars
    OBVIOUS
<1>8. IB!BuildNext \/ UNCHANGED buildVars
    OBVIOUS
<1>9. SF!InstallNext \/ UNCHANGED safetyVars
    OBVIOUS
<1>10. IR!RolloutNext \/ UNCHANGED rolloutVars
    OBVIOUS
<1>11. TR!EmitNext \/ UNCHANGED emitVars
    OBVIOUS
<1>12. VS!SidecarNext \/ UNCHANGED sidecarVars
    OBVIOUS
<1> QED BY <1>1, <1>2, <1>3, <1>4, <1>5, <1>6, <1>7, <1>8, <1>9, <1>10, <1>11, <1>12

\* WorkAuthReviewed of the composed services, for any callers, contexts, tenants and
\* users: a credential handed to kubectl is that of the login reviewed for its context
\* (work-aks-auth.py, account(), run()).
THEOREM TokensStayReviewed == ASSUME ServicesAssumption PROVE ServicesSpec => []WorkAuthReviewed
<1>1. ServicesInit => AuthInv
    BY AuthInitOK DEF ServicesAssumption, ServicesInit
<1>2. AuthInv /\ [ServicesNext]_servicesVars => AuthInv'
    BY ServicesSteps, AuthStepOK DEF ServicesAssumption, authVars, WA!workAuthVars
<1>3. AuthInv => WorkAuthReviewed
    BY AuthTells DEF ServicesAssumption, WorkAuthReviewed
<1> QED BY <1>1, <1>2, <1>3, PTL DEF ServicesSpec

\* VaultWritesKept of the composed services, for any clients, items and fields
\* (vault-client.py, add, update, attach).
THEOREM ConfirmedWritesStay == ASSUME ServicesAssumption PROVE ServicesSpec => []VaultWritesKept
<1>1. ServicesInit => VaultInv
    BY VaultInitOK DEF ServicesAssumption, ServicesInit
<1>2. VaultInv /\ [ServicesNext]_servicesVars => VaultInv'
    BY ServicesSteps, VaultStepOK DEF ServicesAssumption, writeVars, VW!vaultVars
<1>3. VaultInv => VaultWritesKept
    BY VaultTells DEF ServicesAssumption, VaultWritesKept
<1> QED BY <1>1, <1>2, <1>3, PTL DEF ServicesSpec

\* ImportSound of the composed services, for any torrents, files and series
\* (seadexarr-import.py).
THEOREM ImportStaysSound == ASSUME ServicesAssumption PROVE ServicesSpec => []ImportSound
<1>1. ServicesInit => ImportInv
    BY ImportInitOK DEF ServicesAssumption, ServicesInit
<1>2. ImportInv /\ [ServicesNext]_servicesVars => ImportInv'
    BY ServicesSteps, ImportStepOK DEF ServicesAssumption, importVars, SI!importVars
<1>3. ImportInv => ImportSound
    BY ImportTells DEF ServicesAssumption, ImportSound
<1> QED BY <1>1, <1>2, <1>3, PTL DEF ServicesSpec

\* UnlinkSafe of the composed services, for any names, inodes and batch
\* (temp-redundant-name-unlink.py).
THEOREM UnlinkStaysSafe == ASSUME ServicesAssumption PROVE ServicesSpec => []UnlinkSafe
<1>1. ServicesInit => UnlinkInv
    BY UnlinkInitOK DEF ServicesAssumption, ServicesInit
<1>2. UnlinkInv /\ [ServicesNext]_servicesVars => UnlinkInv'
    BY ServicesSteps, UnlinkStepOK DEF ServicesAssumption, unlinkVars, TU!unlinkVars
<1>3. UnlinkInv => UnlinkSafe
    BY UnlinkTells DEF ServicesAssumption, UnlinkSafe
<1> QED BY <1>1, <1>2, <1>3, PTL DEF ServicesSpec

\* GmailCallsSound of the composed services, for any number of concurrent tool calls and
\* all lifetimes with a margin no longer than the token's (gmail_mcp.py).
THEOREM GmailCallsStaySound == ASSUME ServicesAssumption PROVE ServicesSpec => []GmailCallsSound
<1>1. ServicesInit => GmailInv
    BY GmailInitOK DEF ServicesAssumption, ServicesInit
<1>2. GmailInv /\ [ServicesNext]_servicesVars => GmailInv'
    BY ServicesSteps, GmailStepOK DEF ServicesAssumption, gmailVars, GC!gmvars
<1>3. GmailInv => GmailCallsSound
    BY GmailTells DEF ServicesAssumption, GmailCallsSound
<1> QED BY <1>1, <1>2, <1>3, PTL DEF ServicesSpec

\* WorkspaceWhole of the composed services, for any inputs, faults and revisions: the
\* starts of a workspace, the installation of cc-safety-net and the rollout that waits
\* for an idle pod (isolated-config.py, cc-safety-net-install.py, idle-rollout.sh).
THEOREM WorkspaceStaysWhole == ASSUME ServicesAssumption PROVE ServicesSpec => []WorkspaceWhole
<1>1. ServicesInit => WorkspaceInv
    BY WorkspaceInitOK DEF ServicesAssumption, ServicesInit
<1>2. WorkspaceInv /\ [ServicesNext]_servicesVars => WorkspaceInv'
    BY ServicesSteps, WorkspaceStepOK DEF ServicesAssumption, bootVars, WB!workspaceVars
<1>3. ServicesInit => InstallInv
    BY InstallInitOK DEF ServicesAssumption, ServicesInit
<1>4. InstallInv /\ [ServicesNext]_servicesVars => InstallInv'
    BY ServicesSteps, InstallStepOK DEF ServicesAssumption, safetyVars, SF!installVars
<1>5. ServicesInit => RInv
    BY RolloutInitOK DEF ServicesAssumption, ServicesInit
<1>6. RInv /\ [ServicesNext]_servicesVars => RInv'
    BY ServicesSteps, RolloutStepOK DEF ServicesAssumption, rolloutVars, IR!rolloutVars
<1>7. WorkspaceInv /\ InstallInv /\ RInv => WorkspaceWhole
    BY WorkspaceTells, InstallTells, RolloutTells DEF ServicesAssumption, WorkspaceWhole
<1> QED BY <1>1, <1>2, <1>3, <1>4, <1>5, <1>6, <1>7, PTL DEF ServicesSpec

\* ReportsHonest of the composed services, for any number of callers, logins and failing
\* kubectl calls (keeper-client.py, t3-build.py).
THEOREM ReportsStayHonest == ASSUME ServicesAssumption PROVE ServicesSpec => []ReportsHonest
<1>1. ServicesInit => KeeperInv
    BY KeeperInitOK DEF ServicesAssumption, ServicesInit
<1>2. KeeperInv /\ [ServicesNext]_servicesVars => KeeperInv'
    BY ServicesSteps, KeeperNextKeeps DEF ServicesAssumption, keeperVars, KS!keeperVars
<1>3. ServicesInit => BuildInv
    BY BuildInitOK DEF ServicesAssumption, ServicesInit
<1>4. BuildInv /\ [ServicesNext]_servicesVars => BuildInv'
    BY ServicesSteps, BuildStepOK DEF ServicesAssumption, buildVars, IB!buildVars
<1>5. ServicesInit => BuildSorts /\ BuildFlags
    BY BuildTypedAtFirst DEF ServicesAssumption, ServicesInit
<1>6. BuildInv /\ BuildSorts /\ BuildFlags /\ [ServicesNext]_servicesVars => (BuildSorts /\ BuildFlags)'
    BY ServicesSteps, SortsKeep, FlagsKeep DEF ServicesAssumption, buildVars, IB!buildVars
<1>7. KeeperInv /\ BuildInv /\ BuildSorts /\ BuildFlags => ReportsHonest
    BY KeeperTells, BuildTells, BuildTyped DEF ServicesAssumption, ReportsHonest
<1> QED BY <1>1, <1>2, <1>3, <1>4, <1>5, <1>6, <1>7, PTL DEF ServicesSpec

\* TranscriptsWhole of the composed services, for any files, requests and bounds: a file is
\* printed at most once while EMIT_BACKLOG is off, over restarts, deletions and the pruning
\* of `seen`; a record is about the whole request unless its writer once rested
\* STABLE_SECONDS; and the record of a whole request has its last message, every piece of
\* its reply in order, the tools called, and what the upstream attempts came to, however
\* the reply was cut into events (emit-transcripts.py, payload_lib.py).
THEOREM RecordsStayWhole ==
    ASSUME ServicesAssumption
    PROVE  ServicesSpec => []TranscriptsWhole
<1>1. ServicesInit => EmitInv
    BY EmitInitOK DEF ServicesAssumption, ServicesInit
<1>2. EmitInv /\ [ServicesNext]_servicesVars => EmitInv'
    BY ServicesSteps, EmitNextKeeps DEF ServicesAssumption, emitVars, TR!emitVars
<1>3. EmitInv => TranscriptsWhole
    BY EmitTells DEF ServicesAssumption, TranscriptsWhole
<1> QED BY <1>1, <1>2, <1>3, PTL DEF ServicesSpec

\* The safety in VaultSidecarSettles, for any number of keys, retries, faults and key
\* changes: while the sidecar runs, the scope file stands for a client that was unlocked,
\* synced and loaded in this container, and nothing behind the proxied socket ever holds a
\* part of a key set (vault-client.py, serve(), ssh_agent(), refresh()).
THEOREM SidecarStaysWhole ==
    ASSUME ServicesAssumption
    PROVE  ServicesSpec => [](active = "vault" => VS!ScopeBacked /\ VS!KeysWhole)
<1>1. ServicesInit => ServeInv
    BY ServeInitOK DEF ServicesInit
<1>2. ServeInv /\ [ServicesNext]_servicesVars => ServeInv'
    BY ServicesSteps, ServeKeeps DEF ServicesAssumption, sidecarVars, VS!sidecarVars
<1>3. ServeInv => (active = "vault" => VS!ScopeBacked /\ VS!KeysWhole)
    BY ServeTells
<1> QED BY <1>1, <1>2, <1>3, PTL DEF ServicesSpec
=============================================================================
