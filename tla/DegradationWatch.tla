-------------------------- MODULE DegradationWatch --------------------------
(***************************************************************************)
(* The degradation watch of the vpn-agent: Agent.watch_once of             *)
(* images/airvpn-bluetit/agent.py, with run() around it, against a tunnel  *)
(* that the airvpn sidecar may drop or rebuild at any moment.              *)
(*                                                                         *)
(* A tunnel session is one life of the tun0 netdevice; its number is the   *)
(* kernel's ifindex (tun_generation).  The loss of a window is abstracted  *)
(* to clean (below bad_loss_pct), bad, or None (the probe did not run);    *)
(* the LAN probe to bad, or ok (an unmeasured LAN is not bad).  What       *)
(* switch() does in between is module SwitchWalk, what the budget answers  *)
(* is module SwitchBudget: here the answer is any.  Figures that are only  *)
(* shown on /metrics (throughput, the last loss) are left out.             *)
(***************************************************************************)
EXTENDS Integers

CONSTANTS
    Servers,      \* the AirVPN servers
    BadWindows,   \* VPN_AGENT_BAD_WINDOWS
    MaxSessions,  \* bound: how many sessions there may be
    None

ASSUME WatchAssumption ==
    /\ BadWindows \in Nat \ {0}
    /\ MaxSessions \in Nat \ {0}
    /\ None \notin Nat
    /\ None \notin Servers
    /\ None \notin {"clean", "bad"}

VARIABLES
    tun,       \* what is really there: the server and the session
    sessions,  \* how many sessions there have been
    net,       \* the loss a probe would see in the tunnel and on the LAN, and
               \* whether goldcrest and /sys can be read
    dry,       \* VPN_AGENT_DRY_RUN
    pc,        \* where watch_once stands
    win,       \* the local variables of the window
    counter,   \* consecutive_bad, _server and _generation
    crossed,   \* auxiliary: the session changed while the probe ran
    probed,    \* auxiliary: the session the probe started in
    evidence,  \* auxiliary: the run of bad windows that really happened
    verdict    \* the verdict of this trip, with the evidence there was for it

env == <<tun, sessions, net, dry>>
ghosts == <<crossed, probed>>
vars == <<env, pc, win, counter, ghosts, evidence, verdict>>

NoTunnel == [server |-> None, gen |-> None]
NoWindow == [before |-> None, genBefore |-> None, loss |-> None, lan |-> "ok",
             after |-> None, genAfter |-> None]
NoCount == [n |-> 0, server |-> None, gen |-> None]

Init ==
    /\ tun = NoTunnel /\ sessions = 0
    /\ net = [path |-> "clean", lan |-> "ok", tools |-> "up"]
    /\ dry \in BOOLEAN
    /\ pc = "down"
    /\ win = NoWindow /\ counter = NoCount
    /\ crossed = FALSE /\ probed = NoTunnel
    /\ evidence = NoCount /\ verdict = None

-----------------------------------------------------------------------------
(* The tunnel and the network *)

\* Bluetit connects or reconnects, to any server, the same one included: the
\* device is deleted and made again
Reconnect(s) ==
    /\ sessions < MaxSessions
    /\ sessions' = sessions + 1
    /\ tun' = [server |-> s, gen |-> sessions']
    /\ crossed' = (pc = "probe" \/ crossed)
    /\ UNCHANGED <<net, dry, pc, win, counter, probed, evidence, verdict>>

Drop ==
    /\ tun # NoTunnel
    /\ tun' = NoTunnel
    /\ crossed' = (pc = "probe" \/ crossed)
    /\ UNCHANGED <<sessions, net, dry, pc, win, counter, probed, evidence,
                   verdict>>

NetChanges ==
    /\ net' \in [path : {"clean", "bad"}, lan : {"ok", "bad"}, tools : {"up", "failing"}]
    /\ net' # net
    /\ UNCHANGED <<tun, sessions, dry, pc, win, counter, ghosts, evidence,
                   verdict>>

\* A reading of the status or of the ifindex: what is there, or nothing when the
\* call or the file fails
Readings(v) == IF net.tools = "up" THEN {v} ELSE {v, None}

-----------------------------------------------------------------------------
(* One window *)

\* main() and run(): the boot check (module SwitchWalk) is over
AgentStarts ==
    /\ pc = "down"
    /\ pc' = "sleep"
    /\ UNCHANGED <<env, win, counter, ghosts, evidence, verdict>>

ReadStatusBefore ==
    /\ pc = "sleep"
    /\ \E s \in Readings(tun.server) : win' = [win EXCEPT !.before = s]
    /\ pc' = "statusRead"
    /\ UNCHANGED <<env, counter, ghosts, evidence, verdict>>

ReadGenerationBefore ==
    /\ pc = "statusRead"
    /\ \E g \in Readings(tun.gen) : win' = [win EXCEPT !.genBefore = g]
    /\ pc' = "genRead"
    /\ UNCHANGED <<env, counter, ghosts, evidence, verdict>>

ProbeStarts ==
    /\ pc = "genRead"
    /\ crossed' = FALSE /\ probed' = tun
    /\ pc' = "probe"
    /\ UNCHANGED <<env, win, counter, evidence, verdict>>

\* The tunnel and the LAN probe share the window.  Across a teardown the tunnel
\* may show any loss; without a device the probe sees all packets lost or fails.
ProbeEnds ==
    /\ pc = "probe"
    /\ \E loss \in (IF crossed THEN {"clean", "bad"}
                    ELSE {IF tun = NoTunnel THEN "bad" ELSE net.path})
                   \cup (IF net.tools = "up" THEN {} ELSE {None}) :
          win' = [win EXCEPT !.loss = loss, !.lan = net.lan]
    /\ pc' = "probed"
    /\ UNCHANGED <<env, counter, ghosts, evidence, verdict>>

ReadStatusAfter ==
    /\ pc = "probed"
    /\ \E s \in Readings(tun.server) : win' = [win EXCEPT !.after = s]
    /\ pc' = "statusReread"
    /\ UNCHANGED <<env, counter, ghosts, evidence, verdict>>

ReadGenerationAfter ==
    /\ pc = "statusReread"
    /\ \E g \in Readings(tun.gen) : win' = [win EXCEPT !.genAfter = g]
    /\ pc' = "judge"
    /\ UNCHANGED <<env, counter, ghosts, evidence, verdict>>

\* Mutant of SameSession: two readings of the server name are enough
SameServer == win.before # None /\ win.before = win.after

\* same_session: the server and the session are readable and equal on both sides
SameSession ==
    /\ win.before # None /\ win.before = win.after
    /\ win.genBefore # None /\ win.genBefore = win.genAfter

\* What a judged window really shows, independently of what the agent read
Blames == win.loss = "bad" /\ win.lan = "ok"

NextEvidence ==
    IF crossed \/ win.loss = "clean" THEN NoCount
    ELSE IF ~Blames THEN evidence
    ELSE [n |-> IF evidence.gen # probed.gen THEN 1
                ELSE IF evidence.n < BadWindows THEN evidence.n + 1 ELSE evidence.n,
          server |-> probed.server, gen |-> probed.gen]

\* The window is over without a trip
Return ==
    /\ win' = NoWindow
    /\ pc' = "sleep"
    /\ evidence' = NextEvidence
    /\ crossed' = FALSE /\ probed' = NoTunnel
    /\ UNCHANGED <<env, verdict>>

Discard ==
    /\ pc = "judge"
    /\ ~SameSession
    /\ counter' = NoCount
    /\ Return

NotMeasured ==
    /\ pc = "judge"
    /\ SameSession /\ win.loss = None
    /\ Return
    /\ UNCHANGED counter

CleanWindow ==
    /\ pc = "judge"
    /\ SameSession /\ win.loss = "clean"
    /\ counter' = NoCount
    /\ Return

\* The LAN lost packets too: the counter stands as it is
HomeSideWindow ==
    /\ pc = "judge"
    /\ SameSession /\ win.loss = "bad" /\ win.lan = "bad"
    /\ Return
    /\ UNCHANGED counter

\* Mutant of Counted: the run is kept per server, whatever its session
CountedPerServer ==
    IF counter.server = win.after THEN [counter EXCEPT !.n = @ + 1, !.gen = win.genAfter]
    ELSE [n |-> 1, server |-> win.after, gen |-> win.genAfter]

\* Mutant of Counted: the key is never stored, so every window starts a new run
CountedAnew == [n |-> 1, server |-> win.after, gen |-> win.genAfter]

\* publish_bad_server(): the verdict names the server of the last window; a dry run
\* publishes nothing
Published == IF dry THEN None ELSE [server |-> win.after, backing |-> NextEvidence]

\* The counter after one more bad window: it belongs to one session of one server
Counted ==
    IF counter.server = win.after /\ counter.gen = win.genAfter
    THEN [counter EXCEPT !.n = @ + 1]
    ELSE [n |-> 1, server |-> win.after, gen |-> win.genAfter]

\* (a window of one session has a current server, so "not connected" is no case)
BadWindow ==
    /\ pc = "judge"
    /\ SameSession /\ Blames
    /\ Counted.n < BadWindows
    /\ counter' = Counted
    /\ Return

\* The trip: the counter starts over and, unless this is a dry run, the verdict is
\* handed to the publisher (publish_bad_server)
Trip ==
    /\ pc = "judge"
    /\ SameSession /\ Blames
    /\ Counted.n >= BadWindows
    /\ counter' = NoCount
    /\ pc' = "tripped"
    /\ verdict' = Published
    /\ evidence' = NoCount
    /\ UNCHANGED <<env, win, ghosts>>

\* The window is over, and no judgement of it (any more)
Leave ==
    /\ win' = NoWindow
    /\ crossed' = FALSE /\ probed' = NoTunnel
    /\ verdict' = None

\* The budget suppresses the switch ...
Suppressed ==
    /\ pc = "tripped"
    /\ Leave
    /\ pc' = "sleep"
    /\ UNCHANGED <<env, counter, evidence>>

\* ... or lets it go ahead: the tunnel ends on some server or on none, and
\* _finish() starts the counter over.  A dry run only records the switch.
Switch ==
    /\ pc = "tripped"
    /\ IF dry
       THEN UNCHANGED <<tun, sessions, counter>>
       ELSE /\ counter' = NoCount
            /\ \/ tun' = NoTunnel /\ UNCHANGED sessions
               \/ /\ sessions < MaxSessions
                  /\ sessions' = sessions + 1
                  /\ \E s \in Servers : tun' = [server |-> s, gen |-> sessions']
    /\ Leave
    /\ pc' = "sleep"
    /\ UNCHANGED <<net, dry, evidence>>

\* An exception leaves watch_once: run() logs it and goes on, the counter stands
WatchRaises ==
    /\ pc \in {"statusRead", "genRead", "probed", "statusReread", "tripped"}
    /\ Leave
    /\ pc' = "sleep"
    /\ UNCHANGED <<env, counter, evidence>>

\* The process dies and is started again with a new counter
Crash ==
    /\ pc # "down"
    /\ pc' = "down"
    /\ Leave
    /\ counter' = NoCount
    /\ UNCHANGED <<env, evidence>>

Environment == (\E s \in Servers : Reconnect(s)) \/ Drop \/ NetChanges

Judge == Discard \/ NotMeasured \/ CleanWindow \/ HomeSideWindow \/ BadWindow \/ Trip

WatchOnce ==
    \/ AgentStarts
    \/ ReadStatusBefore \/ ReadGenerationBefore
    \/ ProbeStarts \/ ProbeEnds
    \/ ReadStatusAfter \/ ReadGenerationAfter
    \/ Judge
    \/ Suppressed \/ Switch

Next == Environment \/ WatchOnce \/ WatchRaises \/ Crash

Spec == Init /\ [][Next]_vars

\* The agent thread keeps running: every call it makes has a timeout
FairSpec == Spec /\ WF_vars(WatchOnce)

-----------------------------------------------------------------------------
(* Properties *)

Session == [server : Servers \cup {None}, gen : Nat \cup {None}]
Count == [n : Nat, server : Servers \cup {None}, gen : Nat \cup {None}]

TypeOK ==
    /\ tun \in Session /\ sessions \in Nat
    /\ net \in [path : {"clean", "bad"}, lan : {"ok", "bad"}, tools : {"up", "failing"}]
    /\ dry \in BOOLEAN
    /\ pc \in {"down", "sleep", "statusRead", "genRead", "probe", "probed",
               "statusReread", "judge", "tripped"}
    /\ win \in [before : Servers \cup {None}, genBefore : Nat \cup {None},
                loss : {"clean", "bad", None}, lan : {"ok", "bad"},
                after : Servers \cup {None}, genAfter : Nat \cup {None}]
    /\ counter \in [n : 0..(BadWindows - 1), server : Servers \cup {None},
                    gen : Nat \cup {None}]
    /\ crossed \in BOOLEAN /\ probed \in Session
    /\ evidence \in Count
    /\ verdict \in [server : Servers, backing : Count] \cup {None}

\* A published verdict is always backed: BadWindows judged windows, each wholly
\* inside one and the same session of the server it names, lossy in the tunnel
\* and not on the LAN, with no clean window and no earlier trip between them,
\* whatever reconnects, unreadable statuses and exceptions happened (watch_once,
\* the pre/post status and ifindex, the counter's key).
VerdictBacked ==
    verdict # None =>
        /\ verdict.backing.n >= BadWindows
        /\ verdict.backing.server = verdict.server

\* The number /metrics shows as consecutive bad windows never exceeds the run of
\* bad windows that really happened in the session it is kept for.
CounterBacked ==
    counter.n > 0 =>
        counter.n <= evidence.n /\ counter.gen = evidence.gen
                                /\ counter.server = evidence.server

\* A tunnel that stays up and lossy while the LAN is clean and the tools answer is
\* tripped on again and again, unless the agent keeps crashing or raising.
SteadyLoss == /\ tun # NoTunnel
              /\ net = [path |-> "bad", lan |-> "ok", tools |-> "up"]

LossTrips ==
    (<>[]SteadyLoss /\ <>[][~WatchRaises /\ ~Crash]_vars) => []<>(pc = "tripped")

\* The shown counter stays within the run of bad windows behind it (watch_once).
CounterHonest == TypeOK /\ CounterBacked
=============================================================================
