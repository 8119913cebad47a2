----------------------------- MODULE SwitchWalk -----------------------------
(***************************************************************************)
(* How the vpn-agent moves the tunnel: boot_check, wait_for_tunnel,        *)
(* switch, _quick, _fall_back, verify_tunnel and _finish of Agent, and     *)
(* disconnect, connect and tun_ok of Bluetit (both in                      *)
(* images/airvpn-bluetit/agent.py), against a daemon that lands a connect  *)
(* when it pleases, after the agent has given up on it too.                *)
(*                                                                         *)
(* clock is the monotonic time since switch() read `started`, in ticks.  A *)
(* goldcrest call or a verification probe takes 0..CallTime ticks, the     *)
(* pause between two status polls one.  A tunnel is ok, dead (Bluetit      *)
(* reports it connected and no packet returns) or on another device than   *)
(* tun0.  Whether a switch is allowed is module SwitchBudget, when one is  *)
(* wanted is module DegradationWatch.                                      *)
(***************************************************************************)
EXTENDS Integers, Sequences, FiniteSetsExt

CONSTANTS
    Servers,         \* the AirVPN servers
    Band,            \* VPN_AGENT_BAND
    Attempts,        \* VPN_AGENT_ATTEMPTS
    VerifySeconds,   \* VPN_AGENT_VERIFY_SECONDS, in ticks
    RecoveryBudget,  \* VPN_AGENT_RECOVERY_BUDGET_SECONDS, in ticks
    QuickReserve,    \* VPN_AGENT_QUICK_RESERVE_SECONDS, in ticks
    Backoff,         \* the longest pause between two attempts, in ticks
    CallTime,        \* the longest goldcrest call or verification probe
    MaxSwitches,     \* bound: how many switches are begun
    MaxFaults,       \* bound: how often the tunnel changes by itself
    None

ASSUME WalkAssumption ==
    /\ {Band, Attempts, VerifySeconds, QuickReserve, Backoff} \subseteq Nat \ {0}
    /\ {CallTime, MaxSwitches, MaxFaults} \subseteq Nat
    /\ RecoveryBudget \in Nat /\ RecoveryBudget >= QuickReserve
    /\ None \notin Servers \cup {"boot_upgrade", "degradation", "fallback"}

VARIABLES
    tun,        \* the tunnel: Bluetit's server and what is behind it
    pending,    \* the server of a connect that was accepted and has not landed
    faults,     \* how often the tunnel changed by itself
    dry,        \* VPN_AGENT_DRY_RUN
    pc,         \* where the agent thread stands
    current,    \* current_server
    job,        \* the switch in progress: its reason and the server to leave
    begun,      \* how many switches were begun
    clock,      \* ticks since `started`
    names,      \* the candidates left, the one being tried first
    attempt,    \* how often it has been dialled
    target,     \* the name given to connect(); None: quick
    refused,    \* goldcrest answered the connect with an ERROR
    limit,      \* when connect() stops polling
    connected,  \* what connect() returned
    switches,   \* switches_total by reason, up to one per reason
    trace,      \* auxiliary: what was tried and seen in this switch
    outcome     \* auxiliary: how the last switch ended, and what was armed

world == <<tun, pending, faults, dry>>
walk == <<names, attempt, target, refused, limit, connected>>
vars == <<world, pc, current, job, begun, clock, walk, switches, trace, outcome>>

NoTunnel == [server |-> None, state |-> "down"]
Tunnel == [server : Servers, state : {"ok", "dead", "wrongDevice"}] \cup {NoTunnel}

NoJob == [reason |-> "none", leave |-> None]
NoTrace == [quick |-> FALSE, traffic |-> FALSE, device |-> FALSE]

WalkDeadline == RecoveryBudget - QuickReserve

Least(x, y) == IF x <= y THEN x ELSE y

\* candidate_names(): the top of the ranking without the server to leave.  The
\* ranking has no server twice.
CandidateLists(leave) ==
    {s \in UNION {[1..n -> Servers \ {leave}] : n \in 0..Band} :
        \A i, j \in DOMAIN s : s[i] = s[j] => i = j}

Init ==
    /\ tun = NoTunnel /\ pending = None /\ faults = 0
    /\ dry \in BOOLEAN
    /\ pc = "down" /\ current = None
    /\ job = NoJob /\ begun = 0 /\ clock = 0
    /\ names = <<>> /\ attempt = 1 /\ target = None
    /\ refused = FALSE /\ limit = 0 /\ connected = None
    /\ switches = {}
    /\ trace = NoTrace /\ outcome = None

-----------------------------------------------------------------------------
(* Bluetit *)

\* An accepted connect lands, on time or late.  Nothing is known of the tunnel.
Lands ==
    /\ pending # None
    /\ tun' \in {t \in Tunnel : t.server = pending}
    /\ pending' = None
    /\ UNCHANGED <<faults, dry, pc, current, job, begun, clock, walk, switches, trace, outcome>>

\* The sidecar connects at boot, reconnects or loses the tunnel by itself
TunnelChanges ==
    /\ faults < MaxFaults
    /\ faults' = faults + 1
    /\ tun' \in Tunnel \ {tun}
    /\ UNCHANGED <<pending, dry, pc, current, job, begun, clock, walk, switches, trace, outcome>>

\* One goldcrest call or probe passes this much time
Takes(calls) == \E d \in 0..(calls * CallTime) : clock' = clock + d

\* --disconnect: done, or refused as "busy" on an idle daemon
Disconnects ==
    \/ tun' = NoTunnel /\ pending' = None
    \/ UNCHANGED <<tun, pending>>

\* --air-connect --async: refused, accepted, or neither (a flood, a busy daemon).
\* Without a name Bluetit picks the server.
Dials(name) ==
    \/ /\ refused' = TRUE
       /\ UNCHANGED pending
    \/ /\ refused' = FALSE
       /\ tun = NoTunnel
       /\ pending' \in IF name = None THEN Servers ELSE {name}
    \/ /\ refused' = FALSE
       /\ UNCHANGED pending

\* --bluetit-status: the server it reports, or nothing when the call fails
Statuses == {tun.server, None}

-----------------------------------------------------------------------------
(* Boot *)

AgentStarts ==
    /\ pc = "down"
    /\ pc' = "boot"
    /\ UNCHANGED <<world, current, job, begun, clock, walk, switches, trace, outcome>>

\* wait_for_tunnel() sees a server, or gives up: the startup probe owns that
TunnelSeen ==
    /\ pc = "boot"
    /\ \E s \in Statuses : s # None /\ current' = s
    /\ pc' = "bootCheck"
    /\ UNCHANGED <<world, job, begun, clock, walk, switches, trace, outcome>>

NoTunnelAtBoot ==
    /\ pc = "boot"
    /\ None \in Statuses
    /\ pc' = "idle"
    /\ UNCHANGED <<world, current, job, begun, clock, walk, switches, trace, outcome>>

\* No usable ranking, or already in the band
BootStays ==
    /\ pc = "bootCheck"
    /\ pc' = "idle"
    /\ UNCHANGED <<world, current, job, begun, clock, walk, switches, trace, outcome>>

\* switch() begins with the candidates; unless dry it sleeps its jitter
Begin(reason) ==
    /\ begun < MaxSwitches
    /\ begun' = begun + 1
    /\ job' = [reason |-> reason, leave |-> current]
    /\ names' \in CandidateLists(current)
    /\ attempt' = 1
    /\ trace' = NoTrace
    /\ pc' = "jitter"
    /\ UNCHANGED <<world, current, clock, target, refused, limit, connected, switches,
                   outcome>>

\* A ranking was there: the band is the server's list and does not hold current
BootUpgrade ==
    /\ pc = "bootCheck"
    /\ Begin("boot_upgrade")
    /\ names' # <<>>

\* watch_once() tripped on the server it has just read, and the budget allows it;
\* without a ranking there is no candidate
Trip ==
    /\ pc = "idle"
    /\ current # None
    /\ Begin("degradation")

\* watch_once() re-reads the server in every window
Watch ==
    /\ pc = "idle"
    /\ current' \in Statuses \ {current}
    /\ UNCHANGED <<world, pc, job, begun, clock, walk, switches, trace, outcome>>

-----------------------------------------------------------------------------
(* switch() *)

\* `started` is read, and the tunnel is taken down
Disconnect ==
    /\ pc = "jitter" /\ ~dry
    /\ Disconnects
    /\ \E d \in 0..(2 * CallTime) : clock' = d
    /\ pc' = "walk"
    /\ UNCHANGED <<faults, dry, current, job, begun, walk, switches, trace, outcome>>

\* Another attempt at the first candidate, while the walk's deadline allows it
Dial ==
    /\ pc = "walk"
    /\ names # <<>> /\ clock < WalkDeadline
    /\ Dials(Head(names))
    /\ Takes(1)
    /\ target' = Head(names)
    /\ limit' = Least(clock' + VerifySeconds, WalkDeadline)
    /\ trace' = [trace EXCEPT !.traffic = FALSE, !.device = FALSE]
    /\ pc' = "poll"
    /\ UNCHANGED <<tun, faults, dry, current, job, begun, names, attempt, connected,
                   switches, outcome>>

\* The candidates or the walk's time are used up: quick, up to the hard deadline
DialQuick ==
    /\ pc = "walk"
    /\ names = <<>> \/ clock >= WalkDeadline
    /\ Dials(None)
    /\ Takes(1)
    /\ target' = None
    /\ limit' = Least(clock' + VerifySeconds, RecoveryBudget)
    /\ trace' = [trace EXCEPT !.quick = TRUE, !.traffic = FALSE, !.device = FALSE]
    /\ pc' = "quickPoll"
    /\ UNCHANGED <<tun, faults, dry, current, job, begun, names, attempt, connected,
                   switches, outcome>>

Polling == pc \in {"poll", "quickPoll"}

\* connect(): the status is the only evidence, and the name must be the one asked
Accepts(s) == s # None /\ (pc = "quickPoll" \/ s = target)

PollConnects ==
    /\ Polling
    /\ Takes(1)
    /\ \E s \in Statuses : Accepts(s) /\ connected' = s
    /\ pc' = IF pc = "quickPoll" THEN "quickDevice" ELSE "device"
    /\ UNCHANGED <<world, current, job, begun, names, attempt, target, refused, limit,
                   switches, trace, outcome>>

PollAgain ==
    /\ Polling
    /\ \E d \in 0..CallTime : clock + d < limit /\ clock' = clock + d + 1
    /\ \E s \in Statuses : ~Accepts(s)
    /\ ~refused
    /\ UNCHANGED <<world, pc, current, job, begun, walk, switches, trace, outcome>>

PollGivesUp ==
    /\ Polling
    /\ Takes(1)
    /\ \E s \in Statuses : ~Accepts(s)
    /\ refused \/ clock' >= limit
    /\ connected' = None
    /\ pc' = IF pc = "quickPoll" THEN "finish" ELSE "retry"
    /\ UNCHANGED <<world, current, job, begun, names, attempt, target, refused, limit,
                   switches, trace, outcome>>

\* Mutant of Retry: a refused connect is repeated at once and not counted
RetryUncounted ==
    /\ pc = "retry"
    /\ attempt < Attempts
    /\ pc' = "walk"
    /\ UNCHANGED <<world, current, job, begun, clock, walk, switches, trace, outcome>>

\* The back-off, then the loop's next attempt
Retry ==
    /\ pc = "retry"
    /\ attempt < Attempts
    /\ \E d \in 1..Backoff : clock' = clock + d
    /\ attempt' = attempt + 1
    /\ pc' = "walk"
    /\ UNCHANGED <<world, current, job, begun, names, target, refused, limit, connected,
                   switches, trace, outcome>>

MoveOn ==
    /\ pc = "retry"
    /\ attempt >= Attempts
    /\ names' = Tail(names) /\ attempt' = 1
    /\ pc' = "walk"
    /\ UNCHANGED <<world, current, job, begun, clock, target, refused, limit, connected,
                   switches, trace, outcome>>

\* tun_ok(): the device is looked for now.  quick is verified either way.
DeviceOk == tun.state \in {"ok", "dead"}

CheckDevice ==
    /\ pc \in {"device", "quickDevice"}
    /\ trace' = [trace EXCEPT !.device = DeviceOk]
    /\ pc' = IF pc = "quickDevice" THEN "quickVerify"
             ELSE IF DeviceOk THEN "verify" ELSE "finish"
    /\ UNCHANGED <<world, current, job, begun, clock, walk, switches, outcome>>

\* Mutant of Verify: the status string is believed
VerifyByStatus ==
    /\ pc \in {"verify", "quickVerify"}
    /\ Takes(1)
    /\ pc' = "finish"
    /\ UNCHANGED <<world, current, job, begun, walk, switches, trace, outcome>>

\* verify_tunnel(): a packet came back, or none did or the probe did not run
Verify ==
    /\ pc \in {"verify", "quickVerify"}
    /\ Takes(1)
    /\ \E passes \in {FALSE, tun.state \in {"ok", "wrongDevice"}} :
          /\ trace' = [trace EXCEPT !.traffic = passes]
          /\ pc' = IF passes \/ pc = "quickVerify" THEN "finish" ELSE "drop"
    /\ UNCHANGED <<world, current, job, begun, walk, switches, outcome>>

\* A candidate that passed no traffic is taken down and never dialled again
DropCandidate ==
    /\ pc = "drop"
    /\ Disconnects
    /\ Takes(2)
    /\ names' = Tail(names) /\ attempt' = 1
    /\ pc' = "walk"
    /\ UNCHANGED <<faults, dry, current, job, begun, target, refused, limit, connected, switches,
                   outcome, trace>>

-----------------------------------------------------------------------------
(* The ends of a switch *)

\* _earned_cooldown()
Earned == IF job.reason = "degradation" THEN "full" ELSE "short"

\* How each way into _finish() counts the switch and what it arms
CountedAs ==
    IF trace.quick THEN "fallback" ELSE IF trace.device THEN job.reason ELSE None

Armed ==
    IF ~trace.quick THEN (IF trace.device THEN Earned ELSE "full")
    ELSE IF connected # None /\ trace.traffic THEN Earned ELSE "short"

\* _finish(): the server, the count and one budget entry
Finish ==
    /\ pc = "finish"
    /\ current' = connected
    /\ switches' = IF connected # None /\ CountedAs # None
                   THEN switches \cup {CountedAs} ELSE switches
    /\ outcome' = [server |-> connected, reason |-> job.reason, leave |-> job.leave,
                   counted |-> IF connected # None THEN CountedAs ELSE None,
                   armed |-> Armed, quick |-> trace.quick, traffic |-> trace.traffic,
                   device |-> trace.device]
    /\ job' = NoJob /\ trace' = NoTrace /\ clock' = 0
    /\ names' = <<>> /\ attempt' = 1 /\ target' = None
    /\ refused' = FALSE /\ limit' = 0 /\ connected' = None
    /\ pc' = "idle"
    /\ UNCHANGED <<world, begun>>

\* VPN_AGENT_DRY_RUN: the switch is recorded with the cooldown its reason has
\* earned, and the tunnel is left alone
DryRun ==
    /\ pc = "jitter" /\ dry
    /\ outcome' = [server |-> current, reason |-> job.reason, leave |-> job.leave,
                   counted |-> None, armed |-> Earned, quick |-> FALSE,
                   traffic |-> FALSE, device |-> FALSE]
    /\ job' = NoJob /\ trace' = NoTrace
    /\ names' = <<>> /\ attempt' = 1
    /\ pc' = "idle"
    /\ UNCHANGED <<world, current, begun, clock, target, refused, limit, connected, switches>>

\* The process dies, or an exception leaves switch() and run() goes on watching:
\* nothing is recorded
Stop(next) ==
    /\ job' = NoJob /\ trace' = NoTrace /\ clock' = 0
    /\ names' = <<>> /\ attempt' = 1 /\ target' = None
    /\ refused' = FALSE /\ limit' = 0 /\ connected' = None
    /\ pc' = next
    /\ UNCHANGED <<world, begun, outcome>>

Raises ==
    /\ job.reason = "degradation" /\ pc # "jitter"
    /\ Stop("idle")
    /\ UNCHANGED <<current, switches>>

Crash ==
    /\ pc # "down"
    /\ Stop("down")
    /\ current' = None /\ switches' = {}

SwitchStep ==
    \/ Disconnect \/ Dial \/ DialQuick
    \/ PollConnects \/ PollAgain \/ PollGivesUp
    \/ Retry \/ MoveOn
    \/ CheckDevice \/ Verify \/ DropCandidate
    \/ Finish

BootStep == AgentStarts \/ TunnelSeen \/ NoTunnelAtBoot \/ BootStays \/ BootUpgrade

Next ==
    \/ Lands \/ TunnelChanges
    \/ BootStep \/ Trip \/ Watch
    \/ SwitchStep
    \/ DryRun \/ Raises \/ Crash

Spec == Init /\ [][Next]_vars

\* The agent thread keeps running: its calls have timeouts and its sleeps end
FairSpec == Spec /\ WF_vars(SwitchStep)

-----------------------------------------------------------------------------
(* Properties *)

Reasons == {"boot_upgrade", "degradation"}

TypeOK ==
    /\ tun \in Tunnel /\ pending \in Servers \cup {None} /\ faults \in Nat
    /\ dry \in BOOLEAN
    /\ pc \in {"down", "boot", "bootCheck", "idle", "jitter", "walk", "poll", "quickPoll",
               "retry", "device", "quickDevice", "verify", "quickVerify", "drop", "finish"}
    /\ current \in Servers \cup {None}
    /\ job \in [reason : Reasons \cup {"none"}, leave : Servers \cup {None}]
    /\ begun \in Nat /\ clock \in Nat /\ limit \in Nat
    /\ names \in Seq(Servers)
    /\ attempt \in 1..Attempts
    /\ target \in Servers \cup {None} /\ refused \in BOOLEAN
    /\ connected \in Servers \cup {None}
    /\ switches \in SUBSET (Reasons \cup {"fallback"})
    /\ trace \in [quick : BOOLEAN, traffic : BOOLEAN, device : BOOLEAN]
    /\ outcome \in [server : Servers \cup {None}, reason : Reasons,
                    leave : Servers \cup {None},
                    counted : Reasons \cup {"fallback", None}, armed : {"full", "short"},
                    quick : BOOLEAN, traffic : BOOLEAN, device : BOOLEAN] \cup {None}

\* A switch counts as a success of its reason only when packets really came back
\* over tun0 after its last dial, whatever Bluetit's status said.
SuccessVerified ==
    (outcome # None /\ outcome.counted \in Reasons) => outcome.traffic /\ outcome.device

\* A degradation switch that counts as a success has left the server it tripped
\* on, though Bluetit may land an earlier connect late or reconnect by itself.
SuccessLeaves ==
    (outcome # None /\ outcome.counted \in Reasons) => outcome.server # outcome.leave

\* The agent gives up without a tunnel only after quick was dialled too.
QuickBeforeNoTunnel ==
    (outcome # None /\ outcome.server = None /\ outcome.leave # None) => outcome.quick

\* The latest a switch may turn to quick, and be over: the candidate dialled last
\* was still in time, and every call from there on took its longest.
QuickStartsBy ==
    WalkDeadline + Max({4 * CallTime, 5 * CallTime - 1,
                        CallTime + Backoff, 2 * CallTime + Backoff - 1})

HardEnd == Max({RecoveryBudget + 2 * CallTime, QuickStartsBy + 3 * CallTime})

\* However the daemon delays, a switch is over a few calls after its recovery
\* budget: neither the walk nor quick polls past its deadline.
RecoveryBounded == clock <= HardEnd

\* A switch that has taken the tunnel down ends: on a server, or with none, and
\* is recorded.
SwitchEnds == (pc \in {"walk", "poll", "quickPoll", "retry", "device", "quickDevice",
                       "verify", "quickVerify", "drop", "finish"})
                  ~> (pc \in {"idle", "down"})

\* What a walk ends with: a success had traffic and left the server it tripped on,
\* quick was dialled before giving up, and no step polls past its deadline
\* (switch, _verify, _quick).
WalkSound == TypeOK /\ SuccessVerified /\ SuccessLeaves /\ QuickBeforeNoTunnel /\ RecoveryBounded
=============================================================================
