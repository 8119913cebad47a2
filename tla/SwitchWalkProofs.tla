-------------------------- MODULE SwitchWalkProofs --------------------------
(***************************************************************************)
(* For any servers and times: a walk counts a success only for a server    *)
(* that is not the one it leaves and that returned packets over tun0, dials *)
(* quick before it ends without a tunnel, and is over by HardEnd.          *)
(*                                                                         *)
(* Each step of switch() knows what the steps before it left behind: which *)
(* name was dialled and what was seen of it since (Standing), for which    *)
(* switch (JobInv), and how late it can be (InTime), the deadline of every *)
(* poll being the limit that was set by its dial.                          *)
(***************************************************************************)
EXTENDS SwitchWalk, TLAPS

AtRest == pc \in {"down", "boot", "bootCheck", "idle"}

\* A switch leaves a server, and does not try it again
JobInv ==
    /\ ~AtRest => job.reason \in Reasons /\ job.leave # None
    /\ pc \in {"bootCheck", "jitter"} => current # None
    /\ names \in Seq(Servers \ {job.leave})

Dialled == pc \in {"poll", "retry", "device", "verify", "drop"}

\* What the agent has tried and seen since its last dial
Standing ==
    /\ pc \in {"jitter", "walk"} \/ Dialled => ~trace.quick
    /\ pc \in {"quickPoll", "quickDevice", "quickVerify"} => trace.quick
    /\ Dialled => names # <<>> /\ target = Head(names)
    /\ pc \in {"device", "verify", "drop"} => connected = target
    /\ pc = "verify" => trace.device
    /\ pc = "finish" /\ ~trace.quick =>
           /\ names # <<>> /\ connected = Head(names)
           /\ trace.device => trace.traffic

\* The latest at which a poll of a candidate, and one of quick, may begin
LastPoll == WalkDeadline + Max({CallTime - 1, 0})
LastQuickPoll == Max({QuickStartsBy + CallTime, RecoveryBudget})

\* How late it can be at each step
InTime ==
    /\ AtRest \/ pc = "jitter" => clock = 0
    /\ pc = "walk" => clock <= QuickStartsBy
    /\ pc = "poll" => clock <= LastPoll /\ limit <= WalkDeadline
    /\ pc \in {"retry", "device", "verify"} => clock <= LastPoll + CallTime
    /\ pc = "drop" => clock <= LastPoll + 2 * CallTime
    /\ pc = "quickPoll" => clock <= LastQuickPoll /\ limit <= RecoveryBudget
    /\ pc \in {"quickDevice", "quickVerify"} => clock <= LastQuickPoll + CallTime
    /\ pc = "finish" => clock <= HardEnd

Recorded == SuccessVerified /\ SuccessLeaves /\ QuickBeforeNoTunnel

WInv == TypeOK /\ JobInv /\ Standing /\ InTime /\ Recorded
-----------------------------------------------------------------------------
(* Times *)

LEMMA MaxOfTwo ==
    ASSUME NEW a \in Int, NEW b \in Int
    PROVE  Max({a, b}) \in {a, b} /\ a <= Max({a, b}) /\ b <= Max({a, b})
<1>1. \E x \in {a, b} : \A y \in {a, b} : x >= y
    <2>1. CASE a >= b
        BY <2>1
    <2>2. CASE b >= a
        BY <2>2
    <2> QED BY <2>1, <2>2
<1> QED BY <1>1 DEF Max

LEMMA MaxOfFour ==
    ASSUME NEW a \in Int, NEW b \in Int, NEW c \in Int, NEW d \in Int
    PROVE  /\ Max({a, b, c, d}) \in Int
           /\ a <= Max({a, b, c, d}) /\ b <= Max({a, b, c, d})
           /\ c <= Max({a, b, c, d}) /\ d <= Max({a, b, c, d})
<1> DEFINE S == {a, b, c, d}
<1>1. PICK e \in {a, b} : e >= a /\ e >= b
    BY MaxOfTwo
<1>2. PICK f \in {c, d} : f >= c /\ f >= d
    BY MaxOfTwo
<1>3. PICK g \in {e, f} : g >= e /\ g >= f
    BY <1>1, <1>2, MaxOfTwo
<1>4. g \in S /\ \A z \in S : g >= z
    BY <1>1, <1>2, <1>3
<1>5. Max(S) \in S /\ \A z \in S : Max(S) >= z
    BY <1>4 DEF Max
<1> QED BY <1>5

\* Every time the switch can reach, against the bounds named above.
LEMMA Times ==
    ASSUME WalkAssumption
    PROVE  /\ CallTime \in Nat /\ Backoff \in Nat \ {0} /\ VerifySeconds \in Nat \ {0}
           /\ WalkDeadline \in Nat /\ RecoveryBudget \in Nat /\ WalkDeadline <= RecoveryBudget
           /\ LastPoll \in Nat /\ WalkDeadline <= LastPoll /\ WalkDeadline + CallTime <= LastPoll + 1
           /\ QuickStartsBy \in Nat /\ LastPoll + 4 * CallTime <= QuickStartsBy
           /\ LastPoll + CallTime + Backoff <= QuickStartsBy
           /\ LastQuickPoll \in Nat /\ QuickStartsBy + CallTime <= LastQuickPoll
           /\ RecoveryBudget <= LastQuickPoll
           /\ HardEnd \in Nat /\ LastQuickPoll + 2 * CallTime <= HardEnd
<1>1. /\ CallTime \in Nat /\ Backoff \in Nat \ {0} /\ VerifySeconds \in Nat \ {0}
      /\ WalkDeadline \in Nat /\ RecoveryBudget \in Nat /\ WalkDeadline <= RecoveryBudget
    BY DEF WalkAssumption, WalkDeadline
<1> DEFINE late == Max({4 * CallTime, 5 * CallTime - 1,
                        CallTime + Backoff, 2 * CallTime + Backoff - 1})
<1>2. /\ late \in Int /\ 4 * CallTime <= late /\ 5 * CallTime - 1 <= late
      /\ CallTime + Backoff <= late /\ 2 * CallTime + Backoff - 1 <= late
    <2>1. /\ 4 * CallTime \in Int /\ 5 * CallTime - 1 \in Int
          /\ CallTime + Backoff \in Int /\ 2 * CallTime + Backoff - 1 \in Int
        BY <1>1
    <2> QED BY Zenon, <2>1, MaxOfFour
<1>3. QuickStartsBy = WalkDeadline + late
    BY Zenon DEF QuickStartsBy
<1> DEFINE lead == Max({CallTime - 1, 0})
<1>4. lead \in {CallTime - 1, 0} /\ CallTime - 1 <= lead /\ 0 <= lead
    <2>1. CallTime - 1 \in Int /\ 0 \in Int
        BY <1>1
    <2> QED BY Zenon, <2>1, MaxOfTwo
<1>5. LastPoll = WalkDeadline + lead
    BY Zenon DEF LastPoll
<1> HIDE DEF late, lead
<1>6. QuickStartsBy \in Nat /\ LastPoll \in Nat
    BY <1>1, <1>2, <1>3, <1>4, <1>5
<1>7. LastQuickPoll \in {QuickStartsBy + CallTime, RecoveryBudget}
        /\ QuickStartsBy + CallTime <= LastQuickPoll /\ RecoveryBudget <= LastQuickPoll
    <2>1. QuickStartsBy + CallTime \in Int /\ RecoveryBudget \in Int
        BY <1>1, <1>6
    <2> QED BY Zenon, <2>1, MaxOfTwo DEF LastQuickPoll
<1>8. HardEnd \in {RecoveryBudget + 2 * CallTime, QuickStartsBy + 3 * CallTime}
        /\ RecoveryBudget + 2 * CallTime <= HardEnd /\ QuickStartsBy + 3 * CallTime <= HardEnd
    <2>1. RecoveryBudget + 2 * CallTime \in Int /\ QuickStartsBy + 3 * CallTime \in Int
        BY <1>1, <1>6
    <2> QED BY Zenon, <2>1, MaxOfTwo DEF HardEnd
<1> QED BY <1>1, <1>2, <1>3, <1>4, <1>5, <1>6, <1>7, <1>8

\* What a call, or two, may take.
LEMMA TakesOK ==
    ASSUME WalkAssumption, clock \in Nat
    PROVE  /\ Takes(1) => clock' \in Nat /\ clock <= clock' /\ clock' <= clock + CallTime
           /\ Takes(2) => clock' \in Nat /\ clock <= clock' /\ clock' <= clock + 2 * CallTime
<1>1. CallTime \in Nat /\ 1 * CallTime = CallTime
    BY Times
<1>2. ASSUME Takes(1) PROVE clock' \in Nat /\ clock <= clock' /\ clock' <= clock + CallTime
    <2>1. PICK d \in 0..(1 * CallTime) : clock' = clock + d
        BY <1>2 DEF Takes
    <2> QED BY <1>1, <2>1
<1>3. ASSUME Takes(2) PROVE clock' \in Nat /\ clock <= clock' /\ clock' <= clock + 2 * CallTime
    <2>1. PICK d \in 0..(2 * CallTime) : clock' = clock + d
        BY <1>3 DEF Takes
    <2> QED BY <1>1, <2>1
<1> QED BY <1>2, <1>3

LEMMA LeastOK ==
    ASSUME NEW x \in Nat, NEW y \in Nat
    PROVE  Least(x, y) \in Nat /\ Least(x, y) <= x /\ Least(x, y) <= y
BY DEF Least

-----------------------------------------------------------------------------
(* Types *)

LEMMA Constants ==
    ASSUME WalkAssumption
    PROVE  /\ Attempts \in Nat \ {0} /\ Band \in Nat /\ None \notin Servers
           /\ None \notin Reasons /\ "fallback" \notin Reasons
BY DEF WalkAssumption, Reasons

\* The candidates are a list of servers that does not hold the one to leave.
LEMMA CandidatesOK ==
    ASSUME NEW leave, NEW s \in CandidateLists(leave)
    PROVE  s \in Seq(Servers \ {leave})
BY DEF CandidateLists

\* What begins or ends a switch.
LEMMA BeginTypes ==
    ASSUME WalkAssumption, TypeOK, NEW reason \in Reasons, Begin(reason)
    PROVE  TypeOK'
<1>1. job' \in [reason : Reasons \cup {"none"}, leave : Servers \cup {None}]
    BY DEF Begin, TypeOK
<1>2. names' \in Seq(Servers)
    <2>1. names' \in Seq(Servers \ {current})
        BY CandidatesOK DEF Begin
    <2> QED BY <2>1
<1>3. trace' \in [quick : BOOLEAN, traffic : BOOLEAN, device : BOOLEAN] /\ attempt' \in 1..Attempts
    BY Constants DEF Begin, NoTrace
<1> QED BY <1>1, <1>2, <1>3 DEF Begin, TypeOK, world

LEMMA StopTypes ==
    ASSUME WalkAssumption, TypeOK, NEW next \in {"idle", "down"}, Stop(next),
           current' \in Servers \cup {None}, switches' \in SUBSET (Reasons \cup {"fallback"})
    PROVE  TypeOK'
<1>1. job' \in [reason : Reasons \cup {"none"}, leave : Servers \cup {None}]
    BY DEF Stop, NoJob
<1>2. trace' \in [quick : BOOLEAN, traffic : BOOLEAN, device : BOOLEAN] /\ attempt' \in 1..Attempts
    BY Constants DEF Stop, NoTrace
<1>3. names' \in Seq(Servers)
    BY DEF Stop
<1> QED BY ZenonT(60), <1>1, <1>2, <1>3 DEF Stop, TypeOK, world

\* The daemon, and the agent's steps outside a switch.
LEMMA RestTypes ==
    ASSUME WalkAssumption, TypeOK, Lands \/ TunnelChanges \/ BootStep \/ Trip \/ Watch
    PROVE  TypeOK'
<1> USE Constants
<1>1. CASE Lands
    BY <1>1 DEF Lands, TypeOK, walk
<1>2. CASE TunnelChanges
    BY <1>2 DEF TunnelChanges, TypeOK, walk
<1>3. CASE AgentStarts \/ NoTunnelAtBoot \/ BootStays
    BY <1>3 DEF AgentStarts, NoTunnelAtBoot, BootStays, TypeOK, world, walk
<1>4. Statuses \subseteq Servers \cup {None}
    BY DEF Statuses, TypeOK, Tunnel, NoTunnel
<1>5. CASE TunnelSeen \/ Watch
    BY <1>4, <1>5 DEF TunnelSeen, Watch, TypeOK, world, walk
<1>6. CASE BootUpgrade
    BY <1>6, BeginTypes DEF BootUpgrade, Reasons
<1>7. CASE Trip
    BY <1>7, BeginTypes DEF Trip, Reasons
<1> QED BY <1>1, <1>2, <1>3, <1>5, <1>6, <1>7 DEF BootStep

Traces == [quick : BOOLEAN, traffic : BOOLEAN, device : BOOLEAN]

LEMMA DialTypes ==
    ASSUME WalkAssumption, TypeOK, Disconnect \/ Dial \/ DialQuick
    PROVE  TypeOK'
<1>1. clock \in Nat /\ trace \in Traces /\ names \in Seq(Servers)
    BY DEF TypeOK, Traces
<1>2. CASE Disconnect
    <2>1. tun' \in Tunnel /\ pending' \in Servers \cup {None}
        BY <1>2 DEF Disconnect, Disconnects, Tunnel, TypeOK
    <2>2. clock' \in Nat
        <3>1. PICK d \in 0..(2 * CallTime) : clock' = d
            BY <1>2 DEF Disconnect
        <3> QED BY <3>1, Times
    <2>3. /\ pc' = "walk"
          /\ UNCHANGED <<faults, dry, current, job, begun, walk, switches, trace, outcome>>
        BY <1>2 DEF Disconnect
    <2> QED BY <2>1, <2>2, <2>3 DEF TypeOK, walk
<1>3. CASE Dial \/ DialQuick
    <2>1. PICK name \in Servers \cup {None} : Dials(name) /\ target' = name
        <3>1. CASE Dial
            <4>1. names # <<>> /\ Dials(Head(names)) /\ target' = Head(names)
                BY <3>1 DEF Dial
            <4>2. Head(names) \in Servers
                BY <1>1, <4>1
            <4> QED BY <4>1, <4>2
        <3>2. CASE DialQuick
            BY <3>2 DEF DialQuick
        <3> QED BY <1>3, <3>1, <3>2
    <2>2. pending' \in Servers \cup {None} /\ refused' \in BOOLEAN
        BY <2>1 DEF Dials, TypeOK
    <2>3. clock' \in Nat
        BY <1>1, <1>3, TakesOK DEF Dial, DialQuick
    <2>4. limit' \in Nat
        <3>1. clock' + VerifySeconds \in Nat /\ WalkDeadline \in Nat /\ RecoveryBudget \in Nat
            BY <2>3, Times
        <3> QED BY <1>3, <3>1, LeastOK DEF Dial, DialQuick
    <2>5. trace' \in Traces /\ pc' \in {"poll", "quickPoll"}
        BY <1>1, <1>3 DEF Dial, DialQuick, Traces
    <2>6. UNCHANGED <<tun, faults, dry, current, job, begun, names, attempt, connected,
                      switches, outcome>>
        BY <1>3 DEF Dial, DialQuick
    <2> QED BY Z3T(60), <2>1, <2>2, <2>3, <2>4, <2>5, <2>6 DEF TypeOK, Traces
<1> QED BY <1>2, <1>3

LEMMA PollTypes ==
    ASSUME WalkAssumption, TypeOK, PollConnects \/ PollAgain \/ PollGivesUp \/ Retry
    PROVE  TypeOK'
<1>1. Statuses \subseteq Servers \cup {None} /\ clock \in Nat /\ attempt \in 1..Attempts
    BY DEF Statuses, TypeOK, Tunnel, NoTunnel
<1>2. CASE PollConnects \/ PollGivesUp
    <2>1. clock' \in Nat
        BY <1>1, <1>2, TakesOK DEF PollConnects, PollGivesUp
    <2>2. /\ connected' \in Servers \cup {None}
          /\ pc' \in {"quickDevice", "device", "finish", "retry"}
        BY <1>1, <1>2 DEF PollConnects, PollGivesUp
    <2>3. UNCHANGED <<tun, pending, faults, dry, current, job, begun, names, attempt, target,
                      refused, limit, switches, trace, outcome>>
        BY <1>2 DEF PollConnects, PollGivesUp, world
    <2> QED BY Z3T(60), <2>1, <2>2, <2>3 DEF TypeOK
<1>3. CASE PollAgain
    BY <1>3 DEF PollAgain, TypeOK, world, walk
<1>4. CASE Retry
    <2>1. clock' \in Nat
        <3>1. PICK d \in 1..Backoff : clock' = clock + d
            BY <1>4 DEF Retry
        <3> QED BY <1>1, <3>1, Times
    <2>2. attempt' \in 1..Attempts /\ pc' = "walk"
        BY <1>1, <1>4 DEF Retry
    <2>3. UNCHANGED <<world, current, job, begun, names, target, refused, limit, connected,
                      switches, trace, outcome>>
        BY <1>4 DEF Retry
    <2> QED BY <2>1, <2>2, <2>3 DEF TypeOK, world
<1> QED BY <1>2, <1>3, <1>4

\* The next candidate: there was one to give up.
LEMMA NextTypes ==
    ASSUME WalkAssumption, TypeOK, MoveOn \/ DropCandidate, names # <<>>
    PROVE  TypeOK'
<1>1. clock \in Nat /\ names \in Seq(Servers)
    BY DEF TypeOK
<1>2. Tail(names) \in Seq(Servers)
    BY <1>1
<1>3. CASE MoveOn
    <2>1. names' = Tail(names) /\ attempt' = 1 /\ pc' = "walk"
        BY <1>3 DEF MoveOn
    <2>2. attempt' \in 1..Attempts
        BY <2>1, Constants
    <2>3. UNCHANGED <<tun, pending, faults, dry, current, job, begun, clock, target, refused, limit,
                      connected, switches, trace, outcome>>
        BY <1>3 DEF MoveOn, world
    <2> QED BY Z3T(60), <1>2, <2>1, <2>2, <2>3 DEF TypeOK
<1>4. CASE DropCandidate
    <2>1. clock' \in Nat
        BY <1>1, <1>4, TakesOK DEF DropCandidate
    <2>2. tun' \in Tunnel /\ pending' \in Servers \cup {None}
        BY <1>4 DEF DropCandidate, Disconnects, Tunnel, TypeOK
    <2>3. names' = Tail(names) /\ attempt' = 1 /\ pc' = "walk"
        BY <1>4 DEF DropCandidate
    <2>4. attempt' \in 1..Attempts
        BY <2>3, Constants
    <2>5. UNCHANGED <<faults, dry, current, job, begun, target, refused, limit, connected,
                      switches, outcome, trace>>
        BY <1>4 DEF DropCandidate
    <2> QED BY Z3T(60), <1>2, <2>1, <2>2, <2>3, <2>4, <2>5 DEF TypeOK
<1> QED BY <1>3, <1>4

LEMMA CheckTypes ==
    ASSUME WalkAssumption, TypeOK, CheckDevice \/ Verify
    PROVE  TypeOK'
<1>1. clock \in Nat /\ trace \in Traces
    BY DEF TypeOK, Traces
<1>2. CASE CheckDevice
    <2>1. DeviceOk \in BOOLEAN
        BY DEF DeviceOk
    <2>2. trace' \in Traces /\ pc' \in {"quickVerify", "verify", "finish"}
        BY <1>1, <1>2, <2>1 DEF CheckDevice, Traces
    <2>3. UNCHANGED <<tun, pending, faults, dry, current, job, begun, clock, names, attempt, target,
                      refused, limit, connected, switches, outcome>>
        BY <1>2 DEF CheckDevice, world, walk
    <2> QED BY Z3T(60), <2>2, <2>3 DEF TypeOK, Traces
<1>3. CASE Verify
    <2>1. PICK passes \in {FALSE, tun.state \in {"ok", "wrongDevice"}} :
              trace' = [trace EXCEPT !.traffic = passes] /\ pc' \in {"finish", "drop"}
        BY <1>3 DEF Verify
    <2>2. passes \in BOOLEAN
        <3>1. (tun.state \in {"ok", "wrongDevice"}) \in BOOLEAN
            OBVIOUS
        <3> QED BY Zenon, <2>1, <3>1
    <2>3. trace' \in Traces
        BY <1>1, <2>1, <2>2 DEF Traces
    <2>4. clock' \in Nat
        BY <1>1, <1>3, TakesOK DEF Verify
    <2>5. UNCHANGED <<tun, pending, faults, dry, current, job, begun, names, attempt, target,
                      refused, limit, connected, switches, outcome>>
        BY <1>3 DEF Verify, world, walk
    <2> QED BY Z3T(60), <2>1, <2>3, <2>4, <2>5 DEF TypeOK, Traces
<1> QED BY <1>2, <1>3

-----------------------------------------------------------------------------
(* Steps *)

\* Outside a switch the job is none, or the one that begins.
LEMMA BeginKeeps ==
    ASSUME WalkAssumption, WInv, NEW reason \in Reasons, Begin(reason),
           pc \in {"bootCheck", "idle"}, current # None
    PROVE  WInv'
<1>1. TypeOK'
    BY BeginTypes DEF WInv
<1>2. JobInv'
    <2>1. names' \in Seq(Servers \ {job'.leave}) /\ job'.reason = reason /\ job'.leave = current
        BY CandidatesOK DEF Begin
    <2> QED BY <2>1 DEF Begin, JobInv, AtRest, world
<1>3. Standing' /\ InTime'
    BY DEF Begin, NoTrace, WInv, Standing, Dialled, InTime, AtRest
<1>4. Recorded'
    BY DEF Begin, WInv, Recorded, SuccessVerified, SuccessLeaves, QuickBeforeNoTunnel
<1> QED BY <1>1, <1>2, <1>3, <1>4 DEF WInv

LEMMA StopKeeps ==
    ASSUME WalkAssumption, WInv, Raises \/ Crash
    PROVE  WInv'
<1>1. PICK next \in {"idle", "down"} : Stop(next)
    BY DEF Raises, Crash
<1>2. TypeOK'
    <2>1. current' \in Servers \cup {None} /\ switches' \in SUBSET (Reasons \cup {"fallback"})
        BY DEF Raises, Crash, WInv, TypeOK
    <2> QED BY <1>1, <2>1, StopTypes DEF WInv
<1>3. names' \in Seq(Servers \ {job'.leave})
    BY <1>1 DEF Stop
<1>4. JobInv' /\ Standing' /\ InTime'
    BY <1>1, <1>3 DEF Stop, JobInv, Standing, Dialled, InTime, AtRest
<1>5. Recorded'
    BY <1>1 DEF Stop, WInv, Recorded, SuccessVerified, SuccessLeaves, QuickBeforeNoTunnel
<1> QED BY <1>2, <1>4, <1>5 DEF WInv

LEMMA RestKeeps ==
    ASSUME WalkAssumption, WInv, Lands \/ TunnelChanges \/ BootStep \/ Trip \/ Watch
    PROVE  WInv'
<1>1. CASE BootUpgrade
    BY <1>1, BeginKeeps DEF BootUpgrade, Reasons, WInv, JobInv
<1>2. CASE Trip
    BY <1>2, BeginKeeps DEF Trip, Reasons
<1>3. CASE Lands \/ TunnelChanges
    <2>1. TypeOK'
        BY <1>3, RestTypes DEF WInv
    <2>2. UNCHANGED <<pc, current, job, begun, clock, walk, switches, trace, outcome>>
        BY <1>3 DEF Lands, TunnelChanges
    <2>3. JobInv' /\ Standing' /\ InTime'
        BY <2>2 DEF WInv, JobInv, Standing, Dialled, InTime, AtRest, walk
    <2>4. Recorded'
        BY <2>2 DEF WInv, Recorded, SuccessVerified, SuccessLeaves, QuickBeforeNoTunnel
    <2> QED BY <2>1, <2>3, <2>4 DEF WInv
<1>4. CASE AgentStarts \/ TunnelSeen \/ NoTunnelAtBoot \/ BootStays \/ Watch
    <2>1. TypeOK'
        BY <1>4, RestTypes DEF WInv, BootStep
    <2>2. AtRest /\ AtRest' /\ UNCHANGED <<job, clock, walk, trace, outcome>>
        BY <1>4 DEF AtRest, AgentStarts, TunnelSeen, NoTunnelAtBoot, BootStays, Watch
    <2>3. pc' = "bootCheck" => current' # None
        BY <1>4 DEF AgentStarts, TunnelSeen, NoTunnelAtBoot, BootStays, Watch
    <2>4. JobInv' /\ Standing' /\ InTime'
        BY <2>2, <2>3 DEF WInv, JobInv, Standing, Dialled, InTime, AtRest, walk
    <2>5. Recorded'
        BY <2>2 DEF WInv, Recorded, SuccessVerified, SuccessLeaves, QuickBeforeNoTunnel
    <2> QED BY <2>1, <2>4, <2>5 DEF WInv
<1> QED BY <1>1, <1>2, <1>3, <1>4 DEF BootStep

\* The steps that leave the record of the last switch alone.
LEMMA RecordKept ==
    ASSUME WInv, UNCHANGED outcome
    PROVE  Recorded'
BY DEF WInv, Recorded, SuccessVerified, SuccessLeaves, QuickBeforeNoTunnel

LEMMA Clocks == ASSUME WInv PROVE clock \in Nat /\ limit \in Nat /\ trace \in Traces
BY DEF WInv, TypeOK, Traces

LEMMA DialKeeps ==
    ASSUME WalkAssumption, WInv, Disconnect \/ Dial \/ DialQuick
    PROVE  WInv'
<1> USE Times
<1>1. TypeOK' /\ Recorded'
    BY DialTypes, RecordKept DEF WInv, Disconnect, Dial, DialQuick
<1>2. JobInv'
    BY DEF WInv, JobInv, AtRest, Disconnect, Dial, DialQuick, walk
<1>3. CASE Disconnect
    <2>1. pc' = "walk" /\ ~trace.quick /\ UNCHANGED trace
        BY <1>3 DEF WInv, Standing, Disconnect
    <2>2. clock' \in Nat /\ clock' <= 2 * CallTime
        <3>1. PICK d \in 0..(2 * CallTime) : clock' = d
            BY <1>3 DEF Disconnect
        <3> QED BY <3>1
    <2>3. Standing'
        BY <2>1 DEF Standing, Dialled
    <2>4. InTime'
        BY <2>1, <2>2 DEF InTime, AtRest
    <2> QED BY <1>1, <1>2, <2>3, <2>4 DEF WInv
<1>4. CASE Dial
    <2>1. Standing'
        BY <1>4, Clocks DEF WInv, Traces, Standing, Dialled, Dial
    <2>2. clock' \in Nat /\ clock' <= clock + CallTime /\ clock < WalkDeadline
        BY <1>4, Clocks, TakesOK DEF Dial
    <2>3. limit' <= WalkDeadline
        <3>1. clock' + VerifySeconds \in Nat
            BY <2>2
        <3> QED BY <1>4, <3>1, LeastOK DEF Dial
    <2>4. clock' <= LastPoll
        BY <2>2, Clocks
    <2>5. InTime'
        BY <1>4, <2>3, <2>4 DEF InTime, AtRest, Dial
    <2> QED BY <1>1, <1>2, <2>1, <2>5 DEF WInv
<1>5. CASE DialQuick
    <2>1. Standing'
        BY <1>5, Clocks DEF WInv, Traces, Standing, Dialled, DialQuick
    <2>2. clock' \in Nat /\ clock' <= clock + CallTime /\ clock <= QuickStartsBy
        BY <1>5, Clocks, TakesOK DEF DialQuick, WInv, InTime
    <2>3. limit' <= RecoveryBudget
        <3>1. clock' + VerifySeconds \in Nat
            BY <2>2
        <3> QED BY <1>5, <3>1, LeastOK DEF DialQuick
    <2>4. clock' <= LastQuickPoll
        BY <2>2, Clocks
    <2>5. InTime'
        BY <1>5, <2>3, <2>4 DEF InTime, AtRest, DialQuick
    <2> QED BY <1>1, <1>2, <2>1, <2>5 DEF WInv
<1> QED BY <1>3, <1>4, <1>5

LEMMA PollKeeps ==
    ASSUME WalkAssumption, WInv, PollConnects \/ PollAgain \/ PollGivesUp \/ Retry
    PROVE  WInv'
<1> USE Times, Clocks
<1>1. TypeOK' /\ Recorded'
    BY PollTypes, RecordKept DEF WInv, PollConnects, PollAgain, PollGivesUp, Retry
<1>2. CASE PollConnects
    <2>1. JobInv'
        BY <1>2 DEF WInv, JobInv, AtRest, Polling, PollConnects
    <2>2. Standing'
        BY <1>2 DEF WInv, Standing, Dialled, Polling, PollConnects, Accepts
    <2>3. clock' \in Nat /\ clock' <= clock + CallTime
        BY <1>2, TakesOK DEF PollConnects
    <2>4. \/ pc = "poll" /\ pc' = "device" /\ clock <= LastPoll
          \/ pc = "quickPoll" /\ pc' = "quickDevice" /\ clock <= LastQuickPoll
        BY <1>2 DEF WInv, InTime, PollConnects, Polling
    <2>5. InTime'
        BY <2>3, <2>4 DEF InTime, AtRest
    <2> QED BY <1>1, <2>1, <2>2, <2>5 DEF WInv
<1>3. CASE PollAgain
    <2>1. JobInv' /\ Standing'
        BY <1>3 DEF WInv, JobInv, AtRest, Standing, Dialled, PollAgain, walk
    <2>2. clock' <= limit /\ UNCHANGED <<pc, limit>>
        <3>1. PICK d \in 0..CallTime : clock + d < limit /\ clock' = clock + d + 1
            BY <1>3 DEF PollAgain
        <3> QED BY <1>3, <3>1 DEF PollAgain, walk
    <2>3. \/ pc = "poll" /\ limit <= WalkDeadline
          \/ pc = "quickPoll" /\ limit <= RecoveryBudget
        BY <1>3 DEF WInv, InTime, PollAgain, Polling
    <2>4. clock' \in Nat
        BY <1>1 DEF TypeOK
    <2>5. InTime'
        BY <2>2, <2>3, <2>4 DEF InTime, AtRest
    <2> QED BY <1>1, <2>1, <2>5 DEF WInv
<1>4. CASE PollGivesUp
    <2>1. JobInv'
        BY <1>4 DEF WInv, JobInv, AtRest, Polling, PollGivesUp
    <2>2. Standing'
        BY <1>4 DEF WInv, Standing, Dialled, Polling, PollGivesUp
    <2>3. clock' \in Nat /\ clock' <= clock + CallTime
        BY <1>4, TakesOK DEF PollGivesUp
    <2>4. \/ pc = "poll" /\ pc' = "retry" /\ clock <= LastPoll
          \/ pc = "quickPoll" /\ pc' = "finish" /\ clock <= LastQuickPoll
        BY <1>4 DEF WInv, InTime, PollGivesUp, Polling
    <2>5. InTime'
        BY <2>3, <2>4 DEF InTime, AtRest
    <2> QED BY <1>1, <2>1, <2>2, <2>5 DEF WInv
<1>5. CASE Retry
    <2>1. JobInv' /\ Standing'
        BY <1>5 DEF WInv, JobInv, AtRest, Standing, Dialled, Retry
    <2>2. clock' <= clock + Backoff
        <3>1. PICK d \in 1..Backoff : clock' = clock + d
            BY <1>5 DEF Retry
        <3> QED BY <3>1
    <2>3. pc' = "walk" /\ clock <= LastPoll + CallTime /\ clock' \in Nat
        BY <1>1, <1>5 DEF WInv, TypeOK, InTime, Retry
    <2>4. InTime'
        BY <2>2, <2>3 DEF InTime, AtRest
    <2> QED BY <1>1, <2>1, <2>4 DEF WInv
<1> QED BY <1>2, <1>3, <1>4, <1>5

LEMMA NextKeeps ==
    ASSUME WalkAssumption, WInv, MoveOn \/ DropCandidate
    PROVE  WInv'
<1> USE Times, Clocks
<1>1. names # <<>> /\ names \in Seq(Servers \ {job.leave}) /\ ~AtRest
    BY DEF WInv, Standing, Dialled, JobInv, AtRest, MoveOn, DropCandidate
<1>2. TypeOK' /\ Recorded'
    BY <1>1, NextTypes, RecordKept DEF WInv, MoveOn, DropCandidate
<1>3. pc' = "walk" /\ names' = Tail(names) /\ UNCHANGED <<job, trace>>
    BY DEF MoveOn, DropCandidate
<1>4. JobInv'
    <2>1. Tail(names) \in Seq(Servers \ {job.leave})
        BY <1>1
    <2> QED BY <1>1, <1>3, <2>1 DEF WInv, JobInv, AtRest
<1>5. Standing'
    BY <1>3 DEF WInv, Standing, Dialled, MoveOn, DropCandidate
<1>6. clock' <= QuickStartsBy
    <2>1. CASE MoveOn
        <3>1. UNCHANGED clock /\ clock <= LastPoll + CallTime
            BY <2>1 DEF WInv, InTime, MoveOn
        <3> QED BY <3>1
    <2>2. CASE DropCandidate
        <3>1. clock' \in Nat /\ clock' <= clock + 2 * CallTime
            BY <2>2, TakesOK DEF DropCandidate
        <3>2. clock <= LastPoll + 2 * CallTime
            BY <2>2 DEF WInv, InTime, DropCandidate
        <3> QED BY <3>1, <3>2
    <2> QED BY <2>1, <2>2
<1>7. InTime'
    BY <1>3, <1>6 DEF InTime, AtRest
<1> QED BY <1>2, <1>4, <1>5, <1>7 DEF WInv

LEMMA CheckKeeps ==
    ASSUME WalkAssumption, WInv, CheckDevice \/ Verify
    PROVE  WInv'
<1> USE Times, Clocks
<1>1. TypeOK' /\ Recorded'
    BY CheckTypes, RecordKept DEF WInv, CheckDevice, Verify
<1>2. CASE CheckDevice
    <2>1. JobInv'
        BY <1>2 DEF WInv, JobInv, AtRest, CheckDevice, walk, world
    <2>2. Standing'
        BY <1>2 DEF WInv, Traces, Standing, Dialled, CheckDevice, walk
    <2>3. \/ pc = "device" /\ pc' \in {"verify", "finish"} /\ clock <= LastPoll + CallTime
          \/ pc = "quickDevice" /\ pc' = "quickVerify" /\ clock <= LastQuickPoll + CallTime
        BY <1>2 DEF WInv, InTime, CheckDevice
    <2>4. UNCHANGED clock
        BY <1>2 DEF CheckDevice
    <2>5. InTime'
        BY <2>3, <2>4 DEF InTime, AtRest
    <2> QED BY <1>1, <2>1, <2>2, <2>5 DEF WInv
<1>3. CASE Verify
    <2>1. PICK passes \in {FALSE, tun.state \in {"ok", "wrongDevice"}} :
            /\ trace' = [trace EXCEPT !.traffic = passes]
            /\ pc' = IF passes \/ pc = "quickVerify" THEN "finish" ELSE "drop"
        BY <1>3 DEF Verify
    <2>2. /\ trace'.quick = trace.quick /\ trace'.device = trace.device
          /\ pc' = "finish" /\ pc = "verify" => trace'.traffic
        <3>1. trace' = [quick |-> trace.quick, traffic |-> passes, device |-> trace.device]
            BY <2>1 DEF Traces
        <3>2. pc' = "finish" /\ pc = "verify" => passes
            BY <2>1
        <3> QED BY Zenon, <3>1, <3>2
    <2>3. JobInv'
        BY <1>3, <2>1 DEF WInv, JobInv, AtRest, Verify, walk, world
    <2>4. pc \in {"verify", "quickVerify"} /\ pc' \in {"finish", "drop"}
            /\ UNCHANGED <<names, target, connected>> /\ (pc' = "drop" => pc = "verify")
        BY <1>3, <2>1 DEF Verify, walk
    <2>5. Standing'
        BY <2>2, <2>4 DEF WInv, Standing, Dialled
    <2>6. clock' \in Nat /\ clock' <= clock + CallTime
        BY <1>3, TakesOK DEF Verify
    <2>7. InTime'
        BY <2>4, <2>6 DEF WInv, InTime, AtRest
    <2> QED BY <1>1, <2>3, <2>5, <2>7 DEF WInv
<1> QED BY <1>2, <1>3

\* What _finish() records is what the walk stands at.
LEMMA FinishKeeps ==
    ASSUME WalkAssumption, WInv, Finish
    PROVE  WInv'
<1> USE Constants
<1>1. /\ job.reason \in Reasons /\ job.leave # None /\ job.leave \in Servers \cup {None}
      /\ connected \in Servers \cup {None}
      /\ trace \in [quick : BOOLEAN, traffic : BOOLEAN, device : BOOLEAN]
    BY DEF WInv, TypeOK, JobInv, AtRest, Finish
<1>2. ~trace.quick => /\ connected \in Servers \ {job.leave}
                      /\ trace.device => trace.traffic
    BY DEF WInv, JobInv, Standing, Finish
<1>3. CountedAs \in Reasons \cup {"fallback", None} /\ Armed \in {"full", "short"}
        /\ (CountedAs \in Reasons => ~trace.quick /\ trace.device)
    BY <1>1 DEF CountedAs, Armed, Earned
<1>4. outcome' = [server |-> connected, reason |-> job.reason, leave |-> job.leave,
                  counted |-> IF connected # None THEN CountedAs ELSE None,
                  armed |-> Armed, quick |-> trace.quick, traffic |-> trace.traffic,
                  device |-> trace.device]
    BY DEF Finish
<1>5. Recorded'
    BY <1>1, <1>2, <1>3, <1>4 DEF Recorded, SuccessVerified, SuccessLeaves, QuickBeforeNoTunnel
<1>6. TypeOK'
    <2>1. outcome' \in [server : Servers \cup {None}, reason : Reasons,
                        leave : Servers \cup {None},
                        counted : Reasons \cup {"fallback", None}, armed : {"full", "short"},
                        quick : BOOLEAN, traffic : BOOLEAN, device : BOOLEAN]
        BY <1>1, <1>3, <1>4
    <2>2. switches' \in SUBSET (Reasons \cup {"fallback"})
        BY <1>1, <1>3 DEF Finish, WInv, TypeOK
    <2>3. job' \in [reason : Reasons \cup {"none"}, leave : Servers \cup {None}]
        BY DEF Finish, NoJob
    <2>4. trace' \in [quick : BOOLEAN, traffic : BOOLEAN, device : BOOLEAN] /\ attempt' \in 1..Attempts
        BY DEF Finish, NoTrace
    <2>5. names' \in Seq(Servers)
        BY DEF Finish
    <2>6. current' \in Servers \cup {None}
        BY <1>1 DEF Finish
    <2> QED BY <2>1, <2>2, <2>3, <2>4, <2>5, <2>6 DEF Finish, WInv, TypeOK, world
<1>7. JobInv' /\ Standing' /\ InTime'
    <2>1. names' \in Seq(Servers \ {job'.leave})
        BY DEF Finish
    <2> QED BY <2>1 DEF Finish, JobInv, Standing, Dialled, InTime, AtRest
<1> QED BY <1>5, <1>6, <1>7 DEF WInv

LEMMA DryRunKeeps ==
    ASSUME WalkAssumption, WInv, DryRun
    PROVE  WInv'
<1> USE Constants
<1>1. /\ job.reason \in Reasons /\ job.leave \in Servers \cup {None}
      /\ current \in Servers
    BY DEF WInv, TypeOK, JobInv, AtRest, DryRun
<1>2. outcome' = [server |-> current, reason |-> job.reason, leave |-> job.leave,
                  counted |-> None, armed |-> Earned, quick |-> FALSE,
                  traffic |-> FALSE, device |-> FALSE]
    BY DEF DryRun
<1>3. Recorded'
    BY <1>1, <1>2 DEF Recorded, SuccessVerified, SuccessLeaves, QuickBeforeNoTunnel
<1>4. TypeOK'
    <2>1. outcome' \in [server : Servers \cup {None}, reason : Reasons,
                        leave : Servers \cup {None},
                        counted : Reasons \cup {"fallback", None}, armed : {"full", "short"},
                        quick : BOOLEAN, traffic : BOOLEAN, device : BOOLEAN]
        BY <1>1, <1>2 DEF Earned
    <2>2. job' \in [reason : Reasons \cup {"none"}, leave : Servers \cup {None}]
        BY DEF DryRun, NoJob
    <2>3. trace' \in [quick : BOOLEAN, traffic : BOOLEAN, device : BOOLEAN] /\ attempt' \in 1..Attempts
        BY DEF DryRun, NoTrace
    <2>4. names' \in Seq(Servers)
        BY DEF DryRun
    <2> QED BY <2>1, <2>2, <2>3, <2>4 DEF DryRun, WInv, TypeOK, world
<1>5. JobInv' /\ Standing' /\ InTime'
    <2>1. names' \in Seq(Servers \ {job'.leave}) /\ pc' = "idle" /\ clock' = 0
        BY DEF DryRun, WInv, InTime
    <2> QED BY <2>1 DEF JobInv, Standing, Dialled, InTime, AtRest
<1> QED BY <1>3, <1>4, <1>5 DEF WInv

-----------------------------------------------------------------------------
LEMMA WalkInitOK == ASSUME WalkAssumption, Init PROVE WInv
<1> USE Constants DEF Init
<1>1. job \in [reason : Reasons \cup {"none"}, leave : Servers \cup {None}]
        /\ trace \in [quick : BOOLEAN, traffic : BOOLEAN, device : BOOLEAN]
        /\ \A S : names \in Seq(S)
    BY DEF NoJob, NoTrace
<1>2. TypeOK
    <2>1. tun \in Tunnel /\ attempt \in 1..Attempts /\ dry \in BOOLEAN
        BY DEF Tunnel
    <2>2. faults \in Nat /\ begun \in Nat /\ clock \in Nat /\ limit \in Nat
        OBVIOUS
    <2>3. pc = "down" /\ pending = None /\ current = None /\ target = None /\ connected = None
            /\ outcome = None /\ refused = FALSE /\ switches = {}
        OBVIOUS
    <2> HIDE DEF Init
    <2> QED BY Zenon, <1>1, <2>1, <2>2, <2>3 DEF TypeOK
<1>3. JobInv /\ Standing /\ InTime /\ Recorded
    BY <1>1 DEF JobInv, Standing, Dialled, InTime, AtRest, Recorded, SuccessVerified,
        SuccessLeaves, QuickBeforeNoTunnel
<1> QED BY <1>2, <1>3 DEF WInv

LEMMA WalkStepOK == ASSUME WalkAssumption, WInv, [Next]_vars PROVE WInv'
<1>1. CASE UNCHANGED vars
    <2>1. UNCHANGED <<tun, pending, faults, dry, pc, current, job, begun, clock, names, attempt,
                      target, refused, limit, connected, switches, trace, outcome>>
        BY <1>1 DEF vars, world, walk
    <2>2. TypeOK'
        BY <2>1 DEF WInv, TypeOK
    <2>3. JobInv' /\ Standing' /\ InTime' /\ Recorded'
        BY <2>1, RecordKept DEF WInv, JobInv, Standing, Dialled, InTime, AtRest
    <2> QED BY <2>2, <2>3 DEF WInv
<1>2. CASE Next
    BY <1>2, RestKeeps, DialKeeps, PollKeeps, NextKeeps, CheckKeeps, FinishKeeps, DryRunKeeps, StopKeeps
       DEF Next, SwitchStep
<1> QED BY <1>1, <1>2

\* No step, the last one included, is later than a few calls after the budget.
LEMMA InTimeBounds == ASSUME WalkAssumption, WInv PROVE RecoveryBounded
<1>1. clock \in Nat /\ (AtRest \/ pc = "jitter" => clock = 0)
    BY DEF WInv, TypeOK, InTime
<1>2. CASE AtRest \/ pc \in {"jitter", "walk", "poll", "quickPoll", "finish"}
    BY <1>1, <1>2, Times DEF WInv, InTime, RecoveryBounded
<1>3. CASE pc \in {"retry", "device", "verify", "drop", "quickDevice", "quickVerify"}
    BY <1>1, <1>3, Times DEF WInv, InTime, RecoveryBounded
<1> QED BY <1>2, <1>3 DEF WInv, TypeOK, AtRest

\* For any servers, ranking and delays of the daemon: a switch counts as a success
\* of its reason only on a server other than the one it left, with packets back over
\* tun0; quick was dialled before it ends without a tunnel; and no step of it is later
\* than HardEnd (switch, _verify, _quick, _fall_back, _finish).
THEOREM WalkIsSound == ASSUME WalkAssumption PROVE Spec => []WalkSound
<1>1. WInv => WalkSound
    BY InTimeBounds DEF WInv, Recorded, WalkSound
<1> QED BY <1>1, WalkInitOK, WalkStepOK, PTL DEF Spec
=============================================================================
