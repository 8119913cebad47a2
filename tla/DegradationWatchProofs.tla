----------------------- MODULE DegradationWatchProofs -----------------------
(***************************************************************************)
(* Every verdict is backed, for every number of windows, servers and       *)
(* sessions.  VerdictBacked is not inductive: the proof needs to know what *)
(* the two readings of the ifindex say about the probe between them.       *)
(***************************************************************************)
EXTENDS DegradationWatch, TLAPS

\* The session read before the probe, while it is still there, is the one the
\* probe ran in
ProbeInSession ==
    /\ tun.gen # None => tun.gen <= sessions
    /\ win.genBefore # None => win.genBefore <= sessions
    /\ (pc \in {"probe", "probed", "statusReread"}
           /\ win.genBefore # None /\ win.genBefore = tun.gen) => ~crossed /\ probed = tun

\* ... and so is the status read after it
StatusInSession ==
    (pc = "statusReread" /\ win.genBefore # None /\ win.genBefore = tun.gen)
        => win.after \in {tun.server, None}

\* What same_session really means when the window is judged
WindowInSession ==
    (pc = "judge" /\ SameSession) =>
        ~crossed /\ probed.gen = win.genAfter /\ probed.server = win.after

IInv ==
    /\ TypeOK
    /\ ProbeInSession
    /\ StatusInSession
    /\ WindowInSession
    /\ CounterBacked
    /\ VerdictBacked

-----------------------------------------------------------------------------
\* The evidence a window leaves is well formed.
LEMMA EvidenceType ==
    ASSUME TypeOK PROVE NextEvidence \in Count
<1> USE WatchAssumption DEF TypeOK, Count, Session
<1>1. NoCount \in Count
    BY DEF NoCount
<1>2. evidence.n \in Nat /\ probed.server \in Servers \cup {None}
                         /\ probed.gen \in Nat \cup {None}
    OBVIOUS
<1> QED
    BY <1>1, <1>2 DEF NextEvidence

\* Judging a window of one session: one more counted window is one more in the
\* evidence.
LEMMA CountIsBacked ==
    ASSUME IInv, pc = "judge", SameSession, Blames
    PROVE  /\ Counted \in [n : Nat \ {0}, server : Servers, gen : Nat]
           /\ Counted.n <= BadWindows
           /\ Counted.n <= NextEvidence.n
           /\ Counted.gen = NextEvidence.gen
           /\ Counted.server = NextEvidence.server
<1>1. /\ ~crossed /\ probed.gen = win.genAfter /\ probed.server = win.after
    BY DEF IInv, WindowInSession
<1>2. /\ win.after \in Servers /\ win.genAfter \in Nat
    BY DEF IInv, TypeOK, SameSession
<1>3. /\ counter.n \in 0..(BadWindows - 1)
      /\ counter \in [n : 0..(BadWindows - 1), server : Servers \cup {None},
                      gen : Nat \cup {None}]
      /\ evidence \in Count /\ evidence.n \in Nat
    BY DEF IInv, TypeOK, Count
<1>4. win.loss # "clean"
    BY DEF Blames
<1>5. NextEvidence = [n |-> IF evidence.gen # probed.gen THEN 1
                            ELSE IF evidence.n < BadWindows THEN evidence.n + 1
                            ELSE evidence.n,
                      server |-> probed.server, gen |-> probed.gen]
    BY <1>1, <1>4 DEF NextEvidence
<1>6. CASE counter.server = win.after /\ counter.gen = win.genAfter
    <2>1. Counted = [counter EXCEPT !.n = @ + 1]
        BY <1>6 DEF Counted
    <2>2. Counted.n = counter.n + 1 /\ Counted.server = win.after
                                    /\ Counted.gen = win.genAfter
        BY <1>3, <1>6, <2>1
    <2>3. Counted \in [n : Nat \ {0}, server : Servers, gen : Nat]
        BY <1>2, <1>3, <1>6, <2>1, WatchAssumption
    <2>4. counter.n > 0 => counter.n <= evidence.n /\ counter.gen = evidence.gen
        BY DEF IInv, CounterBacked
    <2>5. counter.n + 1 <= NextEvidence.n
        BY <1>1, <1>3, <1>5, <1>6, <2>4, WatchAssumption
    <2> QED
        BY <1>1, <1>3, <1>5, <2>2, <2>3, <2>5, WatchAssumption
<1>7. CASE ~(counter.server = win.after /\ counter.gen = win.genAfter)
    <2>1. Counted = [n |-> 1, server |-> win.after, gen |-> win.genAfter]
        BY <1>7 DEF Counted
    <2>2. NextEvidence.n >= 1
        BY <1>3, <1>5, WatchAssumption
    <2> QED
        BY <1>1, <1>2, <1>5, <2>1, <2>2, WatchAssumption
<1> QED
    BY <1>6, <1>7

-----------------------------------------------------------------------------
LEMMA InitIInv == Init => IInv
<1> SUFFICES ASSUME Init PROVE IInv
    OBVIOUS
<1> USE WatchAssumption DEF Init, NoTunnel, NoWindow, NoCount
<1>1. dry \in BOOLEAN /\ crossed \in BOOLEAN
    BY Zenon
<1>2. TypeOK
    BY <1>1 DEF TypeOK, Session, Count
<1> QED
    BY <1>2 DEF IInv, ProbeInSession, StatusInSession, WindowInSession, CounterBacked,
                VerdictBacked

\* The tunnel is a new session with a new number, or none: what was read of the
\* old one matches no more.
LEMMA EnvironmentStep == IInv /\ Environment => IInv'
<1> SUFFICES ASSUME IInv, Environment PROVE IInv'
    OBVIOUS
<1>t. TypeOK /\ ProbeInSession /\ StatusInSession /\ WindowInSession
    BY DEF IInv
<1> USE WatchAssumption
<1>1. ASSUME NEW s \in Servers, Reconnect(s) PROVE IInv'
    <2>0. crossed' \in BOOLEAN
        BY <1>1, Zenon DEF Reconnect
    <2>1. TypeOK'
        BY <1>t, <1>1, <2>0 DEF Reconnect, TypeOK, Session
    <2>2. tun'.gen = sessions + 1 /\ sessions \in Nat /\ win' = win /\ pc' = pc
        BY <1>t, <1>1 DEF Reconnect, TypeOK
    <2>3. win.genBefore # None => win.genBefore \in Nat /\ win.genBefore <= sessions
        BY <1>t DEF TypeOK, ProbeInSession
    <2>4. ~(win'.genBefore # None /\ win'.genBefore = tun'.gen)
        BY <2>2, <2>3
    <2>5. ProbeInSession' /\ StatusInSession'
        BY <1>1, <2>2, <2>3, <2>4 DEF ProbeInSession, StatusInSession, Reconnect
    <2>6. WindowInSession'
        BY <1>t, <1>1 DEF WindowInSession, SameSession, Reconnect
    <2> QED
        BY <1>1, <2>1, <2>5, <2>6 DEF IInv, Reconnect, CounterBacked, VerdictBacked
<1>2. CASE Drop
    <2>0. crossed' \in BOOLEAN
        BY <1>2, Zenon DEF Drop
    <2>1. TypeOK'
        BY <1>t, <1>2, <2>0 DEF Drop, TypeOK, Session, NoTunnel
    <2>2. tun'.gen = None
        BY <1>2 DEF Drop, NoTunnel
    <2>3. ProbeInSession' /\ StatusInSession'
        BY <1>t, <1>2, <2>2 DEF ProbeInSession, StatusInSession, Drop
    <2>4. WindowInSession'
        BY <1>t, <1>2 DEF WindowInSession, SameSession, Drop
    <2> QED
        BY <1>2, <2>1, <2>3, <2>4 DEF IInv, Drop, CounterBacked, VerdictBacked
<1>3. CASE NetChanges
    <2>1. TypeOK'
        BY <1>t, <1>3 DEF NetChanges, TypeOK, ghosts
    <2>2. UNCHANGED <<tun, sessions, pc, win, crossed, probed>>
        BY <1>3 DEF NetChanges, ghosts
    <2>3. ProbeInSession' /\ StatusInSession' /\ WindowInSession'
        BY <1>t, <2>2 DEF ProbeInSession, StatusInSession, WindowInSession, SameSession
    <2> QED
        BY <1>3, <2>1, <2>3 DEF IInv, NetChanges, CounterBacked, VerdictBacked
<1> QED
    BY <1>1, <1>2, <1>3 DEF Environment

\* The readings and the probe.
LEMMA WindowStep ==
    IInv /\ (AgentStarts \/ ReadStatusBefore \/ ReadGenerationBefore \/ ProbeStarts
             \/ ProbeEnds \/ ReadStatusAfter \/ ReadGenerationAfter) => IInv'
<1> SUFFICES ASSUME IInv,
                    AgentStarts \/ ReadStatusBefore \/ ReadGenerationBefore \/ ProbeStarts
                    \/ ProbeEnds \/ ReadStatusAfter \/ ReadGenerationAfter
             PROVE  IInv'
    OBVIOUS
<1>t. TypeOK /\ ProbeInSession /\ StatusInSession /\ CounterBacked /\ VerdictBacked
    BY DEF IInv
<1>r. /\ Readings(tun.server) \subseteq Servers \cup {None}
      /\ Readings(tun.gen) \subseteq Nat \cup {None}
      /\ Readings(tun.server) \subseteq {tun.server, None}
      /\ Readings(tun.gen) \subseteq {tun.gen, None}
    BY <1>t DEF TypeOK, Session, Readings
<1>k. UNCHANGED <<counter, evidence, verdict>> => CounterBacked' /\ VerdictBacked'
    BY <1>t DEF CounterBacked, VerdictBacked
<1> USE WatchAssumption
<1>1. CASE AgentStarts
    BY <1>t, <1>k, <1>1 DEF AgentStarts, IInv, TypeOK, ProbeInSession, StatusInSession,
                            WindowInSession, env, ghosts
<1>2. CASE ReadStatusBefore
    BY <1>t, <1>r, <1>k, <1>2 DEF ReadStatusBefore, IInv, TypeOK, ProbeInSession,
                                  StatusInSession, WindowInSession, env, ghosts
<1>3. CASE ReadGenerationBefore
    BY <1>t, <1>r, <1>k, <1>3 DEF ReadGenerationBefore, IInv, TypeOK, ProbeInSession,
                                  StatusInSession, WindowInSession, env, ghosts
<1>4. CASE ProbeStarts
    <2>1. crossed' = FALSE /\ crossed' \in BOOLEAN
        BY <1>4, Zenon DEF ProbeStarts
    <2>2. TypeOK'
        BY <1>t, <1>4, <2>1 DEF ProbeStarts, TypeOK, env
    <2>3. ProbeInSession' /\ StatusInSession' /\ WindowInSession'
        BY <1>t, <1>4, <2>1 DEF ProbeStarts, TypeOK, ProbeInSession, StatusInSession,
                                WindowInSession, env
    <2> QED
        BY <1>k, <1>4, <2>2, <2>3 DEF ProbeStarts, IInv
<1>5. CASE ProbeEnds
    <2>1. PICK loss \in {"clean", "bad", None} :
              win' = [win EXCEPT !.loss = loss, !.lan = net.lan]
        BY <1>t, <1>5 DEF ProbeEnds, TypeOK
    <2>2. net.lan \in {"ok", "bad"}
        BY <1>t DEF TypeOK
    <2>3. TypeOK'
        BY ZenonT(60), <1>t, <1>5, <2>1, <2>2 DEF ProbeEnds, TypeOK, env, ghosts
    <2>4. win'.genBefore = win.genBefore
        BY <1>t, <2>1 DEF TypeOK
    <2>5. ProbeInSession' /\ StatusInSession' /\ WindowInSession'
        BY <1>t, <1>5, <2>4 DEF ProbeEnds, ProbeInSession, StatusInSession,
                                WindowInSession, env, ghosts
    <2> QED
        BY <1>k, <1>5, <2>3, <2>5 DEF ProbeEnds, IInv
<1>6. CASE ReadStatusAfter
    BY <1>t, <1>r, <1>k, <1>6 DEF ReadStatusAfter, IInv, TypeOK, ProbeInSession,
                                  StatusInSession, WindowInSession, env, ghosts
<1>7. CASE ReadGenerationAfter
    <2>1. PICK g \in {tun.gen, None} : win' = [win EXCEPT !.genAfter = g]
        BY <1>r, <1>7 DEF ReadGenerationAfter
    <2>2. TypeOK'
        BY <1>t, <1>7, <2>1 DEF ReadGenerationAfter, TypeOK, Session, env, ghosts
    <2>3. WindowInSession'
        <3> SUFFICES ASSUME SameSession'
                     PROVE  (~crossed /\ probed.gen = win.genAfter
                                      /\ probed.server = win.after)'
            BY DEF WindowInSession
        <3>1. win.genBefore # None /\ win.genBefore = tun.gen /\ g = tun.gen
            BY <1>t, <2>1 DEF SameSession, TypeOK
        <3>2. ~crossed /\ probed = tun
            BY <1>t, <1>7, <3>1 DEF ProbeInSession, ReadGenerationAfter
        <3>3. win.after = tun.server
            BY <1>t, <1>7, <2>1, <3>1 DEF StatusInSession, ReadGenerationAfter, SameSession,
                                          TypeOK
        <3> QED
            BY <1>t, <1>7, <2>1, <3>1, <3>2, <3>3 DEF ReadGenerationAfter, TypeOK, ghosts
    <2> QED
        BY <1>t, <1>k, <1>7, <2>1, <2>2, <2>3
           DEF ReadGenerationAfter, IInv, TypeOK, ProbeInSession, StatusInSession, env, ghosts
<1> QED
    BY <1>1, <1>2, <1>3, <1>4, <1>5, <1>6, <1>7

\* The judgements: the counter and the evidence move together.
LEMMA JudgeStep == IInv /\ Judge => IInv'
<1> SUFFICES ASSUME IInv, Judge PROVE IInv'
    OBVIOUS
<1>t. TypeOK /\ ProbeInSession /\ WindowInSession /\ CounterBacked /\ VerdictBacked
    BY DEF IInv
<1>e. NextEvidence \in Count
    BY <1>t, EvidenceType
<1>w. /\ NoWindow \in [before : Servers \cup {None}, genBefore : Nat \cup {None},
                       loss : {"clean", "bad", None}, lan : {"ok", "bad"},
                       after : Servers \cup {None}, genAfter : Nat \cup {None}]
      /\ NoWindow.genBefore = None
      /\ NoTunnel \in Session
      /\ NoCount \in [n : 0..(BadWindows - 1), server : Servers \cup {None},
                      gen : Nat \cup {None}]
      /\ NoCount \in Count /\ NoCount.n = 0
    BY WatchAssumption DEF NoWindow, NoTunnel, NoCount, Session, Count
\* What every judgement without a trip leaves behind
<1>r. ASSUME Return,
             counter' \in [n : 0..(BadWindows - 1), server : Servers \cup {None},
                           gen : Nat \cup {None}]
      PROVE  TypeOK' /\ ProbeInSession' /\ StatusInSession' /\ WindowInSession'
                     /\ VerdictBacked'
    <2>1. crossed' \in BOOLEAN
        BY <1>r, Zenon DEF Return
    <2>2. TypeOK'
        BY <1>t, <1>e, <1>w, <1>r, <2>1 DEF Return, TypeOK, env
    <2>3. pc' = "sleep" /\ win' = NoWindow
        BY <1>r DEF Return
    <2>4. ProbeInSession' /\ StatusInSession' /\ WindowInSession'
        BY <1>t, <1>w, <1>r, <2>3 DEF Return, ProbeInSession, StatusInSession,
                                      WindowInSession, env
    <2>5. VerdictBacked'
        BY <1>t, <1>r DEF Return, VerdictBacked
    <2> QED
        BY <2>2, <2>4, <2>5
<1>1. CASE Discard
    <2>1. CounterBacked'
        BY <1>w, <1>1 DEF Discard, CounterBacked
    <2> QED
        BY <1>w, <1>r, <1>1, <2>1 DEF Discard, IInv
<1>2. CASE NotMeasured
    <2>1. ~crossed /\ win.loss # "clean" /\ ~Blames
        BY <1>t, <1>2, WatchAssumption DEF NotMeasured, WindowInSession, Blames
    <2>2. evidence' = evidence
        BY <1>2, <2>1 DEF NotMeasured, Return, NextEvidence
    <2>3. CounterBacked'
        BY <1>t, <1>2, <2>2 DEF NotMeasured, CounterBacked
    <2> QED
        BY <1>t, <1>r, <1>2, <2>3 DEF NotMeasured, IInv, TypeOK
<1>3. CASE CleanWindow
    <2>1. CounterBacked'
        BY <1>w, <1>3 DEF CleanWindow, CounterBacked
    <2> QED
        BY <1>w, <1>r, <1>3, <2>1 DEF CleanWindow, IInv
<1>4. CASE HomeSideWindow
    <2>1. ~crossed /\ win.loss # "clean" /\ ~Blames
        BY <1>t, <1>4 DEF HomeSideWindow, WindowInSession, Blames
    <2>2. evidence' = evidence
        BY <1>4, <2>1 DEF HomeSideWindow, Return, NextEvidence
    <2>3. CounterBacked'
        BY <1>t, <1>4, <2>2 DEF HomeSideWindow, CounterBacked
    <2> QED
        BY <1>t, <1>r, <1>4, <2>3 DEF HomeSideWindow, IInv, TypeOK
<1>5. CASE BadWindow
    <2>1. /\ Counted \in [n : Nat \ {0}, server : Servers, gen : Nat]
          /\ Counted.n <= NextEvidence.n
          /\ Counted.gen = NextEvidence.gen /\ Counted.server = NextEvidence.server
        BY <1>5, CountIsBacked DEF BadWindow
    <2>2. counter' = Counted /\ evidence' = NextEvidence /\ Counted.n < BadWindows
        BY <1>5 DEF BadWindow, Return
    <2>3. counter' \in [n : 0..(BadWindows - 1), server : Servers \cup {None},
                        gen : Nat \cup {None}]
        BY <2>1, <2>2, WatchAssumption
    <2>4. CounterBacked'
        BY <2>1, <2>2 DEF CounterBacked
    <2> QED
        BY <1>r, <1>5, <2>3, <2>4 DEF BadWindow, IInv
<1>6. CASE Trip
    <2>1. /\ Counted \in [n : Nat \ {0}, server : Servers, gen : Nat]
          /\ Counted.n <= NextEvidence.n /\ Counted.server = NextEvidence.server
        BY <1>6, CountIsBacked DEF Trip
    <2>2. NextEvidence.n >= BadWindows
        BY <1>e, <1>6, <2>1, WatchAssumption DEF Trip, Count
    <2>3. win.after \in Servers /\ NextEvidence.server = win.after
        BY <1>t, <1>6, <2>1 DEF Trip, SameSession, TypeOK, Counted
    <2>4. \/ verdict' = None
          \/ verdict' = [server |-> win.after, backing |-> NextEvidence]
        BY <1>6 DEF Trip, Published
    <2>5. VerdictBacked'
        BY <2>2, <2>3, <2>4 DEF VerdictBacked
    <2>6. CounterBacked'
        BY <1>w, <1>6 DEF Trip, CounterBacked
    <2>7. TypeOK'
        BY <1>t, <1>e, <1>w, <1>6, <2>3, <2>4 DEF Trip, TypeOK, env, ghosts
    <2>8. ProbeInSession' /\ StatusInSession' /\ WindowInSession'
        BY <1>t, <1>6 DEF Trip, ProbeInSession, StatusInSession, WindowInSession, env, ghosts
    <2> QED
        BY <2>5, <2>6, <2>7, <2>8 DEF IInv
<1> QED
    BY <1>1, <1>2, <1>3, <1>4, <1>5, <1>6 DEF Judge

\* After the judgement: what follows a trip, an exception and a restart.
LEMMA AfterStep == IInv /\ (Suppressed \/ Switch \/ WatchRaises \/ Crash) => IInv'
<1> SUFFICES ASSUME IInv, Suppressed \/ Switch \/ WatchRaises \/ Crash PROVE IInv'
    OBVIOUS
<1>t. TypeOK /\ ProbeInSession /\ CounterBacked
    BY DEF IInv
<1>w. /\ NoWindow \in [before : Servers \cup {None}, genBefore : Nat \cup {None},
                       loss : {"clean", "bad", None}, lan : {"ok", "bad"},
                       after : Servers \cup {None}, genAfter : Nat \cup {None}]
      /\ NoWindow.genBefore = None
      /\ NoTunnel \in Session /\ NoTunnel.gen = None
      /\ NoCount \in [n : 0..(BadWindows - 1), server : Servers \cup {None},
                      gen : Nat \cup {None}]
      /\ NoCount.n = 0
    BY WatchAssumption DEF NoWindow, NoTunnel, NoCount, Session
<1>l. Leave
    BY DEF Suppressed, Switch, WatchRaises, Crash
<1>c. crossed' \in BOOLEAN
    BY <1>l, Zenon DEF Leave
<1>p. pc' \in {"sleep", "down"} /\ evidence' = evidence /\ net' = net /\ dry' = dry
    BY DEF Suppressed, Switch, WatchRaises, Crash, env
\* _finish() and a new process start the counter over; otherwise it stands
<1>n. counter' \in {counter, NoCount}
    BY DEF Suppressed, Switch, WatchRaises, Crash
<1>s. /\ sessions' \in Nat /\ tun' \in Session
      /\ tun'.gen # None => tun'.gen <= sessions'
    <2>1. CASE UNCHANGED <<tun, sessions>>
        BY <1>t, <2>1 DEF TypeOK, ProbeInSession
    <2>2. CASE Switch /\ ~UNCHANGED <<tun, sessions>>
        <3>1. CASE tun' = NoTunnel /\ sessions' = sessions
            BY <1>t, <1>w, <3>1 DEF TypeOK
        <3>2. ASSUME NEW s \in Servers, sessions' = sessions + 1,
                     tun' = [server |-> s, gen |-> sessions']
              PROVE  /\ sessions' \in Nat /\ tun' \in Session
                     /\ tun'.gen # None => tun'.gen <= sessions'
            BY <1>t, <3>2 DEF TypeOK, Session
        <3> QED
            BY <2>2, <3>1, <3>2 DEF Switch
    <2> QED
        BY <2>1, <2>2 DEF Suppressed, WatchRaises, Crash, env
<1>1. TypeOK'
    BY <1>t, <1>w, <1>l, <1>c, <1>p, <1>n, <1>s DEF TypeOK, Leave
<1>2. ProbeInSession' /\ StatusInSession' /\ WindowInSession'
    BY <1>w, <1>l, <1>p, <1>s DEF Leave, ProbeInSession, StatusInSession, WindowInSession
<1>3. CounterBacked'
    BY <1>t, <1>w, <1>p, <1>n DEF CounterBacked
<1>4. VerdictBacked'
    BY <1>l DEF Leave, VerdictBacked
<1> QED
    BY <1>1, <1>2, <1>3, <1>4 DEF IInv

LEMMA Stutter == IInv /\ UNCHANGED vars => IInv'
BY DEF IInv, TypeOK, ProbeInSession, StatusInSession, WindowInSession, SameSession,
       CounterBacked, VerdictBacked, vars, env, ghosts

-----------------------------------------------------------------------------
\* However the sidecar reconnects, whatever cannot be read and whenever watch_once
\* raises or dies: a published verdict rests on BadWindows judged bad windows of
\* one session of its server, and the shown counter never exceeds that run.
THEOREM WatchSafe == Spec => [](TypeOK /\ CounterBacked /\ VerdictBacked)
<1>1. IInv /\ [Next]_vars => IInv'
    BY EnvironmentStep, WindowStep, JudgeStep, AfterStep, Stutter DEF Next, WatchOnce
<1>2. IInv => TypeOK /\ CounterBacked /\ VerdictBacked
    BY DEF IInv
<1> QED
    BY InitIInv, <1>1, <1>2, PTL DEF Spec

\* What /metrics shows as consecutive bad windows never exceeds the run of bad
\* windows that happened in the session it is kept for (watch_once).
THEOREM CounterSafe == Spec => []CounterHonest
<1>1. TypeOK /\ CounterBacked /\ VerdictBacked => CounterHonest
    BY DEF CounterHonest
<1> QED
    BY <1>1, WatchSafe, PTL
=============================================================================
