------------------------------ MODULE ToolProofs ------------------------------
(***************************************************************************)
(* Both ends of the verdict mailbox and the tools of the owner.  First the *)
(* agent's end, VerdictPublisher, for any set of destinations, any cap and *)
(* any number of generations: its safety, and that it implements           *)
(* VerdictMailbox.  The liveness of shutdown() and of the queue is checked *)
(* with TLC only.  Then the components of Tools, among them VerdictIntake, *)
(* the picker's end: each section strengthens the property of one instance *)
(* to an inductive invariant, and the last carries the properties over to  *)
(* ToolsSpec.                                                              *)
(***************************************************************************)
EXTENDS VerdictPublisher, Tools, FunctionTheorems, FiniteSetTheorems, TLAPS

-----------------------------------------------------------------------------
(* VerdictPublisher *)


NoDuplicates == \A i, j \in 1 .. Len(queue) : queue[i] = queue[j] => i = j

\* The popped publication is there exactly while storage has it
Handed == (current # Nothing) <=> (worker = "write")

\* Once shutdown() ran, stopping is set; until then it is not
Claimed == stopping <=> stopper # "idle"

\* Whoever sleeps has a reason to, and somebody who will wake it
Sleepers ==
    /\ "worker" \in waiters => worker = "top" /\ queue = <<>> /\ ~stopping
    /\ "stopper" \in waiters => Logging
    /\ "idler" \in waiters => NotIdle

IInv ==
    /\ TypeOK
    /\ PendingBounded
    /\ Handed
    /\ Claimed
    /\ Sleepers
    /\ LatestKept
    /\ NoLogAfterShutdown

-----------------------------------------------------------------------------
\* Every step keeps the variables in their types.
LEMMA TypeInvariant == TypeOK /\ Handed /\ [Next]_vars => TypeOK' /\ Handed'
<1> SUFFICES ASSUME TypeOK, Handed, [Next]_vars PROVE TypeOK' /\ Handed'
    OBVIOUS
<1>0. <<>> \in Seq(Dest)
    OBVIOUS
<1> USE PublisherAssumption DEF TypeOK, Handed
<1>1. CASE UNCHANGED vars
    BY <1>1 DEF vars
<1>2. ASSUME NEW d \in Dest, Submit(d) PROVE TypeOK' /\ Handed'
    <2>1. (latest[d] + 1) % Generations \in Evidence
        BY DEF Evidence
    <2>2. waiters' \subseteq waiters
        BY <1>2 DEF Submit, Notify
    <2>3. held' \in [Dest -> Evidence] /\ latest' \in [Dest -> Evidence]
        BY <1>2, <2>1 DEF Submit
    <2>4. queue' \in Seq(Dest)
        BY <1>2 DEF Submit
    <2> QED
        BY <1>2, <2>2, <2>3, <2>4 DEF Submit
<1>3. CASE WorkerPops
    <2>1. Head(queue) \in Dest /\ Tail(queue) \in Seq(Dest)
        BY <1>3 DEF WorkerPops
    <2>2. current' \in [dest : Dest, ev : Evidence]
        BY <1>3, <2>1 DEF WorkerPops
    <2>3. current' # Nothing
        BY <2>2 DEF Evidence
    <2> QED
        BY <1>3, <2>1, <2>2, <2>3 DEF WorkerPops
<1>4. CASE WorkerWaits \/ WorkerStops \/ WorkerAbandons \/ WorkerLogs \/ WorkerLogged
    BY Zenon, <1>0, <1>4 DEF WorkerWaits, WorkerStops, WorkerAbandons, WorkerLogs, WorkerLogged
<1>5. CASE StorageReturns
    BY <1>5 DEF StorageReturns
<1>6. CASE Shutdown \/ ShutdownWakes
    BY Zenon, <1>0, <1>6 DEF Shutdown, ShutdownWakes
<1>7. CASE IdleCall \/ IdleTimeout
    BY Zenon, <1>7 DEF IdleCall, IdleTimeout
<1> QED
    BY <1>1, <1>2, <1>3, <1>4, <1>5, <1>6, <1>7 DEF Next, WorkerStep

\* Assigning to the dict: a present key keeps its place, a new one goes last.
LEMMA SubmitQueue ==
    ASSUME TypeOK, PendingBounded, NEW d \in Dest, Submit(d)
    PROVE  PendingBounded' /\ \A x \in Dest : Queued(x)' <=> Queued(x) \/ x = d
<1>1. CASE Queued(d)
    BY <1>1 DEF Submit, Queued, PendingBounded
<1>2. CASE ~Queued(d)
    <2>1. queue' = Append(queue, d) /\ Len(queue) < MaxPending
        BY <1>2 DEF Submit
    <2>2. /\ Len(queue) \in Nat
          /\ Len(queue') = Len(queue) + 1
          /\ \A i \in 1 .. Len(queue) : queue'[i] = queue[i] /\ queue[i] # d
          /\ queue'[Len(queue) + 1] = d
        BY <1>2, <2>1 DEF TypeOK, Queued
    <2>3. PendingBounded'
        BY <2>1, <2>2, PublisherAssumption DEF PendingBounded
    <2>4. \A x \in Dest : Queued(x)' <=> Queued(x) \/ x = d
        BY <2>2 DEF Queued
    <2> QED
        BY <2>3, <2>4
<1> QED
    BY <1>1, <1>2

\* Popping the first key removes that key and no other.
LEMMA PopQueue ==
    ASSUME TypeOK, PendingBounded, WorkerPops
    PROVE  /\ PendingBounded'
           /\ Head(queue) \in Dest /\ Queued(Head(queue))
           /\ \A x \in Dest : Queued(x)' <=> Queued(x) /\ x # Head(queue)
<1>1. /\ Len(queue) \in Nat /\ Len(queue) >= 1
      /\ Len(queue') = Len(queue) - 1
      /\ Head(queue) = queue[1] /\ queue[1] \in Dest
      /\ \A i \in 1 .. Len(queue') : queue'[i] = queue[i + 1]
    BY DEF WorkerPops, TypeOK
<1>2. PendingBounded'
    BY SMTT(60), <1>1, PublisherAssumption DEF PendingBounded
<1>3. Queued(Head(queue))
    BY <1>1 DEF Queued
<1>4. ASSUME NEW x \in Dest PROVE Queued(x)' <=> Queued(x) /\ x # Head(queue)
    <2>1. ASSUME Queued(x)' PROVE Queued(x) /\ x # Head(queue)
        <3>1. PICK i \in 1 .. Len(queue') : queue'[i] = x
            BY <2>1 DEF Queued
        <3>2. i + 1 \in 1 .. Len(queue) /\ queue[i + 1] = x /\ i + 1 # 1 /\ 1 \in 1 .. Len(queue)
            BY <1>1, <3>1
        <3> QED
            BY <1>1, <3>2 DEF Queued, PendingBounded
    <2>2. ASSUME Queued(x), x # Head(queue) PROVE Queued(x)'
        <3>1. PICK i \in 1 .. Len(queue) : queue[i] = x
            BY <2>2 DEF Queued
        <3>2. i - 1 \in 1 .. Len(queue') /\ queue'[i - 1] = x
            BY <1>1, <2>2, <3>1
        <3> QED
            BY <3>2 DEF Queued
    <2> QED
        BY <2>1, <2>2
<1> QED
    BY <1>1, <1>2, <1>3, <1>4

LEMMA SubmitStep == ASSUME IInv, TypeOK', Handed', NEW d \in Dest, Submit(d) PROVE IInv'
<1> USE DEF IInv
<1>1. PendingBounded' /\ \A x \in Dest : Queued(x)' <=> Queued(x) \/ x = d
    BY SubmitQueue
<1>2. queue' # <<>> /\ UNCHANGED <<current, stopping, stopper, idler, settled>>
    BY <1>1 DEF Submit, Queued
<1>3. Claimed' /\ NoLogAfterShutdown'
    BY <1>2 DEF Claimed, NoLogAfterShutdown, Submit, Logging
<1>4. LatestKept'
    BY <1>1, <1>2 DEF LatestKept, Submit, TypeOK
<1>5. Sleepers'
    \* a sleeping worker is the only sleeper, so notify() finds it
    <2>1. "worker" \in waiters => "stopper" \notin waiters /\ "idler" \notin waiters
        BY DEF Sleepers, NotIdle, Active, Logging
    <2>2. "worker" \notin waiters'
        BY <2>1 DEF Submit, Notify, TypeOK
    <2>3. waiters' \subseteq waiters
        BY DEF Submit, Notify
    <2>4. Logging => Logging'
        BY DEF Submit, Logging
    <2> QED
        BY <1>2, <2>2, <2>3, <2>4 DEF Sleepers, NotIdle
<1> QED
    BY <1>1, <1>3, <1>4, <1>5

LEMMA PopStep == ASSUME IInv, TypeOK', Handed', WorkerPops PROVE IInv'
<1> USE DEF IInv
<1> DEFINE h == Head(queue)
<1>1. /\ PendingBounded' /\ h \in Dest /\ Queued(h)
      /\ \A x \in Dest : Queued(x)' <=> Queued(x) /\ x # h
    BY PopQueue
<1>2. /\ current = Nothing /\ current'.dest = h /\ current'.ev = held[h] /\ current' # Nothing
      /\ UNCHANGED <<held, stopping, stopper, idler, waiters, latest, settled>>
      /\ worker = "top" /\ worker' = "write" /\ "worker" \notin waiters
    BY DEF WorkerPops, Handed, Awake
<1>3. Claimed' /\ NoLogAfterShutdown' /\ Sleepers'
    BY <1>2 DEF Claimed, NoLogAfterShutdown, Sleepers, Logging, NotIdle, Active
<1> HIDE DEF h
<1>4. LatestKept'
    BY <1>1, <1>2 DEF LatestKept, TypeOK
<1> QED
    BY <1>1, <1>3, <1>4

\* The strengthened invariant is inductive.
LEMMA Induction == IInv /\ [Next]_vars => IInv'
<1> SUFFICES ASSUME IInv, [Next]_vars PROVE IInv'
    OBVIOUS
<1>0. TypeOK' /\ Handed'
    BY TypeInvariant DEF IInv
<1> USE DEF IInv
<1>1. CASE UNCHANGED vars
    BY <1>0, <1>1 DEF vars, PendingBounded, Claimed, Sleepers, LatestKept, NoLogAfterShutdown,
        Logging, NotIdle, Active, Queued
<1>2. ASSUME NEW d \in Dest, Submit(d) PROVE IInv'
    BY <1>0, <1>2, SubmitStep
<1>3. CASE WorkerPops
    BY <1>0, <1>3, PopStep
<1>4. CASE WorkerWaits \/ WorkerLogs \/ WorkerLogged
    BY <1>0, <1>4 DEF WorkerWaits, WorkerLogs, WorkerLogged, PendingBounded, Claimed, Sleepers,
        LatestKept, NoLogAfterShutdown, Logging, NotIdle, Active, Queued, Handed
<1>5. CASE WorkerStops \/ WorkerAbandons
    BY <1>0, <1>5, PublisherAssumption DEF WorkerStops, WorkerAbandons, PendingBounded, Claimed,
        Sleepers, LatestKept, NoLogAfterShutdown, Logging
<1>6. CASE StorageReturns
    BY <1>0, <1>6 DEF StorageReturns, PendingBounded, Claimed, Sleepers, LatestKept,
        NoLogAfterShutdown, Logging, NotIdle, Active, Queued, Handed, TypeOK
<1>7. CASE Shutdown \/ ShutdownWakes
    BY <1>0, <1>7, PublisherAssumption DEF Shutdown, ShutdownWakes, PendingBounded, Claimed,
        Sleepers, LatestKept, NoLogAfterShutdown, Logging, NotIdle, Active, Queued, TypeOK
<1>8. CASE IdleCall \/ IdleTimeout
    BY <1>0, <1>8 DEF IdleCall, IdleTimeout, PendingBounded, Claimed, Sleepers, LatestKept,
        NoLogAfterShutdown, Logging, NotIdle, Active, Queued
<1> QED
    BY <1>1, <1>2, <1>3, <1>4, <1>5, <1>6, <1>7, <1>8 DEF Next, WorkerStep

LEMMA Initially == Init => IInv
<1> SUFFICES ASSUME Init PROVE IInv
    OBVIOUS
<1>1. <<>> \in Seq(Dest)
    OBVIOUS
<1>2. 0 \in Evidence
    BY PublisherAssumption DEF Evidence
<1>3. stopping \in BOOLEAN
    BY Zenon DEF Init
<1>4. TypeOK
    BY <1>1, <1>2, <1>3 DEF Init, TypeOK
<1> QED
    BY <1>4, PublisherAssumption DEF Init, IInv, PendingBounded, Handed, Claimed, Sleepers,
        LatestKept, NoLogAfterShutdown, Logging, Queued

\* The strengthened invariant holds throughout.
LEMMA Invariance == Spec => []IInv
    BY Initially, Induction, PTL DEF Spec

\* The publisher is safe: its dict is bounded and holds each destination once,
\* the latest evidence of a destination is never displaced before shutdown, no
\* notify is lost, and nothing is logged once shutdown() has returned.
THEOREM PublisherSafe ==
    Spec => []PendingBounded /\ []LatestKept /\ []NoLostWakeup /\ []NoLogAfterShutdown
<1>1. IInv => PendingBounded /\ LatestKept /\ NoLostWakeup /\ NoLogAfterShutdown
    BY DEF IInv, Sleepers, NoLostWakeup
<1> QED
    BY <1>1, Invariance, PTL

\* No storage call begins once shutdown() has run.
THEOREM NoLateWrite == Spec => NoWriteAfterShutdown
<1>1. IInv /\ [Next]_vars => [stopper # "idle" /\ worker # "write" => worker' # "write"]_vars
    BY DEF IInv, Claimed, Next, vars, WorkerStep, Submit, WorkerWaits, WorkerStops, WorkerPops,
        StorageReturns, WorkerAbandons, WorkerLogs, WorkerLogged, Shutdown, ShutdownWakes,
        IdleCall, IdleTimeout
<1> QED
    BY <1>1, Invariance, PTL DEF Spec, NoWriteAfterShutdown

-----------------------------------------------------------------------------
\* The mapping of the dict onto the mailbox's slots
Slots == [d \in Dest |-> Want(d)]

LEMMA RefinementInit == Init => Mailbox!Init
    BY DEF Init, Mailbox!Init, Want, Queued

LEMMA RefinementStep == IInv /\ IInv' /\ [Next]_vars => [Mailbox!Next]_Mailbox!mvars
<1> SUFFICES ASSUME IInv, IInv', [Next]_vars PROVE [Mailbox!Next]_Mailbox!mvars
    OBVIOUS
<1> USE DEF IInv
<1>0. \A d \in Dest : held[d] # Nothing /\ held[d] \in Evidence
    BY PublisherAssumption DEF TypeOK, Evidence
<1>1. ASSUME UNCHANGED <<queue, held, current, stopping>> PROVE UNCHANGED Mailbox!mvars
    BY <1>1 DEF Mailbox!mvars, Want, Queued
<1>2. ASSUME NEW d \in Dest, Submit(d) PROVE Mailbox!Accept(d)
    <2>1. \A x \in Dest : Queued(x)' <=> Queued(x) \/ x = d
        BY <1>2, SubmitQueue
    <2>2. held' = [held EXCEPT ![d] = held'[d]] /\ held'[d] \in Evidence /\ ~stopping
        BY <1>2 DEF Submit, TypeOK
    <2>3. Slots' = [Slots EXCEPT ![d] = held'[d]]
        BY Zenon, <2>1, <2>2 DEF Slots, Want, TypeOK
    <2> QED
        BY Zenon, <1>2, <2>2, <2>3 DEF Mailbox!Accept, Submit, Slots
<1>3. CASE WorkerPops
    <2>1. /\ Head(queue) \in Dest /\ Queued(Head(queue))
          /\ \A x \in Dest : Queued(x)' <=> Queued(x) /\ x # Head(queue)
        BY <1>3, PopQueue
    <2>2. current = Nothing /\ ~stopping /\ held' = held /\ stopping' = stopping
          /\ current' = [dest |-> Head(queue), ev |-> held[Head(queue)]]
        BY <1>3 DEF WorkerPops, Handed
    <2>3. Slots[Head(queue)] = held[Head(queue)]
        BY <2>1 DEF Slots, Want
    <2>4. Slots' = [Slots EXCEPT ![Head(queue)] = Nothing]
        BY Zenon, <2>1, <2>2 DEF Slots, Want
    <2>5. Mailbox!Take(Head(queue))
        BY <1>0, <2>1, <2>2, <2>3, <2>4 DEF Mailbox!Take, Slots
    <2> QED
        BY <2>1, <2>5 DEF Mailbox!Next
<1>4. CASE StorageReturns
    <2>1. Mailbox!Settle
        BY <1>4 DEF StorageReturns, Handed, Mailbox!Settle, Want, Queued
    <2> QED
        BY <2>1 DEF Mailbox!Next
<1>5. CASE WorkerStops \/ Shutdown
    <2>1. queue' = <<>> /\ stopping' /\ current' = current
        BY <1>5 DEF WorkerStops, Shutdown
    <2>2. Mailbox!Close
        BY <2>1 DEF Mailbox!Close, Want, Queued
    <2> QED
        BY <2>2 DEF Mailbox!Next
<1>6. CASE UNCHANGED vars \/ WorkerWaits \/ WorkerAbandons \/ WorkerLogs \/ WorkerLogged
           \/ ShutdownWakes \/ IdleCall \/ IdleTimeout
    BY <1>1, <1>6 DEF vars, WorkerWaits, WorkerAbandons, WorkerLogs, WorkerLogged, ShutdownWakes,
        IdleCall, IdleTimeout
<1> QED
    BY <1>2, <1>3, <1>4, <1>5, <1>6 DEF Next, WorkerStep, Mailbox!Next

\* The threads, the dict and the condition implement the mailbox.
THEOREM PublisherImplementsMailbox == Spec => ImplementsMailbox
    BY RefinementInit, RefinementStep, Invariance, PTL DEF Spec, ImplementsMailbox, Mailbox!Spec

\* No notify is lost and nothing is logged after shutdown() has returned, for any
\* number of destinations and threads waiting (VerdictPublisher._run, shutdown).
THEOREM PublisherStaysQuiet == Spec => []PublisherQuiet
<1>1. IInv => PublisherQuiet
    BY DEF IInv, Sleepers, NoLostWakeup, PublisherQuiet
<1> QED
    BY <1>1, Invariance, PTL
-----------------------------------------------------------------------------
(* VaultTools *)

ToolState ==
    [pc : {"idle", "sync", "find", "write", "delete"}, op : VT!Ops \cup {None}, path : Path \cup {None},
     id : VT!Id \cup {None}, app : Nat, old : SUBSET Nat]

ToolTypes ==
    /\ remote \in [VT!Id -> VT!Held \cup {None}]
    /\ known \in [VT!Id -> Nat]
    /\ serial \in [item : Nat, file : Nat] /\ serial.item >= 1
    /\ tool \in [Tool -> ToolState]
    /\ behind \in [Tool -> SUBSET VT!Id]

\* No attachment is newer than the last one uploaded, and item 1 has one
FilesGiven ==
    /\ \A i \in VT!Id : remote[i] # None => \A a \in remote[i].files : a <= serial.file
    /\ VT!AttachmentKept

\* What a call read is not older than the vault was at its sync
FreshRead(t) ==
    /\ tool[t].pc = "find" /\ tool[t].op # "get" =>
          \A i \in VT!Id : remote[i] # None /\ i \notin behind[t] => known[i] >= remote[i].app
    /\ tool[t].pc = "write" /\ tool[t].op = "update" =>
          (remote[tool[t].id] # None /\ tool[t].id \notin behind[t] => tool[t].app >= remote[tool[t].id].app)

\* What a call will delete, it or another call has uploaded a newer one for
NewerThere(t) ==
    /\ tool[t].pc # "idle" => tool[t].path \in Path
    /\ tool[t].pc \in {"write", "delete"} /\ tool[t].op # "add" => tool[t].id \in VT!Id
    /\ \A a \in tool[t].old : a <= serial.file
    /\ tool[t].pc = "delete" => tool[t].op = "attach"
    /\ tool[t].pc = "delete" /\ tool[t].id = 1 /\ remote[1] # None =>
          \A a \in tool[t].old : \E b \in remote[1].files : b > a

ToolInv == ToolTypes /\ FilesGiven /\ VT!EditKept /\ \A t \in Tool : FreshRead(t) /\ NewerThere(t)

\* A call at rest satisfies all that is said of calls
LEMMA RestingCall ==
    /\ VT!Resting \in ToolState
    /\ VT!Resting.pc = "idle" /\ VT!Resting.old = {} /\ VT!Resting.op = None
    BY DEF VT!Resting, ToolState

\* Initially: one item with one attachment, and no call.
LEMMA ToolInitOK == ASSUME VT!ToolAssumption, VT!ToolInit PROVE ToolInv
<1>0. 1 \in VT!Id /\ VT!Id \subseteq Nat BY DEF VT!Id, VT!ToolAssumption
<1>1. ToolTypes
    <2>1. PICK p \in Path : p = CHOOSE q \in Path : TRUE BY DEF VT!ToolAssumption
    <2>2. [path |-> p, app |-> 0, files |-> {1}] \in VT!Held BY DEF VT!Held
    <2>3. remote = [i \in VT!Id |-> IF i = 1 THEN [path |-> p, app |-> 0, files |-> {1}] ELSE None]
        BY <2>1 DEF VT!ToolInit
    <2>4. remote \in [VT!Id -> VT!Held \cup {None}] BY <2>2, <2>3
    <2>5. tool \in [Tool -> ToolState] BY RestingCall DEF VT!ToolInit
    <2> QED BY <2>4, <2>5 DEF VT!ToolInit, ToolTypes
<1>2. FilesGiven
    BY <1>0, SMT DEF VT!ToolInit, FilesGiven, VT!AttachmentKept
<1>3. VT!EditKept BY DEF VT!ToolInit, VT!EditKept
<1>4. ASSUME NEW t \in Tool PROVE FreshRead(t) /\ NewerThere(t)
    <2>1. tool[t] = VT!Resting BY DEF VT!ToolInit
    <2> QED BY <2>1, RestingCall DEF FreshRead, NewerThere
<1> QED BY <1>1, <1>2, <1>3, <1>4 DEF ToolInv

\* Whoever changes item i tells every other call that has synced.
LEMMA ToldOthers ==
    ASSUME ToolTypes, NEW i \in VT!Id, NEW t, VT!Changed(i, t)
    PROVE  /\ behind' \in [Tool -> SUBSET VT!Id]
           /\ \A u \in Tool : u # t /\ tool[u].pc \in {"find", "write", "delete"} => behind'[u] = behind[u] \cup {i}
<1>1. behind' = [u \in Tool |-> IF u = t \/ tool[u].pc \in {"idle", "sync"} THEN {} ELSE behind[u] \cup {i}]
    BY DEF VT!Changed
<1>2. \A u \in Tool : behind[u] \in SUBSET VT!Id BY DEF ToolTypes
<1> QED BY <1>1, <1>2

\* An item is replaced by x, the copy of bw serve follows, and every other call
\* is told: what the others have read is sound as long as x has their newer files.
LEMMA OthersSound ==
    ASSUME VT!ToolAssumption, ToolInv,
           NEW i \in VT!Id, NEW x \in VT!Held \cup {None}, NEW t, NEW u \in Tool, u # t,
           remote' = [remote EXCEPT ![i] = x],
           \A j \in VT!Id : j # i => known'[j] = known[j],
           VT!Changed(i, t), tool'[u] = tool[u],
           serial' \in [item : Nat, file : Nat], serial'.file >= serial.file,
           i = 1 /\ x # None => remote[1] # None /\ \A a \in Nat, b \in remote[1].files :
                                   b > a => (\E c \in x.files : c > a)
    PROVE  FreshRead(u)' /\ NewerThere(u)'
<1>0. /\ tool[u] \in ToolState /\ 1 \in VT!Id /\ VT!Id \subseteq Nat /\ serial.file \in Nat /\ serial'.file \in Nat
      /\ FreshRead(u) /\ NewerThere(u)
    BY DEF ToolInv, ToolTypes, VT!Id, VT!ToolAssumption
<1>1. /\ \A j \in VT!Id : j # i => remote'[j] = remote[j]
      /\ remote'[i] = x
    BY DEF ToolInv, ToolTypes
<1>2. tool[u].pc \in {"find", "write", "delete"} => behind'[u] = behind[u] \cup {i}
    BY ToldOthers DEF ToolInv
<1>3. tool[u].pc \in {"write", "delete"} /\ tool[u].op # "add" => tool[u].id \in VT!Id BY <1>0 DEF NewerThere
<1>4. FreshRead(u)'
    <2>1. CASE tool[u].pc = "find" /\ tool[u].op # "get"
        BY <2>1, <1>0, <1>1, <1>2 DEF FreshRead
    <2>2. CASE tool[u].pc = "write" /\ tool[u].op = "update"
        BY <2>2, <1>0, <1>1, <1>2, <1>3 DEF FreshRead
    <2> QED BY <2>1, <2>2 DEF FreshRead
<1>5. \A a \in tool[u].old : a \in Nat /\ a <= serial.file /\ a <= serial'.file
    BY <1>0 DEF NewerThere, ToolState
<1>6. ASSUME tool[u].pc = "delete", tool[u].id = 1, remote'[1] # None, NEW a \in tool[u].old
      PROVE  \E b \in remote'[1].files : b > a
    <2>1. CASE i # 1
        BY <2>1, <1>6, <1>0, <1>1 DEF NewerThere
    <2>2. CASE i = 1
        <3>1. remote[1] # None BY <2>2, <1>6, <1>1
        <3>2. PICK b \in remote[1].files : b > a BY <3>1, <1>6, <1>0 DEF NewerThere
        <3> QED BY <3>2, <2>2, <1>1, <1>5, <1>6
    <2> QED BY <2>1, <2>2
<1> QED BY <1>0, <1>3, <1>4, <1>5, <1>6 DEF NewerThere

\* A step of call t that touches no item.
LEMMA OwnStep ==
    ASSUME ToolInv, NEW t \in Tool, NEW r \in ToolState, NEW B \in SUBSET VT!Id,
           UNCHANGED <<remote, known, serial, clobbered>>,
           tool' = [tool EXCEPT ![t] = r], behind' = [behind EXCEPT ![t] = B],
           FreshRead(t)', NewerThere(t)'
    PROVE  ToolInv'
<1>1. ToolTypes' BY DEF ToolInv, ToolTypes
<1>2. FilesGiven' /\ VT!EditKept' BY DEF ToolInv, FilesGiven, VT!AttachmentKept, VT!EditKept
<1>3. ASSUME NEW u \in Tool, u # t PROVE FreshRead(u)' /\ NewerThere(u)'
    <2>1. tool'[u] = tool[u] /\ behind'[u] = behind[u] BY <1>3 DEF ToolInv, ToolTypes
    <2>2. FreshRead(u) /\ NewerThere(u) BY DEF ToolInv
    <2> QED BY <2>1, <2>2 DEF FreshRead, NewerThere
<1> QED BY <1>1, <1>2, <1>3 DEF ToolInv

\* A call that comes to rest has nothing left to be held to.
LEMMA RestSound ==
    ASSUME NEW t, tool'[t] = VT!Resting
    PROVE  FreshRead(t)' /\ NewerThere(t)'
    BY RestingCall DEF FreshRead, NewerThere

LEMMA DoneKeeps ==
    ASSUME ToolInv, NEW t \in Tool, VT!Done(t), UNCHANGED <<remote, known, serial, clobbered>>
    PROVE  ToolInv'
<1>1. tool'[t] = VT!Resting BY DEF VT!Done, ToolInv, ToolTypes
<1> QED BY Zenon, <1>1, RestSound, OwnStep, RestingCall DEF VT!Done, VT!Forget

\* A call that changes item i and goes on with r.
LEMMA ChangeStep ==
    ASSUME VT!ToolAssumption, ToolInv,
           NEW i \in VT!Id, NEW x \in VT!Held \cup {None}, NEW n \in Nat, NEW t \in Tool, NEW r \in ToolState,
           remote' = [remote EXCEPT ![i] = x], known' = [known EXCEPT ![i] = n], VT!Changed(i, t),
           tool' = [tool EXCEPT ![t] = r], ~clobbered',
           serial' \in [item : Nat, file : Nat], serial'.item >= 1, serial'.file >= serial.file,
           x # None => \A a \in x.files : a <= serial'.file,
           i = 1 /\ x # None =>
               /\ remote[1] # None /\ x.files # {}
               /\ \A a \in Nat, b \in remote[1].files : b > a => (\E c \in x.files : c > a),
           r.pc \notin {"find", "write"}, NewerThere(t)'
    PROVE  ToolInv'
<1>1. ToolTypes' BY ToldOthers DEF ToolInv, ToolTypes
<1>2. \A j \in VT!Id : remote'[j] = IF j = i THEN x ELSE remote[j] BY DEF ToolInv, ToolTypes
<1>3. FilesGiven'
    <2>1. 1 \in VT!Id BY DEF VT!Id, VT!ToolAssumption
    <2>2. ASSUME NEW j \in VT!Id, remote'[j] # None, NEW a \in remote'[j].files PROVE a <= serial'.file
        <3>1. CASE j = i BY <3>1, <2>2, <1>2
        <3>2. CASE j # i
            <4>1. remote[j] \in VT!Held /\ a \in remote[j].files BY <3>2, <2>2, <1>2 DEF ToolInv, ToolTypes
            <4>2. a \in Nat /\ serial.file \in Nat /\ serial'.file \in Nat BY <4>1 DEF VT!Held, ToolInv, ToolTypes
            <4>3. a <= serial.file BY <3>2, <2>2, <1>2 DEF ToolInv, FilesGiven
            <4> QED BY <4>2, <4>3
        <3> QED BY <3>1, <3>2
    <2>3. VT!AttachmentKept' BY <2>1, <1>2 DEF ToolInv, FilesGiven, VT!AttachmentKept
    <2> QED BY <2>2, <2>3 DEF FilesGiven
<1>4. VT!EditKept' BY DEF ToolInv, VT!EditKept
<1>5. ASSUME NEW u \in Tool, u # t PROVE FreshRead(u)' /\ NewerThere(u)'
    <2>1. tool'[u] = tool[u] BY <1>5 DEF ToolInv, ToolTypes
    <2>2. \A j \in VT!Id : j # i => known'[j] = known[j] BY DEF ToolInv, ToolTypes
    <2> QED BY Zenon, <2>1, <2>2, <1>5, OthersSound
<1>6. tool'[t] = r BY DEF ToolInv, ToolTypes
<1>7. FreshRead(t)' BY <1>6 DEF FreshRead
<1> QED BY <1>1, <1>3, <1>4, <1>5, <1>7 DEF ToolInv

\* What is known of a call in hand.
LEMMA ToolFacts ==
    ASSUME VT!ToolAssumption, ToolInv, NEW t \in Tool
    PROVE  /\ tool[t] \in ToolState /\ FreshRead(t) /\ NewerThere(t) /\ behind[t] \in SUBSET VT!Id
           /\ \A i \in VT!Id : remote[i] # None =>
                 /\ remote[i] \in VT!Held /\ remote[i].app \in Nat /\ remote[i].path \in Path
                 /\ remote[i].files \in SUBSET Nat
           /\ 1 \in VT!Id /\ VT!Id \subseteq Nat /\ serial.item \in Nat /\ serial.file \in Nat
    BY DEF ToolInv, ToolTypes, VT!Held, VT!Id, VT!ToolAssumption

LEMMA CallKeeps == ASSUME ToolInv, NEW t \in Tool, VT!Call(t) PROVE ToolInv'
<1>1. PICK op \in VT!Ops, p \in Path :
          tool' = [tool EXCEPT ![t] = [VT!Resting EXCEPT !.pc = IF op = "add" THEN "write" ELSE "sync", !.op = op, !.path = p]]
    BY Zenon DEF VT!Call
<1> DEFINE r == [VT!Resting EXCEPT !.pc = IF op = "add" THEN "write" ELSE "sync", !.op = op, !.path = p]
<1>2. /\ r \in ToolState /\ r.op = op /\ r.old = {} /\ r.path \in Path
      /\ r.pc = IF op = "add" THEN "write" ELSE "sync"
    BY Zenon DEF VT!Resting, ToolState
<1>3. tool'[t] = r BY <1>1 DEF ToolInv, ToolTypes
<1> HIDE DEF r
<1>4. FreshRead(t)' BY <1>2, <1>3 DEF FreshRead
<1>5. NewerThere(t)' BY <1>2, <1>3 DEF NewerThere
<1>6. behind' = [behind EXCEPT ![t] = behind[t]] /\ behind[t] \in SUBSET VT!Id
    BY DEF ToolInv, ToolTypes, VT!Call
<1> QED BY Zenon, <1>1, <1>2, <1>4, <1>5, <1>6, OwnStep DEF VT!Call, r

\* A call that writes always asks for the vault itself, and then bw serve's copy
\* has every edit.
LEMMA SyncKeeps == ASSUME VT!ToolAssumption, ToolInv, NEW t \in Tool, VT!Sync(t) PROVE ToolInv'
<1>0. tool[t] \in ToolState /\ NewerThere(t) /\ tool[t].pc = "sync" /\ UNCHANGED <<remote, serial, clobbered>>
    BY ToolFacts DEF VT!Sync, VT!At
<1> DEFINE r == [tool[t] EXCEPT !.pc = "find"]
<1>1. /\ r \in ToolState /\ r.pc = "find" /\ r.op = tool[t].op /\ r.old = tool[t].old
      /\ r.path = tool[t].path
    BY <1>0 DEF ToolState
<1>2. CASE VT!MustSync(t) /\ known' = [i \in VT!Id |-> IF remote[i] = None THEN 0 ELSE remote[i].app]
           /\ tool' = [tool EXCEPT ![t].pc = "find"] /\ behind' = [behind EXCEPT ![t] = {}]
    <2>1. tool' = [tool EXCEPT ![t] = r] /\ tool'[t] = r BY <1>2 DEF ToolInv, ToolTypes
    <2> HIDE DEF r
    <2>2. \A i \in VT!Id : remote[i] # None => remote[i].app \in Nat /\ known'[i] = remote[i].app
        BY <1>2, ToolFacts
    <2>3. ToolTypes'
        <3>1. known' \in [VT!Id -> Nat] BY <1>2, <2>2
        <3> QED BY <3>1, <2>1, <1>0, <1>1, <1>2 DEF ToolInv, ToolTypes
    <2>4. FilesGiven' /\ VT!EditKept'
        BY <1>0 DEF ToolInv, FilesGiven, VT!AttachmentKept, VT!EditKept
    <2>5. ASSUME NEW u \in Tool PROVE FreshRead(u)'
        <3>1. CASE u = t BY <3>1, <2>1, <2>2, <1>0, <1>1 DEF FreshRead
        <3>2. CASE u # t
            <4>1. tool'[u] = tool[u] /\ behind'[u] = behind[u] /\ FreshRead(u)
                BY <3>2, <1>2 DEF ToolInv, ToolTypes
            <4> QED BY <4>1, <2>2, <1>0 DEF FreshRead
        <3> QED BY <3>1, <3>2
    <2>6. ASSUME NEW u \in Tool PROVE NewerThere(u)'
        <3>1. /\ tool'[u].old = tool[u].old /\ tool'[u].path = tool[u].path
              /\ (u # t => tool'[u] = tool[u]) /\ NewerThere(u)
            BY <1>0, <1>1, <2>1, ToolFacts DEF ToolInv, ToolTypes
        <3> QED BY <3>1, <2>1, <1>0, <1>1 DEF NewerThere
    <2> QED BY <2>3, <2>4, <2>5, <2>6 DEF ToolInv
<1>3. CASE VT!Done(t) /\ UNCHANGED known BY <1>3, <1>0, DoneKeeps
<1>4. CASE ~VT!MustSync(t) /\ tool' = [tool EXCEPT ![t].pc = "find"] /\ behind' = [behind EXCEPT ![t] = {}]
           /\ UNCHANGED known
    <2>1. tool' = [tool EXCEPT ![t] = r] /\ tool'[t] = r BY <1>4 DEF ToolInv, ToolTypes
    <2> HIDE DEF r
    <2>2. FreshRead(t)' BY <1>4, <2>1, <1>1 DEF FreshRead, VT!MustSync
    <2>3. NewerThere(t)' BY <2>1, <1>0, <1>1 DEF NewerThere
    <2>4. UNCHANGED <<remote, known, serial, clobbered>> BY <1>0, <1>4
    <2>5. behind' = [behind EXCEPT ![t] = {}] /\ {} \in SUBSET VT!Id BY <1>4
    <2> QED BY Zenon, <2>1, <2>2, <2>3, <2>4, <2>5, <1>1, OwnStep
<1> QED BY <1>2, <1>3, <1>4 DEF VT!Sync

\* The item found, with the edits bw serve's copy has of it.
LEMMA FindKeeps == ASSUME VT!ToolAssumption, ToolInv, NEW t \in Tool, VT!Find(t) PROVE ToolInv'
<1>0. tool[t] \in ToolState /\ FreshRead(t) /\ NewerThere(t) /\ tool[t].pc = "find" /\ UNCHANGED <<remote, known, serial, clobbered>>
    BY Zenon, ToolFacts DEF VT!Find, VT!At
<1>1. CASE VT!Done(t) BY <1>0, <1>1, DoneKeeps
<1>2. ASSUME tool[t].op # "get", UNCHANGED behind, NEW i \in VT!Id, remote[i] # None,
             tool' = [tool EXCEPT ![t].pc = "write", ![t].id = i, ![t].app = known[i],
                                  ![t].old = IF tool[t].op = "attach" THEN remote[i].files ELSE {}]
      PROVE  ToolInv'
    <2> DEFINE r == [tool[t] EXCEPT !.pc = "write", !.id = i, !.app = known[i],
                                    !.old = IF tool[t].op = "attach" THEN remote[i].files ELSE {}]
    <2>1. tool' = [tool EXCEPT ![t] = r] /\ tool'[t] = r BY Zenon, <1>2 DEF ToolInv, ToolTypes
    <2>2. known[i] \in Nat /\ remote[i].files \in SUBSET Nat BY <1>2, ToolFacts DEF ToolInv, ToolTypes
    <2>3. /\ r \in ToolState /\ r.pc = "write" /\ r.op = tool[t].op /\ r.id = i /\ r.app = known[i]
          /\ r.path = tool[t].path /\ r.old \subseteq remote[i].files
        BY Zenon, <1>0, <2>2 DEF ToolState
    <2> HIDE DEF r
    <2>4. FreshRead(t)' BY <1>0, <1>2, <2>1, <2>3 DEF FreshRead
    <2>5. NewerThere(t)'
        <3>1. \A a \in remote[i].files : a <= serial.file BY <1>2 DEF ToolInv, FilesGiven
        <3> QED BY Zenon, <3>1, <1>0, <1>2, <2>1, <2>3 DEF NewerThere
    <2>6. behind' = [behind EXCEPT ![t] = behind[t]] /\ behind[t] \in SUBSET VT!Id
        BY <1>2 DEF ToolInv, ToolTypes
    <2> QED BY Zenon, <2>1, <2>3, <2>4, <2>5, <2>6, <1>0, OwnStep
<1> QED BY Zenon, <1>1, <1>2 DEF VT!Find

\* An update sends what it read at its find: not older than the vault, unless
\* somebody changed the item since.
LEMMA PutKeeps == ASSUME VT!ToolAssumption, ToolInv, NEW t \in Tool, VT!Put(t) PROVE ToolInv'
<1>0. /\ tool[t] \in ToolState /\ FreshRead(t) /\ NewerThere(t)
      /\ tool[t].pc = "write" /\ tool[t].op = "update" /\ tool[t].id \in VT!Id
      /\ tool' = [tool EXCEPT ![t] = VT!Resting] /\ UNCHANGED <<serial, synced>>
    BY Zenon, ToolFacts DEF VT!Put, VT!At, NewerThere
<1>1. PICK i \in VT!Id : i = tool[t].id BY <1>0
<1>2. CASE VT!Forget(t) /\ UNCHANGED <<remote, known, clobbered>>
    BY Zenon, <1>0, <1>2, DoneKeeps DEF VT!Done
<1>3. ASSUME remote[i] # None, NEW p \in Path, VT!Changed(i, t),
             remote' = [remote EXCEPT ![i] = [remote[i] EXCEPT !.path = p, !.app = tool[t].app]],
             known' = [known EXCEPT ![i] = tool[t].app],
             clobbered' = (clobbered \/ (tool[t].app < remote[i].app /\ i \notin behind[t]))
      PROVE  ToolInv'
    <2> DEFINE x == [remote[i] EXCEPT !.path = p, !.app = tool[t].app]
    <2>1. remote[i] \in VT!Held /\ remote[i].app \in Nat /\ tool[t].app \in Nat /\ serial.item \in Nat /\ serial.file \in Nat
        BY <1>0, <1>3, ToolFacts DEF ToolState
    <2>2. x \in VT!Held /\ x.files = remote[i].files BY Zenon, <2>1 DEF VT!Held
    <2>3. x # None BY <2>2 DEF VT!ToolAssumption
    <2>4. remote' = [remote EXCEPT ![i] = x] BY <1>3
    <2> HIDE DEF x
    <2>5. ~clobbered'
        <3>1. i \notin behind[t] => tool[t].app >= remote[i].app BY <1>0, <1>1, <1>3 DEF FreshRead
        <3>2. ~(tool[t].app < remote[i].app /\ i \notin behind[t]) BY <3>1, <2>1
        <3>3. ~clobbered BY DEF ToolInv, VT!EditKept
        <3> QED BY <3>2, <3>3, <1>3, Zenon
    <2>6. NewerThere(t)'
        <3>1. tool'[t] = VT!Resting BY <1>0 DEF ToolInv, ToolTypes
        <3> QED BY <3>1, RestSound
    <2>7. \A a \in x.files : a <= serial'.file BY <1>0, <1>3, <2>2 DEF ToolInv, FilesGiven
    <2>8. serial' \in [item : Nat, file : Nat] /\ serial'.item >= 1 /\ serial'.file >= serial.file
        BY <1>0, <2>1 DEF ToolInv, ToolTypes
    <2>9. i = 1 => remote[1] # None /\ x.files # {}
                   /\ \A a \in Nat, b \in remote[1].files : b > a => (\E c \in x.files : c > a)
        BY <1>3, <2>2 DEF ToolInv, FilesGiven, VT!AttachmentKept
    <2>10. VT!Resting \in ToolState /\ VT!Resting.pc \notin {"find", "write"} BY RestingCall
    <2> QED BY Zenon, <1>0, <1>3, <2>1, <2>2, <2>4, <2>5, <2>6, <2>7, <2>8, <2>9, <2>10, ChangeStep
<1> QED BY Zenon, <1>0, <1>1, <1>2, <1>3 DEF VT!Put, VT!Apply

\* A new item has an id of its own.
LEMMA AddKeeps == ASSUME VT!ToolAssumption, ToolInv, NEW t \in Tool, VT!Add(t) PROVE ToolInv'
<1>0. /\ tool[t] \in ToolState /\ tool' = [tool EXCEPT ![t] = VT!Resting] /\ UNCHANGED <<synced, clobbered>>
      /\ serial \in [item : Nat, file : Nat] /\ serial.item >= 1 /\ MaxItem \in Nat
    BY ToolFacts DEF VT!Add, ToolInv, ToolTypes, VT!ToolAssumption
<1>1. CASE VT!Forget(t) /\ UNCHANGED <<remote, known, serial>>
    BY Zenon, <1>0, <1>1, DoneKeeps DEF VT!Done
<1>2. ASSUME serial.item < MaxItem, serial' = [serial EXCEPT !.item = @ + 1], VT!Changed(serial'.item, t),
             VT!Apply(serial'.item, [path |-> tool[t].path, app |-> 0, files |-> {}], 0)
      PROVE  ToolInv'
    <2>1. /\ serial' \in [item : Nat, file : Nat] /\ serial'.item = serial.item + 1 /\ serial'.file = serial.file
        BY <1>0, <1>2
    <2>2. PICK i \in VT!Id : i = serial'.item /\ i # 1 BY <1>0, <1>2, <2>1 DEF VT!Id
    <2>3. tool[t].path \in Path BY ToolFacts DEF NewerThere, VT!Add, VT!At
    <2> DEFINE x == [path |-> tool[t].path, app |-> 0, files |-> {}]
    <2>4. x \in VT!Held /\ x.files = {} BY <2>3 DEF VT!Held
    <2>5. remote' = [remote EXCEPT ![i] = x] /\ known' = [known EXCEPT ![i] = 0] /\ VT!Changed(i, t)
        BY <1>2, <2>2 DEF VT!Apply
    <2> HIDE DEF x
    <2>6. tool'[t] = VT!Resting BY <1>0 DEF ToolInv, ToolTypes
    <2>7. NewerThere(t)' BY <2>6, RestSound
    <2>8. VT!Resting \in ToolState /\ VT!Resting.pc \notin {"find", "write"} BY RestingCall
    <2>9. serial'.item >= 1 /\ serial'.file >= serial.file BY <1>0, <2>1
    <2>10. ~clobbered' BY <1>0 DEF ToolInv, VT!EditKept
    <2>11. \A a \in x.files : a <= serial'.file BY <2>4
    <2> QED BY Zenon, <1>0, <2>1, <2>2, <2>4, <2>5, <2>7, <2>8, <2>9, <2>10, <2>11, ChangeStep
<1> QED BY <1>1, <1>2 DEF VT!Add

LEMMA TrashKeeps == ASSUME VT!ToolAssumption, ToolInv, NEW t \in Tool, VT!Trash(t) PROVE ToolInv'
<1>0. /\ tool[t].id \in VT!Id /\ tool' = [tool EXCEPT ![t] = VT!Resting] /\ UNCHANGED <<serial, synced, clobbered>>
      /\ serial \in [item : Nat, file : Nat] /\ serial.item >= 1
    BY ToolFacts DEF VT!Trash, VT!At, NewerThere, ToolInv, ToolTypes
<1>1. CASE VT!Forget(t) /\ UNCHANGED <<remote, known>>
    BY Zenon, <1>0, <1>1, DoneKeeps DEF VT!Done
<1>2. CASE VT!Apply(tool[t].id, None, 0) /\ VT!Changed(tool[t].id, t)
    <2>1. PICK i \in VT!Id : i = tool[t].id BY <1>0
    <2>2. remote' = [remote EXCEPT ![i] = None] /\ known' = [known EXCEPT ![i] = 0] /\ VT!Changed(i, t)
        BY <1>2, <2>1 DEF VT!Apply
    <2>3. tool'[t] = VT!Resting BY <1>0 DEF ToolInv, ToolTypes
    <2>4. NewerThere(t)' BY <2>3, RestSound
    <2>5. VT!Resting \in ToolState /\ VT!Resting.pc \notin {"find", "write"} BY RestingCall
    <2>6. serial' \in [item : Nat, file : Nat] /\ serial'.item >= 1 /\ serial'.file >= serial.file BY <1>0
    <2>7. ~clobbered' BY <1>0 DEF ToolInv, VT!EditKept
    <2> QED BY Zenon, <1>0, <2>2, <2>4, <2>5, <2>6, <2>7, ChangeStep
<1> QED BY <1>1, <1>2 DEF VT!Trash

\* The new attachment is newer than all the call will delete.
LEMMA UploadKeeps == ASSUME VT!ToolAssumption, ToolInv, NEW t \in Tool, VT!Upload(t) PROVE ToolInv'
<1>0. /\ tool[t] \in ToolState /\ NewerThere(t) /\ tool[t].pc = "write" /\ tool[t].op = "attach" /\ tool[t].id \in VT!Id
      /\ UNCHANGED <<synced, clobbered>>
      /\ serial \in [item : Nat, file : Nat] /\ serial.item >= 1
    BY ToolFacts DEF VT!Upload, VT!At, NewerThere, ToolInv, ToolTypes
<1>1. CASE VT!Done(t) /\ UNCHANGED <<remote, known, serial>>
    BY <1>0, <1>1, DoneKeeps
<1>2. PICK i \in VT!Id : i = tool[t].id BY <1>0
<1>3. ASSUME remote[i] # None, serial' = [serial EXCEPT !.file = @ + 1],
             VT!Apply(i, [remote[i] EXCEPT !.files = @ \cup {serial'.file}], remote[i].app), VT!Changed(i, t),
             \/ tool' = [tool EXCEPT ![t].pc = "delete"]
             \/ tool' = [tool EXCEPT ![t] = VT!Resting]
      PROVE  ToolInv'
    <2> DEFINE x == [remote[i] EXCEPT !.files = @ \cup {serial'.file}]
    <2>1. serial' \in [item : Nat, file : Nat] /\ serial'.file = serial.file + 1 /\ serial'.item = serial.item
        BY <1>0, <1>3
    <2>2. remote[i] \in VT!Held /\ remote[i].app \in Nat /\ remote[i].files \in SUBSET Nat BY <1>3, ToolFacts
    <2>3. x \in VT!Held /\ x.files = remote[i].files \cup {serial'.file} BY <2>1, <2>2 DEF VT!Held
    <2>4. x # None BY <2>3 DEF VT!ToolAssumption
    <2>5. remote' = [remote EXCEPT ![i] = x] /\ known' = [known EXCEPT ![i] = remote[i].app] BY <1>3 DEF VT!Apply
    <2> HIDE DEF x
    <2>6. remote'[i] = x BY <2>5 DEF ToolInv, ToolTypes
    <2>7. serial'.item >= 1 /\ serial'.file >= serial.file BY <1>0, <2>1
    <2>8. ~clobbered' BY <1>0 DEF ToolInv, VT!EditKept
    <2>9. \A a \in x.files : a <= serial'.file
        <3>1. \A a \in remote[i].files : a <= serial.file BY <1>3 DEF ToolInv, FilesGiven
        <3> QED BY <3>1, <2>1, <2>2, <2>3, <1>0
    <2>10. /\ x.files # {}
           /\ \A a \in Nat, b \in remote[i].files : b > a => (\E c \in x.files : c > a)
        BY <2>3
    <2>11. CASE tool' = [tool EXCEPT ![t] = VT!Resting]
        <3>1. tool'[t] = VT!Resting BY <2>11 DEF ToolInv, ToolTypes
        <3>2. NewerThere(t)' BY <3>1, RestSound
        <3>3. VT!Resting \in ToolState /\ VT!Resting.pc \notin {"find", "write"} BY RestingCall
        <3> QED BY Zenon, <1>3, <2>1, <2>2, <2>3, <2>5, <2>7, <2>8, <2>9, <2>10, <2>11, <3>2, <3>3, ChangeStep
    <2>12. CASE tool' = [tool EXCEPT ![t].pc = "delete"]
        <3> DEFINE r == [tool[t] EXCEPT !.pc = "delete"]
        <3>1. tool' = [tool EXCEPT ![t] = r] /\ tool'[t] = r BY <2>12 DEF ToolInv, ToolTypes
        <3>2. /\ r \in ToolState /\ r.pc = "delete" /\ r.op = tool[t].op /\ r.id = i /\ r.old = tool[t].old
              /\ r.path = tool[t].path
            BY <1>0, <1>2 DEF ToolState
        <3> HIDE DEF r
        <3>3. \A a \in r.old : a \in Nat /\ a <= serial'.file /\ serial'.file > a
            BY <1>0, <2>1, <3>2 DEF NewerThere, ToolState
        <3>4. NewerThere(t)' BY <1>0, <2>3, <2>6, <3>1, <3>2, <3>3 DEF NewerThere
        <3>5. r.pc \notin {"find", "write"} BY <3>2
        <3> QED BY Zenon, <1>3, <2>1, <2>2, <2>3, <2>5, <2>7, <2>8, <2>9, <2>10, <3>1, <3>2, <3>4, <3>5, ChangeStep
    <2> QED BY <1>3, <2>11, <2>12
<1> QED BY <1>0, <1>1, <1>2, <1>3 DEF VT!Upload

\* What is deleted has a newer one beside it, for this call and for any other
\* that was to delete it or had it for its newer one.
LEMMA DeleteKeeps == ASSUME VT!ToolAssumption, ToolInv, NEW t \in Tool, VT!Delete(t) PROVE ToolInv'
<1>0. /\ tool[t] \in ToolState /\ NewerThere(t) /\ tool[t].pc = "delete" /\ tool[t].op = "attach" /\ tool[t].id \in VT!Id
      /\ UNCHANGED <<serial, synced, clobbered>>
      /\ serial \in [item : Nat, file : Nat] /\ serial.item >= 1
    BY ToolFacts DEF VT!Delete, VT!At, NewerThere, ToolInv, ToolTypes
<1>1. CASE VT!Done(t) /\ UNCHANGED <<remote, known>>
    BY <1>0, <1>1, DoneKeeps
<1>2. PICK i \in VT!Id : i = tool[t].id BY <1>0
<1>3. ASSUME remote[i] # None, NEW a \in tool[t].old, a \in remote[i].files, VT!Changed(i, t),
             VT!Apply(i, [remote[i] EXCEPT !.files = @ \ {a}], remote[i].app),
             tool' = [tool EXCEPT ![t].old = @ \ {a}, ![t].app = 0]
      PROVE  ToolInv'
    <2> DEFINE x == [remote[i] EXCEPT !.files = @ \ {a}]
               r == [tool[t] EXCEPT !.old = @ \ {a}, !.app = 0]
    <2>1. remote[i] \in VT!Held /\ remote[i].app \in Nat /\ remote[i].files \in SUBSET Nat BY <1>3, ToolFacts
    <2>2. x \in VT!Held /\ x.files = remote[i].files \ {a} BY <2>1 DEF VT!Held
    <2>3. x # None BY <2>2 DEF VT!ToolAssumption
    <2>4. remote' = [remote EXCEPT ![i] = x] /\ known' = [known EXCEPT ![i] = remote[i].app] BY <1>3 DEF VT!Apply
    <2>5. tool' = [tool EXCEPT ![t] = r] /\ tool'[t] = r BY Zenon, <1>3 DEF ToolInv, ToolTypes
    <2>6. /\ r \in ToolState /\ r.pc = "delete" /\ r.op = tool[t].op /\ r.id = i /\ r.old = tool[t].old \ {a}
          /\ r.path = tool[t].path
        BY Zenon, <1>0, <1>2 DEF ToolState
    <2> HIDE DEF x, r
    <2>7. remote'[i] = x BY <2>4 DEF ToolInv, ToolTypes
    <2>8. \A c \in x.files : c <= serial'.file BY <1>0, <1>3, <2>2 DEF ToolInv, FilesGiven
    <2>9. i = 1 => \A c \in Nat, b \in remote[1].files : b > c => (\E d \in x.files : d > c)
        <3>1. SUFFICES ASSUME i = 1, NEW c \in Nat, NEW b \in remote[1].files, b > c
                       PROVE  \E d \in x.files : d > c
            OBVIOUS
        <3>2. CASE b # a BY <3>1, <3>2, <2>2
        <3>3. CASE b = a
            <4>1. PICK d \in remote[1].files : d > a BY <3>1, <1>0, <1>2, <1>3 DEF NewerThere
            <4>2. d \in Nat /\ a \in Nat BY <3>1, <2>1, <1>3
            <4>3. d \in x.files /\ d > c BY <4>1, <4>2, <3>1, <3>3, <2>2
            <4> QED BY <4>3
        <3> QED BY <3>2, <3>3
    <2>10. i = 1 => x.files # {}
        <3>1. SUFFICES ASSUME i = 1 PROVE x.files # {} OBVIOUS
        <3>2. PICK d \in remote[1].files : d > a BY <3>1, <1>0, <1>2, <1>3 DEF NewerThere
        <3>3. d \in Nat /\ a \in Nat BY <3>1, <2>1, <1>3
        <3> QED BY <3>1, <3>2, <3>3, <2>2
    <2>11. NewerThere(t)'
        <3>1. \A c \in r.old : c \in Nat /\ c <= serial'.file BY <1>0, <2>6 DEF NewerThere, ToolState
        <3>2. i = 1 => \A c \in r.old : \E b \in x.files : b > c
            BY <1>0, <1>2, <1>3, <2>6, <2>9, <3>1 DEF NewerThere
        <3> QED BY <1>0, <2>5, <2>6, <2>7, <3>1, <3>2 DEF NewerThere
    <2>12. serial' \in [item : Nat, file : Nat] /\ serial'.item >= 1 /\ serial'.file >= serial.file BY <1>0
    <2>13. ~clobbered' BY <1>0 DEF ToolInv, VT!EditKept
    <2>14. r.pc \notin {"find", "write"} BY <2>6
    <2> QED
        BY Zenon, <1>3, <2>1, <2>2, <2>4, <2>5, <2>6, <2>8, <2>9, <2>10, <2>11, <2>12, <2>13, <2>14, ChangeStep
<1> QED BY Zenon, <1>0, <1>1, <1>2, <1>3 DEF VT!Delete, VT!Doomed

\* An edit in an app: every call is told.
LEMMA AppEditKeeps == ASSUME VT!ToolAssumption, ToolInv, VT!AppEdit PROVE ToolInv'
<1>0. UNCHANGED <<known, serial, synced, tool, clobbered>> BY DEF VT!AppEdit
<1>1. PICK i \in VT!Id : remote[i] # None /\ remote' = [remote EXCEPT ![i].app = @ + 1] /\ VT!Changed(i, None)
    BY Zenon DEF VT!AppEdit
<1> DEFINE x == [remote[i] EXCEPT !.app = @ + 1]
<1>2. remote[i] \in VT!Held /\ remote[i].app \in Nat BY <1>1 DEF ToolInv, ToolTypes, VT!Held
<1>3. x \in VT!Held /\ x.files = remote[i].files BY <1>2 DEF VT!Held
<1>4. remote' = [remote EXCEPT ![i] = x] BY <1>1
<1> HIDE DEF x
<1>5. x # None BY <1>3 DEF VT!ToolAssumption
<1>6. \A j \in VT!Id : remote'[j] = IF j = i THEN x ELSE remote[j] BY <1>4 DEF ToolInv, ToolTypes
<1>7. serial' \in [item : Nat, file : Nat] /\ serial'.file >= serial.file BY <1>0 DEF ToolInv, ToolTypes
<1>8. ToolTypes'
    <2>1. behind' \in [Tool -> SUBSET VT!Id] BY <1>1, ToldOthers DEF ToolInv
    <2> QED BY <2>1, <1>0, <1>3, <1>4 DEF ToolInv, ToolTypes
<1>9. FilesGiven'
    <2>1. 1 \in VT!Id BY DEF VT!Id, VT!ToolAssumption
    <2> QED BY <2>1, <1>0, <1>1, <1>3, <1>6 DEF ToolInv, FilesGiven, VT!AttachmentKept
<1>10. VT!EditKept' BY <1>0 DEF ToolInv, VT!EditKept
<1>11. ASSUME NEW u \in Tool PROVE FreshRead(u)' /\ NewerThere(u)'
    <2>1. u # None BY DEF VT!ToolAssumption
    <2>2. tool'[u] = tool[u] /\ \A j \in VT!Id : known'[j] = known[j] BY <1>0
    <2>3. i = 1 /\ x # None => remote[1] # None /\ \A a \in Nat, b \in remote[1].files : b > a => (\E c \in x.files : c > a)
        BY <1>1, <1>3
    <2> QED BY Zenon, <2>1, <2>2, <2>3, <1>1, <1>3, <1>4, <1>7, OthersSound
<1> QED BY <1>8, <1>9, <1>10, <1>11 DEF ToolInv

LEMMA ToolNextKeeps == ASSUME VT!ToolAssumption, ToolInv, [VT!ToolNext]_VT!toolVars PROVE ToolInv'
<1>1. CASE VT!SyncEveryPassed
    BY <1>1 DEF VT!SyncEveryPassed, ToolInv, ToolTypes, FilesGiven, VT!EditKept, VT!AttachmentKept, FreshRead, NewerThere
<1>2. CASE UNCHANGED VT!toolVars
    BY <1>2 DEF VT!toolVars, ToolInv, ToolTypes, FilesGiven, VT!EditKept, VT!AttachmentKept, FreshRead, NewerThere
<1> QED
    BY <1>1, <1>2, CallKeeps, SyncKeeps, FindKeeps, PutKeeps, AddKeeps, TrashKeeps, UploadKeeps, DeleteKeeps, AppEditKeeps
    DEF VT!ToolNext

LEMMA ToolTells == ASSUME ToolInv PROVE VT!VaultToolsKeep
BY DEF ToolInv, FilesGiven, VT!VaultToolsKeep

\* For any number of calls at once, of items, attachments and edits in the apps: an
\* update undoes no edit made before its own sync, and replacing an attachment
\* never leaves the item without one (_find(fresh=True), _attach_tool()).
THEOREM ToolsKeepItems == ASSUME VT!ToolAssumption PROVE VT!ToolSpec => []VT!VaultToolsKeep
<1>1. VT!ToolInit => ToolInv BY ToolInitOK
<1>2. ToolInv /\ [VT!ToolNext]_VT!toolVars => ToolInv' BY ToolNextKeeps
<1>3. ToolInv => VT!VaultToolsKeep BY ToolTells
<1> QED BY <1>1, <1>2, <1>3, PTL DEF VT!ToolSpec
-----------------------------------------------------------------------------
(* VerdictIntake *)

\* The verdict in the store is not older than that of post p, or it comes from a
\* post the agent had given up
Covered(p) ==
    LET f == verdictOf[p[1]] IN
    f # None /\ (VI!Obs(f.by) >= VI!Obs(p) \/ VI!Req(f.by).abandoned)

\* One post: answered only at its end, stored only if it passed every check
PostSound(p) ==
    LET r == VI!Req(p) IN
    /\ r.answer # None => r.pc = "end"
    /\ r.pc \in {"write", "replace", "answer"} => r.fault = "none" /\ (IntakeToken \/ r.via = "file")
    /\ r.pc = "answer" \/ r.answer = 202 => Covered(p)

\* The posts of one agent follow each other: all but the last are answered or
\* given up, and none is of an earlier observation than the one before
InSequence(a) ==
    /\ \A i \in 1 .. MaxPost : post[a][i] # None <=> i <= sent[a]
    /\ \A i, j \in 1 .. MaxPost : i < j /\ j <= sent[a] =>
          /\ post[a][i].obs <= post[a][j].obs
          /\ post[a][i].answer # None \/ post[a][i].abandoned

\* What is stored is a post of this agent
StoredPost(a) ==
    verdictOf[a] # None =>
        /\ verdictOf[a].by[1] = a /\ verdictOf[a].by[2] \in 1 .. MaxPost /\ verdictOf[a].by[2] <= sent[a]
        /\ verdictOf[a].whole

IntakeInv ==
    /\ VI!IntakeTypeOK /\ vnow \in Nat /\ VI!StoreSound
    /\ \A a \in Agent : InSequence(a) /\ StoredPost(a)
    /\ \A p \in VI!Posts : VI!Req(p) # None => PostSound(p)

LEMMA IntakeInitOK == ASSUME VI!IntakeAssumption, VI!IntakeInit PROVE IntakeInv
<1>1. VI!IntakeTypeOK BY DEF VI!IntakeInit, VI!IntakeAssumption, VI!IntakeTypeOK
<1>2. \A p \in VI!Posts : VI!Req(p) = None BY DEF VI!IntakeInit, VI!Posts, VI!Req
<1>3. ASSUME NEW a \in Agent PROVE InSequence(a) /\ StoredPost(a)
    <2>1. sent[a] = 0 /\ verdictOf[a] = None /\ \A i \in 1 .. MaxPost : post[a][i] = None BY <1>3 DEF VI!IntakeInit
    <2>2. \A i \in 1 .. MaxPost : ~(i <= 0) BY DEF VI!IntakeAssumption
    <2> QED BY <2>1, <2>2 DEF InSequence, StoredPost
<1> QED BY <1>1, <1>2, <1>3 DEF IntakeInv, VI!IntakeInit, VI!StoreSound

\* What is known of a post that was made.
LEMMA PostFacts ==
    ASSUME VI!IntakeAssumption, IntakeInv, NEW a \in Agent, NEW i \in 1 .. MaxPost
    PROVE  /\ <<a, i>> \in VI!Posts /\ VI!Req(<<a, i>>) = post[a][i]
           /\ post[a][i] # None => post[a][i] \in VI!Request /\ PostSound(<<a, i>>)
           /\ sent[a] \in Nat /\ sent[a] <= MaxPost /\ MaxPost \in Nat /\ i \in Nat
    BY DEF IntakeInv, VI!IntakeTypeOK, VI!Posts, VI!Req, VI!IntakeAssumption

\* Post i of agent a becomes r, and the other posts stay.
LEMMA PostRow ==
    ASSUME VI!IntakeTypeOK, NEW a \in Agent, NEW i \in 1 .. MaxPost, NEW r \in VI!Request,
           post' = [post EXCEPT ![a][i] = r]
    PROVE  /\ post' \in [Agent -> [1 .. MaxPost -> VI!Request \cup {None}]]
           /\ post'[a][i] = r
           /\ \A b \in Agent, j \in 1 .. MaxPost : b # a \/ j # i => post'[b][j] = post[b][j]
<1> DEFINE row == [post[a] EXCEPT ![i] = r]
<1>1. post' = [post EXCEPT ![a] = row] BY DEF VI!IntakeTypeOK
<1>2. post[a] \in [1 .. MaxPost -> VI!Request \cup {None}] BY DEF VI!IntakeTypeOK
<1>3. row \in [1 .. MaxPost -> VI!Request \cup {None}] /\ row[i] = r
      /\ \A j \in 1 .. MaxPost : j # i => row[j] = post[a][j]
    BY Zenon, <1>2
<1> HIDE DEF row
<1> QED BY Zenon, <1>1, <1>3 DEF VI!IntakeTypeOK

\* What a step that leaves the store alone makes of a post x
GoesOn(x, r) ==
    /\ r.obs = x.obs /\ r.via = x.via /\ r.fault = x.fault
    /\ x.abandoned => r.abandoned
    /\ x.answer # None => r.answer # None
    /\ x.answer = 202 => r.answer = 202
    /\ x.pc = "answer" => r.pc = "answer" \/ r.answer = 202 \/ r.abandoned
    /\ r.pc = "answer" \/ r.answer = 202 => x.pc = "answer" \/ x.answer = 202
    /\ r.answer # None => r.pc = "end"
    /\ r.pc \in {"write", "replace", "answer"} => r.fault = "none" /\ (IntakeToken \/ r.via = "file")

\* Posts get on and the store is left alone.
LEMMA PostsStep ==
    ASSUME VI!IntakeAssumption, IntakeInv, UNCHANGED <<sent, verdictOf>>, vnow' \in Nat,
           post' \in [Agent -> [1 .. MaxPost -> VI!Request \cup {None}]],
           \A b \in Agent, j \in 1 .. MaxPost :
              IF post[b][j] = None THEN post'[b][j] = None
              ELSE post'[b][j] # None /\ GoesOn(post[b][j], post'[b][j])
    PROVE  IntakeInv'
<1>1. VI!IntakeTypeOK' BY DEF IntakeInv, VI!IntakeTypeOK
<1>3. ASSUME NEW b \in Agent, NEW j \in 1 .. MaxPost
      PROVE  /\ post'[b][j] # None <=> post[b][j] # None
             /\ post[b][j] # None =>
                   /\ post'[b][j].obs = post[b][j].obs /\ post'[b][j].via = post[b][j].via /\ post'[b][j].fault = post[b][j].fault
                   /\ post[b][j].abandoned => post'[b][j].abandoned
                   /\ post[b][j].answer # None => post'[b][j].answer # None
                   /\ post[b][j].answer = 202 \/ post[b][j].pc = "answer" =>
                         post'[b][j].answer = 202 \/ post'[b][j].pc = "answer" \/ post'[b][j].abandoned
                   /\ post'[b][j].answer = 202 \/ post'[b][j].pc = "answer" =>
                         post[b][j].answer = 202 \/ post[b][j].pc = "answer"
    BY DEF GoesOn
<1>4. ASSUME NEW b \in Agent PROVE InSequence(b)' /\ StoredPost(b)'
    <2>1. InSequence(b) /\ StoredPost(b) BY DEF IntakeInv
    <2>2. InSequence(b)'
        <3>1. sent[b] \in Nat /\ sent'[b] = sent[b] BY DEF IntakeInv, VI!IntakeTypeOK, VI!IntakeAssumption
        <3>2. \A j \in 1 .. MaxPost : post'[b][j] # None <=> j <= sent'[b] BY <2>1, <1>3, <3>1 DEF InSequence
        <3>3. ASSUME NEW j \in 1 .. MaxPost, NEW k \in 1 .. MaxPost, j < k, k <= sent'[b]
              PROVE  post'[b][j].obs <= post'[b][k].obs /\ (post'[b][j].answer # None \/ post'[b][j].abandoned)
            <4>1. j <= sent[b] /\ k <= sent[b] BY <3>1, <3>3 DEF VI!IntakeAssumption
            <4>2. post[b][j] # None /\ post[b][k] # None BY <4>1, <2>1 DEF InSequence
            <4>3. post[b][j].obs <= post[b][k].obs /\ (post[b][j].answer # None \/ post[b][j].abandoned)
                BY <4>1, <2>1, <3>3 DEF InSequence
            <4> QED BY <4>2, <4>3, <1>3
        <3> QED BY <3>2, <3>3 DEF InSequence
    <2> QED BY <2>1, <2>2 DEF StoredPost
<1>5. ASSUME NEW b \in Agent, NEW f, f = verdictOf[b], f # None
      PROVE  f.by[1] = b /\ f.by[2] \in 1 .. MaxPost /\ post[b][f.by[2]] # None /\ f.whole
    BY <1>5 DEF IntakeInv, StoredPost, InSequence
<1>6. VI!StoreSound'
    <2>1. ASSUME NEW b \in Agent, NEW f, f = verdictOf'[b], f # None
          PROVE  /\ f.whole /\ VI!Req(f.by)'.fault = "none" /\ (IntakeToken \/ VI!Req(f.by)'.via = "file")
                 /\ VI!Req(f.by)'.answer = 202 \/ VI!Req(f.by)'.pc = "answer" \/ VI!Req(f.by)'.abandoned
        <3>1. PICK j : j = f.by[2] OBVIOUS
        <3>2. /\ f = verdictOf[b] /\ f.by[1] = b /\ j \in 1 .. MaxPost /\ post[b][j] # None /\ f.whole
              /\ VI!Req(f.by) = post[b][j] /\ VI!Req(f.by)' = post'[b][j]
            BY <2>1, <1>5, <3>1 DEF VI!Req
        <3>3. /\ post[b][j].fault = "none" /\ (IntakeToken \/ post[b][j].via = "file")
              /\ post[b][j].answer = 202 \/ post[b][j].pc = "answer" \/ post[b][j].abandoned
            BY <2>1, <3>2 DEF IntakeInv, VI!StoreSound
        <3> QED BY <3>2, <3>3, <1>3
    <2> QED BY <2>1 DEF VI!StoreSound
<1>7. ASSUME NEW p \in VI!Posts, VI!Req(p)' # None PROVE PostSound(p)'
    <2>1. PICK b \in Agent, j \in 1 .. MaxPost : p = <<b, j>> BY DEF VI!Posts
    <2>2. VI!Req(p) = post[b][j] /\ VI!Req(p)' = post'[b][j] BY <2>1 DEF VI!Req
    <2>3. post[b][j] # None /\ PostSound(p) BY <2>2, <1>3, <1>7 DEF IntakeInv
    <2>4. VI!Req(p)'.pc = "answer" \/ VI!Req(p)'.answer = 202 => Covered(p)'
        <3>1. SUFFICES ASSUME VI!Req(p)'.pc = "answer" \/ VI!Req(p)'.answer = 202 PROVE Covered(p)'
            OBVIOUS
        <3>2. Covered(p) BY <2>2, <2>3, <3>1, <1>3 DEF PostSound
        <3>3. PICK f : f = verdictOf[b] OBVIOUS
        <3>4. f # None /\ (VI!Obs(f.by) >= VI!Obs(p) \/ VI!Req(f.by).abandoned) BY <3>2, <3>3, <2>1 DEF Covered
        <3>5. PICK k : k = f.by[2] OBVIOUS
        <3>6. f.by[1] = b /\ k \in 1 .. MaxPost /\ post[b][k] # None BY <3>3, <3>4, <3>5, <1>5
        <3>7. VI!Req(f.by) = post[b][k] /\ VI!Req(f.by)' = post'[b][k] BY <3>5, <3>6 DEF VI!Req
        <3>8. post[b][k].obs >= post[b][j].obs \/ post[b][k].abandoned BY <3>4, <3>7, <2>2 DEF VI!Obs
        <3>9. post'[b][k].obs >= post'[b][j].obs \/ post'[b][k].abandoned BY <3>8, <3>6, <2>3, <1>3
        <3>10. verdictOf'[p[1]] = f BY <2>1, <3>3
        <3> QED BY <3>4, <3>7, <3>9, <3>10, <2>2 DEF Covered, VI!Obs
    <2>5. GoesOn(post[b][j], post'[b][j]) BY <2>3
    <2> QED BY <2>2, <2>4, <2>5 DEF PostSound, GoesOn
<1> QED BY <1>1, <1>4, <1>6, <1>7 DEF IntakeInv

\* A post that stays as it is.
LEMMA StaysSound ==
    ASSUME VI!IntakeAssumption, IntakeInv, NEW a \in Agent, NEW i \in 1 .. MaxPost, post[a][i] # None
    PROVE  GoesOn(post[a][i], post[a][i])
<1> DEFINE x == VI!Req(<<a, i>>)
<1>1. x = post[a][i] /\ PostSound(<<a, i>>) BY PostFacts
<1>2. /\ x.answer # None => x.pc = "end"
      /\ x.pc \in {"write", "replace", "answer"} => x.fault = "none" /\ (IntakeToken \/ x.via = "file")
    BY <1>1 DEF PostSound
<1> HIDE DEF x
<1>3. GoesOn(x, x) BY <1>2 DEF GoesOn
<1> QED BY <1>1, <1>3

\* One post gets on to r.
LEMMA PostStep ==
    ASSUME VI!IntakeAssumption, IntakeInv, NEW p \in VI!Posts, VI!Req(p) # None,
           NEW r \in VI!Request, VI!With(p, r), UNCHANGED <<vnow, sent, verdictOf>>,
           GoesOn(VI!Req(p), r)
    PROVE  IntakeInv'
<1>0. PICK a \in Agent, i \in 1 .. MaxPost : p = <<a, i>> BY DEF VI!Posts
<1>1. VI!Req(p) = post[a][i] /\ post' = [post EXCEPT ![a][i] = r] BY <1>0 DEF VI!Req, VI!With
<1>2. /\ post' \in [Agent -> [1 .. MaxPost -> VI!Request \cup {None}]]
      /\ post'[a][i] = r
      /\ \A b \in Agent, j \in 1 .. MaxPost : b # a \/ j # i => post'[b][j] = post[b][j]
    <2>1. VI!IntakeTypeOK BY DEF IntakeInv
    <2> QED BY ZenonT(60), <1>1, <2>1, PostRow
<1>3. r # None BY DEF VI!IntakeAssumption
<1>4. ASSUME NEW b \in Agent, NEW j \in 1 .. MaxPost
      PROVE  IF post[b][j] = None THEN post'[b][j] = None
             ELSE post'[b][j] # None /\ GoesOn(post[b][j], post'[b][j])
    <2>1. CASE b = a /\ j = i BY <2>1, <1>1, <1>2, <1>3
    <2>2. CASE b # a \/ j # i BY <2>2, <1>2, StaysSound
    <2> QED BY <2>1, <2>2
<1>5. vnow' \in Nat BY DEF IntakeInv
<1> QED BY <1>2, <1>4, <1>5, PostsStep

\* What a step may rely on of the post it is about.
LEMMA ReqFacts ==
    ASSUME VI!IntakeAssumption, IntakeInv, NEW p \in VI!Posts, VI!Req(p) # None
    PROVE  VI!Req(p) \in VI!Request /\ PostSound(p)
<1>0. PICK a \in Agent, i \in 1 .. MaxPost : p = <<a, i>> BY DEF VI!Posts
<1> QED BY <1>0, PostFacts

\* do_POST(): nothing that fails a check gets on to be stored.
LEMMA ExamineKeeps == ASSUME VI!IntakeAssumption, IntakeInv, NEW p \in VI!Posts, VI!Examine(p) PROVE IntakeInv'
<1>0. VI!Req(p) # None /\ VI!Req(p).pc = "arrived" /\ UNCHANGED <<vnow, sent, verdictOf>> BY DEF VI!Examine
<1> DEFINE x == VI!Req(p)
<1>1. x \in VI!Request /\ x.answer = None /\ x.pc = "arrived" BY <1>0, ReqFacts DEF PostSound
<1>2. CASE VI!Refusal(x) # None
    <2>0. PICK n : n = VI!Refusal(x) OBVIOUS
    <2>1. n \in {400, 401, 404, 413, 503}
        BY <1>2, <2>0 DEF VI!Refusal
    <2> DEFINE r == [x EXCEPT !.pc = "end", !.answer = n]
    <2>2. /\ r \in VI!Request /\ r.pc = "end" /\ r.answer = n /\ r.obs = x.obs /\ r.via = x.via
          /\ r.fault = x.fault /\ r.abandoned = x.abandoned
        <3>1. n \in VI!Answers \cup {None} BY <2>1 DEF VI!Answers
        <3>2. x \in VI!Request BY <1>1
        <3> HIDE DEF x
        <3> QED BY Zenon, <3>1, <3>2 DEF VI!Request
    <2>3. VI!With(p, r) BY <1>2, <2>0 DEF VI!Examine
    <2> HIDE DEF r, x
    <2>4. GoesOn(x, r) BY <1>1, <2>1, <2>2 DEF GoesOn, VI!IntakeAssumption
    <2> QED BY <1>0, <2>2, <2>3, <2>4, PostStep DEF x
<1>3. CASE VI!Refusal(x) = None
    <2> DEFINE r == [x EXCEPT !.pc = "write"]
    <2>1. x.fault = "none" /\ IntakeToken
        BY <1>1, <1>3 DEF VI!Refusal, VI!Request, VI!Fault, VI!IntakeAssumption
    <2>2. /\ r \in VI!Request /\ r.pc = "write" /\ r.answer = x.answer /\ r.obs = x.obs /\ r.via = x.via
          /\ r.fault = x.fault /\ r.abandoned = x.abandoned
        BY <1>1 DEF VI!Request
    <2>3. VI!With(p, r) BY <1>3 DEF VI!Examine
    <2> HIDE DEF r, x
    <2>4. GoesOn(x, r) BY <1>1, <2>1, <2>2 DEF GoesOn, VI!IntakeAssumption
    <2> QED BY <1>0, <2>2, <2>3, <2>4, PostStep DEF x
<1> QED BY <1>2, <1>3

\* The temporary file is written, or the storage fails, or the answer is given.
LEMMA StoreStepKeeps ==
    ASSUME VI!IntakeAssumption, IntakeInv, NEW p \in VI!Posts,
           VI!WriteTemp(p) \/ VI!StoreFails(p) \/ VI!Accept(p)
    PROVE  IntakeInv'
<1>0. VI!Req(p) # None /\ UNCHANGED <<vnow, sent, verdictOf>> BY DEF VI!WriteTemp, VI!StoreFails, VI!Accept
<1> DEFINE x == VI!Req(p)
<1>1. x \in VI!Request /\ PostSound(p) BY <1>0, ReqFacts
<1>2. CASE VI!WriteTemp(p)
    <2> DEFINE r == [x EXCEPT !.pc = "replace"]
    <2>1. /\ r \in VI!Request /\ r.pc = "replace" /\ r.answer = x.answer /\ r.obs = x.obs /\ r.via = x.via
          /\ r.fault = x.fault /\ r.abandoned = x.abandoned
        BY <1>1 DEF VI!Request
    <2>2. VI!With(p, r) /\ x.pc = "write" BY <1>2 DEF VI!WriteTemp
    <2> HIDE DEF r
    <2>3. GoesOn(x, r) BY <1>1, <2>1, <2>2 DEF GoesOn, PostSound
    <2> QED BY <1>0, <2>1, <2>2, <2>3, PostStep
<1>3. CASE VI!StoreFails(p)
    <2> DEFINE r == [x EXCEPT !.pc = "end", !.answer = 500]
    <2>0. 500 \in VI!Answers BY DEF VI!Answers
    <2>1. /\ r \in VI!Request /\ r.pc = "end" /\ r.answer = 500 /\ r.obs = x.obs /\ r.via = x.via
          /\ r.fault = x.fault /\ r.abandoned = x.abandoned
        BY ZenonT(60), <1>1, <2>0 DEF VI!Request
    <2>2. VI!With(p, r) /\ x.pc \in {"write", "replace"} BY <1>3 DEF VI!StoreFails
    <2> HIDE DEF r
    <2>3. GoesOn(x, r) BY <1>1, <2>1, <2>2 DEF GoesOn, PostSound, VI!IntakeAssumption
    <2> QED BY <1>0, <2>1, <2>2, <2>3, PostStep
<1>4. CASE VI!Accept(p)
    <2> DEFINE r == [x EXCEPT !.pc = "end", !.answer = 202]
    <2>0. 202 \in VI!Answers BY DEF VI!Answers
    <2>1. /\ r \in VI!Request /\ r.pc = "end" /\ r.answer = 202 /\ r.obs = x.obs /\ r.via = x.via
          /\ r.fault = x.fault /\ r.abandoned = x.abandoned
        BY Zenon, <1>1, <2>0 DEF VI!Request
    <2>2. VI!With(p, r) /\ x.pc = "answer" BY <1>4 DEF VI!Accept
    <2> HIDE DEF r
    <2>3. GoesOn(x, r) BY <1>1, <2>1, <2>2 DEF GoesOn, PostSound, VI!IntakeAssumption
    <2> QED BY <1>0, <2>1, <2>2, <2>3, PostStep
<1> QED BY <1>2, <1>3, <1>4

\* A post times out, or the agent dies at its own write.
LEMMA GiveUpKeeps == ASSUME VI!IntakeAssumption, IntakeInv, NEW a \in Agent, VI!GiveUp(a) PROVE IntakeInv'
<1>0. UNCHANGED <<vnow, sent, verdictOf>> BY DEF VI!GiveUp
<1>1. PICK p : p = <<a, sent[a]>> BY Zenon
<1>2. p \in VI!Posts /\ VI!Req(p) # None /\ VI!Req(p).answer = None
    <2>1. sent[a] \in 1 .. MaxPost /\ post[a][sent[a]].answer = None
        BY DEF VI!GiveUp, VI!Waits, IntakeInv, VI!IntakeTypeOK, VI!IntakeAssumption
    <2>2. sent[a] <= sent[a] BY <2>1
    <2>3. post[a][sent[a]] # None BY <2>1, <2>2 DEF IntakeInv, InSequence
    <2> QED BY <1>1, <2>1, <2>3 DEF VI!Posts, VI!Req
<1> DEFINE x == VI!Req(p)
           r == [x EXCEPT !.abandoned = TRUE, !.pc = IF x.via = "file" THEN "end" ELSE @]
<1>3. x \in VI!Request /\ PostSound(p) BY <1>2, ReqFacts
<1>4. /\ r \in VI!Request /\ r.pc = (IF x.via = "file" THEN "end" ELSE x.pc) /\ r.answer = x.answer /\ r.obs = x.obs
      /\ r.via = x.via /\ r.fault = x.fault /\ r.abandoned
    BY Zenon, <1>3 DEF VI!Request
<1>5. VI!With(p, r) BY <1>1 DEF VI!GiveUp
<1> HIDE DEF r
<1>6. GoesOn(x, r) BY <1>2, <1>3, <1>4 DEF GoesOn, PostSound, VI!IntakeAssumption
<1> QED BY <1>0, <1>2, <1>4, <1>5, <1>6, PostStep

\* The scorer dies: what it had in hand is never answered.
LEMMA ScorerDiesKeeps == ASSUME VI!IntakeAssumption, IntakeInv, VI!ScorerDies PROVE IntakeInv'
<1> DEFINE E(a, i) == IF post[a][i] # None /\ post[a][i].via = "http" /\ post[a][i].pc # "end"
                      THEN [post[a][i] EXCEPT !.pc = "end", !.abandoned = TRUE] ELSE post[a][i]
<1>1. post' = [a \in Agent |-> [i \in 1 .. MaxPost |-> E(a, i)]] BY Zenon DEF VI!ScorerDies
<1>2. ASSUME NEW a \in Agent, NEW i \in 1 .. MaxPost
      PROVE  /\ E(a, i) \in VI!Request \cup {None}
             /\ IF post[a][i] = None THEN E(a, i) = None ELSE E(a, i) # None /\ GoesOn(post[a][i], E(a, i))
    <2>1. post[a][i] \in VI!Request \cup {None} BY Zenon DEF IntakeInv, VI!IntakeTypeOK
    <2>2. CASE post[a][i] = None BY <2>2
    <2>3. CASE post[a][i] # None /\ E(a, i) = post[a][i] BY <2>1, <2>3, StaysSound
    <2>4. CASE post[a][i] # None /\ post[a][i].via = "http" /\ post[a][i].pc # "end"
        <3> DEFINE x == post[a][i]
                   r == [x EXCEPT !.pc = "end", !.abandoned = TRUE]
        <3>1. x \in VI!Request BY <2>1, <2>4
        <3>2. /\ r \in VI!Request /\ r.pc = "end" /\ r.answer = x.answer /\ r.obs = x.obs
              /\ r.via = x.via /\ r.fault = x.fault /\ r.abandoned
            BY Zenon, <3>1 DEF VI!Request
        <3>3. E(a, i) = r BY <2>4
        <3>4. GoesOn(x, x) BY <2>4, StaysSound
        <3> HIDE DEF r, x, E
        <3>5. r # None BY <3>2 DEF VI!IntakeAssumption
        <3>6. GoesOn(x, r) BY <3>2, <3>4 DEF GoesOn
        <3> QED BY <2>4, <3>2, <3>3, <3>5, <3>6 DEF x
    <2> QED BY <2>2, <2>3, <2>4
<1> HIDE DEF E
<1>3. post' \in [Agent -> [1 .. MaxPost -> VI!Request \cup {None}]] BY <1>1, <1>2
<1>4. \A a \in Agent, i \in 1 .. MaxPost : post'[a][i] = E(a, i) BY <1>1
<1>5. UNCHANGED <<sent, verdictOf>> /\ vnow' \in Nat BY Zenon DEF VI!ScorerDies, IntakeInv
<1> QED BY <1>2, <1>3, <1>4, <1>5, PostsStep

\* The clock.
LEMMA PassKeeps == ASSUME VI!IntakeAssumption, IntakeInv, VI!Pass PROVE IntakeInv'
<1>1. UNCHANGED <<post, sent, verdictOf>> /\ vnow' \in Nat BY DEF VI!Pass, IntakeInv
<1>2. post \in [Agent -> [1 .. MaxPost -> VI!Request \cup {None}]] BY DEF IntakeInv, VI!IntakeTypeOK
<1> QED BY <1>1, <1>2, StaysSound, PostsStep

\* A new post is of no earlier observation than the last, which has its answer or
\* was given up.
LEMMA PublishKeeps ==
    ASSUME VI!IntakeAssumption, IntakeInv, NEW a \in Agent, NEW via, NEW fault, NEW pc,
           VI!Publish(a, via, fault, pc),
           \/ via = "http" /\ fault \in VI!Fault /\ pc = "arrived"
           \/ via = "file" /\ fault = "none" /\ pc = "write"
    PROVE  IntakeInv'
<1>0. /\ sent[a] \in Nat /\ sent[a] < MaxPost /\ ~VI!Waits(a) /\ sent' = [sent EXCEPT ![a] = @ + 1]
      /\ UNCHANGED <<vnow, verdictOf>> /\ vnow \in Nat /\ MaxPost \in Nat
    BY DEF VI!Publish, IntakeInv, VI!IntakeTypeOK, VI!IntakeAssumption
<1>1. PICK obs \in 0 .. vnow :
          /\ sent[a] > 0 => obs >= post[a][sent[a]].obs
          /\ post' = [post EXCEPT ![a][sent[a] + 1] =
                 [obs |-> obs, via |-> via, fault |-> fault, pc |-> pc, answer |-> None, abandoned |-> FALSE]]
    BY Zenon DEF VI!Publish
<1> DEFINE r == [obs |-> obs, via |-> via, fault |-> fault, pc |-> pc, answer |-> None, abandoned |-> FALSE]
<1>2. PICK k \in 1 .. MaxPost : k = sent[a] + 1 BY <1>0
<1>3. /\ r \in VI!Request /\ r.obs = obs /\ r.answer = None /\ r.pc \in {"arrived", "write"}
      /\ r.pc = "write" => r.fault = "none" /\ r.via = "file"
    BY <1>0, <1>1 DEF VI!Request, VI!Fault
<1>4. post' = [post EXCEPT ![a][k] = r] BY <1>1, <1>2
<1> HIDE DEF r
<1>5. /\ post' \in [Agent -> [1 .. MaxPost -> VI!Request \cup {None}]]
      /\ post'[a][k] = r
      /\ \A b \in Agent, j \in 1 .. MaxPost : b # a \/ j # k => post'[b][j] = post[b][j]
    <2>1. VI!IntakeTypeOK BY DEF IntakeInv
    <2> QED BY Zenon, <1>3, <1>4, <2>1, PostRow
<1>6. sent' \in [Agent -> 0 .. MaxPost] /\ sent'[a] = k /\ \A b \in Agent : b # a => sent'[b] = sent[b]
    BY <1>0, <1>2 DEF IntakeInv, VI!IntakeTypeOK
<1>7. VI!IntakeTypeOK' BY <1>0, <1>5, <1>6 DEF IntakeInv, VI!IntakeTypeOK
<1>8. \A b \in Agent, j \in 1 .. MaxPost : j <= sent[b] => post'[b][j] = post[b][j]
    BY <1>0, <1>2, <1>5
<1>9. InSequence(a)'
    <2>1. InSequence(a) BY DEF IntakeInv
    <2>2. r # None BY <1>3 DEF VI!IntakeAssumption
    <2>3. \A j \in 1 .. MaxPost : post'[a][j] # None <=> j <= k
        BY <2>1, <2>2, <1>0, <1>2, <1>5 DEF InSequence
    <2>4. ASSUME NEW i \in 1 .. MaxPost, NEW j \in 1 .. MaxPost, i < j, j <= k
          PROVE  post'[a][i].obs <= post'[a][j].obs /\ (post'[a][i].answer # None \/ post'[a][i].abandoned)
        <3>0. i \in Nat /\ j \in Nat /\ k \in Nat /\ i <= sent[a] /\ post'[a][i] = post[a][i]
            BY <2>4, <1>0, <1>2, <1>8
        <3>1. CASE j <= sent[a]
            BY <3>0, <3>1, <2>1, <2>4, <1>8 DEF InSequence
        <3>2. CASE j = k
            <4>1. sent[a] \in 1 .. MaxPost /\ sent[a] > 0 BY <3>0, <1>0, <2>4
            <4>2. obs >= post[a][sent[a]].obs BY <4>1, <1>1
            <4>3. post[a][i] # None /\ post[a][sent[a]] # None BY <3>0, <4>1, <2>1 DEF InSequence
            <4>4. post[a][i].obs \in Nat /\ post[a][sent[a]].obs \in Nat /\ obs \in Nat
                <5>1. post[a][i] \in VI!Request /\ post[a][sent[a]] \in VI!Request BY Zenon, <4>1, <4>3, PostFacts
                <5> QED BY <5>1, <1>0 DEF VI!Request
            <4>5. CASE i = sent[a]
                <5>1. post[a][i].answer # None \/ post[a][i].abandoned BY <4>5, <4>1, <1>0 DEF VI!Waits
                <5> QED BY <5>1, <4>2, <4>4, <4>5, <3>0, <3>2, <1>3, <1>5
            <4>6. CASE i < sent[a]
                <5>1. post[a][i].obs <= post[a][sent[a]].obs /\ (post[a][i].answer # None \/ post[a][i].abandoned)
                    BY <4>6, <4>1, <2>1, <1>0 DEF InSequence
                <5> QED BY <5>1, <4>2, <4>4, <3>0, <3>2, <1>3, <1>5
            <4> QED BY <4>5, <4>6, <3>0, <1>0
        <3> QED BY <3>1, <3>2, <3>0, <2>4, <1>0, <1>2
    <2> QED BY <2>3, <2>4, <1>6 DEF InSequence
<1>10. ASSUME NEW b \in Agent PROVE InSequence(b)' /\ StoredPost(b)'
    <2>1. StoredPost(b)'
        <3>1. StoredPost(b) /\ sent[b] \in Nat BY DEF IntakeInv, VI!IntakeTypeOK
        <3>2. sent'[b] \in Nat /\ sent[b] <= sent'[b] BY <3>1, <1>0, <1>2, <1>6
        <3> QED BY <3>1, <3>2, <1>0 DEF StoredPost
    <2>2. CASE b = a BY <2>1, <2>2, <1>9
    <2>3. CASE b # a
        <3>1. InSequence(b) BY DEF IntakeInv
        <3>2. \A j \in 1 .. MaxPost : post'[b][j] = post[b][j] BY <2>3, <1>5
        <3> QED BY <2>1, <2>3, <3>1, <3>2, <1>6 DEF InSequence
    <2> QED BY <2>2, <2>3
<1>11. ASSUME NEW b \in Agent, verdictOf[b] # None
       PROVE  /\ verdictOf'[b] = verdictOf[b] /\ verdictOf[b].by[1] = b
              /\ VI!Req(verdictOf[b].by)' = VI!Req(verdictOf[b].by)
    <2>1. StoredPost(b) BY DEF IntakeInv
    <2> QED BY <2>1, <1>0, <1>8, <1>11 DEF StoredPost, VI!Req
<1>12. VI!StoreSound'
    BY <1>0, <1>11 DEF IntakeInv, VI!StoreSound
<1>13. ASSUME NEW p \in VI!Posts, VI!Req(p)' # None PROVE PostSound(p)'
    <2>1. PICK b \in Agent, j \in 1 .. MaxPost : p = <<b, j>> BY DEF VI!Posts
    <2>2. VI!Req(p) = post[b][j] /\ VI!Req(p)' = post'[b][j] BY <2>1 DEF VI!Req
    <2>3. CASE b = a /\ j = k
        BY <2>2, <2>3, <1>3, <1>5 DEF PostSound, VI!IntakeAssumption
    <2>4. CASE b # a \/ j # k
        <3>1. VI!Req(p)' = VI!Req(p) BY <2>2, <2>4, <1>5
        <3>2. PostSound(p) BY <3>1, <1>13 DEF IntakeInv
        <3>3. Covered(p) => Covered(p)' BY <3>1, <2>1, <1>0, <1>11 DEF Covered, VI!Obs
        <3> QED BY <3>1, <3>2, <3>3 DEF PostSound
    <2> QED BY <2>3, <2>4
<1> QED BY <1>0, <1>7, <1>10, <1>12, <1>13 DEF IntakeInv

\* persist_verdict(): what the file replaces is of an older post, or the one that
\* comes late had been given up.
LEMMA ReplaceKeeps == ASSUME VI!IntakeAssumption, IntakeInv, NEW p \in VI!Posts, VI!ReplaceFile(p) PROVE IntakeInv'
<1>0. PICK a \in Agent, i \in 1 .. MaxPost : p = <<a, i>> BY DEF VI!Posts
<1> DEFINE x == VI!Req(p)
           r == [x EXCEPT !.pc = "answer"]
           v == [by |-> p, whole |-> TRUE]
<1>1. x # None /\ x.pc = "replace" /\ UNCHANGED <<vnow, sent>> /\ x = post[a][i]
    BY <1>0 DEF VI!ReplaceFile, VI!Req
<1>2. x \in VI!Request /\ PostSound(p) BY <1>1, ReqFacts
<1>3. /\ r \in VI!Request /\ r.pc = "answer" /\ r.answer = x.answer /\ r.obs = x.obs /\ r.via = x.via
      /\ r.fault = x.fault /\ r.abandoned = x.abandoned
    BY <1>2 DEF VI!Request
<1>4. x.answer = None /\ x.fault = "none" /\ (IntakeToken \/ x.via = "file") BY <1>1, <1>2 DEF PostSound
<1>5. v \in VI!Verdict /\ v.by = p /\ v.whole BY DEF VI!Verdict
<1>6. verdictOf' = [verdictOf EXCEPT ![a] = v] /\ post' = [post EXCEPT ![a][i] = r]
    BY <1>0 DEF VI!ReplaceFile, VI!With
<1>7. r # None /\ v # None BY Zenon, <1>3, <1>5 DEF VI!IntakeAssumption
<1> HIDE DEF x, r, v
<1>8. /\ post' \in [Agent -> [1 .. MaxPost -> VI!Request \cup {None}]]
      /\ post'[a][i] = r
      /\ \A b \in Agent, j \in 1 .. MaxPost : b # a \/ j # i => post'[b][j] = post[b][j]
    <2>1. VI!IntakeTypeOK BY DEF IntakeInv
    <2> QED BY Zenon, <1>3, <1>6, <2>1, PostRow
<1>9. verdictOf' \in [Agent -> VI!Verdict \cup {None}] /\ verdictOf'[a] = v
      /\ \A b \in Agent : b # a => verdictOf'[b] = verdictOf[b]
    BY <1>5, <1>6 DEF IntakeInv, VI!IntakeTypeOK
<1>10. VI!IntakeTypeOK' BY <1>1, <1>8, <1>9 DEF IntakeInv, VI!IntakeTypeOK
<1>11. sent[a] \in Nat /\ MaxPost \in Nat /\ i <= sent[a] /\ i \in Nat
    BY Zenon, <1>1, PostFacts DEF IntakeInv, InSequence
<1>12. ASSUME NEW b \in Agent, NEW j \in 1 .. MaxPost
       PROVE  /\ post'[b][j] # None <=> post[b][j] # None
              /\ post'[b][j].obs = post[b][j].obs /\ post'[b][j].answer = post[b][j].answer
              /\ post'[b][j].abandoned = post[b][j].abandoned
              /\ b # a \/ j # i => post'[b][j] = post[b][j]
    <2>1. CASE b = a /\ j = i BY <2>1, <1>1, <1>3, <1>7, <1>8
    <2>2. CASE b # a \/ j # i BY <2>2, <1>8
    <2> QED BY <2>1, <2>2
<1>13. ASSUME NEW b \in Agent PROVE InSequence(b)' /\ StoredPost(b)'
    <2>1. InSequence(b) /\ StoredPost(b) BY DEF IntakeInv
    <2>2. InSequence(b)' BY <2>1, <1>1, <1>12 DEF InSequence
    <2>3. CASE b = a
        <3>1. v.by[1] = a /\ v.by[2] = i BY <1>0, <1>5
        <3> QED BY <3>1, <2>2, <2>3, <1>1, <1>5, <1>9, <1>11 DEF StoredPost
    <2>4. CASE b # a BY <2>1, <2>2, <2>4, <1>1, <1>9 DEF StoredPost
    <2> QED BY <2>3, <2>4
<1>14. ASSUME NEW b \in Agent, b # a, verdictOf[b] # None
       PROVE  VI!Req(verdictOf[b].by)' = VI!Req(verdictOf[b].by)
    <2>1. StoredPost(b) BY DEF IntakeInv
    <2>2. PICK f : f = verdictOf[b].by OBVIOUS
    <2>3. f[1] = b /\ f[2] \in 1 .. MaxPost BY <2>1, <2>2, <1>14 DEF StoredPost
    <2>4. post'[b][f[2]] = post[b][f[2]] BY <2>3, <1>14, <1>8
    <2>5. VI!Req(f) = post[f[1]][f[2]] /\ VI!Req(f)' = post'[f[1]][f[2]] BY DEF VI!Req
    <2>6. VI!Req(f)' = VI!Req(f) BY <2>3, <2>4, <2>5
    <2>7. VI!Req(verdictOf[b].by)' = post'[verdictOf'[b].by[1]][verdictOf'[b].by[2]] BY DEF VI!Req
    <2>8. verdictOf'[b] = verdictOf[b] BY <1>14, <1>9
    <2> QED BY <2>2, <2>5, <2>6, <2>7, <2>8
<1>15. VI!StoreSound'
    <2>1. ASSUME NEW b \in Agent, NEW f, f = verdictOf'[b], f # None
          PROVE  /\ f.whole /\ VI!Req(f.by)'.fault = "none" /\ (IntakeToken \/ VI!Req(f.by)'.via = "file")
                 /\ VI!Req(f.by)'.answer = 202 \/ VI!Req(f.by)'.pc = "answer" \/ VI!Req(f.by)'.abandoned
        <3>1. CASE b = a
            <4>1. f = v /\ VI!Req(f.by)' = r BY <2>1, <3>1, <1>0, <1>5, <1>8, <1>9 DEF VI!Req
            <4> QED BY <4>1, <1>3, <1>4, <1>5
        <3>2. CASE b # a
            <4>1. f = verdictOf[b] /\ VI!Req(f.by)' = VI!Req(f.by) BY <2>1, <3>2, <1>9, <1>14
            <4>2. f = verdictOf[b] /\ f # None /\ VI!StoreSound BY <4>1, <2>1 DEF IntakeInv
            <4> QED BY <4>1, <4>2 DEF VI!StoreSound
        <3> QED BY <3>1, <3>2
    <2> QED BY <2>1 DEF VI!StoreSound
<1>16. ASSUME NEW q \in VI!Posts, VI!Req(q)' # None PROVE PostSound(q)'
    <2>1. PICK b \in Agent, j \in 1 .. MaxPost : q = <<b, j>> BY DEF VI!Posts
    <2>2. VI!Req(q) = post[b][j] /\ VI!Req(q)' = post'[b][j] BY <2>1 DEF VI!Req
    <2>3. post[b][j] # None /\ PostSound(q) BY <2>2, <1>12, <1>16 DEF IntakeInv
    <2>4. CASE b # a
        <3>1. VI!Req(q)' = VI!Req(q) BY <2>2, <2>4, <1>8
        <3>2. Covered(q) => Covered(q)' BY <3>1, <2>1, <2>4, <1>9, <1>14 DEF Covered, VI!Obs
        <3> QED BY <2>3, <3>1, <3>2 DEF PostSound
    <2>5. CASE b = a
        <3>1. VI!Req(v.by)' = r /\ verdictOf'[q[1]] = v BY <2>1, <2>5, <1>0, <1>5, <1>8, <1>9 DEF VI!Req
        <3>2. r.obs \in Nat /\ post[a][j].obs \in Nat /\ j \in Nat /\ j <= sent[a]
            <4>1. post[a][j] \in VI!Request /\ j \in Nat BY Zenon, <2>3, <2>5, PostFacts
            <4>2. j <= sent[a] BY <2>3, <2>5 DEF IntakeInv, InSequence
            <4> QED BY <4>1, <4>2, <1>3 DEF VI!Request
        <3>3. r.obs >= post[a][j].obs \/ r.abandoned
            <4>1. CASE j = i BY <4>1, <3>2, <1>1, <1>3
            <4>2. CASE j < i
                <5>1. post[a][j].obs <= post[a][i].obs BY <4>2, <1>11 DEF IntakeInv, InSequence
                <5> QED BY <5>1, <3>2, <1>1, <1>3
            <4>3. CASE i < j
                <5>1. post[a][i].answer # None \/ post[a][i].abandoned BY <4>3, <3>2 DEF IntakeInv, InSequence
                <5> QED BY <5>1, <1>1, <1>3, <1>4
            <4> QED BY <4>1, <4>2, <4>3, <3>2, <1>11
        <3>4. VI!Req(q)'.obs = post[a][j].obs BY <2>2, <2>5, <1>12
        <3>5. Covered(q)' BY <3>1, <3>3, <3>4, <1>7 DEF Covered, VI!Obs
        <3>6. CASE j = i BY <3>5, <3>6, <2>2, <2>5, <1>3, <1>4, <1>8 DEF PostSound
        <3>7. CASE j # i
            <4>1. VI!Req(q)' = VI!Req(q) BY <2>2, <3>7, <1>8
            <4> QED BY <4>1, <3>5, <2>3 DEF PostSound
        <3> QED BY <3>6, <3>7
    <2> QED BY <2>4, <2>5
<1> QED BY <1>1, <1>10, <1>13, <1>15, <1>16 DEF IntakeInv

LEMMA IntakeNextKeeps == ASSUME VI!IntakeAssumption, IntakeInv, [VI!IntakeNext]_VI!ivars PROVE IntakeInv'
<1>1. ASSUME NEW a \in Agent, VI!Post(a) \/ VI!WriteBadServer(a) PROVE IntakeInv'
    <2>1. CASE VI!Post(a) BY <2>1, PublishKeeps DEF VI!Post
    <2>2. CASE VI!WriteBadServer(a) BY <2>2, PublishKeeps DEF VI!WriteBadServer
    <2> QED BY <1>1, <2>1, <2>2
<1>2. CASE UNCHANGED VI!ivars
    <2>1. UNCHANGED <<post, sent, verdictOf, vnow>> BY <1>2 DEF VI!ivars
    <2>2. post \in [Agent -> [1 .. MaxPost -> VI!Request \cup {None}]] /\ vnow \in Nat BY DEF IntakeInv, VI!IntakeTypeOK
    <2> QED BY <2>1, <2>2, StaysSound, PostsStep
<1> QED
    BY <1>1, <1>2, GiveUpKeeps, ExamineKeeps, StoreStepKeeps, ReplaceKeeps, ScorerDiesKeeps, PassKeeps DEF VI!IntakeNext

LEMMA IntakeTells == ASSUME VI!IntakeAssumption, IntakeInv PROVE VI!IntakeKeeps
<1>1. ASSUME NEW p \in VI!Posts, VI!Req(p) # None, VI!Req(p).answer = 202 PROVE Covered(p)
    BY <1>1 DEF IntakeInv, PostSound
<1> QED BY <1>1 DEF IntakeInv, VI!IntakeKeeps, VI!AcceptedKept, Covered

\* For any number of agents, posts and crashes: an accepted verdict stays until a newer
\* one takes its place, and what is stored is whole and passed every check
\* (vpn_picker.py, do_POST(), persist_verdict(); agent.py, _post_bad_server()).
THEOREM IntakeIsSound == ASSUME VI!IntakeAssumption PROVE VI!IntakeSpec => []VI!IntakeKeeps
<1>1. VI!IntakeInit => IntakeInv BY IntakeInitOK
<1>2. IntakeInv /\ [VI!IntakeNext]_VI!ivars => IntakeInv' BY IntakeNextKeeps
<1>3. IntakeInv => VI!IntakeKeeps BY IntakeTells
<1> QED BY <1>1, <1>2, <1>3, PTL DEF VI!IntakeSpec

-----------------------------------------------------------------------------
(* NotionGrant: the requests exclude each other, so under the lock only a  *)
(* bootstrap run changes the Secret, and it writes a newer consent.  What  *)
(* a refresh starts from is either the last rotation or the one before it. *)

Issue == [at : Nat, consent : 1 .. MaxConsent]
Unsaved == [base : NG!Pair, pair : NG!Pair]
GrantRec == [token : NG!MaybePair, rejected : NG!MaybePair, unsaved : Unsaved \cup {None}, flush : Nat]
Locked == {"flush", "flushwrite", "check", "read", "post", "save"}
Request == [pc : Locked \cup {"idle", "cred", "send", "refused"}, retry : BOOLEAN,
            tok : NG!MaybePair, held : NG!MaybePair, first : NG!MaybePair]

\* The consent of a pair, and the pairs there are
ConsentOf(p) == issued[p].consent
Issued == 1 .. Len(issued)

GrantTypes ==
    /\ time \in 0 .. MaxGrantTime /\ issued \in Seq(Issue) /\ Len(issued) <= MaxPair
    /\ valid \in [1 .. MaxConsent -> SUBSET NG!Pair] /\ revoked \subseteq NG!Pair
    /\ secret \in Issued \cup {None} /\ boot \in Issued \cup {None}
    /\ grant \in GrantRec /\ req \in [Requester -> Request]
    /\ \A r \in Requester : (holder = r) <=> req[r].pc \in Locked

\* Notion takes a refresh token for its own consent only
ValidOwn == \A c \in 1 .. MaxConsent : \A p \in valid[c] : p \in Issued /\ ConsentOf(p) = c

\* Until it is written, nobody has seen the pair of a bootstrap run, whose consent
\* is the newest
BootUnseen ==
    boot # None =>
        /\ valid[ConsentOf(boot)] = {boot} /\ secret # boot
        /\ \A p \in Issued \ {boot} : ConsentOf(p) < ConsentOf(boot)
        /\ grant.unsaved # None => grant.unsaved.base # boot

\* A rotation that was not saved is a later one of the pair that it replaces
UnsavedLater ==
    grant.unsaved # None =>
        LET b == grant.unsaved.base
            p == grant.unsaved.pair
        IN  b \in Issued /\ p \in Issued /\ b < p /\ ConsentOf(b) = ConsentOf(p)

\* What a request inside the lock relies on: of the Secret it read only a newer
\* consent can have taken the place
Relies(r) ==
    /\ req[r].pc = "flush" => grant.unsaved # None
    /\ req[r].pc \in {"flushwrite", "save"} => grant.unsaved # None /\ req[r].held = grant.unsaved.base
    /\ req[r].pc = "post" =>
          /\ req[r].held \in Issued /\ req[r].held # boot
          /\ grant.unsaved # None => grant.unsaved.base = req[r].held
          /\ req[r].tok = NG!Newest(req[r].held, grant.unsaved)
          /\ secret # None /\ (secret = req[r].held \/ ConsentOf(req[r].held) < ConsentOf(secret))

GrantInv ==
    /\ GrantTypes /\ ValidOwn /\ BootUnseen /\ UnsavedLater
    /\ \A r \in Requester : Relies(r)
    /\ NG!RefreshTokenUsable

LEMMA ConsentTypes == ASSUME GrantTypes, NEW p \in Issued PROVE ConsentOf(p) \in 1 .. MaxConsent /\ ConsentOf(p) \in Int
<1>1. issued[p] \in Issue BY DEF GrantTypes, Issued
<1> QED BY <1>1 DEF ConsentOf, Issue

LEMMA GrantInitOK == ASSUME NG!GrantAssumption, NG!GrantInit PROVE GrantInv
<1>1. GrantTypes
    BY DEF NG!GrantAssumption, NG!GrantInit, GrantTypes, NG!Fresh0, NG!Idle, GrantRec, Request, Locked, NG!MaybePair, Issue
<1>2. ValidOwn /\ BootUnseen /\ UnsavedLater
    BY DEF NG!GrantInit, ValidOwn, BootUnseen, UnsavedLater, NG!Fresh0
<1>3. \A r \in Requester : Relies(r)
    BY DEF NG!GrantInit, Relies, NG!Idle
<1>4. NG!RefreshTokenUsable
    BY DEF NG!GrantInit, NG!RefreshTokenUsable, NG!Newest, NG!Fresh0
<1> QED BY <1>1, <1>2, <1>3, <1>4 DEF GrantInv

\* A step of one request that writes nothing; it may forget a rotation that was
\* overtaken.
LEMMA QuietGrantKeeps ==
    ASSUME NG!GrantAssumption, GrantInv, NEW r \in Requester, UNCHANGED <<NG!world, secret>>,
           NEW x \in Request, req' = [req EXCEPT ![r] = x], grant' \in GrantRec,
           \/ grant'.unsaved = grant.unsaved
           \/ holder = r /\ grant'.unsaved = None /\ grant.unsaved.base # secret,
           \/ holder = r /\ holder' \in {r, None}
           \/ holder = None /\ holder' \in {r, None}
           \/ holder # r /\ holder' = holder,
           holder' = r <=> x.pc \in Locked,
           Relies(r)'
    PROVE  GrantInv'
<1>1. UNCHANGED <<time, issued, valid, revoked, boot, restarts, rotationLost, secret>>
    BY DEF NG!world
<1>2. req' \in [Requester -> Request] /\ req'[r] = x /\ \A q \in Requester \ {r} : req'[q] = req[q]
    BY DEF GrantInv, GrantTypes
<1>3. \A q \in Requester \ {r} : holder' = q <=> holder = q
    BY DEF NG!GrantAssumption
<1>4. GrantTypes'
    BY <1>1, <1>2, <1>3 DEF GrantInv, GrantTypes, Issued
<1>5. ValidOwn' /\ BootUnseen' /\ UnsavedLater'
    BY <1>1 DEF GrantInv, ValidOwn, BootUnseen, UnsavedLater, Issued, ConsentOf
<1>6. NG!RefreshTokenUsable'
    BY <1>1 DEF GrantInv, NG!RefreshTokenUsable, NG!Newest
<1>7. ASSUME NEW q \in Requester \ {r} PROVE Relies(q)'
    <2>1. CASE grant'.unsaved = grant.unsaved
        BY <1>1, <1>2, <2>1 DEF GrantInv, Relies, Issued, ConsentOf, NG!Newest
    <2>2. CASE holder = r
        <3>1. req[q].pc \notin Locked BY <2>2 DEF GrantInv, GrantTypes
        <3> QED BY <1>2, <3>1 DEF Relies, Locked
    <2> QED BY <2>1, <2>2
<1> QED BY <1>4, <1>5, <1>6, <1>7 DEF GrantInv

LEMMA OutsideKeeps ==
    ASSUME NG!GrantAssumption, GrantInv, NEW r \in Requester, NG!Begin(r) \/ NG!Forward(r)
    PROVE  GrantInv'
<1> PICK y \in Request : y = req[r] BY DEF GrantInv, GrantTypes
<1>1. /\ UNCHANGED <<NG!world, secret, grant, holder>> /\ holder # r /\ grant \in GrantRec
    BY DEF NG!Begin, NG!Forward, NG!At, GrantInv, GrantTypes, Locked
<1>2. PICK x \in Request : req' = [req EXCEPT ![r] = x] /\ x.pc \notin Locked
    <2>1. CASE NG!Begin(r)
        <3> PICK x : x = [y EXCEPT !.pc = "cred"] BY Zenon
        <3>1. x \in Request /\ x.pc = "cred" BY DEF Request
        <3>2. req' = [req EXCEPT ![r] = x] BY <2>1 DEF NG!Begin, NG!Goto
        <3> QED BY Zenon, <3>1, <3>2 DEF Locked
    <2>2. CASE NG!Answer(r)
        <3>1. NG!Idle \in Request /\ NG!Idle.pc \notin Locked BY DEF NG!Idle, Request, Locked, NG!MaybePair
        <3> QED BY Zenon, <2>2, <3>1 DEF NG!Answer
    <2>3. CASE req' = [req EXCEPT ![r].pc = "refused", ![r].first = req[r].tok]
        <3> PICK x : x = [y EXCEPT !.pc = "refused", !.first = y.tok] OBVIOUS
        <3>1. x \in Request /\ x.pc = "refused" BY Zenon DEF Request
        <3>2. req' = [req EXCEPT ![r] = x] BY Zenon, <2>3
        <3> QED BY Zenon, <3>1, <3>2 DEF Locked
    <2> QED BY <2>1, <2>2, <2>3 DEF NG!Forward
<1>3. Relies(r)'
    BY <1>2 DEF Relies, Locked, GrantInv, GrantTypes
<1> QED BY Zenon, <1>1, <1>2, <1>3, QuietGrantKeeps

LEMMA EnterKeeps ==
    ASSUME NG!GrantAssumption, GrantInv, NEW r \in Requester, NG!Enter(r) \/ NG!Invalidate(r)
    PROVE  GrantInv'
<1> PICK y \in Request : y = req[r] BY DEF GrantInv, GrantTypes
<1> PICK g \in GrantRec : g = grant BY DEF GrantInv, GrantTypes
<1>1. UNCHANGED <<NG!world, secret>> /\ holder = None
    BY DEF NG!Enter, NG!Invalidate
<1>2. CASE NG!Enter(r)
    <2> PICK x : x = [y EXCEPT !.pc = IF g.unsaved # None /\ time >= g.flush THEN "flush" ELSE "check"] BY Zenon
    <2>1. x \in Request /\ x.pc \in {"flush", "check"} /\ (x.pc = "flush" => g.unsaved # None) BY DEF Request, Locked
    <2>2. req' = [req EXCEPT ![r] = x] /\ holder' = r BY <1>2 DEF NG!Enter, NG!Goto
    <2>3. grant' \in GrantRec /\ grant'.unsaved = grant.unsaved
        <3>1. time + FlushEvery \in Nat BY DEF NG!GrantAssumption, GrantInv, GrantTypes
        <3>2. grant' = g \/ grant' = [g EXCEPT !.flush = time + FlushEvery] BY <1>2 DEF NG!Enter
        <3> QED BY <3>1, <3>2 DEF GrantRec
    <2>4. Relies(r)'
        BY <2>1, <2>2, <2>3 DEF Relies, GrantInv, GrantTypes
    <2> QED BY Zenon, <1>1, <2>1, <2>2, <2>3, <2>4, QuietGrantKeeps DEF Locked
<1>3. CASE NG!Invalidate(r)
    <2> PICK x : x = [y EXCEPT !.pc = "cred", !.retry = TRUE, !.tok = None] OBVIOUS
    <2>1. x \in Request /\ x.pc = "cred" BY Zenon DEF Request, NG!MaybePair
    <2>2. req' = [req EXCEPT ![r] = x] /\ holder' = None BY Zenon, <1>1, <1>3 DEF NG!Invalidate
    <2>3. grant' \in GrantRec /\ grant'.unsaved = grant.unsaved
        BY Zenon, <1>3 DEF NG!Invalidate, GrantRec, NG!MaybePair
    <2>4. Relies(r)' /\ holder' # r
        BY <2>1, <2>2 DEF Relies, GrantInv, GrantTypes, NG!GrantAssumption
    <2> QED BY Zenon, <1>1, <2>1, <2>2, <2>3, <2>4, QuietGrantKeeps DEF Locked
<1> QED BY <1>2, <1>3

LEMMA FlushReadKeeps == ASSUME NG!GrantAssumption, GrantInv, NEW r \in Requester, NG!FlushRead(r) PROVE GrantInv'
<1> PICK y \in Request : y = req[r] BY DEF GrantInv, GrantTypes
<1> PICK g \in GrantRec : g = grant BY DEF GrantInv, GrantTypes
<1>1. UNCHANGED <<NG!world, secret, holder>> /\ holder = r /\ y.pc = "flush" /\ g.unsaved # None /\ secret \in NG!MaybePair
    BY DEF NG!FlushRead, NG!Inside, NG!At, GrantInv, GrantTypes, Relies, Issued, NG!MaybePair, NG!Pair, NG!GrantAssumption
<1>2. CASE secret = g.unsaved.base /\ req' = [req EXCEPT ![r].pc = "flushwrite", ![r].held = secret] /\ UNCHANGED grant
    <2> PICK x : x = [y EXCEPT !.pc = "flushwrite", !.held = secret] OBVIOUS
    <2>1. x \in Request /\ x.pc = "flushwrite" /\ x.held = secret BY Zenon, <1>1 DEF Request, Locked
    <2>2. req' = [req EXCEPT ![r] = x] BY Zenon, <1>2
    <2>3. Relies(r)' BY <1>1, <1>2, <2>1, <2>2 DEF Relies, GrantInv, GrantTypes
    <2> QED BY Zenon, <1>1, <1>2, <2>1, <2>2, <2>3, QuietGrantKeeps DEF Locked
<1> PICK z : z = [y EXCEPT !.pc = "check"] BY Zenon
<1>3. z \in Request /\ z.pc = "check" BY DEF Request, Locked
<1>4. CASE secret # g.unsaved.base /\ grant' = [grant EXCEPT !.unsaved = None] /\ NG!Goto(r, "check")
    <2>1. grant' \in GrantRec /\ grant'.unsaved = None BY <1>4 DEF GrantRec
    <2>2. req' = [req EXCEPT ![r] = z] BY <1>4 DEF NG!Goto
    <2>3. Relies(r)' BY <1>3, <2>2 DEF Relies, GrantInv, GrantTypes
    <2> QED BY Zenon, <1>1, <1>3, <1>4, <2>1, <2>2, <2>3, QuietGrantKeeps DEF Locked
<1>5. CASE UNCHANGED grant /\ NG!Goto(r, "check")
    <2>2. req' = [req EXCEPT ![r] = z] BY <1>5 DEF NG!Goto
    <2>3. Relies(r)' BY <1>3, <2>2 DEF Relies, GrantInv, GrantTypes
    <2> QED BY Zenon, <1>1, <1>3, <1>5, <2>2, <2>3, QuietGrantKeeps DEF Locked
<1> QED BY <1>2, <1>4, <1>5 DEF NG!FlushRead

\* The lock is left, with the credential or with the answer.
LEMMA Leaves ==
    ASSUME GrantInv, NEW r \in Requester,
           NG!Leave(r) \/ \E p \in NG!MaybePair : NG!Send(r, p)
    PROVE  /\ holder' = None
           /\ \E x \in Request : req' = [req EXCEPT ![r] = x] /\ x.pc \notin Locked /\ req'[r] = x
<1> PICK y \in Request : y = req[r] BY DEF GrantInv, GrantTypes
<1>1. CASE NG!Leave(r)
    <2>1. NG!Idle \in Request /\ NG!Idle.pc \notin Locked BY DEF NG!Idle, Request, Locked, NG!MaybePair
    <2> QED BY Zenon, <1>1, <2>1 DEF NG!Leave, NG!Answer, GrantInv, GrantTypes
<1>2. ASSUME NEW p \in NG!MaybePair, NG!Send(r, p)
      PROVE  holder' = None /\ \E x \in Request : req' = [req EXCEPT ![r] = x] /\ x.pc \notin Locked /\ req'[r] = x
    <2> PICK x : x = [y EXCEPT !.pc = "send", !.tok = p, !.held = None] OBVIOUS
    <2>1. x \in Request /\ x.pc = "send" BY Zenon DEF Request, NG!MaybePair
    <2>2. req' = [req EXCEPT ![r] = x] /\ holder' = None BY Zenon, <1>2 DEF NG!Send
    <2> QED BY Zenon, <2>1, <2>2 DEF Locked, GrantInv, GrantTypes
<1> QED BY <1>1, <1>2

LEMMA CheckTokenKeeps == ASSUME NG!GrantAssumption, GrantInv, NEW r \in Requester, NG!Check(r) PROVE GrantInv'
<1> PICK y \in Request : y = req[r] BY DEF GrantInv, GrantTypes
<1>1. UNCHANGED <<NG!world, secret, grant>> /\ holder = r /\ grant \in GrantRec /\ grant.token \in NG!MaybePair
    BY DEF NG!Check, NG!Inside, GrantInv, GrantTypes, GrantRec
<1>2. CASE NG!Send(r, grant.token)
    <2>1. PICK x \in Request : req' = [req EXCEPT ![r] = x] /\ x.pc \notin Locked /\ req'[r] = x
        BY <1>1, <1>2, Leaves
    <2>2. holder' = None BY <1>2 DEF NG!Send
    <2>3. Relies(r)' BY <2>1 DEF Relies, Locked
    <2> QED BY Zenon, <1>1, <2>1, <2>2, <2>3, QuietGrantKeeps DEF NG!GrantAssumption
<1>3. CASE NG!Goto(r, "read") /\ UNCHANGED holder
    <2> PICK x : x = [y EXCEPT !.pc = "read"] BY Zenon
    <2>1. x \in Request /\ x.pc = "read" BY DEF Request, Locked
    <2>2. req' = [req EXCEPT ![r] = x] BY <1>3 DEF NG!Goto
    <2>3. Relies(r)' BY <2>1, <2>2 DEF Relies, GrantInv, GrantTypes
    <2> QED BY Zenon, <1>1, <1>3, <2>1, <2>2, <2>3, QuietGrantKeeps DEF Locked
<1> QED BY <1>2, <1>3 DEF NG!Check

LEMMA ReadGrantKeeps == ASSUME NG!GrantAssumption, GrantInv, NEW r \in Requester, NG!Read(r) PROVE GrantInv'
<1> PICK y \in Request : y = req[r] BY DEF GrantInv, GrantTypes
<1> PICK g \in GrantRec : g = grant BY DEF GrantInv, GrantTypes
<1>1. UNCHANGED <<NG!world, secret>> /\ holder = r /\ r # None
    BY DEF NG!Read, NG!Inside, NG!GrantAssumption
<1>2. CASE NG!Leave(r) /\ UNCHANGED grant
    <2>1. PICK x \in Request : req' = [req EXCEPT ![r] = x] /\ x.pc \notin Locked /\ req'[r] = x
        BY <1>2, Leaves
    <2>2. holder' = None BY <1>2 DEF NG!Leave
    <2>3. Relies(r)' BY <2>1 DEF Relies, Locked
    <2> QED BY Zenon, <1>1, <1>2, <2>1, <2>2, <2>3, QuietGrantKeeps DEF NG!GrantAssumption
<1>3. CASE secret # None /\ ~(NG!Leave(r) /\ UNCHANGED grant)
    <2> PICK p : p = NG!Newest(secret, g.unsaved) OBVIOUS
    <2> PICK h : h = IF g.unsaved # None /\ g.unsaved.base = secret THEN g ELSE [g EXCEPT !.unsaved = None] BY Zenon
    <2>1. /\ h \in GrantRec /\ (h.unsaved # None => h.unsaved = g.unsaved /\ h.unsaved.base = secret)
          /\ h.unsaved = g.unsaved \/ (h.unsaved = None /\ g.unsaved.base # secret)
        BY DEF GrantRec
    <2>2. p \in NG!MaybePair /\ secret \in Issued /\ secret \in NG!MaybePair
        BY <1>3 DEF NG!Newest, NG!MaybePair, NG!Pair, GrantInv, GrantTypes, GrantRec, Unsaved, Issued, NG!GrantAssumption
    <2>3. CASE grant' = [h EXCEPT !.token = p] /\ NG!Send(r, p)
        <3>1. PICK x \in Request : req' = [req EXCEPT ![r] = x] /\ x.pc \notin Locked /\ req'[r] = x
            BY <2>2, <2>3, Leaves
        <3>2. holder' = None BY <2>3 DEF NG!Send
        <3>3. Relies(r)' BY <3>1 DEF Relies, Locked
        <3>4. grant' \in GrantRec /\ grant'.unsaved = h.unsaved
            BY <2>1, <2>2, <2>3 DEF GrantRec
        <3> QED BY Zenon, <1>1, <2>1, <3>1, <3>2, <3>3, <3>4, QuietGrantKeeps DEF NG!GrantAssumption
    <2>4. CASE grant' = h /\ req' = [req EXCEPT ![r].pc = "post", ![r].tok = p, ![r].held = secret] /\ UNCHANGED holder
        <3> PICK x : x = [y EXCEPT !.pc = "post", !.tok = p, !.held = secret] OBVIOUS
        <3>1. x \in Request /\ x.pc = "post" /\ x.tok = p /\ x.held = secret BY Zenon, <2>2 DEF Request, Locked
        <3>2. req' = [req EXCEPT ![r] = x] BY Zenon, <2>4
        <3>3. p = NG!Newest(secret, h.unsaved)
            BY <2>1 DEF NG!Newest
        <3>4. secret # boot /\ secret' = secret /\ boot' = boot /\ issued' = issued
            BY <1>1, <1>3 DEF GrantInv, BootUnseen, NG!world
        <3>5. req'[r] = x BY <3>2 DEF GrantInv, GrantTypes
        <3>6. Relies(r)'
            BY Zenon, <1>3, <2>1, <2>2, <2>4, <3>1, <3>3, <3>4, <3>5 DEF Relies, Issued, NG!Newest
        <3> QED BY Zenon, <1>1, <2>1, <2>4, <3>1, <3>2, <3>6, QuietGrantKeeps DEF Locked
    <2> QED BY <1>3, <2>3, <2>4 DEF NG!Read
<1> QED BY <1>2, <1>3 DEF NG!Read

-----------------------------------------------------------------------------
\* The Secret is written under the lock, with the rotation that was not saved.
LEMMA WriteSecretKeeps ==
    ASSUME NG!GrantAssumption, GrantInv, NEW r \in Requester, NEW ok \in BOOLEAN, holder = r,
           grant.unsaved # None, req[r].held = grant.unsaved.base,
           NG!Patch(req[r].held, grant.unsaved.pair, ok), UNCHANGED NG!world,
           grant' \in GrantRec, grant'.unsaved = (IF ok THEN None ELSE grant.unsaved),
           NEW x \in Request, req' = [req EXCEPT ![r] = x], holder' = (IF x.pc \in Locked THEN r ELSE None),
           x.pc \in {"check", "send"}
    PROVE  GrantInv'
<1>1. UNCHANGED <<time, issued, valid, revoked, boot, restarts, rotationLost>>
    BY DEF NG!world
<1> PICK b \in Issued, p \in Issued : b = grant.unsaved.base /\ p = grant.unsaved.pair /\ b < p /\ ConsentOf(b) = ConsentOf(p)
    BY DEF GrantInv, UnsavedLater
<1>2. (secret = b /\ secret' = p) \/ (~ok /\ secret' = secret)
    BY DEF NG!Patch
<1>3. req' \in [Requester -> Request] /\ req'[r] = x /\ \A q \in Requester \ {r} : req'[q] = req[q] /\ req[q].pc \notin Locked
    BY DEF GrantInv, GrantTypes
<1>4. GrantTypes'
    BY Zenon, <1>1, <1>2, <1>3 DEF GrantInv, GrantTypes, Issued, NG!GrantAssumption
<1>5. ValidOwn' /\ UnsavedLater'
    BY <1>1 DEF GrantInv, ValidOwn, UnsavedLater, Issued, ConsentOf
<1>6. BootUnseen'
    <2>1. ConsentOf(p) \in Int /\ boot' = boot /\ issued' = issued /\ valid' = valid
        BY <1>1, ConsentTypes DEF GrantInv
    <2>2. boot # None => p # boot
        BY <2>1 DEF GrantInv, BootUnseen
    <2> QED BY <1>2, <2>1, <2>2 DEF GrantInv, BootUnseen, Issued, ConsentOf
<1>7. \A q \in Requester : Relies(q)'
    BY <1>3 DEF Relies, Locked
<1>8. NG!Newest(secret, grant.unsaved)' = NG!Newest(secret, grant.unsaved) /\ b \in Int /\ p \in Int /\ b # None /\ p # None
    BY <1>2 DEF NG!Newest, Issued, NG!GrantAssumption
<1>9. NG!RefreshTokenUsable'
    BY <1>1, <1>8 DEF GrantInv, NG!RefreshTokenUsable
<1> QED BY <1>4, <1>5, <1>6, <1>7, <1>9 DEF GrantInv

LEMMA SavesKeep ==
    ASSUME NG!GrantAssumption, GrantInv, NEW r \in Requester, NG!FlushWrite(r) \/ NG!Save(r)
    PROVE  GrantInv'
<1> PICK y \in Request : y = req[r] BY DEF GrantInv, GrantTypes
<1> PICK g \in GrantRec : g = grant BY DEF GrantInv, GrantTypes
<1>1. holder = r /\ UNCHANGED NG!world /\ grant.unsaved # None /\ req[r].held = grant.unsaved.base
    BY Zenon DEF NG!FlushWrite, NG!Save, NG!Inside, NG!At, GrantInv, Relies
<1>2. CASE NG!FlushWrite(r)
    <2> PICK x : x = [y EXCEPT !.pc = "check"] BY Zenon
    <2>1. x \in Request /\ x.pc = "check" /\ x.pc \in Locked BY DEF Request, Locked
    <2>2. req' = [req EXCEPT ![r] = x] /\ holder' = r BY <1>1, <1>2 DEF NG!FlushWrite, NG!Goto
    <2>3. PICK ok \in BOOLEAN : /\ NG!Patch(req[r].held, grant.unsaved.pair, ok)
                               /\ grant' = IF ok THEN [g EXCEPT !.unsaved = None] ELSE g
        BY <1>2 DEF NG!FlushWrite
    <2>4. grant' \in GrantRec /\ grant'.unsaved = (IF ok THEN None ELSE grant.unsaved)
        BY <2>3 DEF GrantRec
    <2> QED BY Zenon, <1>1, <2>1, <2>2, <2>3, <2>4, WriteSecretKeeps
<1>3. CASE NG!Save(r)
    <2> PICK p : p = grant.unsaved.pair OBVIOUS
    <2>1. p \in NG!MaybePair BY <1>1 DEF GrantRec, Unsaved, NG!MaybePair
    <2>2. NG!Send(r, p) BY Zenon, <1>3 DEF NG!Save
    <2> PICK x : x = [y EXCEPT !.pc = "send", !.tok = p, !.held = None] OBVIOUS
    <2>3. x \in Request /\ x.pc = "send" /\ x.pc \notin Locked BY Zenon, <2>1 DEF Request, Locked, NG!MaybePair
    <2>4. req' = [req EXCEPT ![r] = x] /\ holder' = None BY Zenon, <2>2 DEF NG!Send
    <2>5. PICK ok \in BOOLEAN : /\ NG!Patch(req[r].held, p, ok)
                               /\ grant' = [g EXCEPT !.token = p, !.rejected = None,
                                     !.unsaved = IF ok THEN None ELSE g.unsaved,
                                     !.flush = IF ok THEN g.flush ELSE time + FlushEvery]
        BY Zenon, <1>3 DEF NG!Save
    <2>6. time + FlushEvery \in Nat BY DEF NG!GrantAssumption, GrantInv, GrantTypes
    <2>7. grant' \in GrantRec /\ grant'.unsaved = (IF ok THEN None ELSE grant.unsaved)
        BY Zenon, <2>1, <2>5, <2>6 DEF GrantRec, NG!MaybePair
    <2> QED BY Zenon, <1>1, <2>3, <2>4, <2>5, <2>7, WriteSecretKeeps
<1> QED BY <1>2, <1>3

-----------------------------------------------------------------------------
\* The token endpoint adds a pair at the end, and with it what it takes.
LEMMA IssuedGrows ==
    ASSUME NG!GrantAssumption, GrantTypes, NEW c \in 1 .. MaxConsent, issued' = Append(issued, [at |-> time, consent |-> c]),
           Len(issued) < MaxPair
    PROVE  /\ issued' \in Seq(Issue) /\ Len(issued') = Len(issued) + 1 /\ Len(issued') <= MaxPair /\ Len(issued) \in Nat
           /\ \A p \in Issued : p \in Issued' /\ ConsentOf(p)' = ConsentOf(p)
           /\ Len(issued') \in Issued' /\ issued'[Len(issued')].consent = c
           /\ Issued' = Issued \cup {Len(issued')}
<1>1. [at |-> time, consent |-> c] \in Issue
    BY DEF GrantTypes, Issue
<1>2. issued' \in Seq(Issue) /\ Len(issued') = Len(issued) + 1 /\ Len(issued) \in Nat
    BY <1>1 DEF GrantTypes
<1>3. \A p \in Issued : issued'[p] = issued[p]
    BY <1>1 DEF GrantTypes, Issued
<1>4. issued'[Len(issued) + 1] = [at |-> time, consent |-> c]
    BY <1>1 DEF GrantTypes
<1>5. issued'[Len(issued')].consent = c
    BY <1>2, <1>4
<1>6. Len(issued') <= MaxPair
    BY <1>2 DEF GrantTypes, NG!GrantAssumption
<1>7. /\ \A p \in Issued : p \in Issued' /\ ConsentOf(p)' = ConsentOf(p)
      /\ Len(issued') \in Issued' /\ Issued' = Issued \cup {Len(issued')}
    BY <1>2, <1>3 DEF Issued, ConsentOf
<1> QED BY <1>2, <1>5, <1>6, <1>7

\* A rotation, or the end of a consent that was shown an old token, touches the
\* consent of that token only.
LEMMA Rotates ==
    ASSUME NG!GrantAssumption, GrantTypes, ValidOwn, NEW p \in Issued, NG!Rotate(p)
    PROVE  /\ issued' \in Seq(Issue) /\ Len(issued') <= MaxPair /\ Len(issued) \in Nat
           /\ Len(issued') \in {Len(issued), Len(issued) + 1}
           /\ \A q \in Issued : q \in Issued' /\ ConsentOf(q)' = ConsentOf(q)
           /\ \A q \in Issued' \ Issued : ConsentOf(q)' = ConsentOf(p)
           /\ valid' \in [1 .. MaxConsent -> SUBSET NG!Pair] /\ ValidOwn'
           /\ \A d \in 1 .. MaxConsent : d # ConsentOf(p) => valid'[d] = valid[d]
           /\ p \in valid[ConsentOf(p)] =>
                 /\ Len(issued') = Len(issued) + 1 /\ issued'[Len(issued')].consent = ConsentOf(p)
                 /\ valid'[ConsentOf(p)] = {p, Len(issued')}
<1> PICK c \in 1 .. MaxConsent : c = ConsentOf(p) BY ConsentTypes
<1>1. CASE p \in valid[c]
    <2>1. issued' = Append(issued, [at |-> time, consent |-> c]) /\ Len(issued) < MaxPair
        BY <1>1 DEF NG!Rotate, ConsentOf
    <2>2. valid' = [valid EXCEPT ![c] = {p, Len(issued) + 1}]
        BY <1>1 DEF NG!Rotate, ConsentOf
    <2>3. p \in NG!Pair /\ Len(issued) + 1 \in NG!Pair
        BY <2>1, IssuedGrows DEF Issued, NG!Pair, NG!GrantAssumption, GrantTypes
    <2>4. valid' \in [1 .. MaxConsent -> SUBSET NG!Pair]
        BY <2>2, <2>3 DEF GrantTypes
    <2>5. \A d \in 1 .. MaxConsent : valid'[d] = IF d = c THEN {p, Len(issued) + 1} ELSE valid[d]
        BY <2>2 DEF GrantTypes
    <2>6. ValidOwn'
        <3> SUFFICES ASSUME NEW d \in 1 .. MaxConsent, NEW q \in valid'[d] PROVE q \in Issued' /\ ConsentOf(q)' = d
            BY DEF ValidOwn
        <3>1. p \in Issued' /\ ConsentOf(p)' = c /\ Len(issued) + 1 \in Issued' /\ issued'[Len(issued) + 1].consent = c
            BY <2>1, IssuedGrows
        <3>2. CASE d = c BY <2>5, <3>1, <3>2 DEF ConsentOf
        <3>3. CASE d # c
            <4>1. q \in valid[d] BY <2>5, <3>3
            <4> QED BY <2>1, <4>1, IssuedGrows DEF ValidOwn
        <3> QED BY <3>2, <3>3
    <2>7. /\ issued' \in Seq(Issue) /\ Len(issued') <= MaxPair /\ Len(issued) \in Nat /\ Len(issued') = Len(issued) + 1
          /\ \A q \in Issued : q \in Issued' /\ ConsentOf(q)' = ConsentOf(q)
          /\ issued'[Len(issued')].consent = c
        BY <2>1, IssuedGrows
    <2>8. \A q \in Issued' \ Issued : ConsentOf(q)' = c
        BY <2>1, IssuedGrows DEF ConsentOf
    <2>9. /\ \A d \in 1 .. MaxConsent : d # ConsentOf(p) => valid'[d] = valid[d]
          /\ valid'[ConsentOf(p)] = {p, Len(issued')}
        BY <2>5, <2>7
    <2> QED BY <2>4, <2>6, <2>7, <2>8, <2>9
<1>2. CASE p \notin valid[c]
    <2>1. issued' = issued /\ valid' = [valid EXCEPT ![c] = {}]
        BY <1>2 DEF NG!Rotate, ConsentOf
    <2>2. valid' \in [1 .. MaxConsent -> SUBSET NG!Pair] /\ \A d \in 1 .. MaxConsent : valid'[d] = IF d = c THEN {} ELSE valid[d]
        BY <2>1 DEF GrantTypes
    <2>3. ValidOwn'
        BY <2>1, <2>2 DEF ValidOwn, Issued, ConsentOf
    <2>4. Len(issued) \in Nat
        BY DEF GrantTypes
    <2> QED BY <1>2, <2>1, <2>2, <2>3, <2>4 DEF GrantTypes, Issued, ConsentOf
<1> QED BY <1>1, <1>2

\* What the request that refreshes knows of the pair it refreshes with
LEMMA PostGrantFacts ==
    ASSUME NG!GrantAssumption, GrantInv, NEW r \in Requester, NG!Post(r)
    PROVE  LET t == req[r].tok
               h == req[r].held
           IN  /\ holder = r /\ t \in Issued /\ h \in Issued /\ ConsentOf(t) = ConsentOf(h)
               /\ t # None /\ h # None /\ secret # None /\ secret \in Issued
               /\ ConsentOf(t) \in 1 .. MaxConsent /\ ConsentOf(h) \in Int /\ ConsentOf(secret) \in Int
               /\ grant.unsaved # None => grant.unsaved.base = h
               /\ secret = h => NG!Newest(secret, grant.unsaved) = t
               /\ secret # h => ConsentOf(t) < ConsentOf(secret) /\ NG!Newest(secret, grant.unsaved) = secret
               /\ boot # None => boot \in Issued /\ ConsentOf(boot) \in 1 .. MaxConsent /\ ConsentOf(t) < ConsentOf(boot) /\ h # boot
<1> PICK y \in Request : y = req[r] BY DEF GrantInv, GrantTypes
<1>1. holder = r /\ y.pc = "post" /\ Relies(r)
    BY DEF NG!Post, NG!Inside, NG!At, GrantInv
<1>2. /\ y.held \in Issued /\ y.held # boot /\ secret # None
      /\ secret = y.held \/ ConsentOf(y.held) < ConsentOf(secret)
      /\ grant.unsaved # None => grant.unsaved.base = y.held
      /\ y.tok = NG!Newest(y.held, grant.unsaved)
    BY <1>1 DEF Relies
<1>3. secret \in Issued /\ y.held # None
    BY <1>2 DEF GrantInv, GrantTypes, NG!GrantAssumption, Issued
<1>4. y.tok \in Issued /\ ConsentOf(y.tok) = ConsentOf(y.held)
    BY <1>2 DEF NG!Newest, GrantInv, UnsavedLater
<1>5. /\ ConsentOf(y.tok) \in 1 .. MaxConsent /\ ConsentOf(y.held) \in Int /\ ConsentOf(secret) \in Int
      /\ y.tok # None
    BY <1>2, <1>3, <1>4, ConsentTypes DEF GrantInv, NG!GrantAssumption, Issued
<1>6. secret # y.held => ConsentOf(y.tok) < ConsentOf(secret) /\ NG!Newest(secret, grant.unsaved) = secret
    BY <1>2, <1>4 DEF NG!Newest
<1>7. boot # None => boot \in Issued /\ ConsentOf(boot) \in 1 .. MaxConsent
    BY ConsentTypes DEF GrantInv, GrantTypes
<1>8. boot # None => ConsentOf(y.tok) < ConsentOf(boot)
    BY <1>2, <1>4 DEF GrantInv, BootUnseen
<1> QED BY <1>1, <1>2, <1>3, <1>4, <1>5, <1>6, <1>7, <1>8

LEMMA PostKeeps == ASSUME NG!GrantAssumption, GrantInv, NEW r \in Requester, NG!Post(r) PROVE GrantInv'
<1> PICK y \in Request : y = req[r] BY DEF GrantInv, GrantTypes
<1> PICK g \in GrantRec : g = grant BY DEF GrantInv, GrantTypes
<1> PICK t \in Issued : t = y.tok BY PostGrantFacts
<1> PICK h \in Issued : h = y.held BY PostGrantFacts
<1>1. UNCHANGED <<time, revoked, secret, boot, restarts, rotationLost>> /\ holder = r /\ r # None
    BY PostGrantFacts DEF NG!Post, NG!GrantAssumption
<1>2. CASE UNCHANGED <<issued, valid, grant>> /\ NG!Leave(r)
    <2>1. PICK x \in Request : req' = [req EXCEPT ![r] = x] /\ x.pc \notin Locked /\ req'[r] = x
        BY <1>2, Leaves
    <2>2. holder' = None BY <1>2 DEF NG!Leave
    <2>3. Relies(r)' BY <2>1 DEF Relies, Locked
    <2>4. UNCHANGED <<NG!world, secret>> BY <1>1, <1>2 DEF NG!world
    <2> QED BY Zenon, <1>1, <1>2, <2>1, <2>2, <2>3, <2>4, QuietGrantKeeps DEF NG!GrantAssumption
<1>3. ASSUME NG!Rotate(t), NEW x \in Request, req' = [req EXCEPT ![r] = x], grant' \in GrantRec,
             x.pc \in {"idle", "save"}, holder' = (IF x.pc = "save" THEN r ELSE None),
             \/ x.pc = "idle" /\ grant'.unsaved = grant.unsaved
             \/ /\ x.pc = "save" /\ t \in valid[ConsentOf(t)] /\ x.held = h
                /\ grant'.unsaved = [base |-> h, pair |-> Len(issued')]
      PROVE  GrantInv'
    <2> PICK n : n = Len(issued') BY Zenon
    <2>1. /\ issued' \in Seq(Issue) /\ n <= MaxPair /\ Len(issued) \in Nat /\ n \in {Len(issued), Len(issued) + 1}
          /\ \A q \in Issued : q \in Issued' /\ ConsentOf(q)' = ConsentOf(q)
          /\ \A q \in Issued' \ Issued : ConsentOf(q)' = ConsentOf(t)
          /\ valid' \in [1 .. MaxConsent -> SUBSET NG!Pair] /\ ValidOwn'
          /\ \A d \in 1 .. MaxConsent : d # ConsentOf(t) => valid'[d] = valid[d]
        BY <1>3, Rotates DEF GrantInv
    <2>2. t \in valid[ConsentOf(t)] =>
             n = Len(issued) + 1 /\ issued'[n].consent = ConsentOf(t) /\ valid'[ConsentOf(t)] = {t, n}
        BY <1>3, Rotates DEF GrantInv
    <2>3. /\ req' \in [Requester -> Request] /\ req'[r] = x
          /\ \A q \in Requester \ {r} : req'[q] = req[q] /\ req[q].pc \notin Locked
        BY <1>1, <1>3 DEF GrantInv, GrantTypes
    <2>4. GrantTypes'
        <3>1. \A q \in Requester : (holder' = q) <=> req'[q].pc \in Locked
            BY <1>1, <1>3, <2>3 DEF Locked, GrantInv, GrantTypes, NG!GrantAssumption
        <3>2. Issued \subseteq Issued' BY <2>1
        <3> QED BY <1>1, <1>3, <2>1, <2>3, <3>1, <3>2 DEF GrantInv, GrantTypes
    <2>5. BootUnseen'
        BY <1>1, <1>3, <2>1, PostGrantFacts DEF GrantInv, BootUnseen
    <2>6. UnsavedLater'
        BY SMTT(60), <1>1, <1>3, <2>1, <2>2, PostGrantFacts DEF GrantInv, UnsavedLater, Issued, ConsentOf
    <2>0. x.pc = "save" => grant'.unsaved # None /\ grant'.unsaved.base = h /\ grant'.unsaved.pair = n
        <3>1. n \in Nat /\ h \in Nat BY <2>1 DEF Issued
        <3>2. [base |-> h, pair |-> n] # None BY <3>1 DEF NG!GrantAssumption
        <3> QED BY <1>3, <3>2
    <2>7. \A q \in Requester : Relies(q)'
        BY <1>3, <2>0, <2>3 DEF Relies, Locked
    <2>8. NG!RefreshTokenUsable'
        <3> SUFFICES ASSUME ~rotationLost, NEW p, p = NG!Newest(secret, grant.unsaved)'
                     PROVE  p \in valid'[issued'[p].consent]
            BY <1>1 DEF NG!RefreshTokenUsable
        <3>1. ASSUME secret # h PROVE p \in valid'[issued'[p].consent]
            <4>1. p = secret /\ secret \in valid[ConsentOf(secret)] /\ ConsentOf(secret) \in 1 .. MaxConsent
                  /\ ConsentOf(secret) # ConsentOf(t) /\ secret \in Issued
                BY <1>1, <1>3, <3>1, PostGrantFacts, ConsentTypes DEF NG!Newest, GrantInv, NG!RefreshTokenUsable, ConsentOf
            <4> QED BY <2>1, <4>1 DEF ConsentOf
        <3>2. ASSUME secret = h PROVE p \in valid'[issued'[p].consent]
            <4>1. t \in valid[ConsentOf(t)]
                BY <3>2, PostGrantFacts DEF GrantInv, NG!RefreshTokenUsable, ConsentOf
            <4>2. p \in {t, n}
                BY <1>1, <1>3, <2>0, <3>2, PostGrantFacts DEF NG!Newest
            <4>3. issued'[t].consent = ConsentOf(t)
                BY <2>1 DEF ConsentOf
            <4> QED BY <2>2, <4>1, <4>2, <4>3
        <3> QED BY <3>1, <3>2
    <2> QED BY <2>1, <2>4, <2>5, <2>6, <2>7, <2>8 DEF GrantInv
<1>4. CASE NG!Rotate(t) /\ UNCHANGED grant /\ NG!Leave(r)
    <2>1. NG!Idle \in Request /\ NG!Idle.pc = "idle" BY DEF NG!Idle, Request, NG!MaybePair
    <2>2. req' = [req EXCEPT ![r] = NG!Idle] /\ holder' = None BY <1>4 DEF NG!Leave, NG!Answer
    <2> QED BY Zenon, <1>3, <1>4, <2>1, <2>2
<1>5. CASE /\ t \in valid[issued[t].consent] /\ NG!Rotate(t) /\ NG!Goto(r, "save") /\ UNCHANGED holder
           /\ LET base == IF grant.unsaved # None THEN grant.unsaved.base ELSE t
              IN  grant' = [grant EXCEPT !.unsaved = [base |-> base, pair |-> Len(issued')]]
    <2> PICK x : x = [y EXCEPT !.pc = "save"] BY Zenon
    <2>1. x \in Request /\ x.pc = "save" /\ x.held = h BY DEF Request, Locked
    <2>2. req' = [req EXCEPT ![r] = x] /\ holder' = r BY <1>1, <1>5 DEF NG!Goto
    <2>3. h = IF grant.unsaved # None THEN grant.unsaved.base ELSE t
        BY <1>1, PostGrantFacts DEF GrantInv, Relies, NG!Newest, NG!Post, NG!Inside, NG!At
    <2>4. grant' = [g EXCEPT !.unsaved = [base |-> h, pair |-> Len(issued')]]
        BY <1>5, <2>3
    <2>5. Len(issued') \in NG!Pair /\ h \in NG!Pair
        BY SMTT(60), <1>5, Rotates DEF NG!Pair, GrantInv, GrantTypes, Issued, ConsentOf, NG!GrantAssumption
    <2>6. grant' \in GrantRec /\ grant'.unsaved = [base |-> h, pair |-> Len(issued')]
        BY <2>4, <2>5 DEF GrantRec, Unsaved
    <2>7. t \in valid[ConsentOf(t)] BY <1>5 DEF ConsentOf
    <2> QED BY Zenon, <1>3, <1>5, <2>1, <2>2, <2>6, <2>7
<1> QED BY <1>2, <1>4, <1>5 DEF NG!Post

\* A new consent is newer than all the others and known to nobody.
LEMMA ConsentKeeps == ASSUME NG!GrantAssumption, GrantInv, NG!Consent PROVE GrantInv'
<1> PICK c \in 1 .. MaxConsent :
        /\ \A i \in Issued : ConsentOf(i) < c
        /\ issued' = Append(issued, [at |-> time, consent |-> c])
        /\ valid' = [valid EXCEPT ![c] = {Len(issued) + 1}]
    BY Zenon DEF NG!Consent, Issued, ConsentOf
<1>1. /\ UNCHANGED <<time, revoked, secret, grant, holder, req, restarts, rotationLost>> /\ boot = None
      /\ boot' = Len(issued') /\ Len(issued) < MaxPair
    BY DEF NG!Consent
<1>2. /\ issued' \in Seq(Issue) /\ Len(issued') = Len(issued) + 1 /\ Len(issued') <= MaxPair /\ Len(issued) \in Nat
      /\ \A p \in Issued : p \in Issued' /\ ConsentOf(p)' = ConsentOf(p)
      /\ Len(issued') \in Issued' /\ issued'[Len(issued')].consent = c
      /\ Issued' = Issued \cup {Len(issued')}
    BY <1>1, IssuedGrows DEF GrantInv
<1>3. Len(issued') \in NG!Pair /\ Len(issued') \notin Issued
    BY <1>2 DEF NG!Pair, Issued, NG!GrantAssumption
<1>4. /\ valid' \in [1 .. MaxConsent -> SUBSET NG!Pair]
      /\ \A d \in 1 .. MaxConsent : valid'[d] = IF d = c THEN {Len(issued')} ELSE valid[d]
    BY <1>2, <1>3 DEF GrantInv, GrantTypes
<1>5. GrantTypes'
    BY <1>1, <1>2, <1>4 DEF GrantInv, GrantTypes
<1>6. ValidOwn'
    BY Zenon, <1>2, <1>4 DEF GrantInv, ValidOwn, ConsentOf
<1>7. BootUnseen'
    <2>1. secret # Len(issued') /\ (grant.unsaved # None => grant.unsaved.base # Len(issued'))
        BY <1>3 DEF GrantInv, GrantTypes, UnsavedLater, NG!GrantAssumption, NG!Pair
    <2>2. ConsentOf(boot)' = c
        BY <1>1, <1>2 DEF ConsentOf
    <2>3. \A p \in Issued' \ {boot'} : ConsentOf(p)' < c
        BY <1>1, <1>2
    <2> QED BY <1>1, <1>4, <2>1, <2>2, <2>3 DEF BootUnseen
<1>8. UnsavedLater'
    BY <1>1, <1>2 DEF GrantInv, UnsavedLater
<1>9. ASSUME NEW q \in Requester PROVE Relies(q)'
    <2>1. req[q].pc = "post" => req[q].held \in Issued /\ req[q].held # Len(issued')
        BY <1>3 DEF GrantInv, Relies
    <2>2. req[q].pc = "post" /\ secret # None => secret \in Issued
        BY DEF GrantInv, GrantTypes
    <2> QED BY <1>1, <1>2, <2>1, <2>2 DEF GrantInv, Relies, NG!Newest
<1>10. NG!RefreshTokenUsable'
    <2> PICK p : p = NG!Newest(secret, grant.unsaved) OBVIOUS
    <2>1. p # None => p \in Issued
        BY DEF NG!Newest, GrantInv, GrantTypes, UnsavedLater
    <2>2. p # None /\ ~rotationLost => p \in valid[ConsentOf(p)] /\ ConsentOf(p) \in 1 .. MaxConsent /\ ConsentOf(p) # c
        BY <2>1, ConsentTypes DEF GrantInv, NG!RefreshTokenUsable, ConsentOf
    <2>3. p # None => issued'[p].consent = ConsentOf(p)
        BY Zenon, <1>2, <2>1 DEF ConsentOf
    <2> QED BY Zenon, <1>1, <1>4, <2>2, <2>3 DEF NG!RefreshTokenUsable, NG!Newest
<1> QED BY <1>5, <1>6, <1>7, <1>8, <1>9, <1>10 DEF GrantInv

\* The bootstrap run writes its pair over whatever the Secret holds.
LEMMA ReplaceGrantKeeps == ASSUME NG!GrantAssumption, GrantInv, NG!Replace PROVE GrantInv'
<1>1. /\ UNCHANGED <<time, issued, valid, revoked, grant, holder, req, restarts, rotationLost>>
      /\ boot # None /\ boot' = None /\ secret' \in {secret, boot}
    BY DEF NG!Replace
<1>2. GrantTypes'
    BY <1>1 DEF GrantInv, GrantTypes, Issued
<1>3. ValidOwn' /\ BootUnseen' /\ UnsavedLater'
    BY <1>1 DEF GrantInv, ValidOwn, BootUnseen, UnsavedLater, Issued, ConsentOf
<1>4. ASSUME NEW q \in Requester PROVE Relies(q)'
    <2>1. req[q].pc = "post" => req[q].held \in Issued /\ req[q].held # None /\ ConsentOf(req[q].held) < ConsentOf(boot)
        BY <1>1 DEF GrantInv, Relies, BootUnseen, Issued, NG!GrantAssumption
    <2> QED BY <1>1, <2>1 DEF GrantInv, Relies, NG!Newest, Issued, ConsentOf
<1>5. NG!RefreshTokenUsable'
    <2>1. CASE secret' = secret
        BY <1>1, <2>1 DEF GrantInv, NG!RefreshTokenUsable, NG!Newest
    <2>2. CASE secret' = boot
        BY <1>1, <2>2 DEF GrantInv, BootUnseen, NG!RefreshTokenUsable, NG!Newest, ConsentOf
    <2> QED BY <1>1, <2>1, <2>2
<1> QED BY <1>2, <1>3, <1>4, <1>5 DEF GrantInv

\* A restart forgets what was not saved; the Secret's own pair is still taken
\* unless rotations in a row were not written, which `lost` remembers.
LEMMA CrashGrantKeeps == ASSUME NG!GrantAssumption, GrantInv, NG!Crash PROVE GrantInv'
<1>1. /\ UNCHANGED <<time, issued, valid, revoked, secret, boot>>
      /\ grant' = NG!Fresh0 /\ holder' = None /\ req' = [r \in Requester |-> NG!Idle]
    BY DEF NG!Crash
<1>2. NG!Fresh0 \in GrantRec /\ NG!Idle \in Request /\ NG!Idle.pc = "idle" /\ NG!Fresh0.unsaved = None
    BY DEF NG!Fresh0, NG!Idle, GrantRec, Request, NG!MaybePair
<1>3. req' \in [Requester -> Request] /\ \A q \in Requester : req'[q].pc = "idle"
    BY <1>1, <1>2
<1>4. GrantTypes'
    BY <1>1, <1>2, <1>3 DEF GrantInv, GrantTypes, Issued, Locked, NG!GrantAssumption
<1>5. ValidOwn' /\ BootUnseen' /\ UnsavedLater'
    BY <1>1, <1>2 DEF GrantInv, ValidOwn, BootUnseen, UnsavedLater, Issued, ConsentOf
<1>6. \A q \in Requester : Relies(q)'
    BY <1>3 DEF Relies
<1>7. NG!RefreshTokenUsable'
    <2>1. secret # None /\ secret \notin valid[issued[secret].consent] => rotationLost'
        BY Zenon DEF NG!Crash
    <2> QED BY <1>1, <1>2, <2>1 DEF NG!RefreshTokenUsable, NG!Newest
<1> QED BY <1>4, <1>5, <1>6, <1>7 DEF GrantInv

LEMMA ElsewhereKeeps ==
    ASSUME NG!GrantAssumption, GrantInv, NG!Tick \/ NG!Revoke \/ UNCHANGED NG!grantVars
    PROVE  GrantInv'
<1>1. UNCHANGED <<issued, valid, secret, grant, holder, req, boot, restarts, rotationLost>>
    BY DEF NG!Tick, NG!Revoke, NG!grantVars
<1>2. time' \in 0 .. MaxGrantTime
    BY DEF NG!Tick, NG!Revoke, NG!grantVars, GrantInv, GrantTypes, NG!GrantAssumption
<1>3. revoked' \subseteq NG!Pair
    <2>1. CASE NG!Revoke
        <3>1. PICK p \in Issued : revoked' = {p} BY <2>1 DEF NG!Revoke, Issued
        <3>2. p \in NG!Pair BY DEF GrantInv, GrantTypes, Issued, NG!Pair, NG!GrantAssumption
        <3> QED BY <3>1, <3>2
    <2> QED BY <2>1 DEF NG!Tick, NG!grantVars, GrantInv, GrantTypes
<1> QED BY Zenon, <1>1, <1>2, <1>3 DEF GrantInv, GrantTypes, ValidOwn, BootUnseen, UnsavedLater, Relies, NG!RefreshTokenUsable, NG!Newest,
                    Issued, ConsentOf

LEMMA GrantStepOK == ASSUME NG!GrantAssumption, GrantInv, [NG!GrantNext]_(NG!grantVars) PROVE GrantInv'
<1>1. ASSUME NEW r \in Requester, NG!Begin(r) \/ NG!Step(r) PROVE GrantInv'
    BY <1>1, OutsideKeeps, EnterKeeps, FlushReadKeeps, SavesKeep, CheckTokenKeeps, ReadGrantKeeps, PostKeeps DEF NG!Step
<1> QED BY <1>1, ConsentKeeps, ReplaceGrantKeeps, CrashGrantKeeps, ElsewhereKeeps DEF NG!GrantNext

\* Who writes the Secret writes a pair of the consent it read, or of a newer one.
LEMMA GrantStepKept == ASSUME NG!GrantAssumption, GrantInv, [NG!GrantNext]_(NG!grantVars) PROVE [NG!BootstrapKept]_(NG!grantVars)
<1> SUFFICES ASSUME NG!GrantNext, secret # None
             PROVE  secret' # None /\ issued'[secret'].consent >= issued[secret].consent
    BY DEF NG!BootstrapKept
<1>1. secret \in Issued /\ ConsentOf(secret) \in Int
    BY ConsentTypes DEF GrantInv, GrantTypes
<1>2. ASSUME UNCHANGED <<secret, issued>> PROVE secret' # None /\ issued'[secret'].consent >= issued[secret].consent
    BY <1>1, <1>2 DEF ConsentOf
<1>3. ASSUME NEW r \in Requester, NG!FlushWrite(r) \/ NG!Save(r)
      PROVE  secret' # None /\ issued'[secret'].consent >= issued[secret].consent
    <2>1. grant.unsaved # None /\ req[r].held = grant.unsaved.base /\ issued' = issued
        BY Zenon, <1>3 DEF NG!FlushWrite, NG!Save, NG!Inside, NG!At, NG!world, GrantInv, Relies
    <2>2. \E ok \in BOOLEAN : NG!Patch(req[r].held, grant.unsaved.pair, ok)
        BY Zenon, <1>3 DEF NG!FlushWrite, NG!Save
    <2>3. secret' = secret \/ (secret = grant.unsaved.base /\ secret' = grant.unsaved.pair)
        BY <2>1, <2>2 DEF NG!Patch
    <2>4. secret' # None /\ ConsentOf(secret') = ConsentOf(secret)
        BY <2>1, <2>3 DEF GrantInv, UnsavedLater, Issued, NG!GrantAssumption
    <2> QED BY <1>1, <2>1, <2>4 DEF ConsentOf
<1>4. ASSUME NEW r \in Requester, NG!Post(r) PROVE secret' # None /\ issued'[secret'].consent >= issued[secret].consent
    <2>1. secret' = secret /\ (UNCHANGED issued \/ NG!Rotate(req[r].tok)) /\ req[r].tok \in Issued
        BY <1>4, PostGrantFacts DEF NG!Post
    <2>2. issued'[secret].consent = ConsentOf(secret)
        BY <1>1, <2>1, Rotates DEF GrantInv, ConsentOf
    <2> QED BY <1>1, <2>1, <2>2 DEF ConsentOf
<1>5. CASE NG!Consent
    <2>0. PICK c \in 1 .. MaxConsent : issued' = Append(issued, [at |-> time, consent |-> c])
        BY <1>5 DEF NG!Consent
    <2>1. secret' = secret /\ Len(issued) < MaxPair
        BY <1>5 DEF NG!Consent
    <2>2. issued'[secret].consent = ConsentOf(secret)
        BY Zenon, <1>1, <2>0, <2>1, IssuedGrows DEF GrantInv, ConsentOf
    <2> QED BY <1>1, <2>1, <2>2 DEF ConsentOf
<1>6. CASE NG!Replace
    <2>1. issued' = issued /\ boot # None /\ secret' \in {secret, boot}
        BY <1>6 DEF NG!Replace
    <2>2. boot \in Issued /\ ConsentOf(secret) < ConsentOf(boot) /\ ConsentOf(boot) \in Int
        BY <1>1, <2>1, ConsentTypes DEF GrantInv, GrantTypes, BootUnseen
    <2> QED BY <1>1, <2>1, <2>2 DEF ConsentOf
<1>7. ASSUME NEW r \in Requester, NG!Begin(r) \/ NG!Enter(r) \/ NG!FlushRead(r) \/ NG!Check(r) \/ NG!Read(r) \/ NG!Forward(r) \/ NG!Invalidate(r)
      PROVE  UNCHANGED <<secret, issued>>
    BY <1>7 DEF NG!Begin, NG!Enter, NG!FlushRead, NG!Check, NG!Read, NG!Forward, NG!Invalidate, NG!world
<1>8. CASE NG!Crash \/ NG!Tick \/ NG!Revoke
    BY <1>2, <1>8 DEF NG!Crash, NG!Tick, NG!Revoke
<1> QED BY <1>2, <1>3, <1>4, <1>5, <1>6, <1>7, <1>8 DEF NG!GrantNext, NG!Step

LEMMA GrantTells == ASSUME NG!GrantAssumption, GrantInv PROVE NG!GrantTypeOK /\ NG!RefreshTokenUsable
<1>1. secret \in NG!MaybePair /\ boot \in NG!MaybePair
    BY DEF GrantInv, GrantTypes, Issued, NG!MaybePair, NG!Pair, NG!GrantAssumption
<1>2. grant.token \in NG!MaybePair /\ grant.rejected \in NG!MaybePair
    BY DEF GrantInv, GrantTypes, GrantRec
<1>3. grant.unsaved # None => grant.unsaved.base < grant.unsaved.pair
    BY DEF GrantInv, UnsavedLater
<1> QED BY <1>1, <1>2, <1>3 DEF GrantInv, GrantTypes, NG!GrantTypeOK, Locked

\* notion_grant.py: through failed, lost and conflicting writes of the Secret, lost
\* answers of the token endpoint, restarts and concurrent bootstrap runs, a refresh
\* starts from a token Notion still takes, unless a restart fell between two
\* rotations that were not saved, and the Secret never goes back to an older consent.
THEOREM GrantIsKept == ASSUME NG!GrantAssumption PROVE NG!GrantSpec => NG!NotionGrantKept
BY GrantTells, GrantInitOK, GrantStepOK, GrantStepKept, PTL DEF NG!GrantSpec, NG!NotionGrantKept

-----------------------------------------------------------------------------
(* HubAccess: a Secret whose resourceVersion is the one that was read is   *)
(* the one that was read, a staged token is never replaced, and a hub that *)
(* could be loaded sends nothing an instance would accept.                 *)

Listing == [Machine -> HA!Token \cup {None}]
Instance == [clients : Listing, version : Nat, upstream : [hub : HA!Hub \cup {"upstream"}, n : Nat]]

AccessTypes ==
    /\ instance \in [HubEnv -> Instance] /\ clientGrant \in [HubEnv -> Listing]
    /\ keyFile \in Listing /\ clients \in Listing \cup {None}
    /\ adding \in Machine \cup {None} /\ cutShort \subseteq Machine /\ mintedKeys \in 0 .. MaxMint

\* What an operator's run o goes by
Provisions(o) ==
    provRun[o] # None =>
        LET r == provRun[o] IN
        /\ {"env", "m", "pc", "value", "read"} \subseteq DOMAIN r
        /\ r.env \in HubEnv /\ r.m \in Machine
        /\ r.pc = "create" => r.value \in HA!Token
        /\ r.pc \in {"look", "patch"} => r.value \in HA!Token /\ r.value = clientGrant[r.env][r.m]
        /\ r.pc = "patch" =>
              /\ r.read \in Instance /\ r.read.clients[r.m] = None
              /\ r.read.version <= instance[r.env].version
              /\ r.read.version = instance[r.env].version => r.read = instance[r.env]

\* What the hub h that was loaded sends to its upstream
Sends(h) ==
    serving[h] # None => \A t \in serving[h].sends : h \in HubEnv /\ t.hub \notin HubEnv

AccessInv ==
    /\ AccessTypes
    /\ DOMAIN provRun = HubOperator /\ DOMAIN serving = HA!Hub
    /\ \A o \in HubOperator : Provisions(o)
    /\ \A h \in HA!Hub : Sends(h)
    /\ HA!GrantFits /\ HA!KeyListed
    /\ clients = None => cutShort = Machine

LEMMA AccessInitOK == ASSUME HA!AccessAssumption, HA!AccessInit PROVE AccessInv
<1>1. HA!Nobody \in Listing /\ \A m \in Machine : HA!Nobody[m] = None
    BY DEF HA!Nobody, Listing
<1>2. [clients |-> HA!Nobody, version |-> 0, upstream |-> [hub |-> "upstream", n |-> 0]] \in Instance
    BY <1>1 DEF Instance
<1>3. AccessTypes
    BY <1>1, <1>2 DEF HA!AccessInit, AccessTypes, HA!AccessAssumption
<1>4. HA!GrantFits /\ HA!KeyListed
    BY <1>1 DEF HA!AccessInit, HA!GrantFits, HA!KeyListed
<1>5. /\ DOMAIN provRun = HubOperator /\ DOMAIN serving = HA!Hub
      /\ \A o \in HubOperator : Provisions(o)
      /\ \A h \in HA!Hub : Sends(h)
    BY DEF HA!AccessInit, Provisions, Sends
<1>6. clients # None
    BY <1>1 DEF HA!AccessInit, HA!AccessAssumption, Listing
<1> QED BY <1>3, <1>4, <1>5, <1>6 DEF AccessInv

LEMMA RolloutKeeps ==
    ASSUME HA!AccessAssumption, AccessInv, NEW h \in HA!Hub, HA!Rollout(h)
    PROVE  AccessInv'
<1> USE DEF AccessInv
<1>1. UNCHANGED <<instance, clientGrant, keyFile, clients, provRun, adding, cutShort, mintedKeys>>
    BY DEF HA!Rollout
<1>2. AccessTypes' /\ HA!GrantFits' /\ HA!KeyListed'
    BY <1>1 DEF AccessTypes, HA!GrantFits, HA!KeyListed
<1>3. \A o \in HubOperator : Provisions(o)'
    BY <1>1 DEF Provisions
<1>4. /\ DOMAIN serving' = HA!Hub
      /\ \A g \in HA!Hub \ {h} : serving'[g] = serving[g]
    BY DEF HA!Rollout
<1>5. Sends(h)'
    <2>1. CASE h \in HubEnv /\ HA!Loadable(h)
        <3>1. serving'[h].sends = {instance[h].upstream}
            BY <2>1 DEF HA!Rollout
        <3> QED BY <2>1, <3>1 DEF Sends, HA!Loadable
    <2>2. CASE h \in HubEnv /\ ~HA!Loadable(h)
        BY <2>2 DEF HA!Rollout, Sends
    <2>3. CASE h \notin HubEnv
        <3>1. serving'[h] # None => serving'[h].sends = {}
            BY <2>3 DEF HA!Rollout
        <3> QED BY <3>1 DEF Sends
    <2> QED BY <2>1, <2>2, <2>3
<1>6. \A g \in HA!Hub : Sends(g)'
    BY <1>4, <1>5 DEF Sends
<1> QED BY <1>1, <1>2, <1>3, <1>4, <1>6

LEMMA ProvisionKeeps ==
    ASSUME HA!AccessAssumption, AccessInv, NEW o \in HubOperator, NEW e \in HubEnv, NEW m \in Machine,
           HA!Provision(o, e, m)
    PROVE  AccessInv'
<1> USE DEF AccessInv
<1>1. UNCHANGED <<instance, clientGrant, keyFile, clients, serving, adding, cutShort, mintedKeys>>
    BY DEF HA!Provision
<1>2. AccessTypes' /\ HA!GrantFits' /\ HA!KeyListed' /\ \A h \in HA!Hub : Sends(h)'
    BY <1>1 DEF AccessTypes, HA!GrantFits, HA!KeyListed, Sends
<1>3. /\ DOMAIN provRun' = HubOperator /\ \A p \in HubOperator \ {o} : provRun'[p] = provRun[p]
      /\ provRun'[o].env = e /\ provRun'[o].m = m /\ provRun'[o].pc = "staged"
      /\ {"env", "m", "pc", "value", "read"} \subseteq DOMAIN provRun'[o]
    BY DEF HA!Provision
<1>4. \A p \in HubOperator : Provisions(p)'
    BY <1>1, <1>3 DEF Provisions
<1> QED BY <1>1, <1>2, <1>3, <1>4

\* A run that ends leaves the others as they were
LEMMA EndsKeeps ==
    ASSUME NEW o \in HubOperator, DOMAIN provRun = HubOperator, HA!Ends(o),
           \A p \in HubOperator \ {o} : Provisions(p)'
    PROVE  DOMAIN provRun' = HubOperator /\ \A p \in HubOperator : Provisions(p)'
BY DEF HA!Ends, Provisions

LEMMA ReadStagedKeeps ==
    ASSUME HA!AccessAssumption, AccessInv, NEW o \in HubOperator, HA!ReadStaged(o)
    PROVE  AccessInv'
<1> USE DEF AccessInv
<1>1. UNCHANGED <<instance, clientGrant, keyFile, clients, serving, adding, cutShort>>
    BY DEF HA!ReadStaged
<1>2. mintedKeys' \in 0 .. MaxMint
    BY DEF HA!ReadStaged, AccessTypes, HA!AccessAssumption
<1>3. AccessTypes' /\ HA!GrantFits' /\ HA!KeyListed' /\ \A h \in HA!Hub : Sends(h)'
    BY <1>1, <1>2 DEF AccessTypes, HA!GrantFits, HA!KeyListed, Sends
<1>4. PICK r : r = provRun[o]
    OBVIOUS
<1>5. /\ r # None /\ r.env \in HubEnv /\ r.m \in Machine
      /\ {"env", "m", "pc", "value", "read"} \subseteq DOMAIN r
    BY <1>4 DEF HA!ReadStaged, Provisions
<1>6. clientGrant[r.env][r.m] \in HA!Token \cup {None}
    BY <1>5 DEF AccessTypes, Listing
<1>7. CASE HA!Ends(o)
    <2>1. \A p \in HubOperator \ {o} : Provisions(p)'
        BY <1>1, <1>7 DEF HA!Ends, Provisions
    <2> QED BY <1>1, <1>3, <1>7, <2>1, EndsKeeps
<1>8. CASE /\ mintedKeys < MaxMint
           /\ provRun' = [provRun EXCEPT ![o].value = HA!Minted(r.env), ![o].pc = "create"]
    <2>1. HA!Minted(r.env) \in HA!Token
        BY <1>5, <1>8 DEF HA!Minted, HA!Token, HA!Hub, AccessTypes, HA!AccessAssumption
    <2>2. provRun' = [provRun EXCEPT ![o] = [r EXCEPT !.value = HA!Minted(r.env), !.pc = "create"]]
        BY Zenon, <1>4, <1>8
    <2>3. PICK n : n = [r EXCEPT !.value = HA!Minted(r.env), !.pc = "create"]
        OBVIOUS
    <2>4. /\ n.env = r.env /\ n.m = r.m /\ n.pc = "create"
          /\ DOMAIN n = DOMAIN r /\ n.value = HA!Minted(r.env)
        BY <1>5, <2>3
    <2>5. DOMAIN provRun' = HubOperator /\ provRun'[o] = n /\ \A p \in HubOperator \ {o} : provRun'[p] = provRun[p]
        BY <2>2, <2>3
    <2>6. \A p \in HubOperator : Provisions(p)'
        BY <1>1, <1>5, <2>1, <2>4, <2>5 DEF Provisions
    <2> QED BY <1>1, <1>3, <2>5, <2>6
<1>9. CASE /\ clientGrant[r.env][r.m] # None
           /\ provRun' = [provRun EXCEPT ![o].value = clientGrant[r.env][r.m], ![o].pc = "look"]
    <2>2. provRun' = [provRun EXCEPT ![o] = [r EXCEPT !.value = clientGrant[r.env][r.m], !.pc = "look"]]
        BY Zenon, <1>4, <1>9
    <2>3. PICK n : n = [r EXCEPT !.value = clientGrant[r.env][r.m], !.pc = "look"]
        OBVIOUS
    <2>4. /\ n.env = r.env /\ n.m = r.m /\ n.pc = "look"
          /\ DOMAIN n = DOMAIN r /\ n.value = clientGrant[r.env][r.m]
        BY <1>5, <2>3
    <2>5. DOMAIN provRun' = HubOperator /\ provRun'[o] = n /\ \A p \in HubOperator \ {o} : provRun'[p] = provRun[p]
        BY <2>2, <2>3
    <2>6. \A p \in HubOperator : Provisions(p)'
        BY Zenon, <1>1, <1>5, <1>6, <1>9, <2>4, <2>5 DEF Provisions
    <2> QED BY <1>1, <1>3, <2>5, <2>6
<1> QED BY <1>4, <1>7, <1>8, <1>9 DEF HA!ReadStaged

LEMMA CreateStagedKeeps ==
    ASSUME HA!AccessAssumption, AccessInv, NEW o \in HubOperator, HA!CreateStaged(o)
    PROVE  AccessInv'
<1> USE DEF AccessInv
<1>1. UNCHANGED <<instance, keyFile, clients, serving, adding, cutShort, mintedKeys>>
    BY DEF HA!CreateStaged
<1>2. PICK r : r = provRun[o]
    OBVIOUS
<1>3. /\ r # None /\ r.env \in HubEnv /\ r.m \in Machine /\ r.value \in HA!Token
      /\ {"env", "m", "pc", "value", "read"} \subseteq DOMAIN r
    BY <1>2 DEF HA!CreateStaged, Provisions
<1>4. PICK t : t = clientGrant[r.env][r.m]
    OBVIOUS
<1>5. t \in HA!Token \cup {None}
    BY <1>3, <1>4 DEF AccessTypes, Listing
<1>6. PICK v : v = IF t = None THEN r.value ELSE t
    OBVIOUS
<1>7. v \in HA!Token
    BY <1>3, <1>5, <1>6
<1>8. PICK n : n = [r EXCEPT !.value = v, !.pc = "look"]
    OBVIOUS
<1>9. n.env = r.env /\ n.m = r.m /\ n.pc = "look" /\ n.value = v /\ DOMAIN n = DOMAIN r
    BY <1>3, <1>8
<1>10. provRun' = [provRun EXCEPT ![o] = n]
    BY Zenon, <1>2, <1>4, <1>6, <1>8 DEF HA!CreateStaged
<1>11. DOMAIN provRun' = HubOperator /\ provRun'[o] = n /\ \A p \in HubOperator \ {o} : provRun'[p] = provRun[p]
    BY <1>10
<1>12. /\ clientGrant' \in [HubEnv -> Listing] /\ clientGrant'[r.env][r.m] = v
       /\ \A e \in HubEnv, m \in Machine :
             clientGrant[e][m] # None => clientGrant'[e][m] = clientGrant[e][m]
    <2>1. CASE t = None
        <3>1. clientGrant' = [clientGrant EXCEPT ![r.env][r.m] = v]
            BY <1>2, <1>4, <1>6, <2>1 DEF HA!CreateStaged
        <3> QED BY Zenon, <1>3, <1>4, <1>7, <2>1, <3>1 DEF AccessTypes, Listing
    <2>2. CASE t # None
        BY <1>2, <1>4, <1>6, <2>2 DEF HA!CreateStaged, AccessTypes
    <2> QED BY <2>1, <2>2
<1>13. AccessTypes' /\ HA!KeyListed' /\ \A h \in HA!Hub : Sends(h)'
    BY <1>1, <1>12 DEF AccessTypes, HA!KeyListed, Sends
<1>14. HA!GrantFits'
    BY <1>1, <1>12 DEF HA!GrantFits
<1>15. Provisions(o)'
    BY <1>3, <1>7, <1>9, <1>11, <1>12 DEF Provisions
<1>16. ASSUME NEW p \in HubOperator \ {o} PROVE Provisions(p)'
    <2>1. provRun'[p] = provRun[p] /\ Provisions(p)
        BY <1>11
    <2>2. ASSUME provRun[p] # None, provRun[p].pc \in {"look", "patch"}
          PROVE  provRun[p].value = clientGrant'[provRun[p].env][provRun[p].m]
        <3>1. provRun[p].env \in HubEnv /\ provRun[p].m \in Machine /\ provRun[p].value \in HA!Token
              /\ provRun[p].value = clientGrant[provRun[p].env][provRun[p].m]
            BY <2>1, <2>2 DEF Provisions
        <3> QED BY <1>12, <3>1 DEF HA!AccessAssumption
    <2> QED BY <1>1, <2>1, <2>2 DEF Provisions
<1> QED BY <1>1, <1>11, <1>13, <1>14, <1>15, <1>16

LEMMA LookKeeps ==
    ASSUME HA!AccessAssumption, AccessInv, NEW o \in HubOperator, HA!Look(o)
    PROVE  AccessInv'
<1> USE DEF AccessInv
<1>1. UNCHANGED <<instance, clientGrant, keyFile, clients, serving, adding, cutShort, mintedKeys>>
    BY DEF HA!Look
<1>2. AccessTypes' /\ HA!GrantFits' /\ HA!KeyListed' /\ \A h \in HA!Hub : Sends(h)'
    BY <1>1 DEF AccessTypes, HA!GrantFits, HA!KeyListed, Sends
<1>3. PICK r : r = provRun[o]
    OBVIOUS
<1>4. /\ r # None /\ r.env \in HubEnv /\ r.m \in Machine
      /\ r.value \in HA!Token /\ r.value = clientGrant[r.env][r.m]
      /\ {"env", "m", "pc", "value", "read"} \subseteq DOMAIN r
    BY <1>3 DEF HA!Look, Provisions
<1>5. CASE HA!Ends(o)
    <2>1. \A p \in HubOperator \ {o} : Provisions(p)'
        BY <1>1, <1>5 DEF HA!Ends, Provisions
    <2> QED BY <1>1, <1>2, <1>5, <2>1, EndsKeeps
<1>6. CASE /\ instance[r.env].clients[r.m] = None
           /\ provRun' = [provRun EXCEPT ![o].read = instance[r.env], ![o].pc = "patch"]
    <2>1. PICK i : i = instance[r.env]
        OBVIOUS
    <2>2. i \in Instance /\ i.version \in Nat
        BY <1>4, <2>1 DEF AccessTypes, Instance
    <2>3. PICK n : n = [r EXCEPT !.read = i, !.pc = "patch"]
        OBVIOUS
    <2>4. /\ n.env = r.env /\ n.m = r.m /\ n.pc = "patch" /\ n.value = r.value /\ n.read = i
          /\ DOMAIN n = DOMAIN r
        BY <1>4, <2>3
    <2>5. provRun' = [provRun EXCEPT ![o] = n]
        BY Zenon, <1>3, <1>6, <2>1, <2>3
    <2>6. DOMAIN provRun' = HubOperator /\ provRun'[o] = n /\ \A p \in HubOperator \ {o} : provRun'[p] = provRun[p]
        BY <2>5
    <2>7. Provisions(o)'
        <3>1. /\ i.clients[r.m] = None /\ i.version <= i.version
              /\ instance'[n.env] = i /\ clientGrant'[n.env][n.m] = n.value
            BY <1>1, <1>4, <1>6, <2>1, <2>2, <2>4
        <3> QED BY <1>4, <2>2, <2>4, <2>6, <3>1 DEF Provisions
    <2>8. \A p \in HubOperator \ {o} : Provisions(p)'
        BY <1>1, <2>6 DEF Provisions
    <2> QED BY <1>1, <1>2, <2>6, <2>7, <2>8
<1> QED BY <1>3, <1>5, <1>6 DEF HA!Look

\* An instance's Secret is written with a later resourceVersion
LEMMA LaterVersionKeeps ==
    ASSUME NEW e \in HubEnv, NEW i \in Instance, NEW p \in HubOperator, AccessTypes, Provisions(p),
           instance' = [instance EXCEPT ![e] = i], i.version > instance[e].version,
           provRun'[p] = provRun[p], clientGrant' = clientGrant
    PROVE  Provisions(p)'
<1>1. i.version \in Nat /\ instance[e].version \in Nat
    BY DEF AccessTypes, Instance
<1>2. ASSUME provRun[p] # None, provRun[p].pc = "patch"
      PROVE  /\ provRun[p].read.version <= instance'[provRun[p].env].version
             /\ provRun[p].read.version = instance'[provRun[p].env].version => provRun[p].read = instance'[provRun[p].env]
    <2>1. /\ provRun[p].env \in HubEnv /\ provRun[p].read.version \in Nat
          /\ provRun[p].read.version <= instance[provRun[p].env].version
          /\ provRun[p].read.version = instance[provRun[p].env].version => provRun[p].read = instance[provRun[p].env]
        BY <1>2 DEF Provisions, Instance
    <2>2. CASE provRun[p].env = e
        BY <1>1, <2>1, <2>2 DEF AccessTypes
    <2>3. CASE provRun[p].env # e
        BY <2>1, <2>3 DEF AccessTypes
    <2> QED BY <2>2, <2>3
<1> QED BY <1>2 DEF Provisions

\* What an append that is applied writes
LEMMA AppendWrites ==
    ASSUME HA!AccessAssumption, AccessInv, NEW o \in HubOperator, provRun[o] # None, provRun[o].pc = "patch",
           HA!PatchGuard(provRun[o]), instance' = [instance EXCEPT ![provRun[o].env] = HA!Appended(provRun[o])]
    PROVE  /\ provRun[o].env \in HubEnv /\ provRun[o].m \in Machine
           /\ instance[provRun[o].env].clients[provRun[o].m] = None
           /\ provRun[o].value \in HA!Token /\ provRun[o].value = clientGrant[provRun[o].env][provRun[o].m]
           /\ HA!Appended(provRun[o]) \in Instance
           /\ HA!Appended(provRun[o]).version = instance[provRun[o].env].version + 1
           /\ HA!Appended(provRun[o]).upstream = instance[provRun[o].env].upstream
           /\ HA!Appended(provRun[o]).clients
                 = [instance[provRun[o].env].clients EXCEPT ![provRun[o].m] = provRun[o].value]
<1> USE DEF AccessInv
<1>1. PICK r : r = provRun[o]
    OBVIOUS
<1>2. /\ r.env \in HubEnv /\ r.m \in Machine
      /\ r.value \in HA!Token /\ r.value = clientGrant[r.env][r.m]
      /\ r.read = instance[r.env] /\ r.read \in Instance /\ r.read.clients[r.m] = None
    BY <1>1 DEF Provisions, HA!PatchGuard
<1>3. PICK i : i = r.read
    OBVIOUS
<1>4. i \in [clients : Listing, version : Nat, upstream : [hub : HA!Hub \cup {"upstream"}, n : Nat]]
    BY <1>2, <1>3 DEF Instance
<1>5. PICK c : c = [i.clients EXCEPT ![r.m] = r.value]
    BY Zenon
<1>6. c \in Listing
    BY <1>2, <1>4, <1>5 DEF Listing
<1>7. HA!Appended(r) = [i EXCEPT !.clients = c, !.version = i.version + 1]
    BY <1>3, <1>5 DEF HA!Appended
<1>8. HA!Appended(r) = [clients |-> c, version |-> i.version + 1, upstream |-> i.upstream]
    BY Zenon, <1>4, <1>7
<1>9. HA!Appended(r) \in Instance
    BY <1>4, <1>6, <1>8 DEF Instance
<1> QED BY <1>1, <1>2, <1>3, <1>5, <1>8, <1>9

LEMMA AppendKeeps ==
    ASSUME HA!AccessAssumption, AccessInv, NEW o \in HubOperator, provRun[o] # None, provRun[o].pc = "patch",
           HA!PatchGuard(provRun[o]), instance' = [instance EXCEPT ![provRun[o].env] = HA!Appended(provRun[o])],
           HA!Ends(o), UNCHANGED <<clientGrant, keyFile, clients, serving, adding, cutShort, mintedKeys>>
    PROVE  AccessInv'
<1>1. PICK i : i = HA!Appended(provRun[o])
    OBVIOUS
<1>2. PICK e : e = provRun[o].env
    OBVIOUS
<1>3. PICK m : m = provRun[o].m
    OBVIOUS
<1>4. /\ e \in HubEnv /\ m \in Machine /\ i \in Instance /\ i.version = instance[e].version + 1
      /\ i.clients = [instance[e].clients EXCEPT ![m] = clientGrant[e][m]]
      /\ instance' = [instance EXCEPT ![e] = i]
    BY Zenon, <1>1, <1>2, <1>3, AppendWrites
<1> USE DEF AccessInv
<1>5. AccessTypes'
    BY Zenon, <1>4 DEF AccessTypes
<1>6. i.version > instance[e].version
    BY <1>4 DEF AccessTypes, Instance
<1>7. \A p \in HubOperator \ {o} : provRun'[p] = provRun[p]
    BY DEF HA!Ends
<1>8. \A p \in HubOperator \ {o} : Provisions(p)'
    BY Zenon, <1>4, <1>6, <1>7, LaterVersionKeeps
<1>9. HA!GrantFits'
    <2>1. instance[e].clients \in Listing
        BY <1>4 DEF AccessTypes, Instance
    <2> QED BY <1>4, <2>1 DEF HA!GrantFits, AccessTypes, Listing
<1>10. HA!KeyListed' /\ \A h \in HA!Hub : Sends(h)'
    BY DEF HA!KeyListed, Sends
<1>11. DOMAIN provRun' = HubOperator /\ \A p \in HubOperator : Provisions(p)'
    BY <1>8, EndsKeeps
<1> QED BY <1>5, <1>9, <1>10, <1>11

LEMMA PatchKeeps ==
    ASSUME HA!AccessAssumption, AccessInv, NEW o \in HubOperator, HA!Patch(o) \/ HA!PatchLost(o)
    PROVE  AccessInv'
<1>1. provRun[o] # None /\ provRun[o].pc = "patch"
    BY DEF HA!Patch, HA!PatchLost
<1>2. UNCHANGED <<clientGrant, keyFile, clients, serving, adding, cutShort, mintedKeys>>
    BY DEF HA!Patch, HA!PatchLost
<1>3. CASE /\ HA!PatchGuard(provRun[o]) /\ HA!Ends(o)
           /\ instance' = [instance EXCEPT ![provRun[o].env] = HA!Appended(provRun[o])]
    BY Zenon, <1>1, <1>2, <1>3, AppendKeeps
<1>4. CASE /\ provRun' = [provRun EXCEPT ![o].tries = @ + 1, ![o].read = None, ![o].pc = "look"]
           /\ UNCHANGED instance
    <2> USE DEF AccessInv
    <2>1. PICK r : r = provRun[o]
        OBVIOUS
    <2>2. /\ r.env \in HubEnv /\ r.m \in Machine
          /\ r.value \in HA!Token /\ r.value = clientGrant[r.env][r.m]
          /\ {"env", "m", "pc", "value", "read"} \subseteq DOMAIN r
        BY <1>1, <2>1 DEF Provisions
    <2>3. PICK n : n = [r EXCEPT !.tries = @ + 1, !.read = None, !.pc = "look"]
        OBVIOUS
    <2>4. n.env = r.env /\ n.m = r.m /\ n.pc = "look" /\ n.value = r.value /\ DOMAIN n = DOMAIN r
        BY <2>2, <2>3
    <2>5. provRun' = [provRun EXCEPT ![o] = n]
        BY Zenon, <1>4, <2>1, <2>3
    <2>6. DOMAIN provRun' = HubOperator /\ provRun'[o] = n /\ \A p \in HubOperator \ {o} : provRun'[p] = provRun[p]
        BY <2>5
    <2>7. \A p \in HubOperator : Provisions(p)'
        BY ZenonT(60), <1>2, <1>4, <2>2, <2>4, <2>6 DEF Provisions
    <2>8. AccessTypes' /\ HA!GrantFits' /\ HA!KeyListed' /\ \A h \in HA!Hub : Sends(h)'
        BY <1>2, <1>4 DEF AccessTypes, HA!GrantFits, HA!KeyListed, Sends
    <2> QED BY <1>2, <2>6, <2>7, <2>8
<1> QED BY <1>3, <1>4 DEF HA!Patch, HA!PatchLost

LEMMA KilledKeeps ==
    ASSUME HA!AccessAssumption, AccessInv, NEW o \in HubOperator, HA!Killed(o)
    PROVE  AccessInv'
<1> USE DEF AccessInv
<1>1. UNCHANGED <<instance, clientGrant, keyFile, clients, serving, adding, cutShort, mintedKeys>>
    BY DEF HA!Killed
<1>2. AccessTypes' /\ HA!GrantFits' /\ HA!KeyListed' /\ \A h \in HA!Hub : Sends(h)'
    BY <1>1 DEF AccessTypes, HA!GrantFits, HA!KeyListed, Sends
<1>3. \A p \in HubOperator \ {o} : Provisions(p)'
    BY <1>1 DEF HA!Killed, HA!Ends, Provisions
<1> QED BY <1>1, <1>2, <1>3, EndsKeeps DEF HA!Killed

\* A step of add-client.py, or of the owner's at the PCs' files
LEMMA FilesKeep ==
    ASSUME HA!AccessAssumption, AccessInv,
           \/ \E m \in Machine : HA!AddClient(m)
           \/ HA!Register \/ HA!AddCut \/ HA!Restore
    PROVE  AccessInv'
<1> USE DEF AccessInv
<1>1. UNCHANGED <<instance, clientGrant, serving, provRun>>
    BY DEF HA!AddClient, HA!Register, HA!AddCut, HA!Restore
<1>2. /\ \A o \in HubOperator : Provisions(o)'
      /\ \A h \in HA!Hub : Sends(h)'
      /\ HA!GrantFits'
    BY <1>1 DEF Provisions, Sends, HA!GrantFits
<1>3. HA!Nobody \in Listing
    BY DEF HA!Nobody, Listing
<1>4. CASE \E m \in Machine : HA!AddClient(m)
    <2>1. PICK m \in Machine : HA!AddClient(m)
        BY <1>4
    <2>2. keyFile' \in Listing /\ mintedKeys' \in 0 .. MaxMint
        <3>1. CASE mintedKeys < MaxMint /\ mintedKeys' = mintedKeys + 1
                   /\ keyFile' = [keyFile EXCEPT ![m] = HA!Minted(HA!Legacy)]
            <4>1. HA!Minted(HA!Legacy) \in HA!Token
                BY <3>1 DEF HA!Minted, HA!Token, HA!Hub, AccessTypes, HA!AccessAssumption
            <4> QED BY <3>1, <4>1 DEF AccessTypes, Listing, HA!AccessAssumption
        <3>2. CASE UNCHANGED <<mintedKeys, keyFile>>
            BY <3>2 DEF AccessTypes
        <3> QED BY <2>1, <3>1, <3>2 DEF HA!AddClient
    <2>3. clients' = clients /\ adding' = m
        BY <2>1 DEF HA!AddClient
    <2>4. /\ cutShort \subseteq cutShort' /\ cutShort' \subseteq cutShort \cup {m}
          /\ m \in cutShort' \/ keyFile' = keyFile
        BY <2>1 DEF HA!AddClient
    <2>5. \A k \in Machine \ {m} : keyFile'[k] = keyFile[k]
        BY <2>1 DEF HA!AddClient, AccessTypes, Listing
    <2>6. AccessTypes'
        BY <1>1, <2>2, <2>3, <2>4 DEF AccessTypes
    <2>7. HA!KeyListed' /\ (clients' = None => cutShort' = Machine)
        BY <2>3, <2>4, <2>5 DEF HA!KeyListed, AccessTypes
    <2> QED BY <1>1, <1>2, <2>6, <2>7
<1>5. CASE HA!Register
    <2>1. adding \in Machine /\ clients \in Listing /\ keyFile[adding] \in HA!Token \cup {None}
        BY <1>5 DEF HA!Register, AccessTypes, Listing
    <2>2. clients' \in Listing
        BY <1>5, <2>1 DEF HA!Register, Listing
    <2>3. AccessTypes'
        BY <1>1, <1>5, <2>2 DEF HA!Register, AccessTypes
    <2>4. clients' # None
        BY <2>2 DEF HA!AccessAssumption, Listing
    <2>5. HA!KeyListed'
        BY <1>5, <2>1 DEF HA!Register, HA!KeyListed, Listing
    <2> QED BY <1>1, <1>2, <2>3, <2>4, <2>5
<1>6. CASE HA!AddCut
    <2>1. AccessTypes'
        BY <1>1, <1>6 DEF HA!AddCut, AccessTypes
    <2>2. HA!KeyListed' /\ (clients' = None => cutShort' = Machine)
        BY <1>6 DEF HA!AddCut, HA!KeyListed
    <2> QED BY <1>1, <1>2, <2>1, <2>2
<1>7. CASE HA!Restore
    <2>1. AccessTypes'
        BY <1>1, <1>3, <1>7 DEF HA!Restore, AccessTypes
    <2>2. clients' # None
        BY <1>3, <1>7 DEF HA!Restore, HA!AccessAssumption, Listing
    <2>3. HA!KeyListed'
        BY <1>7 DEF HA!Restore, HA!KeyListed
    <2> QED BY <1>1, <1>2, <2>1, <2>2, <2>3
<1> QED BY <1>4, <1>5, <1>6, <1>7

\* A write of the owner's to an instance's Secret
LEMMA OwnerWriteKeeps ==
    ASSUME HA!AccessAssumption, AccessInv, NEW e \in HubEnv, NEW i \in Instance,
           instance' = [instance EXCEPT ![e] = i], i.version > instance[e].version,
           \A m \in Machine : i.clients[m] \in {None, instance[e].clients[m]},
           UNCHANGED <<clientGrant, keyFile, clients, serving, provRun, adding, cutShort, mintedKeys>>
    PROVE  AccessInv'
<1> USE DEF AccessInv
<1>1. AccessTypes'
    BY DEF AccessTypes
<1>2. \A p \in HubOperator : Provisions(p)'
    BY Zenon, LaterVersionKeeps
<1>3. HA!GrantFits'
    BY DEF HA!GrantFits, AccessTypes
<1>4. HA!KeyListed' /\ \A h \in HA!Hub : Sends(h)'
    BY DEF HA!KeyListed, Sends
<1> QED BY <1>1, <1>2, <1>3, <1>4

LEMMA RevokeKeeps ==
    ASSUME HA!AccessAssumption, AccessInv, NEW e \in HubEnv, NEW m \in Machine, HA!Revoke(e, m)
    PROVE  AccessInv'
<1>1. PICK j : j = instance[e]
    OBVIOUS
<1>2. j \in [clients : Listing, version : Nat, upstream : [hub : HA!Hub \cup {"upstream"}, n : Nat]]
    BY <1>1 DEF AccessInv, AccessTypes, Instance
<1>3. PICK c : c = [j.clients EXCEPT ![m] = None]
    BY Zenon
<1>4. c \in Listing /\ \A k \in Machine : c[k] \in {None, j.clients[k]}
    BY <1>2, <1>3 DEF Listing
<1>5. PICK i : i = [j EXCEPT !.clients = c, !.version = j.version + 1]
    OBVIOUS
<1>6. i = [clients |-> c, version |-> j.version + 1, upstream |-> j.upstream]
    BY Zenon, <1>2, <1>5
<1>7. i \in Instance /\ i.version > j.version /\ i.clients = c
    BY <1>2, <1>4, <1>6 DEF Instance
<1>8. instance' = [instance EXCEPT ![e] = i]
    BY Zenon, <1>1, <1>3, <1>5 DEF HA!Revoke
<1>9. UNCHANGED <<clientGrant, keyFile, clients, serving, provRun, adding, cutShort, mintedKeys>>
    BY DEF HA!Revoke
<1> QED BY Zenon, <1>1, <1>4, <1>7, <1>8, <1>9, OwnerWriteKeeps

LEMMA MisplaceKeeps ==
    ASSUME HA!AccessAssumption, AccessInv, NEW t \in HA!Token, HA!Misplace(t)
    PROVE  AccessInv'
<1>1. UNCHANGED <<clientGrant, clients, serving, provRun, adding, mintedKeys>>
    BY DEF HA!Misplace
<1>2. CASE /\ \E e \in HubEnv : instance' = [instance EXCEPT ![e].upstream = t, ![e].version = @ + 1]
           /\ UNCHANGED <<keyFile, cutShort>>
    <2>1. PICK e \in HubEnv : instance' = [instance EXCEPT ![e].upstream = t, ![e].version = @ + 1]
        BY Zenon, <1>2
    <2>2. PICK j : j = instance[e]
        OBVIOUS
    <2>3. j \in [clients : Listing, version : Nat, upstream : [hub : HA!Hub \cup {"upstream"}, n : Nat]]
        BY <2>2 DEF AccessInv, AccessTypes, Instance
    <2>4. PICK i : i = [j EXCEPT !.upstream = t, !.version = j.version + 1]
        OBVIOUS
    <2>5. i = [clients |-> j.clients, version |-> j.version + 1, upstream |-> t]
        BY Zenon, <2>3, <2>4
    <2>6. t \in [hub : HA!Hub \cup {"upstream"}, n : Nat]
        BY DEF HA!Token, HA!AccessAssumption
    <2>7. i \in Instance /\ i.version > j.version /\ i.clients = j.clients
        BY <2>3, <2>5, <2>6 DEF Instance
    <2>8. instance' = [instance EXCEPT ![e] = i]
        BY Zenon, <2>1, <2>2, <2>4
    <2> QED BY Zenon, <1>1, <1>2, <2>2, <2>7, <2>8, OwnerWriteKeeps
<1>3. CASE /\ \E m \in Machine : keyFile' = [keyFile EXCEPT ![m] = t] /\ cutShort' = cutShort \cup {m}
           /\ UNCHANGED instance
    <2> USE DEF AccessInv
    <2>1. PICK m \in Machine : keyFile' = [keyFile EXCEPT ![m] = t] /\ cutShort' = cutShort \cup {m}
        BY Zenon, <1>3
    <2>2. AccessTypes'
        BY <1>1, <1>3, <2>1 DEF AccessTypes, Listing
    <2>3. HA!KeyListed' /\ (clients' = None => cutShort' = Machine)
        BY <1>1, <2>1 DEF HA!KeyListed, AccessTypes, Listing
    <2>4. HA!GrantFits' /\ \A h \in HA!Hub : Sends(h)'
        BY <1>1, <1>3 DEF HA!GrantFits, Sends
    <2>5. \A o \in HubOperator : Provisions(o)'
        BY <1>1, <1>3 DEF Provisions
    <2> QED BY <1>1, <2>2, <2>3, <2>4, <2>5
<1> QED BY Zenon, <1>2, <1>3 DEF HA!Misplace

LEMMA AccessStepKeeps ==
    ASSUME HA!AccessAssumption, AccessInv, [HA!AccessNext]_HA!accvars
    PROVE  AccessInv'
<1>1. CASE UNCHANGED HA!accvars
    BY <1>1 DEF HA!accvars, AccessInv, AccessTypes, Provisions, Sends, HA!GrantFits, HA!KeyListed
<1>2. CASE \E h \in HA!Hub : HA!Rollout(h)
    BY <1>2, RolloutKeeps
<1>3. ASSUME NEW o \in HubOperator,
             \/ \E e \in HubEnv, m \in Machine : HA!Provision(o, e, m)
             \/ HA!Step(o) \/ HA!PatchLost(o) \/ HA!Killed(o)
      PROVE  AccessInv'
    BY <1>3, ProvisionKeeps, ReadStagedKeeps, CreateStagedKeeps, LookKeeps, PatchKeeps, KilledKeeps
    DEF HA!Step
<1>4. CASE \/ \E m \in Machine : HA!AddClient(m)
           \/ HA!Register \/ HA!AddCut \/ HA!Restore
    BY <1>4, FilesKeep
<1>5. CASE \E e \in HubEnv, m \in Machine : HA!Revoke(e, m)
    BY <1>5, RevokeKeeps
<1>6. CASE \E t \in HA!Token : HA!Misplace(t)
    BY <1>6, MisplaceKeeps
<1> QED BY <1>1, <1>2, <1>3, <1>4, <1>5, <1>6 DEF HA!AccessNext

LEMMA AccessTells == ASSUME AccessInv PROVE HA!AccessTypeOK /\ HA!OneHubEach /\ HA!GrantFits /\ HA!KeyListed
<1>1. HA!AccessTypeOK
    BY DEF AccessInv, AccessTypes, Instance, Listing, HA!AccessTypeOK
<1>2. HA!OneHubEach
    BY DEF AccessInv, Sends, HA!OneHubEach, HA!Accepts
<1> QED BY <1>1, <1>2 DEF AccessInv

\* What an append that is applied changes
LEMMA AppendOthersKept ==
    ASSUME HA!AccessAssumption, AccessInv, NEW e \in HubEnv, NEW m \in Machine, NEW o \in HubOperator,
           HA!Patch(o) \/ HA!PatchLost(o), instance'[e].clients[m] # instance[e].clients[m]
    PROVE  /\ instance[e].clients[m] = None
           /\ instance'[e].upstream = instance[e].upstream
           /\ provRun[o] # None /\ provRun[o].m = m /\ provRun[o].env = e
<1>1. provRun[o] # None /\ provRun[o].pc = "patch"
    BY DEF HA!Patch, HA!PatchLost
<1>2. HA!PatchGuard(provRun[o]) /\ instance' = [instance EXCEPT ![provRun[o].env] = HA!Appended(provRun[o])]
    BY DEF HA!Patch, HA!PatchLost
<1>3. PICK i : i = HA!Appended(provRun[o])
    OBVIOUS
<1>4. /\ provRun[o].env \in HubEnv /\ provRun[o].m \in Machine
      /\ instance[provRun[o].env].clients[provRun[o].m] = None
      /\ i.upstream = instance[provRun[o].env].upstream
      /\ i.clients = [instance[provRun[o].env].clients EXCEPT ![provRun[o].m] = provRun[o].value]
      /\ instance' = [instance EXCEPT ![provRun[o].env] = i]
    BY Zenon, <1>1, <1>2, <1>3, AppendWrites
<1>5. instance \in [HubEnv -> Instance] /\ instance[e].clients \in Listing
    BY DEF AccessInv, AccessTypes, Instance
<1>6. provRun[o].env = e
    BY <1>4, <1>5
<1>7. instance'[e] = i
    BY <1>4, <1>5, <1>6
<1>8. provRun[o].m = m
    BY <1>4, <1>5, <1>6, <1>7 DEF Listing
<1> QED BY <1>1, <1>4, <1>6, <1>7, <1>8

LEMMA OthersAreKept == ASSUME HA!AccessAssumption, AccessInv PROVE HA!OthersKept
BY AppendOthersKept DEF HA!OthersKept

\* Every registered digest is that of the token staged for its machine, and an
\* operator's append touches no other client, however many provision at a time (HubAccess).
THEOREM AccessIsSound == ASSUME HA!AccessAssumption PROVE HA!AccessSpec => HA!HubAccessSound
<1>1. HA!AccessInit => AccessInv
    BY AccessInitOK
<1>2. AccessInv /\ [HA!AccessNext]_HA!accvars => AccessInv'
    BY AccessStepKeeps
<1>3. AccessInv => HA!AccessTypeOK /\ HA!OneHubEach /\ HA!GrantFits /\ HA!KeyListed
    BY AccessTells
<1>4. AccessInv => HA!OthersKept
    BY OthersAreKept
<1> QED BY <1>1, <1>2, <1>3, <1>4, PTL DEF HA!AccessSpec, HA!HubAccessSound

-----------------------------------------------------------------------------
(* GoogleGrant: whoever is past the consent holds a grant that passed the  *)
(* checks of its path, and nothing else is ever written.                   *)

Grants == [run : ConsentRun, acct : Account, whole : BOOLEAN]

Bootstrap ==
    [pc : {"consent", "read", "write", "seal", "replace", "done", "failed", "killed"},
     grant : Grants \cup {None}, version : Nat \cup {None}]

\* A run past its consent, and its temporary file
Careful(r) ==
    /\ consentRun[r].pc \in {"read", "write", "seal", "replace"} => GG!Consents(r, consentRun[r].grant)
    /\ consentRun[r].pc = "write" => consentRun[r].version \in Nat /\ PathOf[r] = "instance"
    /\ consentRun[r].pc = "replace" => sealTemp[r] = "sealed"
    /\ sealTemp[r] = "plain" => consentRun[r].pc \in {"seal", "killed"}

IsWhole(g) == g.whole
OwnersWhole(g) == g.whole /\ g.acct = Owner

GoogleInv ==
    /\ consentRun \in [ConsentRun -> Bootstrap]
    /\ sealTemp \in [ConsentRun -> {"plain", "sealed", None}]
    /\ \A r \in ConsentRun : Careful(r)
    /\ grantSecret # None => grantSecret.version \in Nat /\ OwnersWhole(grantSecret.grant)
    /\ grantFile # None => grantFile.form = "sealed" /\ IsWhole(grantFile.grant)

LEMMA GoogleInitOK == ASSUME GG!GoogleInit, GG!GoogleAssumption PROVE GoogleInv
BY DEF GG!GoogleAssumption, GG!GoogleInit, GoogleInv, Bootstrap, Careful

LEMMA ConsentsAre == ASSUME NEW r \in ConsentRun, NEW g, GG!Consents(r, g)
    PROVE IsWhole(g) /\ (PathOf[r] = "instance" => OwnersWhole(g))
BY Zenon DEF GG!Consents, IsWhole, OwnersWhole

\* A run that goes on, with or without its temporary file, and writes nothing else.
LEMMA BootKeeps ==
    ASSUME GoogleInv, NEW r \in ConsentRun, NEW new \in Bootstrap, NEW t \in {"plain", "sealed", None},
           consentRun' = [consentRun EXCEPT ![r] = new], sealTemp' = [sealTemp EXCEPT ![r] = t], Careful(r)'
    PROVE  /\ consentRun' \in [ConsentRun -> Bootstrap] /\ sealTemp' \in [ConsentRun -> {"plain", "sealed", None}]
           /\ \A q \in ConsentRun : Careful(q)'
<1>1. consentRun' \in [ConsentRun -> Bootstrap] /\ sealTemp' \in [ConsentRun -> {"plain", "sealed", None}]
    BY DEF GoogleInv
<1>2. ASSUME NEW q \in ConsentRun \ {r} PROVE Careful(q)'
    <2>1. consentRun'[q] = consentRun[q] /\ sealTemp'[q] = sealTemp[q] BY DEF GoogleInv
    <2> QED BY <2>1 DEF GoogleInv, Careful
<1> QED BY <1>1, <1>2

LEMMA GoogleStepKeeps == ASSUME GoogleInv, None # "plain", NEW r \in ConsentRun, GG!BootStep(r) PROVE GoogleInv'
<1>1. consentRun[r] \in Bootstrap /\ Careful(r) /\ sealTemp[r] \in {"plain", "sealed", None}
    BY DEF GoogleInv
<1>2. sealTemp = [sealTemp EXCEPT ![r] = sealTemp[r]]
    BY DEF GoogleInv
<1>3. ASSUME NEW new \in Bootstrap, consentRun' = [consentRun EXCEPT ![r] = new]
      PROVE  consentRun'[r] = new
    BY <1>3 DEF GoogleInv
<1>4. ASSUME NEW t \in {"plain", "sealed", None}, sealTemp' = [sealTemp EXCEPT ![r] = t]
      PROVE  sealTemp'[r] = t
    BY <1>4 DEF GoogleInv
<1>5. ASSUME NEW p \in {"failed", "killed", "done", "seal", "replace"},
             consentRun' = [consentRun EXCEPT ![r].pc = p]
      PROVE  \E new \in Bootstrap : /\ consentRun' = [consentRun EXCEPT ![r] = new]
                                    /\ new.pc = p /\ new.grant = consentRun[r].grant /\ new.version = consentRun[r].version
    <2>1. PICK new : new = [consentRun[r] EXCEPT !.pc = p] BY Zenon
    <2>2. new \in Bootstrap /\ new.pc = p /\ new.grant = consentRun[r].grant /\ new.version = consentRun[r].version
        BY <1>1, <2>1 DEF Bootstrap
    <2>3. consentRun' = [consentRun EXCEPT ![r] = new] BY <1>5, <2>1 DEF GoogleInv
    <2> QED BY Zenon, <2>2, <2>3
<1>6. ASSUME NEW p \in {"failed", "killed"}, consentRun' = [consentRun EXCEPT ![r].pc = p],
             UNCHANGED <<grantSecret, grantFile>>, sealTemp' = sealTemp \/ sealTemp' = [sealTemp EXCEPT ![r] = None],
             p = "failed" => sealTemp[r] # "plain" \/ sealTemp' = [sealTemp EXCEPT ![r] = None]
      PROVE  GoogleInv'
    <2>2. PICK new \in Bootstrap : /\ consentRun' = [consentRun EXCEPT ![r] = new] /\ new.pc = p
        BY Zenon, <1>5, <1>6
    <2>3. PICK t \in {"plain", "sealed", None} : sealTemp' = [sealTemp EXCEPT ![r] = t] /\ (t = None \/ t = sealTemp[r])
        BY <1>1, <1>2, <1>6
    <2>4. consentRun'[r].pc = p /\ sealTemp'[r] = t
        BY Zenon, <1>3, <1>4, <2>2, <2>3
    <2>5. t = "plain" => p = "killed"
        BY <1>6, <2>3, <1>4, None # "plain"
    <2>6. Careful(r)'
        BY <2>4, <2>5 DEF Careful
    <2> QED BY Zenon, <2>2, <2>3, <2>6, BootKeeps, <1>6 DEF GoogleInv
<1>7. CASE GG!Authorized(r)
    <2>0. consentRun[r].pc = "consent" /\ UNCHANGED <<grantSecret, grantFile, sealTemp>>
        BY <1>7 DEF GG!Authorized
    <2>1. CASE GG!Fails(r)
        BY <2>0, <2>1, <1>1, <1>6 DEF Careful, GG!Fails
    <2>2. ASSUME NEW a \in Account, NEW w \in BOOLEAN, GG!Consents(r, GG!Grant(r, a, w)),
                 consentRun' = [consentRun EXCEPT ![r] = [pc |-> "read", grant |-> GG!Grant(r, a, w), version |-> None]]
          PROVE  GoogleInv'
        <3>1. GG!Grant(r, a, w) \in Grants BY Zenon, <2>2 DEF Grants, GG!Grant
        <3>2. PICK new : new = [pc |-> "read", grant |-> GG!Grant(r, a, w), version |-> None] BY Zenon
        <3>3. new \in Bootstrap /\ new.pc = "read" /\ new.grant = GG!Grant(r, a, w) BY <3>1, <3>2 DEF Bootstrap
        <3>4. consentRun'[r] = new BY Zenon, <1>3, <2>2, <3>2, <3>3
        <3>5. GG!Consents(r, GG!Grant(r, a, w))' <=> GG!Consents(r, GG!Grant(r, a, w)) BY DEF GG!Consents, GG!Grant
        <3>6. sealTemp'[r] # "plain" BY <1>1, <2>0 DEF Careful
        <3>7. Careful(r)' BY <2>2, <3>3, <3>4, <3>6 DEF Careful, GG!Consents
        <3> QED BY Zenon, <1>1, <1>2, <2>0, <2>2, <3>2, <3>3, <3>7, BootKeeps DEF GoogleInv
    <2> QED BY <1>7, <2>1, <2>2 DEF GG!Authorized
<1>8. CASE GG!Refused(r)
    BY <1>8, <1>1, <1>6 DEF GG!Refused, GG!Fails, Careful
<1>9. CASE GG!ReadSecret(r)
    <2>0. consentRun[r].pc = "read" /\ PathOf[r] = "instance" /\ UNCHANGED <<grantSecret, grantFile, sealTemp>>
        BY <1>9 DEF GG!ReadSecret
    <2>1. CASE GG!Fails(r)
        BY <2>0, <2>1, <1>1, <1>6 DEF Careful, GG!Fails
    <2>2. PICK v : v = IF grantSecret = None THEN 0 ELSE grantSecret.version OBVIOUS
    <2>3. CASE consentRun' = [consentRun EXCEPT ![r].pc = "write", ![r].version = v]
        <3>0. v \in Nat BY <2>2 DEF GoogleInv
        <3>1. PICK new : new = [consentRun[r] EXCEPT !.pc = "write", !.version = v] OBVIOUS
        <3>2. new \in Bootstrap /\ new.pc = "write" /\ new.version = v /\ new.grant = consentRun[r].grant
            BY Zenon, <1>1, <3>0, <3>1 DEF Bootstrap
        <3>3. consentRun' = [consentRun EXCEPT ![r] = new] BY Zenon, <2>3, <3>1 DEF GoogleInv
        <3>4. consentRun'[r] = new BY Zenon, <1>3, <3>2, <3>3
        <3>5. Careful(r)' BY <1>1, <2>0, <3>0, <3>2, <3>4 DEF Careful, GG!Consents
        <3> QED BY Zenon, <1>1, <1>2, <2>0, <3>2, <3>3, <3>5, BootKeeps DEF GoogleInv
    <2> QED BY <1>9, <2>1, <2>2, <2>3 DEF GG!ReadSecret
<1>10. CASE GG!WriteSecret(r)
    <2>0. consentRun[r].pc = "write" /\ PathOf[r] = "instance" /\ UNCHANGED <<grantFile, sealTemp>>
        BY <1>10 DEF GG!WriteSecret
    <2>1. CASE GG!Fails(r) /\ UNCHANGED grantSecret
        BY <2>0, <2>1, <1>1, <1>6 DEF Careful, GG!Fails
    <2>2. CASE /\ grantSecret' = [grant |-> consentRun[r].grant, version |-> consentRun[r].version + 1]
               /\ consentRun' = [consentRun EXCEPT ![r].pc = "done"]
        <3>1. PICK new \in Bootstrap : consentRun' = [consentRun EXCEPT ![r] = new] /\ new.pc = "done"
            BY Zenon, <1>5, <2>2
        <3>2. consentRun'[r].pc = "done" BY Zenon, <1>3, <3>1
        <3>3. Careful(r)' BY <1>1, <2>0, <3>2 DEF Careful
        <3>4. OwnersWhole(consentRun[r].grant) /\ consentRun[r].version \in Nat
            BY <1>1, <2>0, ConsentsAre DEF Careful
        <3>5. grantSecret'.version \in Nat /\ OwnersWhole(grantSecret.grant)'
            BY <2>2, <3>4 DEF OwnersWhole
        <3> QED BY Zenon, <1>1, <1>2, <2>0, <3>1, <3>3, <3>5, BootKeeps DEF GoogleInv, IsWhole
    <2> QED BY <1>10, <2>1, <2>2 DEF GG!WriteSecret
<1>11. CASE GG!WriteTemp(r)
    <2>1. PICK new \in Bootstrap : /\ consentRun' = [consentRun EXCEPT ![r] = new]
                                   /\ new.pc = "seal" /\ new.grant = consentRun[r].grant
        BY Zenon, <1>5, <1>11 DEF GG!WriteTemp
    <2>2. consentRun'[r] = new /\ sealTemp'[r] = "plain" BY Zenon, <1>3, <1>4, <1>11, <2>1 DEF GG!WriteTemp
    <2>3. Careful(r)' BY <1>1, <1>11, <2>1, <2>2 DEF GG!WriteTemp, Careful, GG!Consents
    <2> QED BY Zenon, <1>11, <2>1, <2>3, BootKeeps DEF GG!WriteTemp, GoogleInv
<1>12. CASE GG!Seal(r)
    <2>1. CASE GG!Fails(r) /\ sealTemp' = [sealTemp EXCEPT ![r] = None]
        BY <1>6, <1>12, <2>1 DEF GG!Seal, GG!Fails
    <2>2. CASE sealTemp' = [sealTemp EXCEPT ![r] = "sealed"] /\ consentRun' = [consentRun EXCEPT ![r].pc = "replace"]
        <3>1. PICK new \in Bootstrap : /\ consentRun' = [consentRun EXCEPT ![r] = new]
                                       /\ new.pc = "replace" /\ new.grant = consentRun[r].grant
            BY Zenon, <1>5, <2>2
        <3>2. consentRun'[r] = new /\ sealTemp'[r] = "sealed" BY Zenon, <1>3, <1>4, <2>2, <3>1
        <3>3. Careful(r)' BY <1>1, <1>12, <3>1, <3>2 DEF GG!Seal, Careful, GG!Consents
        <3> QED BY Zenon, <1>12, <2>2, <3>1, <3>3, BootKeeps DEF GG!Seal, GoogleInv
    <2> QED BY <1>12, <2>1, <2>2 DEF GG!Seal
<1>13. CASE GG!Replace(r)
    <2>1. PICK new \in Bootstrap : consentRun' = [consentRun EXCEPT ![r] = new] /\ new.pc = "done"
        BY Zenon, <1>5, <1>13 DEF GG!Replace
    <2>2. consentRun'[r] = new /\ sealTemp'[r] = None BY Zenon, <1>3, <1>4, <1>13, <2>1 DEF GG!Replace
    <2>3. Careful(r)' BY <2>1, <2>2, None # "plain" DEF Careful
    <2>4. IsWhole(consentRun[r].grant) /\ sealTemp[r] = "sealed"
        BY <1>1, <1>13, ConsentsAre DEF GG!Replace, Careful
    <2>5. grantFile'.form = "sealed" /\ IsWhole(grantFile.grant)' BY <1>13, <2>4 DEF GG!Replace, IsWhole
    <2>6. grantSecret' = grantSecret /\ sealTemp' = [sealTemp EXCEPT ![r] = None] BY <1>13 DEF GG!Replace
    <2> QED BY Zenon, <2>1, <2>3, <2>5, <2>6, BootKeeps DEF GoogleInv, OwnersWhole
<1>14. CASE GG!Killed(r)
    BY <1>6, <1>14 DEF GG!Killed
<1> QED BY <1>7, <1>8, <1>9, <1>10, <1>11, <1>12, <1>13, <1>14 DEF GG!BootStep

LEMMA GoogleKeeps == ASSUME GoogleInv, GG!GoogleAssumption, [GG!GoogleNext]_(GG!gvars) PROVE GoogleInv'
<1>1. CASE UNCHANGED GG!gvars
    BY <1>1 DEF GG!gvars, GoogleInv, Careful, IsWhole, OwnersWhole, GG!Consents
<1> QED BY <1>1, GoogleStepKeeps DEF GG!GoogleNext, GG!GoogleAssumption

LEMMA GoogleTells == ASSUME GoogleInv PROVE GG!GoogleTypeOK /\ GG!StoredWhole
<1>1. GG!GoogleTypeOK
    BY DEF GoogleInv, Bootstrap, GG!GoogleTypeOK
<1>2. GG!StoredWhole
    BY DEF GoogleInv, Careful, IsWhole, OwnersWhole, GG!StoredWhole
<1> QED BY <1>1, <1>2

\* Only a run whose version is the Secret's writes it.
LEMMA SecretSeen == ASSUME GoogleInv, [GG!GoogleNext]_(GG!gvars) PROVE [GG!NoneOverwritten]_(GG!gvars)
<1> SUFFICES ASSUME GG!GoogleNext, grantSecret' # grantSecret, grantSecret # None
             PROVE  \E q \in ConsentRun : grantSecret'.grant = consentRun[q].grant /\ consentRun[q].version = grantSecret.version
    BY DEF GG!NoneOverwritten
<1>1. PICK r \in ConsentRun : GG!WriteSecret(r)
    BY DEF GG!GoogleNext, GG!BootStep, GG!Authorized, GG!Refused, GG!ReadSecret, GG!WriteTemp, GG!Seal, GG!Replace, GG!Killed
<1>2. grantSecret' = [grant |-> consentRun[r].grant, version |-> consentRun[r].version + 1] /\ consentRun[r].version = grantSecret.version
    BY <1>1 DEF GG!WriteSecret, GG!Current
<1> QED BY <1>2

-----------------------------------------------------------------------------
(* BlueprintCheck: what a payload went through before the run left it.     *)

Online == layer3 = TRUE

\* What the server said of the payload, or why it was not asked
Passed(k) == IF answers[k] = None THEN ~BC!HasToken(blueprints[k]) ELSE ~BC!Rejects(answers[k])

\* The verdict of a payload that the run has left without a violation
Cleared(k) == BC!CheckPayload(blueprints[k]) /\ (Online => Passed(k))

Sent(k) == Online /\ blueprints[k].decodes /\ BC!CheckPayload(blueprints[k])

BlueprintInv ==
    /\ blueprints \in Secrets /\ layer3 \in BOOLEAN
    /\ bpos \in Nat \ {0}
    /\ answers \in [DOMAIN blueprints -> ServerAnswers \cup {None}]
    /\ local = "ok" => bpos \in DOMAIN blueprints /\ Sent(bpos)
    /\ \A k \in DOMAIN blueprints :
          /\ k >= bpos => answers[k] = None
          /\ answers[k] # None => Sent(k)
          /\ k < bpos => k \notin BC!Found \/ k \in violations \/ Cleared(k)
    /\ bexit = 0 => BC!Found # {} /\ violations = {} /\ bpos > Len(blueprints)

\* What was said of a payload goes with its answer only.
LEMMA SameVerdict ==
    ASSUME blueprints' = blueprints, layer3' = layer3, NEW k
    PROVE  /\ Sent(k)' <=> Sent(k)
           /\ (BC!Found)' = BC!Found
           /\ answers'[k] = answers[k] => (Cleared(k)' <=> Cleared(k))
           /\ BC!CheckPayload(blueprints'[k]) <=> BC!CheckPayload(blueprints[k])
<1>1. Online' <=> Online
    BY DEF Online
<1>2. BC!CheckPayload(blueprints'[k]) <=> BC!CheckPayload(blueprints[k])
    OBVIOUS
<1>3. answers'[k] = answers[k] => (Passed(k)' <=> Passed(k))
    BY DEF Passed
<1>4. (BC!Found)' = BC!Found
    BY DEF BC!Found
<1>5. blueprints'[k].decodes <=> blueprints[k].decodes
    OBVIOUS
<1> QED BY Zenon, <1>1, <1>2, <1>3, <1>4, <1>5 DEF Sent, Cleared

LEMMA BlueprintInitOK ==
    ASSUME BC!BlueprintAssumption, BC!BlueprintInit PROVE BlueprintInv
<1>1. layer3 \in BOOLEAN /\ blueprints \in Secrets /\ bpos = 1 /\ local = None /\ bexit = None /\ answers = [k \in DOMAIN blueprints |-> None]
    BY DEF BC!BlueprintInit
<1>2. \A k \in DOMAIN blueprints : k \in Nat /\ k >= 1
    BY <1>1 DEF BC!BlueprintAssumption
<1> QED BY <1>1, <1>2 DEF BlueprintInv, BC!BlueprintAssumption

LEMMA BlueprintKeeps ==
    ASSUME BC!BlueprintAssumption, BlueprintInv, [BC!BlueprintNext]_(BC!blueprintVars)
    PROVE  BlueprintInv'
<1>0. /\ blueprints \in Secrets /\ Len(blueprints) \in Nat /\ DOMAIN blueprints = 1 .. Len(blueprints)
      /\ bpos \in Nat \ {0} /\ answers \in [DOMAIN blueprints -> ServerAnswers \cup {None}]
      /\ None # "ok" /\ None # 0 /\ None \notin ServerAnswers
    BY DEF BlueprintInv, BC!BlueprintAssumption
<1>b. PICK b : b = bpos OBVIOUS
\* A payload that is left: its verdict stands, and so do those before it.
<1>1. ASSUME blueprints' = blueprints, layer3' = layer3, bpos' = bpos + 1, local' = None, bexit' = bexit, bexit # 0,
             bpos \in DOMAIN blueprints, answers' \in [DOMAIN blueprints -> ServerAnswers \cup {None}],
             \A k \in DOMAIN blueprints \ {bpos} : answers'[k] = answers[k],
             answers'[bpos] # None => Sent(bpos),
             violations \subseteq violations',
             bpos \notin BC!Found \/ bpos \in violations' \/ Cleared(b)'
      PROVE  BlueprintInv'
    <2>1. ASSUME NEW k \in DOMAIN blueprints
          PROVE  /\ k >= bpos + 1 => answers'[k] = None
                 /\ answers'[k] # None => Sent(k)'
                 /\ k < bpos + 1 => k \notin (BC!Found)' \/ k \in violations' \/ Cleared(k)'
        <3>1. (Sent(k)' <=> Sent(k)) /\ (BC!Found)' = BC!Found BY <1>1, SameVerdict
        <3>2. k \in Nat BY <1>0, <1>b, <2>1
        <3>3. CASE k = bpos
            BY <1>0, <1>b, <1>1, <3>1, <3>2, <3>3
        <3>4. CASE k # bpos
            <4>1. answers'[k] = answers[k] /\ (Cleared(k)' <=> Cleared(k)) BY <1>1, <1>b, <2>1, <3>4, SameVerdict
            <4>2. /\ k >= bpos => answers[k] = None
                  /\ answers[k] # None => Sent(k)
                  /\ k < bpos => k \notin BC!Found \/ k \in violations \/ Cleared(k)
                BY <2>1 DEF BlueprintInv
            <4> QED BY <1>0, <1>b, <1>1, <3>1, <3>2, <3>4, <4>1, <4>2
        <3> QED BY <3>3, <3>4
    <2> QED BY <1>0, <1>b, <1>1, <2>1 DEF BlueprintInv
<1>7. CASE BC!Skip
    <2>1. /\ bexit = None /\ bpos \in DOMAIN blueprints /\ BC!NextPayload /\ UNCHANGED <<blueprints, layer3, violations, answers, bexit>>
          /\ answers[bpos] = None /\ bpos \notin BC!Found
        BY <1>0, <1>b, <1>7 DEF BC!Skip, BC!Running, BlueprintInv
    <2> QED BY <1>0, <1>b, <1>1, <2>1 DEF BC!NextPayload
<1>2. CASE BC!Local
    <2>0. /\ bexit = None /\ bpos \in DOMAIN blueprints /\ UNCHANGED <<blueprints, layer3, answers, bexit>>
          /\ answers[bpos] = None /\ blueprints[bpos].decodes
        BY <1>0, <1>b, <1>2 DEF BC!Local, BC!Running, BC!Found, BlueprintInv
    <2>. layer3 <=> Online BY DEF Online, BlueprintInv
    <2>1. CASE BC!CheckPayload(blueprints[bpos]) /\ Online
        <3>1. local' = "ok" /\ bpos' = bpos /\ violations' = violations
            BY <1>2, <2>1 DEF BC!Local, BC!Violates
        <3>2. \A k \in DOMAIN blueprints : (Sent(k)' <=> Sent(k)) /\ (Cleared(k)' <=> Cleared(k))
            BY <2>0, SameVerdict
        <3>3. Sent(bpos) BY <2>0, <2>1 DEF Sent
        <3>4. (BC!Found)' = BC!Found BY <2>0, SameVerdict
        <3> QED BY <1>0, <1>b, <2>0, <3>1, <3>2, <3>3, <3>4 DEF BlueprintInv
    <2>2. CASE ~(BC!CheckPayload(blueprints[bpos]) /\ Online)
        <3>1. BC!NextPayload /\ BC!Violates(~BC!CheckPayload(blueprints[bpos]))
            BY <1>2, <2>2 DEF BC!Local
        <3>2. bpos \in violations' \/ Cleared(b)'
            <4>1. CASE ~BC!CheckPayload(blueprints[bpos]) BY <1>b, <3>1, <4>1 DEF BC!Violates
            <4>2. CASE BC!CheckPayload(blueprints[bpos]) /\ ~Online BY <1>b, <2>0, <4>2, SameVerdict DEF Cleared
            <4> QED BY <2>2, <4>1, <4>2
        <3> QED BY <1>0, <1>b, <1>1, <2>0, <3>1, <3>2 DEF BC!NextPayload, BC!Violates
    <2> QED BY <2>1, <2>2
<1>3. CASE BC!NoCredential
    <2>1. /\ bexit = None /\ local = "ok" /\ ~BC!HasToken(blueprints[bpos]) /\ BC!NextPayload
          /\ UNCHANGED <<blueprints, layer3, violations, answers, bexit>>
        BY <1>3 DEF BC!NoCredential, BC!Running
    <2>2. bpos \in DOMAIN blueprints /\ Sent(bpos) /\ answers[bpos] = None
        BY <1>0, <1>b, <2>1 DEF BlueprintInv
    <2>3. Cleared(b)'
        <3>1. Cleared(b) BY <1>b, <2>1, <2>2 DEF Cleared, Sent, Passed
        <3> QED BY <1>b, <2>1, <3>1, SameVerdict
    <2> QED BY <1>0, <1>b, <1>1, <2>1, <2>2, <2>3 DEF BC!NextPayload
<1>4. CASE BC!DryRun
    <2>1. /\ bexit = None /\ local = "ok" /\ BC!NextPayload /\ UNCHANGED <<blueprints, layer3, bexit>>
        BY <1>4 DEF BC!DryRun, BC!Running
    <2>2. PICK a \in ServerAnswers : answers' = [answers EXCEPT ![bpos] = a] /\ BC!Violates(BC!Rejects(a))
        BY Zenon, <1>4 DEF BC!DryRun
    <2>3. bpos \in DOMAIN blueprints /\ Sent(bpos)
        BY <2>1 DEF BlueprintInv
    <2>4. answers'[bpos] = a /\ a # None
        BY <1>0, <1>b, <2>2, <2>3
    <2>5. bpos \in violations' \/ Cleared(b)'
        <3>1. CASE BC!Rejects(a) BY <1>b, <2>2, <3>1 DEF BC!Violates
        <3>2. CASE ~BC!Rejects(a)
            <4>1. Passed(b)' BY <1>b, <2>1, <2>4, <3>2 DEF Passed
            <4>2. BC!CheckPayload(blueprints'[b]) BY <1>b, <2>1, <2>3, SameVerdict DEF Sent
            <4> QED BY Zenon, <4>1, <4>2 DEF Cleared
        <3> QED BY <3>1, <3>2
    <2> QED BY <1>0, <1>b, <1>1, <2>1, <2>2, <2>3, <2>5 DEF BC!NextPayload, BC!Violates
<1>5. CASE BC!Finish
    <2>1. /\ bpos > Len(blueprints) /\ bexit' = BC!ExitCode
          /\ UNCHANGED <<blueprints, layer3, bpos, local, violations, answers>>
        BY <1>5 DEF BC!Finish
    <2>2. \A k \in DOMAIN blueprints : (Sent(k)' <=> Sent(k)) /\ (Cleared(k)' <=> Cleared(k))
        BY <2>1, SameVerdict
    <2>3. (Sent(bpos)' <=> Sent(bpos)) /\ (BC!Found)' = BC!Found BY <2>1, SameVerdict
    <2> QED BY <1>0, <1>b, <2>1, <2>2, <2>3 DEF BC!ExitCode, BlueprintInv
<1>6. CASE UNCHANGED BC!blueprintVars
    BY <1>6 DEF BC!blueprintVars, BlueprintInv, BC!Found, Sent, Cleared, Passed, Online
<1> QED BY <1>2, <1>3, <1>4, <1>5, <1>6, <1>7 DEF BC!BlueprintNext

\* What check_payload() accepts resolves.
LEMMA CheckedResolves == ASSUME NEW p, BC!CheckPayload(p) PROVE BC!Resolvable(p)
<1>0. p.parses /\ p.shaped
    BY Zenon DEF BC!CheckPayload
<1>1. PICK es : es = p.entries OBVIOUS
<1>2. SUFFICES ASSUME NEW i \in DOMAIN es, NEW e, e = es[i]
      PROVE  /\ e.absent => ~e.attrs
             /\ BC!BadRef \notin e.refs
             /\ \A id \in BC!Ids(es) \cup {None} :
                   BC!KeyOf(id) \in e.refs => id # None /\ \E j \in DOMAIN es : es[j].id = id
             /\ \A j \in DOMAIN es : es[j].absent =>
                   /\ BC!KeyOf(es[j].id) \notin e.refs
                   /\ \A x \in es[j].idents : BC!Find(es[j].model, x) \notin e.refs
    BY Zenon, <1>0, <1>1 DEF BC!Resolvable
<1>3. BC!EntryOk(es, e)
    BY Zenon, <1>1, <1>2 DEF BC!CheckPayload
<1>4. e.absent => ~e.attrs
    BY Zenon, <1>3 DEF BC!EntryOk
<1>5. ASSUME NEW id, BC!KeyOf(id) \in e.refs PROVE id \in BC!Ids(es) /\ id \notin BC!AbsentIds(es)
    <2>1. BC!KeyOf(id).t = "KeyOf" /\ BC!KeyOf(id).id = id BY DEF BC!KeyOf
    <2>2. BC!CheckKeyOf(es, BC!KeyOf(id)) BY <1>3, <1>5, <2>1 DEF BC!EntryOk
    <2> QED BY <2>1, <2>2 DEF BC!CheckKeyOf
<1>6. ASSUME NEW m, NEW x, BC!Find(m, x) \in e.refs, NEW j \in DOMAIN es, es[j].model = m, x \in es[j].idents
      PROVE  ~es[j].absent
    <2>1. BC!Find(m, x).t = "Find" /\ BC!Find(m, x).model = m /\ BC!Find(m, x).ident = x BY DEF BC!Find
    <2>2. BC!CheckFind(es, BC!Find(m, x)) BY <1>3, <1>6, <2>1 DEF BC!EntryOk
    <2>3. j \in BC!Siblings(es, BC!Find(m, x)) BY <1>6, <2>1 DEF BC!Siblings
    <2> QED BY Zenon, <2>2, <2>3 DEF BC!CheckFind
<1>7. BC!BadRef \notin e.refs
    <2>1. BC!BadRef.t = "bad" BY DEF BC!BadRef
    <2> QED BY <1>3, <2>1 DEF BC!EntryOk
<1>8. \A id \in BC!Ids(es) : id # None /\ \E j \in DOMAIN es : es[j].id = id
    BY DEF BC!Ids
<1>9. ASSUME NEW j \in DOMAIN es, es[j].absent PROVE BC!KeyOf(es[j].id) \notin e.refs
    <2>1. SUFFICES ASSUME BC!KeyOf(es[j].id) \in e.refs PROVE FALSE OBVIOUS
    <2>2. es[j].id # None BY <1>5, <1>8, <2>1
    <2>3. es[j].id \in BC!AbsentIds(es) BY Zenon, <1>9, <2>2 DEF BC!AbsentIds
    <2> QED BY <1>5, <2>1, <2>3
<1> QED BY Zenon, <1>4, <1>5, <1>6, <1>7, <1>8, <1>9

LEMMA BlueprintIsTrue == ASSUME BC!BlueprintAssumption, BlueprintInv PROVE BC!GreenIsTrue /\ BC!OnlySoundSent
<1>1. BC!OnlySoundSent
    <2>1. layer3 <=> Online BY DEF Online, BlueprintInv
    <2> QED BY Zenon, <2>1, CheckedResolves DEF BlueprintInv, BC!OnlySoundSent, BC!Found, Sent
<1>2. ASSUME bexit = 0, NEW k \in BC!Found PROVE Cleared(k)
    BY <1>2 DEF BC!Found, BlueprintInv, BC!BlueprintAssumption
<1>3. ASSUME NEW a, ~BC!Rejects(a) PROVE a.status = 405 \/ (a.success /\ ~a.imported)
    BY Zenon, <1>3 DEF BC!Rejects
<1>4. BC!GreenIsTrue
    <2>1. layer3 <=> Online BY DEF Online, BlueprintInv
    <2>2. bexit = 0 => BC!Found # {} BY DEF BlueprintInv
    <2>3. ASSUME bexit = 0, NEW k \in BC!Found
          PROVE  /\ BC!Resolvable(blueprints[k])
                 /\ layer3 => IF answers[k] = None THEN ~BC!HasToken(blueprints[k])
                              ELSE answers[k].status = 405 \/ (answers[k].success /\ ~answers[k].imported)
        BY Zenon, <1>2, <1>3, <2>1, <2>3, CheckedResolves DEF Cleared, Passed
    <2> QED BY Zenon, <2>2, <2>3 DEF BC!GreenIsTrue
<1> QED BY <1>1, <1>4

-----------------------------------------------------------------------------
(* Provisioning: what a run registered stays registered.  Until two        *)
(* homelab runs cross, all that hub, proxy, Secrets and runs hold is of one *)
(* pair of tokens; after that, what a `grants` run staged is registered.   *)

Commands == {"grants", "github", "inputs"}
Places == Commands \cup {"rest", "mint", "upstream", "hub", "model", "key", "patch", "stage", "put", "digest"}
OperatorRun ==
    [pc : Places, cmd : Commands \cup {None}, seen : PR!Grant \cup {None}, up : Nat \cup {None}, fresh : BOOLEAN]

ProvisionTypes ==
    /\ site \in {"homelab", "work"}
    /\ grants \in PR!Grant \cup {None} /\ stagedInputs \in PR!Grant \cup {None} /\ heldGrants \in PR!Grant \cup {None}
    /\ upstream \in Nat \cup {None}
    /\ hubreg \in PR!Registration \cup {None} /\ (site = "homelab" => hubreg # None)
    /\ keys \subseteq Nat
    /\ oprun \in [Provisioner -> OperatorRun]
    /\ finished \in BOOLEAN /\ crossed \in BOOLEAN /\ minted \in Nat

\* The hub and the model proxy take the pair p
Registered(p) == hubreg # None /\ hubreg.client = p /\ p \in keys

\* All is of one pair: that of the grants
OnePair ==
    ~crossed =>
        /\ hubreg # None /\ hubreg.client # None => grants # None /\ hubreg.client = grants.pair
        /\ \A k \in keys : grants # None /\ k = grants.pair
        /\ stagedInputs # None => grants # None /\ stagedInputs.pair = grants.pair
        /\ backend = "running" => grants # None /\ heldGrants.pair = grants.pair

StagedRegistered ==
    /\ stagedInputs # None /\ site = "homelab" /\ (crossed => stagedInputs.github = None) => Registered(stagedInputs.pair)
    /\ backend = "running" =>
          heldGrants # None /\ (site = "homelab" /\ (crossed => heldGrants.github = None) => Registered(heldGrants.pair))

WorkOk ==
    site = "work" =>
        /\ ~crossed
        /\ hubreg # None => hubreg.client # None /\ upstream # None /\ hubreg.upstream = upstream
        /\ stagedInputs # None => grants # None /\ stagedInputs = grants /\ grants.github # None
        /\ finished => grants # None /\ Registered(grants.pair)

WorkRunOk(r) ==
    /\ oprun[r].pc \in {"upstream", "hub", "model", "key"} =>
           oprun[r].seen # None /\ grants # None /\ oprun[r].seen.pair = grants.pair
    /\ oprun[r].pc = "hub" => oprun[r].up # None /\ oprun[r].up = upstream
    /\ oprun[r].pc \in {"model", "key"} => hubreg # None
    /\ oprun[r].pc = "patch" => oprun[r].seen # None /\ oprun[r].seen.github = None
    /\ oprun[r].pc = "stage" => oprun[r].seen # None /\ oprun[r].seen = grants /\ oprun[r].seen.github # None
    /\ oprun[r].pc \in {"inputs", "stage"} => oprun[r].cmd # "grants"

HomeRunOk(r) ==
    /\ oprun[r].pc \in {"put", "model", "key", "digest", "inputs"} => oprun[r].seen # None
    /\ oprun[r].pc \in {"put", "model", "key", "digest", "inputs"} /\ ~crossed =>
           \/ grants # None /\ oprun[r].seen.pair = grants.pair
           \/ oprun[r].pc = "put" /\ oprun[r].fresh
    /\ oprun[r].pc \in {"put", "inputs"} /\ oprun[r].cmd # "grants" => stagedInputs # None /\ oprun[r].seen.github # None
    /\ oprun[r].pc \in {"model", "key", "digest"} => oprun[r].cmd = "grants"
    /\ oprun[r].pc = "grants" => oprun[r].cmd = "grants"
    /\ oprun[r].pc = "github" => oprun[r].cmd # "grants"
    /\ oprun[r].pc = "digest" => oprun[r].seen.pair \in keys
    /\ oprun[r].pc = "inputs" /\ (crossed => oprun[r].cmd = "grants") => Registered(oprun[r].seen.pair)

RunOk(r) == IF site = "homelab" THEN HomeRunOk(r) ELSE WorkRunOk(r)

ProvisionInv ==
    /\ ProvisionTypes /\ OnePair /\ StagedRegistered /\ WorkOk
    /\ \A r \in Provisioner : RunOk(r)

\* What no step takes back
Grows ==
    /\ site' = site /\ (crossed => crossed')
    /\ ~crossed' /\ grants # None => grants' # None /\ grants'.pair = grants.pair
    /\ site = "work" /\ grants # None /\ grants.github # None => grants' = grants
    /\ stagedInputs # None => stagedInputs' # None
    /\ keys \subseteq keys'
    /\ upstream # None => upstream' = upstream
    /\ hubreg # None => hubreg' # None /\ (hubreg.client # None => hubreg'.client = hubreg.client)

LEMMA ProvisionInitOK == ASSUME PR!ProvisionAssumption, PR!ProvisionInit PROVE ProvisionInv
<1>1. PICK h : h = [client |-> None, upstream |-> None] BY Zenon
<1>2. h \in PR!Registration /\ h # None /\ h.client = None
    BY <1>1 DEF PR!Registration, PR!ProvisionAssumption
<1>3. hubreg = IF site = "homelab" THEN h ELSE None
    BY <1>1 DEF PR!ProvisionInit
<1>4. PICK w : w = PR!Rest OBVIOUS
<1>5. w \in OperatorRun /\ w.pc = "rest"
    BY <1>4 DEF PR!Rest, OperatorRun, Places
<1>6. oprun = [r \in Provisioner |-> w]
    BY <1>4 DEF PR!ProvisionInit
<1>7. ProvisionTypes
    BY <1>2, <1>3, <1>5, <1>6 DEF PR!ProvisionInit, ProvisionTypes
<1>8. OnePair /\ StagedRegistered /\ WorkOk
    BY <1>2, <1>3 DEF PR!ProvisionInit, OnePair, StagedRegistered, WorkOk
<1>9. \A r \in Provisioner : RunOk(r)
    BY <1>5, <1>6 DEF RunOk, HomeRunOk, WorkRunOk
<1> QED BY <1>7, <1>8, <1>9 DEF ProvisionInv

LEMMA StaysRegistered == ASSUME Grows, NEW p, p # None, Registered(p) PROVE Registered(p)'
BY DEF Grows, Registered

LEMMA PairOf == ASSUME PR!ProvisionAssumption, NEW g \in PR!Grant PROVE g.pair \in Nat /\ g.pair # None
BY DEF PR!ProvisionAssumption, PR!Grant

\* The Secrets and the pod, when only the grants and the searxng token grow
LEMMA SiteStays ==
    ASSUME ProvisionInv, PR!ProvisionAssumption, Grows, site = "work" => ~crossed',
           UNCHANGED <<hubreg, keys, stagedInputs, backend, heldGrants, finished>>
    PROVE  OnePair' /\ StagedRegistered' /\ WorkOk'
<1>1. ProvisionTypes /\ OnePair /\ StagedRegistered /\ WorkOk
    BY DEF ProvisionInv
<1>2. \A p : Registered(p)' <=> Registered(p)
    BY DEF Registered
<1>3. OnePair'
    BY <1>1 DEF Grows, OnePair
<1>4. StagedRegistered'
    BY <1>1, <1>2 DEF Grows, StagedRegistered
<1>5. WorkOk'
    BY <1>1, <1>2 DEF Grows, WorkOk
<1> QED BY <1>3, <1>4, <1>5

\* A step of one run
LEMMA ProvisionMoves ==
    ASSUME ProvisionInv, PR!ProvisionAssumption, NEW r \in Provisioner, NEW new,
           oprun' = [oprun EXCEPT ![r] = new], ProvisionTypes', Grows, RunOk(r)', OnePair', StagedRegistered', WorkOk'
    PROVE  ProvisionInv'
<1>1. ASSUME NEW q \in Provisioner \ {r} PROVE RunOk(q)'
    <2>0. oprun'[q] = oprun[q] /\ oprun[q] \in OperatorRun /\ RunOk(q)
        BY DEF ProvisionInv, ProvisionTypes
    <2>1. oprun[q].seen # None => oprun[q].seen.pair # None
        BY <2>0, PairOf DEF OperatorRun
    <2>2. oprun[q].seen # None /\ Registered(oprun[q].seen.pair) => Registered(oprun[q].seen.pair)'
        BY <2>0, <2>1, StaysRegistered
    <2>3. CASE site = "homelab"
        <3>1. HomeRunOk(q) BY <2>0, <2>3 DEF RunOk
        <3>2. HomeRunOk(q)' BY <2>0, <2>2, <3>1 DEF HomeRunOk, Grows
        <3> QED BY <2>3, <3>2 DEF RunOk, Grows
    <2>4. CASE site # "homelab"
        <3>1. site' = "work" /\ site = "work" BY <2>4 DEF Grows, ProvisionInv, ProvisionTypes
        <3>2. WorkRunOk(q) /\ ~crossed' BY <2>0, <2>4, <3>1 DEF RunOk, WorkOk
        <3>3. WorkRunOk(q)' BY <2>0, <3>1, <3>2 DEF WorkRunOk, Grows
        <3> QED BY <3>1, <3>3 DEF RunOk
    <2> QED BY <2>3, <2>4
<1> QED BY <1>1 DEF ProvisionInv

\* What the record of a run is after Step and See
LEMMA RunStep ==
    ASSUME ProvisionInv, NEW r \in Provisioner, NEW p \in Places, PR!Step(r, p)
    PROVE  \E new \in OperatorRun : /\ oprun' = [oprun EXCEPT ![r] = new] /\ oprun'[r] = new
                                    /\ new.pc = p /\ new.seen = oprun[r].seen /\ new.cmd = oprun[r].cmd
                                    /\ new.up = oprun[r].up /\ new.fresh = oprun[r].fresh
<1>1. oprun \in [Provisioner -> OperatorRun] /\ oprun[r] \in OperatorRun BY DEF ProvisionInv, ProvisionTypes
<1>2. PICK new : new = [oprun[r] EXCEPT !.pc = p] BY Zenon
<1>3. /\ new \in OperatorRun /\ new.pc = p /\ new.seen = oprun[r].seen /\ new.cmd = oprun[r].cmd
      /\ new.up = oprun[r].up /\ new.fresh = oprun[r].fresh
    BY <1>1, <1>2 DEF OperatorRun
<1>4. oprun' = [oprun EXCEPT ![r] = new] BY <1>1, <1>2 DEF PR!Step
<1> QED BY Zenon, <1>1, <1>3, <1>4

LEMMA RunSees ==
    ASSUME ProvisionInv, NEW r \in Provisioner, NEW p \in Places, NEW g \in PR!Grant \cup {None}, PR!See(r, p, g)
    PROVE  \E new \in OperatorRun : /\ oprun' = [oprun EXCEPT ![r] = new] /\ oprun'[r] = new
                                    /\ new.pc = p /\ new.seen = g /\ new.cmd = oprun[r].cmd /\ new.up = oprun[r].up
<1>1. oprun \in [Provisioner -> OperatorRun] /\ oprun[r] \in OperatorRun BY DEF ProvisionInv, ProvisionTypes
<1>2. PICK new : new = [oprun[r] EXCEPT !.pc = p, !.seen = g] OBVIOUS
<1>3. new \in OperatorRun /\ new.pc = p /\ new.seen = g /\ new.cmd = oprun[r].cmd /\ new.up = oprun[r].up
    BY Zenon, <1>1, <1>2 DEF OperatorRun
<1>4. oprun' = [oprun EXCEPT ![r] = new] BY Zenon, <1>1, <1>2 DEF PR!See
<1> QED BY Zenon, <1>1, <1>3, <1>4

LEMMA RunRests ==
    ASSUME ProvisionInv, NEW r \in Provisioner, PR!Quit(r)
    PROVE  \E new \in OperatorRun : /\ oprun' = [oprun EXCEPT ![r] = new] /\ RunOk(r)'
<1>1. oprun \in [Provisioner -> OperatorRun] BY DEF ProvisionInv, ProvisionTypes
<1>2. PICK new : new = PR!Rest OBVIOUS
<1>3. new \in OperatorRun /\ new.pc = "rest" BY <1>2 DEF PR!Rest, OperatorRun, Places
<1>4. oprun' = [oprun EXCEPT ![r] = new] /\ oprun'[r] = new BY <1>1, <1>2 DEF PR!Quit
<1>5. RunOk(r)' BY <1>3, <1>4 DEF RunOk, HomeRunOk, WorkRunOk
<1> QED BY Zenon, <1>3, <1>4, <1>5

\* A step of a run that changes no Secret
LEMMA OnlyMoves ==
    ASSUME ProvisionInv, PR!ProvisionAssumption, NEW r \in Provisioner, NEW new \in OperatorRun,
           oprun' = [oprun EXCEPT ![r] = new], RunOk(r)',
           UNCHANGED <<site, grants, upstream, hubreg, keys, stagedInputs, backend, heldGrants, finished, crossed>>, minted' \in Nat
    PROVE  ProvisionInv'
<1>1. ProvisionTypes'
    BY DEF ProvisionInv, ProvisionTypes
<1>2. Grows
    BY DEF Grows
<1>3. site = "work" => ~crossed'
    BY DEF ProvisionInv, WorkOk
<1>4. OnePair' /\ StagedRegistered' /\ WorkOk'
    BY <1>2, <1>3, SiteStays
<1> QED BY Zenon, <1>1, <1>2, <1>4, ProvisionMoves

LEMMA QuitKeeps ==
    ASSUME ProvisionInv, PR!ProvisionAssumption, NEW r \in Provisioner, PR!Quit(r),
           UNCHANGED <<site, grants, upstream, hubreg, keys, stagedInputs, backend, heldGrants, finished, crossed, minted>>
    PROVE  ProvisionInv'
<1>1. minted' \in Nat BY DEF ProvisionInv, ProvisionTypes
<1> QED BY <1>1, RunRests, OnlyMoves

LEMMA StartKeeps ==
    ASSUME ProvisionInv, PR!ProvisionAssumption, NEW r \in Provisioner, NEW cmd \in Commands, PR!Start(r, cmd)
    PROVE  ProvisionInv'
<1>1. oprun \in [Provisioner -> OperatorRun] /\ minted \in Nat /\ site \in {"homelab", "work"} BY DEF ProvisionInv, ProvisionTypes
<1>2. PICK new : new = [PR!Rest EXCEPT !.pc = cmd, !.cmd = cmd] OBVIOUS
<1>3. new \in OperatorRun /\ new.pc = cmd /\ new.cmd = cmd
    BY Zenon, <1>2 DEF PR!Rest, OperatorRun, Places
<1>4. /\ oprun' = [oprun EXCEPT ![r] = new] /\ oprun'[r] = new
      /\ UNCHANGED <<site, grants, upstream, hubreg, keys, stagedInputs, backend, heldGrants, finished, crossed, minted>>
      /\ (cmd = "inputs" => site = "work")
    BY <1>1, <1>2 DEF PR!Start, PR!cluster, PR!pods, PR!book
<1>5. RunOk(r)'
    BY <1>1, <1>3, <1>4 DEF RunOk, HomeRunOk, WorkRunOk, Commands
<1> QED BY Zenon, <1>1, <1>3, <1>4, <1>5, OnlyMoves

LEMMA WorkReadsKeep ==
    ASSUME ProvisionInv, PR!ProvisionAssumption, NEW r \in Provisioner,
           PR!WorkReads(r) \/ PR!WorkAsks(r) \/ PR!WorkInputs(r)
    PROVE  ProvisionInv'
<1>1. site = "work" /\ WorkRunOk(r)
    BY DEF PR!WorkReads, PR!WorkAsks, PR!WorkInputs, PR!Work, ProvisionInv, RunOk
<1>2. /\ UNCHANGED <<site, grants, upstream, hubreg, keys, stagedInputs, backend, heldGrants, finished, crossed, minted>>
      /\ minted \in Nat /\ grants \in PR!Grant \cup {None}
    BY DEF PR!WorkReads, PR!WorkAsks, PR!WorkInputs, PR!cluster, PR!pods, PR!book, ProvisionInv, ProvisionTypes
<1>3. ASSUME NEW p \in Places, PR!See(r, p, grants), p \in {"upstream", "mint", "patch", "stage"},
             p # "mint" => grants # None,
             p = "patch" => grants.github = None,
             p = "stage" => grants.github # None /\ oprun[r].cmd # "grants"
      PROVE  ProvisionInv'
    <2>1. PICK new \in OperatorRun : /\ oprun' = [oprun EXCEPT ![r] = new] /\ oprun'[r] = new
                                    /\ new.pc = p /\ new.seen = grants /\ new.cmd = oprun[r].cmd
        BY <1>2, <1>3, RunSees
    <2>2. WorkRunOk(r)'
        BY <1>2, <1>3, <2>1 DEF WorkRunOk
    <2>3. RunOk(r)' BY <1>1, <1>2, <2>2 DEF RunOk
    <2> QED BY Zenon, <1>2, <2>1, <2>3, OnlyMoves
<1>4. CASE PR!WorkReads(r)
    <2>1. CASE grants = None
        <3>1. PR!See(r, "mint", grants) BY <1>4, <2>1 DEF PR!WorkReads
        <3> QED BY <1>3, <3>1 DEF Places
    <2>2. CASE grants # None
        <3>1. PR!See(r, "upstream", grants) BY <1>4, <2>2 DEF PR!WorkReads
        <3> QED BY <1>3, <2>2, <3>1 DEF Places
    <2> QED BY <2>1, <2>2
<1>5. CASE PR!WorkAsks(r)
    <2>1. CASE grants # None /\ grants.github = None
        <3>1. PR!See(r, "patch", grants) BY <1>5, <2>1 DEF PR!WorkAsks
        <3> QED BY <1>3, <2>1, <3>1 DEF Places
    <2>2. CASE ~(grants # None /\ grants.github = None)
        <3>1. PR!Quit(r) BY <1>5, <2>2 DEF PR!WorkAsks
        <3> QED BY <1>2, <3>1, QuitKeeps
    <2> QED BY <2>1, <2>2
<1>6. CASE PR!WorkInputs(r)
    <2>0. oprun[r].cmd # "grants" BY <1>1, <1>6 DEF WorkRunOk, PR!WorkInputs, PR!Work
    <2>1. CASE grants # None /\ grants.github # None
        <3>1. PR!See(r, "stage", grants) BY <1>6, <2>1 DEF PR!WorkInputs
        <3> QED BY <1>3, <2>0, <2>1, <3>1 DEF Places
    <2>2. CASE ~(grants # None /\ grants.github # None)
        <3>1. PR!Quit(r) BY <1>6, <2>2 DEF PR!WorkInputs
        <3> QED BY <1>2, <3>1, QuitKeeps
    <2> QED BY <2>1, <2>2
<1> QED BY <1>4, <1>5, <1>6

LEMMA MintsKeep ==
    ASSUME ProvisionInv, PR!ProvisionAssumption, NEW r \in Provisioner, PR!WorkMints(r) PROVE ProvisionInv'
<1>1. /\ site = "work" /\ ~crossed /\ ProvisionTypes /\ minted \in Nat
    BY DEF PR!WorkMints, PR!Work, ProvisionInv, ProvisionTypes, WorkOk
<1>2. CASE PR!Quit(r) /\ UNCHANGED <<PR!cluster, PR!pods, PR!book>>
    BY <1>2, QuitKeeps DEF PR!cluster, PR!pods, PR!book
<1>3. ASSUME NEW g, g = [pair |-> minted', github |-> None], PR!Mint, grants = None, grants' = g, PR!See(r, "upstream", g),
             UNCHANGED <<site, upstream, hubreg, keys, stagedInputs, PR!pods, finished, crossed, dropped>>
      PROVE  ProvisionInv'
    <2>1. minted' \in Nat /\ g \in PR!Grant /\ g # None
        BY <1>1, <1>3 DEF PR!Mint, PR!Grant, PR!ProvisionAssumption
    <2>2. PICK new \in OperatorRun : /\ oprun' = [oprun EXCEPT ![r] = new] /\ oprun'[r] = new
                                    /\ new.pc = "upstream" /\ new.seen = g /\ new.cmd = oprun[r].cmd
        <3>1. "upstream" \in Places /\ PR!See(r, "upstream", g) BY <1>3 DEF Places
        <3> QED BY <2>1, <3>1, RunSees
    <2>3. ProvisionTypes'
        BY <1>1, <1>3, <2>1, <2>2 DEF ProvisionTypes, PR!pods
    <2>4. Grows
        BY <1>3 DEF Grows
    <2>5. OnePair' /\ StagedRegistered' /\ WorkOk'
        BY <1>1, <1>3, <2>4, SiteStays DEF PR!pods
    <2>6. RunOk(r)' BY <1>1, <1>3, <2>1, <2>2 DEF WorkRunOk, RunOk
    <2> QED BY Zenon, <2>2, <2>3, <2>4, <2>5, <2>6, ProvisionMoves
<1> QED BY <1>2, <1>3 DEF PR!WorkMints

LEMMA UpstreamKeeps ==
    ASSUME ProvisionInv, PR!ProvisionAssumption, NEW r \in Provisioner, PR!WorkUpstream(r) PROVE ProvisionInv'
<1>1. /\ site = "work" /\ ~crossed /\ ProvisionTypes /\ minted \in Nat /\ WorkRunOk(r) /\ upstream \in Nat \cup {None}
      /\ oprun \in [Provisioner -> OperatorRun] /\ oprun[r] \in OperatorRun /\ oprun[r].pc = "upstream"
    BY DEF PR!WorkUpstream, PR!Work, ProvisionInv, ProvisionTypes, WorkOk, RunOk
<1>2. /\ UNCHANGED <<site, grants, hubreg, keys, stagedInputs, backend, heldGrants, finished, crossed>>
      /\ oprun' = [oprun EXCEPT ![r].pc = "hub", ![r].up = upstream']
    BY DEF PR!WorkUpstream, PR!pods
<1>3. upstream' \in Nat /\ minted' \in Nat /\ (upstream # None => upstream' = upstream)
    BY <1>1 DEF PR!WorkUpstream, PR!Mint
<1>4. PICK new : new = [oprun[r] EXCEPT !.pc = "hub", !.up = upstream'] OBVIOUS
<1>5. new \in OperatorRun /\ new.pc = "hub" /\ new.seen = oprun[r].seen /\ new.cmd = oprun[r].cmd /\ new.up = upstream'
    BY Zenon, <1>1, <1>3, <1>4 DEF OperatorRun, Places
<1>6. oprun' = [oprun EXCEPT ![r] = new] /\ oprun'[r] = new
    BY Zenon, <1>1, <1>2, <1>4
<1>7. ProvisionTypes'
    BY <1>1, <1>2, <1>3, <1>5, <1>6 DEF ProvisionTypes
<1>8. Grows
    BY <1>2, <1>3 DEF Grows
<1>9. OnePair' /\ StagedRegistered' /\ WorkOk'
    BY <1>1, <1>2, <1>8, SiteStays
<1>10. upstream' # None
    BY <1>3 DEF PR!ProvisionAssumption
<1>11. RunOk(r)'
    BY <1>1, <1>2, <1>5, <1>6, <1>10 DEF WorkRunOk, RunOk
<1> QED BY Zenon, <1>6, <1>7, <1>8, <1>9, <1>11, ProvisionMoves

LEMMA HubKeeps ==
    ASSUME ProvisionInv, PR!ProvisionAssumption, NEW r \in Provisioner, PR!WorkHub(r) PROVE ProvisionInv'
<1>1. /\ site = "work" /\ ~crossed /\ ProvisionTypes /\ minted \in Nat /\ WorkRunOk(r) /\ OnePair /\ StagedRegistered /\ WorkOk
      /\ oprun[r] \in OperatorRun /\ oprun[r].pc = "hub"
    BY DEF PR!WorkHub, PR!Work, ProvisionInv, ProvisionTypes, WorkOk, RunOk
<1>2. UNCHANGED <<site, grants, upstream, keys, stagedInputs, backend, heldGrants, finished, crossed, minted>>
    BY DEF PR!WorkHub, PR!pods, PR!book
<1>3. /\ oprun[r].seen \in PR!Grant /\ grants # None /\ oprun[r].seen.pair = grants.pair /\ grants.pair # None
      /\ oprun[r].up \in Nat /\ oprun[r].up # None /\ oprun[r].up = upstream
    BY <1>1, PairOf DEF WorkRunOk, OperatorRun
<1>4. PICK d : d = [client |-> oprun[r].seen.pair, upstream |-> oprun[r].up] BY Zenon
<1>5. d \in PR!Registration /\ d # None /\ d.client = grants.pair /\ d.upstream = upstream
    BY <1>3, <1>4, PairOf DEF PR!Registration, PR!ProvisionAssumption
<1>6. CASE PR!Step(r, "model") /\ hubreg \in {None, d} /\ hubreg' = d
    <2>1. PICK new \in OperatorRun : /\ oprun' = [oprun EXCEPT ![r] = new] /\ oprun'[r] = new
                                    /\ new.pc = "model" /\ new.seen = oprun[r].seen /\ new.cmd = oprun[r].cmd
        BY <1>6, RunStep DEF Places
    <2>2. ProvisionTypes' BY <1>1, <1>2, <1>5, <1>6, <2>1 DEF ProvisionTypes
    <2>3. Grows BY <1>2, <1>5, <1>6 DEF Grows
    <2>4. OnePair' BY <1>1, <1>2, <1>3, <1>5, <1>6 DEF OnePair
    <2>5. \A p : Registered(p) => p = d.client
        BY <1>5, <1>6 DEF Registered
    <2>6. Registered(d.client) => Registered(d.client)'
        BY <1>2, <1>5, <1>6 DEF Registered
    <2>7. StagedRegistered' BY <1>1, <1>2 DEF StagedRegistered
    <2>8. WorkOk' BY <1>1, <1>2, <1>3, <1>5, <1>6, <2>6 DEF WorkOk
    <2>9. RunOk(r)' BY <1>1, <1>2, <1>3, <1>5, <1>6, <2>1 DEF WorkRunOk, RunOk
    <2> QED BY Zenon, <2>1, <2>2, <2>3, <2>4, <2>7, <2>8, <2>9, ProvisionMoves
<1>7. CASE PR!Quit(r) /\ UNCHANGED hubreg
    BY <1>2, <1>7, QuitKeeps
<1> QED BY <1>4, <1>6, <1>7 DEF PR!WorkHub

LEMMA ReadKeysKeep ==
    ASSUME ProvisionInv, PR!ProvisionAssumption, NEW r \in Provisioner, PR!ReadKeys(r) PROVE ProvisionInv'
<1>1. /\ UNCHANGED <<site, grants, upstream, hubreg, keys, stagedInputs, backend, heldGrants, finished, crossed, minted>>
      /\ minted \in Nat /\ RunOk(r) /\ oprun[r].pc = "model"
    BY DEF PR!ReadKeys, PR!cluster, PR!pods, PR!book, ProvisionInv, ProvisionTypes
<1>2. CASE PR!Step(r, "key")
    <2>1. PICK new \in OperatorRun : /\ oprun' = [oprun EXCEPT ![r] = new] /\ oprun'[r] = new
                                    /\ new.pc = "key" /\ new.seen = oprun[r].seen /\ new.cmd = oprun[r].cmd
        BY <1>2, RunStep DEF Places
    <2>2. RunOk(r)' BY <1>1, <2>1 DEF RunOk, HomeRunOk, WorkRunOk
    <2> QED BY Zenon, <1>1, <2>1, <2>2, OnlyMoves
<1>3. CASE PR!Quit(r)
    BY <1>1, <1>3, QuitKeeps
<1> QED BY <1>2, <1>3 DEF PR!ReadKeys

LEMMA RegisterKeeps ==
    ASSUME ProvisionInv, PR!ProvisionAssumption, NEW r \in Provisioner, PR!Register(r) PROVE ProvisionInv'
<1>1. /\ ProvisionTypes /\ RunOk(r) /\ OnePair /\ StagedRegistered /\ WorkOk /\ oprun[r] \in OperatorRun
      /\ oprun[r].pc = "key" /\ keys \subseteq Nat /\ minted \in Nat /\ site \in {"homelab", "work"} /\ finished \in BOOLEAN
    BY DEF PR!Register, ProvisionInv, ProvisionTypes
<1>2. UNCHANGED <<site, grants, upstream, hubreg, stagedInputs, backend, heldGrants, crossed, minted>>
    BY DEF PR!Register, PR!pods, PR!book, PR!Done
<1>3. PICK p : p = oprun[r].seen.pair OBVIOUS
<1>4. oprun[r].seen \in PR!Grant /\ (~crossed => grants # None /\ p = grants.pair)
    BY <1>1, <1>3 DEF RunOk, HomeRunOk, WorkRunOk, OperatorRun
<1>5. p \in Nat BY <1>3, <1>4, PairOf
<1>6. keys' = keys \cup {p} BY <1>3 DEF PR!Register
<1>7. Grows BY <1>2, <1>6 DEF Grows
<1>8. \A x : Registered(x) => Registered(x)'
    BY <1>2, <1>6 DEF Registered
<1>9. OnePair' BY <1>1, <1>2, <1>4, <1>6 DEF OnePair
<1>10. StagedRegistered' BY <1>1, <1>2, <1>8 DEF StagedRegistered
<1>11. CASE site = "homelab"
    <2>1. PR!Step(r, "digest") /\ finished' = finished BY <1>11 DEF PR!Register, PR!book
    <2>2. PICK new \in OperatorRun : /\ oprun' = [oprun EXCEPT ![r] = new] /\ oprun'[r] = new
                                    /\ new.pc = "digest" /\ new.seen = oprun[r].seen /\ new.cmd = oprun[r].cmd
        BY <2>1, RunStep DEF Places
    <2>3. ProvisionTypes' BY <1>1, <1>2, <1>5, <1>6, <2>1, <2>2 DEF ProvisionTypes
    <2>4. WorkOk' BY <1>2, <1>11 DEF WorkOk
    <2>5. HomeRunOk(r) BY <1>1, <1>11 DEF RunOk
    <2>6. HomeRunOk(r)' BY <1>1, <1>2, <1>3, <1>4, <1>6, <2>2, <2>5 DEF HomeRunOk
    <2>7. RunOk(r)' BY <1>2, <1>11, <2>6 DEF RunOk
    <2> QED BY Zenon, <1>7, <1>9, <1>10, <2>2, <2>3, <2>4, <2>7, ProvisionMoves
<1>12. CASE site = "work"
    <2>1. PR!Quit(r) /\ finished' \in BOOLEAN BY <1>1, <1>12 DEF PR!Register, PR!Done
    <2>2. PICK new \in OperatorRun : oprun' = [oprun EXCEPT ![r] = new] /\ RunOk(r)'
        BY <2>1, RunRests
    <2>3. ProvisionTypes' BY <1>1, <1>2, <1>5, <1>6, <2>1, <2>2 DEF ProvisionTypes
    <2>4. hubreg # None /\ ~crossed BY <1>1, <1>12 DEF RunOk, WorkRunOk, WorkOk
    <2>5. Registered(p)' /\ grants # None /\ p = grants.pair
        BY <1>1, <1>2, <1>4, <1>6, <1>12, <2>4 DEF Registered, OnePair, WorkOk
    <2>6. WorkOk' BY <1>1, <1>2, <1>12, <2>5 DEF WorkOk
    <2> QED BY Zenon, <1>7, <1>9, <1>10, <2>2, <2>3, <2>6, ProvisionMoves
<1> QED BY <1>1, <1>11, <1>12

LEMMA PatchesKeep ==
    ASSUME ProvisionInv, PR!ProvisionAssumption, NEW r \in Provisioner, PR!WorkPatches(r) PROVE ProvisionInv'
<1>1. /\ site = "work" /\ ~crossed /\ ProvisionTypes /\ minted \in Nat /\ WorkRunOk(r) /\ WorkOk
      /\ oprun[r].pc = "patch" /\ grants \in PR!Grant \cup {None}
    BY DEF PR!WorkPatches, PR!Work, ProvisionInv, ProvisionTypes, WorkOk, RunOk
<1>2. /\ UNCHANGED <<site, upstream, hubreg, keys, stagedInputs, backend, heldGrants, finished, crossed>>
      /\ PR!Quit(r) /\ minted' \in Nat
    BY <1>1 DEF PR!WorkPatches, PR!pods, PR!Mint
<1>3. PICK new \in OperatorRun : oprun' = [oprun EXCEPT ![r] = new] /\ RunOk(r)'
    BY <1>2, RunRests
<1>4. CASE grants' = grants
    <2>1. ProvisionTypes' BY <1>1, <1>2, <1>3, <1>4 DEF ProvisionTypes
    <2>2. Grows BY <1>2, <1>4 DEF Grows
    <2>3. OnePair' /\ StagedRegistered' /\ WorkOk' BY <1>1, <1>2, <2>2, SiteStays
    <2> QED BY Zenon, <1>3, <2>1, <2>2, <2>3, ProvisionMoves
<1>5. CASE grants = oprun[r].seen /\ grants' = [grants EXCEPT !.github = minted']
    <2>1. grants \in PR!Grant /\ grants # None /\ grants.github = None
        BY <1>1, <1>5 DEF WorkRunOk
    <2>2. grants' \in PR!Grant /\ grants'.pair = grants.pair
        BY <1>2, <1>5, <2>1 DEF PR!Grant
    <2>3. grants' # None BY <2>2 DEF PR!ProvisionAssumption
    <2>4. ProvisionTypes' BY <1>1, <1>2, <1>3, <2>2 DEF ProvisionTypes
    <2>5. Grows BY <1>2, <2>1, <2>2, <2>3 DEF Grows
    <2>6. OnePair' /\ StagedRegistered' /\ WorkOk' BY <1>1, <1>2, <2>5, SiteStays
    <2> QED BY Zenon, <1>3, <2>4, <2>5, <2>6, ProvisionMoves
<1> QED BY <1>4, <1>5 DEF PR!WorkPatches

LEMMA StagesKeep ==
    ASSUME ProvisionInv, PR!ProvisionAssumption, NEW r \in Provisioner, PR!WorkStages(r) PROVE ProvisionInv'
<1>1. /\ site = "work" /\ ~crossed /\ ProvisionTypes /\ minted \in Nat /\ WorkRunOk(r) /\ OnePair /\ StagedRegistered /\ WorkOk
      /\ oprun[r].pc = "stage" /\ finished \in BOOLEAN /\ oprun[r] \in OperatorRun
    BY DEF PR!WorkStages, PR!Work, ProvisionInv, ProvisionTypes, WorkOk, RunOk
<1>2. CASE PR!Quit(r) /\ UNCHANGED <<PR!cluster, PR!pods, PR!book>>
    BY <1>2, QuitKeeps DEF PR!cluster, PR!pods, PR!book
<1>3. CASE stagedInputs' = oprun[r].seen /\ PR!Done(r) /\ UNCHANGED <<site, grants, upstream, hubreg, keys, PR!pods>>
    <2>1. /\ UNCHANGED <<site, grants, upstream, hubreg, keys, backend, heldGrants, crossed, minted, finished>> /\ PR!Quit(r)
        BY <1>1, <1>3 DEF PR!pods, PR!Done, WorkRunOk
    <2>2. /\ stagedInputs' \in PR!Grant /\ stagedInputs' # None /\ stagedInputs' = grants /\ grants.github # None /\ grants # None
        BY <1>1, <1>3 DEF WorkRunOk, OperatorRun
    <2>3. PICK new \in OperatorRun : oprun' = [oprun EXCEPT ![r] = new] /\ RunOk(r)'
        BY <2>1, RunRests
    <2>4. ProvisionTypes' BY <1>1, <2>1, <2>2, <2>3 DEF ProvisionTypes
    <2>5. Grows BY <2>1, <2>2 DEF Grows
    <2>6. \A p : Registered(p)' <=> Registered(p) BY <2>1 DEF Registered
    <2>7. OnePair' BY <1>1, <2>1, <2>2 DEF OnePair
    <2>8. StagedRegistered' BY <1>1, <2>1, <2>6 DEF StagedRegistered
    <2>9. WorkOk' BY <1>1, <2>1, <2>2, <2>6 DEF WorkOk
    <2> QED BY Zenon, <2>3, <2>4, <2>5, <2>7, <2>8, <2>9, ProvisionMoves
<1> QED BY <1>2, <1>3 DEF PR!WorkStages

LEMMA HomeReadsKeep ==
    ASSUME ProvisionInv, PR!ProvisionAssumption, NEW r \in Provisioner, PR!HomeReads(r) PROVE ProvisionInv'
<1>1. /\ site = "homelab" /\ ProvisionTypes /\ minted \in Nat /\ HomeRunOk(r) /\ grants \in PR!Grant \cup {None}
      /\ oprun[r].pc = "grants" /\ oprun[r].cmd = "grants" /\ oprun \in [Provisioner -> OperatorRun] /\ oprun[r] \in OperatorRun
    BY DEF PR!HomeReads, PR!Home, ProvisionInv, ProvisionTypes, RunOk, HomeRunOk
<1>2. UNCHANGED <<site, grants, upstream, hubreg, keys, stagedInputs, backend, heldGrants, finished, crossed>>
    BY DEF PR!HomeReads, PR!cluster, PR!pods
<1>3. ASSUME NEW new \in OperatorRun, oprun' = [oprun EXCEPT ![r] = new], oprun'[r] = new, minted' \in Nat,
             new.pc = "put", new.cmd = "grants", new.seen # None, new.fresh \/ (grants # None /\ new.seen = grants)
      PROVE  ProvisionInv'
    <2>1. HomeRunOk(r)' BY <1>2, <1>3 DEF HomeRunOk
    <2>2. RunOk(r)' BY <1>1, <1>2, <2>1 DEF RunOk
    <2> QED BY Zenon, <1>2, <1>3, <2>2, OnlyMoves
<1>4. CASE grants # None /\ PR!See(r, "put", grants) /\ UNCHANGED minted
    BY <1>1, <1>3, <1>4, RunSees DEF Places
<1>5. ASSUME NEW g, g = [pair |-> minted', github |-> None], PR!Mint,
             oprun' = [oprun EXCEPT ![r].pc = "put", ![r].fresh = TRUE, ![r].seen = g]
      PROVE  ProvisionInv'
    <2>1. minted' \in Nat /\ g \in PR!Grant /\ g # None
        BY <1>1, <1>5 DEF PR!Mint, PR!Grant, PR!ProvisionAssumption
    <2>2. PICK new : new = [oprun[r] EXCEPT !.pc = "put", !.fresh = TRUE, !.seen = g] OBVIOUS
    <2>3. new \in OperatorRun /\ new.pc = "put" /\ new.cmd = oprun[r].cmd /\ new.seen = g /\ new.fresh = TRUE
        BY Zenon, <1>1, <2>1, <2>2 DEF OperatorRun, Places
    <2>4. oprun' = [oprun EXCEPT ![r] = new] /\ oprun'[r] = new
        BY Zenon, <1>1, <1>5, <2>2
    <2> QED BY <1>1, <1>3, <2>1, <2>3, <2>4
<1> QED BY <1>4, <1>5 DEF PR!HomeReads

LEMMA HomeAsksKeep ==
    ASSUME ProvisionInv, PR!ProvisionAssumption, NEW r \in Provisioner, PR!HomeAsks(r) PROVE ProvisionInv'
<1>1. /\ site = "homelab" /\ minted \in Nat /\ HomeRunOk(r) /\ grants \in PR!Grant \cup {None} /\ oprun[r].pc = "github"
    BY DEF PR!HomeAsks, PR!Home, ProvisionInv, ProvisionTypes, RunOk
<1>2. UNCHANGED <<site, grants, upstream, hubreg, keys, stagedInputs, backend, heldGrants, finished, crossed>>
    BY DEF PR!HomeAsks, PR!cluster, PR!pods
<1>3. CASE stagedInputs # None /\ grants # None
    <2>1. PR!Mint /\ PR!See(r, "put", [grants EXCEPT !.github = minted'])
        BY <1>3 DEF PR!HomeAsks
    <2>2. minted' \in Nat /\ minted' # None BY <1>1, <2>1 DEF PR!Mint, PR!ProvisionAssumption
    <2>3. PICK g : g = [grants EXCEPT !.github = minted'] OBVIOUS
    <2>4. g \in PR!Grant /\ g.pair = grants.pair /\ g.github = minted'
        BY <1>1, <1>3, <2>2, <2>3 DEF PR!Grant
    <2>5. g # None BY <2>4 DEF PR!ProvisionAssumption
    <2>6. PICK new \in OperatorRun : /\ oprun' = [oprun EXCEPT ![r] = new] /\ oprun'[r] = new
                                    /\ new.pc = "put" /\ new.seen = g /\ new.cmd = oprun[r].cmd
        <3>1. "put" \in Places /\ PR!See(r, "put", g) BY <2>1, <2>3 DEF Places
        <3> QED BY <2>4, <3>1, RunSees
    <2>7. HomeRunOk(r)' BY <1>1, <1>2, <1>3, <2>2, <2>4, <2>5, <2>6 DEF HomeRunOk
    <2>8. RunOk(r)' BY <1>1, <1>2, <2>7 DEF RunOk
    <2> QED BY Zenon, <1>2, <2>2, <2>6, <2>8, OnlyMoves
<1>4. CASE ~(stagedInputs # None /\ grants # None)
    <2>1. PR!Quit(r) /\ UNCHANGED minted BY <1>4 DEF PR!HomeAsks
    <2> QED BY <1>2, <2>1, QuitKeeps
<1> QED BY <1>3, <1>4

LEMMA HomePutsKeep ==
    ASSUME ProvisionInv, PR!ProvisionAssumption, NEW r \in Provisioner, PR!HomePuts(r) PROVE ProvisionInv'
<1>1. /\ site = "homelab" /\ ProvisionTypes /\ minted \in Nat /\ HomeRunOk(r) /\ OnePair /\ StagedRegistered
      /\ oprun[r].pc = "put" /\ oprun[r] \in OperatorRun /\ crossed \in BOOLEAN
    BY DEF PR!HomePuts, PR!Home, ProvisionInv, ProvisionTypes, RunOk
<1>2. /\ UNCHANGED <<site, upstream, hubreg, keys, stagedInputs, backend, heldGrants, finished, minted>>
      /\ grants' = oprun[r].seen /\ crossed' = (crossed \/ (oprun[r].fresh /\ grants # None))
    BY DEF PR!HomePuts, PR!Crosses, PR!pods
<1>3. grants' \in PR!Grant /\ grants' # None
    BY <1>1, <1>2 DEF HomeRunOk, OperatorRun
<1>4. ~crossed' => ~crossed /\ (grants # None => grants'.pair = grants.pair)
    BY <1>1, <1>2 DEF HomeRunOk
<1>5. PICK p \in {"model", "inputs"} : PR!Step(r, p) /\ (p = "model" <=> oprun[r].cmd = "grants")
    BY Zenon DEF PR!HomePuts
<1>6. PICK new \in OperatorRun : /\ oprun' = [oprun EXCEPT ![r] = new] /\ oprun'[r] = new
                                /\ new.pc = p /\ new.seen = oprun[r].seen /\ new.cmd = oprun[r].cmd
    BY <1>5, RunStep DEF Places, Commands
<1>7. ProvisionTypes' BY <1>1, <1>2, <1>3, <1>6 DEF ProvisionTypes
<1>8. Grows BY <1>1, <1>2, <1>3, <1>4 DEF Grows
<1>9. OnePair' /\ StagedRegistered' /\ WorkOk' BY <1>1, <1>2, <1>8, SiteStays
<1>0. PICK q : q = oprun[r].seen.pair OBVIOUS
<1>10. ASSUME p = "inputs", ~crossed' PROVE Registered(q)
    <2>1. stagedInputs # None /\ ~crossed BY <1>1, <1>4, <1>5, <1>10 DEF HomeRunOk
    <2>2. grants # None /\ stagedInputs.pair = grants.pair BY <1>1, <2>1 DEF OnePair
    <2>3. q = stagedInputs.pair BY <1>0, <1>2, <1>4, <1>10, <2>2
    <2> QED BY <1>1, <2>1, <2>3 DEF StagedRegistered
<1>11. p = "inputs" /\ ~crossed' => Registered(q)'
    BY <1>2, <1>10 DEF Registered
<1>12. HomeRunOk(r)'
    <2>1. p = "inputs" => stagedInputs # None /\ oprun[r].seen.github # None /\ oprun[r].cmd # "grants"
        BY <1>1, <1>5 DEF HomeRunOk
    <2>2. new.seen.pair = q /\ new.seen = grants' BY <1>0, <1>2, <1>6
    <2> QED BY <1>2, <1>3, <1>5, <1>6, <1>11, <2>1, <2>2 DEF HomeRunOk
<1>13. RunOk(r)' BY <1>1, <1>2, <1>12 DEF RunOk
<1> QED BY Zenon, <1>6, <1>7, <1>8, <1>9, <1>13, ProvisionMoves

LEMMA HomeHubKeeps ==
    ASSUME ProvisionInv, PR!ProvisionAssumption, NEW r \in Provisioner, PR!HomeHub(r) PROVE ProvisionInv'
<1>1. /\ site = "homelab" /\ ProvisionTypes /\ minted \in Nat /\ HomeRunOk(r) /\ OnePair /\ StagedRegistered
      /\ oprun[r].pc = "digest" /\ oprun[r] \in OperatorRun /\ hubreg \in PR!Registration /\ hubreg # None
    BY DEF PR!HomeHub, PR!Home, ProvisionInv, ProvisionTypes, RunOk
<1>2. UNCHANGED <<site, grants, upstream, keys, stagedInputs, backend, heldGrants, finished, crossed, minted>>
    BY DEF PR!HomeHub, PR!pods, PR!book
<1>3. PICK p : p = oprun[r].seen.pair OBVIOUS
<1>4. /\ oprun[r].seen \in PR!Grant /\ oprun[r].cmd = "grants" /\ p \in keys
      /\ (~crossed => grants # None /\ p = grants.pair)
    BY <1>1, <1>3 DEF HomeRunOk, OperatorRun
<1>5. p \in Nat /\ p # None BY <1>3, <1>4, PairOf
<1>6. CASE hubreg.client \in {None, p}
    <2>1. hubreg' = [hubreg EXCEPT !.client = p] /\ PR!Step(r, "inputs")
        BY <1>3, <1>6 DEF PR!HomeHub
    <2>2. hubreg' \in PR!Registration /\ hubreg'.client = p
        BY <1>1, <1>5, <2>1 DEF PR!Registration
    <2>3. hubreg' # None BY <2>2 DEF PR!ProvisionAssumption
    <2>4. PICK new \in OperatorRun : /\ oprun' = [oprun EXCEPT ![r] = new] /\ oprun'[r] = new
                                    /\ new.pc = "inputs" /\ new.seen = oprun[r].seen /\ new.cmd = oprun[r].cmd
        BY <2>1, RunStep DEF Places, Commands
    <2>5. ProvisionTypes' BY <1>1, <1>2, <2>2, <2>3, <2>4 DEF ProvisionTypes
    <2>6. Grows BY <1>2, <1>6, <2>2, <2>3 DEF Grows
    <2>7. ASSUME NEW g, g = stagedInputs \/ g = heldGrants, g # None, Registered(g.pair) PROVE Registered(g.pair)'
        <3>1. g.pair # None BY <1>1, <2>7, PairOf DEF ProvisionTypes
        <3> QED BY <2>6, <2>7, <3>1, StaysRegistered
    <2>8. OnePair' BY <1>1, <1>2, <1>4, <2>2 DEF OnePair
    <2>9. StagedRegistered' BY <1>1, <1>2, <2>7 DEF StagedRegistered
    <2>10. WorkOk' BY <1>1, <1>2 DEF WorkOk
    <2>11. Registered(p)' BY <1>2, <1>4, <2>2, <2>3 DEF Registered
    <2>12. HomeRunOk(r)' BY <1>1, <1>2, <1>3, <1>4, <2>4, <2>11 DEF HomeRunOk
    <2>13. RunOk(r)' BY <1>1, <1>2, <2>12 DEF RunOk
    <2> QED BY Zenon, <2>4, <2>5, <2>6, <2>8, <2>9, <2>10, <2>13, ProvisionMoves
<1>7. CASE hubreg.client \notin {None, p}
    <2>1. PR!Quit(r) /\ UNCHANGED hubreg BY <1>3, <1>7 DEF PR!HomeHub
    <2> QED BY <1>2, <2>1, QuitKeeps
<1> QED BY <1>6, <1>7

LEMMA HomeStagesKeep ==
    ASSUME ProvisionInv, PR!ProvisionAssumption, NEW r \in Provisioner, PR!HomeStages(r) PROVE ProvisionInv'
<1>1. /\ site = "homelab" /\ ProvisionTypes /\ minted \in Nat /\ HomeRunOk(r) /\ OnePair /\ StagedRegistered
      /\ oprun[r].pc = "inputs" /\ oprun[r] \in OperatorRun /\ finished \in BOOLEAN
    BY DEF PR!HomeStages, PR!Home, ProvisionInv, ProvisionTypes, RunOk
<1>2. /\ UNCHANGED <<site, grants, upstream, hubreg, keys, backend, heldGrants, crossed, minted>>
      /\ stagedInputs' = oprun[r].seen /\ PR!Quit(r) /\ finished' \in BOOLEAN
    BY <1>1 DEF PR!HomeStages, PR!Done, PR!pods
<1>3. stagedInputs' \in PR!Grant /\ stagedInputs' # None
    BY <1>1, <1>2 DEF HomeRunOk, OperatorRun
<1>4. PICK new \in OperatorRun : oprun' = [oprun EXCEPT ![r] = new] /\ RunOk(r)'
    BY <1>2, RunRests
<1>5. ProvisionTypes' BY <1>1, <1>2, <1>3, <1>4 DEF ProvisionTypes
<1>6. Grows BY <1>2, <1>3 DEF Grows
<1>7. \A p : Registered(p)' <=> Registered(p) BY <1>2 DEF Registered
<1>8. OnePair' BY <1>1, <1>2 DEF OnePair, HomeRunOk
<1>9. (crossed => stagedInputs'.github = None) => Registered(stagedInputs'.pair)
    BY <1>1, <1>2 DEF HomeRunOk
<1>10. StagedRegistered' BY <1>1, <1>2, <1>7, <1>9 DEF StagedRegistered
<1>11. WorkOk' BY <1>1, <1>2 DEF WorkOk
<1> QED BY Zenon, <1>4, <1>5, <1>6, <1>8, <1>10, <1>11, ProvisionMoves

\* The pods: only their own state changes.
LEMMA PodsKeep ==
    ASSUME ProvisionInv, PR!ProvisionAssumption, PR!Scale \/ PR!Boot PROVE ProvisionInv'
<1>1. ProvisionTypes /\ OnePair /\ StagedRegistered /\ WorkOk
    BY DEF ProvisionInv
<1>2. UNCHANGED <<site, grants, upstream, hubreg, keys, stagedInputs, oprun, finished, crossed, minted>>
    BY DEF PR!Scale, PR!Boot, PR!cluster, PR!book
<1>3. /\ heldGrants' \in PR!Grant \cup {None}
      /\ backend' = "running" => stagedInputs # None /\ stagedInputs = grants /\ heldGrants' = grants
    BY <1>1 DEF PR!Scale, PR!Boot, ProvisionTypes
<1>4. ProvisionTypes' BY <1>1, <1>2, <1>3 DEF ProvisionTypes
<1>5. \A p : Registered(p)' <=> Registered(p) BY <1>2 DEF Registered
<1>6. OnePair' BY <1>1, <1>2, <1>3 DEF OnePair
<1>7. StagedRegistered' BY <1>1, <1>2, <1>3, <1>5 DEF StagedRegistered
<1>8. WorkOk' BY <1>1, <1>2, <1>5 DEF WorkOk
<1>9. \A r \in Provisioner : RunOk(r)'
    BY <1>2 DEF ProvisionInv, RunOk, HomeRunOk, WorkRunOk, Registered
<1> QED BY <1>4, <1>6, <1>7, <1>8, <1>9 DEF ProvisionInv

LEMMA BackendsKeep ==
    ASSUME ProvisionInv, PR!ProvisionAssumption, [PR!ProvisionNext]_(PR!provisionVars) PROVE ProvisionInv'
<1>1. ASSUME NEW r \in Provisioner, PR!WorkStep(r) PROVE ProvisionInv'
    BY <1>1, WorkReadsKeep, MintsKeep, UpstreamKeeps, HubKeeps, PatchesKeep, StagesKeep DEF PR!WorkStep
<1>2. ASSUME NEW r \in Provisioner, PR!HomeStep(r) PROVE ProvisionInv'
    BY <1>2, HomeReadsKeep, HomeAsksKeep, HomePutsKeep, HomeHubKeeps, HomeStagesKeep DEF PR!HomeStep
<1>3. ASSUME NEW r \in Provisioner, PR!Stop(r) PROVE ProvisionInv'
    BY <1>3, QuitKeeps DEF PR!Stop, PR!cluster, PR!pods
<1>4. CASE UNCHANGED PR!provisionVars
    BY <1>4 DEF PR!provisionVars, ProvisionInv, ProvisionTypes, OnePair, StagedRegistered, WorkOk, RunOk, HomeRunOk, WorkRunOk, Registered
<1> QED BY <1>1, <1>2, <1>3, <1>4, ReadKeysKeep, RegisterKeeps, StartKeeps, PodsKeep DEF PR!ProvisionNext, Commands

LEMMA ProvisionTells ==
    ASSUME ProvisionInv PROVE PR!PodAccepted /\ PR!OneToken /\ PR!WorkStagedFits
<1>1. PR!PodAccepted
    <2>1. SUFFICES ASSUME backend = "running", site = "work" => finished, crossed => heldGrants.github = None
                   PROVE  Registered(heldGrants.pair)
        BY DEF PR!PodAccepted, Registered
    <2>2. CASE site = "homelab" BY <2>1, <2>2 DEF ProvisionInv, StagedRegistered
    <2>3. CASE site = "work" BY <2>1, <2>3 DEF ProvisionInv, OnePair, WorkOk
    <2> QED BY <2>2, <2>3 DEF ProvisionInv, ProvisionTypes
<1>2. PR!OneToken
    BY DEF ProvisionInv, OnePair, WorkOk, PR!OneToken
<1>3. PR!WorkStagedFits
    BY DEF ProvisionInv, WorkOk, PR!WorkStagedFits
<1> QED BY <1>1, <1>2, <1>3

\* Only three steps write grants: a mint where there was none, a patch of grants
\* without a GitHub token, and the homelab tool, which keeps the pair it read.
LEMMA TokensStay ==
    ASSUME ProvisionInv, PR!ProvisionAssumption, [PR!ProvisionNext]_(PR!provisionVars) PROVE [PR!TokensKept]_(PR!provisionVars)
<1> SUFFICES ASSUME PR!ProvisionNext, grants # None, grants' # grants
             PROVE  PR!TokensKept
    BY DEF PR!TokensKept
<1>1. grants \in PR!Grant /\ \A r \in Provisioner : RunOk(r)
    BY DEF ProvisionInv, ProvisionTypes
<1>2. ASSUME NEW r \in Provisioner, PR!HomePuts(r) PROVE PR!TokensKept
    <2>1. /\ site = "homelab" /\ oprun[r].pc = "put" /\ grants' = oprun[r].seen
          /\ crossed' = (crossed \/ (oprun[r].fresh /\ grants # None))
        BY <1>2 DEF PR!HomePuts, PR!Home, PR!Crosses
    <2>2. HomeRunOk(r) BY <1>1, <2>1 DEF RunOk
    <2> QED BY <2>1, <2>2 DEF HomeRunOk, PR!TokensKept
<1>3. ASSUME NEW r \in Provisioner, PR!WorkMints(r) PROVE FALSE
    BY <1>1, <1>3 DEF PR!WorkMints, PR!cluster
<1>4. ASSUME NEW r \in Provisioner, PR!WorkPatches(r) PROVE PR!TokensKept
    <2>1. /\ site = "work" /\ oprun[r].pc = "patch" /\ grants = oprun[r].seen
          /\ grants' = [grants EXCEPT !.github = minted']
        BY <1>4 DEF PR!WorkPatches, PR!Work
    <2>2. oprun[r].seen.github = None BY <1>1, <2>1 DEF RunOk, WorkRunOk
    <2>3. grants'.pair = grants.pair BY <1>1, <2>1 DEF PR!Grant
    <2> QED BY <2>1, <2>2, <2>3 DEF PR!TokensKept
<1>5. \E r \in Provisioner : PR!HomePuts(r) \/ PR!WorkMints(r) \/ PR!WorkPatches(r)
    <2>1. grants' # grants OBVIOUS
    <2> QED BY Zenon, <2>1 DEF PR!ProvisionNext, PR!WorkStep, PR!HomeStep, PR!WorkReads, PR!WorkUpstream, PR!WorkHub, PR!WorkAsks,
            PR!WorkInputs, PR!WorkStages, PR!ReadKeys, PR!Register, PR!Stop, PR!Start, PR!HomeReads, PR!HomeAsks, PR!HomeHub,
            PR!HomeStages, PR!Scale, PR!Boot, PR!cluster
<1> QED BY <1>2, <1>3, <1>4, <1>5

-----------------------------------------------------------------------------
(* SkillRotation: a patch goes through only over the Secret that was read, *)
(* and no version that somebody staged is one that an edit smuggled in.    *)

Numbers == Nat \cup {None}
SkillSecret == [rv : Nat, bundle : [Skill -> Numbers], digest : [Skill -> Numbers]]
RotationRun ==
    [pc : {"idle", "read", "backup", "patch", "done", "checked", "refused", "failed"},
     new : [Skill -> Numbers], gone : SUBSET Skill, seen : SkillSecret \cup {None}]

SkillTypes ==
    /\ inputs \in SkillSecret
    /\ rotation \in [Rotation -> RotationRun]
    /\ backup \in [Rotation -> SkillSecret \cup {None}]
    /\ versions \in Nat
    /\ installer \in [Skill -> Numbers] \cup {None}
    /\ owed \in [Skill -> Numbers]
    /\ undo # None => undo \in [by : Rotation, was : SkillSecret]

\* Past its read a run has seen a reviewed Secret, the present one if its resource
\* version is; before its patch it has kept that in its backup file.
Seen(r) ==
    rotation[r].pc \in {"backup", "patch"} =>
        /\ rotation[r].seen \in SkillSecret
        /\ rotation[r].seen.rv <= inputs.rv
        /\ rotation[r].seen.rv = inputs.rv => rotation[r].seen = inputs
        /\ rotation[r].seen.digest = rotation[r].seen.bundle
        /\ rotation[r].pc = "patch" => backup[r] = rotation[r].seen

\* A number that is not of an edit past its review, and is in use
Clean(n) == n # None => n \notin unreviewed /\ n <= versions

SkillInv ==
    /\ SkillTypes
    /\ \A r \in Rotation : Seen(r)
    /\ \A r \in Rotation, s \in Skill : Clean(rotation[r].new[s])
    /\ \A s \in Skill : Clean(inputs.digest[s])
    /\ \A n \in unreviewed : n \in Nat /\ n <= versions
    /\ installer # None => \A s \in Skill : installer[s] # None => installer[s] <= versions
    /\ \A s \in Skill : inputs.bundle[s] # None => inputs.bundle[s] <= versions
    /\ inputs.bundle = owed
    /\ undo # None => backup[undo.by] = undo.was /\ rotation[undo.by].pc \in {"done", "failed"}

LEMMA SkillInitOK == ASSUME SR!SkillAssumption, SR!SkillInit PROVE SkillInv
<1>1. SR!First \in [Skill -> Numbers] /\ \A s \in Skill : SR!First[s] = 0
    BY DEF SR!First, Numbers
<1>2. inputs \in SkillSecret /\ inputs.bundle = SR!First /\ inputs.digest = SR!First
    BY <1>1 DEF SR!SkillInit, SkillSecret
<1>3. SR!Idle \in RotationRun /\ SR!Idle.pc = "idle" /\ \A s \in Skill : SR!Idle.new[s] = None
    BY DEF SR!Idle, RotationRun, Numbers
<1> QED BY <1>1, <1>2, <1>3 DEF SR!SkillInit, SkillInv, SkillTypes, Seen, Clean, SR!SkillAssumption

\* A step of one run that leaves the Secret alone.
LEMMA RunMoves ==
    ASSUME SkillInv, NEW r \in Rotation, NEW new \in RotationRun,
           rotation' = [rotation EXCEPT ![r] = new],
           UNCHANGED <<inputs, installer, unreviewed, owed, undo>>, versions' \in Nat, versions' >= versions,
           backup' \in [Rotation -> SkillSecret \cup {None}],
           \A q \in Rotation \ {r} : backup'[q] = backup[q],
           rotation[r].pc \notin {"done", "failed"},
           Seen(r)', \A s \in Skill : Clean(rotation[r].new[s])'
    PROVE  SkillInv'
<1>1. rotation'[r] = new /\ (\A q \in Rotation \ {r} : rotation'[q] = rotation[q])
    BY DEF SkillInv, SkillTypes
<1>2. SkillTypes'
    BY Zenon DEF SkillInv, SkillTypes
<1>3. ASSUME NEW q \in Rotation PROVE Seen(q)'
    BY <1>1, <1>3 DEF SkillInv, Seen
<1>4. ASSUME NEW n \in Numbers, Clean(n) PROVE Clean(n)'
    BY <1>4 DEF Clean, Numbers, SkillInv, SkillTypes
<1>5. ASSUME NEW q \in Rotation, NEW s \in Skill PROVE Clean(rotation[q].new[s])'
    <2>1. rotation[q].new[s] \in Numbers /\ Clean(rotation[q].new[s])
        BY DEF SkillInv, SkillTypes, RotationRun
    <2>2. PICK n : n = rotation[q].new[s] OBVIOUS
    <2>3. CASE q = r BY <1>1, <2>3
    <2>4. CASE q # r
        <3>1. Clean(n)' BY <1>4, <2>1, <2>2
        <3>2. rotation'[q].new[s] = n BY <1>1, <2>2, <2>4
        <3> QED BY <3>1, <3>2
    <2> QED BY <2>3, <2>4
<1>6. ASSUME NEW s \in Skill PROVE Clean(inputs.digest[s])'
    BY <1>4 DEF SkillInv, SkillTypes, SkillSecret
<1>7. \A n \in unreviewed' : n \in Nat /\ n <= versions'
    BY DEF SkillInv, SkillTypes
<1>8. /\ installer' # None => \A s \in Skill : installer'[s] # None => installer'[s] <= versions'
      /\ \A s \in Skill : inputs'.bundle[s] # None => inputs'.bundle[s] <= versions'
    BY DEF SkillInv, SkillTypes, SkillSecret, Numbers
<1>9. undo' # None => backup'[undo'.by] = undo'.was /\ rotation'[undo'.by].pc \in {"done", "failed"}
    BY <1>1 DEF SkillInv, SkillTypes
<1> QED BY <1>2, <1>3, <1>5, <1>6, <1>7, <1>8, <1>9 DEF SkillInv

\* Somebody else changes the Secret; its resource version is new.
LEMMA OtherChanges ==
    ASSUME SkillInv, SR!SkillAssumption, inputs' \in SkillSecret, inputs'.rv = inputs.rv + 1,
           UNCHANGED <<rotation, backup, undo>>
    PROVE  \A r \in Rotation : Seen(r)'
<1> SUFFICES ASSUME NEW r \in Rotation PROVE Seen(r)'
    OBVIOUS
<1>1. Seen(r) /\ inputs.rv \in Nat
    BY DEF SkillInv, SkillTypes, SkillSecret
<1> QED BY <1>1 DEF Seen, SkillSecret

LEMMA SkillStepKeeps == ASSUME SkillInv, SR!SkillAssumption, NEW r \in Rotation,
           SR!Begin(r) \/ SR!Read(r) \/ SR!Backup(r) \/ SR!Fails(r)
    PROVE  SkillInv'
<1>1. rotation[r] \in RotationRun /\ Seen(r) /\ inputs \in SkillSecret /\ versions \in Nat
    BY DEF SkillInv, SkillTypes
<1>2. None \notin Nat BY DEF SR!SkillAssumption
<1>3. \A s \in Skill : rotation[r].new[s] \in Numbers /\ Clean(rotation[r].new[s])
    BY DEF SkillInv, SkillTypes, RotationRun
<1>m. ASSUME NEW new \in RotationRun, rotation' = [rotation EXCEPT ![r] = new] PROVE rotation'[r] = new
    BY <1>m DEF SkillInv, SkillTypes
<1>c. ASSUME UNCHANGED <<versions, unreviewed>>, NEW s \in Skill PROVE Clean(rotation[r].new[s]) => \A n : n = rotation[r].new[s] => Clean(n)'
    BY <1>c DEF Clean
<1>t. backup \in [Rotation -> SkillSecret \cup {None}]
    BY DEF SkillInv, SkillTypes
<1>4. CASE SR!Begin(r)
    <2>1. PICK new \in SUBSET Skill, gone \in SUBSET Skill :
              rotation' = [rotation EXCEPT ![r] = [SR!Idle EXCEPT !.pc = "read", !.gone = gone,
                       !.new = [s \in Skill |-> IF s \in new THEN versions + 1 ELSE None]]]
        BY Zenon, <1>4 DEF SR!Begin
    <2>2. PICK x : x = [SR!Idle EXCEPT !.pc = "read", !.gone = gone,
                       !.new = [s \in Skill |-> IF s \in new THEN versions + 1 ELSE None]]
        BY Zenon
    <2>v. PICK v \in Nat : v = versions + 1 BY <1>1
    <2>n. PICK n : n = [s \in Skill |-> IF s \in new THEN v ELSE None] BY Zenon
    <2>a. n \in [Skill -> Numbers] /\ \A s \in Skill : n[s] = None \/ n[s] = v
        BY <2>n DEF Numbers
    <2>3. x \in RotationRun /\ x.pc = "read" /\ x.new = n
        BY Zenon, <2>2, <2>v, <2>n, <2>a DEF SR!Idle, RotationRun
    <2>b. versions' = v /\ unreviewed' = unreviewed
        BY Zenon, <1>4, <2>v DEF SR!Begin
    <2>c. v \notin unreviewed
        <3>1. v > versions BY <1>1, <2>v
        <3>2. \A m \in unreviewed : m \in Nat /\ m <= versions BY DEF SkillInv
        <3> QED BY <1>1, <3>1, <3>2
    <2>d. rotation' = [rotation EXCEPT ![r] = x] BY <2>1, <2>2
    <2>e. rotation'[r] = x BY Zenon, <1>m, <2>3, <2>d
    <2>4. \A s \in Skill : Clean(rotation[r].new[s])'
        BY <2>a, <2>b, <2>c, <2>e, <2>3 DEF Clean
    <2>5. Seen(r)'
        BY <2>e, <2>3 DEF Seen
    <2>6. UNCHANGED <<inputs, installer, unreviewed, owed, undo, backup>> /\ rotation[r].pc = "idle"
        BY Zenon, <1>4 DEF SR!Begin
    <2>7. versions' \in Nat /\ versions' >= versions
        BY <1>1, <2>b, <2>v
    <2> QED BY Zenon, <1>t, <2>3, <2>4, <2>5, <2>6, <2>7, <2>d, RunMoves
<1>5. ASSUME NEW x \in RotationRun, rotation' = [rotation EXCEPT ![r] = x], x.new = rotation[r].new,
             UNCHANGED <<inputs, versions, installer, unreviewed, owed, undo>>,
             backup' \in [Rotation -> SkillSecret \cup {None}],
             \A q \in Rotation \ {r} : backup'[q] = backup[q],
             rotation[r].pc \notin {"done", "failed"}, Seen(r)'
      PROVE  SkillInv'
    <2>1. \A s \in Skill : Clean(rotation[r].new[s])' BY <1>3, <1>5, <1>m DEF Clean
    <2>2. versions' \in Nat /\ versions' >= versions BY <1>1, <1>5
    <2> QED BY Zenon, <1>5, <2>1, <2>2, RunMoves
<1>6. ASSUME NEW p \in {"refused", "failed", "checked", "patch"}, SR!Move(r, p)
      PROVE  \E x \in RotationRun : /\ rotation' = [rotation EXCEPT ![r] = x] /\ rotation'[r] = x
                                    /\ x.new = rotation[r].new /\ x.pc = p /\ x.seen = rotation[r].seen
    <2>1. PICK x : x = [rotation[r] EXCEPT !.pc = p] BY Zenon
    <2>2. x \in RotationRun /\ x.new = rotation[r].new /\ x.pc = p /\ x.seen = rotation[r].seen
        BY <1>1, <2>1 DEF RotationRun
    <2>3. rotation' = [rotation EXCEPT ![r] = x] BY <1>6, <2>1 DEF SR!Move, SkillInv, SkillTypes
    <2> QED BY Zenon, <1>m, <2>2, <2>3
<1>7. CASE SR!Read(r)
    <2>1. CASE SR!Fits(r, inputs)
        <3>1. PICK x : x = [rotation[r] EXCEPT !.pc = "backup", !.seen = inputs] OBVIOUS
        <3>2. x \in RotationRun /\ x.new = rotation[r].new /\ x.pc = "backup" /\ x.seen = inputs
            BY Zenon, <1>1, <3>1 DEF RotationRun
        <3>3. rotation' = [rotation EXCEPT ![r] = x] BY Zenon, <1>7, <2>1, <3>1 DEF SR!Read, SkillInv, SkillTypes
        <3>4. Seen(r)'
            BY <1>1, <1>7, <1>m, <2>1, <3>2, <3>3 DEF Seen, SR!Read, SR!Fits, SR!Reviewed, SkillSecret
        <3> QED BY Zenon, <1>5, <1>7, <1>t, <3>2, <3>3, <3>4 DEF SR!Read
    <2>2. CASE SR!Move(r, "refused")
        <3>1. Seen(r)' BY <1>6, <2>2 DEF Seen
        <3> QED BY <1>5, <1>6, <1>7, <1>t, <2>2, <3>1 DEF SR!Read
    <2> QED BY <1>7, <2>1, <2>2 DEF SR!Read
<1>8. CASE SR!Backup(r)
    <2>1. CASE backup' = [backup EXCEPT ![r] = rotation[r].seen] /\ SR!Move(r, "patch")
        <3>1. backup'[r] = rotation[r].seen /\ backup' \in [Rotation -> SkillSecret \cup {None}]
            BY <1>1, <1>t, <2>1 DEF RotationRun
        <3>2. Seen(r)' BY <1>1, <1>6, <1>8, <2>1, <3>1 DEF Seen, SR!Backup
        <3> QED BY <1>5, <1>6, <1>8, <1>t, <2>1, <3>1, <3>2 DEF SR!Backup
    <2>2. CASE UNCHANGED backup /\ SR!Move(r, "checked")
        <3>1. Seen(r)' BY <1>6, <2>2 DEF Seen
        <3> QED BY <1>5, <1>6, <1>8, <1>t, <2>2, <3>1 DEF SR!Backup
    <2> QED BY <1>8, <2>1, <2>2 DEF SR!Backup
<1>9. CASE SR!Fails(r)
    <2>1. Seen(r)' BY <1>6, <1>9 DEF Seen, SR!Fails
    <2> QED BY <1>5, <1>6, <1>9, <1>t, <2>1 DEF SR!Fails
<1> QED BY <1>4, <1>7, <1>8, <1>9

LEMMA RotationPatchKeeps == ASSUME SkillInv, SR!SkillAssumption, NEW r \in Rotation, SR!Patch(r) PROVE SkillInv'
<1>1. /\ rotation[r] \in RotationRun /\ Seen(r) /\ inputs \in SkillSecret /\ versions \in Nat /\ None \notin Nat
      /\ owed \in [Skill -> Numbers] /\ inputs.bundle = owed
    BY DEF SkillInv, SkillTypes, SR!SkillAssumption
<1>2. /\ rotation[r].pc = "patch" /\ rotation[r].seen = inputs /\ backup[r] = inputs
      /\ inputs.digest = inputs.bundle
    BY <1>1 DEF SR!Patch, SR!Unchanged, Seen
<1>3. PICK b : b = SR!NewBundle(r) OBVIOUS
<1>4. ASSUME NEW s \in Skill
      PROVE  /\ b[s] = IF s \in rotation[r].gone THEN None
                       ELSE IF s \in SR!Staged(r) THEN rotation[r].new[s] ELSE inputs.bundle[s]
             /\ b[s] \in Numbers /\ Clean(b[s])
    <2>1. b[s] = IF s \in rotation[r].gone THEN None
                 ELSE IF s \in SR!Staged(r) THEN rotation[r].new[s] ELSE inputs.bundle[s]
        BY <1>2, <1>3 DEF SR!NewBundle
    <2>2. rotation[r].new[s] \in Numbers /\ Clean(rotation[r].new[s])
        BY DEF SkillInv, SkillTypes, RotationRun
    <2>3. inputs.bundle[s] \in Numbers /\ Clean(inputs.bundle[s])
        BY <1>1, <1>2 DEF SkillInv, SkillSecret
    <2>4. None \in Numbers /\ Clean(None) BY DEF Numbers, Clean
    <2> QED BY <2>1, <2>2, <2>3, <2>4
<1>5. b \in [Skill -> Numbers]
    BY <1>3, <1>4 DEF SR!NewBundle
<1>6. inputs' \in SkillSecret /\ inputs'.rv = inputs.rv + 1 /\ inputs'.bundle = b /\ inputs'.digest = b
    <2>1. inputs' = [inputs EXCEPT !.rv = inputs.rv + 1, !.bundle = b, !.digest = b]
        BY <1>3 DEF SR!Patch
    <2>2. inputs' = [rv |-> inputs.rv + 1, bundle |-> b, digest |-> b]
        BY Zenon, <1>1, <2>1 DEF SkillSecret
    <2>3. inputs.rv \in Nat BY <1>1 DEF SkillSecret
    <2> QED BY <1>5, <2>2, <2>3 DEF SkillSecret
<1>7. owed' = b
    <2>1. owed' = [s \in Skill |-> IF s \in SR!Staged(r) \cup rotation[r].gone THEN b[s] ELSE owed[s]]
        BY <1>3 DEF SR!Patch
    <2>2. \A s \in Skill : owed'[s] = b[s] BY <1>1, <1>4, <2>1
    <2> QED BY <1>5, <2>1, <2>2
<1>8. PICK p \in {"done", "failed"} : SR!Move(r, p)
    BY DEF SR!Patch
<1>9. PICK x : x = [rotation[r] EXCEPT !.pc = p] BY Zenon
<1>10. /\ x \in RotationRun /\ x.new = rotation[r].new /\ x.pc = p
       /\ rotation' = [rotation EXCEPT ![r] = x]
       /\ rotation'[r] = x /\ \A q \in Rotation \ {r} : rotation'[q] = rotation[q]
    BY Zenon, <1>1, <1>8, <1>9 DEF RotationRun, SR!Move, SkillInv, SkillTypes
<1>11. UNCHANGED <<backup, versions, installer, unreviewed>> /\ undo' = [by |-> r, was |-> inputs]
    BY DEF SR!Patch
<1>12. SkillTypes'
    BY <1>1, <1>5, <1>6, <1>7, <1>10, <1>11 DEF SkillInv, SkillTypes
<1>13. ASSUME NEW q \in Rotation PROVE Seen(q)'
    <2>1. CASE q = r BY <1>10, <2>1 DEF Seen
    <2>2. CASE q # r
        <3>1. Seen(q) /\ inputs.rv \in Nat BY DEF SkillInv, SkillTypes, SkillSecret
        <3> QED BY <1>6, <1>10, <1>11, <2>2, <3>1 DEF Seen, SkillSecret
    <2> QED BY <2>1, <2>2
<1>14. \A q \in Rotation, s \in Skill : Clean(rotation'[q].new[s])
    <2>1. \A q \in Rotation : rotation'[q].new = rotation[q].new BY <1>10
    <2> QED BY <2>1 DEF SkillInv
<1>15. \A s \in Skill : Clean(inputs'.digest[s]) /\ (inputs'.bundle[s] # None => inputs'.bundle[s] <= versions)
    BY <1>4, <1>6 DEF Clean
<1>16. ASSUME NEW n PROVE Clean(n)' <=> Clean(n)
    BY <1>11 DEF Clean
<1>17. \A q \in Rotation, s \in Skill : Clean(rotation[q].new[s])'
    BY <1>11, <1>14 DEF Clean
<1>18. \A s \in Skill : Clean(inputs.digest[s])' /\ (inputs'.bundle[s] # None => inputs'.bundle[s] <= versions')
    BY <1>11, <1>15 DEF Clean
<1>19. /\ \A n \in unreviewed' : n \in Nat /\ n <= versions'
       /\ installer' # None => \A s \in Skill : installer'[s] # None => installer'[s] <= versions'
    BY <1>11 DEF SkillInv
<1>20. backup'[undo'.by] = undo'.was /\ rotation'[undo'.by].pc \in {"done", "failed"}
    BY <1>2, <1>10, <1>11
<1> QED BY <1>6, <1>7, <1>12, <1>13, <1>17, <1>18, <1>19, <1>20 DEF SkillInv

LEMMA SkillNextKeeps == ASSUME SkillInv, SR!SkillAssumption, [SR!SkillNext]_(SR!skillVars) PROVE SkillInv'
<1>0. /\ inputs \in SkillSecret /\ versions \in Nat /\ None \notin Nat /\ SkillTypes
      /\ installer \in [Skill -> Numbers] \cup {None}
    BY DEF SkillInv, SkillTypes, SR!SkillAssumption
<1>1. ASSUME NEW r \in Rotation, SR!Begin(r) \/ SR!Read(r) \/ SR!Backup(r) \/ SR!Patch(r) \/ SR!Fails(r) PROVE SkillInv'
    BY <1>1, SkillStepKeeps, RotationPatchKeeps
<1>2. CASE SR!InstallerReads
    <2>1. /\ UNCHANGED <<inputs, rotation, backup, versions, unreviewed, owed, undo>>
          /\ installer' = inputs.bundle /\ inputs.bundle \in [Skill -> Numbers]
        BY <1>0, <1>2 DEF SR!InstallerReads, SkillSecret
    <2>2. SkillTypes' BY <1>0, <2>1 DEF SkillTypes
    <2> QED BY <2>1, <2>2 DEF SkillInv, Seen, Clean
<1>3. CASE SR!InstallerPuts
    <2>1. /\ installer # None /\ installer' = None /\ owed' = installer /\ unreviewed' = {}
          /\ inputs' = [rv |-> inputs.rv + 1, bundle |-> installer, digest |-> installer]
          /\ UNCHANGED <<rotation, backup, versions, undo>>
        BY <1>3 DEF SR!InstallerPuts
    <2>2. inputs' \in SkillSecret /\ inputs'.rv = inputs.rv + 1 /\ inputs'.bundle = installer /\ inputs'.digest = installer
        BY <1>0, <2>1 DEF SkillSecret
    <2>3. \A r \in Rotation : Seen(r)' BY <2>1, <2>2, OtherChanges
    <2>4. SkillTypes' BY <1>0, <2>1, <2>2 DEF SkillTypes
    <2>5. \A s \in Skill : Clean(inputs.digest[s])' /\ (inputs'.bundle[s] # None => inputs'.bundle[s] <= versions')
        BY <2>1, <2>2 DEF SkillInv, Clean
    <2>6. \A r \in Rotation, s \in Skill : Clean(rotation[r].new[s])'
        BY <2>1 DEF SkillInv, Clean
    <2> QED BY <2>1, <2>2, <2>3, <2>4, <2>5, <2>6 DEF SkillInv
<1>4. ASSUME NEW t \in Skill, SR!Tamper(t) PROVE SkillInv'
    <2>1. /\ versions' = versions + 1 /\ unreviewed' = unreviewed \cup {versions + 1}
          /\ inputs' = [inputs EXCEPT !.rv = @ + 1, !.bundle[t] = versions + 1]
          /\ owed' = [owed EXCEPT ![t] = versions + 1]
          /\ UNCHANGED <<rotation, backup, installer, undo>>
        BY <1>4 DEF SR!Tamper
    <2>2. /\ inputs.bundle \in [Skill -> Numbers] /\ inputs.digest \in [Skill -> Numbers] /\ inputs.rv \in Nat
          /\ inputs.bundle = owed
        BY <1>0 DEF SkillSecret, SkillInv
    <2>3. PICK b : b = [inputs.bundle EXCEPT ![t] = versions + 1] BY Zenon
    <2>4. b \in [Skill -> Numbers] /\ b[t] = versions + 1 /\ \A s \in Skill \ {t} : b[s] = inputs.bundle[s]
        BY <1>0, <2>2, <2>3 DEF Numbers
    <2>5. inputs'.rv = inputs.rv + 1 /\ inputs'.bundle = b /\ inputs'.digest = inputs.digest /\ inputs' \in SkillSecret
        <3>1. inputs' = [rv |-> inputs.rv + 1, bundle |-> b, digest |-> inputs.digest]
            BY Zenon, <1>0, <2>1, <2>3 DEF SkillSecret
        <3> QED BY <2>2, <2>4, <3>1 DEF SkillSecret
    <2>6. owed' = b BY <2>1, <2>2, <2>3
    <2>7. \A r \in Rotation : Seen(r)' BY <2>1, <2>5, OtherChanges
    <2>8. ASSUME NEW n \in Numbers, Clean(n) PROVE Clean(n)'
        BY <1>0, <2>1, <2>8 DEF Clean, Numbers
    <2>9. ASSUME NEW r \in Rotation, NEW s \in Skill PROVE Clean(rotation[r].new[s])'
        <3>1. PICK n : n = rotation[r].new[s] OBVIOUS
        <3>2. n \in Numbers /\ Clean(n) BY <1>0, <3>1 DEF SkillInv, SkillTypes, RotationRun
        <3>3. rotation'[r].new[s] = n BY <2>1, <3>1
        <3> QED BY <2>8, <3>2, <3>3
    <2>10. ASSUME NEW s \in Skill PROVE Clean(inputs.digest[s])'
        <3>1. PICK n : n = inputs.digest[s] OBVIOUS
        <3>2. n \in Numbers /\ Clean(n) BY <2>2, <3>1 DEF SkillInv
        <3>3. inputs'.digest[s] = n BY <2>5, <3>1
        <3> QED BY <2>8, <3>2, <3>3
    <2>11. SkillTypes' BY <1>0, <2>1, <2>4, <2>5, <2>6 DEF SkillTypes
    <2>12. /\ \A n \in unreviewed' : n \in Nat /\ n <= versions'
           /\ installer' # None => \A s \in Skill : installer'[s] # None => installer'[s] <= versions'
           /\ \A s \in Skill : inputs'.bundle[s] # None => inputs'.bundle[s] <= versions'
        BY <1>0, <2>1, <2>2, <2>4, <2>5 DEF SkillInv, Numbers
    <2> QED BY Zenon, <2>1, <2>5, <2>6, <2>7, <2>9, <2>10, <2>11, <2>12 DEF SkillInv
<1>5. CASE UNCHANGED SR!skillVars
    BY <1>5 DEF SR!skillVars, SkillInv, SkillTypes, Seen, Clean
<1> QED BY <1>1, <1>2, <1>3, <1>4, <1>5 DEF SR!SkillNext

LEMMA SkillTells ==
    ASSUME SkillInv, SR!SkillAssumption PROVE SR!NothingBlessed /\ SR!ChangesKept /\ SR!UndoPossible
<1>1. SR!NothingBlessed
    BY DEF SkillInv, Clean, SR!NothingBlessed, SR!SkillAssumption
<1> QED BY <1>1 DEF SkillInv, SR!ChangesKept, SR!UndoPossible

-----------------------------------------------------------------------------
(* ClusterImport: whatever was cut short, a file is whole, empty or not    *)
(* there, and a directory that was reported has no run that still writes.  *)

Directories == {CI!Given} \cup Output
ImportData == [access : CI!PinSets, keys : {CI!Keys}, runtime : [access : CI!PinSets, keys : {CI!Keys}]]
ImportRun ==
    [pc : {"new", "read", "mkdir", "write", "undo", "done", "failed", "refused", "killed"},
     from : Directories \cup {None}, to : Output \cup {None}, order : Order \cup {None}, data : ImportData \cup {None}]

\* The run named r has read its order, and the order names x
Sourced(r, x) ==
    /\ irun[r].pc \notin {"new", "read"}
    /\ irun[r].order.user # "static"
    /\ irun[r].order.field \in {None, x} /\ irun[r].order.given \in {None, x}

GoodPins(pins) ==
    /\ pins \in CI!PinSets /\ CI!BasePins \subseteq pins
    /\ \A p \in pins : p.name # "base" => Sourced(p.name, p.field)

FileWhole(f, t) ==
    \/ f = "access" /\ GoodPins(t)
    \/ f = "keys" /\ t = CI!Keys
    \/ f = "runtime" /\ t \in [access : CI!PinSets, keys : {CI!Keys}]

FileOk(f, t) == t = None \/ t = CI!Cut(f) \/ FileWhole(f, t)

\* What a run is told and has made
Told(r) ==
    /\ irun[r].pc \in {"read", "mkdir", "write", "undo"} =>
           irun[r].to \in Output /\ irun[r].from \in Directories /\ irun[r].order \in Order
    /\ irun[r].pc \in {"mkdir", "write"} => irun[r].data \in ImportData /\ GoodPins(irun[r].data.access)

Owns(r) == irun[r].pc \in {"write", "undo"}

ImporterTypes ==
    /\ irun \in [Import -> ImportRun]
    /\ dir \in [Directories -> CI!Directory \cup {None}]
    /\ reported \subseteq Directories

ImporterInv ==
    /\ ImporterTypes
    /\ \A r \in Import : Told(r)
    /\ \A d \in Directories : dir[d] # None => \A f \in CI!File : FileOk(f, dir[d][f])
    /\ \A r \in Import : Owns(r) => dir[irun[r].to] # None /\ irun[r].to \notin reported
    /\ \A r, q \in Import : r # q /\ Owns(r) /\ Owns(q) => irun[r].to # irun[q].to
    /\ \A d \in reported : dir[d] # None /\ \A f \in CI!File : dir[d][f] # None

LEMMA TextsAre ==
    /\ CI!PinSets \subseteq CI!Text /\ CI!Keys \in CI!Text
    /\ [access : CI!PinSets, keys : {CI!Keys}] \subseteq CI!Text
    /\ \A f \in CI!File : CI!Cut(f) \in CI!Text
<1>1. CI!Keys \in SUBSET CI!Keys /\ {} \in SUBSET CI!Keys /\ {} \in CI!PinSets
    BY DEF CI!PinSets
<1>2. [access |-> {}, keys |-> {}] \in [access : CI!PinSets, keys : SUBSET CI!Keys]
    BY <1>1
<1>3. [access : CI!PinSets, keys : {CI!Keys}] \subseteq [access : CI!PinSets, keys : SUBSET CI!Keys]
    BY <1>1
<1>4. CI!PinSets \subseteq CI!Text /\ CI!Keys \in CI!Text /\ [access : CI!PinSets, keys : SUBSET CI!Keys] \subseteq CI!Text
    <2>1. PICK p, k, t : /\ p = CI!PinSets /\ k = SUBSET CI!Keys
                         /\ t = [access : CI!PinSets, keys : SUBSET CI!Keys]
        BY Zenon
    <2>2. CI!Text = p \cup k \cup t BY <2>1 DEF CI!Text
    <2>3. CI!Keys \in k BY <1>1, <2>1
    <2>4. p \subseteq CI!Text /\ CI!Keys \in CI!Text /\ t \subseteq CI!Text BY <2>2, <2>3
    <2> QED BY <2>1, <2>4
<1>5. {} \in CI!Text /\ [access |-> {}, keys |-> {}] \in CI!Text
    BY <1>1, <1>2, <1>4
<1>6. \A f \in CI!File : CI!Cut(f) \in CI!Text
    BY Zenon, <1>5 DEF CI!Cut
<1> QED BY <1>3, <1>4, <1>6

LEMMA ImporterInitOK == ASSUME CI!ImporterAssumption, CI!ImporterInit PROVE ImporterInv
<1>1. CI!BasePins \in CI!PinSets
    BY DEF CI!BasePins, CI!PinSets
<1>2. PICK run : run = [access |-> CI!BasePins, keys |-> CI!Keys] BY Zenon
<1>3. run \in [access : CI!PinSets, keys : {CI!Keys}] BY <1>1, <1>2
<1>4. PICK rev : rev = CI!Reviewed OBVIOUS
<1>5. rev.access = CI!BasePins /\ rev.keys = CI!Keys /\ rev.runtime = run
    BY <1>2, <1>4 DEF CI!Reviewed
<1>6. rev \in CI!Directory /\ rev # None /\ \A f \in CI!File : rev[f] # None
    <2>1. rev = [f \in CI!File |-> IF f = "access" THEN CI!BasePins ELSE IF f = "keys" THEN CI!Keys ELSE run]
        BY <1>2, <1>4 DEF CI!Reviewed, CI!File
    <2>2. \A f \in CI!File : rev[f] \in CI!Text
        BY <2>1, <1>1, <1>3, TextsAre
    <2>3. CI!BasePins # None /\ CI!Keys # None /\ run # None
        BY <1>1, <1>3 DEF CI!ImporterAssumption
    <2> QED BY <2>1, <2>2, <2>3 DEF CI!Directory, CI!ImporterAssumption
<1>7. GoodPins(CI!BasePins)
    BY <1>1 DEF GoodPins, CI!BasePins
<1>8. \A f \in CI!File : FileOk(f, rev[f])
    BY <1>3, <1>5, <1>7 DEF FileOk, FileWhole, CI!File
<1>9. /\ dir \in [Directories -> CI!Directory \cup {None}]
      /\ dir[CI!Given] = rev /\ \A d \in Directories \ {CI!Given} : dir[d] = None
    BY <1>4, <1>6 DEF CI!ImporterInit, Directories
<1>10. PICK g : g = CI!Gone OBVIOUS
<1>11. g \in ImportRun /\ g.pc = "new"
    BY <1>10 DEF CI!Gone, ImportRun
<1>12. irun = [r \in Import |-> g] /\ reported = {CI!Given}
    BY <1>10 DEF CI!ImporterInit
<1>13. ImporterTypes
    BY <1>9, <1>11, <1>12 DEF ImporterTypes, Directories
<1>14. \A r \in Import : irun[r].pc = "new" BY <1>11, <1>12
<1> QED BY <1>6, <1>8, <1>9, <1>12, <1>13, <1>14 DEF ImporterInv, Told, Owns

\* A run that has read its order keeps it; of one that has not there are no pins.
LEMMA PinsStay ==
    ASSUME ImporterInv, NEW r \in Import, NEW new \in ImportRun, irun' = [irun EXCEPT ![r] = new],
           irun[r].pc \notin {"new", "read"} => new.pc \notin {"new", "read"} /\ new.order = irun[r].order
    PROVE  /\ \A t : GoodPins(t) => GoodPins(t)'
           /\ \A f, t : FileOk(f, t) => FileOk(f, t)'
<1>1. irun'[r] = new /\ \A q \in Import \ {r} : irun'[q] = irun[q]
    BY DEF ImporterInv, ImporterTypes
<1>2. ASSUME NEW q \in Import, NEW x, Sourced(q, x) PROVE Sourced(q, x)'
    BY <1>1, <1>2 DEF Sourced
<1>3. ASSUME NEW t, GoodPins(t) PROVE GoodPins(t)'
    <2>1. \A p \in t : p.name \in Import \cup {"base"}
        BY <1>3 DEF GoodPins, CI!PinSets
    <2> QED BY <1>2, <1>3, <2>1 DEF GoodPins
<1> QED BY <1>3 DEF FileOk, FileWhole

\* A step of one run, which may write in a directory that was not reported.
LEMMA ImporterMoves ==
    ASSUME ImporterInv, NEW r \in Import, NEW new \in ImportRun, irun' = [irun EXCEPT ![r] = new],
           irun[r].pc \notin {"new", "read"} => new.pc \notin {"new", "read"} /\ new.order = irun[r].order,
           Told(r)', reported' = reported,
           dir' \in [Directories -> CI!Directory \cup {None}],
           \A d \in reported : dir'[d] = dir[d],
           \A d \in Directories : dir'[d] # None =>
               \A f \in CI!File : FileOk(f, dir'[d][f]) \/ (dir[d] # None /\ dir'[d][f] = dir[d][f]),
           \A q \in Import \ {r} : Owns(q) => dir'[irun[q].to] # None,
           Owns(r)' => dir'[new.to] # None /\ new.to \notin reported,
           Owns(r)' => \A q \in Import \ {r} : Owns(q) => irun[q].to # new.to
    PROVE  ImporterInv'
<1>1. irun'[r] = new /\ \A q \in Import \ {r} : irun'[q] = irun[q]
    BY DEF ImporterInv, ImporterTypes
<1>2. ImporterTypes'
    BY DEF ImporterInv, ImporterTypes
<1>3. ASSUME NEW q \in Import PROVE Told(q)'
    <2>1. CASE q # r
        <3>1. irun'[q] = irun[q] /\ Told(q) BY <1>1, <2>1 DEF ImporterInv
        <3> QED BY Zenon, <3>1, PinsStay DEF Told
    <2> QED BY <2>1
<1>4. ASSUME NEW d \in Directories, dir'[d] # None, NEW f \in CI!File PROVE FileOk(f, dir[d][f])'
    <2>1. PICK t : t = dir'[d][f] OBVIOUS
    <2>2. FileOk(f, t) BY <1>4, <2>1 DEF ImporterInv
    <2>3. FileOk(f, t)' BY Zenon, <2>2, PinsStay
    <2> QED BY <2>1, <2>3 DEF FileOk, FileWhole
<1>5. \A q \in Import \ {r} : Owns(q)' <=> Owns(q)
    BY <1>1 DEF Owns
<1>6. \A q \in Import : Owns(q)' => dir'[irun'[q].to] # None /\ irun'[q].to \notin reported'
    BY <1>1, <1>5 DEF ImporterInv
<1>7. \A p, q \in Import : p # q /\ Owns(p)' /\ Owns(q)' => irun'[p].to # irun'[q].to
    BY <1>1, <1>5 DEF ImporterInv
<1>8. \A d \in reported' : dir'[d] # None /\ \A f \in CI!File : dir'[d][f] # None
    BY DEF ImporterInv
<1> QED BY <1>2, <1>3, <1>4, <1>6, <1>7, <1>8 DEF ImporterInv

\* What a sound directory holds
LEMMA SoundIs ==
    ASSUME ImporterInv, NEW d \in Directories, CI!Sound(d)
    PROVE  GoodPins(dir[d].access) /\ dir[d].keys = CI!Keys
<1>1. /\ dir[d] # None /\ dir[d].access # None /\ dir[d].runtime # None
      /\ dir[d].access # CI!Cut("access") /\ dir[d].runtime # CI!Cut("runtime")
      /\ dir[d].runtime.keys = dir[d].keys
    BY DEF CI!Sound, CI!Matches, CI!File, CI!Input
<1>2. FileOk("access", dir[d].access) /\ FileOk("runtime", dir[d].runtime)
    BY <1>1 DEF ImporterInv, CI!File
<1>3. GoodPins(dir[d].access)
    BY <1>1, <1>2 DEF FileOk, FileWhole
<1>4. dir[d].runtime \in [access : CI!PinSets, keys : {CI!Keys}]
    BY <1>1, <1>2 DEF FileOk, FileWhole
<1> QED BY <1>1, <1>3, <1>4

\* The pin of an order that passed the checks, once they are behind it
LEMMA PinGood ==
    ASSUME NEW r \in Import, irun[r].order \in Order, CI!Importable(irun[r].order),
           irun'[r].pc = "mkdir", irun'[r].order = irun[r].order
    PROVE  /\ CI!Pin(r) \in [name : Import \cup {"base"}, field : {"base"} \cup {CI!Field(o) : o \in Order}]
           /\ \A p : p = CI!Pin(r) => p.name = r /\ Sourced(r, p.field)'
<1>1. PICK o : o = irun[r].order OBVIOUS
<1>2. CI!Pin(r) = [name |-> r, field |-> CI!Field(o)]
    BY <1>1 DEF CI!Pin
<1>3. o.user # "static" /\ CI!Agreed(o)
    BY Zenon, <1>1 DEF CI!Importable, CI!Scoped
<1>4. o.field \in {None, CI!Field(o)} /\ o.given \in {None, CI!Field(o)}
    BY <1>3 DEF CI!Agreed, CI!Field
<1>5. ASSUME NEW p, p = CI!Pin(r) PROVE p.name = r /\ Sourced(r, p.field)'
    <2>1. p.name = r /\ p.field = CI!Field(o) BY <1>2, <1>5
    <2>2. irun'[r].order = o /\ irun'[r].pc \notin {"new", "read"} BY <1>1
    <2> QED BY <1>3, <1>4, <2>1, <2>2 DEF Sourced
<1> QED BY <1>1, <1>2, <1>5

LEMMA ImporterStepKeeps == ASSUME ImporterInv, CI!ImporterAssumption, NEW r \in Import,
    CI!Start(r) \/ CI!Read(r) \/ CI!Mkdir(r) \/ CI!Write(r) \/ CI!Undo(r) \/ CI!Abort(r) \/ CI!Kill(r)
    PROVE  ImporterInv'
<1>1. /\ irun \in [Import -> ImportRun] /\ irun[r] \in ImportRun /\ Told(r)
      /\ dir \in [Directories -> CI!Directory \cup {None}]
      /\ \A q \in Import \ {r} : Owns(q) => dir[irun[q].to] # None
    BY DEF ImporterInv, ImporterTypes
<1>m. ASSUME NEW new \in ImportRun, irun' = [irun EXCEPT ![r] = new] PROVE irun'[r] = new
    BY <1>1, <1>m
<1>p. ASSUME NEW p \in {"write", "undo", "failed", "refused", "killed"}, CI!Step(r, p)
      PROVE  \E new \in ImportRun : /\ irun' = [irun EXCEPT ![r] = new] /\ irun'[r] = new /\ new.pc = p
                                     /\ new.to = irun[r].to /\ new.from = irun[r].from
                                     /\ new.order = irun[r].order /\ new.data = irun[r].data
    <2>1. PICK new : new = [irun[r] EXCEPT !.pc = p] BY Zenon
    <2>2. new \in ImportRun /\ new.pc = p /\ new.to = irun[r].to /\ new.from = irun[r].from
          /\ new.order = irun[r].order /\ new.data = irun[r].data
        BY <1>1, <2>1 DEF ImportRun
    <2>3. irun' = [irun EXCEPT ![r] = new] BY <1>p, <2>1 DEF CI!Step
    <2> QED BY Zenon, <1>m, <2>2, <2>3
\* A run that only goes on
<1>q. ASSUME NEW new \in ImportRun, irun' = [irun EXCEPT ![r] = new], UNCHANGED <<dir, reported>>, Told(r)',
             irun[r].pc \notin {"new", "read"} => new.pc \notin {"new", "read"} /\ new.order = irun[r].order,
             new.pc \in {"write", "undo"} => irun[r].pc \in {"write", "undo"} /\ new.to = irun[r].to
      PROVE  ImporterInv'
    <2>1. Owns(r)' => Owns(r) /\ new.to = irun[r].to BY Zenon, <1>m, <1>q DEF Owns
    <2>2. Owns(r) => dir[irun[r].to] # None /\ irun[r].to \notin reported
                     /\ \A q \in Import \ {r} : Owns(q) => irun[q].to # irun[r].to
        BY DEF ImporterInv
    <2> QED BY Zenon, <1>1, <1>q, <2>1, <2>2, ImporterMoves
\* A run that also changes its own directory
<1>w. ASSUME NEW new \in ImportRun, irun' = [irun EXCEPT ![r] = new], reported' = reported, Told(r)', Owns(r),
             new.pc \notin {"new", "read"}, new.order = irun[r].order,
             NEW x \in CI!Directory \cup {None}, dir' = [dir EXCEPT ![irun[r].to] = x],
             x # None => dir[irun[r].to] # None /\
                 \A f \in CI!File : FileOk(f, x[f]) \/ x[f] = dir[irun[r].to][f],
             new.pc \in {"write", "undo"} => new.to = irun[r].to /\ x # None
      PROVE  ImporterInv'
    <2>1. /\ irun[r].to \in Directories /\ irun[r].to \notin reported /\ dir[irun[r].to] # None
          /\ \A q \in Import \ {r} : Owns(q) => irun[q].to # irun[r].to
        BY <1>1, <1>w DEF ImporterInv, Told, Owns, Directories
    <2>2. dir'[irun[r].to] = x /\ \A d \in Directories \ {irun[r].to} : dir'[d] = dir[d]
        BY <1>1, <1>w, <2>1
    <2>3. dir' \in [Directories -> CI!Directory \cup {None}]
        BY Zenon, <1>1, <1>w
    <2>4. reported \subseteq Directories BY DEF ImporterInv, ImporterTypes
    <2>5. \A q \in Import : Owns(q) => irun[q].to \in Directories BY DEF ImporterInv, Told, Owns, Directories
    <2>6. \A q \in Import \ {r} : Owns(q) => dir'[irun[q].to] # None BY <1>1, <2>1, <2>2, <2>5
    <2>7. \A d \in Directories : dir'[d] # None =>
               \A f \in CI!File : FileOk(f, dir'[d][f]) \/ (dir[d] # None /\ dir'[d][f] = dir[d][f])
        BY <1>w, <2>2
    <2>8. \A d \in reported : dir'[d] = dir[d] BY <2>1, <2>2, <2>4
    <2>9. Owns(r)' => dir'[new.to] # None /\ new.to = irun[r].to BY Zenon, <1>m, <1>w, <2>2 DEF Owns
    <2>10. Owns(r)' => dir'[new.to] # None /\ new.to \notin reported
        BY <2>1, <2>9
    <2>11. Owns(r)' => \A q \in Import \ {r} : Owns(q) => irun[q].to # new.to
        BY <2>1, <2>9
    <2> QED BY Zenon, <1>w, <2>3, <2>6, <2>7, <2>8, <2>10, <2>11, ImporterMoves
<1>2. CASE CI!Start(r)
    <2>1. PICK from \in Directories, to \in Output, o \in Order :
              irun' = [irun EXCEPT ![r] = [pc |-> "read", from |-> from, to |-> to, order |-> o, data |-> None]]
        BY Zenon, <1>2 DEF CI!Start, Directories
    <2>2. PICK new : new = [pc |-> "read", from |-> from, to |-> to, order |-> o, data |-> None] BY Zenon
    <2>3. new \in ImportRun /\ new.pc = "read" /\ new.to = to /\ new.from = from /\ new.order = o
        BY <2>2 DEF ImportRun
    <2>4. irun' = [irun EXCEPT ![r] = new] BY <2>1, <2>2
    <2>5. Told(r)' BY Zenon, <1>m, <2>3, <2>4 DEF Told
    <2>6. irun[r].pc = "new" /\ UNCHANGED <<dir, reported>> BY <1>2 DEF CI!Start
    <2> QED BY Zenon, <1>q, <2>3, <2>4, <2>5, <2>6
<1>3. CASE CI!Read(r)
    <2>0. irun[r].pc = "read" /\ UNCHANGED <<dir, reported>> BY <1>3 DEF CI!Read
    <2>1. CASE irun' = [irun EXCEPT ![r] = [CI!Gone EXCEPT !.pc = "refused"]]
        <3>1. PICK new : new = [CI!Gone EXCEPT !.pc = "refused"] BY Zenon
        <3>2. new \in ImportRun /\ new.pc = "refused" BY <3>1 DEF CI!Gone, ImportRun
        <3>3. irun' = [irun EXCEPT ![r] = new] BY <2>1, <3>1
        <3>4. Told(r)' BY Zenon, <1>m, <3>2, <3>3 DEF Told
        <3> QED BY Zenon, <1>q, <2>0, <3>2, <3>3, <3>4
    <2>2. ASSUME NEW pins, NEW data, CI!Sound(irun[r].from), CI!Importable(irun[r].order),
                 pins = dir[irun[r].from].access \cup {CI!Pin(r)},
                 data = [access |-> pins, keys |-> dir[irun[r].from].keys,
                         runtime |-> [access |-> pins, keys |-> dir[irun[r].from].keys]],
                 irun' = [irun EXCEPT ![r].pc = "mkdir", ![r].data = data]
          PROVE  ImporterInv'
        <3>1. /\ irun[r].from \in Directories /\ irun[r].order \in Order /\ GoodPins(dir[irun[r].from].access)
              /\ dir[irun[r].from].keys = CI!Keys
            BY <1>1, <2>0, <2>2, SoundIs DEF Told
        <3>2. PICK new : new = [irun[r] EXCEPT !.pc = "mkdir", !.data = data] OBVIOUS
        <3>3. irun' = [irun EXCEPT ![r] = new] BY Zenon, <1>1, <2>2, <3>2
        <3>4. new.pc = "mkdir" /\ new.to = irun[r].to /\ new.from = irun[r].from /\ new.order = irun[r].order /\ new.data = data
            BY <1>1, <3>2 DEF ImportRun
        <3>5. irun'[r] = new BY <1>1, <3>3
        <3>6. PICK p : p = CI!Pin(r) OBVIOUS
        <3>7. /\ p \in [name : Import \cup {"base"}, field : {"base"} \cup {CI!Field(o) : o \in Order}]
              /\ p.name = r /\ Sourced(r, p.field)'
            BY Zenon, <2>2, <3>1, <3>4, <3>5, <3>6, PinGood
        <3>8. pins \in CI!PinSets /\ CI!BasePins \subseteq pins
            BY <2>2, <3>1, <3>6, <3>7 DEF GoodPins, CI!PinSets
        <3>9. data \in ImportData /\ data.access = pins
            BY <2>2, <3>1, <3>8 DEF ImportData
        <3>10. new \in ImportRun
            BY Zenon, <1>1, <3>2, <3>9 DEF ImportRun
        <3>11. PICK old : old = dir[irun[r].from].access OBVIOUS
        <3>12. GoodPins(old)'
            BY Zenon, <2>0, <3>1, <3>3, <3>10, <3>11, PinsStay
        <3>13. \A x \in pins : x \in old \/ x = p BY <2>2, <3>6, <3>11
        <3>14. GoodPins(pins)'
            BY <3>7, <3>8, <3>12, <3>13 DEF GoodPins
        <3>15. Told(r)'
            BY <1>1, <2>0, <3>1, <3>4, <3>5, <3>9, <3>14 DEF Told
        <3> QED BY Zenon, <1>q, <2>0, <3>3, <3>4, <3>10, <3>15
    <2> QED BY Zenon, <1>3, <2>1, <2>2 DEF CI!Read
<1>4. CASE CI!Mkdir(r)
    <2>0. irun[r].pc = "mkdir" /\ reported' = reported BY <1>4 DEF CI!Mkdir
    <2>1. CASE dir[irun[r].to] = None
        <3>1. CI!Step(r, "write") /\ dir' = [dir EXCEPT ![irun[r].to] = [f \in CI!File |-> None]]
            BY <1>4, <2>1 DEF CI!Mkdir
        <3>2. PICK new \in ImportRun : /\ irun' = [irun EXCEPT ![r] = new] /\ irun'[r] = new /\ new.pc = "write"
                                     /\ new.to = irun[r].to /\ new.from = irun[r].from
                                     /\ new.order = irun[r].order /\ new.data = irun[r].data
            BY <1>p, <3>1
        <3>3. PICK x : x = [f \in CI!File |-> None] BY Zenon
        <3>4. x \in CI!Directory /\ x # None /\ \A f \in CI!File : x[f] = None
            BY <3>3 DEF CI!Directory, CI!ImporterAssumption
        <3>5. irun[r].to \in Output /\ irun[r].to \in Directories BY <1>1, <2>0 DEF Told, Directories
        <3>6. dir'[irun[r].to] = x /\ \A d \in Directories \ {irun[r].to} : dir'[d] = dir[d]
            BY <1>1, <3>1, <3>3, <3>5
        <3>7. dir' \in [Directories -> CI!Directory \cup {None}]
            BY Zenon, <1>1, <3>1, <3>3, <3>4
        <3>8. irun[r].to \notin reported /\ (\A d \in reported : d \in Directories)
            BY <2>1 DEF ImporterInv, ImporterTypes
        <3>9. \A q \in Import \ {r} : Owns(q) => irun[q].to # irun[r].to /\ irun[q].to \in Directories
            BY <1>1, <2>1 DEF ImporterInv, Told, Owns, Directories
        <3>10. Told(r)'
            <4>1. PICK a : a = irun[r].data.access OBVIOUS
            <4>2. GoodPins(a) BY <1>1, <2>0, <4>1 DEF Told
            <4>3. GoodPins(a)' BY Zenon, <2>0, <3>2, <4>2, PinsStay
            <4>4. GoodPins(irun[r].data.access)' BY <3>2, <4>1, <4>3
            <4> QED BY <1>1, <2>0, <3>2, <4>4 DEF Told
        <3>11. \A d \in Directories : dir'[d] # None =>
                   \A f \in CI!File : FileOk(f, dir'[d][f]) \/ (dir[d] # None /\ dir'[d][f] = dir[d][f])
            BY <3>4, <3>6 DEF FileOk
        <3>12. \A q \in Import \ {r} : Owns(q) => dir'[irun[q].to] # None
            BY <1>1, <3>6, <3>9
        <3>13. \A d \in reported : dir'[d] = dir[d]
            BY <3>6, <3>8
        <3>14. dir'[new.to] # None /\ new.to \notin reported /\ \A q \in Import \ {r} : Owns(q) => irun[q].to # new.to
            BY <3>2, <3>4, <3>6, <3>8, <3>9
        <3>15. new.pc \notin {"new", "read"} BY <3>2
        <3> QED BY Zenon, <2>0, <3>2, <3>7, <3>10, <3>11, <3>12, <3>13, <3>14, <3>15, ImporterMoves
    <2>2. CASE CI!Step(r, "refused") /\ UNCHANGED dir
        <3>1. PICK new \in ImportRun : /\ irun' = [irun EXCEPT ![r] = new] /\ irun'[r] = new /\ new.pc = "refused"
                                     /\ new.order = irun[r].order
            BY <1>p, <2>2
        <3>2. Told(r)' BY <3>1 DEF Told
        <3> QED BY Zenon, <1>q, <2>0, <2>2, <3>1, <3>2
    <2> QED BY <1>4, <2>1, <2>2 DEF CI!Mkdir
<1>5. CASE CI!Write(r)
    <2>0. irun[r].pc = "write" /\ reported' = reported /\ Owns(r) /\ dir[irun[r].to] # None
        BY <1>5 DEF CI!Write, Owns
    <2>1. irun[r].to \in Directories /\ irun[r].data \in ImportData /\ GoodPins(irun[r].data.access)
          /\ dir[irun[r].to] \in CI!Directory
        BY <1>1, <2>0 DEF Told, Directories
    <2>2. PICK f \in CI!File :
              \/ dir' = [dir EXCEPT ![irun[r].to][f] = irun[r].data[f]] /\ UNCHANGED irun
              \/ dir' = [dir EXCEPT ![irun[r].to][f] = CI!Cut(f)] /\ CI!Step(r, "undo")
        BY Zenon, <1>5 DEF CI!Write
    <2>3. FileOk(f, irun[r].data[f]) /\ irun[r].data[f] \in CI!Text
        <3>1. PICK y : y = irun[r].data OBVIOUS
        <3>2. /\ y["access"] \in CI!PinSets /\ y["keys"] = CI!Keys
              /\ y["runtime"] \in [access : CI!PinSets, keys : {CI!Keys}]
            BY <2>1, <3>1 DEF ImportData
        <3>3. GoodPins(y["access"]) BY <2>1, <3>1
        <3>4. FileOk(f, y[f]) BY <3>2, <3>3 DEF FileOk, FileWhole, CI!File
        <3>5. y[f] \in CI!Text BY <3>2, TextsAre DEF CI!File
        <3> QED BY <3>1, <3>4, <3>5
    <2>4. FileOk(f, CI!Cut(f)) /\ CI!Cut(f) \in CI!Text
        BY TextsAre DEF FileOk
    <2>5. ASSUME NEW t \in CI!Text, FileOk(f, t), dir' = [dir EXCEPT ![irun[r].to][f] = t],
                 NEW new \in ImportRun, irun' = [irun EXCEPT ![r] = new], Told(r)',
                 new.pc \in {"write", "undo"}, new.order = irun[r].order, new.to = irun[r].to
          PROVE  ImporterInv'
        <3>1. PICK x : x = [dir[irun[r].to] EXCEPT ![f] = t] BY Zenon
        <3>2. x \in CI!Directory /\ x[f] = t /\ \A g \in CI!File \ {f} : x[g] = dir[irun[r].to][g]
            BY <2>1, <3>1 DEF CI!Directory
        <3>3. dir' = [dir EXCEPT ![irun[r].to] = x] BY <1>1, <2>1, <2>5, <3>1
        <3>4. x # None BY <3>2 DEF CI!ImporterAssumption
        <3>5. \A g \in CI!File : FileOk(g, x[g]) \/ x[g] = dir[irun[r].to][g]
            BY <2>5, <3>2
        <3>6. new.pc \notin {"new", "read"} BY <2>5
        <3>7. x \in CI!Directory \cup {None} BY <3>2
        <3> QED BY Zenon, <1>w, <2>0, <2>5, <3>3, <3>4, <3>5, <3>6, <3>7
    <2>6. CASE dir' = [dir EXCEPT ![irun[r].to][f] = irun[r].data[f]] /\ UNCHANGED irun
        <3>1. PICK t, new : t = irun[r].data[f] /\ new = irun[r] OBVIOUS
        <3>2. irun' = [irun EXCEPT ![r] = new] BY <1>1, <2>6, <3>1
        <3>3. Told(r)'
            BY <1>1, <2>6 DEF Told, GoodPins, Sourced
        <3>4. new \in ImportRun /\ new.pc = "write" /\ t \in CI!Text /\ FileOk(f, t)
            BY <1>1, <2>0, <2>3, <3>1
        <3>5. dir' = [dir EXCEPT ![irun[r].to][f] = t] BY <2>6, <3>1
        <3> QED BY Zenon, <2>5, <3>1, <3>2, <3>3, <3>4, <3>5
    <2>7. CASE dir' = [dir EXCEPT ![irun[r].to][f] = CI!Cut(f)] /\ CI!Step(r, "undo")
        <3>1. PICK new \in ImportRun : /\ irun' = [irun EXCEPT ![r] = new] /\ irun'[r] = new /\ new.pc = "undo"
                                     /\ new.to = irun[r].to /\ new.from = irun[r].from
                                     /\ new.order = irun[r].order /\ new.data = irun[r].data
            BY <1>p, <2>7
        <3>2. Told(r)' BY <1>1, <2>0, <3>1 DEF Told
        <3> QED BY Zenon, <2>4, <2>5, <2>7, <3>1, <3>2
    <2> QED BY <2>2, <2>6, <2>7
<1>6. CASE CI!Undo(r)
    <2>1. PICK new \in ImportRun : /\ irun' = [irun EXCEPT ![r] = new] /\ irun'[r] = new /\ new.pc = "failed"
                                 /\ new.to = irun[r].to /\ new.order = irun[r].order
        BY <1>p, <1>6 DEF CI!Undo
    <2>2. Told(r)' BY <2>1 DEF Told
    <2>3. Owns(r) /\ reported' = reported /\ dir' = [dir EXCEPT ![irun[r].to] = None]
        BY <1>6 DEF CI!Undo, Owns
    <2>4. PICK x : x = None OBVIOUS
    <2>5. x \in CI!Directory \cup {None} /\ dir' = [dir EXCEPT ![irun[r].to] = x] BY <2>3, <2>4
    <2>6. new.pc \notin {"new", "read", "write", "undo"} BY <2>1
    <2> QED BY Zenon, <1>w, <2>1, <2>2, <2>3, <2>4, <2>5, <2>6
<1>7. CASE CI!Abort(r)
    <2>1. PICK new \in ImportRun : /\ irun' = [irun EXCEPT ![r] = new] /\ irun'[r] = new /\ new.pc = "undo"
                                 /\ new.to = irun[r].to /\ new.from = irun[r].from /\ new.order = irun[r].order
        BY <1>p, <1>7 DEF CI!Abort
    <2>2. irun[r].pc = "write" /\ UNCHANGED <<dir, reported>> BY <1>7 DEF CI!Abort
    <2>3. Told(r)' BY <1>1, <2>1, <2>2 DEF Told
    <2> QED BY Zenon, <1>q, <2>1, <2>2, <2>3
<1>8. CASE CI!Kill(r)
    <2>1. PICK new \in ImportRun : /\ irun' = [irun EXCEPT ![r] = new] /\ irun'[r] = new /\ new.pc = "killed"
                                 /\ new.to = irun[r].to /\ new.order = irun[r].order
        BY <1>p, <1>8 DEF CI!Kill
    <2>2. Told(r)' /\ reported' = reported /\ new.pc \notin {"new", "read", "write", "undo"}
        BY <1>8, <2>1 DEF Told, CI!Kill
    <2>3. CASE UNCHANGED dir
        BY Zenon, <1>q, <2>1, <2>2, <2>3
    <2>4. ASSUME NEW f \in CI!File, NEW t \in CI!Text \cup {None}, FileOk(f, t), Owns(r), dir[irun[r].to] # None,
                 dir' = [dir EXCEPT ![irun[r].to][f] = t]
          PROVE  ImporterInv'
        <3>0. irun[r].to \in Directories /\ dir[irun[r].to] \in CI!Directory
            BY <1>1, <2>4 DEF Told, Directories, Owns
        <3>1. PICK x : x = [dir[irun[r].to] EXCEPT ![f] = t] BY Zenon
        <3>2. x \in CI!Directory /\ x[f] = t /\ \A g \in CI!File \ {f} : x[g] = dir[irun[r].to][g]
            BY <2>4, <3>0, <3>1 DEF CI!Directory
        <3>3. dir' = [dir EXCEPT ![irun[r].to] = x] BY <1>1, <2>4, <3>0, <3>1
        <3>5. \A g \in CI!File : FileOk(g, x[g]) \/ x[g] = dir[irun[r].to][g]
            BY <2>4, <3>2
        <3>6. new.pc \notin {"new", "read"} /\ new.pc \notin {"write", "undo"} BY <2>2
        <3>7. x \in CI!Directory \cup {None} BY <3>2
        <3> QED BY Zenon, <1>w, <2>1, <2>2, <2>4, <3>3, <3>5, <3>6, <3>7
    <2>5. ASSUME NEW f \in CI!File, irun[r].pc = "write", dir[irun[r].to] # None, dir' = [dir EXCEPT ![irun[r].to][f] = CI!Cut(f)]
          PROVE  ImporterInv'
        BY Zenon, <2>4, <2>5, TextsAre DEF FileOk, Owns
    <2>6. ASSUME NEW f \in CI!File, irun[r].pc = "undo", dir[irun[r].to] # None, dir' = [dir EXCEPT ![irun[r].to][f] = None]
          PROVE  ImporterInv'
        BY Zenon, <2>4, <2>6 DEF FileOk, Owns
    <2> QED BY Zenon, <1>8, <2>3, <2>5, <2>6 DEF CI!Kill
<1> QED BY <1>2, <1>3, <1>4, <1>5, <1>6, <1>7, <1>8

LEMMA ValidateKeeps == ASSUME ImporterInv, NEW r \in Import, CI!Validate(r) PROVE ImporterInv'
<1>1. /\ irun \in [Import -> ImportRun] /\ irun[r] \in ImportRun /\ Told(r) /\ ImporterTypes
    BY DEF ImporterInv, ImporterTypes
<1>2. /\ irun[r].pc = "write" /\ irun[r].to \in Output /\ dir[irun[r].to] # None /\ dir' = dir
      /\ \A f \in CI!File : dir[irun[r].to][f] # None
      /\ reported' = reported \cup {irun[r].to} /\ irun' = [irun EXCEPT ![r].pc = "done"]
    BY <1>1 DEF CI!Validate, CI!Step, Told
<1>3. PICK new : new = [irun[r] EXCEPT !.pc = "done"] BY Zenon
<1>4. new \in ImportRun /\ new.pc = "done" /\ new.order = irun[r].order /\ irun' = [irun EXCEPT ![r] = new]
    BY <1>1, <1>2, <1>3 DEF ImportRun
<1>5. irun'[r] = new /\ \A q \in Import \ {r} : irun'[q] = irun[q]
    BY <1>1, <1>4
<1>6. ImporterTypes'
    BY <1>1, <1>2, <1>4 DEF ImporterTypes, Directories
<1>7. new.pc \notin {"new", "read"} BY <1>4
<1>8. ASSUME NEW q \in Import PROVE Told(q)'
    <2>1. CASE q = r BY <1>4, <1>5, <2>1 DEF Told
    <2>2. CASE q # r
        <3>1. irun'[q] = irun[q] /\ Told(q) BY <1>5, <2>2 DEF ImporterInv
        <3> QED BY Zenon, <1>4, <1>7, <3>1, PinsStay DEF Told
    <2> QED BY <2>1, <2>2
<1>9. ASSUME NEW d \in Directories, dir'[d] # None, NEW f \in CI!File PROVE FileOk(f, dir[d][f])'
    <2>1. PICK t : t = dir[d][f] OBVIOUS
    <2>2. FileOk(f, t) BY <1>2, <1>9, <2>1 DEF ImporterInv
    <2>3. FileOk(f, t)' BY Zenon, <1>4, <1>7, <2>2, PinsStay
    <2> QED BY <1>2, <2>1, <2>3 DEF FileOk, FileWhole
<1>10. (\A q \in Import \ {r} : Owns(q)' <=> Owns(q)) /\ ~Owns(r)' /\ Owns(r)
    BY <1>2, <1>4, <1>5 DEF Owns
<1>11. \A q \in Import : Owns(q)' => dir'[irun'[q].to] # None /\ irun'[q].to \notin reported'
    BY <1>2, <1>5, <1>10 DEF ImporterInv
<1>12. \A p, q \in Import : p # q /\ Owns(p)' /\ Owns(q)' => irun'[p].to # irun'[q].to
    BY <1>5, <1>10 DEF ImporterInv
<1>13. \A d \in reported' : dir'[d] # None /\ \A f \in CI!File : dir'[d][f] # None
    BY <1>2 DEF ImporterInv
<1> QED BY <1>6, <1>8, <1>9, <1>11, <1>12, <1>13 DEF ImporterInv

LEMMA ImporterKeeps ==
    ASSUME ImporterInv, CI!ImporterAssumption, [CI!ImporterNext]_(CI!importerVars) PROVE ImporterInv'
<1>1. CASE UNCHANGED CI!importerVars
    BY <1>1 DEF CI!importerVars, ImporterInv, ImporterTypes, Told, Owns, FileOk, FileWhole, GoodPins, Sourced
<1> QED BY <1>1, ImporterStepKeeps, ValidateKeeps DEF CI!ImporterNext

LEMMA ImporterTells ==
    ASSUME ImporterInv, CI!ImporterAssumption PROVE CI!AcceptedWhole /\ CI!PinsAgree
<1>1. CI!AcceptedWhole
    BY SoundIs DEF CI!AcceptedWhole, GoodPins, Directories
<1>2. ASSUME NEW r \in Import, NEW d \in Output, CI!Sound(d), NEW p \in dir[d].access, p.name = r
      PROVE  irun[r].order.user # "static" /\ {irun[r].order.field, irun[r].order.given} \subseteq {None, p.field}
    <2>1. GoodPins(dir[d].access) BY <1>2, SoundIs DEF Directories
    <2>2. Sourced(p.name, p.field) BY <1>2, <2>1 DEF GoodPins, CI!ImporterAssumption
    <2> QED BY <1>2, <2>2 DEF Sourced
<1>3. CI!PinsAgree
    BY Zenon, <1>2 DEF CI!PinsAgree
<1> QED BY <1>1, <1>3

LEMMA ReportedStay ==
    ASSUME ImporterInv, CI!ImporterAssumption, [CI!ImporterNext]_(CI!importerVars) PROVE [CI!ReportedKept]_(CI!importerVars)
<1> SUFFICES ASSUME NEW r \in Import, NEW d \in reported, dir'[d] # dir[d],
        CI!Start(r) \/ CI!Read(r) \/ CI!Mkdir(r) \/ CI!Write(r) \/ CI!Validate(r) \/ CI!Undo(r) \/ CI!Abort(r) \/ CI!Kill(r)
    PROVE  FALSE
    BY DEF CI!ImporterNext, CI!ReportedKept
<1>1. /\ d \in Directories /\ dir \in [Directories -> CI!Directory \cup {None}] /\ dir[d] # None
      /\ Owns(r) => irun[r].to # d
    BY DEF ImporterInv, ImporterTypes
<1>2. ASSUME NEW x, dir' = [dir EXCEPT ![irun[r].to] = x] PROVE irun[r].to = d
    BY <1>1, <1>2
<1>3. irun[r].to = d
    <2>1. CASE CI!Mkdir(r) BY <1>2, <2>1 DEF CI!Mkdir
    <2>2. CASE CI!Write(r) BY <1>2, <2>2 DEF CI!Write
    <2>3. CASE CI!Undo(r) BY <1>2, <2>3 DEF CI!Undo
    <2>4. CASE CI!Kill(r) BY Zenon, <1>2, <2>4 DEF CI!Kill
    <2> QED BY <2>1, <2>2, <2>3, <2>4 DEF CI!Start, CI!Read, CI!Validate, CI!Abort
<1>4. CI!Mkdir(r)
    BY <1>1, <1>3 DEF CI!Start, CI!Read, CI!Write, CI!Validate, CI!Undo, CI!Abort, CI!Kill, Owns
<1> QED BY <1>1, <1>3, <1>4 DEF CI!Mkdir

-----------------------------------------------------------------------------
(* AgentConfig: what a run has done so far follows from the document it    *)
(* loaded, unless somebody saved the file meanwhile.                       *)

Runs ==
    [set : Sets, doc : [AC!Name -> AC!Entry \cup {None}], perms : [AC!Name -> {"ask", "allow", None}],
     drop : SUBSET AC!Name, put : SUBSET AC!Name, adding : AC!Name \cup {None}, overlapped : BOOLEAN]

ConfigTypes ==
    /\ AC!ConfigTypeOK
    /\ configRun # None => configRun \in Runs /\ AC!ValidServices(configRun.set)
    /\ clean # None => \E set \in Sets : AC!ValidServices(set) /\ clean = [set |-> set]

\* A run changes a configuration only through what it loaded: the codex CLI one entry at a
\* time, first those to drop, then those to put; otherwise nothing before its end
Halfway ==
    configRun # None =>
        /\ configRun.drop \subseteq AC!Dropped(configRun.doc, configRun.set)
        /\ configRun.put \subseteq AC!Differing(configRun.doc, configRun.set)
        /\ kind # "codex" => configRun.drop = {} /\ configRun.put = {}
        /\ configRun.adding # None =>
              /\ kind = "codex" /\ configRun.drop = {}
              /\ configRun.adding \in AC!Differing(configRun.doc, configRun.set) \ configRun.put

\* Where the entry n of a run through the CLI that nobody disturbed is by now
Track(n) ==
    IF n \in AC!Dropped(configRun.doc, configRun.set)
    THEN n \notin configRun.drop => config[n] = None
    ELSE IF n \in AC!Differing(configRun.doc, configRun.set) \ configRun.put
    THEN n # configRun.adding => config[n] = AC!HubEntry(None)
    ELSE config[n] = configRun.doc[n]

Tracked ==
    configRun # None /\ ~configRun.overlapped =>
        IF kind = "codex" THEN \A n \in AC!Name : Track(n)
        ELSE config = configRun.doc /\ perms = configRun.perms

\* Nothing is left for a run with these services to do
Settled(doc, asked, set) ==
    IF kind = "codex" THEN AC!Dropped(doc, set) = {} /\ AC!Differing(doc, set) = {}
    ELSE /\ AC!NewDocument(doc, set) = doc
         /\ kind = "opencode" => AC!Permitted(asked, set) = asked

LeftClean ==
    clean # None =>
        /\ Settled(config, perms, clean.set)
        /\ configRun # None =>
              /\ ~configRun.overlapped /\ clean = [set |-> configRun.set]
              /\ configRun.doc = config /\ configRun.perms = perms
              /\ configRun.drop = {} /\ configRun.put = {} /\ configRun.adding = None

ConfigInv == ConfigTypes /\ Halfway /\ Tracked /\ LeftClean

LEMMA ConfigInitOK == ASSUME AC!ConfigInit, AC!ConfigAssumption PROVE ConfigInv
BY DEF AC!ConfigInit, AC!ConfigAssumption, ConfigInv, ConfigTypes, AC!ConfigTypeOK, Halfway, Tracked, LeftClean,
       AC!Entry, AC!Stdio, AC!Off, AC!Name

\* Every name of a service set is served.
LEMMA SelectedServed == ASSUME NEW set, AC!ValidServices(set) PROVE AC!Selected(set) \subseteq Served
BY DEF AC!ValidServices, AC!Selected

LEMMA HubEntryType == ASSUME NEW old \in AC!Entry \cup {None} PROVE AC!HubEntry(old) \in AC!Entry
BY DEF AC!HubEntry, AC!Entry

LEMMA DocumentType ==
    ASSUME NEW set, NEW doc \in [AC!Name -> AC!Entry \cup {None}]
    PROVE  AC!NewDocument(doc, set) \in [AC!Name -> AC!Entry \cup {None}]
<1>1. \A n \in AC!Name : AC!HubEntry(doc[n]) \in AC!Entry /\ AC!HubEntry(None) \in AC!Entry
    BY HubEntryType
<1>2. AC!Registered(doc, set) \in [AC!Name -> AC!Entry \cup {None}]
    BY <1>1 DEF AC!Registered
<1>3. AC!Prefixed(doc, set) \in [AC!Name -> AC!Entry \cup {None}]
    BY <1>1 DEF AC!Prefixed
<1> QED BY <1>2, <1>3 DEF AC!NewDocument

LEMMA HubEntryAgain ==
    ASSUME AC!ConfigAssumption, NEW old \in AC!Entry \cup {None}
    PROVE  AC!HubEntry(AC!HubEntry(old)) = AC!HubEntry(old)
<1>1. AC!HubEntry(old) # None
    BY HubEntryType DEF AC!ConfigAssumption
<1> QED BY <1>1 DEF AC!HubEntry

\* Registering again what was registered changes nothing.
LEMMA DocumentAgain ==
    ASSUME AC!ConfigAssumption, NEW set, NEW doc \in [AC!Name -> AC!Entry \cup {None}]
    PROVE  AC!NewDocument(AC!NewDocument(doc, set), set) = AC!NewDocument(doc, set)
<1>1. CASE kind = "local"
    BY <1>1 DEF AC!NewDocument, AC!Prefixed
<1>2. CASE kind # "local"
    <2>1. PICK new : new = AC!Registered(doc, set) OBVIOUS
    <2>2. \A n \in AC!Name : AC!HubEntry(AC!HubEntry(doc[n])) = AC!HubEntry(doc[n])
        BY HubEntryAgain
    <2>3. \A n \in AC!Name : new[n] = IF n \in AC!Selected(set) THEN AC!HubEntry(doc[n])
                                      ELSE IF n \in AC!Dropped(doc, set) THEN None ELSE doc[n]
        BY <2>1 DEF AC!Registered
    <2>4. ASSUME NEW n \in AC!Name, n \notin AC!Selected(set)
          PROVE  n \notin AC!Dropped(new, set)
        BY <2>3, <2>4 DEF AC!Dropped
    <2>5. \A n \in AC!Name : AC!Registered(new, set)[n] = new[n]
        BY <2>2, <2>3, <2>4 DEF AC!Registered
    <2>6. AC!Registered(new, set) = new
        BY <2>1, <2>5 DEF AC!Registered
    <2> QED BY <1>2, <2>1, <2>6 DEF AC!NewDocument
<1> QED BY <1>1, <1>2

LEMMA PermittedAgain ==
    ASSUME NEW set, NEW asked
    PROVE  AC!Permitted(AC!Permitted(asked, set), set) = AC!Permitted(asked, set)
BY DEF AC!Permitted

\* The end of a run that nobody disturbed leaves nothing to do.
LEMMA SaveSettles ==
    ASSUME AC!ConfigAssumption, ConfigInv, AC!Save
    PROVE  /\ config' \in [AC!Name -> AC!Entry \cup {None}] /\ perms' \in [AC!Name -> {"ask", "allow", None}]
           /\ ~configRun.overlapped => Settled(config', perms', configRun.set)
<1>1. /\ configRun \in Runs /\ kind # "codex"
      /\ configRun.doc \in [AC!Name -> AC!Entry \cup {None}]
      /\ configRun.perms \in [AC!Name -> {"ask", "allow", None}]
    BY DEF AC!Save, ConfigInv, ConfigTypes, Runs
<1>2. ~configRun.overlapped => config = configRun.doc /\ perms = configRun.perms
    BY <1>1 DEF ConfigInv, Tracked, AC!Save
<1>3. AC!PermsAfter(configRun) \in [AC!Name -> {"ask", "allow", None}]
    BY <1>1 DEF AC!PermsAfter, AC!Permitted
<1>4. AC!NewDocument(configRun.doc, configRun.set) \in [AC!Name -> AC!Entry \cup {None}]
    BY <1>1, DocumentType
<1>5. \/ config' = AC!NewDocument(configRun.doc, configRun.set) /\ perms' = AC!PermsAfter(configRun)
      \/ /\ config' = config /\ perms' = perms
         /\ AC!NewDocument(configRun.doc, configRun.set) = configRun.doc /\ AC!PermsAfter(configRun) = configRun.perms
    BY DEF AC!Save
<1>6. ~configRun.overlapped =>
          config' = AC!NewDocument(configRun.doc, configRun.set) /\ perms' = AC!PermsAfter(configRun)
    BY <1>2, <1>5
<1>7. AC!NewDocument(AC!NewDocument(configRun.doc, configRun.set), configRun.set)
          = AC!NewDocument(configRun.doc, configRun.set)
    BY <1>1, DocumentAgain
<1>8. kind = "opencode" =>
          AC!Permitted(AC!PermsAfter(configRun), configRun.set) = AC!PermsAfter(configRun)
    BY PermittedAgain DEF AC!PermsAfter
<1>9. ~configRun.overlapped => Settled(config', perms', configRun.set)
    BY <1>1, <1>6, <1>7, <1>8 DEF Settled
<1> QED BY <1>3, <1>4, <1>5, <1>9 DEF ConfigInv, ConfigTypes, AC!ConfigTypeOK

\* After a run that ended in a known way, Exact holds.
LEMMA ConfigTells == ASSUME ConfigInv, AC!ConfigAssumption PROVE AC!ConfigTypeOK /\ AC!Exact
<1>1. SUFFICES ASSUME clean # None PROVE AC!Exact
    BY DEF ConfigInv, ConfigTypes, AC!Exact
<1>2. PICK set : /\ AC!ValidServices(set) /\ clean.set = set
                 /\ Settled(config, perms, set) /\ config \in [AC!Name -> AC!Entry \cup {None}]
    BY <1>1 DEF ConfigInv, ConfigTypes, LeftClean, AC!ConfigTypeOK
<1>3. AC!Selected(set) \subseteq Served
    BY <1>2, SelectedServed
<1>4. CASE kind = "codex"
    <2>1. AC!Dropped(config, set) = {} /\ AC!Differing(config, set) = {}
        BY <1>2, <1>4 DEF Settled
    <2>2. \A n \in AC!Selected(set) : config[n] # None /\ config[n].hub
        BY <2>1 DEF AC!Differing
    <2>3. /\ \A n \in AC!Managed \ AC!Selected(set) : config[n] = None
          /\ \A n \in Retired : config[n] = None
          /\ \A n \in Own : config[n] # None => ~config[n].bridge
        BY <2>1 DEF AC!Dropped, AC!Managed, AC!Name, AC!ConfigAssumption
    <2> QED BY <1>2, <2>2, <2>3 DEF AC!Exact
<1>5. CASE kind = "local"
    <2>1. config = AC!Prefixed(config, set)
        BY <1>2, <1>5 DEF Settled, AC!NewDocument
    <2>2. AC!HubEntry(None) # None /\ AC!HubEntry(None).hub
        BY HubEntryType DEF AC!ConfigAssumption, AC!HubEntry
    <2>3. /\ \A n \in AC!Selected(set) : config[n] = AC!HubEntry(None)
          /\ \A n \in AC!Managed \ AC!Selected(set) : config[n] = None
        BY <2>1, <1>3 DEF AC!Prefixed, AC!Managed, AC!Name
    <2> QED BY <1>2, <1>5, <2>2, <2>3 DEF AC!Exact
<1>6. CASE kind \notin {"codex", "local"}
    <2>1. config = AC!Registered(config, set)
        BY <1>2, <1>6 DEF Settled, AC!NewDocument
    <2>2. \A n \in AC!Selected(set) :
              config[n] = AC!HubEntry(config[n]) /\ AC!HubEntry(config[n]) \in AC!Entry /\ AC!HubEntry(config[n]).hub
        BY <2>1, <1>2, <1>3, HubEntryType DEF AC!Registered, AC!Name, AC!HubEntry
    <2>3. \A n \in AC!Dropped(config, set) \ AC!Selected(set) : config[n] = None
        BY <2>1 DEF AC!Registered, AC!Dropped
    <2>4. AC!Dropped(config, set) \ AC!Selected(set) = {}
        BY <2>3 DEF AC!Dropped
    <2>5. /\ \A n \in AC!Managed \ AC!Selected(set) : config[n] = None
          /\ \A n \in Retired : config[n] = None
          /\ \A n \in Own : config[n] # None => ~config[n].bridge
        BY <2>4, <1>3 DEF AC!Dropped, AC!Managed, AC!Name, AC!ConfigAssumption
    <2> QED BY <1>2, <2>2, <2>5 DEF AC!Exact, AC!ConfigAssumption
<1> QED BY <1>4, <1>5, <1>6

\* A step of a run writes nothing when an undisturbed run with its services left nothing
\* to do.
LEMMA RunIdempotent == ASSUME ConfigInv, AC!ConfigAssumption PROVE AC!Idempotent
<1>1. SUFFICES ASSUME AC!RunStep, clean = [set |-> configRun.set]
               PROVE  config' = config /\ perms' = perms
    BY DEF AC!Idempotent
<1>2. configRun # None /\ clean # None
    BY <1>1 DEF ConfigInv, ConfigTypes, Runs, AC!ConfigAssumption,
                AC!RunStep, AC!Save, AC!CodexAdd, AC!CodexDone, AC!RunDies, AC!CodexRemove, AC!CodexReplace
<1>3. /\ Settled(config, perms, configRun.set) /\ configRun.doc = config /\ configRun.perms = perms
      /\ configRun.drop = {} /\ configRun.put = {} /\ configRun.adding = None
    BY <1>1, <1>2 DEF ConfigInv, LeftClean
<1>4. CASE AC!Save
    <2>1. AC!NewDocument(config, configRun.set) = config /\ AC!PermsAfter(configRun) = perms
        BY <1>3, <1>4 DEF AC!Save, Settled, AC!PermsAfter
    <2> QED BY <1>3, <1>4, <2>1 DEF AC!Save
<1> QED BY <1>1, <1>3, <1>4 DEF AC!RunStep, AC!CodexAdd, AC!CodexDone, AC!RunDies, AC!CodexRemove, AC!CodexReplace

\* A step of a run leaves alone what it should, unless the file was saved meanwhile.
LEMMA RunLeavesAlone == ASSUME ConfigInv, AC!ConfigAssumption PROVE AC!LeftAlone
<1>1. SUFFICES ASSUME AC!RunStep, configRun # None PROVE AC!LeftAlone
    BY DEF AC!LeftAlone, AC!RunStep, AC!Save, AC!CodexAdd, AC!CodexDone, AC!RunDies, AC!CodexRemove, AC!CodexReplace
<1>2. /\ configRun \in Runs /\ AC!Selected(configRun.set) \subseteq Served
      /\ config \in [AC!Name -> AC!Entry \cup {None}] /\ perms \in [AC!Name -> {"ask", "allow", None}]
    BY <1>1, SelectedServed DEF ConfigInv, ConfigTypes, AC!ConfigTypeOK
<1>3. CASE UNCHANGED <<config, perms>>
    BY <1>1, <1>3 DEF AC!LeftAlone
<1>4. ASSUME kind = "codex", NEW m \in AC!Name, m \notin Own \/ (configRun.doc[m] # None /\ configRun.doc[m].bridge),
             \A n \in AC!Name \ {m} : config'[n] = config[n]
      PROVE  AC!LeftAlone
    BY <1>4 DEF AC!LeftAlone, AC!Name
<1>5. ASSUME NEW n \in AC!Name, AC!CodexRemove(n) PROVE AC!LeftAlone
    <2>1. n \in AC!Dropped(configRun.doc, configRun.set) /\ kind = "codex"
        BY <1>1, <1>5 DEF AC!CodexRemove, ConfigInv, Halfway
    <2>2. n \notin Own \/ (configRun.doc[n] # None /\ configRun.doc[n].bridge)
        BY <2>1 DEF AC!Dropped, AC!Managed, AC!ConfigAssumption
    <2> QED BY <1>2, <1>4, <1>5, <2>1, <2>2 DEF AC!CodexRemove
<1>6. ASSUME NEW n \in AC!Name, AC!CodexReplace(n) PROVE AC!LeftAlone
    <2>1. n \in AC!Selected(configRun.set) /\ kind = "codex"
        BY <1>1, <1>6 DEF AC!CodexReplace, ConfigInv, Halfway, AC!Differing
    <2>2. n \notin Own
        BY <1>2, <2>1 DEF AC!ConfigAssumption
    <2> QED BY <1>2, <1>4, <1>6, <2>1, <2>2 DEF AC!CodexReplace
<1>7. CASE AC!CodexAdd
    <2>1. configRun.adding \in AC!Selected(configRun.set) /\ kind = "codex" /\ configRun.adding \in AC!Name
        BY <1>1, <1>2, <1>7 DEF AC!CodexAdd, ConfigInv, Halfway, AC!Differing, Runs
    <2>2. configRun.adding \notin Own
        BY <1>2, <2>1 DEF AC!ConfigAssumption
    <2> QED BY <1>2, <1>4, <1>7, <2>1, <2>2 DEF AC!CodexAdd
<1>8. CASE AC!Save /\ ~UNCHANGED <<config, perms>>
    <2>1. kind # "codex" /\ config' = AC!NewDocument(configRun.doc, configRun.set) /\ perms' = AC!PermsAfter(configRun)
        BY <1>8 DEF AC!Save
    <2>2. SUFFICES ASSUME ~configRun.overlapped PROVE AC!LeftAlone
        BY <2>1 DEF AC!LeftAlone
    <2>3. configRun.doc = config /\ configRun.perms = perms
        BY <1>1, <2>1, <2>2 DEF ConfigInv, Tracked
    <2>4. ASSUME NEW n \in Own PROVE config'[n] = config[n] \/ (configRun.doc[n] # None /\ configRun.doc[n].bridge)
        <3>1. n \in AC!Name /\ n \notin AC!Managed /\ n \notin AC!Selected(configRun.set) /\ n \notin Retired
            BY <1>2 DEF AC!Name, AC!Managed, AC!ConfigAssumption
        <3> QED BY <2>1, <2>3, <3>1 DEF AC!NewDocument, AC!Prefixed, AC!Registered, AC!Dropped
    <2>5. ASSUME kind = "opencode", NEW n \in AC!Name \ Retired
          PROVE  /\ config[n] # None /\ config'[n] # None /\ config[n].remote => config'[n].on = config[n].on
                 /\ perms[n] = "allow" => perms'[n] = "allow"
        <3>1. config'[n] = IF n \in AC!Selected(configRun.set) THEN AC!HubEntry(config[n])
                           ELSE IF n \in AC!Dropped(config, configRun.set) THEN None ELSE config[n]
            BY <2>1, <2>3, <2>5 DEF AC!NewDocument, AC!Registered
        <3>2. config[n] # None /\ config[n].remote => AC!HubEntry(config[n]).on = config[n].on
            BY <2>5 DEF AC!HubEntry
        <3>3. perms[n] = "allow" => perms'[n] = "allow"
            BY <2>1, <2>3, <2>5 DEF AC!PermsAfter, AC!Permitted, AC!ConfigAssumption
        <3> QED BY <3>1, <3>2, <3>3
    <2> QED BY <2>1, <2>4, <2>5 DEF AC!LeftAlone
<1> QED BY <1>1, <1>3, <1>5, <1>6, <1>7, <1>8 DEF AC!RunStep, AC!CodexDone, AC!RunDies


\* What kind decides does not change, for a step never changes it.
LEMMA SameKind ==
    ASSUME kind' = kind
    PROVE  /\ AC!HubEntry(None)' = AC!HubEntry(None)
           /\ Settled(config', perms', clean'.set) => Settled(config, perms, clean.set)'
BY DEF AC!HubEntry, Settled, AC!NewDocument, AC!Registered, AC!Prefixed, AC!Permitted, AC!Dropped, AC!Differing

\* A selected entry is none of those to drop.
LEMMA PutNotDropped ==
    ASSUME AC!ConfigAssumption, NEW doc, NEW set, AC!ValidServices(set), NEW n \in AC!Selected(set)
    PROVE  n \notin AC!Dropped(doc, set)
BY SelectedServed DEF AC!Dropped, AC!ConfigAssumption

\* A step of the CLI over a configuration that was not clean before.
LEMMA CodexStepKeeps ==
    ASSUME AC!ConfigAssumption, ConfigInv, configRun # None, configRun.drop # {} \/ configRun.put # {} \/ configRun.adding # None,
           UNCHANGED <<kind, perms, clean, edits, runs>>,
           NEW m \in AC!Name, NEW e \in AC!Entry \cup {None}, config' = [config EXCEPT ![m] = e],
           NEW new \in Runs, configRun' = new, new.set = configRun.set, new.doc = configRun.doc,
           new.perms = configRun.perms, new.overlapped = configRun.overlapped,
           Halfway', kind = "codex" /\ ~configRun.overlapped => \A n \in AC!Name : Track(n)'
    PROVE  ConfigInv'
<1>1. clean = None
    BY DEF ConfigInv, LeftClean
<1>2. ConfigTypes'
    BY DEF ConfigInv, ConfigTypes, AC!ConfigTypeOK
<1>3. kind = "codex"
    BY DEF ConfigInv, Halfway
<1>4. Tracked'
    BY <1>3 DEF Tracked
<1>5. LeftClean'
    BY <1>1 DEF LeftClean
<1> QED BY <1>2, <1>4, <1>5 DEF ConfigInv

LEMMA CodexRemoves ==
    ASSUME AC!ConfigAssumption, ConfigInv, NEW n \in AC!Name, AC!CodexRemove(n)
    PROVE  ConfigInv'
<1>1. /\ configRun # None /\ configRun \in Runs /\ n \in configRun.drop /\ configRun.adding = None
      /\ n \in AC!Dropped(configRun.doc, configRun.set) /\ config \in [AC!Name -> AC!Entry \cup {None}]
      /\ kind' = kind /\ kind = "codex"
    BY DEF ConfigInv, ConfigTypes, Halfway, AC!CodexRemove, AC!ConfigTypeOK
<1>2. PICK new : new = [configRun EXCEPT !.drop = @ \ {n}] OBVIOUS
<1>3. /\ new \in Runs /\ new.drop = configRun.drop \ {n} /\ new.put = configRun.put /\ new.adding = None
      /\ new.set = configRun.set /\ new.doc = configRun.doc
      /\ new.perms = configRun.perms /\ new.overlapped = configRun.overlapped
    BY <1>1, <1>2 DEF Runs
<1>4. configRun' = new /\ config' = [config EXCEPT ![n] = None]
    BY <1>2 DEF AC!CodexRemove
<1>5. Halfway'
    BY <1>1, <1>3, <1>4, Zenon DEF ConfigInv, Halfway, AC!Dropped, AC!Differing
<1>6. ASSUME ~configRun.overlapped, NEW m \in AC!Name PROVE Track(m)'
    <2>1. Track(m)
        BY <1>1, <1>6 DEF ConfigInv, Tracked
    <2>2. m # n => config'[m] = config[m] /\ (m \in configRun'.drop <=> m \in configRun.drop)
        BY <1>1, <1>3, <1>4
    <2>3. config'[n] = None
        BY <1>1, <1>4
    <2>4. AC!HubEntry(None)' = AC!HubEntry(None)
        BY <1>1, SameKind
    <2>5. CASE m = n
        BY <1>1, <1>3, <1>4, <2>3, <2>5 DEF Track, AC!Dropped
    <2>6. CASE m # n
        BY <1>1, <1>3, <1>4, <2>1, <2>2, <2>4, <2>6 DEF Track, AC!Dropped, AC!Differing
    <2> QED BY <2>5, <2>6
<1> QED BY <1>1, <1>3, <1>4, <1>5, <1>6, CodexStepKeeps DEF AC!CodexRemove

LEMMA CodexReplaces ==
    ASSUME AC!ConfigAssumption, ConfigInv, NEW n \in AC!Name, AC!CodexReplace(n)
    PROVE  ConfigInv'
<1>1. /\ configRun # None /\ configRun \in Runs /\ n \in configRun.put /\ configRun.adding = None /\ configRun.drop = {}
      /\ n \in AC!Differing(configRun.doc, configRun.set) /\ config \in [AC!Name -> AC!Entry \cup {None}]
      /\ kind' = kind /\ kind = "codex" /\ AC!ValidServices(configRun.set)
    BY DEF ConfigInv, ConfigTypes, Halfway, AC!CodexReplace, AC!ConfigTypeOK
<1>2. PICK new : new = [configRun EXCEPT !.put = @ \ {n}, !.adding = n] OBVIOUS
<1>3. /\ new \in Runs /\ new.drop = {} /\ new.put = configRun.put \ {n} /\ new.adding = n
      /\ new.set = configRun.set /\ new.doc = configRun.doc
      /\ new.perms = configRun.perms /\ new.overlapped = configRun.overlapped
    BY <1>1, <1>2 DEF Runs
<1>4. PICK e \in AC!Entry \cup {None} : configRun' = new /\ config' = [config EXCEPT ![n] = e]
    BY <1>1, <1>2 DEF AC!CodexReplace
<1>5. Halfway'
    BY <1>1, <1>3, <1>4 DEF ConfigInv, Halfway, AC!Dropped, AC!Differing
<1>6. n \notin AC!Dropped(configRun.doc, configRun.set)
    BY <1>1, PutNotDropped DEF AC!Differing
<1>7. ASSUME ~configRun.overlapped, NEW m \in AC!Name PROVE Track(m)'
    <2>1. Track(m)
        BY <1>1, <1>7 DEF ConfigInv, Tracked
    <2>2. m # n => config'[m] = config[m] /\ (m \in configRun'.put <=> m \in configRun.put)
        BY <1>1, <1>3, <1>4
    <2>3. AC!HubEntry(None)' = AC!HubEntry(None)
        BY <1>1, SameKind
    <2>4. CASE m = n
        BY <1>1, <1>3, <1>4, <1>6, <2>4 DEF Track, AC!Dropped, AC!Differing
    <2>5. CASE m # n
        BY <1>1, <1>3, <1>4, <2>1, <2>2, <2>3, <2>5 DEF Track, AC!Dropped, AC!Differing, AC!ConfigAssumption
    <2> QED BY <2>4, <2>5
<1> QED BY <1>1, <1>3, <1>4, <1>5, <1>7, CodexStepKeeps DEF AC!CodexReplace

LEMMA CodexAdds ==
    ASSUME AC!ConfigAssumption, ConfigInv, AC!CodexAdd
    PROVE  ConfigInv'
<1>0. PICK n : n = configRun.adding OBVIOUS
<1>1. /\ configRun # None /\ configRun \in Runs /\ n # None /\ n \in AC!Name /\ configRun.drop = {}
      /\ n \in AC!Differing(configRun.doc, configRun.set) \ configRun.put
      /\ config \in [AC!Name -> AC!Entry \cup {None}]
      /\ kind' = kind /\ kind = "codex" /\ AC!ValidServices(configRun.set)
    BY <1>0 DEF ConfigInv, ConfigTypes, Halfway, AC!CodexAdd, AC!ConfigTypeOK, Runs
<1>2. PICK new : new = [configRun EXCEPT !.adding = None] OBVIOUS
<1>3. /\ new \in Runs /\ new.drop = {} /\ new.put = configRun.put /\ new.adding = None
      /\ new.set = configRun.set /\ new.doc = configRun.doc
      /\ new.perms = configRun.perms /\ new.overlapped = configRun.overlapped
    BY <1>1, <1>2 DEF Runs
<1>4. configRun' = new /\ config' = [config EXCEPT ![n] = AC!HubEntry(None)] /\ AC!HubEntry(None) \in AC!Entry
    BY <1>0, <1>2, HubEntryType DEF AC!CodexAdd
<1>5. Halfway'
    BY <1>1, <1>3, <1>4 DEF ConfigInv, Halfway, AC!Dropped, AC!Differing
<1>6. n \notin AC!Dropped(configRun.doc, configRun.set)
    BY <1>1, PutNotDropped DEF AC!Differing
<1>7. ASSUME ~configRun.overlapped, NEW m \in AC!Name PROVE Track(m)'
    <2>1. Track(m)
        BY <1>1, <1>7 DEF ConfigInv, Tracked
    <2>2. IF m = n THEN config'[m] = AC!HubEntry(None) ELSE config'[m] = config[m]
        BY <1>1, <1>3, <1>4
    <2>3. AC!HubEntry(None)' = AC!HubEntry(None)
        BY <1>1, SameKind
    <2>4. CASE m = n
        BY <1>1, <1>3, <1>4, <1>6, <2>2, <2>3, <2>4 DEF Track, AC!Dropped, AC!Differing
    <2>5. CASE m # n
        BY <1>0, <1>1, <1>3, <1>4, <2>1, <2>2, <2>3, <2>5 DEF Track, AC!Dropped, AC!Differing
    <2> QED BY <2>4, <2>5
<1> QED BY <1>1, <1>3, <1>4, <1>5, <1>7, CodexStepKeeps DEF AC!CodexAdd

LEMMA CodexEnds ==
    ASSUME AC!ConfigAssumption, ConfigInv, AC!CodexDone
    PROVE  ConfigInv'
<1>1. /\ configRun # None /\ configRun \in Runs /\ configRun.adding = None /\ configRun.drop = {} /\ configRun.put = {}
      /\ kind = "codex" /\ AC!ValidServices(configRun.set) /\ UNCHANGED <<kind, config, perms, edits, runs>>
      /\ configRun' = None /\ clean' = AC!Finished(configRun)
    BY DEF ConfigInv, ConfigTypes, AC!CodexDone
<1>2. ASSUME ~configRun.overlapped PROVE Settled(config, perms, configRun.set)
    <2>1. \A n \in AC!Name : Track(n)
        BY <1>1, <1>2 DEF ConfigInv, Tracked
    <2>2. ASSUME NEW n \in AC!Name PROVE
          IF n \in AC!Dropped(configRun.doc, configRun.set) THEN config[n] = None
          ELSE IF n \in AC!Differing(configRun.doc, configRun.set) THEN config[n] = AC!HubEntry(None)
          ELSE config[n] = configRun.doc[n]
        BY <1>1, <2>1 DEF Track, AC!ConfigAssumption
    <2>3. AC!HubEntry(None) # None /\ AC!HubEntry(None).hub
        BY HubEntryType DEF AC!HubEntry, AC!ConfigAssumption
    <2>4. AC!Selected(configRun.set) \subseteq AC!Name
        BY <1>1, SelectedServed DEF AC!Name
    <2>5. ASSUME NEW n \in AC!Dropped(config, configRun.set) PROVE FALSE
        <3>1. n \in AC!Name /\ config[n] # None BY <2>5 DEF AC!Dropped
        <3>2. n \notin AC!Selected(configRun.set) BY <1>1, <2>5, PutNotDropped
        <3>3. config[n] = configRun.doc[n] /\ n \notin AC!Dropped(configRun.doc, configRun.set)
            BY <2>2, <3>1, <3>2 DEF AC!Differing
        <3> QED BY <2>5, <3>1, <3>3 DEF AC!Dropped
    <2>6. ASSUME NEW n \in AC!Differing(config, configRun.set) PROVE FALSE
        <3>1. n \in AC!Name /\ n \in AC!Selected(configRun.set) BY <2>4, <2>6 DEF AC!Differing
        <3>2. n \notin AC!Dropped(configRun.doc, configRun.set) BY <1>1, <3>1, PutNotDropped
        <3>3. config[n] = configRun.doc[n] /\ n \notin AC!Differing(configRun.doc, configRun.set)
            BY <2>2, <2>3, <2>6, <3>1, <3>2 DEF AC!Differing
        <3> QED BY <2>6, <3>1, <3>3 DEF AC!Differing
    <2> QED BY <1>1, <2>5, <2>6 DEF Settled
<1>3. clean' # None => clean' = [set |-> configRun.set] /\ ~configRun.overlapped
    BY <1>1 DEF AC!Finished
<1>4. clean' # None => Settled(config, perms, clean.set)'
    BY <1>1, <1>2, <1>3, SameKind
<1>5. LeftClean'
    BY <1>1, <1>3, <1>4 DEF LeftClean
<1>6. ConfigTypes'
    BY <1>1, <1>3 DEF ConfigInv, ConfigTypes, AC!ConfigTypeOK, Runs
<1> QED BY <1>1, <1>5, <1>6 DEF ConfigInv, Halfway, Tracked

LEMMA SaveKeeps ==
    ASSUME AC!ConfigAssumption, ConfigInv, AC!Save
    PROVE  ConfigInv'
<1>1. /\ configRun # None /\ configRun \in Runs /\ AC!ValidServices(configRun.set) /\ UNCHANGED <<kind, edits, runs>>
      /\ configRun' = None /\ clean' = AC!Finished(configRun)
    BY DEF ConfigInv, ConfigTypes, AC!Save
<1>2. /\ config' \in [AC!Name -> AC!Entry \cup {None}] /\ perms' \in [AC!Name -> {"ask", "allow", None}]
      /\ ~configRun.overlapped => Settled(config', perms', configRun.set)
    BY SaveSettles
<1>3. clean' # None => clean' = [set |-> configRun.set] /\ ~configRun.overlapped
    BY <1>1 DEF AC!Finished
<1>4. clean' # None => Settled(config, perms, clean.set)'
    BY <1>1, <1>2, <1>3, SameKind
<1>5. LeftClean'
    BY <1>1, <1>3, <1>4 DEF LeftClean
<1>6. ConfigTypes'
    BY <1>1, <1>2, <1>3 DEF ConfigInv, ConfigTypes, AC!ConfigTypeOK, Runs
<1> QED BY <1>1, <1>5, <1>6 DEF ConfigInv, Halfway, Tracked

LEMMA LoadKeeps ==
    ASSUME AC!ConfigAssumption, ConfigInv, NEW set \in Sets, AC!Load(set)
    PROVE  ConfigInv'
<1>1. /\ configRun = None /\ AC!ValidServices(set) /\ UNCHANGED <<kind, config, perms, edits>>
      /\ AC!ConfigTypeOK /\ runs < MaxRun /\ runs' = runs + 1 /\ runs \in 0 .. MaxRun
      /\ clean' # None => clean' = clean /\ clean = [set |-> set]
    BY DEF ConfigInv, ConfigTypes, AC!Load, AC!ConfigTypeOK
<1>2. PICK new : new = [set |-> set, doc |-> config, perms |-> perms,
                        drop |-> IF kind = "codex" THEN AC!Dropped(config, set) ELSE {},
                        put |-> IF kind = "codex" THEN AC!Differing(config, set) ELSE {},
                        adding |-> None, overlapped |-> FALSE] OBVIOUS
<1>3. configRun' = new
    BY <1>2 DEF AC!Load
<1>4. /\ new.set = set /\ new.doc = config /\ new.perms = perms /\ new.adding = None /\ new.overlapped = FALSE
      /\ IF kind = "codex" THEN new.drop = AC!Dropped(config, set) /\ new.put = AC!Differing(config, set)
                           ELSE new.drop = {} /\ new.put = {}
    BY <1>2
<1>5. AC!Dropped(config, set) \in SUBSET AC!Name /\ AC!Differing(config, set) \in SUBSET AC!Name
    BY <1>1, SelectedServed DEF AC!Dropped, AC!Differing, AC!Name
<1>6. new \in Runs
    BY <1>1, <1>2, <1>5 DEF Runs, AC!ConfigTypeOK
<1>7. ConfigTypes'
    BY <1>1, <1>3, <1>4, <1>6 DEF ConfigInv, ConfigTypes, AC!ConfigTypeOK, AC!ConfigAssumption
<1>8. Halfway' /\ Tracked'
    BY <1>1, <1>3, <1>4 DEF Halfway, Tracked, Track
<1>9. clean' # None => Settled(config, perms, set) /\ Settled(config, perms, clean.set)' /\ clean'.set = set
    BY <1>1, SameKind DEF ConfigInv, LeftClean
<1>10. LeftClean'
    BY <1>1, <1>3, <1>4, <1>9 DEF LeftClean, Settled
<1> QED BY <1>7, <1>8, <1>10 DEF ConfigInv

LEMMA DisturbKeeps ==
    ASSUME AC!ConfigAssumption, ConfigInv, AC!Disturb,
           config' \in [AC!Name -> AC!Entry \cup {None}], perms' \in [AC!Name -> {"ask", "allow", None}]
    PROVE  ConfigInv'
<1>1. /\ UNCHANGED <<kind, runs>> /\ clean' = None /\ edits' = edits + 1 /\ edits < MaxConfigEdit
      /\ configRun' = IF configRun = None THEN None ELSE [configRun EXCEPT !.overlapped = TRUE]
    BY DEF AC!Disturb
<1>2. configRun' # None =>
          /\ configRun # None /\ configRun' \in Runs /\ configRun'.overlapped
          /\ configRun'.set = configRun.set /\ configRun'.doc = configRun.doc /\ configRun'.drop = configRun.drop
          /\ configRun'.put = configRun.put /\ configRun'.adding = configRun.adding
    BY <1>1 DEF ConfigInv, ConfigTypes, Runs
<1>3. ConfigTypes'
    BY <1>1, <1>2 DEF ConfigInv, ConfigTypes, AC!ConfigTypeOK, AC!ConfigAssumption
<1>4. Halfway'
    BY <1>1, <1>2 DEF ConfigInv, Halfway, AC!Dropped, AC!Differing
<1> QED BY <1>1, <1>2, <1>3, <1>4 DEF ConfigInv, Tracked, LeftClean

LEMMA ConfigKeeps ==
    ASSUME AC!ConfigAssumption, ConfigInv, AC!ConfigNext \/ UNCHANGED AC!cfgvars
    PROVE  ConfigInv'
<1>1. CASE UNCHANGED AC!cfgvars
    <2>1. UNCHANGED <<kind, config, perms, configRun, clean, edits, runs>>
        BY <1>1 DEF AC!cfgvars
    <2>2. ConfigTypes'
        BY <2>1 DEF ConfigInv, ConfigTypes, AC!ConfigTypeOK
    <2>3. Halfway'
        BY <2>1 DEF ConfigInv, Halfway, AC!Dropped, AC!Differing
    <2>4. Tracked'
        BY <2>1, SameKind DEF ConfigInv, Tracked, Track, AC!Dropped, AC!Differing
    <2>5. LeftClean'
        BY <2>1, SameKind DEF ConfigInv, LeftClean
    <2> QED BY <2>2, <2>3, <2>4, <2>5 DEF ConfigInv
<1>2. CASE AC!RunDies
    <2>1. configRun' = None /\ UNCHANGED <<kind, config, perms, clean, edits, runs>>
        BY <1>2 DEF AC!RunDies
    <2>2. clean' # None => Settled(config, perms, clean.set)'
        BY <2>1, SameKind DEF ConfigInv, LeftClean
    <2> QED BY <2>1, <2>2 DEF ConfigInv, ConfigTypes, AC!ConfigTypeOK, Halfway, Tracked, LeftClean
<1>3. ASSUME NEW n \in AC!Name, AC!Edit(n) PROVE ConfigInv'
    <2>1. PICK e \in AC!Foreign \cup (IF config[n] = None THEN {} ELSE {[config[n] EXCEPT !.on = FALSE]}) :
              config' = [config EXCEPT ![n] = e]
        BY <1>3 DEF AC!Edit
    <2>2. config[n] # None => [config[n] EXCEPT !.on = FALSE] \in AC!Entry
        BY <1>3 DEF ConfigInv, ConfigTypes, AC!ConfigTypeOK, AC!Entry
    <2>3. AC!Stdio \in AC!Entry /\ AC!Bridge \in AC!Entry /\ AC!Off \in AC!Entry
        BY DEF AC!Stdio, AC!Bridge, AC!Off, AC!Entry
    <2>4. e \in AC!Entry \cup {None}
        BY <2>1, <2>2, <2>3 DEF AC!Foreign
    <2>5. config' \in [AC!Name -> AC!Entry \cup {None}] /\ perms' \in [AC!Name -> {"ask", "allow", None}]
        BY <1>3, <2>1, <2>4 DEF AC!Edit, ConfigInv, ConfigTypes, AC!ConfigTypeOK
    <2> QED BY <1>3, <2>5, DisturbKeeps DEF AC!Edit
<1>4. ASSUME NEW n \in AC!Name, AC!Answer(n) PROVE ConfigInv'
    <2>1. config' \in [AC!Name -> AC!Entry \cup {None}] /\ perms' \in [AC!Name -> {"ask", "allow", None}]
        BY <1>4 DEF AC!Answer, ConfigInv, ConfigTypes, AC!ConfigTypeOK
    <2> QED BY <1>4, <2>1, DisturbKeeps DEF AC!Answer
<1> QED BY <1>1, <1>2, <1>3, <1>4, LoadKeeps, SaveKeeps, CodexRemoves, CodexReplaces, CodexAdds, CodexEnds
        DEF AC!ConfigNext, AC!RunStep

-----------------------------------------------------------------------------
(* Tools: ScoreCycle *)

\* What the components count is what the facts about finite sets count.
LEMMA SameCount == ASSUME NEW S PROVE SC!Cardinality(S) = Cardinality(S)
    BY DEF SC!Cardinality, Cardinality

LEMMA MoreCounted ==
    ASSUME NEW S, NEW T, IsFiniteSet(T), S \subseteq T, NEW x \in T, x \notin S
    PROVE  Cardinality(S) < Cardinality(T)
<1>1. IsFiniteSet(S) /\ Cardinality(S) <= Cardinality(T) /\ (Cardinality(T) = Cardinality(S) => T = S)
    BY FS_Subset
<1>2. Cardinality(S) \in Nat /\ Cardinality(T) \in Nat
    BY <1>1, FS_CardinalityType
<1> QED BY <1>1, <1>2

\* A finite set in a strict order is counted off: each member has its place, and each
\* place its member.
Standing(all, before) == [s \in all |-> Cardinality({t \in all : t = s \/ <<t, s>> \in before})]

LEMMA PlacesCounted ==
    ASSUME NEW all, IsFiniteSet(all), NEW before,
           \A s \in all : <<s, s>> \notin before,
           \A s, t \in all : s # t => <<s, t>> \in before \/ <<t, s>> \in before,
           \A s, t, u \in all : <<s, t>> \in before /\ <<t, u>> \in before => <<s, u>> \in before
    PROVE  /\ Standing(all, before) \in [all -> 1 .. Cardinality(all)]
           /\ \A s, t \in all : <<s, t>> \in before => Standing(all, before)[s] < Standing(all, before)[t]
           /\ \A i \in 1 .. Cardinality(all) : \E s \in all : Standing(all, before)[s] = i
<1> DEFINE upto(s) == {t \in all : t = s \/ <<t, s>> \in before}
           place == Standing(all, before)
           n == Cardinality(all)
<1>1. n \in Nat
    BY FS_CardinalityType
<1>2. ASSUME NEW s \in all
      PROVE  IsFiniteSet(upto(s)) /\ Cardinality(upto(s)) \in 1 .. n
    <2>1. IsFiniteSet(upto(s)) /\ Cardinality(upto(s)) <= n /\ Cardinality(upto(s)) \in Nat
        BY FS_Subset, FS_CardinalityType
    <2>2. Cardinality({}) < Cardinality(upto(s)) /\ Cardinality({}) = 0
        <3>1. s \in upto(s)
            OBVIOUS
        <3> HIDE DEF upto
        <3> QED BY <2>1, <3>1, MoreCounted, FS_EmptySet
    <2> HIDE DEF upto, n
    <2> QED BY <1>1, <2>1, <2>2
<1>3. ASSUME NEW s \in all, NEW t \in all, <<s, t>> \in before
      PROVE  Cardinality(upto(s)) < Cardinality(upto(t))
    <2>1. upto(s) \subseteq upto(t)
        BY <1>3
    <2>2. t \in upto(t) /\ t \notin upto(s)
        BY <1>3
    <2>3. IsFiniteSet(upto(t))
        BY <1>2
    <2> HIDE DEF upto
    <2> QED BY <2>1, <2>2, <2>3, MoreCounted
<1> HIDE DEF n
<1>0. place = [s \in all |-> Cardinality(upto(s))]
    BY DEF Standing
<1> HIDE DEF place, upto
<1>4. place \in [all -> 1 .. n]
    BY <1>2, <1>0
<1>5. \A s, t \in all : <<s, t>> \in before => place[s] < place[t]
    BY <1>3, <1>0
<1>6. \A s, t \in all : place[s] = place[t] => s = t
    <2>1. \A s \in all : place[s] \in Int
        BY <1>1, <1>4
    <2> SUFFICES ASSUME NEW s \in all, NEW t \in all, place[s] = place[t], s # t
                 PROVE  FALSE
        OBVIOUS
    <2>2. <<s, t>> \in before \/ <<t, s>> \in before
        OBVIOUS
    <2>3. place[s] < place[t] \/ place[t] < place[s]
        BY <1>5, <2>2
    <2> QED BY <2>1, <2>3
<1>7. place \in Surjection(all, 1 .. n)
    <2>1. place \in Injection(all, 1 .. n)
        BY <1>4, <1>6, Fun_IsInj
    <2>2. IsFiniteSet(1 .. n) /\ Cardinality(1 .. n) = n
        BY <1>1, FS_Interval
    <2> QED BY <2>1, <2>2, FS_Injection DEF n
<1>8. \A i \in 1 .. n : \E s \in all : place[s] = i
    BY <1>7, Fun_SurjectionProperties
<1> QED BY <1>4, <1>5, <1>8 DEF place, n

Probed(p) == [SC!Shortlist(p) -> Probes \cup {None}]

LEMMA ServersListed ==
    ASSUME SC!CycleAssumption
    PROVE  /\ IsFiniteSet(SC!Names)
           /\ \A s \in SC!Names : SC!Index(s) \in Nat
           /\ \A s, t \in SC!Names : SC!Index(s) = SC!Index(t) => s = t
<1>1. Server \in Seq(SC!Names) /\ SC!Names = {Server[i] : i \in DOMAIN Server}
    BY DEF SC!CycleAssumption, SC!Names, SC!ToSet
<1>2. DOMAIN Server = 1 .. Len(Server) /\ Len(Server) \in Nat
    BY <1>1
<1>3. \A s \in SC!Names : SC!Index(s) \in DOMAIN Server /\ Server[SC!Index(s)] = s
    <2>1. \A s \in SC!Names : \E i \in DOMAIN Server : Server[i] = s
        BY <1>1
    <2> QED BY <2>1 DEF SC!Index
<1>4. IsFiniteSet(SC!Names)
    <2> DEFINE at == [s \in SC!Names |-> SC!Index(s)]
    <2>1. at \in [SC!Names -> 1 .. Len(Server)] /\ \A s, t \in SC!Names : at[s] = at[t] => s = t
        BY <1>2, <1>3
    <2> HIDE DEF at
    <2>2. at \in Injection(SC!Names, 1 .. Len(Server))
        BY <2>1, Fun_IsInj
    <2>3. IsFiniteSet(1 .. Len(Server))
        BY <1>2, FS_Interval
    <2> QED BY <2>2, <2>3, FS_Injection
<1> QED BY <1>2, <1>3, <1>4

LEMMA RowsTyped ==
    ASSUME SC!CycleAssumption, NEW p \in Pools, NEW s \in SC!Names
    PROVE  /\ p[s].load \in Nat \cup {None} /\ p[s].ok \in BOOLEAN
           /\ SC!Field(p[s].load, 0) \in Nat /\ SC!Field(p[s].bw_max, 0) \in Int
           /\ SC!Headroom(p[s]) \in Int
<1>1. p[s] \in SC!Row
    BY DEF SC!CycleAssumption, SC!Names
<1> QED BY <1>1 DEF SC!Row, SC!Field, SC!Headroom

LEMMA EligibleCounted ==
    ASSUME SC!CycleAssumption, NEW p \in Pools
    PROVE  /\ SC!Eligible(p) \subseteq SC!Names /\ IsFiniteSet(SC!Eligible(p))
           /\ SC!Shortlist(p) \subseteq SC!Eligible(p) /\ IsFiniteSet(SC!Shortlist(p))
<1>1. SC!Eligible(p) \subseteq SC!Names /\ SC!Shortlist(p) \subseteq SC!Eligible(p)
    BY DEF SC!Eligible, SC!Shortlist
<1> QED BY <1>1, ServersListed, FS_Subset

\* By room, ties by the API's order: a strict order of the servers.
LEMMA RoomierOrders ==
    ASSUME SC!CycleAssumption, NEW p \in Pools, NEW s \in SC!Names, NEW t \in SC!Names, NEW u \in SC!Names
    PROVE  /\ ~SC!Roomier(p, s, s)
           /\ s # t => SC!Roomier(p, s, t) \/ SC!Roomier(p, t, s)
           /\ SC!Roomier(p, s, t) /\ SC!Roomier(p, t, u) => SC!Roomier(p, s, u)
<1>1. SC!Headroom(p[s]) \in Int /\ SC!Headroom(p[t]) \in Int /\ SC!Headroom(p[u]) \in Int
    BY RowsTyped
<1>2. SC!Index(s) \in Nat /\ SC!Index(t) \in Nat /\ SC!Index(u) \in Nat /\ (SC!Index(s) = SC!Index(t) => s = t)
    BY ServersListed
<1> QED BY <1>1, <1>2 DEF SC!Roomier

\* The shortlist is no longer than allowed, and whoever is not on it has no more room.
LEMMA ShortlistRoomiest ==
    ASSUME SC!CycleAssumption, NEW p \in Pools
    PROVE  /\ Cardinality(SC!Shortlist(p)) <= Size
           /\ \A s \in SC!Shortlist(p), t \in SC!Eligible(p) \ SC!Shortlist(p) :
                 SC!Headroom(p[s]) >= SC!Headroom(p[t])
<1> DEFINE all == SC!Eligible(p)
           list == SC!Shortlist(p)
           ahead(s) == {t \in all : SC!Roomier(p, t, s)}
           before == {q \in all \X all : SC!Roomier(p, q[1], q[2])}
           upto(s) == {t \in all : t = s \/ <<t, s>> \in before}
           place == Standing(all, before)
<1>1. all \subseteq SC!Names /\ IsFiniteSet(all) /\ list \subseteq all /\ IsFiniteSet(list)
    BY EligibleCounted
<1>2. \A s, t \in all : <<s, t>> \in before <=> SC!Roomier(p, s, t)
    OBVIOUS
<1>3. list = {s \in all : Cardinality(ahead(s)) < Size}
    BY SameCount DEF SC!Shortlist
<1>4. \A s, t, u \in all : /\ <<s, s>> \notin before
                           /\ s # t => <<s, t>> \in before \/ <<t, s>> \in before
                           /\ <<s, t>> \in before /\ <<t, u>> \in before => <<s, u>> \in before
    <2> HIDE DEF all, before
    <2> QED BY <1>1, <1>2, RoomierOrders
<1>5. /\ place \in [all -> 1 .. Cardinality(all)]
      /\ \A s, t \in all : <<s, t>> \in before => place[s] < place[t]
    <2>1. \A s \in all : <<s, s>> \notin before
        BY <1>4
    <2>2. \A s, t \in all : s # t => <<s, t>> \in before \/ <<t, s>> \in before
        BY <1>4
    <2>3. \A s, t, u \in all : <<s, t>> \in before /\ <<t, u>> \in before => <<s, u>> \in before
        BY <1>4
    <2> HIDE DEF all, before
    <2> QED BY <1>1, <2>1, <2>2, <2>3, PlacesCounted
<1>6. ASSUME NEW s \in all
      PROVE  IsFiniteSet(ahead(s)) /\ place[s] = Cardinality(ahead(s)) + 1 /\ Cardinality(ahead(s)) \in Nat
    <2>1. upto(s) = ahead(s) \cup {s} /\ s \notin ahead(s)
        <3>1. s \notin ahead(s)
            BY <1>1, RoomierOrders
        <3>2. \A t \in all : t \in upto(s) <=> t = s \/ SC!Roomier(p, t, s)
            BY <1>2
        <3> QED BY <3>1, <3>2
    <2>2. IsFiniteSet(ahead(s)) /\ Cardinality(ahead(s)) \in Nat
        <3> HIDE DEF all
        <3> QED BY <1>1, FS_Subset, FS_CardinalityType
    <2>4. place[s] = Cardinality(upto(s))
        BY DEF Standing
    <2> HIDE DEF ahead, upto, all, place
    <2>3. Cardinality(ahead(s) \cup {s}) = Cardinality(ahead(s)) + 1
        BY <2>1, <2>2, FS_AddElement
    <2> QED BY <2>1, <2>2, <2>3, <2>4
<1> HIDE DEF all, before, place, ahead, list
<1>7. Size \in Nat /\ Cardinality(all) \in Nat /\ \A s \in all : place[s] \in Int
    BY <1>1, <1>5, FS_CardinalityType DEF SC!CycleAssumption
<1>8. \A s \in all : s \in list <=> place[s] <= Size
    BY <1>3, <1>6, <1>7
<1>9. Cardinality(list) <= Size
    <2> DEFINE f == [s \in list |-> place[s]]
    <2>1. f \in [list -> 1 .. Size]
        BY <1>1, <1>5, <1>7, <1>8
    <2>2. \A s, t \in list : f[s] = f[t] => s = t
        <3> SUFFICES ASSUME NEW s \in list, NEW t \in list, place[s] = place[t], s # t
                     PROVE  FALSE
            OBVIOUS
        <3>1. <<s, t>> \in before \/ <<t, s>> \in before
            BY <1>1, <1>4
        <3>2. place[s] < place[t] \/ place[t] < place[s]
            BY <1>1, <1>5, <3>1
        <3> QED BY <1>1, <1>7, <3>2
    <2> HIDE DEF f
    <2>3. f \in Injection(list, 1 .. Size)
        BY <2>1, <2>2, Fun_IsInj
    <2>4. IsFiniteSet(1 .. Size) /\ Cardinality(1 .. Size) = Size
        BY <1>7, FS_Interval
    <2> QED BY <2>3, <2>4, FS_Injection
<1>10. \A s \in list, t \in all \ list : SC!Headroom(p[s]) >= SC!Headroom(p[t])
    <2> SUFFICES ASSUME NEW s \in list, NEW t \in all \ list, SC!Headroom(p[t]) > SC!Headroom(p[s])
                 PROVE  FALSE
        <3>1. \A s \in all : SC!Headroom(p[s]) \in Int
            BY <1>1, RowsTyped
        <3> QED BY <1>1, <3>1
    <2>1. <<t, s>> \in before
        BY <1>1, <1>2 DEF SC!Roomier
    <2>2. place[t] < place[s]
        BY <1>1, <1>5, <2>1
    <2> QED BY <1>1, <1>7, <1>8, <2>2
<1> QED BY <1>9, <1>10 DEF list, all

\* What is known of a server that survives the loss gate.
LEMMA SurvivorsMeasured ==
    ASSUME SC!CycleAssumption, NEW p \in Pools, NEW m \in Probed(p), NEW s \in SC!Survivors(p, m)
    PROVE  /\ s \in SC!Shortlist(p) /\ s \in SC!Eligible(p) /\ s \in SC!Names
           /\ m[s].loss \in 0 .. 100 /\ m[s].loss <= MaxLoss /\ m[s].rtt \in Nat
           /\ SC!Field(p[s].load, 0) \in 0 .. 100
<1>1. s \in SC!Shortlist(p) /\ m[s] # None /\ m[s].loss <= MaxLoss
    BY DEF SC!Survivors
<1>2. s \in SC!Eligible(p) /\ s \in SC!Names
    BY <1>1, EligibleCounted
<1>3. m[s] \in Probes
    BY <1>1 DEF Probed
<1>4. m[s].loss \in 0 .. 100 /\ m[s].rtt \in Nat
    BY <1>1, <1>3 DEF SC!CycleAssumption
<1>5. SC!Field(p[s].load, 100) <= MaxLoad /\ MaxLoad \in 0 .. 100
    BY <1>2 DEF SC!Eligible, SC!CycleAssumption
<1>6. SC!Field(p[s].load, 0) \in 0 .. 100
    BY <1>2, <1>5, RowsTyped DEF SC!Field
<1> QED BY <1>1, <1>2, <1>4, <1>6

\* By loss, then time, then load, ties by room: a strict order of the survivors.
LEMMA BetterOrders ==
    ASSUME SC!CycleAssumption, NEW p \in Pools, NEW m \in Probed(p),
           NEW s \in SC!Survivors(p, m), NEW t \in SC!Survivors(p, m), NEW u \in SC!Survivors(p, m)
    PROVE  /\ ~SC!Better(p, m, s, s)
           /\ s # t => SC!Better(p, m, s, t) \/ SC!Better(p, m, t, s)
           /\ SC!Better(p, m, s, t) /\ SC!Better(p, m, t, u) => SC!Better(p, m, s, u)
           /\ SC!Better(p, m, s, t) => m[s].loss <= m[t].loss
<1> DEFINE loss(x) == m[x].loss
           rtt(x) == m[x].rtt
           load(x) == SC!Field(p[x].load, 0)
           better(x, y) == \/ loss(x) < loss(y)
                           \/ loss(x) = loss(y) /\ rtt(x) < rtt(y)
                           \/ loss(x) = loss(y) /\ rtt(x) = rtt(y) /\ load(x) < load(y)
                           \/ loss(x) = loss(y) /\ rtt(x) = rtt(y) /\ load(x) = load(y) /\ SC!Roomier(p, x, y)
<1>1. \A x, y : SC!Better(p, m, x, y) <=> better(x, y)
    BY DEF SC!Better, SC!Key
<1>2. \A x \in SC!Survivors(p, m) : x \in SC!Names /\ loss(x) \in Nat /\ rtt(x) \in Nat /\ load(x) \in Nat
    BY SurvivorsMeasured
<1>3. /\ ~SC!Roomier(p, s, s)
      /\ s # t => SC!Roomier(p, s, t) \/ SC!Roomier(p, t, s)
      /\ SC!Roomier(p, s, t) /\ SC!Roomier(p, t, u) => SC!Roomier(p, s, u)
    BY <1>2, RoomierOrders
<1> HIDE DEF loss, rtt, load
<1>4. loss(s) \in Nat /\ loss(t) \in Nat /\ loss(u) \in Nat /\ rtt(s) \in Nat /\ rtt(t) \in Nat /\ rtt(u) \in Nat
      /\ load(s) \in Nat /\ load(t) \in Nat /\ load(u) \in Nat
    BY <1>2
<1>5. ~better(s, s)
    BY <1>3, <1>4
<1>6. s # t => better(s, t) \/ better(t, s)
    BY <1>3, <1>4
<1>7. better(s, t) /\ better(t, u) => better(s, u)
    BY <1>3, <1>4
<1>8. better(s, t) => loss(s) <= loss(t)
    BY <1>4
<1> HIDE DEF better
<1> QED BY <1>1, <1>5, <1>6, <1>7, <1>8 DEF loss

\* The document lists every survivor once, best first.
LEMMA DocumentRanks ==
    ASSUME SC!CycleAssumption, NEW p \in Pools, NEW m \in Probed(p)
    PROVE  \E n \in Nat : \E at \in [1 .. n -> SC!Survivors(p, m)] :
              /\ n = Cardinality(SC!Survivors(p, m)) /\ n <= Size
              /\ \A i, j \in 1 .. n : i < j => SC!Better(p, m, at[i], at[j])
              /\ SC!Document(p, m) = [rows |-> [i \in 1 .. n |-> SC!RankRow(p, m, at[i])], from |-> p]
<1> DEFINE all == SC!Survivors(p, m)
           n == Cardinality(all)
           before == {q \in all \X all : SC!Better(p, m, q[1], q[2])}
           place == Standing(all, before)
           upto(s) == {t \in all : t = s \/ SC!Better(p, m, t, s)}
           at == [i \in 1 .. n |-> CHOOSE s \in all : SC!Cardinality(upto(s)) = i]
<1>1. all \subseteq SC!Shortlist(p) /\ IsFiniteSet(SC!Shortlist(p))
    BY EligibleCounted DEF SC!Survivors
<1>2. IsFiniteSet(all) /\ n \in Nat /\ n <= Size
    <2>1. IsFiniteSet(all) /\ n <= Cardinality(SC!Shortlist(p))
        BY <1>1, FS_Subset
    <2>2. n \in Nat /\ Cardinality(SC!Shortlist(p)) \in Nat /\ Size \in Nat
        BY <1>1, <2>1, FS_CardinalityType DEF SC!CycleAssumption
    <2> HIDE DEF all, n
    <2> QED BY <2>1, <2>2, ShortlistRoomiest
<1>3. \A s, t \in all : <<s, t>> \in before <=> SC!Better(p, m, s, t)
    OBVIOUS
<1>4. \A s \in all : <<s, s>> \notin before
    BY <1>3, BetterOrders
<1>5. \A s, t \in all : s # t => <<s, t>> \in before \/ <<t, s>> \in before
    BY <1>3, BetterOrders
<1>6. \A s, t, u \in all : <<s, t>> \in before /\ <<t, u>> \in before => <<s, u>> \in before
    BY <1>3, BetterOrders
<1>7. /\ place \in [all -> 1 .. n]
      /\ \A s, t \in all : <<s, t>> \in before => place[s] < place[t]
      /\ \A i \in 1 .. n : \E s \in all : place[s] = i
    <2> HIDE DEF all, before
    <2> QED BY <1>2, <1>4, <1>5, <1>6, PlacesCounted
<1>8. \A s \in all : place[s] = SC!Cardinality(upto(s))
    <2> SUFFICES ASSUME NEW s \in all
                 PROVE  place[s] = SC!Cardinality(upto(s))
        OBVIOUS
    <2>1. place[s] = Cardinality({t \in all : t = s \/ <<t, s>> \in before})
        BY DEF Standing
    <2>2. {t \in all : t = s \/ <<t, s>> \in before} = upto(s)
        BY <1>3
    <2> HIDE DEF upto, all, before
    <2> QED BY <2>1, <2>2, SameCount
<1>9. SC!Document(p, m) = [rows |-> [i \in 1 .. n |-> SC!RankRow(p, m, at[i])], from |-> p]
    <2> DEFINE order == [i \in 1 .. SC!Cardinality(all) |-> CHOOSE s \in all : SC!Cardinality(upto(s)) = i]
    <2>1. SC!Document(p, m) = [rows |-> [i \in DOMAIN order |-> SC!RankRow(p, m, order[i])], from |-> p]
        BY Zenon DEF SC!Document
    <2>2. order = at
        <3>1. SC!Cardinality(all) = n
            BY SameCount
        <3> HIDE DEF n, all, upto
        <3> QED BY <3>1
    <2>3. DOMAIN at = 1 .. n
        OBVIOUS
    <2> HIDE DEF order, at, n, all
    <2> QED BY <2>1, <2>2, <2>3
<1> HIDE DEF n, before, place, upto
<1>10. \A i \in 1 .. n : at[i] \in all /\ place[at[i]] = i
    <2> SUFFICES ASSUME NEW i \in 1 .. n
                 PROVE  at[i] \in all /\ place[at[i]] = i
        OBVIOUS
    <2> HIDE DEF all
    <2>1. \E s \in all : SC!Cardinality(upto(s)) = i
        BY <1>7, <1>8
    <2>2. at[i] = CHOOSE s \in all : SC!Cardinality(upto(s)) = i
        OBVIOUS
    <2> HIDE DEF at
    <2>3. at[i] \in all /\ SC!Cardinality(upto(at[i])) = i
        BY Zenon, <2>1, <2>2
    <2> QED BY <1>8, <2>3
<1>11. at \in [1 .. n -> all]
    BY <1>10
<1> HIDE DEF at
<1>12. \A i, j \in 1 .. n : i < j => SC!Better(p, m, at[i], at[j])
    <2> SUFFICES ASSUME NEW i \in 1 .. n, NEW j \in 1 .. n, i < j, ~SC!Better(p, m, at[i], at[j])
                 PROVE  FALSE
        OBVIOUS
    <2>1. at[i] \in all /\ at[j] \in all /\ place[at[i]] = i /\ place[at[j]] = j
        BY <1>10
    <2>2. i \in Int /\ j \in Int /\ i # j
        BY <1>2
    <2> HIDE DEF all
    <2>3. <<at[j], at[i]>> \in before
        BY <1>3, <1>5, <2>1, <2>2
    <2>4. place[at[j]] < place[at[i]]
        BY <1>7, <2>1, <2>3
    <2> QED BY <2>1, <2>2, <2>4
<1> QED BY <1>2, <1>9, <1>11, <1>12 DEF n
CycleInv ==
    /\ cpc \in {"sleep", "probe", "rank", "publish"}
    /\ pool \in Pools \cup {None}
    /\ cpc # "sleep" => pool \in Pools
    /\ cpc \in {"rank", "publish"} => probed \in Probed(pool)
    /\ cpc = "publish" => SC!Survivors(pool, probed) # {}
    /\ public # None =>
          \E p \in Pools : \E m \in Probed(p) : SC!Survivors(p, m) # {} /\ public = SC!Document(p, m)
    /\ served \in {None, public}

LEMMA CycleInitOK == ASSUME SC!CycleInit PROVE CycleInv
    BY DEF SC!CycleInit, CycleInv

LEMMA CycleKeeps ==
    ASSUME CycleInv, SC!CycleNext \/ UNCHANGED cycleVars
    PROVE  CycleInv'
<1> USE DEF CycleInv
<1>1. CASE SC!Fetch
    BY <1>1 DEF SC!Fetch
<1>2. CASE SC!NothingToProbe
    BY <1>2 DEF SC!NothingToProbe, SC!Sleep
<1>3. CASE SC!Probe
    BY <1>3 DEF SC!Probe, Probed
<1>4. CASE SC!KeepLast
    BY <1>4 DEF SC!KeepLast, SC!Sleep
<1>5. CASE SC!Rank
    BY <1>5 DEF SC!Rank
<1>6. CASE SC!Publish
    BY <1>6 DEF SC!Publish, SC!Sleep
<1>7. CASE SC!Restart
    BY <1>7 DEF SC!Restart, SC!Sleep
<1>8. CASE UNCHANGED cycleVars
    BY <1>8 DEF cycleVars
<1> QED BY <1>1, <1>2, <1>3, <1>4, <1>5, <1>6, <1>7, <1>8 DEF SC!CycleNext

\* Whatever is measured, what is published of it passed the gates and can be read back
\* unless a listed server is overcommitted.
LEMMA DocumentSound ==
    ASSUME SC!CycleAssumption, NEW p \in Pools, NEW m \in Probed(p), SC!Survivors(p, m) # {},
           public = SC!Document(p, m)
    PROVE  SC!GatePassed /\ SC!ReadableUnlessOvercommitted
<1>0. PICK n \in Nat : \E at \in [1 .. n -> SC!Survivors(p, m)] :
          /\ n = Cardinality(SC!Survivors(p, m)) /\ n <= Size
          /\ \A i, j \in 1 .. n : i < j => SC!Better(p, m, at[i], at[j])
          /\ SC!Document(p, m) = [rows |-> [i \in 1 .. n |-> SC!RankRow(p, m, at[i])], from |-> p]
    BY DocumentRanks
<1>1. PICK at \in [1 .. n -> SC!Survivors(p, m)] :
          /\ n = Cardinality(SC!Survivors(p, m)) /\ n <= Size
          /\ \A i, j \in 1 .. n : i < j => SC!Better(p, m, at[i], at[j])
          /\ SC!Document(p, m) = [rows |-> [i \in 1 .. n |-> SC!RankRow(p, m, at[i])], from |-> p]
    BY <1>0
<1>2. IsFiniteSet(SC!Survivors(p, m))
    <2>1. SC!Survivors(p, m) \subseteq SC!Shortlist(p)
        BY DEF SC!Survivors
    <2> QED BY <2>1, EligibleCounted, FS_Subset
<1>3. n > 0
    BY <1>1, <1>2, FS_EmptySet
<1> DEFINE row(i) == SC!RankRow(p, m, at[i])
<1>4. public.from = p /\ public.rows = [i \in 1 .. n |-> row(i)]
    BY <1>1
<1>5. Len(public.rows) = n /\ DOMAIN public.rows = 1 .. n /\ public.rows # <<>>
    BY <1>3, <1>4
<1>6. \A i \in 1 .. n : public.rows[i] = row(i)
    BY <1>4
<1>7. \A i \in 1 .. n : at[i] \in SC!Survivors(p, m)
    OBVIOUS
<1>8. \A i \in 1 .. n : /\ row(i).name = at[i] /\ row(i).loss = m[at[i]].loss /\ row(i).rtt = m[at[i]].rtt
                        /\ row(i).load = SC!Field(p[at[i]].load, 0)
                        /\ row(i).bw_max = SC!Field(p[at[i]].bw_max, 0)
                        /\ row(i).headroom = SC!Headroom(p[at[i]])
    BY DEF SC!RankRow
<1>9. \A i \in 1 .. n : /\ at[i] \in SC!Eligible(p) /\ at[i] \in SC!Names
                        /\ row(i).loss \in 0 .. 100 /\ row(i).loss <= MaxLoss /\ row(i).rtt \in Nat
                        /\ row(i).load \in 0 .. 100
                        /\ row(i).bw_max \in Int /\ row(i).headroom \in Int
    <2> SUFFICES ASSUME NEW i \in 1 .. n
                 PROVE  /\ at[i] \in SC!Eligible(p) /\ at[i] \in SC!Names
                        /\ row(i).loss \in 0 .. 100 /\ row(i).loss <= MaxLoss /\ row(i).rtt \in Nat
                        /\ row(i).load \in 0 .. 100
                        /\ row(i).bw_max \in Int /\ row(i).headroom \in Int
        OBVIOUS
    <2>1. /\ at[i] \in SC!Eligible(p) /\ at[i] \in SC!Names
          /\ m[at[i]].loss \in 0 .. 100 /\ m[at[i]].loss <= MaxLoss /\ m[at[i]].rtt \in Nat
          /\ SC!Field(p[at[i]].load, 0) \in 0 .. 100
        BY <1>7, SurvivorsMeasured
    <2>2. SC!Field(p[at[i]].bw_max, 0) \in Int /\ SC!Headroom(p[at[i]]) \in Int
        BY <2>1, RowsTyped
    <2> HIDE DEF row
    <2> QED BY <1>8, <2>1, <2>2
<1> HIDE DEF row
<1>10. SC!GatePassed
    <2>1. \A i, j \in 1 .. n : i < j => row(i).loss <= row(j).loss
        BY <1>1, <1>7, <1>8, BetterOrders
    <2>2. \A s \in SC!Shortlist(p), t \in SC!Eligible(p) \ SC!Shortlist(p) :
              SC!Headroom(p[s]) >= SC!Headroom(p[t])
        BY ShortlistRoomiest
    <2> QED BY <1>1, <1>4, <1>5, <1>6, <1>8, <1>9, <2>1, <2>2 DEF SC!GatePassed
<1>11. ASSUME NEW i \in 1 .. n, NEW j \in 1 .. n, row(i).name = row(j).name
       PROVE  i = j
    <2>1. at[i] = at[j] /\ at[i] \in SC!Survivors(p, m)
        BY <1>7, <1>8, <1>11
    <2>2. ~SC!Better(p, m, at[i], at[j]) /\ ~SC!Better(p, m, at[j], at[i])
        BY <2>1, BetterOrders
    <2>3. i \in Int /\ j \in Int
        BY <1>3
    <2> QED BY <1>1, <2>2, <2>3
<1>12. None \notin Int
    BY DEF SC!CycleAssumption
<1>13. \A i \in 1 .. n : /\ SC!RowValid(row(i)) <=> SC!RowAcceptable(row(i))
                         /\ SC!RowAcceptable(row(i)) \/ SC!Overcommitted(p[at[i]])
    <2> SUFFICES ASSUME NEW i \in 1 .. n
                 PROVE  /\ SC!RowValid(row(i)) <=> SC!RowAcceptable(row(i))
                        /\ SC!RowAcceptable(row(i)) \/ SC!Overcommitted(p[at[i]])
        OBVIOUS
    <2>1. SC!RowValid(row(i)) <=> row(i).bw_max > 0 /\ row(i).headroom \in 0 .. row(i).bw_max
        BY <1>9, <1>12 DEF SC!RowValid
    <2>2. SC!RowAcceptable(row(i)) <=> row(i).bw_max > 0 /\ row(i).headroom \in 0 .. row(i).bw_max
        <3>1. row(i).rtt \in Nat /\ row(i).rtt # None /\ row(i).loss \in 0 .. 100 /\ row(i).load \in 0 .. 100
              /\ row(i).bw_max \in Int /\ row(i).headroom \in Int
            BY <1>9, <1>12
        <3>2. \A x \in 0 .. 100 : x >= 0 /\ x <= 100
            OBVIOUS
        <3>3. \A percent \in {row(i).loss, row(i).load} : percent >= 0 /\ percent <= 100
            BY Zenon, <3>1, <3>2
        <3> QED BY <3>1, <3>3 DEF SC!RowAcceptable
    <2>3. SC!Overcommitted(p[at[i]]) <=> row(i).bw_max <= 0 \/ row(i).headroom \notin 0 .. row(i).bw_max
        BY <1>8 DEF SC!Overcommitted
    <2> QED BY <1>9, <2>1, <2>2, <2>3
<1>14. SC!AgentReads(public) <=> \A i \in 1 .. n : SC!RowAcceptable(row(i))
    <2>1. Len(public.rows) > 0
        BY <1>3, <1>5
    <2>2. \A i, j \in DOMAIN public.rows : public.rows[i].name = public.rows[j].name => i = j
        BY <1>5, <1>6, <1>11
    <2>3. SC!ToSet(public.rows) = {row(i) : i \in 1 .. n}
        BY <1>5, <1>6 DEF SC!ToSet
    <2> QED BY <2>1, <2>2, <2>3 DEF SC!AgentReads
<1>15. public # None => (SC!Usable(public) <=> \A i \in 1 .. n : SC!RowValid(row(i)))
    BY <1>5, <1>6 DEF SC!Usable
<1>16. public # None => (SC!AgentReads(public) \/ \E s \in SC!Names : SC!Published(s) /\ SC!Overcommitted(public.from[s]))
    <2>1. \A i \in 1 .. n : SC!Published(at[i])
        BY <1>5, <1>6, <1>8 DEF SC!Published
    <2> QED BY <1>4, <1>9, <1>13, <1>14, <2>1
<1>17. public # None => SC!AgentReads(public) = SC!Usable(public)
    <2>1. SC!AgentReads(public) \in BOOLEAN /\ SC!Usable(public) \in BOOLEAN
        BY Zenon DEF SC!AgentReads, SC!Usable
    <2>2. public # None => (SC!AgentReads(public) <=> SC!Usable(public))
        BY <1>13, <1>14, <1>15
    <2> QED BY Zenon, <2>1, <2>2
<1> QED BY <1>10, <1>16, <1>17 DEF SC!ReadableUnlessOvercommitted

LEMMA CycleTells ==
    ASSUME CycleInv, SC!CycleAssumption
    PROVE  SC!CycleTypeOK /\ SC!GatePassed /\ SC!ReadableUnlessOvercommitted
<1>1. SC!CycleTypeOK
    BY DEF CycleInv, SC!CycleTypeOK
<1>2. CASE public = None
    BY <1>1, <1>2 DEF SC!GatePassed, SC!ReadableUnlessOvercommitted
<1>3. CASE public # None
    BY <1>1, <1>3, DocumentSound DEF CycleInv
<1> QED BY <1>2, <1>3

-----------------------------------------------------------------------------
(* SecretGuard.  Documents nest; what the walk over one returns is found   *)
(* by the least depth at which it would be something else.                 *)

\* What nests is proved about by depth: where a level fails, a least one does.
LEMMA LeastOf ==
    ASSUME NEW T \in SUBSET Nat, T # {}
    PROVE  \E x \in T : \A y \in T : x <= y
<1>1. \E x \in T : \A y \in T : <<y, x>> \notin OpToRel(<, Nat)
    BY Zenon, NatLessThanWellFounded, WFMin
<1>2. \A x, y \in Nat : <<y, x>> \notin OpToRel(<, Nat) => x <= y
    BY DEF OpToRel
<1> QED BY Zenon, <1>1, <1>2

\* The values of every depth.
LEMMA ValueUnfolds ==
    ASSUME SG!GuardAssumption
    PROVE  SG!Value = [d \in 0 .. MaxDepth |-> SG!Values(IF d = 0 THEN {} ELSE SG!Value[d - 1])]
<1> DEFINE Up(g, d) == SG!Values(IF d = 0 THEN {} ELSE g[d - 1])
           T == {n \in 0 .. MaxDepth : ~ \E g : g = [d \in 0 .. n |-> Up(g, d)]}
<1>1. ASSUME T # {} PROVE FALSE
    <2>1. T \in SUBSET Nat
        BY DEF SG!GuardAssumption
    <2> PICK m \in T : \A n \in T : m <= n
        BY <1>1, <2>1, LeastOf
    <2>2. CASE m = 0
        <3> DEFINE g == [d \in 0 .. 0 |-> Up(<< >>, 0)]
        <3>1. g = [d \in 0 .. 0 |-> Up(g, d)]
            OBVIOUS
        <3> QED BY <2>2, <3>1
    <2>3. CASE m > 0
        <3>1. PICK g : g = [d \in 0 .. m - 1 |-> Up(g, d)]
            BY <2>1, <2>3 DEF SG!GuardAssumption
        <3> DEFINE h == [d \in 0 .. m |-> IF d < m THEN g[d] ELSE Up(g, d)]
        <3>2. ASSUME NEW d \in 0 .. m PROVE h[d] = Up(h, d)
            <4>1. m \in Nat /\ d \in Nat
                BY <2>1
            <4>2. d > 0 => h[d - 1] = g[d - 1]
                BY <4>1
            <4> HIDE DEF h
            <4>3. Up(h, d) = Up(g, d)
                BY <4>1, <4>2
            <4>4. h[d] = Up(g, d)
                <5>1. CASE d < m
                    <6>1. h[d] = g[d] /\ d \in 0 .. m - 1
                        BY <4>1, <5>1 DEF h
                    <6> QED BY Zenon, <3>1, <6>1
                <5>2. CASE d = m
                    BY <4>1, <5>2 DEF h
                <5> QED BY <4>1, <5>1, <5>2
            <4> QED BY <4>3, <4>4
        <3> HIDE DEF Up
        <3>3. h = [d \in 0 .. m |-> Up(h, d)]
            BY <3>2
        <3> QED BY <3>3
    <2> QED BY <2>1, <2>2, <2>3
<1>2. \E g : g = [d \in 0 .. MaxDepth |-> Up(g, d)]
    BY <1>1 DEF SG!GuardAssumption
<1> QED BY Zenon, <1>2 DEF SG!Value

\* validate_plaintext() at every depth.
LEMMA ValidUnfolds ==
    ASSUME SG!GuardAssumption
    PROVE  SG!Valid = [d \in 0 .. MaxDepth |-> SG!Validated(SG!Call(d), IF d = 0 THEN SG!Nothing ELSE SG!Valid[d - 1])]
<1> DEFINE Up(g, d) == SG!Validated(SG!Call(d), IF d = 0 THEN SG!Nothing ELSE g[d - 1])
           T == {n \in 0 .. MaxDepth : ~ \E g : g = [d \in 0 .. n |-> Up(g, d)]}
<1>1. ASSUME T # {} PROVE FALSE
    <2>1. T \in SUBSET Nat
        BY DEF SG!GuardAssumption
    <2> PICK m \in T : \A n \in T : m <= n
        BY <1>1, <2>1, LeastOf
    <2>2. CASE m = 0
        <3> DEFINE g == [d \in 0 .. 0 |-> Up(<< >>, 0)]
        <3>1. g = [d \in 0 .. 0 |-> Up(g, d)]
            OBVIOUS
        <3> QED BY <2>2, <3>1
    <2>3. CASE m > 0
        <3>1. PICK g : g = [d \in 0 .. m - 1 |-> Up(g, d)]
            BY <2>1, <2>3 DEF SG!GuardAssumption
        <3> DEFINE h == [d \in 0 .. m |-> IF d < m THEN g[d] ELSE Up(g, d)]
        <3>2. ASSUME NEW d \in 0 .. m PROVE h[d] = Up(h, d)
            <4>1. m \in Nat /\ d \in Nat
                BY <2>1
            <4>2. d > 0 => h[d - 1] = g[d - 1]
                BY <4>1
            <4> HIDE DEF h
            <4>3. Up(h, d) = Up(g, d)
                BY <4>1, <4>2
            <4>4. h[d] = Up(g, d)
                <5>1. CASE d < m
                    <6>1. h[d] = g[d] /\ d \in 0 .. m - 1
                        BY <4>1, <5>1 DEF h
                    <6> QED BY Zenon, <3>1, <6>1
                <5>2. CASE d = m
                    BY <4>1, <5>2 DEF h
                <5> QED BY <4>1, <5>1, <5>2
            <4> QED BY <4>3, <4>4
        <3> HIDE DEF Up
        <3>3. h = [d \in 0 .. m |-> Up(h, d)]
            BY <3>2
        <3> QED BY <3>3
    <2> QED BY <2>1, <2>2, <2>3
<1>2. \E g : g = [d \in 0 .. MaxDepth |-> Up(g, d)]
    BY <1>1 DEF SG!GuardAssumption
<1> QED BY Zenon, <1>2 DEF SG!Valid

\* scalar_leaves() at every depth.
LEMMA LeavesUnfold ==
    ASSUME SG!GuardAssumption
    PROVE  SG!ScalarLeaves = [d \in 0 .. MaxDepth |-> SG!Leaves(SG!Value[d], IF d = 0 THEN SG!Nothing ELSE SG!ScalarLeaves[d - 1])]
<1> DEFINE Up(g, d) == SG!Leaves(SG!Value[d], IF d = 0 THEN SG!Nothing ELSE g[d - 1])
           T == {n \in 0 .. MaxDepth : ~ \E g : g = [d \in 0 .. n |-> Up(g, d)]}
<1>1. ASSUME T # {} PROVE FALSE
    <2>1. T \in SUBSET Nat
        BY DEF SG!GuardAssumption
    <2> PICK m \in T : \A n \in T : m <= n
        BY <1>1, <2>1, LeastOf
    <2>2. CASE m = 0
        <3> DEFINE g == [d \in 0 .. 0 |-> Up(<< >>, 0)]
        <3>1. g = [d \in 0 .. 0 |-> Up(g, d)]
            OBVIOUS
        <3> QED BY <2>2, <3>1
    <2>3. CASE m > 0
        <3>1. PICK g : g = [d \in 0 .. m - 1 |-> Up(g, d)]
            BY <2>1, <2>3 DEF SG!GuardAssumption
        <3> DEFINE h == [d \in 0 .. m |-> IF d < m THEN g[d] ELSE Up(g, d)]
        <3>2. ASSUME NEW d \in 0 .. m PROVE h[d] = Up(h, d)
            <4>1. m \in Nat /\ d \in Nat
                BY <2>1
            <4>2. d > 0 => h[d - 1] = g[d - 1]
                BY <4>1
            <4> HIDE DEF h
            <4>3. Up(h, d) = Up(g, d)
                BY <4>1, <4>2
            <4>4. h[d] = Up(g, d)
                <5>1. CASE d < m
                    <6>1. h[d] = g[d] /\ d \in 0 .. m - 1
                        BY <4>1, <5>1 DEF h
                    <6> QED BY Zenon, <3>1, <6>1
                <5>2. CASE d = m
                    BY <4>1, <5>2 DEF h
                <5> QED BY <4>1, <5>1, <5>2
            <4> QED BY <4>3, <4>4
        <3> HIDE DEF Up
        <3>3. h = [d \in 0 .. m |-> Up(h, d)]
            BY <3>2
        <3> QED BY <3>3
    <2> QED BY <2>1, <2>2, <2>3
<1>2. \E g : g = [d \in 0 .. MaxDepth |-> Up(g, d)]
    BY <1>1 DEF SG!GuardAssumption
<1> QED BY Zenon, <1>2 DEF SG!ScalarLeaves

\* The ways at every depth.
LEMMA WaysUnfold ==
    ASSUME SG!GuardAssumption
    PROVE  SG!Ways = [d \in 0 .. MaxDepth |-> SG!Onward(SG!Value[d], IF d = 0 THEN SG!Nothing ELSE SG!Ways[d - 1])]
<1> DEFINE Up(g, d) == SG!Onward(SG!Value[d], IF d = 0 THEN SG!Nothing ELSE g[d - 1])
           T == {n \in 0 .. MaxDepth : ~ \E g : g = [d \in 0 .. n |-> Up(g, d)]}
<1>1. ASSUME T # {} PROVE FALSE
    <2>1. T \in SUBSET Nat
        BY DEF SG!GuardAssumption
    <2> PICK m \in T : \A n \in T : m <= n
        BY <1>1, <2>1, LeastOf
    <2>2. CASE m = 0
        <3> DEFINE g == [d \in 0 .. 0 |-> Up(<< >>, 0)]
        <3>1. g = [d \in 0 .. 0 |-> Up(g, d)]
            OBVIOUS
        <3> QED BY <2>2, <3>1
    <2>3. CASE m > 0
        <3>1. PICK g : g = [d \in 0 .. m - 1 |-> Up(g, d)]
            BY <2>1, <2>3 DEF SG!GuardAssumption
        <3> DEFINE h == [d \in 0 .. m |-> IF d < m THEN g[d] ELSE Up(g, d)]
        <3>2. ASSUME NEW d \in 0 .. m PROVE h[d] = Up(h, d)
            <4>1. m \in Nat /\ d \in Nat
                BY <2>1
            <4>2. d > 0 => h[d - 1] = g[d - 1]
                BY <4>1
            <4> HIDE DEF h
            <4>3. Up(h, d) = Up(g, d)
                BY <4>1, <4>2
            <4>4. h[d] = Up(g, d)
                <5>1. CASE d < m
                    <6>1. h[d] = g[d] /\ d \in 0 .. m - 1
                        BY <4>1, <5>1 DEF h
                    <6> QED BY Zenon, <3>1, <6>1
                <5>2. CASE d = m
                    BY <4>1, <5>2 DEF h
                <5> QED BY <4>1, <5>1, <5>2
            <4> QED BY <4>3, <4>4
        <3> HIDE DEF Up
        <3>3. h = [d \in 0 .. m |-> Up(h, d)]
            BY <3>2
        <3> QED BY <3>3
    <2> QED BY <2>1, <2>2, <2>3
<1>2. \E g : g = [d \in 0 .. MaxDepth |-> Up(g, d)]
    BY <1>1 DEF SG!GuardAssumption
<1> QED BY Zenon, <1>2 DEF SG!Ways

\* A sequence with one more before it.
LEMMA Prepended ==
    ASSUME NEW X, NEW s \in X, NEW q \in Seq(X)
    PROVE  /\ <<s>> \o q \in Seq(X) /\ <<s>> \o q # << >>
           /\ Len(<<s>> \o q) = Len(q) + 1
           /\ (<<s>> \o q)[1] = s
           /\ \A j \in 1 .. Len(q) : (<<s>> \o q)[j + 1] = q[j]
    OBVIOUS

\* One value: what its kids are, what is said of it, and its ways.
LEMMA ValueShape ==
    ASSUME SG!GuardAssumption, NEW d \in 0 .. MaxDepth, NEW v \in SG!Value[d]
    PROVE  /\ v.t \in {"map", "list", "leaf"} /\ v.c \in STRING
           /\ v.kids \in Seq([k : STRING, v : IF d = 0 THEN {} ELSE SG!Value[d - 1]])
           /\ v.t = "map" => \A i, j \in DOMAIN v.kids : v.kids[i].k = v.kids[j].k => i = j
<1> DEFINE below == IF d = 0 THEN {} ELSE SG!Value[d - 1]
<1>1. v \in SG!Values(below)
    BY ValueUnfolds
<1> HIDE DEF below
<1>2. /\ v \in [t : {"map", "list", "leaf"}, c : STRING, kids : Seq([k : STRING, v : below])]
      /\ v.t = "map" => \A i, j \in DOMAIN v.kids : v.kids[i].k = v.kids[j].k => i = j
    BY <1>1 DEF SG!Values
<1>3. v.t \in {"map", "list", "leaf"} /\ v.c \in STRING /\ v.kids \in Seq([k : STRING, v : below])
    BY <1>2
<1> QED BY Zenon, <1>2, <1>3 DEF below

LEMMA KidsBelow ==
    ASSUME SG!GuardAssumption, NEW d \in 0 .. MaxDepth, NEW v \in SG!Value[d], NEW i \in DOMAIN v.kids
    PROVE  d # 0 /\ d - 1 \in 0 .. MaxDepth /\ v.kids[i].v \in SG!Value[d - 1] /\ v.kids[i].k \in STRING
<1> DEFINE below == IF d = 0 THEN {} ELSE SG!Value[d - 1]
           kids == v.kids
           all == [k : STRING, v : below]
<1>1. kids \in Seq(all)
    BY Zenon, ValueShape
<1> HIDE DEF below
<1>2. v.kids[i] \in [k : STRING, v : below]
    <2> HIDE DEF all
    <2>1. i \in DOMAIN kids
        OBVIOUS
    <2> HIDE DEF kids
    <2>2. kids[i] \in all
        BY <1>1, <2>1
    <2> QED BY Zenon, <2>2 DEF kids, all
<1>3. v.kids[i].v \in below /\ v.kids[i].k \in STRING
    BY <1>2
<1>4. d # 0 /\ below = SG!Value[d - 1]
    BY <1>3 DEF below
<1>5. d - 1 \in 0 .. MaxDepth
    BY <1>4 DEF SG!GuardAssumption
<1> QED BY <1>3, <1>4, <1>5

LEMMA IntoCall ==
    ASSUME SG!GuardAssumption, NEW d \in 0 .. MaxDepth, NEW x \in SG!Call(d), NEW i \in DOMAIN x.v.kids
    PROVE  SG!Into(x, i) \in SG!Call(d - 1)
<1>1. x.v \in SG!Value[d] /\ x.inherited \in BOOLEAN /\ x.fields \in BOOLEAN /\ x.path \in Seq(STRING)
      /\ x.exempt \in {{}, {SG!BarmanPath}}
    BY DEF SG!Call
<1>2. x.v.kids[i].v \in SG!Value[d - 1] /\ x.v.kids[i].k \in STRING
    BY <1>1, KidsBelow
<1>3. Append(x.path, x.v.kids[i].k) \in Seq(STRING)
    BY <1>1, <1>2
<1> QED BY <1>1, <1>2, <1>3 DEF SG!Into, SG!Call

LEMMA ValidAt ==
    ASSUME SG!GuardAssumption, NEW d \in 0 .. MaxDepth, NEW x \in SG!Call(d)
    PROVE  SG!Valid[d][x] <=>
               \/ x.path \in x.exempt
               \/ SG!Acceptable(x.v, x.inherited) /\ \A i \in DOMAIN x.v.kids : SG!Valid[d - 1][SG!Into(x, i)]
<1> DEFINE below == IF d = 0 THEN SG!Nothing ELSE SG!Valid[d - 1]
<1>1. SG!Valid[d] = SG!Validated(SG!Call(d), below)
    BY Zenon, ValidUnfolds
<1>2. x.v \in SG!Value[d]
    BY DEF SG!Call
<1>3. ASSUME NEW i \in DOMAIN x.v.kids PROVE below = SG!Valid[d - 1]
    <2>1. d # 0
        BY Zenon, <1>2, KidsBelow
    <2> QED BY Zenon, <2>1
<1> HIDE DEF below
<1>4. SG!Valid[d][x] = (\/ x.path \in x.exempt
                        \/ SG!Acceptable(x.v, x.inherited) /\ \A i \in DOMAIN x.v.kids : below[SG!Into(x, i)])
    BY Zenon, <1>1 DEF SG!Validated
<1> QED BY Zenon, <1>3, <1>4

LEMMA WaysAt ==
    ASSUME SG!GuardAssumption, NEW d \in 0 .. MaxDepth, NEW v \in SG!Value[d]
    PROVE  /\ << >> \in SG!Ways[d][v]
           /\ \A i \in DOMAIN v.kids : \A q \in SG!Ways[d - 1][v.kids[i].v] : <<SG!Step(v, i)>> \o q \in SG!Ways[d][v]
           /\ \A w \in SG!Ways[d][v] :
                  \/ w = << >>
                  \/ \E i \in DOMAIN v.kids : \E q \in SG!Ways[d - 1][v.kids[i].v] : w = <<SG!Step(v, i)>> \o q
<1> DEFINE below == IF d = 0 THEN SG!Nothing ELSE SG!Ways[d - 1]
<1>1. SG!Ways[d] = SG!Onward(SG!Value[d], below)
    BY Zenon, WaysUnfold
<1>2. ASSUME NEW i \in DOMAIN v.kids PROVE below = SG!Ways[d - 1]
    <2>1. d # 0
        BY Zenon, KidsBelow
    <2> QED BY Zenon, <2>1
<1> HIDE DEF below
<1>3. SG!Ways[d][v] = {<< >>} \cup UNION {{<<SG!Step(v, i)>> \o w : w \in below[v.kids[i].v]} : i \in DOMAIN v.kids}
    BY Zenon, <1>1 DEF SG!Onward
<1>4. << >> \in SG!Ways[d][v]
    BY Zenon, <1>3
<1>5. \A i \in DOMAIN v.kids : \A q \in SG!Ways[d - 1][v.kids[i].v] : <<SG!Step(v, i)>> \o q \in SG!Ways[d][v]
    <2> TAKE i \in DOMAIN v.kids
    <2> TAKE q \in SG!Ways[d - 1][v.kids[i].v]
    <2>1. q \in below[v.kids[i].v]
        BY Zenon, <1>2
    <2>2. <<SG!Step(v, i)>> \o q \in {<<SG!Step(v, i)>> \o w : w \in below[v.kids[i].v]}
        BY Zenon, <2>1
    <2> DEFINE on(j) == {<<SG!Step(v, j)>> \o w : w \in below[v.kids[j].v]}
    <2>3. <<SG!Step(v, i)>> \o q \in on(i)
        BY Zenon, <2>2
    <2>4. SG!Ways[d][v] = {<< >>} \cup UNION {on(j) : j \in DOMAIN v.kids}
        BY Zenon, <1>3
    <2> HIDE DEF on
    <2> QED BY <2>3, <2>4
<1>6. ASSUME NEW w \in SG!Ways[d][v], w # << >>
      PROVE  \E i \in DOMAIN v.kids : \E q \in SG!Ways[d - 1][v.kids[i].v] : w = <<SG!Step(v, i)>> \o q
    <2> PICK i \in DOMAIN v.kids : w \in {<<SG!Step(v, i)>> \o q : q \in below[v.kids[i].v]}
        BY Zenon, <1>3, <1>6
    <2> PICK q \in below[v.kids[i].v] : w = <<SG!Step(v, i)>> \o q
        BY Zenon
    <2>1. q \in SG!Ways[d - 1][v.kids[i].v]
        BY Zenon, <1>2
    <2> QED BY Zenon, <2>1
<1> QED BY Zenon, <1>4, <1>5, <1>6

LEMMA FirstStep ==
    ASSUME SG!GuardAssumption, NEW d \in 0 .. MaxDepth, NEW v \in SG!Value[d], NEW w \in SG!Ways[d][v], w # << >>
    PROVE  \E i \in DOMAIN v.kids : \E q \in SG!Ways[d - 1][v.kids[i].v] : w = <<SG!Step(v, i)>> \o q
    BY Zenon, WaysAt

LEMMA LeavesAt ==
    ASSUME SG!GuardAssumption, NEW d \in 0 .. MaxDepth, NEW v \in SG!Value[d]
    PROVE  /\ v.t = "leaf" => SG!ScalarLeaves[d][v] = {v.c}
           /\ v.t # "leaf" => \A c : c \in SG!ScalarLeaves[d][v] <=>
                  \E i \in DOMAIN v.kids : c \in SG!ScalarLeaves[d - 1][v.kids[i].v]
<1> DEFINE below == IF d = 0 THEN SG!Nothing ELSE SG!ScalarLeaves[d - 1]
<1>1. SG!ScalarLeaves[d] = SG!Leaves(SG!Value[d], below)
    BY Zenon, LeavesUnfold
<1>2. ASSUME NEW i \in DOMAIN v.kids PROVE below = SG!ScalarLeaves[d - 1]
    <2>1. d # 0
        BY Zenon, KidsBelow
    <2> QED BY Zenon, <2>1
<1> HIDE DEF below
<1>3. SG!ScalarLeaves[d][v] = IF v.t = "leaf" THEN {v.c} ELSE UNION {below[v.kids[i].v] : i \in DOMAIN v.kids}
    BY Zenon, <1>1 DEF SG!Leaves
<1>4. ASSUME v.t # "leaf", NEW c
      PROVE  c \in SG!ScalarLeaves[d][v] <=> \E i \in DOMAIN v.kids : c \in SG!ScalarLeaves[d - 1][v.kids[i].v]
    <2>1. c \in SG!ScalarLeaves[d][v] <=> \E i \in DOMAIN v.kids : c \in below[v.kids[i].v]
        <3>1. SG!ScalarLeaves[d][v] = UNION {below[v.kids[i].v] : i \in DOMAIN v.kids}
            BY Zenon, <1>3, <1>4
        <3> QED BY <3>1
    <2> QED BY Zenon, <1>2, <2>1
<1> QED BY Zenon, <1>3, <1>4

\* A way is a sequence of steps from a value to a kid of it.
AllValues == UNION {SG!Value[d] : d \in 0 .. MaxDepth}
Steps == [from : AllValues, k : STRING, to : AllValues]

LEMMA StepIsOne ==
    ASSUME SG!GuardAssumption, NEW d \in 0 .. MaxDepth, NEW v \in SG!Value[d], NEW i \in DOMAIN v.kids
    PROVE  SG!Step(v, i) \in Steps
<1>1. v \in AllValues
    BY DEF AllValues
<1>2. v.kids[i].v \in AllValues /\ v.kids[i].k \in STRING
    BY KidsBelow DEF AllValues
<1> QED BY <1>1, <1>2 DEF Steps, SG!Step

LEMMA WaysAreSteps ==
    ASSUME SG!GuardAssumption
    PROVE  \A d \in 0 .. MaxDepth : \A v \in SG!Value[d] : SG!Ways[d][v] \subseteq Seq(Steps)
<1> DEFINE Whole(d, v) == \A w \in SG!Ways[d][v] : w \in Seq(Steps)
           T == {d \in 0 .. MaxDepth : \E v \in SG!Value[d] : ~Whole(d, v)}
<1>1. T \in SUBSET Nat /\ \A d \in T : d \in 0 .. MaxDepth /\ \E v \in SG!Value[d] : ~Whole(d, v)
    BY DEF SG!GuardAssumption
<1>2. << >> \in Seq(Steps)
    OBVIOUS
<1>3. ASSUME NEW d \in 0 .. MaxDepth, NEW v \in SG!Value[d], d # 0 => \A y \in SG!Value[d - 1] : Whole(d - 1, y),
             NEW w \in SG!Ways[d][v], w # << >>
      PROVE  w \in Seq(Steps)
    <2> PICK i \in DOMAIN v.kids : \E q \in SG!Ways[d - 1][v.kids[i].v] : w = <<SG!Step(v, i)>> \o q
        BY Zenon, <1>3, FirstStep
    <2> PICK q \in SG!Ways[d - 1][v.kids[i].v] : w = <<SG!Step(v, i)>> \o q
        OBVIOUS
    <2>1. d # 0 /\ v.kids[i].v \in SG!Value[d - 1]
        BY Zenon, KidsBelow
    <2>2. q \in Seq(Steps)
        BY Zenon, <1>3, <2>1
    <2>3. SG!Step(v, i) \in Steps
        BY Zenon, StepIsOne
    <2>4. <<SG!Step(v, i)>> \o q \in Seq(Steps)
        BY Zenon, <2>2, <2>3, Prepended
    <2> QED BY Zenon, <2>4
<1>4. ASSUME NEW d \in 0 .. MaxDepth, NEW v \in SG!Value[d], d # 0 => \A y \in SG!Value[d - 1] : Whole(d - 1, y)
      PROVE  Whole(d, v)
    BY Zenon, <1>2, <1>3, <1>4
<1> HIDE DEF Whole
<1>5. ASSUME T # {} PROVE FALSE
    <2> PICK d \in T : \A n \in T : d <= n
        BY <1>1, <1>5, LeastOf
    <2>1. d \in 0 .. MaxDepth /\ d \in Nat /\ MaxDepth \in Nat
        BY <1>1 DEF SG!GuardAssumption
    <2> PICK v \in SG!Value[d] : ~Whole(d, v)
        BY <1>1
    <2>2. d # 0 => d - 1 \in 0 .. MaxDepth /\ d - 1 \notin T
        BY <2>1
    <2>3. d # 0 => \A y \in SG!Value[d - 1] : Whole(d - 1, y)
        BY Zenon, <2>2
    <2> QED BY Zenon, <1>4, <2>1, <2>3
<1>6. \A d \in 0 .. MaxDepth : \A v \in SG!Value[d] : Whole(d, v)
    BY Zenon, <1>5
<1> QED BY <1>6 DEF Whole

-----------------------------------------------------------------------------
(* What a call knows along a way: Gated and Spared, and when one is        *)
(* Harmless, from the arguments of the call on.  A step moves them into    *)
(* the arguments of the next call.                                         *)

ResetsAlong(x, w, j) ==
    \/ w[j].from.t = "leaf"
    \/ /\ w[j].from.t = "map"
       /\ \/ SG!StructuralReference(w[j].k, w[j].to) \/ SG!PairedIdentifier(w[j].from, w[j].k)
          \/ IF j = 1 THEN x.fields ELSE w[j - 1].from.t = "map" /\ SG!StructuralReference(w[j - 1].k, w[j - 1].to)

GatedAlong(x, w) ==
    \/ x.inherited /\ \A i \in DOMAIN w : ~ResetsAlong(x, w, i)
    \/ \E j \in DOMAIN w :
           w[j].from.t = "map" /\ SG!SensitiveKey(w[j].k) /\ \A i \in DOMAIN w : i >= j => ~ResetsAlong(x, w, i)

SparedAlong(x, w, n) == \E i \in 0 .. n : x.path \o [j \in 1 .. i |-> w[j].k] \in x.exempt

KeysClean(x, w) ==
    w # << >> /\ ~SparedAlong(x, w, Len(w) - 1) /\ w[Len(w)].from.t = "map" => ~SG!CredentialShapedKey(w[Len(w)].k)

EndClean(x, w) ==
    LET end == SG!End(x.v, w) IN
    end.t = "leaf" /\ ~SparedAlong(x, w, Len(w)) =>
        (end.kids = << >> => end.c \notin SG!Flagged) /\ (GatedAlong(x, w) => SG!Placeholder(end))

LEMMA GatedOnward ==
    ASSUME SG!GuardAssumption, NEW d \in 0 .. MaxDepth, NEW x \in SG!Call(d), NEW i \in DOMAIN x.v.kids,
           NEW q \in Seq(Steps)
    PROVE  GatedAlong(x, <<SG!Step(x.v, i)>> \o q) <=> GatedAlong(SG!Into(x, i), q)
<1> DEFINE s == SG!Step(x.v, i)
           w == <<s>> \o q
           y == SG!Into(x, i)
           RX(j) == ResetsAlong(x, w, j)
           RY(j) == ResetsAlong(y, q, j)
           gateX(j) == w[j].from.t = "map" /\ SG!SensitiveKey(w[j].k)
           gateY(j) == q[j].from.t = "map" /\ SG!SensitiveKey(q[j].k)
<1>0. x.v \in SG!Value[d] /\ x.inherited \in BOOLEAN /\ x.fields \in BOOLEAN
    BY DEF SG!Call
<1>1. s.from = x.v /\ s.k = x.v.kids[i].k /\ s.to = x.v.kids[i].v
    BY DEF SG!Step
<1>2. s \in Steps
    BY Zenon, <1>0, StepIsOne
<1>3. Len(w) = Len(q) + 1 /\ w[1] = s /\ \A j \in 1 .. Len(q) : w[j + 1] = q[j]
    <2> HIDE DEF s
    <2> QED BY <1>2, Prepended
<1>4. w \in Seq(Steps)
    BY Zenon, <1>2, Prepended
<1> HIDE DEF s, w
<1>5. x.v.t \in {"map", "list", "leaf"}
    BY Zenon, <1>0, ValueShape
<1>6. /\ y.fields = (x.v.t = "map" /\ SG!StructuralReference(s.k, s.to))
      /\ y.inherited = (\/ x.v.t = "map" /\ SG!ChildSensitive(x.v, s.k, s.to, x.inherited, x.fields)
                        \/ x.v.t = "list" /\ x.inherited)
    BY <1>1 DEF SG!Into
<1> HIDE DEF y
<1>7. ASSUME NEW j \in 1 .. Len(q) PROVE RX(j + 1) <=> RY(j)
    <2>1. Len(q) \in Nat /\ j \in Nat /\ j >= 1 /\ w[j + 1] = q[j]
        BY <1>3
    <2>2. CASE j = 1
        <3>1. RX(2) <=> \/ w[2].from.t = "leaf"
                        \/ /\ w[2].from.t = "map"
                           /\ \/ SG!StructuralReference(w[2].k, w[2].to) \/ SG!PairedIdentifier(w[2].from, w[2].k)
                              \/ w[1].from.t = "map" /\ SG!StructuralReference(w[1].k, w[1].to)
            BY DEF ResetsAlong
        <3>2. RY(1) <=> \/ q[1].from.t = "leaf"
                        \/ /\ q[1].from.t = "map"
                           /\ \/ SG!StructuralReference(q[1].k, q[1].to) \/ SG!PairedIdentifier(q[1].from, q[1].k)
                              \/ y.fields
            BY DEF ResetsAlong
        <3>3. w[2] = q[1]
            BY <2>1, <2>2
        <3>4. (w[1].from.t = "map" /\ SG!StructuralReference(w[1].k, w[1].to)) = y.fields
            BY <1>1, <1>3, <1>6
        <3>5. RX(2) <=> RY(1)
            BY Zenon, <3>1, <3>2, <3>3, <3>4
        <3> HIDE DEF RX, RY
        <3> QED BY <2>2, <3>5
    <2>3. CASE j > 1
        <3>1. j - 1 \in 1 .. Len(q) /\ (j - 1) + 1 = j /\ j # 1 /\ j + 1 # 1 /\ (j + 1) - 1 = j
            BY <2>1, <2>3
        <3>2. w[j] = q[j - 1]
            BY <1>3, <3>1
        <3> QED BY Zenon, <2>1, <3>1, <3>2 DEF ResetsAlong
    <2> QED BY <2>1, <2>2, <2>3
<1>8. y.inherited <=> ~RX(1) /\ (x.inherited \/ gateX(1))
    <2>1. RX(1) <=> \/ x.v.t = "leaf"
                    \/ /\ x.v.t = "map"
                       /\ \/ SG!StructuralReference(s.k, s.to) \/ SG!PairedIdentifier(x.v, s.k) \/ x.fields
        BY <1>1, <1>3 DEF ResetsAlong
    <2>2. gateX(1) <=> x.v.t = "map" /\ SG!SensitiveKey(s.k)
        BY <1>1, <1>3
    <2> QED BY <1>5, <1>6, <2>1, <2>2 DEF SG!ChildSensitive
<1>9. DOMAIN w = 1 .. Len(q) + 1 /\ DOMAIN q = 1 .. Len(q) /\ Len(q) \in Nat
    BY <1>3, <1>4
<1>10. \A j \in 1 .. Len(q) : gateX(j + 1) <=> gateY(j)
    BY <1>3
<1>11. GatedAlong(x, w) <=> \/ x.inherited /\ \A n \in DOMAIN w : ~RX(n)
                            \/ \E j \in DOMAIN w : gateX(j) /\ \A n \in DOMAIN w : n >= j => ~RX(n)
    BY Zenon DEF GatedAlong
<1>12. GatedAlong(y, q) <=> \/ y.inherited /\ \A n \in DOMAIN q : ~RY(n)
                            \/ \E j \in DOMAIN q : gateY(j) /\ \A n \in DOMAIN q : n >= j => ~RY(n)
    BY Zenon DEF GatedAlong
<1> HIDE DEF RX, RY, gateX, gateY
<1>13. (\A n \in DOMAIN w : ~RX(n)) <=> ~RX(1) /\ \A n \in DOMAIN q : ~RY(n)
    <2>1. \A n \in DOMAIN w : n = 1 \/ (n - 1 \in 1 .. Len(q) /\ (n - 1) + 1 = n)
        BY <1>9
    <2>2. \A n \in DOMAIN w : n = 1 \/ (n - 1 \in DOMAIN q /\ (RX(n) <=> RY(n - 1)))
        BY <1>7, <1>9, <2>1
    <2>3. 1 \in DOMAIN w /\ \A n \in DOMAIN q : n + 1 \in DOMAIN w /\ (RX(n + 1) <=> RY(n))
        BY <1>7, <1>9
    <2> QED BY Zenon, <2>2, <2>3
<1>14. ASSUME NEW j \in 1 .. Len(q)
       PROVE  (\A n \in DOMAIN w : n >= j + 1 => ~RX(n)) <=> (\A n \in DOMAIN q : n >= j => ~RY(n))
    <2>1. \A n \in DOMAIN w : n >= j + 1 => n - 1 \in 1 .. Len(q) /\ (n - 1) + 1 = n /\ n - 1 >= j
        BY <1>9
    <2>2. \A n \in DOMAIN w : n >= j + 1 => n - 1 \in DOMAIN q /\ n - 1 >= j /\ (RX(n) <=> RY(n - 1))
        BY <1>7, <1>9, <2>1
    <2>3. \A n \in DOMAIN q : n >= j => n + 1 \in DOMAIN w /\ n + 1 >= j + 1 /\ (RX(n + 1) <=> RY(n))
        BY <1>7, <1>9
    <2> QED BY Zenon, <2>2, <2>3
<1>15. (\A n \in DOMAIN w : n >= 1 => ~RX(n)) <=> (\A n \in DOMAIN w : ~RX(n))
    BY <1>9
<1>16. (\E j \in DOMAIN w : gateX(j) /\ \A n \in DOMAIN w : n >= j => ~RX(n))
       <=> \/ gateX(1) /\ \A n \in DOMAIN w : ~RX(n)
           \/ \E j \in DOMAIN q : gateY(j) /\ \A n \in DOMAIN q : n >= j => ~RY(n)
    <2> DEFINE openX(j) == gateX(j) /\ \A n \in DOMAIN w : n >= j => ~RX(n)
               openY(j) == gateY(j) /\ \A n \in DOMAIN q : n >= j => ~RY(n)
    <2>1. \A j \in 1 .. Len(q) : openX(j + 1) <=> openY(j)
        BY Zenon, <1>10, <1>14
    <2>2. openX(1) <=> gateX(1) /\ \A n \in DOMAIN w : ~RX(n)
        BY Zenon, <1>15
    <2> HIDE DEF openX, openY
    <2>3. \A j \in DOMAIN w : j = 1 \/ (j - 1 \in 1 .. Len(q) /\ (j - 1) + 1 = j)
        BY <1>9
    <2>4. \A j \in DOMAIN w : j = 1 \/ (j - 1 \in DOMAIN q /\ (openX(j) <=> openY(j - 1)))
        BY <1>9, <2>1, <2>3
    <2>5. 1 \in DOMAIN w /\ \A j \in DOMAIN q : j + 1 \in DOMAIN w /\ (openX(j + 1) <=> openY(j))
        BY <1>9, <2>1
    <2>6. (\E j \in DOMAIN w : openX(j)) <=> openX(1) \/ \E j \in DOMAIN q : openY(j)
        BY Zenon, <2>4, <2>5
    <2> QED BY Zenon, <2>2, <2>6 DEF openX, openY
<1>17. GatedAlong(x, w) <=> GatedAlong(y, q)
    BY Zenon, <1>8, <1>11, <1>12, <1>13, <1>16
<1> QED BY Zenon, <1>17 DEF s, w, y

LEMMA Moved ==
    ASSUME NEW X, NEW p \in Seq(X), NEW a \in X, NEW r \in Seq(X)
    PROVE  p \o (<<a>> \o r) = Append(p, a) \o r
<1>1. p \o (<<a>> \o r) \in Seq(X) /\ Append(p, a) \o r \in Seq(X)
    OBVIOUS
<1>2. Len(p \o (<<a>> \o r)) = Len(Append(p, a) \o r)
    OBVIOUS
<1>3. \A j \in 1 .. Len(Append(p, a) \o r) : (p \o (<<a>> \o r))[j] = (Append(p, a) \o r)[j]
    OBVIOUS
<1> QED BY <1>1, <1>2, <1>3

LEMMA SparedOnward ==
    ASSUME SG!GuardAssumption, NEW d \in 0 .. MaxDepth, NEW x \in SG!Call(d), NEW i \in DOMAIN x.v.kids,
           NEW q \in Seq(Steps), NEW n \in 0 .. Len(q)
    PROVE  SparedAlong(x, <<SG!Step(x.v, i)>> \o q, n + 1)
               <=> (x.path \in x.exempt \/ SparedAlong(SG!Into(x, i), q, n))
<1> DEFINE s == SG!Step(x.v, i)
           w == <<s>> \o q
           y == SG!Into(x, i)
           pathX(m) == x.path \o [j \in 1 .. m |-> w[j].k]
           pathY(m) == y.path \o [j \in 1 .. m |-> q[j].k]
<1>0. x.v \in SG!Value[d] /\ x.path \in Seq(STRING)
    BY DEF SG!Call
<1>1. s \in Steps /\ s.k = x.v.kids[i].k
    BY <1>0, StepIsOne DEF SG!Step
<1>2. Len(w) = Len(q) + 1 /\ w[1] = s /\ \A j \in 1 .. Len(q) : w[j + 1] = q[j]
    <2> HIDE DEF s
    <2> QED BY <1>1, Prepended
<1>3. w \in Seq(Steps)
    BY Zenon, <1>1, Prepended
<1> HIDE DEF s, w
<1>4. y.path = Append(x.path, s.k) /\ y.exempt = x.exempt
    BY <1>1 DEF SG!Into
<1> HIDE DEF y
<1>5. pathX(0) = x.path
    <2>1. [j \in 1 .. 0 |-> w[j].k] = << >>
        OBVIOUS
    <2>2. x.path \o << >> = x.path
        BY <1>0
    <2> QED BY Zenon, <2>1, <2>2
<1>6. ASSUME NEW m \in 0 .. Len(q) PROVE pathX(m + 1) = pathY(m)
    <2> DEFINE kx == [j \in 1 .. m + 1 |-> w[j].k]
               ky == [j \in 1 .. m |-> q[j].k]
    <2>1. m \in Nat /\ \A j \in 1 .. m : j \in 1 .. Len(q)
        OBVIOUS
    <2>2. \A j \in 1 .. Len(q) : q[j].k \in STRING
        <3>1. \A j \in 1 .. Len(q) : q[j] \in Steps
            OBVIOUS
        <3> QED BY <3>1 DEF Steps
    <2>3. ky \in Seq(STRING) /\ Len(ky) = m
        BY <2>1, <2>2
    <2>4. s.k \in STRING
        BY <1>1 DEF Steps
    <2>5. kx = <<s.k>> \o ky
        BY <1>2, <2>1, <2>3
    <2> HIDE DEF ky
    <2>6. x.path \o (<<s.k>> \o ky) = Append(x.path, s.k) \o ky
        <3> DEFINE path == x.path
                   key == s.k
        <3>1. path \in Seq(STRING) /\ key \in STRING /\ ky \in Seq(STRING)
            BY <1>0, <2>3, <2>4
        <3> HIDE DEF path, key
        <3>2. path \o (<<key>> \o ky) = Append(path, key) \o ky
            BY <3>1, Moved
        <3> QED BY Zenon, <3>2 DEF path, key
    <2>7. pathX(m + 1) = x.path \o kx /\ pathY(m) = Append(x.path, s.k) \o ky
        BY Zenon, <1>4 DEF ky
    <2> QED BY Zenon, <2>5, <2>6, <2>7
<1>7. SparedAlong(x, w, n + 1) <=> \E m \in 0 .. n + 1 : pathX(m) \in x.exempt
    BY Zenon DEF SparedAlong
<1>8. SparedAlong(y, q, n) <=> \E m \in 0 .. n : pathY(m) \in x.exempt
    BY Zenon, <1>4 DEF SparedAlong
<1> HIDE DEF pathX, pathY
<1>9. \A m \in 0 .. n + 1 : m = 0 \/ (m - 1 \in 0 .. n /\ m - 1 \in 0 .. Len(q) /\ (m - 1) + 1 = m)
    OBVIOUS
<1>10. 0 \in 0 .. n + 1 /\ \A m \in 0 .. n : m \in 0 .. Len(q) /\ m + 1 \in 0 .. n + 1
    OBVIOUS
<1>11. SparedAlong(x, w, n + 1) <=> (x.path \in x.exempt \/ SparedAlong(y, q, n))
    BY Zenon, <1>5, <1>6, <1>7, <1>8, <1>9, <1>10
<1> QED BY Zenon, <1>11 DEF s, w, y

LEMMA SparedAtOnce ==
    ASSUME NEW d, NEW x \in SG!Call(d), NEW w
    PROVE  SparedAlong(x, w, 0) <=> x.path \in x.exempt
<1>1. x.path \in Seq(STRING)
    BY DEF SG!Call
<1>2. [j \in 1 .. 0 |-> w[j].k] = << >>
    OBVIOUS
<1>3. x.path \o << >> = x.path
    BY <1>1
<1>4. 0 .. 0 = {0}
    OBVIOUS
<1> QED BY Zenon, <1>2, <1>3, <1>4 DEF SparedAlong

\* An exempt call looks at nothing; otherwise a way is clean when its first step
\* and the rest of it are.
LEMMA CleanWhenExempt ==
    ASSUME NEW d, NEW x \in SG!Call(d), NEW w \in Seq(Steps), x.path \in x.exempt
    PROVE  KeysClean(x, w) /\ EndClean(x, w)
<1>1. SparedAlong(x, w, 0)
    BY Zenon, SparedAtOnce
<1>2. \A n \in Nat : SparedAlong(x, w, n)
    <2> TAKE n \in Nat
    <2>1. 0 .. 0 \subseteq 0 .. n
        OBVIOUS
    <2> QED BY Zenon, <1>1, <2>1 DEF SparedAlong
<1>3. Len(w) \in Nat /\ (w # << >> => Len(w) - 1 \in Nat)
    OBVIOUS
<1> QED BY Zenon, <1>2, <1>3 DEF KeysClean, EndClean

LEMMA CleanAtOnce ==
    ASSUME NEW d, NEW x \in SG!Call(d), x.path \notin x.exempt
    PROVE  /\ KeysClean(x, << >>)
           /\ EndClean(x, << >>) <=>
                  (x.v.t = "leaf" => (x.v.kids = << >> => x.v.c \notin SG!Flagged)
                                     /\ (x.inherited => SG!Placeholder(x.v)))
<1>1. SG!End(x.v, << >>) = x.v
    BY DEF SG!End
<1>2. Len(<< >>) = 0 /\ DOMAIN << >> = {}
    OBVIOUS
<1>3. ~SparedAlong(x, << >>, Len(<< >>))
    BY Zenon, <1>2, SparedAtOnce
<1>4. GatedAlong(x, << >>) <=> x.inherited
    BY Zenon, <1>2 DEF GatedAlong
<1>5. KeysClean(x, << >>)
    BY Zenon DEF KeysClean
<1> QED BY Zenon, <1>1, <1>3, <1>4, <1>5 DEF EndClean

LEMMA CleanOnward ==
    ASSUME SG!GuardAssumption, NEW d \in 0 .. MaxDepth, NEW x \in SG!Call(d), NEW i \in DOMAIN x.v.kids,
           NEW q \in Seq(Steps), x.path \notin x.exempt
    PROVE  /\ KeysClean(x, <<SG!Step(x.v, i)>> \o q) <=>
                  /\ q = << >> /\ x.v.t = "map" => ~SG!CredentialShapedKey(x.v.kids[i].k)
                  /\ KeysClean(SG!Into(x, i), q)
           /\ EndClean(x, <<SG!Step(x.v, i)>> \o q) <=> EndClean(SG!Into(x, i), q)
<1> DEFINE s == SG!Step(x.v, i)
           w == <<s>> \o q
           y == SG!Into(x, i)
<1>0. x.v \in SG!Value[d]
    BY DEF SG!Call
<1>1. s.from = x.v /\ s.k = x.v.kids[i].k /\ s.to = x.v.kids[i].v /\ y.v = x.v.kids[i].v
    BY DEF SG!Step, SG!Into
<1>2. s \in Steps
    BY Zenon, <1>0, StepIsOne
<1>3. GatedAlong(x, w) <=> GatedAlong(y, q)
    BY Zenon, GatedOnward
<1>4. \A n \in 0 .. Len(q) : SparedAlong(x, w, n + 1) <=> SparedAlong(y, q, n)
    BY Zenon, SparedOnward
<1>5. ~SparedAlong(x, w, 0)
    BY Zenon, SparedAtOnce
<1> HIDE DEF s
<1>6. Len(w) = Len(q) + 1 /\ w[1] = s /\ (\A j \in 1 .. Len(q) : w[j + 1] = q[j]) /\ w # << >>
    BY <1>2, Prepended
<1>7. Len(q) \in Nat /\ (q # << >> => Len(q) \in 1 .. Len(q)) /\ (q = << >> => Len(q) = 0)
    OBVIOUS
<1> HIDE DEF w, y
<1>8. CASE q = << >>
    <2>1. Len(w) = 1 /\ Len(w) - 1 = 0 /\ w[Len(w)] = s /\ Len(w) = Len(q) + 1 /\ Len(q) \in 0 .. Len(q)
        BY <1>6, <1>7, <1>8
    <2>2. KeysClean(x, w) <=> (x.v.t = "map" => ~SG!CredentialShapedKey(x.v.kids[i].k))
        BY Zenon, <1>1, <1>5, <1>6, <2>1 DEF KeysClean
    <2>3. KeysClean(y, q)
        BY Zenon, <1>8 DEF KeysClean
    <2>4. SG!End(x.v, w) = SG!End(y.v, q)
        BY Zenon, <1>1, <1>6, <1>8, <2>1 DEF SG!End
    <2>5. SparedAlong(x, w, Len(w)) <=> SparedAlong(y, q, Len(q))
        BY Zenon, <1>4, <2>1
    <2>6. EndClean(x, w) <=> EndClean(y, q)
        BY Zenon, <1>3, <2>4, <2>5 DEF EndClean
    <2> QED BY Zenon, <1>8, <2>2, <2>3, <2>6 DEF s, w, y
<1>9. CASE q # << >>
    <2>1. /\ w[Len(w)] = q[Len(q)] /\ Len(w) = Len(q) + 1 /\ Len(w) - 1 = (Len(q) - 1) + 1
          /\ Len(q) \in 0 .. Len(q) /\ Len(q) - 1 \in 0 .. Len(q)
        BY <1>6, <1>7, <1>9
    <2>2. SparedAlong(x, w, Len(w) - 1) <=> SparedAlong(y, q, Len(q) - 1)
        BY Zenon, <1>4, <2>1
    <2>3. KeysClean(x, w) <=> KeysClean(y, q)
        BY Zenon, <1>6, <1>9, <2>1, <2>2 DEF KeysClean
    <2>4. SG!End(x.v, w) = SG!End(y.v, q)
        BY Zenon, <1>6, <1>9, <2>1 DEF SG!End
    <2>5. SparedAlong(x, w, Len(w)) <=> SparedAlong(y, q, Len(q))
        BY Zenon, <1>4, <2>1
    <2>6. EndClean(x, w) <=> EndClean(y, q)
        BY Zenon, <1>3, <2>4, <2>5 DEF EndClean
    <2> QED BY Zenon, <1>9, <2>3, <2>6 DEF s, w, y
<1> QED BY <1>8, <1>9

\* What validate_plaintext() returns, however deep: it accepts the value if and only
\* if every way in it is clean.
LEMMA ValidAlong ==
    ASSUME SG!GuardAssumption
    PROVE  \A d \in 0 .. MaxDepth : \A x \in SG!Call(d) :
               SG!Valid[d][x] <=> \A w \in SG!Ways[d][x.v] : KeysClean(x, w) /\ EndClean(x, w)
<1> DEFINE Tells(d, x) == SG!Valid[d][x] <=> \A w \in SG!Ways[d][x.v] : KeysClean(x, w) /\ EndClean(x, w)
           T == {d \in 0 .. MaxDepth : \E x \in SG!Call(d) : ~Tells(d, x)}
<1>1. T \in SUBSET Nat /\ \A d \in T : d \in 0 .. MaxDepth /\ \E x \in SG!Call(d) : ~Tells(d, x)
    BY DEF SG!GuardAssumption
<1>2. ASSUME NEW d \in 0 .. MaxDepth, NEW x \in SG!Call(d), d # 0 => \A y \in SG!Call(d - 1) : Tells(d - 1, y)
      PROVE  Tells(d, x)
    <2>1. x.v \in SG!Value[d] /\ x.inherited \in BOOLEAN
        BY DEF SG!Call
    <2>2. CASE x.path \in x.exempt
        <3>1. SG!Valid[d][x]
            BY Zenon, <2>2, ValidAt
        <3>2. \A w \in SG!Ways[d][x.v] : w \in Seq(Steps)
            BY Zenon, <2>1, WaysAreSteps
        <3>3. \A w \in SG!Ways[d][x.v] : KeysClean(x, w) /\ EndClean(x, w)
            BY Zenon, <2>2, <3>2, CleanWhenExempt
        <3> QED BY Zenon, <3>1, <3>3
    <2>3. CASE x.path \notin x.exempt
        <3> DEFINE tidy(y, w) == KeysClean(y, w) /\ EndClean(y, w)
                   kid(i) == SG!Into(x, i)
                   below(i) == SG!Ways[d - 1][x.v.kids[i].v]
        <3>1. SG!Valid[d][x] <=> SG!Acceptable(x.v, x.inherited) /\ \A i \in DOMAIN x.v.kids : SG!Valid[d - 1][kid(i)]
            BY Zenon, <2>3, ValidAt
        <3>2. ASSUME NEW i \in DOMAIN x.v.kids
              PROVE  /\ SG!Valid[d - 1][kid(i)] <=> \A q \in below(i) : tidy(kid(i), q)
                     /\ << >> \in below(i)
                     /\ \A q \in below(i) : q \in Seq(Steps)
            <4>1. d # 0 /\ d - 1 \in 0 .. MaxDepth /\ x.v.kids[i].v \in SG!Value[d - 1]
                BY Zenon, <2>1, KidsBelow
            <4>2. kid(i) \in SG!Call(d - 1) /\ kid(i).v = x.v.kids[i].v
                BY IntoCall DEF SG!Into
            <4>3. Tells(d - 1, kid(i))
                BY Zenon, <1>2, <4>1, <4>2
            <4>4. << >> \in below(i)
                BY Zenon, <4>1, WaysAt
            <4>5. \A q \in below(i) : q \in Seq(Steps)
                BY Zenon, <4>1, WaysAreSteps
            <4> QED BY Zenon, <4>2, <4>3, <4>4, <4>5
        <3>3. ASSUME NEW i \in DOMAIN x.v.kids, NEW q \in below(i)
              PROVE  tidy(x, <<SG!Step(x.v, i)>> \o q) <=>
                         /\ q = << >> /\ x.v.t = "map" => ~SG!CredentialShapedKey(x.v.kids[i].k)
                         /\ tidy(kid(i), q)
            <4>1. q \in Seq(Steps)
                BY Zenon, <3>2
            <4> QED BY Zenon, <2>3, <4>1, CleanOnward
        <3> DEFINE keysFine == x.v.t = "map" => \A i \in DOMAIN x.v.kids : ~SG!CredentialShapedKey(x.v.kids[i].k)
        <3>4. SG!Acceptable(x.v, x.inherited) <=> keysFine /\ tidy(x, << >>)
            <4>1. tidy(x, << >>) <=> (x.v.t = "leaf" => (x.v.kids = << >> => x.v.c \notin SG!Flagged)
                                                        /\ (x.inherited => SG!Placeholder(x.v)))
                BY Zenon, <2>3, CleanAtOnce
            <4> QED BY Zenon, <4>1 DEF SG!Acceptable
        <3>5. (\A w \in SG!Ways[d][x.v] : tidy(x, w)) <=>
                  /\ tidy(x, << >>)
                  /\ \A i \in DOMAIN x.v.kids : \A q \in below(i) : tidy(x, <<SG!Step(x.v, i)>> \o q)
            <4>1. << >> \in SG!Ways[d][x.v]
                BY Zenon, <2>1, WaysAt
            <4>2. \A i \in DOMAIN x.v.kids : \A q \in below(i) : <<SG!Step(x.v, i)>> \o q \in SG!Ways[d][x.v]
                BY Zenon, <2>1, WaysAt
            <4>3. \A w \in SG!Ways[d][x.v] :
                      w = << >> \/ \E i \in DOMAIN x.v.kids : \E q \in below(i) : w = <<SG!Step(x.v, i)>> \o q
                BY Zenon, <2>1, WaysAt
            <4> HIDE DEF tidy, below
            <4> QED BY Zenon, <4>1, <4>2, <4>3
        <3> HIDE DEF tidy, below, kid
        <3>6. (\A i \in DOMAIN x.v.kids : \A q \in below(i) : tidy(x, <<SG!Step(x.v, i)>> \o q))
              <=> keysFine /\ \A i \in DOMAIN x.v.kids : \A q \in below(i) : tidy(kid(i), q)
            BY Zenon, <3>2, <3>3
        <3>7. SG!Valid[d][x] <=> \A w \in SG!Ways[d][x.v] : tidy(x, w)
            BY Zenon, <3>1, <3>2, <3>4, <3>5, <3>6
        <3> QED BY Zenon, <3>7 DEF tidy
    <2> QED BY <2>2, <2>3
<1> HIDE DEF Tells
<1>3. ASSUME T # {} PROVE FALSE
    <2> PICK d \in T : \A n \in T : d <= n
        BY <1>1, <1>3, LeastOf
    <2>1. d \in 0 .. MaxDepth /\ d \in Nat /\ MaxDepth \in Nat
        BY <1>1 DEF SG!GuardAssumption
    <2> PICK x \in SG!Call(d) : ~Tells(d, x)
        BY <1>1
    <2>2. d # 0 => d - 1 \in 0 .. MaxDepth /\ d - 1 \notin T
        BY <2>1
    <2>3. d # 0 => \A y \in SG!Call(d - 1) : Tells(d - 1, y)
        BY Zenon, <2>2
    <2> QED BY Zenon, <1>2, <2>1, <2>3
<1>4. \A d \in 0 .. MaxDepth : \A x \in SG!Call(d) : Tells(d, x)
    BY Zenon, <1>3
<1> QED BY Zenon, <1>4 DEF Tells

\* A template is accepted if and only if it is harmless.
LEMMA AcceptsHarmless ==
    ASSUME SG!GuardAssumption, NEW doc \in SG!Value[MaxDepth], NEW exempt \in {{}, {SG!BarmanPath}}
    PROVE  SG!ValidatePlaintext(doc, exempt) <=> SG!Harmless(doc, exempt)
<1> DEFINE x == [v |-> doc, inherited |-> FALSE, fields |-> FALSE, path |-> << >>, exempt |-> exempt]
<1>1. MaxDepth \in 0 .. MaxDepth
    BY DEF SG!GuardAssumption
<1>2. x \in SG!Call(MaxDepth)
    BY DEF SG!Call
<1>3. x.v = doc /\ x.inherited = FALSE /\ x.fields = FALSE /\ x.path = << >> /\ x.exempt = exempt
    OBVIOUS
<1>4. SG!ValidatePlaintext(doc, exempt) = SG!Valid[MaxDepth][x]
    BY Zenon DEF SG!ValidatePlaintext
<1> HIDE DEF x
<1>5. SG!Valid[MaxDepth][x] <=> \A w \in SG!Ways[MaxDepth][doc] : KeysClean(x, w) /\ EndClean(x, w)
    BY Zenon, <1>1, <1>2, <1>3, ValidAlong
<1> DEFINE fine(w) ==
              LET end == SG!End(doc, w) IN
              /\ w # << >> /\ ~SG!Spared(w, Len(w) - 1, exempt) /\ w[Len(w)].from.t = "map"
                     => ~SG!CredentialShapedKey(w[Len(w)].k)
              /\ end.t = "leaf" /\ ~SG!Spared(w, Len(w), exempt) =>
                     (end.kids = << >> => end.c \notin SG!Flagged) /\ (SG!Gated(w) => SG!Placeholder(end))
<1>6. ASSUME NEW w \in SG!Ways[MaxDepth][doc]
      PROVE  (KeysClean(x, w) /\ EndClean(x, w)) <=> fine(w)
    <2>1. w \in Seq(Steps)
        BY Zenon, <1>1, WaysAreSteps
    <2>2. \A j \in DOMAIN w : w[j].k \in STRING /\ j \in Nat /\ j >= 1
        <3>1. \A j \in DOMAIN w : w[j] \in Steps /\ j \in Nat /\ j >= 1
            BY <2>1
        <3> QED BY <3>1 DEF Steps
    <2>3. \A n \in Int : n <= Len(w) => (SparedAlong(x, w, n) <=> SG!Spared(w, n, exempt))
        <3> TAKE n \in Int
        <3> HAVE n <= Len(w)
        <3>1. ASSUME NEW i \in 0 .. n PROVE << >> \o [j \in 1 .. i |-> w[j].k] = [j \in 1 .. i |-> w[j].k]
            <4> DEFINE p == [j \in 1 .. i |-> w[j].k]
            <4>1. i \in Nat /\ \A j \in 1 .. i : j \in DOMAIN w
                BY <2>1
            <4>2. p \in Seq(STRING)
                BY <2>2, <4>1
            <4> HIDE DEF p
            <4>3. << >> \o p = p
                BY <4>2
            <4> QED BY Zenon, <4>3 DEF p
        <3> QED BY Zenon, <1>3, <3>1 DEF SparedAlong, SG!Spared
    <2>4. Len(w) <= Len(w) /\ Len(w) - 1 <= Len(w) /\ Len(w) \in Int /\ Len(w) - 1 \in Int
        BY <2>1
    <2>5. ASSUME NEW j \in DOMAIN w PROVE ResetsAlong(x, w, j) <=> SG!Resets(w, j)
        <3>1. j = 1 \/ (j # 1 /\ j > 1)
            BY <2>2
        <3>2. ~(1 > 1)
            OBVIOUS
        <3> QED BY Zenon, <1>3, <3>1, <3>2 DEF ResetsAlong, SG!Resets
    <2>6. GatedAlong(x, w) <=> SG!Gated(w)
        BY Zenon, <1>3, <2>5 DEF GatedAlong, SG!Gated
    <2>7. KeysClean(x, w) <=> (w # << >> /\ ~SG!Spared(w, Len(w) - 1, exempt) /\ w[Len(w)].from.t = "map"
                               => ~SG!CredentialShapedKey(w[Len(w)].k))
        BY Zenon, <2>3, <2>4 DEF KeysClean
    <2>8. EndClean(x, w) <=>
              (SG!End(doc, w).t = "leaf" /\ ~SG!Spared(w, Len(w), exempt) =>
                   /\ SG!End(doc, w).kids = << >> => SG!End(doc, w).c \notin SG!Flagged
                   /\ SG!Gated(w) => SG!Placeholder(SG!End(doc, w)))
        BY Zenon, <1>3, <2>3, <2>4, <2>6 DEF EndClean
    <2> QED BY Zenon, <2>7, <2>8
<1>7. SG!Harmless(doc, exempt) <=> \A w \in SG!Ways[MaxDepth][doc] : fine(w)
    BY Zenon DEF SG!Harmless
<1> HIDE DEF fine
<1> QED BY Zenon, <1>4, <1>5, <1>6, <1>7

-----------------------------------------------------------------------------
(* What is encrypted: scalar_leaves() finds the scalar at the end of every *)
(* way to one.                                                             *)

LEMMA ScalarOnward ==
    ASSUME SG!GuardAssumption, NEW d \in 0 .. MaxDepth, NEW v \in SG!Value[d], NEW i \in DOMAIN v.kids,
           NEW q \in Seq(Steps), v.t # "leaf"
    PROVE  /\ SG!End(v, <<SG!Step(v, i)>> \o q) = SG!End(v.kids[i].v, q)
           /\ SG!ToScalar(v, <<SG!Step(v, i)>> \o q) <=> SG!ToScalar(v.kids[i].v, q)
           /\ (<<SG!Step(v, i)>> \o q)[1].k = v.kids[i].k
<1> DEFINE s == SG!Step(v, i)
           w == <<s>> \o q
           kid == v.kids[i].v
<1>1. s.from = v /\ s.to = kid /\ s.k = v.kids[i].k
    BY DEF SG!Step
<1>2. s \in Steps
    BY Zenon, StepIsOne
<1> HIDE DEF s
<1>3. Len(w) = Len(q) + 1 /\ w[1] = s /\ (\A j \in 1 .. Len(q) : w[j + 1] = q[j]) /\ w # << >> /\ w \in Seq(Steps)
    BY <1>2, Prepended
<1>4. /\ Len(q) \in Nat /\ (q # << >> => Len(q) \in 1 .. Len(q)) /\ (q = << >> => Len(q) = 0)
      /\ DOMAIN q = 1 .. Len(q)
    OBVIOUS
<1>5. DOMAIN w = 1 .. Len(q) + 1
    BY <1>3
<1> HIDE DEF w, kid
<1>6. SG!End(v, w) = SG!End(kid, q)
    <2>1. CASE q = << >>
        <3>1. w[Len(w)] = s
            BY <1>3, <1>4, <2>1
        <3> QED BY Zenon, <1>1, <1>3, <2>1, <3>1 DEF SG!End
    <2>2. CASE q # << >>
        <3>1. w[Len(w)] = q[Len(q)]
            BY <1>3, <1>4, <2>2
        <3> QED BY Zenon, <1>3, <2>2, <3>1 DEF SG!End
    <2> QED BY <2>1, <2>2
<1>7. (\A j \in DOMAIN w : w[j].from.t # "leaf") <=> (\A j \in DOMAIN q : q[j].from.t # "leaf")
    <2>1. \A j \in DOMAIN w : j = 1 \/ (j - 1 \in DOMAIN q /\ w[j] = q[j - 1])
        <3> TAKE j \in DOMAIN w
        <3>1. j = 1 \/ (j - 1 \in DOMAIN q /\ (j - 1) + 1 = j)
            BY <1>4, <1>5
        <3> QED BY Zenon, <1>3, <1>4, <3>1
    <2>2. \A j \in DOMAIN q : j + 1 \in DOMAIN w /\ w[j + 1] = q[j]
        BY <1>3, <1>4, <1>5
    <2>3. w[1].from.t # "leaf"
        BY <1>1, <1>3
    <2> QED BY Zenon, <2>1, <2>2, <2>3
<1>8. SG!ToScalar(v, w) <=> SG!ToScalar(kid, q)
    BY Zenon, <1>6, <1>7 DEF SG!ToScalar
<1>9. w[1].k = v.kids[i].k
    BY Zenon, <1>1, <1>3
<1> QED BY Zenon, <1>6, <1>8, <1>9 DEF s, w, kid

LEMMA LeavesAlong ==
    ASSUME SG!GuardAssumption
    PROVE  \A d \in 0 .. MaxDepth : \A v \in SG!Value[d] : \A c :
               c \in SG!ScalarLeaves[d][v] <=> \E w \in SG!Ways[d][v] : SG!ToScalar(v, w) /\ SG!End(v, w).c = c
<1> DEFINE reached(d, v, c) == \E w \in SG!Ways[d][v] : SG!ToScalar(v, w) /\ SG!End(v, w).c = c
           Tells(d, v) == \A c : c \in SG!ScalarLeaves[d][v] <=> reached(d, v, c)
           T == {d \in 0 .. MaxDepth : \E v \in SG!Value[d] : ~Tells(d, v)}
<1>1. T \in SUBSET Nat /\ \A d \in T : d \in 0 .. MaxDepth /\ \E v \in SG!Value[d] : ~Tells(d, v)
    BY DEF SG!GuardAssumption
<1>2. ASSUME NEW d \in 0 .. MaxDepth, NEW v \in SG!Value[d], d # 0 => \A y \in SG!Value[d - 1] : Tells(d - 1, y)
      PROVE  Tells(d, v)
    <2>1. << >> \in SG!Ways[d][v] /\ SG!End(v, << >>) = v
        BY Zenon, WaysAt DEF SG!End
    <2>2. CASE v.t = "leaf"
        <3>1. SG!ScalarLeaves[d][v] = {v.c}
            BY Zenon, <2>2, LeavesAt
        <3>2. SG!ToScalar(v, << >>)
            <4>1. DOMAIN << >> = {}
                OBVIOUS
            <4> QED BY Zenon, <2>1, <2>2, <4>1 DEF SG!ToScalar
        <3>3. ASSUME NEW w \in SG!Ways[d][v], SG!ToScalar(v, w) PROVE w = << >>
            <4> SUFFICES ASSUME w # << >> PROVE FALSE
                OBVIOUS
            <4> PICK i \in DOMAIN v.kids : \E q \in SG!Ways[d - 1][v.kids[i].v] : w = <<SG!Step(v, i)>> \o q
                BY Zenon, FirstStep
            <4> PICK q \in SG!Ways[d - 1][v.kids[i].v] : w = <<SG!Step(v, i)>> \o q
                OBVIOUS
            <4>1. d - 1 \in 0 .. MaxDepth /\ v.kids[i].v \in SG!Value[d - 1]
                BY Zenon, KidsBelow
            <4>2. q \in Seq(Steps)
                BY Zenon, <4>1, WaysAreSteps
            <4>3. SG!Step(v, i) \in Steps /\ SG!Step(v, i).from = v
                BY StepIsOne DEF SG!Step
            <4>4. w[1] = SG!Step(v, i) /\ 1 \in DOMAIN w
                <5> DEFINE s == SG!Step(v, i)
                <5> HIDE DEF s
                <5>1. s \in Steps /\ w = <<s>> \o q
                    BY Zenon, <4>3 DEF s
                <5>2. w[1] = s /\ w \in Seq(Steps) /\ Len(w) = Len(q) + 1
                    <6>1. /\ (<<s>> \o q)[1] = s /\ <<s>> \o q \in Seq(Steps)
                          /\ Len(<<s>> \o q) = Len(q) + 1
                        BY <4>2, <5>1, Prepended
                    <6> QED BY Zenon, <5>1, <6>1
                <5>3. 1 \in DOMAIN w
                    BY <4>2, <5>2
                <5> QED BY Zenon, <5>2, <5>3 DEF s
            <4> QED BY Zenon, <2>2, <3>3, <4>3, <4>4 DEF SG!ToScalar
        <3>4. \A c : c \in {v.c} <=> v.c = c
            OBVIOUS
        <3> QED BY Zenon, <2>1, <3>1, <3>2, <3>3, <3>4
    <2>3. CASE v.t # "leaf"
        <3> DEFINE below(i) == SG!Ways[d - 1][v.kids[i].v]
                   on(i, q) == <<SG!Step(v, i)>> \o q
        <3>1. ~SG!ToScalar(v, << >>)
            BY Zenon, <2>1, <2>3 DEF SG!ToScalar
        <3>2. ASSUME NEW i \in DOMAIN v.kids
              PROVE  /\ \A q \in below(i) : q \in Seq(Steps)
                     /\ \A c : c \in SG!ScalarLeaves[d - 1][v.kids[i].v] <=> reached(d - 1, v.kids[i].v, c)
            <4>1. d # 0 /\ d - 1 \in 0 .. MaxDepth /\ v.kids[i].v \in SG!Value[d - 1]
                BY Zenon, KidsBelow
            <4>2. \A q \in below(i) : q \in Seq(Steps)
                BY Zenon, <4>1, WaysAreSteps
            <4> QED BY Zenon, <1>2, <4>1, <4>2
        <3>3. \A i \in DOMAIN v.kids : \A q \in below(i) :
                  /\ SG!End(v, on(i, q)) = SG!End(v.kids[i].v, q)
                  /\ SG!ToScalar(v, on(i, q)) <=> SG!ToScalar(v.kids[i].v, q)
            BY Zenon, <2>3, <3>2, ScalarOnward
        <3>4. \A i \in DOMAIN v.kids : \A q \in below(i) : on(i, q) \in SG!Ways[d][v]
            BY Zenon, WaysAt
        <3>5. \A w \in SG!Ways[d][v] : w = << >> \/ \E i \in DOMAIN v.kids : \E q \in below(i) : w = on(i, q)
            BY Zenon, WaysAt
        <3>6. ASSUME NEW c PROVE c \in SG!ScalarLeaves[d][v] <=> reached(d, v, c)
            <4>1. c \in SG!ScalarLeaves[d][v] <=> \E i \in DOMAIN v.kids : c \in SG!ScalarLeaves[d - 1][v.kids[i].v]
                BY <2>3, LeavesAt
            <4>2. ASSUME NEW i \in DOMAIN v.kids
                  PROVE  c \in SG!ScalarLeaves[d - 1][v.kids[i].v] <=>
                             \E q \in below(i) : SG!ToScalar(v, on(i, q)) /\ SG!End(v, on(i, q)).c = c
                <5>1. c \in SG!ScalarLeaves[d - 1][v.kids[i].v] <=> reached(d - 1, v.kids[i].v, c)
                    BY <3>2
                <5>2. ASSUME NEW q \in below(i)
                      PROVE  /\ SG!End(v, on(i, q)) = SG!End(v.kids[i].v, q)
                             /\ SG!ToScalar(v, on(i, q)) <=> SG!ToScalar(v.kids[i].v, q)
                    BY Zenon, <3>3
                <5>3. reached(d - 1, v.kids[i].v, c) <=>
                          \E q \in below(i) : SG!ToScalar(v, on(i, q)) /\ SG!End(v, on(i, q)).c = c
                    <6> HIDE DEF on
                    <6> QED BY Zenon, <5>2
                <5> HIDE DEF reached, on, below
                <5> QED BY Zenon, <5>1, <5>3
            <4>3. reached(d, v, c) <=>
                      \E i \in DOMAIN v.kids : \E q \in below(i) : SG!ToScalar(v, on(i, q)) /\ SG!End(v, on(i, q)).c = c
                <5> HIDE DEF on, below
                <5> QED BY Zenon, <3>1, <3>4, <3>5
            <4> HIDE DEF reached, on, below
            <4> QED BY Zenon, <4>1, <4>2, <4>3
        <3> QED BY Zenon, <3>6
    <2> QED BY <2>2, <2>3
<1> HIDE DEF Tells
<1>3. ASSUME T # {} PROVE FALSE
    <2> PICK d \in T : \A n \in T : d <= n
        BY <1>1, <1>3, LeastOf
    <2>1. d \in 0 .. MaxDepth /\ d \in Nat /\ MaxDepth \in Nat
        BY <1>1 DEF SG!GuardAssumption
    <2> PICK v \in SG!Value[d] : ~Tells(d, v)
        BY <1>1
    <2>2. d # 0 => d - 1 \in 0 .. MaxDepth /\ d - 1 \notin T
        BY <2>1
    <2>3. d # 0 => \A y \in SG!Value[d - 1] : Tells(d - 1, y)
        BY Zenon, <2>2
    <2> QED BY Zenon, <1>2, <2>1, <2>3
<1>4. \A d \in 0 .. MaxDepth : \A v \in SG!Value[d] : Tells(d, v)
    BY Zenon, <1>3
<1> QED BY Zenon, <1>4 DEF Tells

\* valid_sops_document() accepts only what holds an envelope and nothing in clear.
LEMMA ValidIsSealed ==
    ASSUME SG!GuardAssumption, NEW file, NEW doc, doc.body \in SG!Value[MaxDepth], SG!ValidSops(file, doc)
    PROVE  SG!Sealed(doc.body)
<1> DEFINE body == doc.body
           d == MaxDepth
           named == {s \in SG!Sections : SG!Has(body, s)}
           payloads == {SG!Get(body, s) : s \in named}
           found(p) == IF p.t = "map" THEN SG!ScalarLeaves[d - 1][p] \ {"empty"} ELSE {}
<1>0. d \in 0 .. MaxDepth
    BY DEF SG!GuardAssumption
<1>1. (\A p \in payloads : p.t = "map") /\ UNION {found(p) : p \in payloads} = {"envelope"}
    BY Zenon DEF SG!ValidSops
<1>2. ASSUME NEW i \in DOMAIN body.kids, body.t = "map", body.kids[i].k \in SG!Sections
      PROVE  body.kids[i].v \in payloads
    <2> DEFINE s == body.kids[i].k
    <2>1. s \in named
        BY Zenon, <1>2 DEF SG!Has
    <2>2. \A j \in DOMAIN body.kids : body.kids[j].k = s => j = i
        BY Zenon, <1>0, <1>2, ValueShape
    <2>3. SG!Get(body, s) = body.kids[i].v
        <3> DEFINE j == CHOOSE j \in DOMAIN body.kids : body.kids[j].k = s
        <3>1. j \in DOMAIN body.kids /\ body.kids[j].k = s
            BY Zenon
        <3>2. j = i
            BY Zenon, <2>2, <3>1
        <3> QED BY Zenon, <3>2 DEF SG!Get
    <2> QED BY Zenon, <2>1, <2>3
<1>3. ASSUME NEW p \in payloads
      PROVE  body.t = "map" /\ \E i \in DOMAIN body.kids : body.kids[i].v = p /\ body.kids[i].k \in SG!Sections
    <2> PICK s \in named : p = SG!Get(body, s)
        OBVIOUS
    <2>1. s \in SG!Sections /\ SG!Has(body, s)
        OBVIOUS
    <2> DEFINE j == CHOOSE j \in DOMAIN body.kids : body.kids[j].k = s
    <2>2. body.t = "map" /\ \E i \in DOMAIN body.kids : body.kids[i].k = s
        BY Zenon, <2>1 DEF SG!Has
    <2>3. j \in DOMAIN body.kids /\ body.kids[j].k = s
        BY Zenon, <2>2
    <2>4. p = body.kids[j].v
        BY Zenon DEF SG!Get
    <2> QED BY Zenon, <2>1, <2>2, <2>3, <2>4
<1>4. ASSUME NEW i \in DOMAIN body.kids
      PROVE  /\ d - 1 \in 0 .. MaxDepth /\ body.kids[i].v \in SG!Value[d - 1]
             /\ \A q \in SG!Ways[d - 1][body.kids[i].v] : q \in Seq(Steps)
    BY Zenon, <1>0, KidsBelow, WaysAreSteps
<1>5. ASSUME NEW w \in SG!Ways[d][body], w # << >>, body.t = "map", w[1].k \in SG!Sections, SG!ToScalar(body, w)
      PROVE  SG!End(body, w).c \in {"envelope", "empty"}
    <2> PICK i \in DOMAIN body.kids : \E q \in SG!Ways[d - 1][body.kids[i].v] : w = <<SG!Step(body, i)>> \o q
        BY Zenon, <1>0, <1>5, FirstStep
    <2> PICK q \in SG!Ways[d - 1][body.kids[i].v] : w = <<SG!Step(body, i)>> \o q
        OBVIOUS
    <2> DEFINE p == body.kids[i].v
    <2>0. body.t # "leaf" /\ q \in Seq(Steps)
        BY <1>4, <1>5
    <2>1. /\ SG!End(body, w) = SG!End(p, q)
          /\ SG!ToScalar(body, w) <=> SG!ToScalar(p, q)
          /\ w[1].k = body.kids[i].k
        BY Zenon, <1>0, <2>0, ScalarOnward
    <2>2. p \in payloads
        BY Zenon, <1>2, <1>5, <2>1
    <2>3. SG!End(p, q).c \in SG!ScalarLeaves[d - 1][p]
        BY Zenon, <1>4, <1>5, <2>1, LeavesAlong
    <2>4. SG!End(p, q).c = "empty" \/ SG!End(p, q).c \in found(p)
        BY Zenon, <1>1, <2>2, <2>3
    <2>5. found(p) \subseteq {"envelope"}
        BY Zenon, <1>1, <2>2
    <2> HIDE DEF found, p
    <2> QED BY Zenon, <2>1, <2>4, <2>5
<1>6. \E w \in SG!Ways[d][body] :
          w # << >> /\ body.t = "map" /\ w[1].k \in SG!Sections /\ SG!ToScalar(body, w) /\ SG!End(body, w).c = "envelope"
    <2>1. "envelope" \in UNION {found(p) : p \in payloads}
        BY Zenon, <1>1
    <2> HIDE DEF found
    <2> PICK p \in payloads : "envelope" \in found(p)
        BY <2>1
    <2>2. "envelope" \in SG!ScalarLeaves[d - 1][p] /\ p.t = "map"
        BY <1>1 DEF found
    <2> PICK i \in DOMAIN body.kids : body.kids[i].v = p /\ body.kids[i].k \in SG!Sections
        BY Zenon, <1>3
    <2>3. body.t = "map" /\ body.t # "leaf"
        BY <1>3
    <2>4. \E q \in SG!Ways[d - 1][p] : SG!ToScalar(p, q) /\ SG!End(p, q).c = "envelope"
        BY Zenon, <1>4, <2>2, LeavesAlong
    <2> PICK q \in SG!Ways[d - 1][p] : SG!ToScalar(p, q) /\ SG!End(p, q).c = "envelope"
        BY <2>4
    <2> DEFINE w == <<SG!Step(body, i)>> \o q
    <2>5. q \in Seq(Steps)
        BY Zenon, <1>4
    <2>6. /\ SG!End(body, w) = SG!End(p, q)
          /\ SG!ToScalar(body, w) <=> SG!ToScalar(p, q)
          /\ w[1].k = body.kids[i].k
        BY Zenon, <1>0, <2>3, <2>5, ScalarOnward
    <2>7. w \in SG!Ways[d][body]
        BY Zenon, <1>0, WaysAt
    <2>8. w # << >>
        BY Zenon, <1>0, <2>5, StepIsOne, Prepended
    <2> HIDE DEF w
    <2> QED BY Zenon, <2>3, <2>6, <2>7, <2>8
<1> HIDE DEF payloads, found
<1> QED BY Zenon, <1>5, <1>6 DEF SG!Sealed

-----------------------------------------------------------------------------
(* The loop over the files                                                 *)

FilePasses(f) ==
    stagedFiles[f].parses
    /\ \A e \in DOMAIN stagedFiles[f].docs : SG!ValidDocument(stagedFiles[f], stagedFiles[f].docs[e])

\* The verdict so far is that of all that was read so far
GuardInv ==
    /\ stagedFiles \in FileSets
    /\ guardAt \in [file : Nat, doc : Nat] /\ guardAt.file \in 1 .. Len(stagedFiles) + 1
    /\ guardAt.doc > 0 =>
           guardAt.file \in DOMAIN stagedFiles /\ stagedFiles[guardAt.file].parses
    /\ passing \in BOOLEAN
    /\ passing <=>
           /\ \A f \in DOMAIN stagedFiles : f < guardAt.file => FilePasses(f)
           /\ \A e \in 1 .. guardAt.doc - 1 :
                  e \in DOMAIN stagedFiles[guardAt.file].docs =>
                      SG!ValidDocument(stagedFiles[guardAt.file], stagedFiles[guardAt.file].docs[e])
    /\ guardExit \in {"none", "0", "1"}
    /\ guardExit # "none" => guardAt.file = Len(stagedFiles) + 1 /\ guardExit = IF passing THEN "0" ELSE "1"

LEMMA GuardInitOK == ASSUME SG!GuardAssumption, SG!GuardInit PROVE GuardInv
<1>1. stagedFiles \in FileSets /\ guardAt = [file |-> 1, doc |-> 0] /\ passing = TRUE /\ guardExit = "none"
    BY DEF SG!GuardInit
<1>2. stagedFiles \in Seq(SG!StagedFile)
    BY <1>1 DEF SG!GuardAssumption
<1>3. Len(stagedFiles) \in Nat /\ \A f \in DOMAIN stagedFiles : ~(f < 1)
    BY <1>2
<1> QED BY <1>1, <1>3 DEF GuardInv

LEMMA GuardKeeps ==
    ASSUME SG!GuardAssumption, GuardInv, SG!GuardNext \/ UNCHANGED guardVars
    PROVE  GuardInv'
<1> DEFINE here == stagedFiles[guardAt.file]
           file == guardAt.file
           doc == guardAt.doc
           accepted(e) == SG!ValidDocument(here, here.docs[e])
<1>1. stagedFiles \in Seq(SG!StagedFile)
    BY DEF GuardInv, SG!GuardAssumption
<1>2. Len(stagedFiles) \in Nat /\ DOMAIN stagedFiles = 1 .. Len(stagedFiles)
    BY <1>1
<1>3. /\ file \in Nat /\ doc \in Nat /\ guardAt = [file |-> file, doc |-> doc] /\ file >= 1
      /\ file <= Len(stagedFiles) + 1
    BY <1>2 DEF GuardInv
<1>4. CASE UNCHANGED guardVars
    BY <1>4 DEF guardVars, GuardInv, FilePasses
<1>5. CASE SG!Exit
    <2>1. file = Len(stagedFiles) + 1 /\ guardExit = "none"
        BY <1>2, <1>3, <1>5 DEF SG!Exit
    <2>2. /\ stagedFiles' = stagedFiles /\ guardAt' = guardAt /\ passing' = passing
          /\ guardExit' = IF passing THEN "0" ELSE "1"
        BY <1>5 DEF SG!Exit
    <2> QED BY <2>1, <2>2 DEF GuardInv, FilePasses
<1>6. CASE SG!ReadFile
    <2>1. file \in DOMAIN stagedFiles /\ doc = 0 /\ guardExit = "none" /\ guardExit' = "none" /\ stagedFiles' = stagedFiles
        BY <1>2, <1>3, <1>6 DEF SG!ReadFile
    <2>2. CASE here.parses
        <3>1. guardAt' = [file |-> file, doc |-> 1] /\ passing' = passing
            BY <1>3, <1>6, <2>2 DEF SG!ReadFile
        <3>2. 1 .. doc - 1 = {} /\ 1 .. 1 - 1 = {}
            BY <2>1
        <3> QED BY <1>3, <2>1, <2>2, <3>1, <3>2 DEF GuardInv, FilePasses
    <2>3. CASE ~here.parses
        <3>1. guardAt' = [file |-> file + 1, doc |-> 0] /\ passing' = FALSE
            BY <1>6, <2>3 DEF SG!ReadFile
        <3>2. ~FilePasses(file) /\ file < file + 1
            BY <1>3, <2>3 DEF FilePasses
        <3>3. \A f : FilePasses(f)' <=> FilePasses(f)
            BY Zenon, <2>1 DEF FilePasses
        <3>4. guardAt' \in [file : Nat, doc : Nat] /\ guardAt'.file = file + 1 /\ guardAt'.doc = 0
            BY <1>3, <3>1
        <3>5. file + 1 \in 1 .. Len(stagedFiles) + 1
            BY <1>2, <1>3, <2>1
        <3>6. ~\A f \in DOMAIN stagedFiles : f < file + 1 => FilePasses(f)
            BY Zenon, <2>1, <3>2
        <3>7. ~ \A f \in DOMAIN stagedFiles' : f < guardAt'.file => FilePasses(f)'
            BY Zenon, <2>1, <3>3, <3>4, <3>6
        <3>8. ~(guardAt'.doc > 0) /\ guardAt'.file \in 1 .. Len(stagedFiles') + 1
            BY <2>1, <3>4, <3>5
        <3>9. passing' \in BOOLEAN /\ ~passing' /\ guardExit' = "none" /\ stagedFiles' \in FileSets
            BY <2>1, <3>1 DEF GuardInv
        <3> QED BY Zenon, <3>4, <3>7, <3>8, <3>9 DEF GuardInv
    <2> QED BY <2>2, <2>3
<1>7. CASE SG!CheckDocument
    <2>1. file \in DOMAIN stagedFiles /\ doc > 0 /\ guardExit = "none" /\ guardExit' = "none" /\ stagedFiles' = stagedFiles
        BY <1>2, <1>3, <1>7 DEF SG!CheckDocument
    <2>2. here.parses
        BY <2>1 DEF GuardInv
    <2>3. here.docs \in Seq(SG!Document)
        <3>1. here \in SG!StagedFile
            BY <1>1, <2>1
        <3> QED BY <3>1 DEF SG!StagedFile
    <2>4. Len(here.docs) \in Nat /\ DOMAIN here.docs = 1 .. Len(here.docs)
        BY <2>3
    <2>5. CASE doc > Len(here.docs)
        <3>1. guardAt' = [file |-> file + 1, doc |-> 0] /\ passing' = passing
            BY <1>7, <2>5 DEF SG!CheckDocument
        <3>2. (\A e \in 1 .. doc - 1 : e \in DOMAIN here.docs => accepted(e)) <=> FilePasses(file)
            <4>1. \A e \in DOMAIN here.docs : e \in 1 .. doc - 1
                BY <1>3, <2>4, <2>5
            <4> QED BY Zenon, <2>2, <4>1 DEF FilePasses
        <3>3. passing <=> (\A f \in DOMAIN stagedFiles : f < file => FilePasses(f)) /\ FilePasses(file)
            BY Zenon, <3>2 DEF GuardInv
        <3>4. \A f \in DOMAIN stagedFiles : f < file + 1 <=> f < file \/ f = file
            BY <1>2, <1>3
        <3>5. passing <=> \A f \in DOMAIN stagedFiles : f < file + 1 => FilePasses(f)
            BY Zenon, <2>1, <3>3, <3>4
        <3>6. \A f : FilePasses(f)' <=> FilePasses(f)
            BY Zenon, <2>1 DEF FilePasses
        <3>7. 1 .. 0 - 1 = {} /\ file + 1 \in 1 .. Len(stagedFiles) + 1 /\ guardAt'.file = file + 1 /\ guardAt'.doc = 0
            BY <1>2, <1>3, <2>1, <3>1
        <3>8. guardAt' \in [file : Nat, doc : Nat]
            BY <1>3, <3>1
        <3> QED BY <2>1, <3>1, <3>5, <3>6, <3>7, <3>8 DEF GuardInv
    <2>6. CASE ~(doc > Len(here.docs))
        <3>1. guardAt' = [file |-> file, doc |-> doc + 1] /\ passing' = (passing /\ accepted(doc))
            BY <1>3, <1>7, <2>6 DEF SG!CheckDocument
        <3>2. doc \in DOMAIN here.docs /\ \A e \in 1 .. (doc + 1) - 1 : e \in 1 .. doc - 1 \/ e = doc
            BY <1>3, <2>1, <2>4, <2>6
        <3>3. doc \in 1 .. (doc + 1) - 1 /\ \A e \in 1 .. doc - 1 : e \in 1 .. (doc + 1) - 1
            BY <1>3, <2>1
        <3>4. passing <=> /\ \A f \in DOMAIN stagedFiles : f < file => FilePasses(f)
                          /\ \A e \in 1 .. doc - 1 : e \in DOMAIN here.docs => accepted(e)
            BY Zenon DEF GuardInv
        <3>5. passing' <=> /\ \A f \in DOMAIN stagedFiles : f < file => FilePasses(f)
                           /\ \A e \in 1 .. (doc + 1) - 1 : e \in DOMAIN here.docs => accepted(e)
            BY Zenon, <3>1, <3>2, <3>3, <3>4
        <3>6. \A f : FilePasses(f)' <=> FilePasses(f)
            BY Zenon, <2>1 DEF FilePasses
        <3>7. guardAt' \in [file : Nat, doc : Nat] /\ guardAt'.file = file /\ guardAt'.doc = doc + 1
            BY <1>3, <3>1
        <3>8. passing' \in BOOLEAN
            BY <3>1 DEF GuardInv, SG!ValidDocument
        <3>9. /\ guardAt'.file \in 1 .. Len(stagedFiles') + 1 /\ guardExit' = "none" /\ stagedFiles' \in FileSets
              /\ guardAt'.file \in DOMAIN stagedFiles' /\ stagedFiles'[guardAt'.file].parses
            BY <1>2, <1>3, <2>1, <2>2, <3>7 DEF GuardInv
        <3>10. passing' <=> /\ \A f \in DOMAIN stagedFiles' : f < guardAt'.file => FilePasses(f)'
                            /\ \A e \in 1 .. guardAt'.doc - 1 : e \in DOMAIN stagedFiles'[guardAt'.file].docs =>
                                   SG!ValidDocument(stagedFiles'[guardAt'.file], stagedFiles'[guardAt'.file].docs[e])
            BY Zenon, <2>1, <3>5, <3>6, <3>7
        <3> QED BY Zenon, <3>7, <3>8, <3>9, <3>10 DEF GuardInv
    <2> QED BY <2>5, <2>6
<1> QED BY <1>4, <1>5, <1>6, <1>7 DEF SG!GuardNext

\* A document that is accepted is sound, and a plain one is accepted only then.
LEMMA DocumentTells ==
    ASSUME SG!GuardAssumption, NEW file \in SG!StagedFile, NEW doc \in SG!Document
    PROVE  /\ SG!ValidDocument(file, doc) => SG!Sound(file, doc)
           /\ doc.sops = "none" /\ ~file.enc /\ ~file.barman /\ SG!Sound(file, doc) => SG!ValidDocument(file, doc)
<1>0. doc.body \in SG!Value[MaxDepth]
    BY DEF SG!Document
<1>2. /\ SG!ValidatePlaintext(doc.body, {SG!BarmanPath}) <=> SG!Harmless(doc.body, {SG!BarmanPath})
      /\ SG!ValidatePlaintext(doc.body, {}) <=> SG!Harmless(doc.body, {})
    BY Zenon, <1>0, AcceptsHarmless
<1>3. CASE doc.kind \in {"List", "SecretList"}
    BY Zenon, <1>3 DEF SG!ValidDocument, SG!Sound
<1>4. CASE doc.kind \notin {"List", "SecretList"} /\ doc.kind # "Secret"
    BY Zenon, <1>4 DEF SG!ValidDocument, SG!Sound
<1>5. CASE doc.kind \notin {"List", "SecretList"} /\ doc.kind = "Secret"
    <2>1. CASE SG!Encrypted(file, doc)
        <3>1. SG!ValidDocument(file, doc) <=> SG!ValidSops(file, doc)
            BY Zenon, <1>5, <2>1 DEF SG!ValidDocument
        <3>2. SG!Sound(file, doc) <=> file.enc /\ doc.sops = "valid" /\ SG!Sealed(doc.body)
            BY Zenon, <1>5, <2>1 DEF SG!Sound, SG!Encrypted
        <3>3. SG!ValidSops(file, doc) => file.enc /\ doc.sops = "valid"
            BY Zenon DEF SG!ValidSops
        <3> QED BY Zenon, <1>0, <2>1, <3>1, <3>2, <3>3, ValidIsSealed DEF SG!Encrypted
    <2>2. CASE ~SG!Encrypted(file, doc) /\ SG!BarmanApplies(file, doc)
        <3>1. SG!ValidDocument(file, doc) <=> SG!BarmanShape(doc) /\ SG!ValidatePlaintext(doc.body, {SG!BarmanPath})
            BY Zenon, <1>5, <2>2 DEF SG!ValidDocument
        <3>2. SG!BarmanShape(doc) => (SG!Sound(file, doc) <=> SG!Harmless(doc.body, {SG!BarmanPath}))
            BY Zenon, <1>5, <2>2 DEF SG!Sound, SG!Encrypted
        <3>3. file.barman
            BY Zenon, <2>2 DEF SG!BarmanApplies
        <3> QED BY Zenon, <1>2, <3>1, <3>2, <3>3
    <2>3. CASE ~SG!Encrypted(file, doc) /\ ~SG!BarmanApplies(file, doc)
        <3>1. SG!ValidDocument(file, doc) <=> SG!ValidatePlaintext(doc.body, {})
            BY Zenon, <1>5, <2>3 DEF SG!ValidDocument
        <3>2. SG!Sound(file, doc) <=> SG!Harmless(doc.body, {})
            BY Zenon, <1>5, <2>3 DEF SG!Sound, SG!Encrypted
        <3> QED BY Zenon, <1>2, <3>1, <3>2
    <2> QED BY <2>1, <2>2, <2>3
<1> QED BY <1>3, <1>4, <1>5

LEMMA GuardIsTrue ==
    ASSUME SG!GuardAssumption, GuardInv
    PROVE  SG!PassedIsSound /\ SG!SoundPasses
<1>1. stagedFiles \in Seq(SG!StagedFile)
    BY DEF GuardInv, SG!GuardAssumption
<1>2. \A f \in DOMAIN stagedFiles : stagedFiles[f] \in SG!StagedFile /\ f < Len(stagedFiles) + 1
    BY <1>1
<1>3. ASSUME NEW f \in DOMAIN stagedFiles, NEW e \in DOMAIN stagedFiles[f].docs
      PROVE  stagedFiles[f].docs[e] \in SG!Document
    <2>1. stagedFiles[f].docs \in Seq(SG!Document)
        BY <1>2 DEF SG!StagedFile
    <2> QED BY <2>1
<1>4. ASSUME NEW f \in DOMAIN stagedFiles, NEW e \in DOMAIN stagedFiles[f].docs
      PROVE  LET file == stagedFiles[f]
                 doc == stagedFiles[f].docs[e]
             IN /\ SG!ValidDocument(file, doc) => SG!Sound(file, doc)
                /\ doc.sops = "none" /\ ~file.enc /\ ~file.barman /\ SG!Sound(file, doc) => SG!ValidDocument(file, doc)
    BY Zenon, <1>2, <1>3, DocumentTells
<1>5. guardExit = "0" => \A f \in DOMAIN stagedFiles : FilePasses(f)
    <2> HAVE guardExit = "0"
    <2>1. passing /\ guardAt.file = Len(stagedFiles) + 1
        BY DEF GuardInv
    <2> QED BY Zenon, <1>2, <2>1 DEF GuardInv
<1>6. SG!PassedIsSound
    BY Zenon, <1>4, <1>5 DEF SG!PassedIsSound, FilePasses
<1>7. guardExit = "1" => \E f \in DOMAIN stagedFiles : ~FilePasses(f)
    <2> HAVE guardExit = "1"
    <2>1. ~passing /\ guardAt.file = Len(stagedFiles) + 1
        BY DEF GuardInv
    <2>2. guardAt.doc = 0
        <3>1. guardAt.file \notin DOMAIN stagedFiles
            BY <1>1, <2>1
        <3> QED BY <3>1 DEF GuardInv
    <2>3. 1 .. guardAt.doc - 1 = {}
        BY <2>2
    <2> QED BY Zenon, <2>1, <2>3 DEF GuardInv
<1>8. SG!SoundPasses
    BY Zenon, <1>4, <1>7 DEF SG!SoundPasses, FilePasses
<1> QED BY <1>6, <1>8

-----------------------------------------------------------------------------
(* The composition: a step of one component leaves the variables of all    *)
(* others alone, so each keeps its own invariant.                          *)

LEMMA ToolsSteps ==
    ASSUME [ToolsNext]_toolsVars
    PROVE  /\ VT!ToolNext \/ UNCHANGED vaultToolVars
           /\ VI!IntakeNext \/ UNCHANGED intakeVars
           /\ NG!GrantNext \/ UNCHANGED grantVars
           /\ HA!AccessNext \/ UNCHANGED accessVars
           /\ GG!GoogleNext \/ UNCHANGED googleVars
           /\ BC!BlueprintNext \/ UNCHANGED blueprintVars
           /\ PR!ProvisionNext \/ UNCHANGED provisionVars
           /\ SR!SkillNext \/ UNCHANGED skillVars
           /\ CI!ImporterNext \/ UNCHANGED importerVars
           /\ AC!ConfigNext \/ UNCHANGED configVars
           /\ SC!CycleNext \/ UNCHANGED cycleVars
           /\ SG!GuardNext \/ UNCHANGED guardVars
<1> USE DEF ToolsNext, VaultToolsStep, BlueprintCheckStep, ProvisioningStep, AgentConfigStep, HubAccessStep,
            GoogleGrantStep, VerdictIntakeStep, ScoreCycleStep, NotionSafetyStep, SkillRotationStep,
            ClusterImportStep, SecretGuardStep, toolsVars
<1>1. VT!ToolNext \/ UNCHANGED vaultToolVars
    OBVIOUS
<1>2. VI!IntakeNext \/ UNCHANGED intakeVars
    OBVIOUS
<1>3. NG!GrantNext \/ UNCHANGED grantVars
    OBVIOUS
<1>4. HA!AccessNext \/ UNCHANGED accessVars
    OBVIOUS
<1>5. GG!GoogleNext \/ UNCHANGED googleVars
    OBVIOUS
<1>6. BC!BlueprintNext \/ UNCHANGED blueprintVars
    OBVIOUS
<1>7. PR!ProvisionNext \/ UNCHANGED provisionVars
    OBVIOUS
<1>8. SR!SkillNext \/ UNCHANGED skillVars
    OBVIOUS
<1>9. CI!ImporterNext \/ UNCHANGED importerVars
    OBVIOUS
<1>10. AC!ConfigNext \/ UNCHANGED configVars
    OBVIOUS
<1>11. SC!CycleNext \/ UNCHANGED cycleVars
    OBVIOUS
<1>12. SG!GuardNext \/ UNCHANGED guardVars
    OBVIOUS
<1> QED BY <1>1, <1>2, <1>3, <1>4, <1>5, <1>6, <1>7, <1>8, <1>9, <1>10, <1>11, <1>12

\* VaultToolsKeep of the composed tools, for any number of calls at once, of items,
\* attachments and edits in the apps (vaultwarden_mcp.py, _find(fresh=True), _attach_tool()).
THEOREM ItemsStayKept == ASSUME ToolsAssumption PROVE ToolsSpec => []VaultToolsKeep
<1>1. ToolsInit => ToolInv
    BY ToolInitOK DEF ToolsAssumption, ToolsInit
<1>2. ToolInv /\ [ToolsNext]_toolsVars => ToolInv'
    BY ToolsSteps, ToolNextKeeps DEF ToolsAssumption, vaultToolVars, VT!toolVars
<1>3. ToolInv => VaultToolsKeep
    BY ToolTells DEF ToolsAssumption, VaultToolsKeep
<1> QED BY <1>1, <1>2, <1>3, PTL DEF ToolsSpec

\* IntakeKeeps of the composed tools, for any number of agents, posts and crashes
\* (vpn_picker.py, do_POST(), persist_verdict(); agent.py, _post_bad_server()).
THEOREM VerdictsStayKept == ASSUME ToolsAssumption PROVE ToolsSpec => []IntakeKeeps
<1>1. ToolsInit => IntakeInv
    BY IntakeInitOK DEF ToolsAssumption, ToolsInit
<1>2. IntakeInv /\ [ToolsNext]_toolsVars => IntakeInv'
    BY ToolsSteps, IntakeNextKeeps DEF ToolsAssumption, intakeVars, VI!ivars
<1>3. IntakeInv => IntakeKeeps
    BY IntakeTells DEF ToolsAssumption, IntakeKeeps
<1> QED BY <1>1, <1>2, <1>3, PTL DEF ToolsSpec

\* NotionGrantKept of the composed tools, for any number of requests, pairs, consents and
\* restarts: a refresh starts from a token Notion still takes, and the Secret never goes
\* back to an older consent (notion_grant.py, the bootstrap tool).
THEOREM GrantStaysKept == ASSUME ToolsAssumption PROVE ToolsSpec => NotionGrantKept
<1>1. ToolsInit => GrantInv
    BY GrantInitOK DEF ToolsAssumption, ToolsInit
<1>2. GrantInv /\ [ToolsNext]_toolsVars => GrantInv'
    BY ToolsSteps, GrantStepOK DEF ToolsAssumption, grantVars, NG!grantVars
<1>3. GrantInv /\ [ToolsNext]_toolsVars => [NG!BootstrapKept]_(NG!grantVars)
    BY ToolsSteps, GrantStepKept DEF ToolsAssumption, grantVars, NG!grantVars
<1>4. GrantInv => NG!GrantTypeOK /\ NG!RefreshTokenUsable
    BY GrantTells DEF ToolsAssumption
<1> QED BY <1>1, <1>2, <1>3, <1>4, PTL DEF ToolsSpec, NotionGrantKept, NG!NotionGrantKept

\* HubAccessSound of the composed tools, for any environments, machines and operators:
\* no token opens two hubs, a registered digest is that of the staged token, and an
\* operator's append touches no other client (mcp_hub.py, local-clients.py, add-client.py).
THEOREM AccessStaysSound == ASSUME ToolsAssumption PROVE ToolsSpec => HubAccessSound
<1>1. ToolsInit => AccessInv
    BY AccessInitOK DEF ToolsAssumption, ToolsInit
<1>2. AccessInv /\ [ToolsNext]_toolsVars => AccessInv'
    BY ToolsSteps, AccessStepKeeps DEF ToolsAssumption, accessVars, HA!accvars
<1>3. AccessInv => HA!AccessTypeOK /\ HA!OneHubEach /\ HA!GrantFits /\ HA!KeyListed
    BY AccessTells DEF ToolsAssumption
<1>4. AccessInv => HA!OthersKept
    BY OthersAreKept DEF ToolsAssumption
<1> QED BY <1>1, <1>2, <1>3, <1>4, PTL DEF ToolsSpec, HubAccessSound, HA!HubAccessSound

\* GoogleGrantSound of the composed tools, for any runs, mailboxes and paths: what is
\* stored is a whole grant, encrypted in the repository and the owner's in the instance,
\* and a staged grant is replaced only by a run that saw it (bootstrap-gmail.py).
THEOREM StoredGrantSound == ASSUME ToolsAssumption PROVE ToolsSpec => GoogleGrantSound
<1>1. ToolsInit => GoogleInv
    BY GoogleInitOK DEF ToolsAssumption, ToolsInit
<1>2. GoogleInv /\ [ToolsNext]_toolsVars => GoogleInv'
    BY ToolsSteps, GoogleKeeps DEF ToolsAssumption, googleVars, GG!gvars
<1>3. GoogleInv => (active = "google" => GG!GoogleTypeOK /\ GG!StoredWhole)
    BY GoogleTells
<1>4. GoogleInv /\ [ToolsNext]_toolsVars => [active = "google" => GG!NoneOverwritten]_googleVars
    BY ToolsSteps, SecretSeen DEF googleVars, GG!gvars
<1> QED BY <1>1, <1>2, <1>3, <1>4, PTL DEF ToolsSpec, GoogleGrantSound

\* BlueprintTells of the composed tools, for any Secret and whatever the server answers:
\* exit 0 is never a false green (check_authentik_blueprint.py).
THEOREM GreenStaysTrue == ASSUME ToolsAssumption PROVE ToolsSpec => []BlueprintTells
<1>1. ToolsInit => BlueprintInv
    BY BlueprintInitOK DEF ToolsAssumption, ToolsInit
<1>2. BlueprintInv /\ [ToolsNext]_toolsVars => BlueprintInv'
    BY ToolsSteps, BlueprintKeeps DEF ToolsAssumption, blueprintVars, BC!blueprintVars
<1>3. BlueprintInv => BlueprintTells
    BY BlueprintIsTrue DEF ToolsAssumption, BlueprintTells
<1> QED BY <1>1, <1>2, <1>3, PTL DEF ToolsSpec

\* ProvisioningKeeps of the composed tools, for any number of overlapping runs that stop
\* anywhere, of skills and of outputs: the running backends are accepted, no token is taken
\* back, no change of a skill is undone, what passes for reviewed inputs is whole
\* (provision.py, inputs.py, rotate-skills.py, add-cluster.py).
THEOREM ProvisioningStays == ASSUME ToolsAssumption PROVE ToolsSpec => ProvisioningKeeps
<1>1. ToolsInit => ProvisionInv /\ SkillInv /\ ImporterInv
    BY ProvisionInitOK, SkillInitOK, ImporterInitOK DEF ToolsAssumption, ToolsInit
<1>2. ProvisionInv /\ [ToolsNext]_toolsVars => ProvisionInv'
    BY ToolsSteps, BackendsKeep DEF ToolsAssumption, provisionVars, PR!provisionVars
<1>3. SkillInv /\ [ToolsNext]_toolsVars => SkillInv'
    BY ToolsSteps, SkillNextKeeps DEF ToolsAssumption, skillVars, SR!skillVars
<1>4. ImporterInv /\ [ToolsNext]_toolsVars => ImporterInv'
    BY ToolsSteps, ImporterKeeps DEF ToolsAssumption, importerVars, CI!importerVars
<1>5. ProvisionInv => (active = "provision" => PR!PodAccepted /\ PR!OneToken /\ PR!WorkStagedFits)
    BY ProvisionTells
<1>6. ProvisionInv /\ [ToolsNext]_toolsVars => [active = "provision" => PR!TokensKept]_provisionVars
    BY ToolsSteps, TokensStay DEF ToolsAssumption, provisionVars, PR!provisionVars
<1>7. SkillInv => (active = "skills" => SR!NothingBlessed /\ SR!ChangesKept /\ SR!UndoPossible)
    BY SkillTells DEF ToolsAssumption
<1>8. ImporterInv => (active = "clusters" => CI!AcceptedWhole /\ CI!PinsAgree)
    BY ImporterTells DEF ToolsAssumption
<1>9. ImporterInv /\ [ToolsNext]_toolsVars => [active = "clusters" => CI!ReportedKept]_importerVars
    BY ToolsSteps, ReportedStay DEF ToolsAssumption, importerVars, CI!importerVars
<1> QED BY <1>1, <1>2, <1>3, <1>4, <1>5, <1>6, <1>7, <1>8, <1>9, PTL DEF ToolsSpec, ProvisioningKeeps

\* AgentConfigKept of the composed tools, for any names, service sets and kinds of
\* configuration, whoever saves the files and whatever runs die: an undisturbed run leaves
\* exactly the selected servers, the user's entries and answers stay, and a second run
\* writes nothing (hub_clients.py, local-clients.py configure()).
THEOREM ConfigsStayKept == ASSUME ToolsAssumption PROVE ToolsSpec => AgentConfigKept
<1>1. ToolsInit => ConfigInv
    BY ConfigInitOK DEF ToolsAssumption, ToolsInit
<1>2. ConfigInv /\ [ToolsNext]_toolsVars => ConfigInv'
    BY ToolsSteps, ConfigKeeps DEF ToolsAssumption, configVars, AC!cfgvars
<1>3. ConfigInv => (active = "config" => AC!ConfigTypeOK /\ AC!Exact)
    BY ConfigTells DEF ToolsAssumption
<1>4. ConfigInv => (active = "config" => AC!LeftAlone)
    BY RunLeavesAlone DEF ToolsAssumption
<1>5. ConfigInv => (active = "config" => AC!Idempotent)
    BY RunIdempotent DEF ToolsAssumption
<1> QED BY <1>1, <1>2, <1>3, <1>4, <1>5, PTL DEF ToolsSpec, AgentConfigKept

\* CycleSound of the composed tools, for any servers, answers of the API, outcomes of the
\* probes and size of the shortlist: what is published passed every filter and the loss
\* gate, best first, and is read back by both readers or by neither
\* (vpn_picker.py, shortlist(), rank_survivors(), build_document()).
THEOREM CycleStaysSound == ASSUME ToolsAssumption PROVE ToolsSpec => []CycleSound
<1>1. ToolsInit => CycleInv
    BY CycleInitOK DEF ToolsInit
<1>2. CycleInv /\ [ToolsNext]_toolsVars => CycleInv'
    BY ToolsSteps, CycleKeeps
<1>3. CycleInv => CycleSound
    BY CycleTells DEF ToolsAssumption, CycleSound
<1> QED BY <1>1, <1>2, <1>3, PTL DEF ToolsSpec

\* GuardTells of the composed tools, for any staged files and documents of any depth: a
\* commit passes only if every Secret is sealed or without credentials, leaf by leaf, and a
\* plain template that is sound is not refused (check_sops_encrypted.py, validate_plaintext(),
\* valid_sops_document(), main()).
THEOREM GuardStaysSound == ASSUME ToolsAssumption PROVE ToolsSpec => []GuardTells
<1>1. ToolsInit => GuardInv
    BY GuardInitOK DEF ToolsAssumption, ToolsInit
<1>2. GuardInv /\ [ToolsNext]_toolsVars => GuardInv'
    BY ToolsSteps, GuardKeeps DEF ToolsAssumption
<1>3. GuardInv => GuardTells
    BY GuardIsTrue DEF ToolsAssumption, GuardTells
<1> QED BY <1>1, <1>2, <1>3, PTL DEF ToolsSpec
=============================================================================
