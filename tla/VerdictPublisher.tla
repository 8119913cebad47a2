-------------------------- MODULE VerdictPublisher --------------------------
(***************************************************************************)
(* The asynchronous verdict writer of the vpn-agent: class                 *)
(* VerdictPublisher of images/airvpn-bluetit/agent.py.                     *)
(*                                                                         *)
(* Threads: the daemon worker (_run), the callers of submit(), the one     *)
(* caller of shutdown(), and a caller of the diagnostic wait_idle().  They *)
(* share one threading.Condition; each `with self._condition` block is one *)
(* step.  A thread inside Condition.wait() is in `waiters` and moves again *)
(* only after a notify: notify() wakes some one waiter, notify_all() all.  *)
(*                                                                         *)
(* The dict self._pending is its keys in insertion order (queue) and its   *)
(* values (held).  Assigning to a present key keeps its place.  An         *)
(* observation is a number counted modulo Generations, one series per      *)
(* destination: at most three of a destination are alive at once (waiting, *)
(* in storage, last settled), so with four no two of them are confused.    *)
(***************************************************************************)
EXTENDS Integers, Sequences

CONSTANTS
    Dest,         \* verdict paths, one per producer and server
    MaxPending,   \* MAX_PENDING_VERDICT_DESTINATIONS
    Generations,  \* how many observations of one destination are told apart
    Nothing

ASSUME PublisherAssumption ==
    /\ MaxPending \in Nat \ {0}
    /\ Generations \in Nat \ {0}
    /\ Nothing \notin Nat
    /\ Nothing \notin [dest : Dest, ev : Nat]

VARIABLES
    queue,      \* the keys of self._pending in insertion order
    held,       \* held[d]: the publication stored under d
    worker,     \* where _run stands
    current,    \* the publication _run has popped, or Nothing
    stopping,   \* self._stopping
    stopper,    \* where the caller of shutdown() stands
    idler,      \* where the caller of wait_idle() stands
    waiters,    \* threads inside self._condition.wait()
    latest,     \* auxiliary: latest[d] is the last observation accepted for d
    settled     \* auxiliary: settled[d] is the last one storage returned from

vars == <<queue, held, worker, current, stopping, stopper, idler, waiters,
          latest, settled>>

Evidence == 0 .. Generations - 1

\* self._active and self._logging as the code sets them along _run
Active == worker \in {"write", "wrote", "log"}
Logging == worker = "log"

Queued(d) == \E i \in 1 .. Len(queue) : queue[i] = d

Awake(t) == t \notin waiters

-----------------------------------------------------------------------------
Init ==
    /\ queue = <<>>
    /\ held = [d \in Dest |-> 0]
    /\ worker = "unborn"
    /\ current = Nothing
    /\ stopping = FALSE
    /\ stopper = "idle"
    /\ idler = "idle"
    /\ waiters = {}
    /\ latest = [d \in Dest |-> 0]
    /\ settled = [d \in Dest |-> 0]

\* self._condition.notify(): one waiter, if there is any
Notify == \/ waiters = {} /\ waiters' = {}
          \/ \E t \in waiters : waiters' = waiters \ {t}

\* Mutant of Submit: at the cap a new destination evicts the oldest one
SubmitEvicts(d) ==
    LET e == (latest[d] + 1) % Generations IN
    /\ ~stopping
    /\ worker' = IF worker = "unborn" THEN "top" ELSE worker
    /\ queue' = CASE Queued(d) -> queue
                  [] ~Queued(d) /\ Len(queue) < MaxPending -> Append(queue, d)
                  [] OTHER -> Append(Tail(queue), d)
    /\ held' = [held EXCEPT ![d] = e]
    /\ latest' = [latest EXCEPT ![d] = e]
    /\ Notify
    /\ UNCHANGED <<current, stopping, stopper, idler, settled>>

\* Mutant of Submit: no notify
SubmitSilent(d) ==
    LET e == (latest[d] + 1) % Generations IN
    /\ ~stopping
    /\ Queued(d) \/ Len(queue) < MaxPending
    /\ worker' = IF worker = "unborn" THEN "top" ELSE worker
    /\ queue' = IF Queued(d) THEN queue ELSE Append(queue, d)
    /\ held' = [held EXCEPT ![d] = e]
    /\ latest' = [latest EXCEPT ![d] = e]
    /\ UNCHANGED <<current, stopping, stopper, idler, waiters, settled>>

\* submit(): refused when stopping, at the cap for a new destination, or when the
\* thread cannot be started; those calls change nothing.  The first accepted one
\* starts the worker.
Submit(d) ==
    LET e == (latest[d] + 1) % Generations IN
    /\ ~stopping
    /\ Queued(d) \/ Len(queue) < MaxPending
    /\ worker' = IF worker = "unborn" THEN "top" ELSE worker
    /\ queue' = IF Queued(d) THEN queue ELSE Append(queue, d)
    /\ held' = [held EXCEPT ![d] = e]
    /\ latest' = [latest EXCEPT ![d] = e]
    /\ Notify
    /\ UNCHANGED <<current, stopping, stopper, idler, settled>>

\* _run at the head of its loop, nothing to do: wait
WorkerWaits ==
    /\ worker = "top" /\ Awake("worker")
    /\ queue = <<>> /\ ~stopping
    /\ waiters' = waiters \cup {"worker"}
    /\ UNCHANGED <<queue, held, worker, current, stopping, stopper, idler, latest, settled>>

\* ... shutdown was claimed: drop the rest and leave
WorkerStops ==
    /\ worker = "top" /\ Awake("worker")
    /\ stopping
    /\ queue' = <<>>
    /\ worker' = "exit"
    /\ waiters' = {}
    /\ UNCHANGED <<held, current, stopping, stopper, idler, latest, settled>>

\* Mutant of WorkerPops: the publication is read but left in the dict
WorkerPeeks ==
    /\ worker = "top" /\ Awake("worker")
    /\ queue # <<>> /\ ~stopping
    /\ current' = [dest |-> Head(queue), ev |-> held[Head(queue)]]
    /\ worker' = "write"
    /\ UNCHANGED <<queue, held, stopping, stopper, idler, waiters, latest, settled>>

\* Mutant of WorkerPops: dict.popitem(), last in first out
WorkerPopsLast ==
    /\ worker = "top" /\ Awake("worker")
    /\ queue # <<>> /\ ~stopping
    /\ LET d == queue[Len(queue)] IN current' = [dest |-> d, ev |-> held[d]]
    /\ queue' = SubSeq(queue, 1, Len(queue) - 1)
    /\ worker' = "write"
    /\ UNCHANGED <<held, stopping, stopper, idler, waiters, latest, settled>>

\* ... pop the destination that has waited longest and hand it to storage
WorkerPops ==
    /\ worker = "top" /\ Awake("worker")
    /\ queue # <<>> /\ ~stopping
    /\ current' = [dest |-> Head(queue), ev |-> held[Head(queue)]]
    /\ queue' = Tail(queue)
    /\ worker' = "write"
    /\ UNCHANGED <<held, stopping, stopper, idler, waiters, latest, settled>>

\* The storage call returns or raises; on a wedged mount it never does
StorageReturns ==
    /\ worker = "write"
    /\ worker' = "wrote"
    /\ settled' = [settled EXCEPT ![current.dest] = current.ev]
    /\ current' = Nothing
    /\ UNCHANGED <<queue, held, stopping, stopper, idler, waiters, latest>>

\* Back under the lock: no completion log once shutdown was claimed
WorkerAbandons ==
    /\ worker = "wrote" /\ stopping
    /\ worker' = "exit"
    /\ waiters' = {}
    /\ UNCHANGED <<queue, held, current, stopping, stopper, idler, latest, settled>>

WorkerLogs ==
    /\ worker = "wrote" /\ ~stopping
    /\ worker' = "log"
    /\ UNCHANGED <<queue, held, current, stopping, stopper, idler, waiters, latest, settled>>

\* The log line is out: clear _logging and _active, tell everyone
WorkerLogged ==
    /\ worker = "log"
    /\ worker' = "top"
    /\ waiters' = {}
    /\ UNCHANGED <<queue, held, current, stopping, stopper, idler, latest, settled>>

\* Mutant of Shutdown: it waits for the log first and claims stopping after
ShutdownClaimsLate ==
    /\ stopper = "idle"
    /\ stopping' = ~Logging
    /\ queue' = IF Logging THEN queue ELSE <<>>
    /\ stopper' = IF Logging THEN "waiting" ELSE "returned"
    /\ waiters' = IF Logging THEN waiters \cup {"stopper"} ELSE {}
    /\ UNCHANGED <<held, worker, current, idler, latest, settled>>

\* shutdown(): claim stopping, discard, notify, and wait only for a log line
Shutdown ==
    /\ stopper = "idle"
    /\ stopping' = TRUE
    /\ queue' = <<>>
    /\ stopper' = IF Logging THEN "waiting" ELSE "returned"
    /\ waiters' = IF Logging THEN {"stopper"} ELSE {}
    /\ UNCHANGED <<held, worker, current, idler, latest, settled>>

\* shutdown() wakes up and looks at _logging again
ShutdownWakes ==
    /\ stopper = "waiting" /\ Awake("stopper")
    /\ stopper' = IF Logging THEN "waiting" ELSE "returned"
    /\ waiters' = IF Logging THEN waiters \cup {"stopper"} ELSE waiters
    /\ UNCHANGED <<queue, held, worker, current, stopping, idler, latest, settled>>

\* wait_idle(): sleep while there is anything to do, give up at the deadline
NotIdle == Active \/ Logging \/ queue # <<>>

IdleCall ==
    /\ idler = "idle" \/ (idler = "waiting" /\ Awake("idler"))
    /\ idler' = IF NotIdle THEN "waiting" ELSE "idle"
    /\ waiters' = IF NotIdle THEN waiters \cup {"idler"} ELSE waiters
    /\ UNCHANGED <<queue, held, worker, current, stopping, stopper, latest, settled>>

IdleTimeout ==
    /\ idler = "waiting"
    /\ idler' = "idle"
    /\ waiters' = waiters \ {"idler"}
    /\ UNCHANGED <<queue, held, worker, current, stopping, stopper, latest, settled>>

WorkerStep ==
    WorkerWaits \/ WorkerStops \/ WorkerPops \/ WorkerAbandons \/ WorkerLogs \/ WorkerLogged

Next ==
    \/ \E d \in Dest : Submit(d)
    \/ WorkerStep
    \/ StorageReturns
    \/ Shutdown \/ ShutdownWakes
    \/ IdleCall \/ IdleTimeout

Spec == Init /\ [][Next]_vars

\* The threads run: the worker outside storage, and a caller inside shutdown().
\* Nothing is assumed of storage, of submit() or of when shutdown() is called.
Fairness == WF_vars(WorkerStep) /\ WF_vars(ShutdownWakes)

FairSpec == Spec /\ Fairness

-----------------------------------------------------------------------------
(* Properties *)

TypeOK ==
    /\ queue \in Seq(Dest)
    /\ held \in [Dest -> Evidence]
    /\ worker \in {"unborn", "top", "write", "wrote", "log", "exit"}
    /\ current \in [dest : Dest, ev : Evidence] \cup {Nothing}
    /\ stopping \in BOOLEAN
    /\ stopper \in {"idle", "waiting", "returned"}
    /\ idler \in {"idle", "waiting"}
    /\ waiters \subseteq {"worker", "stopper", "idler"}
    /\ latest \in [Dest -> Evidence]
    /\ settled \in [Dest -> Evidence]

\* The dict never grows past its cap and holds a destination once.
PendingBounded ==
    /\ Len(queue) <= MaxPending
    /\ \A i, j \in 1 .. Len(queue) : queue[i] = queue[j] => i = j

\* Until shutdown, the latest evidence accepted for a destination is never
\* displaced by another destination's nor overtaken by an older one of its own:
\* it waits, or else it is in storage, or else storage has settled it.
LatestKept ==
    stopping \/ \A d \in Dest :
        IF Queued(d) THEN held[d] = latest[d]
        ELSE IF current # Nothing /\ current.dest = d THEN current.ev = latest[d]
        ELSE settled[d] = latest[d]

\* Once shutdown() has returned, and the interpreter may take stdout away, the
\* worker neither is in nor can enter its completion log.
NoLogAfterShutdown == stopper = "returned" => ~Logging /\ stopping

\* No storage call begins once shutdown() has run, not even one that was queued
\* while shutdown() waits for a completion log.
NoWriteAfterShutdown ==
    [][stopper # "idle" /\ worker # "write" => worker' # "write"]_vars

\* A worker asleep has nothing to do: no notify was lost to another waiter.
NoLostWakeup == "worker" \in waiters => queue = <<>> /\ ~stopping

\* shutdown() returns, whatever storage does (hard NFS cannot delay it).
ShutdownReturns == (stopper = "waiting") ~> (stopper = "returned")

\* If storage answers, every destination that waits is handed to it (or thrown
\* away by shutdown), however often the others are refreshed.
NoStarvation == WF_vars(StorageReturns) => \A d \in Dest : Queued(d) ~> ~Queued(d)

Want(d) == IF Queued(d) THEN held[d] ELSE Nothing

Mailbox == INSTANCE VerdictMailbox
    WITH None <- Nothing, want <- [d \in Dest |-> Want(d)],
         busy <- current,
         open <- ~stopping

\* The threads, the dict and the condition implement the mailbox.
ImplementsMailbox == Mailbox!Spec

\* The worker sleeps only when there is nothing to do and logs nothing once
\* shutdown() has returned (VerdictPublisher._run, shutdown).
PublisherQuiet == TypeOK /\ NoLostWakeup /\ NoLogAfterShutdown

\* Both waits end: shutdown() returns, and an accepted destination is handed over
\* (VerdictPublisher.shutdown, submit).
PublisherProgress == ShutdownReturns /\ NoStarvation
=============================================================================
