--------------------------- MODULE VerdictMailbox ---------------------------
(***************************************************************************)
(* What VerdictPublisher promises (images/airvpn-bluetit/agent.py, the     *)
(* class comment): a mailbox with one slot per destination.  A newer       *)
(* observation replaces the one waiting for its own destination and no     *)
(* other; one observation at a time is handed to storage; closing throws   *)
(* away what waits and hands nothing more to storage, without waiting for  *)
(* what storage already has.  No queue, thread, lock or condition appears. *)
(***************************************************************************)
CONSTANTS Dest, Evidence, None

VARIABLES
    want,   \* want[d]: the observation waiting for d, or None
    busy,   \* the [dest, ev] storage is working on, or None
    open    \* is the mailbox accepting?

mvars == <<want, busy, open>>

Init ==
    /\ want = [d \in Dest |-> None]
    /\ busy = None
    /\ open = TRUE

\* A new observation takes the place of the one waiting for d
Accept(d) ==
    /\ open
    /\ \E e \in Evidence : want' = [want EXCEPT ![d] = e]
    /\ UNCHANGED <<busy, open>>

Take(d) ==
    /\ open
    /\ busy = None
    /\ want[d] # None
    /\ busy' = [dest |-> d, ev |-> want[d]]
    /\ want' = [want EXCEPT ![d] = None]
    /\ UNCHANGED open

\* Storage returned, with a file or with an error
Settle ==
    /\ busy # None
    /\ busy' = None
    /\ UNCHANGED <<want, open>>

Close ==
    /\ open' = FALSE
    /\ want' = [d \in Dest |-> None]
    /\ UNCHANGED busy

Next ==
    \/ \E d \in Dest : Accept(d) \/ Take(d)
    \/ Settle
    \/ Close

Spec == Init /\ [][Next]_mvars
=============================================================================
