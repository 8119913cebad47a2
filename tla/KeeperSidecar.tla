---------------------------- MODULE KeeperSidecar ----------------------------
(***************************************************************************)
(* The Keeper access of the work pod (t3code/env/files/keeper-client.py):  *)
(* `keeper serve`, a single-threaded HTTP sidecar that holds one Commander *)
(* session, the commands that ask it (list, run: reads; create, update,    *)
(* attach, trash: writes), and `keeper login`, the owner's interactive     *)
(* shell on the same config.json.                                          *)
(*                                                                         *)
(* Every login presents the clone code of config.json; Keeper answers with *)
(* a new one, which is written back.  A code presented twice ends the      *)
(* device session.  The lines of config.json and records are abstracted to *)
(* that code and to whether a request's change has reached Keeper.         *)
(* `cut` and `replayed` are auxiliary.                                     *)
(***************************************************************************)
EXTENDS Integers

CONSTANTS
    Caller,     \* processes of the client, one command each
    MaxLogin,   \* bound: clone codes Keeper hands out
    MaxStop,    \* bound: how often the sidecar is told to stop or killed
    None

KeeperAssumption == None \notin Caller \cup {"serve", "shell"}

VARIABLES
    kpc,        \* where serve() stands; "down" when it does not run
    session,    \* Server.session: "none", "live", "dead"
    stopping,   \* the flag set by the signal handler
    llock,      \* the holder of login.lock: "serve", "shell" or None
    code,       \* [config, keeper]: the clone code on disk and the one Keeper expects
    shown,      \* the code the login in progress read; a login got `shown + 1`
    job,        \* the request the sidecar handles, or None
    call,       \* call[c]: [pc, writes, applied, exit, gone]
    stops,      \* how often it was stopped or killed
    cut,        \* a login was cut off between Keeper's answer and the write
    replayed    \* a code was presented that Keeper had replaced

keeperVars == <<kpc, session, stopping, llock, code, shown, job, call, stops, cut, replayed>>
logins == <<llock, code, shown, cut, replayed>>

KeeperInit ==
    /\ kpc = "down" /\ session = "none" /\ stopping = FALSE
    /\ llock = None /\ code = [config |-> 0, keeper |-> 1] /\ shown = 0
    /\ job = None
    /\ call = [c \in Caller |-> [pc |-> "new", writes |-> FALSE, applied |-> FALSE, exit |-> None, gone |-> FALSE]]
    /\ stops = 0 /\ cut = FALSE /\ replayed = FALSE

-----------------------------------------------------------------------------
(* The commands *)

\* main() of a command: its request reaches the port the sidecar has bound.
\* Without a sidecar the connection is refused.
Ask(c) ==
    /\ call[c].pc = "new"
    /\ \E w \in BOOLEAN :
          call' = [call EXCEPT ![c].writes = w, ![c].pc = IF kpc = "down" THEN "end" ELSE "sent",
                               ![c].exit = IF kpc = "down" THEN 1 ELSE None]
    /\ UNCHANGED <<kpc, session, stopping, logins, job, stops>>

\* fetch(): 120 s without an answer, or a signal.  The request stays where it
\* is: in the backlog, or in the sidecar's hands.
GiveUp(c) ==
    /\ call[c].pc \in {"sent", "taken"} /\ ~call[c].gone
    /\ \E e \in {1, 130} : call' = [call EXCEPT ![c].gone = TRUE, ![c].exit = e]
    /\ UNCHANGED <<kpc, session, stopping, logins, job, stops>>

-----------------------------------------------------------------------------
(* serve() *)

Serving == kpc = "loop" /\ ~stopping

Start ==
    /\ kpc = "down" /\ kpc' = "loop" /\ session' = "none" /\ stopping' = FALSE
    /\ UNCHANGED <<logins, job, call, stops>>

\* Mutant of Lock: the lock is not asked for
LockNothing == Serving /\ session # "live" /\ kpc' = "login"

\* login(): login.lock without waiting, then config.json
Lock == Serving /\ session # "live" /\ llock = None /\ kpc' = "login"

BeginLogin ==
    /\ Lock
    /\ llock' = "serve" /\ shown' = code.config /\ session' = "none"
    /\ UNCHANGED <<stopping, code, job, call, stops, cut, replayed>>

\* kc.api.login(): Keeper takes the code it expects and replaces it
Login ==
    /\ kpc = "login"
    /\ \/ /\ shown = code.keeper /\ code.keeper < MaxLogin
          /\ code' = [code EXCEPT !.keeper = @ + 1]
          /\ kpc' = "save" /\ UNCHANGED <<llock, replayed>>
       \/ /\ shown # code.keeper
          /\ replayed' = (replayed \/ shown # 0)
          /\ llock' = None /\ kpc' = "wait" /\ UNCHANGED code
       \/ llock' = None /\ kpc' = "wait" /\ UNCHANGED <<code, replayed>>   \* unreachable
    /\ UNCHANGED <<session, stopping, shown, job, call, stops, cut>>

\* Commander stores the new code; then sync_down(), which may fail
Save ==
    /\ kpc = "save"
    /\ code' = [code EXCEPT !.config = shown + 1]
    /\ llock' = None
    /\ session' \in {"none", "live"}
    /\ kpc' = "wait"
    /\ UNCHANGED <<stopping, shown, job, call, stops, cut, replayed>>

\* server.handle_request(): the flag is looked at once more, then one request,
\* or none within a second.  Without a session it is refused (503).
Take ==
    /\ kpc \in {"loop", "wait"}
    /\ IF stopping THEN kpc' = "down" /\ UNCHANGED <<job, call>>
       ELSE \/ \E c \in Caller :
                 /\ call[c].pc = "sent"
                 /\ IF session = "live"
                    THEN kpc' = "sync" /\ job' = c /\ call' = [call EXCEPT ![c].pc = "taken"]
                    ELSE /\ kpc' = "loop" /\ UNCHANGED job
                         /\ call' = [call EXCEPT ![c].pc = "end", ![c].exit = IF call[c].gone THEN @ ELSE 1]
            \/ /\ kpc = "wait" /\ \A c \in Caller : call[c].pc # "sent"
               /\ kpc' = "loop" /\ UNCHANGED <<job, call>>
    /\ session' = IF stopping THEN "none" ELSE session
    /\ UNCHANGED <<stopping, logins, stops>>

\* dispatch(): the answer, which a client that is gone never reads
Answer(e) ==
    /\ call' = [call EXCEPT ![job].pc = "end", ![job].exit = IF call[job].gone THEN @ ELSE e]
    /\ job' = None /\ kpc' = "loop"

\* handle(): sync() if the last one is 10 s old; a failure kills the session
\* (400).  A read, and a write that is refused, end here.
SyncAndSelect ==
    /\ kpc = "sync"
    /\ \/ session' = "dead" /\ Answer(1)
       \/ UNCHANGED session /\ Answer(1)
       \/ ~call[job].writes /\ UNCHANGED session /\ Answer(0)
       \/ call[job].writes /\ kpc' = "write" /\ UNCHANGED <<session, job, call>>
    /\ UNCHANGED <<stopping, logins, stops>>

\* writing(): "anything after the first remote call may have reached Keeper",
\* so an error here is Uncertain (502, exit 2) whether or not it did
Write ==
    /\ kpc = "write"
    /\ \/ /\ call' = [call EXCEPT ![job].applied = TRUE] /\ kpc' = "confirm" /\ UNCHANGED job
       \/ Answer(2)
       \/ /\ call' = [call EXCEPT ![job].applied = TRUE, ![job].pc = "end",
                                  ![job].exit = IF call[job].gone THEN @ ELSE 2]
          /\ job' = None /\ kpc' = "loop"
    /\ UNCHANGED <<session, stopping, logins, stops>>

\* confirm(): a forced sync shows the change
ConfirmWrite ==
    /\ kpc = "confirm"
    /\ \/ UNCHANGED session /\ Answer(0)
       \/ UNCHANGED session /\ Answer(2)
       \/ session' = "dead" /\ Answer(2)
    /\ UNCHANGED <<stopping, logins, stops>>

\* the keep-alive sync of an idle session
KeepAlive ==
    /\ Serving /\ session = "live"
    /\ session' = "dead"
    /\ UNCHANGED <<kpc, stopping, logins, job, call, stops>>

-----------------------------------------------------------------------------
(* Signals, and the owner's shell *)

StopSignal ==
    /\ kpc # "down" /\ ~stopping /\ stops < MaxStop
    /\ stopping' = TRUE /\ stops' = stops + 1
    /\ UNCHANGED <<kpc, session, logins, job, call>>

\* os._exit() at the stop deadline, or SIGKILL: whatever was in progress is cut
\* off; callers whose connection breaks report a refusal (exit 1)
CutOff ==
    /\ kpc # "down"
    /\ stopping \/ stops < MaxStop
    /\ stops' = IF stopping THEN stops ELSE stops + 1
    /\ cut' = (cut \/ kpc = "save")
    /\ kpc' = "down" /\ session' = "none" /\ stopping' = FALSE /\ job' = None
    /\ llock' = IF llock = "serve" THEN None ELSE llock
    /\ call' = [c \in Caller |->
          IF call[c].pc \in {"sent", "taken"}
          THEN [call[c] EXCEPT !.pc = "end", !.gone = TRUE, !.exit = IF call[c].gone THEN @ ELSE 1]
          ELSE call[c]]
    /\ UNCHANGED <<code, shown, replayed>>

\* the sidecar has left its loop: connections nobody took are closed
Refuse(c) ==
    /\ kpc = "down" /\ call[c].pc = "sent"
    /\ call' = [call EXCEPT ![c].pc = "end", ![c].exit = IF call[c].gone THEN @ ELSE 1]
    /\ UNCHANGED <<kpc, session, stopping, logins, job, stops>>

\* bootstrap(): `keeper login` waits for the lock, and the owner logs in with
\* password and second factor; Commander writes the code and leaves
Shell ==
    /\ llock = None /\ code.keeper < MaxLogin
    /\ llock' = "shell"
    /\ code' = [code EXCEPT !.keeper = @ + 1]
    /\ UNCHANGED <<kpc, session, stopping, shown, job, call, stops, cut, replayed>>

ShellQuit ==
    /\ llock = "shell"
    /\ llock' = None
    /\ code' = [code EXCEPT !.config = code.keeper]
    /\ cut' = FALSE /\ replayed' = FALSE
    /\ UNCHANGED <<kpc, session, stopping, shown, job, call, stops>>

Loop == Start \/ BeginLogin \/ Login \/ Save \/ Take \/ SyncAndSelect \/ Write \/ ConfirmWrite

KeeperNext ==
    \/ \E c \in Caller : Ask(c) \/ GiveUp(c) \/ Refuse(c)
    \/ Loop \/ KeepAlive \/ StopSignal \/ CutOff \/ Shell \/ ShellQuit

\* Commander calls return or fail, or else the stop deadline fires
KeeperFairness ==
    /\ WF_keeperVars(CutOff /\ stopping)
    /\ WF_keeperVars(Take) /\ WF_keeperVars(Login \/ Save \/ SyncAndSelect \/ Write \/ ConfirmWrite)
    /\ WF_keeperVars(Start) /\ WF_keeperVars(\E c \in Caller : Refuse(c))

KeeperSpec == KeeperInit /\ [][KeeperNext]_keeperVars /\ KeeperFairness

-----------------------------------------------------------------------------
(* Properties *)

\* What a command reports is true: exit 0 of a write means the change is in
\* Keeper; exit 1 ("request refused") means it is not, unless the caller gave
\* up or was cut off before the sidecar answered; a change nobody is told of
\* and nobody gave up on is still being handled.
ReportHonest ==
    \A c \in Caller :
       /\ call[c].pc = "end" /\ call[c].exit = 0 /\ call[c].writes => call[c].applied
       /\ call[c].pc = "end" /\ call[c].exit = 1 /\ ~call[c].gone => ~call[c].applied
       /\ call[c].applied /\ call[c].pc # "end" => job = c

\* `keeper login` and the sidecar's own logins never overlap: the sidecar never
\* presents a clone code Keeper has already replaced, unless an earlier login
\* was cut off before config.json was written.
CloneCodeOnce == replayed => cut

\* Both of them: neither a caller nor Keeper is told what is not so.
ReportsHonest == ReportHonest /\ CloneCodeOnce

\* A sidecar told to stop ends, also when a Commander call blocks, and every
\* request is answered or refused: nobody waits for a sidecar that has left.
StopEnds ==
    /\ stopping ~> (kpc = "down")
    /\ \A c \in Caller : (call[c].pc = "sent") ~> (call[c].pc # "sent")
=============================================================================
