---------------------------- MODULE Autotranslate ----------------------------
(***************************************************************************)
(* bazarr-autotranslate (2-k3s/08.servarr/bazarr-autotranslate/files/      *)
(* main.py): two coroutines of one event loop over one dict.  The scanner  *)
(* asks Bazarr what is missing, counts provider search rounds and marks    *)
(* items ready; the worker sends one ready item at a time to be translated *)
(* and waits for Bazarr's job.  A step runs from one await to the next.    *)
(*                                                                         *)
(* A tick is an hour or so: a call and a 30 s poll take less than one.  An *)
(* entry carries the age of its ts rather than the ts, up to AgeCap, past  *)
(* which no comparison tells ages apart.  The ts of a ready entry is never *)
(* read, so its age stays 0.  Whether an item is missing, and whether it   *)
(* has a base-language subtitle, is Bazarr's to say anew at each scan.     *)
(***************************************************************************)
EXTENDS Integers, Sequences, FiniteSets

CONSTANTS
    Items,         \* the keys of state: an episode or a movie, and a language
    Episodes,      \* the keys that item_key() starts with "s"
    Size,          \* file_size of each item's base-language subtitle
    SearchRounds,  \* SEARCH_ROUNDS_BEFORE_TRANSLATE
    RoundSpacing,  \* ROUND_SPACING_HOURS
    Grace,         \* TRANSLATE_GRACE_HOURS
    JobTimeout,    \* TRANSLATION_JOB_TIMEOUT_HOURS
    Pause,         \* FAILURE_PAUSE_MINUTES
    MaxLag,        \* bound: ticks that one scan's searches take
    MaxFaults,     \* bound: crashes, restarts of Bazarr, failed saves, others' jobs
    Other,         \* owner of a translation that this program did not ask for
    None

AgeCap == (IF Grace > RoundSpacing THEN Grace ELSE RoundSpacing) + MaxLag

Entry == [phase : {"search", "ready", "translate"}, rounds : 0..SearchRounds, age : 0..AgeCap]

ASSUME AutotranslateAssumption ==
    /\ Episodes \subseteq Items
    /\ Size \in [Items -> Nat]
    /\ {SearchRounds, RoundSpacing, Grace, JobTimeout, Pause} \subseteq Nat \ {0}
    /\ {MaxLag, MaxFaults} \subseteq Nat
    /\ Other \notin Items
    /\ None \notin Items \union Entry \union Nat

VARIABLES
    state,     \* the dict; None: no such key
    disk,      \* state.json
    scan,      \* where the scanner stands, and what it holds across its awaits
    worker,    \* where the worker stands, and what it holds across its awaits
    jobs,      \* Bazarr's translation jobs, oldest first
    reset,     \* Bazarr has restarted since the worker's last look: ids start again
    since,     \* auxiliary: ticks since an item's attempt was recorded; None from Grace on
    dropped,   \* auxiliary: items in since, or being sent, that were dropped during the attempt
    failedFor, \* auxiliary: ticks since the last failed attempt ended
    excused,   \* auxiliary: that attempt's save failed, or the process has died since
    searched,  \* auxiliary: how many searches for an item have succeeded
    faults

vars == <<state, disk, scan, worker, jobs, reset, since, dropped, failedFor, excused, searched, faults>>

bazarr == <<jobs, reset>>
ghosts == <<since, dropped, failedFor, excused, searched>>

Kinds == {"episodes", "movies"}
OfKind(kind) == IF kind = "episodes" THEN Episodes ELSE Items \ Episodes

Job == [of : Items \union {Other}, status : {"running", "completed", "failed"}, new : BOOLEAN]

\* What a new item starts with: its ts of 0 is older than any spacing
NewEntry == [phase |-> "search", rounds |-> 0, age |-> AgeCap]

Ready(s) == {i \in Items : s[i] # None /\ s[i].phase = "ready"}
UnderWay(i) == worker.at \in {"send", "poll"} /\ worker.key = i
AllEnded == \A n \in DOMAIN jobs : jobs[n].status # "running"
Fault == faults < MaxFaults /\ faults' = faults + 1

\* Waiting for the wanted list of kind; for episodes, after the sleep between scans
AtScan(kind) == [at |-> "wanted", kind |-> kind, todo |-> {}, item |-> None, held |-> None, lag |-> 0]
AtPick == [at |-> "pick", key |-> None, rounds |-> 0, time |-> 0]

-----------------------------------------------------------------------------
Init ==
    /\ state = [i \in Items |-> None]
    /\ disk = state
    /\ scan = AtScan("episodes")
    /\ worker = AtPick
    /\ jobs = <<>>
    /\ reset = FALSE
    /\ since = [i \in Items |-> None]
    /\ dropped = {}
    /\ failedFor = Pause
    /\ excused = FALSE
    /\ searched = [i \in Items |-> 0]
    /\ faults = 0

Older(n, cap) == IF n < cap THEN n + 1 ELSE n
Aged(e) == IF e = None \/ e.phase = "ready" THEN e ELSE [e EXCEPT !.age = Older(@, AgeCap)]
AgedAll(s) == [i \in Items |-> Aged(s[i])]

\* Neither coroutine sleeps past the end of its wait by a tick
Tick ==
    /\ \/ worker.at \in {"pick", "look"}
       \/ worker.at = "poll" /\ worker.time < JobTimeout
       \/ worker.at = "pause" /\ worker.time < Pause
    /\ scan.at = "search" => scan.lag < MaxLag
    /\ state' = AgedAll(state)
    /\ disk' = AgedAll(disk)
    /\ scan' = IF scan.at = "search"
               THEN [scan EXCEPT !.lag = @ + 1, !.held = Aged(@)] ELSE scan
    /\ worker' = IF worker.at \in {"poll", "pause"} THEN [worker EXCEPT !.time = @ + 1] ELSE worker
    /\ since' = [i \in Items |-> IF since[i] \in {None, Grace - 1} THEN None ELSE since[i] + 1]
    /\ dropped' = {i \in dropped : since'[i] # None \/ UnderWay(i)}
    /\ failedFor' = Older(failedFor, Pause)
    /\ excused' = (excused /\ failedFor' < Pause)
    /\ UNCHANGED <<bazarr, searched, faults>>

-----------------------------------------------------------------------------
(* The scanner: main(), scan_and_process_*(), process() *)

\* What follows a scan of kind that did not raise
AfterScan(kind) == AtScan(IF kind = "episodes" THEN "movies" ELSE "episodes")

\* save_state(): a temporary file renamed over state.json.  If it raises, the
\* dict keeps what it has and main() starts over without the other kind.
SaveScan(s) ==
    /\ state' = s
    /\ \/ /\ disk' = s
          /\ scan' = AfterScan(scan.kind)
          /\ UNCHANGED faults
       \/ /\ Fault
          /\ scan' = AtScan("episodes")
          /\ UNCHANGED disk

Due(e, lag) == e.phase = "search" /\ e.rounds < SearchRounds /\ e.age - lag >= RoundSpacing

\* An entry that needs no search now: it waits for its spacing or its grace, or
\* it is ready, again or for the first time
Judged(e, lag) ==
    IF \/ e.phase = "translate" /\ e.age - lag < Grace
       \/ e.phase = "search" /\ e.rounds < SearchRounds
    THEN e
    ELSE [phase |-> "ready", rounds |-> e.rounds, age |-> 0]

\* The loop over the candidates in todo, with s for the dict, up to the next
\* search or to the end
Continue(s, todo, lag) ==
    LET entry(i) == IF s[i] = None THEN NewEntry ELSE s[i]
        calm == {i \in todo : ~Due(entry(i), lag)}
    IN  \E done \in SUBSET calm :
          LET passed == [i \in Items |-> IF i \in done THEN Judged(entry(i), lag) ELSE s[i]]
          IN  \/ done = todo /\ SaveScan(passed)
              \/ \E i \in todo \ calm :
                   /\ state' = passed
                   /\ scan' = [scan EXCEPT !.at = "search", !.todo = todo \ (done \union {i}),
                                           !.item = i, !.held = entry(i), !.lag = lag]
                   /\ UNCHANGED <<disk, faults>>

\* The wanted list did not come: this kind is left alone
WantedFails ==
    /\ scan.at = "wanted"
    /\ scan' = AfterScan(scan.kind)
    /\ UNCHANGED <<state, disk, worker, bazarr, ghosts, faults>>

\* The wanted list: entries of this kind that are not on it are dropped; the
\* metadata is asked for unless the list is empty
WantedComes ==
    /\ scan.at = "wanted"
    /\ \E wanted \in SUBSET OfKind(scan.kind) :
         LET gone == OfKind(scan.kind) \ wanted
             kept == [i \in Items |-> IF i \in gone THEN None ELSE state[i]]
         IN  /\ IF wanted = {}
                THEN SaveScan(kept)
                ELSE /\ state' = kept
                     /\ scan' = [scan EXCEPT !.at = "meta", !.todo = wanted]
                     /\ UNCHANGED <<disk, faults>>
             /\ since' = [i \in Items |-> IF i \in gone THEN None ELSE since[i]]
             /\ dropped' = (dropped \ gone) \union {i \in gone : UnderWay(i)}
    /\ UNCHANGED <<worker, bazarr, failedFor, excused, searched>>

\* The metadata, or nothing: the candidates are the items that have a
\* base-language subtitle.  The clock is read here, once for the whole loop.
MetadataComes ==
    /\ scan.at = "meta"
    /\ \E candidates \in SUBSET scan.todo : Continue(state, candidates, 0)
    /\ UNCHANGED <<worker, bazarr, ghosts>>

\* request_search() is back: the entry held across it is written to the dict,
\* dated when the loop began, and the loop goes on
SearchReturns ==
    /\ scan.at = "search"
    /\ \E ok \in BOOLEAN :
         LET counted == [scan.held EXCEPT !.rounds = @ + 1, !.age = scan.lag]
         IN  /\ Continue([state EXCEPT ![scan.item] = IF ok THEN counted ELSE scan.held],
                         scan.todo, scan.lag)
             /\ searched' = [searched EXCEPT ![scan.item] = IF ok THEN Older(@, SearchRounds) ELSE @]
    /\ UNCHANGED <<worker, bazarr, since, dropped, failedFor, excused>>

-----------------------------------------------------------------------------
(* The worker: translation_worker() *)

\* The smallest ready item; then Bazarr's jobs are asked for
Pick ==
    /\ worker.at = "pick"
    /\ \E i \in Ready(state) :
         /\ \A j \in Ready(state) : Size[i] <= Size[j]
         /\ worker' = [worker EXCEPT !.at = "look", !.key = i]
    /\ UNCHANGED <<state, disk, scan, bazarr, ghosts, faults>>

\* get_idle_translation_jobs() gave None: the call failed, or a translation is
\* still pending or running.  Sleep, and pick again.
LookFails ==
    /\ worker.at = "look"
    /\ worker' = AtPick
    /\ UNCHANGED <<state, disk, scan, bazarr, ghosts, faults>>

\* The ids seen by a look are what later jobs are told from; of the jobs that
\* ended before it, how the newest ended is kept
Seen ==
    IF jobs = <<>> THEN <<>>
    ELSE <<[of |-> Other, status |-> jobs[Len(jobs)].status, new |-> FALSE]>>

\* The picked item is sent if it is ready still; the dict may have changed while
\* the worker looked
SendOrRepick ==
    IF worker.key \in Ready(state)
    THEN /\ worker' = [worker EXCEPT !.at = "send", !.rounds = state[worker.key].rounds]
         /\ since' = [since EXCEPT ![worker.key] = None]
         /\ dropped' = dropped \ {worker.key}
    ELSE worker' = AtPick /\ UNCHANGED <<since, dropped>>

\* Mutant of LookIdle: running translations are not waited for
LookAnyway ==
    /\ worker.at = "look"
    /\ jobs' = [n \in DOMAIN jobs |-> [jobs[n] EXCEPT !.new = FALSE]]
    /\ reset' = FALSE
    /\ SendOrRepick
    /\ UNCHANGED <<state, disk, scan, failedFor, excused, searched, faults>>

\* No translation is pending or running
LookIdle ==
    /\ worker.at = "look"
    /\ AllEnded
    /\ jobs' = Seen
    /\ reset' = FALSE
    /\ SendOrRepick
    /\ UNCHANGED <<state, disk, scan, failedFor, excused, searched, faults>>

\* A translation enters Bazarr's queue; after a restart its id may be one that
\* the worker has seen
Queued(owner) ==
    \E new \in {TRUE} \union (IF reset THEN {FALSE} ELSE {}) :
        jobs' = Append(jobs, [of |-> owner, status |-> "running", new |-> new])

\* The end of an attempt as the worker records it, with the age that the entry gets
Record(result, age) ==
    LET key == worker.key
        failed == result = "failed"
        ended == [phase |-> "translate", rounds |-> worker.rounds, age |-> age]
        next == IF failed THEN [AtPick EXCEPT !.at = "pause"] ELSE AtPick
    IN  /\ failedFor' = IF failed THEN 0 ELSE failedFor
        /\ \/ /\ state[key] = None
              /\ worker' = next
              /\ excused' = (excused /\ ~failed)
              /\ UNCHANGED <<state, disk, since, faults>>
           \/ /\ state[key] # None
              /\ state' = [state EXCEPT ![key] = ended]
              /\ disk' = state'
              /\ worker' = next
              /\ since' = [since EXCEPT ![key] = 0]
              /\ excused' = (excused /\ ~failed)
              /\ UNCHANGED faults
           \/ /\ state[key] # None
              /\ state' = [state EXCEPT ![key] = ended]
              /\ Fault
              /\ worker' = AtPick
              /\ excused' = (excused \/ failed)
              /\ UNCHANGED <<disk, since>>
        /\ dropped' = {i \in dropped : since'[i] # None}
        /\ UNCHANGED <<scan, searched>>

\* Mutant of Finish: an item that is no longer wanted ends without the pause
FinishGoneUnpaused(result) ==
    \/ state[worker.key] # None /\ Record(result, 0)
    \/ /\ state[worker.key] = None
       /\ failedFor' = IF result = "failed" THEN 0 ELSE failedFor
       /\ excused' = (excused /\ result # "failed")
       /\ worker' = AtPick
       /\ dropped' = dropped \ {worker.key}
       /\ UNCHANGED <<state, disk, scan, since, searched, faults>>

\* The attempt is over: the entry, if it is there still, is dated and saved, and
\* a failure pauses the worker.  If the save raises, the iteration ends at once,
\* with a sleep of one poll in the place of the pause.
Finish(result) == Record(result, 0)

\* The translate PATCH: Bazarr may or may not have queued the job, and the
\* answer may or may not be a good one
PatchReturns ==
    /\ worker.at = "send"
    /\ \E queued, ok \in BOOLEAN :
         /\ IF queued THEN Queued(worker.key) ELSE UNCHANGED jobs
         /\ IF ok
            THEN /\ worker' = [worker EXCEPT !.at = "poll"]
                 /\ UNCHANGED <<state, disk, scan, ghosts, faults>>
            ELSE Finish("failed")
    /\ UNCHANGED reset

\* The newest of the jobs that came after the look before the send
Outcome ==
    LET newJobs == SelectSeq(jobs, LAMBDA j : j.new)
    IN  IF newJobs # <<>> /\ newJobs[Len(newJobs)].status = "completed" THEN "completed" ELSE "failed"

\* A poll in time that finds no translation pending or running
PollIdle ==
    /\ worker.at = "poll"
    /\ worker.time < JobTimeout
    /\ AllEnded
    /\ Finish(Outcome)
    /\ UNCHANGED bazarr

PollTimesOut ==
    /\ worker.at = "poll"
    /\ worker.time >= JobTimeout
    /\ Finish("failed")
    /\ UNCHANGED bazarr

PauseEnds ==
    /\ worker.at = "pause"
    /\ worker.time >= Pause
    /\ worker' = AtPick
    /\ UNCHANGED <<state, disk, scan, bazarr, ghosts, faults>>

-----------------------------------------------------------------------------
(* Bazarr, and the death of the process *)

JobEnds ==
    /\ \E n \in DOMAIN jobs, result \in {"completed", "failed"} :
         /\ jobs[n].status = "running"
         /\ jobs' = [jobs EXCEPT ![n].status = result]
    /\ UNCHANGED <<state, disk, scan, worker, reset, ghosts, faults>>

\* Somebody else asks Bazarr for a translation
OtherJob ==
    /\ Fault
    /\ Queued(Other)
    /\ UNCHANGED <<state, disk, scan, worker, reset, ghosts>>

\* Bazarr's queue is in memory and its ids start again
BazarrRestarts ==
    /\ Fault
    /\ jobs' = <<>>
    /\ reset' = TRUE
    /\ UNCHANGED <<state, disk, scan, worker, ghosts>>

\* A crash, or a signal, whose handler leaves by sys.exit(): nothing is saved.
\* The next process loads state.json; worker and scanner start together.
Dies ==
    /\ Fault
    /\ state' = disk
    /\ scan' = AtScan("episodes")
    /\ worker' = AtPick
    /\ excused' = (failedFor < Pause)
    /\ UNCHANGED <<disk, bazarr, since, dropped, failedFor, searched>>

ScanNext == WantedFails \/ WantedComes \/ MetadataComes \/ SearchReturns
WorkerNext == Pick \/ LookFails \/ LookIdle \/ PatchReturns \/ PollIdle \/ PollTimesOut \/ PauseEnds

Next == Tick \/ ScanNext \/ WorkerNext \/ JobEnds \/ OtherJob \/ BazarrRestarts \/ Dies

Spec == Init /\ [][Next]_vars

-----------------------------------------------------------------------------
TypeOK ==
    /\ state \in [Items -> Entry \union {None}]
    /\ disk \in [Items -> Entry \union {None}]
    /\ scan \in [at : {"wanted", "meta", "search"}, kind : Kinds, todo : SUBSET Items,
                 item : Items \union {None}, held : Entry \union {None}, lag : 0..MaxLag]
    /\ worker \in [at : {"pick", "look", "send", "poll", "pause"}, key : Items \union {None},
                   rounds : 0..SearchRounds, time : 0..(JobTimeout + Pause)]
    /\ jobs \in Seq(Job)
    /\ reset \in BOOLEAN
    /\ since \in [Items -> 0..(Grace - 1) \union {None}]
    /\ dropped \subseteq Items
    /\ failedFor \in 0..Pause
    /\ excused \in BOOLEAN
    /\ searched \in [Items -> 0..SearchRounds]
    /\ faults \in 0..MaxFaults

\* One file at a time: whatever was lost, timed out or restarted, Bazarr never
\* has two translations of this program pending or running
OneAtATime ==
    \A m, n \in DOMAIN jobs :
        jobs[m].of # Other /\ jobs[n].of # Other
        /\ jobs[m].status = "running" /\ jobs[n].status = "running" => m = n

Sends(i) == worker.at = "look" /\ worker'.at = "send" /\ worker'.key = i

\* "Retry still-wanted items 24 hours after an attempt ends", without exception
RetryGrace == [][\A i \in Items : Sends(i) => since[i] = None]_vars

\* An item whose attempt is recorded, and that was on the wanted lists during
\* the attempt and since, is not sent again before the grace has passed
RetryGraceHeld == [][\A i \in Items : Sends(i) => since[i] = None \/ i \in dropped]_vars

\* No item is sent before its provider searches: as many have succeeded as the
\* configuration asks for
SearchedBeforeSend == [][\A i \in Items : Sends(i) => searched[i] = SearchRounds]_vars

\* After a failed attempt nothing is sent for the pause, unless that attempt's
\* save failed or the process was restarted since
PauseHeld == [][\A i \in Items : Sends(i) => failedFor = Pause \/ excused]_vars

\* Bazarr has one job of this program at most, whatever is lost or restarted
\* (worker, submit).
QueueSound == TypeOK /\ OneAtATime

\* What precedes a send, across restarts and failed saves: the searches, the grace
\* after an attempt and the pause after a failed one (worker, scan).
SendsInOrder == RetryGraceHeld /\ SearchedBeforeSend /\ PauseHeld
=============================================================================
