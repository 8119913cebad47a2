---------------------------- MODULE SeadexImport ----------------------------
(***************************************************************************)
(* The import job for SeaDexArr torrents (maintenance/files/               *)
(* seadexarr-import.py): a CronJob that takes one finished torrent a run,  *)
(* lets Sonarr import its files, and tags it seadexarr-imported or         *)
(* seadexarr-manual.  Runs do not overlap; one may die at any step, while  *)
(* Sonarr works on.  Sonarr, qBittorrent and the owner are external.       *)
(***************************************************************************)
EXTENDS Integers, FiniteSets

CONSTANTS
    Torrent,    \* 1..n: qBittorrent's order
    Series,     \* Series[t]: the series in t's tags, or None if not exactly one
    Files,      \* Files[t]: [eps, right, rejected] of each file, as Sonarr parses it
    Wanted,     \* Wanted[s]: the episodes of series s
    MaxDeath,   \* bound: runs that die or fail
    None

\* no command of Sonarr's has this for a status
ImportAssumption == None # "queued"

VARIABLES
    tor,        \* tor[t]: [st, tag]: absent, loading, finished, removed; open, done, manual
    have,       \* have[e]: how often episode e was imported (Sonarr keeps the last)
    ipc,        \* where the run stands; "off" between runs
    listed,     \* the torrent list of this run
    cur,        \* the torrent it handles
    picked,     \* the files to import
    command,    \* Sonarr's ManualImport: [status, files]
    verdict,    \* what the run knows: the command's status, then the tag
    deaths,
    cutOff      \* auxiliary: a run was over while Sonarr still imported

importVars == <<tor, have, ipc, listed, cur, picked, command, verdict, deaths, cutOff>>

Episode == UNION {Wanted[s] : s \in DOMAIN Wanted}
NoCommand == [status |-> None, files |-> {}]

ImportInit ==
    /\ tor = [t \in Torrent |-> [st |-> "absent", tag |-> "open"]]
    /\ have = [e \in Episode |-> 0]
    /\ ipc = "off" /\ listed = [t \in Torrent |-> [st |-> "absent", tag |-> "open"]]
    /\ cur = None /\ picked = {} /\ command = NoCommand /\ verdict = None
    /\ deaths = 0 /\ cutOff = FALSE

\* the run is over, whatever Sonarr still does
Off == /\ cutOff' = (cutOff \/ command.status = "queued")
       /\ ipc' = "off" /\ cur' = None /\ picked' = {} /\ verdict' = None
       /\ listed' = [t \in Torrent |-> [st |-> "absent", tag |-> "open"]]

\* is_open(), pending(): of the list, not of the torrent
IsOpen(t) == listed[t].st \in {"loading", "finished"} /\ listed[t].tag = "open"
Pending == {t \in Torrent : IsOpen(t) /\ listed[t].st = "finished"}

\* Mutant of OthersOpen: any other torrent of the series counts
OthersOpenAny(t) == {u \in Torrent \ {t} : listed[u].st # "absent" /\ Series[u] = Series[t]}

\* others_open(): finished or not
OthersOpen(t) == {u \in Torrent \ {t} : IsOpen(u) /\ Series[u] = Series[t]}

\* main(): qbt_torrents()
List ==
    /\ ipc = "off"
    /\ listed' = tor /\ ipc' = "take"
    /\ UNCHANGED <<tor, have, cur, picked, command, verdict, deaths, cutOff>>

\* todo[:1]; without work the run only counts the manual ones.  handle() sends
\* a torrent without its one series tag to manual.
Take ==
    /\ ipc = "take"
    /\ IF Pending = {} THEN Off
       ELSE LET t == CHOOSE x \in Pending : \A y \in Pending : x <= y IN
            /\ cur' = t
            /\ IF Series[t] = None THEN ipc' = "tag" /\ verdict' = "manual" ELSE ipc' = "select" /\ UNCHANGED verdict
            /\ UNCHANGED <<listed, picked, cutOff>>
    /\ UNCHANGED <<tor, have, command, deaths>>

\* filterExistingFiles=true: Sonarr leaves out the files it already imported
Existing(f) == f.right /\ f.eps # {} /\ \A e \in f.eps : have[e] > 0

\* a rejection of Sonarr's: its own reasons, or "Not an upgrade"
Rejected(f) == f.rejected \/ \E e \in f.eps : have[e] > 0

\* select_files(): no rejection, the tagged series, an episode, and no other
\* file of the batch on it
Selected(items) ==
    {f \in items : ~Rejected(f) /\ f.right /\ f.eps # {} /\ \A g \in items \ {f} : f.eps \cap g.eps = {}}

\* the two manualimport calls
Select ==
    /\ ipc = "select" /\ tor[cur].st = "finished"
    /\ picked' = Selected({f \in Files[cur] : ~Existing(f)})
    /\ ipc' = IF picked' = {} THEN "judge" ELSE "submit"
    /\ UNCHANGED <<tor, have, listed, cur, command, verdict, deaths, cutOff>>

\* POST command; Sonarr works through its queue one command at a time
Submit ==
    /\ ipc = "submit" /\ command.status # "queued"
    /\ command' = [status |-> "queued", files |-> picked] /\ ipc' = "wait"
    /\ UNCHANGED <<tor, have, listed, cur, picked, verdict, deaths, cutOff>>

\* wait_command(): the status it ends with, or "timeout" after IMPORT_WAIT
Wait ==
    /\ ipc = "wait"
    /\ verdict' = IF command.status = "queued" THEN "timeout" ELSE command.status
    /\ ipc' = "judge"
    /\ UNCHANGED <<tor, have, listed, cur, picked, command, deaths, cutOff>>

SeriesMissing(s) == {e \in Wanted[s] : have[e] = 0}

\* final_tag()
FinalTag(status, missing, others) ==
    IF status \notin {None, "completed"} THEN "manual"
    ELSE IF missing = {} \/ others # {} THEN "done" ELSE "manual"

\* series_missing() and final_tag(), with the list of the start of the run
Judge ==
    /\ ipc = "judge"
    /\ verdict' = FinalTag(verdict, SeriesMissing(Series[cur]), OthersOpen(cur)) /\ ipc' = "tag"
    /\ UNCHANGED <<tor, have, listed, cur, picked, command, deaths, cutOff>>

\* qbt_tag(): a hash that is gone is not an error
TagIt ==
    /\ ipc = "tag"
    /\ tor' = IF tor[cur].st = "removed" THEN tor ELSE [tor EXCEPT ![cur].tag = verdict]
    /\ Off
    /\ UNCHANGED <<have, command, deaths>>

\* exit 2: the torrent is gone, so that its folder cannot be listed
Gone ==
    /\ ipc = "select" /\ tor[cur].st = "removed"
    /\ Off
    /\ UNCHANGED <<tor, have, command, deaths>>

\* exit 2 as a call fails, the Job's deadline, a node that goes away
Dies ==
    /\ ipc # "off" /\ deaths < MaxDeath
    /\ deaths' = deaths + 1
    /\ Off
    /\ UNCHANGED <<tor, have, command>>

-----------------------------------------------------------------------------
(* Sonarr, qBittorrent and the owner (external) *)

Cap(n) == IF n < 2 THEN n + 1 ELSE 2

ImportFile ==
    /\ command.status = "queued"
    /\ \/ \E f \in command.files :
             /\ have' = [e \in Episode |-> IF e \in f.eps THEN Cap(have[e]) ELSE have[e]]
             /\ command' = [status |-> IF command.files = {f} THEN "completed" ELSE "queued", files |-> command.files \ {f}]
       \/ command' = [status |-> "failed", files |-> {}] /\ UNCHANGED have
    /\ UNCHANGED <<tor, ipc, listed, cur, picked, verdict, deaths, cutOff>>

Add(t) == /\ tor[t].st = "absent" /\ tor' = [tor EXCEPT ![t].st = "loading"]
          /\ UNCHANGED <<have, ipc, listed, cur, picked, command, verdict, deaths, cutOff>>
Finish(t) == /\ tor[t].st = "loading" /\ tor' = [tor EXCEPT ![t].st = "finished"]
             /\ UNCHANGED <<have, ipc, listed, cur, picked, command, verdict, deaths, cutOff>>
\* deleted before or after it was judged
Remove(t) == /\ tor[t].st \in {"loading", "finished"} /\ tor' = [tor EXCEPT ![t].st = "removed"]
             /\ UNCHANGED <<have, ipc, listed, cur, picked, command, verdict, deaths, cutOff>>

RunStep == List \/ Take \/ Select \/ Submit \/ Wait \/ Judge \/ TagIt \/ Gone
World == ImportFile \/ \E t \in Torrent : Add(t) \/ Finish(t) \/ Remove(t)
ImportNext == RunStep \/ Dies \/ World

\* the CronJob starts runs for ever, and Sonarr works its queue off
ImportFairness == WF_importVars(RunStep) /\ WF_importVars(ImportFile)
ImportSpec == ImportInit /\ [][ImportNext]_importVars /\ ImportFairness

-----------------------------------------------------------------------------
(* Properties *)

\* A series that still has gaps when the last of its torrents was judged has
\* a torrent tagged seadexarr-manual, so the alert fires; only a torrent that
\* was deleted, which a judgement may have waited for, can hide them.
GapsReported ==
    \A s \in DOMAIN Wanted :
        LET mine == {t \in Torrent : Series[t] = s /\ tor[t].st # "absent"} IN
        mine # {} /\ (\A t \in mine : tor[t].st = "finished" /\ tor[t].tag # "open") /\ SeriesMissing(s) # {}
            => \E t \in mine : tor[t].tag = "manual"

\* "nothing is re-imported": an episode is written once, over runs that die
\* and torrents that share it, unless a run was over while Sonarr still
\* imported: it died, a poll failed, or Sonarr outlived IMPORT_WAIT.
ImportedOnce == \A e \in Episode : have[e] <= 1 \/ cutOff

\* What the owner and Sonarr may rely on, together.
ImportSound == GapsReported /\ ImportedOnce

\* A finished torrent is judged or removed, if no more than MaxDeath runs
\* fail: one whose calls always fail is taken first by every run and keeps
\* the ones behind it waiting.
TorrentJudged == \A t \in Torrent : (tor[t].st = "finished") ~> (tor[t].st = "removed" \/ tor[t].tag # "open")
=============================================================================
