---------------------------- MODULE RankingCache ----------------------------
(***************************************************************************)
(* How the vpn-agent learns the ranking (images/airvpn-bluetit/agent.py):  *)
(* the RankingReader daemon, the snapshot it publishes, the cache in       *)
(* memory and on the pod's emptyDir that it fills, and the control thread  *)
(* that reads snapshot, then cache, then nothing (read_ranking,            *)
(* cached_ranking, load_cache).                                            *)
(*                                                                         *)
(* A ranking is the time it was generated; it is usable while its age is   *)
(* at most RankingTTL.  The rows do not matter here.  cache_lock is a      *)
(* variable, and what happens under it is several steps, so that the lock  *)
(* is what keeps them together.  A read of the source may block for ever:  *)
(* the reader then takes no further step.                                  *)
(***************************************************************************)
EXTENDS Integers

CONSTANTS
    RankingTTL,  \* ttl_seconds of the ranking document
    MaxNow,      \* bound: the last tick explored
    MaxCrashes,  \* bound: how often the agent may die
    None

ASSUME CacheAssumption ==
    /\ RankingTTL \in Nat \ {0}
    /\ MaxNow \in Nat
    /\ MaxCrashes \in Nat
    /\ None \notin Nat \cup {"reader", "control"}

VARIABLES
    now,       \* wall clock
    source,    \* ranking.json as the scorer left it; None: missing or malformed
    newest,    \* the newest ranking the scorer ever published
    reader,    \* where RankingReader._run stands
    doc,       \* what it has read in this poll
    snapshot,  \* RankingReader._snapshot
    mem,       \* Agent.cached_payload
    disk,      \* the cache file
    lock,      \* Agent.cache_lock
    control,   \* where the control thread stands
    parsed,    \* the cache file as the control thread read it
    used,      \* the ranking last handed to the agent, and when; None: no ranking
    adopted,   \* auxiliary: what the reader last put in memory, in this process
    written,   \* auxiliary: what the reader last wrote to disk
    unsaved,   \* auxiliary: an adoption made before load_cache(), its write failed
    crashes    \* how often the process has died

vars == <<now, source, newest, reader, doc, snapshot, mem, disk, lock, control, parsed,
          used, adopted, written, unsaved, crashes>>

shared == <<now, source, newest, crashes>>
readerVars == <<reader, doc, snapshot, adopted, written, unsaved>>
controlVars == <<control, parsed, used>>

\* parse_ranking(): present, and past its TTL it is absent, not merely old
Fresh(r) == r # None /\ now - r <= RankingTTL

Up == control # "down"

-----------------------------------------------------------------------------
Init ==
    /\ now = 0
    /\ source = None /\ newest = 0
    /\ reader = "off" /\ doc = None /\ snapshot = None
    /\ mem = None /\ disk = None /\ lock = None
    /\ control = "down" /\ parsed = None /\ used = None
    /\ adopted = None /\ written = None /\ unsaved = None
    /\ crashes = 0

Tick ==
    /\ now < MaxNow
    /\ now' = now + 1
    /\ UNCHANGED <<source, newest, crashes, mem, disk, lock, readerVars, controlVars>>

\* The scorer publishes a new measurement, or the file is lost or spoilt, or the
\* last one is there again
SourceChanges ==
    /\ source' \in {now, newest, None} \ {source}
    /\ newest' = IF source' = None THEN newest ELSE source'
    /\ UNCHANGED <<now, crashes, mem, disk, lock, readerVars, controlVars>>

-----------------------------------------------------------------------------
(* The reader daemon *)

\* One poll: missing and malformed files give no document.  Only a fresh one is
\* adopted, unless close() came first; a stale one is published for the age
\* metric.
ReaderReads ==
    /\ reader = "poll"
    /\ doc' = source
    /\ reader' = IF ~Fresh(source) THEN "publish"
                 ELSE IF control = "closing" THEN "off" ELSE "adopt"
    /\ UNCHANGED <<shared, snapshot, adopted, written, unsaved, mem, disk, lock, controlVars>>

\* Mutant of ReaderLocks: the lock is taken before the poll, and so is held by a
\* reader that hangs in the source
ReaderLocksForPoll ==
    /\ \/ reader = "poll" /\ lock = None /\ lock' = "reader"
       \/ reader = "adopt" /\ lock = "reader" /\ UNCHANGED lock
    /\ reader' = IF reader = "adopt" THEN "write" ELSE "poll"
    /\ UNCHANGED <<shared, doc, snapshot, adopted, written, unsaved, mem, disk, controlVars>>

\* _adopt_fresh_ranking(): file, then memory, under cache_lock
ReaderLocks ==
    /\ reader = "adopt"
    /\ lock = None
    /\ lock' = "reader"
    /\ reader' = "write"
    /\ UNCHANGED <<shared, doc, snapshot, adopted, written, unsaved, mem, disk, controlVars>>

\* _write_cache_locked(): replaced as a whole, or an OSError that is only logged
ReaderWrites ==
    /\ reader = "write"
    /\ \/ disk' = doc /\ written' = doc
       \/ UNCHANGED <<disk, written>>
    /\ reader' = "remember"
    /\ UNCHANGED <<shared, doc, snapshot, adopted, unsaved, mem, lock, controlVars>>

ReaderRemembers ==
    /\ reader = "remember"
    /\ mem' = doc
    /\ adopted' = doc
    /\ unsaved' = IF control = "boot" /\ written # doc THEN doc ELSE None
    /\ lock' = None
    /\ reader' = "publish"
    /\ UNCHANGED <<shared, doc, snapshot, written, disk, controlVars>>

ReaderPublishes ==
    /\ reader = "publish" /\ control # "closing"
    /\ snapshot' = doc
    /\ doc' = None
    /\ reader' = "poll"
    /\ UNCHANGED <<shared, adopted, written, unsaved, mem, disk, lock, controlVars>>

\* shutdown() woke it, or it had not yet published
ReaderStops ==
    /\ reader \in {"poll", "publish"} /\ control = "closing"
    /\ doc' = None
    /\ reader' = "off"
    /\ UNCHANGED <<shared, snapshot, adopted, written, unsaved, mem, disk, lock, controlVars>>

-----------------------------------------------------------------------------
(* The control thread *)

\* main() serves the metrics, then run() calls load_cache() and starts the reader
AgentStarts ==
    /\ control = "down"
    /\ control' = "boot"
    /\ UNCHANGED <<shared, mem, disk, lock, readerVars, parsed, used>>

\* A scrape asks for the age of the snapshot, and whoever asks starts the reader,
\* if it is before run() has come to load_cache()
ScrapeStartsReader ==
    /\ Up /\ control # "closing"
    /\ reader = "off"
    /\ reader' = "poll"
    /\ UNCHANGED <<shared, doc, snapshot, adopted, written, unsaved, mem, disk, lock, controlVars>>

\* candidates() and boot_check(): read_ranking() revalidates the snapshot now
UsesSnapshot ==
    /\ control = "idle"
    /\ Fresh(snapshot)
    /\ used' = [gen |-> snapshot, at |-> now]
    /\ UNCHANGED <<shared, mem, disk, lock, readerVars, control, parsed>>

\* ... and without a usable one turns to the cache
NeedsCache ==
    /\ control = "idle"
    /\ ~Fresh(snapshot)
    /\ control' = "wait"
    /\ UNCHANGED <<shared, mem, disk, lock, readerVars, parsed, used>>

\* Mutant of TakesLock: read, judge and discard without the reader's lock
TakesNoLock ==
    /\ control \in {"boot", "wait"}
    /\ control' = IF control = "boot" \/ mem = None THEN "load" ELSE "check"
    /\ UNCHANGED <<shared, mem, disk, lock, readerVars, parsed, used>>

\* cached_ranking(), and load_cache() at boot, enter their locked block
TakesLock ==
    /\ control \in {"boot", "wait"}
    /\ lock = None
    /\ lock' = "control"
    /\ control' = IF control = "boot" \/ mem = None THEN "load" ELSE "check"
    /\ UNCHANGED <<shared, mem, disk, readerVars, parsed, used>>

\* Every exit from the locked block; the first one starts the reader if no scrape has
Leave ==
    /\ lock' = None
    /\ control' = "idle"
    /\ reader' = IF reader = "off" THEN "poll" ELSE reader

\* cached_ranking(): the copy in memory, while its lease lasts
UsesMemory ==
    /\ control = "check"
    /\ Fresh(mem)
    /\ used' = [gen |-> mem, at |-> now]
    /\ Leave
    /\ UNCHANGED <<shared, mem, disk, doc, snapshot, adopted, written, unsaved, parsed>>

MemoryExpired ==
    /\ control = "check"
    /\ ~Fresh(mem)
    /\ control' = "discard"
    /\ UNCHANGED <<shared, mem, disk, lock, readerVars, parsed, used>>

\* _load_cache_locked(): read the file, then judge what was read
ReadsFile ==
    /\ control = "load"
    /\ parsed' = disk
    /\ control' = "judge"
    /\ UNCHANGED <<shared, mem, disk, lock, readerVars, used>>

NoFile ==
    /\ control = "judge"
    /\ parsed = None
    /\ mem' = None
    /\ used' = None
    /\ Leave
    /\ UNCHANGED <<shared, disk, doc, snapshot, adopted, written, unsaved, parsed>>

AdoptsFile ==
    /\ control = "judge"
    /\ Fresh(parsed)
    /\ mem' = parsed
    /\ used' = [gen |-> parsed, at |-> now]
    /\ parsed' = None
    /\ Leave
    /\ UNCHANGED <<shared, disk, doc, snapshot, adopted, written, unsaved>>

FileExpired ==
    /\ control = "judge"
    /\ parsed # None /\ ~Fresh(parsed)
    /\ parsed' = None
    /\ control' = "discard"
    /\ UNCHANGED <<shared, mem, disk, lock, readerVars, used>>

\* _discard_cache_locked(): memory and file; an unlink that fails is only logged
Discards ==
    /\ control = "discard"
    /\ mem' = None
    /\ disk' \in {None, disk}
    /\ used' = None
    /\ Leave
    /\ UNCHANGED <<shared, doc, snapshot, adopted, written, unsaved, parsed>>

\* main(): run() was left by an exception, and close() tells the reader to stop
\* without waiting for it
Close ==
    /\ control = "idle"
    /\ crashes < MaxCrashes
    /\ control' = "closing"
    /\ UNCHANGED <<shared, mem, disk, lock, readerVars, parsed, used>>

\* The process dies: the cache file, whole, is what remains
Crash ==
    /\ Up
    /\ crashes < MaxCrashes
    /\ crashes' = crashes + 1
    /\ reader' = "off" /\ doc' = None /\ snapshot' = None
    /\ mem' = None /\ lock' = None /\ adopted' = None /\ unsaved' = None
    /\ control' = "down" /\ parsed' = None /\ used' = None
    /\ UNCHANGED <<now, source, newest, disk, written>>

ReaderStep ==
    \/ ScrapeStartsReader \/ ReaderReads \/ ReaderLocks \/ ReaderWrites \/ ReaderRemembers
    \/ ReaderPublishes \/ ReaderStops

ControlStep ==
    \/ AgentStarts \/ UsesSnapshot \/ NeedsCache \/ TakesLock \/ UsesMemory \/ MemoryExpired
    \/ ReadsFile \/ NoFile \/ AdoptsFile \/ FileExpired \/ Discards

Next == Tick \/ SourceChanges \/ ReaderStep \/ ControlStep \/ Close \/ Crash

Spec == Init /\ [][Next]_vars

\* The control thread runs.  Nothing is assumed of the reader, which may hang in
\* NFS, except that it finishes what it does on the local disk.
FairSpec ==
    /\ Spec
    /\ WF_vars(ControlStep)
    /\ WF_vars(ReaderWrites \/ ReaderRemembers)
    /\ SF_vars(TakesLock)

-----------------------------------------------------------------------------
(* Properties *)

Ranking == Nat \cup {None}

TypeOK ==
    /\ now \in Nat
    /\ source \in Ranking /\ newest \in Nat
    /\ reader \in {"off", "poll", "adopt", "write", "remember", "publish"}
    /\ doc \in Ranking /\ snapshot \in Ranking
    /\ mem \in Ranking /\ disk \in Ranking
    /\ lock \in {"reader", "control", None}
    /\ control \in {"down", "boot", "idle", "wait", "check", "load", "judge",
                   "discard", "closing"}
    /\ parsed \in Ranking
    /\ used \in [gen : Nat, at : Nat] \cup {None}
    /\ adopted \in Ranking /\ written \in Ranking /\ unsaved \in Ranking
    /\ crashes \in Nat

\* No decision is ever taken on a ranking past its original lease, whichever of
\* the snapshot, the memory and the file it came from, and however long the
\* reader has been stuck.
LeaseHonoured == used # None => used.at - used.gen <= RankingTTL

\* The last adoption is one that load_cache() did not know of, and not in the file
Overtaken == adopted # None /\ adopted = unsaved

\* A ranking the reader has adopted stays in memory, and on disk if it got there,
\* as long as its lease lasts: a control thread that judged an older file cannot
\* throw it away (cache_lock over read, judge and discard).  The one exception is
\* an adoption that came before load_cache(), when its write had failed.
AdoptionKept ==
    (Up /\ lock = None) =>
        /\ Fresh(adopted) => mem = adopted \/ Overtaken
        /\ Fresh(written) => disk = written

\* A fresh snapshot is backed by a cache that is no older, so losing the source
\* later never leaves the agent with less than it was already using, with the same
\* exception.
SnapshotBacked == (Up /\ Fresh(snapshot)) => (mem # None /\ mem >= snapshot) \/ Overtaken

\* The control thread is never kept from its next decision by a reader that hangs
\* in the source.
ControlProceeds == (control \in {"boot", "wait", "check", "load", "judge", "discard"}) ~>
                       (control \in {"idle", "down"})

\* The cache over both threads, hangs and crashes: no decision past a lease, no
\* adopted ranking thrown away by a judgement of an older file, no snapshot newer
\* than the cache behind it, but for an adoption that load_cache() overtakes
\* (RankingReader, _adopt_fresh_ranking, cached_ranking, load_cache).
CacheSound == TypeOK /\ LeaseHonoured /\ AdoptionKept /\ SnapshotBacked
=============================================================================
