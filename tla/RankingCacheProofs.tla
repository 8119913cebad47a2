------------------------- MODULE RankingCacheProofs -------------------------
(***************************************************************************)
(* The ranking cache is sound for every lease and however long either      *)
(* thread waits.  Two facts carry the argument: what is adopted only gets  *)
(* newer, because a poll reads the newest ranking and nothing is adopted   *)
(* between its reading and its adoption; and what a control thread judges  *)
(* under cache_lock is still there when it discards it.                    *)
(***************************************************************************)
EXTENDS RankingCache, TLAPS

NoNewer(r, s) == r # None => s # None /\ r <= s

\* cache_lock is held where the code holds it
Locked ==
    /\ reader \in {"write", "remember"} => lock = "reader"
    /\ control \in {"check", "load", "judge", "discard"} => lock = "control"

\* a process starts with nothing, and what was adopted before its first look at the
\* cache is in memory and in the file, unless it could not be saved
Unread ==
    /\ control = "down" => reader = "off" /\ mem = None /\ adopted = None /\ snapshot = None
    /\ control = "boot" => mem = adopted
    /\ control = "boot" /\ reader # "remember" => adopted \in {None, written} \/ Overtaken

\* nothing is newer than what was published, and a poll reads that
Dated ==
    /\ newest <= now
    /\ source \in {None, newest}
    /\ NoNewer(doc, newest) /\ NoNewer(adopted, newest) /\ NoNewer(written, newest)

\* what a poll is about to adopt is no older than what polls before it adopted
Polled ==
    /\ reader \in {"adopt", "write", "remember"} =>
           doc # None /\ NoNewer(adopted, doc) /\ NoNewer(written, doc)
    /\ reader = "publish" /\ Fresh(doc) => adopted = doc

\* what was adopted is kept while it is fresh, by whoever has the lock
Kept ==
    /\ Fresh(adopted) => mem = adopted \/ Overtaken
    /\ Fresh(written) => disk = written
    /\ Fresh(written) /\ mem # None /\ reader # "remember" => written <= mem
    /\ Fresh(snapshot) => NoNewer(snapshot, adopted)

\* what the control thread has found out holds until it acts on it
Judged ==
    /\ control = "check" => mem # None
    /\ control \in {"load", "judge"} /\ Fresh(adopted) => adopted = written \/ Overtaken
    /\ control = "judge" => parsed = disk
    /\ control = "discard" => (Fresh(adopted) => Overtaken) /\ ~Fresh(written)

CInv == TypeOK /\ LeaseHonoured /\ Locked /\ Unread /\ Dated /\ Polled /\ Kept /\ Judged

-----------------------------------------------------------------------------
LEMMA CacheInitOK == ASSUME CacheAssumption, Init PROVE CInv
BY DEF CacheAssumption, Init, CInv, TypeOK, Ranking, LeaseHonoured, Locked, Unread, Dated, NoNewer,
       Polled, Fresh, Overtaken, Kept, Judged

\* Time and the scorer: what is past its lease stays so, and a new ranking is newer
\* than all before it.
LEMMA SurroundingsKeep == ASSUME CacheAssumption, CInv, Tick \/ SourceChanges PROVE CInv'
<1> USE DEF CacheAssumption, CInv, TypeOK, Ranking, LeaseHonoured, Locked, Unread, Dated, NoNewer,
            Polled, Fresh, Overtaken, Kept, Judged, shared, readerVars, controlVars
<1>1. CASE Tick BY <1>1 DEF Tick
<1>2. CASE SourceChanges BY <1>2 DEF SourceChanges
<1> QED BY <1>1, <1>2

\* The reader: nobody else writes between its poll and its adoption, and the lock
\* keeps it out of a judgement.
LEMMA ReaderKeeps == ASSUME CacheAssumption, CInv, ReaderStep PROVE CInv'
<1> USE DEF CacheAssumption, CInv, TypeOK, Ranking, LeaseHonoured, Locked, Unread, Dated, NoNewer,
            Polled, Fresh, Overtaken, Kept, Judged, shared, readerVars, controlVars
<1>0. CASE ScrapeStartsReader BY <1>0 DEF ScrapeStartsReader, Up
<1>1. CASE ReaderReads BY <1>1 DEF ReaderReads
<1>2. CASE ReaderLocks BY <1>2 DEF ReaderLocks
<1>3. CASE ReaderWrites BY <1>3 DEF ReaderWrites
<1>4. CASE ReaderRemembers BY <1>4 DEF ReaderRemembers
<1>5. CASE ReaderPublishes BY <1>5 DEF ReaderPublishes
<1>6. CASE ReaderStops BY <1>6 DEF ReaderStops
<1> QED BY <1>0, <1>1, <1>2, <1>3, <1>4, <1>5, <1>6 DEF ReaderStep

\* The control thread: it enters a block only when the reader is in none, and what
\* it discards is neither the adopted ranking nor the written one while they are fresh.
LEMMA ControlKeeps == ASSUME CacheAssumption, CInv, ControlStep PROVE CInv'
<1> USE DEF CacheAssumption, CInv, TypeOK, Ranking, LeaseHonoured, Locked, Unread, Dated, NoNewer,
            Polled, Fresh, Overtaken, Kept, Judged, Leave, shared, readerVars, controlVars
<1>1. CASE AgentStarts BY <1>1 DEF AgentStarts
<1>2. CASE UsesSnapshot BY <1>2 DEF UsesSnapshot
<1>3. CASE NeedsCache BY <1>3 DEF NeedsCache
<1>4. CASE TakesLock BY <1>4 DEF TakesLock
<1>5. CASE UsesMemory BY <1>5 DEF UsesMemory
<1>6. CASE MemoryExpired BY <1>6 DEF MemoryExpired
<1>7. CASE ReadsFile BY <1>7 DEF ReadsFile
<1>8. CASE NoFile BY <1>8 DEF NoFile
<1>9. CASE AdoptsFile BY <1>9 DEF AdoptsFile
<1>10. CASE FileExpired BY <1>10 DEF FileExpired
<1>11. CASE Discards BY <1>11 DEF Discards
<1> QED
    BY <1>1, <1>2, <1>3, <1>4, <1>5, <1>6, <1>7, <1>8, <1>9, <1>10, <1>11 DEF ControlStep

\* The end of a process: the file is all that is left, and it was whole.
LEMMA EndsKeep == ASSUME CacheAssumption, CInv, Close \/ Crash PROVE CInv'
<1> USE DEF CacheAssumption, CInv, TypeOK, Ranking, LeaseHonoured, Locked, Unread, Dated, NoNewer,
            Polled, Fresh, Overtaken, Kept, Judged, shared, readerVars, controlVars
<1>1. CASE Close BY <1>1 DEF Close
<1>2. CASE Crash BY <1>2 DEF Crash
<1> QED BY <1>1, <1>2

LEMMA CacheStutter == ASSUME CInv, UNCHANGED vars PROVE CInv'
BY DEF vars, CInv, TypeOK, Ranking, LeaseHonoured, Locked, Unread, Dated, NoNewer, Polled, Fresh,
       Overtaken, Kept, Judged

\* The kept and the polled rankings, read while the lock is free, are the property.
LEMMA CacheBacked == ASSUME CacheAssumption, CInv PROVE CacheSound
BY DEF CacheAssumption, CInv, CacheSound, TypeOK, Ranking, AdoptionKept, SnapshotBacked, NoNewer,
       Fresh, Overtaken, Kept, Dated

\* For every lease, and however long the reader hangs in the source or a process
\* lasts: no decision on a ranking past its lease, no adopted ranking thrown away
\* while it is fresh, and no fresh snapshot without a cache as new behind it, unless
\* it came before load_cache() and could not be saved (RankingReader, load_cache,
\* cached_ranking, read_ranking).
THEOREM CacheIsSound == ASSUME CacheAssumption PROVE Spec => []CacheSound
<1>1. Init => CInv
    BY CacheInitOK
<1>2. CInv /\ [Next]_vars => CInv'
    BY SurroundingsKeep, ReaderKeeps, ControlKeeps, EndsKeep, CacheStutter DEF Next
<1>3. CInv => CacheSound
    BY CacheBacked
<1> QED BY <1>1, <1>2, <1>3, PTL DEF Spec
=============================================================================
