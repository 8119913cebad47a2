------------------------------- MODULE Scorer -------------------------------
(***************************************************************************)
(* The vpn-picker scorer, images/vpn-picker/vpn_picker.py: the main loop   *)
(* with its two kinds of round (run_cycle, refresh_ejections), the verdict *)
(* files the agents and the HTTP intake leave it, the base journal and the *)
(* public ranking it publishes, and its restart (load_existing).           *)
(*                                                                         *)
(* A measured ranking is a sequence of servers, best first; what is in a   *)
(* row besides the name (loss, rtt, load, headroom) is fixed by the        *)
(* measurement it comes from.  Files are replaced atomically (publish), a  *)
(* publish may fail and leave the old file, and the process may die        *)
(* between any two steps, taking the base journal with it or not.  A row   *)
(* with more bandwidth in use than there is is published like any other,   *)
(* but the readers refuse a file that has one (_validate_ranking_row).     *)
(*                                                                         *)
(* Two things are auxiliary: `of` is the measurement that a document       *)
(* really was derived from, and `orphaned` the public one whose base a     *)
(* restart did not find.                                                   *)
(***************************************************************************)
EXTENDS Integers, Sequences, FiniteSets, SequencesExt

CONSTANTS
    Server,         \* server names
    Producer,       \* agents that publish verdicts
    Measurements,   \* the rankings a scoring cycle may measure
    Overcommitted,  \* servers whose rows have a headroom below zero
    VerdictTTL,     \* ttl_seconds of a verdict
    EjectPercent,   \* VPN_PICKER_MAX_EJECTION_FRACTION, in percent
    MaxNow,         \* bound: the last tick explored
    MaxCrashes,     \* bound: how often the scorer may die
    JournalLosses,  \* whether the journal may be lost or corrupted with it
    None

\* A measured base, and a document derived from one
Measured == [gen : Nat, rows : Measurements]

Doc == [gen : Nat, rows : Seq(Server), of : Measured]

ASSUME ScorerAssumption ==
    /\ IsFiniteSet(Server)
    /\ Overcommitted \subseteq Server
    /\ VerdictTTL \in Nat \ {0}
    /\ EjectPercent \in 0 .. 100
    /\ MaxNow \in Nat
    /\ MaxCrashes \in Nat /\ JournalLosses \in BOOLEAN
    /\ \A m \in Measurements :
          /\ m \in Seq(Server) /\ m # <<>>
          /\ \A i, j \in DOMAIN m : m[i] = m[j] => i = j
    /\ None \notin Nat \union Measured \union Doc

VARIABLES
    now,        \* wall clock
    verdicts,   \* verdicts[p][s]: observed_at of the file of p and s, or None
    ranking,    \* ranking.json
    journal,    \* ranking-base.json, one or two measured bases
    pc,         \* where the main loop stands
    payload,    \* State.payload, what the HTTP consumer is served
    base,       \* State.base_servers and base_generated_at
    draft,      \* the documents of the round in progress
    started,    \* when the cycle in progress began to probe
    crashes,    \* how often the process has died
    orphaned    \* auxiliary: the measurement the last restart did not find

vars == <<now, verdicts, ranking, journal, pc, payload, base, draft, started, crashes, orphaned>>

NoDraft == [cand |-> None, doc |-> None]

-----------------------------------------------------------------------------
(* Verdicts and ejections *)

\* parse_verdict(): inside its lease
Live(obs) == obs # None /\ now - obs <= VerdictTTL

\* load_active_verdicts() and the merge at the head of apply_ejections(): when
\* each server was last observed bad, over all producers' live files
Observed(s) == {verdicts[p][s] : p \in {q \in Producer : Live(verdicts[q][s])}}

Blamed == {s \in Server : Observed(s) # {}}

Newest(s) == CHOOSE t \in Observed(s) : \A u \in Observed(s) : u <= t

\* limit = min(int(len * fraction), len - 1)
Limit(n) ==
    LET share == (n * EjectPercent) \div 100 IN
    IF share <= n - 1 THEN share ELSE n - 1

\* apply_ejections(): remove the newest observed servers of the base, at most
\* Limit of them.  Servers observed at the same time are taken in name order,
\* which is any fixed order here.
NameOrder == SetToSeq(Server)

Position(s) == CHOOSE i \in DOMAIN NameOrder : NameOrder[i] = s

Before(s, t) ==
    \/ Newest(s) > Newest(t)
    \/ Newest(s) = Newest(t) /\ Position(s) < Position(t)

Ejected(rows, blamed) ==
    LET bad == blamed \cap ToSet(rows) IN
    {s \in bad : Cardinality({t \in bad : Before(t, s)}) < Limit(Len(rows))}

\* The k-th row of the ranking is the k-th of the rows that stay
Kept(rows, blamed) ==
    LET out == Ejected(rows, blamed)
        stay == {i \in DOMAIN rows : rows[i] \notin out} IN
    [k \in 1 .. Cardinality(stay) |->
        rows[CHOOSE i \in stay : Cardinality({j \in stay : j <= i}) = k]]

\* An unreadable verdict directory fails open: no verdict is active
Readings == {Blamed, {}}

-----------------------------------------------------------------------------
(* The base journal *)

\* Mutant of JournalOf: the served base is rotated out
JournalOfCandidate(cand, served) == <<cand>>

\* build_base_state(): the candidate, and the base behind the served ranking
JournalOf(cand, served) ==
    IF served # None /\ (served.gen # cand.gen \/ served.rows # cand.rows)
    THEN <<cand, [gen |-> served.gen, rows |-> served.rows]>>
    ELSE <<cand>>

\* _is_ranked_subset(): each public row is in the base, behind the one before
IsRankedSubset(public, rows) ==
    \A i \in DOMAIN public : \E m \in DOMAIN rows :
        /\ rows[m] = public[i]
        /\ i > 1 => \E n \in 1 .. (m - 1) : rows[n] = public[i - 1]

\* _validate_ranking_rows(), on the way back in only: one row out of range and the
\* whole file is refused
Accepted(rows) == ToSet(rows) \cap Overcommitted = {}

Readable(public) == public # None /\ Accepted(public.rows)

\* parse_base_state(); <<>> is a journal that is missing or corrupt
JournalReadable ==
    /\ journal # <<>>
    /\ \A i \in DOMAIN journal : Accepted(journal[i].rows)

\* load_persisted_base(): the first journal entry that matches the public file
Matches(public) ==
    {i \in DOMAIN journal : /\ journal[i].gen = public.gen
                            /\ IsRankedSubset(public.rows, journal[i].rows)}

PersistedBase(public) ==
    IF ~JournalReadable \/ Matches(public) = {} THEN None
    ELSE LET e == journal[CHOOSE i \in Matches(public) : \A j \in Matches(public) : i <= j]
         IN  [gen |-> e.gen, rows |-> e.rows, of |-> public.of]

-----------------------------------------------------------------------------
Init ==
    /\ now = 0
    /\ verdicts = [p \in Producer |-> [s \in Server |-> None]]
    /\ ranking = None
    /\ journal = <<>>
    /\ pc = "down"
    /\ payload = None
    /\ base = None
    /\ draft = NoDraft
    /\ started = 0
    /\ crashes = 0
    /\ orphaned = None

Tick ==
    /\ now < MaxNow
    /\ now' = now + 1
    /\ UNCHANGED <<verdicts, ranking, journal, pc, payload, base, draft, started, crashes, orphaned>>

\* A producer's verdict reaches the store, through its file or the HTTP intake
\* (persist_verdict): one file per producer and server, replaced as a whole.  It
\* may be late, and then carries the time it was observed at.
VerdictArrives(p, s) ==
    /\ \E obs \in 0 .. now :
          /\ now - obs <= VerdictTTL
          /\ verdicts' = [verdicts EXCEPT ![p][s] = obs]
    /\ UNCHANGED <<now, ranking, journal, pc, payload, base, draft, started, crashes, orphaned>>

\* Mutant of LoadExisting: the public file is taken for the measured base
LoadExistingPublicBase ==
    /\ pc = "down"
    /\ payload' = IF Readable(ranking) THEN ranking ELSE None
    /\ base' = payload'
    /\ pc' = "cycle"
    /\ started' = now
    /\ orphaned' = IF ranking # None /\ base' = None THEN ranking.of ELSE None
    /\ UNCHANGED <<now, verdicts, ranking, journal, draft, crashes>>

\* main(): adopt the public ranking, if it can be read, and the base it was cut
\* from, if the journal can
LoadExisting ==
    /\ pc = "down"
    /\ payload' = IF Readable(ranking) THEN ranking ELSE None
    /\ base' = IF Readable(ranking) THEN PersistedBase(ranking) ELSE None
    /\ pc' = "cycle"
    /\ started' = now
    /\ orphaned' = IF ranking # None /\ base' = None THEN ranking.of ELSE None
    /\ UNCHANGED <<now, verdicts, ranking, journal, draft, crashes>>

\* The loop wakes up for a scoring cycle ...
StartCycle ==
    /\ pc = "sleep"
    /\ pc' = "cycle"
    /\ started' = now
    /\ UNCHANGED <<now, verdicts, ranking, journal, payload, base, draft, crashes, orphaned>>

\* run_cycle() keeps the last good ranking: API unreachable, nothing passes the
\* filters, every probe failed, or every candidate failed the loss gate
CycleKeeps ==
    /\ pc = "cycle"
    /\ pc' = "sleep"
    /\ UNCHANGED <<now, verdicts, ranking, journal, payload, base, draft, started, crashes, orphaned>>

\* run_cycle() has probed, which takes minutes, and builds both documents
CycleMeasures ==
    /\ pc = "cycle"
    /\ now > started
    /\ \E rows \in Measurements, blamed \in Readings :
          LET cand == [gen |-> now, rows |-> rows] IN
          draft' = [cand |-> cand,
                    doc |-> [gen |-> now, rows |-> Kept(rows, blamed), of |-> cand]]
    /\ pc' = "journal"
    /\ UNCHANGED <<now, verdicts, ranking, journal, payload, base, started, crashes, orphaned>>

\* publish(base_state), and when it fails both consumers keep what they have
JournalPublished ==
    /\ pc = "journal"
    /\ journal' = JournalOf(draft.cand, base)
    /\ pc' = "publish"
    /\ UNCHANGED <<now, verdicts, ranking, payload, base, draft, started, crashes, orphaned>>

\* publish(payload) of a scoring cycle, then of a refresh
RankingPublished ==
    /\ pc \in {"publish", "republish"}
    /\ ranking' = draft.doc
    /\ pc' = IF pc = "publish" THEN "adopt" ELSE "readopt"
    /\ UNCHANGED <<now, verdicts, journal, payload, base, draft, started, crashes, orphaned>>

\* Mutant of PublishFails: memory is updated although the file was not
PublishFailsServed ==
    /\ pc \in {"journal", "publish", "republish"}
    /\ pc' = "sleep"
    /\ payload' = draft.doc
    /\ draft' = NoDraft
    /\ UNCHANGED <<now, verdicts, ranking, journal, base, started, crashes, orphaned>>

\* Any publish may raise: logged, and the round is given up
PublishFails ==
    /\ pc \in {"journal", "publish", "republish"}
    /\ pc' = "sleep"
    /\ draft' = NoDraft
    /\ UNCHANGED <<now, verdicts, ranking, journal, payload, base, started, crashes, orphaned>>

\* The last block of run_cycle(), under state.lock
AdoptCycle ==
    /\ pc = "adopt"
    /\ payload' = draft.doc
    /\ base' = [gen |-> draft.cand.gen, rows |-> draft.cand.rows, of |-> draft.cand]
    /\ pc' = "sleep"
    /\ draft' = NoDraft
    /\ UNCHANGED <<now, verdicts, ranking, journal, started, crashes, orphaned>>

\* ... or for refresh_ejections(): the last base, today's verdicts, the original
\* generated_at.  Without a base, and without a change, it publishes nothing.
Refresh ==
    /\ pc = "sleep"
    /\ base # None
    /\ \E blamed \in Readings :
          LET doc == [gen |-> base.gen, rows |-> Kept(base.rows, blamed), of |-> base.of] IN
          /\ doc # payload
          /\ draft' = [cand |-> None, doc |-> doc]
    /\ pc' = "republish"
    /\ UNCHANGED <<now, verdicts, ranking, journal, payload, base, started, crashes, orphaned>>

AdoptRefresh ==
    /\ pc = "readopt"
    /\ payload' = draft.doc
    /\ pc' = "sleep"
    /\ draft' = NoDraft
    /\ UNCHANGED <<now, verdicts, ranking, journal, base, started, crashes, orphaned>>

Dies ==
    /\ pc # "down"
    /\ crashes < MaxCrashes
    /\ crashes' = crashes + 1
    /\ pc' = "down"
    /\ payload' = None
    /\ base' = None
    /\ draft' = NoDraft
    /\ UNCHANGED <<now, verdicts, ranking, started, orphaned>>

Crash == Dies /\ UNCHANGED journal

\* The journal is read at the restart only, so whatever has happened to the file
\* by then happens here.
CrashLosesJournal == Dies /\ JournalLosses /\ journal' = <<>>

Round ==
    \/ LoadExisting \/ StartCycle \/ CycleKeeps \/ CycleMeasures
    \/ JournalPublished \/ RankingPublished \/ PublishFails
    \/ AdoptCycle \/ Refresh \/ AdoptRefresh

Next ==
    \/ Tick
    \/ \E p \in Producer, s \in Server : VerdictArrives(p, s)
    \/ Round
    \/ Crash \/ CrashLosesJournal

Spec == Init /\ [][Next]_vars

\* The launcher restarts the process, a round goes on, a refresh gets its turn
\* between the cycles (it is due many times per cycle) and a publish that is
\* tried for ever succeeds at last.  Nothing is assumed of the API, of probes, of
\* the verdict writers or of time.
Fairness ==
    /\ WF_vars(LoadExisting)
    /\ WF_vars(CycleKeeps \/ CycleMeasures)
    /\ WF_vars(JournalPublished \/ PublishFails)
    /\ WF_vars(AdoptCycle)
    /\ WF_vars(AdoptRefresh)
    /\ SF_vars(Refresh)
    /\ SF_vars(RankingPublished)

FairSpec == Spec /\ Fairness

-----------------------------------------------------------------------------
(* Properties *)

TypeOK ==
    /\ now \in Nat
    /\ verdicts \in [Producer -> [Server -> Nat \cup {None}]]
    /\ ranking \in Doc \cup {None}
    /\ journal \in Seq(Measured) /\ Len(journal) <= 2
    /\ pc \in {"down", "sleep", "cycle", "journal", "publish", "adopt", "republish", "readopt"}
    /\ payload \in Doc \cup {None}
    /\ base \in Doc \cup {None}
    /\ draft \in [cand : Measured \cup {None}, doc : Doc \cup {None}]
    /\ orphaned \in Measured \cup {None}

Orphaned == ranking # None /\ orphaned = ranking.of

\* Whenever the process may die, the journal on disk holds the very measurement
\* the public file was cut from, and a restart that can read the journal finds it:
\* the journal is written before the ranking and carries the served base along
\* (build_base_state, load_persisted_base), through failed publishes and crashes
\* between the two.  One restart that could not read it is enough to lose that
\* base, until a scoring cycle publishes again.
BaseRecoverable ==
    ranking # None /\ JournalReadable /\ ~Orphaned =>
        /\ PersistedBase(ranking) # None
        /\ PersistedBase(ranking).gen = ranking.of.gen
        /\ PersistedBase(ranking).rows = ranking.of.rows

\* Never a fresh timestamp on stale data: what is public is stamped with the time
\* it was measured and lists measured rows in measured order (refresh_ejections,
\* State).
HonestStamp ==
    \A d \in {ranking, payload} \ {None} :
        d.gen = d.of.gen /\ IsRankedSubset(d.rows, d.of.rows)

\* Never an empty ranking, and never more ejected than the cap, however many
\* servers are blamed (apply_ejections).
EjectionBounded ==
    \A d \in {ranking, payload} \ {None} :
        /\ d.rows # <<>>
        /\ (Len(d.of.rows) - Len(d.rows)) * 100 <= Len(d.of.rows) * EjectPercent

\* The file consumer and the HTTP consumer see the same ranking, also after a
\* failed publish and a restart; they differ only from the replace of the file to
\* the assignment under the lock (run_cycle, refresh_ejections, load_existing).
\* After a restart that refuses the file there is nothing over HTTP, never an older
\* ranking.
ConsumersAgree ==
    pc \notin {"down", "adopt", "readopt"} =>
        payload = ranking \/ (payload = None /\ ~Readable(ranking) /\ Orphaned)

\* The public measurement is never replaced by an older one.
NeverOlder ==
    [][ranking # None /\ ranking' # None => ranking'.gen >= ranking.gen]_vars

Hidden(s) ==
    ranking # None /\ s \in ToSet(ranking.of.rows) /\ s \notin ToSet(ranking.rows)

\* An ejection is a lease, never a ban: once no live verdict blames a server, the
\* public ranking shows it again, even if the scorer restarted meanwhile and
\* the API never answers again (refresh_ejections, load_existing).  Only a restart
\* that did not find the base leaves the server out until the next scoring cycle.
NoPermanentBan ==
    \A s \in Server : <>[](s \notin Blamed) => []<>(~Hidden(s) \/ Orphaned)

\* What consumers read is honest: stamped with the time of its measurement, never
\* empty nor ejected past the cap, the same in the file and over HTTP (run_cycle,
\* refresh_ejections, apply_ejections, load_existing).
RankingHonest == TypeOK /\ HonestStamp /\ EjectionBounded /\ ConsumersAgree

\* Over time: no older measurement replaces a newer one, and an ejection ends with
\* the verdicts behind it (publish, refresh_ejections).
RankingLives == NeverOlder /\ NoPermanentBan
=============================================================================
