------------------------------ MODULE ScoreCycle ------------------------------
(***************************************************************************)
(* What a scoring cycle of images/vpn-picker/vpn_picker.py measures, and   *)
(* what becomes of it: fetch_servers, shortlist, probe_all, rank_survivors *)
(* and build_document on the way out; _parse_ranking_payload and           *)
(* _validate_ranking_row on the way back in, when the scorer restarts or a *)
(* consumer reads the ranking.  The writer does not call the validators,   *)
(* so it can publish a document that nobody accepts.                       *)
(*                                                                         *)
(* A row of the status API is reduced to the fields the code looks at;     *)
(* None is a field that is missing.  Scorer.tla has the rest of the cycle  *)
(* (ejections, the base journal, time).                                    *)
(***************************************************************************)
EXTENDS Integers, Sequences, FiniteSets, SequencesExt

CONSTANTS
    Server,       \* the servers of the status API, in its order
    Pools,        \* the answers of the status API: Server -> row
    MaxLoad,      \* VPN_PICKER_MAX_LOAD
    Size,         \* shortlist_size
    MaxLoss,      \* VPN_PICKER_MAX_LOSS_PCT
    Probes,       \* outcomes of a probe: loss and rtt
    MaxRestart,   \* bound: how often the scorer restarts
    None

VARIABLES
    cpc,        \* where the cycle stands
    pool,       \* what the API answered
    probed,     \* the outcome of each probe, None for a failed one
    public,     \* ranking.json
    served,     \* State.payload, served over HTTP
    restartsC   \* how often the scorer was restarted

cvars == <<cpc, pool, probed, public, served, restartsC>>

-----------------------------------------------------------------------------
(* The measurement *)

Field(x, default) == IF x = None THEN default ELSE x

Headroom(row) == Field(row.bw_max, 0) - Field(row.bw, 0)

Names == ToSet(Server)

Index(s) == CHOOSE i \in DOMAIN Server : Server[i] = s

Row == [ok : BOOLEAN, load : Nat \cup {None}, bw : Int \cup {None}, bw_max : Int \cup {None}, ip : BOOLEAN]

\* The API lists a server once and its load is no less than zero, the gates are
\* percentages below a total loss, so a probe within the gate had an answer to time.
CycleAssumption ==
    /\ Server \in Seq(Names) /\ \A i, j \in DOMAIN Server : Server[i] = Server[j] => i = j
    /\ \A p \in Pools : p \in [Names -> Row]
    /\ MaxLoad \in 0 .. 100 /\ MaxLoss \in Int /\ Size \in Nat
    /\ \A m \in Probes : m # None /\ m.loss \in 0 .. 100 /\ (m.loss <= MaxLoss => m.rtt \in Nat)
    /\ None \notin Int

\* The hard filters of shortlist(): open, in the countries, not too loaded; a
\* missing load counts as 100
Eligible(p) == {s \in Names : p[s].ok /\ Field(p[s].load, 100) <= MaxLoad}

\* Sorted by headroom, ties in the order of the answer (the sort is stable)
Roomier(p, s, t) ==
    \/ Headroom(p[s]) > Headroom(p[t])
    \/ Headroom(p[s]) = Headroom(p[t]) /\ Index(s) < Index(t)

Shortlist(p) ==
    {s \in Eligible(p) : Cardinality({t \in Eligible(p) : Roomier(p, t, s)}) < Size}

\* Mutant of Survivors: the gate is a weight
SurvivorsAll(p, m) == {s \in Shortlist(p) : m[s] # None}

\* rank_survivors(): the loss gate, then loss, rtt and load
Survivors(p, m) == {s \in Shortlist(p) : m[s] # None /\ m[s].loss <= MaxLoss}

Key(p, m, s) == <<m[s].loss, m[s].rtt, Field(p[s].load, 0)>>

Better(p, m, s, t) ==
    LET a == Key(p, m, s)
        b == Key(p, m, t)
    IN  \/ a[1] < b[1]
        \/ a[1] = b[1] /\ a[2] < b[2]
        \/ a[1] = b[1] /\ a[2] = b[2] /\ a[3] < b[3]
        \/ a = b /\ Roomier(p, s, t)

\* One row of the ranking: what probe_all() keeps of the API's row
RankRow(p, m, s) ==
    [name |-> s, loss |-> m[s].loss, rtt |-> m[s].rtt, load |-> Field(p[s].load, 0),
     bw_max |-> Field(p[s].bw_max, 0), headroom |-> Headroom(p[s])]

\* build_document(): the survivors, best first, each at its place
Document(p, m) ==
    LET all == Survivors(p, m)
        place(s) == Cardinality({t \in all : t = s \/ Better(p, m, t, s)})
        order == [i \in 1 .. Cardinality(all) |-> CHOOSE s \in all : place(s) = i]
    IN  [rows |-> [i \in DOMAIN order |-> RankRow(p, m, order[i])], from |-> p]

-----------------------------------------------------------------------------
(* The way back in *)

\* _validate_ranking_row(); an infinite rtt (None) is not finite
RowValid(r) ==
    /\ r.loss \in 0 .. 100 /\ r.rtt # None
    /\ r.load \in 0 .. 100
    /\ r.bw_max > 0
    /\ r.headroom \in 0 .. r.bw_max

\* _validate_ranking_rows(), _parse_ranking_payload(), parse_base_state(): one bad
\* row and the whole document is refused
Usable(d) == d # None /\ d.rows # <<>> /\ \A i \in DOMAIN d.rows : RowValid(d.rows[i])

\* The vpn-agent's own validator of a row, and of the document it fetches
RowAcceptable(r) ==
    /\ r.rtt # None /\ r.rtt >= 0
    /\ \A percent \in {r.loss, r.load} : percent >= 0 /\ percent <= 100
    /\ r.bw_max >= 1 /\ r.headroom >= 0 /\ r.headroom <= r.bw_max

AgentReads(d) ==
    /\ Len(d.rows) > 0
    /\ \A row \in ToSet(d.rows) : RowAcceptable(row)
    /\ \A i, j \in DOMAIN d.rows : d.rows[i].name = d.rows[j].name => i = j

-----------------------------------------------------------------------------
Sleep == pool' = None /\ probed' = None /\ cpc' = "sleep"

\* fetch_servers(): an answer, or anything else, which ends the cycle
Fetch ==
    /\ cpc = "sleep"
    /\ \E p \in Pools : pool' = p
    /\ cpc' = "probe"
    /\ UNCHANGED <<probed, public, served, restartsC>>

\* Nobody passed the filters; or the log line or probe_all() trips over a row
\* without its fields, outside the try of one(), and the loop logs it and goes on
NothingToProbe ==
    /\ cpc = "probe"
    /\ \/ Shortlist(pool) = {}
       \/ \E s \in Shortlist(pool) : ~pool[s].ip \/ pool[s].load = None
    /\ Sleep
    /\ UNCHANGED <<public, served, restartsC>>

\* probe_all(): every candidate in parallel, and one that fails is left out
Probe ==
    /\ cpc = "probe"
    /\ Shortlist(pool) # {}
    /\ \A s \in Shortlist(pool) : pool[s].ip /\ pool[s].load # None
    /\ \E m \in [Shortlist(pool) -> Probes \cup {None}] : probed' = m
    /\ cpc' = "rank"
    /\ UNCHANGED <<pool, public, served, restartsC>>

\* Every probe failed, or every candidate failed the loss gate: the last good
\* ranking stays.  A publish that fails ends the same way.
KeepLast ==
    /\ cpc \in {"rank", "publish"}
    /\ cpc = "rank" => Survivors(pool, probed) = {}
    /\ Sleep
    /\ UNCHANGED <<public, served, restartsC>>

Rank ==
    /\ cpc = "rank"
    /\ Survivors(pool, probed) # {}
    /\ cpc' = "publish"
    /\ UNCHANGED <<pool, probed, public, served, restartsC>>

\* publish(), and the last block of run_cycle()
Publish ==
    /\ cpc = "publish"
    /\ public' = Document(pool, probed)
    /\ served' = public'
    /\ Sleep
    /\ UNCHANGED restartsC

\* load_existing(): the ranking is adopted if it can be read
Restart ==
    /\ restartsC < MaxRestart
    /\ restartsC' = restartsC + 1
    /\ served' = IF Usable(public) THEN public ELSE None
    /\ Sleep
    /\ UNCHANGED public

CycleInit ==
    /\ cpc = "sleep" /\ pool = None /\ probed = None
    /\ public = None /\ served = None
    /\ restartsC = 0

CycleNext == Fetch \/ NothingToProbe \/ Probe \/ KeepLast \/ Rank \/ Publish \/ Restart

CycleSpec == CycleInit /\ [][CycleNext]_cvars

-----------------------------------------------------------------------------
(* Properties *)

CycleTypeOK ==
    /\ cpc \in {"sleep", "probe", "rank", "publish"}
    /\ pool \in Pools \cup {None}
    /\ served \in {None, public}

Published(s) == \E i \in DOMAIN public.rows : public.rows[i].name = s

\* What is published passed every filter and the loss gate and is listed by loss;
\* a server that was eligible and was not even probed has no more room than any
\* that is listed: `health` and load alone never put a server on the list.
GatePassed ==
    public # None =>
        /\ public.rows # <<>> /\ Len(public.rows) <= Size
        /\ \A i \in DOMAIN public.rows :
              /\ public.rows[i].name \in Eligible(public.from)
              /\ public.rows[i].loss <= MaxLoss
              /\ \A j \in DOMAIN public.rows : i < j => public.rows[i].loss <= public.rows[j].loss
        /\ \A s \in Shortlist(public.from), t \in Eligible(public.from) \ Shortlist(public.from) :
              Headroom(public.from[s]) >= Headroom(public.from[t])

Overcommitted(row) ==
    \/ Field(row.bw_max, 0) <= 0
    \/ Headroom(row) \notin 0 .. Field(row.bw_max, 0)

\* The agent reads what the scorer has published, and so does the scorer after a
\* restart, unless the API reported a listed server as using more bandwidth than
\* it has, or none at all: such a row passes every filter, and with it the whole
\* ranking is refused, by both in the same cases.
ReadableUnlessOvercommitted ==
    public # None =>
        /\ AgentReads(public) \/ \E s \in Names : Published(s) /\ Overcommitted(public.from[s])
        /\ AgentReads(public) = Usable(public)
=============================================================================
