---------------------------- MODULE ScorerProofs ----------------------------
(***************************************************************************)
(* For any servers, producers, measurements and cap: what the scorer       *)
(* publishes is honest, never older than what it replaces, and can be      *)
(* taken up again by a restart.                                            *)
(*                                                                         *)
(* Two arguments meet.  Which rows a ranking keeps is counting: the        *)
(* servers blamed are strictly ordered, so fewer than Limit come before    *)
(* one that is ejected, and the k-th row kept is the k-th position that    *)
(* stays (the lemmas on ranks).  What the journal, the file and the memory *)
(* of the process say of one another at each step of a round is SInv.      *)
(***************************************************************************)
EXTENDS Scorer, FunctionTheorems, FiniteSetTheorems, TLAPS

Honest(d) ==
    /\ d.gen = d.of.gen
    /\ IsRankedSubset(d.rows, d.of.rows)
    /\ d.rows # <<>>
    /\ (Len(d.of.rows) - Len(d.rows)) * 100 <= Len(d.of.rows) * EjectPercent

HonestAll == \A d \in {ranking, payload, draft.doc} \ {None} : Honest(d)

\* No file of a verdict is from the future
VerdictsPast ==
    \A p \in Producer, s \in Server : verdicts[p][s] # None => verdicts[p][s] <= now

\* A document's base is the measurement it names
BaseOfDoc == base # None => base.gen = base.of.gen /\ base.rows = base.of.rows

Journalled(m) == \E i \in DOMAIN journal : journal[i] = m

\* The journal names one measurement per stamp, none other under the stamp that is
\* public, and has that one unless it was lost
JournalInv ==
    /\ \A i, j \in DOMAIN journal : journal[i].gen = journal[j].gen => i = j
    /\ ranking # None =>
           \A i \in DOMAIN journal : journal[i].gen = ranking.gen => journal[i] = ranking.of
    /\ ranking # None /\ ~Orphaned /\ journal # <<>> => Journalled(ranking.of)

\* What the process serves and works from is what the file was cut from
Serving ==
    /\ pc \notin {"down", "adopt"} =>
           /\ base = None => ranking = None \/ Orphaned
           /\ base # None => ranking # None /\ base.of = ranking.of
    /\ ConsumersAgree

\* What is being measured is newer than what is public
Ages ==
    /\ started \in Nat /\ started <= now
    /\ ranking # None => ranking.gen <= now
    /\ pc = "cycle" /\ ranking # None => ranking.gen <= started

\* The documents of the round in progress
Drafted ==
    /\ pc \in {"journal", "publish", "adopt"} =>
           /\ draft.cand # None /\ draft.doc # None /\ draft.doc.of = draft.cand
           /\ draft.cand.gen <= now
    /\ pc \in {"journal", "publish"} /\ ranking # None => ranking.gen < draft.cand.gen
    /\ pc = "publish" => Journalled(draft.cand)
    /\ pc \in {"republish", "readopt"} =>
           /\ base # None /\ ranking # None
           /\ draft.doc # None /\ draft.doc.of = base.of
    /\ pc \in {"adopt", "readopt"} => ranking = draft.doc

SInv ==
    /\ TypeOK /\ VerdictsPast /\ HonestAll /\ BaseOfDoc
    /\ JournalInv /\ Serving /\ Ages /\ Drafted

-----------------------------------------------------------------------------
(* Ranks *)

\* Of what lies strictly below, the lower has less.
LEMMA RankGrows ==
    ASSUME NEW S, NEW T, IsFiniteSet(T), S \subseteq T, NEW x \in T, x \notin S
    PROVE  /\ Cardinality(S) \in Nat /\ Cardinality(T) \in Nat
           /\ Cardinality(S) < Cardinality(T)
<1>1. /\ IsFiniteSet(S) /\ Cardinality(S) <= Cardinality(T)
      /\ Cardinality(S) = Cardinality(T) => S = T
    BY FS_Subset
<1>2. Cardinality(S) \in Nat /\ Cardinality(T) \in Nat
    BY <1>1, FS_CardinalityType
<1>3. Cardinality(S) # Cardinality(T)
    BY <1>1
<1> QED BY <1>1, <1>2, <1>3

\* The positions that stay are counted off: each has its rank, and each rank its
\* position.
LEMMA PositionsRanked ==
    ASSUME NEW n \in Nat, NEW stay \in SUBSET (1 .. n)
    PROVE  LET rank == [i \in stay |-> Cardinality({j \in stay : j <= i})]
               size == Cardinality(stay)
           IN  /\ size \in Nat /\ Cardinality((1 .. n) \ stay) = n - size
               /\ \A i, j \in stay : i < j => rank[i] < rank[j]
               /\ rank \in [stay -> 1 .. size]
               /\ \A k \in 1 .. size : \E i \in stay : rank[i] = k
<1> DEFINE below(i) == {j \in stay : j <= i}
           rank == [i \in stay |-> Cardinality(below(i))]
           size == Cardinality(stay)
<1>1. IsFiniteSet(1 .. n) /\ Cardinality(1 .. n) = n
    BY FS_Interval
<1>2. IsFiniteSet(stay) /\ size \in Nat
    BY <1>1, FS_Subset, FS_CardinalityType
<1>3. Cardinality((1 .. n) \ stay) = n - size
    <2>1. Cardinality((1 .. n) \ stay) = Cardinality(1 .. n) - Cardinality((1 .. n) \cap stay)
        BY <1>1, FS_Difference
    <2>2. (1 .. n) \cap stay = stay
        OBVIOUS
    <2> QED BY <1>1, <2>1, <2>2
<1>4. ASSUME NEW i \in stay
      PROVE  IsFiniteSet(below(i)) /\ Cardinality(below(i)) \in 1 .. size
    <2>1. IsFiniteSet(below(i)) /\ Cardinality(below(i)) <= size /\ Cardinality(below(i)) \in Nat
        BY <1>2, FS_Subset, FS_CardinalityType
    <2>2. i \in below(i)
        OBVIOUS
    <2>3. Cardinality({}) < Cardinality(below(i)) /\ Cardinality({}) = 0
        BY <2>1, <2>2, RankGrows, FS_EmptySet
    <2> QED BY <1>2, <2>1, <2>3
<1>5. ASSUME NEW i \in stay, NEW j \in stay, i < j
      PROVE  Cardinality(below(i)) < Cardinality(below(j))
    <2>1. i \in Int /\ j \in Int /\ \A k \in stay : k \in Int
        OBVIOUS
    <2>2. \A k \in stay : k <= i => k <= j
        BY <1>5, <2>1
    <2>3. j <= j /\ ~(j <= i)
        BY <1>5, <2>1
    <2>4. below(i) \subseteq below(j) /\ j \in below(j) /\ j \notin below(i)
        BY <2>2, <2>3
    <2> QED BY <1>4, <2>4, RankGrows
<1>6. rank \in [stay -> 1 .. size]
    BY <1>4
<1>7. \A i, j \in stay : rank[i] = rank[j] => i = j
    <2>1. \A i, j \in stay : i < j \/ j < i \/ i = j
        OBVIOUS
    <2>2. \A i, j \in stay : i < j => rank[i] < rank[j]
        BY <1>5
    <2>3. \A i \in stay : rank[i] \in Int
        BY <1>6
    <2> HIDE DEF rank
    <2> QED BY <2>1, <2>2, <2>3
<1>8. \A k \in 1 .. size : \E i \in stay : rank[i] = k
    <2>1. rank \in Injection(stay, 1 .. size)
        BY <1>6, <1>7, Fun_IsInj
    <2>2. IsFiniteSet(1 .. size) /\ Cardinality(1 .. size) = size
        BY <1>2, FS_Interval
    <2>3. rank \in Surjection(stay, 1 .. size)
        BY <2>1, <2>2, FS_Injection
    <2> HIDE DEF rank, size
    <2> QED BY <2>3, Fun_SurjectionProperties
<1> QED BY <1>2, <1>3, <1>5, <1>6, <1>8

-----------------------------------------------------------------------------
(* Ejections *)

LEMMA LeastNat ==
    ASSUME NEW T \in SUBSET Nat, T # {}
    PROVE  \E x \in T : \A y \in T : x <= y
<1>1. \E x \in T : \A y \in T : <<y, x>> \notin OpToRel(<, Nat)
    BY NatLessThanWellFounded, WFMin
<1>2. \A x, y \in Nat : <<y, x>> \notin OpToRel(<, Nat) => x <= y
    BY DEF OpToRel
<1> QED BY <1>1, <1>2

\* A server that is blamed has a newest observation.
LEMMA NewestOK ==
    ASSUME ScorerAssumption, TypeOK, VerdictsPast, NEW s \in Blamed
    PROVE  Newest(s) \in Nat
<1>1. Observed(s) # {} /\ s \in Server
    BY DEF Blamed
<1>2. Observed(s) \subseteq 0 .. now /\ now \in Nat
    BY DEF Observed, Live, TypeOK, VerdictsPast, Blamed, ScorerAssumption
<1> DEFINE ages == {now - t : t \in Observed(s)}
<1>3. ages \in SUBSET Nat /\ ages # {}
    BY <1>1, <1>2
<1>4. PICK a \in ages : \A b \in ages : a <= b
    BY <1>3, LeastNat
<1>5. PICK t \in Observed(s) : a = now - t
    BY <1>4
<1>6. \A u \in Observed(s) : u <= t
    <2> TAKE u \in Observed(s)
    <2>1. now - t <= now - u
        BY <1>4, <1>5
    <2> QED BY <1>2, <2>1
<1> HIDE DEF ages
<1>7. Newest(s) \in Observed(s)
    BY <1>6 DEF Newest
<1> QED BY <1>2, <1>7

\* The order of names is a strict one.
LEMMA PositionOK ==
    ASSUME ScorerAssumption
    PROVE  /\ \A s \in Server : Position(s) \in Nat
           /\ \A s, t \in Server : Position(s) = Position(t) => s = t
<1> DEFINE n == Cardinality(Server)
<1>1. IsFiniteSet(Server) /\ n \in Nat
    BY FS_CardinalityType DEF ScorerAssumption
<1>2. PICK g : g \in Bijection(1 .. n, Server)
    BY <1>1, FS_CardinalityType DEF ExistsBijection
<1>3. g \in [1 .. n -> Server] /\ \A i, j \in 1 .. n : g[i] = g[j] => i = j
    BY <1>2 DEF Bijection, Injection, IsInjective
<1>4. NameOrder \in [1 .. n -> Server] /\ IsInjective(NameOrder)
    <2>1. IsInjective(g)
        BY <1>3 DEF IsInjective
    <2> HIDE DEF n
    <2>2. \E f \in [1 .. n -> Server] : IsInjective(f)
        BY <1>3, <2>1
    <2> QED BY Zenon, <2>2 DEF NameOrder, SetToSeq, n
<1>5. NameOrder \in Injection(1 .. n, Server)
    BY <1>4 DEF Injection
<1>6. IsFiniteSet(1 .. n) /\ Cardinality(1 .. n) = n
    BY <1>1, FS_Interval
<1>7. NameOrder \in Surjection(1 .. n, Server)
    BY <1>1, <1>5, <1>6, FS_Injection
<1>8. \A s \in Server : \E i \in 1 .. n : NameOrder[i] = s
    BY <1>7 DEF Surjection
<1>9. DOMAIN NameOrder = 1 .. n
    BY <1>4
<1>10. \A s \in Server : Position(s) \in 1 .. n /\ NameOrder[Position(s)] = s
    BY <1>8, <1>9 DEF Position
<1> QED BY <1>1, <1>10

\* However many are blamed, at most Limit are ejected.
LEMMA EjectedBounded ==
    ASSUME ScorerAssumption, TypeOK, VerdictsPast, NEW rows \in Seq(Server),
           NEW blamed \in Readings
    PROVE  /\ IsFiniteSet(Ejected(rows, blamed))
           /\ Cardinality(Ejected(rows, blamed)) \in Nat
           /\ Limit(Len(rows)) >= 0 =>
                  Cardinality(Ejected(rows, blamed)) <= Limit(Len(rows))
<1> DEFINE bad == blamed \cap ToSet(rows)
           before(s) == {t \in bad : Before(t, s)}
           limit == Limit(Len(rows))
           out == Ejected(rows, blamed)
<1>1. bad \subseteq Server /\ bad \subseteq Blamed
    BY DEF Readings, Blamed
<1>2. IsFiniteSet(bad)
    BY <1>1, FS_Subset DEF ScorerAssumption
<1>3. IsFiniteSet(out) /\ Cardinality(out) \in Nat
    BY <1>2, FS_Subset, FS_CardinalityType DEF Ejected
<1>4. ASSUME NEW s \in bad PROVE Newest(s) \in Nat /\ Position(s) \in Nat
    BY <1>1, NewestOK, PositionOK
<1>5. ASSUME NEW s \in bad, NEW t \in bad, Before(s, t)
      PROVE  Cardinality(before(s)) < Cardinality(before(t))
    <2>1. before(s) \subseteq before(t) /\ s \in before(t) /\ s \notin before(s)
        BY <1>4, <1>5 DEF Before
    <2>2. IsFiniteSet(before(t))
        BY <1>2, FS_Subset
    <2> QED BY <2>1, <2>2, RankGrows
<1>6. ASSUME NEW s \in bad PROVE Cardinality(before(s)) \in Nat
    BY <1>2, FS_Subset, FS_CardinalityType
<1>7. ASSUME NEW s \in bad, NEW t \in bad, Cardinality(before(s)) = Cardinality(before(t))
      PROVE  s = t
    <2>1. Before(s, t) \/ Before(t, s) \/ s = t
        BY <1>1, <1>4, PositionOK DEF Before
    <2> HIDE DEF before
    <2> QED BY <1>5, <1>6, <1>7, <2>1
<1>8. ASSUME limit >= 0 PROVE Cardinality(out) <= limit
    <2>1. limit \in Nat
        BY <1>8 DEF Limit, ScorerAssumption
    <2> DEFINE rank == [s \in out |-> Cardinality(before(s))]
    <2>2. out = {s \in bad : Cardinality(before(s)) < limit}
        BY DEF Ejected
    <2> HIDE DEF out, before, bad
    <2>3. rank \in [out -> 0 .. (limit - 1)]
        BY <1>6, <2>1, <2>2
    <2>4. \A s, t \in out : rank[s] = rank[t] => s = t
        BY <1>7, <2>2
    <2> HIDE DEF rank
    <2>5. rank \in Injection(out, 0 .. (limit - 1))
        BY <2>3, <2>4, Fun_IsInj
    <2> HIDE DEF limit
    <2>6. IsFiniteSet(0 .. (limit - 1)) /\ Cardinality(0 .. (limit - 1)) = limit
        <3>1. limit - 1 \in Int /\ 0 \in Int
            BY <2>1
        <3>2. /\ IsFiniteSet(0 .. (limit - 1))
              /\ Cardinality(0 .. (limit - 1)) =
                     IF 0 > limit - 1 THEN 0 ELSE (limit - 1) - 0 + 1
            BY Zenon, <3>1, FS_Interval
        <3> QED BY <2>1, <3>2
    <2> QED BY <2>5, <2>6, FS_Injection
<1> QED BY <1>3, <1>8

\* The cap, in whole servers, is below the share of the cap and below the whole.
LEMMA LimitOK ==
    ASSUME ScorerAssumption, NEW n \in Nat \ {0}
    PROVE  Limit(n) \in Nat /\ Limit(n) <= n - 1 /\ Limit(n) * 100 <= n * EjectPercent
<1>1. EjectPercent \in Nat
    BY DEF ScorerAssumption
<1> DEFINE whole == n * EjectPercent
           share == whole \div 100
<1>2. whole \in Nat
    BY <1>1
<1>3. Limit(n) = IF share <= n - 1 THEN share ELSE n - 1
    BY DEF Limit
<1> HIDE DEF whole
<1>4. share \in Nat /\ share * 100 <= whole
    BY <1>2
<1> HIDE DEF share
<1>5. Limit(n) \in Nat /\ Limit(n) <= n - 1 /\ Limit(n) <= share
    BY <1>3, <1>4
<1>6. Limit(n) * 100 <= whole
    BY <1>2, <1>4, <1>5
<1> QED BY <1>5, <1>6 DEF whole

\* What is left of a measurement is some of it, in its order, and enough of it.
LEMMA KeptOK ==
    ASSUME ScorerAssumption, TypeOK, VerdictsPast, NEW rows \in Measurements,
           NEW blamed \in Readings
    PROVE  /\ Kept(rows, blamed) \in Seq(Server)
           /\ IsRankedSubset(Kept(rows, blamed), rows)
           /\ Kept(rows, blamed) # <<>>
           /\ (Len(rows) - Len(Kept(rows, blamed))) * 100 <= Len(rows) * EjectPercent
<1> DEFINE n == Len(rows)
           out == Ejected(rows, blamed)
           stay == {i \in DOMAIN rows : rows[i] \notin out}
           size == Cardinality(stay)
           rank == [i \in stay |-> Cardinality({j \in stay : j <= i})]
           at == [k \in 1 .. size |->
                     CHOOSE i \in stay : Cardinality({j \in stay : j <= i}) = k]
           kept == Kept(rows, blamed)
<1>1. /\ rows \in Seq(Server) /\ n \in Nat \ {0} /\ DOMAIN rows = 1 .. n
      /\ \A i, j \in 1 .. n : rows[i] = rows[j] => i = j
    BY DEF ScorerAssumption
<1>2. stay \in SUBSET (1 .. n)
    BY <1>1
<1>3. /\ size \in Nat /\ Cardinality((1 .. n) \ stay) = n - size
      /\ \A i, j \in stay : i < j => rank[i] < rank[j]
      /\ rank \in [stay -> 1 .. size]
      /\ \A k \in 1 .. size : \E i \in stay : rank[i] = k
    BY <1>1, <1>2, PositionsRanked
<1>4. \A k \in 1 .. size : at[k] \in stay /\ rank[at[k]] = k
    <2> SUFFICES ASSUME NEW k \in 1 .. size
                 PROVE  at[k] \in stay /\ rank[at[k]] = k
        OBVIOUS
    <2>1. at[k] = CHOOSE i \in stay : Cardinality({j \in stay : j <= i}) = k
        OBVIOUS
    <2>2. PICK i \in stay : rank[i] = k
        BY <1>3
    <2>3. Cardinality({j \in stay : j <= i}) = k
        BY <2>2
    <2> HIDE DEF stay, size, at
    <2>4. at[k] \in stay /\ Cardinality({j \in stay : j <= at[k]}) = k
        BY Zenon, <2>1, <2>3
    <2> QED BY <2>4
<1>5. kept = [k \in 1 .. size |-> rows[at[k]]]
    BY DEF Kept
<1>6. n - size <= Limit(n)
    <2>1. IsFiniteSet(out) /\ Cardinality(out) \in Nat /\ Cardinality(out) <= Limit(n)
        <3>1. Limit(n) >= 0
            BY <1>1, LimitOK
        <3> QED BY <1>1, <3>1, EjectedBounded
    <2> DEFINE gone == (1 .. n) \ stay
               name == [i \in gone |-> rows[i]]
    <2>2. name \in [gone -> out] /\ \A i, j \in gone : name[i] = name[j] => i = j
        BY <1>1
    <2> HIDE DEF name, gone, out
    <2>3. name \in Injection(gone, out)
        BY <2>2, Fun_IsInj
    <2>4. Cardinality(gone) <= Cardinality(out)
        BY <2>1, <2>3, FS_Injection
    <2>5. Cardinality(gone) = n - size
        BY <1>3 DEF gone
    <2> HIDE DEF size
    <2>6. n - size <= Cardinality(out) /\ Limit(n) \in Nat
        BY <1>1, <2>4, <2>5, LimitOK
    <2> QED BY <1>1, <1>3, <2>1, <2>6
<1> HIDE DEF stay, rank, at, out, kept
<1>7. kept \in Seq(Server) /\ Len(kept) = size /\ DOMAIN kept = 1 .. size
    <2>1. \A k \in 1 .. size : at[k] \in 1 .. n
        BY <1>2, <1>4
    <2>2. \A k \in 1 .. size : rows[at[k]] \in Server
        BY <1>1, <2>1
    <2> HIDE DEF size
    <2> QED BY <1>3, <1>5, <2>2
<1>8. \A i, j \in 1 .. size : j < i => at[j] < at[i]
    <2> SUFFICES ASSUME NEW i \in 1 .. size, NEW j \in 1 .. size, j < i, ~(at[j] < at[i])
                 PROVE  FALSE
        OBVIOUS
    <2>1. at[i] \in stay /\ at[j] \in stay /\ rank[at[i]] = i /\ rank[at[j]] = j
        BY <1>4
    <2>2. at[i] < at[j] \/ at[i] = at[j]
        <3>1. at[i] \in Int /\ at[j] \in Int
            <4>1. \A k \in 1 .. n : k \in Int
                BY <1>1
            <4> HIDE DEF n
            <4> QED BY <1>2, <2>1, <4>1
        <3> QED BY <3>1
    <2>3. at[i] < at[j] => i < j
        BY <1>3, <2>1
    <2> QED BY <2>1, <2>2, <2>3
<1>9. IsRankedSubset(kept, rows)
    <2> SUFFICES ASSUME NEW i \in 1 .. size
                 PROVE  \E m \in 1 .. n : /\ rows[m] = kept[i]
                                          /\ i > 1 => \E l \in 1 .. (m - 1) : rows[l] = kept[i - 1]
        BY <1>1, <1>7 DEF IsRankedSubset
    <2>1. at[i] \in 1 .. n /\ rows[at[i]] = kept[i]
        BY <1>2, <1>4, <1>5
    <2>2. ASSUME i > 1 PROVE at[i - 1] \in 1 .. (at[i] - 1) /\ rows[at[i - 1]] = kept[i - 1]
        <3>1. i - 1 \in 1 .. size
            BY <1>3, <2>2
        <3>2. i - 1 < i
            OBVIOUS
        <3>3. at[i - 1] \in 1 .. n /\ at[i - 1] < at[i]
            BY <1>2, <1>4, <1>8, <3>1, <3>2
        <3>4. at[i - 1] \in 1 .. (at[i] - 1)
            BY <2>1, <3>3
        <3> QED BY <1>5, <3>1, <3>4
    <2> QED BY <2>1, <2>2
<1>10. Limit(n) \in Nat /\ Limit(n) <= n - 1 /\ Limit(n) * 100 <= n * EjectPercent
    BY <1>1, LimitOK
<1>11. size >= 1
    BY <1>1, <1>3, <1>6, <1>10
<1>12. (n - size) * 100 <= n * EjectPercent
    <2>1. (n - size) * 100 <= Limit(n) * 100
        BY <1>1, <1>3, <1>6, <1>10
    <2>2. n * EjectPercent \in Int /\ (n - size) * 100 \in Int /\ Limit(n) * 100 \in Int
        BY <1>1, <1>3, <1>10 DEF ScorerAssumption
    <2> HIDE DEF n, size
    <2> QED BY <1>10, <2>1, <2>2
<1>13. kept # <<>>
    BY <1>7, <1>11
<1> QED BY <1>7, <1>9, <1>12, <1>13 DEF kept

-----------------------------------------------------------------------------
(* Steps *)

\* A restart finds the one entry of the journal that is stamped like the file, or
\* nothing.
LEMMA PersistedOK ==
    ASSUME ScorerAssumption, SInv, ranking # None,
           NEW known, known = [gen |-> ranking.of.gen, rows |-> ranking.of.rows, of |-> ranking.of]
    PROVE  /\ PersistedBase(ranking) \in {None, known}
           /\ JournalReadable /\ ~Orphaned => PersistedBase(ranking) = known
<1>1. ranking.gen = ranking.of.gen /\ IsRankedSubset(ranking.rows, ranking.of.rows)
    BY DEF SInv, HonestAll, Honest
<1>2. ASSUME JournalReadable, NEW i \in Matches(ranking) PROVE PersistedBase(ranking) = known
    <2>1. i \in DOMAIN journal /\ journal[i] = ranking.of
        BY <1>2 DEF Matches, SInv, JournalInv
    <2>2. Matches(ranking) = {i}
        BY <1>1, <1>2, <2>1 DEF SInv, JournalInv, Matches
    <2>3. (CHOOSE k \in Matches(ranking) : \A j \in Matches(ranking) : k <= j) = i
        <3>1. i <= i
            BY <2>1 DEF SInv, TypeOK
        <3> QED BY <2>2, <3>1
    <2> QED BY <1>2, <2>1, <2>2, <2>3 DEF PersistedBase
<1>3. ASSUME JournalReadable, ~Orphaned PROVE PersistedBase(ranking) = known
    <2>1. journal # <<>>
        BY <1>3 DEF JournalReadable
    <2>2. PICK i \in DOMAIN journal : journal[i] = ranking.of
        BY <1>3, <2>1 DEF SInv, JournalInv, Journalled
    <2>3. i \in Matches(ranking)
        BY <1>1, <2>2 DEF Matches
    <2> QED BY <1>2, <1>3, <2>3
<1>4. CASE JournalReadable /\ Matches(ranking) # {}
    BY <1>2, <1>4
<1>5. CASE ~JournalReadable \/ Matches(ranking) = {}
    <2>1. PersistedBase(ranking) = None
        BY Zenon, <1>5 DEF PersistedBase
    <2> QED BY <1>3, <2>1
<1> QED BY <1>3, <1>4, <1>5

LEMMA MeasuredOK ==
    ASSUME ScorerAssumption, NEW d \in Doc
    PROVE  d # None /\ d.gen \in Nat /\ d.rows \in Seq(Server) /\ d.of # None
           /\ d.of \in Measured /\ d.of.gen \in Nat /\ d.of.rows \in Measurements
BY DEF Doc, Measured, ScorerAssumption

LEMMA ScorerInitOK == ASSUME ScorerAssumption, Init PROVE SInv
<1>1. TypeOK
    BY DEF Init, TypeOK, NoDraft
<1>2. VerdictsPast /\ HonestAll /\ BaseOfDoc /\ JournalInv
    BY DEF Init, VerdictsPast, HonestAll, NoDraft, BaseOfDoc, JournalInv, Journalled
<1>3. Serving /\ Ages /\ Drafted
    BY DEF Init, Serving, ConsumersAgree, Ages, Drafted
<1> QED BY <1>1, <1>2, <1>3 DEF SInv

\* Time and verdicts pass by what is published.
LEMMA WorldKeeps ==
    ASSUME ScorerAssumption, SInv,
           Tick \/ \E p \in Producer, s \in Server : VerdictArrives(p, s)
    PROVE  SInv'
<1>1. /\ UNCHANGED <<ranking, journal, pc, payload, base, draft, started, orphaned>>
      /\ now' \in Nat /\ now <= now'
    BY DEF Tick, VerdictArrives, SInv, TypeOK
<1>2. verdicts' \in [Producer -> [Server -> Nat \cup {None}]] /\ VerdictsPast'
    <2>1. CASE Tick
        BY <2>1 DEF Tick, SInv, TypeOK, VerdictsPast, ScorerAssumption
    <2>2. ASSUME NEW p \in Producer, NEW s \in Server, VerdictArrives(p, s)
          PROVE  verdicts' \in [Producer -> [Server -> Nat \cup {None}]] /\ VerdictsPast'
        <3>1. PICK obs \in 0 .. now : verdicts' = [verdicts EXCEPT ![p][s] = obs]
            BY <2>2 DEF VerdictArrives
        <3>2. verdicts' \in [Producer -> [Server -> Nat \cup {None}]]
            BY <3>1 DEF SInv, TypeOK
        <3>3. \A q \in Producer, t \in Server : verdicts'[q][t] \in {obs, verdicts[q][t]}
            BY <3>1 DEF SInv, TypeOK
        <3>4. UNCHANGED now
            BY <2>2 DEF VerdictArrives
        <3>5. VerdictsPast'
            BY <3>3, <3>4 DEF SInv, VerdictsPast
        <3> QED BY <3>2, <3>5
    <2> QED BY <2>1, <2>2
<1>3. TypeOK'
    BY <1>1, <1>2 DEF SInv, TypeOK
<1>4. HonestAll' /\ BaseOfDoc' /\ JournalInv' /\ Serving'
    BY <1>1 DEF SInv, HonestAll, BaseOfDoc, JournalInv, Journalled, Serving, ConsumersAgree, Orphaned,
        Readable, Accepted
<1>5. \A d \in Doc : d.gen \in Nat
    BY DEF Doc
<1>6. Ages'
    BY <1>1, <1>5 DEF SInv, TypeOK, Ages
<1>7. Drafted'
    <2>1. draft.cand # None => draft.cand.gen \in Nat
        BY DEF SInv, TypeOK, Measured
    <2>2. now \in Nat
        BY DEF SInv, TypeOK
    <2> QED BY <1>1, <2>1, <2>2 DEF SInv, Drafted, Journalled
<1> QED BY <1>2, <1>3, <1>4, <1>6, <1>7 DEF SInv

\* The loop's own steps, and the end of the process, publish nothing.
LEMMA LoopKeeps ==
    ASSUME ScorerAssumption, SInv, StartCycle \/ CycleKeeps \/ PublishFails \/ Dies,
           journal' \in {journal, <<>>}
    PROVE  SInv'
<1>1. UNCHANGED <<now, verdicts, ranking, orphaned>>
    BY DEF StartCycle, CycleKeeps, PublishFails, Dies
<1>2. pc' \in {"cycle", "sleep", "down"} /\ (pc' = "down" => Dies) /\ (pc' = "cycle" => StartCycle)
    BY DEF StartCycle, CycleKeeps, PublishFails, Dies
<1>3. started' \in {started, now} /\ (pc' = "cycle" => started' = now)
    BY DEF StartCycle, CycleKeeps, PublishFails, Dies
<1>4. /\ payload' \in {payload, None} /\ base' \in {base, None} /\ draft' \in {draft, NoDraft}
      /\ ~Dies => UNCHANGED <<payload, base>>
    BY DEF StartCycle, CycleKeeps, PublishFails, Dies
<1>5. ~Dies => pc \notin {"down", "adopt", "readopt"}
    BY DEF StartCycle, CycleKeeps, PublishFails
<1>6. TypeOK'
    <2>1. <<>> \in Seq(Measured) /\ Len(<<>>) = 0
        OBVIOUS
    <2>2. journal' \in Seq(Measured) /\ Len(journal') <= 2
        <3>1. CASE journal' = journal
            BY <3>1 DEF SInv, TypeOK
        <3>2. CASE journal' = <<>>
            BY <2>1, <3>2
        <3> QED BY <3>1, <3>2
    <2> QED BY <1>1, <1>2, <1>4, <2>2 DEF SInv, TypeOK, NoDraft
<1>7. VerdictsPast' /\ HonestAll' /\ BaseOfDoc' /\ JournalInv'
    <2>1. VerdictsPast' /\ HonestAll' /\ BaseOfDoc'
        BY <1>1, <1>4 DEF SInv, VerdictsPast, HonestAll, NoDraft, BaseOfDoc
    <2>2. ASSUME journal' = journal PROVE JournalInv'
        BY <1>1, <2>2 DEF SInv, JournalInv, Journalled, Orphaned
    <2>3. ASSUME journal' = <<>> PROVE JournalInv'
        <3>1. DOMAIN journal' = {}
            BY <2>3
        <3> QED BY <2>3, <3>1 DEF JournalInv
    <2> QED BY <2>1, <2>2, <2>3
<1>8. Serving'
    BY <1>1, <1>2, <1>4, <1>5 DEF SInv, Serving, ConsumersAgree, Dies,
            Orphaned, Readable
<1>9. Ages'
    BY <1>1, <1>2, <1>3 DEF SInv, TypeOK, Ages
<1>10. Drafted'
    BY <1>2 DEF Drafted
<1> QED BY <1>6, <1>7, <1>8, <1>9, <1>10 DEF SInv

LEMMA LoadKeeps == ASSUME ScorerAssumption, SInv, LoadExisting PROVE SInv'
<1> DEFINE known == [gen |-> ranking.of.gen, rows |-> ranking.of.rows, of |-> ranking.of]
<1>1. /\ UNCHANGED <<now, verdicts, ranking, journal, draft>>
      /\ pc = "down" /\ pc' = "cycle" /\ started' = now
      /\ orphaned' = IF ranking # None /\ base' = None THEN ranking.of ELSE None
    BY DEF LoadExisting
<1>2. /\ payload' = ranking \/ (payload' = None /\ ~Readable(ranking) /\ base' = None)
      /\ base' # None => ranking # None /\ base' = known
    <2>1. CASE Readable(ranking)
        <3>1. ranking # None /\ payload' = ranking /\ base' = PersistedBase(ranking)
            BY <2>1 DEF LoadExisting, Readable
        <3> HIDE DEF known
        <3>2. PersistedBase(ranking) \in {None, known}
            BY <3>1, PersistedOK DEF known
        <3> QED BY <3>1, <3>2
    <2>2. CASE ~Readable(ranking)
        BY <2>2 DEF LoadExisting
    <2> QED BY <2>1, <2>2
<1>3. base' # None => base' \in Doc
    <2> SUFFICES ASSUME base' # None PROVE base' \in Doc
        OBVIOUS
    <2>1. ranking \in Doc
        BY <1>2 DEF SInv, TypeOK
    <2>2. ranking.of.rows \in Seq(Server)
        BY <2>1, MeasuredOK DEF ScorerAssumption
    <2> QED BY <1>2, <2>1, <2>2, MeasuredOK DEF Doc
<1> HIDE DEF known
<1>4. TypeOK'
    <2>1. ranking # None => ranking.of \in Measured
        BY MeasuredOK DEF SInv, TypeOK
    <2> QED BY <1>1, <1>2, <1>3, <2>1 DEF SInv, TypeOK
<1>5. VerdictsPast' /\ HonestAll' /\ BaseOfDoc' /\ Drafted'
    BY <1>1, <1>2 DEF SInv, VerdictsPast, HonestAll, BaseOfDoc, Drafted, known
<1>6. JournalInv'
    <2>1. ASSUME ranking # None, ~Orphaned', journal # <<>> PROVE Journalled(ranking.of)
        <3>1. base' # None
            BY <1>1, <2>1 DEF Orphaned
        <3>2. Readable(ranking) /\ base' = PersistedBase(ranking)
            BY <3>1 DEF LoadExisting
        <3>3. PICK i \in Matches(ranking) : TRUE
            BY <3>1, <3>2 DEF PersistedBase
        <3>4. journal[i] = ranking.of /\ i \in DOMAIN journal
            BY <2>1, <3>3 DEF SInv, JournalInv, Matches
        <3> QED BY <3>4 DEF Journalled
    <2> QED BY <1>1, <2>1 DEF SInv, JournalInv, Journalled
<1>7. Serving'
    <2>1. base' = None => ranking' = None \/ Orphaned'
        BY <1>1 DEF Orphaned
    <2>2. base' # None => ranking' # None /\ base'.of = ranking'.of
        BY <1>1, <1>2 DEF known
    <2>3. ConsumersAgree'
        <3>1. CASE payload' = ranking
            BY <1>1, <3>1 DEF ConsumersAgree
        <3>2. CASE payload' # ranking
            <4>1. payload' = None /\ ~Readable(ranking) /\ base' = None /\ ranking # None
                BY <1>2, <3>2
            <4>2. Orphaned' /\ ~Readable(ranking)'
                BY <1>1, <4>1 DEF Orphaned, Readable, Accepted
            <4> QED BY <4>1, <4>2 DEF ConsumersAgree
        <3> QED BY <3>1, <3>2
    <2> QED BY <2>1, <2>2, <2>3 DEF Serving
<1>8. Ages'
    BY <1>1 DEF SInv, TypeOK, Ages
<1> QED BY <1>4, <1>5, <1>6, <1>7, <1>8 DEF SInv

\* What a round drafts is honest about the measurement it is cut from.
LEMMA DraftOK ==
    ASSUME ScorerAssumption, SInv, NEW m \in Measured, NEW blamed \in Readings,
           NEW doc, doc = [gen |-> m.gen, rows |-> Kept(m.rows, blamed), of |-> m]
    PROVE  doc \in Doc /\ doc # None /\ m # None /\ Honest(doc) /\ doc.of = m /\ doc.gen = m.gen
<1>1. m.gen \in Nat /\ m.rows \in Measurements /\ m # None
    BY DEF Measured, ScorerAssumption
<1>2. /\ Kept(m.rows, blamed) \in Seq(Server) /\ IsRankedSubset(Kept(m.rows, blamed), m.rows)
      /\ Kept(m.rows, blamed) # <<>>
      /\ (Len(m.rows) - Len(Kept(m.rows, blamed))) * 100 <= Len(m.rows) * EjectPercent
    BY <1>1, KeptOK DEF SInv
<1>3. doc \in Doc
    BY <1>1, <1>2 DEF Doc
<1> QED BY <1>1, <1>2, <1>3, MeasuredOK DEF Honest

LEMMA MeasureKeeps == ASSUME ScorerAssumption, SInv, CycleMeasures PROVE SInv'
<1>1. /\ UNCHANGED <<now, verdicts, ranking, journal, payload, base, started, orphaned>>
      /\ pc = "cycle" /\ pc' = "journal" /\ now > started
    BY DEF CycleMeasures
<1>2. PICK rows \in Measurements, blamed \in Readings :
          draft' = [cand |-> [gen |-> now, rows |-> rows],
                    doc |-> [gen |-> now, rows |-> Kept(rows, blamed),
                             of |-> [gen |-> now, rows |-> rows]]]
    BY DEF CycleMeasures
<1> DEFINE cand == [gen |-> now, rows |-> rows]
           doc == [gen |-> cand.gen, rows |-> Kept(cand.rows, blamed), of |-> cand]
<1>3. cand \in Measured /\ cand.gen = now /\ now \in Nat
    BY DEF SInv, TypeOK, Measured
<1>4. draft' = [cand |-> cand, doc |-> doc]
    BY <1>2
<1> HIDE DEF cand
<1>5. doc \in Doc /\ doc # None /\ cand # None /\ Honest(doc) /\ doc.of = cand /\ doc.gen = cand.gen
    BY <1>3, DraftOK
<1> HIDE DEF doc
<1>6. draft'.cand = cand /\ draft'.doc = doc
    BY <1>4
<1>7. TypeOK'
    BY <1>1, <1>3, <1>4, <1>5 DEF SInv, TypeOK
<1>8. HonestAll'
    BY <1>1, <1>5, <1>6 DEF SInv, HonestAll, Honest
<1>9. VerdictsPast' /\ BaseOfDoc' /\ JournalInv' /\ Serving' /\ Ages'
    BY <1>1 DEF SInv, VerdictsPast, BaseOfDoc, JournalInv, Journalled, Serving, ConsumersAgree, Ages,
            Orphaned, Readable
<1>10. Drafted'
    <2>1. ranking # None => ranking.gen < now
        <3>1. ranking # None => ranking.gen \in Nat /\ ranking.gen <= started /\ started \in Nat
            BY <1>1, MeasuredOK DEF SInv, TypeOK, Ages
        <3> QED BY <1>1, <1>3, <3>1
    <2>2. UNCHANGED <<now, ranking>> /\ pc' = "journal" /\ cand.gen <= now
        BY <1>1, <1>3
    <2> QED BY <1>3, <1>5, <1>6, <2>1, <2>2 DEF Drafted
<1> QED BY <1>7, <1>8, <1>9, <1>10 DEF SInv

\* The new journal has the candidate and what is served, under different stamps.
LEMMA JournalKeeps == ASSUME ScorerAssumption, SInv, JournalPublished PROVE SInv'
<1>1. /\ UNCHANGED <<now, verdicts, ranking, payload, base, draft, started, orphaned>>
      /\ pc = "journal" /\ pc' = "publish" /\ journal' = JournalOf(draft.cand, base)
    BY DEF JournalPublished
<1>2. /\ draft.cand \in Measured /\ draft.cand # None /\ draft.cand.gen \in Nat
      /\ ranking # None => ranking.gen < draft.cand.gen
    BY <1>1 DEF SInv, TypeOK, Drafted, Measured
<1>3. journal' \in Seq(Measured) /\ Len(journal') <= 2 /\ Journalled(draft.cand)' /\ JournalInv'
    <2>1. CASE base = None
        <3>1. journal' = <<draft.cand>> /\ (ranking = None \/ Orphaned)
            BY <1>1, <2>1 DEF JournalOf, SInv, Serving
        <3>2. ranking # None => ranking.gen # draft.cand.gen
            BY <1>2, MeasuredOK DEF SInv, TypeOK
        <3> QED BY <1>1, <1>2, <3>1, <3>2 DEF JournalInv, Journalled, Orphaned
    <2>2. CASE base # None
        <3>1. ranking # None /\ base.of = ranking.of /\ ranking \in Doc
            BY <1>1, <2>2 DEF SInv, Serving, TypeOK
        <3>2. base.gen = ranking.of.gen /\ base.rows = ranking.of.rows /\ ranking.gen = ranking.of.gen
            BY <2>2, <3>1 DEF SInv, BaseOfDoc, HonestAll, Honest
        <3>3. ranking.of \in Measured /\ ranking.of.gen \in Nat
            BY <3>1, MeasuredOK
        <3>4. [gen |-> base.gen, rows |-> base.rows] = ranking.of
            BY <3>2, <3>3 DEF Measured
        <3>5. base.gen < draft.cand.gen
            BY <1>2, <3>1, <3>2
        <3>6. base.gen # draft.cand.gen
            BY <1>2, <3>2, <3>3, <3>5
        <3>7. journal' = <<draft.cand, ranking.of>>
            BY <1>1, <2>2, <3>4, <3>6 DEF JournalOf
        <3> QED BY <1>1, <1>2, <3>1, <3>2, <3>3, <3>6, <3>7 DEF JournalInv, Journalled
    <2> QED BY <2>1, <2>2
<1>4. TypeOK'
    BY <1>1, <1>3 DEF SInv, TypeOK
<1>5. VerdictsPast' /\ HonestAll' /\ BaseOfDoc' /\ Serving' /\ Ages'
    BY <1>1 DEF SInv, VerdictsPast, HonestAll, BaseOfDoc, Serving, ConsumersAgree, Ages,
            Orphaned, Readable
<1>6. Drafted'
    BY <1>1, <1>3 DEF SInv, Drafted
<1> QED BY <1>3, <1>4, <1>5, <1>6 DEF SInv

LEMMA PublishKeeps == ASSUME ScorerAssumption, SInv, RankingPublished PROVE SInv'
<1>1. /\ UNCHANGED <<now, verdicts, journal, payload, base, draft, started, orphaned>>
      /\ ranking' = draft.doc
    BY DEF RankingPublished
<1>2. draft.doc # None /\ draft.doc \in Doc /\ Honest(draft.doc)
    BY DEF RankingPublished, SInv, TypeOK, Drafted, HonestAll
<1>3. VerdictsPast' /\ HonestAll' /\ BaseOfDoc' /\ TypeOK'
    <2>1. pc' \in {"adopt", "readopt"}
        BY DEF RankingPublished
    <2> QED BY <1>1, <1>2, <2>1 DEF SInv, TypeOK, VerdictsPast, HonestAll, BaseOfDoc
<1>4. CASE pc = "publish"
    <2>1. pc' = "adopt"
        BY <1>4 DEF RankingPublished
    <2>2. draft.doc.of = draft.cand /\ draft.cand.gen <= now /\ Journalled(draft.cand)
        BY <1>4 DEF SInv, Drafted
    <2>3. draft.doc.gen <= now
        BY <1>2, <2>2 DEF Honest
    <2>4. JournalInv'
        <3>1. draft.doc.gen = draft.cand.gen
            BY <1>2, <2>2 DEF Honest
        <3>2. PICK i \in DOMAIN journal : journal[i] = draft.cand
            BY <2>2 DEF Journalled
        <3>3. \A j \in DOMAIN journal : journal[j].gen = draft.doc.gen => journal[j] = draft.doc.of
            BY <2>2, <3>1, <3>2 DEF SInv, JournalInv
        <3> QED BY <1>1, <2>2, <3>2, <3>3 DEF SInv, JournalInv, Journalled
    <2>5. Serving'
        BY <2>1 DEF Serving, ConsumersAgree
    <2>6. Ages' /\ Drafted'
        BY <1>1, <1>4, <2>1, <2>3 DEF SInv, Ages, Drafted
    <2> QED BY <1>3, <2>4, <2>5, <2>6 DEF SInv
<1>5. CASE pc = "republish"
    <2>1. pc' = "readopt"
        BY <1>5 DEF RankingPublished
    <2>2. base # None /\ ranking # None /\ draft.doc.of = base.of /\ base.of = ranking.of
        BY <1>5 DEF SInv, Drafted, Serving
    <2>3. ranking.gen = ranking.of.gen /\ draft.doc.gen = draft.doc.of.gen
        BY <1>2, <2>2 DEF SInv, HonestAll, Honest
    <2>4. JournalInv' /\ Serving'
        <3>1. ranking'.of = ranking.of /\ ranking'.gen = ranking.gen /\ ranking' # None
            BY <1>1, <1>2, <2>2, <2>3
        <3>2. Orphaned' <=> Orphaned
            BY <1>1, <2>2, <3>1 DEF Orphaned
        <3>3. JournalInv'
            BY <1>1, <2>2, <3>1, <3>2 DEF SInv, JournalInv, Journalled
        <3> QED BY <1>1, <2>1, <2>2, <3>1, <3>3 DEF Serving, ConsumersAgree
    <2>5. Ages' /\ Drafted'
        BY <1>1, <1>2, <1>5, <2>1, <2>2, <2>3 DEF SInv, Ages, Drafted
    <2> QED BY <1>3, <2>4, <2>5 DEF SInv
<1> QED BY <1>4, <1>5 DEF RankingPublished

LEMMA AdoptKeeps == ASSUME ScorerAssumption, SInv, AdoptCycle \/ AdoptRefresh PROVE SInv'
<1>1. /\ UNCHANGED <<now, verdicts, ranking, journal, started, orphaned>>
      /\ pc \in {"adopt", "readopt"} /\ pc' = "sleep"
      /\ payload' = draft.doc /\ draft' = NoDraft
    BY DEF AdoptCycle, AdoptRefresh
<1>2. ranking = draft.doc /\ draft.doc # None /\ draft.doc \in Doc
    BY <1>1 DEF SInv, Drafted, TypeOK
<1>3. /\ base' \in Doc /\ base' # None /\ base'.of = ranking.of
      /\ base'.gen = base'.of.gen /\ base'.rows = base'.of.rows
    <2>1. CASE AdoptCycle
        <3>1. draft.cand = ranking.of /\ base' = [gen |-> draft.cand.gen, rows |-> draft.cand.rows,
                                                  of |-> draft.cand]
            BY <1>2, <2>1 DEF AdoptCycle, SInv, Drafted
        <3>2. ranking.of \in Measured /\ ranking.of.gen \in Nat /\ ranking.of.rows \in Seq(Server)
            BY <1>2, MeasuredOK DEF ScorerAssumption
        <3>3. base' \in Doc
            BY <3>1, <3>2 DEF Doc
        <3> QED BY <3>1, <3>3, MeasuredOK
    <2>2. CASE AdoptRefresh
        <3>1. UNCHANGED base /\ pc = "readopt"
            BY <2>2 DEF AdoptRefresh
        <3> QED BY <3>1 DEF SInv, Drafted, Serving, BaseOfDoc, TypeOK
    <2> QED BY <2>1, <2>2
<1>4. TypeOK'
    BY <1>1, <1>2, <1>3 DEF SInv, TypeOK, NoDraft
<1>5. VerdictsPast' /\ HonestAll' /\ BaseOfDoc' /\ JournalInv'
    BY <1>1, <1>2, <1>3 DEF SInv, VerdictsPast, HonestAll, NoDraft, BaseOfDoc, JournalInv, Journalled, Orphaned
<1>6. Serving' /\ Ages' /\ Drafted'
    BY <1>1, <1>2, <1>3 DEF SInv, Serving, ConsumersAgree, Ages, Drafted,
            Orphaned, Readable
<1> QED BY <1>4, <1>5, <1>6 DEF SInv

LEMMA RefreshKeeps == ASSUME ScorerAssumption, SInv, Refresh PROVE SInv'
<1>1. /\ UNCHANGED <<now, verdicts, ranking, journal, payload, base, started, orphaned>>
      /\ pc = "sleep" /\ pc' = "republish" /\ base # None
    BY DEF Refresh
<1>2. PICK blamed \in Readings :
          draft' = [cand |-> None,
                    doc |-> [gen |-> base.gen, rows |-> Kept(base.rows, blamed), of |-> base.of]]
    BY DEF Refresh
<1>3. base.of \in Measured /\ base.gen = base.of.gen /\ base.rows = base.of.rows
    BY <1>1, MeasuredOK DEF SInv, BaseOfDoc, TypeOK
<1> DEFINE doc == [gen |-> base.of.gen, rows |-> Kept(base.of.rows, blamed), of |-> base.of]
<1>4. doc \in Doc /\ doc # None /\ Honest(doc) /\ doc.of = base.of
    BY <1>3, DraftOK
<1>5. draft' = [cand |-> None, doc |-> doc]
    BY <1>2, <1>3
<1> HIDE DEF doc
<1>6. TypeOK'
    BY <1>1, <1>4, <1>5 DEF SInv, TypeOK
<1>7. HonestAll'
    <2>1. draft'.doc = doc
        BY <1>5
    <2> QED BY <1>1, <1>4, <2>1 DEF SInv, HonestAll, Honest
<1>8. VerdictsPast' /\ BaseOfDoc' /\ JournalInv' /\ Serving' /\ Ages'
    BY <1>1 DEF SInv, VerdictsPast, BaseOfDoc, JournalInv, Journalled, Serving, ConsumersAgree, Ages,
            Orphaned, Readable
<1>9. Drafted'
    BY <1>1, <1>4, <1>5 DEF SInv, Serving, Drafted
<1> QED BY <1>6, <1>7, <1>8, <1>9 DEF SInv

LEMMA ScorerStepOK == ASSUME ScorerAssumption, SInv, [Next]_vars PROVE SInv'
<1>1. CASE UNCHANGED vars
    <2>1. UNCHANGED <<now, verdicts, ranking, journal, pc, payload, base, draft, started, orphaned>>
        BY <1>1 DEF vars
    <2>2. TypeOK' /\ VerdictsPast' /\ HonestAll' /\ BaseOfDoc' /\ JournalInv'
        BY <2>1 DEF SInv, TypeOK, VerdictsPast, HonestAll, BaseOfDoc, JournalInv, Journalled, Orphaned
    <2>3. Serving' /\ Ages' /\ Drafted'
        BY <2>1 DEF SInv, Serving, ConsumersAgree, Ages, Drafted, Journalled,
            Orphaned, Readable
    <2> QED BY <2>2, <2>3 DEF SInv
<1>2. CASE Next
    <2>1. CASE Crash \/ CrashLosesJournal
        BY <2>1, LoopKeeps DEF Crash, CrashLosesJournal
    <2>2. CASE StartCycle \/ CycleKeeps \/ PublishFails
        <3>1. UNCHANGED journal
            BY <2>2 DEF StartCycle, CycleKeeps, PublishFails
        <3> QED BY <2>2, <3>1, LoopKeeps
    <2> QED
        BY <1>2, <2>1, <2>2, WorldKeeps, LoadKeeps, MeasureKeeps, JournalKeeps, PublishKeeps, AdoptKeeps,
       RefreshKeeps DEF Next, Round
<1> QED BY <1>1, <1>2

-----------------------------------------------------------------------------
\* For any servers, verdicts, measurements and cap: what consumers read is stamped
\* with the time of its measurement, in measured order, never empty nor ejected past
\* the cap, and the same in the file and over HTTP (run_cycle, refresh_ejections,
\* apply_ejections, load_existing).
THEOREM RankingIsHonest == ASSUME ScorerAssumption PROVE Spec => []RankingHonest
<1>1. SInv => RankingHonest
    BY DEF SInv, HonestAll, Honest, Serving, RankingHonest, HonestStamp, EjectionBounded
<1> QED BY <1>1, ScorerInitOK, ScorerStepOK, PTL DEF Spec

\* However often a publish fails and the process dies, between any two steps: the
\* journal has the very measurement the public file was cut from, and a restart
\* finds that one (build_base_state, load_persisted_base).
THEOREM BaseIsRecoverable == ASSUME ScorerAssumption PROVE Spec => []BaseRecoverable
<1>1. SInv => BaseRecoverable
    <2> SUFFICES ASSUME SInv, ranking # None, JournalReadable, ~Orphaned
                 PROVE  /\ PersistedBase(ranking) # None
                        /\ PersistedBase(ranking).gen = ranking.of.gen
                        /\ PersistedBase(ranking).rows = ranking.of.rows
        BY DEF BaseRecoverable
    <2>1. ranking \in Doc
        BY DEF SInv, TypeOK
    <2>2. ranking.of \in Measured /\ ranking.of.gen \in Nat /\ ranking.of.rows \in Seq(Server)
        BY <2>1, MeasuredOK DEF ScorerAssumption
    <2>3. [gen |-> ranking.of.gen, rows |-> ranking.of.rows, of |-> ranking.of] \in Doc
        BY <2>2 DEF Doc
    <2> QED BY <2>3, PersistedOK, MeasuredOK
<1> QED BY <1>1, ScorerInitOK, ScorerStepOK, PTL DEF Spec

\* A scoring cycle replaces the public measurement by a newer one, and a refresh
\* keeps its stamp: consumers never go back (run_cycle, refresh_ejections).
THEOREM RankingIsNeverOlder == ASSUME ScorerAssumption PROVE Spec => NeverOlder
<1>1. ASSUME SInv, [Next]_vars, ranking # None, ranking' # None
      PROVE  ranking'.gen >= ranking.gen
    <2>1. ranking \in Doc /\ ranking.gen \in Nat
        BY <1>1, MeasuredOK DEF SInv, TypeOK
    <2>2. CASE UNCHANGED ranking
        BY <2>1, <2>2
    <2>3. CASE RankingPublished
        <3>1. ranking' = draft.doc /\ draft.doc # None /\ draft.doc \in Doc
            BY <1>1, <2>3 DEF RankingPublished, SInv, TypeOK
        <3>2. draft.doc.gen = draft.doc.of.gen /\ draft.doc.gen \in Nat /\ ranking.gen = ranking.of.gen
            BY <1>1, <3>1, MeasuredOK DEF SInv, HonestAll, Honest
        <3>3. CASE pc = "publish"
            BY <1>1, <2>1, <3>1, <3>2, <3>3 DEF SInv, Drafted
        <3>4. CASE pc = "republish"
            BY <1>1, <2>1, <3>1, <3>2, <3>4 DEF SInv, Drafted, Serving
        <3> QED BY <2>3, <3>3, <3>4 DEF RankingPublished
    <2> QED
        BY <1>1, <2>2, <2>3 DEF Next, Round, vars, Tick, VerdictArrives, LoadExisting, StartCycle,
            CycleKeeps, CycleMeasures, JournalPublished, PublishFails, AdoptCycle, Refresh,
            AdoptRefresh, Dies, Crash, CrashLosesJournal
<1> QED BY <1>1, ScorerInitOK, ScorerStepOK, PTL DEF Spec, NeverOlder
=============================================================================
