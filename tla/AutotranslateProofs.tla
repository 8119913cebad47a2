------------------------- MODULE AutotranslateProofs -------------------------
(***************************************************************************)
(* For any items, sizes and times: Bazarr has one translation of this      *)
(* program at most, and nothing is sent before its searches, within the    *)
(* grace of an attempt or within the pause after a failed one.             *)
(*                                                                         *)
(* The queue is safe because the worker sends only after a look that saw   *)
(* every translation ended, and nobody else sends for it in between        *)
(* (QueueInv).  The order of sends rests on what an entry of the dict, of  *)
(* the file or in the scanner's hand says of the past (Backed, Remembered, *)
(* Holding), and on who may change an entry while the worker or the        *)
(* scanner waits: an entry under way is still ready unless it was dropped  *)
(* (Attempt).                                                              *)
(***************************************************************************)
EXTENDS Autotranslate, TLAPS

\* The items each coroutine speaks of across its awaits are there
Keyed ==
    /\ worker.at \in {"look", "send", "poll"} => worker.key \in Items
    /\ scan.at = "search" => scan.item \in Items /\ scan.held \in Entry
                             /\ scan.held.phase = "search" /\ scan.held.rounds < SearchRounds

\* Between the look and the queueing of a job none of this program runs
QueueInv ==
    /\ OneAtATime
    /\ worker.at = "send" =>
           \A n \in DOMAIN jobs : jobs[n].of # Other => jobs[n].status # "running"

\* An entry claims no more searches than have succeeded, and a ready one, or one
\* that was sent, all of them
BackedBy(e, n) == e # None => e.rounds <= n /\ (e.phase # "search" => n = SearchRounds)

Backed ==
    /\ \A i \in Items : BackedBy(state[i], searched[i]) /\ BackedBy(disk[i], searched[i])
    /\ scan.at = "search" => BackedBy(scan.held, searched[scan.item])
    /\ worker.at \in {"send", "poll"} => searched[worker.key] = SearchRounds

\* A recent attempt that was not interrupted by a drop is dated in dict and file
Dated(e, n) == e # None /\ e.phase = "translate" /\ e.age = n

Remembered ==
    \A i \in Items : since[i] # None /\ i \notin dropped =>
        Dated(state[i], since[i]) /\ Dated(disk[i], since[i])

\* Dropping is the only thing that happens to an entry whose attempt is under way
Attempt ==
    \A i \in Items : UnderWay(i) =>
        /\ since[i] = None
        /\ i \in dropped \/ (state[i] # None /\ state[i].phase = "ready")

\* The item the scanner holds is not ready, and was dropped if it had an attempt
Holding ==
    scan.at = "search" =>
        /\ state[scan.item] = None \/ state[scan.item].phase # "ready"
        /\ since[scan.item] # None \/ UnderWay(scan.item) => scan.item \in dropped

\* The pause is as old as the failure it follows
Paused == failedFor < Pause /\ ~excused => worker.at = "pause" /\ worker.time = failedFor

OrderInv == Backed /\ Remembered /\ Attempt /\ Holding /\ Paused

AInv == TypeOK /\ Keyed /\ QueueInv /\ OrderInv

-----------------------------------------------------------------------------
(* Entries *)

Entries == Entry \union {None}

LEMMA Numbers ==
    ASSUME AutotranslateAssumption
    PROVE  /\ AgeCap \in Nat /\ MaxLag <= AgeCap /\ Grace <= AgeCap /\ Grace \in Nat \ {0}
           /\ SearchRounds \in Nat \ {0} /\ MaxLag \in Nat /\ Pause \in Nat \ {0}
           /\ JobTimeout \in Nat \ {0} /\ RoundSpacing \in Nat \ {0} /\ MaxFaults \in Nat
           /\ None \notin Nat /\ None \notin Items /\ None \notin Entry /\ Other \notin Items
BY DEF AutotranslateAssumption, AgeCap

LEMMA NewEntryOK ==
    ASSUME AutotranslateAssumption
    PROVE  /\ NewEntry \in Entry /\ NewEntry.phase = "search"
           /\ \A n \in 0..SearchRounds : BackedBy(NewEntry, n)
BY Numbers DEF NewEntry, Entry, BackedBy

LEMMA AgedOK ==
    ASSUME AutotranslateAssumption, NEW e \in Entries
    PROVE  /\ Aged(e) \in Entries /\ (Aged(e) = None <=> e = None)
           /\ e # None => Aged(e).phase = e.phase /\ Aged(e).rounds = e.rounds
           /\ \A n \in 0..SearchRounds : BackedBy(e, n) => BackedBy(Aged(e), n)
           /\ \A n \in Nat : n < Grace /\ Dated(e, n) => Dated(Aged(e), n + 1)
<1> USE Numbers
<1>1. CASE e = None \/ e.phase = "ready"
    BY <1>1 DEF Aged, Entries, Dated
<1>2. CASE e # None /\ e.phase # "ready"
    <2>1. e \in Entry /\ Aged(e) = [e EXCEPT !.age = Older(e.age, AgeCap)]
        BY <1>2 DEF Aged, Entries
    <2>2. e.age \in 0..AgeCap /\ Older(e.age, AgeCap) \in 0..AgeCap
        BY <2>1 DEF Entry, Older
    <2>3. Aged(e) \in Entry /\ Aged(e).phase = e.phase /\ Aged(e).rounds = e.rounds
            /\ Aged(e).age = Older(e.age, AgeCap)
        BY <2>1, <2>2 DEF Entry
    <2> QED BY <2>1, <2>2, <2>3 DEF Entries, BackedBy, Dated, Older
<1> QED BY <1>1, <1>2

LEMMA CountedOK ==
    ASSUME AutotranslateAssumption, NEW e \in Entry, e.rounds < SearchRounds, NEW lag \in 0..MaxLag
    PROVE  LET counted == [e EXCEPT !.rounds = @ + 1, !.age = lag]
           IN  counted \in Entry /\ counted.phase = e.phase /\ counted.rounds = e.rounds + 1
<1>1. e.rounds + 1 \in 0..SearchRounds /\ lag \in 0..AgeCap
    BY Numbers DEF Entry
<1> QED BY <1>1 DEF Entry

\* What the scanner's judgement leaves of an entry: a recent attempt as it is, and a
\* ready entry ready.
LEMMA JudgedOK ==
    ASSUME AutotranslateAssumption, NEW e \in Entry, NEW lag \in 0..MaxLag
    PROVE  /\ Judged(e, lag) \in Entry
           /\ \A n \in 0..SearchRounds : BackedBy(e, n) => BackedBy(Judged(e, lag), n)
           /\ \A n \in Nat : n < Grace /\ Dated(e, n) => Judged(e, lag) = e
           /\ e.phase = "ready" => Judged(e, lag).phase = "ready"
<1>1. [phase |-> "ready", rounds |-> e.rounds, age |-> 0] \in Entry
    BY Numbers DEF Entry
<1>2. Judged(e, lag) \in Entry
    BY <1>1 DEF Judged
<1>3. \A n \in 0..SearchRounds : BackedBy(e, n) => BackedBy(Judged(e, lag), n)
    BY <1>1, Numbers DEF Judged, BackedBy, Entry
<1>4. \A n \in Nat : n < Grace /\ Dated(e, n) => Judged(e, lag) = e
    BY Numbers DEF Judged, Dated
<1>5. e.phase = "ready" => Judged(e, lag).phase = "ready"
    BY DEF Judged
<1> QED BY <1>2, <1>3, <1>4, <1>5

-----------------------------------------------------------------------------
(* The scanner's loop *)

EntryOf(e) == IF e = None THEN NewEntry ELSE e

LEMMA SaveShape ==
    ASSUME AutotranslateAssumption, TypeOK, NEW s, SaveScan(s)
    PROVE  /\ state' = s /\ disk' \in {disk, state'}
           /\ scan'.at = "wanted" /\ faults' \in 0..MaxFaults
           /\ scan' \in [at : {"wanted", "meta", "search"}, kind : Kinds, todo : SUBSET Items,
                         item : Items \union {None}, held : Entry \union {None}, lag : 0..MaxLag]
<1>1. scan'.at = "wanted"
        /\ scan' \in [at : {"wanted", "meta", "search"}, kind : Kinds, todo : SUBSET Items,
                      item : Items \union {None}, held : Entry \union {None}, lag : 0..MaxLag]
    BY Numbers DEF SaveScan, AfterScan, AtScan, Kinds
<1>2. state' = s /\ disk' \in {disk, state'} /\ faults' \in 0..MaxFaults
    BY SMTT(60), Numbers DEF SaveScan, Fault, TypeOK
<1> QED BY <1>1, <1>2

\* The loop judges entries of s and either ends with a save or stops at an item that
\* is due, whose entry it has not touched.
LEMMA ContinueShape ==
    ASSUME AutotranslateAssumption, TypeOK, NEW s \in [Items -> Entries],
           NEW todo \in SUBSET Items, NEW lag \in 0..MaxLag, Continue(s, todo, lag)
    PROVE  /\ state' \in [Items -> Entries] /\ disk' \in {disk, state'}
           /\ \A i \in Items : state'[i] \in {s[i], Judged(EntryOf(s[i]), lag)}
           /\ scan' \in [at : {"wanted", "meta", "search"}, kind : Kinds, todo : SUBSET Items,
                         item : Items \union {None}, held : Entry \union {None}, lag : 0..MaxLag]
           /\ scan'.at \in {"wanted", "search"}
           /\ scan'.at = "search" =>
                  /\ scan'.item \in Items /\ scan'.held = EntryOf(s[scan'.item])
                  /\ scan'.held \in Entry /\ Due(scan'.held, lag)
                  /\ state'[scan'.item] = s[scan'.item]
           /\ faults' \in 0..MaxFaults
<1>1. \A i \in Items : EntryOf(s[i]) \in Entry
    BY NewEntryOK DEF EntryOf, Entries
<1>2. PICK done \in SUBSET todo :
        LET passed == [i \in Items |-> IF i \in done THEN Judged(EntryOf(s[i]), lag) ELSE s[i]]
        IN  \/ SaveScan(passed)
            \/ \E i \in todo \ done :
                 /\ Due(EntryOf(s[i]), lag)
                 /\ state' = passed
                 /\ scan' = [scan EXCEPT !.at = "search", !.todo = todo \ (done \union {i}),
                                         !.item = i, !.held = EntryOf(s[i]), !.lag = lag]
                 /\ UNCHANGED <<disk, faults>>
    BY DEF Continue, EntryOf
<1> DEFINE passed == [i \in Items |-> IF i \in done THEN Judged(EntryOf(s[i]), lag) ELSE s[i]]
<1>3. passed \in [Items -> Entries]
    BY <1>1, JudgedOK DEF Entries
<1>4. CASE SaveScan(passed)
    BY <1>3, <1>4, SaveShape
<1>5. ASSUME NEW i \in todo \ done, Due(EntryOf(s[i]), lag), state' = passed,
             scan' = [scan EXCEPT !.at = "search", !.todo = todo \ (done \union {i}),
                                  !.item = i, !.held = EntryOf(s[i]), !.lag = lag],
             UNCHANGED <<disk, faults>>
      PROVE  /\ scan' \in [at : {"wanted", "meta", "search"}, kind : Kinds, todo : SUBSET Items,
                           item : Items \union {None}, held : Entry \union {None}, lag : 0..MaxLag]
             /\ scan'.at = "search" /\ scan'.item = i /\ scan'.held = EntryOf(s[i])
    BY <1>1, <1>5 DEF TypeOK
<1>6. \A i \in Items : passed[i] \in {s[i], Judged(EntryOf(s[i]), lag)}
    OBVIOUS
<1>7. CASE \E i \in todo \ done :
            /\ Due(EntryOf(s[i]), lag)
            /\ state' = passed
            /\ scan' = [scan EXCEPT !.at = "search", !.todo = todo \ (done \union {i}),
                                    !.item = i, !.held = EntryOf(s[i]), !.lag = lag]
            /\ UNCHANGED <<disk, faults>>
    <2>1. PICK i \in todo \ done :
            /\ Due(EntryOf(s[i]), lag)
            /\ state' = passed
            /\ scan' = [scan EXCEPT !.at = "search", !.todo = todo \ (done \union {i}),
                                    !.item = i, !.held = EntryOf(s[i]), !.lag = lag]
            /\ UNCHANGED <<disk, faults>>
        BY <1>7
    <2>2. passed[i] = s[i] /\ i \in Items
        OBVIOUS
    <2>3. faults \in 0..MaxFaults
        BY DEF TypeOK
    <2> HIDE DEF passed
    <2> QED BY <1>1, <1>3, <1>5, <1>6, <2>1, <2>2, <2>3
<1> QED BY <1>2, <1>4, <1>6, <1>7

\* A step of the loop keeps what entries say, when s, the file and the ghosts agree
\* before it and the worker stands still.
LEMMA ContinueKeeps ==
    ASSUME AutotranslateAssumption, AInv, NEW s \in [Items -> Entries],
           NEW todo \in SUBSET Items, NEW lag \in 0..MaxLag, Continue(s, todo, lag),
           UNCHANGED <<worker, since, dropped, failedFor, excused>>,
           searched' \in [Items -> 0..SearchRounds],
           \A i \in Items : BackedBy(s[i], searched'[i]) /\ BackedBy(disk[i], searched'[i]),
           \A i \in Items : searched[i] = SearchRounds => searched'[i] = SearchRounds,
           \A i \in Items : since[i] # None /\ i \notin dropped => Dated(s[i], since[i]),
           \A i \in Items : UnderWay(i) =>
                  i \in dropped \/ (s[i] # None /\ s[i].phase = "ready")
    PROVE  OrderInv'
<1> USE Numbers DEF AInv
<1>0. /\ state' \in [Items -> Entries] /\ disk' \in {disk, state'}
      /\ \A i \in Items : state'[i] \in {s[i], Judged(EntryOf(s[i]), lag)}
      /\ scan'.at \in {"wanted", "search"}
      /\ scan'.at = "search" =>
             /\ scan'.item \in Items /\ scan'.held = EntryOf(s[scan'.item])
             /\ scan'.held \in Entry /\ Due(scan'.held, lag)
             /\ state'[scan'.item] = s[scan'.item]
    BY ContinueShape
<1>1. \A i \in Items : EntryOf(s[i]) \in Entry /\ BackedBy(EntryOf(s[i]), searched'[i])
    BY NewEntryOK DEF EntryOf, Entries, BackedBy
<1>2. \A i \in Items : BackedBy(state'[i], searched'[i])
    BY <1>0, <1>1, JudgedOK
<1>3. Backed'
    BY <1>0, <1>1, <1>2 DEF Backed, OrderInv, Keyed
<1>4. \A i \in Items : since[i] # None /\ i \notin dropped => state'[i] = s[i]
    <2> SUFFICES ASSUME NEW i \in Items, since[i] # None, i \notin dropped
                 PROVE  state'[i] = s[i]
        OBVIOUS
    <2>1. since[i] \in 0..(Grace - 1) \union {None}
        BY DEF TypeOK
    <2>2. Dated(s[i], since[i]) /\ since[i] \in Nat /\ since[i] < Grace
        BY <2>1
    <2>3. EntryOf(s[i]) = s[i]
        BY <2>2 DEF Dated, EntryOf
    <2>4. Judged(s[i], lag) = s[i]
        BY <1>1, <2>2, <2>3, JudgedOK
    <2> QED BY <1>0, <2>3, <2>4
<1>5. Remembered'
    BY <1>0, <1>4 DEF Remembered, OrderInv
<1>6. \A i \in Items : s[i] # None /\ s[i].phase = "ready" =>
                          state'[i] # None /\ state'[i].phase = "ready"
    <2> SUFFICES ASSUME NEW i \in Items, s[i] # None, s[i].phase = "ready"
                 PROVE  state'[i] # None /\ state'[i].phase = "ready"
        OBVIOUS
    <2>1. EntryOf(s[i]) = s[i] /\ s[i] \in Entry
        BY DEF EntryOf, Entries
    <2> QED BY <1>0, <2>1, JudgedOK
<1>7. Attempt'
    BY <1>6 DEF Attempt, UnderWay, OrderInv
<1>8. Holding'
    <2> SUFFICES ASSUME scan'.at = "search" PROVE Holding'
        BY DEF Holding
    <2>1. PICK i \in Items : i = scan'.item /\ Due(EntryOf(s[i]), lag) /\ state'[i] = s[i]
        BY <1>0
    <2>2. s[i] = None \/ s[i].phase = "search"
        BY <2>1 DEF Due, EntryOf
    <2>3. since[i] # None \/ UnderWay(i) => i \in dropped
        BY <2>2 DEF Dated
    <2> QED BY <2>1, <2>2, <2>3 DEF Holding, UnderWay
<1>9. Paused'
    BY DEF Paused, OrderInv
<1> QED BY <1>0, <1>3, <1>5, <1>7, <1>8, <1>9 DEF OrderInv

LEMMA ScannerKeeps == ASSUME AutotranslateAssumption, AInv, ScanNext PROVE AInv'
<1> USE Numbers DEF AInv
<1>0. state \in [Items -> Entries] /\ disk \in [Items -> Entries] /\ searched \in [Items -> 0..SearchRounds]
    BY DEF TypeOK, Entries
<1>1. CASE WantedFails
    <2>1. scan'.at = "wanted"
            /\ scan' \in [at : {"wanted", "meta", "search"}, kind : Kinds, todo : SUBSET Items,
                          item : Items \union {None}, held : Entry \union {None}, lag : 0..MaxLag]
        BY <1>1 DEF WantedFails, AfterScan, AtScan, Kinds
    <2> QED
        BY <1>1, <2>1 DEF WantedFails, bazarr, ghosts, TypeOK, Keyed, QueueInv, OneAtATime, OrderInv,
            Backed, Remembered, Attempt, Holding, Paused, UnderWay
<1>2. CASE WantedComes
    <2>1. PICK wanted \in SUBSET OfKind(scan.kind) :
            LET gone == OfKind(scan.kind) \ wanted
                kept == [i \in Items |-> IF i \in gone THEN None ELSE state[i]]
            IN  /\ IF wanted = {}
                   THEN SaveScan(kept)
                   ELSE /\ state' = kept
                        /\ scan' = [scan EXCEPT !.at = "meta", !.todo = wanted]
                        /\ UNCHANGED <<disk, faults>>
                /\ since' = [i \in Items |-> IF i \in gone THEN None ELSE since[i]]
                /\ dropped' = (dropped \ gone) \union {i \in gone : UnderWay(i)}
        BY <1>2 DEF WantedComes
    <2> DEFINE gone == OfKind(scan.kind) \ wanted
               kept == [i \in Items |-> IF i \in gone THEN None ELSE state[i]]
    <2>2. wanted \in SUBSET Items /\ gone \subseteq Items
        BY DEF OfKind, AutotranslateAssumption
    <2>3. /\ state' = kept /\ disk' \in {disk, state'} /\ scan'.at # "search" /\ faults' \in 0..MaxFaults
          /\ scan' \in [at : {"wanted", "meta", "search"}, kind : Kinds, todo : SUBSET Items,
                        item : Items \union {None}, held : Entry \union {None}, lag : 0..MaxLag]
        <3>1. CASE wanted = {} BY <2>1, <3>1, SaveShape
        <3>2. CASE wanted # {} BY <2>1, <2>2, <3>2 DEF TypeOK
        <3> QED BY <3>1, <3>2
    <2>4. UNCHANGED <<worker, jobs, reset, failedFor, excused, searched>>
        BY <1>2 DEF WantedComes, bazarr
    <2>5. since' \in [Items -> 0..(Grace - 1) \union {None}] /\ dropped' \subseteq Items
        BY <2>1, <2>2 DEF TypeOK
    <2>6. TypeOK'
        BY <1>0, <2>3, <2>4, <2>5 DEF TypeOK, Entries
    <2>7. Keyed' /\ QueueInv' /\ Holding' /\ Paused'
        BY <2>3, <2>4 DEF Keyed, QueueInv, OneAtATime, OrderInv, Holding, Paused
    <2>8. Backed'
        BY <1>0, <2>3, <2>4 DEF OrderInv, Backed, BackedBy
    <2>9. Remembered'
        BY <1>0, <2>1, <2>3, <2>4 DEF OrderInv, Remembered
    <2>10. Attempt'
        BY <1>0, <2>1, <2>3, <2>4 DEF OrderInv, Attempt, UnderWay
    <2> QED BY <2>6, <2>7, <2>8, <2>9, <2>10 DEF OrderInv
<1>3. ASSUME NEW s \in [Items -> Entries], NEW todo \in SUBSET Items, NEW lag \in 0..MaxLag,
             Continue(s, todo, lag), OrderInv', searched' \in [Items -> 0..SearchRounds],
             UNCHANGED <<worker, bazarr, since, dropped, failedFor, excused>>
      PROVE  AInv'
    <2>1. TypeOK'
        BY <1>0, <1>3, ContinueShape DEF TypeOK, Entries, bazarr
    <2>2. Keyed'
        BY <1>3, ContinueShape DEF Keyed, Due
    <2>3. QueueInv'
        BY <1>3 DEF QueueInv, OneAtATime, bazarr
    <2> QED BY <1>3, <2>1, <2>2, <2>3
<1>4. CASE MetadataComes
    <2>1. PICK candidates \in SUBSET scan.todo : Continue(state, candidates, 0)
        BY <1>4 DEF MetadataComes
    <2>2. candidates \in SUBSET Items /\ 0 \in 0..MaxLag
        BY DEF TypeOK
    <2>3. UNCHANGED <<worker, bazarr, since, dropped, failedFor, excused, searched>>
        BY <1>4 DEF MetadataComes, ghosts
    <2>4. OrderInv'
        BY <1>0, <2>1, <2>2, <2>3, ContinueKeeps DEF OrderInv, Backed, Remembered, Attempt
    <2> QED BY <1>0, <1>3, <2>1, <2>2, <2>3, <2>4
<1>5. CASE SearchReturns
    <2>1. PICK ok \in BOOLEAN :
            LET counted == [scan.held EXCEPT !.rounds = @ + 1, !.age = scan.lag]
            IN  /\ Continue([state EXCEPT ![scan.item] = IF ok THEN counted ELSE scan.held],
                            scan.todo, scan.lag)
                /\ searched' = [searched EXCEPT ![scan.item] = IF ok THEN Older(@, SearchRounds) ELSE @]
        BY <1>5 DEF SearchReturns
    <2> DEFINE item == scan.item
               held == scan.held
               back == IF ok THEN [held EXCEPT !.rounds = @ + 1, !.age = scan.lag] ELSE held
               s == [state EXCEPT ![item] = back]
    <2>2. /\ item \in Items /\ held \in Entry /\ held.phase = "search" /\ held.rounds < SearchRounds
          /\ scan.lag \in 0..MaxLag /\ scan.todo \in SUBSET Items /\ scan.at = "search"
        BY <1>5 DEF SearchReturns, Keyed, TypeOK
    <2>3. held.rounds \in 0..SearchRounds /\ held.rounds <= searched[item] /\ searched[item] \in 0..SearchRounds
        BY <1>0, <2>2 DEF Entry, OrderInv, Backed, BackedBy
    <2>4. back \in Entry /\ back.phase = "search"
            /\ back.rounds = IF ok THEN held.rounds + 1 ELSE held.rounds
        <3> DEFINE counted == [held EXCEPT !.rounds = @ + 1, !.age = scan.lag]
        <3>1. counted \in Entry /\ counted.phase = held.phase /\ counted.rounds = held.rounds + 1
            BY <2>2, CountedOK, Zenon
        <3>2. counted \in Entry /\ counted.phase = "search" /\ counted.rounds = held.rounds + 1
            BY <2>2, <3>1
        <3> HIDE DEF counted
        <3>3. back = IF ok THEN counted ELSE held
            BY DEF counted
        <3> HIDE DEF back
        <3> QED BY <2>2, <3>2, <3>3
    <2>5. s \in [Items -> Entries] /\ s[item] = back /\ \A i \in Items \ {item} : s[i] = state[i]
        BY <1>0, <2>2, <2>4 DEF Entries
    <2>6. /\ searched' \in [Items -> 0..SearchRounds]
          /\ \A i \in Items \ {item} : searched'[i] = searched[i]
          /\ searched'[item] = IF ok THEN Older(searched[item], SearchRounds) ELSE searched[item]
        BY <1>0, <2>1, <2>2, <2>3 DEF Older
    <2>7. BackedBy(back, searched'[item])
        <3> HIDE DEF back, held, item
        <3>1. back.rounds <= searched'[item]
            BY <2>2, <2>3, <2>4, <2>6 DEF Older
        <3> QED BY <2>4, <3>1 DEF BackedBy
    <2>8. \A i \in Items : /\ searched[i] <= searched'[i]
                           /\ searched[i] = SearchRounds => searched'[i] = SearchRounds
        BY <1>0, <2>3, <2>6 DEF Older
    <2>9. \A i \in Items : BackedBy(disk[i], searched'[i])
        <3> TAKE i \in Items
        <3>1. BackedBy(disk[i], searched[i]) /\ disk[i] \in Entries
            BY <1>0 DEF OrderInv, Backed
        <3> QED BY <1>0, <2>6, <2>8, <3>1 DEF BackedBy, Entries, Entry
    <2>10. \A i \in Items : BackedBy(s[i], searched'[i])
        BY <2>5, <2>6, <2>7 DEF OrderInv, Backed
    <2>11. \A i \in Items : since[i] # None /\ i \notin dropped => Dated(s[i], since[i])
        BY <2>2, <2>5 DEF OrderInv, Holding, Remembered
    <2>12. \A i \in Items : UnderWay(i) => i \in dropped \/ (s[i] # None /\ s[i].phase = "ready")
        BY <2>2, <2>5 DEF OrderInv, Holding, Attempt
    <2>13. Continue(s, scan.todo, scan.lag)
        BY <2>1
    <2>14. UNCHANGED <<worker, bazarr, since, dropped, failedFor, excused>>
        BY <1>5 DEF SearchReturns
    <2> HIDE DEF s, back, item, held
    <2>15. OrderInv'
        BY <2>2, <2>5, <2>6, <2>8, <2>9, <2>10, <2>11, <2>12, <2>13, <2>14, ContinueKeeps
    <2> QED BY <1>3, <2>2, <2>5, <2>6, <2>13, <2>14, <2>15
<1> QED BY <1>1, <1>2, <1>4, <1>5 DEF ScanNext

-----------------------------------------------------------------------------
(* The worker *)

WorkerRecord ==
    [at : {"pick", "look", "send", "poll", "pause"}, key : Items \union {None},
     rounds : 0..SearchRounds, time : 0..(JobTimeout + Pause)]

LEMMA AtPickOK ==
    ASSUME AutotranslateAssumption
    PROVE  /\ AtPick \in WorkerRecord /\ AtPick.at = "pick"
           /\ [AtPick EXCEPT !.at = "pause"] \in WorkerRecord
           /\ [AtPick EXCEPT !.at = "pause"].at = "pause" /\ [AtPick EXCEPT !.at = "pause"].time = 0
BY Numbers DEF AtPick, WorkerRecord

\* The end of an attempt: the entry is dated in dict and file alike, or the attempt
\* was not recorded and nothing is claimed of it.
LEMMA FinishKeeps ==
    ASSUME AutotranslateAssumption, AInv, worker.at \in {"send", "poll"},
           NEW result \in {"completed", "failed"}, Finish(result),
           reset' \in BOOLEAN, jobs' \in Seq(Job), OneAtATime'
    PROVE  AInv'
<1> USE Numbers DEF AInv
<1> DEFINE key == worker.key
           failed == result = "failed"
           ended == [phase |-> "translate", rounds |-> worker.rounds, age |-> 0]
           next == IF failed THEN [AtPick EXCEPT !.at = "pause"] ELSE AtPick
<1>1. /\ key \in Items /\ UnderWay(key) /\ since[key] = None
      /\ searched[key] = SearchRounds /\ worker.rounds \in 0..SearchRounds
    BY DEF Keyed, TypeOK, UnderWay, OrderInv, Attempt, Backed
<1>2. ended \in Entry /\ BackedBy(ended, searched[key]) /\ Dated(ended, 0)
    BY <1>1 DEF Entry, BackedBy, Dated
<1>3. /\ worker' \in {AtPick, next} /\ worker' \in WorkerRecord
      /\ worker'.at \in {"pick", "pause"}
      /\ worker' = next /\ failed => worker'.at = "pause" /\ worker'.time = 0
    BY AtPickOK DEF Finish, Record
<1>4. /\ UNCHANGED <<scan, searched>> /\ failedFor' = IF failed THEN 0 ELSE failedFor
      /\ dropped' = {i \in dropped : since'[i] # None}
    BY DEF Finish, Record
<1>5. \/ UNCHANGED <<state, disk, since>>
      \/ /\ state' = [state EXCEPT ![key] = ended] /\ disk' = state'
         /\ since' = [since EXCEPT ![key] = 0]
      \/ state' = [state EXCEPT ![key] = ended] /\ UNCHANGED <<disk, since>>
    BY Zenon DEF Finish, Record
<1>16. \/ worker' = next /\ (excused' <=> (excused /\ ~failed))
       \/ excused' <=> (excused \/ failed)
    BY Zenon DEF Finish, Record
<1>17. excused' \in BOOLEAN
    BY Zenon DEF Finish, Record
<1>15. UNCHANGED faults \/ Fault
    BY Zenon DEF Finish, Record
<1> HIDE DEF ended, next
<1>6. state \in [Items -> Entries] /\ disk \in [Items -> Entries] /\ since \in [Items -> 0..(Grace - 1) \union {None}]
    BY DEF TypeOK, Entries
<1>7. /\ state' \in [Items -> Entries] /\ disk' \in [Items -> Entries]
      /\ since' \in [Items -> 0..(Grace - 1) \union {None}] /\ faults' \in 0..MaxFaults
    <2>1. [state EXCEPT ![key] = ended] \in [Items -> Entries]
            /\ [since EXCEPT ![key] = 0] \in [Items -> 0..(Grace - 1) \union {None}]
        BY <1>1, <1>2, <1>6 DEF Entries
    <2>2. faults \in 0..MaxFaults
        BY DEF TypeOK
    <2>3. faults' \in 0..MaxFaults
        BY <1>15, <2>2 DEF Fault
    <2>4. CASE UNCHANGED <<state, disk, since>>
        BY <1>6, <2>3, <2>4
    <2>5. CASE state' = [state EXCEPT ![key] = ended] /\ disk' = state' /\ since' = [since EXCEPT ![key] = 0]
        BY <2>1, <2>3, <2>5
    <2>6. CASE state' = [state EXCEPT ![key] = ended] /\ UNCHANGED <<disk, since>>
        BY <1>6, <2>1, <2>3, <2>6
    <2> QED BY <1>5, <2>4, <2>5, <2>6
<1>8. TypeOK'
    <2>1. failedFor' \in 0..Pause /\ dropped' \subseteq Items
        <3>1. failedFor \in 0..Pause /\ dropped \subseteq Items
            BY DEF TypeOK
        <3> QED BY <1>4, <3>1
    <2>2. /\ searched' \in [Items -> 0..SearchRounds]
          /\ scan' \in [at : {"wanted", "meta", "search"}, kind : Kinds, todo : SUBSET Items,
                        item : Items \union {None}, held : Entry \union {None}, lag : 0..MaxLag]
        BY <1>4 DEF TypeOK
    <2> QED BY <1>3, <1>7, <1>17, <2>1, <2>2, Zenon DEF TypeOK, Entries, WorkerRecord
<1>9. Keyed' /\ QueueInv'
    BY <1>3, <1>4 DEF Keyed, QueueInv
<1>10. Backed'
    <2>1. \A i \in Items : BackedBy(state'[i], searched[i]) /\ BackedBy(disk'[i], searched[i])
        <3> TAKE i \in Items
        <3>1. BackedBy(state[i], searched[i]) /\ BackedBy(disk[i], searched[i])
            BY DEF OrderInv, Backed
        <3>2. state'[i] \in {state[i], IF i = key THEN ended ELSE state[i]} /\ disk'[i] \in {disk[i], state'[i]}
            BY <1>1, <1>5, <1>6
        <3> QED BY <1>2, <3>1, <3>2
    <2>2. scan.at = "search" => BackedBy(scan.held, searched[scan.item])
        BY DEF OrderInv, Backed
    <2> QED BY <1>3, <1>4, <2>1, <2>2 DEF Backed
<1>11. Remembered'
    <2> SUFFICES ASSUME NEW i \in Items, since'[i] # None, i \notin dropped'
                 PROVE  Dated(state'[i], since'[i]) /\ Dated(disk'[i], since'[i])
        BY DEF Remembered
    <2>1. i \notin dropped
        BY <1>4
    <2>2. CASE i = key
        BY <1>1, <1>2, <1>5, <1>6, <2>2
    <2>3. CASE i # key
        BY <1>1, <1>5, <1>6, <2>1, <2>3 DEF OrderInv, Remembered
    <2> QED BY <2>2, <2>3
<1>12. Attempt'
    BY <1>3 DEF Attempt, UnderWay
<1>13. Holding'
    <2> SUFFICES ASSUME scan.at = "search" PROVE Holding'
        BY <1>4 DEF Holding
    <2>1. scan.item \in Items /\ (scan.item = key => key \in dropped)
        BY <1>1 DEF Keyed, OrderInv, Holding
    <2>2. state'[scan.item] = None \/ state'[scan.item].phase # "ready"
        BY <1>1, <1>2, <1>5, <1>6, <2>1 DEF OrderInv, Holding, Dated
    <2>3. since'[scan.item] # None => scan.item \in dropped'
        BY <1>1, <1>4, <1>5, <1>6, <2>1 DEF OrderInv, Holding
    <2> QED BY <1>3, <1>4, <2>2, <2>3 DEF Holding, UnderWay
<1>14. Paused'
    <2> SUFFICES ASSUME failedFor' < Pause, ~excused' PROVE worker'.at = "pause" /\ worker'.time = failedFor'
        BY DEF Paused
    <2>1. ~failed => failedFor' = failedFor /\ ~excused
        BY <1>4, <1>16
    <2>2. failed
        BY <2>1 DEF OrderInv, Paused
    <2> QED BY <1>3, <1>4, <1>16, <2>2
<1> QED BY <1>8, <1>9, <1>10, <1>11, <1>12, <1>13, <1>14 DEF OrderInv

\* A translation that enters the queue: this program's comes when it has none running.
LEMMA QueuedOK ==
    ASSUME AutotranslateAssumption, AInv, NEW owner \in Items \union {Other}, Queued(owner),
           owner = Other \/ worker.at = "send"
    PROVE  /\ jobs' \in Seq(Job) /\ OneAtATime'
           /\ owner = Other /\ worker' = worker => QueueInv'
<1>1. PICK new \in BOOLEAN : jobs' = Append(jobs, [of |-> owner, status |-> "running", new |-> new])
    BY DEF Queued
<1> DEFINE job == [of |-> owner, status |-> "running", new |-> new]
<1>2. job \in Job /\ job.of = owner
    BY DEF Job
<1>3. jobs \in Seq(Job)
    BY DEF AInv, TypeOK
<1> HIDE DEF job
<1>4. /\ jobs' \in Seq(Job) /\ Len(jobs') = Len(jobs) + 1 /\ jobs'[Len(jobs) + 1] = job
      /\ DOMAIN jobs = 1..Len(jobs) /\ DOMAIN jobs' = 1..(Len(jobs) + 1) /\ Len(jobs) \in Nat
      /\ \A n \in 1..Len(jobs) : jobs'[n] = jobs[n]
    BY <1>1, <1>2, <1>3 DEF job
<1>5. OneAtATime'
    BY <1>2, <1>4 DEF AInv, QueueInv, OneAtATime
<1>6. ASSUME owner = Other, worker' = worker PROVE QueueInv'
    BY <1>2, <1>4, <1>5, <1>6 DEF AInv, QueueInv
<1> QED BY <1>4, <1>5, <1>6

\* A step of the worker that leaves the dict, the queue and the ghosts alone.
LEMMA WorkerMoves ==
    ASSUME AutotranslateAssumption, AInv,
           UNCHANGED <<state, disk, scan, bazarr, ghosts, faults>>,
           worker' \in WorkerRecord, worker'.at \in {"pick", "look", "poll"},
           worker'.at = "look" => worker'.key \in Items,
           worker'.at = "poll" => worker.at = "send" /\ worker'.key = worker.key,
           worker.at = "pause" => failedFor = Pause \/ excused
    PROVE  AInv'
<1>1. TypeOK'
    BY DEF AInv, TypeOK, WorkerRecord, bazarr, ghosts
<1>2. Keyed' /\ QueueInv'
    BY DEF AInv, Keyed, QueueInv, OneAtATime, bazarr
<1>3. Backed' /\ Remembered'
    BY DEF AInv, OrderInv, Backed, Remembered, ghosts
<1>4. Attempt' /\ Holding'
    BY DEF AInv, OrderInv, Attempt, Holding, UnderWay, ghosts
<1>5. Paused'
    BY Numbers DEF AInv, TypeOK, OrderInv, Paused, ghosts
<1> QED BY <1>1, <1>2, <1>3, <1>4, <1>5 DEF AInv, OrderInv

LEMMA LookIdleKeeps == ASSUME AutotranslateAssumption, AInv, LookIdle PROVE AInv'
<1> USE Numbers
<1>1. /\ worker.at = "look" /\ AllEnded /\ jobs' = Seen /\ reset' = FALSE /\ SendOrRepick
      /\ UNCHANGED <<state, disk, scan, failedFor, excused, searched, faults>>
    BY DEF LookIdle
<1>2. /\ jobs' \in Seq(Job) /\ OneAtATime'
      /\ \A n \in DOMAIN jobs' : jobs'[n].of = Other
    <2>1. jobs \in Seq(Job)
        BY DEF AInv, TypeOK
    <2>2. CASE jobs = <<>>
        BY <1>1, <2>2 DEF Seen, OneAtATime
    <2>3. CASE jobs # <<>>
        <3>1. jobs[Len(jobs)] \in Job
            BY <2>1, <2>3
        <3>2. [of |-> Other, status |-> jobs[Len(jobs)].status, new |-> FALSE] \in Job
            BY <3>1 DEF Job
        <3> QED BY <1>1, <2>3, <3>2 DEF Seen, OneAtATime
    <2> QED BY <2>2, <2>3
<1>3. worker \in WorkerRecord /\ worker.key \in Items
    BY <1>1 DEF AInv, TypeOK, Keyed, WorkerRecord
<1>4. failedFor = Pause \/ excused
    BY <1>1 DEF AInv, OrderInv, Paused, TypeOK
<1>5. CASE worker.key \in Ready(state)
    <2> DEFINE key == worker.key
    <2>1. /\ worker' = [worker EXCEPT !.at = "send", !.rounds = state[key].rounds]
          /\ since' = [since EXCEPT ![key] = None] /\ dropped' = dropped \ {key}
        BY <1>1, <1>5 DEF SendOrRepick
    <2>2. state[key] \in Entry /\ state[key].phase = "ready" /\ BackedBy(state[key], searched[key])
        BY <1>5 DEF Ready, AInv, TypeOK, OrderInv, Backed
    <2>3. state[key].rounds \in 0..SearchRounds /\ searched[key] = SearchRounds
        BY <2>2 DEF Entry, BackedBy
    <2>4. worker' \in WorkerRecord /\ worker'.at = "send" /\ worker'.key = key
        BY <1>3, <2>1, <2>3 DEF WorkerRecord
    <2>6. since' \in [Items -> 0..(Grace - 1) \union {None}] /\ dropped' \subseteq Items
        BY <1>3, <2>1 DEF AInv, TypeOK
    <2>7. TypeOK'
        BY <1>1, <1>2, <2>4, <2>6 DEF AInv, TypeOK, WorkerRecord
    <2>8. Keyed' /\ QueueInv'
        BY <1>1, <1>2, <1>3, <2>4 DEF AInv, Keyed, QueueInv
    <2>9. Backed'
        BY <1>1, <2>3, <2>4 DEF AInv, OrderInv, Backed
    <2>10. Remembered' /\ Attempt'
        BY <1>1, <1>3, <2>1, <2>2, <2>4 DEF AInv, TypeOK, OrderInv, Remembered, Attempt, UnderWay
    <2>11. Holding'
        BY <1>1, <1>3, <2>1, <2>2, <2>4 DEF AInv, TypeOK, OrderInv, Holding, Keyed, UnderWay
    <2>12. Paused'
        BY <1>1, <1>4 DEF AInv, Paused
    <2> QED BY <2>7, <2>8, <2>9, <2>10, <2>11, <2>12 DEF AInv, OrderInv
<1>6. CASE worker.key \notin Ready(state)
    <2>1. worker' = AtPick /\ UNCHANGED <<since, dropped>>
        BY <1>1, <1>6 DEF SendOrRepick
    <2>2. worker' \in WorkerRecord /\ worker'.at = "pick"
        BY <2>1, AtPickOK
    <2>3. TypeOK'
        BY <1>1, <1>2, <2>1, <2>2 DEF AInv, TypeOK, WorkerRecord
    <2>4. Keyed' /\ QueueInv' /\ Backed' /\ Remembered' /\ Attempt'
        BY <1>1, <1>2, <2>1, <2>2 DEF AInv, Keyed, QueueInv, OrderInv, Backed, Remembered, Attempt, UnderWay
    <2>5. Holding' /\ Paused'
        BY <1>1, <1>4, <2>1, <2>2 DEF AInv, OrderInv, Holding, Paused, UnderWay
    <2> QED BY <2>3, <2>4, <2>5 DEF AInv, OrderInv
<1> QED BY <1>5, <1>6

LEMMA WorkerKeeps == ASSUME AutotranslateAssumption, AInv, WorkerNext PROVE AInv'
<1> USE Numbers
<1>1. worker \in WorkerRecord
    BY DEF AInv, TypeOK, WorkerRecord
<1>2. CASE Pick
    <2>1. PICK i \in Items : worker.at = "pick" /\ worker' = [worker EXCEPT !.at = "look", !.key = i]
        BY <1>2 DEF Pick, Ready
    <2>2. worker' \in WorkerRecord /\ worker'.at = "look" /\ worker'.key = i
        BY <1>1, <2>1 DEF WorkerRecord
    <2>3. UNCHANGED <<state, disk, scan, bazarr, ghosts, faults>>
        BY <1>2 DEF Pick
    <2> QED BY <2>1, <2>2, <2>3, WorkerMoves
<1>3. CASE LookFails
    <2>1. worker' \in WorkerRecord /\ worker'.at = "pick" /\ worker.at = "look"
        BY <1>3, AtPickOK DEF LookFails
    <2>2. UNCHANGED <<state, disk, scan, bazarr, ghosts, faults>>
        BY <1>3 DEF LookFails
    <2> QED BY <2>1, <2>2, WorkerMoves
<1>4. CASE LookIdle
    BY <1>4, LookIdleKeeps
<1>5. CASE PatchReturns
    <2>1. PICK queued \in BOOLEAN, ok \in BOOLEAN :
            /\ IF queued THEN Queued(worker.key) ELSE UNCHANGED jobs
            /\ IF ok
               THEN /\ worker' = [worker EXCEPT !.at = "poll"]
                    /\ UNCHANGED <<state, disk, scan, ghosts, faults>>
               ELSE Finish("failed")
        BY <1>5 DEF PatchReturns
    <2>2. worker.at = "send" /\ worker.key \in Items /\ reset' = reset
        BY <1>5 DEF PatchReturns, AInv, Keyed
    <2>3. jobs' \in Seq(Job) /\ OneAtATime'
        <3>1. CASE queued BY <2>1, <2>2, <3>1, QueuedOK
        <3>2. CASE ~queued BY <2>1, <3>2 DEF AInv, TypeOK, QueueInv, OneAtATime
        <3> QED BY <3>1, <3>2
    <2>4. reset' \in BOOLEAN
        BY <2>2 DEF AInv, TypeOK
    <2>5. CASE ~ok
        BY <2>1, <2>2, <2>3, <2>4, <2>5, FinishKeeps
    <2>6. CASE ok
        <3>1. /\ worker' \in WorkerRecord /\ worker'.at = "poll" /\ worker'.key = worker.key
              /\ UNCHANGED <<state, disk, scan, ghosts, faults>>
            BY <1>1, <2>1, <2>6 DEF WorkerRecord
        <3>2. TypeOK'
            BY <2>3, <2>4, <3>1 DEF AInv, TypeOK, WorkerRecord, ghosts
        <3>3. Keyed' /\ QueueInv'
            BY <2>2, <2>3, <3>1 DEF AInv, Keyed, QueueInv
        <3>4. Backed' /\ Remembered'
            BY <2>2, <3>1 DEF AInv, OrderInv, Backed, Remembered, ghosts
        <3>5. Attempt' /\ Holding'
            BY <2>2, <3>1 DEF AInv, OrderInv, Attempt, Holding, UnderWay, ghosts
        <3>6. Paused'
            BY <2>2, <3>1 DEF AInv, OrderInv, Paused, ghosts
        <3> QED BY <3>2, <3>3, <3>4, <3>5, <3>6 DEF AInv, OrderInv
    <2> QED BY <2>5, <2>6
<1>6. ASSUME NEW result \in {"completed", "failed"}, worker.at = "poll", Finish(result), UNCHANGED bazarr
      PROVE  AInv'
    <2>1. reset' \in BOOLEAN /\ jobs' \in Seq(Job) /\ OneAtATime'
        BY <1>6 DEF AInv, TypeOK, QueueInv, OneAtATime, bazarr
    <2> QED BY <1>6, <2>1, FinishKeeps
<1>7. CASE PollIdle
    <2>1. Outcome \in {"completed", "failed"}
        BY DEF Outcome
    <2> QED BY <1>6, <1>7, <2>1 DEF PollIdle
<1>8. CASE PollTimesOut
    BY <1>6, <1>8 DEF PollTimesOut
<1>9. CASE PauseEnds
    <2>1. worker' \in WorkerRecord /\ worker'.at = "pick"
        BY <1>9, AtPickOK DEF PauseEnds
    <2>2. worker.at = "pause" /\ worker.time >= Pause
            /\ UNCHANGED <<state, disk, scan, bazarr, ghosts, faults>>
        BY <1>9 DEF PauseEnds
    <2>3. failedFor = Pause \/ excused
        BY <2>2 DEF AInv, TypeOK, OrderInv, Paused
    <2> QED BY <2>1, <2>2, <2>3, WorkerMoves
<1> QED BY <1>2, <1>3, <1>4, <1>5, <1>7, <1>8, <1>9 DEF WorkerNext

-----------------------------------------------------------------------------
(* Time, Bazarr and the death of the process *)

LEMMA TimeKeeps == ASSUME AutotranslateAssumption, AInv, Tick PROVE AInv'
<1> USE Numbers
<1>1. /\ state \in [Items -> Entries] /\ disk \in [Items -> Entries] /\ since \in [Items -> 0..(Grace - 1) \union {None}]
      /\ searched \in [Items -> 0..SearchRounds] /\ failedFor \in 0..Pause /\ dropped \subseteq Items
      /\ worker \in WorkerRecord
      /\ scan \in [at : {"wanted", "meta", "search"}, kind : Kinds, todo : SUBSET Items,
                   item : Items \union {None}, held : Entry \union {None}, lag : 0..MaxLag]
    BY DEF AInv, TypeOK, Entries, WorkerRecord
<1>2. /\ state' = AgedAll(state) /\ disk' = AgedAll(disk)
      /\ since' = [i \in Items |-> IF since[i] \in {None, Grace - 1} THEN None ELSE since[i] + 1]
      /\ dropped' = {i \in dropped : since'[i] # None \/ UnderWay(i)}
      /\ failedFor' = Older(failedFor, Pause)
      /\ UNCHANGED <<jobs, reset, searched, faults>>
    BY DEF Tick, bazarr
<1>3. /\ state' \in [Items -> Entries] /\ disk' \in [Items -> Entries]
      /\ \A i \in Items : state'[i] = Aged(state[i]) /\ disk'[i] = Aged(disk[i])
    BY <1>1, <1>2, AgedOK DEF AgedAll
<1>4. /\ since' \in [Items -> 0..(Grace - 1) \union {None}]
      /\ \A i \in Items : since'[i] # None => since[i] # None /\ since'[i] = since[i] + 1
    BY <1>1, <1>2
<1>5. /\ worker' \in WorkerRecord /\ worker'.at = worker.at /\ worker'.key = worker.key /\ worker'.rounds = worker.rounds
      /\ worker.at = "pause" => worker.time < Pause /\ worker'.time = worker.time + 1
    BY <1>1 DEF Tick, WorkerRecord
<1>6. /\ scan' \in [at : {"wanted", "meta", "search"}, kind : Kinds, todo : SUBSET Items,
                    item : Items \union {None}, held : Entry \union {None}, lag : 0..MaxLag]
      /\ scan'.at = scan.at /\ scan'.item = scan.item
      /\ scan.at = "search" => scan'.held = Aged(scan.held)
    <2>1. CASE scan.at = "search"
        <3>1. scan.held \in Entries /\ Aged(scan.held) \in Entries
            BY <1>1, AgedOK DEF Entries
        <3>2. scan.lag < MaxLag /\ scan' = [scan EXCEPT !.lag = @ + 1, !.held = Aged(@)]
            BY <2>1 DEF Tick
        <3>3. scan.lag + 1 \in 0..MaxLag
            BY <1>1, <3>2
        <3> HIDE DEF Aged
        <3> QED BY <1>1, <2>1, <3>1, <3>2, <3>3 DEF Entries
    <2>2. CASE scan.at # "search"
        BY <1>1, <2>2 DEF Tick
    <2> QED BY <2>1, <2>2
<1>7. failedFor' \in 0..Pause /\ (failedFor' < Pause => failedFor < Pause /\ failedFor' = failedFor + 1)
    BY <1>1, <1>2 DEF Older
<1>8. excused' \in BOOLEAN /\ (failedFor' < Pause /\ ~excused' => ~excused)
    BY Zenon DEF Tick
<1>9. TypeOK'
    <2>1. jobs' \in Seq(Job) /\ reset' \in BOOLEAN /\ faults' \in 0..MaxFaults /\ searched' \in [Items -> 0..SearchRounds]
        BY <1>2 DEF AInv, TypeOK
    <2>2. dropped' \subseteq Items
        BY <1>1, <1>2
    <2> QED BY <1>3, <1>4, <1>5, <1>6, <1>7, <1>8, <2>1, <2>2, Zenon DEF TypeOK, Entries, WorkerRecord
<1>10. Keyed'
    <2>1. scan.at = "search" => scan'.held \in Entry /\ scan'.held.phase = "search" /\ scan'.held.rounds < SearchRounds
        BY <1>6, AgedOK DEF AInv, Keyed, Entries
    <2> QED BY <1>5, <1>6, <2>1 DEF AInv, Keyed
<1>11. QueueInv'
    BY <1>2, <1>5 DEF AInv, QueueInv, OneAtATime
<1>12. Backed'
    <2>1. \A i \in Items : BackedBy(state'[i], searched[i]) /\ BackedBy(disk'[i], searched[i])
        BY <1>1, <1>3, AgedOK DEF AInv, OrderInv, Backed
    <2>2. scan.at = "search" => BackedBy(scan'.held, searched[scan.item])
        BY <1>1, <1>6, AgedOK DEF AInv, OrderInv, Backed, Keyed, Entries
    <2> QED BY <1>2, <1>5, <1>6, <2>1, <2>2 DEF AInv, OrderInv, Backed
<1>13. Remembered'
    <2> SUFFICES ASSUME NEW i \in Items, since'[i] # None, i \notin dropped'
                 PROVE  Dated(state'[i], since'[i]) /\ Dated(disk'[i], since'[i])
        BY DEF Remembered
    <2>1. i \notin dropped /\ since[i] # None /\ since[i] \in Nat /\ since[i] < Grace /\ since'[i] = since[i] + 1
        BY <1>1, <1>2, <1>4
    <2>2. Dated(state[i], since[i]) /\ Dated(disk[i], since[i])
        BY <2>1 DEF AInv, OrderInv, Remembered
    <2> QED BY <1>1, <1>3, <2>1, <2>2, AgedOK
<1>14. \A i \in Items : (state'[i] = None <=> state[i] = None) /\ (state[i] # None => state'[i].phase = state[i].phase)
    BY <1>1, <1>3, AgedOK
<1>15. Attempt'
    BY <1>2, <1>4, <1>5, <1>14 DEF AInv, OrderInv, Attempt, UnderWay
<1>16. Holding'
    BY <1>2, <1>4, <1>5, <1>6, <1>14 DEF AInv, OrderInv, Keyed, Holding, UnderWay
<1>17. Paused'
    BY <1>5, <1>7, <1>8 DEF AInv, OrderInv, Paused
<1> QED BY <1>9, <1>10, <1>11, <1>12, <1>13, <1>15, <1>16, <1>17 DEF AInv, OrderInv

LEMMA EndedOK ==
    ASSUME NEW j \in Job, NEW result \in {"completed", "failed"}
    PROVE  LET job == [j EXCEPT !.status = result]
           IN  job \in Job /\ job.of = j.of /\ job.status = result
BY DEF Job

\* Bazarr's own steps change the queue alone.
LEMMA BazarrKeeps ==
    ASSUME AutotranslateAssumption, AInv, JobEnds \/ OtherJob \/ BazarrRestarts
    PROVE  AInv'
<1> USE Numbers
<1>1. UNCHANGED <<state, disk, scan, worker, ghosts>>
    BY DEF JobEnds, OtherJob, BazarrRestarts
<1>2. faults \in 0..MaxFaults /\ reset \in BOOLEAN
    BY DEF AInv, TypeOK
<1>3. reset' \in BOOLEAN
    BY Zenon, <1>2 DEF JobEnds, OtherJob, BazarrRestarts
<1>4. UNCHANGED faults \/ Fault
    BY Zenon DEF JobEnds, OtherJob, BazarrRestarts
<1>5. faults' \in 0..MaxFaults
    BY <1>2, <1>4 DEF Fault
<1>6. jobs' \in Seq(Job) /\ QueueInv'
    <2>1. CASE JobEnds
        <3>1. jobs \in Seq(Job) /\ worker' = worker
            BY <2>1 DEF AInv, TypeOK, JobEnds
        <3>2. PICK n \in DOMAIN jobs, result \in {"completed", "failed"} :
                jobs' = [jobs EXCEPT ![n].status = result]
            BY <2>1 DEF JobEnds
        <3> DEFINE job == [jobs[n] EXCEPT !.status = result]
        <3>3. jobs[n] \in Job
            BY <3>1
        <3>4. job \in Job /\ job.of = jobs[n].of /\ job.status = result
            BY <3>3, EndedOK
        <3>5. jobs' = [jobs EXCEPT ![n] = job]
            BY <3>2
        <3> HIDE DEF job
        <3>6. jobs' \in Seq(Job) /\ DOMAIN jobs' = DOMAIN jobs
                /\ \A m \in DOMAIN jobs : /\ jobs'[m].of = jobs[m].of
                                          /\ jobs'[m].status = "running" => jobs[m].status = "running"
            BY <3>1, <3>2, <3>4, <3>5
        <3> QED BY <3>1, <3>6 DEF AInv, QueueInv, OneAtATime
    <2>2. CASE OtherJob
        BY <1>1, <2>2, QueuedOK DEF OtherJob
    <2>3. CASE BazarrRestarts
        BY <2>3 DEF BazarrRestarts, QueueInv, OneAtATime
    <2> QED BY <2>1, <2>2, <2>3
<1>7. TypeOK'
    BY Zenon, <1>1, <1>3, <1>5, <1>6 DEF AInv, TypeOK, ghosts
<1>8. Keyed' /\ Backed' /\ Remembered'
    BY <1>1 DEF AInv, Keyed, OrderInv, Backed, Remembered, ghosts
<1>9. Attempt' /\ Holding' /\ Paused'
    BY <1>1 DEF AInv, OrderInv, Attempt, Holding, Paused, UnderWay, ghosts
<1> QED BY <1>6, <1>7, <1>8, <1>9 DEF AInv, OrderInv

\* The next process starts from the file, which says of the past what the dict did.
LEMMA DeathKeeps == ASSUME AutotranslateAssumption, AInv, Dies PROVE AInv'
<1> USE Numbers
<1>1. state' = disk /\ UNCHANGED <<disk, jobs, reset, since, dropped, failedFor, searched>>
    BY Zenon DEF Dies, bazarr
<1>2. faults' \in 0..MaxFaults
    <2>1. Fault /\ faults \in 0..MaxFaults
        BY Zenon DEF Dies, AInv, TypeOK
    <2> QED BY <2>1 DEF Fault
<1>3. excused' \in BOOLEAN /\ (failedFor < Pause => excused')
    <2>1. excused' <=> failedFor < Pause
        BY Zenon DEF Dies
    <2>2. excused' \in BOOLEAN
        <3>1. failedFor < Pause \/ ~(failedFor < Pause)
            OBVIOUS
        <3>2. CASE failedFor < Pause
            <4>1. (failedFor < Pause) = TRUE
                BY <3>2
            <4> QED BY Zenon, <4>1 DEF Dies
        <3>3. CASE ~(failedFor < Pause)
            <4>1. (failedFor < Pause) = FALSE
                BY <3>3
            <4> QED BY Zenon, <4>1 DEF Dies
        <3> QED BY <3>1, <3>2, <3>3
    <2> QED BY <2>1, <2>2
<1>4. worker' \in WorkerRecord /\ worker'.at = "pick"
    BY AtPickOK DEF Dies
<1>5. /\ scan'.at = "wanted"
      /\ scan' \in [at : {"wanted", "meta", "search"}, kind : Kinds, todo : SUBSET Items,
                    item : Items \union {None}, held : Entry \union {None}, lag : 0..MaxLag]
    BY DEF Dies, AtScan, Kinds
<1>6. TypeOK'
    BY Zenon, <1>1, <1>2, <1>3, <1>4, <1>5 DEF AInv, TypeOK, WorkerRecord
<1>7. Keyed' /\ QueueInv' /\ Attempt' /\ Holding'
    BY <1>1, <1>4, <1>5 DEF AInv, Keyed, QueueInv, OneAtATime, Attempt, Holding, UnderWay
<1>8. Backed' /\ Remembered'
    BY <1>1, <1>4, <1>5 DEF AInv, OrderInv, Backed, Remembered
<1>9. Paused'
    BY <1>1, <1>3 DEF Paused
<1> QED BY <1>6, <1>7, <1>8, <1>9 DEF AInv, OrderInv

-----------------------------------------------------------------------------
LEMMA AutotranslateInitOK == ASSUME AutotranslateAssumption, Init PROVE AInv
<1> USE Numbers DEF Init
<1>1. worker \in WorkerRecord /\ worker.at = "pick"
    BY AtPickOK
<1>2. scan.at = "wanted"
        /\ scan \in [at : {"wanted", "meta", "search"}, kind : Kinds, todo : SUBSET Items,
                     item : Items \union {None}, held : Entry \union {None}, lag : 0..MaxLag]
    BY DEF AtScan, Kinds
<1>3. TypeOK
    <2>1. state \in [Items -> Entry \union {None}] /\ since \in [Items -> 0..(Grace - 1) \union {None}]
        BY Zenon
    <2>2. 0 \in 0..SearchRounds /\ 0 \in 0..MaxFaults /\ Pause \in 0..Pause
        OBVIOUS
    <2>3. searched \in [Items -> 0..SearchRounds]
        BY Zenon, <2>2
    <2>4. jobs \in Seq(Job) /\ dropped \subseteq Items /\ disk = state
        OBVIOUS
    <2>5. faults \in 0..MaxFaults /\ failedFor \in 0..Pause
        BY Zenon, <2>2
    <2>6. reset \in BOOLEAN /\ excused \in BOOLEAN
        BY Zenon
    <2> HIDE DEF Init
    <2> QED BY Zenon, <1>1, <1>2, <2>1, <2>3, <2>4, <2>5, <2>6 DEF TypeOK, WorkerRecord
<1>4. Keyed /\ QueueInv /\ Attempt /\ Holding
    BY <1>1, <1>2 DEF Keyed, QueueInv, OneAtATime, Attempt, Holding, UnderWay
<1>5. Backed /\ Remembered /\ Paused
    BY <1>1, <1>2 DEF Backed, BackedBy, Remembered, Paused
<1> QED BY <1>3, <1>4, <1>5 DEF AInv, OrderInv

LEMMA AutotranslateStepOK == ASSUME AutotranslateAssumption, AInv, [Next]_vars PROVE AInv'
<1>1. CASE UNCHANGED vars
    BY <1>1 DEF vars, bazarr, ghosts, AInv, TypeOK, Keyed, QueueInv, OneAtATime, OrderInv, Backed,
        Remembered, Attempt, Holding, Paused, UnderWay
<1>2. CASE Next
    BY <1>2, TimeKeeps, ScannerKeeps, WorkerKeeps, BazarrKeeps, DeathKeeps DEF Next
<1> QED BY <1>1, <1>2

\* A send follows a look at a ready item, with nothing running and the pause over.
LEMMA SendsOnlyReady ==
    ASSUME AutotranslateAssumption, AInv, [Next]_vars, NEW i \in Items, Sends(i)
    PROVE  /\ since[i] = None \/ i \in dropped
           /\ searched[i] = SearchRounds
           /\ failedFor = Pause \/ excused
<1>1. worker.at = "look" /\ worker'.at = "send" /\ worker'.key = i
    BY DEF Sends
<1>2. LookIdle
    <2>1. ~UNCHANGED vars /\ ~ScanNext /\ ~JobEnds /\ ~OtherJob /\ ~BazarrRestarts
        BY <1>1 DEF vars, ScanNext, WantedFails, WantedComes, MetadataComes, SearchReturns, JobEnds,
            OtherJob, BazarrRestarts
    <2>2. ~Tick
        BY <1>1 DEF Tick
    <2>3. ~Dies /\ ~LookFails
        BY <1>1 DEF Dies, LookFails, AtPick
    <2>4. ~Pick /\ ~PatchReturns /\ ~PollIdle /\ ~PollTimesOut /\ ~PauseEnds
        BY <1>1 DEF Pick, PatchReturns, PollIdle, PollTimesOut, PauseEnds
    <2> QED BY <2>1, <2>2, <2>3, <2>4 DEF Next, WorkerNext
<1>3. worker.key \in Ready(state)
    BY <1>1, <1>2 DEF LookIdle, SendOrRepick, AtPick
<1>4. worker.key = i
    BY <1>1, <1>2, <1>3 DEF LookIdle, SendOrRepick, AInv, TypeOK
<1>5. state[i] # None /\ state[i].phase = "ready"
    BY <1>3, <1>4 DEF Ready
<1>6. (since[i] = None \/ i \in dropped) /\ searched[i] = SearchRounds
    BY <1>5 DEF AInv, OrderInv, Remembered, Dated, Backed, BackedBy
<1>7. failedFor = Pause \/ excused
    BY <1>1, Numbers DEF AInv, TypeOK, OrderInv, Paused
<1> QED BY <1>6, <1>7

\* For any number of items and jobs: whatever is lost, timed out or restarted, Bazarr
\* has at most one translation of this program pending or running (worker, submit).
THEOREM QueueIsSound == ASSUME AutotranslateAssumption PROVE Spec => []QueueSound
<1>1. AInv => QueueSound
    BY DEF AInv, QueueInv, QueueSound
<1> QED BY <1>1, AutotranslateInitOK, AutotranslateStepOK, PTL DEF Spec

\* For every round count, spacing, grace and pause: an item is sent only after its
\* searches, not within the grace of a recorded attempt unless it was dropped
\* meanwhile, and not within the pause after a failed one unless that one's save
\* failed or the process died (worker, scan).
THEOREM SendsAreInOrder == ASSUME AutotranslateAssumption PROVE Spec => SendsInOrder
<1>1. AInv /\ [Next]_vars =>
          /\ \A i \in Items : Sends(i) => since[i] = None \/ i \in dropped
          /\ \A i \in Items : Sends(i) => searched[i] = SearchRounds
          /\ \A i \in Items : Sends(i) => failedFor = Pause \/ excused
    BY SendsOnlyReady
<1> QED
    BY <1>1, AutotranslateInitOK, AutotranslateStepOK, PTL
       DEF Spec, SendsInOrder, RetryGraceHeld, SearchedBeforeSend, PauseHeld
=============================================================================
