------------------------- MODULE SwitchBudgetProofs -------------------------
(***************************************************************************)
(* Proofs about SwitchBudget, for every cooldown, cap, window and bound.   *)
(***************************************************************************)
EXTENDS SwitchBudget, FiniteSetTheorems, TLAPS

Young(e) == now - e.when < Day

\* A switch has been decided and not yet recorded
InFlight == pc \in {"switch", "record"}

\* ids number the slots in the order, and so in the time, they were recorded
SlotOrder ==
    /\ \A e \in slots : e.id < recorded /\ e.when <= now
    /\ \A e, f \in slots : e.id = f.id => e = f
    /\ \A e, f \in slots : e.id < f.id => e.when <= f.when

\* How the list, the file and the two auxiliary sets lie inside one another
Storage ==
    /\ IsFiniteSet(slots)
    /\ history \subseteq slots
    /\ durable \subseteq slots
    /\ disk \subseteq durable
    /\ \A e \in durable : Young(e) => e \in disk
    /\ \A e \in durable : \A f \in slots : f \notin durable => e.id < f.id
    /\ ~Up => slots = durable

\* The answer of allowed_or_escape() still holds when the switch is recorded:
\* nobody else records, and time only makes slots older.
PendingEscape ==
    (InFlight /\ job.kind = "escape") =>
        \A e \in slots : e.kind = "escape" => ~Young(e)

PendingCap ==
    (InFlight /\ FrontDoor(job)) => Cardinality(Fresh(slots)) < MaxPerDay

PendingCooldown ==
    (InFlight /\ FrontDoor(job)) =>
        \A e \in slots :
            IsLast(e, slots) => now - e.when >= e.cooldown \/ ~Young(e)

Pending == PendingEscape /\ PendingCap /\ PendingCooldown

\* A marker was lost at a crash, and only what is recorded later has a greater id
Lost ==
    /\ \A u \in forgotten : u.slot.kind = "escape" /\ u.slot.id < u.next /\ u.next <= recorded
    /\ EscapesMarked

Damped == FrontDoorWithinCap /\ CooldownHeld

IInv == TypeOK /\ SlotOrder /\ Storage /\ SlotsCounted /\ Lost /\ Pending /\ Damped

-----------------------------------------------------------------------------
\* What the environment of a step keeps: the agent thread reads nothing else.
LEMMA TypeInvariant == TypeOK /\ [Next]_vars => TypeOK'
<1> SUFFICES ASSUME TypeOK, [Next]_vars PROVE TypeOK'
    OBVIOUS
<1> USE BudgetAssumption DEF TypeOK, Entry, Job, Kinds, Reasons
<1>1. CASE UNCHANGED vars
    BY <1>1 DEF vars
<1>2. CASE Tick
    BY <1>2 DEF Tick
<1>3. CASE Load
    BY <1>3 DEF Load, Fresh
<1>4. CASE BootStays \/ BootUpgrade
    BY <1>4 DEF BootStays, BootUpgrade
<1>5. CASE TripAllowed \/ TripRefused \/ EscapeTaken \/ EscapeRefused
    BY <1>5 DEF TripAllowed, TripRefused, EscapeTaken, EscapeRefused, Fresh
<1>6. CASE SwitchEnds
    BY <1>6 DEF SwitchEnds, SwitchOutcomes, EarnedCooldown
<1>7. CASE SwitchRaises
    BY <1>7 DEF SwitchRaises, NoJob
<1>8. CASE Record
    <2>1. NewEntry \in Entry
        BY DEF NewEntry
    <2> QED
        BY <1>8, <2>1 DEF Record, Fresh
<1>9. CASE Save \/ SaveFails
    BY <1>9 DEF Save, SaveFails, NoJob
<1>10. CASE Crash
    BY <1>10 DEF Crash, NoJob, NoScrape
<1>11. CASE ScrapeRead \/ ScrapeReply
    BY <1>11 DEF ScrapeRead, ScrapeReply, NoScrape, Fresh
<1> QED
    BY <1>1, <1>2, <1>3, <1>4, <1>5, <1>6, <1>7, <1>8, <1>9, <1>10, <1>11 DEF Next

\* TypeOK is an invariant of the budget.
THEOREM TypeCorrect == Spec => []TypeOK
<1>1. Init => TypeOK
    BY BudgetAssumption DEF Init, TypeOK, Job, NoJob, Kinds, Reasons, NoScrape
<1> QED
    BY <1>1, TypeInvariant, PTL DEF Spec

-----------------------------------------------------------------------------
\* What is fresh in the list is exactly what is fresh among the slots.
LEMMA FreshSlots ==
    ASSUME TypeOK, Storage, SlotsCounted, Up
    PROVE  Fresh(history) = Fresh(slots)
    BY DEF Storage, SlotsCounted, Fresh

\* Every part of the slots is finite, so it has a size.
LEMMA SlotCount ==
    ASSUME Storage, NEW S, S \subseteq slots
    PROVE  IsFiniteSet(S) /\ Cardinality(S) \in Nat
    BY FS_Subset, FS_CardinalityType DEF Storage

\* A step that changes neither the clock nor any slot, and neither decides nor
\* forgets a switch, keeps what the damper promises.
LEMMA QuietStep ==
    ASSUME IInv, TypeOK', UNCHANGED <<now, slots, durable, forgotten, recorded>>,
           history' \subseteq slots, disk' \subseteq durable,
           \A e \in durable : Young(e) => e \in disk',
           Up' => \A e \in slots : Young(e) => e \in history',
           Up' \/ slots = durable,
           InFlight' => InFlight /\ job'.kind = job.kind /\ job'.reason = job.reason
    PROVE  IInv'
<1>1. SlotOrder'
    BY DEF IInv, SlotOrder
<1>2. Storage'
    BY DEF IInv, Storage, Young
<1>3. SlotsCounted' /\ Lost'
    BY DEF IInv, SlotsCounted, Young, Lost, EscapesMarked, Escapes, SameDay
<1>4. Pending'
    BY DEF IInv, Pending, PendingEscape, PendingCap, PendingCooldown, Young,
           FrontDoor, Fresh, IsLast
<1>5. Damped'
    BY DEF IInv, Damped, FrontDoorWithinCap, CooldownHeld, FrontDoor
<1> QED
    BY <1>1, <1>2, <1>3, <1>4, <1>5 DEF IInv

LEMMA TickStep == ASSUME IInv, TypeOK', Tick PROVE IInv'
<1> USE BudgetAssumption DEF TypeOK, Entry
<1>0. /\ now \in Nat /\ now' = now + 1
      /\ UNCHANGED <<pc, job, history, disk, recorded, slots, durable, forgotten, seen>>
      /\ \A e \in slots : e.when \in Nat /\ (Young(e)' => Young(e))
    BY DEF IInv, Tick, Young
<1>1. SlotOrder'
    BY <1>0 DEF IInv, SlotOrder
<1>2. Storage' /\ SlotsCounted' /\ Lost'
    BY <1>0 DEF IInv, Storage, SlotsCounted, Young, Up, Lost, EscapesMarked, Escapes, SameDay
<1>3. PendingEscape'
    BY <1>0 DEF IInv, Pending, PendingEscape, InFlight
<1>4. PendingCap'
    <2> SUFFICES ASSUME InFlight, FrontDoor(job)
                 PROVE  Cardinality(Fresh(slots)') < MaxPerDay
        BY <1>0 DEF PendingCap, InFlight, FrontDoor
    <2>1. Fresh(slots)' \subseteq Fresh(slots) /\ Fresh(slots) \subseteq slots
        BY <1>0 DEF Fresh, Young
    <2>2. /\ Cardinality(Fresh(slots)') <= Cardinality(Fresh(slots))
          /\ Cardinality(Fresh(slots)') \in Nat
          /\ Cardinality(Fresh(slots)) \in Nat
        BY <2>1, SlotCount, FS_Subset DEF IInv
    <2> QED
        BY <2>2 DEF IInv, Pending, PendingCap
<1>5. PendingCooldown'
    BY <1>0 DEF IInv, Pending, PendingCooldown, InFlight, FrontDoor, IsLast
<1>6. Damped'
    BY <1>0 DEF IInv, Damped, FrontDoorWithinCap, CooldownHeld, FrontDoor
<1> QED
    BY <1>1, <1>2, <1>3, <1>4, <1>5, <1>6 DEF IInv, Pending

\* allowed() and allowed_or_escape(): pruning loses nothing fresh, and what they
\* decide holds of all slots, not only of the list they looked at.
LEMMA TripStep ==
    ASSUME IInv, TypeOK', TripAllowed \/ TripRefused \/ EscapeTaken \/ EscapeRefused
    PROVE  IInv'
<1> USE BudgetAssumption DEF TypeOK, Entry
<1>0. /\ Up /\ Up' /\ ~InFlight
      /\ history' = Fresh(history)
      /\ UNCHANGED <<now, disk, recorded, slots, durable, forgotten>>
    BY DEF TripAllowed, TripRefused, EscapeTaken, EscapeRefused, Up, InFlight
<1>1. /\ history' = Fresh(slots)
      /\ history' \subseteq slots
      /\ \A e \in slots : Young(e) <=> e \in history'
    BY <1>0, FreshSlots DEF IInv, Fresh, Young
<1>2. CASE TripRefused \/ EscapeRefused
    <2>1. ~InFlight'
        BY <1>2 DEF TripRefused, EscapeRefused, InFlight
    <2>2. disk' \subseteq durable /\ \A e \in durable : Young(e) => e \in disk'
        BY <1>0 DEF IInv, Storage
    <2> QED
        BY <1>0, <1>1, <2>1, <2>2, QuietStep
<1>3. CASE TripAllowed \/ EscapeTaken
    <2>1. SlotOrder' /\ Storage' /\ SlotsCounted' /\ Lost'
        BY <1>0, <1>1 DEF IInv, SlotOrder, Storage, SlotsCounted, Young, Up, Lost, EscapesMarked, Escapes, SameDay
    <2>2. PendingEscape'
        BY <1>0, <1>1, <1>3 DEF TripAllowed, EscapeTaken, PendingEscape, EscapeOpen, Young
    <2>3. PendingCap'
        <3>1. Cardinality(Fresh(slots)) \in Nat
            BY <1>1, SlotCount DEF IInv
        <3>2. Fresh(slots)' = Fresh(slots)
            BY <1>0 DEF Fresh
        <3>3. CASE TripAllowed
            BY <1>1, <3>1, <3>2, <3>3 DEF TripAllowed, Allowed, CapFull, PendingCap
        <3>4. CASE EscapeTaken
            BY <3>4 DEF EscapeTaken, PendingCap, FrontDoor
        <3> QED
            BY <1>3, <3>3, <3>4
    <2>4. PendingCooldown'
        <3> SUFFICES ASSUME TripAllowed, NEW e \in slots, IsLast(e, slots), Young(e)
                     PROVE  now - e.when >= e.cooldown
            BY <1>0, <1>3 DEF PendingCooldown, EscapeTaken, FrontDoor, IsLast, Young
        <3>1. e \in history' /\ IsLast(e, history')
            BY <1>1 DEF IsLast
        <3>2. ~InCooldown(history')
            BY DEF TripAllowed, Allowed
        <3>3. ~(now - e.when < e.cooldown)
            BY <3>1, <3>2 DEF InCooldown
        <3> QED
            BY <3>3 DEF IInv
    <2>5. Damped'
        BY <1>0 DEF IInv, Damped, FrontDoorWithinCap, CooldownHeld,
                    FrontDoor
    <2> QED
        BY <2>1, <2>2, <2>3, <2>4, <2>5 DEF IInv, Pending
<1> QED
    BY <1>2, <1>3

\* record(): the new entry has the greatest id, and the pending answer is
\* exactly what its place among the slots needs.
LEMMA RecordStep == ASSUME IInv, TypeOK', Record PROVE IInv'
<1> USE BudgetAssumption DEF TypeOK, Entry
<1> DEFINE n == NewEntry
<1>0. /\ Up /\ Up' /\ InFlight /\ ~InFlight'
      /\ history' = Fresh(history) \cup {n}
      /\ slots' = slots \cup {n}
      /\ recorded' = recorded + 1
      /\ UNCHANGED <<now, job, disk, durable, forgotten>>
    BY DEF Record, Up, InFlight
<1>1. /\ n.id = recorded /\ n.when = now /\ n.kind = job.kind
      /\ n.reason = job.reason /\ n.cooldown = job.cooldown
    BY DEF NewEntry
<1> HIDE DEF n
<1>2. \A e \in slots : e.id < n.id /\ e.when <= n.when /\ e # n
    BY <1>1 DEF IInv, SlotOrder
<1>3. SlotOrder'
    BY <1>0, <1>1, <1>2 DEF IInv, SlotOrder
<1>4. Storage'
    <2>1. IsFiniteSet(slots')
        BY <1>0, FS_AddElement DEF IInv, Storage
    <2>2. history' \subseteq slots'
        BY <1>0 DEF IInv, Storage, Fresh
    <2> QED
        BY <1>0, <1>2, <2>1, <2>2 DEF IInv, Storage, Young
<1>5. SlotsCounted'
    BY <1>0 DEF IInv, SlotsCounted, Fresh
<1>6. Pending'
    BY <1>0 DEF Pending, PendingEscape, PendingCap, PendingCooldown
<1>7. Lost'
    <2> SUFFICES ASSUME NEW e \in Escapes', NEW f \in Escapes', SameDay(e, f)
                 PROVE  \E u \in forgotten : u.slot = e /\ u.next <= f.id
        BY <1>0 DEF IInv, Lost, EscapesMarked, SameDay
    <2>1. CASE e \in Escapes /\ f \in Escapes
        BY <2>1 DEF IInv, Lost, EscapesMarked
    <2>2. CASE f = n
        <3>1. e \notin slots
            <4>1. e.kind = "escape" /\ f.kind = "escape" /\ now - e.when < Day
                BY <1>0, <1>1, <2>2 DEF IInv, Lost, Escapes, SameDay
            <4>2. PendingEscape /\ job.kind = "escape" /\ InFlight
                BY <1>0, <1>1, <2>2, <4>1 DEF IInv, Pending
            <4> QED
                BY <4>1, <4>2 DEF PendingEscape, Young
        <3>2. PICK u \in forgotten : u.slot = e
            BY <1>0, <1>1, <2>2, <3>1 DEF Escapes, SameDay
        <3> QED
            BY <1>1, <2>2, <3>2 DEF IInv, Lost
    <2>3. CASE e = n
        BY <1>0, <1>1, <1>2, <2>3 DEF IInv, Lost, Escapes, SameDay
    <2> QED
        BY <1>0, <2>1, <2>2, <2>3 DEF Escapes
<1>8. FrontDoorWithinCap'
    <2> SUFFICES ASSUME NEW f \in slots', FrontDoor(f)
                 PROVE  Cardinality({e \in slots' : e.id <= f.id /\ f.when - e.when < Day})
                            <= MaxPerDay
        BY DEF FrontDoorWithinCap, FrontDoor
    <2>1. CASE f \in slots
        <3>1. {e \in slots' : e.id <= f.id /\ f.when - e.when < Day}
                = {e \in slots : e.id <= f.id /\ f.when - e.when < Day}
            BY <1>0, <1>2, <2>1 DEF IInv
        <3> QED
            BY <2>1, <3>1 DEF IInv, Damped, FrontDoorWithinCap
    <2>2. CASE f = n
        <3>1. {e \in slots' : e.id <= f.id /\ f.when - e.when < Day}
                = Fresh(slots) \cup {n}
            BY <1>0, <1>1, <1>2, <2>2 DEF IInv, Fresh
        <3>2. IsFiniteSet(Fresh(slots)) /\ Cardinality(Fresh(slots)) \in Nat
            BY SlotCount DEF IInv, Fresh
        <3>3. Cardinality(Fresh(slots) \cup {n}) = Cardinality(Fresh(slots)) + 1
            BY <1>2, <3>2, FS_AddElement DEF Fresh
        <3>4. Cardinality(Fresh(slots)) < MaxPerDay
            BY <1>0, <1>1, <2>2 DEF IInv, Pending, PendingCap, FrontDoor
        <3>5. Cardinality(Fresh(slots) \cup {n}) <= MaxPerDay
            BY <3>2, <3>3, <3>4
        <3> QED
            BY <3>1, <3>5, Zenon
    <2> QED
        BY <1>0, <2>1, <2>2
<1>9. CooldownHeld'
    <2> SUFFICES ASSUME NEW e \in slots', NEW f \in slots', FrontDoor(f), e.id < f.id,
                        ~\E g \in slots' : e.id < g.id /\ g.id < f.id
                 PROVE  f.when - e.when >= e.cooldown \/ f.when - e.when >= Day
        BY DEF CooldownHeld, FrontDoor
    <2>1. CASE f \in slots
        <3>1. e \in slots
            BY <1>0, <1>2, <2>1 DEF IInv
        <3> QED
            BY <1>0, <2>1, <3>1 DEF IInv, Damped, CooldownHeld
    <2>2. CASE f = n
        <3>1. e \in slots
            BY <1>0, <1>1, <2>2 DEF IInv
        <3>2. IsLast(e, slots)
            BY <1>0, <1>2, <2>2, <3>1 DEF IInv, IsLast
        <3> QED
            BY <1>0, <1>1, <2>2, <3>1, <3>2
            DEF IInv, Pending, PendingCooldown, FrontDoor, Young
    <2> QED
        BY <1>0, <2>1, <2>2
<1> QED
    BY <1>3, <1>4, <1>5, <1>6, <1>7, <1>8, <1>9 DEF IInv, Damped

\* _save(), failed or not: the file becomes the whole list, so every slot is
\* either in it or a day old.
LEMMA SaveStep == ASSUME IInv, TypeOK', Save \/ SaveFails PROVE IInv'
<1>0. /\ Up /\ Up' /\ ~InFlight'
      /\ UNCHANGED <<now, history, recorded, slots, forgotten>>
    BY DEF Save, SaveFails, Up, InFlight
<1>1. CASE SaveFails
    BY <1>0, <1>1, QuietStep DEF SaveFails, IInv, Storage, SlotsCounted, Young
<1>2. CASE Save
    <2>1. Storage'
        BY <1>0, <1>2 DEF Save, IInv, Storage, SlotsCounted, Young
    <2>2. SlotOrder' /\ SlotsCounted' /\ Lost'
        BY <1>0 DEF IInv, SlotOrder, SlotsCounted, Lost, EscapesMarked, Escapes, SameDay
    <2>3. Pending'
        BY <1>0 DEF Pending, PendingEscape, PendingCap, PendingCooldown
    <2>4. Damped'
        BY <1>0 DEF IInv, Damped, FrontDoorWithinCap, CooldownHeld,
                    FrontDoor
    <2> QED
        BY <2>1, <2>2, <2>3, <2>4 DEF IInv
<1> QED
    BY <1>1, <1>2

\* A crash undoes the newest slots only: what was recorded since the last file.
LEMMA CrashStep == ASSUME IInv, TypeOK', Crash PROVE IInv'
<1> USE BudgetAssumption DEF TypeOK, Entry
<1>0. /\ ~Up' /\ ~InFlight'
      /\ history' = {} /\ slots' = durable
      /\ forgotten' = forgotten \cup {[slot |-> e, next |-> recorded] : e \in {f \in slots \ durable : f.kind = "escape"}}
      /\ UNCHANGED <<now, disk, recorded, durable>>
    BY DEF Crash, Up, InFlight
<1>1. durable \subseteq slots
    BY DEF IInv, Storage
<1>2. SlotOrder'
    BY <1>0, <1>1 DEF IInv, SlotOrder
<1>3. Storage' /\ SlotsCounted'
    <2>1. IsFiniteSet(durable)
        BY <1>1, SlotCount DEF IInv
    <2> QED
        BY <1>0, <2>1 DEF IInv, Storage, SlotsCounted, Young
<1>4. Pending'
    BY <1>0 DEF Pending, PendingEscape, PendingCap, PendingCooldown
<1>5. Lost'
    <2>1. Escapes' \subseteq Escapes
        BY <1>0, <1>1 DEF Escapes
    <2>2. \A u \in forgotten' : u.slot.kind = "escape" /\ u.slot.id < u.next /\ u.next <= recorded
        BY <1>0 DEF IInv, Lost, SlotOrder
    <2> QED
        BY <1>0, <2>1, <2>2 DEF IInv, Lost, EscapesMarked, SameDay
<1>6. FrontDoorWithinCap'
    <2> SUFFICES ASSUME NEW f \in durable, FrontDoor(f)
                 PROVE  Cardinality({e \in durable : e.id <= f.id /\ f.when - e.when < Day})
                            <= MaxPerDay
        BY <1>0 DEF FrontDoorWithinCap, FrontDoor
    <2> DEFINE A == {e \in durable : e.id <= f.id /\ f.when - e.when < Day}
               B == {e \in slots : e.id <= f.id /\ f.when - e.when < Day}
    <2>1. A \subseteq B /\ A \subseteq slots /\ B \subseteq slots
        BY <1>1
    <2>2. Cardinality(B) <= MaxPerDay
        BY <1>1 DEF IInv, Damped, FrontDoorWithinCap
    <2> HIDE DEF A, B
    <2>3. IsFiniteSet(B) /\ Cardinality(A) \in Nat /\ Cardinality(B) \in Nat
        BY <2>1, SlotCount DEF IInv
    <2>4. Cardinality(A) <= Cardinality(B)
        BY <2>1, <2>3, FS_Subset
    <2>5. Cardinality(A) <= MaxPerDay
        BY <2>2, <2>3, <2>4
    <2> QED
        BY <2>5 DEF A
<1>7. CooldownHeld'
    <2> SUFFICES ASSUME NEW e \in durable, NEW f \in durable, FrontDoor(f), e.id < f.id,
                        ~\E g \in durable : e.id < g.id /\ g.id < f.id
                 PROVE  f.when - e.when >= e.cooldown \/ f.when - e.when >= Day
        BY <1>0 DEF CooldownHeld, FrontDoor
    <2>1. \A g \in slots : g \notin durable => f.id < g.id
        BY DEF IInv, Storage
    <2>2. ~\E g \in slots : e.id < g.id /\ g.id < f.id
        BY <1>1, <2>1 DEF IInv
    <2> QED
        BY <1>1, <2>2 DEF IInv, Damped, CooldownHeld
<1> QED
    BY <1>2, <1>3, <1>4, <1>5, <1>6, <1>7 DEF IInv, Damped

\* The strengthened invariant is inductive.
LEMMA Induction == IInv /\ [Next]_vars => IInv'
<1> SUFFICES ASSUME IInv, [Next]_vars PROVE IInv'
    OBVIOUS
<1>0. TypeOK'
    BY TypeInvariant DEF IInv
<1>1. CASE UNCHANGED vars
    BY <1>0, <1>1, QuietStep DEF vars, IInv, Storage, SlotsCounted, Young, Up, InFlight
<1>2. CASE Tick
    BY <1>0, <1>2, TickStep
<1>3. CASE Load
    <2>1. /\ slots = durable /\ Up' /\ ~InFlight' /\ history' = Fresh(disk)
          /\ UNCHANGED <<now, disk, recorded, slots, durable, forgotten>>
        BY <1>3 DEF Load, Up, InFlight, IInv, Storage
    <2> QED
        BY <1>0, <2>1, QuietStep DEF IInv, Storage, Fresh, Young
<1>4. CASE BootStays \/ BootUpgrade
    <2>1. /\ Up /\ Up' /\ ~InFlight
          /\ UNCHANGED <<now, history, disk, recorded, slots, durable, forgotten>>
          /\ ~(InFlight' /\ FrontDoor(job')) /\ ~(InFlight' /\ job'.kind = "escape")
        BY <1>4 DEF BootStays, BootUpgrade, Up, InFlight, FrontDoor
    <2>2. SlotOrder' /\ Storage' /\ SlotsCounted' /\ Lost'
        BY <2>1 DEF IInv, SlotOrder, Storage, SlotsCounted, Young, Lost, EscapesMarked, Escapes, SameDay
    <2>3. Pending'
        BY <2>1 DEF Pending, PendingEscape, PendingCap, PendingCooldown, FrontDoor
    <2>4. Damped'
        BY <2>1 DEF IInv, Damped, FrontDoorWithinCap, CooldownHeld,
                    FrontDoor
    <2> QED
        BY <1>0, <2>2, <2>3, <2>4 DEF IInv
<1>5. CASE TripAllowed \/ TripRefused \/ EscapeTaken \/ EscapeRefused
    BY <1>0, <1>5, TripStep
<1>6. CASE SwitchEnds \/ SwitchRaises
    <2>1. /\ Up' /\ (InFlight' => InFlight /\ job'.kind = job.kind /\ job'.reason = job.reason)
          /\ UNCHANGED <<now, history, disk, recorded, slots, durable, forgotten>> /\ Up
        BY <1>6 DEF SwitchEnds, SwitchRaises, Up, InFlight, IInv, TypeOK, Job
    <2> QED
        BY <1>0, <2>1, QuietStep DEF IInv, Storage, SlotsCounted, Young
<1>7. CASE Record
    BY <1>0, <1>7, RecordStep
<1>8. CASE Save \/ SaveFails
    BY <1>0, <1>8, SaveStep
<1>9. CASE Crash
    BY <1>0, <1>9, CrashStep
<1>10. CASE ScrapeRead \/ ScrapeReply
    BY <1>0, <1>10, QuietStep
    DEF ScrapeRead, ScrapeReply, IInv, Storage, SlotsCounted, Young, Up, InFlight
<1> QED
    BY <1>1, <1>2, <1>3, <1>4, <1>5, <1>6, <1>7, <1>8, <1>9, <1>10 DEF Next

\* The damper works, for every configuration and over every crash, failed save
\* and scrape: no fresh slot is forgotten that a file had, a second escape inside a
\* rolling day needs a crash that takes the unsaved marker of the first, and a
\* switch through the front door respects cap and cooldown.
THEOREM BudgetSafe ==
    Spec => []SlotsCounted /\ []EscapesMarked /\ []FrontDoorWithinCap /\ []CooldownHeld
<1>1. Init => IInv
    <2> SUFFICES ASSUME Init PROVE IInv
        OBVIOUS
    <2>1. TypeOK
        BY BudgetAssumption DEF Init, TypeOK, Job, NoJob, Kinds, Reasons, NoScrape
    <2>2. Storage
        BY FS_EmptySet DEF Init, Storage
    <2> QED
        BY <2>1, <2>2 DEF Init, IInv, SlotOrder, SlotsCounted, Pending, PendingEscape,
            PendingCap, PendingCooldown, Damped, Lost, EscapesMarked, Escapes, FrontDoorWithinCap,
            CooldownHeld, Up, InFlight
<1>2. IInv => SlotsCounted /\ EscapesMarked /\ FrontDoorWithinCap /\ CooldownHeld
    BY DEF IInv, Damped, Lost
<1> QED
    BY <1>1, <1>2, Induction, PTL DEF Spec

\* The whole account is kept: every reachable state is well formed, forgets no
\* fresh slot and stays within the cap at the front door (record, _load, _save).
THEOREM BudgetCounting == Spec => []BudgetCounted
<1>1. TypeOK /\ SlotsCounted /\ FrontDoorWithinCap => BudgetCounted
    BY DEF BudgetCounted
<1> QED
    BY <1>1, TypeCorrect, BudgetSafe, PTL

\* A front-door switch never undercuts the cooldown of the slot before it, over
\* restarts, escapes and boot placements (SwitchBudget.allowed).
THEOREM CooldownSafe == Spec => []CooldownHeld
    BY BudgetSafe, PTL
=============================================================================
