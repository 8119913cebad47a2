---------------------------- MODULE SwitchBudget ----------------------------
(***************************************************************************)
(* The flap damper of the vpn-agent: class SwitchBudget of                 *)
(* images/airvpn-bluetit/agent.py, driven by the only code that uses it    *)
(* (boot_check, watch_once, switch, _finish) and scraped by the HTTP       *)
(* handler thread.                                                         *)
(*                                                                         *)
(* self.history is a Python list that only grows at its end and is only    *)
(* filtered.  It is modelled as the SET of its entries, each carrying the  *)
(* position in which it was appended (id), so that the last entry is the   *)
(* one with the greatest id.  `reason` is not stored by the code either:   *)
(* it is logged with the entry, and here it lets the properties tell a     *)
(* boot placement from a degradation correction.                           *)
(*                                                                         *)
(* Time is the wall clock in whole ticks.  It never runs backwards in the  *)
(* model; it may advance between any two steps of the agent.               *)
(***************************************************************************)
EXTENDS Integers, FiniteSets

CONSTANTS
    Day,             \* the rolling window, 86400 s in the code
    Cooldown,        \* VPN_AGENT_COOLDOWN_SECONDS
    FailedCooldown,  \* VPN_AGENT_FAILED_COOLDOWN_SECONDS
    MaxPerDay,       \* VPN_AGENT_MAX_SWITCHES_PER_DAY
    EscapeWindow,    \* VPN_AGENT_ESCAPE_WINDOW_SECONDS
    MaxNow,          \* bound: the last tick explored
    MaxRecords       \* bound: how many switches may be recorded

ASSUME BudgetAssumption ==
    /\ Day \in Nat \ {0}
    /\ Cooldown \in Nat
    /\ FailedCooldown \in Nat
    /\ MaxPerDay \in Nat
    /\ EscapeWindow \in Nat
    /\ MaxNow \in Nat
    /\ MaxRecords \in Nat

VARIABLES
    now,        \* time.time()
    pc,         \* where the agent thread stands
    job,        \* the switch in progress: its reason, kind and armed cooldown
    history,    \* SwitchBudget.history
    disk,       \* switches.json, replaced as a whole by _save()
    recorded,   \* how many entries were ever appended (the next entry's id)
    slots,      \* auxiliary: every entry recorded, less those a crash undid
    durable,    \* auxiliary: the slots no crash can undo any more
    forgotten,  \* auxiliary: the escapes a crash undid, each with the next id at that crash
    seen        \* the HTTP thread's scrape in progress and the list it read

vars == <<now, pc, job, history, disk, recorded, slots, durable, forgotten, seen>>

Reasons == {"boot_upgrade", "degradation"}
Kinds == {"switch", "escape"}

Entry == [id : Nat, when : Nat, cooldown : Nat, kind : Kinds, reason : Reasons]
Job == [reason : Reasons, kind : Kinds, cooldown : Nat]

NoJob == [reason |-> "boot_upgrade", kind |-> "switch", cooldown |-> 0]
NoScrape == [at |-> "idle", list |-> {}]

Up == pc # "down"

-----------------------------------------------------------------------------
(* The budget's own operators *)

\* _fresh(now): the entries inside the rolling day
Fresh(h) == {e \in h : now - e.when < Day}

\* history[-1]
IsLast(e, h) == e \in h /\ \A f \in h : f.id <= e.id

\* Mutant of InCooldown: every entry arms the short cooldown
InShortCooldown(h) == \E e \in h : IsLast(e, h) /\ now - e.when < FailedCooldown

InCooldown(h) == \E e \in h : IsLast(e, h) /\ now - e.when < e.cooldown

CapFull(h) == Cardinality(h) >= MaxPerDay

\* allowed(), on the list it has just pruned
Allowed(h) == ~InCooldown(h) /\ ~CapFull(h)

\* Mutant of EscapeOpen: the marker is not looked for
EscapeOpenUnbounded(h) ==
    \E e \in h :
        /\ IsLast(e, h)
        /\ CapFull(h) \/ e.cooldown >= Cooldown
        /\ now - e.when < EscapeWindow

\* The escape rule of allowed_or_escape(), on the list it pruned again: none
\* spent, the last placement is not on a short cooldown with cap room left, and
\* it is young.
EscapeOpen(h) ==
    /\ \A e \in h : e.kind # "escape"
    /\ \E e \in h :
          /\ IsLast(e, h)
          /\ CapFull(h) \/ e.cooldown >= Cooldown
          /\ now - e.when < EscapeWindow

\* _earned_cooldown(reason): only a corrected degradation arms the full one
EarnedCooldown(reason) ==
    IF reason = "degradation" THEN Cooldown ELSE FailedCooldown

\* The cooldown each way out of switch() passes to record(): a verified
\* candidate, a verified `quick` and a dry run arm what the reason has earned, a
\* tunnel on the wrong device arms the full one, an unverified `quick` or no
\* tunnel at all arms the short one.
SwitchOutcomes(reason) == {EarnedCooldown(reason), Cooldown, FailedCooldown}

-----------------------------------------------------------------------------
Init ==
    /\ now = 0
    /\ pc = "down"
    /\ job = NoJob
    /\ history = {}
    /\ disk = {}
    /\ recorded = 0
    /\ slots = {}
    /\ durable = {}
    /\ forgotten = {}
    /\ seen = NoScrape

Tick ==
    /\ now < MaxNow
    /\ now' = now + 1
    /\ UNCHANGED <<pc, job, history, disk, recorded, slots, durable, forgotten, seen>>

\* The launcher starts agent.py: SwitchBudget.__init__ calls _load(), which
\* adopts the file and prunes it.
Load ==
    /\ pc = "down"
    /\ history' = Fresh(disk)
    /\ pc' = "boot"
    /\ UNCHANGED <<now, job, disk, recorded, slots, durable, forgotten, seen>>

\* boot_check() leaves the tunnel alone: in band, no ranking, or no tunnel
BootStays ==
    /\ pc = "boot"
    /\ pc' = "watch"
    /\ UNCHANGED <<now, job, history, disk, recorded, slots, durable, forgotten, seen>>

\* boot_check() upgrades an out-of-band server.  It does not ask the budget.
BootUpgrade ==
    /\ pc = "boot"
    /\ pc' = "switch"
    /\ job' = [reason |-> "boot_upgrade", kind |-> "switch", cooldown |-> 0]
    /\ UNCHANGED <<now, history, disk, recorded, slots, durable, forgotten, seen>>

\* A degradation trip and the first half of allowed_or_escape(): allowed()
\* prunes, then opens the front door ...
TripAllowed ==
    /\ pc = "watch"
    /\ history' = Fresh(history)
    /\ Allowed(history')
    /\ pc' = "switch"
    /\ job' = [reason |-> "degradation", kind |-> "switch", cooldown |-> 0]
    /\ UNCHANGED <<now, disk, recorded, slots, durable, forgotten, seen>>

\* ... or refuses, and the clock is read a second time for the escape rule
TripRefused ==
    /\ pc = "watch"
    /\ history' = Fresh(history)
    /\ ~Allowed(history')
    /\ pc' = "refused"
    /\ UNCHANGED <<now, job, disk, recorded, slots, durable, forgotten, seen>>

EscapeTaken ==
    /\ pc = "refused"
    /\ history' = Fresh(history)
    /\ EscapeOpen(history')
    /\ pc' = "switch"
    /\ job' = [reason |-> "degradation", kind |-> "escape", cooldown |-> 0]
    /\ UNCHANGED <<now, disk, recorded, slots, durable, forgotten, seen>>

EscapeRefused ==
    /\ pc = "refused"
    /\ history' = Fresh(history)
    /\ ~EscapeOpen(history')
    /\ pc' = "watch"
    /\ UNCHANGED <<now, job, disk, recorded, slots, durable, forgotten, seen>>

\* switch() reaches _finish() and has chosen the cooldown it arms
SwitchEnds ==
    /\ pc = "switch"
    /\ \E armed \in SwitchOutcomes(job.reason) :
          job' = [job EXCEPT !.cooldown = armed]
    /\ pc' = "record"
    /\ UNCHANGED <<now, history, disk, recorded, slots, durable, forgotten, seen>>

\* An exception leaves switch() before _finish(): run() logs it and watches on,
\* and nothing was recorded.  (Out of boot_check it ends the process: Crash.)
SwitchRaises ==
    /\ pc = "switch"
    /\ job.reason = "degradation"
    /\ pc' = "watch"
    /\ job' = NoJob
    /\ UNCHANGED <<now, history, disk, recorded, slots, durable, forgotten, seen>>

\* record(): prune and append.  The file is written by the next step.
NewEntry ==
    [id |-> recorded, when |-> now, cooldown |-> job.cooldown,
     kind |-> job.kind, reason |-> job.reason]

Record ==
    /\ pc = "record"
    /\ recorded < MaxRecords
    /\ history' = Fresh(history) \cup {NewEntry}
    /\ recorded' = recorded + 1
    /\ slots' = slots \cup {NewEntry}
    /\ pc' = "save"
    /\ UNCHANGED <<now, job, disk, durable, forgotten, seen>>

\* _save(): write a temporary file and replace, so the file is never partial
Save ==
    /\ pc = "save"
    /\ disk' = history
    /\ durable' = slots
    /\ pc' = "watch"
    /\ job' = NoJob
    /\ UNCHANGED <<now, history, recorded, slots, forgotten, seen>>

\* _save() meets an OSError: it is logged and the old file stays
SaveFails ==
    /\ pc = "save"
    /\ pc' = "watch"
    /\ job' = NoJob
    /\ UNCHANGED <<now, history, disk, recorded, slots, durable, forgotten, seen>>

\* The process dies anywhere and takes the list and any scrape with it
Crash ==
    /\ Up
    /\ pc' = "down"
    /\ job' = NoJob
    /\ history' = {}
    /\ seen' = NoScrape
    /\ slots' = durable
    /\ forgotten' = forgotten \cup {[slot |-> e, next |-> recorded] : e \in {f \in slots \ durable : f.kind = "escape"}}
    /\ UNCHANGED <<now, disk, recorded, durable>>

\* snapshot() on the HTTP thread: read the list reference and copy what is
\* fresh.  No lock is taken.
ScrapeRead ==
    /\ Up
    /\ seen.at = "idle"
    /\ seen' = [at |-> "copied", list |-> Fresh(history)]
    /\ UNCHANGED <<now, pc, job, history, disk, recorded, slots, durable, forgotten>>

\* Mutant of ScrapeReply: the scrape prunes, rebinding self.history to its copy
ScrapeReplyPrunes ==
    /\ seen.at = "copied"
    /\ history' = seen.list
    /\ seen' = NoScrape
    /\ UNCHANGED <<now, pc, job, disk, recorded, slots, durable, forgotten>>

\* ... then answer from the copy, without touching the budget
ScrapeReply ==
    /\ seen.at = "copied"
    /\ seen' = NoScrape
    /\ UNCHANGED <<now, pc, job, history, disk, recorded, slots, durable, forgotten>>

Next ==
    \/ Tick
    \/ Load \/ BootStays \/ BootUpgrade
    \/ TripAllowed \/ TripRefused \/ EscapeTaken \/ EscapeRefused
    \/ SwitchEnds \/ SwitchRaises
    \/ Record \/ Save \/ SaveFails
    \/ Crash
    \/ ScrapeRead \/ ScrapeReply

Spec == Init /\ [][Next]_vars

-----------------------------------------------------------------------------
(* Properties *)

TypeOK ==
    /\ now \in Nat
    /\ pc \in {"down", "boot", "watch", "refused", "switch", "record", "save"}
    /\ job \in Job
    /\ history \in SUBSET Entry
    /\ disk \in SUBSET Entry
    /\ slots \in SUBSET Entry
    /\ durable \in SUBSET Entry
    /\ forgotten \in SUBSET [slot : Entry, next : Nat]
    /\ recorded \in Nat
    /\ seen \in [at : {"idle", "copied"}, list : SUBSET Entry]

FrontDoor(e) == e.reason = "degradation" /\ e.kind = "switch"

\* No fresh slot is ever forgotten: a recorded switch is counted until it is a
\* day old, by the process that recorded it and, once its file was written, by
\* every later process, whatever crashes, failed saves and concurrent scrapes
\* happen in between (_load, record, _save, snapshot).
SlotsCounted ==
    Up => \A e \in slots : now - e.when < Day => e \in history

\* Every escape that was recorded, also those whose record a crash undid
Escapes == {e \in slots : e.kind = "escape"} \cup {u.slot : u \in forgotten}

SameDay(e, f) == e.id < f.id /\ f.when - e.when < Day

\* "At most one escape per rolling 24 h", says the docstring of SwitchBudget.  There
\* is one way only to a second one: the process died between the two with the
\* marker of the first in no file, because _save() failed or was not reached
\* (record, _save, allowed_or_escape).
EscapesMarked ==
    \A e, f \in Escapes :
        SameDay(e, f) => \E u \in forgotten : u.slot = e /\ u.next <= f.id

\* A switch that came through the front door is never more than the
\* MaxPerDay-th slot of the rolling day it was recorded in, boot placements and
\* escapes counted (allowed, read before the switch, record after it).
FrontDoorWithinCap ==
    \A f \in slots :
        FrontDoor(f) =>
            Cardinality({e \in slots : e.id <= f.id /\ f.when - e.when < Day})
                <= MaxPerDay

\* A front-door switch never undercuts the cooldown armed by the slot before it
\* (unless that slot is a day old and forgotten).
CooldownHeld ==
    \A e, f \in slots :
        (FrontDoor(f) /\ e.id < f.id /\ ~\E g \in slots : e.id < g.id /\ g.id < f.id)
            => f.when - e.when >= e.cooldown \/ f.when - e.when >= Day

\* What the documentation says of the daily cap: it counts every reason, and the
\* escape is the one slot outside it.
DailyCapCountsEveryReason ==
    Cardinality({e \in Fresh(history) : e.kind # "escape"}) <= MaxPerDay

\* The damper counts: well-formed slots, none of them forgotten before it is a day
\* old, and no front-door switch beyond the cap (allowed, record, _load, _save).
BudgetCounted == TypeOK /\ SlotsCounted /\ FrontDoorWithinCap
=============================================================================
