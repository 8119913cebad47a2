----------------------------- MODULE Transcripts -----------------------------
(***************************************************************************)
(* The transcript sidecar of cliproxy: emit-transcripts.py watches the     *)
(* directory of request logs and prints one record per request, which      *)
(* payload_lib.py reads out of the file.  cliproxy (external) writes each  *)
(* file in pieces and deletes files when it wants to.                      *)
(*                                                                         *)
(* A request is [msgs, tries, reply, stream, whole]: the messages of its   *)
(* body, the upstream attempts (each "ok" or "error"), the blocks of the   *)
(* reply, whether it is streamed, and whether the file is a payload file   *)
(* at all.  Text is the sequence of the pieces it arrived in.  Redaction   *)
(* and the cuts to MAX_*_CHARS are left out: no property is about wording. *)
(***************************************************************************)
EXTENDS Integers, Sequences, FiniteSets

CONSTANTS
    File,           \* names of request logs; a name is used once
    Requests,       \* the requests a file may log
    Stable,         \* STABLE_SECONDS
    MaxAttempts,    \* MAX_ATTEMPTS
    MaxPieces,      \* MAX_PAYLOAD_BYTES
    MaxSeen,        \* 5000: the size of `seen` from which it is pruned
    MaxRestart,     \* bound: restarts of the sidecar
    None

VARIABLES
    log,        \* log[f]: [state, req, n, idle]: absent, open, closed or deleted
    backlog,    \* EMIT_BACKLOG
    epc,        \* where main() stands
    seen,
    attempts,   \* attempts[f]: failed reads so far
    todo,       \* the rest of the candidates of this pass: [f, n, idle]
    emitted,    \* emitted[f]: how much of f each record printed was read from
    skipped,    \* files present when a sidecar started without EMIT_BACKLOG
    paused,     \* auxiliary: the writer of f once rested STABLE_SECONDS
    restarted

emitVars == <<log, backlog, epc, seen, attempts, todo, emitted, skipped, paused, restarted>>

Block == [kind : {"text", "thinking", "tool_use"}, name : Nat \cup {None}, text : Seq(Nat)]
Request == [msgs : Seq(Nat), tries : Seq({"ok", "error"}), reply : Seq(Block), stream : BOOLEAN, whole : BOOLEAN]

\* A file is new for a while
EmitAssumption == Stable \in Nat \ {0} /\ Requests \subseteq Request /\ None # "response"

-----------------------------------------------------------------------------
(* The file cliproxy writes (external) *)

\* The first k sequences one after the other, for every k
Joined(seqs) ==
    LET upTo[k \in 0 .. Len(seqs)] == IF k = 0 THEN << >> ELSE upTo[k - 1] \o seqs[k] IN upTo

Concat(seqs) == Joined(seqs)[Len(seqs)]

Start(i, b) == [sec |-> "event", t |-> "start", i |-> i, kind |-> b.kind, name |-> b.name]
Delta(i, b, k) == [sec |-> "event", t |-> "delta", i |-> i, key |-> b.kind, text |-> b.text[k]]

\* start, deltas (and stop, which nobody reads) around each block's index
Stream(reply) ==
    Concat([i \in DOMAIN reply |->
        <<Start(i, reply[i])>> \o [k \in DOMAIN reply[i].text |-> Delta(i, reply[i], k)]])

Reply(r) == IF r.stream THEN Stream(r.reply) ELSE <<[sec |-> "event", t |-> "json", blocks |-> r.reply]>>

Attempt(r, k) ==
    <<[sec |-> "api", k |-> k]>> \o
    IF r.tries[k] = "error" THEN <<[sec |-> "event", t |-> "error", k |-> k]>> ELSE Reply(r)

Pieces(r) ==
    IF ~r.whole THEN <<[sec |-> "other"]>>
    ELSE <<[sec |-> "info"], [sec |-> "body", msgs |-> r.msgs]>>
         \o Concat([k \in DOMAIN r.tries |-> Attempt(r, k)])
         \o <<[sec |-> "response"]>> \o Reply(r)

-----------------------------------------------------------------------------
(* payload_lib.py *)

\* section(): what follows the heading, up to the next one; of the upstream copies
\* the heading names the first
Section(raw, source) ==
    LET heads == {i \in DOMAIN raw : raw[i].sec = source /\ (source = "api" => raw[i].k = 1)} IN
    IF heads = {} THEN << >>
    ELSE LET at == CHOOSE i \in heads : \A j \in heads : i <= j
             ends == {j \in DOMAIN raw : j > at /\ raw[j].sec # "event"} \cup {Len(raw) + 1}
         IN SubSeq(raw, at + 1, (CHOOSE j \in ends : \A k \in ends : j <= k) - 1)

Slot(kind, name) == [kind |-> kind, name |-> name, text |-> << >>]

Opened(acc, i, slot) ==
    [blocks |-> [j \in DOMAIN acc.blocks \cup {i} |-> IF j = i THEN slot ELSE acc.blocks[j]],
     order |-> Append(acc.order, i)]
Added(acc, i, text) == [acc EXCEPT !.blocks[i].text = Append(@, text)]

\* Mutant of Read: only text deltas are read
ReadTextOnly(acc, e) ==
    CASE e.t = "start" -> Opened(acc, e.i, Slot(e.kind, e.name))
      [] e.t = "delta" /\ e.key = "text" -> Added(acc, e.i, e.text)
      [] OTHER -> acc

\* one event of reassemble_sse(): a start opens the slot of its index, a delta
\* adds to it and names the kind of a slot nobody opened
Read(acc, e) ==
    CASE e.t = "start" -> Opened(acc, e.i, Slot(e.kind, e.name))
      [] e.t = "delta" /\ e.i \in DOMAIN acc.blocks -> Added(acc, e.i, e.text)
      [] e.t = "delta" /\ e.i \notin DOMAIN acc.blocks -> Added(Opened(acc, e.i, Slot(e.key, None)), e.i, e.text)
      [] OTHER -> acc

\* The elements at the given positions, in order
Chosen(seq, positions) ==
    [k \in 1 .. Cardinality(positions) |->
        seq[CHOOSE i \in positions : Cardinality({j \in positions : j <= i}) = k]]

\* flatten(): blocks as text; a text that is empty is dropped, a call or a
\* thought is kept by its label
Flatten(blocks) == Chosen(blocks, {i \in DOMAIN blocks : blocks[i].kind # "text" \/ blocks[i].text # << >>})

\* What reassemble_sse() keeps: any block with a body
WithBody(blocks) == Chosen(blocks, {i \in DOMAIN blocks : blocks[i].text # << >>})

ToolNames(blocks) ==
    LET calls == Chosen(blocks, {i \in DOMAIN blocks : blocks[i].kind = "tool_use" /\ blocks[i].name # None})
    IN [k \in DOMAIN calls |-> calls[k].name]

\* What is known after k events, for every k
Known(events) ==
    LET upTo[k \in 0 .. Len(events)] ==
            IF k = 0 THEN [blocks |-> << >>, order |-> << >>] ELSE Read(upTo[k - 1], events[k])
    IN upTo

\* reassemble_sse(): the slots with a body, in the order they were opened
ReassembleSse(events) ==
    LET acc == Known(events)[Len(events)]
    IN WithBody([k \in DOMAIN acc.order |-> acc.blocks[acc.order[k]]])

\* assistant_turn(): what the client received before the upstream copy
Turn(raw, source) ==
    LET body == Section(raw, source)
        streamed == ReassembleSse(body)
        json == {i \in DOMAIN body : body[i].t = "json"}
        first == body[CHOOSE i \in json : \A j \in json : i <= j].blocks
    IN IF streamed # << >> THEN [reply |-> streamed, tools |-> ToolNames(streamed), source |-> source]
       ELSE IF json # {} THEN [reply |-> Flatten(first), tools |-> ToolNames(first), source |-> source]
       ELSE [reply |-> << >>, tools |-> << >>, source |-> None]

AssistantTurn(raw) == IF Turn(raw, "response").source # None THEN Turn(raw, "response") ELSE Turn(raw, "api")

\* The first five of some positions
FirstFive(positions) == {i \in positions : Cardinality({j \in positions : j <= i}) <= 5}

\* upstream_details(): every "=== API RESPONSE n ===", the first five errors
UpstreamDetails(raw) ==
    [attempts |-> Cardinality({i \in DOMAIN raw : raw[i].sec = "api"}),
     errors |-> {raw[i].k : i \in FirstFive({i \in DOMAIN raw : raw[i].sec = "event" /\ raw[i].t = "error"})}]

\* parse(): ValueError without REQUEST INFO or a whole REQUEST BODY
Parses(raw) == \E i, j \in DOMAIN raw : raw[i].sec = "info" /\ raw[j].sec = "body"

Body(raw) == raw[CHOOSE i \in DOMAIN raw : raw[i].sec = "body"]

\* last_turn(): the last message alone, the others are history
LastTurn(raw) == IF Body(raw).msgs = << >> THEN None ELSE Body(raw).msgs[Len(Body(raw).msgs)]

Record(raw) ==
    [turn |-> LastTurn(raw), answer |-> AssistantTurn(raw), upstream |-> UpstreamDetails(raw), n |-> Len(raw)]

-----------------------------------------------------------------------------
(* emit-transcripts.py *)

EmitInit ==
    /\ log = [f \in File |-> [state |-> "absent", req |-> None, n |-> 0, idle |-> 0]]
    /\ backlog \in BOOLEAN
    /\ epc = "start"
    /\ seen = {} /\ attempts = [f \in File |-> 0] /\ todo = {}
    /\ emitted = [f \in File |-> << >>]
    /\ skipped = {} /\ paused = {} /\ restarted = 0

Present == {f \in File : log[f].state \in {"open", "closed"}}
Raw(f, n) == SubSeq(Pieces(log[f].req), 1, n)
Readable(f) == f \in Present /\ Parses(Raw(f, log[f].n))

\* candidates(): name, mtime and size as they are now
Candidates == {[f |-> f, n |-> log[f].n, idle |-> log[f].idle] : f \in Present}

Watch ==
    /\ epc = "start"
    /\ seen' = IF backlog THEN {} ELSE Present
    /\ skipped' = IF backlog THEN skipped ELSE skipped \cup Present
    /\ attempts' = [f \in File |-> 0]
    /\ epc' = "pass"
    /\ UNCHANGED <<log, backlog, todo, emitted, paused, restarted>>

BeginPass ==
    /\ epc = "pass"
    /\ todo' = Candidates /\ epc' = "emit"
    /\ UNCHANGED <<log, backlog, seen, attempts, emitted, skipped, paused, restarted>>

Settled(c) == c.n > 0 /\ c.idle >= Stable

Pass(c) == todo' = todo \ {c} /\ UNCHANGED <<log, backlog, epc, skipped, paused, restarted>>

Ignore(c) ==
    /\ c.f \in seen \/ ~Settled(c)
    /\ Pass(c) /\ UNCHANGED <<seen, attempts, emitted>>

TooBig(c) ==
    /\ c.f \notin seen /\ Settled(c) /\ c.n > MaxPieces
    /\ seen' = seen \cup {c.f}
    /\ Pass(c) /\ UNCHANGED <<attempts, emitted>>

\* emit() prints the Record of the file as it is by now
Emit(c) ==
    /\ c.f \notin seen /\ Settled(c) /\ c.n <= MaxPieces
    /\ Readable(c.f)
    /\ emitted' = [emitted EXCEPT ![c.f] = Append(@, log[c.f].n)]
    /\ seen' = seen \cup {c.f} /\ attempts' = [attempts EXCEPT ![c.f] = 0]
    /\ Pass(c)

\* Mutant of GivesUp: the failures are counted and never acted on
GivesUpNever(count) == FALSE

GivesUp(count) == count >= MaxAttempts

\* any exception, the FileNotFoundError of a file deleted meanwhile included
Fails(c) ==
    /\ c.f \notin seen /\ Settled(c) /\ c.n <= MaxPieces
    /\ ~Readable(c.f)
    /\ LET count == attempts[c.f] + 1 IN
       /\ attempts' = [attempts EXCEPT ![c.f] = IF GivesUp(count) \/ count > MaxAttempts THEN 0 ELSE count]
       /\ seen' = IF GivesUp(count) THEN seen \cup {c.f} ELSE seen
    /\ Pass(c) /\ UNCHANGED emitted

\* seen.intersection_update(present)
Kept == seen \cap Present

EndPass ==
    /\ epc = "emit" /\ todo = {}
    /\ epc' = "pass"
    /\ IF Cardinality(seen) > MaxSeen
       THEN seen' = Kept /\ attempts' = [f \in File |-> IF f \in Present THEN attempts[f] ELSE 0]
       ELSE UNCHANGED <<seen, attempts>>
    /\ UNCHANGED <<log, backlog, todo, emitted, skipped, paused, restarted>>

\* OOMKilled, evicted: `seen` is lost
Restart ==
    /\ epc # "start" /\ restarted < MaxRestart
    /\ epc' = "start" /\ todo' = {} /\ restarted' = restarted + 1
    /\ UNCHANGED <<log, backlog, seen, attempts, emitted, skipped, paused>>

-----------------------------------------------------------------------------
(* cliproxy (external) and the clock *)

Open(f) ==
    /\ log[f].state = "absent"
    /\ \E r \in Requests : log' = [log EXCEPT ![f] = [state |-> "open", req |-> r, n |-> 0, idle |-> 0]]
    /\ UNCHANGED <<backlog, epc, seen, attempts, todo, emitted, skipped, paused, restarted>>

Append1(f) ==
    /\ log[f].state = "open"
    /\ LET n == log[f].n + 1 IN
       log' = [log EXCEPT ![f].n = n, ![f].idle = 0,
                          ![f].state = IF n = Len(Pieces(log[f].req)) THEN "closed" ELSE "open"]
    /\ UNCHANGED <<backlog, epc, seen, attempts, todo, emitted, skipped, paused, restarted>>

Delete(f) ==
    /\ log[f].state = "closed"
    /\ log' = [log EXCEPT ![f].state = "deleted"]
    /\ UNCHANGED <<backlog, epc, seen, attempts, todo, emitted, skipped, paused, restarted>>

Second ==
    /\ log' = [f \in File |-> IF log[f].idle < Stable /\ log[f].state \in {"open", "closed"}
                              THEN [log[f] EXCEPT !.idle = @ + 1] ELSE log[f]]
    /\ log' # log
    /\ paused' = paused \cup {f \in File : log[f].state = "open" /\ log'[f].idle >= Stable}
    /\ UNCHANGED <<backlog, epc, seen, attempts, todo, emitted, skipped, restarted>>

Sidecar == \/ Watch \/ BeginPass \/ EndPass
           \/ epc = "emit" /\ \E c \in todo : Ignore(c) \/ TooBig(c) \/ Emit(c) \/ Fails(c)
Writer == \E f \in File : Open(f) \/ Append1(f) \/ Delete(f)

EmitNext == Sidecar \/ Writer \/ Restart \/ Second

EmitFairness == WF_emitVars(Sidecar) /\ WF_emitVars(Second)
EmitSpec == EmitInit /\ [][EmitNext]_emitVars /\ EmitFairness

-----------------------------------------------------------------------------
(* Properties *)

Expected(r) ==
    [reply |-> IF r.stream THEN WithBody(r.reply) ELSE Flatten(r.reply),
     tools |-> ToolNames(IF r.stream THEN WithBody(r.reply) ELSE r.reply),
     turn |-> IF r.msgs = << >> THEN None ELSE r.msgs[Len(r.msgs)],
     errors |-> FirstFive({k \in DOMAIN r.tries : r.tries[k] = "error"})]

\* A request is printed at most once while EMIT_BACKLOG is off, over restarts,
\* deletions and the pruning of `seen` (a prune that forgot a file still on
\* disk would print it again on the next pass).
EmittedOnce == \A f \in File : ~backlog => Len(emitted[f]) <= 1

\* A record is about the whole request unless its writer once rested
\* STABLE_SECONDS; and the record of a whole request has what was said: the
\* blocks of the reply with every piece of each, in order, the tools called
\* (but for blocks that were streamed without a body),
\* the last message of the request and the errors of the first five attempts
\* that failed.
EmittedWhole ==
    \A f \in File : \A k \in DOMAIN emitted[f] :
        LET r == log[f].req e == Record(Raw(f, emitted[f][k])) x == Expected(r) IN
        /\ e.n = Len(Pieces(r)) \/ f \in paused
        /\ e.n = Len(Pieces(r)) =>
              /\ e.turn = x.turn
              /\ e.answer.reply = x.reply
              /\ e.answer.tools = x.tools
              /\ e.upstream.errors = x.errors
              /\ e.upstream.attempts = Len(r.tries)

\* Every finished file is settled some day: printed, skipped, given up on, or
\* deleted first.  A file that never parses does not stay a candidate.
FileSettles == \A f \in File : (log[f].state = "closed") ~> (f \in seen \/ log[f].state = "deleted")
=============================================================================
