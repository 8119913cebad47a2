---------------------------- MODULE VerdictIntake ----------------------------
(***************************************************************************)
(* The HTTP intake of verdicts, images/vpn-picker/vpn_picker.py: do_POST,  *)
(* with one thread per request, validates a verdict (parse_verdict) and    *)
(* stores it under the name of its producer and server (verdict_filename,  *)
(* persist_verdict).  On the other side the publisher thread of an agent   *)
(* (images/airvpn-bluetit/agent.py, _post_bad_server) posts one verdict    *)
(* after the other and gives a post up when it times out, while the        *)
(* scorer's thread may still be at work on it.  An agent configured for    *)
(* the shared directory writes the same file itself (_write_bad_server).   *)
(*                                                                         *)
(* One server per agent: other pairs have files of their own.  A request   *)
(* is good, or fails one of the checks.  A stored verdict names the        *)
(* request it came from; `whole` is whether the file has all of it.        *)
(***************************************************************************)
EXTENDS Naturals, FiniteSets

CONSTANTS
    Agent,         \* producers
    TTL,           \* ttl_seconds of their verdicts
    IntakeToken,   \* whether VPN_PICKER_INTAKE_TOKEN is set
    MaxPost,       \* bound: posts of one agent
    MaxNow,        \* bound: last instant explored
    MaxCrash,      \* bound: how often the scorer dies
    None

Fault == {"none", "path", "token", "length", "size", "schema"}
Answers == {202, 400, 401, 404, 413, 500, 503}

Posts == Agent \X (1 .. MaxPost)

Request ==
    [obs : Nat, via : {"http", "file"}, fault : Fault, pc : {"arrived", "write", "replace", "answer", "end"},
     answer : Answers \cup {None}, abandoned : BOOLEAN]
Verdict == [by : Posts, whole : BOOLEAN]

IntakeAssumption ==
    MaxPost \in Nat /\ IntakeToken \in BOOLEAN /\ None \notin Nat \cup Request \cup Verdict

VARIABLES
    vnow,      \* the clock of both sides
    post,      \* post[a][i]: the i-th post of agent a, or None
    sent,      \* sent[a]: how many posts agent a has made
    verdictOf, \* verdictOf[a]: the verdict file of agent a, or None
    crashed    \* how often the scorer has died

ivars == <<vnow, post, sent, verdictOf, crashed>>

Req(p) == post[p[1]][p[2]]

With(p, r) == post' = [post EXCEPT ![p[1]][p[2]] = r]

\* The agent waits for the answer of its last post only
Waits(a) == sent[a] > 0 /\ post[a][sent[a]].answer = None /\ ~post[a][sent[a]].abandoned

\* The publisher's worker hands over an observation of this instant, or one that
\* was queued, to one of the two transports
Publish(a, via, fault, pc) ==
    /\ sent[a] < MaxPost
    /\ ~Waits(a)
    /\ sent' = [sent EXCEPT ![a] = @ + 1]
    /\ \E obs \in 0 .. vnow :
          /\ sent[a] > 0 => obs >= post[a][sent[a]].obs
          /\ post' = [post EXCEPT ![a][sent[a] + 1] =
                 [obs |-> obs, via |-> via, fault |-> fault, pc |-> pc, answer |-> None, abandoned |-> FALSE]]
    /\ UNCHANGED <<vnow, verdictOf, crashed>>

\* _post_bad_server()
Post(a) ==
    \E fault \in Fault : Publish(a, "http", fault, "arrived")

\* _write_bad_server(): the agent, configured for the shared directory, writes the
\* file of the same name itself, in the same two steps
WriteBadServer(a) == Publish(a, "file", "none", "write")

\* The post times out on the agent's side, and goes on at the scorer's; or the
\* agent dies in the middle of its own write
GiveUp(a) ==
    /\ Waits(a)
    /\ LET p == <<a, sent[a]>> IN
       With(p, [Req(p) EXCEPT !.abandoned = TRUE,
                              !.pc = IF Req(p).via = "file" THEN "end" ELSE @])
    /\ UNCHANGED <<vnow, sent, verdictOf, crashed>>

\* do_POST() before anything is stored: another path, the intake disabled, the
\* token missing or wrong, the length missing or too large, the document invalid,
\* or past its lease
Refusal(r) ==
    CASE r.fault = "path" -> 404
      [] r.fault # "path" /\ ~IntakeToken -> 503
      [] IntakeToken /\ r.fault = "token" -> 401
      [] IntakeToken /\ r.fault = "size" -> 413
      [] IntakeToken /\ r.fault \in {"length", "schema"} -> 400
      [] IntakeToken /\ r.fault = "none" /\ vnow - r.obs > TTL -> 400
      [] OTHER -> None

Examine(p) ==
    /\ Req(p) # None /\ Req(p).pc = "arrived"
    /\ LET r == Req(p) IN
       With(p, IF Refusal(r) # None THEN [r EXCEPT !.pc = "end", !.answer = Refusal(r)]
               ELSE [r EXCEPT !.pc = "write"])
    /\ UNCHANGED <<vnow, sent, verdictOf, crashed>>

\* persist_verdict(): a temporary file of its own thread, flushed and synced ...
WriteTemp(p) ==
    /\ Req(p) # None /\ Req(p).pc = "write"
    /\ With(p, [Req(p) EXCEPT !.pc = "replace"])
    /\ UNCHANGED <<vnow, sent, verdictOf, crashed>>

\* ... and moved over the file of this producer and server, in whatever order the
\* threads get there; then the answer
ReplaceFile(p) ==
    /\ Req(p) # None /\ Req(p).pc = "replace"
    /\ verdictOf' = [verdictOf EXCEPT ![p[1]] = [by |-> p, whole |-> TRUE]]
    /\ With(p, [Req(p) EXCEPT !.pc = "answer"])
    /\ UNCHANGED <<vnow, sent, crashed>>

Accept(p) ==
    /\ Req(p) # None /\ Req(p).pc = "answer"
    /\ With(p, [Req(p) EXCEPT !.pc = "end", !.answer = 202])
    /\ UNCHANGED <<vnow, sent, verdictOf, crashed>>

\* Mutant of StoreFails: the old file goes with the temporary one
StoreFailsUnlinks(p) ==
    /\ Req(p) # None /\ Req(p).pc \in {"write", "replace"}
    /\ With(p, [Req(p) EXCEPT !.pc = "end", !.answer = 500])
    /\ verdictOf' = [verdictOf EXCEPT ![p[1]] = None]
    /\ UNCHANGED <<vnow, sent, crashed>>

\* The storage fails: the temporary file is unlinked, the old verdict stays
StoreFails(p) ==
    /\ Req(p) # None /\ Req(p).pc \in {"write", "replace"}
    /\ With(p, [Req(p) EXCEPT !.pc = "end", !.answer = 500])
    /\ UNCHANGED <<vnow, sent, verdictOf, crashed>>

\* The scorer dies: requests in hand are never answered, hidden temporary files
\* are left in the directory, where load_active_verdicts() does not look at them
ScorerDies ==
    /\ crashed < MaxCrash
    /\ crashed' = crashed + 1
    /\ post' = [a \in Agent |-> [i \in 1 .. MaxPost |->
           IF post[a][i] # None /\ post[a][i].via = "http" /\ post[a][i].pc # "end"
           THEN [post[a][i] EXCEPT !.pc = "end", !.abandoned = TRUE] ELSE post[a][i]]]
    /\ UNCHANGED <<vnow, sent, verdictOf>>

Pass ==
    /\ vnow < MaxNow
    /\ vnow' = vnow + 1
    /\ UNCHANGED <<post, sent, verdictOf, crashed>>

-----------------------------------------------------------------------------
IntakeInit ==
    /\ vnow = 0
    /\ post = [a \in Agent |-> [i \in 1 .. MaxPost |-> None]]
    /\ sent = [a \in Agent |-> 0]
    /\ verdictOf = [a \in Agent |-> None]
    /\ crashed = 0

IntakeNext ==
    \/ \E a \in Agent : Post(a) \/ WriteBadServer(a) \/ GiveUp(a)
    \/ \E p \in Posts : Examine(p) \/ WriteTemp(p) \/ ReplaceFile(p) \/ Accept(p) \/ StoreFails(p)
    \/ ScorerDies \/ Pass

IntakeSpec == IntakeInit /\ [][IntakeNext]_ivars

-----------------------------------------------------------------------------
(* Properties *)

IntakeTypeOK ==
    /\ sent \in [Agent -> 0 .. MaxPost]
    /\ post \in [Agent -> [1 .. MaxPost -> Request \cup {None}]]
    /\ verdictOf \in [Agent -> Verdict \cup {None}]

Obs(p) == Req(p).obs

\* A verdict that was answered with 202, or written by the agent itself, stays in the
\* store until a newer one takes its place, whichever way that one comes, and
\* across crashes and storage failures.  The one exception: an
\* older post of the same pair that the agent had given up comes in late
\* (persist_verdict replaces without comparing).
AcceptedKept ==
    \A p \in Posts : Req(p) # None /\ Req(p).answer = 202 =>
        LET f == verdictOf[p[1]] IN
        /\ f # None
        /\ Obs(f.by) >= Obs(p) \/ Req(f.by).abandoned

\* What is in the store is a whole verdict that passed every check: a refused or a
\* failed post leaves no trace, and a crash no half file (do_POST, persist_verdict).
StoreSound ==
    \A a \in Agent : verdictOf[a] # None =>
        LET r == Req(verdictOf[a].by) IN
        /\ verdictOf[a].whole
        /\ r.fault = "none" /\ (IntakeToken \/ r.via = "file")
        /\ r.answer = 202 \/ r.pc = "answer" \/ r.abandoned

\* All of it: the store has what was accepted, and nothing that was not.
IntakeKeeps == IntakeTypeOK /\ AcceptedKept /\ StoreSound
=============================================================================
