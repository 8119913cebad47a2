---------------------------- MODULE VaultWrites ----------------------------
(***************************************************************************)
(* The commands of the workspace vault client (t3code/env/files/           *)
(* vault-client.py: create, update, trash, attach, run), each a process of *)
(* its own, talking to one `bw serve` that keeps a local cache of the      *)
(* organisation's vault.  A request may fail before or after the vault     *)
(* applied it, and one whose client timed out may be applied later; the    *)
(* cache follows the vault with a delay, or at once on a sync.             *)
(*                                                                         *)
(* Every client writes its own name, so a field tells who wrote it last.   *)
(* All attachments carry the one file name the attach commands use.        *)
(* `due` is auxiliary: who last had an update of the field confirmed.      *)
(***************************************************************************)
EXTENDS Integers, FiniteSets

CONSTANTS
    Client,     \* processes of the client, one command each
    Item,       \* item ids; one exists at the start
    First,      \* the item that exists
    Field,      \* fields of an item
    None

Ops == {"create", "update", "trash", "attach", "run"}

\* An attachment is named after its uploader; "old" was there before
Att == [by : Client \cup {"old"}, good : BOOLEAN]

\* an item of the vault, and a command line
ItemState == [val : [Field -> Client \cup {None}], att : SUBSET Att, trashed : BOOLEAN]
Command == [op : Ops, item : Item, field : Field]

VaultAssumption ==
    First \in Item /\ "old" \notin Client /\ None \notin Client \cup Item \cup ItemState \cup Command

VARIABLES
    vault,      \* vault[i]: the item, or None
    cache,      \* what bw serve answers
    wlock,      \* the holder of ~/.vault-write.lock, or None
    cmd,        \* cmd[c]: [op, item, field], the command line
    cl,         \* cl[c]: [pc, seen, new, code]
    late,       \* a request whose client gave up and that is still under way
    due         \* due[i][f]: the client whose confirmed value must be there

vaultVars == <<vault, cache, wlock, cmd, cl, late, due>>

NewItem == [val |-> [f \in Field |-> None], att |-> {}, trashed |-> FALSE]

Code == {0, 1, 2, 124, 130, 137}

VaultInit ==
    /\ vault = [i \in Item |-> IF i = First THEN [NewItem EXCEPT !.att = {[by |-> "old", good |-> TRUE]}] ELSE None]
    /\ cache = vault
    /\ wlock = None
    /\ cmd = [c \in Client |-> None]
    /\ cl = [c \in Client |-> [pc |-> "new", seen |-> None, new |-> None, code |-> None]]
    /\ late = None
    /\ due = [i \in Item |-> [f \in Field |-> None]]

At(c, pc) == cl[c].pc = pc
Goto(c, pc) == cl' = [cl EXCEPT ![c].pc = pc]
It(c) == cmd[c].item

\* main(): the process ends with this exit code; the kernel drops its flock
Exit(c, code) ==
    /\ cl' = [cl EXCEPT ![c].pc = "end", ![c].code = code]
    /\ wlock' = IF wlock = c THEN None ELSE wlock

-----------------------------------------------------------------------------
(* The commands *)

\* write(), run(): arguments and scope() are checked before anything is sent;
\* a missing scope file or a bad document is refused
Start(c) ==
    /\ At(c, "new")
    /\ \E op \in Ops, i \in Item, f \in Field :
          /\ op = "create" => vault[i] = None /\ \A d \in Client : cmd[d] # None => cmd[d].item # i
          /\ op # "update" => f = CHOOSE g \in Field : TRUE
          /\ cmd' = [cmd EXCEPT ![c] = [op |-> op, item |-> i, field |-> f]]
          /\ \/ Goto(c, IF op = "run" THEN "select" ELSE "lock") /\ UNCHANGED wlock
             \/ Exit(c, 1)
    /\ UNCHANGED <<vault, cache, late, due>>

\* Mutant of Acquire: nobody takes the lock
AcquireNothing(c) ==
    /\ At(c, "lock")
    /\ Goto(c, IF cmd[c].op = "create" THEN "send" ELSE "select")
    /\ UNCHANGED <<vault, cache, wlock, cmd, late, due>>

\* write_lock(): flock(LOCK_EX) on one file per home directory
Acquire(c) ==
    /\ At(c, "lock") /\ wlock = None
    /\ wlock' = c
    /\ Goto(c, IF cmd[c].op = "create" THEN "send" ELSE "select")
    /\ UNCHANGED <<vault, cache, cmd, late, due>>

\* selected_item(): sync, then the item, which must be in scope and not
\* trashed; attach() refuses when two attachments have its file name
Select(c) ==
    /\ At(c, "select")
    /\ \/ Exit(c, 1) /\ UNCHANGED cache                         \* no sync
       \/ /\ cache' = vault
          /\ LET x == vault[It(c)] IN
             IF x = None \/ (x # None /\ (x.trashed \/ (cmd[c].op = "attach" /\ Cardinality(x.att) > 1)))
             THEN Exit(c, 1)
             ELSE /\ cl' = [cl EXCEPT ![c].pc = IF cmd[c].op = "run" THEN "child" ELSE "send", ![c].seen = x]
                  /\ UNCHANGED wlock
    /\ UNCHANGED <<vault, cmd, late, due>>

\* What a request does to its item when the vault applies it.  An update sends
\* the whole item it read, with its document merged in; attachments and the
\* trash are not part of it.
Effect(c, x, good) ==
    IF cmd[c].op = "create" THEN NewItem
    ELSE IF x = None THEN None
    ELSE CASE cmd[c].op = "update" -> [x EXCEPT !.val = [cl[c].seen.val EXCEPT ![cmd[c].field] = c]]
           [] cmd[c].op = "trash"  -> [x EXCEPT !.trashed = TRUE]
           [] cmd[c].op = "attach" -> [x EXCEPT !.att = @ \cup {[by |-> c, good |-> good]}]

\* the confirmed value of a field that is being written is not owed any more
Superseded(c) ==
    IF cmd[c].op = "update" THEN [due EXCEPT ![It(c)][cmd[c].field] = None] ELSE due

\* fetch() of the write itself: applied and answered; or the client sees an
\* error or its 45 s alarm (exit 1) or a signal (exit 130), when the vault has
\* applied it, never will, or is still to.  An upload may arrive damaged.
SendWrite(c) ==
    /\ At(c, "send")
    /\ \E good \in IF cmd[c].op = "attach" THEN BOOLEAN ELSE {TRUE} :
       LET done == vault' = [vault EXCEPT ![It(c)] = Effect(c, @, good)] /\ due' = Superseded(c) IN
       \/ done /\ cl' = [cl EXCEPT ![c].pc = "confirm", ![c].new = [by |-> c, good |-> good]] /\ UNCHANGED <<wlock, late>>
       \/ \E code \in {1, 130} :
             /\ Exit(c, code)
             /\ \/ done /\ UNCHANGED late
                \/ UNCHANGED <<vault, due, late>>
                \/ late = None /\ late' = c /\ UNCHANGED <<vault, due>>
    /\ UNCHANGED <<cache, cmd>>

\* the vault applies a request its client gave up on
Land ==
    /\ late # None
    /\ vault' = [vault EXCEPT ![It(late)] = Effect(late, @, TRUE)]
    /\ due' = [due EXCEPT ![It(late)] = [f \in Field |-> None]]
    /\ late' = None
    /\ UNCHANGED <<cache, wlock, cmd, cl>>

CacheFollows(i) == cache[i] # vault[i] /\ cache' = [cache EXCEPT ![i] = vault[i]] /\ UNCHANGED <<vault, wlock, cmd, cl, late, due>>

\* wait_for_cache(): what the command must see before it goes on
Shown(c) ==
    LET x == cache[It(c)] IN
    /\ x # None
    /\ cmd[c].op # "trash" => ~x.trashed
    /\ CASE cmd[c].op = "create" -> TRUE
         [] cmd[c].op = "update" -> x.val[cmd[c].field] = c
         [] cmd[c].op = "trash"  -> x.trashed
         [] cmd[c].op = "attach" -> cl[c].new \in x.att

\* confirming_write() around wait_for_cache(): 5 s, then exit 2
Confirm(c) ==
    /\ At(c, "confirm")
    /\ \/ /\ Shown(c)
          /\ IF cmd[c].op = "attach"
             THEN Goto(c, "verify") /\ UNCHANGED <<wlock, due>>
             ELSE /\ Exit(c, 0)
                  /\ due' = IF cmd[c].op = "update" /\ vault[It(c)].val[cmd[c].field] = c
                            THEN [due EXCEPT ![It(c)][cmd[c].field] = c] ELSE due
       \/ Exit(c, 2) /\ UNCHANGED due
    /\ UNCHANGED <<vault, cache, cmd, late>>

\* attach(): download what was uploaded and compare; on any exception, a
\* signal included, the upload is taken back
Verify(c) ==
    /\ At(c, "verify")
    /\ \/ /\ cl[c].new.good
          /\ IF cl[c].seen.att # {} THEN Goto(c, "remove") /\ UNCHANGED wlock ELSE Exit(c, 0)
       \/ \E code \in {2, 130} :
             cl' = [cl EXCEPT ![c].pc = "undo", ![c].code = code] /\ UNCHANGED wlock
    /\ UNCHANGED <<vault, cache, cmd, late, due>>

\* the DELETE of a bad upload; its own failure is suppressed
Undo(c) ==
    /\ At(c, "undo")
    /\ vault' \in {vault, [vault EXCEPT ![It(c)].att = @ \ {cl[c].new}]}
    /\ Exit(c, cl[c].code)
    /\ UNCHANGED <<cache, cmd, late, due>>

\* the DELETE of the attachment that was replaced
Remove(c) ==
    /\ At(c, "remove")
    /\ vault' \in {vault, [vault EXCEPT ![It(c)].att = @ \ cl[c].seen.att]}
    /\ \/ vault' # vault /\ Goto(c, "gone") /\ UNCHANGED wlock
       \/ Exit(c, 2)
    /\ UNCHANGED <<cache, cmd, late, due>>

\* wait_for_cache() again: the new attachment is there and the old one is not
Gone(c) ==
    /\ At(c, "gone")
    /\ LET x == cache[It(c)] IN
       \/ x # None /\ cl[c].new \in x.att /\ cl[c].seen.att \cap x.att = {} /\ Exit(c, 0)
       \/ Exit(c, 2)
    /\ UNCHANGED <<vault, cache, cmd, late, due>>

\* run(): the child ends, times out, or the client is told to stop; stop()
\* kills its process group either way
Child(c) ==
    /\ At(c, "child")
    /\ \E code \in {0, 1, 124, 130} : Exit(c, code)
    /\ UNCHANGED <<vault, cache, cmd, late, due>>

\* SIGTERM or SIGINT between two requests (confirming_write() lets Cancelled
\* pass), and SIGKILL
Interrupted(c) ==
    /\ cl[c].pc \in {"lock", "select", "confirm", "remove", "gone", "undo"}
    /\ Exit(c, 130) \/ Exit(c, 137)
    /\ UNCHANGED <<vault, cache, cmd, late, due>>

Work(c) ==
    \/ Acquire(c) \/ Select(c) \/ SendWrite(c) \/ Confirm(c) \/ Verify(c) \/ Undo(c)
    \/ Remove(c) \/ Gone(c) \/ Child(c)

VaultNext ==
    \/ \E c \in Client : Start(c) \/ Work(c) \/ Interrupted(c)
    \/ \E i \in Item : CacheFollows(i)
    \/ Land

\* Every wait of the client has a deadline; flock is granted in turn
VaultFairness == \A c \in Client : WF_vaultVars(Work(c) /\ ~At(c, "lock")) /\ SF_vaultVars(Acquire(c))

VaultSpec == VaultInit /\ [][VaultNext]_vaultVars /\ VaultFairness

-----------------------------------------------------------------------------
(* Properties *)

\* Type invariant: the items, the cache and every client hold what the code
\* keeps there, and only a client that is running holds the lock.
VaultTypeOK ==
    /\ vault \in [Item -> ItemState \cup {None}]
    /\ wlock # None => cl[wlock].pc \notin {"new", "lock", "end"}
    /\ \A c \in Client : At(c, "end") => cl[c].code \in Code

\* attach() replaces an attachment by uploading, verifying and only then
\* deleting: through damaged uploads, lost requests, signals and a concurrent
\* client, an item that had an intact attachment always has one.
OldCopyKept == \E a \in vault[First].att : a.good

\* An update that ended with exit 0 is not lost to another client of the pod:
\* the field keeps its value until a later update of that same field, although
\* each update sends the whole item it read back.  (A request that was given up
\* on and lands late may still undo it; `due` excepts exactly that.)
ConfirmedKept ==
    \A i \in Item, f \in Field : due[i][f] # None => vault[i].val[f] = due[i][f]

\* What the owner of the vault may rely on, together.
VaultWritesKept == VaultTypeOK /\ OldCopyKept /\ ConfirmedKept

\* Every command ends, and no client waits for the write lock for ever.
CommandEnds == \A c \in Client : ~At(c, "new") ~> At(c, "end")
=============================================================================
