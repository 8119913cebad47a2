----------------------------- MODULE VaultTools -----------------------------
(***************************************************************************)
(* The hub's vault tools (mcp-hub/files/vaultwarden_mcp.py): calls that    *)
(* run side by side over one `bw serve`, whose cache is refreshed by a     *)
(* sync, while the owner edits the same vault in the Bitwarden apps.       *)
(*                                                                         *)
(* An item has the part the tools write (path, files) and the part only    *)
(* the apps edit here (app, a count of edits); a PUT sends both.  The copy *)
(* of bw serve is behind the vault only in the edits of the apps.          *)
(* `behind[t]` is auxiliary: the items changed by others since the sync of *)
(* call t.                                                                 *)
(***************************************************************************)
EXTENDS Integers, FiniteSets

CONSTANTS
    Tool,       \* concurrent tool calls
    Path,       \* item paths, /<folder>/<name>
    MaxItem,    \* bound: items ever in the vault
    MaxFile,    \* bound: attachments ever uploaded
    MaxEdit,    \* bound: edits of an item in the apps
    None

Id == 1 .. MaxItem
Held == [path : Path, app : Nat, files : SUBSET Nat]

ToolAssumption == Path # {} /\ MaxItem \in Nat \ {0} /\ None \notin Tool \cup Held

VARIABLES
    remote,     \* the vault: remote[i] is the item i, or None
    known,      \* known[i]: the edits of item i that bw serve's copy has
    serial,     \* [item, file]: the ids given out so far
    synced,     \* less than SYNC_EVERY since _last_sync
    tool,       \* tool[t]: [pc, op, path, id, app, old]
    behind,     \* behind[t]: items others changed since t's own sync
    clobbered   \* app edits undone by a PUT that had read them, or could have

toolVars == <<remote, known, serial, synced, tool, behind, clobbered>>

Ops == {"get", "add", "update", "trash", "attach"}
Resting == [pc |-> "idle", op |-> None, path |-> None, id |-> None, app |-> 0, old |-> {}]

ToolInit ==
    /\ remote = [i \in Id |-> IF i = 1 THEN [path |-> CHOOSE p \in Path : TRUE, app |-> 0, files |-> {1}] ELSE None]
    /\ known = [i \in Id |-> 0]
    /\ serial = [item |-> 1, file |-> 1]
    /\ synced = FALSE
    /\ tool = [t \in Tool |-> Resting]
    /\ behind = [t \in Tool |-> {}]
    /\ clobbered = FALSE

At(t, pc) == tool[t].pc = pc
Forget(t) == behind' = [behind EXCEPT ![t] = {}]
Done(t) == tool' = [tool EXCEPT ![t] = Resting] /\ Forget(t)
\* item i was changed by t (None: by an app)
Changed(i, t) ==
    behind' = [u \in Tool |-> IF u = t \/ tool[u].pc \in {"idle", "sync"} THEN {} ELSE behind[u] \cup {i}]

Call(t) ==
    /\ At(t, "idle")
    /\ \E op \in Ops, p \in Path :
          tool' = [tool EXCEPT ![t] = [Resting EXCEPT !.pc = IF op = "add" THEN "write" ELSE "sync", !.op = op, !.path = p]]
    /\ UNCHANGED <<remote, known, serial, synced, behind, clobbered>>

\* _sync(force): the writes pass fresh=True
MustSync(t) == tool[t].op # "get" \/ ~synced

\* a failing sync fails the call
Sync(t) ==
    /\ At(t, "sync")
    /\ \/ /\ MustSync(t)
          /\ \/ /\ known' = [i \in Id |-> IF remote[i] = None THEN 0 ELSE remote[i].app] /\ synced' = TRUE
                /\ tool' = [tool EXCEPT ![t].pc = "find"]
                /\ behind' = [behind EXCEPT ![t] = {}]
             \/ Done(t) /\ UNCHANGED <<known, synced>>
       \/ /\ ~MustSync(t)
          /\ tool' = [tool EXCEPT ![t].pc = "find"]
          /\ behind' = [behind EXCEPT ![t] = {}]
          /\ UNCHANGED <<known, synced>>
    /\ UNCHANGED <<remote, serial, clobbered>>

\* _find(): the first item at the path, in the order bw lists them; attach also
\* notes the attachments of its file name
Find(t) ==
    /\ At(t, "find")
    /\ LET hits == {i \in Id : remote[i] # None /\ remote[i].path = tool[t].path} IN
       IF hits = {} \/ tool[t].op = "get" THEN Done(t)
       ELSE \E i \in hits :
            /\ tool' = [tool EXCEPT ![t].pc = "write", ![t].id = i, ![t].app = known[i],
                                    ![t].old = IF tool[t].op = "attach" THEN remote[i].files ELSE {}]
            /\ UNCHANGED behind
    /\ UNCHANGED <<remote, known, serial, synced, clobbered>>

\* bw serve passes a write on and keeps its own copy in step; the caller may
\* see an error although it was applied
Apply(i, x, app) == remote' = [remote EXCEPT ![i] = x] /\ known' = [known EXCEPT ![i] = app]

\* _update_tool(): the whole item as it was found, with the new values; a
\* title moves it to another path
Put(t) ==
    /\ At(t, "write") /\ tool[t].op = "update"
    /\ LET i == tool[t].id IN
       \/ /\ remote[i] # None
          /\ \E p \in Path :
                Apply(i, [remote[i] EXCEPT !.path = p, !.app = tool[t].app], tool[t].app)
          /\ Changed(i, t)
          /\ clobbered' = (clobbered \/ (tool[t].app < remote[i].app /\ i \notin behind[t]))
       \/ Forget(t) /\ UNCHANGED <<remote, known, clobbered>>
    /\ tool' = [tool EXCEPT ![t] = Resting]
    /\ UNCHANGED <<serial, synced>>

\* _add_tool(): no look at what is there, so a path may be taken twice
Add(t) ==
    /\ At(t, "write") /\ tool[t].op = "add"
    /\ \/ /\ serial.item < MaxItem
          /\ serial' = [serial EXCEPT !.item = @ + 1]
          /\ Apply(serial'.item, [path |-> tool[t].path, app |-> 0, files |-> {}], 0)
          /\ Changed(serial'.item, t)
       \/ Forget(t) /\ UNCHANGED <<remote, known, serial>>
    /\ tool' = [tool EXCEPT ![t] = Resting]
    /\ UNCHANGED <<synced, clobbered>>

Trash(t) ==
    /\ At(t, "write") /\ tool[t].op = "trash"
    /\ \/ Apply(tool[t].id, None, 0) /\ Changed(tool[t].id, t)
       \/ Forget(t) /\ UNCHANGED <<remote, known>>
    /\ tool' = [tool EXCEPT ![t] = Resting]
    /\ UNCHANGED <<serial, synced, clobbered>>

\* _attach_tool(): "upload first: a failure keeps the old copy"
Upload(t) ==
    /\ At(t, "write") /\ tool[t].op = "attach"
    /\ LET i == tool[t].id IN
       \/ /\ remote[i] # None /\ serial.file < MaxFile
          /\ serial' = [serial EXCEPT !.file = @ + 1]
          /\ Apply(i, [remote[i] EXCEPT !.files = @ \cup {serial'.file}], remote[i].app)
          /\ Changed(i, t)
          /\ \/ tool' = [tool EXCEPT ![t].pc = "delete"]
             \/ tool' = [tool EXCEPT ![t] = Resting]
       \/ Done(t) /\ UNCHANGED <<remote, known, serial>>
    /\ UNCHANGED <<synced, clobbered>>

\* Mutant of Doomed: what bears the name now, not what bore it before
DoomedNow(t) == IF remote[tool[t].id] = None THEN {} ELSE remote[tool[t].id].files

\* the attachments found before the upload
Doomed(t) == tool[t].old

\* one DELETE per attachment; an error (it is gone already) ends the call
Delete(t) ==
    /\ At(t, "delete")
    /\ LET i == tool[t].id IN
       IF Doomed(t) = {} \/ remote[i] = None THEN Done(t) /\ UNCHANGED <<remote, known>>
       ELSE \E a \in Doomed(t) :
               \/ /\ a \in remote[i].files
                  /\ Apply(i, [remote[i] EXCEPT !.files = @ \ {a}], remote[i].app)
                  /\ Changed(i, t)
                  /\ tool' = [tool EXCEPT ![t].old = @ \ {a}, ![t].app = 0]
               \/ Done(t) /\ UNCHANGED <<remote, known>>
    /\ UNCHANGED <<serial, synced, clobbered>>

\* the owner edits an item in an app; the copy of bw serve does not see it
AppEdit ==
    /\ \E i \in Id :
          /\ remote[i] # None /\ remote[i].app < MaxEdit
          /\ remote' = [remote EXCEPT ![i].app = @ + 1]
          /\ Changed(i, None)
    /\ UNCHANGED <<known, serial, synced, tool, clobbered>>

SyncEveryPassed == synced /\ synced' = FALSE /\ UNCHANGED <<remote, known, serial, tool, behind, clobbered>>

ToolNext ==
    \/ \E t \in Tool :
          Call(t) \/ Sync(t) \/ Find(t) \/ Put(t) \/ Add(t) \/ Trash(t) \/ Upload(t) \/ Delete(t)
    \/ AppEdit \/ SyncEveryPassed

ToolSpec == ToolInit /\ [][ToolNext]_toolVars

-----------------------------------------------------------------------------
(* Properties *)

\* "Writes pass fresh=True so they never PUT back a stale copy" (_find()): an
\* edit made in an app is undone by an update only if it was made after that
\* update's own sync, in the moment between its read and its PUT.
EditKept == ~clobbered

\* Replacing an attachment never leaves the item without one of that name,
\* with failed or half-acknowledged uploads and deletions and with two calls
\* replacing the same attachment at once.
AttachmentKept == remote[1] # None => remote[1].files # {}

\* Both of them: what the tools keep of an item that others edit as well.
VaultToolsKeep == EditKept /\ AttachmentKept
=============================================================================
