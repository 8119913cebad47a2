--------------------------- MODULE ClusterImport ---------------------------
(***************************************************************************)
(* add-cluster.py: stage() copies a directory of reviewed work inputs to a *)
(* new one with one more cluster in it.  Everything is read and checked    *)
(* first; then the output is created, written file by file, validated, and *)
(* taken away again when that fails.  Two runs may overlap, with the same  *)
(* output or one's output as the other's input, and be killed anywhere.    *)
(*                                                                         *)
(* Of the seven files three stand for the rest: "access" for those that    *)
(* are parsed (work-auth.json, kubeconfig, bundle.json, services.json),    *)
(* "keys" for those that are only copied (authorized_keys, policies.json)  *)
(* and runtime.json, which holds the digests of the others.  A digest is   *)
(* the text; the text of "access" is the set of its pins.  One field of an *)
(* authentication scope stands for the four: all go by the same rule.      *)
(***************************************************************************)
EXTENDS Naturals, FiniteSets

CONSTANTS
    Import,     \* overlapping runs
    Output,     \* the directories that a run may be told to create
    Order,      \* what a run may be told to import: [user, field, https, given]
    MaxKill,    \* bound: runs killed
    None

Given == "reviewed"     \* the directory that exists
File == {"access", "keys", "runtime"}
Input == File \ {"runtime"}

VARIABLES
    dir,        \* dir[d]: None, or the text of each of its files, None where there is none
    irun,       \* irun[r]: [pc, from, to, order, data]; its cluster's name is r
    reported,   \* directories a run has reported as staged
    killed

importerVars == <<dir, irun, reported, killed>>

\* An order: how the source's user logs in, the field of the scope in that, whether
\* its cluster has HTTPS with an inline CA and nothing else, and the field given
\* on the command line
BasePins == {[name |-> "base", field |-> "base"]}
Keys == {"all"}
Reviewed == [access |-> BasePins, keys |-> Keys, runtime |-> [access |-> BasePins, keys |-> Keys]]

\* what is left of a file when writing it stops half way
Cut(f) == IF f = "runtime" THEN [access |-> {}, keys |-> {}] ELSE {}

\* What a pin, a file and a directory may hold
Field(o) == IF o.given # None THEN o.given ELSE o.field
PinSets == SUBSET [name : Import \cup {"base"}, field : {"base"} \cup {Field(o) : o \in Order}]
Text == PinSets \cup (SUBSET Keys) \cup [access : PinSets, keys : SUBSET Keys]
Directory == [File -> Text \cup {None}]

\* No cluster is imported under the name of the first one, no output is the reviewed
\* input, and None is none of the values.
ImporterAssumption ==
    /\ "base" \notin Import /\ Given \notin Output
    /\ \A t \in PinSets : t # None
    /\ \A t \in SUBSET Keys : t # None
    /\ \A t \in [access : PinSets, keys : SUBSET Keys] : t # None
    /\ None \notin Directory

Gone == [pc |-> "new", from |-> None, to |-> None, order |-> None, data |-> None]

ImporterInit ==
    /\ dir = [d \in {Given} \cup Output |-> IF d = Given THEN Reviewed ELSE None]
    /\ irun = [r \in Import |-> Gone] /\ reported = {Given} /\ killed = 0

Step(r, pc) == irun' = [irun EXCEPT ![r].pc = pc]

-----------------------------------------------------------------------------
(* The new entry *)

\* source_scope(): nothing of a user with credentials is taken
Scoped(o) == o.user # "static" /\ o.https

\* supplied metadata may complete the source, never contradict it
Agreed(o) == o.field = None \/ o.given \in {None, o.field}

\* imported_entry() and validate_scope(): a complete scope
Importable(o) == Scoped(o) /\ Agreed(o) /\ Field(o) # None

Pin(r) == [name |-> r, field |-> Field(irun[r].order)]

-----------------------------------------------------------------------------
(* stage() *)

\* the digests of runtime.json against the files
Matches(d) == \A f \in Input : dir[d].runtime[f] = dir[d][f]

\* exactly the reviewed files, parseable, with their digests
Sound(d) ==
    /\ dir[d] # None /\ \A f \in File : dir[d][f] # None
    /\ \A f \in {"access", "runtime"} : dir[d][f] # Cut(f)
    /\ Matches(d)

Names(pins) == {p.name : p \in pins}

Start(r) ==
    /\ irun[r].pc = "new"
    /\ \E from \in {Given} \cup Output, to \in Output, o \in Order :
        irun' = [irun EXCEPT ![r] = [pc |-> "read", from |-> from, to |-> to, order |-> o, data |-> None]]
    /\ UNCHANGED <<dir, reported, killed>>

\* everything up to the new texts; the output must not exist, nor lie in the input
Read(r) ==
    LET i == irun[r] IN
    /\ i.pc = "read"
    /\ IF dir[i.to] = None /\ i.from # i.to /\ Sound(i.from) /\ Importable(i.order) /\ r \notin Names(dir[i.from].access)
         THEN LET pins == dir[i.from].access \cup {Pin(r)}
                  inputs == [access |-> pins, keys |-> dir[i.from].keys]
              IN irun' = [irun EXCEPT ![r].pc = "mkdir", ![r].data =
                              [access |-> pins, keys |-> inputs.keys, runtime |-> inputs]]
         ELSE irun' = [irun EXCEPT ![r] = [Gone EXCEPT !.pc = "refused"]]
    /\ UNCHANGED <<dir, reported, killed>>

\* mkdir refuses a directory that another run has created meanwhile
Mkdir(r) ==
    /\ irun[r].pc = "mkdir"
    /\ IF dir[irun[r].to] = None
         THEN dir' = [dir EXCEPT ![irun[r].to] = [f \in File |-> None]] /\ Step(r, "write")
         ELSE UNCHANGED dir /\ Step(r, "refused")
    /\ UNCHANGED <<reported, killed>>

\* one file, in the order of a Python set; a full disk leaves part of it
Write(r) ==
    LET i == irun[r] IN
    /\ i.pc = "write" /\ dir[i.to] # None
    /\ \E f \in File :
        /\ dir[i.to][f] = None
        /\ \/ dir' = [dir EXCEPT ![i.to][f] = i.data[f]] /\ UNCHANGED irun
           \/ dir' = [dir EXCEPT ![i.to][f] = Cut(f)] /\ Step(r, "undo")
    /\ UNCHANGED <<reported, killed>>

\* auth.validate(output, kube), then the report
Validate(r) ==
    LET i == irun[r] IN
    /\ i.pc = "write" /\ dir[i.to] # None /\ \A f \in File : dir[i.to][f] # None
    /\ Step(r, "done") /\ reported' = reported \cup {i.to}
    /\ UNCHANGED <<dir, killed>>

\* except BaseException: rmtree
Undo(r) ==
    /\ irun[r].pc = "undo" /\ dir' = [dir EXCEPT ![irun[r].to] = None]
    /\ Step(r, "failed") /\ UNCHANGED <<reported, killed>>

\* SIGKILL between two writes or inside one
Kill(r) ==
    LET i == irun[r] IN
    /\ i.pc \in {"read", "mkdir", "write", "undo"} /\ killed < MaxKill /\ killed' = killed + 1
    /\ Step(r, "killed")
    /\ \/ UNCHANGED dir
       \/ i.pc = "write" /\ dir[i.to] # None /\ \E f \in File : dir[i.to][f] = None /\ dir' = [dir EXCEPT ![i.to][f] = Cut(f)]
       \/ i.pc = "undo" /\ dir[i.to] # None /\ \E f \in File : dir' = [dir EXCEPT ![i.to][f] = None]
    /\ UNCHANGED reported

\* a failed validation, Ctrl-C, or an exception between two files
Abort(r) ==
    /\ irun[r].pc = "write" /\ Step(r, "undo") /\ UNCHANGED <<dir, reported, killed>>

ImporterNext ==
    \E r \in Import : \/ Start(r) \/ Read(r) \/ Mkdir(r) \/ Write(r) \/ Validate(r)
                      \/ Undo(r) \/ Abort(r) \/ Kill(r)

ImporterSpec == ImporterInit /\ [][ImporterNext]_importerVars

-----------------------------------------------------------------------------
\* What would be accepted as reviewed inputs, by a later import or by provision.py,
\* is whole, although runs were cut in the middle of a file.
AcceptedWhole ==
    \A d \in {Given} \cup Output : Sound(d) => dir[d].keys = Keys /\ BasePins \subseteq dir[d].access

\* Every pinned cluster has the scope its source names and the owner supplied, and
\* none is imported from a user with credentials of its own.
PinsAgree ==
    \A r \in Import, d \in Output : Sound(d) => \A p \in dir[d].access : p.name = r =>
        /\ irun[r].order.user # "static"
        /\ {irun[r].order.field, irun[r].order.given} \subseteq {None, p.field}

\* Inputs that a run reported, or the owner reviewed, are not changed or removed by
\* another run.
ReportedKept == \A d \in reported : dir'[d] = dir[d]
=============================================================================
