----------------------------- MODULE SecretGuard -----------------------------
(***************************************************************************)
(* The commit guard .github/hooks/check_sops_encrypted.py: every staged    *)
(* YAML file is read from the index, every Secret document in it must be   *)
(* a SOPS document or a template without credentials.                      *)
(*                                                                         *)
(* A YAML value is a tree of nodes [t, kids, c]: a map or a list with      *)
(* kids [k, v], or a leaf with a class c.  What a string looks like (an    *)
(* approved placeholder, a credential by shape, entropy or length, a SOPS  *)
(* envelope, a structure embedded in a string) is its class.               *)
(***************************************************************************)
EXTENDS Integers, Sequences, FiniteSets

CONSTANTS
    FileSets,   \* the sets of staged files: sequences of [enc, barman, parses, docs]
    MaxDepth    \* bound: how deep a document nests

VARIABLES
    staged,     \* the staged files, in git's order
    at,         \* [file, doc]: where main() stands
    ok,
    gexit       \* the exit code, "none" while it runs

guardVars == <<staged, at, ok, gexit>>

\* The values whose kids are of the set below; UniqueKeyLoader has no key of a map twice
Values(below) ==
    {v \in [t : {"map", "list", "leaf"}, c : STRING, kids : Seq([k : STRING, v : below])] :
        v.t = "map" => \A i, j \in DOMAIN v.kids : v.kids[i].k = v.kids[j].k => i = j}

\* The values that nest at most d deep
Value[d \in 0 .. MaxDepth] == Values(IF d = 0 THEN {} ELSE Value[d - 1])

Document == [kind : STRING, sops : {"none", "valid", "malformed"}, body : Value[MaxDepth]]
StagedFile == [enc : BOOLEAN, barman : BOOLEAN, parses : BOOLEAN, docs : Seq(Document)]

GuardAssumption == MaxDepth \in Nat /\ \A files \in FileSets : files \in Seq(StagedFile)

Has(v, k) == v.t = "map" /\ \E i \in DOMAIN v.kids : v.kids[i].k = k
Get(v, k) == v.kids[CHOOSE i \in DOMAIN v.kids : v.kids[i].k = k].v

\* sensitive_key() and looks_like_credential() on the keys that occur
SensitiveKey(k) == k \in {"password", "secretRef", "key", "token_name", "token_value"}
CredentialShapedKey(k) == k = "ghp_0123456789"
ReferenceObjectKeys == {"name", "key", "namespace", "optional"}

\* looks_like_credential(), short_mixed_class_credential(), the length limit
\* and an embedded value that does not parse
Flagged == {"credential", "short", "long", "broken", "image"}

\* structural_reference_object(): {name, key, ...} under a sensitive ...Ref key
StructuralReference(k, v) ==
    /\ k = "secretRef" /\ Has(v, "name")
    /\ \A i \in DOMAIN v.kids : v.kids[i].k \in ReferenceObjectKeys

Placeholder(v) == v.t = "leaf" /\ v.c = "placeholder"

\* paired_reference_identifier(): token_name beside a placeholder token_value
PairedIdentifier(m, k) == k = "token_name" /\ Has(m, "token_value") /\ Placeholder(Get(m, "token_value"))

\* Mutant of ChildSensitive: only the key itself decides
ChildSensitiveByKey(m, k, v, inherited, fields) == SensitiveKey(k) /\ ~StructuralReference(k, v) /\ ~fields /\ ~PairedIdentifier(m, k)

ChildSensitive(m, k, v, inherited, fields) ==
    ~(StructuralReference(k, v) \/ fields \/ PairedIdentifier(m, k)) /\ (inherited \/ SensitiveKey(k))

\* What validate_plaintext() looks at in the value itself; of a string that holds a
\* structure only the structure is looked at
Acceptable(v, inherited) ==
    /\ v.t = "map" => \A i \in DOMAIN v.kids : ~CredentialShapedKey(v.kids[i].k)
    /\ v.t = "leaf" => (inherited => Placeholder(v)) /\ (v.kids = << >> => v.c \notin Flagged)

\* The path that valid_barman_exception() exempts
BarmanPath == <<"data", "SIDECAR_IMAGE">>

\* The arguments of validate_plaintext(), and those of its call for the i-th kid
Call(d) == [v : Value[d], inherited : BOOLEAN, fields : BOOLEAN, path : Seq(STRING), exempt : {{}, {BarmanPath}}]

Into(x, i) ==
    LET k == x.v.kids[i].k
        child == x.v.kids[i].v
    IN [v |-> child, path |-> Append(x.path, k), exempt |-> x.exempt,
        inherited |-> \/ x.v.t = "map" /\ ChildSensitive(x.v, k, child, x.inherited, x.fields)
                      \/ x.v.t = "list" /\ x.inherited,
        fields |-> x.v.t = "map" /\ StructuralReference(k, child)]

\* validate_plaintext(): below is what it returns for the kids
Validated(calls, below) ==
    [x \in calls |->
        \/ x.path \in x.exempt
        \/ Acceptable(x.v, x.inherited) /\ \A i \in DOMAIN x.v.kids : below[Into(x, i)]]

Nothing == [x \in {} |-> x]
Valid[d \in 0 .. MaxDepth] == Validated(Call(d), IF d = 0 THEN Nothing ELSE Valid[d - 1])

\* as validate_file() calls it
ValidatePlaintext(doc, exempt) ==
    Valid[MaxDepth][[v |-> doc, inherited |-> FALSE, fields |-> FALSE, path |-> << >>, exempt |-> exempt]]

\* scalar_leaves()
Leaves(values, below) ==
    [v \in values |-> IF v.t = "leaf" THEN {v.c} ELSE UNION {below[v.kids[i].v] : i \in DOMAIN v.kids}]

ScalarLeaves[d \in 0 .. MaxDepth] == Leaves(Value[d], IF d = 0 THEN Nothing ELSE ScalarLeaves[d - 1])

Sections == {"data", "stringData"}

\* valid_sops_document(): the suffix, the metadata, and an envelope at every
\* leaf that is not empty, of which there is at least one
ValidSops(file, doc) ==
    LET payloads == {Get(doc.body, s) : s \in {x \in Sections : Has(doc.body, x)}}
        leaves == UNION {IF p.t = "map" THEN ScalarLeaves[MaxDepth - 1][p] \ {"empty"} ELSE {} : p \in payloads}
    IN /\ file.enc
       /\ doc.sops = "valid"
       /\ \A p \in payloads : p.t = "map" /\ p.kids # << >>
       /\ leaves = {"envelope"}

\* valid_barman_exception(): one key with an image name, and nothing else
BarmanApplies(file, doc) ==
    file.barman /\ Has(doc.body, "data") /\ Has(Get(doc.body, "data"), "SIDECAR_IMAGE")
BarmanShape(doc) ==
    LET data == Get(doc.body, "data") IN
    /\ Len(data.kids) = 1 /\ Get(data, "SIDECAR_IMAGE").c = "image"
    /\ Has(doc.body, "stringData") => Get(doc.body, "stringData").t = "map" /\ Get(doc.body, "stringData").kids = << >>

\* a document with SOPS metadata, or in a file that promises it
Encrypted(file, doc) == doc.sops # "none" \/ file.enc

\* the body of validate_file()'s loop
ValidDocument(file, doc) ==
    /\ doc.kind \notin {"List", "SecretList"}
    /\ doc.kind = "Secret" =>
           IF Encrypted(file, doc) THEN ValidSops(file, doc)
           ELSE IF BarmanApplies(file, doc) THEN BarmanShape(doc) /\ ValidatePlaintext(doc.body, {BarmanPath})
           ELSE ValidatePlaintext(doc.body, {})

-----------------------------------------------------------------------------

GuardInit ==
    /\ staged \in FileSets
    /\ at = [file |-> 1, doc |-> 0] /\ ok = TRUE /\ gexit = "none"

\* index_blob(), parse_documents(): an unreadable file fails the commit
ReadFile ==
    /\ gexit = "none" /\ at.file <= Len(staged) /\ at.doc = 0
    /\ IF staged[at.file].parses THEN at' = [at EXCEPT !.doc = 1] /\ UNCHANGED ok
       ELSE at' = [file |-> at.file + 1, doc |-> 0] /\ ok' = FALSE
    /\ UNCHANGED <<staged, gexit>>

\* no failure ends the loop: every document is reported
CheckDocument ==
    /\ gexit = "none" /\ at.file <= Len(staged) /\ at.doc > 0
    /\ LET file == staged[at.file] IN
       IF at.doc > Len(file.docs) THEN at' = [file |-> at.file + 1, doc |-> 0] /\ UNCHANGED ok
       ELSE /\ ok' = (ok /\ ValidDocument(file, file.docs[at.doc]))
            /\ at' = [at EXCEPT !.doc = @ + 1]
    /\ UNCHANGED <<staged, gexit>>

Exit ==
    /\ gexit = "none" /\ at.file > Len(staged)
    /\ gexit' = IF ok THEN "0" ELSE "1"
    /\ UNCHANGED <<staged, at, ok>>

GuardNext == ReadFile \/ CheckDocument \/ Exit
GuardSpec == GuardInit /\ [][GuardNext]_guardVars

-----------------------------------------------------------------------------
(* Properties *)

\* The ways from a value to the values inside it, step by step
Step(v, i) == [from |-> v, k |-> v.kids[i].k, to |-> v.kids[i].v]

Onward(values, below) ==
    [v \in values |->
        {<< >>} \cup UNION {{<<Step(v, i)>> \o w : w \in below[v.kids[i].v]} : i \in DOMAIN v.kids}]

Ways[d \in 0 .. MaxDepth] == Onward(Value[d], IF d = 0 THEN Nothing ELSE Ways[d - 1])

End(v, w) == IF w = << >> THEN v ELSE w[Len(w)].to

\* The j-th step ends what a sensitive key above it started: into a reference object or
\* a field of one, to the identifier of a token, into an embedded structure
Resets(w, j) ==
    \/ w[j].from.t = "leaf"
    \/ /\ w[j].from.t = "map"
       /\ \/ StructuralReference(w[j].k, w[j].to) \/ PairedIdentifier(w[j].from, w[j].k)
          \/ j > 1 /\ w[j - 1].from.t = "map" /\ StructuralReference(w[j - 1].k, w[j - 1].to)

Gated(w) ==
    \E j \in DOMAIN w :
        w[j].from.t = "map" /\ SensitiveKey(w[j].k) /\ \A i \in DOMAIN w : i >= j => ~Resets(w, i)

\* The first n steps lead to or through an exempt path
Spared(w, n, exempt) == \E i \in 0 .. n : [j \in 1 .. i |-> w[j].k] \in exempt

\* What a template may hold: no key that is a credential, no leaf that looks like one,
\* and under a sensitive key nothing but a placeholder
Harmless(doc, exempt) ==
    \A w \in Ways[MaxDepth][doc] :
        LET end == End(doc, w) IN
        /\ w # << >> /\ ~Spared(w, Len(w) - 1, exempt) /\ w[Len(w)].from.t = "map" => ~CredentialShapedKey(w[Len(w)].k)
        /\ end.t = "leaf" /\ ~Spared(w, Len(w), exempt) =>
              (end.kids = << >> => end.c \notin Flagged) /\ (Gated(w) => Placeholder(end))

\* The way leads to a scalar, into no structure embedded in one
ToScalar(doc, w) == End(doc, w).t = "leaf" /\ \A j \in DOMAIN w : w[j].from.t # "leaf"

\* What an encrypted Secret holds: an envelope, and nothing else but empty scalars
Sealed(doc) ==
    LET payload == {w \in Ways[MaxDepth][doc] : w # << >> /\ doc.t = "map" /\ w[1].k \in Sections /\ ToScalar(doc, w)} IN
    /\ \A w \in payload : End(doc, w).c \in {"envelope", "empty"}
    /\ \E w \in payload : End(doc, w).c = "envelope"

Sound(file, doc) ==
    /\ doc.kind \notin {"List", "SecretList"}
    /\ doc.kind = "Secret" =>
           IF doc.sops # "none" \/ file.enc THEN file.enc /\ doc.sops = "valid" /\ Sealed(doc.body)
           ELSE Harmless(doc.body, IF BarmanApplies(file, doc) /\ BarmanShape(doc) THEN {BarmanPath} ELSE {})

\* A commit passes only if every staged file parses and every Secret in every
\* one of them is sound, leaf by leaf: nothing under a sensitive key but a
\* placeholder, however deep, in lists, in documents embedded in strings and
\* beside reference objects; nothing in clear under SOPS metadata.  A failing
\* document is never forgotten for a good one that follows.
PassedIsSound ==
    gexit = "0" => \A f \in DOMAIN staged : staged[f].parses /\ \A d \in DOMAIN staged[f].docs : Sound(staged[f], staged[f].docs[d])

\* A plain template that is sound is not refused: with no SOPS document and
\* no container kind among the staged files, exit 1 means an unsound one.
SoundPasses ==
    (gexit = "1" /\ \A f \in DOMAIN staged : \A d \in DOMAIN staged[f].docs : staged[f].docs[d].sops = "none" /\ ~staged[f].enc /\ ~staged[f].barman)
        => \E f \in DOMAIN staged : ~staged[f].parses \/ \E d \in DOMAIN staged[f].docs : ~Sound(staged[f], staged[f].docs[d])
=============================================================================
