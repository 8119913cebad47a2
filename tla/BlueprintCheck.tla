--------------------------- MODULE BlueprintCheck ---------------------------
(***************************************************************************)
(* The nightly check of the Authentik blueprint Secret                     *)
(* (07.authentik-deployment/files/check_authentik_blueprint.py): three     *)
(* layers over every payload of the Secret, and one exit code.             *)
(*                                                                         *)
(* A payload is [decodes, parses, shaped, entries]: what is stored under a *)
(* YAML key, and whether it is base64 of UTF-8 text, as the API returns    *)
(* it.  An entry is [id, model, absent, attrs, idents, refs, token]: its   *)
(* identifiers, the references in it (KeyOf an id, Find a [model, ident],  *)
(* or one of a wrong shape) and whether it declares the token of the       *)
(* check.  Texts and the redaction of log lines are left out.              *)
(***************************************************************************)
EXTENDS Integers, Sequences, FiniteSets

CONSTANTS
    Secrets,    \* the Secrets to check: sequences of payloads
    Answers,    \* what the validate endpoint may answer: [status, json, imported, success]
    None

VARIABLES
    secret,     \* the Secret read on stdin
    layer3,     \* --validate-url is set
    bpos,       \* the payload main() is at
    local,      \* violations of layers 1 and 2 in this payload; None before them
    violations, \* payloads with a violation
    answers,    \* answers[k]: what the server said of payload k, or None
    bexit

\* A Secret is a sequence, and None is neither an answer nor another value.
BlueprintAssumption ==
    /\ \A s \in Secrets : Len(s) \in Nat /\ DOMAIN s = 1 .. Len(s)
    /\ None \notin Answers /\ None # "ok" /\ None # 0

blueprintVars == <<secret, layer3, bpos, local, violations, answers, bexit>>

KeyOf(id) == [t |-> "KeyOf", id |-> id, model |-> None, ident |-> None]
Find(m, x) == [t |-> "Find", id |-> None, model |-> m, ident |-> x]
BadRef == [t |-> "bad", id |-> None, model |-> None, ident |-> None]

-----------------------------------------------------------------------------
(* PayloadCheck *)

Ids(es) == {es[i].id : i \in DOMAIN es} \ {None}
AbsentIds(es) == {es[i].id : i \in {j \in DOMAIN es : es[j].absent}} \ {None}

\* identifier_index
Siblings(es, ref) == {i \in DOMAIN es : es[i].model = ref.model /\ ref.ident \in es[i].idents}

CheckKeyOf(es, ref) == ref.id \in Ids(es) /\ ref.id \notin AbsentIds(es)

\* Mutant of CheckFind: the first sibling decides
CheckFindFirst(es, ref) ==
    LET s == Siblings(es, ref) IN s = {} \/ ~es[CHOOSE i \in s : \A j \in s : i <= j].absent

\* a lookup without a sibling is of something that exists already
CheckFind(es, ref) == \A i \in Siblings(es, ref) : ~es[i].absent

\* run(), walk()
EntryOk(es, e) ==
    /\ ~(e.absent /\ e.attrs)
    /\ \A ref \in e.refs :
          CASE ref.t = "KeyOf" -> CheckKeyOf(es, ref)
            [] ref.t = "Find" -> CheckFind(es, ref)
            [] OTHER -> FALSE

\* check_payload(): syntax, a mapping with version and entries, the references
CheckPayload(p) ==
    p.parses /\ p.shaped /\ p.entries # << >> /\ \A i \in DOMAIN p.entries : EntryOk(p.entries, p.entries[i])

\* extract_check_token()
HasToken(p) == \E i \in DOMAIN p.entries : p.entries[i].token

-----------------------------------------------------------------------------
(* main() *)

BlueprintInit ==
    /\ secret \in Secrets
    /\ layer3 \in BOOLEAN
    /\ bpos = 1 /\ local = None /\ violations = {}
    /\ answers = [k \in DOMAIN secret |-> None]
    /\ bexit = None

\* secret_payloads(): a value that does not decode is no payload
Found == {k \in DOMAIN secret : secret[k].decodes}

Running == bexit = None /\ bpos <= Len(secret)
Violates(bad) == violations' = IF bad THEN violations \cup {bpos} ELSE violations
NextPayload == bpos' = bpos + 1 /\ local' = None

\* "except ...: continue"
Skip ==
    /\ Running /\ bpos \notin Found
    /\ NextPayload
    /\ UNCHANGED <<secret, layer3, violations, answers, bexit>>

Local ==
    /\ Running /\ bpos \in Found /\ local = None
    /\ LET good == CheckPayload(secret[bpos]) IN
       /\ Violates(~good)
       /\ IF good /\ layer3 THEN local' = "ok" /\ UNCHANGED bpos ELSE NextPayload
    /\ UNCHANGED <<secret, layer3, answers, bexit>>

\* server_dry_run() without a token: inactive
NoCredential ==
    /\ Running /\ local = "ok" /\ ~HasToken(secret[bpos])
    /\ NextPayload
    /\ UNCHANGED <<secret, layer3, violations, answers, bexit>>

\* 405 is an Authentik without the endpoint; everything else that is not a
\* clean success fails the run, 0 (no connection) included
Rejects(a) == a.status # 405 /\ ~(a.status = 200 /\ a.json /\ ~a.imported /\ a.success)

\* post_blueprint() and what its answer means
DryRun ==
    /\ Running /\ local = "ok" /\ HasToken(secret[bpos])
    /\ \E a \in Answers :
          /\ answers' = [answers EXCEPT ![bpos] = a]
          /\ Violates(Rejects(a))
    /\ NextPayload
    /\ UNCHANGED <<secret, layer3, bexit>>

\* no payload at all is refused
ExitCode == IF Found # {} /\ violations = {} THEN 0 ELSE 1

Finish ==
    /\ bexit = None /\ bpos > Len(secret)
    /\ bexit' = ExitCode
    /\ UNCHANGED <<secret, layer3, bpos, local, violations, answers>>

BlueprintNext == Skip \/ Local \/ NoCredential \/ DryRun \/ Finish
BlueprintSpec == BlueprintInit /\ [][BlueprintNext]_blueprintVars

-----------------------------------------------------------------------------
(* Properties *)

\* What the importer needs of the payload alone: every reference of an entry
\* that stays names an entry that stays, or something outside the payload,
\* and a deletion has nothing that could skip it.
Resolvable(p) ==
    /\ p.parses /\ p.shaped
    /\ \A i \in DOMAIN p.entries :
          LET e == p.entries[i] IN
          /\ e.absent => ~e.attrs
          /\ BadRef \notin e.refs
          /\ \A id \in Ids(p.entries) \cup {None} :
                KeyOf(id) \in e.refs => id # None /\ \E j \in DOMAIN p.entries : p.entries[j].id = id
          /\ \A j \in DOMAIN p.entries : p.entries[j].absent =>
                /\ KeyOf(p.entries[j].id) \notin e.refs
                /\ \A x \in p.entries[j].idents : Find(p.entries[j].model, x) \notin e.refs

\* "a check that silently skips itself is a false green": exit 0 means there
\* was a payload that decodes, every such payload resolves, and with the
\* validate endpoint set the server accepted each one without importing it, or
\* the check of that payload was off for one of the two stated reasons.  Of a
\* payload that does not decode exit 0 says nothing: secret_payloads() skips it.
GreenIsTrue ==
    bexit = 0 =>
        /\ Found # {}
        /\ \A k \in Found :
              /\ Resolvable(secret[k])
              /\ layer3 =>
                    IF answers[k] = None THEN ~HasToken(secret[k])
                    ELSE answers[k].status = 405 \/ (answers[k].success /\ ~answers[k].imported)

\* A payload that fails locally, or does not decode, is never sent to the server.
OnlySoundSent == \A k \in DOMAIN secret : answers[k] # None => layer3 /\ k \in Found /\ Resolvable(secret[k])
=============================================================================
