-------------------------------- MODULE Tools --------------------------------
(***************************************************************************)
(* The tools of the owner and the components that promise only safety,     *)
(* composed: they share no state.  Every instance keeps its own variables, *)
(* constants and bounds.  The values for TLC are at the end, the proofs in *)
(* ToolProofs.                                                             *)
(***************************************************************************)
EXTENDS Integers, Sequences, FiniteSets, Composition

CONSTANTS
    Tool, Path, MaxItem, MaxFile, MaxEdit,
    Secrets, ServerAnswers,
    Provisioner, MaxTokens, MaxDrop,
    Served, Unlisted, Retired, Own, Sets, Kinds, MaxConfigEdit, MaxRun,
    HubEnv, Machine, HubOperator, Tries, MaxMint, MaxOwner,
    Account, Owner, ConsentRun, PathOf, MaxKill,
    Agent, TTL, IntakeToken, MaxPost, MaxNow, MaxCrash,
    Server, Pools, MaxLoad, Size, MaxLoss, Probes, MaxScorerRestart,
    Requester, GrantLife, FlushEvery, MaxPair, MaxConsent, MaxGrantTime,
    Rotation, Skill, MaxSkill, MaxOther,
    Import, Output, Order, MaxImportKill,
    FileSets, MaxDepth

VARIABLES
    remote, known, serial, synced, tool, behind, clobbered,
    blueprints, layer3, bpos, local, violations, answers, bexit,
    site, grants, upstream, hubreg, keys, stagedInputs, backend, heldGrants, oprun, finished, crossed, minted, dropped,
    kind, config, perms, configRun, clean, edits, runs,
    instance, clientGrant, keyFile, clients, serving, provRun, adding, cutShort, mintedKeys, hand,
    grantSecret, grantFile, sealTemp, consentRun, kills,
    vnow, post, sent, verdictOf, crashed,
    cpc, pool, probed, public, served, restartsC,
    time, issued, valid, revoked, secret, grant, holder, req, boot, restarts, rotationLost,
    inputs, rotation, backup, versions, others, installer, unreviewed, owed, undo,
    dir, irun, reported, killed,
    stagedFiles, guardAt, passing, guardExit

vaultToolVars == <<remote, known, serial, synced, tool, behind, clobbered>>
blueprintVars == <<blueprints, layer3, bpos, local, violations, answers, bexit>>
provisionVars == <<site, grants, upstream, hubreg, keys, stagedInputs, backend, heldGrants, oprun, finished, crossed, minted, dropped>>
configVars == <<kind, config, perms, configRun, clean, edits, runs>>
accessVars == <<instance, clientGrant, keyFile, clients, serving, provRun, adding, cutShort, mintedKeys, hand>>
googleVars == <<grantSecret, grantFile, sealTemp, consentRun, kills>>
intakeVars == <<vnow, post, sent, verdictOf, crashed>>
cycleVars == <<cpc, pool, probed, public, served, restartsC>>
grantVars == <<time, issued, valid, revoked, secret, grant, holder, req, boot, restarts, rotationLost>>
skillVars == <<inputs, rotation, backup, versions, others, installer, unreviewed, owed, undo>>
importerVars == <<dir, irun, reported, killed>>
guardVars == <<stagedFiles, guardAt, passing, guardExit>>
toolsVars ==
    <<active, vaultToolVars, blueprintVars, provisionVars, configVars, accessVars, googleVars,
      intakeVars, cycleVars, grantVars, skillVars, importerVars, guardVars>>

Tooling == {"vault_tools", "blueprint", "provision", "config", "access", "google", "intake", "cycle",
            "notion", "skills", "clusters", "guard"}

-----------------------------------------------------------------------------
(* The instances *)

VT == INSTANCE VaultTools
BC == INSTANCE BlueprintCheck WITH secret <- blueprints, Answers <- ServerAnswers
PR == INSTANCE Provisioning WITH
        Operator <- Provisioner, staged <- stagedInputs, pod <- backend, held <- heldGrants, MaxMint <- MaxTokens, MaxStop <- MaxDrop
AC == INSTANCE AgentConfig WITH job <- configRun, MaxEdit <- MaxConfigEdit
HA == INSTANCE HubAccess WITH grant <- clientGrant, cut <- cutShort, minted <- mintedKeys, op <- provRun,
        Env <- HubEnv, Operator <- HubOperator
GG == INSTANCE GoogleGrant WITH vault <- grantSecret, file <- grantFile, temp <- sealTemp, boot <- consentRun, Run <- ConsentRun
VI == INSTANCE VerdictIntake
SC == INSTANCE ScoreCycle WITH MaxRestart <- MaxScorerRestart
NG == INSTANCE NotionGrant WITH lost <- rotationLost, Req <- Requester, TokenLife <- GrantLife, MaxTime <- MaxGrantTime
SR == INSTANCE SkillRotation WITH
        run <- rotation, Run <- Rotation, MaxVersion <- MaxSkill, MaxOwner <- MaxOther
CI == INSTANCE ClusterImport WITH MaxKill <- MaxImportKill
SG == INSTANCE SecretGuard WITH staged <- stagedFiles, at <- guardAt, ok <- passing, gexit <- guardExit

ToolsAssumption ==
    /\ VT!ToolAssumption /\ PR!ProvisionAssumption /\ HA!AccessAssumption /\ VI!IntakeAssumption
    /\ NG!GrantAssumption /\ GG!GoogleAssumption /\ AC!ConfigAssumption
    /\ SC!CycleAssumption /\ BC!BlueprintAssumption /\ SR!SkillAssumption /\ CI!ImporterAssumption
    /\ SG!GuardAssumption

-----------------------------------------------------------------------------
\* What is checked when the component that checks it is at rest
SomeSecret == CHOOSE s \in Secrets : TRUE
SomeFiles == CHOOSE f \in FileSets : TRUE

ToolsInit ==
    /\ active \in Tooling
    /\ (active # "guard" => stagedFiles = SomeFiles) /\ SG!GuardInit
    /\ (active # "blueprint" => blueprints = SomeSecret /\ layer3 = FALSE) /\ BC!BlueprintInit
    /\ (active # "provision" => site = "work") /\ PR!ProvisionInit
    /\ VT!ToolInit /\ HA!AccessInit /\ GG!GoogleInit /\ VI!IntakeInit
    /\ SC!CycleInit /\ NG!GrantInit /\ SR!SkillInit /\ CI!ImporterInit
    /\ kind \in InitialChoice("config", Kinds, CHOOSE k \in Kinds : TRUE) /\ AC!ConfigInit

VaultToolsStep ==
    /\ active = "vault_tools"
    /\ UNCHANGED <<active, blueprintVars, provisionVars, configVars, accessVars, googleVars, intakeVars, cycleVars, grantVars, skillVars, importerVars, guardVars>>
    /\ VT!ToolNext

BlueprintCheckStep ==
    /\ active = "blueprint"
    /\ UNCHANGED <<active, vaultToolVars, provisionVars, configVars, accessVars, googleVars, intakeVars, cycleVars, grantVars, skillVars, importerVars, guardVars>>
    /\ BC!BlueprintNext

ProvisioningStep ==
    /\ active = "provision"
    /\ UNCHANGED <<active, vaultToolVars, blueprintVars, configVars, accessVars, googleVars, intakeVars, cycleVars, grantVars, skillVars, importerVars, guardVars>>
    /\ PR!ProvisionNext

AgentConfigStep ==
    /\ active = "config"
    /\ UNCHANGED <<active, vaultToolVars, blueprintVars, provisionVars, accessVars, googleVars, intakeVars, cycleVars, grantVars, skillVars, importerVars, guardVars>>
    /\ AC!ConfigNext

HubAccessStep ==
    /\ active = "access"
    /\ UNCHANGED <<active, vaultToolVars, blueprintVars, provisionVars, configVars, googleVars, intakeVars, cycleVars, grantVars, skillVars, importerVars, guardVars>>
    /\ HA!AccessNext

GoogleGrantStep ==
    /\ active = "google"
    /\ UNCHANGED <<active, vaultToolVars, blueprintVars, provisionVars, configVars, accessVars, intakeVars, cycleVars, grantVars, skillVars, importerVars, guardVars>>
    /\ GG!GoogleNext

VerdictIntakeStep ==
    /\ active = "intake"
    /\ UNCHANGED <<active, vaultToolVars, blueprintVars, provisionVars, configVars, accessVars, googleVars, cycleVars, grantVars, skillVars, importerVars, guardVars>>
    /\ VI!IntakeNext

ScoreCycleStep ==
    /\ active = "cycle"
    /\ UNCHANGED <<active, vaultToolVars, blueprintVars, provisionVars, configVars, accessVars, googleVars, intakeVars, grantVars, skillVars, importerVars, guardVars>>
    /\ SC!CycleNext

NotionSafetyStep ==
    /\ active = "notion"
    /\ UNCHANGED <<active, vaultToolVars, blueprintVars, provisionVars, configVars, accessVars, googleVars, intakeVars, cycleVars, skillVars, importerVars, guardVars>>
    /\ NG!GrantNext

SkillRotationStep ==
    /\ active = "skills"
    /\ UNCHANGED <<active, vaultToolVars, blueprintVars, provisionVars, configVars, accessVars, googleVars, intakeVars, cycleVars, grantVars, importerVars, guardVars>>
    /\ SR!SkillNext

ClusterImportStep ==
    /\ active = "clusters"
    /\ UNCHANGED <<active, vaultToolVars, blueprintVars, provisionVars, configVars, accessVars, googleVars, intakeVars, cycleVars, grantVars, skillVars, guardVars>>
    /\ CI!ImporterNext

SecretGuardStep ==
    /\ active = "guard"
    /\ UNCHANGED <<active, vaultToolVars, blueprintVars, provisionVars, configVars, accessVars, googleVars, intakeVars, cycleVars, grantVars, skillVars, importerVars>>
    /\ SG!GuardNext

ToolsNext ==
    \/ VaultToolsStep \/ BlueprintCheckStep \/ ProvisioningStep \/ AgentConfigStep
    \/ HubAccessStep \/ GoogleGrantStep \/ VerdictIntakeStep \/ ScoreCycleStep \/ NotionSafetyStep
    \/ SkillRotationStep \/ ClusterImportStep \/ SecretGuardStep

ToolsSpec == ToolsInit /\ [][ToolsNext]_toolsVars

-----------------------------------------------------------------------------
(* Properties *)

\* vaultwarden_mcp.py: an update never undoes an edit made in an app before its
\* own sync, and replacing an attachment never leaves the item without one,
\* with two calls at once, failed and half-acknowledged requests.
VaultToolsKeep ==
    active = "vault_tools" => VT!VaultToolsKeep

\* check_authentik_blueprint.py: exit 0 is never a false green, and a payload that
\* fails locally is never sent to the server.
BlueprintTells ==
    active = "blueprint" => BC!GreenIsTrue /\ BC!OnlySoundSent

\* provision.py, inputs.py, rotate-skills.py and add-cluster.py: wherever their runs
\* stop, overlap or are repeated, a running backend is accepted by its hub and by
\* the model proxy and no issued token is taken back, unless a homelab run has put
\* tokens it minted over those of another one; no unreviewed skill gets a
\* digest and no change of a skill is undone unseen; and what passes for reviewed
\* work inputs is whole, pins what was ordered and is not changed by another run.
ProvisioningKeeps ==
    /\ [](active = "provision" => PR!PodAccepted /\ PR!OneToken /\ PR!WorkStagedFits)
    /\ [][active = "provision" => PR!TokensKept]_provisionVars
    /\ [](active = "skills" => SR!NothingBlessed /\ SR!ChangesKept /\ SR!UndoPossible)
    /\ [](active = "clusters" => CI!AcceptedWhole /\ CI!PinsAgree)
    /\ [][active = "clusters" => CI!ReportedKept]_importerVars

\* hub_clients.py and local-clients.py configure: an undisturbed run registers
\* exactly the selected servers whatever earlier runs were killed, leaves the
\* user's entries and answers alone, and a second run writes nothing.
AgentConfigKept ==
    /\ [](active = "config" => AC!ConfigTypeOK /\ AC!Exact)
    /\ [][active = "config" => AC!LeftAlone]_configVars
    /\ [][active = "config" => AC!Idempotent]_configVars

\* mcp_hub.py, local-clients.py provision and add-client.py: no token opens two
\* hubs, a registered digest fits the staged token, and no operator's append
\* overwrites what another wrote.
HubAccessSound == HA!HubAccessSound

\* bootstrap-gmail.py: what is stored is a whole, encrypted grant of the expected
\* mailbox, and of two runs none overwrites the other's grant unseen.
GoogleGrantSound ==
    /\ [](active = "google" => GG!GoogleTypeOK /\ GG!StoredWhole)
    /\ [][active = "google" => GG!NoneOverwritten]_googleVars

\* do_POST() and persist_verdict(): an accepted verdict stays until a newer one
\* takes its place, over crashes, failed writes and posts the agent gave up,
\* and the store holds only whole verdicts that passed every check.
IntakeKeeps ==
    active = "intake" => VI!IntakeKeeps

\* shortlist() to publish() and back: a published server passed every filter and
\* the loss gate, and the ranking can be read back unless a listed server is
\* overcommitted.
CycleSound ==
    active = "cycle" => SC!CycleTypeOK /\ SC!GatePassed /\ SC!ReadableUnlessOvercommitted

\* notion_grant.py: the token a refresh would use is one Notion still takes, and
\* what a bootstrap run wrote stays, through lost answers, conflicting Secret
\* writes, restarts and a concurrent bootstrap.
NotionGrantKept == NG!NotionGrantKept

\* check_sops_encrypted.py: a commit passes only if every Secret of every staged
\* file is sound, leaf by leaf, and a sound plain template is not refused.
GuardTells ==
    active = "guard" => SG!PassedIsSound /\ SG!SoundPasses

-----------------------------------------------------------------------------
(* The values of the constants in the run *)

\* two entries that may refer to each other, alone and before a sound payload, and
\* every kind of answer of the server
MCBlueprintEntry(id, ab, attrs, ids, refs, tok) ==
    [id |-> id, model |-> "m", absent |-> ab, attrs |-> attrs, idents |-> ids, refs |-> refs, token |-> tok]
MCPayload(es) == [decodes |-> TRUE, parses |-> TRUE, shaped |-> TRUE, entries |-> es]
MCRef(t, id, m, x) == [t |-> t, id |-> id, model |-> m, ident |-> x]
MCRefs == {MCRef("KeyOf", "a", None, None), MCRef("KeyOf", "b", None, None), MCRef("Find", None, "m", "x"), MCRef("bad", None, None, None)}
MCEarlier == {MCBlueprintEntry(i, ab, attrs, ids, {}, FALSE) : i \in {"a", None}, ab \in BOOLEAN, attrs \in BOOLEAN, ids \in {{}, {"x"}}}
MCLater == {MCBlueprintEntry("b", ab, ~ab, ids, r, tok) : ab \in BOOLEAN, ids \in {{"x"}, {}}, r \in {{}} \cup {{x} : x \in MCRefs}, tok \in BOOLEAN}
MCPayloads ==
    {MCPayload(<<e, f>>) : e \in MCEarlier, f \in MCLater}
    \cup {MCPayload(<< >>), [MCPayload(<< >>) EXCEPT !.parses = FALSE], [MCPayload(<< >>) EXCEPT !.shaped = FALSE]}
MCFine == MCPayload(<<MCBlueprintEntry("b", FALSE, TRUE, {}, {}, TRUE)>>)
MCBinary == [MCFine EXCEPT !.decodes = FALSE]
MCSecrets ==
    {<< >>, <<MCBinary>>} \cup {<<p>> : p \in MCPayloads} \cup {<<p, MCFine>> : p \in MCPayloads}
    \cup {<<MCBinary, p>> : p \in MCPayloads} \cup {<<MCFine, MCBinary>>}
MCAnswer(s, j, i, x) == [status |-> s, json |-> j, imported |-> i, success |-> x]
MCAnswers ==
    {MCAnswer(s, FALSE, FALSE, FALSE) : s \in {0, 403, 404, 405, 200}}
    \cup {MCAnswer(200, TRUE, i, x) : i \in BOOLEAN, x \in BOOLEAN}

MCPathOf == [r \in ConsentRun |-> IF r = "l1" THEN "legacy" ELSE "instance"]

\* an order of every kind
MCImportOrder(u, f, h, g) == [user |-> u, field |-> f, https |-> h, given |-> g]
MCOrder ==
    {MCImportOrder("static", None, TRUE, "x"), MCImportOrder("azure", "x", TRUE, None), MCImportOrder("none", "x", FALSE, "x"),
     MCImportOrder("kubelogin", "x", TRUE, "y"), MCImportOrder("none", None, TRUE, "y")}

\* three servers, one of them odd in every way a row can be
MCRow(max, used, load) == [ok |-> TRUE, load |-> load, bw |-> used, bw_max |-> max, ip |-> TRUE]
MCOddRows ==
    {MCRow(2, 3, 2), MCRow(None, None, 1), [MCRow(20, 5, 2) EXCEPT !.ok = FALSE],
     [MCRow(20, 4, 1) EXCEPT !.ip = FALSE], [MCRow(20, 5, 2) EXCEPT !.load = None], MCRow(20, 5, 9)}
MCPlainPool == [s \in {"A", "B", "C"} |-> IF s = "A" THEN MCRow(20, 5, 2) ELSE IF s = "B" THEN MCRow(2, 1, 1) ELSE MCRow(20, 8, 3)]
MCPools == {MCPlainPool} \cup {[MCPlainPool EXCEPT ![s] = row] : s \in {"A", "B", "C"}, row \in MCOddRows}
MCServer == <<"A", "B", "C">>
MCProbes == {[loss |-> 0, rtt |-> 1], [loss |-> 1, rtt |-> 2], [loss |-> 9, rtt |-> None]}

\* every small tree of keys and leaves, as a template, under SOPS metadata and as the
\* Barman exception, alone and beside a good one
MCKid(k, v) == [k |-> k, v |-> v]
MCNode(t, kids, c) == [t |-> t, kids |-> kids, c |-> c]
MCBranch(kids) == MCNode("map", kids, "none")
MCWord(c) == MCNode("leaf", << >>, c)
MCWords == {MCWord(c) : c \in {"plain", "placeholder", "credential", "envelope", "empty", "image", "long"}}
MCSomeKeys == {"user", "password", "secretRef", "name", "token_name"}
MCSmall == MCWords \cup {MCBranch(<<MCKid(k, w)>>) : k \in {"name", "password", "user", "ghp_0123456789"}, w \in {MCWord("plain"), MCWord("placeholder")}}
MCNested ==
    {MCBranch(<<MCKid(k, v)>>) : k \in MCSomeKeys, v \in MCSmall}
    \cup {MCBranch(<<MCKid("token_name", MCWord("plain")), MCKid("token_value", v)>>) : v \in MCWords}
    \cup {MCBranch(<<MCKid("name", MCWord("plain")), MCKid("key", v)>>) : v \in MCSmall}
    \cup {MCNode("list", <<MCKid("[0]", v)>>, "none") : v \in MCSmall}
    \cup {MCNode("leaf", <<MCKid("<embedded>", v)>>, "plain") : v \in MCSmall}
MCBodies ==
    {MCBranch(<<MCKid(s, MCBranch(<<MCKid(k, v)>>))>>) : s \in {"data", "stringData"}, k \in MCSomeKeys \cup {"SIDECAR_IMAGE"}, v \in MCSmall \cup MCNested}
    \cup {MCBranch(<<MCKid("data", b)>>) : b \in {MCWord("plain"), MCBranch(<< >>)}}
MCDoc(k, sops, body) == [kind |-> k, sops |-> sops, body |-> body]
MCStagedFile(enc, barman, docs) == [enc |-> enc, barman |-> barman, parses |-> TRUE, docs |-> docs]
MCGoodDoc == MCDoc("Secret", "none", MCBranch(<<MCKid("data", MCBranch(<<MCKid("user", MCWord("plain"))>>))>>))
MCGood == MCStagedFile(FALSE, FALSE, <<MCGoodDoc>>)
MCKidValues(v) == {v.kids[i].v : i \in DOMAIN v.kids}
MCBelow(vs) == vs \cup UNION {MCKidValues(v) : v \in vs}
MCHasEnvelope(b) == MCWord("envelope") \in MCBelow(MCBelow(MCBelow({b})))
MCFileSets ==
    {<<MCStagedFile(FALSE, FALSE, <<MCDoc("Secret", "none", b), MCGoodDoc>>)>> : b \in MCBodies}
    \cup {<<MCStagedFile(e, FALSE, <<MCDoc("Secret", s, b)>>), MCGood>> : e \in BOOLEAN, s \in {"none", "valid", "malformed"}, b \in {x \in MCBodies : MCHasEnvelope(x)}}
    \cup {<<MCStagedFile(FALSE, TRUE, <<MCDoc("Secret", "none", b)>>)>> : b \in {x \in MCBodies : x.kids[1].v.kids # << >> /\ x.kids[1].v.kids[1].k = "SIDECAR_IMAGE"}}
    \cup {<<MCStagedFile(FALSE, FALSE, <<MCDoc(k, "none", MCGoodDoc.body)>>)>> : k \in {"List", "ConfigMap"}}
    \cup {<< >>, <<[MCGood EXCEPT !.parses = FALSE], MCGood>>}

\* The two of each kind are alike: no module tells one from the other, so a state and
\* the one in which all of them have changed places need one look.  (MCSymmetry names
\* the set because TLC takes the members of a set written there for sets to permute.)
MCPairs == {Tool, Provisioner, Machine, HubOperator, Requester, Rotation, Skill, Import, Output}
MCKind(x) == CHOOSE pair \in MCPairs : x \in pair
MCExchange == [x \in UNION MCPairs |-> CHOOSE y \in MCKind(x) : y # x]
MCChanges == {[x \in UNION MCPairs |-> x], MCExchange}
MCSymmetry == MCChanges

ASSUME ToolsAssumption
=============================================================================
