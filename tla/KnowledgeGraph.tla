--------------------------- MODULE KnowledgeGraph ---------------------------
(***************************************************************************)
(* The knowledge-graph store and its stages (graph_engineering: store.py,  *)
(* pipeline.py, model.py).                                                 *)
(*                                                                         *)
(* Extraction validates candidate files and upserts what they hold, one    *)
(* SQLite transaction each; fusion finds entities that share a name and    *)
(* merges them, one transaction per plan; either ends with a JSON export.  *)
(* A command may die between any two transactions.  Commands do not        *)
(* overlap: the store has no lock across its reads and its writes.         *)
(*                                                                         *)
(* Names, ids and types are numbers: what matters is whether they are      *)
(* equal and which comes first.                                            *)
(***************************************************************************)
EXTENDS Integers, FiniteSets, SequencesExt

CONSTANTS Nothing,      \* an absent file, entity or command
          KgTypes,      \* entity types of the ontology
          KgRelations,  \* [relation type -> [domain, range]] of the ontology
          KgFiles,      \* candidate files
          KgGold,       \* adjudicated label files
          KgCommands    \* bound: commands started

ASSUME KgAssumption == KgCommands \in Nat /\ Nothing \notin KgFiles

\* Files are finite, ids are numbers and an entity has its four fields.
ASSUME KgFilesAssumption ==
    /\ IsFiniteSet(KgFiles)
    /\ \A f \in KgFiles :
          /\ \A what \in {"entities", "relations", "events"} : IsFiniteSet(DOMAIN f[what])
          /\ DOMAIN f.entities \subseteq Nat
          /\ \A i \in DOMAIN f.entities :
                DOMAIN f.entities[i] = {"type", "name", "aliases", "sources"}

VARIABLES
    kgStore,    \* [entities, relations, events, ledger]
    kgExport,   \* the JSON export: Nothing or a copy of the store
    kgWork,     \* the command under way: Nothing or [cmd, todo]
    kgStage,    \* the last stage recorded: [stage, status]
    kgServed,   \* the last answer of "graph serve": [nodes, relations]
    kgLeft      \* what is left of KgCommands

kgVars == <<kgStore, kgExport, kgWork, kgStage, kgServed, kgLeft>>

Recorded(stage, status) == kgStage' = [stage |-> stage, status |-> status]
Upserted(table, id, row) == [i \in DOMAIN table \cup {id} |-> IF i = id THEN row ELSE table[i]]
NamesOf(entity) == {entity.name} \cup entity.aliases

KgInit ==
    /\ kgStore = [entities |-> <<>>, relations |-> <<>>, events |-> <<>>, ledger |-> {}]
    /\ kgExport = Nothing /\ kgWork = Nothing
    /\ kgStage = [stage |-> "scope", status |-> "READY"]
    /\ kgServed = [nodes |-> {}, relations |-> {}]
    /\ kgLeft = KgCommands

\* A command starts when none is under way.
KgSpend == kgWork = Nothing /\ kgLeft > 0 /\ kgLeft' = kgLeft - 1

-----------------------------------------------------------------------------
(* graph extract *)

Takes(kind, what) == kind \in {"all", what}
Part(file, kind, what) == IF Takes(kind, what) THEN file[what] ELSE <<>>

\* _validate_candidates: without a kind a file must bring its own entities, with one
\* it may name the entities of the store and must not bring them again.
Known(kind, entities) == IF kind = "all" THEN <<>> ELSE entities

Typed(relation, entities) ==
    /\ {relation.subject, relation.object} \subseteq DOMAIN entities
    /\ relation.type \in DOMAIN KgRelations
    /\ entities[relation.subject].type = KgRelations[relation.type].domain
    /\ entities[relation.object].type = KgRelations[relation.type].range

CandidatesValid(file, kind, stored) ==
    LET known == Known(kind, stored)
        own == Part(file, kind, "entities")
        all == [i \in DOMAIN known \cup DOMAIN own |->
                   IF i \in DOMAIN own THEN own[i] ELSE known[i]]
        relations == Part(file, kind, "relations")
        events == Part(file, kind, "events")
    IN  /\ file.provenance
        /\ DOMAIN own \cap DOMAIN known = {}
        /\ \A i \in DOMAIN own : own[i].type \in KgTypes
        /\ \A r \in DOMAIN relations : Typed(relations[r], all)
        /\ \A e \in DOMAIN events : events[e] \subseteq DOMAIN all

\* No id twice among the files of one command.
Disjoint(files, kind) ==
    \A f, g \in files : f # g =>
        \A what \in {"entities", "relations", "events"} :
            DOMAIN Part(f, kind, what) \cap DOMAIN Part(g, kind, what) = {}

ExtractionAccepted(files, kind) ==
    /\ files # {}
    /\ \A f \in files : CandidatesValid(f, kind, kgStore.entities)
    /\ Disjoint(files, kind)

RowsOf(files, kind, what) ==
    SetToSeq(UNION {{[table |-> what, id |-> i, row |-> f[what][i]] :
                        i \in DOMAIN Part(f, kind, what)} : f \in files})

\* The mutant: relations are written before the entities they join.
UpsertsRelationsFirst(files, kind) ==
    RowsOf(files, kind, "relations") \o RowsOf(files, kind, "entities")
        \o RowsOf(files, kind, "events")

\* The transactions of an extraction: entities, then relations, then events.
Upserts(files, kind) ==
    RowsOf(files, kind, "entities") \o RowsOf(files, kind, "relations")
        \o RowsOf(files, kind, "events")

Extract(files, kind) ==
    /\ KgSpend
    /\ IF ExtractionAccepted(files, kind)
       THEN /\ kgWork' = [cmd |-> "extract", todo |-> Upserts(files, kind)]
            /\ UNCHANGED kgStage
       ELSE /\ Recorded("extract", "BLOCK")
            /\ UNCHANGED kgWork
    /\ UNCHANGED <<kgStore, kgExport, kgServed>>

UpsertNext ==
    /\ kgWork # Nothing /\ kgWork.cmd = "extract" /\ kgWork.todo # <<>>
    /\ LET u == Head(kgWork.todo) IN
        kgStore' = [kgStore EXCEPT ![u.table] = Upserted(@, u.id, u.row)]
    /\ kgWork' = [kgWork EXCEPT !.todo = Tail(@)]
    /\ UNCHANGED <<kgExport, kgStage, kgServed, kgLeft>>

FinishExtract ==
    /\ kgWork # Nothing /\ kgWork.cmd = "extract" /\ kgWork.todo = <<>>
    /\ kgExport' = kgStore
    /\ Recorded("extract", "READY")
    /\ kgWork' = Nothing
    /\ UNCHANGED <<kgStore, kgServed, kgLeft>>

-----------------------------------------------------------------------------
(* graph fuse *)

\* The entities of a type that go by a name.
Block(entities, type, name) ==
    {i \in DOMAIN entities : entities[i].type = type /\ name \in NamesOf(entities[i])}

\* Everything that shares a name with an entity whose canonical name is key.
Matches(entities, type, key) ==
    UNION {Block(entities, type, name) :
        name \in UNION {NamesOf(entities[i]) :
            i \in {j \in DOMAIN entities : entities[j].type = type /\ entities[j].name = key}}}

\* The order in which the groups are met: by type and name.
Before(p, q) == p.type < q.type \/ (p.type = q.type /\ p.block < q.block)

\* _fusion_candidates: a plan for each group of more than one, no group twice.
FusionPlans(entities) ==
    LET plan(type, name) ==
            LET ids == Matches(entities, type, name)
            IN  [type |-> type, block |-> name,
                 canonical |-> Min(ids), duplicates |-> ids \ {Min(ids)}]
        groups == {plan(entities[i].type, entities[i].name) :
                      i \in {j \in DOMAIN entities : Cardinality(
                                Matches(entities, entities[j].type, entities[j].name)) > 1}}
        same(p, q) == p.canonical = q.canonical /\ p.duplicates = q.duplicates
    IN  {p \in groups : ~\E q \in groups : Before(q, p) /\ same(q, p)}

\* The mutant: the merged entity keeps its own names only.
MergedForgetful(entities, canonical, duplicates) == entities[canonical]

\* merge_entities: the canonical entity takes the names and the provenance of the
\* others ...
Merged(entities, canonical, duplicates) ==
    [entities[canonical] EXCEPT
        !.aliases = @ \cup UNION {NamesOf(entities[d]) : d \in duplicates},
        !.sources = @ \cup UNION {entities[d].sources : d \in duplicates}]

\* ... and their place in relations and events, in one transaction with the ledger.
Fused(store, canonical, duplicates) ==
    LET kept == [i \in DOMAIN store.entities \ duplicates |->
                    IF i = canonical THEN Merged(store.entities, canonical, duplicates)
                    ELSE store.entities[i]]
        new(i) == IF i \in duplicates THEN canonical ELSE i
        moved(r) == [r EXCEPT !.subject = new(@), !.object = new(@)]
        joins(r) == {moved(r).subject, moved(r).object} \subseteq DOMAIN kept
    IN  [entities |-> kept,
         relations |-> [r \in {q \in DOMAIN store.relations : joins(store.relations[q])} |->
                           moved(store.relations[r])],
         events |-> [e \in DOMAIN store.events |-> {new(i) : i \in store.events[e]}],
         ledger |-> store.ledger \cup {[canonical |-> canonical, duplicates |-> duplicates]}]

Fuse(confirm) ==
    LET plans == FusionPlans(kgStore.entities) IN
    /\ KgSpend
    /\ IF plans # {} /\ confirm
       THEN /\ kgWork' = [cmd |-> "fuse", plans |-> plans, todo |-> plans]
            /\ UNCHANGED kgStage
       ELSE /\ Recorded("fusion", IF plans = {} THEN "READY" ELSE "HOLD")
            /\ UNCHANGED kgWork
    /\ UNCHANGED <<kgStore, kgExport, kgServed>>

Fusing == kgWork # Nothing /\ kgWork.cmd = "fuse"

\* The mutant: a plan that names an entity already merged is passed over.
MissingSkips(plan) ==
    ~ ({plan.canonical} \cup plan.duplicates) \subseteq DOMAIN kgStore.entities

\* A plan whose canonical entity an earlier one has merged is passed over.
Superseded(plan) == plan.canonical \notin DOMAIN kgStore.entities

\* A plan that still has its canonical entity and misses another blocks the command;
\* the merges before it stay, and are not exported.
FuseNext ==
    /\ Fusing
    /\ \E plan \in kgWork.todo :
        /\ \A other \in kgWork.todo \ {plan} : Before(plan, other)
        /\ \/ /\ Superseded(plan)
              /\ kgWork' = [kgWork EXCEPT !.todo = @ \ {plan}]
              /\ UNCHANGED <<kgStore, kgStage>>
           \/ /\ ~Superseded(plan)
              /\ plan.duplicates \subseteq DOMAIN kgStore.entities
              /\ kgStore' = Fused(kgStore, plan.canonical, plan.duplicates)
              /\ kgWork' = [kgWork EXCEPT !.todo = @ \ {plan}]
              /\ UNCHANGED kgStage
           \/ /\ ~Superseded(plan)
              /\ ~ plan.duplicates \subseteq DOMAIN kgStore.entities
              /\ Recorded("fusion", "BLOCK")
              /\ kgWork' = Nothing
              /\ UNCHANGED kgStore
    /\ UNCHANGED <<kgExport, kgServed, kgLeft>>

FinishFuse ==
    /\ Fusing /\ kgWork.todo = {}
    /\ kgExport' = kgStore
    /\ Recorded("fusion", "PASS")
    /\ kgWork' = Nothing
    /\ UNCHANGED <<kgStore, kgServed, kgLeft>>

-----------------------------------------------------------------------------
(* graph quality-gate, graph evaluate, graph serve *)

\* Every relation of the store still fits the ontology and its entities.
StructurallySound == \A r \in DOMAIN kgStore.relations :
    Typed(kgStore.relations[r], kgStore.entities)

Predicted ==
    [entities |-> {<<i, kgStore.entities[i].type, kgStore.entities[i].name>> :
                      i \in DOMAIN kgStore.entities},
     relations |-> {<<kgStore.relations[r].type, kgStore.relations[r].subject,
                      kgStore.relations[r].object>> : r \in DOMAIN kgStore.relations},
     events |-> DOMAIN kgStore.events]

\* The precision of each kind that is predicted or expected is at least 0.9.
PrecisionMet(gold) ==
    LET measured == {what \in DOMAIN Predicted : Predicted[what] \cup gold[what] # {}}
        precise(what) == /\ Predicted[what] # {}
                         /\ 10 * Cardinality(Predicted[what] \cap gold[what])
                              >= 9 * Cardinality(Predicted[what])
    IN  measured # {} /\ \A what \in measured : precise(what)

GateQuality(gold) ==
    /\ KgSpend
    /\ Recorded("quality-gate",
                IF gold # Nothing /\ StructurallySound /\ PrecisionMet(gold)
                THEN "PASS" ELSE "HOLD")
    /\ UNCHANGED <<kgStore, kgExport, kgWork, kgServed>>

Evaluate(gold) ==
    /\ KgSpend
    /\ Recorded("evaluate", IF gold = Nothing THEN "HOLD" ELSE "PASS")
    /\ UNCHANGED <<kgStore, kgExport, kgWork, kgServed>>

Touches(relation, nodes) == relation.subject \in nodes \/ relation.object \in nodes

\* A round of the breadth-first search: the entities across a relation are visited too.
Widened(nodes) ==
    nodes \cup ((UNION {{kgStore.relations[r].subject, kgStore.relations[r].object} :
                           r \in {q \in DOMAIN kgStore.relations :
                                     Touches(kgStore.relations[q], nodes)}})
                  \cap DOMAIN kgStore.entities)

Visited(start, hops) ==
    LET reach[n \in 0..hops] == IF n = 0 THEN {start} ELSE Widened(reach[n - 1])
    IN  reach[hops]

Answer(start, hops) ==
    LET crossed == IF hops = 0 THEN {}
                   ELSE {r \in DOMAIN kgStore.relations :
                           Touches(kgStore.relations[r], Visited(start, hops - 1))}
    IN  [nodes |-> Visited(start, hops),
         relations |-> {<<kgStore.relations[r].subject, kgStore.relations[r].object>> :
                           r \in crossed}]

\* _find_entity takes the first entity, by id, that goes by the name.
Serve(name, hops) ==
    LET found == {i \in DOMAIN kgStore.entities : name \in NamesOf(kgStore.entities[i])} IN
    /\ KgSpend
    /\ IF found = {} THEN Recorded("serve", "HOLD") /\ UNCHANGED kgServed
       ELSE Recorded("serve", "PASS") /\ kgServed' = Answer(Min(found), hops)
    /\ UNCHANGED <<kgStore, kgExport, kgWork>>

KgDies ==
    /\ kgWork # Nothing
    /\ kgWork' = Nothing
    /\ UNCHANGED <<kgStore, kgExport, kgStage, kgServed, kgLeft>>

KgNames == UNION {UNION {NamesOf(f.entities[i]) : i \in DOMAIN f.entities} : f \in KgFiles}

KgNext ==
    \/ \E files \in SUBSET KgFiles, kind \in {"all", "entities", "relations", "events"} :
          Extract(files, kind)
    \/ UpsertNext \/ FinishExtract
    \/ \E confirm \in BOOLEAN : Fuse(confirm)
    \/ FuseNext \/ FinishFuse
    \/ \E gold \in KgGold \cup {Nothing} : GateQuality(gold) \/ Evaluate(gold)
    \/ \E name \in KgNames, hops \in 0..3 : Serve(name, hops)
    \/ KgDies

KgSpec == KgInit /\ [][KgNext]_kgVars

-----------------------------------------------------------------------------
(* Properties. *)

\* No relation and no event ever names an entity the store does not have, wherever an
\* extraction or a fusion died and in whatever order they were run; so an answer
\* lists both ends of every relation it shows.
GraphAnchored ==
    /\ \A r \in DOMAIN kgStore.relations :
          {kgStore.relations[r].subject, kgStore.relations[r].object}
             \subseteq DOMAIN kgStore.entities
    /\ \A e \in DOMAIN kgStore.events : kgStore.events[e] \subseteq DOMAIN kgStore.entities
    /\ \A r \in kgServed.relations : {r[1], r[2]} \subseteq kgServed.nodes

\* An entity leaves the store only by a fusion the ledger records, and what it was
\* called and where it came from stays with the entity it was merged into.
FusionTraced ==
    [][\A i \in DOMAIN kgStore.entities \ DOMAIN kgStore'.entities :
          \E f \in kgStore'.ledger :
             /\ i \in f.duplicates
             /\ f.canonical \in DOMAIN kgStore'.entities
             /\ NamesOf(kgStore.entities[i]) \subseteq NamesOf(kgStore'.entities[f.canonical])
             /\ kgStore.entities[i].sources
                  \subseteq kgStore'.entities[f.canonical].sources]_kgVars

\* A confirmed fusion that has come through, and will report PASS, has carried out every
\* plan it was confirmed for, although each was made before the merges of the others: the
\* canonical entity is alone and the ledger says so, or it has been merged itself.
FusionCarriedOut ==
    Fusing /\ kgWork.todo = {} =>
        \A p \in kgWork.plans :
            IF p.canonical \in DOMAIN kgStore.entities
            THEN /\ p.duplicates \cap DOMAIN kgStore.entities = {}
                 /\ [canonical |-> p.canonical, duplicates |-> p.duplicates] \in kgStore.ledger
            ELSE \E f \in kgStore.ledger : p.canonical \in f.duplicates
=============================================================================
