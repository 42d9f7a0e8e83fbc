----------------------------- MODULE MCVerdicts -----------------------------
(***************************************************************************)
(* A small instance of what Quality Pilot finds out: the knowledge graph,  *)
(* the catalogue of cases, their execution, the review of a pull request   *)
(* and its projection.  They share no variable, so a behaviour works at    *)
(* one bench, chosen at the start.                                         *)
(***************************************************************************)
EXTENDS KnowledgeGraph, Catalogue, Execution, QaProjection, TLC

CONSTANTS h1, h2, h3, h4, h5

VARIABLE bench

benchVars == <<bench, kgVars, catVars, exVars, prVars, qaNodes>>

-----------------------------------------------------------------------------
(* Candidate files: 1 and 2 are nodes with a relation and an event; 2, 3    *)
(* and 4 are a chain in which each shares a name with the next, and 1 with *)
(* the first: fusing it from 1 passes plans over, from 2 it blocks.  One   *)
(* file shares an id with another, one has no provenance.                  *)

Ent(type, name, aliases, source) ==
    [type |-> type, name |-> name, aliases |-> aliases, sources |-> {source}]
Rel(subject, object) == [type |-> 1, subject |-> subject, object |-> object]
Cand(provenance, entities, relations, events) ==
    [provenance |-> provenance, entities |-> entities, relations |-> relations,
     events |-> events]

MCKgRelations == <<[domain |-> 1, range |-> 1]>>
MCKgFiles == {
    Cand(TRUE, <<Ent(1, 1, {}, 1), Ent(1, 1, {}, 1)>>, (1 :> Rel(1, 2)), (1 :> {2})),
    Cand(TRUE, (2 :> Ent(1, 1, {2}, 2) @@ 3 :> Ent(1, 2, {3}, 2) @@ 4 :> Ent(1, 3, {}, 2)), (2 :> Rel(2, 3)), <<>>),
    Cand(TRUE, <<>>, (3 :> Rel(1, 3)), (2 :> {3})),
    Cand(TRUE, (2 :> Ent(2, 1, {}, 3)), <<>>, <<>>),
    Cand(FALSE, (4 :> Ent(1, 4, {}, 3)), <<>>, <<>>)}
MCKgGold == {[entities |-> {<<1, 1, 1>>, <<2, 1, 1>>}, relations |-> {<<1, 1, 2>>},
              events |-> {1}]}

-----------------------------------------------------------------------------
(* Contracts: two seeds that offer the same surface, a dimension with a    *)
(* marker and one without; external candidates that name a command of the  *)
(* product, a developer's, an exit code; tickets with and without a hint;  *)
(* a contract of an earlier release.                                       *)

Seed(title, args, monkey) == [title |-> title, args |-> args, monkey |-> monkey]
MCCatSeeds == <<Seed("list", "list --help", FALSE), Seed("readme", "list --help", FALSE)>>
MCCatSpecs == <<[key |-> "negative-invalid-input", dims |-> {"negative", "invalid_input"}],
                [key |-> "positive-smoke", dims |-> {"positive"}]>>
MCCatProfiles == {[binary |-> "qp", configured |-> TRUE, tool |-> FALSE],
                  [binary |-> "python3", configured |-> FALSE, tool |-> TRUE]}
MCCatBudget == [least |-> 2, most |-> 3, per |-> 2]

GivenRun(binary, probe, dev) ==
    [binary |-> binary, probe |-> <<probe>>, marked |-> FALSE, dev |-> dev]
GivenCommand(binary, probe, dev, semantic) ==
    {[run |-> GivenRun(binary, probe, dev), semantic |-> semantic]}
Claim(dim, status, names) == {[dim |-> dim, status |-> status, names |-> names]}
Item(kind, print, op, dims, given, claims, sound) ==
    [kind |-> kind, print |-> <<print>>, args |-> "list --help", op |-> op, dims |-> dims,
     given |-> given, claims |-> claims, sound |-> sound]
External(print, given, claims) ==
    Item("growth", print, "", {"positive", "stress_timeout_risk"}, given, claims, TRUE)
Ticket(kind, print, given, sound) == Item(kind, print, "", {}, given, Blank, sound)

MCCatLists == {
    <<External("e1", GivenCommand("qp", "scan", FALSE, FALSE), Claim("positive", "realized", {"exit"}))>>,
    <<External("e2", GivenCommand("qp", "scan", FALSE, TRUE), Claim("positive", "realized", {"semantic"})),
      External("e3", GivenCommand("qp", "scan", FALSE, TRUE), Blank),
      External("e4", GivenCommand("pytest", "all", TRUE, FALSE), Blank),
      External("e5", Blank, Blank)>>,
    <<Ticket("redmine", "1", GivenCommand("other", "status", FALSE, FALSE), TRUE),
      Ticket("redmine", "2", Blank, TRUE)>>,
    <<Ticket("issue", "1", GivenCommand("other", "status", FALSE, FALSE), TRUE),
      Ticket("issue", "2", Blank, FALSE)>>,
    <<Ticket("scratch", "1", Blank, TRUE)>>}
MCCatStock == {
    <<>>,
    (<<"redmine", <<"1">>>> :>
        [kind |-> "redmine", print |-> <<"1">>,
         commands |-> {[run |-> [GivenRun("qp", "generic", TRUE) EXCEPT !.marked = TRUE],
                        semantic |-> FALSE]},
         claims |-> {}, partial |-> FALSE, review |-> TRUE, whole |-> TRUE, edited |-> FALSE])}

-----------------------------------------------------------------------------
(* Cases: every gate, a risky and an unjudged command, a partial contract  *)
(* and one under review; local and remote products with and without build, *)
(* operations and a page.                                                  *)

Cmd(review, prepared, partial, gate, commands) ==
    [kind |-> "command", review |-> review, prepared |-> prepared, partial |-> partial,
     gate |-> gate, commands |-> commands]
Shell(risky, semantic) == [risky |-> risky, semantic |-> semantic]
Prod(enabled, remote, build, builds, artifact, ops, web, readme, unsafe) ==
    [kind |-> "product", enabled |-> enabled, remote |-> remote, build |-> build,
     builds |-> builds, artifact |-> artifact, ops |-> ops, web |-> web, readme |-> readme,
     unsafe |-> unsafe]

MCExCases == {
    Cmd(FALSE, TRUE, FALSE, "evidence", <<Shell(FALSE, TRUE), Shell(FALSE, TRUE)>>),
    Cmd(FALSE, FALSE, FALSE, "off", <<Shell(FALSE, TRUE), Shell(FALSE, FALSE)>>),
    Cmd(FALSE, FALSE, FALSE, "unmet", <<Shell(FALSE, TRUE), Shell(TRUE, TRUE)>>),
    Cmd(TRUE, FALSE, TRUE, "met", <<Shell(FALSE, TRUE)>>),
    Prod(TRUE, FALSE, "on", 1, TRUE, <<TRUE, TRUE>>, "semantic", "refused", FALSE),
    Prod(TRUE, TRUE, "default", 0, FALSE, <<>>, "semantic", "refused", TRUE),
    Prod(TRUE, TRUE, "on", 1, TRUE, <<TRUE>>, "semantic", "refused", TRUE),
    Prod(TRUE, FALSE, "off", 0, FALSE, <<>>, "probe", "refused", FALSE),
    Prod(TRUE, FALSE, "default", 0, TRUE, <<>>, "none", "allowed", FALSE),
    Prod(FALSE, FALSE, "on", 1, TRUE, <<TRUE>>, "none", "refused", FALSE)}

-----------------------------------------------------------------------------
(* Pull requests: a browser suite with a whole menu of generated cases, a  *)
(* targeted suite with none, a secret, no tests, no diff.                  *)

GenCase(id, dims, capable, partial) ==
    [id |-> id, dims |-> dims, capable |-> capable, partial |-> partial]
Deep(capable, partial) == GenCase("deep", {"boundary", "stress"}, capable, partial)
MCPrMenus ==
    {{Deep(TRUE, FALSE), GenCase("look", {"ui", "ux"}, TRUE, TRUE)},
     {Deep(TRUE, FALSE)}, {Deep(FALSE, FALSE)}, {Deep(TRUE, TRUE)}}
Fact(suite, diff, leak, docs, menus) ==
    [suite |-> suite, diff |-> diff, leak |-> leak, docs |-> docs, menus |-> menus]
MCPrFacts == h1 :> Fact("browser", "files", FALSE, "ok", MCPrMenus)
          @@ h2 :> Fact("none", "given", FALSE, "none", {{}})
          @@ h3 :> Fact("none", "none", FALSE, "bad", {{}})
          @@ h4 :> Fact("targeted", "given", FALSE, "ok", {{}})
          @@ h5 :> Fact("targeted", "given", TRUE, "ok", {{}})

Contract(configured, confirmed, conflict, candidate, remote, missing) ==
    [configured |-> configured, confirmed |-> confirmed, conflict |-> conflict,
     candidate |-> candidate, remote |-> remote, missing |-> missing]
Plan(heads, moves, reviews, contract) ==
    [heads |-> heads, moves |-> moves, reviews |-> reviews, dates |-> {TRUE},
     contract |-> contract]
Undated(plan) == [plan EXCEPT !.dates = BOOLEAN]
OnThisHost == Contract(TRUE, TRUE, FALSE, FALSE, FALSE, FALSE)
Elsewhere == Contract(FALSE, FALSE, TRUE, TRUE, TRUE, FALSE)
Unfinished == Contract(FALSE, FALSE, FALSE, TRUE, TRUE, TRUE)
MCPrPlans == {
    Plan({h1}, 0, 1, OnThisHost), Plan({h1}, 0, 1, Elsewhere), Plan({h4}, 0, 2, Elsewhere),
    Plan({h4}, 0, 1, Unfinished), Plan({h5}, 0, 1, OnThisHost),
    Plan({h2, h3}, 2, 2, OnThisHost), Undated(Plan({h2, h3}, 1, 2, OnThisHost))}

-----------------------------------------------------------------------------

VerdictsInit ==
    /\ bench \in {"graph", "contracts", "case", "request"}
    /\ KgInit /\ CatInit /\ ExInit /\ PrInit /\ QaInit
    /\ bench # "contracts" => catProfile = Blank /\ catCases = [id \in CatIds |-> Blank]
    /\ bench # "request" => prLeft = Plan({h5}, 0, 1, OnThisHost)

VerdictsNext ==
    /\ UNCHANGED bench
    /\ \/ bench = "graph" /\ KgNext /\ UNCHANGED <<catVars, exVars, prVars, qaNodes>>
       \/ bench = "contracts" /\ CatNext /\ UNCHANGED <<kgVars, exVars, prVars, qaNodes>>
       \/ bench = "case" /\ ExNext /\ UNCHANGED <<kgVars, catVars, prVars, qaNodes>>
       \/ bench = "request" /\ QaNext /\ UNCHANGED <<kgVars, catVars, exVars>>

VerdictsSpec == VerdictsInit /\ [][VerdictsNext]_benchVars
=============================================================================
