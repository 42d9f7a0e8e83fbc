------------------------------ MODULE Catalogue ------------------------------
(***************************************************************************)
(* The case contracts under .qa/cases and the commands that generate them  *)
(* (case_generation.py, command_policy.py, runtime_profile.py).            *)
(*                                                                         *)
(* A contract file is Blank or [kind, print, commands, claims, partial,    *)
(* review, whole, edited]: print is its fingerprint, review that it waits  *)
(* for one, a command is [run, semantic], a run is [binary, probe, marked, *)
(* dev] (marked: it goes through QUALITY_PILOT_BINARY; dev: a developer's  *)
(* or a synthetic command).                                                *)
(*                                                                         *)
(* A candidate is [kind, print, args, op, dims, given, claims, sound]:     *)
(* given is Blank or the commands it comes with, claims is Blank or a set  *)
(* of [dim, status, names] where names are the kinds of assertion a claim  *)
(* refers to, sound is that it holds no secret.                            *)
(***************************************************************************)
EXTENDS Integers, SequencesExt, FiniteSetsExt

CONSTANTS Blank,
          CatProfiles,  \* runtime profiles: [binary, configured, tool]
          CatSeeds,     \* what the repository offers: a sequence of [title, args, monkey]
          CatSpecs,     \* the dimensions asked for: a sequence of [key, dims]
          CatLists,     \* external files and lists of tickets
          CatCounts,    \* numbers of contracts that may be asked for
          CatBudget,    \* [least, most, per]: the candidates of a growth command
          CatStock,     \* the contracts a project may start with
          CatActs       \* bound: commands and edits

ASSUME CatAssumption ==
    CatActs \in Nat /\ CatCounts \subseteq Nat \ {0} /\ Len(CatSeeds) > 0

VARIABLES
    catProfile,  \* Blank: the user has to name the executable
    catCases,    \* id -> Blank or the contract
    catBatch,    \* Blank or the command at work: [force, count, made, todo, prints, runs,
                 \* mine], prints and runs as read when it began
    catLeft      \* what is left of CatActs

catVars == <<catProfile, catCases, catBatch, catLeft>>

-----------------------------------------------------------------------------
(* Operations and what they assert. *)

\* _OPERATION_REALIZED_DIMENSIONS; the same operations print a marker to assert.
Realizes == [
    invalid_option_rejection |-> {"negative", "invalid_input"},
    boundary_invalid_value   |-> {"boundary", "invalid_input"},
    sibling_help_sweep       |-> {"sibling_surface"},
    monkey_help_sweep        |-> {"monkey", "sibling_surface"},
    repeatability_probe      |-> {"stress_timeout_risk"},
    monkey_repeatability     |-> {"monkey", "stress_timeout_risk"},
    concurrency_probe        |-> {"stress_timeout_risk"},
    monkey_concurrency       |-> {"monkey", "stress_timeout_risk"},
    timeout_baseline         |-> {"stress_timeout_risk"}]

HasMarker(op) == op \in DOMAIN Realizes

\* _safe_probe_command: an operation on what the seed names, through the product.
SafeRun(op, args) ==
    [binary |-> catProfile.binary, probe |-> <<op, args>>, marked |-> TRUE, dev |-> FALSE]

SafeCommand(op, args) == [run |-> SafeRun(op, args), semantic |-> HasMarker(op)]
Help == SafeCommand("help", "none")

-----------------------------------------------------------------------------
(* Candidates. *)

Derived(kind, print, seed, op, dims) ==
    [kind |-> kind, print |-> print, args |-> seed.args, op |-> op, dims |-> dims,
     given |-> Blank, claims |-> Blank, sound |-> TRUE]

\* One pair of every dimension first, then the rest of the matrix.
LeadingPairs == [i \in DOMAIN CatSpecs |-> <<i, ((i - 1) % Len(CatSeeds)) + 1>>]
Matrix ==
    [n \in 1 .. Len(CatSpecs) * Len(CatSeeds) |->
        <<((n - 1) \div Len(CatSeeds)) + 1, ((n - 1) % Len(CatSeeds)) + 1>>]
InitPairs ==
    LeadingPairs \o SelectSeq(Matrix, LAMBDA pair : \A i \in DOMAIN LeadingPairs :
                                                        LeadingPairs[i] # pair)

InitOperation(key) ==
    CASE key = "negative-invalid-input" -> "invalid_option_rejection"
      [] key = "boundary-min-empty-large" -> "boundary_invalid_value"
      [] key = "stress-timeout-baseline" -> "timeout_baseline"
      [] key = "sibling-surface-consistency" -> "sibling_help_sweep"
      [] OTHER -> "surface_probe"

InitCandidates ==
    [n \in DOMAIN InitPairs |->
        LET seed == CatSeeds[InitPairs[n][2]]
            spec == CatSpecs[InitPairs[n][1]]
        IN Derived("init", <<seed.title, spec.key>>, seed, InitOperation(spec.key), spec.dims)]

PlainKeys == {"exact-reproduction", "functional-primary", "positive-smoke", "positive"}

\* What each dimension asks of a seed that is not a sweep of its own.
Asked == <<[dim |-> "negative", ops |-> <<"invalid_option_rejection">>],
           [dim |-> "boundary", ops |-> <<"boundary_invalid_value">>],
           [dim |-> "sibling_surface", ops |-> <<"sibling_help_sweep">>],
           [dim |-> "stress_timeout_risk",
            ops |-> <<"repeatability_probe", "concurrency_probe", "timeout_baseline">>]>>

GrowthOperations(seed, spec) ==
    LET asked == SelectSeq(Asked, LAMBDA a : a.dim \in spec.dims)
        ops == (IF spec.key \in PlainKeys THEN <<"surface_probe">> ELSE <<>>)
                   \o FlattenSeq([i \in DOMAIN asked |-> asked[i].ops])
    IN IF seed.monkey
       THEN <<"monkey_help_sweep", "monkey_repeatability", "monkey_concurrency">>
       ELSE IF ops = <<>> THEN <<"surface_probe">> ELSE ops

\* Seed by seed, cut off at the budget.
GrowthBudget(count) == Min({CatBudget.most, Max({CatBudget.least, count * CatBudget.per})})

GrowthPool ==
    FlattenSeq([i \in DOMAIN CatSeeds |-> FlattenSeq([j \in DOMAIN CatSpecs |->
        LET seed == CatSeeds[i]
            spec == CatSpecs[j]
            ops == GrowthOperations(seed, spec)
        IN [k \in DOMAIN ops |->
               Derived("growth", <<seed.title, spec.key, ops[k]>>, seed, ops[k],
                       spec.dims \cup IF HasMarker(ops[k]) THEN Realizes[ops[k]] ELSE {})]])])

GrowthCandidates(count) == SubSeq(GrowthPool, 1, Min({GrowthBudget(count), Len(GrowthPool)}))

-----------------------------------------------------------------------------
(* Drafts. *)

\* Nothing a tracker says is run as it stands: an issue's command only when it runs the
\* product, a Redmine ticket's behind QUALITY_PILOT_BINARY.
IssueCommands(c) ==
    IF c.given # Blank /\ \A command \in c.given : command.run.binary = catProfile.binary
    THEN c.given ELSE {Help}

RedmineCommands(c) ==
    IF c.given = Blank THEN {Help}
    ELSE {[command EXCEPT !.run.marked = TRUE] : command \in c.given}

ScratchCommands == {Help}

CommandsOf(c) ==
    CASE c.kind \in {"init", "growth"} ->
            IF c.given # Blank THEN c.given ELSE {SafeCommand(c.op, c.args)}
      [] c.kind = "issue" -> IssueCommands(c)
      [] c.kind = "redmine" -> RedmineCommands(c)
      [] c.kind = "scratch" -> ScratchCommands

Semantic(commands) == \E command \in commands : command.semantic

\* The mutant: a claim is realized by any assertion it names, the exit code too.
ClaimsStandOnExit(c) ==
    c.claims # Blank => \A claim \in c.claims :
        /\ claim.dim \in c.dims
        /\ "semantic" \in claim.names => Semantic(CommandsOf(c))
        /\ claim.status = "realized" => claim.names # {}

\* _normalize_external_coverage_claims: an assertion a claim names has to be there, and a
\* realized dimension needs one that is not the exit code.
ClaimsStand(c) ==
    c.claims # Blank => \A claim \in c.claims :
        /\ claim.dim \in c.dims
        /\ "semantic" \in claim.names => Semantic(CommandsOf(c))
        /\ claim.status = "realized" => "semantic" \in claim.names

\* The dimensions a contract says it realizes.
Realized(c) ==
    IF c.claims # Blank THEN {claim.dim : claim \in {x \in c.claims : x.status = "realized"}}
    ELSE IF HasMarker(c.op) /\ c.given = Blank THEN c.dims \cap Realizes[c.op] ELSE {}

\* Without a hint a Redmine ticket is probed with the product, which must not be a tool.
Draftable(c) ==
    /\ c.kind \in {"init", "growth"} => ClaimsStand(c)
    /\ c.kind = "redmine" /\ c.given = Blank => ~catProfile.tool

GeneratedDraft(c) ==
    [kind |-> c.kind, print |-> c.print, commands |-> CommandsOf(c), claims |-> Realized(c),
     partial |-> Realized(c) = {}, review |-> FALSE, whole |-> TRUE, edited |-> FALSE]

\* Only a Redmine contract has to be reviewed before it runs.
TicketDraft(c) ==
    [kind |-> c.kind, print |-> c.print, commands |-> CommandsOf(c), claims |-> {},
     partial |-> FALSE, review |-> c.kind = "redmine", whole |-> TRUE, edited |-> FALSE]

Draft(c) == IF c.kind \in {"init", "growth"} THEN GeneratedDraft(c) ELSE TicketDraft(c)

CaseId(c) == <<c.kind, c.print>>

\* command_policy.validate_generated_command.
Allowed(run) ==
    \/ catProfile.configured /\ run.binary = catProfile.binary
    \/ ~run.dev /\ (run.marked \/ run.binary = catProfile.binary)

InPolicy(c) == \A command \in CommandsOf(c) : Allowed(command.run)

\* The policy, and no secret.
Enforced(c) == InPolicy(c) /\ c.sound

RunsOf(contract) == {command.run : command \in contract.commands}

-----------------------------------------------------------------------------
(* Generation. *)

\* The files that can be read; an empty one has neither fingerprint nor commands.
Readable == {id \in DOMAIN catCases : catCases[id] # Blank /\ catCases[id].whole}

\* needs_user_input: an executable is neither configured nor found in the repository.
ProfileReady == catProfile # Blank

\* Nothing is generated before the executable is known.
BeginBatch(todo, count, force) ==
    /\ catBatch = Blank /\ ProfileReady /\ catLeft > 0
    /\ catLeft' = catLeft - 1
    /\ catBatch' = [force |-> force, count |-> count, made |-> 0, todo |-> todo,
                    prints |-> {catCases[id].print : id \in Readable},
                    runs |-> [id \in Readable |-> RunsOf(catCases[id])],
                    mine |-> {}]
    /\ UNCHANGED <<catProfile, catCases>>

\* 0: no limit.
GenerateInit ==
    \E count \in CatCounts \cup {0}, force \in BOOLEAN : BeginBatch(InitCandidates, count, force)

GenerateGrowth ==
    \E count \in CatCounts, force \in BOOLEAN : BeginBatch(GrowthCandidates(count), count, force)

\* One candidate that is not sound refuses the file.
Importable(list) == \A i \in DOMAIN list : list[i].sound

GenerateExternal ==
    \E list \in {x \in CatLists : x[1].kind = "growth"}, force \in BOOLEAN :
        Importable(list) /\ BeginBatch(list, Len(list), force)

GenerateTickets(kind) ==
    \E list \in {x \in CatLists : x[1].kind = kind}, force \in BOOLEAN :
        BeginBatch(list, 0, force)

GenerateFromIssues == GenerateTickets("issue")
GenerateFromRedmine == GenerateTickets("redmine")
GenerateFromScratch == GenerateTickets("scratch")

Working == catBatch # Blank
Enough == catBatch.count > 0 /\ catBatch.made >= catBatch.count
Next1 == catBatch.todo[1]
Busy == Working /\ catBatch.todo # <<>> /\ ~Enough

\* Tickets and the scratch cases are not compared with anything.
Compared(c) == c.kind \in {"init", "growth"}
KnownPrint(c) == Compared(c) /\ c.print \in catBatch.prints

Exists(c) == catCases[CaseId(c)] # Blank

\* A Redmine contract of an earlier release is replaced without being asked.
StaleProbe(contract) ==
    /\ contract.kind = "redmine"
    /\ \E command \in contract.commands : command.run.probe = <<"generic">>

Kept(c) ==
    /\ Exists(c) /\ ~catBatch.force
    /\ ~(c.kind = "redmine" /\ StaleProbe(catCases[CaseId(c)]))

\* The mutant: what this batch has written is not compared.
KnownCommandBefore(c) ==
    /\ Compared(c)
    /\ \E command \in CommandsOf(c) :
          \E id \in DOMAIN catBatch.runs \ {CaseId(c)} : command.run \in catBatch.runs[id]

\* A command that is there under another id, or in this batch.
KnownCommand(c) ==
    /\ Compared(c)
    /\ \E command \in CommandsOf(c) :
          \/ command.run \in catBatch.mine
          \/ \E id \in DOMAIN catBatch.runs \ {CaseId(c)} : command.run \in catBatch.runs[id]

Passed(prints) == [catBatch EXCEPT !.todo = Tail(@), !.prints = @ \cup prints]

Drafted(c) == ~KnownPrint(c) /\ Draftable(c)
Written(c) == Drafted(c) /\ ~Kept(c) /\ Enforced(c) /\ ~KnownCommand(c)

\* Known, there already, or running what another case runs.
PassOver ==
    /\ Busy
    /\ \/ KnownPrint(Next1)
       \/ Drafted(Next1) /\ Kept(Next1)
       \/ Drafted(Next1) /\ ~Kept(Next1) /\ Enforced(Next1) /\ KnownCommand(Next1)
    /\ catBatch' = Passed({Next1.print})
    /\ UNCHANGED <<catProfile, catCases, catLeft>>

WriteContract ==
    /\ Busy /\ Written(Next1)
    /\ catCases' = [catCases EXCEPT ![CaseId(Next1)] = Draft(Next1)]
    /\ catBatch' = [Passed({Next1.print}) EXCEPT !.made = @ + 1,
                                                 !.mine = @ \cup RunsOf(Draft(Next1))]
    /\ UNCHANGED <<catProfile, catLeft>>

\* A candidate that cannot be drafted or enforced ends the command; what it has written
\* stays, what came after is not looked at.
RaiseOn ==
    /\ Busy /\ ~KnownPrint(Next1)
    /\ ~Draftable(Next1) \/ (~Kept(Next1) /\ ~Enforced(Next1))
    /\ catBatch' = Blank
    /\ UNCHANGED <<catProfile, catCases, catLeft>>

FinishBatch ==
    /\ Working /\ ~Busy
    /\ catBatch' = Blank
    /\ UNCHANGED <<catProfile, catCases, catLeft>>

\* The process dies, perhaps between emptying a contract's file and filling it.
CatDies ==
    /\ Working
    /\ catBatch' = Blank
    /\ \/ UNCHANGED catCases
       \/ /\ Busy /\ Written(Next1)
          /\ catCases' = [catCases EXCEPT ![CaseId(Next1)] =
                             [Draft(Next1) EXCEPT !.commands = {}, !.claims = {},
                                                  !.whole = FALSE]]
    /\ UNCHANGED <<catProfile, catLeft>>

-----------------------------------------------------------------------------
(* The user, between commands. *)

UserActs == catBatch = Blank /\ catLeft > 0 /\ catLeft' = catLeft - 1

\* Another executable, configured or found in the repository, or none any more.
SetProfile ==
    /\ UserActs
    /\ \E profile \in CatProfiles \cup {Blank} : profile # catProfile /\ catProfile' = profile
    /\ UNCHANGED <<catCases, catBatch>>

\* A new title gives a contract another fingerprint; its commands may become another's.
EditCase ==
    /\ UserActs
    /\ \E id \in Readable :
          \/ catCases' = [catCases EXCEPT ![id].print = Blank, ![id].edited = TRUE]
          \/ \E other \in Readable \ {id} :
                catCases' = [catCases EXCEPT ![id].commands = catCases[other].commands,
                                             ![id].edited = TRUE]
    /\ UNCHANGED <<catProfile, catBatch>>

DeleteCase ==
    /\ UserActs
    /\ \E id \in DOMAIN catCases :
          /\ catCases[id] # Blank
          /\ catCases' = [catCases EXCEPT ![id] = Blank]
    /\ UNCHANGED <<catProfile, catBatch>>

-----------------------------------------------------------------------------

CandidatesOf(list) == {list[i] : i \in DOMAIN list}
CatIds ==
    {CaseId(c) : c \in CandidatesOf(InitCandidates) \cup CandidatesOf(GrowthPool)
                       \cup UNION {CandidatesOf(list) : list \in CatLists}}

CatInit ==
    /\ catProfile \in CatProfiles \cup {Blank}
    /\ \E stock \in CatStock :
          catCases = [id \in CatIds |-> IF id \in DOMAIN stock THEN stock[id] ELSE Blank]
    /\ catBatch = Blank
    /\ catLeft = CatActs

CatNext ==
    \/ GenerateInit \/ GenerateGrowth \/ GenerateExternal
    \/ GenerateFromIssues \/ GenerateFromRedmine \/ GenerateFromScratch
    \/ PassOver \/ WriteContract \/ RaiseOn \/ FinishBatch \/ CatDies
    \/ SetProfile \/ EditCase \/ DeleteCase

CatSpec == CatInit /\ [][CatNext]_catVars

-----------------------------------------------------------------------------
(* Properties. *)

\* The contracts as generated and as the user left them.
Generated(cases) ==
    {id \in DOMAIN cases : /\ cases[id] # Blank /\ cases[id].whole /\ ~cases[id].edited
                           /\ cases[id].kind \in {"init", "growth"}}

\* No two generated contracts run the same command.
CommandsOwned(cases) ==
    \A id \in Generated(cases) : \A other \in Generated(cases) \ {id} :
        RunsOf(cases[id]) \cap RunsOf(cases[other]) = {}

\* A contract that calls a dimension realized has a semantic assertion to show for it.
ClaimsBacked(cases) ==
    \A id \in Generated(cases) : cases[id].claims # {} => Semantic(cases[id].commands)

ContractFields == {"kind", "print", "commands", "claims", "partial", "review", "whole", "edited"}

\* What a project starts with is in order; its files are contracts.
ASSUME StockAssumption == \A stock \in CatStock :
    /\ \A id \in DOMAIN stock : stock[id] # Blank => DOMAIN stock[id] = ContractFields
    /\ CommandsOwned(stock) /\ ClaimsBacked(stock)

\* Whatever was generated, forced, killed, edited or deleted before, and whatever the
\* executable was called then: no two contracts of the init and growth commands run the
\* same command, so that one failure is one case, and none of them claims a dimension
\* that only its exit code shows (generate_cases_init, generate_cases_growing,
\* _coverage_claims).
CatalogueSound == CommandsOwned(catCases) /\ ClaimsBacked(catCases)
=============================================================================
