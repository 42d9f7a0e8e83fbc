----------------------------- MODULE CaseProofs -----------------------------
(***************************************************************************)
(* Proofs about cases: the contracts that are generated are in order, and a *)
(* PASS has been earned and leaves no remote server, for any seeds, profiles, *)
(* candidates and cases and any number of commands and runs.               *)
(***************************************************************************)
EXTENDS Catalogue, Execution, TLAPS

-----------------------------------------------------------------------------
(* The inductive invariant of the catalogue: what a command at work knows  *)
(* of the contracts is true of them while it works.                        *)

BatchFields == {"force", "count", "made", "todo", "prints", "runs", "mine"}

CasesTyped ==
    \A id \in DOMAIN catCases : catCases[id] # Blank => DOMAIN catCases[id] = ContractFields

BatchTyped == catBatch # Blank => DOMAIN catBatch = BatchFields

\* A contract that can be read was read, or the command at work has written it.
RunsKnown ==
    catBatch # Blank =>
        \A id \in Readable :
            \/ id \in DOMAIN catBatch.runs /\ catBatch.runs[id] = RunsOf(catCases[id])
            \/ RunsOf(catCases[id]) \subseteq catBatch.mine

CatInv == CasesTyped /\ BatchTyped /\ RunsKnown /\ CatalogueSound

\* A contract that stays as it is, stays generated and sound beside the others that do.
LEMMA FewerStaySound ==
    ASSUME NEW cases, NEW fewer, CommandsOwned(cases), ClaimsBacked(cases),
           \A id \in Generated(fewer) : id \in Generated(cases) /\ fewer[id] = cases[id]
    PROVE  CommandsOwned(fewer) /\ ClaimsBacked(fewer)
  BY DEF CommandsOwned, ClaimsBacked

\* A generated contract that runs what no other one runs may be added.
LEMMA OneMoreSound ==
    ASSUME NEW cases, NEW more, NEW new, CommandsOwned(cases), ClaimsBacked(cases),
           \A id \in Generated(more) : id # new => id \in Generated(cases) /\ more[id] = cases[id],
           new \in Generated(more) =>
               /\ \A id \in Generated(cases) \ {new} : RunsOf(more[new]) \cap RunsOf(cases[id]) = {}
               /\ more[new].claims # {} => Semantic(more[new].commands)
    PROVE  CommandsOwned(more) /\ ClaimsBacked(more)
<1>1. ASSUME NEW a \in Generated(more), NEW b \in Generated(more) \ {a}
      PROVE  RunsOf(more[a]) \cap RunsOf(more[b]) = {}
  <2>1. CASE a # new /\ b # new
    BY <1>1, <2>1 DEF CommandsOwned
  <2>2. CASE a = new
    BY <1>1, <2>2
  <2>3. CASE b = new
    BY <1>1, <2>3
  <2> QED
    BY <2>1, <2>2, <2>3
<1>2. ASSUME NEW a \in Generated(more), more[a].claims # {}
      PROVE  Semantic(more[a].commands)
  BY <1>2 DEF ClaimsBacked
<1>3. CommandsOwned(more)
  BY <1>1 DEF CommandsOwned
<1>4. ClaimsBacked(more)
  BY <1>2 DEF ClaimsBacked
<1> QED
  BY <1>3, <1>4

-----------------------------------------------------------------------------
(* Drafts. *)

LEMMA ComparedCommands ==
    ASSUME NEW c, Compared(c)
    PROVE  CommandsOf(c) = IF c.given # Blank THEN c.given ELSE {SafeCommand(c.op, c.args)}
  BY Zenon DEF CommandsOf, Compared

\* A dimension is realized by an assertion that is not the exit code: a claim has to
\* name one, an operation prints a marker for it.
LEMMA RealizedBacked ==
    ASSUME NEW c, Compared(c), Draftable(c), Realized(c) # {}
    PROVE  Semantic(CommandsOf(c))
<1>1. ClaimsStand(c)
  BY DEF Draftable, Compared
<1>2. CASE c.claims # Blank
  <2>1. PICK claim \in c.claims : claim.status = "realized"
    BY <1>2 DEF Realized
  <2> QED
    BY <1>1, <1>2, <2>1 DEF ClaimsStand
<1>3. CASE c.claims = Blank
  <2>1. HasMarker(c.op) /\ c.given = Blank
    BY <1>3 DEF Realized
  <2>2. CommandsOf(c) = {SafeCommand(c.op, c.args)}
    BY <2>1, ComparedCommands
  <2>3. SafeCommand(c.op, c.args).semantic = HasMarker(c.op)
    BY DEF SafeCommand
  <2> QED
    BY <2>1, <2>2, <2>3 DEF Semantic
<1> QED
  BY <1>2, <1>3

LEMMA DraftsTyped ==
    ASSUME NEW c
    PROVE  /\ DOMAIN Draft(c) = ContractFields
           /\ Draft(c).kind = c.kind /\ Draft(c).commands = CommandsOf(c)
           /\ Compared(c) => Draft(c).claims = Realized(c)
  BY DEF Draft, GeneratedDraft, TicketDraft, ContractFields, Compared

LEMMA DraftRuns ==
    ASSUME NEW c
    PROVE  RunsOf(Draft(c)) = {command.run : command \in CommandsOf(c)}
  BY DraftsTyped DEF RunsOf

-----------------------------------------------------------------------------
(* The steps. *)

LEMMA BatchBegins ==
    ASSUME NEW todo, NEW count, NEW force, CatInv, BeginBatch(todo, count, force)
    PROVE  CatInv'
<1>1. /\ UNCHANGED catCases
      /\ catBatch' = [force |-> force, count |-> count, made |-> 0, todo |-> todo,
                      prints |-> {catCases[id].print : id \in Readable},
                      runs |-> [id \in Readable |-> RunsOf(catCases[id])], mine |-> {}]
  BY DEF BeginBatch
<1>2. BatchTyped' /\ catBatch'.runs = [id \in Readable |-> RunsOf(catCases[id])]
  BY <1>1 DEF BatchTyped, BatchFields
<1>3. Readable' = Readable
  BY <1>1 DEF Readable
<1>4. RunsKnown'
  BY <1>1, <1>2, <1>3 DEF RunsKnown
<1> QED
  BY <1>1, <1>2, <1>4 DEF CatInv, CasesTyped, CatalogueSound

\* A command that ends, and a user who leaves the contracts alone.
LEMMA BatchEnds ==
    ASSUME CatInv, UNCHANGED catCases, catBatch' = Blank
    PROVE  CatInv'
  BY DEF CatInv, CasesTyped, BatchTyped, RunsKnown, CatalogueSound

LEMMA PassOverSound ==
    ASSUME CatInv, PassOver
    PROVE  CatInv'
<1>1. UNCHANGED catCases /\ catBatch # Blank /\ catBatch' = Passed({Next1.print})
  BY DEF PassOver, Busy, Working
<1>2. /\ DOMAIN catBatch' = BatchFields
      /\ catBatch'.runs = catBatch.runs /\ catBatch'.mine = catBatch.mine
  BY <1>1 DEF Passed, CatInv, BatchTyped, BatchFields
<1> QED
  BY <1>1, <1>2 DEF CatInv, CasesTyped, BatchTyped, RunsKnown, Readable, CatalogueSound

\* The contract that is written runs what no contract that can be read runs.
LEMMA WrittenIsNew ==
    ASSUME CatInv, NEW c, catBatch # Blank, Compared(c), Written(c)
    PROVE  \A id \in Readable \ {CaseId(c)} : RunsOf(Draft(c)) \cap RunsOf(catCases[id]) = {}
<1> SUFFICES ASSUME NEW id \in Readable \ {CaseId(c)}, NEW run \in RunsOf(Draft(c)),
                    run \in RunsOf(catCases[id])
             PROVE  FALSE
  OBVIOUS
<1>1. PICK command \in CommandsOf(c) : command.run = run
  BY DraftRuns
<1>2. run \notin catBatch.mine
      /\ \A other \in DOMAIN catBatch.runs \ {CaseId(c)} : run \notin catBatch.runs[other]
  BY <1>1 DEF Written, KnownCommand
<1> QED
  BY <1>2 DEF CatInv, RunsKnown

LEMMA WriteSound ==
    ASSUME CatInv, WriteContract
    PROVE  CatInv'
<1> DEFINE c == Next1
           new == CaseId(c)
<1>1. catBatch # Blank /\ Written(c)
  BY DEF WriteContract, Busy, Working
<1>2. /\ catCases' = [catCases EXCEPT ![new] = Draft(c)]
      /\ catBatch' = [Passed({c.print}) EXCEPT !.made = @ + 1,
                                               !.mine = @ \cup RunsOf(Draft(c))]
  BY DEF WriteContract
<1> HIDE DEF c, new
<1>3. /\ DOMAIN catBatch' = BatchFields /\ catBatch'.runs = catBatch.runs
      /\ catBatch'.mine = catBatch.mine \cup RunsOf(Draft(c))
  <2>1. /\ DOMAIN Passed({c.print}) = BatchFields
        /\ Passed({c.print}).runs = catBatch.runs /\ Passed({c.print}).mine = catBatch.mine
    BY <1>1 DEF Passed, CatInv, BatchTyped, BatchFields
  <2> QED
    BY <1>2, <2>1 DEF BatchFields
<1>4. /\ DOMAIN catCases' = DOMAIN catCases
      /\ \A id \in DOMAIN catCases : catCases'[id] = IF id = new THEN Draft(c) ELSE catCases[id]
  BY <1>2
<1>5. CasesTyped'
  BY <1>4, DraftsTyped DEF CatInv, CasesTyped
<1>6. \A id \in Readable' : id # new => id \in Readable /\ catCases'[id] = catCases[id]
  BY <1>4 DEF Readable
<1>7. RunsKnown'
  <2> SUFFICES ASSUME NEW id \in Readable'
               PROVE  \/ id \in DOMAIN catBatch'.runs /\ catBatch'.runs[id] = RunsOf(catCases'[id])
                      \/ RunsOf(catCases'[id]) \subseteq catBatch'.mine
    BY DEF RunsKnown
  <2>1. CASE id = new
    BY <1>3, <1>4, <2>1 DEF Readable
  <2>2. CASE id # new
    BY <1>1, <1>3, <1>6, <2>2 DEF CatInv, RunsKnown
  <2> QED
    BY <2>1, <2>2
<1>8. \A id \in Generated(catCases') :
         id # new => id \in Generated(catCases) /\ catCases'[id] = catCases[id]
  BY <1>4 DEF Generated
<1>9. ASSUME new \in Generated(catCases')
      PROVE  /\ \A id \in Generated(catCases) \ {new} :
                   RunsOf(catCases'[new]) \cap RunsOf(catCases[id]) = {}
             /\ catCases'[new].claims # {} => Semantic(catCases'[new].commands)
  <2>1. catCases'[new] = Draft(c) /\ Compared(c)
    BY <1>4, <1>9, DraftsTyped DEF Generated, Compared
  <2>2. Generated(catCases) \subseteq Readable
    BY DEF Generated, Readable
  <2>3. \A id \in Readable \ {new} : RunsOf(Draft(c)) \cap RunsOf(catCases[id]) = {}
    BY <1>1, <2>1, WrittenIsNew DEF new
  <2>4. Draftable(c)
    BY <1>1 DEF Written, Drafted
  <2>5. Draft(c).claims # {} => Semantic(Draft(c).commands)
    BY <2>1, <2>4, DraftsTyped, RealizedBacked
  <2> QED
    BY <2>1, <2>2, <2>3, <2>5
<1>10. CommandsOwned(catCases') /\ ClaimsBacked(catCases')
  BY <1>8, <1>9, OneMoreSound DEF CatInv, CatalogueSound
<1> QED
  BY <1>3, <1>5, <1>7, <1>10 DEF CatInv, BatchTyped, CatalogueSound

\* Contracts that are gone, cut short or edited leave the others as they are.
LEMMA FewerSound ==
    ASSUME CatInv, catBatch' = Blank, CasesTyped',
           \A id \in Generated(catCases') :
               id \in Generated(catCases) /\ catCases'[id] = catCases[id]
    PROVE  CatInv'
  BY FewerStaySound DEF CatInv, BatchTyped, RunsKnown, CatalogueSound

LEMMA DeathSound ==
    ASSUME CatInv, CatDies
    PROVE  CatInv'
<1>1. CASE UNCHANGED catCases
  BY <1>1, BatchEnds DEF CatDies
<1>2. CASE ~UNCHANGED catCases
  <2> DEFINE half == [Draft(Next1) EXCEPT !.commands = {}, !.claims = {}, !.whole = FALSE]
             new == CaseId(Next1)
  <2>1. catCases' = [catCases EXCEPT ![new] = half] /\ catBatch' = Blank
    BY <1>2 DEF CatDies
  <2>2. DOMAIN half = ContractFields /\ half.whole = FALSE
    <3>1. DOMAIN Draft(Next1) = ContractFields
      BY DraftsTyped
    <3> QED
      BY <3>1 DEF ContractFields
  <2> HIDE DEF half, new
  <2>3. /\ DOMAIN catCases' = DOMAIN catCases
        /\ \A id \in DOMAIN catCases : catCases'[id] = IF id = new THEN half ELSE catCases[id]
    BY <2>1
  <2> QED
    BY <2>1, <2>2, <2>3, FewerSound DEF CatInv, CasesTyped, Generated
<1> QED
  BY <1>1, <1>2

LEMMA EditSound ==
    ASSUME CatInv, EditCase
    PROVE  CatInv'
<1>1. catBatch' = Blank
  BY DEF EditCase, UserActs
<1>2. PICK id \in Readable :
         \/ catCases' = [catCases EXCEPT ![id].print = Blank, ![id].edited = TRUE]
         \/ \E other \in Readable \ {id} :
               catCases' = [catCases EXCEPT ![id].commands = catCases[other].commands,
                                            ![id].edited = TRUE]
  BY DEF EditCase
<1>3. id \in DOMAIN catCases /\ DOMAIN catCases[id] = ContractFields
  BY DEF CatInv, CasesTyped, Readable
<1>4. /\ DOMAIN catCases' = DOMAIN catCases
      /\ \A i \in DOMAIN catCases : i # id => catCases'[i] = catCases[i]
      /\ DOMAIN catCases'[id] = ContractFields /\ catCases'[id].edited
  BY <1>2, <1>3 DEF ContractFields
<1>5. CasesTyped'
  BY <1>4 DEF CatInv, CasesTyped
<1> QED
  BY <1>1, <1>4, <1>5, FewerSound DEF Generated

LEMMA DeleteSound ==
    ASSUME CatInv, DeleteCase
    PROVE  CatInv'
<1>1. catBatch' = Blank
  BY DEF DeleteCase, UserActs
<1>2. PICK id \in DOMAIN catCases : catCases' = [catCases EXCEPT ![id] = Blank]
  BY DEF DeleteCase
<1>3. /\ DOMAIN catCases' = DOMAIN catCases /\ catCases'[id] = Blank
      /\ \A i \in DOMAIN catCases : i # id => catCases'[i] = catCases[i]
  BY <1>2
<1> QED
  BY <1>1, <1>3, FewerSound DEF CatInv, CasesTyped, Generated

LEMMA GenerationBegins ==
    ASSUME \/ GenerateInit \/ GenerateGrowth \/ GenerateExternal
           \/ GenerateFromIssues \/ GenerateFromRedmine \/ GenerateFromScratch
    PROVE  \E todo, count, force : BeginBatch(todo, count, force)
<1>1. GenerateInit \/ GenerateGrowth => \E todo, count, force : BeginBatch(todo, count, force)
  BY Zenon DEF GenerateInit, GenerateGrowth
<1>2. GenerateExternal => \E todo, count, force : BeginBatch(todo, count, force)
  BY Zenon DEF GenerateExternal
<1>3. \/ GenerateFromIssues \/ GenerateFromRedmine \/ GenerateFromScratch
      => \E todo, count, force : BeginBatch(todo, count, force)
  BY Zenon DEF GenerateFromIssues, GenerateFromRedmine, GenerateFromScratch, GenerateTickets
<1> QED
  BY <1>1, <1>2, <1>3

\* The contracts and what a command knows of them are in order after every step.
LEMMA CatInductive ==
    ASSUME CatInv, [CatNext]_catVars
    PROVE  CatInv'
<1>1. CASE \/ GenerateInit \/ GenerateGrowth \/ GenerateExternal
           \/ GenerateFromIssues \/ GenerateFromRedmine \/ GenerateFromScratch
  BY <1>1, GenerationBegins, BatchBegins
<1>2. CASE RaiseOn \/ FinishBatch \/ SetProfile
  BY <1>2, BatchEnds DEF RaiseOn, FinishBatch, SetProfile, UserActs
<1>3. CASE UNCHANGED catVars
  BY <1>3 DEF catVars, CatInv, CasesTyped, BatchTyped, RunsKnown, Readable, CatalogueSound
<1> QED
  BY <1>1, <1>2, <1>3, PassOverSound, WriteSound, DeathSound, EditSound, DeleteSound
     DEF CatNext

LEMMA CatBegins ==
    ASSUME CatInit
    PROVE  CatInv
<1>1. PICK stock \in CatStock :
         catCases = [id \in CatIds |-> IF id \in DOMAIN stock THEN stock[id] ELSE Blank]
  BY DEF CatInit
<1>2. \A id \in DOMAIN catCases : catCases[id] # Blank =>
         id \in DOMAIN stock /\ catCases[id] = stock[id]
  BY <1>1
<1>3. CasesTyped
  BY <1>2, StockAssumption DEF CasesTyped
<1>4. \A id \in Generated(catCases) : id \in Generated(stock) /\ catCases[id] = stock[id]
  BY <1>2 DEF Generated
<1>5. CatalogueSound
  BY <1>4, StockAssumption, FewerStaySound DEF CatalogueSound
<1> QED
  BY <1>3, <1>5 DEF CatInit, CatInv, BatchTyped, RunsKnown

\* Whatever seeds, dimensions, profiles and candidates, and from any stock that is in order:
\* generation, forced, killed or run again after edits and deletions, never leaves two
\* generated contracts that run the same command, nor a claim without an assertion
\* (generate_cases_init, generate_cases_growing).
THEOREM CatalogueStaysSound == CatSpec => []CatalogueSound
<1>1. CatInv => CatalogueSound
  BY DEF CatInv
<1> QED
  BY <1>1, CatBegins, CatInductive, PTL DEF CatSpec

-----------------------------------------------------------------------------
(* The execution of a case: the inductive invariant. *)

Verdicts == {"PASS", "FAIL", "BLOCK", "HOLD"}
Runs == [case : CommandCases \cup ProductCases, ready : Profiles, source : Sources,
         at : {"commands"} \cup ProductPhases, next : Nat \ {0},
         did : SUBSET {"blocked", "built", "operated", "browsed"},
         page : Verdicts, pid : BOOLEAN]

\* The commands before the next one were there and not risky.
CommandsSound(run) ==
    run.at = "commands" =>
        /\ run.case \in CommandCases /\ ~Refused(run.case, run.ready)
        /\ run.next <= Len(run.case.commands) + 1
        /\ \A i \in 1..Len(run.case.commands) : i < run.next => ~run.case.commands[i].risky

\* A product run was let in; nothing operated on a remote host.
ProductSound(run) ==
    run.at # "commands" =>
        /\ run.case \in ProductCases /\ run.case.enabled /\ run.ready # "UNREADY"
        /\ "operated" \in run.did => ~run.case.remote
        /\ "browsed" \in run.did => run.at = "verdict"
        /\ run.page = "PASS" => run.case.web = "semantic"
        /\ run.at = "build" => run.did = {}

\* What the stages that are over have established, unless one of them was blocked.
StagesSound(run) ==
    run.at # "commands" /\ "blocked" \notin run.did =>
        /\ run.at # "build" /\ BuildRequired(run.case) => "built" \in run.did
        /\ run.at = "operate" =>
              \A i \in 1..Len(run.case.ops) : i < run.next => run.case.ops[i]
        /\ run.at \notin {"build", "operate"} => \A i \in 1..Len(run.case.ops) : run.case.ops[i]

\* What the browser stages stand on.
BrowserSound(run) ==
    /\ run.at \notin {"commands", "build", "operate"} => run.case.web # "none"
    /\ run.at \in {"discover", "tunnel", "page", "cleanup", "verdict"} /\ run.case.remote
          => run.source = "VERIFIED"
    /\ run.at = "verdict" =>
          "browsed" \in run.did /\ run.case.web = "semantic" /\ "remote" \notin exHeld

RunSound(run) ==
    /\ run \in Runs /\ CommandsSound(run) /\ ProductSound(run) /\ StagesSound(run)
    /\ BrowserSound(run)

ExInv ==
    /\ exRun # Idle => RunSound(exRun)
    /\ PassEarned /\ RemoteServerEnded

-----------------------------------------------------------------------------
(* Ends of a run. *)

LEMMA TruthOfPass ==
    /\ \A case, status : CommandTruth(case, status) = "PASS" => status = "PASS" /\ Exhaustive(case)
    /\ \A status : ProductTruth(status) = "PASS" => status = "PASS"
  BY DEF CommandTruth, ProductTruth

\* A run that ends without a PASS keeps the invariant.
LEMMA EndsUnpassed ==
    ASSUME NEW run, NEW status, NEW truth, NEW left, Ends(run, status, truth, left),
           truth # "PASS"
    PROVE  ExInv'
  BY DEF Ends, ExInv, PassEarned, RemoteServerEnded

\* A run that ends with a PASS has to have earned it and to leave no remote server.
LEMMA EndsPassed ==
    ASSUME NEW run, NEW status, NEW truth, Ends(run, status, truth, {}),
           IF run.case.kind = "command"
           THEN CommandPassEarned([case |-> run.case, ready |-> run.ready,
                    source |-> run.source, status |-> status, truth |-> truth,
                    ran |-> run.next - 1, did |-> run.did, left |-> exHeld \cap {"child"}])
           ELSE ProductPassEarned([case |-> run.case, ready |-> run.ready,
                    source |-> run.source, status |-> status, truth |-> truth,
                    ran |-> run.next - 1, did |-> run.did, left |-> exHeld \cap {"child"}])
    PROVE  ExInv'
<1>1. exRun' = Idle
  BY DEF Ends
<1>2. PassEarned'
  BY DEF Ends, PassEarned
<1>3. RemoteServerEnded'
  BY DEF Ends, RemoteServerEnded
<1> QED
  BY <1>1, <1>2, <1>3 DEF ExInv

\* A step that writes no result only has to leave a sound run.
LEMMA RunGoesOn ==
    ASSUME ExInv, exResult' = exResult, exRun' # Idle => RunSound(exRun)'
    PROVE  ExInv'
  BY DEF ExInv, PassEarned, RemoteServerEnded

LEMMA ProductEndsUnpassed ==
    ASSUME NEW status, NEW left, ProductEnds(status, left), status # "PASS"
    PROVE  ExInv'
<1>1. ProductTruth(status) # "PASS"
  BY TruthOfPass
<1> QED
  BY <1>1, EndsUnpassed DEF ProductEnds

LEMMA CommandEndsUnpassed ==
    ASSUME NEW status, NEW left, CommandEnds(status, left), status # "PASS"
    PROVE  ExInv'
<1>1. CommandTruth(exRun.case, status) # "PASS"
  BY TruthOfPass
<1> QED
  BY <1>1, EndsUnpassed DEF CommandEnds

\* The end of run_product_tests, where the browser was not asked or has passed.
LEMMA ProductEndsFinally ==
    ASSUME ExInv, exRun # Idle, exRun.at \in {"operate", "verdict"},
           exRun.at = "operate" =>
               exRun.case.web = "none" /\ exRun.next \notin DOMAIN exRun.case.ops,
           ProductEnds(FinalStatus, {})
    PROVE  ExInv'
<1>1. RunSound(exRun)
  BY DEF ExInv
<1>2. CASE FinalStatus # "PASS"
  BY <1>2, ProductEndsUnpassed
<1>3. CASE FinalStatus = "PASS"
  <2>1. "blocked" \notin exRun.did /\ ("operated" \in exRun.did \/ "browsed" \in exRun.did)
    BY <1>3 DEF FinalStatus
  <2>2. /\ exRun.case \in ProductCases /\ exRun.case.kind = "product"
        /\ exRun.case.enabled /\ exRun.ready # "UNREADY"
    BY <1>1 DEF RunSound, ProductSound, ProductCases
  <2>3. BuildRequired(exRun.case) => "built" \in exRun.did
    BY <1>1, <2>1 DEF RunSound, StagesSound
  <2>4. exRun.case.ops \in Seq(BOOLEAN) /\ DOMAIN exRun.case.ops = 1..Len(exRun.case.ops)
    BY <2>2 DEF ProductCases
  <2>5. \A i \in DOMAIN exRun.case.ops : exRun.case.ops[i]
    <3>1. CASE exRun.at = "verdict"
      BY <1>1, <2>1, <2>4, <3>1 DEF RunSound, StagesSound
    <3>2. CASE exRun.at = "operate"
      <4>1. exRun.next \in Nat \ {0} /\ Len(exRun.case.ops) \in Nat
        BY <1>1, <2>4 DEF RunSound, Runs
      <4>2. \A i \in 1..Len(exRun.case.ops) : i < exRun.next
        BY <2>4, <3>2, <4>1
      <4> QED
        BY <1>1, <2>1, <2>4, <3>2, <4>2 DEF RunSound, StagesSound
    <3> QED
      BY <3>1, <3>2
  <2>6. exRun.case.web # "none" => "browsed" \in exRun.did /\ exRun.case.web = "semantic"
    BY <1>1 DEF RunSound, BrowserSound
  <2>7. exRun.case.remote => exRun.source = "VERIFIED"
    BY <1>1, <2>1 DEF RunSound, ProductSound, BrowserSound
  <2>8. Ends(exRun, "PASS", ProductTruth("PASS"), {})
    BY <1>3 DEF ProductEnds
  <2> QED
    BY <2>2, <2>3, <2>5, <2>6, <2>7, <2>8, EndsPassed DEF ProductPassEarned
<1> QED
  BY <1>2, <1>3

-----------------------------------------------------------------------------
(* Steps of a command case. *)

LEMMA BeginCommandsInv ==
    ASSUME ExInv, NEW case \in ExCases, NEW ready \in Profiles, NEW dry \in BOOLEAN,
           case.kind = "command",
           BeginCommands(NewRun(case, ready, "UNVERIFIED", "commands"), dry)
    PROVE  ExInv'
<1> DEFINE run == NewRun(case, ready, "UNVERIFIED", "commands")
<1>1. CASE Ends(run, "NOT_RUN", "NOT_RUN", {}) \/ Ends(run, "BLOCK", "BLOCK", {})
  BY <1>1, EndsUnpassed
<1>2. CASE ~Refused(run.case, run.ready) /\ exRun' = run /\ UNCHANGED <<exHeld, exResult>>
  <2>1. case \in CommandCases /\ case.commands \in Seq([risky : BOOLEAN, semantic : BOOLEAN])
    BY ExAssumption DEF CommandCases, ProductCases
  <2>2. /\ run.case = case /\ run.ready = ready /\ run.at = "commands" /\ run.next = 1
        /\ run \in Runs
    BY <2>1 DEF NewRun, Runs, Sources, Verdicts
  <2>3. CommandsSound(run)
    BY <1>2, <2>1, <2>2 DEF CommandsSound
  <2>4. RunSound(exRun)'
    BY <1>2, <2>2, <2>3 DEF RunSound, CommandsSound, ProductSound, StagesSound, BrowserSound
  <2> QED
    BY <1>2, <2>4, RunGoesOn
<1> QED
  BY <1>1, <1>2 DEF BeginCommands

LEMMA RunCommandInv ==
    ASSUME ExInv, RunCommand
    PROVE  ExInv'
<1> DEFINE command == exRun.case.commands[exRun.next]
<1>1. exRun # Idle /\ exRun.at = "commands" /\ exRun.next \in DOMAIN exRun.case.commands
  BY DEF RunCommand, At
<1>2. RunSound(exRun)
  BY <1>1 DEF ExInv
<1>3. /\ exRun.case.commands \in Seq([risky : BOOLEAN, semantic : BOOLEAN])
      /\ DOMAIN exRun.case.commands = 1..Len(exRun.case.commands)
      /\ Len(exRun.case.commands) \in Nat
  BY <1>1, <1>2 DEF RunSound, CommandsSound, CommandCases
<1>4. CASE /\ ~command.risky /\ exRun' = [exRun EXCEPT !.next = @ + 1]
           /\ UNCHANGED exResult
  <2>1. exRun \in Runs
    BY <1>2 DEF RunSound
  <2>2. /\ exRun' \in Runs /\ exRun'.next = exRun.next + 1 /\ exRun'.case = exRun.case
        /\ exRun'.ready = exRun.ready /\ exRun'.at = "commands"
    BY <1>1, <1>4, <2>1 DEF Runs
  <2>3. CommandsSound(exRun')
    BY <1>1, <1>2, <1>3, <1>4, <2>1, <2>2 DEF RunSound, CommandsSound, Runs
  <2>4. RunSound(exRun)'
    BY <2>2, <2>3 DEF RunSound, CommandsSound, ProductSound, StagesSound, BrowserSound
  <2> QED
    BY <1>4, <2>4, RunGoesOn
<1>5. CASE CommandEnds("BLOCK", {})
  BY <1>5, CommandEndsUnpassed
<1>6. CASE \E status \in {"FAIL", "BLOCK"}, left \in Outlives : CommandEnds(status, left)
  BY <1>6, CommandEndsUnpassed
<1> QED
  BY <1>4, <1>5, <1>6 DEF RunCommand

LEMMA FinishCommandsInv ==
    ASSUME ExInv, FinishCommands
    PROVE  ExInv'
<1>1. exRun # Idle /\ exRun.at = "commands" /\ exRun.next \notin DOMAIN exRun.case.commands
  BY DEF FinishCommands, At
<1>2. RunSound(exRun)
  BY <1>1 DEF ExInv
<1>3. PICK evidence \in BOOLEAN :
         CommandEnds(IF GateMet(exRun.case, evidence) THEN "PASS" ELSE "BLOCK", {})
  BY DEF FinishCommands
<1>4. CASE ~GateMet(exRun.case, evidence)
  BY <1>3, <1>4, CommandEndsUnpassed
<1>5. CASE GateMet(exRun.case, evidence)
  <2>1. Ends(exRun, "PASS", CommandTruth(exRun.case, "PASS"), {})
    BY <1>3, <1>5 DEF CommandEnds
  <2>2. CASE ~Exhaustive(exRun.case)
    BY <2>1, <2>2, EndsUnpassed DEF CommandTruth
  <2>3. CASE Exhaustive(exRun.case)
    <3>1. /\ exRun.case \in CommandCases /\ exRun.case.kind = "command"
          /\ ~Refused(exRun.case, exRun.ready)
      BY <1>1, <1>2 DEF RunSound, CommandsSound, CommandCases
    <3>2. exRun.case.gate # "unmet"
      BY <1>5 DEF GateMet
    <3>3. /\ exRun.case.commands \in Seq([risky : BOOLEAN, semantic : BOOLEAN])
          /\ DOMAIN exRun.case.commands = 1..Len(exRun.case.commands)
          /\ Len(exRun.case.commands) \in Nat /\ exRun.next \in Nat \ {0}
      BY <1>2, <3>1 DEF RunSound, CommandCases, Runs
    <3>4. exRun.next = Len(exRun.case.commands) + 1
      BY <1>1, <1>2, <3>3 DEF RunSound, CommandsSound
    <3>5. exRun.next - 1 = Len(exRun.case.commands)
      BY <3>3, <3>4
    <3>6. \A i \in DOMAIN exRun.case.commands : ~exRun.case.commands[i].risky
      BY <1>1, <1>2, <3>3, <3>4 DEF RunSound, CommandsSound
    <3> QED
      BY <2>1, <2>3, <3>1, <3>2, <3>5, <3>6, EndsPassed DEF CommandPassEarned
  <2> QED
    BY <2>2, <2>3
<1> QED
  BY <1>4, <1>5

-----------------------------------------------------------------------------
(* Steps of a product case. *)

\* The run goes to the n-th step of a phase, having done what is said.
MovedTo(phase, n, done) == exRun' = [exRun EXCEPT !.at = phase, !.next = n, !.did = done]

\* A run that moves on keeps its type and the fields that are not named.
LEMMA RunMoves ==
    ASSUME exRun \in Runs, NEW phase \in {"commands"} \cup ProductPhases,
           NEW n \in Nat \ {0}, NEW done \in SUBSET {"blocked", "built", "operated", "browsed"},
           MovedTo(phase, n, done)
    PROVE  /\ exRun' \in Runs /\ exRun'.case = exRun.case /\ exRun'.ready = exRun.ready
           /\ exRun'.at = phase /\ exRun'.next = n /\ exRun'.did = done
           /\ exRun'.page = exRun.page /\ exRun'.source = exRun.source
  BY DEF Runs, MovedTo

LEMMA MovesOn ==
    ASSUME exRun \in Runs, NEW phase \in ProductPhases, Moves(phase)
    PROVE  /\ exRun' \in Runs /\ exRun'.case = exRun.case /\ exRun'.ready = exRun.ready
           /\ exRun'.source = exRun.source /\ exRun'.did = exRun.did
           /\ exRun'.at = phase /\ exRun'.page = exRun.page
<1>1. MovedTo(phase, 1, exRun.did)
  BY DEF Moves, MovedTo, Runs
<1>2. 1 \in Nat \ {0} /\ exRun.did \in SUBSET {"blocked", "built", "operated", "browsed"}
  BY DEF Runs
<1> QED
  BY <1>1, <1>2, RunMoves

LEMMA CompletedProduct ==
    ASSUME NEW case \in ProductCases
    PROVE  Completed(case) \in ProductCases /\ Completed(case).enabled = case.enabled
<1>1. <<FALSE>> \in Seq(BOOLEAN)
  OBVIOUS
<1>2. CASE ~Short(case) \/ case.readme # "allowed"
  BY <1>2 DEF Completed
<1>3. CASE ~(~Short(case) \/ case.readme # "allowed")
  <2>1. Completed(case) =
           [case EXCEPT !.builds = IF BuildRequired(case) /\ case.builds = 0 THEN 1 ELSE case.builds,
                        !.ops = IF case.ops = <<>> THEN <<FALSE>> ELSE case.ops]
    BY <1>3 DEF Completed
  <2>2. (IF BuildRequired(case) /\ case.builds = 0 THEN 1 ELSE case.builds) \in Nat
    BY DEF ProductCases
  <2>3. (IF case.ops = <<>> THEN <<FALSE>> ELSE case.ops) \in Seq(BOOLEAN)
    BY <1>1 DEF ProductCases
  <2> QED
    BY <2>1, <2>2, <2>3 DEF ProductCases
<1> QED
  BY <1>2, <1>3

LEMMA BeginProductInv ==
    ASSUME ExInv, NEW case \in ExCases, NEW ready \in Profiles, NEW source \in Sources,
           NEW dry \in BOOLEAN, case.kind = "product",
           BeginProduct(NewRun(case, ready, source, "build"), dry)
    PROVE  ExInv'
<1> DEFINE run == NewRun(case, ready, source, "build")
<1>1. case \in ProductCases
  BY ExAssumption DEF CommandCases, ProductCases
<1>2. /\ run.case = case /\ run.ready = ready /\ run.at = "build" /\ run.did = {}
      /\ run.page = "BLOCK" /\ run \in Runs
  BY <1>1 DEF NewRun, Runs, Verdicts, ProductPhases
<1>3. CASE Ends(run, "BLOCK", "BLOCK", {}) \/ Ends(run, "PLANNED", "HOLD", {})
  BY <1>3, EndsUnpassed
<1>4. CASE /\ PlanReady(run.case) /\ run.ready # "UNREADY"
           /\ exRun' = [run EXCEPT !.case = Completed(@)]
           /\ exResult' = exResult
  <2>1. Completed(case) \in ProductCases /\ Completed(case).enabled
    BY <1>1, <1>2, <1>4, CompletedProduct DEF PlanReady
  <2>2. /\ exRun' \in Runs /\ exRun'.case = Completed(case) /\ exRun'.ready = ready
        /\ exRun'.at = "build" /\ exRun'.did = {} /\ exRun'.page = "BLOCK"
    BY <1>2, <1>4, <2>1 DEF Runs
  <2>3. RunSound(exRun)'
    BY <1>2, <1>4, <2>1, <2>2
       DEF RunSound, CommandsSound, ProductSound, StagesSound, BrowserSound
  <2> QED
    BY <1>4, <2>3, RunGoesOn
<1> QED
  BY <1>3, <1>4 DEF BeginProduct

LEMMA BuildStepInv ==
    ASSUME ExInv, BuildStep
    PROVE  ExInv'
<1>1. exRun # Idle /\ exRun.at = "build" /\ RunSound(exRun) /\ exRun \in Runs
  BY DEF BuildStep, At, ExInv, RunSound
<1>2. CASE /\ exRun.case.remote
           /\ exRun' = [exRun EXCEPT !.at = "operate", !.next = 1, !.did = Did("blocked")]
           /\ UNCHANGED <<exHeld, exResult>>
  <2>1. /\ exRun' \in Runs /\ exRun'.case = exRun.case /\ exRun'.ready = exRun.ready
        /\ exRun'.at = "operate" /\ exRun'.did = {"blocked"} /\ exRun'.page = exRun.page
    <3>1. Did("blocked") = {"blocked"} /\ 1 \in Nat \ {0} /\ "operate" \in ProductPhases
      BY <1>1 DEF RunSound, ProductSound, Did, ProductPhases
    <3>2. MovedTo("operate", 1, {"blocked"})
      BY <1>2, <3>1 DEF MovedTo
    <3> QED
      BY <1>1, <3>1, <3>2, RunMoves
  <2>2. RunSound(exRun)'
    BY <1>1, <2>1 DEF RunSound, CommandsSound, ProductSound, StagesSound, BrowserSound
  <2> QED
    BY <1>2, <2>2, RunGoesOn
<1>3. CASE exRun' = [exRun EXCEPT !.next = @ + 1] /\ UNCHANGED exResult
  <2>1. /\ exRun' \in Runs /\ exRun'.case = exRun.case /\ exRun'.ready = exRun.ready
        /\ exRun'.at = "build" /\ exRun'.did = exRun.did /\ exRun'.page = exRun.page
    BY <1>1, <1>3 DEF Runs
  <2>2. RunSound(exRun)'
    BY <1>1, <2>1 DEF RunSound, CommandsSound, ProductSound, StagesSound, BrowserSound
  <2> QED
    BY <1>3, <2>2, RunGoesOn
<1>4. CASE \E status \in {"FAIL", "BLOCK"}, left \in Outlives : ProductEnds(status, left)
  BY <1>4, ProductEndsUnpassed
<1> QED
  BY <1>2, <1>3, <1>4 DEF BuildStep

LEMMA VerifyArtifactInv ==
    ASSUME ExInv, VerifyArtifact
    PROVE  ExInv'
<1>1. exRun # Idle /\ exRun.at = "build" /\ RunSound(exRun) /\ exRun \in Runs
  BY DEF VerifyArtifact, At, ExInv, RunSound
<1>2. CASE /\ exRun' = [exRun EXCEPT !.at = "operate", !.next = 1,
                                     !.did = IF BuildRequired(exRun.case) THEN Did("built")
                                             ELSE @]
           /\ UNCHANGED <<exHeld, exResult>>
  <2>1. exRun.did = {}
    BY <1>1 DEF RunSound, ProductSound
  <2>2. /\ exRun' \in Runs /\ exRun'.case = exRun.case /\ exRun'.ready = exRun.ready
        /\ exRun'.at = "operate" /\ exRun'.page = exRun.page /\ exRun'.next = 1
        /\ exRun'.did = IF BuildRequired(exRun.case) THEN {"built"} ELSE {}
    <3>1. PICK done \in SUBSET {"blocked", "built", "operated", "browsed"} :
             done = IF BuildRequired(exRun.case) THEN {"built"} ELSE {}
      OBVIOUS
    <3>2. MovedTo("operate", 1, done)
      BY <1>2, <2>1, <3>1 DEF Did, MovedTo
    <3>3. 1 \in Nat \ {0} /\ "operate" \in ProductPhases
      BY DEF ProductPhases
    <3> QED
      BY <1>1, <3>1, <3>2, <3>3, RunMoves
  <2>3. exRun.case.ops \in Seq(BOOLEAN)
    BY <1>1 DEF RunSound, ProductSound, ProductCases
  <2>4. StagesSound(exRun')
    BY <2>2, <2>3 DEF StagesSound
  <2>5. RunSound(exRun)'
    BY <1>1, <2>2, <2>4 DEF RunSound, CommandsSound, ProductSound, BrowserSound
  <2> QED
    BY <1>2, <2>5, RunGoesOn
<1>3. CASE ProductEnds("BLOCK", {})
  BY <1>3, ProductEndsUnpassed
<1> QED
  BY <1>2, <1>3 DEF VerifyArtifact

LEMMA OperateStepInv ==
    ASSUME ExInv, OperateStep
    PROVE  ExInv'
<1>1. /\ exRun # Idle /\ exRun.at = "operate" /\ RunSound(exRun) /\ exRun \in Runs
      /\ exRun.next \in DOMAIN exRun.case.ops
  BY DEF OperateStep, At, ExInv, RunSound
<1>2. CASE /\ exRun.case.remote
           /\ exRun' = [exRun EXCEPT !.next = @ + 1, !.did = Did("blocked")]
           /\ UNCHANGED <<exHeld, exResult>>
  <2>1. /\ exRun' \in Runs /\ exRun'.case = exRun.case /\ exRun'.ready = exRun.ready
        /\ exRun'.at = "operate" /\ exRun'.page = exRun.page
        /\ exRun'.did = exRun.did \cup {"blocked"}
    <3>1. /\ Did("blocked") = exRun.did \cup {"blocked"}
          /\ Did("blocked") \in SUBSET {"blocked", "built", "operated", "browsed"}
      BY <1>1 DEF Did, Runs
    <3>2. PICK n \in Nat \ {0} : n = exRun.next + 1
      BY <1>1 DEF Runs
    <3>3. exRun' = [exRun EXCEPT !.next = n, !.did = Did("blocked")]
      BY <1>2, <3>2
    <3>4. MovedTo("operate", n, Did("blocked"))
      BY <1>1, <3>3 DEF MovedTo, Runs
    <3> QED
      BY <1>1, <3>1, <3>2, <3>4, RunMoves DEF ProductPhases
  <2>2. RunSound(exRun)'
    BY <1>1, <2>1 DEF RunSound, CommandsSound, ProductSound, StagesSound, BrowserSound
  <2> QED
    BY <1>2, <2>2, RunGoesOn
<1>3. CASE /\ ~exRun.case.remote /\ exRun.case.ops[exRun.next]
           /\ exRun' = [exRun EXCEPT !.next = @ + 1, !.did = Did("operated")]
           /\ UNCHANGED exResult
  <2>1. /\ exRun' \in Runs /\ exRun'.case = exRun.case /\ exRun'.ready = exRun.ready
        /\ exRun'.at = "operate" /\ exRun'.page = exRun.page /\ exRun'.next = exRun.next + 1
        /\ exRun'.did = exRun.did \cup {"operated"}
    <3>1. /\ Did("operated") = exRun.did \cup {"operated"}
          /\ Did("operated") \in SUBSET {"blocked", "built", "operated", "browsed"}
      BY <1>1 DEF Did, Runs
    <3>2. PICK n \in Nat \ {0} : n = exRun.next + 1
      BY <1>1 DEF Runs
    <3>3. exRun' = [exRun EXCEPT !.next = n, !.did = Did("operated")]
      BY <1>3, <3>2
    <3>4. MovedTo("operate", n, Did("operated"))
      BY <1>1, <3>3 DEF MovedTo, Runs
    <3> QED
      BY <1>1, <3>1, <3>2, <3>4, RunMoves DEF ProductPhases
  <2>2. /\ exRun.case.ops \in Seq(BOOLEAN) /\ Len(exRun.case.ops) \in Nat
        /\ exRun.next \in Nat
    BY <1>1 DEF RunSound, ProductSound, ProductCases, Runs
  <2>3. \A i \in 1..Len(exRun.case.ops) : i < exRun.next + 1 <=> i < exRun.next \/ i = exRun.next
    BY <2>2
  <2>4. StagesSound(exRun')
    BY <1>1, <1>3, <2>1, <2>3 DEF RunSound, StagesSound
  <2>5. RunSound(exRun)'
    BY <1>1, <1>3, <2>1, <2>4 DEF RunSound, CommandsSound, ProductSound, BrowserSound
  <2> QED
    BY <1>3, <2>5, RunGoesOn
<1>4. CASE \E status \in {"HOLD", "FAIL", "BLOCK"}, left \in Outlives :
              ProductEnds(status, left)
  BY <1>4, ProductEndsUnpassed
<1> QED
  BY <1>2, <1>3, <1>4 DEF OperateStep

LEMMA FinishOperationsInv ==
    ASSUME ExInv, FinishOperations
    PROVE  ExInv'
<1>1. /\ exRun # Idle /\ exRun.at = "operate" /\ RunSound(exRun) /\ exRun \in Runs
      /\ exRun.next \notin DOMAIN exRun.case.ops
  BY DEF FinishOperations, At, ExInv, RunSound
<1>2. CASE exRun.case.web = "none" /\ ProductEnds(FinalStatus, {})
  BY <1>1, <1>2, ProductEndsFinally
<1>3. CASE exRun.case.web # "none" /\ Moves("browser") /\ UNCHANGED <<exHeld, exResult>>
  <2>1. /\ exRun' \in Runs /\ exRun'.case = exRun.case /\ exRun'.ready = exRun.ready
        /\ exRun'.at = "browser" /\ exRun'.page = exRun.page /\ exRun'.did = exRun.did
    BY <1>1, <1>3, MovesOn DEF ProductPhases
  <2>2. /\ exRun.case.ops \in Seq(BOOLEAN) /\ Len(exRun.case.ops) \in Nat
        /\ DOMAIN exRun.case.ops = 1..Len(exRun.case.ops) /\ exRun.next \in Nat \ {0}
    BY <1>1 DEF RunSound, ProductSound, ProductCases, Runs
  <2>3. \A i \in 1..Len(exRun.case.ops) : i < exRun.next
    BY <1>1, <2>2
  <2>4. StagesSound(exRun')
    BY <1>1, <2>1, <2>3 DEF RunSound, StagesSound
  <2>5. RunSound(exRun)'
    BY <1>1, <1>3, <2>1, <2>4 DEF RunSound, CommandsSound, ProductSound, BrowserSound
  <2> QED
    BY <1>3, <2>5, RunGoesOn
<1> QED
  BY <1>2, <1>3 DEF FinishOperations

-----------------------------------------------------------------------------
(* Steps of the browser. *)

BrowserPhases == {"browser", "discover", "tunnel", "page", "cleanup"}

\* From one browser stage to another, with the same case and what was done.
LEMMA BrowserGoesOn ==
    ASSUME ExInv, exRun # Idle, exRun.at \in BrowserPhases,
           exRun' \in Runs, exRun'.case = exRun.case, exRun'.ready = exRun.ready,
           exRun'.source = exRun.source, exRun'.did = exRun.did,
           exRun'.at \in BrowserPhases \ {"browser"},
           exRun'.page = "PASS" => exRun.case.web = "semantic",
           exRun.at = "browser" /\ exRun.case.remote => exRun.source = "VERIFIED",
           exResult' = exResult
    PROVE  ExInv'
<1>1. RunSound(exRun)
  BY DEF ExInv
<1>2. CommandsSound(exRun') /\ ProductSound(exRun')
  BY <1>1 DEF RunSound, CommandsSound, ProductSound, BrowserPhases
<1>3. StagesSound(exRun')
  BY <1>1 DEF RunSound, StagesSound, BrowserPhases
<1>4. BrowserSound(exRun)'
  BY <1>1 DEF RunSound, BrowserSound, BrowserPhases
<1>5. RunSound(exRun)'
  BY <1>2, <1>3, <1>4 DEF RunSound, CommandsSound, ProductSound, StagesSound
<1> QED
  BY <1>5, RunGoesOn

LEMMA PageTyped ==
    ASSUME ExInv, exRun # Idle
    PROVE  /\ exRun \in Runs
           /\ exRun.at # "commands" /\ exRun.page = "PASS" => exRun.case.web = "semantic"
  BY DEF ExInv, RunSound, ProductSound

LEMMA ServersInv ==
    ASSUME ExInv, StartServer \/ StartRemote \/ OpenTunnel
    PROVE  ExInv'
<1>1. /\ exRun # Idle /\ exRun.at \in {"browser", "tunnel"}
      /\ exRun \in Runs /\ (exRun.page = "PASS" => exRun.case.web = "semantic")
  BY PageTyped DEF StartServer, StartRemote, OpenTunnel, At
<1>2. CASE \E left : ProductEnds("BLOCK", left)
  BY <1>2, ProductEndsUnpassed
<1>3. CASE /\ Moves("page") \/ Moves("discover") \/ Moves("cleanup")
           /\ exRun.at = "browser" /\ exRun.case.remote => exRun.source = "VERIFIED"
           /\ exResult' = exResult
  <2>1. /\ exRun' \in Runs /\ exRun'.case = exRun.case /\ exRun'.ready = exRun.ready
        /\ exRun'.source = exRun.source /\ exRun'.did = exRun.did
        /\ exRun'.at \in {"page", "discover", "cleanup"} /\ exRun'.page = exRun.page
    BY <1>1, <1>3, MovesOn DEF ProductPhases
  <2> QED
    BY <1>1, <1>3, <2>1, BrowserGoesOn DEF BrowserPhases
<1> QED
  BY <1>1, <1>2, <1>3 DEF StartServer, StartRemote, OpenTunnel, At

LEMMA DiscoverInv ==
    ASSUME ExInv, Discover
    PROVE  ExInv'
<1>1. /\ exRun # Idle /\ exRun.at = "discover"
      /\ exRun \in Runs /\ (exRun.page = "PASS" => exRun.case.web = "semantic")
  BY PageTyped DEF Discover, At
<1>2. PICK pid \in BOOLEAN, address \in BOOLEAN, gone \in BOOLEAN :
         exRun' = [exRun EXCEPT !.pid = exRun.pid \/ pid,
                                !.at = IF address THEN "tunnel"
                                       ELSE IF gone THEN "cleanup" ELSE exRun.at]
  BY DEF Discover
<1>3. (exRun.pid \/ pid) \in BOOLEAN
  BY <1>1 DEF Runs
<1>4. /\ exRun' \in Runs /\ exRun'.case = exRun.case /\ exRun'.ready = exRun.ready
      /\ exRun'.source = exRun.source /\ exRun'.did = exRun.did
      /\ exRun'.at \in {"tunnel", "cleanup", "discover"} /\ exRun'.page = exRun.page
  <2>1. PICK phase \in {"tunnel", "cleanup", "discover"} :
           phase = IF address THEN "tunnel" ELSE IF gone THEN "cleanup" ELSE exRun.at
    BY <1>1
  <2>2. PICK seen \in BOOLEAN : seen = (exRun.pid \/ pid)
    BY <1>3
  <2>3. exRun' = [exRun EXCEPT !.pid = seen, !.at = phase]
    BY <1>2, <2>1, <2>2
  <2> QED
    BY <1>1, <2>3 DEF Runs, ProductPhases
<1>5. exResult' = exResult
  BY DEF Discover
<1> QED
  BY <1>1, <1>4, <1>5, BrowserGoesOn DEF BrowserPhases

\* The browser's verdict ends the run or, a pass, leaves a case with a semantic flow.
LEMMA BrowserEndsInv ==
    ASSUME ExInv, exRun # Idle, exRun.at \in {"page", "cleanup"}, NEW verdict, NEW left,
           verdict = "PASS" => exRun.case.web = "semantic" /\ "remote" \notin left,
           BrowserEnds(verdict, left)
    PROVE  ExInv'
<1>1. CASE verdict # "PASS"
  BY <1>1, ProductEndsUnpassed DEF BrowserEnds
<1>2. CASE verdict = "PASS"
  <2>1. /\ exRun' = [exRun EXCEPT !.at = "verdict", !.did = Did("browsed")]
        /\ "remote" \notin exHeld' /\ exResult' = exResult
    BY <1>2 DEF BrowserEnds
  <2>2. RunSound(exRun) /\ exRun \in Runs
    BY DEF ExInv, RunSound
  <2>3. /\ exRun' \in Runs /\ exRun'.case = exRun.case /\ exRun'.ready = exRun.ready
        /\ exRun'.source = exRun.source /\ exRun'.at = "verdict"
        /\ exRun'.did = exRun.did \cup {"browsed"} /\ exRun'.page = exRun.page
    BY <2>1, <2>2 DEF Runs, Did, ProductPhases
  <2>4. CommandsSound(exRun') /\ ProductSound(exRun')
    BY <2>2, <2>3 DEF RunSound, CommandsSound, ProductSound
  <2>5. StagesSound(exRun')
    BY <2>2, <2>3 DEF RunSound, StagesSound
  <2>6. BrowserSound(exRun)'
    BY <1>2, <2>1, <2>2, <2>3 DEF RunSound, BrowserSound
  <2>7. RunSound(exRun)'
    BY <2>3, <2>4, <2>5, <2>6 DEF RunSound, CommandsSound, ProductSound, StagesSound
  <2> QED
    BY <2>1, <2>7, RunGoesOn
<1> QED
  BY <1>1, <1>2

LEMMA WalkPageInv ==
    ASSUME ExInv, WalkPage
    PROVE  ExInv'
<1>1. exRun # Idle /\ exRun.at = "page" /\ exRun \in Runs
  BY PageTyped DEF WalkPage, At
<1>2. PICK verdict \in PageVerdicts(exRun.case) :
         IF exRun.case.remote
         THEN /\ exRun' = [exRun EXCEPT !.at = "cleanup", !.page = verdict]
              /\ UNCHANGED <<exHeld, exResult>>
         ELSE \E left \in Outlives : BrowserEnds(verdict, left)
  BY DEF WalkPage
<1>3. verdict \in Verdicts /\ (verdict = "PASS" => exRun.case.web = "semantic")
  BY DEF PageVerdicts, Verdicts
<1>4. CASE exRun.case.remote
  <2>1. /\ exRun' = [exRun EXCEPT !.at = "cleanup", !.page = verdict]
        /\ exResult' = exResult
    BY <1>2, <1>4
  <2>2. /\ exRun' \in Runs /\ exRun'.case = exRun.case /\ exRun'.ready = exRun.ready
        /\ exRun'.source = exRun.source /\ exRun'.did = exRun.did
        /\ exRun'.at = "cleanup" /\ exRun'.page = verdict /\ exResult' = exResult
    BY <1>1, <1>3, <2>1 DEF Runs, ProductPhases
  <2> QED
    BY <1>1, <1>3, <2>2, BrowserGoesOn DEF BrowserPhases
<1>5. CASE ~exRun.case.remote
  <2>1. PICK left \in Outlives : BrowserEnds(verdict, left)
    BY <1>2, <1>5
  <2>2. "remote" \notin left
    BY DEF Outlives
  <2> QED
    BY <1>1, <1>3, <2>1, <2>2, BrowserEndsInv
<1> QED
  BY <1>4, <1>5

LEMMA CleanRemoteInv ==
    ASSUME ExInv, CleanRemote
    PROVE  ExInv'
<1>1. /\ exRun # Idle /\ exRun.at = "cleanup"
      /\ (exRun.page = "PASS" => exRun.case.web = "semantic")
  BY PageTyped DEF CleanRemote, At
<1>2. PICK cleanup \in CleanupsFor(exRun.pid) :
         BrowserEnds(VerdictAfter(exRun.page, cleanup),
                     IF cleanup.over THEN {} ELSE {"remote"})
  BY DEF CleanRemote
<1>3. cleanup.status = "PASS" => cleanup.over = TRUE
  BY DEF CleanupsFor, Cleanups
<1>4. VerdictAfter(exRun.page, cleanup) = "PASS" => exRun.page = "PASS" /\ cleanup.over = TRUE
  BY <1>3 DEF VerdictAfter
<1> QED
  BY <1>1, <1>2, <1>4, BrowserEndsInv

LEMMA FinishProductInv ==
    ASSUME ExInv, FinishProduct
    PROVE  ExInv'
<1>1. exRun # Idle /\ exRun.at = "verdict" /\ ProductEnds(FinalStatus, exHeld \cap {"remote"})
  BY DEF FinishProduct, At
<1>2. exHeld \cap {"remote"} = {}
  BY <1>1 DEF ExInv, RunSound, BrowserSound
<1> QED
  BY <1>1, <1>2, ProductEndsFinally

-----------------------------------------------------------------------------

LEMMA BeginInv ==
    ASSUME ExInv, ExBegin
    PROVE  ExInv'
<1>1. PICK case \in ExCases, ready \in Profiles, dry \in BOOLEAN :
         \/ /\ case.kind = "command"
            /\ BeginCommands(NewRun(case, ready, "UNVERIFIED", "commands"), dry)
         \/ /\ case.kind = "product"
            /\ \E source \in IF case.remote THEN Sources ELSE {"UNVERIFIED"} :
                  BeginProduct(NewRun(case, ready, source, "build"), dry)
  BY DEF ExBegin
<1>2. CASE /\ case.kind = "command"
           /\ BeginCommands(NewRun(case, ready, "UNVERIFIED", "commands"), dry)
  BY <1>2, BeginCommandsInv
<1>3. CASE /\ case.kind = "product"
           /\ \E source \in IF case.remote THEN Sources ELSE {"UNVERIFIED"} :
                 BeginProduct(NewRun(case, ready, source, "build"), dry)
  <2>1. PICK source \in Sources : BeginProduct(NewRun(case, ready, source, "build"), dry)
    BY <1>3 DEF Sources
  <2> QED
    BY <1>3, <2>1, BeginProductInv
<1> QED
  BY <1>1, <1>2, <1>3

LEMMA Step == ExInv /\ [ExNext]_exVars => ExInv'
<1> SUFFICES ASSUME ExInv, [ExNext]_exVars PROVE ExInv'
  OBVIOUS
<1>1. CASE Interrupt
  BY <1>1, ProductEndsUnpassed DEF Interrupt
<1>2. CASE ExDies
  BY <1>2 DEF ExDies, ExInv, PassEarned, RemoteServerEnded
<1>3. CASE UNCHANGED exVars
  BY <1>3 DEF exVars, ExInv, PassEarned, RemoteServerEnded, RunSound, CommandsSound,
     ProductSound, StagesSound, BrowserSound
<1> QED
  BY <1>1, <1>2, <1>3, BeginInv, RunCommandInv, FinishCommandsInv, BuildStepInv,
     VerifyArtifactInv, OperateStepInv, FinishOperationsInv, ServersInv, DiscoverInv,
     WalkPageInv, CleanRemoteInv, FinishProductInv DEF ExNext

\* The invariant of a run: what the stages that are over have established, whichever
\* case is run, interrupted or killed.
THEOREM ExInvariance == ExSpec => []ExInv
<1>1. ExInit => ExInv
  BY DEF ExInit, ExInv, PassEarned, RemoteServerEnded
<1> QED
  BY <1>1, Step, PTL DEF ExSpec

\* A result whose truth is PASS has been earned by every stage the case asks for
\* (runner.run_case, run_product_tests): commands, oracles, build, operations, page.
THEOREM PassesEarned == ExSpec => []PassEarned
<1>1. ExInv => PassEarned
  BY DEF ExInv
<1> QED
  BY <1>1, ExInvariance, PTL

\* A case that passes leaves no server behind on the remote host, whatever came of its
\* cleanup and however late its process id was seen (run_remote_browser_test).
THEOREM PassesEndRemoteServer == ExSpec => []RemoteServerEnded
<1>1. ExInv => RemoteServerEnded
  BY DEF ExInv
<1> QED
  BY <1>1, ExInvariance, PTL
=============================================================================
