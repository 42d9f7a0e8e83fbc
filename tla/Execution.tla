------------------------------ MODULE Execution ------------------------------
(***************************************************************************)
(* How one case is executed: the shell commands of a command case          *)
(* (runner.py), and the build, the operations and the browser flow of a    *)
(* product case (product_case_adapter.py, product_testing.py,              *)
(* browser_adapter.py, remote_browser_adapter.py).                         *)
(*                                                                         *)
(* The outcome of a process is chosen freely.  A case says what it asks    *)
(* for: an operation is TRUE when it has a semantic assertion.             *)
(***************************************************************************)
EXTENDS Integers, Sequences

CONSTANTS Idle,      \* no run, no result
          ExCases,   \* the cases
          ExRuns     \* bound: cases run

CommandCases ==
    [kind : {"command"}, review : BOOLEAN, prepared : BOOLEAN, partial : BOOLEAN,
     gate : {"off", "met", "evidence", "unmet"},
     commands : Seq([risky : BOOLEAN, semantic : BOOLEAN])]

ProductCases ==
    [kind : {"product"}, enabled : BOOLEAN, remote : BOOLEAN, build : {"default", "on", "off"},
     builds : Nat, artifact : BOOLEAN, ops : Seq(BOOLEAN),
     web : {"none", "probe", "semantic"}, readme : {"allowed", "refused"}, unsafe : BOOLEAN]

ASSUME ExAssumption ==
    ExRuns \in Nat /\ Idle \notin ExCases /\ ExCases \subseteq CommandCases \cup ProductCases

VARIABLES
    exRun,      \* Idle or the run: [case, ready, source, at, next, did, page, pid]
    exHeld,     \* what the run has made: sandbox, server, tunnel, remote, child (a process
                \* that a command or a server has left in the background)
    exResult,   \* Idle or the last result: [case, ready, source, status, truth, ran, did,
                \* left], left being what goes on after the run
    exLeft      \* what is left of ExRuns

exVars == <<exRun, exHeld, exResult, exLeft>>

Profiles == {"NONE", "READY", "UNREADY"}
Sources == {"VERIFIED", "MISMATCH", "DIRTY", "UNVERIFIED"}

ExInit == exRun = Idle /\ exHeld = {} /\ exResult = Idle /\ exLeft = ExRuns

NewRun(case, ready, source, at) ==
    [case |-> case, ready |-> ready, source |-> source, at |-> at, next |-> 1, did |-> {},
     page |-> "BLOCK", pid |-> FALSE]

\* A command has no process group and nobody looks for what it has started; a
\* server has one, which is ended only while the server itself is still there.
Outlives == {{}, {"child"}}

\* The run ends and writes its result; the sandbox goes in any case, and no child does.
Ends(run, status, truth, left) ==
    /\ exRun' = Idle
    /\ exHeld' = {}
    /\ exResult' = [case |-> run.case, ready |-> run.ready, source |-> run.source,
                    status |-> status, truth |-> truth, ran |-> run.next - 1,
                    did |-> run.did, left |-> left \cup (exHeld \cap {"child"})]

At(phase) == exRun # Idle /\ exRun.at = phase
Moves(phase) == exRun' = [exRun EXCEPT !.at = phase, !.next = 1]
Did(what) == exRun.did \cup {what}

-----------------------------------------------------------------------------
(* Command cases. *)

Exhaustive(case) == ~case.partial /\ \A i \in DOMAIN case.commands : case.commands[i].semantic

\* The truth of a case whose oracle is partial is HOLD, whatever its commands did.
CommandTruth(case, status) == IF Exhaustive(case) THEN status ELSE "HOLD"

\* Before anything runs: a contract under review, or one that needs an environment
\* whose profile is there and not ready.
Refused(case, ready) == case.review \/ (case.prepared /\ ready = "UNREADY")

BeginCommands(run, dry) ==
    \/ dry /\ Ends(run, "NOT_RUN", "NOT_RUN", {})
    \/ ~dry /\ Refused(run.case, run.ready) /\ Ends(run, "BLOCK", "BLOCK", {})
    \/ /\ ~dry /\ ~Refused(run.case, run.ready)
       /\ exRun' = run
       /\ UNCHANGED <<exHeld, exResult>>

CommandEnds(status, left) == Ends(exRun, status, CommandTruth(exRun.case, status), left)

\* The first command that does not pass ends the case.
RunCommand ==
    /\ At("commands") /\ exRun.next \in DOMAIN exRun.case.commands
    /\ LET command == exRun.case.commands[exRun.next] IN
        \/ /\ ~command.risky
           /\ exRun' = [exRun EXCEPT !.next = @ + 1]
           /\ \E left \in Outlives : exHeld' = exHeld \cup left
           /\ UNCHANGED exResult
        \/ command.risky /\ CommandEnds("BLOCK", {})
        \/ /\ ~command.risky
           /\ \E status \in {"FAIL", "BLOCK"}, left \in Outlives : CommandEnds(status, left)
    /\ UNCHANGED exLeft

\* evaluate_swqa_gate: the dimensions the contract lists, and evidence in the results.
GateMet(case, evidence) ==
    case.gate \in {"off", "met"} \/ (case.gate = "evidence" /\ evidence)

FinishCommands ==
    /\ At("commands") /\ exRun.next \notin DOMAIN exRun.case.commands
    /\ \E evidence \in BOOLEAN :
          CommandEnds(IF GateMet(exRun.case, evidence) THEN "PASS" ELSE "BLOCK", {})
    /\ UNCHANGED exLeft

-----------------------------------------------------------------------------
(* Product cases: the plan. *)

BrowserOnly(case) ==
    case.web # "none" /\ case.remote /\ case.builds = 0 /\ ~case.artifact

BuildRequired(case) ==
    IF case.build = "default" THEN ~BrowserOnly(case) ELSE case.build = "on"

Short(case) ==
    \/ BuildRequired(case) /\ case.builds = 0
    \/ case.ops = <<>> /\ case.web = "none"

\* README commands replace what is missing when they are allowed, one by one; the
\* operations they give are probes.
Completed(case) ==
    IF ~Short(case) \/ case.readme # "allowed" THEN case
    ELSE [case EXCEPT !.builds = IF BuildRequired(case) /\ @ = 0 THEN 1 ELSE @,
                      !.ops = IF @ = <<>> THEN <<FALSE>> ELSE @]

PlanReady(case) ==
    /\ case.enabled
    /\ Short(case) => case.readme = "allowed"
    /\ BuildRequired(Completed(case)) => case.artifact
    /\ ~Short(Completed(case))
    /\ ~case.remote => ~case.unsafe

ProductTruth(status) == IF status \in {"PLANNED", "NOT_RUN"} THEN "HOLD" ELSE status

\* The profile, when there is one, is asked before a dry run ends.
BeginProduct(run, dry) ==
    LET ready == PlanReady(run.case) /\ run.ready # "UNREADY" IN
    \/ ~ready /\ Ends(run, "BLOCK", "BLOCK", {})
    \/ ready /\ dry /\ Ends(run, "PLANNED", "HOLD", {})
    \/ /\ ready /\ ~dry
       /\ exRun' = [run EXCEPT !.case = Completed(@)]
       /\ exHeld' = {"sandbox"}
       /\ UNCHANGED exResult

ProductEnds(status, left) == Ends(exRun, status, ProductTruth(status), left)

BuildStep ==
    /\ At("build") /\ exRun.next <= exRun.case.builds
    /\ \/ /\ exRun.case.remote
          /\ exRun' = [exRun EXCEPT !.at = "operate", !.next = 1, !.did = Did("blocked")]
          /\ UNCHANGED <<exHeld, exResult>>
       \/ /\ ~exRun.case.remote
          /\ exRun' = [exRun EXCEPT !.next = @ + 1]
          /\ \E left \in Outlives : exHeld' = exHeld \cup left
          /\ UNCHANGED exResult
       \/ /\ ~exRun.case.remote
          /\ \E status \in {"FAIL", "BLOCK"}, left \in Outlives : ProductEnds(status, left)
    /\ UNCHANGED exLeft

\* The artifact has to be in the sandbox after the last build command.
VerifyArtifact ==
    /\ At("build") /\ exRun.next > exRun.case.builds
    /\ \/ /\ exRun' = [exRun EXCEPT !.at = "operate", !.next = 1,
                                    !.did = IF BuildRequired(exRun.case) THEN Did("built")
                                            ELSE @]
          /\ UNCHANGED <<exHeld, exResult>>
       \/ BuildRequired(exRun.case) /\ ProductEnds("BLOCK", {})
    /\ UNCHANGED exLeft

\* _execute_product_operation: an exit code alone is not a verdict.
OperateStep ==
    /\ At("operate") /\ exRun.next \in DOMAIN exRun.case.ops
    /\ \/ /\ exRun.case.remote
          /\ exRun' = [exRun EXCEPT !.next = @ + 1, !.did = Did("blocked")]
          /\ UNCHANGED <<exHeld, exResult>>
       \/ /\ ~exRun.case.remote /\ exRun.case.ops[exRun.next]
          /\ exRun' = [exRun EXCEPT !.next = @ + 1, !.did = Did("operated")]
          /\ \E left \in Outlives : exHeld' = exHeld \cup left
          /\ UNCHANGED exResult
       \/ /\ ~exRun.case.remote /\ ~exRun.case.ops[exRun.next]
          /\ \E left \in Outlives : ProductEnds("HOLD", left)
       \/ /\ ~exRun.case.remote
          /\ \E status \in {"FAIL", "BLOCK"}, left \in Outlives : ProductEnds(status, left)
    /\ UNCHANGED exLeft

\* The mutant: a stage that was blocked does not keep the browser from deciding.
FinalWithoutBlocked == IF {"operated", "browsed"} \cap exRun.did = {} THEN "HOLD" ELSE "PASS"

\* The end of run_product_tests.  Where the browser did not pass it has ended before.
FinalStatus ==
    IF "blocked" \in exRun.did THEN "BLOCK"
    ELSE IF {"operated", "browsed"} \cap exRun.did = {} THEN "HOLD"
    ELSE "PASS"

FinishOperations ==
    /\ At("operate") /\ exRun.next \notin DOMAIN exRun.case.ops
    /\ \/ /\ exRun.case.web = "none"
          /\ ProductEnds(FinalStatus, {})
       \/ /\ exRun.case.web # "none"
          /\ Moves("browser")
          /\ UNCHANGED <<exHeld, exResult>>
    /\ UNCHANGED exLeft

-----------------------------------------------------------------------------
(* Product cases: the browser. *)

StartServer ==
    /\ At("browser") /\ ~exRun.case.remote
    /\ \/ /\ Moves("page")
          /\ exHeld' = exHeld \cup {"server"}
          /\ UNCHANGED exResult
       \/ \E left \in Outlives : ProductEnds("BLOCK", left)
    /\ UNCHANGED exLeft

\* The remote server starts only on a checkout that was verified to be the head under
\* review; its process group is its own.
StartRemote ==
    /\ At("browser") /\ exRun.case.remote
    /\ \/ /\ exRun.source = "VERIFIED"
          /\ Moves("discover")
          /\ exHeld' = exHeld \cup {"remote"}
          /\ UNCHANGED exResult
       \/ ProductEnds("BLOCK", {})
    /\ UNCHANGED exLeft

\* One look at the logs: the process id and the address come on different streams.
\* With the address the looking stops, whether the id was there or not.
Discover ==
    /\ At("discover")
    /\ \E pid, address, gone \in BOOLEAN :
          exRun' = [exRun EXCEPT !.pid = @ \/ pid,
                                 !.at = IF address THEN "tunnel"
                                        ELSE IF gone THEN "cleanup" ELSE @]
    /\ UNCHANGED <<exHeld, exResult, exLeft>>

OpenTunnel ==
    /\ At("tunnel")
    /\ \/ Moves("page") /\ exHeld' = exHeld \cup {"tunnel"}
       \/ Moves("cleanup") /\ UNCHANGED exHeld
    /\ UNCHANGED <<exResult, exLeft>>

\* What the flow comes to: steps that pass are a verdict only with an interaction and
\* an assertion about state; a timeout is the product's, the harness's or nobody's.
PageVerdicts(case) ==
    {IF case.web = "semantic" THEN "PASS" ELSE "HOLD"} \cup {"FAIL", "BLOCK", "HOLD"}

BrowserEnds(verdict, left) ==
    \/ /\ verdict = "PASS"
       /\ exRun' = [exRun EXCEPT !.at = "verdict", !.did = Did("browsed")]
       /\ exHeld' = (exHeld \cap {"sandbox", "child"}) \cup left
       /\ UNCHANGED exResult
    \/ verdict # "PASS" /\ ProductEnds(verdict, left)

\* The local server is ended before the result is there.
WalkPage ==
    /\ At("page")
    /\ \E verdict \in PageVerdicts(exRun.case) :
          IF exRun.case.remote
          THEN /\ exRun' = [exRun EXCEPT !.at = "cleanup", !.page = verdict]
               /\ UNCHANGED <<exHeld, exResult>>
          ELSE \E left \in Outlives : BrowserEnds(verdict, left)
    /\ UNCHANGED exLeft

\* The cleanups: without the process id there is nothing to end, and a cleanup that is
\* not confirmed may have been done or not.
Cleanups == {[status |-> "UNVERIFIED", over |-> FALSE]} \cup
            [status : {"FAIL", "TOOLING_FAIL"}, over : BOOLEAN] \cup
            {[status |-> "PASS", over |-> TRUE]}

CleanupsFor(pid) == {c \in Cleanups : pid <=> c.status # "UNVERIFIED"}

\* The mutant: the verdict of the page stands whatever the cleanup came to.
VerdictUnchecked(page, cleanup) == page

\* A pass stands only with a server that is known to be gone.
VerdictAfter(page, cleanup) == IF page = "PASS" /\ cleanup.status # "PASS" THEN "BLOCK" ELSE page

\* The finally clause: the remote process group, the tunnel, the ssh client.
CleanRemote ==
    /\ At("cleanup")
    /\ \E cleanup \in CleanupsFor(exRun.pid) :
          BrowserEnds(VerdictAfter(exRun.page, cleanup),
                      IF cleanup.over THEN {} ELSE {"remote"})
    /\ UNCHANGED exLeft

FinishProduct ==
    /\ At("verdict")
    /\ ProductEnds(FinalStatus, exHeld \cap {"remote"})
    /\ UNCHANGED exLeft

-----------------------------------------------------------------------------
(* Interruption and death. *)

ProductPhases == {"build", "operate", "browser", "page", "discover", "tunnel", "cleanup",
                  "verdict"}

\* Ctrl-C: every finally clause runs.
Interrupt ==
    /\ exRun # Idle /\ exRun.at \in ProductPhases
    /\ \E cleanup \in CleanupsFor(exRun.pid), child \in Outlives :
          ProductEnds("INTERRUPTED",
                      child \cup IF cleanup.over THEN {} ELSE exHeld \cap {"remote"})
    /\ UNCHANGED exLeft

\* A kill leaves everything, and the result of the run before.
ExDies ==
    /\ exRun # Idle
    /\ exRun' = Idle /\ exHeld' = {}
    /\ UNCHANGED <<exResult, exLeft>>

\* source is what the last preflight has found out about the remote checkout.
ExBegin ==
    /\ exRun = Idle /\ exLeft > 0
    /\ exLeft' = exLeft - 1
    /\ \E case \in ExCases, ready \in Profiles, dry \in BOOLEAN :
          \/ /\ case.kind = "command"
             /\ BeginCommands(NewRun(case, ready, "UNVERIFIED", "commands"), dry)
          \/ /\ case.kind = "product"
             /\ \E source \in IF case.remote THEN Sources ELSE {"UNVERIFIED"} :
                   BeginProduct(NewRun(case, ready, source, "build"), dry)

ExNext ==
    \/ ExBegin \/ RunCommand \/ FinishCommands
    \/ BuildStep \/ VerifyArtifact \/ OperateStep \/ FinishOperations
    \/ StartServer \/ StartRemote \/ Discover \/ OpenTunnel \/ WalkPage \/ CleanRemote
    \/ FinishProduct \/ Interrupt \/ ExDies

ExSpec == ExInit /\ [][ExNext]_exVars

-----------------------------------------------------------------------------
(* Properties. *)

CommandPassEarned(result) ==
    /\ Exhaustive(result.case) /\ ~Refused(result.case, result.ready)
    /\ result.case.gate # "unmet"
    /\ result.ran = Len(result.case.commands)
    /\ \A i \in DOMAIN result.case.commands : ~result.case.commands[i].risky

ProductPassEarned(result) ==
    /\ result.case.enabled /\ result.ready # "UNREADY"
    /\ BuildRequired(result.case) => "built" \in result.did
    /\ \A i \in DOMAIN result.case.ops : result.case.ops[i]
    /\ result.case.web # "none" => "browsed" \in result.did /\ result.case.web = "semantic"
    /\ result.case.remote => result.source = "VERIFIED"

\* A result whose truth is PASS has been earned: every command of the case ran, none of
\* them risky, each with a semantic oracle, in an environment nobody had found
\* unprepared; a product was built where a build is asked for, every operation had a
\* semantic assertion, the browser flow was walked and asserted state, and a remote
\* product was the head under review (runner.run_case, run_product_tests).
PassEarned ==
    exResult # Idle /\ exResult.truth = "PASS" =>
        IF exResult.case.kind = "command" THEN CommandPassEarned(exResult)
        ELSE ProductPassEarned(exResult)

\* A case that passes leaves no server behind on the remote host, whose process id may
\* be known too late to end it, and whose cleanup may fail or go unanswered
\* (remote_browser_adapter.run_remote_browser_test, finally).  It does not hold of local
\* children: a passing command may leave one.
RemoteServerEnded ==
    exResult # Idle /\ exResult.truth = "PASS" => "remote" \notin exResult.left
=============================================================================
