--------------------------- MODULE CodegenPipeline ---------------------------
(***************************************************************************)
(* runCodegenPipeline of server/codegen.ts, from the point where a plan    *)
(* has been approved: the generate / compile / scan / size / test loop,    *)
(* the test-fix loop that follows it, the advisory tail, the critic-driven *)
(* repair loop with its rollback, and the result.                          *)
(*                                                                         *)
(* A draft is known by the pass that wrote it: pass n yields version n of  *)
(* the code, and the model follows which version each part of the result   *)
(* is about (0: none yet).  What the model, the compiler, the scanners,    *)
(* the size check and the fork tests answer is free; the prompts they are  *)
(* sent and the texts they return are left out.                            *)
(***************************************************************************)
EXTENDS Integers, FiniteSets

CONSTANTS
    Rules,           \* blocking rules of the scanners
    Signatures,      \* distinct fork-test failures
    Interfaces,      \* public interfaces a draft may have
    NoInterface,     \* no reusable suite
    MaxPipeline,     \* MAX_PIPELINE_ATTEMPTS
    MaxTestFix,      \* MAX_TEST_FIX_ATTEMPTS
    MaxBlocks,       \* MAX_BLOCKS_PER_RULE
    MaxIdentical,    \* MAX_IDENTICAL_TEST_FAILURES
    MaxRepairs       \* MAX_CRITIC_REPAIR_ATTEMPTS, and one if escalation is on

ASSUME InterfaceAssumption == NoInterface \notin Interfaces
ASSUME BudgetAssumption ==
    /\ MaxPipeline \in Nat \ {0}
    /\ MaxTestFix \in Nat
    /\ MaxBlocks \in Nat \ {0}
    /\ MaxIdentical \in Nat \ {0}
    /\ MaxRepairs \in Nat

\* Consecutive suites that do not even build before the loops stop.
MaxGenFailures == 2

VARIABLES
    pc,          \* the step to take next
    loop,        \* the loop it belongs to
    attempts,    \* passes so far
    testFix,     \* testFixAttempts
    repairs,     \* repairAttempts.length
    draft,       \* the variables a rollback restores (Draft below)
    snapshot,    \* what the repair loop saved of them
    ok,          \* the last compile succeeded, or was rolled back
    artifact,    \* version whose build artifact is at artifactPath
    reusable,    \* interface of the suite kept for reuse
    bin,         \* version of the bytecode file the fork tests deploy
    blocks,      \* blockCountByRule
    failures,    \* testFailureCounts
    genFailures, \* consecutiveTestGenFailures
    gaveUp,      \* autoFixGaveUp
    critique,    \* version the economic critic read
    serious,     \* it reported high or blocking findings
    ui,          \* version the custom UI was made for
    exhausted,   \* autoFixExhausted of the result
    infra,       \* history: a loop stopped for the test infrastructure
    wasGood      \* history: all hard gates passed when the repairs began

vars == <<pc, loop, attempts, testFix, repairs, draft, snapshot, ok, artifact,
          reusable, bin, blocks, failures, genFailures, gaveUp, critique,
          serious, ui, exhausted, infra, wasGood>>

Version == Nat
Loops == {"main", "fix", "repair"}

\* code, contractName, fullSource, abi + creationBytecode, the interface that
\* abi has, deployedBytecodeSize over the EIP-170 limit, safety.level = fail,
\* the source it is about, integrationTestsPassed, and the bytecode the last
\* fork run deployed (simulationReport).
Draft == [code : Version, name : Version, source : Version,
          bytecode : Version, iface : Interfaces \union {NoInterface},
          oversize : BOOLEAN, blocked : BOOLEAN, scanned : Version,
          passed : BOOLEAN, tested : Version]

NoDraft == [code |-> 0, name |-> 0, source |-> 0, bytecode |-> 0,
            iface |-> NoInterface, oversize |-> FALSE, blocked |-> TRUE,
            scanned |-> 0, passed |-> FALSE, tested |-> 0]

HardGatesPass == ok /\ ~draft.blocked /\ draft.passed

-----------------------------------------------------------------------------
Init ==
    /\ pc = "main" /\ loop = "main"
    /\ attempts = 0 /\ testFix = 0 /\ repairs = 0
    /\ draft = NoDraft /\ snapshot = NoDraft
    /\ ok = FALSE
    /\ artifact = 0 /\ reusable = NoInterface /\ bin = 0
    /\ blocks = [r \in Rules |-> 0]
    /\ failures = [s \in Signatures |-> 0]
    /\ genFailures = 0
    /\ gaveUp = FALSE
    /\ critique = 0 /\ serious = FALSE /\ ui = 0
    /\ exhausted = FALSE
    /\ infra = FALSE
    /\ wasGood = FALSE

(* Groups of variables that most steps leave alone. *)
advice == <<critique, serious, ui, exhausted>>
counters == <<attempts, testFix, repairs>>
suites == <<reusable, bin, genFailures>>
budgets == <<blocks, failures, gaveUp>>
history == <<infra, wasGood>>

\* `continue' goes to the head of the loop (pc' = loop), where its condition
\* is evaluated; `break' leaves the main loop for the test-fix loop, and that
\* one for the advisory tail.
After(l) == IF l = "main" THEN "fix" ELSE "tail"

\* The restoring half of the repair loop: `ok = true' and the saved values.
\* Slips: the bytecode is restored in the place of the interface; the name is
\* not among the values.
RollbackMisplaced ==
    /\ draft' = [snapshot EXCEPT !.iface = snapshot.bytecode]
    /\ ok' = TRUE
    /\ pc' = "repair"
RollbackButName ==
    /\ draft' = [snapshot EXCEPT !.name = draft.name]
    /\ ok' = TRUE
    /\ pc' = "repair"
Rollback ==
    /\ draft' = snapshot
    /\ ok' = TRUE
    /\ pc' = "repair"

-----------------------------------------------------------------------------
(* A pass: the model writes a draft. *)

\* Slip: the pass is not counted.
WriteUncounted(l) ==
    /\ UNCHANGED attempts
    /\ draft' = [draft EXCEPT !.code = attempts + 1, !.name = attempts + 1]
    /\ loop' = l
    /\ pc' = "compile"
WriteDraft(l) ==
    /\ attempts' = attempts + 1
    /\ draft' = [draft EXCEPT !.code = attempts', !.name = attempts']
    /\ loop' = l
    /\ pc' = "compile"

MainPass ==
    /\ pc = "main"
    /\ attempts < MaxPipeline
    /\ WriteDraft("main")
    /\ UNCHANGED <<testFix, repairs, snapshot, ok, artifact, suites, budgets,
                   advice, history>>

MainExhausted ==
    /\ pc = "main"
    /\ attempts >= MaxPipeline
    /\ pc' = "fix"
    /\ UNCHANGED <<loop, counters, draft, snapshot, ok, artifact, suites,
                   budgets, advice, history>>

FixWanted ==
    /\ ok /\ ~draft.blocked /\ ~draft.passed
    /\ ~gaveUp
    /\ testFix < MaxTestFix

FixPass ==
    /\ pc = "fix"
    /\ FixWanted
    /\ testFix' = testFix + 1
    /\ WriteDraft("fix")
    /\ UNCHANGED <<repairs, snapshot, ok, artifact, suites, budgets, advice,
                   history>>

FixEnds ==
    /\ pc = "fix"
    /\ ~FixWanted
    /\ pc' = "tail"
    /\ UNCHANGED <<loop, counters, draft, snapshot, ok, artifact, suites,
                   budgets, advice, history>>

\* The repair loop numbers the attempt, saves the state and writes a draft.
\* (repairAttempts grows when the attempt ends, each end exactly once.)
RepairWanted == ok /\ ~draft.blocked /\ serious /\ repairs < MaxRepairs

RepairPass ==
    /\ pc = "repair"
    /\ RepairWanted
    /\ repairs' = repairs + 1
    /\ snapshot' = draft
    /\ WriteDraft("repair")
    /\ UNCHANGED <<testFix, ok, artifact, suites, budgets, advice, history>>

RepairEnds ==
    /\ pc = "repair"
    /\ ~RepairWanted
    /\ pc' = "finish"
    /\ UNCHANGED <<loop, counters, draft, snapshot, ok, artifact, suites,
                   budgets, advice, history>>

-----------------------------------------------------------------------------
(* Compile. *)

CompileFails ==
    /\ pc = "compile"
    /\ IF loop = "repair"
         THEN Rollback /\ UNCHANGED artifact
         ELSE /\ ok' = FALSE
              /\ artifact' = 0
              /\ pc' = loop
              /\ UNCHANGED draft
    /\ UNCHANGED <<loop, counters, snapshot, suites, budgets, advice, history>>

Compiles ==
    /\ pc = "compile"
    /\ ok' = TRUE
    /\ artifact' = draft.code
    /\ pc' = "scan"
    /\ UNCHANGED <<loop, counters, draft, snapshot, suites, budgets, advice,
                   history>>

-----------------------------------------------------------------------------
(* Safety scanners. *)

Scanned(blocked) ==
    [draft EXCEPT !.source = draft.code, !.scanned = draft.code,
                  !.blocked = blocked]

\* Every blocking rule is counted; one that has used up its passes stops
\* both loops for good.
UsedUp(count) == count >= MaxBlocks

ScanBlocks(B) ==
    /\ pc = "scan"
    /\ loop # "repair"
    /\ draft' = Scanned(TRUE)
    /\ blocks' = [r \in Rules |-> IF r \in B THEN blocks[r] + 1 ELSE blocks[r]]
    /\ IF \E r \in B : UsedUp(blocks'[r])
         THEN gaveUp' = TRUE /\ pc' = After(loop)
         ELSE gaveUp' = gaveUp /\ pc' = loop
    /\ UNCHANGED <<loop, counters, snapshot, ok, artifact, suites, failures,
                   advice, history>>

RepairScanBlocks ==
    /\ pc = "scan"
    /\ loop = "repair"
    /\ Rollback
    /\ UNCHANGED <<loop, counters, snapshot, artifact, suites, budgets, advice,
                   history>>

\* The artifact is read after the scan, and never without it.  A draft over
\* the size limit is rebuilt with --via-ir; `fits' covers the draft that fits
\* at once and the one that the rebuild saves.
ScanPasses(i, fits) ==
    LET d == [Scanned(FALSE) EXCEPT !.bytecode = artifact, !.iface = i,
                                    !.oversize = ~fits]
    IN /\ pc = "scan"
       /\ IF fits
            THEN draft' = d /\ pc' = "gate" /\ UNCHANGED ok
          ELSE IF loop = "repair"
            THEN Rollback
          ELSE draft' = d /\ pc' = loop /\ UNCHANGED ok
       /\ UNCHANGED <<loop, counters, snapshot, artifact, suites, budgets,
                      advice, history>>

-----------------------------------------------------------------------------
(* Integration gate: a suite, then the fork run. *)

\* The interface has not changed: the suite is kept and its bytecode file is
\* written anew.
\* Slip: the file is kept with the suite.
KeepBin == UNCHANGED bin
RefreshBin == bin' = draft.bytecode

ReuseSuite ==
    /\ pc = "gate"
    /\ reusable = draft.iface
    /\ RefreshBin
    /\ genFailures' = 0
    /\ pc' = "tests"
    /\ UNCHANGED <<loop, counters, draft, snapshot, ok, artifact, reusable,
                   budgets, advice, history>>

\* A new suite, also when the kept one could not be refreshed.
GenerateSuite ==
    /\ pc = "gate"
    /\ bin' = artifact
    /\ reusable' = draft.iface
    /\ genFailures' = 0
    /\ pc' = "tests"
    /\ UNCHANGED <<loop, counters, draft, snapshot, ok, artifact, budgets,
                   advice, history>>

\* What a failed gate means to the repair loop: back to a state whose tests
\* passed, or, when they did not pass before either, on to the critic.
\* Slip: always on to the critic.
RepairGateIgnored(d) == draft' = d /\ pc' = "recritic" /\ UNCHANGED ok
RepairGateFails(d) ==
    IF snapshot.passed THEN Rollback
                       ELSE draft' = d /\ pc' = "recritic" /\ UNCHANGED ok

InfraStop == infra' = TRUE

\* The suite does not build, twice: the second time in a row stops the loop.
\* The main loop also stops when the errors are about file permissions.
SuiteFails(permissions) ==
    /\ pc = "gate"
    /\ bin' = artifact
    /\ reusable' = NoInterface
    /\ genFailures' = genFailures + 1
    /\ IF loop = "repair"
         THEN RepairGateFails(draft) /\ UNCHANGED infra
       ELSE IF genFailures' >= MaxGenFailures \/ (loop = "main" /\ permissions)
         THEN InfraStop /\ pc' = After(loop) /\ UNCHANGED <<draft, ok>>
       ELSE pc' = loop /\ UNCHANGED <<draft, ok, infra>>
    /\ UNCHANGED <<loop, counters, snapshot, artifact, budgets, advice,
                   wasGood>>

Tested(passes) == [draft EXCEPT !.passed = passes, !.tested = bin]

TestsPass ==
    /\ pc = "tests"
    /\ draft' = Tested(TRUE)
    /\ pc' = IF loop = "repair" THEN "recritic" ELSE After(loop)
    /\ UNCHANGED <<loop, counters, snapshot, ok, artifact, suites, budgets,
                   advice, history>>

\* The fork is out of reach, or fork tests are switched off: the run counts as
\* passed, and its report says that it was skipped.
TestsSkipped ==
    /\ pc = "tests"
    /\ draft' = [draft EXCEPT !.passed = TRUE, !.tested = 0]
    /\ pc' = IF loop = "repair" THEN "recritic" ELSE After(loop)
    /\ UNCHANGED <<loop, counters, snapshot, ok, artifact, suites, budgets,
                   advice, history>>

\* It fails: the main loop gives way on file permissions; both loops give up
\* on a failure that has repeated its budget away.
TestsFail(s, permissions) ==
    /\ pc = "tests"
    /\ IF loop = "repair"
         THEN RepairGateFails(Tested(FALSE))
              /\ UNCHANGED <<failures, gaveUp, infra>>
       ELSE IF loop = "main" /\ permissions
         THEN /\ draft' = Tested(FALSE)
              /\ InfraStop
              /\ pc' = After(loop)
              /\ UNCHANGED <<ok, failures, gaveUp>>
       ELSE /\ draft' = Tested(FALSE)
            /\ failures' = [failures EXCEPT ![s] = @ + 1]
            /\ IF failures'[s] >= MaxIdentical
                 THEN gaveUp' = TRUE /\ pc' = After(loop)
                 ELSE gaveUp' = gaveUp /\ pc' = loop
            /\ UNCHANGED <<ok, infra>>
    /\ UNCHANGED <<loop, counters, snapshot, artifact, suites, blocks, advice,
                   wasGood>>

-----------------------------------------------------------------------------
(* The advisory tail, the critic's second reading, the result. *)

\* The critic reads a draft that is not blocked (and the spec pre-audit one
\* that passed its tests: it decides nothing and is left out).
Advise(findings) ==
    /\ pc = "tail"
    /\ wasGood' = HardGatesPass
    /\ IF ok /\ ~draft.blocked
         THEN critique' = draft.source /\ serious' = findings
         ELSE UNCHANGED <<critique, serious>>
    /\ pc' = "repair"
    /\ UNCHANGED <<loop, counters, draft, snapshot, ok, artifact, suites,
                   budgets, ui, exhausted, infra>>

\* An accepted repair is read by the critic again.
\* Slip: the first critique is kept.
RecriticSkipped(findings) ==
    /\ pc = "recritic"
    /\ serious' = FALSE
    /\ pc' = "repair"
    /\ UNCHANGED <<loop, counters, draft, snapshot, ok, artifact, suites,
                   budgets, critique, ui, exhausted, history>>
Recritic(findings) ==
    /\ pc = "recritic"
    /\ critique' = draft.source
    /\ serious' = findings
    /\ pc' = "repair"
    /\ UNCHANGED <<loop, counters, draft, snapshot, ok, artifact, suites,
                   budgets, ui, exhausted, history>>

\* A draft still over the size limit is blocked; the custom UI is made for
\* one that passes everything; the result says whether fixing was given up.
Finish ==
    /\ pc = "finish"
    /\ draft' = [draft EXCEPT !.blocked = @ \/ draft.oversize]
    /\ ui' = IF ok /\ ~draft'.blocked /\ draft.passed THEN draft.source ELSE 0
    /\ exhausted' = \/ gaveUp
                    \/ attempts >= MaxPipeline /\ draft'.blocked
                    \/ /\ ok /\ ~draft'.blocked /\ ~draft.passed
                       /\ testFix >= MaxTestFix /\ attempts >= MaxPipeline
    /\ pc' = "done"
    /\ UNCHANGED <<loop, counters, snapshot, ok, artifact, suites, budgets,
                   critique, serious, history>>

\* A model call, a file operation of compile() or one of the suite's files
\* fails, or cleanupCodegen() when all is done.  The caller alone catches it:
\* the result is lost with the pipeline's variables.
Throws ==
    /\ \/ pc = "main" /\ attempts < MaxPipeline
       \/ pc = "fix" /\ FixWanted
       \/ pc = "repair" /\ RepairWanted
       \/ pc \in {"compile", "gate", "finish"}
    /\ pc' = "thrown"
    /\ UNCHANGED <<loop, counters, draft, snapshot, ok, artifact, suites,
                   budgets, advice, history>>

Next ==
    \/ MainPass \/ MainExhausted
    \/ FixPass \/ FixEnds
    \/ RepairPass \/ RepairEnds
    \/ CompileFails \/ Compiles
    \/ \E B \in SUBSET Rules \ {{}} : ScanBlocks(B)
    \/ RepairScanBlocks
    \/ \E i \in Interfaces, fits \in BOOLEAN : ScanPasses(i, fits)
    \/ ReuseSuite \/ GenerateSuite
    \/ \E permissions \in BOOLEAN : SuiteFails(permissions)
    \/ TestsPass \/ TestsSkipped
    \/ \E s \in Signatures, permissions \in BOOLEAN : TestsFail(s, permissions)
    \/ \E findings \in BOOLEAN : Advise(findings)
    \/ \E findings \in BOOLEAN : Recritic(findings)
    \/ Finish
    \/ Throws

Spec == Init /\ [][Next]_vars

\* The pipeline is sequential code: each step is awaited by the next one, and
\* compiler, fork run and model calls have time limits.
FairSpec == Spec /\ WF_vars(Next)

-----------------------------------------------------------------------------
(* Properties *)

TypeOK ==
    /\ pc \in Loops \union {"compile", "scan", "gate", "tests", "tail",
                            "recritic", "finish", "done", "thrown"}
    /\ loop \in Loops
    /\ attempts \in Nat /\ testFix \in Nat /\ repairs \in Nat
    /\ draft \in Draft /\ snapshot \in Draft
    /\ ok \in BOOLEAN
    /\ artifact \in Version /\ bin \in Version
    /\ reusable \in Interfaces \union {NoInterface}
    /\ blocks \in [Rules -> Nat]
    /\ failures \in [Signatures -> Nat]
    /\ genFailures \in Nat
    /\ gaveUp \in BOOLEAN
    /\ critique \in Version /\ ui \in Version
    /\ serious \in BOOLEAN /\ exhausted \in BOOLEAN /\ wasGood \in BOOLEAN
    /\ infra \in BOOLEAN

Done == pc = "done"

\* isLaunchReady (web/src/lib/deploy-gate.ts) offers a vault for registration
\* when it compiled, is not blocked and has bytecode: name, code, source and
\* bytecode are then of one pass, and the verdict of the scanners is about
\* that pass, whichever loop, failure or rollback came last.
LaunchReadyIsOneDraft ==
    Done /\ ok /\ ~draft.blocked =>
      /\ draft.source = draft.code /\ draft.name = draft.code
      /\ draft.bytecode = draft.code
      /\ draft.scanned = draft.code

\* "Deploy-ready gate: compile OK + safety scanners pass + integration tests
\* pass" (README.md): the bytecode that would be deployed is the bytecode the
\* fork tests ran, unless they were skipped, and it fits under EIP-170.
DeployReadyWasTested ==
    Done /\ HardGatesPass => /\ draft.tested \in {0, draft.bytecode}
                             /\ ~draft.oversize

\* "A repair attempt that regresses any hard gate is ROLLED BACK"
\* (critic-repair.ts): a vault that passed every hard gate before the repairs
\* passes them after.
RepairKeepsGates == Done /\ wasGood => HardGatesPass

\* The critique shown with a result is of the source shown with it.
CritiqueIsOfSource == Done /\ critique # 0 => critique = draft.source

\* Every run comes to its result or to an error.
Terminates == <>(pc \in {"done", "thrown"})

\* What a run can still do: the passes that the budgets leave to this loop and
\* the later ones, and how far the pass under way has got (ten steps are more
\* than a pass has).
StepsLeft ==
    CASE pc = "compile" -> 9 [] pc = "scan" -> 8 [] pc = "gate" -> 7
      [] pc = "tests" -> 6 [] pc \in {"main", "recritic"} -> 5
      [] pc = "fix" -> 4 [] pc = "tail" -> 3 [] pc = "repair" -> 2
      [] pc = "finish" -> 1 [] OTHER -> 0
InMain ==
    pc = "main" \/ (loop = "main" /\ pc \in {"compile", "scan", "gate", "tests"})
WorkLeft ==
    10 * ((IF InMain THEN MaxPipeline - attempts ELSE 0)
          + (MaxTestFix - testFix) + (MaxRepairs - repairs)) + StepsLeft

\* "bounded passes" (README.md): whatever is answered, every step leaves less
\* to do, so that a run asks the model at most MaxPipeline + MaxTestFix +
\* MaxRepairs times for a draft.
PassesRunOut == [][WorkLeft' < WorkLeft /\ WorkLeft' >= 0]_vars

\* "The critic stays advisory for launch gating - a repair that regresses any
\* hard gate (compile / scanners / tests) is rolled back to the last good
\* state" (codegen.ts): a vault that passed every hard gate is not lost to an
\* attempt at repairing what the critic said of it.
RepairLosesNothing == wasGood => pc # "thrown"

\* "Retries compile / safety / fork test failures (bounded passes)"
\* (README.md): a run that began to fix its tests uses the passes it has for
\* that, unless it passed, gave up on something that repeats, or stopped for
\* the test infrastructure.
FixingUsesItsBudget ==
    Done /\ testFix > 0 =>
       \/ draft.passed
       \/ gaveUp
       \/ infra
       \/ testFix >= MaxTestFix

=============================================================================
