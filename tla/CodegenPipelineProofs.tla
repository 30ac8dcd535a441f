------------------------ MODULE CodegenPipelineProofs ------------------------
(***************************************************************************)
(* What the generation pipeline delivers, for every budget and every       *)
(* answer of the model, the compiler, the scanners, the fork tests and the *)
(* critic: the parts of the result are of one draft, tests and critique    *)
(* are about it, repairs keep the gates, and the passes run out.           *)
(***************************************************************************)
EXTENDS CodegenPipeline, TLAPS

Stages == {"compile", "scan", "gate", "tests"}
BeforeRepairs == pc \in {"main", "fix", "tail"} \/ (pc \in Stages /\ loop # "repair")

\* Every part of a draft is of the pass that wrote its code.
Whole(d) ==
    /\ d.source = d.code /\ d.name = d.code
    /\ d.bytecode = d.code /\ d.scanned = d.code

\* Tests that count as passed are about the bytecode, of a draft that passed
\* the gates before them.
Tried(d) ==
    d.passed => ~d.blocked /\ ~d.oversize /\ d.tested \in {0, d.bytecode}

\* Between passes a compiled draft that is not blocked is whole.
BetweenPasses ==
    pc \in {"main", "fix", "tail", "repair", "recritic", "finish"} =>
        /\ ok /\ ~draft.blocked => Whole(draft)
        /\ draft.passed => ok
        /\ Tried(draft)
        /\ pc = "main" => ~draft.passed
        /\ pc = "recritic" => ok /\ ~draft.blocked

\* During a pass the draft grows whole step by step; its tests are not passed
\* yet, or it is a repair, which still shows the tests of its snapshot.
DuringPass ==
    pc \in Stages =>
        /\ draft.name = draft.code
        /\ pc # "compile" => ok /\ artifact = draft.code
        /\ pc \in {"gate", "tests"} =>
               Whole(draft) /\ ~draft.blocked /\ ~draft.oversize
        /\ pc = "tests" => bin = draft.code
        /\ loop # "repair" => ~draft.passed
        /\ loop = "repair" =>
               /\ Whole(snapshot) /\ ~snapshot.blocked /\ Tried(snapshot)
               /\ draft.passed = snapshot.passed

\* What is remembered of the state before the repairs, and of the critic.
Remembered ==
    /\ BeforeRepairs => ~wasGood /\ critique = 0
    /\ pc \in Stages /\ loop = "repair" =>
           /\ wasGood => snapshot.passed
           /\ critique # 0 => critique = snapshot.source
    /\ pc \in {"repair", "recritic", "finish"} /\ wasGood => draft.passed
    /\ pc \in {"repair", "finish"} /\ critique # 0 => critique = draft.source

\* The counters keep to their budgets.
Budgets ==
    /\ pc = "main" \/ (pc \in Stages /\ loop = "main") => attempts <= MaxPipeline
    /\ testFix <= MaxTestFix
    /\ repairs <= MaxRepairs

IInv ==
    /\ TypeOK
    /\ BetweenPasses
    /\ DuringPass
    /\ Remembered
    /\ Budgets
    /\ LaunchReadyIsOneDraft
    /\ DeployReadyWasTested
    /\ RepairKeepsGates
    /\ CritiqueIsOfSource

-----------------------------------------------------------------------------
\* What the stages write into a draft leaves it a draft.
LEMMA DraftTypes ==
    ASSUME draft \in Draft
    PROVE  /\ draft.code \in Version /\ draft.source \in Version
           /\ draft.bytecode \in Version
           /\ draft.iface \in Interfaces \union {NoInterface}
           /\ \A n \in Version : [draft EXCEPT !.code = n, !.name = n] \in Draft
           /\ \A b \in BOOLEAN : Scanned(b) \in Draft
           /\ \A a \in Version, i \in Interfaces, o \in BOOLEAN :
                [Scanned(FALSE) EXCEPT !.bytecode = a, !.iface = i, !.oversize = o]
                    \in Draft
           /\ \A p \in BOOLEAN, t \in Version :
                [draft EXCEPT !.passed = p, !.tested = t] \in Draft
           /\ \A b \in BOOLEAN : [draft EXCEPT !.blocked = b] \in Draft
<1>1. \A n \in Version : [draft EXCEPT !.code = n, !.name = n] \in Draft
  BY DEF Draft
<1>2. \A b \in BOOLEAN : Scanned(b) \in Draft
  BY DEF Draft, Scanned
<1>3. ASSUME NEW a \in Version, NEW i \in Interfaces, NEW o \in BOOLEAN
      PROVE  [Scanned(FALSE) EXCEPT !.bytecode = a, !.iface = i, !.oversize = o] \in Draft
  <2>1. Scanned(FALSE) \in Draft BY <1>2
  <2> QED BY <2>1 DEF Draft
<1>4. \A p \in BOOLEAN, t \in Version : [draft EXCEPT !.passed = p, !.tested = t] \in Draft
  BY DEF Draft
<1>5. \A b \in BOOLEAN : [draft EXCEPT !.blocked = b] \in Draft
  BY DEF Draft
<1>6. /\ draft.code \in Version /\ draft.source \in Version
      /\ draft.bytecode \in Version
      /\ draft.iface \in Interfaces \union {NoInterface}
  BY DEF Draft
<1> QED BY <1>1, <1>2, <1>3, <1>4, <1>5, <1>6

\* Writing a new draft, in any of the loops.
LEMMA WriteDraftType ==
    ASSUME TypeOK, NEW l \in Loops, WriteDraft(l)
    PROVE  /\ attempts' \in Nat /\ draft' \in Draft
           /\ loop' \in Loops /\ pc' = "compile"
<1>1. attempts + 1 \in Version /\ draft \in Draft BY DEF TypeOK, Version
<1>2. draft' = [draft EXCEPT !.code = attempts + 1, !.name = attempts + 1]
  BY DEF WriteDraft
<1>3. draft' \in Draft BY <1>1, <1>2, DraftTypes
<1> QED BY <1>1, <1>3 DEF WriteDraft, Version

\* Every step keeps the types, and takes from a budget only what is left.
LEMMA TypeStep ==
    ASSUME TypeOK, [Next]_vars
    PROVE  TypeOK'
<1>1. CASE MainPass
  <2>1. attempts' \in Nat /\ draft' \in Draft /\ loop' \in Loops /\ pc' = "compile"
    BY <1>1, WriteDraftType DEF MainPass, Loops
  <2> QED
    BY <1>1, <2>1 DEF MainPass, counters, suites, budgets, advice, history,
       TypeOK, Loops
<1>2. CASE MainExhausted
  BY <1>2, DraftTypes DEF MainExhausted, counters, suites, budgets, advice,
     history, TypeOK, Version, Loops, MaxGenFailures
<1>3. CASE FixPass
  <2>1. attempts' \in Nat /\ draft' \in Draft /\ loop' \in Loops /\ pc' = "compile"
    BY <1>3, WriteDraftType DEF FixPass, Loops
  <2> QED
    BY <1>3, <2>1 DEF FixPass, FixWanted, suites, budgets, advice, history,
       TypeOK, Loops
<1>4. CASE FixEnds
  BY <1>4, DraftTypes DEF FixEnds, FixWanted, counters, suites, budgets,
     advice, history, TypeOK, Version, Loops, MaxGenFailures
<1>5. CASE RepairPass
  <2>1. attempts' \in Nat /\ draft' \in Draft /\ loop' \in Loops /\ pc' = "compile"
    BY <1>5, WriteDraftType DEF RepairPass, Loops
  <2> QED
    BY <1>5, <2>1 DEF RepairPass, RepairWanted, suites, budgets, advice,
       history, TypeOK, Loops
<1>6. CASE RepairEnds
  BY <1>6, DraftTypes DEF RepairEnds, RepairWanted, counters, suites, budgets,
     advice, history, TypeOK, Version, Loops, MaxGenFailures
<1>7. CASE CompileFails
  <2>1. draft' \in Draft BY <1>7, DraftTypes DEF CompileFails, Rollback, TypeOK
  <2>2. pc' \in Loops /\ ok' \in BOOLEAN /\ artifact' \in Version
    <3>1. CASE loop = "repair"
      BY <1>7, <3>1 DEF CompileFails, Rollback, TypeOK, Loops
    <3>2. CASE loop # "repair"
      <4>1. ok' = FALSE /\ artifact' = 0 /\ pc' = loop
        BY <1>7, <3>2 DEF CompileFails
      <4>2. ok' \in BOOLEAN BY <4>1
      <4>3. artifact' \in Version BY <4>1 DEF Version
      <4>4. pc' \in Loops BY <4>1 DEF TypeOK
      <4> QED BY <4>2, <4>3, <4>4
    <3> QED BY <3>1, <3>2
  <2> QED
    BY <1>7, <2>1, <2>2 DEF CompileFails, counters, suites, budgets, advice,
       history, TypeOK, Loops
<1>8. CASE Compiles
  BY <1>8, DraftTypes DEF Compiles, counters, suites, budgets, advice,
     history, TypeOK, Version, Loops, MaxGenFailures
<1>9. ASSUME NEW B \in SUBSET Rules \ {{}}, ScanBlocks(B) PROVE TypeOK'
  <2>1. draft' \in Draft BY <1>9, DraftTypes DEF ScanBlocks, TypeOK
  <2>2. blocks' \in [Rules -> Nat] BY <1>9 DEF ScanBlocks, TypeOK
  <2>3. pc' \in Loops \union {"tail"} /\ gaveUp' \in BOOLEAN
    BY <1>9 DEF ScanBlocks, After, TypeOK, Loops
  <2> QED
    BY <1>9, <2>1, <2>2, <2>3 DEF ScanBlocks, counters, suites, advice,
       history, TypeOK, Loops
<1>10. CASE RepairScanBlocks
  <2>1. draft' \in Draft
    BY <1>10, DraftTypes DEF RepairScanBlocks, Rollback, TypeOK
  <2> QED
    BY <1>10, <2>1, DraftTypes DEF RepairScanBlocks, Rollback, counters,
       suites, budgets, advice, history, TypeOK, Version, Loops,
       MaxGenFailures
<1>11. ASSUME NEW i \in Interfaces, NEW fits \in BOOLEAN, ScanPasses(i, fits)
       PROVE TypeOK'
  <2>a. artifact \in Version /\ (~fits) \in BOOLEAN BY DEF TypeOK
  <2>b. [Scanned(FALSE) EXCEPT !.bytecode = artifact, !.iface = i, !.oversize = ~fits] \in Draft
    BY <2>a, DraftTypes DEF TypeOK
  <2>1. draft' \in Draft BY <1>11, <2>b DEF ScanPasses, Rollback, TypeOK
  <2> QED
    BY <1>11, <2>1, DraftTypes DEF ScanPasses, Scanned, Rollback, counters,
       suites, budgets, advice, history, TypeOK, Version, Loops,
       MaxGenFailures
<1>12. CASE ReuseSuite
  BY <1>12, DraftTypes DEF ReuseSuite, RefreshBin, counters, budgets, advice,
     history, TypeOK, Version, Loops, MaxGenFailures
<1>13. CASE GenerateSuite
  BY <1>13, DraftTypes DEF GenerateSuite, counters, budgets, advice, history,
     TypeOK, Version, Loops, MaxGenFailures
<1>14. ASSUME NEW permissions \in BOOLEAN, SuiteFails(permissions) PROVE TypeOK'
  <2>1. draft' \in Draft
    BY <1>14, DraftTypes DEF SuiteFails, RepairGateFails, Rollback, TypeOK
  <2>2. pc' \in Loops \union {"tail", "recritic"} /\ ok' \in BOOLEAN /\ infra' \in BOOLEAN
    BY <1>14 DEF SuiteFails, RepairGateFails, Rollback, InfraStop, After,
       TypeOK, Loops
  <2> QED
    BY <1>14, <2>1, <2>2 DEF SuiteFails, counters, budgets, advice, TypeOK,
       Version, Loops
<1>15. CASE TestsPass
  <2>1. draft' \in Draft BY <1>15, DraftTypes DEF TestsPass, Tested, TypeOK
  <2> QED
    BY <1>15, <2>1, DraftTypes DEF TestsPass, Tested, After, counters, suites,
       budgets, advice, history, TypeOK, Version, Loops, MaxGenFailures
<1>16. CASE TestsSkipped
  <2>1. draft' \in Draft BY <1>16, DraftTypes DEF TestsSkipped, Version, TypeOK
  <2> QED
    BY <1>16, <2>1, DraftTypes DEF TestsSkipped, After, counters, suites,
       budgets, advice, history, TypeOK, Version, Loops, MaxGenFailures
<1>17. ASSUME NEW s \in Signatures, NEW permissions \in BOOLEAN, TestsFail(s, permissions)
       PROVE TypeOK'
  <2>1. draft' \in Draft
    BY <1>17, DraftTypes DEF TestsFail, Tested, RepairGateFails, Rollback,
       TypeOK
  <2>2. failures' \in [Signatures -> Nat]
    <3>1. [failures EXCEPT ![s] = @ + 1] \in [Signatures -> Nat] BY DEF TypeOK
    <3>2. failures' \in {failures, [failures EXCEPT ![s] = @ + 1]}
      BY <1>17 DEF TestsFail
    <3> QED BY <3>1, <3>2 DEF TypeOK
  <2>3. /\ pc' \in Loops \union {"tail", "recritic"} /\ ok' \in BOOLEAN
        /\ infra' \in BOOLEAN /\ gaveUp' \in BOOLEAN
    BY <1>17 DEF TestsFail, RepairGateFails, Rollback, InfraStop, After,
       TypeOK, Loops
  <2> QED
    BY <1>17, <2>1, <2>2, <2>3 DEF TestsFail, counters, suites, advice,
       TypeOK, Version, Loops
<1>18. ASSUME NEW findings \in BOOLEAN, Advise(findings) PROVE TypeOK'
  BY <1>18, DraftTypes DEF Advise, HardGatesPass, counters, suites, budgets,
     TypeOK, Version, Loops, MaxGenFailures
<1>19. ASSUME NEW findings \in BOOLEAN, Recritic(findings) PROVE TypeOK'
  BY <1>19, DraftTypes DEF Recritic, counters, suites, budgets, history,
     TypeOK, Version, Loops, MaxGenFailures
<1>20. CASE Finish
  <2>1. draft' \in Draft BY <1>20, DraftTypes DEF Finish, Draft, TypeOK
  <2> QED
    BY <1>20, <2>1, DraftTypes DEF Finish, counters, suites, budgets, history,
       TypeOK, Version, Loops, MaxGenFailures
<1>21. CASE Throws
  BY <1>21, DraftTypes DEF Throws, FixWanted, RepairWanted, counters, suites,
     budgets, advice, history, TypeOK, Version, Loops, MaxGenFailures
<1>22. CASE UNCHANGED vars
  BY <1>22 DEF vars, TypeOK
<1> QED
  BY <1>1, <1>2, <1>3, <1>4, <1>5, <1>6, <1>7, <1>8, <1>9, <1>10, <1>11,
     <1>12, <1>13, <1>14, <1>15, <1>16, <1>17, <1>18, <1>19, <1>20, <1>21,
     <1>22 DEF Next

\* At the head of a loop and behind it the tags of the draft agree as
\* BetweenPasses says.
LEMMA BetweenStep ==
    ASSUME IInv, [Next]_vars
    PROVE  BetweenPasses'
<1>1. CASE MainPass
  BY <1>1 DEF MainPass, WriteDraft, counters, suites, budgets, advice,
     history, BetweenPasses, DuringPass, Whole, Tried, Stages, TypeOK, Draft,
     Loops, IInv
<1>2. CASE MainExhausted
  BY <1>2 DEF MainExhausted, counters, suites, budgets, advice, history,
     BetweenPasses, DuringPass, Whole, Tried, Stages, TypeOK, Draft, Loops,
     IInv
<1>3. CASE FixPass
  BY <1>3 DEF FixPass, FixWanted, WriteDraft, suites, budgets, advice,
     history, BetweenPasses, DuringPass, Whole, Tried, Stages, TypeOK, Draft,
     Loops, IInv
<1>4. CASE FixEnds
  BY <1>4 DEF FixEnds, FixWanted, counters, suites, budgets, advice, history,
     BetweenPasses, DuringPass, Whole, Tried, Stages, TypeOK, Draft, Loops,
     IInv
<1>5. CASE RepairPass
  BY <1>5 DEF RepairPass, RepairWanted, WriteDraft, suites, budgets, advice,
     history, BetweenPasses, DuringPass, Whole, Tried, Stages, TypeOK, Draft,
     Loops, IInv
<1>6. CASE RepairEnds
  BY <1>6 DEF RepairEnds, RepairWanted, counters, suites, budgets, advice,
     history, BetweenPasses, DuringPass, Whole, Tried, Stages, TypeOK, Draft,
     Loops, IInv
<1>7. CASE CompileFails
  BY <1>7 DEF CompileFails, Rollback, counters, suites, budgets, advice,
     history, BetweenPasses, DuringPass, Whole, Tried, Stages, TypeOK, Draft,
     Loops, IInv
<1>8. CASE Compiles
  BY <1>8 DEF Compiles, counters, suites, budgets, advice, history,
     BetweenPasses, DuringPass, Whole, Tried, Stages, TypeOK, Draft, Loops,
     IInv
<1>9. ASSUME NEW B \in SUBSET Rules \ {{}}, ScanBlocks(B) PROVE BetweenPasses'
  BY <1>9 DEF ScanBlocks, Scanned, UsedUp, After, counters, suites, advice,
     history, BetweenPasses, DuringPass, Whole, Tried, Stages, TypeOK, Draft,
     Loops, IInv
<1>10. CASE RepairScanBlocks
  BY <1>10 DEF RepairScanBlocks, Rollback, counters, suites, budgets, advice,
     history, BetweenPasses, DuringPass, Whole, Tried, Stages, TypeOK, Draft,
     Loops, IInv
<1>11. ASSUME NEW i \in Interfaces, NEW fits \in BOOLEAN, ScanPasses(i, fits)
       PROVE BetweenPasses'
  BY ZenonT(40), <1>11 DEF ScanPasses, Scanned, Rollback, counters, suites,
     budgets,
     advice, history, BetweenPasses, DuringPass, Whole, Tried, Stages, TypeOK,
     Draft, Loops, IInv
<1>12. CASE ReuseSuite
  BY <1>12 DEF ReuseSuite, RefreshBin, counters, budgets, advice, history,
     BetweenPasses, DuringPass, Whole, Tried, Stages, TypeOK, Draft, Loops,
     IInv
<1>13. CASE GenerateSuite
  BY <1>13 DEF GenerateSuite, counters, budgets, advice, history,
     BetweenPasses, DuringPass, Whole, Tried, Stages, TypeOK, Draft, Loops,
     IInv
<1>14. ASSUME NEW permissions \in BOOLEAN, SuiteFails(permissions)
       PROVE BetweenPasses'
  BY <1>14 DEF SuiteFails, RepairGateFails, Rollback, InfraStop, After,
     counters, budgets, advice, BetweenPasses, DuringPass, Whole, Tried,
     Stages, TypeOK, Draft, Loops, IInv
<1>15. CASE TestsPass
  BY <1>15 DEF TestsPass, Tested, After, counters, suites, budgets, advice,
     history, BetweenPasses, DuringPass, Whole, Tried, Stages, TypeOK, Draft,
     Loops, IInv
<1>16. CASE TestsSkipped
  BY <1>16 DEF TestsSkipped, After, counters, suites, budgets, advice,
     history, BetweenPasses, DuringPass, Whole, Tried, Stages, TypeOK, Draft,
     Loops, IInv
<1>17. ASSUME NEW s \in Signatures, NEW permissions \in BOOLEAN, TestsFail(s, permissions)
       PROVE BetweenPasses'
  BY <1>17 DEF TestsFail, Tested, RepairGateFails, Rollback, InfraStop, After,
     counters, suites, advice, BetweenPasses, DuringPass, Whole, Tried,
     Stages, TypeOK, Draft, Loops, IInv
<1>18. ASSUME NEW findings \in BOOLEAN, Advise(findings) PROVE BetweenPasses'
  BY <1>18 DEF Advise, HardGatesPass, counters, suites, budgets,
     BetweenPasses, DuringPass, Whole, Tried, Stages, TypeOK, Draft, Loops,
     IInv
<1>19. ASSUME NEW findings \in BOOLEAN, Recritic(findings) PROVE BetweenPasses'
  BY <1>19 DEF Recritic, counters, suites, budgets, history, BetweenPasses,
     DuringPass, Whole, Tried, Stages, TypeOK, Draft, Loops, IInv
<1>20. CASE Finish
  BY <1>20 DEF Finish, counters, suites, budgets, history, BetweenPasses,
     DuringPass, Whole, Tried, Stages, TypeOK, Draft, Loops, IInv
<1>21. CASE Throws
  BY <1>21 DEF Throws, FixWanted, RepairWanted, counters, suites, budgets,
     advice, history, BetweenPasses, DuringPass, Whole, Tried, Stages, TypeOK,
     Draft, Loops, IInv
<1>22. CASE UNCHANGED vars
  BY <1>22 DEF vars, BetweenPasses, DuringPass, Whole, Tried, Stages, TypeOK,
     Draft, Loops, IInv
<1> QED
  BY <1>1, <1>2, <1>3, <1>4, <1>5, <1>6, <1>7, <1>8, <1>9, <1>10, <1>11,
     <1>12, <1>13, <1>14, <1>15, <1>16, <1>17, <1>18, <1>19, <1>20, <1>21,
     <1>22 DEF Next

\* At each stage of a pass the tags that the stages before it wrote are of
\* this pass.
LEMMA DuringStep ==
    ASSUME IInv, [Next]_vars
    PROVE  DuringPass'
<1>1. CASE MainPass
  BY <1>1 DEF MainPass, WriteDraft, counters, suites, budgets, advice,
     history, BetweenPasses, DuringPass, Whole, Tried, Stages, TypeOK, Draft,
     Loops, IInv
<1>2. CASE MainExhausted
  BY <1>2 DEF MainExhausted, counters, suites, budgets, advice, history,
     BetweenPasses, DuringPass, Whole, Tried, Stages, TypeOK, Draft, Loops,
     IInv
<1>3. CASE FixPass
  BY <1>3 DEF FixPass, FixWanted, WriteDraft, suites, budgets, advice,
     history, BetweenPasses, DuringPass, Whole, Tried, Stages, TypeOK, Draft,
     Loops, IInv
<1>4. CASE FixEnds
  BY <1>4 DEF FixEnds, FixWanted, counters, suites, budgets, advice, history,
     BetweenPasses, DuringPass, Whole, Tried, Stages, TypeOK, Draft, Loops,
     IInv
<1>5. CASE RepairPass
  BY <1>5 DEF RepairPass, RepairWanted, WriteDraft, suites, budgets, advice,
     history, BetweenPasses, DuringPass, Whole, Tried, Stages, TypeOK, Draft,
     Loops, IInv
<1>6. CASE RepairEnds
  BY <1>6 DEF RepairEnds, RepairWanted, counters, suites, budgets, advice,
     history, BetweenPasses, DuringPass, Whole, Tried, Stages, TypeOK, Draft,
     Loops, IInv
<1>7. CASE CompileFails
  BY <1>7 DEF CompileFails, Rollback, counters, suites, budgets, advice,
     history, BetweenPasses, DuringPass, Whole, Tried, Stages, TypeOK, Draft,
     Loops, IInv
<1>8. CASE Compiles
  BY <1>8 DEF Compiles, counters, suites, budgets, advice, history,
     BetweenPasses, DuringPass, Whole, Tried, Stages, TypeOK, Draft, Loops,
     IInv
<1>9. ASSUME NEW B \in SUBSET Rules \ {{}}, ScanBlocks(B) PROVE DuringPass'
  BY <1>9 DEF ScanBlocks, Scanned, UsedUp, After, counters, suites, advice,
     history, BetweenPasses, DuringPass, Whole, Tried, Stages, TypeOK, Draft,
     Loops, IInv
<1>10. CASE RepairScanBlocks
  BY <1>10 DEF RepairScanBlocks, Rollback, counters, suites, budgets, advice,
     history, BetweenPasses, DuringPass, Whole, Tried, Stages, TypeOK, Draft,
     Loops, IInv
<1>11. ASSUME NEW i \in Interfaces, NEW fits \in BOOLEAN, ScanPasses(i, fits)
       PROVE DuringPass'
  BY ZenonT(40), <1>11 DEF ScanPasses, Scanned, Rollback, counters, suites,
     budgets,
     advice, history, BetweenPasses, DuringPass, Whole, Tried, Stages, TypeOK,
     Draft, Loops, IInv
<1>12. CASE ReuseSuite
  BY <1>12 DEF ReuseSuite, RefreshBin, counters, budgets, advice, history,
     BetweenPasses, DuringPass, Whole, Tried, Stages, TypeOK, Draft, Loops,
     IInv
<1>13. CASE GenerateSuite
  BY <1>13 DEF GenerateSuite, counters, budgets, advice, history,
     BetweenPasses, DuringPass, Whole, Tried, Stages, TypeOK, Draft, Loops,
     IInv
<1>14. ASSUME NEW permissions \in BOOLEAN, SuiteFails(permissions)
       PROVE DuringPass'
  BY <1>14 DEF SuiteFails, RepairGateFails, Rollback, InfraStop, After,
     counters, budgets, advice, BetweenPasses, DuringPass, Whole, Tried,
     Stages, TypeOK, Draft, Loops, IInv
<1>15. CASE TestsPass
  BY <1>15 DEF TestsPass, Tested, After, counters, suites, budgets, advice,
     history, BetweenPasses, DuringPass, Whole, Tried, Stages, TypeOK, Draft,
     Loops, IInv
<1>16. CASE TestsSkipped
  BY <1>16 DEF TestsSkipped, After, counters, suites, budgets, advice,
     history, BetweenPasses, DuringPass, Whole, Tried, Stages, TypeOK, Draft,
     Loops, IInv
<1>17. ASSUME NEW s \in Signatures, NEW permissions \in BOOLEAN, TestsFail(s, permissions)
       PROVE DuringPass'
  BY <1>17 DEF TestsFail, Tested, RepairGateFails, Rollback, InfraStop, After,
     counters, suites, advice, BetweenPasses, DuringPass, Whole, Tried,
     Stages, TypeOK, Draft, Loops, IInv
<1>18. ASSUME NEW findings \in BOOLEAN, Advise(findings) PROVE DuringPass'
  BY <1>18 DEF Advise, HardGatesPass, counters, suites, budgets,
     BetweenPasses, DuringPass, Whole, Tried, Stages, TypeOK, Draft, Loops,
     IInv
<1>19. ASSUME NEW findings \in BOOLEAN, Recritic(findings) PROVE DuringPass'
  BY <1>19 DEF Recritic, counters, suites, budgets, history, BetweenPasses,
     DuringPass, Whole, Tried, Stages, TypeOK, Draft, Loops, IInv
<1>20. CASE Finish
  BY <1>20 DEF Finish, counters, suites, budgets, history, BetweenPasses,
     DuringPass, Whole, Tried, Stages, TypeOK, Draft, Loops, IInv
<1>21. CASE Throws
  BY <1>21 DEF Throws, FixWanted, RepairWanted, counters, suites, budgets,
     advice, history, BetweenPasses, DuringPass, Whole, Tried, Stages, TypeOK,
     Draft, Loops, IInv
<1>22. CASE UNCHANGED vars
  BY <1>22 DEF vars, BetweenPasses, DuringPass, Whole, Tried, Stages, TypeOK,
     Draft, Loops, IInv
<1> QED
  BY <1>1, <1>2, <1>3, <1>4, <1>5, <1>6, <1>7, <1>8, <1>9, <1>10, <1>11,
     <1>12, <1>13, <1>14, <1>15, <1>16, <1>17, <1>18, <1>19, <1>20, <1>21,
     <1>22 DEF Next

\* What is kept of the state before the repairs, and of the critic, stays
\* about the draft it was taken of.
LEMMA RememberedStep ==
    ASSUME IInv, [Next]_vars
    PROVE  Remembered'
<1>1. CASE MainPass
  BY <1>1 DEF MainPass, WriteDraft, counters, suites, budgets, advice,
     history, BetweenPasses, DuringPass, Remembered, Budgets, BeforeRepairs,
     Stages, Whole, Tried, TypeOK, Draft, Loops, IInv
<1>2. CASE MainExhausted
  BY <1>2 DEF MainExhausted, counters, suites, budgets, advice, history,
     BetweenPasses, DuringPass, Remembered, Budgets, BeforeRepairs, Stages,
     Whole, Tried, TypeOK, Draft, Loops, IInv
<1>3. CASE FixPass
  BY <1>3 DEF FixPass, FixWanted, WriteDraft, suites, budgets, advice,
     history, BetweenPasses, DuringPass, Remembered, Budgets, BeforeRepairs,
     Stages, Whole, Tried, TypeOK, Draft, Loops, IInv
<1>4. CASE FixEnds
  BY <1>4 DEF FixEnds, FixWanted, counters, suites, budgets, advice, history,
     BetweenPasses, DuringPass, Remembered, Budgets, BeforeRepairs, Stages,
     Whole, Tried, TypeOK, Draft, Loops, IInv
<1>5. CASE RepairPass
  BY <1>5 DEF RepairPass, RepairWanted, WriteDraft, suites, budgets, advice,
     history, BetweenPasses, DuringPass, Remembered, Budgets, BeforeRepairs,
     Stages, Whole, Tried, TypeOK, Draft, Loops, IInv
<1>6. CASE RepairEnds
  BY <1>6 DEF RepairEnds, RepairWanted, counters, suites, budgets, advice,
     history, BetweenPasses, DuringPass, Remembered, Budgets, BeforeRepairs,
     Stages, Whole, Tried, TypeOK, Draft, Loops, IInv
<1>7. CASE CompileFails
  BY <1>7 DEF CompileFails, Rollback, counters, suites, budgets, advice,
     history, BetweenPasses, DuringPass, Remembered, Budgets, BeforeRepairs,
     Stages, Whole, Tried, TypeOK, Draft, Loops, IInv
<1>8. CASE Compiles
  BY <1>8 DEF Compiles, counters, suites, budgets, advice, history,
     BetweenPasses, DuringPass, Remembered, Budgets, BeforeRepairs, Stages,
     Whole, Tried, TypeOK, Draft, Loops, IInv
<1>9. ASSUME NEW B \in SUBSET Rules \ {{}}, ScanBlocks(B) PROVE Remembered'
  BY <1>9 DEF ScanBlocks, Scanned, UsedUp, After, counters, suites, advice,
     history, BetweenPasses, DuringPass, Remembered, Budgets, BeforeRepairs,
     Stages, Whole, Tried, TypeOK, Draft, Loops, IInv
<1>10. CASE RepairScanBlocks
  BY <1>10 DEF RepairScanBlocks, Rollback, counters, suites, budgets, advice,
     history, BetweenPasses, DuringPass, Remembered, Budgets, BeforeRepairs,
     Stages, Whole, Tried, TypeOK, Draft, Loops, IInv
<1>11. ASSUME NEW i \in Interfaces, NEW fits \in BOOLEAN, ScanPasses(i, fits)
       PROVE Remembered'
  BY <1>11 DEF ScanPasses, Scanned, Rollback, counters, suites, budgets,
     advice, history, BetweenPasses, DuringPass, Remembered, Budgets,
     BeforeRepairs, Stages, Whole, Tried, TypeOK, Draft, Loops, IInv
<1>12. CASE ReuseSuite
  BY <1>12 DEF ReuseSuite, RefreshBin, counters, budgets, advice, history,
     BetweenPasses, DuringPass, Remembered, Budgets, BeforeRepairs, Stages,
     Whole, Tried, TypeOK, Draft, Loops, IInv
<1>13. CASE GenerateSuite
  BY <1>13 DEF GenerateSuite, counters, budgets, advice, history,
     BetweenPasses, DuringPass, Remembered, Budgets, BeforeRepairs, Stages,
     Whole, Tried, TypeOK, Draft, Loops, IInv
<1>14. ASSUME NEW permissions \in BOOLEAN, SuiteFails(permissions)
       PROVE Remembered'
  BY <1>14 DEF SuiteFails, RepairGateFails, Rollback, InfraStop, After,
     counters, budgets, advice, BetweenPasses, DuringPass, Remembered,
     Budgets, BeforeRepairs, Stages, Whole, Tried, TypeOK, Draft, Loops, IInv
<1>15. CASE TestsPass
  BY <1>15 DEF TestsPass, Tested, After, counters, suites, budgets, advice,
     history, BetweenPasses, DuringPass, Remembered, Budgets, BeforeRepairs,
     Stages, Whole, Tried, TypeOK, Draft, Loops, IInv
<1>16. CASE TestsSkipped
  BY <1>16 DEF TestsSkipped, After, counters, suites, budgets, advice,
     history, BetweenPasses, DuringPass, Remembered, Budgets, BeforeRepairs,
     Stages, Whole, Tried, TypeOK, Draft, Loops, IInv
<1>17. ASSUME NEW s \in Signatures, NEW permissions \in BOOLEAN, TestsFail(s, permissions)
       PROVE Remembered'
  BY <1>17 DEF TestsFail, Tested, RepairGateFails, Rollback, InfraStop, After,
     counters, suites, advice, BetweenPasses, DuringPass, Remembered, Budgets,
     BeforeRepairs, Stages, Whole, Tried, TypeOK, Draft, Loops, IInv
<1>18. ASSUME NEW findings \in BOOLEAN, Advise(findings) PROVE Remembered'
  BY <1>18 DEF Advise, HardGatesPass, counters, suites, budgets,
     BetweenPasses, DuringPass, Remembered, Budgets, BeforeRepairs, Stages,
     Whole, Tried, TypeOK, Draft, Loops, IInv
<1>19. ASSUME NEW findings \in BOOLEAN, Recritic(findings) PROVE Remembered'
  BY <1>19 DEF Recritic, counters, suites, budgets, history, BetweenPasses,
     DuringPass, Remembered, Budgets, BeforeRepairs, Stages, Whole, Tried,
     TypeOK, Draft, Loops, IInv
<1>20. CASE Finish
  BY <1>20 DEF Finish, counters, suites, budgets, history, BetweenPasses,
     DuringPass, Remembered, Budgets, BeforeRepairs, Stages, Whole, Tried,
     TypeOK, Draft, Loops, IInv
<1>21. CASE Throws
  BY <1>21 DEF Throws, FixWanted, RepairWanted, counters, suites, budgets,
     advice, history, BetweenPasses, DuringPass, Remembered, Budgets,
     BeforeRepairs, Stages, Whole, Tried, TypeOK, Draft, Loops, IInv
<1>22. CASE UNCHANGED vars
  BY <1>22 DEF vars, BetweenPasses, DuringPass, Remembered, Budgets,
     BeforeRepairs, Stages, Whole, Tried, TypeOK, Draft, Loops, IInv
<1> QED
  BY <1>1, <1>2, <1>3, <1>4, <1>5, <1>6, <1>7, <1>8, <1>9, <1>10, <1>11,
     <1>12, <1>13, <1>14, <1>15, <1>16, <1>17, <1>18, <1>19, <1>20, <1>21,
     <1>22 DEF Next

\* The counters stay within what the loops allow.
LEMMA BudgetsStep ==
    ASSUME IInv, [Next]_vars
    PROVE  Budgets'
<1>1. CASE MainPass
  BY <1>1, BudgetAssumption DEF MainPass, WriteDraft, counters, suites,
     budgets, advice, history, Budgets, Stages, TypeOK, Loops, IInv
<1>2. CASE MainExhausted
  BY <1>2, BudgetAssumption DEF MainExhausted, counters, suites, budgets,
     advice, history, Budgets, Stages, TypeOK, Loops, IInv
<1>3. CASE FixPass
  BY <1>3, BudgetAssumption DEF FixPass, FixWanted, WriteDraft, suites,
     budgets, advice, history, Budgets, Stages, TypeOK, Loops, IInv
<1>4. CASE FixEnds
  BY <1>4, BudgetAssumption DEF FixEnds, FixWanted, counters, suites, budgets,
     advice, history, Budgets, Stages, TypeOK, Loops, IInv
<1>5. CASE RepairPass
  BY <1>5, BudgetAssumption DEF RepairPass, RepairWanted, WriteDraft, suites,
     budgets, advice, history, Budgets, Stages, TypeOK, Loops, IInv
<1>6. CASE RepairEnds
  BY <1>6, BudgetAssumption DEF RepairEnds, RepairWanted, counters, suites,
     budgets, advice, history, Budgets, Stages, TypeOK, Loops, IInv
<1>7. CASE CompileFails
  BY <1>7, BudgetAssumption DEF CompileFails, Rollback, counters, suites,
     budgets, advice, history, Budgets, Stages, TypeOK, Loops, IInv
<1>8. CASE Compiles
  BY <1>8, BudgetAssumption DEF Compiles, counters, suites, budgets, advice,
     history, Budgets, Stages, TypeOK, Loops, IInv
<1>9. ASSUME NEW B \in SUBSET Rules \ {{}}, ScanBlocks(B) PROVE Budgets'
  BY <1>9, BudgetAssumption DEF ScanBlocks, Scanned, UsedUp, After, counters,
     suites, advice, history, Budgets, Stages, TypeOK, Loops, IInv
<1>10. CASE RepairScanBlocks
  BY <1>10, BudgetAssumption DEF RepairScanBlocks, Rollback, counters, suites,
     budgets, advice, history, Budgets, Stages, TypeOK, Loops, IInv
<1>11. ASSUME NEW i \in Interfaces, NEW fits \in BOOLEAN, ScanPasses(i, fits)
       PROVE Budgets'
  BY <1>11, BudgetAssumption DEF ScanPasses, Scanned, Rollback, counters,
     suites, budgets, advice, history, Budgets, Stages, TypeOK, Loops, IInv
<1>12. CASE ReuseSuite
  BY <1>12, BudgetAssumption DEF ReuseSuite, RefreshBin, counters, budgets,
     advice, history, Budgets, Stages, TypeOK, Loops, IInv
<1>13. CASE GenerateSuite
  BY <1>13, BudgetAssumption DEF GenerateSuite, counters, budgets, advice,
     history, Budgets, Stages, TypeOK, Loops, IInv
<1>14. ASSUME NEW permissions \in BOOLEAN, SuiteFails(permissions)
       PROVE Budgets'
  BY <1>14, BudgetAssumption DEF SuiteFails, RepairGateFails, Rollback,
     InfraStop, After, counters, budgets, advice, Budgets, Stages, TypeOK,
     Loops, IInv
<1>15. CASE TestsPass
  BY <1>15, BudgetAssumption DEF TestsPass, Tested, After, counters, suites,
     budgets, advice, history, Budgets, Stages, TypeOK, Loops, IInv
<1>16. CASE TestsSkipped
  BY <1>16, BudgetAssumption DEF TestsSkipped, After, counters, suites,
     budgets, advice, history, Budgets, Stages, TypeOK, Loops, IInv
<1>17. ASSUME NEW s \in Signatures, NEW permissions \in BOOLEAN, TestsFail(s, permissions)
       PROVE Budgets'
  BY <1>17, BudgetAssumption DEF TestsFail, Tested, RepairGateFails, Rollback,
     InfraStop, After, counters, suites, advice, Budgets, Stages, TypeOK,
     Loops, IInv
<1>18. ASSUME NEW findings \in BOOLEAN, Advise(findings) PROVE Budgets'
  BY <1>18, BudgetAssumption DEF Advise, HardGatesPass, counters, suites,
     budgets, Budgets, Stages, TypeOK, Loops, IInv
<1>19. ASSUME NEW findings \in BOOLEAN, Recritic(findings) PROVE Budgets'
  BY <1>19, BudgetAssumption DEF Recritic, counters, suites, budgets, history,
     Budgets, Stages, TypeOK, Loops, IInv
<1>20. CASE Finish
  BY <1>20, BudgetAssumption DEF Finish, counters, suites, budgets, history,
     Budgets, Stages, TypeOK, Loops, IInv
<1>21. CASE Throws
  BY <1>21, BudgetAssumption DEF Throws, FixWanted, RepairWanted, counters,
     suites, budgets, advice, history, Budgets, Stages, TypeOK, Loops, IInv
<1>22. CASE UNCHANGED vars
  BY <1>22 DEF vars, Budgets, Stages, TypeOK, Loops, IInv
<1> QED
  BY <1>1, <1>2, <1>3, <1>4, <1>5, <1>6, <1>7, <1>8, <1>9, <1>10, <1>11,
     <1>12, <1>13, <1>14, <1>15, <1>16, <1>17, <1>18, <1>19, <1>20, <1>21,
     <1>22 DEF Next

\* Only Finish makes a result.
LEMMA OnlyFinishEnds ==
    ASSUME IInv, Next, pc' = "done"
    PROVE  Finish
BY DEF Next, IInv, TypeOK, Loops, MainPass, MainExhausted, FixPass, FixEnds,
   RepairPass,
   RepairEnds, WriteDraft, CompileFails, Compiles, Rollback, ScanBlocks, After,
   RepairScanBlocks, ScanPasses, ReuseSuite, GenerateSuite, SuiteFails,
   RepairGateFails, TestsPass, TestsSkipped, TestsFail, Advise, Recritic, Throws

\* The four properties of the result, at the steps that end the pipeline.
LEMMA ResultStep ==
    ASSUME IInv, [Next]_vars
    PROVE  /\ LaunchReadyIsOneDraft' /\ DeployReadyWasTested'
           /\ RepairKeepsGates' /\ CritiqueIsOfSource'
<1>1. CASE UNCHANGED vars
  BY <1>1 DEF vars, IInv, Done, HardGatesPass, LaunchReadyIsOneDraft,
     DeployReadyWasTested, RepairKeepsGates, CritiqueIsOfSource
<1>2. CASE Next /\ pc' # "done"
  BY <1>2 DEF Done, LaunchReadyIsOneDraft, DeployReadyWasTested,
     RepairKeepsGates,
     CritiqueIsOfSource
<1>3. CASE Next /\ pc' = "done"
  <2>1. Finish BY <1>3, OnlyFinishEnds
  <2>2. /\ draft \in Draft /\ pc = "finish"
        /\ draft' = [draft EXCEPT !.blocked = draft.blocked \/ draft.oversize]
        /\ ok' = ok /\ wasGood' = wasGood /\ critique' = critique
    BY <2>1 DEF Finish, IInv, TypeOK, history
  <2>3. /\ draft'.blocked <=> draft.blocked \/ draft.oversize
        /\ draft'.code = draft.code /\ draft'.name = draft.name
        /\ draft'.source = draft.source /\ draft'.bytecode = draft.bytecode
        /\ draft'.scanned = draft.scanned /\ draft'.oversize = draft.oversize
        /\ draft'.passed = draft.passed /\ draft'.tested = draft.tested
    BY <2>2 DEF Draft
  <2> QED
    BY <2>2, <2>3 DEF IInv, BetweenPasses, Remembered, Whole, Tried, Done,
       HardGatesPass,
       LaunchReadyIsOneDraft, DeployReadyWasTested, RepairKeepsGates, CritiqueIsOfSource
<1> QED BY <1>1, <1>2, <1>3

\* The pipeline starts with no draft and full budgets.
LEMMA IInvInit ==
    ASSUME Init
    PROVE  IInv
<1>1. NoDraft \in Draft BY DEF NoDraft, Draft, Version
<1>2. TypeOK BY <1>1 DEF Init, TypeOK, Loops, Version
<1>3. BetweenPasses /\ DuringPass
  BY DEF Init, NoDraft, BetweenPasses, DuringPass, Tried, Stages
<1>4. Remembered BY DEF Init, Remembered, BeforeRepairs, Stages
<1>5. Budgets BY BudgetAssumption DEF Init, Budgets, Stages
<1> QED
  BY <1>2, <1>3, <1>4, <1>5 DEF Init, IInv, Done, LaunchReadyIsOneDraft,
     DeployReadyWasTested, RepairKeepsGates, CritiqueIsOfSource

\* The inductive step.
LEMMA IInvStep ==
    ASSUME IInv, [Next]_vars
    PROVE  IInv'
<1>1. TypeOK' BY TypeStep DEF IInv
<1> QED
  BY <1>1, BetweenStep, DuringStep, RememberedStep, BudgetsStep, ResultStep
     DEF IInv

\* runCodegen, stage by stage: the inductive invariant holds in every
\* reachable state.
THEOREM PipelineInvariance == Spec => []IInv
<1>1. Init => IInv BY IInvInit
<1>2. IInv /\ [Next]_vars => IInv' BY IInvStep
<1> QED BY <1>1, <1>2, PTL DEF Spec

\* Every variable of the pipeline has its type (codegen.ts).
THEOREM PipelineTypes == Spec => []TypeOK
<1>1. IInv => TypeOK BY DEF IInv
<1> QED BY <1>1, PipelineInvariance, PTL

\* What isLaunchReady lets through is one draft in all its parts, whichever
\* loop, failure or rollback came last.
THEOREM PipelineDeliversOneDraft == Spec => []LaunchReadyIsOneDraft
<1>1. IInv => LaunchReadyIsOneDraft BY DEF IInv
<1> QED BY <1>1, PipelineInvariance, PTL

\* What isDeployReady lets through fits the chain, and its bytecode is the one
\* the fork tests ran, unless they were skipped.
THEOREM PipelineTestsWhatItDelivers == Spec => []DeployReadyWasTested
<1>1. IInv => DeployReadyWasTested BY DEF IInv
<1> QED BY <1>1, PipelineInvariance, PTL

\* A vault that passed every hard gate before the advisory repairs passes them
\* in the result, after any number of repairs and rollbacks.
THEOREM PipelineRepairsKeepGates == Spec => []RepairKeepsGates
<1>1. IInv => RepairKeepsGates BY DEF IInv
<1> QED BY <1>1, PipelineInvariance, PTL

\* The critique in the result is of the source in the result.
THEOREM PipelineCritiqueIsOfSource == Spec => []CritiqueIsOfSource
<1>1. IInv => CritiqueIsOfSource BY DEF IInv
<1> QED BY <1>1, PipelineInvariance, PTL

-----------------------------------------------------------------------------
(* The passes run out. *)

\* Every stage leaves less to do: a new pass costs ten, its stages one each.
LEMMA WorkStep ==
    ASSUME IInv, Next
    PROVE  WorkLeft' < WorkLeft /\ WorkLeft' >= 0
<1> DEFINE Goal == WorkLeft' < WorkLeft /\ WorkLeft' >= 0
<1>0. IInv' BY IInvStep
<1>1. CASE MainPass
  BY <1>0, <1>1, BudgetAssumption DEF MainPass, WriteDraft, counters,
     WorkLeft, StepsLeft, InMain, IInv, Budgets, Stages, TypeOK, Loops
<1>2. CASE MainExhausted
  BY <1>0, <1>2, BudgetAssumption DEF MainExhausted, counters, WorkLeft,
     StepsLeft, InMain, IInv, Budgets, Stages, TypeOK, Loops
<1>3. CASE FixPass
  BY <1>0, <1>3, BudgetAssumption DEF FixPass, FixWanted, WriteDraft,
     counters, WorkLeft, StepsLeft, InMain, IInv, Budgets, Stages, TypeOK,
     Loops
<1>4. CASE FixEnds
  BY <1>0, <1>4, BudgetAssumption DEF FixEnds, FixWanted, counters, WorkLeft,
     StepsLeft, InMain, IInv, Budgets, Stages, TypeOK, Loops
<1>5. CASE RepairPass
  BY <1>0, <1>5, BudgetAssumption DEF RepairPass, RepairWanted, WriteDraft,
     counters, WorkLeft, StepsLeft, InMain, IInv, Budgets, Stages, TypeOK,
     Loops
<1>6. CASE RepairEnds
  BY <1>0, <1>6, BudgetAssumption DEF RepairEnds, RepairWanted, counters,
     WorkLeft, StepsLeft, InMain, IInv, Budgets, Stages, TypeOK, Loops
<1>7. CASE CompileFails
  BY <1>0, <1>7, BudgetAssumption DEF CompileFails, Rollback, counters,
     WorkLeft, StepsLeft, InMain, IInv, Budgets, Stages, TypeOK, Loops
<1>8. CASE Compiles
  BY <1>0, <1>8, BudgetAssumption DEF Compiles, counters, WorkLeft, StepsLeft,
     InMain, IInv, Budgets, Stages, TypeOK, Loops
<1>9. ASSUME NEW B \in SUBSET Rules \ {{}}, ScanBlocks(B) PROVE Goal
  BY <1>0, <1>9, BudgetAssumption DEF ScanBlocks, After, counters, WorkLeft,
     StepsLeft, InMain, IInv, Budgets, Stages, TypeOK, Loops
<1>10. CASE RepairScanBlocks
  BY <1>0, <1>10, BudgetAssumption DEF RepairScanBlocks, Rollback, counters,
     WorkLeft, StepsLeft, InMain, IInv, Budgets, Stages, TypeOK, Loops
<1>11. ASSUME NEW i \in Interfaces, NEW fits \in BOOLEAN, ScanPasses(i, fits)
       PROVE Goal
  BY <1>0, <1>11, BudgetAssumption DEF ScanPasses, Rollback, counters,
     WorkLeft, StepsLeft, InMain, IInv, Budgets, Stages, TypeOK, Loops
<1>12. CASE ReuseSuite
  BY <1>0, <1>12, BudgetAssumption DEF ReuseSuite, counters, WorkLeft,
     StepsLeft, InMain, IInv, Budgets, Stages, TypeOK, Loops
<1>13. CASE GenerateSuite
  BY <1>0, <1>13, BudgetAssumption DEF GenerateSuite, counters, WorkLeft,
     StepsLeft, InMain, IInv, Budgets, Stages, TypeOK, Loops
<1>14. ASSUME NEW permissions \in BOOLEAN, SuiteFails(permissions) PROVE Goal
  BY <1>0, <1>14, BudgetAssumption DEF SuiteFails, RepairGateFails, Rollback,
     After, counters, WorkLeft, StepsLeft, InMain, IInv, Budgets, Stages,
     TypeOK, Loops
<1>15. CASE TestsPass
  BY <1>0, <1>15, BudgetAssumption DEF TestsPass, After, counters, WorkLeft,
     StepsLeft, InMain, IInv, Budgets, Stages, TypeOK, Loops
<1>16. CASE TestsSkipped
  BY <1>0, <1>16, BudgetAssumption DEF TestsSkipped, After, counters,
     WorkLeft, StepsLeft, InMain, IInv, Budgets, Stages, TypeOK, Loops
<1>17. ASSUME NEW s \in Signatures, NEW permissions \in BOOLEAN, TestsFail(s, permissions)
       PROVE Goal
  <2>1. /\ pc = "tests" /\ loop \in Loops /\ loop' = loop /\ UNCHANGED counters
        /\ loop = "repair" => pc' \in {"repair", "recritic"}
        /\ loop # "repair" => pc' \in {loop, After(loop)}
    BY <1>17 DEF TestsFail, RepairGateFails, Rollback, After, IInv, TypeOK
  <2> QED
    BY <1>0, <2>1, BudgetAssumption
    DEF After, counters, WorkLeft, StepsLeft, InMain, IInv, Budgets, Stages, TypeOK, Loops
<1>18. ASSUME NEW findings \in BOOLEAN, Advise(findings) PROVE Goal
  BY <1>0, <1>18, BudgetAssumption DEF Advise, counters, WorkLeft, StepsLeft,
     InMain, IInv, Budgets, Stages, TypeOK, Loops
<1>19. ASSUME NEW findings \in BOOLEAN, Recritic(findings) PROVE Goal
  BY <1>0, <1>19, BudgetAssumption DEF Recritic, counters, WorkLeft,
     StepsLeft, InMain, IInv, Budgets, Stages, TypeOK, Loops
<1>20. CASE Finish
  BY <1>0, <1>20, BudgetAssumption DEF Finish, counters, WorkLeft, StepsLeft,
     InMain, IInv, Budgets, Stages, TypeOK, Loops
<1>21. CASE Throws
  BY <1>0, <1>21, BudgetAssumption DEF Throws, FixWanted, RepairWanted,
     counters, WorkLeft, StepsLeft, InMain, IInv, Budgets, Stages, TypeOK,
     Loops
<1> QED
  BY <1>1, <1>2, <1>3, <1>4, <1>5, <1>6, <1>7, <1>8, <1>9, <1>10, <1>11,
     <1>12, <1>13, <1>14, <1>15, <1>16, <1>17, <1>18, <1>19, <1>20, <1>21 DEF
     Next

\* Every step of the pipeline leaves less to do, so that there are no more
\* passes than the budgets add up to, whatever is answered.
THEOREM PipelinePassesRunOut == Spec => PassesRunOut
<1>1. IInv /\ [Next]_vars => [WorkLeft' < WorkLeft /\ WorkLeft' >= 0]_vars
  BY WorkStep
<1> QED BY <1>1, PipelineInvariance, PTL DEF Spec, PassesRunOut
=============================================================================
