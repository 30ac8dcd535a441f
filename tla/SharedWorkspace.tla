-------------------------- MODULE SharedWorkspace --------------------------
(***************************************************************************)
(* The directories that all generations of a server process share:         *)
(* src/_codegen with the source under work, out/ with what forge built,    *)
(* test/_codegen with the suites and the bytecode they deploy.  Nothing    *)
(* locks them.  A draft is compiled, read back, tested and delivered in    *)
(* steps with waits between them, each of which finds the files as the     *)
(* last writer left them.  What a pipeline decides on its answers is in    *)
(* CodegenPipeline; here every answer that the files allow is taken.       *)
(***************************************************************************)
EXTENDS Integers

CONSTANTS
    Runs, Names,
    None,          \* no file, no draft, no artifact
    MaxDrafts,     \* bound: drafts of one run
    MaxDeaths      \* bound: deaths of the process

Drafts == [run : Runs, rev : 1..MaxDrafts, name : Names, compiles : BOOLEAN]
File == [Names -> Drafts \union {None}]

ASSUME SharedWorkspaceAssumption ==
    /\ MaxDrafts \in Nat /\ MaxDeaths \in Nat
    /\ None \notin Names \union Drafts

VARIABLES
    dir,           \* src/_codegen exists
    src,           \* the file of each contract in it
    out,           \* the artifact of each contract
    bin,           \* test/_codegen: the bytecode that the test of a name deploys
    pc, draft,     \* where a run is, and its draft
    built,         \* what the forge process of a run has read, while it runs
    source, bytecode,  \* fullSource and creationBytecode
    reusable,      \* reusableTest, by the name it was made for
    tested,        \* what the last fork test of the run deployed
    used, met,     \* history: names of each run; names of two live runs at once
    deaths

files == <<dir, src, out, bin>>
results == <<source, bytecode, reusable, tested>>
history == <<used, met>>
workspaceVars == <<files, pc, draft, built, results, history, deaths>>

Steps == {"waiting", "writing", "clear", "mkdir", "write", "build", "building", "source",
          "artifact", "size", "rescue", "rescuing", "gate", "suite", "test", "clean",
          "ready", "not ready", "threw", "dead"}
Over == {"ready", "not ready", "threw", "dead"}
Live(r) == pc[r] \notin Over \union {"waiting"}

WorkspaceTypeOK ==
    /\ dir \in BOOLEAN /\ src \in File /\ out \in File /\ bin \in File
    /\ ~dir => \A n \in Names : src[n] = None
    /\ pc \in [Runs -> Steps]
    /\ draft \in [Runs -> Drafts \union {None}]
    /\ \A r \in Runs : draft[r] # None => draft[r].run = r
    /\ built \in [Runs -> Drafts \union {None}]
    /\ source \in [Runs -> Drafts \union {None}]
    /\ bytecode \in [Runs -> Drafts \union {None}]
    /\ reusable \in [Runs -> Names \union {None}]
    /\ tested \in [Runs -> Drafts \union {None}]
    /\ used \in [Runs -> SUBSET Names] /\ met \in SUBSET Names
    /\ deaths \in 0..MaxDeaths

Nowhere == [n \in Names |-> None]
Nothing == [r \in Runs |-> None]

WorkspaceInit ==
    /\ dir = FALSE /\ src = Nowhere /\ out = Nowhere /\ bin = Nowhere
    /\ pc = [r \in Runs |-> "waiting"]
    /\ draft = Nothing /\ built = Nothing /\ source = Nothing /\ bytecode = Nothing
    /\ reusable = Nothing /\ tested = Nothing
    /\ used = [r \in Runs |-> {}] /\ met = {} /\ deaths = 0

-----------------------------------------------------------------------------
At(r, s) == pc[r] = s
Goto(r, s) == pc' = [pc EXCEPT ![r] = s]
Name(r) == draft[r].name
Rev(r) == IF draft[r] = None THEN 0 ELSE draft[r].rev

\* A next draft, or no pass is left.
Again(r) == Goto(r, IF Rev(r) < MaxDrafts THEN "writing" ELSE "clean")

Start(r) ==
    /\ At(r, "waiting")
    /\ Goto(r, "writing")
    /\ UNCHANGED <<files, draft, built, results, history, deaths>>

\* The model answers with a contract, whose name is its own choice.
Draft(r, n, c) ==
    /\ At(r, "writing") /\ Rev(r) < MaxDrafts
    /\ draft' = [draft EXCEPT ![r] = [run |-> r, rev |-> Rev(r) + 1, name |-> n, compiles |-> c]]
    /\ used' = [used EXCEPT ![r] = @ \union {n}]
    /\ met' = met \union {m \in {n} : \E q \in Runs \ {r} : Live(q) /\ n \in used[q]}
    /\ Goto(r, "clear")
    /\ UNCHANGED <<files, built, results, deaths>>

\* compile: rm, mkdir, writeFile, forge build
Clear(r) ==
    /\ At(r, "clear")
    /\ dir' = FALSE /\ src' = Nowhere
    /\ Goto(r, "mkdir")
    /\ UNCHANGED <<out, bin, draft, built, results, history, deaths>>

MakeDir(r) ==
    /\ At(r, "mkdir")
    /\ dir' = TRUE
    /\ Goto(r, "write")
    /\ UNCHANGED <<src, out, bin, draft, built, results, history, deaths>>

Write(r) ==
    /\ At(r, "write") /\ dir
    /\ src' = [src EXCEPT ![Name(r)] = draft[r]]
    /\ Goto(r, "build")
    /\ UNCHANGED <<dir, out, bin, draft, built, results, history, deaths>>

\* writeFile throws when the directory is gone, and nothing catches it.
WriteThrows(r) ==
    /\ At(r, "write") /\ ~dir
    /\ Goto(r, "threw")
    /\ UNCHANGED <<files, draft, built, results, history, deaths>>

\* forge reads the file of that name, whoever's it is by now; no file and a
\* broken one are both compile errors.
ForgeReads(r, from, to, failed) ==
    /\ At(r, from)
    /\ LET d == src[Name(r)]
       IN  IF d # None /\ d.compiles
           THEN built' = [built EXCEPT ![r] = d] /\ Goto(r, to)
           ELSE failed /\ UNCHANGED built
    /\ UNCHANGED <<files, draft, results, history, deaths>>

Build(r) == ForgeReads(r, "build", "building", Again(r))

BuildEnds(r) ==
    /\ At(r, "building")
    /\ out' = [out EXCEPT ![Name(r)] = built[r]]
    /\ built' = [built EXCEPT ![r] = None]
    /\ Goto(r, "source")
    /\ UNCHANGED <<dir, src, bin, draft, results, history, deaths>>

\* fullSource: the file as it is now, or the draft in memory
ReadSource(r) ==
    /\ At(r, "source")
    /\ source' = [source EXCEPT ![r] = IF src[Name(r)] # None THEN src[Name(r)] ELSE draft[r]]
    /\ Goto(r, "artifact")
    /\ UNCHANGED <<files, draft, built, bytecode, reusable, tested, history, deaths>>

ScannersBlock(r) ==
    /\ At(r, "artifact")
    /\ Again(r)
    /\ UNCHANGED <<files, draft, built, results, history, deaths>>

ReadArtifact(r) ==
    /\ At(r, "artifact")
    /\ bytecode' = [bytecode EXCEPT ![r] = out[Name(r)]]
    /\ Goto(r, "size")
    /\ UNCHANGED <<files, draft, built, source, reusable, tested, history, deaths>>

Fits(r) ==
    /\ At(r, "size")
    /\ Goto(r, "gate")
    /\ UNCHANGED <<files, draft, built, results, history, deaths>>

\* tryViaIRRescue builds the file again, as it is by then.
Oversized(r) ==
    /\ At(r, "size") /\ bytecode[r] # None
    /\ Goto(r, "rescue")
    /\ UNCHANGED <<files, draft, built, results, history, deaths>>

Rescue(r) == ForgeReads(r, "rescue", "rescuing", Again(r))

Rescued(r, fits) ==
    /\ At(r, "rescuing")
    /\ out' = [out EXCEPT ![Name(r)] = built[r]]
    /\ built' = [built EXCEPT ![r] = None]
    /\ IF fits
       THEN bytecode' = [bytecode EXCEPT ![r] = built[r]] /\ Goto(r, "gate")
       ELSE Again(r) /\ UNCHANGED bytecode
    /\ UNCHANGED <<dir, src, bin, draft, source, reusable, tested, history, deaths>>

\* Slip: the bytecode it deploys is left as it was.
ReuseStale(r) ==
    /\ At(r, "gate") /\ reusable[r] = Name(r) /\ bytecode[r] # None
    /\ Goto(r, "test")
    /\ UNCHANGED <<files, draft, built, results, history, deaths>>

\* runIntegrationGate: the suite of an unchanged interface is kept, and the
\* bytecode it deploys replaced by the run's own
Reuse(r) ==
    /\ At(r, "gate") /\ reusable[r] = Name(r) /\ bytecode[r] # None
    /\ bin' = [bin EXCEPT ![Name(r)] = bytecode[r]]
    /\ Goto(r, "test")
    /\ UNCHANGED <<dir, src, out, draft, built, results, history, deaths>>

\* generateIntegrationTest reads the artifact once more, and deploys that.
Generate(r) ==
    /\ At(r, "gate") /\ out[Name(r)] # None
    /\ bin' = [bin EXCEPT ![Name(r)] = out[Name(r)]]
    /\ Goto(r, "suite")
    /\ UNCHANGED <<dir, src, out, draft, built, results, history, deaths>>

WriteSuite(r) ==
    /\ At(r, "suite")
    /\ reusable' = [reusable EXCEPT ![r] = Name(r)]
    /\ Goto(r, "test")
    /\ UNCHANGED <<files, draft, built, source, bytecode, tested, history, deaths>>

\* No suite that compiles: another draft, or infrastructure it gives up on.
SuiteFails(r, gives) ==
    /\ pc[r] \in {"gate", "suite"}
    /\ reusable' = [reusable EXCEPT ![r] = None]
    /\ IF gives THEN Goto(r, "clean") ELSE Again(r)
    /\ UNCHANGED <<files, draft, built, source, bytecode, tested, history, deaths>>

\* forge test runs the suite of that name, which deploys the file as it is now.
TestPasses(r) ==
    /\ At(r, "test")
    /\ tested' = [tested EXCEPT ![r] = bin[Name(r)]]
    /\ Goto(r, "clean")
    /\ UNCHANGED <<files, draft, built, source, bytecode, reusable, history, deaths>>

TestFails(r) ==
    /\ At(r, "test")
    /\ tested' = [tested EXCEPT ![r] = None]
    /\ Again(r)
    /\ UNCHANGED <<files, draft, built, source, bytecode, reusable, history, deaths>>

\* cleanupCodegen, and the result
CleanUp(r) ==
    /\ At(r, "clean")
    /\ dir' = FALSE /\ src' = Nowhere
    /\ Goto(r, IF tested[r] # None THEN "ready" ELSE "not ready")
    /\ UNCHANGED <<out, bin, draft, built, results, history, deaths>>

\* A model call throws: the result is an error, and nothing is cleaned up.
Throws(r) ==
    /\ pc[r] \in {"writing", "suite"}
    /\ Goto(r, "threw")
    /\ UNCHANGED <<files, draft, built, results, history, deaths>>

\* The process dies with all its runs; the files stay.
Dies ==
    /\ deaths < MaxDeaths
    /\ deaths' = deaths + 1
    /\ pc' = [r \in Runs |-> IF Live(r) THEN "dead" ELSE pc[r]]
    /\ UNCHANGED <<files, draft, built, results, history>>

Step(r) ==
    \/ Start(r) \/ \E n \in Names, c \in BOOLEAN : Draft(r, n, c)
    \/ Clear(r) \/ MakeDir(r) \/ Write(r) \/ WriteThrows(r) \/ Build(r) \/ BuildEnds(r)
    \/ ReadSource(r) \/ ScannersBlock(r) \/ ReadArtifact(r)
    \/ Fits(r) \/ Oversized(r) \/ Rescue(r) \/ \E f \in BOOLEAN : Rescued(r, f)
    \/ Reuse(r) \/ Generate(r) \/ WriteSuite(r) \/ \E g \in BOOLEAN : SuiteFails(r, g)
    \/ TestPasses(r) \/ TestFails(r) \/ CleanUp(r) \/ Throws(r)

WorkspaceNext == Dies \/ \E r \in Runs : Step(r)

WorkspaceSpec == WorkspaceInit /\ [][WorkspaceNext]_workspaceVars

-----------------------------------------------------------------------------
\* A vault that is delivered as tested is one draft of its own run (the source
\* shown, the bytecode to deploy and the bytecode the tests deployed), unless
\* two live runs wrote contracts of its name: neither another run's files, nor
\* what an earlier run or a death left behind, nor an own earlier draft get in.
ReadyIsOneDraft ==
    \A r \in Runs :
        pc[r] = "ready" /\ Name(r) \notin met =>
            source[r] = draft[r] /\ bytecode[r] = draft[r] /\ tested[r] = draft[r]

\* A build never works on another attempt than the one its run wrote
\* (codegen-compile.ts:35: "Clear any prior generated file so stale/broken
\* attempts never pollute `forge build`/`forge test`").
NeverPolluted ==
    \A r \in Runs : built[r] # None => built[r] = draft[r]
=============================================================================
