# Verification of Vaultgen

Vaultgen turns a prompt into a Solidity vault: a chat page starts a *run*, the
server plans the mechanic, drives a model, a compiler, scanners and fork tests
until a draft passes or budgets end, streams what happens to the page and stores
the result. The page launches the vault through contracts on chain and then
shows a panel to use it. This directory holds TLA+ models of the parts whose
behaviour depends on order, failure and staleness, or on a decision that passes
through many hands; TLC configurations that check them; and TLAPS proofs.

    tlc -config RunManager.cfg MCRunManager.tla      # a run of the checks
    tlapm RunProofs.tla                              # the proofs of a module

## Inventory

| Component | State | Operations | Interacts with | What is hard |
|---|---|---|---|---|
| Run manager, `server/run-manager.ts` | map of runs; per run status, counter, buffer, listeners | `register`, `subscribe`, `execute`, `handleCodegenEvent`, `finishWithResult`, `finishWithError` | starts the pipeline, writes the store, feeds streams | un-awaited handlers, a chain of ten writes that a fault or a death cuts anywhere |
| Stream route, `server/chat-routes.ts` `streamRun` | one handler per connection | lookup, subscribe, replay, notice | run manager, store, client | row read before the subscription is used after it; listener versus replay |
| Stream client, `web/src/lib/chat-api.ts` `streamRunEvents` | last number, stall count | connect, deliver, back off | stream route | skipping by number over two servers' numbering, giving up |
| Chat store, `server/chat-store.ts` | chats, messages, runs, events, artifacts | one call each, no transactions | everything on the server | every call can fail, with or without effect |
| Generation pipeline, `server/codegen.ts` | about thirty variables of three loops | draft, compile, scan, gate, advise, repair | model, forge, scanners, critic | staleness between the variables, budgets, rollback |
| Compile and artifacts, `server/codegen-compile.ts` | `src/_codegen`, `out/`, `test/_codegen` | `compile`, `readArtifact`, `tryViaIRRescue`, `cleanupCodegen` | pipeline, fork tests | directories shared by all runs of the process |
| Fork tests, `server/test-gen.ts` | suite and bytecode files | `generateIntegrationTest`, `runIntegrationTests` | pipeline | the file tested versus the bytecode delivered |
| Critic, audit, repair, `server/{economic-critic,spec-audit,critic-repair}.ts` | none | model calls, selection of findings | pipeline | which source they are about |
| Deploy gate, `web/src/lib/deploy-gate.ts` | none | `isDeployReady`, `isLaunchReady` | launch flow | consistency of the result it reads |
| Chat routes, `server/chat-routes.ts` | none (store) | start a run, approve a plan, claim, archive, continue | store, run manager | check-then-act on rows, which turn a run continues |
| Sign-in, `server/auth.ts`, `web/src/components/WalletUserSync.tsx`, `web/src/lib/current-user.ts` | pending nonces with a cap, secret; session, list of anonymous chats | nonce, verify, session, claim | routes, wallet | expiry, eviction, answers after the account was switched, owner checked and then written |
| Intake gates, `server/{vault-scope,design-questions,vault-plan,prompt-language}.ts` | none | classify, ask | pipeline | which stop wins |
| Mechanic planning and scanners, `server/{mechanic-spec,mechanic-completeness,money-flow,constitution}.ts` | none | `planMechanicSpec`, `scanMechanicCompleteness`, scanners of text | intake gates, pipeline, fork tests | a field that is missing, invalid, inferred or defaulted on its way through four functions |
| Model client, `server/ai-client.ts` and prompts | none | call with retries | pipeline | time limits |
| Chat page, `web/src/ChatPage.tsx` | view state | reduce events | stream client, REST | events against reloads |
| Launch flow, `web/src/components/LaunchOnFlapPanel.tsx`, `web/src/lib/flap-*.ts` | phase, factory, registration, token, records | deploy a factory, register, launch | wallet, contracts, chat routes | handlers that outlive the render, the network and the panel they were started for |
| Contracts, `src/src/*.sol` | one registration per wallet; balance, claims, cooldown | `registerVault`, `newVault`; `claim`, `receive`, `withdraw` | launch flow, recipients | a registration read and deleted; recipients that call back or fail |
| Custom vault UI, `web/src/components/VaultCustomUI.tsx`, `web/src/lib/vault-ui-bridge.ts`, `web/src/vault-runtime/*` | the frame's document, pending calls, open requests | read, write, switch chain, push the wallet | frame and page by message, wallet | documents replaced and calls numbered anew, timeouts, late answers |
| Standard vault panel, `web/src/components/VaultUIPanel.tsx`, `web/src/lib/vault-ui-schema.ts` | a form and a status per method | execute: switch, approve, send, wait | wallet, vault | overlapping submits, edits and reloads while prompts are open |

`PROJECT.json` lists the same components with their status, and the hazards of
the code line by line, each with the properties that catch it or the reason why
none does.

## Modules

| Module | Models | Uses |
|---|---|---|
| `RunOutcome` | what a run promises: an outcome decided once, recorded before it is announced or never, nothing after a death | |
| `RunManager` | one run: registration, execution, persistence, ending, death | instantiates `RunOutcome` |
| `RunStream` | the connections of clients to the stream of that run, server and client side | extends `RunManager` |
| `CodegenPipeline` | the generation loop from the first draft to the result | |
| `SharedWorkspace` | the directories that all runs of a process share | |
| `MechanicPlan` | from a prompt and the planner's answer to the specification that is built, and what it is held to | |
| `ChatTurns` | the turns of one chat: page, start of a run, what a turn continues, the gates, the end | |
| `Accounts` | signing in, sessions, the chats made with and without one, claims | |
| `VaultFactory` | the chain: transactions mined in nonce order, the registrations of the factory | |
| `LaunchFlow` | the launch panel, its records, its wallet | extends `VaultFactory` |
| `FreeCoinVault` | the sample vault, with recipients that call back | |
| `VaultBridge` | page and frame of a generated vault UI | |
| `VaultPanel` | the standard panel of a launched vault | |
| `RunProofs` | proofs about `RunManager` and `RunStream` | extends `RunStream` |
| `GenerationProofs` | proofs about `MechanicPlan` and `SharedWorkspace` | extends both |
| `VaultProofs` | proofs about `FreeCoinVault` and `VaultPanel` | extends both |
| `CodegenPipelineProofs`, `ChatTurnsProofs`, `AccountsProofs`, `LaunchFlowProofs`, `VaultBridgeProofs` | proofs about the module of that name | extend it |
| `MCRunManager`, `MCRunStream`, `MCMechanicPlan`, `MCLaunchFlow`, `MCSharedWorkspace`, `MCVaultBridge`, `MCVaultPanel` | values of the constants | extend it |

The composed modules are `RunStream` (the run manager with its route and clients)
and `LaunchFlow` (the panel with the chain). `CodegenPipeline`, `SharedWorkspace`,
`MechanicPlan` and `ChatTurns` look at the same generation from four sides:
one run's variables, several runs' files, the specification, and the turns; what
one of them decides is a free choice in the others, so that each stands for every
behaviour of the rest.

A definition under a comment that begins with `Slip` is a wrong version of the
definition behind it, the way a plausible error in the code would be. No
specification uses one: put in the place of the right one it makes TLC find a
property violated, which shows that the property looks at that code
(`mutants` in `PROJECT.json`).

### RunManager and RunOutcome

A variable stands for a field of `RegisteredRun` (`status`, `sequence`,
`buffer`, `started`; `registered` says that the `runs` map has the record), for
what the store holds (`row`, `msg`, `log`, `saved`), or for where `execute()` is
(`pc`, one value per `await`). An action is the code between two awaits: what
`execute()` does when the call it awaits returns. The handlers of generator
events are started with `void`, so their appends are in flight together:
`unsettled` holds the numbers of those that have not returned, and
`AppendReturns(n)` lets each return when it likes, having taken effect or not. A
caller that awaits `event()` waits for the number emitted last (`Settled`).

A store call that fails may have taken effect (the response was lost) or not;
actions say which rows it can leave. The three places that treat failure
differently are kept apart: `.catch(() => null)` on the first two updates, the
`catch` of `persist`, and the `catch` of `finishWithResult`, which skips all
later writes and announces the end all the same (`SkipWrites`).

`Restart` is the death of the process: the map is empty in the next one. The
model keeps `sequence`, `buffer` and `result` of the dead record as history, so
that the log can be compared with what was emitted; no action reads them
after a death except properties.

Abstractions: the event kind `status` stands for every progress kind that is
persisted and `code_delta` for the ephemeral one; a result is the set of its
parts; all repair attempts are one part, though a fault between two of them is
then a fault of that part. The title read (`getChat`) and its update are one
part, `title`.

`RunOutcome` is the abstract protocol. The mapping is `Decided` (the status in
memory), `Recorded` (the row), `Announced` (the terminal event of the buffer)
and `registered` for `alive`.

### RunStream

One phase per client covers the handler on the server and the loop in the page:
`opening` (the handler is in its lookups; `snap` is the row it read), `live`
(subscribed), `replaying` (awaiting `listEvents`), `closing` (response ended,
not all read), `backoff` (two seconds), `done`, `lost`. `wire` is what was
written and not read. `Broadcast` is conjoined with every step of the run:
`emitStream` calls the listeners in the same turn. A connection cut during
`opening` leaves a handler that still subscribes for nobody and can start the
run (`orphan`). `Cut` is what a cut does to the client: before the headers have
come, `fetch` itself rejects, and a client that never had an event then gives up
at once (`lost`); any other counts a connection without progress and backs off.

Not modelled here: heartbeats (they carry number -1 and are dropped by the
client), leaving the page (`AbortSignal`), 404 and 403 answers (the client throws), a
failing `getRun` or `getChat`: the rejection is not handled (`void streamRun`) and
ends the process, which is `ServerRestart`.

### CodegenPipeline

One `pc` value per stage; `loop` says which of the main, test-fix and repair
loops the stage belongs to, and the head of a loop is the `pc` value of its
name, so `continue` is `pc' = loop` and `break` is `After(loop)`. Everything the
loop writes about the vault is tagged with the number of the pass that made it:
`draft.code`, `.name`, `.source`, `.bytecode`, `.scanned` (the source the
scanners' verdict is about), `.tested` (the bytecode the fork run deployed).
Properties about staleness are then equalities of numbers. The answers of the
model, the compiler, the scanners, the fork tests, the critic and the audit are
free choices; so are the interface a draft has and whether it fits under
EIP-170 at once or after `--via-ir`. A rule or a fork failure that repeats is a
member of `Rules` or `Signatures`.

`Throws` is an exception that no stage catches: a model call, the file operations of
`compile`, a suite's files, and the clearing of the directories after the last
stage, which costs even a finished result. The outer handler turns it into an
`error` event without a result, and the run manager into `run_failed`.

`TestsSkipped` is a fork run that could not reach its fork, or that is switched
off: the code counts it as passed and says so in the report (`tested` is 0
then). Whether a deploy-ready vault should have been through its tests, as the
README of the repository suggests, is for the team to decide.

Not modelled: truncated output, the history sent to the model, the spec
pre-audit (it is asked once and not renewed after repairs), an artifact that
cannot be read after a build that passed (`readArtifact` then yields null
bytecode; the bytecode of a build is assumed readable), directories shared with
other runs (`SharedWorkspace` has those), failures of the advisory calls, which the code
catches.

### SharedWorkspace

`dir` and `src` are `src/_codegen`, `out` is forge's output, `bin` is the
bytecode in `test/_codegen` that a suite deploys. A draft is `[run, rev, name,
compiles]`: contracts of one name share a file. A run is at one of the points
where it waits, for a file operation or for a forge process; `built` is what its
forge process has read, which other runs may replace before it ends. `source`,
`bytecode`, `reusable` and `tested` are the variables of the run. Which way a run
goes at each point is free as far as the files allow it. A death stops all runs
and leaves the files, which the next process finds.

`ReadyIsOneDraft` is the strongest statement that holds without a lock: what is
delivered as tested is one draft of its own run, unless two runs that were alive
together wrote contracts of one name (`met`). `NeverPolluted`, which the comment
in the code promises, does not hold.

### MechanicPlan

A prompt is what the heuristics find in its words (a record of booleans), an answer
what the planner's JSON has in its fields, each of which may be `"missing"` (absent
or of the wrong kind; where the code treats these differently, as with a winner flag
that is no boolean, there is an `"invalid"`, and actions that are no list are
`NoAnswer`), a source what the scanners' patterns find in a contract. Which words or
Solidity text make a pattern match is left out; what the functions make of the
matches is all there: the heuristic plan (`InferSpec`), the answer checked field by
field against it (`Normalize`), the gate over the questions left open, the defaults
with the decisions recorded for the user, the findings that block and that warn
(`Blocking`, `Warnings`), and the journeys that the test generator is asked for, cut
at `MaxJourneys`. The steps are planning, the gate, defaults, building; the
interesting part is not their order but that a field goes through four functions
that each may fill it in.

Left out: the consent gate (in `ChatTurns`), journeys of payouts for a
submission and those listed behind the lifecycle ones, the texts of rules.

### ChatTurns

A turn is a record whose `stage` says where the handler of the request, and then
the run, has got to. `text` is the turn its prompt was typed for, so that a
resent prompt is equal to the first; `brief` is the set of texts the model is
given, directly, in the history, in the plan that was approved, in the contract
that is changed or in the reply that is folded in. `base` is the last completed
run as the generator read it. The ending is `RunManager`'s, in the four steps
that another turn can tell apart: decided (cards and results are emitted), row
settled, reply and artifact stored, announced.

A page has the turn it is sending, the run it watches, what it shows of it, and
how many of the messages it has loaded; `read` matters because every button
sends the last user message that was loaded. `Streaming` is the condition that
disables the composer. Cards appear as soon as the run has decided, before the
row is written: that is what the code does, and what `ApprovesWhatWasShown`
is about.

Each failing store call, lost response, given-up stream and death of the process
uses up one of `MaxFaults`. Calls of one handler that nobody else can observe
apart are one step (placeholder and row; the two lists the generator reads and
the artifacts it then looks for).

Not modelled: creating the chat (the model starts with an empty one), claiming (in
`Accounts`) and archiving, "Stop here" (it only hides a card), a page that is
reloaded or whose post overtakes its own loading, the stub result without an API
key, and the page's branch for a `run_completed` without a result
(`finishWithResult` always sends one). `PostFails` may come while the handler works
on the post, which goes on.

### Accounts

`nonces` is the table of pending nonces, which is pruned of what expired and of the
oldest at its cap before a nonce is added. A `Map` keeps the order of insertion;
here nonces are numbered as they are issued, and a nonce stays while fewer than
`MaxPending - 1` younger ones are fresh. The request that verifies is two steps:
`Connect` checks the signature and takes the nonce, `Issue` makes the token when the
user's row has been written; time, other requests and a death of the process come in
between. A token remembers its nonce and when that was issued and checked, so that
`SessionsAreProven` can say what it was earned with. A flow is one run of the effect
of `WalletUserSync`: it may be cancelled (the wallet changed) at each of its waits
and goes on to the next. Claims are read and written in two steps, as the route has
them. `making` and `opening` are the two requests of the page that carry a session
which may be another one when they are answered. `WalletChanges` is the wallet's
event with the render and the cleanup of the effect that cancels the flow: the
account comes from an external store, whose render React runs at once, and no answer
is delivered before its effects have run. `Restart` gives a new random secret unless
one is set. Not modelled: the sign-in text, revocation (there is none).

### VaultFactory and LaunchFlow

Transactions are numbered in the order of signing; those of an account are mined in
that order, may revert, and may be replaced in the wallet by one of the same nonce
that does nothing (`Replace`). A replacement that does the same for a higher fee
differs only in its hash, and is the transaction itself here. Waiting for a receipt
follows the nonce and returns that of the replacement (`ReceiptIsSuccess`).
`slots[f][a]` is the number of the registration that factory `f` holds for `a`.
`MineLaunch` consumes it, as `newVault` deletes what it reads. `ChunkStart` and
`ChunkEnd` are the cutting of code in `BytecodeStorage`.

`LaunchFlow` has the panel's state (`panel`), the wallet, what the chat page hands
it (`chat`), and the asynchronous work: `configs` and `reading` for loads that have
not returned, `ops` for handlers, `posts` for launch-status requests. A handler
carries the values of the render that created it (network, factory, account, code)
and files its results under them. The state it sets is lost when its panel has been
unmounted; its records (`cache` in the browser, `db` in the chat) are not. Records
are written only after a receipt, whichever transaction it is of. A read returns
what the chain is when it answers, so a node that lags behind its own receipts is
left out; whether the portal knows a token that no launch made is its own choice
(`VaultNotFound`, `TokenLaunched`), as it is external.

Not modelled: upload of the metadata, the search for a vanity address, the
checklist for mainnet, the probe and the build fingerprint of a factory, decoding
of errors.

### FreeCoinVault

A payment is a call of the recipient, so `claim`, `receive` and `withdraw` are each
two actions: until the payment and after it. `stack` holds the frames that wait for
a recipient, with the storage that a failure goes back to; while it is not empty,
the recipient may call any function or have another account do so. The history in
the storage (claims, received, withdrawn) is undone by a revert with the rest. The
checked addition of the cooldown to the block's time reverts beyond `MaxUint`. BNB
that is forced into the contract without a call is left out: it would be balance
that no book mentions.

### VaultBridge

`doc` is the document in the frame with the number of its next call and the calls
that wait (`pending`); `toHost` and `toFrame` are the messages under way; `ops` are
the requests the page works on, each with where it waits; `txs` the transactions it
sent, each pending, mined, reverted or replaced in the wallet by another of its
nonce, whose receipt the page then takes. A document is replaced when the vault
shown changes; messages to the old one are gone, answers to its calls are delivered
to the new one, whose numbers begin at one again. A call times out in the frame
while its request goes on in the page. `settled` is the history of how calls ended.
Not modelled: the widgets, the resizing of the frame, the generation of the
component.

### VaultPanel

A submit carries what its click captured: the row typed, the card, the mount.
`allowance` is of one token, set and not added to by an approval. A refresh makes
all cards anew (`mount`); the submits of the old ones go on and set nothing. The
unmount while the panel loads and the mount after it are one step: in between there
is no card to click. `Undone` is a transaction that reverts or is replaced in the
wallet. The wallet's account is fixed. Not modelled: methods that only read, array
inputs, decoding of the schema, approvals of several tokens.

## Runs

| Run | Question | Bounds |
|---|---|---|
| `RunManager` | all properties of one run, with liveness and refinement | a contract with four parts and a spec-only result, 3 progress events, 2 faults, 1 death |
| `RunStream` | what a client sees over a fault, a cut and a death; that it is served to the end, and stops | 1 client, 2 events, 1 fault, 1 death, 1 cut, 2 stalls |
| `CodegenPipeline` | the pipeline | 4 main, 2 fix, 2 repair passes; 2 rules, 2 failures, 2 interfaces; 2 blocks per rule, 2 identical failures |
| `SharedWorkspace` | what a run delivers is its own, with other runs and deaths | 2 runs, 2 names, 2 drafts each, 1 death; symmetric in runs and names |
| `MechanicPlan` | defaults weaken no gate and are told, silence makes no winner | 78 prompts, about 430 answers, 3 choices, 8 sources, the code's cut of 52 |
| `ChatTurns` | no contract without a go-ahead; turns continue what was shown; the page can be used again | 1 page, 3 turns, 2 faults; a fault takes the room of a turn |
| `LaunchFlow` | registrations and vaults, records and what happened, buttons and handlers | 2 accounts, 2 networks, 2 revisions of one description (one reverts), 4 transactions, 1 fault, 1 move of the user (replacing a transaction is one) |
| `FreeCoinVault` | claims and books with recipients that call back | 3 parties, reward 1, cooldown 1, largest number 3, 2 units of BNB, time 3, 2 nested calls |
| `Accounts` | sessions, owners, late sign-ins | 2 wallets, 1 chat, 1 pending nonce, lifetimes 1, a random secret, time 2, 2 sign-ins, 2 faults |
| `AccountsTaken` | a claim takes a chat from its owner (counterexample) | time 1, 3 sign-ins, no faults |
| `VaultBridge` | calls end once, successes are mined, the wallet shown catches up | 1 vault and the preview, 1 account, 2 documents, 2 calls each, 1 change of the wallet |
| `VaultPanel` | allowance and the success shown | 2 cards (one approval; two of one field), amounts 1 and 2, 2 clicks, 1 change, 1 refresh |

Why the bounds are enough. *Run and stream*: two faults let one hit the first
phase and one the ending. No run is ever resumed, so a second death changes
nothing about a run. Clients do not act on each other: a second tab is
`RunManager`'s `Subscribe`, which any number of clients may take. Three progress
events give one ephemeral and one persisted event in each order with another
behind. A client stalls out after 2 idle connections instead of 5 (`MaxStalls`):
the count is only compared, and with fewer than the number of cuts that a
behaviour can have, both outcomes occur. *Pipeline*: the budgets are smaller than
the code's (12, 8, 4, 3, 2 or 3) and large enough that each can be used up, with
each of the others untouched, in one behaviour. *Workspace*: interference is
between two runs at a time; with two drafts a run overtakes itself, and two names
let runs share a file or not. *Plan*: the functions look at payout rules one by
one, so lists of at most two rules cover a rule and its neighbour; a field takes
its missing, its safe and its risky values. *Turns*: three turns are
a question or a plan, its answer, and a change of what came of it, which is every
branch of the generator; two turns already overlap, when the first is answered by
its card or its stream is lost. *Launch*: four transactions are two registrations
and two launches of one wallet, or one of each of two; revisions of one
description are the case the panel cannot tell apart. *Vault*: three
parties are the guardian and two claimants; a nested call in a nested call meets the
guard twice. *Accounts*: a cap of one makes every second nonce an eviction.
*Bridge and panel*: two documents or two submits are what can be confused.

`CHECK_DEADLOCK FALSE` everywhere: a run, a client and a pipeline end, and users
and wallets may do nothing more.

The type invariants of `RunStream` (`StreamTypeOK`), `SharedWorkspace` and
`VaultPanel` are stated in the modules and hold under the configurations above;
the runs spend their properties on the others.

### Kept counterexamples

These configurations are kept beside the runs. TLC ends each in a behaviour of the
code that a comment, a text shown or the repository's README says does not
happen (the module quotes it at the property).

| Configuration | Property | What happens |
|---|---|---|
| `RunStreamSkips` | `OnlySeenIsSkipped` | After a restart the notice "run is no longer active" is numbered by the count of persisted events. A client that has seen more (each `code_delta` took a number) skips it, reconnects until its stalls are used up, and reports a lost stream. |
| `RunStreamSettled` | `SettledReplayEnds` | Death between the row's update and the terminal event leaves a settled run whose replay has no end; the client reconnects as above. |
| `CodegenPipelineFix` | `FixingUsesItsBudget` | A draft of the test-fix loop that does not compile ends that loop, though a prompt to fix it was prepared. |
| `CodegenPipelineThrow` | `RepairLosesNothing` | An exception in an advisory repair loses a vault that had passed every hard gate. |
| `ChatTurnsSpecOnly` | `SpecOnlyBuildsNothing` | The choice "draft spec only" is looked at only when the gates stop again; the classifier is a model call and may not stop then. |
| `ChatTurnsChoice` | `ChoiceKeepsTheIdea` | After a follow-up, the choice buttons send the follow-up, and the contract is written of that alone. |
| `ChatTurnsApproval` | `ApprovesWhatWasShown` | An approval that overtakes the completion of the plan's row builds the plan before it. |
| `LaunchFlowSent` | `FailedMeansNothingSent` | A launch that reverts, or whose receipt cannot be read, is shown as a failed preflight: nothing sent, no gas spent. |
| `LaunchFlowReplaced` | `LaunchedIsMined` | A launch that the user cancels in the wallet is recorded as launched: the receipt of the cancellation is a success. |
| `LaunchFlowMatches` | `RegisteredMatchesPayload` | Revisions of one description are taken for each other: "registered on-chain: yes (matches current payload)" with the code of the other. |
| `AccountsForgotten` | `ListedUntilClaimed` | The list of anonymous chats is cleared after claims that failed. |
| `VaultBridgeAnswers` | `AnswersOwnCall` | An answer to a call of the document before is taken for one to a call of this document. |
| `SharedWorkspacePolluted` | `NeverPolluted` | A build of one run compiles what another run wrote. |
| `VaultPanelApprovals` | `SendsAfterApprovals` | The call is sent after an approval that did not take effect, reverted or replaced: its receipt is awaited, neither its status nor its hash is looked at. |
| `MechanicPlanWinner` | `ExplicitNoIsHeard` | "explicit flags win": a planner's `winnerTakesAll: false` is overruled by the mode of the heuristic plan, and a drain of the pool is then not blocked. |
| `MechanicPlanResolved` | `ResolvedStays` | The defaults also replace a reservation that was said not to apply, and a winner rule without an amount. |
| `MechanicPlanTests` | `StuckIsTested` | The journeys are cut at 52 and those of the lifecycle are listed behind those of the actions: with enough actions no test of a stuck user is asked for. |

### Fairness

`FairSpec` of `RunManager` assumes that `execute()` goes on when what
it awaits has returned, and that each store call in flight returns, failed or
not: the event loop and the HTTP client's time limits. It assumes that the
generator returns (its calls have time limits; that the loop ends is
`Terminates`). `StreamFairSpec` adds that handlers and clients with something to
do do it, and that a client in back-off connects again. Nobody is assumed to
open a stream. `FairSpec` of `CodegenPipeline` is weak fairness of its only
thread. `FairSpec` of `ChatTurns` assumes that handlers and runs of a live
process go on and that a page takes the responses and events that have arrived;
nobody is assumed to press a button. `FairSpec` of `VaultBridge` assumes that
effects run after a render, posted messages are delivered, and documents load
and boot; wallet, chain and timers owe nothing. The other modules state
safety only: what they wait for is a user, a wallet or a chain.

### What they show

Hold. *Runs*: events are numbered by their place in the buffer; a run starts once
and ends once, with nothing behind; the log holds only what was emitted and is to be
persisted; parts are stored as a prefix; an announced end is stored, unless a write
of the ending failed; a settled row is never turned over; store faults do not keep a
started run from its end. *Streams*: a client never misses an event of the run by
skipping it, has no gap while the process lives, hears of a lost run only when there
was a death, and stops. *Pipeline*: the result is of one draft and, when
deploy-ready, of the bytecode that was tested if any was; repairs that come to an
end keep the gates; it ends. With other runs at work this stays so as long as no
live run writes a contract of the same name. *Plan*: no default unlocks a finding,
each is shown, and a drain of a shared pool is blocked unless someone spoke of a
winner. *Turns*: no contract is written of an idea that was refused, or without an
approval or a choice, whatever reads fail; without failures a turn continues the run
whose end the user saw or a later one; a page is never left waiting. *Accounts*: a
session was earned with a fresh signature of its wallet and a nonce of its own, a
chat made under a session stays its wallet's, and a late sign-in does not change who
the page is. *Launch*: each vault launched without inline code is of one
registration of its own; what is recorded or shown as deployed, registered or
launched is a transaction of that kind, of the network it is filed under, with a
receipt of success (its own, unless the user replaced it); the buttons are free
exactly when no handler works. *Vault*: one claim per account, cooldown kept, books
balanced under reentrance. *UI*: a call ends once and a success it was told of was
mined, as itself or as what replaced it; the frame comes to see the wallet as it is;
a submit that nothing overlaps sends its call with the allowance it needs, and the
success shown is the last submit's.

Does not hold (`findings` in `PROJECT.json`): `OwnerKept` in `AccountsTaken`. The
claim route checks the owner and updates the chat in two calls; two claims that
both passed the check give the chat to the one that comes last, and take it from
an account that owned it by then. The counterexamples kept above are of the same
weight; they are listed apart because each asks one question of a module that the
runs already cover.

## Proofs

Proofs hold for all values of the constants that meet the assumptions of the module
(`ASSUME`, evaluated by TLC in the runs). Each module of proofs has one inductive
invariant (more where the arguments are independent): TLC checked it as an invariant
of the run before it was proved, and the properties are conjuncts or consequences of
it.

| Module | Invariant | Properties of the runs that follow |
|---|---|---|
| `RunProofs` | `IInv`, `StreamInv` | `TypeOK`, `OneStartOneEnd`, `EndingIsStored`, `ImplementsRunOutcome`; `SeesTheRun`, `TellsOnlyWhatIsStored` |
| `CodegenPipelineProofs` | `IInv` | `TypeOK`, `LaunchReadyIsOneDraft`, `DeployReadyWasTested`, `RepairKeepsGates`, `CritiqueIsOfSource` |
| `GenerationProofs` | `PlanInv`, `WorkspaceInv` | `DefaultsWeakenNoGate`, `NothingIsSilent`, `DrainIsBlocked`; `ReadyIsOneDraft` |
| `ChatTurnsProofs` | `TurnInv`, `ChatInv` | `TypeOK`, `CodeHasGoAhead`, `ContinuesWhatWasShown` |
| `AccountsProofs` | `IInv` | `TypeOK`, `SessionsAreProven`, `BornOwnedStays`, `SignsInConnectedWallet` |
| `LaunchFlowProofs` | `ChainInv`, `LaunchInv` | `TypeOK`, `OneVaultPerRegistration`, `RecordsAreOnChain`, `BusyWhileWorking` |
| `VaultProofs` | `IInv`, `BooksInv`, `PanelInv` | `TypeOK`, `ClaimRules`, `BooksBalance`; `SoleSubmitIsCovered`, `SuccessIsTheLast` |
| `VaultBridgeProofs` | `BridgeInv` | `TypeOK`, `CallsEndOnce`, `OwnSuccessIsMined` |

`RunProofs`, the run. Beside the run's properties it proves `Numbering`,
`LogSoundness`, `StoredPrefix` and `RowSettled`, which the runs need not repeat. None
of the invariants is inductive alone. `IInv` adds two conjuncts that say what each
place in `execute()` knows: `Lifecycle` (the status in memory, that nothing was
emitted before the start and nothing terminal before the end) and `StoreFollows` (the
rows and parts that have been written by then, unless a write of the ending failed).
`Emissions` reduces every step to "emits nothing" or "emits one event, first if it is
`run_started`, and not after a terminal one"; numbering, one start and one end, and
the log then follow without looking at the actions again. `EndingStep` uses
`StoreFollows` at the two announcing steps and that no write follows them. The
refinement maps `GeneratorReturns` to `Decide`, `CompleteRun` and `FailRun` to
`Record`, `AnnounceCompleted` and `AnnounceFailed` to `Announce`, `Restart` to `Die`,
all else to a stutter.

`RunProofs`, its clients. While the process lives, what a client has seen and what is
on its wire are together the beginning of the buffer (`LiveWire`: the `Nth` event of
the run on a wire is the next after what was seen), so skipping by number skips what
was seen. After a restart the log is replayed: `LogIsListed` shows that `Persisted`,
which puts each stored event at its rank, lists the log in order and completely. A
client told that the run is complete was told by an event of the buffer, and
`EndingIsStored` says the rest.

`CodegenPipelineProofs`. `IInv` says for each stage which tags of the draft agree:
`BetweenPasses` (a compiled draft that is not blocked is whole), `DuringPass` (the
parts written so far are of this pass; a repair still has a whole snapshot to go back
to), `Remembered` (the state before the repairs and the critique stay about the draft
they were taken of) and `Budgets`. Each conjunct has one lemma with a step per stage.
`PipelinePassesRunOut` is the bound behind `Terminates`: `WorkLeft` decreases with
every step and stays at least 0, so no answers, however they repeat, make the loops
go round for ever. (That a fair run then ends is liveness, which TLC checks.)

`ChatTurnsProofs`. `TurnInv` adds to `CodeHasGoAhead` that a row is completed only
after its turn has decided, and that the base of a turn is such a row; what is
decided never changes, so that a go-ahead found once stays one. The property is then
an induction along the turns: the base of a turn is an earlier one. `ChatInv` adds
the types, the rows (each a turn of its own) and, while nothing has failed,
`ShownInv`: the turn whose end a page showed when it sent is completed, and stands no
later among the rows than what the new turn will continue. Ten handlers move turns;
`Serves` is what they have in common (one turn moves, its row and its messages say no
more than it did), and the invariant is proved from that once.

`AccountsProofs`. `NoncesInv`: numbers are issued once, and a nonce that gave a
session is pending no more. `ProvenInv`: nor is one that a request has taken and not
yet made a token of, and no two requests have the same; so a token can be minted of
it only once. `FlowsInv`: a
sign-in that is not cancelled is of the connected wallet, which is
`SignsInConnectedWallet`. `ChatsInv`: a claim that found a chat anonymous is of one
made anonymous, whatever claims did to it in between; with it a chat born under a
session is never written. That the table keeps its cap is `PrunedFits`.

`LaunchFlowProofs`. `ChainInv` says that a slot holds a registration of its own
account and factory that succeeded, and that no launch has consumed it; every action
of the panel leaves the chain alone or signs a transaction, which gives
`OneVaultPerRegistration`. `LaunchInv` is about the panel: `LoadedIsPrefix` (the
chat's artifacts are a beginning of what is stored), `RecordsHold` (a record speaks
of a transaction with a receipt of success on its network), `HandlersKnow` (what a
handler carries is so on chain), `ShownIsLaunched` (the token shown is one of the
network chosen) and `PhaseIsWork`. What was true of the chain stays true
(`ChainGrows`), so records need proof only when they are written. `mergeVaultState`
is a fold over the artifacts; `Merged` shows that what it returns was in one of
them. `ChunksCoverTheCode` is about `BytecodeStorage`, for code of any length.

`VaultProofs`, the FreeCoin vault. A revert goes back to a remembered state, so
`IInv` says of every frame what it says of the storage, and that the guard is held
exactly while a claim is on the stack; `BooksInv` does the same for the books. It
also proves that at most one claim is under way (`FreeCoinOneClaim`).

`VaultProofs`, the panel. `PanelInv` says of each submit where it can be (`Placed`:
which step has which transaction pending, at which of its approvals), what it may rely
on (`Covered`: with one approval, the allowance is enough from the approval's receipt
or the first look until the call is sent) and what its card shows (`Told`); and of two
submits that neither runs beside one that is alone (`Apart`). The steps of a submit
are of two kinds, those the card shows (`GoesKeeps`) and those of the chain
(`ChainKeeps`), and only `Apart` is needed to see that either leaves the other
submits as they were. That the types hold includes that the sum of any number of
approvals is a number.

`VaultBridgeProofs`. Numbers are given anew by each document, so a call is known by
its document and its number. `BridgeInv` says that everything under way was issued
(`Issued`), that what is worked on for a pending call is of its kind (`AsCalled`),
that a write comes to success by its receipt only (`OpInv`), and that a success on
its way to the document that asked is of a write mined or replaced (`FrameInv`). An answer
carries in the code only the number; the document it was for is history in the model.
Hence `OwnSuccessIsMined` is about calls that their own request answered:
`AnswersOwnCall` fails, as the kept counterexample shows.

`GenerationProofs`, the specification. Also `RulesCoverStructure`
(`PlanCoversStructure`), for all prompts, answers and sources. `PlanInv` says what
is built: the plan with no critical question open, or the plan with its defaults and
their decisions; the rest are lemmas on the operators: what `Normalize` gives is a
specification, which fields a default changes, what that does to each finding.

`GenerationProofs`, the files. `WorkspaceInv` says what a run whose name no other live
run has used knows at each step: which files of that name are there and what they are
of (`OwnFiles`), and what it has read of them (`OwnResults`). It is kept because a
step changes, beside the sources, which it may clear, only files of names that its run
has used (`Works`, itself the action property `RunsKeepToTheirNames`), and two live
runs that used one name have marked it (`NamesMet`). A source that another run cleared
does no harm: the build then fails, or the draft in memory is shown.

The library's induction theorems take an operator as a parameter, which the
installed provers cannot instantiate. Where a fact about a fold, a recursive sum or
a table is by nature an induction (`Merged`, the sums of the rewards and of the
approvals, `PrunedFits`, the latest turn), it is proved from a least counterexample:
`LeastNumber`, from `WFMin` of `WellFoundedInduction`. `LogIsListed` is proved by
counting, with `FiniteSetTheorems`.

Model-checked only: liveness (`StartedRunEnds`, `ServedToTheEnd`, `EveryClientStops`,
`Terminates`, `PageIsFreed`, `ViewCatchesUp`), which is outside the prover's reach,
as are facts about `ENABLED`. Every invariant of the runs is a theorem.

## Not modelled

- What the scanners' and planners' patterns match in a text, and the prompts: most
  lines of `codegen.ts`, `mechanic-completeness.ts`, `mechanic-spec.ts`,
  `money-flow.ts`, `test-gen.ts` and `constitution.ts` are regular expressions and
  prose. Their results are inputs or free answers of the models.
- The model client (`ai-client.ts`): a call answers or throws. Its retries within a
  call are planned.
- The REST glue, listing and archiving of chats, the server entry: each call is one
  read or one write, and what could go wrong between two is in `ChatTurns` and
  `Accounts`.
- The beacon variant, the sandbox deployer and the factory of FreeCoin.
- Heartbeats, leaving the page, and an unhandled rejection of a stream's first
  lookup (`chat-routes.ts`, `streamRun`), as a step of its own: it takes the process
  down, which may happen at any step of the models anyway. A run whose stream is
  never opened stays pending in the store and nothing sweeps it; the models have
  such rows.
- Presentation: JSX, documentation pages, translations, vendored libraries.

The map covers about a seventh of the lines of the repository, and nearly all of those in
which state is kept across a wait; what remains is of the kinds above.

## Plan

Models: `ModelRetry`, the call loop of the model client; the two implementations
of the chat store (memory and Supabase) against one abstract store.
