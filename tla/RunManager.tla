----------------------------- MODULE RunManager -----------------------------
(***************************************************************************)
(* One generation run as server/run-manager.ts orchestrates it: the record *)
(* the process keeps in its `runs' Map, the execution of the pipeline      *)
(* generator, the event buffer, and the rows the chat store keeps.         *)
(*                                                                         *)
(* The process may die at any step.  Nothing reloads a run: after a        *)
(* restart the Map is empty and the rows say what they said.  The buffer,  *)
(* the sequence counter and the result are then out of the server's reach  *)
(* (`registered' is FALSE) and the module keeps them as history, so that   *)
(* what a client saw can be compared with what was emitted.                *)
(*                                                                         *)
(* Runs share nothing in RunManager, so one run is modelled.               *)
(***************************************************************************)
EXTENDS Integers, Sequences

CONSTANTS
    Results,       \* the results the generator may deliver, each the set of
                   \* its parts (a subset of Parts)
    NoResult,      \* no "result" event has been emitted
    GenEvents,     \* kinds of progress events the generator may emit
    MaxEvents,     \* bound: progress events per run
    MaxFaults,     \* bound: store calls that fail
    MaxRestarts    \* bound: deaths of the process

\* What finishWithResult writes after the run row and the message row, in
\* this order, each only when the result has it.
Parts == {"solidity", "mechanic_spec", "simulation_report",
          "economic_critique", "vault_ui", "approximation_report",
          "repair_attempts", "title"}

Rank == [p \in Parts |->
           CASE p = "solidity" -> 1
             [] p = "mechanic_spec" -> 2
             [] p = "simulation_report" -> 3
             [] p = "economic_critique" -> 4
             [] p = "vault_ui" -> 5
             [] p = "approximation_report" -> 6
             [] p = "repair_attempts" -> 7
             [] p = "title" -> 8]

ASSUME ResultsAssumption ==
    /\ Results \subseteq SUBSET Parts
    /\ NoResult \notin Results
ASSUME GenEventsAssumption == GenEvents \subseteq {"status", "code_delta"}
ASSUME BoundsAssumption ==
    /\ MaxEvents \in Nat
    /\ MaxFaults \in Nat
    /\ MaxRestarts \in Nat

Ephemeral == {"code_delta"}
Terminal == {"run_completed", "run_failed"}
EventTypes == {"run_started", "code_complete"} \union Terminal
              \union {"status", "code_delta"}

\* An event of the run: its place in the sequence and its type.
Event == [seq : Nat \ {0}, type : EventTypes]

VARIABLES
    registered,    \* the runs Map of the current process has the run
    started,       \* RegisteredRun.started
    status,        \* RegisteredRun.status
    sequence,      \* RegisteredRun.sequence
    buffer,        \* RegisteredRun.buffer
    pc,            \* where execute() is
    unsettled,     \* sequence numbers whose appendEvent call is in flight
    result,        \* the result the generator has delivered
    row,           \* generation_runs.status
    msg,           \* chat_messages.status of the assistant message
    log,           \* sequence numbers in generation_events
    saved,         \* parts of the result the store holds
    faults,        \* history: store calls that failed
    finishFault,   \* history: a write of finishWithResult/Error failed
    restarts       \* history: deaths of the process

memory == <<registered, started, status, sequence, buffer, pc, unsettled,
            result>>
store == <<row, msg, log, saved>>
history == <<faults, finishFault, restarts>>
vars == <<memory, store, history>>

PCs == {"off", "started", "row_running", "generating",
        "complete_row", "complete_msg", "complete_parts", "announce",
        "code_complete", "fail_row", "fail_msg", "announce_failed",
        "terminal", "settled"}

Statuses == {"pending", "running", "completed", "failed"}

-----------------------------------------------------------------------------
(* Helpers *)

\* emitStream: number the event, keep it, hand it to the listeners (the
\* listeners are in RunStream.tla).  event() and the persisting call sites
\* then call appendEvent for every type that is not ephemeral.
\* Slip: the number is taken before the counter advances.
EmitLate(type) ==
    /\ sequence' = sequence + 1
    /\ buffer' = Append(buffer, [seq |-> sequence, type |-> type])
    /\ unsettled' = IF type \in Ephemeral THEN unsettled
                                          ELSE unsettled \union {sequence + 1}

Emit(type) ==
    LET n == sequence + 1 IN
    /\ sequence' = n
    /\ buffer' = Append(buffer, [seq |-> n, type |-> type])
    /\ unsettled' = IF type \in Ephemeral THEN unsettled
                                          ELSE unsettled \union {n}

\* `await this.event(...)': the append of the event emitted last has
\* returned, or has failed and was caught.
\* Slip: a failed append is not caught, and nothing after it runs.
SettledWhenStored == sequence \in log
Settled == sequence \notin unsettled

\* A store call fails.  It may have taken effect all the same (the request
\* was served and the response lost): the actions say what it can leave.
Fault == faults < MaxFaults /\ faults' = faults + 1

\* A write of finishWithResult fails: its catch skips the other writes and
\* the end of the run is announced all the same.
\* Slip: the failed write is taken for a failed run.
SkipToFailure == pc' = "fail_row" /\ Fault /\ finishFault' = TRUE
SkipWrites == pc' = "announce" /\ Fault /\ finishFault' = TRUE

\* The parts of the result that are not stored yet, and the next of them.
\* Slip: the source is taken to be stored already.
UnsavedButSource == (result \ saved) \ {"solidity"}
Unsaved == result \ saved
NextPart(p) == p \in Unsaved /\ \A q \in Unsaved : Rank[p] =< Rank[q]

-----------------------------------------------------------------------------
(* Initially start-generation has created the rows, registered the run and *)
(* answered; nobody has opened the stream yet.                             *)
Init ==
    /\ registered = TRUE
    /\ started = FALSE
    /\ status = "pending"
    /\ sequence = 0
    /\ buffer = << >>
    /\ pc = "off"
    /\ unsettled = {}
    /\ result = NoResult
    /\ row = "pending"
    /\ msg = "pending"
    /\ log = {}
    /\ saved = {}
    /\ faults = 0
    /\ finishFault = FALSE
    /\ restarts = 0

\* subscribe(): the first subscription starts the execution, which runs
\* without interruption up to its first await; a later one changes nothing
\* here.
\* Slip: the execution is started again.
SubscribeAgain ==
    /\ registered
    /\ started' = TRUE
    /\ status' = "running"
    /\ pc' = "started"
    /\ Emit("run_started")
    /\ UNCHANGED <<registered, result, store, history>>
Subscribe ==
    /\ registered
    /\ IF started
         THEN UNCHANGED <<started, status, pc, sequence, buffer, unsettled>>
         ELSE /\ started' = TRUE
              /\ status' = "running"
              /\ pc' = "started"
              /\ Emit("run_started")
    /\ UNCHANGED <<registered, result, store, history>>

\* An appendEvent call returns; persist() catches its failure.
AppendReturns(n) ==
    /\ n \in unsettled
    /\ unsettled' = unsettled \ {n}
    /\ \/ log' = log \union {n} /\ UNCHANGED faults
       \/ UNCHANGED log /\ Fault
    /\ UNCHANGED <<registered, started, status, sequence, buffer, pc, result,
                   row, msg, saved, finishFault, restarts>>

\* updateRun({status: "running"}).catch(() => null)
MarkRunRunning ==
    /\ pc = "started" /\ Settled
    /\ pc' = "row_running"
    /\ \/ row' = "running" /\ UNCHANGED faults
       \/ row' \in {row, "running"} /\ Fault
    /\ UNCHANGED <<registered, started, status, sequence, buffer, unsettled,
                   result, msg, log, saved, finishFault, restarts>>

\* updateMessage({status: "streaming"}).catch(() => null)
MarkMessageStreaming ==
    /\ pc = "row_running"
    /\ pc' = "generating"
    /\ \/ msg' = "streaming" /\ UNCHANGED faults
       \/ msg' \in {msg, "streaming"} /\ Fault
    /\ UNCHANGED <<registered, started, status, sequence, buffer, unsettled,
                   result, row, log, saved, finishFault, restarts>>

\* The generator emits a progress event.  handleCodegenEvent runs to its
\* first await at once, so the event takes its number in emission order, but
\* nobody awaits the append: many can be in flight together.
GeneratorEmits(type) ==
    /\ pc = "generating"
    /\ result = NoResult
    /\ sequence =< MaxEvents
    /\ Emit(type)
    /\ UNCHANGED <<registered, started, status, pc, result, store, history>>

\* The generator emits its "result" event, which is not streamed.
GeneratorDelivers ==
    /\ pc = "generating"
    /\ result = NoResult
    /\ result' \in Results
    /\ UNCHANGED <<registered, started, status, sequence, buffer, pc,
                   unsettled, store, history>>

\* The generator returns or throws: with a result the run completes, even
\* when it also threw; without one it fails.
GeneratorReturns ==
    /\ pc = "generating"
    /\ IF result # NoResult
         THEN status' = "completed" /\ pc' = "complete_row"
         ELSE status' = "failed" /\ pc' = "fail_row"
    /\ UNCHANGED <<registered, started, sequence, buffer, unsettled, result,
                   store, history>>

\* finishWithResult, one store call after another in one try block: the
\* first that fails skips the rest.
CompleteRun ==
    /\ pc = "complete_row"
    /\ \/ /\ row' = "completed"
          /\ pc' = "complete_msg"
          /\ UNCHANGED <<faults, finishFault>>
       \/ row' \in {row, "completed"} /\ SkipWrites
    /\ UNCHANGED <<registered, started, status, sequence, buffer, unsettled,
                   result, msg, log, saved, restarts>>

CompleteMessage ==
    /\ pc = "complete_msg"
    /\ \/ /\ msg' = "completed"
          /\ pc' = "complete_parts"
          /\ UNCHANGED <<faults, finishFault>>
       \/ msg' \in {msg, "completed"} /\ SkipWrites
    /\ UNCHANGED <<registered, started, status, sequence, buffer, unsettled,
                   result, row, log, saved, restarts>>

SavePart ==
    /\ pc = "complete_parts"
    /\ \E p \in Unsaved :
         /\ NextPart(p)
         /\ \/ /\ saved' = saved \union {p}
               /\ UNCHANGED <<pc, faults, finishFault>>
            \/ saved' \in {saved, saved \union {p}} /\ SkipWrites
    /\ UNCHANGED <<registered, started, status, sequence, buffer, unsettled,
                   result, row, msg, log, restarts>>

AllPartsSaved ==
    /\ pc = "complete_parts"
    /\ Unsaved = {}
    /\ pc' = "announce"
    /\ UNCHANGED <<registered, started, status, sequence, buffer, unsettled,
                   result, store, history>>

\* code_complete only when there is a contract, then run_completed.
AnnounceCode ==
    /\ pc = "announce"
    /\ "solidity" \in result
    /\ Emit("code_complete")
    /\ pc' = "code_complete"
    /\ UNCHANGED <<registered, started, status, result, store, history>>

AnnounceCompleted ==
    /\ \/ pc = "announce" /\ "solidity" \notin result
       \/ pc = "code_complete" /\ Settled
    /\ Emit("run_completed")
    /\ pc' = "terminal"
    /\ UNCHANGED <<registered, started, status, result, store, history>>

\* finishWithError
FailRun ==
    /\ pc = "fail_row"
    /\ \/ /\ row' = "failed"
          /\ pc' = "fail_msg"
          /\ UNCHANGED <<faults, finishFault>>
       \/ /\ row' \in {row, "failed"}
          /\ pc' = "announce_failed"
          /\ Fault
          /\ finishFault' = TRUE
    /\ UNCHANGED <<registered, started, status, sequence, buffer, unsettled,
                   result, msg, log, saved, restarts>>

FailMessage ==
    /\ pc = "fail_msg"
    /\ pc' = "announce_failed"
    /\ \/ msg' = "failed" /\ UNCHANGED <<faults, finishFault>>
       \/ msg' \in {msg, "failed"} /\ Fault /\ finishFault' = TRUE
    /\ UNCHANGED <<registered, started, status, sequence, buffer, unsettled,
                   result, row, log, saved, restarts>>

AnnounceFailed ==
    /\ pc = "announce_failed"
    /\ Emit("run_failed")
    /\ pc' = "terminal"
    /\ UNCHANGED <<registered, started, status, result, store, history>>

\* execute() returns.
ExecuteReturns ==
    /\ pc = "terminal" /\ Settled
    /\ pc' = "settled"
    /\ UNCHANGED <<registered, started, status, sequence, buffer, unsettled,
                   result, store, history>>

\* The process dies and a new one starts: the Map is empty, appends in
\* flight are lost (AppendReturns may have let them through before).
Restart ==
    /\ restarts < MaxRestarts
    /\ restarts' = restarts + 1
    /\ registered' = FALSE
    /\ started' = FALSE
    /\ status' = "pending"
    /\ pc' = "off"
    /\ unsettled' = {}
    /\ UNCHANGED <<sequence, buffer, result, store, faults, finishFault>>

\* What execute() does by itself, from its first await to its return.
Executor ==
    \/ MarkRunRunning \/ MarkMessageStreaming
    \/ GeneratorDelivers \/ GeneratorReturns
    \/ CompleteRun \/ CompleteMessage \/ SavePart \/ AllPartsSaved
    \/ AnnounceCode \/ AnnounceCompleted
    \/ FailRun \/ FailMessage \/ AnnounceFailed
    \/ ExecuteReturns

\* Steps of the process that need no client.
Internal ==
    \/ Executor
    \/ \E type \in GenEvents : GeneratorEmits(type)
    \/ \E n \in unsettled : AppendReturns(n)

Next == Subscribe \/ Internal \/ Restart

Spec == Init /\ [][Next]_vars

\* Store calls return, awaits resume, and the generator returns: every model
\* call, compile and test run behind it ends with an answer or an error.
\* The largest sequence number is run_started, the progress events,
\* code_complete and the terminal event.
FairSpec ==
    /\ Spec
    /\ WF_vars(Executor)
    /\ \A n \in 1..(MaxEvents + 3) : WF_vars(AppendReturns(n))

-----------------------------------------------------------------------------
(* Properties *)

Flags ==
    /\ registered \in BOOLEAN
    /\ started \in BOOLEAN
    /\ finishFault \in BOOLEAN

Data ==
    /\ status \in Statuses
    /\ sequence \in Nat
    /\ buffer \in Seq(Event)
    /\ pc \in PCs
    /\ unsettled \in SUBSET (Nat \ {0})
    /\ result \in Results \union {NoResult}
    /\ row \in Statuses
    /\ msg \in {"pending", "streaming", "completed", "failed"}
    /\ log \in SUBSET (Nat \ {0})
    /\ saved \in SUBSET Parts
    /\ faults \in Nat
    /\ restarts \in Nat

TypeOK == Flags /\ Data

EmittedTypes == {buffer[i].type : i \in DOMAIN buffer}

\* The sequence number an event carries is its place in the buffer.  Clients
\* skip by number what a replay of the buffer repeats (chat-api.ts deliver),
\* and the handlers that emit are not awaited (run-manager.ts execute): a
\* number taken late would make them skip what they have not seen.
BufferIsNumbered ==
    /\ Len(buffer) = sequence
    /\ \A i \in DOMAIN buffer : buffer[i].seq = i

\* A run starts once however many clients open its stream, and nothing
\* follows its one terminal event: streamRun ends the response on it.
OneStartOneEnd ==
    \A i \in DOMAIN buffer :
       /\ buffer[i].type = "run_started" <=> i = 1
       /\ buffer[i].type \in Terminal => i = Len(buffer)

\* generation_events never holds an event the run did not emit, nor one of
\* the kinds that are not persisted, whatever the order the appends return in.
LogWasEmitted ==
    \A n \in log \union unsettled :
       /\ n \in DOMAIN buffer
       /\ buffer[n].type \notin Ephemeral

\* A terminal event is announced only after everything the chat page reloads
\* on it is stored, unless a write of the ending failed.
EndingIsStored ==
    ~finishFault =>
      /\ "run_completed" \in EmittedTypes =>
            row = "completed" /\ msg = "completed" /\ saved = result
      /\ "run_failed" \in EmittedTypes =>
            row = "failed" /\ msg = "failed" /\ saved = {}

\* Parts are stored in order and a failure skips the rest: a later part
\* (the custom UI of a vault) never stands without the earlier ones (its
\* source), not even when the process died or the store failed in between.
PartsInOrder ==
    \A p \in saved : p \in result
                     /\ \A q \in result : Rank[q] < Rank[p] => q \in saved

\* A settled row is never reopened or turned over.
RowSettlesOnce ==
    [][row' # row => row \notin {"completed", "failed"}]_row

\* "Persistence must never kill a live stream" (run-manager.ts persist): with
\* store calls failing at any step, a run that started still reaches its
\* terminal event, unless the process died.
StartedRunEnds ==
    started ~> (EmittedTypes \intersect Terminal # {} \/ restarts > 0)

\* The run as RunOutcome.tla sees it: the outcome is decided in memory,
\* recorded in the row, announced in the buffer.
Decided == IF status \in {"completed", "failed"} THEN status ELSE "none"
Recorded == IF row \in {"completed", "failed"} THEN row ELSE "none"
Announced == IF "run_completed" \in EmittedTypes THEN "completed"
             ELSE IF "run_failed" \in EmittedTypes THEN "failed"
             ELSE "none"

Outcome == INSTANCE RunOutcome WITH
    Outcomes <- {"completed", "failed"},
    NoOutcome <- "none",
    decided <- Decided,
    recorded <- Recorded,
    announced <- Announced,
    alive <- registered

\* One outcome per run: the row and the terminal event never disagree, and
\* after a death neither is written any more.
ImplementsRunOutcome == Outcome!Spec

-----------------------------------------------------------------------------
(* The inductive invariant behind the safety properties above: what each   *)
(* point of execute() says of the record, the rows and the buffer.         *)

Completing == {"complete_row", "complete_msg", "complete_parts", "announce",
               "code_complete"}
Failing == {"fail_row", "fail_msg", "announce_failed"}
\* The row is not settled yet.
Undecided == {"started", "row_running", "generating", "complete_row",
              "fail_row"}
\* Nothing is emitted any more, unless the execution has yet to start.
Quiet == {"off", "terminal", "settled"}

Lifecycle ==
    /\ started => registered
    /\ started <=> pc # "off"
    /\ ~started => status = "pending"
    /\ registered /\ ~started =>
          sequence = 0 /\ row = "pending" /\ result = NoResult /\ saved = {}
    /\ started => sequence # 0
    /\ pc \in {"started", "row_running", "generating"} => status = "running"
    /\ pc \in Completing => status = "completed" /\ result # NoResult
    /\ pc \in Failing => status = "failed"
    /\ pc \notin Quiet => EmittedTypes \intersect Terminal = {}

StoreFollows ==
    /\ pc \in Undecided => row \in {"pending", "running"}
    /\ pc \in Undecided \union Failing \union {"complete_msg"} => saved = {}
    /\ pc \in {"complete_msg", "complete_parts"} => row = "completed"
    /\ pc = "complete_parts" => msg = "completed"
    /\ pc \in {"announce", "code_complete"} /\ ~finishFault =>
          row = "completed" /\ msg = "completed" /\ saved = result
    /\ pc = "fail_msg" => row = "failed"
    /\ pc = "announce_failed" /\ ~finishFault =>
          row = "failed" /\ msg = "failed"

IInv ==
    /\ TypeOK /\ Lifecycle /\ StoreFollows
    /\ BufferIsNumbered /\ OneStartOneEnd /\ LogWasEmitted
    /\ EndingIsStored /\ PartsInOrder

=============================================================================
