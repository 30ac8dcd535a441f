------------------------------ MODULE RunProofs ------------------------------
(***************************************************************************)
(* Proofs about RunManager.tla, for every set of results and of progress   *)
(* events, and about the clients of RunStream.tla, for any number of them, *)
(* of connections cut and of restarts.                                     *)
(*                                                                         *)
(* The invariant of the run is IInv of RunManager.tla; each of its         *)
(* conjuncts has a lemma that says which of the others its preservation    *)
(* rests on.  Of the clients: while the process lives, what one saw and    *)
(* what is on its wire are together a prefix of the buffer; after a        *)
(* restart the log is replayed in order and completely, and the client     *)
(* skips what it saw of it.                                                *)
(***************************************************************************)
EXTENDS RunStream, FiniteSetTheorems, SequenceTheorems, TLAPS

-----------------------------------------------------------------------------
(* What an emission does to the buffer. *)

\* emitStream appends one event, of the next number, and changes no other.
LEMMA EmitAppends ==
  ASSUME Data, NEW type \in EventTypes, Emit(type)
  PROVE  /\ sequence' = sequence + 1
         /\ buffer' \in Seq(Event)
         /\ Len(buffer') = Len(buffer) + 1
         /\ \A i \in 1..Len(buffer) : buffer'[i] = buffer[i]
         /\ buffer'[Len(buffer) + 1] = [seq |-> sequence + 1, type |-> type]
         /\ EmittedTypes' = EmittedTypes \union {type}
         /\ unsettled' \in SUBSET (Nat \ {0})
<1>1. sequence' = sequence + 1 /\ sequence + 1 \in Nat \ {0}
  BY DEF Emit, Data
<1> DEFINE ev == [seq |-> sequence + 1, type |-> type]
<1>2. ev \in Event
  BY <1>1 DEF Event
<1>3. buffer \in Seq(Event) /\ buffer' = Append(buffer, ev)
  BY DEF Emit, Data
<1>4. /\ buffer' \in Seq(Event)
      /\ Len(buffer') = Len(buffer) + 1
      /\ \A i \in 1..Len(buffer) : buffer'[i] = buffer[i]
      /\ buffer'[Len(buffer) + 1] = ev
  BY <1>2, <1>3
<1>5. EmittedTypes' = EmittedTypes \union {type}
  <2>1. DOMAIN buffer = 1..Len(buffer) /\ DOMAIN buffer' = 1..(Len(buffer) + 1)
        /\ Len(buffer) \in Nat
    BY <1>3, <1>4
  <2>2. ASSUME NEW t \in EmittedTypes' PROVE t \in EmittedTypes \union {type}
    <3>1. PICK i \in DOMAIN buffer' : t = buffer'[i].type
      BY <2>2 DEF EmittedTypes
    <3>2. CASE i \in 1..Len(buffer)
      BY <3>1, <3>2, <2>1, <1>4 DEF EmittedTypes
    <3>3. CASE i = Len(buffer) + 1
      BY <3>1, <3>3, <1>4
    <3> QED BY <3>2, <3>3, <2>1
  <2>3. ASSUME NEW t \in EmittedTypes PROVE t \in EmittedTypes'
    <3>1. PICK i \in DOMAIN buffer : t = buffer[i].type
      BY <2>3 DEF EmittedTypes
    <3>2. i \in DOMAIN buffer' /\ buffer'[i] = buffer[i]
      BY <2>1, <1>4
    <3> QED BY <3>1, <3>2 DEF EmittedTypes
  <2>4. type \in EmittedTypes'
    <3>1. Len(buffer) + 1 \in DOMAIN buffer'
      BY <2>1
    <3>2. buffer'[Len(buffer) + 1].type = type
      BY <1>4
    <3> QED BY <3>1, <3>2 DEF EmittedTypes
  <2> QED BY <2>2, <2>3, <2>4
<1>6. unsettled' \in SUBSET (Nat \ {0})
  BY <1>1 DEF Emit, Data
<1> QED BY <1>1, <1>4, <1>5, <1>6

\* Counter, buffer and appends in flight keep their types when an event is emitted.
LEMMA EmitTypes ==
  ASSUME Data, NEW type \in EventTypes, Emit(type)
  PROVE  /\ sequence' \in Nat
         /\ buffer' \in Seq(Event)
         /\ unsettled' \in SUBSET (Nat \ {0})
<1>1. sequence' \in Nat
  BY DEF Emit, Data
<1>2. buffer' \in Seq(Event) /\ unsettled' \in SUBSET (Nat \ {0})
  BY EmitAppends
<1> QED BY <1>1, <1>2

-----------------------------------------------------------------------------
(* Types. *)

\* A run as register() leaves it is well typed.
LEMMA TypeInit == Init => TypeOK
<1> SUFFICES ASSUME Init PROVE TypeOK
  OBVIOUS
<1>1. Flags
  BY DEF Init, Flags
<1>2. Data
  BY DEF Init, Data, Statuses, PCs
<1> QED BY <1>1, <1>2 DEF TypeOK

\* The Boolean variables stay Boolean, whatever the step.
LEMMA FlagsStep == Flags /\ [Next]_vars => Flags'
  BY DEF Flags, Next, Internal, Executor, Subscribe, MarkRunRunning,
         MarkMessageStreaming, GeneratorDelivers, GeneratorReturns,
         GeneratorEmits, AppendReturns, CompleteRun, CompleteMessage,
         SavePart, AllPartsSaved, SkipWrites, AnnounceCode,
         AnnounceCompleted, FailRun, FailMessage, AnnounceFailed,
         ExecuteReturns, Restart, vars, memory, store, history

\* The only typed value a step could spoil on its own is `saved': the parts
\* of a result are parts only once there is one, which Lifecycle says.
LEMMA DataStep == Data /\ Lifecycle /\ [Next]_vars => Data'
<1> SUFFICES ASSUME Data, Lifecycle, [Next]_vars PROVE Data'
  OBVIOUS
<1> USE DEF Statuses, PCs, memory, store, history
<1>1. CASE Subscribe
  <2>1. CASE started
    BY <1>1, <2>1 DEF Subscribe, Data
  <2>2. CASE ~started
    <3>1. Emit("run_started") /\ "run_started" \in EventTypes
      BY <1>1, <2>2 DEF Subscribe, EventTypes
    <3>2. /\ sequence' \in Nat
          /\ buffer' \in Seq(Event)
          /\ unsettled' \in SUBSET (Nat \ {0})
      BY <3>1, EmitTypes
    <3> QED BY <1>1, <2>2, <3>2 DEF Subscribe, Data
  <2> QED BY <2>1, <2>2
<1>2. CASE MarkRunRunning
  BY <1>2 DEF MarkRunRunning, Fault, Data
<1>3. CASE MarkMessageStreaming
  BY <1>3 DEF MarkMessageStreaming, Fault, Data
<1>4. CASE GeneratorDelivers
  BY <1>4 DEF GeneratorDelivers, Data
<1>5. CASE GeneratorReturns
  BY <1>5 DEF GeneratorReturns, Data
<1>6. CASE CompleteRun
  BY <1>6 DEF CompleteRun, SkipWrites, Fault, Data
<1>7. CASE CompleteMessage
  BY <1>7 DEF CompleteMessage, SkipWrites, Fault, Data
<1>8. CASE SavePart
  <2>1. result \in SUBSET Parts
    BY <1>8, ResultsAssumption DEF SavePart, Lifecycle, Completing, Data
  <2>2. saved' \in SUBSET Parts
    BY <1>8, <2>1 DEF SavePart, Unsaved, Data
  <2> QED BY <1>8, <2>2 DEF SavePart, SkipWrites, Fault, Data
<1>9. CASE AllPartsSaved
  BY <1>9 DEF AllPartsSaved, Data
<1>10. CASE AnnounceCode
  <2>1. Emit("code_complete") /\ "code_complete" \in EventTypes
    BY <1>10 DEF AnnounceCode, EventTypes
  <2>2. /\ sequence' \in Nat
        /\ buffer' \in Seq(Event)
        /\ unsettled' \in SUBSET (Nat \ {0})
    BY <2>1, EmitTypes
  <2> QED BY <1>10, <2>2 DEF AnnounceCode, Data
<1>11. CASE AnnounceCompleted
  <2>1. Emit("run_completed") /\ "run_completed" \in EventTypes
    BY <1>11 DEF AnnounceCompleted, EventTypes, Terminal
  <2>2. /\ sequence' \in Nat
        /\ buffer' \in Seq(Event)
        /\ unsettled' \in SUBSET (Nat \ {0})
    BY <2>1, EmitTypes
  <2> QED BY <1>11, <2>2 DEF AnnounceCompleted, Data
<1>12. CASE FailRun
  BY <1>12 DEF FailRun, Fault, Data
<1>13. CASE FailMessage
  BY <1>13 DEF FailMessage, Fault, Data
<1>14. CASE AnnounceFailed
  <2>1. Emit("run_failed") /\ "run_failed" \in EventTypes
    BY <1>14 DEF AnnounceFailed, EventTypes, Terminal
  <2>2. /\ sequence' \in Nat
        /\ buffer' \in Seq(Event)
        /\ unsettled' \in SUBSET (Nat \ {0})
    BY <2>1, EmitTypes
  <2> QED BY <1>14, <2>2 DEF AnnounceFailed, Data
<1>15. CASE ExecuteReturns
  BY <1>15 DEF ExecuteReturns, Data
<1>16. ASSUME NEW type \in GenEvents, GeneratorEmits(type) PROVE Data'
  <2>1. Emit(type) /\ type \in EventTypes
    BY <1>16, GenEventsAssumption DEF GeneratorEmits, EventTypes
  <2>2. /\ sequence' \in Nat
        /\ buffer' \in Seq(Event)
        /\ unsettled' \in SUBSET (Nat \ {0})
    BY <2>1, EmitTypes
  <2> QED BY <1>16, <2>2 DEF GeneratorEmits, Data
<1>17. ASSUME NEW n \in unsettled, AppendReturns(n) PROVE Data'
  <2>1. n \in Nat \ {0} /\ log \in SUBSET (Nat \ {0})
        /\ unsettled \in SUBSET (Nat \ {0})
    BY <1>17 DEF Data
  <2>2. log' \in SUBSET (Nat \ {0}) /\ unsettled' \in SUBSET (Nat \ {0})
    BY <1>17, <2>1 DEF AppendReturns
  <2> QED BY <1>17, <2>2 DEF AppendReturns, Fault, Data
<1>18. CASE Restart
  <2>1. unsettled' \in SUBSET (Nat \ {0})
    BY <1>18 DEF Restart
  <2> QED BY <1>18, <2>1 DEF Restart, Data
<1>19. CASE UNCHANGED vars
  BY <1>19 DEF vars, Data
<1> QED
  BY <1>1, <1>2, <1>3, <1>4, <1>5, <1>6, <1>7, <1>8, <1>9, <1>10, <1>11,
     <1>12, <1>13, <1>14, <1>15, <1>16, <1>17, <1>18, <1>19
     DEF Next, Internal, Executor

\* Every step keeps the types.
LEMMA TypeStep == TypeOK /\ Lifecycle /\ [Next]_vars => TypeOK'
  BY FlagsStep, DataStep DEF TypeOK

-----------------------------------------------------------------------------
(* The life of a run. *)

\* What has been emitted depends on the buffer alone.
LEMMA SameBuffer == buffer' = buffer => EmittedTypes' = EmittedTypes
  BY DEF EmittedTypes

\* As long as the counter is at zero no event has been emitted.
LEMMA NothingEmitted == Data /\ BufferIsNumbered /\ sequence = 0
                        => EmittedTypes = {}
  BY DEF Data, BufferIsNumbered, EmittedTypes

\* What a step may do to the buffer, and when: the first event is run_started
\* and nothing is emitted after a terminal one.
Emission(type) ==
    /\ Emit(type)
    /\ log' = log
    /\ type = "run_started" <=> sequence = 0
    /\ EmittedTypes \intersect Terminal = {}

NoEmission ==
    /\ buffer' = buffer
    /\ sequence' = sequence
    /\ log' \union unsettled' \subseteq log \union unsettled

\* Every step of the program emits one event at most, and only where the life
\* of the run allows it; the step of an append only moves its own number.
LEMMA Emissions ==
  ASSUME TypeOK, Lifecycle, BufferIsNumbered, [Next]_vars
  PROVE  NoEmission \/ \E type \in EventTypes : Emission(type)
<1> USE DEF memory, store, history
<1>1. CASE Subscribe
  <2>1. CASE started
    BY <1>1, <2>1 DEF Subscribe, NoEmission
  <2>2. CASE ~started
    <3>1. sequence = 0 /\ EmittedTypes = {}
      BY <1>1, <2>2, NothingEmitted DEF Subscribe, Lifecycle, TypeOK
    <3>2. Emission("run_started") /\ "run_started" \in EventTypes
      BY <1>1, <2>2, <3>1 DEF Subscribe, Emission, EventTypes
    <3> QED BY <3>2
  <2> QED BY <2>1, <2>2
<1>2. CASE MarkRunRunning
  BY <1>2 DEF MarkRunRunning, NoEmission
<1>3. CASE MarkMessageStreaming
  BY <1>3 DEF MarkMessageStreaming, NoEmission
<1>4. CASE GeneratorDelivers
  BY <1>4 DEF GeneratorDelivers, NoEmission
<1>5. CASE GeneratorReturns
  BY <1>5 DEF GeneratorReturns, NoEmission
<1>6. CASE CompleteRun
  BY <1>6 DEF CompleteRun, NoEmission
<1>7. CASE CompleteMessage
  BY <1>7 DEF CompleteMessage, NoEmission
<1>8. CASE SavePart
  BY <1>8 DEF SavePart, NoEmission
<1>9. CASE AllPartsSaved
  BY <1>9 DEF AllPartsSaved, NoEmission
<1>10. CASE AnnounceCode
  <2>1. sequence # 0 /\ EmittedTypes \intersect Terminal = {}
    BY <1>10 DEF AnnounceCode, Lifecycle, Quiet
  <2> QED BY <1>10, <2>1 DEF AnnounceCode, Emission, EventTypes
<1>11. CASE AnnounceCompleted
  <2>1. sequence # 0 /\ EmittedTypes \intersect Terminal = {}
    BY <1>11 DEF AnnounceCompleted, Lifecycle, Quiet
  <2> QED BY <1>11, <2>1 DEF AnnounceCompleted, Emission, EventTypes, Terminal
<1>12. CASE FailRun
  BY <1>12 DEF FailRun, NoEmission
<1>13. CASE FailMessage
  BY <1>13 DEF FailMessage, NoEmission
<1>14. CASE AnnounceFailed
  <2>1. sequence # 0 /\ EmittedTypes \intersect Terminal = {}
    BY <1>14 DEF AnnounceFailed, Lifecycle, Quiet
  <2> QED BY <1>14, <2>1 DEF AnnounceFailed, Emission, EventTypes, Terminal
<1>15. CASE ExecuteReturns
  BY <1>15 DEF ExecuteReturns, NoEmission
<1>16. ASSUME NEW type \in GenEvents, GeneratorEmits(type)
       PROVE  \E t \in EventTypes : Emission(t)
  <2>1. sequence # 0 /\ EmittedTypes \intersect Terminal = {}
    BY <1>16 DEF GeneratorEmits, Lifecycle, Quiet
  <2>2. type \in EventTypes /\ type # "run_started"
    BY <1>16, GenEventsAssumption DEF EventTypes
  <2>3. Emission(type)
    BY <1>16, <2>1, <2>2 DEF GeneratorEmits, Emission
  <2> QED BY <2>2, <2>3
<1>17. ASSUME NEW n \in unsettled, AppendReturns(n) PROVE NoEmission
  BY <1>17 DEF AppendReturns, NoEmission
<1>18. CASE Restart
  BY <1>18 DEF Restart, NoEmission
<1>19. CASE UNCHANGED vars
  BY <1>19 DEF vars, NoEmission
<1> QED
  BY <1>1, <1>2, <1>3, <1>4, <1>5, <1>6, <1>7, <1>8, <1>9, <1>10, <1>11,
     <1>12, <1>13, <1>14, <1>15, <1>16, <1>17, <1>18, <1>19
     DEF Next, Internal, Executor

\* Every step keeps the numbering of the buffer.
LEMMA NumberedStep ==
  ASSUME TypeOK, Lifecycle, BufferIsNumbered, [Next]_vars
  PROVE  BufferIsNumbered'
<1>1. CASE NoEmission
  BY <1>1 DEF NoEmission, BufferIsNumbered
<1>2. ASSUME NEW type \in EventTypes, Emission(type)
      PROVE  BufferIsNumbered'
  <2>1. /\ sequence' = sequence + 1
        /\ buffer' \in Seq(Event)
        /\ Len(buffer') = Len(buffer) + 1
        /\ \A i \in 1..Len(buffer) : buffer'[i] = buffer[i]
        /\ buffer'[Len(buffer) + 1] = [seq |-> sequence + 1, type |-> type]
    BY <1>2, EmitAppends DEF Emission, TypeOK
  <2>2. Len(buffer) = sequence /\ sequence \in Nat
        /\ DOMAIN buffer = 1..Len(buffer)
    BY DEF BufferIsNumbered, TypeOK, Data
  <2>3. ASSUME NEW i \in DOMAIN buffer' PROVE buffer'[i].seq = i
    <3>1. i \in 1..Len(buffer) \/ i = Len(buffer) + 1
      BY <2>1, <2>2
    <3>2. CASE i \in 1..Len(buffer)
      BY <3>2, <2>1, <2>2 DEF BufferIsNumbered
    <3>3. CASE i = Len(buffer) + 1
      BY <3>3, <2>1, <2>2
    <3> QED BY <3>1, <3>2, <3>3
  <2> QED BY <2>1, <2>2, <2>3 DEF BufferIsNumbered
<1> QED BY <1>1, <1>2, Emissions

\* Every step keeps one start, first, and one end, last.
LEMMA OneStartStep ==
  ASSUME TypeOK, Lifecycle, BufferIsNumbered, OneStartOneEnd, [Next]_vars
  PROVE  OneStartOneEnd'
<1>1. CASE NoEmission
  BY <1>1 DEF NoEmission, OneStartOneEnd
<1>2. ASSUME NEW type \in EventTypes, Emission(type)
      PROVE  OneStartOneEnd'
  <2>1. /\ buffer' \in Seq(Event)
        /\ Len(buffer') = Len(buffer) + 1
        /\ \A i \in 1..Len(buffer) : buffer'[i] = buffer[i]
        /\ buffer'[Len(buffer) + 1] = [seq |-> sequence + 1, type |-> type]
    BY <1>2, EmitAppends DEF Emission, TypeOK
  <2>2. Len(buffer) = sequence /\ sequence \in Nat
        /\ DOMAIN buffer = 1..Len(buffer)
    BY DEF BufferIsNumbered, TypeOK, Data
  <2>3. ASSUME NEW i \in DOMAIN buffer'
        PROVE  /\ buffer'[i].type = "run_started" <=> i = 1
               /\ buffer'[i].type \in Terminal => i = Len(buffer')
    <3>1. i \in 1..Len(buffer) \/ i = Len(buffer) + 1
      BY <2>1, <2>2
    <3>2. CASE i \in 1..Len(buffer)
      <4>1. buffer'[i] = buffer[i] /\ i \in DOMAIN buffer
        BY <3>2, <2>1, <2>2
      <4>2. buffer[i].type \notin Terminal
        BY <4>1, <1>2 DEF Emission, EmittedTypes
      <4> QED BY <4>1, <4>2 DEF OneStartOneEnd
    <3>3. CASE i = Len(buffer) + 1
      <4>1. type = "run_started" <=> i = 1
        BY <3>3, <2>2, <1>2 DEF Emission
      <4> QED BY <3>3, <4>1, <2>1
    <3> QED BY <3>1, <3>2, <3>3
  <2> QED BY <2>3 DEF OneStartOneEnd
<1> QED BY <1>1, <1>2, Emissions

\* Every step keeps the log a part of what was emitted.
LEMMA LogStep ==
  ASSUME TypeOK, Lifecycle, BufferIsNumbered, LogWasEmitted, [Next]_vars
  PROVE  LogWasEmitted'
<1>1. CASE NoEmission
  BY <1>1 DEF NoEmission, LogWasEmitted
<1>2. ASSUME NEW type \in EventTypes, Emission(type)
      PROVE  LogWasEmitted'
  <2>1. /\ buffer' \in Seq(Event)
        /\ Len(buffer') = Len(buffer) + 1
        /\ \A i \in 1..Len(buffer) : buffer'[i] = buffer[i]
        /\ buffer'[Len(buffer) + 1] = [seq |-> sequence + 1, type |-> type]
    BY <1>2, EmitAppends DEF Emission, TypeOK
  <2>2. Len(buffer) = sequence /\ sequence \in Nat
        /\ DOMAIN buffer = 1..Len(buffer)
    BY DEF BufferIsNumbered, TypeOK, Data
  <2>3. ASSUME NEW n \in (log \union unsettled)'
        PROVE  n \in DOMAIN buffer' /\ buffer'[n].type \notin Ephemeral
    <3>1. \/ n \in log \union unsettled
          \/ n = sequence + 1 /\ type \notin Ephemeral
      BY <2>3, <1>2 DEF Emission, Emit
    <3>2. CASE n \in log \union unsettled
      <4>1. n \in 1..Len(buffer) /\ buffer[n].type \notin Ephemeral
        BY <3>2, <2>2 DEF LogWasEmitted
      <4> QED BY <4>1, <2>1, <2>2
    <3>3. CASE n = sequence + 1 /\ type \notin Ephemeral
      BY <3>3, <2>1, <2>2
    <3> QED BY <3>1, <3>2, <3>3
  <2> QED BY <2>3 DEF LogWasEmitted
<1> QED BY <1>1, <1>2, Emissions

-----------------------------------------------------------------------------
(* Control and the store. *)

\* Every step keeps the stored parts a prefix of the result's: only SavePart
\* adds one, and it is the first that is missing.
LEMMA PartsStep ==
  ASSUME TypeOK, Lifecycle, StoreFollows, PartsInOrder, [Next]_vars
  PROVE  PartsInOrder'
<1>1. CASE SavePart
  <2>1. PICK p \in Unsaved : NextPart(p) /\ saved' \in {saved, saved \union {p}}
    BY <1>1 DEF SavePart
  <2>2. result' = result
    BY <1>1 DEF SavePart
  <2>3. result \in SUBSET Parts
    BY <1>1, ResultsAssumption DEF SavePart, Lifecycle, Completing, TypeOK, Data
  <2>4. ASSUME NEW q \in result, Rank[q] < Rank[p] PROVE q \in saved
    <3>1. ASSUME q \in Unsaved PROVE FALSE
      <4>1. Rank[p] =< Rank[q]
        BY <2>1, <3>1 DEF NextPart
      <4>2. Rank[p] \in Nat /\ Rank[q] \in Nat
        BY <2>1, <2>3, <2>4 DEF Unsaved, Rank, Parts
      <4> QED BY <4>1, <4>2, <2>4
    <3> QED BY <3>1, <2>4 DEF Unsaved
  <2> QED BY <2>1, <2>2, <2>4 DEF PartsInOrder, Unsaved
<1>2. CASE GeneratorDelivers
  BY <1>2 DEF GeneratorDelivers, StoreFollows, Undecided, PartsInOrder, store
<1>3. CASE UNCHANGED <<saved, result>>
  BY <1>3 DEF PartsInOrder
<1> QED
  BY <1>1, <1>2, <1>3
     DEF Next, Internal, Executor, Subscribe, MarkRunRunning,
         MarkMessageStreaming, GeneratorReturns, GeneratorEmits,
         AppendReturns, CompleteRun, CompleteMessage, AllPartsSaved,
         AnnounceCode, AnnounceCompleted, FailRun, FailMessage,
         AnnounceFailed, ExecuteReturns, Restart, vars, memory, store

\* After an emission the counter is past zero and the type is among the emitted.
LEMMA EmitLife ==
  ASSUME Data, NEW type \in EventTypes, Emit(type)
  PROVE  sequence' # 0 /\ EmittedTypes' = EmittedTypes \union {type}
<1>1. sequence' # 0
  BY DEF Emit, Data
<1>2. EmittedTypes' = EmittedTypes \union {type}
  BY EmitAppends
<1> QED BY <1>1, <1>2

\* Every step keeps the record of the run in line with where execute() is.
LEMMA LifecycleStep ==
  ASSUME TypeOK, Lifecycle, BufferIsNumbered,
         [Next]_vars
  PROVE  Lifecycle'
<1> USE DEF Completing, Failing, Quiet, Terminal, memory, store, history
<1>1. CASE Subscribe
  <2>1. CASE started
    BY <1>1, <2>1, SameBuffer DEF Subscribe, Lifecycle
  <2>2. CASE ~started
    <3>1. EmittedTypes = {}
      BY <1>1, <2>2, NothingEmitted DEF Subscribe, Lifecycle, TypeOK
    <3>2. sequence' # 0 /\ EmittedTypes' = EmittedTypes \union {"run_started"}
      BY <1>1, <2>2, EmitLife DEF Subscribe, EventTypes, TypeOK
    <3> QED BY <1>1, <2>2, <3>1, <3>2 DEF Subscribe, Lifecycle
  <2> QED BY <2>1, <2>2
<1>2. CASE MarkRunRunning
  BY <1>2, SameBuffer DEF MarkRunRunning, Lifecycle
<1>3. CASE MarkMessageStreaming
  BY <1>3, SameBuffer DEF MarkMessageStreaming, Lifecycle
<1>4. CASE GeneratorDelivers
  BY <1>4, SameBuffer DEF GeneratorDelivers, Lifecycle
<1>5. CASE GeneratorReturns
  BY <1>5, SameBuffer DEF GeneratorReturns, Lifecycle
<1>6. CASE CompleteRun
  BY <1>6, SameBuffer DEF CompleteRun, SkipWrites, Lifecycle
<1>7. CASE CompleteMessage
  BY <1>7, SameBuffer DEF CompleteMessage, SkipWrites, Lifecycle
<1>8. CASE SavePart
  BY <1>8, SameBuffer DEF SavePart, SkipWrites, Lifecycle
<1>9. CASE AllPartsSaved
  BY <1>9, SameBuffer DEF AllPartsSaved, Lifecycle
<1>10. CASE AnnounceCode
  <2>1. sequence' # 0 /\ EmittedTypes' = EmittedTypes \union {"code_complete"}
    BY <1>10, EmitLife DEF AnnounceCode, EventTypes, TypeOK
  <2> QED BY <1>10, <2>1 DEF AnnounceCode, Lifecycle
<1>11. CASE AnnounceCompleted
  <2>1. sequence' # 0 /\ EmittedTypes' = EmittedTypes \union {"run_completed"}
    BY <1>11, EmitLife DEF AnnounceCompleted, EventTypes, TypeOK
  <2> QED BY <1>11, <2>1 DEF AnnounceCompleted, Lifecycle
<1>12. CASE FailRun
  BY <1>12, SameBuffer DEF FailRun, Lifecycle
<1>13. CASE FailMessage
  BY <1>13, SameBuffer DEF FailMessage, Lifecycle
<1>14. CASE AnnounceFailed
  <2>1. sequence' # 0 /\ EmittedTypes' = EmittedTypes \union {"run_failed"}
    BY <1>14, EmitLife DEF AnnounceFailed, EventTypes, TypeOK
  <2> QED BY <1>14, <2>1 DEF AnnounceFailed, Lifecycle
<1>15. CASE ExecuteReturns
  BY <1>15, SameBuffer DEF ExecuteReturns, Lifecycle
<1>16. ASSUME NEW type \in GenEvents, GeneratorEmits(type) PROVE Lifecycle'
  <2>1. type \in EventTypes /\ type \notin Terminal
    BY <1>16, GenEventsAssumption DEF EventTypes
  <2>2. sequence' # 0 /\ EmittedTypes' = EmittedTypes \union {type}
    BY <1>16, <2>1, EmitLife DEF GeneratorEmits, TypeOK
  <2> QED BY <1>16, <2>1, <2>2 DEF GeneratorEmits, Lifecycle
<1>17. ASSUME NEW n \in unsettled, AppendReturns(n) PROVE Lifecycle'
  BY <1>17, SameBuffer DEF AppendReturns, Lifecycle
<1>18. CASE Restart
  BY <1>18, SameBuffer DEF Restart, Lifecycle
<1>19. CASE UNCHANGED vars
  BY <1>19, SameBuffer DEF vars, Lifecycle
<1> QED
  BY <1>1, <1>2, <1>3, <1>4, <1>5, <1>6, <1>7, <1>8, <1>9, <1>10, <1>11,
     <1>12, <1>13, <1>14, <1>15, <1>16, <1>17, <1>18, <1>19
     DEF Next, Internal, Executor

\* Every step keeps the rows and the parts in line with where execute() is.
LEMMA StoreStep ==
  ASSUME TypeOK, Lifecycle, StoreFollows, PartsInOrder,
         [Next]_vars
  PROVE  StoreFollows'
<1> USE DEF Undecided, Failing, memory, store, history
<1>1. CASE Subscribe
  BY <1>1 DEF Subscribe, StoreFollows, Lifecycle
<1>2. CASE MarkRunRunning
  BY <1>2 DEF MarkRunRunning, StoreFollows
<1>3. CASE MarkMessageStreaming
  BY <1>3 DEF MarkMessageStreaming, StoreFollows
<1>4. CASE GeneratorDelivers
  BY <1>4 DEF GeneratorDelivers, StoreFollows
<1>5. CASE GeneratorReturns
  BY <1>5 DEF GeneratorReturns, StoreFollows
<1>6. CASE CompleteRun
  BY <1>6 DEF CompleteRun, SkipWrites, StoreFollows
<1>7. CASE CompleteMessage
  BY <1>7 DEF CompleteMessage, SkipWrites, StoreFollows
<1>8. CASE SavePart
  BY <1>8 DEF SavePart, SkipWrites, StoreFollows
<1>9. CASE AllPartsSaved
  <2>1. saved = result
    BY <1>9 DEF AllPartsSaved, Unsaved, PartsInOrder
  <2> QED BY <1>9, <2>1 DEF AllPartsSaved, StoreFollows
<1>10. CASE AnnounceCode
  BY <1>10 DEF AnnounceCode, StoreFollows
<1>11. CASE AnnounceCompleted
  BY <1>11 DEF AnnounceCompleted, StoreFollows
<1>12. CASE FailRun
  BY <1>12 DEF FailRun, StoreFollows
<1>13. CASE FailMessage
  BY <1>13 DEF FailMessage, StoreFollows
<1>14. CASE AnnounceFailed
  BY <1>14 DEF AnnounceFailed, StoreFollows
<1>15. CASE ExecuteReturns
  BY <1>15 DEF ExecuteReturns, StoreFollows
<1>16. ASSUME NEW type \in GenEvents, GeneratorEmits(type) PROVE StoreFollows'
  BY <1>16 DEF GeneratorEmits, StoreFollows
<1>17. ASSUME NEW n \in unsettled, AppendReturns(n) PROVE StoreFollows'
  BY <1>17 DEF AppendReturns, StoreFollows
<1>18. CASE Restart
  BY <1>18 DEF Restart, StoreFollows
<1>19. CASE UNCHANGED vars
  BY <1>19 DEF vars, StoreFollows
<1> QED
  BY <1>1, <1>2, <1>3, <1>4, <1>5, <1>6, <1>7, <1>8, <1>9, <1>10, <1>11,
     <1>12, <1>13, <1>14, <1>15, <1>16, <1>17, <1>18, <1>19
     DEF Next, Internal, Executor

\* Every step keeps an announced ending stored: the announcing steps find it
\* so by StoreFollows, and no write comes after them.
LEMMA EndingStep ==
  ASSUME TypeOK, Lifecycle, StoreFollows, BufferIsNumbered, EndingIsStored,
         [Next]_vars
  PROVE  EndingIsStored'
<1> USE DEF Quiet, Terminal, memory, store, history
<1>1. CASE Subscribe
  <2>1. CASE started
    BY <1>1, <2>1, SameBuffer DEF Subscribe, EndingIsStored
  <2>2. CASE ~started
    <3>1. EmittedTypes = {}
      BY <1>1, <2>2, NothingEmitted DEF Subscribe, Lifecycle, TypeOK
    <3>2. EmittedTypes' = EmittedTypes \union {"run_started"}
      BY <1>1, <2>2, EmitLife DEF Subscribe, EventTypes, TypeOK
    <3> QED BY <3>1, <3>2 DEF EndingIsStored
  <2> QED BY <2>1, <2>2
<1>2. CASE MarkRunRunning
  <2>1. EmittedTypes \intersect Terminal = {} /\ EmittedTypes' = EmittedTypes
    BY <1>2, SameBuffer DEF MarkRunRunning, Lifecycle
  <2> QED BY <2>1 DEF EndingIsStored
<1>3. CASE MarkMessageStreaming
  <2>1. EmittedTypes \intersect Terminal = {} /\ EmittedTypes' = EmittedTypes
    BY <1>3, SameBuffer DEF MarkMessageStreaming, Lifecycle
  <2> QED BY <2>1 DEF EndingIsStored
<1>4. CASE GeneratorDelivers
  <2>1. EmittedTypes \intersect Terminal = {} /\ EmittedTypes' = EmittedTypes
    BY <1>4, SameBuffer DEF GeneratorDelivers, Lifecycle
  <2> QED BY <2>1 DEF EndingIsStored
<1>5. CASE GeneratorReturns
  <2>1. EmittedTypes \intersect Terminal = {} /\ EmittedTypes' = EmittedTypes
    BY <1>5, SameBuffer DEF GeneratorReturns, Lifecycle
  <2> QED BY <2>1 DEF EndingIsStored
<1>6. CASE CompleteRun
  <2>1. EmittedTypes \intersect Terminal = {} /\ EmittedTypes' = EmittedTypes
    BY <1>6, SameBuffer DEF CompleteRun, Lifecycle
  <2> QED BY <2>1 DEF EndingIsStored
<1>7. CASE CompleteMessage
  <2>1. EmittedTypes \intersect Terminal = {} /\ EmittedTypes' = EmittedTypes
    BY <1>7, SameBuffer DEF CompleteMessage, Lifecycle
  <2> QED BY <2>1 DEF EndingIsStored
<1>8. CASE SavePart
  <2>1. EmittedTypes \intersect Terminal = {} /\ EmittedTypes' = EmittedTypes
    BY <1>8, SameBuffer DEF SavePart, Lifecycle
  <2> QED BY <2>1 DEF EndingIsStored
<1>9. CASE AllPartsSaved
  <2>1. EmittedTypes \intersect Terminal = {} /\ EmittedTypes' = EmittedTypes
    BY <1>9, SameBuffer DEF AllPartsSaved, Lifecycle
  <2> QED BY <2>1 DEF EndingIsStored
<1>10. CASE AnnounceCode
  <2>1. EmittedTypes \intersect Terminal = {}
    BY <1>10 DEF AnnounceCode, Lifecycle
  <2>2. EmittedTypes' = EmittedTypes \union {"code_complete"}
    BY <1>10, EmitLife DEF AnnounceCode, EventTypes, TypeOK
  <2> QED BY <1>10, <2>1, <2>2 DEF AnnounceCode, EndingIsStored
<1>11. CASE AnnounceCompleted
  <2>1. EmittedTypes \intersect Terminal = {}
    BY <1>11 DEF AnnounceCompleted, Lifecycle
  <2>2. EmittedTypes' = EmittedTypes \union {"run_completed"}
    BY <1>11, EmitLife DEF AnnounceCompleted, EventTypes, TypeOK
  <2> QED
    BY <1>11, <2>1, <2>2 DEF AnnounceCompleted, EndingIsStored, StoreFollows
<1>12. CASE FailRun
  <2>1. EmittedTypes \intersect Terminal = {} /\ EmittedTypes' = EmittedTypes
    BY <1>12, SameBuffer DEF FailRun, Lifecycle
  <2> QED BY <2>1 DEF EndingIsStored
<1>13. CASE FailMessage
  <2>1. EmittedTypes \intersect Terminal = {} /\ EmittedTypes' = EmittedTypes
    BY <1>13, SameBuffer DEF FailMessage, Lifecycle
  <2> QED BY <2>1 DEF EndingIsStored
<1>14. CASE AnnounceFailed
  <2>1. EmittedTypes \intersect Terminal = {}
    BY <1>14 DEF AnnounceFailed, Lifecycle
  <2>2. EmittedTypes' = EmittedTypes \union {"run_failed"}
    BY <1>14, EmitLife DEF AnnounceFailed, EventTypes, TypeOK
  <2> QED BY <1>14, <2>1, <2>2 
     DEF AnnounceFailed, EndingIsStored, StoreFollows, Failing
<1>15. CASE ExecuteReturns
  BY <1>15, SameBuffer DEF ExecuteReturns, EndingIsStored
<1>16. ASSUME NEW type \in GenEvents, GeneratorEmits(type) PROVE EndingIsStored'
  <2>1. EmittedTypes \intersect Terminal = {}
    BY <1>16 DEF GeneratorEmits, Lifecycle
  <2>2. type \in EventTypes /\ type \notin Terminal
    BY <1>16, GenEventsAssumption DEF EventTypes
  <2>3. EmittedTypes' = EmittedTypes \union {type}
    BY <1>16, <2>2, EmitLife DEF GeneratorEmits, TypeOK
  <2> QED BY <2>1, <2>2, <2>3 DEF EndingIsStored
<1>17. ASSUME NEW n \in unsettled, AppendReturns(n) PROVE EndingIsStored'
  BY <1>17, SameBuffer DEF AppendReturns, EndingIsStored
<1>18. CASE Restart
  BY <1>18, SameBuffer DEF Restart, EndingIsStored
<1>19. CASE UNCHANGED vars
  BY <1>19, SameBuffer DEF vars, EndingIsStored
<1> QED
  BY <1>1, <1>2, <1>3, <1>4, <1>5, <1>6, <1>7, <1>8, <1>9, <1>10, <1>11,
     <1>12, <1>13, <1>14, <1>15, <1>16, <1>17, <1>18, <1>19
     DEF Next, Internal, Executor

-----------------------------------------------------------------------------
(* The invariant and what follows from it. *)

\* The invariant holds of a run as register() leaves it.
LEMMA IInvInit == Init => IInv
<1> SUFFICES ASSUME Init PROVE IInv
  OBVIOUS
<1>1. TypeOK
  BY TypeInit
<1>2. DOMAIN buffer = {} /\ Len(buffer) = 0
  BY DEF Init
<1>3. EmittedTypes = {}
  BY <1>2 DEF EmittedTypes
<1>4. Lifecycle
  BY <1>3 DEF Init, Lifecycle, Quiet, Completing, Failing
<1>5. StoreFollows
  BY DEF Init, StoreFollows, Undecided, Failing
<1>6. BufferIsNumbered /\ OneStartOneEnd
  BY <1>2 DEF Init, BufferIsNumbered, OneStartOneEnd
<1>7. LogWasEmitted /\ PartsInOrder
  BY DEF Init, LogWasEmitted, PartsInOrder
<1>8. EndingIsStored
  BY <1>3 DEF EndingIsStored
<1> QED BY <1>1, <1>4, <1>5, <1>6, <1>7, <1>8 DEF IInv

\* Every step keeps the invariant.
LEMMA IInvStep == IInv /\ [Next]_vars => IInv'
<1> SUFFICES ASSUME IInv, [Next]_vars PROVE IInv'
  OBVIOUS
<1>1. /\ TypeOK /\ Lifecycle /\ StoreFollows
      /\ BufferIsNumbered /\ OneStartOneEnd /\ LogWasEmitted
      /\ EndingIsStored /\ PartsInOrder
  BY DEF IInv
<1>2. TypeOK' /\ Lifecycle' /\ StoreFollows'
  BY <1>1, TypeStep, LifecycleStep, StoreStep
<1>3. BufferIsNumbered' /\ OneStartOneEnd' /\ LogWasEmitted'
  BY <1>1, NumberedStep, OneStartStep, LogStep
<1>4. EndingIsStored' /\ PartsInOrder'
  BY <1>1, EndingStep, PartsStep
<1> QED BY <1>2, <1>3, <1>4 DEF IInv

\* In every reachable state the record, the rows, the log and the buffer of a
\* run are what the place of execute() says of them.
THEOREM Invariance == Spec => []IInv
  BY IInvInit, IInvStep, PTL DEF Spec

\* Every variable of a run has its type.
THEOREM TypeCorrect == Spec => []TypeOK
<1>1. IInv => TypeOK
  BY DEF IInv
<1> QED BY <1>1, Invariance, PTL

\* An event's number is its place in the stream, for every interleaving of
\* emissions, appends and faults.
THEOREM Numbering == Spec => []BufferIsNumbered
<1>1. IInv => BufferIsNumbered
  BY DEF IInv
<1> QED BY <1>1, Invariance, PTL

\* A run is started once by whoever subscribes, and ends at most once.
THEOREM OneStartAndOneEnd == Spec => []OneStartOneEnd
<1>1. IInv => OneStartOneEnd
  BY DEF IInv
<1> QED BY <1>1, Invariance, PTL

\* The persisted log is a part of the stream without its ephemeral events.
THEOREM LogSoundness == Spec => []LogWasEmitted
<1>1. IInv => LogWasEmitted
  BY DEF IInv
<1> QED BY <1>1, Invariance, PTL

\* A terminal event comes after the writes it stands for.
THEOREM StoredBeforeAnnounced == Spec => []EndingIsStored
<1>1. IInv => EndingIsStored
  BY DEF IInv
<1> QED BY <1>1, Invariance, PTL

\* The stored parts of a result are always a prefix of it.
THEOREM StoredPrefix == Spec => []PartsInOrder
<1>1. IInv => PartsInOrder
  BY DEF IInv
<1> QED BY <1>1, Invariance, PTL

\* A settled row keeps its outcome.
THEOREM RowSettled == Spec => RowSettlesOnce
<1>1. IInv /\ [Next]_vars
      => [row' # row => row \notin {"completed", "failed"}]_row
  <2> SUFFICES ASSUME IInv, [Next]_vars, row' # row
               PROVE  row \notin {"completed", "failed"}
    OBVIOUS
  <2>1. MarkRunRunning \/ CompleteRun \/ FailRun
    BY DEF Next, Internal, Executor, Subscribe, MarkMessageStreaming,
           GeneratorDelivers, GeneratorReturns, GeneratorEmits,
           AppendReturns, CompleteMessage, SavePart, AllPartsSaved,
           AnnounceCode, AnnounceCompleted, FailMessage, AnnounceFailed,
           ExecuteReturns, Restart, vars, store
  <2>2. pc \in Undecided
    BY <2>1 DEF MarkRunRunning, CompleteRun, FailRun, Undecided
  <2> QED BY <2>2 DEF IInv, StoreFollows
<1> QED BY <1>1, Invariance, PTL DEF Spec, RowSettlesOnce

-----------------------------------------------------------------------------
(* RunManager implements RunOutcome. *)

\* What the abstract run sees of a step that emits no terminal event.
LEMMA QuietEmission ==
  ASSUME Data, NEW type \in EventTypes \ Terminal, Emit(type)
  PROVE  Announced' = Announced
<1>1. EmittedTypes' = EmittedTypes \union {type}
  BY EmitLife
<1> QED BY <1>1 DEF Announced, Terminal

\* What is announced depends on the buffer alone.
LEMMA SameAnnounced == buffer' = buffer => Announced' = Announced
  BY SameBuffer DEF Announced

\* A step that leaves the mapped variables alone is a stutter of RunOutcome.
LEMMA StutterOutcome ==
  ASSUME UNCHANGED <<Decided, Recorded, Announced, registered>>
  PROVE  UNCHANGED Outcome!vars
  BY DEF Outcome!vars

\* Every step of a run is a step of RunOutcome or a stutter.
LEMMA OutcomeStep ==
  ASSUME IInv, [Next]_vars
  PROVE  Outcome!Next \/ UNCHANGED Outcome!vars
<1> DEFINE Same == UNCHANGED <<Decided, Recorded, Announced, registered>>
<1> USE DEF memory, store, history
<1>a. /\ TypeOK /\ Lifecycle /\ StoreFollows /\ BufferIsNumbered /\ Data
  BY DEF IInv, TypeOK
<1>1. CASE Subscribe
  <2>1. Announced' = Announced
    <3>1. CASE started
      BY <1>1, <3>1, SameAnnounced DEF Subscribe
    <3>2. CASE ~started
      BY <1>1, <3>2, <1>a, QuietEmission DEF Subscribe, EventTypes, Terminal
    <3> QED BY <3>1, <3>2
  <2>2. Same
    BY <1>1, <2>1, <1>a DEF Subscribe, Decided, Recorded, Lifecycle
  <2> QED BY <2>2, StutterOutcome
<1>2. CASE MarkRunRunning
  <2>1. Same
    BY <1>2, <1>a, SameAnnounced
       DEF MarkRunRunning, Decided, Recorded, StoreFollows, Undecided
  <2> QED BY <2>1, StutterOutcome
<1>3. CASE MarkMessageStreaming
  <2>1. Same
    BY <1>3, SameAnnounced DEF MarkMessageStreaming, Decided, Recorded
  <2> QED BY <2>1, StutterOutcome
<1>4. CASE GeneratorDelivers
  <2>1. Same
    BY <1>4, SameAnnounced DEF GeneratorDelivers, Decided, Recorded
  <2> QED BY <2>1, StutterOutcome
<1>5. CASE GeneratorReturns
  <2>1. /\ registered /\ registered' = registered
        /\ Decided = "none" /\ Decided' \in {"completed", "failed"}
        /\ Recorded' = Recorded
    BY <1>5, <1>a DEF GeneratorReturns, Lifecycle, Decided, Recorded
  <2>2. Announced' = Announced
    BY <1>5, SameAnnounced DEF GeneratorReturns
  <2>3. Outcome!Decide
    BY <2>1, <2>2 DEF Outcome!Decide
  <2> QED BY <2>3 DEF Outcome!Next
<1>6. CASE CompleteRun
  <2>1. /\ registered /\ registered' = registered
        /\ Decided = "completed" /\ Decided' = Decided
    BY <1>6, <1>a DEF CompleteRun, Lifecycle, Completing, Decided
  <2>2. Announced = "none" /\ Announced' = Announced
    BY <1>6, <1>a, SameAnnounced
       DEF CompleteRun, Lifecycle, Quiet, Announced, Terminal
  <2>3. CASE row' = row
    <3>1. Same
      BY <2>1, <2>2, <2>3 DEF Recorded
    <3> QED BY <3>1, StutterOutcome
  <2>4. CASE row' = "completed"
    <3>1. Recorded' = Decided
      BY <2>1, <2>4 DEF Recorded
    <3>2. Outcome!Record
      BY <2>1, <2>2, <3>1 DEF Outcome!Record
    <3> QED BY <3>2 DEF Outcome!Next
  <2> QED BY <1>6, <2>3, <2>4 DEF CompleteRun
<1>7. CASE CompleteMessage
  <2>1. Same
    BY <1>7, SameAnnounced DEF CompleteMessage, Decided, Recorded
  <2> QED BY <2>1, StutterOutcome
<1>8. CASE SavePart
  <2>1. Same
    BY <1>8, SameAnnounced DEF SavePart, Decided, Recorded
  <2> QED BY <2>1, StutterOutcome
<1>9. CASE AllPartsSaved
  <2>1. Same
    BY <1>9, SameAnnounced DEF AllPartsSaved, Decided, Recorded
  <2> QED BY <2>1, StutterOutcome
<1>10. CASE AnnounceCode
  <2>1. Announced' = Announced
    BY <1>10, <1>a, QuietEmission DEF AnnounceCode, EventTypes, Terminal
  <2>2. Same
    BY <1>10, <2>1 DEF AnnounceCode, Decided, Recorded
  <2> QED BY <2>2, StutterOutcome
<1>11. CASE AnnounceCompleted
  <2>1. /\ registered /\ registered' = registered
        /\ Decided = "completed" /\ Decided' = Decided /\ Recorded' = Recorded
    BY <1>11, <1>a DEF AnnounceCompleted, Lifecycle, Completing, Decided,
       Recorded
  <2>2. EmittedTypes \intersect Terminal = {}
    BY <1>11, <1>a DEF AnnounceCompleted, Lifecycle, Quiet
  <2>3. EmittedTypes' = EmittedTypes \union {"run_completed"}
    BY <1>11, <1>a, EmitLife DEF AnnounceCompleted, EventTypes, Terminal
  <2>4. Announced = "none" /\ Announced' = "completed"
    BY <2>2, <2>3 DEF Announced, Terminal
  <2>5. Outcome!Announce
    BY <2>1, <2>4 DEF Outcome!Announce
  <2> QED BY <2>5 DEF Outcome!Next
<1>12. CASE FailRun
  <2>1. /\ registered /\ registered' = registered
        /\ Decided = "failed" /\ Decided' = Decided
    BY <1>12, <1>a DEF FailRun, Lifecycle, Failing, Decided
  <2>2. Announced = "none" /\ Announced' = Announced
    BY <1>12, <1>a, SameAnnounced
       DEF FailRun, Lifecycle, Quiet, Announced, Terminal
  <2>3. CASE row' = row
    <3>1. Same
      BY <2>1, <2>2, <2>3 DEF Recorded
    <3> QED BY <3>1, StutterOutcome
  <2>4. CASE row' = "failed"
    <3>1. Recorded' = Decided
      BY <2>1, <2>4 DEF Recorded
    <3>2. Outcome!Record
      BY <2>1, <2>2, <3>1 DEF Outcome!Record
    <3> QED BY <3>2 DEF Outcome!Next
  <2> QED BY <1>12, <2>3, <2>4 DEF FailRun
<1>13. CASE FailMessage
  <2>1. Same
    BY <1>13, SameAnnounced DEF FailMessage, Decided, Recorded
  <2> QED BY <2>1, StutterOutcome
<1>14. CASE AnnounceFailed
  <2>1. /\ registered /\ registered' = registered
        /\ Decided = "failed" /\ Decided' = Decided /\ Recorded' = Recorded
    BY <1>14, <1>a DEF AnnounceFailed, Lifecycle, Failing, Decided, Recorded
  <2>2. EmittedTypes \intersect Terminal = {}
    BY <1>14, <1>a DEF AnnounceFailed, Lifecycle, Quiet
  <2>3. EmittedTypes' = EmittedTypes \union {"run_failed"}
    BY <1>14, <1>a, EmitLife DEF AnnounceFailed, EventTypes, Terminal
  <2>4. Announced = "none" /\ Announced' = "failed"
    BY <2>2, <2>3 DEF Announced, Terminal
  <2>5. Outcome!Announce
    BY <2>1, <2>4 DEF Outcome!Announce
  <2> QED BY <2>5 DEF Outcome!Next
<1>15. CASE ExecuteReturns
  <2>1. Same
    BY <1>15, SameAnnounced DEF ExecuteReturns, Decided, Recorded
  <2> QED BY <2>1, StutterOutcome
<1>16. ASSUME NEW type \in GenEvents, GeneratorEmits(type)
       PROVE  UNCHANGED Outcome!vars
  <2>1. type \in EventTypes \ Terminal
    BY <1>16, GenEventsAssumption DEF EventTypes, Terminal
  <2>2. Announced' = Announced
    BY <1>16, <1>a, <2>1, QuietEmission DEF GeneratorEmits
  <2>3. Same
    BY <1>16, <2>2 DEF GeneratorEmits, Decided, Recorded
  <2> QED BY <2>3, StutterOutcome
<1>17. ASSUME NEW n \in unsettled, AppendReturns(n)
       PROVE  UNCHANGED Outcome!vars
  <2>1. Same
    BY <1>17, SameAnnounced DEF AppendReturns, Decided, Recorded
  <2> QED BY <2>1, StutterOutcome
<1>18. CASE Restart
  <2>1. registered' = FALSE /\ Decided' = "none" /\ Recorded' = Recorded
    BY <1>18 DEF Restart, Decided, Recorded
  <2>2. Announced' = Announced
    BY <1>18, SameAnnounced DEF Restart
  <2>3. CASE registered
    <3>1. Outcome!Die
      BY <2>1, <2>2, <2>3 DEF Outcome!Die
    <3> QED BY <3>1 DEF Outcome!Next
  <2>4. CASE ~registered
    <3>1. registered = FALSE /\ Decided = "none"
      BY <2>4, <1>a DEF Lifecycle, Decided, TypeOK, Flags
    <3>2. Same
      BY <2>1, <2>2, <3>1
    <3> QED BY <3>2, StutterOutcome
  <2> QED BY <2>3, <2>4
<1>19. CASE UNCHANGED vars
  <2>1. Same
    BY <1>19, SameAnnounced DEF vars, Decided, Recorded
  <2> QED BY <2>1, StutterOutcome
<1> QED
  BY <1>1, <1>2, <1>3, <1>4, <1>5, <1>6, <1>7, <1>8, <1>9, <1>10, <1>11,
     <1>12, <1>13, <1>14, <1>15, <1>16, <1>17, <1>18, <1>19
     DEF Next, Internal, Executor

\* One outcome per run: what the row says and what the stream says are the
\* one thing the process decided, and nothing is said after its death.
THEOREM Implementation == Spec => ImplementsRunOutcome
<1>1. Init => Outcome!Init
  <2> SUFFICES ASSUME Init PROVE Outcome!Init
    OBVIOUS
  <2>1. EmittedTypes = {}
    BY DEF Init, EmittedTypes
  <2> QED BY <2>1 DEF Init, Outcome!Init, Decided, Recorded, Announced
<1>2. IInv /\ [Next]_vars => [Outcome!Next]_(Outcome!vars)
  BY OutcomeStep
<1> QED
  BY <1>1, <1>2, Invariance, PTL DEF Spec, ImplementsRunOutcome, Outcome!Spec

-----------------------------------------------------------------------------
(* The clients of a run.                                                   *)

Greeting == [seq |-> 0, type |-> "status", origin |-> "stream"]

\* What a client is told as number k while the process lives.
Nth(k) == IF k = 0 THEN Greeting ELSE Sent(buffer[k])

\* Where a connection can be, and what was seen by then.
Places(c) ==
    /\ phase[c] \notin {"live", "replaying", "closing"} => wire[c] = << >>
    /\ phase[c] = "live" => registered
    /\ phase[c] = "replaying" => ~registered
    /\ registered /\ phase[c] \in {"live", "closing"} => started
    /\ registered /\ phase[c] = "closing" => EmittedTypes \intersect Terminal # {}
    /\ phase[c] \in {"idle", "opening", "replaying", "backoff"} => ~SawTerminal(c)

\* A client saw events of the run, and greetings and notices of a handler; it
\* missed only such.
SeenShape(c) ==
    /\ \A e \in seen[c] :
          IF e.origin = "run"
            THEN e.seq \in DOMAIN buffer /\ e = Sent(buffer[e.seq])
            ELSE e.type \in {"status", "run_failed"}
    /\ \A e \in missed[c] : e.origin = "stream"

\* While the process lives a client saw everything up to its last number, and
\* its wire goes on from there, or from before, to the end of the buffer.
LiveWire(c) ==
    registered =>
        /\ lastSeq[c] <= Len(buffer)
        /\ seen[c] = {Nth(k) : k \in 0..lastSeq[c]}
        /\ phase[c] \in {"live", "closing"} =>
               /\ Len(buffer) - Len(wire[c]) <= lastSeq[c]
               /\ Len(wire[c]) <= Len(buffer) + 1
               /\ \A i \in DOMAIN wire[c] :
                     wire[c][i] = Nth(Len(buffer) - Len(wire[c]) + i)

\* After a restart: a client that has seen no end saw what the log has up to
\* its last number.
LogSeen(c) ==
    ~registered /\ ~SawTerminal(c) =>
        \A n \in log : n <= lastSeq[c] => Sent(buffer[n]) \in seen[c]

\* A wire w is a replay of the log, in order and without holes before what was
\* not seen yet, between a greeting and a notice.
IsReplay(c, w) ==
    /\ \A i \in DOMAIN w :
          IF w[i].origin = "run"
            THEN /\ w[i].seq \in log /\ w[i] = Sent(buffer[w[i].seq])
                 /\ w[i].seq <= lastSeq[c] => w[i] \in seen[c]
                 /\ \A j \in DOMAIN w : j < i => w[j].seq < w[i].seq
                 /\ \A n \in log :
                       n < w[i].seq => \/ Sent(buffer[n]) \in seen[c]
                                      \/ \E j \in DOMAIN w : j < i /\ w[j] = Sent(buffer[n])
            ELSE w[i] = Greeting \/ w[i].type = "run_failed"

ReplayWire(c) ==
    ~registered =>
        /\ IsReplay(c, wire[c])
        /\ phase[c] = "replaying" => \A i \in DOMAIN wire[c] : wire[c][i] = Greeting

ClientInv(c) ==
    Places(c) /\ SeenShape(c) /\ LiveWire(c) /\ LogSeen(c) /\ ReplayWire(c)

StreamInv ==
    /\ IInv
    /\ StreamTypeOK
    /\ registered <=> restarts = 0
    /\ ~registered => unsettled = {}
    /\ \A c \in Clients : ClientInv(c)

-----------------------------------------------------------------------------
(* The run under its stream *)

\* What is appended to a response comes behind what was sent.
LEMMA Joined ==
    ASSUME NEW S, NEW a \in Seq(S), NEW b \in Seq(S)
    PROVE  /\ a \o b \in Seq(S) /\ Len(a \o b) = Len(a) + Len(b)
           /\ Len(a) \in Nat /\ Len(b) \in Nat
           /\ DOMAIN (a \o b) = 1..(Len(a) + Len(b))
           /\ \A i \in 1..(Len(a) + Len(b)) :
                 (a \o b)[i] = IF i <= Len(a) THEN a[i] ELSE b[i - Len(a)]
BY ConcatProperties

\* A step of the stream is a step of the run, or only a store call that fails.
LEMMA RunMoves ==
    ASSUME [StreamNext]_streamVars
    PROVE  \/ [Next]_vars
           \/ /\ Fault
              /\ UNCHANGED <<memory, store, finishFault, restarts>>
<1>1. CASE RunStep BY <1>1 DEF RunStep, Next
<1>2. CASE ServerRestart BY <1>2 DEF ServerRestart, Next
<1>3. CASE OrphanSubscribes BY <1>3 DEF OrphanSubscribes, Next
<1>4. ASSUME NEW c \in Clients,
             Open(c) \/ OpenFails(c) \/ Progress(c) \/ ReplayFails(c) \/ Drop(c)
      PROVE  \/ [Next]_vars
             \/ Fault /\ UNCHANGED <<memory, store, finishFault, restarts>>
  BY <1>4 DEF Open, OpenFails, Progress, Attach, AttachUnknown, ReplayLog,
     Deliver,
     Close, ReplayFails, Drop, Next
<1>5. CASE UNCHANGED streamVars BY <1>5 DEF streamVars
<1> QED BY <1>1, <1>2, <1>3, <1>4, <1>5 DEF StreamNext

\* So the invariant of the run holds under its stream.
LEMMA RunInvStep ==
    ASSUME IInv, [StreamNext]_streamVars
    PROVE  IInv'
<1>1. CASE [Next]_vars BY <1>1, IInvStep
<1>2. CASE Fault /\ UNCHANGED <<memory, store, finishFault, restarts>>
  <2>1. TypeOK' BY <1>2 DEF IInv, TypeOK, Flags, Data, Fault, memory, store
  <2> QED
    BY <1>2, <2>1 DEF IInv, Lifecycle, StoreFollows, BufferIsNumbered,
       OneStartOneEnd, LogWasEmitted, EndingIsStored, PartsInOrder, EmittedTypes,
       memory, store
<1> QED BY <1>1, <1>2, RunMoves

\* A step leaves the buffer alone or appends one event, and never after a
\* terminal one.
Appends ==
    /\ Len(buffer') = Len(buffer) + 1
    /\ \A k \in 1..Len(buffer) : buffer'[k] = buffer[k]
    /\ EmittedTypes \intersect Terminal = {}

\* The buffer of a run only grows, by one event at a time.
LEMMA BufferMoves ==
    ASSUME IInv, [StreamNext]_streamVars
    PROVE  buffer' = buffer \/ Appends
<1>1. CASE [Next]_vars
  <2>1. TypeOK /\ Lifecycle /\ BufferIsNumbered BY DEF IInv
  <2>2. NoEmission \/ \E type \in EventTypes : Emission(type)
    BY <1>1, <2>1, Emissions
  <2>3. CASE NoEmission BY <2>3 DEF NoEmission
  <2>4. ASSUME NEW type \in EventTypes, Emission(type) PROVE Appends
    BY <2>1, <2>4, EmitAppends DEF Emission, TypeOK, Appends
  <2> QED BY <2>2, <2>3, <2>4
<1>2. CASE UNCHANGED memory BY <1>2 DEF memory
<1> QED BY <1>1, <1>2, RunMoves

\* What was announced under a number stays so.
LEMMA NthStays ==
    ASSUME IInv, buffer' = buffer \/ Appends
    PROVE  /\ Len(buffer') >= Len(buffer)
           /\ \A k \in 0..Len(buffer) : Nth(k)' = Nth(k)
           /\ \A k \in DOMAIN buffer : k \in DOMAIN buffer' /\ buffer'[k] = buffer[k]
<1>1. /\ DOMAIN buffer = 1..Len(buffer) /\ Len(buffer) \in Nat
  BY DEF IInv, TypeOK, Data
<1>2. CASE buffer' = buffer BY <1>1, <1>2 DEF Nth, Sent
<1>3. CASE Appends
  <2>1. \A k \in 1..Len(buffer) : buffer'[k] = buffer[k] BY <1>3 DEF Appends
  <2>2. Len(buffer') = Len(buffer) + 1 BY <1>3 DEF Appends
  <2>3. Len(buffer') >= Len(buffer) BY <1>1, <2>2
  <2>4. \A k \in 0..Len(buffer) : Nth(k)' = Nth(k)
    BY <1>1, <2>1 DEF Nth, Sent, Greeting
  <2>5. DOMAIN buffer \subseteq DOMAIN buffer'
    BY <1>1, <2>2
  <2> QED BY <1>1, <2>1, <2>3, <2>4, <2>5
<1> QED BY <1>2, <1>3

\* The numbers and the types of what is announced.
LEMMA NthShape ==
    ASSUME IInv
    PROVE  /\ Len(buffer) \in Nat /\ DOMAIN buffer = 1..Len(buffer)
           /\ \A k \in DOMAIN buffer : /\ buffer[k].seq = k
                                       /\ buffer[k].type \in EventTypes
                                       /\ Sent(buffer[k]) \in StreamEvent
                                       /\ Sent(buffer[k]).seq = k
                                       /\ Sent(buffer[k]).origin = "run"
                                       /\ Sent(buffer[k]).type = buffer[k].type
           /\ \A k \in 0..Len(buffer) : /\ Nth(k) \in StreamEvent
                                        /\ Nth(k).seq = k
           /\ log \subseteq DOMAIN buffer
<1>1. /\ Len(buffer) \in Nat /\ DOMAIN buffer = 1..Len(buffer)
      /\ buffer \in Seq(Event)
  BY DEF IInv, TypeOK, Data
<1>2. ASSUME NEW k \in DOMAIN buffer
      PROVE  /\ buffer[k].seq = k
             /\ buffer[k].type \in EventTypes
             /\ Sent(buffer[k]) \in StreamEvent
             /\ Sent(buffer[k]).seq = k
             /\ Sent(buffer[k]).origin = "run"
             /\ Sent(buffer[k]).type = buffer[k].type
  <2>1. buffer[k] \in Event BY <1>1
  <2>2. buffer[k].seq = k BY DEF IInv, BufferIsNumbered
  <2> QED BY <2>1, <2>2 DEF Event, Sent, StreamEvent
<1>3. Greeting \in StreamEvent /\ Greeting.seq = 0
  BY DEF Greeting, StreamEvent, EventTypes
<1>4. \A k \in 0..Len(buffer) : Nth(k) \in StreamEvent /\ Nth(k).seq = k
  BY <1>1, <1>2, <1>3 DEF Nth
<1>5. log \subseteq DOMAIN buffer BY DEF IInv, LogWasEmitted
<1> QED BY <1>1, <1>2, <1>4, <1>5

\* A step of the execution is one of a run in the Map, and leaves it there.
LEMMA RunKeepsMap ==
    ASSUME IInv, ~registered => unsettled = {}, RunStep
    PROVE  registered /\ UNCHANGED <<registered, started, restarts>>
<1> USE DEF memory, store, history
<1>1. ~registered => ~started /\ pc = "off" BY DEF IInv, Lifecycle
<1>2. registered
  BY <1>1 DEF RunStep, Internal, Executor, MarkRunRunning,
     MarkMessageStreaming, GeneratorDelivers, GeneratorReturns, GeneratorEmits,
     AppendReturns, CompleteRun, CompleteMessage, SavePart, AllPartsSaved,
     AnnounceCode, AnnounceCompleted, FailRun, FailMessage, AnnounceFailed,
     ExecuteReturns
<1>3. UNCHANGED <<registered, started, restarts>>
  BY DEF RunStep, Internal, Executor, MarkRunRunning,
     MarkMessageStreaming, GeneratorDelivers, GeneratorReturns, GeneratorEmits,
     AppendReturns, CompleteRun, CompleteMessage, SavePart, AllPartsSaved,
     AnnounceCode, AnnounceCompleted, FailRun, FailMessage, AnnounceFailed,
     ExecuteReturns
<1> QED BY <1>2, <1>3

\* Nothing is emitted or stored any more once the process has died, and only
\* a death takes the run out of the Map.
LEMMA AfterDeath ==
    ASSUME IInv, ~registered => unsettled = {}, [StreamNext]_streamVars
    PROVE  /\ ~registered => /\ ~registered' /\ buffer' = buffer
                             /\ log' = log
           /\ ~registered' => unsettled' = {}
           /\ registered /\ ~registered' => ServerRestart
           /\ registered /\ registered' => restarts' = restarts
           /\ registered /\ started /\ registered' => started'
           /\ restarts \in Nat
           /\ ~registered' => restarts' \in {restarts, restarts + 1}
           /\ registered /\ ~registered' => restarts' = restarts + 1
<1> USE DEF memory, store, history
<1>1. /\ ~registered => ~started /\ pc = "off"
      /\ restarts \in Nat
  BY DEF IInv, Lifecycle, TypeOK, Data, Flags
<1>2. CASE RunStep BY <1>1, <1>2, RunKeepsMap
<1>3. CASE ServerRestart
  BY <1>1, <1>3 DEF ServerRestart, Restart
<1>4. CASE UNCHANGED vars
  BY <1>1, <1>4 DEF vars
<1>5. CASE Subscribe
  BY <1>1, <1>5 DEF Subscribe
<1>6. CASE OrphanSubscribes
  BY <1>4, <1>5, <1>6 DEF OrphanSubscribes
<1>7. ASSUME NEW c \in Clients, Attach(c) PROVE Subscribe
  BY <1>7 DEF Attach
<1>8. ASSUME NEW c \in Clients, ReplayFails(c)
      PROVE  UNCHANGED <<memory, log, restarts>>
  BY <1>8 DEF ReplayFails
<1>9. ASSUME NEW c \in Clients,
             Open(c) \/ OpenFails(c) \/ AttachUnknown(c) \/ ReplayLog(c)
             \/ Deliver(c) \/ Close(c) \/ Drop(c)
      PROVE  UNCHANGED vars
  BY <1>9 DEF Open, OpenFails, AttachUnknown, ReplayLog, Deliver, Close, Drop
<1>10. CASE UNCHANGED streamVars BY <1>4, <1>10 DEF streamVars
<1>11. CASE UNCHANGED <<memory, log, restarts>> BY <1>1, <1>11
<1> QED
  BY <1>2, <1>3, <1>4, <1>5, <1>6, <1>7, <1>8, <1>9, <1>10, <1>11
     DEF StreamNext, Progress

-----------------------------------------------------------------------------
(* One client *)

\* A client whose connection the step does not touch.  The buffer may grow
\* under it when it is not listening yet, the log when the process lives.
LEMMA Untouched ==
    ASSUME IInv, StreamTypeOK, NEW c \in Clients, ClientInv(c),
           phase'[c] = phase[c], wire'[c] = wire[c], lastSeq'[c] = lastSeq[c],
           seen'[c] = seen[c], missed'[c] = missed[c],
           registered' = registered,
           ~registered => buffer' = buffer /\ log' = log,
           registered /\ started => started',
           buffer' = buffer
               \/ (Appends /\ ~(registered /\ phase[c] \in {"live", "closing"}))
    PROVE  ClientInv(c)'
<1>1. /\ Len(buffer') >= Len(buffer)
      /\ \A k \in 0..Len(buffer) : Nth(k)' = Nth(k)
      /\ \A k \in DOMAIN buffer : k \in DOMAIN buffer' /\ buffer'[k] = buffer[k]
  BY NthStays
<1>2. Len(buffer) \in Nat /\ DOMAIN buffer = 1..Len(buffer) BY NthShape
<1>3. SawTerminal(c)' <=> SawTerminal(c) BY DEF SawTerminal
<1>4. Places(c)'
  <2>1. buffer' = buffer => EmittedTypes' = EmittedTypes BY SameBuffer
  <2> QED BY <1>3, <2>1 DEF ClientInv, Places
<1>5. SeenShape(c)' BY <1>1 DEF ClientInv, SeenShape, Sent
<1>6. LiveWire(c)'
  <2> SUFFICES ASSUME registered PROVE LiveWire(c)'
    BY DEF LiveWire
  <2>1. /\ lastSeq[c] <= Len(buffer)
        /\ seen[c] = {Nth(k) : k \in 0..lastSeq[c]}
        /\ lastSeq[c] \in Nat \union {-1}
    BY DEF ClientInv, LiveWire, StreamTypeOK
  <2>2. {Nth(k)' : k \in 0..lastSeq[c]} = {Nth(k) : k \in 0..lastSeq[c]}
    BY <1>1, <1>2, <2>1
  <2>3. CASE buffer' = buffer
    BY <2>3 DEF ClientInv, LiveWire, Nth, Sent
  <2>4. CASE Appends /\ phase[c] \notin {"live", "closing"}
    <3>1. lastSeq'[c] <= Len(buffer') BY <1>2, <2>1, <2>4 DEF Appends
    <3> QED BY <2>1, <2>2, <2>4, <3>1 DEF LiveWire
  <2> QED BY <2>3, <2>4
<1>7. LogSeen(c)' BY <1>3 DEF ClientInv, LogSeen, Sent
<1>8. ReplayWire(c)' BY DEF ClientInv, ReplayWire, IsReplay, Sent
<1> QED BY <1>4, <1>5, <1>6, <1>7, <1>8 DEF ClientInv

\* A client that is off the wire, before it connects, while it looks the run
\* up, or after its connection ended or the process died.
LEMMA OffTheWire ==
    ASSUME IInv, StreamTypeOK, NEW c \in Clients, ClientInv(c),
           phase'[c] \notin {"live", "replaying", "closing"},
           phase'[c] \in {"idle", "opening", "backoff"} => ~SawTerminal(c),
           wire'[c] = << >>, lastSeq'[c] = lastSeq[c],
           seen'[c] = seen[c], missed'[c] = missed[c],
           buffer' = buffer, log' = log, registered' => registered
    PROVE  ClientInv(c)'
<1>1. SawTerminal(c)' <=> SawTerminal(c) BY DEF SawTerminal
<1>2. Places(c)' BY <1>1 DEF Places
<1>3. SeenShape(c)' BY DEF ClientInv, SeenShape, Sent
<1>4. LiveWire(c)' BY DEF ClientInv, LiveWire, Nth, Sent
<1>5. LogSeen(c)'
  <2>1. CASE ~registered BY <1>1, <2>1 DEF ClientInv, LogSeen, Sent
  <2>2. CASE registered
    <3> SUFFICES ASSUME NEW n \in log, n <= lastSeq[c]
                 PROVE  Sent(buffer[n]) \in seen[c]
      BY <1>1 DEF LogSeen, Sent
    <3>1. n \in 1..Len(buffer) /\ Len(buffer) \in Nat BY NthShape
    <3>2. seen[c] = {Nth(k) : k \in 0..lastSeq[c]} /\ lastSeq[c] <= Len(buffer)
      BY <2>2 DEF ClientInv, LiveWire
    <3>3. Nth(n) = Sent(buffer[n]) BY <3>1 DEF Nth
    <3>4. lastSeq[c] \in Nat \union {-1} BY DEF StreamTypeOK
    <3>5. n \in 0..lastSeq[c] BY <3>1, <3>4
    <3> QED BY <3>2, <3>3, <3>5
  <2> QED BY <2>1, <2>2
<1>6. ReplayWire(c)' BY <1>2 DEF ReplayWire, IsReplay
<1> QED BY <1>2, <1>3, <1>4, <1>5, <1>6 DEF ClientInv

\* A client that starts to listen is told the whole buffer.
LEMMA Attached ==
    ASSUME IInv, IInv', StreamTypeOK, NEW c \in Clients, ClientInv(c), Attach(c),
           buffer' = buffer \/ Appends
    PROVE  ClientInv(c)'
<1>1. /\ Len(buffer') >= Len(buffer)
      /\ \A k \in 0..Len(buffer) : Nth(k)' = Nth(k)
      /\ \A k \in DOMAIN buffer : k \in DOMAIN buffer' /\ buffer'[k] = buffer[k]
  BY NthStays
<1>2. Len(buffer) \in Nat /\ DOMAIN buffer = 1..Len(buffer) BY NthShape
<1>3. /\ Len(buffer') \in Nat /\ DOMAIN buffer' = 1..Len(buffer')
      /\ buffer' \in Seq(Event)
  BY DEF IInv, TypeOK, Data
<1>4. /\ registered /\ registered' /\ started'
      /\ phase'[c] = IF ReplayEnds THEN "closing" ELSE "live"
      /\ wire'[c] = Handler("status", 0) \o Replayed
      /\ UNCHANGED <<lastSeq, seen, missed>>
  BY DEF Attach, Subscribe, StreamTypeOK
<1>5. Places(c)'
  <2>1. ReplayEnds => EmittedTypes' \intersect Terminal # {}
    BY DEF ReplayEnds, EmittedTypes
  <2> QED BY <1>4, <2>1 DEF Places
<1>6. SeenShape(c)' BY <1>1, <1>4 DEF ClientInv, SeenShape, Sent
<1>7. LiveWire(c)'
  <2>1. /\ lastSeq[c] <= Len(buffer)
        /\ seen[c] = {Nth(k) : k \in 0..lastSeq[c]}
        /\ lastSeq[c] \in Nat \union {-1}
    BY <1>4 DEF ClientInv, LiveWire, StreamTypeOK
  <2>2. {Nth(k)' : k \in 0..lastSeq[c]} = {Nth(k) : k \in 0..lastSeq[c]}
    BY <1>1, <1>2, <2>1
  <2>3. lastSeq[c] <= Len(buffer') BY <1>1, <1>2, <1>3, <2>1
  <2> DEFINE N(k) == IF k = 0 THEN Greeting ELSE Sent(buffer'[k])
             a == <<Greeting>>
             b == [i \in 1..Len(buffer') |-> Sent(buffer'[i])]
  <2>4. wire'[c] = a \o b
    BY <1>3, <1>4 DEF Handler, Greeting, Replayed, AsSent
  <2>5. a \in Seq(StreamEvent) /\ Len(a) = 1 /\ a[1] = Greeting
    <3>1. Greeting \in StreamEvent BY DEF Greeting, StreamEvent, EventTypes
    <3> QED BY <3>1
  <2>6. b \in Seq(StreamEvent) /\ Len(b) = Len(buffer')
    <3>1. \A i \in 1..Len(buffer') : buffer'[i] \in Event BY <1>3
    <3>2. \A i \in 1..Len(buffer') : Sent(buffer'[i]) \in StreamEvent
      BY <3>1 DEF Sent, StreamEvent, Event
    <3>3. b \in [1..Len(buffer') -> StreamEvent] BY <3>2
    <3> QED BY <1>3, <3>3
  <2>7. \A i \in 1..Len(buffer') : b[i] = Sent(buffer'[i]) OBVIOUS
  <2> HIDE DEF a, b
  <2>8. /\ Len(a \o b) = Len(buffer') + 1
        /\ DOMAIN (a \o b) = 1..(Len(buffer') + 1)
        /\ \A i \in 1..(Len(buffer') + 1) :
              (a \o b)[i] = IF i <= 1 THEN a[i] ELSE b[i - 1]
    <3>1. /\ a \o b \in Seq(StreamEvent)
          /\ Len(a \o b) = Len(a) + Len(b)
          /\ \A i \in 1..(Len(a) + Len(b)) :
                (a \o b)[i] = IF i <= Len(a) THEN a[i] ELSE b[i - Len(a)]
      BY ONLY <2>5, <2>6, Joined, ZenonT(40)
    <3>2. Len(a \o b) = Len(buffer') + 1 BY <1>3, <2>5, <2>6, <3>1
    <3>3. DOMAIN (a \o b) = 1..Len(a \o b) BY <3>1
    <3> QED BY <1>3, <2>5, <2>6, <3>1, <3>2, <3>3
  <2>9. \A i \in 1..(Len(buffer') + 1) : (a \o b)[i] = N(i - 1)
    <3> SUFFICES ASSUME NEW i \in 1..(Len(buffer') + 1)
                 PROVE  (a \o b)[i] = N(i - 1)
      OBVIOUS
    <3>1. CASE i = 1 BY <2>5, <2>8, <3>1
    <3>2. CASE i # 1
      <4>1. i - 1 \in 1..Len(buffer') /\ i - 1 # 0 /\ ~(i <= 1)
        BY <1>3, <3>2
      <4> QED BY <2>7, <2>8, <4>1
    <3> QED BY <3>1, <3>2
  <2> HIDE DEF N
  <2>10. \A i \in DOMAIN wire'[c] :
            wire'[c][i] = N(Len(buffer') - Len(wire'[c]) + i)
    <3> SUFFICES ASSUME NEW i \in 1..(Len(buffer') + 1)
                 PROVE  (a \o b)[i] = N(Len(buffer') - Len(a \o b) + i)
      BY <2>4, <2>8
    <3>1. Len(buffer') - Len(a \o b) + i = i - 1 BY <1>3, <2>8
    <3> QED BY <2>9, <3>1
  <2>11. /\ Len(buffer') - Len(wire'[c]) <= lastSeq'[c]
         /\ Len(wire'[c]) <= Len(buffer') + 1
    BY <1>3, <1>4, <2>1, <2>4, <2>8
  <2>12. /\ lastSeq'[c] <= Len(buffer')
         /\ seen'[c] = {N(k) : k \in 0..lastSeq'[c]}
    <3>1. {N(k) : k \in 0..lastSeq[c]} = {Nth(k)' : k \in 0..lastSeq[c]}
      BY DEF N, Nth, Sent
    <3> QED BY <1>4, <2>1, <2>2, <2>3, <3>1
  <2> QED BY <2>10, <2>11, <2>12 DEF LiveWire, N, Nth, Sent
<1>8. LogSeen(c)' /\ ReplayWire(c)' BY <1>4 DEF LogSeen, ReplayWire
<1> QED BY <1>5, <1>6, <1>7, <1>8 DEF ClientInv

\* What reading the next event does to a wire.
LEMMA Heads ==
    ASSUME NEW w \in Seq(StreamEvent), w # << >>
    PROVE  /\ Head(w) = w[1] /\ Head(w) \in StreamEvent /\ 1 \in DOMAIN w
           /\ Tail(w) \in Seq(StreamEvent)
           /\ Len(w) \in Nat \ {0} /\ Len(Tail(w)) = Len(w) - 1
           /\ DOMAIN Tail(w) = 1..(Len(w) - 1)
           /\ \A i \in DOMAIN Tail(w) : i + 1 \in DOMAIN w /\ Tail(w)[i] = w[i + 1]
<1>1. /\ Tail(w) \in Seq(StreamEvent) /\ Len(Tail(w)) = Len(w) - 1
      /\ \A i \in 1..Len(Tail(w)) : Tail(w)[i] = w[i + 1]
      /\ Head(w) \in StreamEvent
  BY HeadTailProperties
<1>2. Len(w) \in Nat \ {0} /\ DOMAIN w = 1..Len(w) BY EmptySeq
<1>3. DOMAIN Tail(w) = 1..(Len(w) - 1) BY <1>1
<1>4. Head(w) = w[1] OBVIOUS
<1> QED BY <1>1, <1>2, <1>3, <1>4

\* Delivery while the process lives: the next event is the next number, or one
\* that the client saw.
LEMMA DeliveredLive ==
    ASSUME IInv, StreamTypeOK, NEW c \in Clients, ClientInv(c), Deliver(c), registered
    PROVE  ClientInv(c)'
<1> DEFINE w == wire[c]
           h == Head(w)
           k == Len(buffer) - Len(w) + 1
           last == lastSeq[c]
<1>1. /\ phase[c] \in {"live", "replaying", "closing"} /\ w # << >>
      /\ wire'[c] = Tail(w) /\ phase' = phase
      /\ UNCHANGED <<registered, started, buffer, log>>
  BY DEF Deliver, StreamTypeOK, vars, memory, store
<1>2. phase[c] \in {"live", "closing"} BY <1>1 DEF ClientInv, Places
<1>3. /\ last <= Len(buffer)
      /\ seen[c] = {Nth(j) : j \in 0..last}
      /\ Len(buffer) - Len(w) <= last
      /\ Len(w) <= Len(buffer) + 1
      /\ \A i \in DOMAIN w : w[i] = Nth(Len(buffer) - Len(w) + i)
  BY <1>2 DEF ClientInv, LiveWire
<1>4. w \in Seq(StreamEvent) /\ last \in Nat \union {-1} BY DEF StreamTypeOK
<1>5. /\ h = w[1] /\ 1 \in DOMAIN w /\ Len(w) \in Nat \ {0}
      /\ Len(Tail(w)) = Len(w) - 1 /\ DOMAIN Tail(w) = 1..(Len(w) - 1)
      /\ \A i \in DOMAIN Tail(w) : i + 1 \in DOMAIN w /\ Tail(w)[i] = w[i + 1]
  BY <1>1, <1>4, Heads
<1>6. Len(buffer) \in Nat /\ DOMAIN buffer = 1..Len(buffer) BY NthShape
<1>7. h = Nth(k) /\ k \in 0..Len(buffer) /\ k <= last + 1
  <2>1. w[1] = Nth(Len(buffer) - Len(w) + 1) BY <1>3, <1>5
  <2>2. last \in Int /\ Len(w) \in Nat \ {0} /\ Len(buffer) \in Nat
    BY <1>4, <1>5, <1>6
  <2> HIDE DEF w, last
  <2>3. k \in 0..Len(buffer) BY <1>3, <2>2
  <2>4. k <= last + 1 BY <1>3, <2>2
  <2> QED BY <1>5, <2>1, <2>3, <2>4
<1> HIDE DEF k, w, last, h
<1>8. h.seq = k BY <1>7, NthShape
<1>9. \/ k <= last /\ lastSeq'[c] = last /\ seen'[c] = seen[c] /\ missed'[c] = missed[c]
      \/ k = last + 1 /\ lastSeq'[c] = k /\ seen'[c] = seen[c] \union {h}
           /\ missed'[c] = missed[c]
  <2>1. CASE h.seq <= last
    <3>1. lastSeq' = lastSeq /\ seen' = seen
          /\ missed'[c] = missed[c] \union ({h} \ seen[c])
      BY <2>1 DEF Deliver, StreamTypeOK, h, w, last
    <3>2. k \in 0..last BY <1>4, <1>7, <1>8, <2>1
    <3>3. h \in seen[c] BY <1>3, <1>7, <3>2
    <3>4. lastSeq'[c] = last BY <3>1 DEF last
    <3> QED BY <1>8, <2>1, <3>1, <3>3, <3>4
  <2>2. CASE ~(h.seq <= last)
    <3>1. lastSeq'[c] = h.seq /\ seen'[c] = seen[c] \union {h} /\ missed' = missed
      BY <2>2 DEF Deliver, StreamTypeOK, h, w, last
    <3>2. k = last + 1 BY <1>4, <1>7, <1>8, <2>2
    <3> QED BY <1>8, <3>1, <3>2
  <2> QED BY <2>1, <2>2
<1>10. Places(c)'
  <2>1. EmittedTypes' = EmittedTypes BY <1>1, SameBuffer
  <2> QED BY <1>1, <1>2, <2>1 DEF ClientInv, Places
<1>11. SeenShape(c)'
  <2>1. h.origin = "run" => h.seq \in DOMAIN buffer /\ h = Sent(buffer[h.seq])
    BY <1>6, <1>7, <1>8 DEF Nth, Greeting
  <2>2. h.origin # "run" => h.type = "status"
    BY <1>6, <1>7, NthShape DEF Nth, Greeting
  <2>3. \A e \in seen'[c] : e \in seen[c] \/ e = h BY <1>9
  <2>4. missed'[c] = missed[c] BY <1>9
  <2> QED BY <1>1, <2>1, <2>2, <2>3, <2>4 DEF ClientInv, SeenShape, Sent
<1>12. LiveWire(c)'
  <2>1. \A j : Nth(j)' = Nth(j) BY <1>1 DEF Nth, Sent, Greeting
  <2>2. lastSeq'[c] <= Len(buffer) /\ seen'[c] = {Nth(j) : j \in 0..lastSeq'[c]}
    <3>1. CASE lastSeq'[c] = last /\ seen'[c] = seen[c] BY <1>3, <3>1
    <3>2. CASE k = last + 1 /\ lastSeq'[c] = k /\ seen'[c] = seen[c] \union {h}
      <4>1. 0..k = (0..last) \union {k} BY <1>4, <3>2
      <4> QED BY <1>3, <1>6, <1>7, <3>2, <4>1
    <3> QED BY <1>9, <3>1, <3>2
  <2>3. Len(buffer) - Len(Tail(w)) = k /\ wire'[c] = Tail(w)
    BY <1>1, <1>5, <1>6 DEF k
  <2>4. k <= lastSeq'[c] /\ Len(Tail(w)) <= Len(buffer) + 1
    BY <1>3, <1>4, <1>5, <1>6, <1>7, <1>9
  <2>5. \A i \in DOMAIN Tail(w) : Tail(w)[i] = Nth(k + i)
    <3> SUFFICES ASSUME NEW i \in 1..(Len(w) - 1) PROVE Tail(w)[i] = Nth(k + i)
      BY <1>5
    <3>1. Tail(w)[i] = w[i + 1] /\ i + 1 \in DOMAIN w BY <1>5
    <3>2. w[i + 1] = Nth(Len(buffer) - Len(w) + (i + 1)) BY <1>3, <3>1
    <3>3. Len(buffer) - Len(w) + (i + 1) = k + i BY <1>5, <1>6 DEF k
    <3> QED BY <3>1, <3>2, <3>3
  <2> QED BY <1>1, <1>2, <2>2, <2>3, <2>4, <2>5 DEF LiveWire, Nth, Sent
<1>13. LogSeen(c)' /\ ReplayWire(c)' BY <1>1 DEF LogSeen, ReplayWire
<1> QED BY <1>10, <1>11, <1>12, <1>13 DEF ClientInv

\* Delivery of a replayed log: what is skipped was seen, and nothing that the
\* log has before it was not.
LEMMA DeliveredReplay ==
    ASSUME IInv, StreamTypeOK, NEW c \in Clients, ClientInv(c), Deliver(c),
           ~registered
    PROVE  ClientInv(c)'
<1> DEFINE w == wire[c]
           h == Head(w)
           last == lastSeq[c]
<1>1. /\ phase[c] \in {"live", "replaying", "closing"} /\ w # << >>
      /\ wire'[c] = Tail(w) /\ phase' = phase
      /\ UNCHANGED <<registered, started, buffer, log>>
  BY DEF Deliver, StreamTypeOK, vars, memory, store
<1>2. w \in Seq(StreamEvent) /\ last \in Nat \union {-1} BY DEF StreamTypeOK
<1>3. /\ h = w[1] /\ h \in StreamEvent /\ 1 \in DOMAIN w /\ Len(w) \in Nat \ {0}
      /\ DOMAIN Tail(w) = 1..(Len(w) - 1)
      /\ \A i \in DOMAIN Tail(w) : i + 1 \in DOMAIN w /\ Tail(w)[i] = w[i + 1]
  BY <1>1, <1>2, Heads
<1>4. h.seq \in Nat BY <1>3 DEF StreamEvent
<1>5. \A i \in DOMAIN w :
          IF w[i].origin = "run"
            THEN /\ w[i].seq \in log /\ w[i] = Sent(buffer[w[i].seq])
                 /\ w[i].seq <= last => w[i] \in seen[c]
                 /\ \A j \in DOMAIN w : j < i => w[j].seq < w[i].seq
                 /\ \A n \in log :
                       n < w[i].seq => \/ Sent(buffer[n]) \in seen[c]
                                      \/ \E j \in DOMAIN w : j < i /\ w[j] = Sent(buffer[n])
            ELSE w[i] = Greeting \/ w[i].type = "run_failed"
  BY DEF ClientInv, ReplayWire, IsReplay
<1>6. \/ /\ h.seq <= last /\ lastSeq'[c] = last /\ seen'[c] = seen[c]
         /\ missed'[c] = missed[c] \union ({h} \ seen[c])
      \/ /\ last < h.seq /\ lastSeq'[c] = h.seq /\ seen'[c] = seen[c] \union {h}
         /\ missed'[c] = missed[c]
  <2>1. CASE h.seq <= last BY <2>1 DEF Deliver, StreamTypeOK
  <2>2. CASE ~(h.seq <= last)
    <3>1. last < h.seq BY <1>2, <1>4, <2>2
    <3> QED BY <2>2, <3>1 DEF Deliver, StreamTypeOK
  <2> QED BY <2>1, <2>2
<1>7. h.origin = "run" => h \in seen'[c] BY <1>3, <1>5, <1>6
<1>8. seen[c] \subseteq seen'[c] BY <1>6
<1> HIDE DEF h, w, last
<1>9. Places(c)'
  <2>1. phase[c] = "replaying" => ~SawTerminal(c) /\ h = Greeting
    BY <1>3 DEF ClientInv, Places, ReplayWire, w
  <2>2. \A e \in seen'[c] : e \in seen[c] \/ e = h BY <1>6
  <2>3. phase[c] = "replaying" => ~SawTerminal(c)'
    BY <2>1, <2>2 DEF SawTerminal, Greeting, Terminal
  <2> QED BY <1>1, <2>3 DEF ClientInv, Places
<1>10. SeenShape(c)'
  <2>1. log \subseteq DOMAIN buffer BY NthShape
  <2>2. h.origin = "run" => h.seq \in DOMAIN buffer /\ h = Sent(buffer[h.seq])
    BY <1>3, <1>5, <2>1
  <2>3. h.origin # "run" => h.type \in {"status", "run_failed"}
    BY <1>3, <1>5 DEF Greeting
  <2>4. \A e \in seen'[c] : e \in seen[c] \/ e = h BY <1>6
  <2>5. \A e \in missed'[c] : e \in missed[c] \/ (e = h /\ h \notin seen'[c])
    BY <1>6
  <2>6. h.origin \in {"run", "stream"} BY <1>3 DEF StreamEvent
  <2> QED
    BY <1>1, <1>7, <2>2, <2>3, <2>4, <2>5, <2>6 DEF ClientInv, SeenShape, Sent
<1>11. LogSeen(c)'
  <2> SUFFICES ASSUME ~SawTerminal(c)', NEW n \in log, n <= lastSeq'[c]
               PROVE  Sent(buffer[n]) \in seen'[c]
    BY <1>1 DEF LogSeen, Sent
  <2>1. ~SawTerminal(c) BY <1>8 DEF SawTerminal
  <2>2. n \in Nat /\ n > 0 BY DEF IInv, TypeOK, Data
  <2>3. CASE n <= last BY <1>8, <2>1, <2>3 DEF ClientInv, LogSeen, last
  <2>4. CASE ~(n <= last)
    <3>1. lastSeq'[c] = h.seq /\ h \in seen'[c] /\ n <= h.seq BY <1>6, <2>4
    <3>2. h.type \notin Terminal BY <3>1 DEF SawTerminal
    <3>3. h.origin = "run"
      BY <1>3, <1>5, <2>2, <3>1, <3>2 DEF Greeting, Terminal
    <3>4. CASE n = h.seq BY <1>3, <1>5, <3>1, <3>3, <3>4
    <3>5. CASE n < h.seq
      <4>1. Sent(buffer[n]) \in seen[c]
            \/ \E j \in DOMAIN w : j < 1 /\ w[j] = Sent(buffer[n])
        BY <1>3, <1>5, <3>3, <3>5
      <4>2. \A j \in DOMAIN w : ~(j < 1) BY <1>2
      <4> QED BY <1>8, <4>1, <4>2
    <3> QED BY <1>4, <2>2, <3>1, <3>4, <3>5
  <2> QED BY <2>3, <2>4
<1>12. ReplayWire(c)'
  <2> DEFINE v == Tail(w)
  <2>1. ASSUME NEW i \in DOMAIN v, v[i].origin = "run"
        PROVE  /\ v[i].seq \in log /\ v[i] = Sent(buffer[v[i].seq])
               /\ v[i].seq <= lastSeq'[c] => v[i] \in seen'[c]
               /\ \A j \in DOMAIN v : j < i => v[j].seq < v[i].seq
               /\ \A n \in log :
                     n < v[i].seq => \/ Sent(buffer[n]) \in seen'[c]
                                    \/ \E j \in DOMAIN v : j < i /\ v[j] = Sent(buffer[n])
    <3>1. i \in 1..(Len(w) - 1) /\ i + 1 \in DOMAIN w /\ v[i] = w[i + 1] BY <1>3
    <3>2. /\ w[i + 1].seq \in log /\ w[i + 1] = Sent(buffer[w[i + 1].seq])
          /\ w[i + 1].seq <= last => w[i + 1] \in seen[c]
          /\ \A j \in DOMAIN w : j < i + 1 => w[j].seq < w[i + 1].seq
          /\ \A n \in log :
                n < w[i + 1].seq =>
                    \/ Sent(buffer[n]) \in seen[c]
                    \/ \E j \in DOMAIN w : j < i + 1 /\ w[j] = Sent(buffer[n])
      BY <1>5, <2>1, <3>1
    <3>3. w[1].seq < w[i + 1].seq BY <1>3, <3>1, <3>2
    <3>4. v[i].seq <= lastSeq'[c] => v[i] \in seen'[c]
      <4>1. v[i].seq \in Nat BY <3>1, <3>2 DEF IInv, TypeOK, Data
      <4> QED BY <1>3, <1>4, <1>6, <1>8, <3>1, <3>2, <3>3, <4>1
    <3>5. \A j \in DOMAIN v : j < i => v[j].seq < v[i].seq
      <4> SUFFICES ASSUME NEW j \in 1..(Len(w) - 1), j < i PROVE v[j].seq < v[i].seq
        BY <1>3
      <4>1. j + 1 \in DOMAIN w /\ v[j] = w[j + 1] /\ j + 1 < i + 1 BY <1>3, <3>1
      <4> QED BY <3>1, <3>2, <4>1
    <3>6. ASSUME NEW n \in log, n < v[i].seq
          PROVE  \/ Sent(buffer[n]) \in seen'[c]
                 \/ \E j \in DOMAIN v : j < i /\ v[j] = Sent(buffer[n])
      <4>1. CASE Sent(buffer[n]) \in seen[c] BY <1>8, <4>1
      <4>2. ASSUME NEW j \in DOMAIN w, j < i + 1, w[j] = Sent(buffer[n])
            PROVE  \/ Sent(buffer[n]) \in seen'[c]
                   \/ \E l \in DOMAIN v : l < i /\ v[l] = Sent(buffer[n])
        <5>1. CASE j = 1
          <6>1. Sent(buffer[n]).origin = "run" BY NthShape
          <6> QED BY <1>3, <1>7, <4>2, <5>1, <6>1
        <5>2. CASE j # 1
          <6>1. DOMAIN w = 1..Len(w) BY <1>2
          <6>2. j - 1 \in DOMAIN v /\ j - 1 < i /\ (j - 1) + 1 = j
            BY <1>3, <3>1, <4>2, <5>2, <6>1
          <6>3. v[j - 1] = w[j] BY <1>3, <6>2
          <6> QED BY <4>2, <6>2, <6>3
        <5> QED BY <5>1, <5>2
      <4> QED BY <3>1, <3>2, <3>6, <4>1, <4>2
    <3> QED BY <3>1, <3>2, <3>4, <3>5, <3>6
  <2>2. \A i \in DOMAIN v : v[i].origin # "run" => v[i] = Greeting \/ v[i].type = "run_failed"
    BY <1>3, <1>5
  <2>3. phase[c] = "replaying" => \A i \in DOMAIN v : v[i] = Greeting
    BY <1>3 DEF ClientInv, ReplayWire, w
  <2>4. wire'[c] = v BY <1>1 DEF w
  <2> HIDE DEF v
  <2> QED BY ZenonT(40), <1>1, <2>1, <2>2, <2>3, <2>4 DEF ReplayWire, IsReplay, Sent
<1>13. LiveWire(c)' BY <1>1 DEF LiveWire
<1> QED BY <1>9, <1>10, <1>11, <1>12, <1>13 DEF ClientInv

\* A client that listens is handed what a step emits.
LEMMA Heard ==
    ASSUME IInv, IInv', StreamTypeOK, NEW c \in Clients, ClientInv(c), Broadcast,
           phase[c] = "live", buffer' = buffer \/ Appends,
           registered' = registered, registered /\ started => started'
    PROVE  ClientInv(c)'
<1>1. /\ Len(buffer') >= Len(buffer)
      /\ \A k \in 0..Len(buffer) : Nth(k)' = Nth(k)
      /\ \A k \in DOMAIN buffer : k \in DOMAIN buffer' /\ buffer'[k] = buffer[k]
  BY NthStays
<1>2. Len(buffer) \in Nat /\ DOMAIN buffer = 1..Len(buffer) BY NthShape
<1>3. /\ Len(buffer') \in Nat /\ DOMAIN buffer' = 1..Len(buffer')
      /\ buffer' \in Seq(Event)
  BY DEF IInv, TypeOK, Data
<1> DEFINE sub == SubSeq(buffer', Len(buffer) + 1, Len(buffer'))
           news == AsSent(sub)
           w == wire[c]
<1>4. /\ wire'[c] = w \o news
      /\ phase'[c] = IF EndsWith(news) THEN "closing" ELSE "live"
      /\ UNCHANGED <<lastSeq, seen, missed>>
  BY DEF Broadcast, StreamTypeOK
<1>5. /\ sub \in Seq(Event) /\ Len(sub) = Len(buffer') - Len(buffer)
      /\ \A i \in 1..Len(sub) : sub[i] = buffer'[Len(buffer) + i]
  <2>1. CASE Len(buffer') = Len(buffer)
    <3>1. sub = << >> BY <1>2, <1>3, <2>1
    <3> QED BY <1>2, <2>1, <3>1
  <2>2. CASE Len(buffer') # Len(buffer)
    <3>1. Len(buffer') >= Len(buffer) BY <1>1
    <3>2. Len(buffer) \in Nat /\ Len(buffer') \in Nat BY <1>2, <1>3
    <3>3. Len(buffer) + 1 <= Len(buffer') BY <2>2, <3>1, <3>2
    <3> QED BY <1>2, <1>3, <3>3, SubSeqProperties
  <2> QED BY <2>1, <2>2
<1> HIDE DEF sub
<1>6. /\ news \in Seq(StreamEvent) /\ Len(news) = Len(buffer') - Len(buffer)
      /\ DOMAIN news = 1..Len(news)
      /\ \A i \in 1..Len(news) : news[i] = Sent(buffer'[Len(buffer) + i])
  <2>1. DOMAIN sub = 1..Len(sub) /\ Len(sub) \in Nat BY <1>5
  <2>2. \A i \in 1..Len(sub) : Sent(sub[i]) \in StreamEvent
    <3>1. \A i \in 1..Len(sub) : sub[i] \in Event BY <1>5
    <3> QED BY <3>1 DEF Sent, StreamEvent, Event
  <2>3. news = [i \in 1..Len(sub) |-> Sent(sub[i])] BY <2>1 DEF AsSent
  <2>4. news \in [1..Len(sub) -> StreamEvent] BY <2>2, <2>3
  <2>5. news \in Seq(StreamEvent) /\ Len(news) = Len(sub) BY <2>1, <2>4
  <2> QED BY <1>5, <2>1, <2>3, <2>5
<1> HIDE DEF news
<1>7. EndsWith(news) => EmittedTypes' \intersect Terminal # {}
  <2> SUFFICES ASSUME NEW i \in 1..Len(news), news[i].type \in Terminal
               PROVE  EmittedTypes' \intersect Terminal # {}
    BY <1>6 DEF EndsWith
  <2>1. Len(buffer) + i \in DOMAIN buffer' BY <1>2, <1>3, <1>6
  <2>2. buffer'[Len(buffer) + i].type \in Terminal BY <1>6 DEF Sent
  <2> QED BY <2>1, <2>2 DEF EmittedTypes
<1>8. registered BY DEF ClientInv, Places
<1>9. Places(c)' BY <1>4, <1>7, <1>8 DEF ClientInv, Places
<1>10. SeenShape(c)' BY <1>1, <1>4 DEF ClientInv, SeenShape, Sent
<1>11. LiveWire(c)'
  <2> DEFINE N(k) == IF k = 0 THEN Greeting ELSE Sent(buffer'[k])
  <2>1. \A k \in 0..Len(buffer) : N(k) = Nth(k) BY <1>1 DEF Nth, Sent
  <2>2. /\ lastSeq[c] <= Len(buffer)
        /\ seen[c] = {Nth(k) : k \in 0..lastSeq[c]}
        /\ lastSeq[c] \in Nat \union {-1}
        /\ Len(buffer) - Len(w) <= lastSeq[c]
        /\ Len(w) <= Len(buffer) + 1
        /\ \A i \in DOMAIN w : w[i] = Nth(Len(buffer) - Len(w) + i)
    BY <1>8 DEF ClientInv, LiveWire, StreamTypeOK
  <2>3. w \in Seq(StreamEvent) /\ Len(w) \in Nat BY DEF StreamTypeOK
  <2> HIDE DEF w
  <2>4. /\ w \o news \in Seq(StreamEvent)
        /\ Len(w \o news) = Len(w) + Len(news)
        /\ \A i \in 1..(Len(w) + Len(news)) :
              (w \o news)[i] = IF i <= Len(w) THEN w[i] ELSE news[i - Len(w)]
    BY <1>6, <2>3, ConcatProperties
  <2>5. /\ Len(buffer') - Len(w \o news) = Len(buffer) - Len(w)
        /\ Len(w \o news) \in Nat
        /\ Len(w \o news) <= Len(buffer') + 1
    BY <1>1, <1>2, <1>3, <1>6, <2>2, <2>3, <2>4
  <2>6. DOMAIN (w \o news) = 1..Len(w \o news) BY <2>4
  <2>7. ASSUME NEW i \in 1..Len(w \o news)
        PROVE  (w \o news)[i] = N(Len(buffer) - Len(w) + i)
    <3>1. CASE i <= Len(w)
      <4>1. i \in DOMAIN w BY <2>3, <2>5, <3>1
      <4>2. w[i] = Nth(Len(buffer) - Len(w) + i) BY <2>2, <4>1
      <4>3. Len(buffer) - Len(w) + i \in 0..Len(buffer)
        BY <1>2, <2>2, <2>3, <2>5, <3>1
      <4> QED BY <2>1, <2>4, <3>1, <4>2, <4>3
    <3>2. CASE ~(i <= Len(w))
      <4>1. i - Len(w) \in 1..Len(news)
        BY <1>1, <1>2, <1>3, <1>6, <2>3, <2>4, <2>5, <3>2
      <4>2. (w \o news)[i] = news[i - Len(w)] BY <2>4, <3>2
      <4>3. news[i - Len(w)] = Sent(buffer'[Len(buffer) + (i - Len(w))])
        BY <1>6, <4>1
      <4>4. Len(buffer) + (i - Len(w)) = Len(buffer) - Len(w) + i
            /\ Len(buffer) - Len(w) + i # 0
        BY <1>2, <2>3, <2>5, <3>2
      <4> QED BY <4>2, <4>3, <4>4
    <3> QED BY <3>1, <3>2
  <2>8. /\ lastSeq'[c] <= Len(buffer')
        /\ seen'[c] = {N(k) : k \in 0..lastSeq'[c]}
    <3>1. lastSeq[c] <= Len(buffer') BY <1>1, <1>2, <1>3, <2>2
    <3>2. {N(k) : k \in 0..lastSeq[c]} = {Nth(k) : k \in 0..lastSeq[c]}
      BY <1>2, <2>1, <2>2
    <3> QED BY <1>4, <2>2, <3>1, <3>2
  <2>9. wire'[c] = w \o news BY <1>4 DEF w
  <2> HIDE DEF N
  <2>10. /\ Len(buffer') - Len(wire'[c]) <= lastSeq'[c]
         /\ Len(wire'[c]) <= Len(buffer') + 1
         /\ \A i \in DOMAIN wire'[c] :
                wire'[c][i] = N(Len(buffer') - Len(wire'[c]) + i)
    BY <1>4, <2>2, <2>5, <2>6, <2>7, <2>9
  <2> QED BY <2>8, <2>10 DEF LiveWire, N, Nth, Sent
<1>12. LogSeen(c)' /\ ReplayWire(c)' BY <1>8 DEF LogSeen, ReplayWire
<1> QED BY <1>9, <1>10, <1>11, <1>12 DEF ClientInv

-----------------------------------------------------------------------------
(* The replay of the log *)

\* listEvents lists every number of the log once, in ascending order.
LEMMA LogIsListed ==
    ASSUME IInv
    PROVE  /\ Cardinality(log) \in Nat
           /\ Persisted \in Seq(Event) /\ Len(Persisted) = Cardinality(log)
           /\ \A k \in 1..Cardinality(log) :
                 \E n \in log : Place(n) = k /\ Persisted[k] = buffer[n]
           /\ \A n \in log : /\ Place(n) \in 1..Cardinality(log)
                             /\ Persisted[Place(n)] = buffer[n]
           /\ \A m, n \in log : m < n => Place(m) < Place(n)
<1>1. log \subseteq DOMAIN buffer /\ DOMAIN buffer = 1..Len(buffer)
      /\ Len(buffer) \in Nat
  BY NthShape
<1>2. IsFiniteSet(log)
  <2>1. IsFiniteSet(1..Len(buffer)) BY <1>1, FS_Interval
  <2> QED BY <1>1, <2>1, FS_Subset
<1>3. Cardinality(log) \in Nat BY <1>2, FS_CardinalityType
<1> DEFINE Up(n) == {m \in log : m =< n}
<1>4. ASSUME NEW n \in log
      PROVE  /\ IsFiniteSet(Up(n)) /\ Cardinality(Up(n)) \in 1..Cardinality(log)
             /\ Cardinality(Up(n) \ {n}) = Cardinality(Up(n)) - 1
             /\ IsFiniteSet(Up(n) \ {n})
  <2>1. IsFiniteSet(Up(n)) /\ Cardinality(Up(n)) <= Cardinality(log)
    BY <1>2, FS_Subset
  <2>2. n \in Up(n) BY <1>1
  <2>3. Cardinality(Up(n)) \in Nat /\ Cardinality(Up(n)) # 0
    BY <2>1, <2>2, FS_CardinalityType, FS_EmptySet
  <2>4. Cardinality(Up(n) \ {n}) = Cardinality(Up(n)) - 1 /\ IsFiniteSet(Up(n) \ {n})
    BY <2>1, <2>2, FS_RemoveElement
  <2> HIDE DEF Up
  <2> QED BY <1>3, <2>1, <2>3, <2>4
<1>5. ASSUME NEW m \in log, NEW n \in log, m < n
      PROVE  Cardinality(Up(m)) < Cardinality(Up(n))
  <2>1. Up(m) \subseteq Up(n) \ {n} BY <1>1, <1>5
  <2>2. Cardinality(Up(m)) <= Cardinality(Up(n) \ {n}) BY <1>4, <2>1, FS_Subset
  <2> HIDE DEF Up
  <2>3. /\ Cardinality(Up(n) \ {n}) = Cardinality(Up(n)) - 1
        /\ Cardinality(Up(n)) \in 1..Cardinality(log)
        /\ Cardinality(Up(m)) \in 1..Cardinality(log)
    BY <1>4
  <2> QED BY <1>3, <2>2, <2>3
<1>6. \A n \in log : Place(n) = Cardinality(Up(n)) BY DEF Place
<1> HIDE DEF Up
<1>7. \A n \in log : Place(n) \in 1..Cardinality(log) BY <1>4, <1>6
<1>8. \A m, n \in log : m < n => Place(m) < Place(n) BY <1>5, <1>6
<1>9. \A m, n \in log : Place(m) = Place(n) => m = n
  <2> SUFFICES ASSUME NEW m \in log, NEW n \in log, Place(m) = Place(n), m # n
               PROVE  FALSE
    OBVIOUS
  <2>1. m < n \/ n < m BY <1>1
  <2>2. Place(m) \in 1..Cardinality(log) BY <1>7
  <2> QED BY <1>3, <1>8, <2>1, <2>2
<1>10. \A k \in 1..Cardinality(log) : \E n \in log : Place(n) = k
  <2> DEFINE f == [n \in log |-> Place(n)]
  <2>1. f \in Injection(log, 1..Cardinality(log))
    BY <1>7, <1>9 DEF Injection, IsInjective
  <2>2. IsFiniteSet(1..Cardinality(log))
        /\ Cardinality(1..Cardinality(log)) = Cardinality(log)
    BY <1>3, FS_Interval
  <2>3. f \in Surjection(log, 1..Cardinality(log))
    BY <2>1, <2>2, FS_Injection
  <2> QED BY <2>3 DEF Surjection
<1>11. \A k \in 1..Cardinality(log) :
          \E n \in log : Place(n) = k /\ (CHOOSE m \in log : Place(m) = k) = n
  BY <1>9, <1>10
<1>12. Persisted = [k \in 1..Cardinality(log) |->
                        buffer[CHOOSE n \in log : Place(n) = k]]
  BY DEF Persisted
<1>13. \A k \in 1..Cardinality(log) :
           \E n \in log : Place(n) = k /\ Persisted[k] = buffer[n]
  BY <1>11, <1>12
<1>14. \A n \in log : Persisted[Place(n)] = buffer[n]
  BY <1>7, <1>9, <1>13
<1>15. Persisted \in Seq(Event) /\ Len(Persisted) = Cardinality(log)
  <2>1. \A n \in log : buffer[n] \in Event BY <1>1 DEF IInv, TypeOK, Data
  <2>2. Persisted \in [1..Cardinality(log) -> Event] BY <1>11, <1>12, <2>1
  <2> QED BY <1>3, <2>2
<1> QED BY <1>3, <1>7, <1>8, <1>13, <1>14, <1>15

\* What is appended to the wire: the log as it is listed, then the notice.
LEMMA ReplayedLog ==
    ASSUME IInv, StreamTypeOK, NEW c \in Clients
    PROVE  /\ LogReplay(c) \in Seq(StreamEvent)
           /\ Cardinality(log) <= Len(LogReplay(c)) /\ Len(LogReplay(c)) \in Nat
           /\ \A i \in 1..Cardinality(log) : LogReplay(c)[i] = Sent(Persisted[i])
           /\ \A i \in 1..Len(LogReplay(c)) :
                 i > Cardinality(log) => /\ LogReplay(c)[i].type = "run_failed"
                                        /\ LogReplay(c)[i].origin = "stream"
<1> DEFINE p == AsSent(Persisted)
           t == StaleNotice(c)
           C == Cardinality(log)
<1>1. C \in Nat /\ Persisted \in Seq(Event) /\ Len(Persisted) = C BY LogIsListed
<1>2. p \in Seq(StreamEvent) /\ Len(p) = C /\ \A i \in 1..C : p[i] = Sent(Persisted[i])
  <2>1. DOMAIN Persisted = 1..C BY <1>1
  <2>2. \A i \in 1..C : Persisted[i] \in Event BY <1>1
  <2>3. \A i \in 1..C : Sent(Persisted[i]) \in StreamEvent
    BY <2>2 DEF Sent, StreamEvent, Event
  <2>4. p = [i \in 1..C |-> Sent(Persisted[i])] BY <2>1 DEF AsSent
  <2>5. p \in [1..C -> StreamEvent] BY <2>3, <2>4
  <2> QED BY <1>1, <2>4, <2>5
<1>3. /\ t \in Seq(StreamEvent) /\ Len(t) \in Nat
      /\ \A i \in 1..Len(t) : t[i].type = "run_failed" /\ t[i].origin = "stream"
  <2>1. CASE t = << >> BY <2>1
  <2>2. CASE t # << >>
    <3> DEFINE e == [seq |-> Len(Persisted) + 1, type |-> "run_failed", origin |-> "stream"]
    <3>1. t = <<e>> BY <2>2 DEF StaleNotice, Handler
    <3>2. e \in StreamEvent /\ e.type = "run_failed" /\ e.origin = "stream"
      BY <1>1 DEF StreamEvent, EventTypes, Terminal
    <3> HIDE DEF e
    <3> QED BY <3>1, <3>2
  <2> QED BY <2>1, <2>2
<1>4. LogReplay(c) = p \o t BY DEF LogReplay
<1> HIDE DEF p, t, C
<1>5. /\ p \o t \in Seq(StreamEvent) /\ Len(p \o t) = C + Len(t)
      /\ \A i \in 1..(C + Len(t)) : (p \o t)[i] = IF i <= C THEN p[i] ELSE t[i - C]
  BY <1>2, <1>3, ConcatProperties
<1>6. \A i \in 1..C : (p \o t)[i] = Sent(Persisted[i])
  BY <1>1, <1>2, <1>3, <1>5
<1>7. ASSUME NEW i \in 1..(C + Len(t)), i > C
      PROVE  (p \o t)[i].type = "run_failed" /\ (p \o t)[i].origin = "stream"
  <2>1. i - C \in 1..Len(t) /\ ~(i <= C) BY <1>1, <1>3, <1>7
  <2> QED BY <1>3, <1>5, <2>1
<1> QED BY <1>1, <1>3, <1>4, <1>5, <1>6, <1>7 DEF C

\* The wire of a client that the handler replays the log to.
LEMMA LogReplayed ==
    ASSUME IInv, StreamTypeOK, NEW c \in Clients, ClientInv(c), ReplayLog(c)
    PROVE  ClientInv(c)'
<1> DEFINE w == wire[c]
           x == LogReplay(c)
           r == w \o x
           a == Len(w)
           C == Cardinality(log)
<1>1. /\ phase[c] = "replaying" /\ phase'[c] = "closing" /\ wire'[c] = r
      /\ UNCHANGED <<registered, started, buffer, log, lastSeq, seen, missed>>
  BY DEF ReplayLog, StreamTypeOK, vars, memory, store
<1>2. ~registered /\ ~SawTerminal(c) BY <1>1 DEF ClientInv, Places
<1>3. w \in Seq(StreamEvent) /\ a \in Nat /\ \A i \in 1..a : w[i] = Greeting
  BY <1>1, <1>2 DEF ClientInv, ReplayWire, StreamTypeOK
<1>4. /\ x \in Seq(StreamEvent) /\ C <= Len(x) /\ Len(x) \in Nat
      /\ \A i \in 1..C : x[i] = Sent(Persisted[i])
      /\ \A i \in 1..Len(x) :
            i > C => x[i].type = "run_failed" /\ x[i].origin = "stream"
  BY ReplayedLog
<1>5. /\ C \in Nat
      /\ \A k \in 1..C : \E n \in log : Place(n) = k /\ Persisted[k] = buffer[n]
      /\ \A n \in log : Place(n) \in 1..C /\ Persisted[Place(n)] = buffer[n]
      /\ \A m, n \in log : m < n => Place(m) < Place(n)
  BY LogIsListed
<1> HIDE DEF w, x, C
<1>6. /\ r \in Seq(StreamEvent) /\ Len(r) = a + Len(x)
      /\ \A i \in 1..(a + Len(x)) : r[i] = IF i <= a THEN w[i] ELSE x[i - a]
  BY <1>3, <1>4, ConcatProperties
<1>7. DOMAIN r = 1..(a + Len(x)) BY <1>6
<1> HIDE DEF r, a
<1>8. \A i \in 1..(a + Len(x)) : i <= a => r[i] = Greeting BY <1>3, <1>6
<1>9. \A i \in 1..(a + Len(x)) : i > a + C => /\ r[i].type = "run_failed"
                                             /\ r[i].origin = "stream"
  <2> SUFFICES ASSUME NEW i \in 1..(a + Len(x)), i > a + C
               PROVE  r[i].type = "run_failed" /\ r[i].origin = "stream"
    OBVIOUS
  <2>1. ~(i <= a) /\ i - a \in 1..Len(x) /\ i - a > C BY <1>3, <1>4, <1>5
  <2> QED BY <1>4, <1>6, <2>1
<1>10. \A n \in log : n \in Nat /\ n > 0 /\ Sent(buffer[n]).seq = n
                     /\ Sent(buffer[n]).origin = "run"
  BY NthShape
<1>11. \A n \in log : /\ a + Place(n) \in DOMAIN r
                     /\ r[a + Place(n)] = Sent(buffer[n])
  <2> SUFFICES ASSUME NEW n \in log
               PROVE  a + Place(n) \in DOMAIN r /\ r[a + Place(n)] = Sent(buffer[n])
    OBVIOUS
  <2>1. Place(n) \in 1..C /\ Persisted[Place(n)] = buffer[n] BY <1>5
  <2>2. /\ a + Place(n) \in 1..(a + Len(x)) /\ ~(a + Place(n) <= a)
        /\ (a + Place(n)) - a = Place(n)
    BY <1>3, <1>4, <1>5, <2>1
  <2>3. r[a + Place(n)] = x[Place(n)] BY <1>6, <2>2
  <2> QED BY <1>4, <1>7, <2>1, <2>2, <2>3
<1>12. \A i \in DOMAIN r : a < i /\ i <= a + C =>
           \E n \in log : Place(n) = i - a /\ r[i] = Sent(buffer[n])
  <2> SUFFICES ASSUME NEW i \in 1..(a + Len(x)), a < i, i <= a + C
               PROVE  \E n \in log : Place(n) = i - a /\ r[i] = Sent(buffer[n])
    BY <1>7
  <2>1. i - a \in 1..C BY <1>3, <1>5
  <2>2. PICK n \in log : Place(n) = i - a BY <1>5, <2>1
  <2>3. a + Place(n) = i BY <1>3, <2>2
  <2> QED BY <1>11, <2>2, <2>3
<1>13. ASSUME NEW i \in DOMAIN r, r[i].origin = "run"
       PROVE  /\ r[i].seq \in log /\ r[i] = Sent(buffer[r[i].seq])
              /\ r[i].seq <= lastSeq[c] => r[i] \in seen[c]
              /\ \A j \in DOMAIN r : j < i => r[j].seq < r[i].seq
              /\ \A m \in log :
                    m < r[i].seq => \E j \in DOMAIN r : j < i /\ r[j] = Sent(buffer[m])
  <2>1. i \in 1..(a + Len(x)) BY <1>7
  <2>2. a < i /\ i <= a + C
    <3>1. ~(i <= a) BY <1>8, <1>13, <2>1 DEF Greeting
    <3>2. ~(i > a + C) BY <1>9, <1>13, <2>1
    <3> QED BY <1>3, <1>5, <2>1, <3>1, <3>2
  <2>3. PICK n \in log : Place(n) = i - a /\ r[i] = Sent(buffer[n])
    BY <1>12, <2>2
  <2>4. r[i].seq = n /\ n \in Nat /\ n > 0 BY <1>10, <2>3
  <2>5. r[i].seq <= lastSeq[c] => r[i] \in seen[c]
    BY <1>2, <2>3, <2>4 DEF ClientInv, LogSeen
  <2>6. ASSUME NEW j \in DOMAIN r, j < i PROVE r[j].seq < n
    <3>1. j \in 1..(a + Len(x)) BY <1>7
    <3>2. CASE j <= a BY <1>8, <2>4, <3>1, <3>2 DEF Greeting
    <3>3. CASE ~(j <= a)
      <4>1. a < j /\ j <= a + C BY <1>3, <1>5, <2>1, <2>2, <2>6, <3>1, <3>3
      <4>2. PICK m \in log : Place(m) = j - a /\ r[j] = Sent(buffer[m])
        BY <1>12, <4>1
      <4>3. Place(m) < Place(n) BY <1>3, <2>1, <2>3, <2>6, <3>1, <4>2
      <4>4. ~(n < m) /\ m # n
        <5>1. Place(m) \in Nat /\ Place(n) \in Nat BY <1>5
        <5> QED BY <1>5, <4>3, <5>1
      <4>5. m < n BY <1>10, <4>4
      <4> QED BY <1>10, <4>2, <4>5
    <3> QED BY <3>2, <3>3
  <2>7. ASSUME NEW m \in log, m < n
        PROVE  \E j \in DOMAIN r : j < i /\ r[j] = Sent(buffer[m])
    <3>1. Place(m) < Place(n) /\ Place(m) \in Nat BY <1>5, <2>7
    <3>2. a + Place(m) < i BY <1>3, <2>1, <2>3, <3>1
    <3> QED BY <1>11, <3>2
  <2> QED BY <2>3, <2>4, <2>5, <2>6, <2>7
<1>14. \A i \in DOMAIN r : r[i].origin # "run" => r[i] = Greeting \/ r[i].type = "run_failed"
  <2> SUFFICES ASSUME NEW i \in 1..(a + Len(x)), r[i].origin # "run"
               PROVE  r[i] = Greeting \/ r[i].type = "run_failed"
    BY <1>7
  <2>1. CASE i <= a BY <1>8, <2>1
  <2>2. CASE i > a + C BY <1>9, <2>2
  <2>3. ~(a < i /\ i <= a + C) BY <1>7, <1>10, <1>12
  <2> QED BY <1>3, <1>5, <2>1, <2>2, <2>3
<1>15. ReplayWire(c)' BY <1>1, <1>13, <1>14 DEF ReplayWire, IsReplay, Sent
<1>16. Places(c)' /\ LiveWire(c)' BY <1>1, <1>2 DEF Places, LiveWire
<1>17. SeenShape(c)' BY <1>1 DEF ClientInv, SeenShape, Sent
<1>18. LogSeen(c)' BY <1>1 DEF ClientInv, LogSeen, SawTerminal, Sent
<1> QED BY <1>15, <1>16, <1>17, <1>18 DEF ClientInv

\* The wire of a client when the log cannot be read, and when the run is not
\* known to the process.
LEMMA ReplayCutShort ==
    ASSUME IInv, StreamTypeOK, NEW c \in Clients, ClientInv(c),
           ReplayFails(c) \/ AttachUnknown(c)
    PROVE  ClientInv(c)'
<1>1. /\ phase'[c] \in {"replaying", "closing"}
      /\ phase[c] \in {"replaying", "opening"}
      /\ UNCHANGED <<registered, started, buffer, log, lastSeq, seen, missed>>
  BY DEF ReplayFails, AttachUnknown, StreamTypeOK, vars, memory, store
<1>2. ~registered /\ ~SawTerminal(c)
  BY DEF AttachUnknown, ReplayFails, ClientInv, Places
<1>3. /\ \A i \in DOMAIN wire'[c] : wire'[c][i] = Greeting \/
             (wire'[c][i].type = "run_failed" /\ wire'[c][i].origin = "stream"
               /\ phase'[c] = "closing")
      /\ Greeting.origin = "stream"
  <2>1. CASE AttachUnknown(c)
    <3>1. wire'[c] = <<Greeting>>
      BY <2>1 DEF AttachUnknown, Handler, Greeting, StreamTypeOK
    <3> HIDE DEF Greeting
    <3> QED BY <3>1 DEF Greeting
  <2>2. CASE ReplayFails(c)
    <3> DEFINE e == [seq |-> 1, type |-> "run_failed", origin |-> "stream"]
               w == wire[c]
    <3>1. e \in StreamEvent /\ e.type = "run_failed" /\ e.origin = "stream"
      BY DEF StreamEvent, EventTypes, Terminal
    <3>2. wire'[c] = w \o <<e>> /\ phase'[c] = "closing" /\ phase[c] = "replaying"
      BY <2>2 DEF ReplayFails, Handler, StreamTypeOK
    <3>3. w \in Seq(StreamEvent) /\ \A i \in DOMAIN w : w[i] = Greeting
      BY <1>2, <3>2 DEF ClientInv, ReplayWire, StreamTypeOK
    <3> HIDE DEF e, w
    <3>4. <<e>> \in Seq(StreamEvent) /\ Len(<<e>>) = 1 /\ <<e>>[1] = e BY <3>1
    <3>5. /\ w \o <<e>> \in Seq(StreamEvent) /\ Len(w \o <<e>>) = Len(w) + 1
          /\ \A i \in 1..(Len(w) + 1) :
                (w \o <<e>>)[i] = IF i <= Len(w) THEN w[i] ELSE <<e>>[i - Len(w)]
      BY <3>3, <3>4, ConcatProperties
    <3>6. DOMAIN w = 1..Len(w) /\ Len(w) \in Nat
          /\ DOMAIN (w \o <<e>>) = 1..(Len(w) + 1)
      BY <3>3, <3>5
    <3>7. ASSUME NEW i \in 1..(Len(w) + 1)
          PROVE  (w \o <<e>>)[i] = Greeting \/ (w \o <<e>>)[i] = e
      <4>1. CASE i <= Len(w) BY <3>3, <3>5, <3>6, <4>1
      <4>2. CASE ~(i <= Len(w))
        <5>1. i - Len(w) = 1 BY <3>6, <4>2
        <5> QED BY <3>4, <3>5, <4>2, <5>1
      <4> QED BY <4>1, <4>2
    <3> QED BY <3>1, <3>2, <3>6, <3>7 DEF Greeting
  <2> QED BY <2>1, <2>2
<1>4. Places(c)' BY <1>1, <1>2 DEF Places, SawTerminal
<1>5. SeenShape(c)' BY <1>1 DEF ClientInv, SeenShape, Sent
<1>6. LiveWire(c)' BY <1>1, <1>2 DEF LiveWire
<1>7. LogSeen(c)' BY <1>1 DEF ClientInv, LogSeen, SawTerminal, Sent
<1>8. ReplayWire(c)' BY <1>1, <1>3 DEF ReplayWire, IsReplay, Sent
<1> QED BY <1>4, <1>5, <1>6, <1>7, <1>8 DEF ClientInv

-----------------------------------------------------------------------------
(* The step of the stream *)

\* Connections end by the server, or are cut.
Ends(S) == \E rejected : StreamsEnd(S, rejected)

LEMMA CutEnds ==
    ASSUME NEW S, Cut(S)
    PROVE  Ends(S)
BY DEF Cut, Ends

\* The connections of the clients in S end, the others stay as they are.
LEMMA Ended ==
    ASSUME StreamTypeOK, NEW S, Ends(S), NEW d \in Clients
    PROVE  /\ d \notin S => phase'[d] = phase[d] /\ wire'[d] = wire[d]
           /\ d \in S => /\ phase'[d] \in {"done", "lost", "backoff"}
                         /\ phase'[d] = "backoff" => ~SawTerminal(d)
                         /\ wire'[d] = << >>
<1>0. PICK rejected : StreamsEnd(S, rejected) BY DEF Ends
<1>1. /\ phase' = [c \in Clients |->
                     IF c \notin S THEN phase[c]
                     ELSE IF SawTerminal(c) THEN "done"
                     ELSE IF c \in rejected \/ Idle(c) >= MaxStalls
                       THEN "lost" ELSE "backoff"]
      /\ wire' = [c \in Clients |-> IF c \in S THEN << >> ELSE wire[c]]
  BY <1>0 DEF StreamsEnd
<1> QED BY <1>1

\* A subscription appends only when the run has not started, and then no
\* client listens yet.
LEMMA Subscribed ==
    ASSUME IInv, NEW d \in Clients, ClientInv(d), Subscribe,
           buffer' = buffer \/ Appends
    PROVE  /\ registered' = registered /\ registered
           /\ registered /\ started => started'
           /\ buffer' = buffer
                 \/ (Appends /\ ~(registered /\ phase[d] \in {"live", "closing"}))
<1>1. CASE started BY <1>1 DEF Subscribe
<1>2. CASE ~started BY <1>2 DEF Subscribe, ClientInv, Places
<1> QED BY <1>1, <1>2

\* A step of one connection leaves the other connections alone.
LEMMA OthersStay ==
    ASSUME StreamTypeOK, NEW c \in Clients, NEW d \in Clients, c # d,
           Open(c) \/ OpenFails(c) \/ Progress(c) \/ ReplayFails(c) \/ Drop(c)
    PROVE  /\ phase'[d] = phase[d] /\ wire'[d] = wire[d]
           /\ lastSeq'[d] = lastSeq[d] /\ seen'[d] = seen[d]
           /\ missed'[d] = missed[d]
<1> USE DEF StreamTypeOK
<1>1. CASE Open(c) BY <1>1 DEF Open
<1>2. CASE OpenFails(c) BY <1>2 DEF OpenFails
<1>3. CASE Attach(c) BY <1>3 DEF Attach
<1>4. CASE AttachUnknown(c) BY <1>4 DEF AttachUnknown
<1>5. CASE ReplayLog(c) BY <1>5 DEF ReplayLog
<1>6. CASE Deliver(c)
  <2>1. CASE Head(wire[c]).seq =< lastSeq[c] BY <1>6, <2>1 DEF Deliver
  <2>2. CASE ~(Head(wire[c]).seq =< lastSeq[c]) BY <1>6, <2>2 DEF Deliver
  <2> QED BY <2>1, <2>2
<1>7. CASE Close(c)
  <2>1. Ends({c}) /\ d \notin {c} BY <1>7 DEF Close, Ends
  <2> QED BY <1>7, <2>1, Ended DEF Close
<1>8. CASE ReplayFails(c) BY <1>8 DEF ReplayFails
<1>9. CASE Drop(c)
  <2>1. Ends({c}) /\ d \notin {c} BY <1>9, CutEnds DEF Drop
  <2> QED BY <1>9, <2>1, Ended DEF Drop
<1> QED BY <1>1, <1>2, <1>3, <1>4, <1>5, <1>6, <1>7, <1>8, <1>9 DEF Progress

\* Most steps of a connection do not touch the run.
LEMMA RunStays ==
    ASSUME NEW c \in Clients,
           Open(c) \/ OpenFails(c) \/ AttachUnknown(c) \/ ReplayLog(c)
           \/ Deliver(c) \/ Close(c) \/ ReplayFails(c) \/ Drop(c)
    PROVE  UNCHANGED <<registered, started, buffer, log, restarts, unsettled>>
BY DEF Open, OpenFails, AttachUnknown, ReplayLog, Deliver, Close, ReplayFails,
   Drop,
   vars, memory, store, history

\* Whatever happens, every client keeps its invariant.
LEMMA ClientStep ==
    ASSUME StreamInv, [StreamNext]_streamVars, NEW d \in Clients
    PROVE  ClientInv(d)'
<1>1. IInv /\ StreamTypeOK /\ ClientInv(d) BY DEF StreamInv
<1>2. IInv' BY <1>1, RunInvStep
<1>3. buffer' = buffer \/ Appends BY <1>1, BufferMoves
<1>4. ~registered => unsettled = {} BY DEF StreamInv
<1>5. ~registered => buffer' = buffer /\ log' = log BY <1>1, <1>4, AfterDeath
<1>6. CASE RunStep
  <2>1. registered' = registered /\ (registered /\ started => started')
    BY <1>1, <1>4, <1>6, RunKeepsMap
  <2>2. Broadcast BY <1>6 DEF RunStep
  <2>3. CASE phase[d] = "live" BY <1>1, <1>2, <1>3, <2>1, <2>2, <2>3, Heard
  <2>4. CASE phase[d] # "live"
    <3>1. /\ phase'[d] = phase[d] /\ wire'[d] = wire[d] /\ lastSeq'[d] = lastSeq[d]
          /\ seen'[d] = seen[d] /\ missed'[d] = missed[d]
      BY <1>1, <2>2, <2>4 DEF Broadcast, StreamTypeOK
    <3>2. Appends => ~(registered /\ phase[d] \in {"live", "closing"})
      BY <1>1, <2>4 DEF Appends, ClientInv, Places
    <3> QED BY <1>1, <1>3, <1>5, <2>1, <3>1, <3>2, Untouched
  <2> QED BY <2>3, <2>4
<1>7. CASE ServerRestart
  <2> DEFINE S == {c \in Clients : phase[c] \in Connected}
  <2>1. /\ Ends(S) /\ lastSeq'[d] = lastSeq[d] /\ seen'[d] = seen[d]
        /\ missed'[d] = missed[d] /\ ~registered' /\ buffer' = buffer /\ log' = log
    BY <1>7, CutEnds DEF ServerRestart, Restart, store
  <2> HIDE DEF S
  <2>2. /\ d \notin S => phase'[d] = phase[d] /\ wire'[d] = wire[d]
        /\ d \in S => /\ phase'[d] \in {"done", "lost", "backoff"}
                      /\ phase'[d] = "backoff" => ~SawTerminal(d)
                      /\ wire'[d] = << >>
    BY <1>1, <2>1, Ended
  <2>3. d \in S <=> phase[d] \in Connected BY DEF S
  <2>4. /\ phase'[d] \notin {"live", "replaying", "closing"} /\ wire'[d] = << >>
        /\ phase'[d] \in {"idle", "opening", "backoff"} => ~SawTerminal(d)
    BY <1>1, <2>2, <2>3 DEF Connected, ClientInv, Places
  <2> QED BY <1>1, <2>1, <2>4, OffTheWire
<1>8. CASE OrphanSubscribes
  <2>1. /\ phase'[d] = phase[d] /\ wire'[d] = wire[d] /\ lastSeq'[d] = lastSeq[d]
        /\ seen'[d] = seen[d] /\ missed'[d] = missed[d]
    BY <1>8 DEF OrphanSubscribes
  <2>2. CASE registered
    <3>1. Subscribe BY <1>8, <2>2 DEF OrphanSubscribes
    <3> QED BY <1>1, <1>3, <1>5, <2>1, <3>1, Subscribed, Untouched
  <2>3. CASE ~registered
    <3>1. registered' = registered /\ started' = started /\ buffer' = buffer
      BY <1>8, <2>3 DEF OrphanSubscribes, vars, memory
    <3> QED BY <1>1, <1>5, <2>1, <3>1, Untouched
  <2> QED BY <2>2, <2>3
<1>9. ASSUME NEW c \in Clients, c # d,
             Open(c) \/ OpenFails(c) \/ Progress(c) \/ ReplayFails(c) \/ Drop(c)
      PROVE  ClientInv(d)'
  <2>1. /\ phase'[d] = phase[d] /\ wire'[d] = wire[d] /\ lastSeq'[d] = lastSeq[d]
        /\ seen'[d] = seen[d] /\ missed'[d] = missed[d]
    BY <1>1, <1>9, OthersStay
  <2>2. CASE Attach(c)
    <3>1. Subscribe BY <2>2 DEF Attach
    <3> QED BY <1>1, <1>3, <1>5, <2>1, <3>1, Subscribed, Untouched
  <2>3. CASE ~Attach(c)
    <3>1. UNCHANGED <<registered, started, buffer, log>>
      BY <1>9, <2>3, RunStays DEF Progress
    <3> QED BY <1>1, <1>5, <2>1, <3>1, Untouched
  <2> QED BY <2>2, <2>3
<1>10. CASE Open(d)
  <2>1. UNCHANGED <<registered, buffer, log>> BY <1>10, RunStays
  <2>2. /\ phase'[d] = "opening" /\ ~SawTerminal(d) /\ wire'[d] = << >>
        /\ lastSeq'[d] = lastSeq[d] /\ seen'[d] = seen[d] /\ missed'[d] = missed[d]
    BY <1>1, <1>10 DEF Open, StreamTypeOK, ClientInv, Places
  <2> QED BY <1>1, <2>1, <2>2, OffTheWire
<1>11. CASE OpenFails(d)
  <2>1. UNCHANGED <<registered, buffer, log>> BY <1>11, RunStays
  <2>2. /\ phase'[d] \in {"lost", "backoff"} /\ ~SawTerminal(d) /\ wire'[d] = << >>
        /\ lastSeq'[d] = lastSeq[d] /\ seen'[d] = seen[d] /\ missed'[d] = missed[d]
    BY <1>1, <1>11 DEF OpenFails, StreamTypeOK, ClientInv, Places
  <2> QED BY <1>1, <2>1, <2>2, OffTheWire
<1>12. CASE Close(d) \/ Drop(d)
  <2>1. UNCHANGED <<registered, buffer, log>> BY <1>12, RunStays
  <2>2. /\ Ends({d}) /\ lastSeq'[d] = lastSeq[d] /\ seen'[d] = seen[d]
        /\ missed'[d] = missed[d]
    BY <1>12, CutEnds DEF Close, Drop, Ends
  <2>3. /\ phase'[d] \in {"done", "lost", "backoff"} /\ wire'[d] = << >>
        /\ phase'[d] = "backoff" => ~SawTerminal(d)
    <3>1. d \in {d} OBVIOUS
    <3> QED BY <1>1, <2>2, <3>1, Ended
  <2> QED BY <1>1, <2>1, <2>2, <2>3, OffTheWire
<1>13. CASE Attach(d) BY <1>1, <1>2, <1>3, <1>13, Attached
<1>14. CASE AttachUnknown(d) \/ ReplayFails(d) BY <1>1, <1>14, ReplayCutShort
<1>15. CASE ReplayLog(d) BY <1>1, <1>15, LogReplayed
<1>16. CASE Deliver(d) BY <1>1, <1>16, DeliveredLive, DeliveredReplay
<1>17. CASE UNCHANGED streamVars
  <2>1. /\ UNCHANGED <<phase, wire, lastSeq, seen, missed>>
        /\ UNCHANGED <<registered, started, buffer, log>>
    BY <1>17 DEF streamVars, connections, vars, memory, store
  <2> QED BY <1>1, <2>1, Untouched
<1> QED
  BY <1>6, <1>7, <1>8, <1>9, <1>10, <1>11, <1>12, <1>13, <1>14, <1>15, <1>16,
     <1>17
     DEF StreamNext, Progress

\* What a wire is written from is typed.
LEMMA SentTypes ==
    ASSUME NEW s \in Seq(Event)
    PROVE  AsSent(s) \in Seq(StreamEvent)
<1>1. DOMAIN s = 1..Len(s) /\ Len(s) \in Nat OBVIOUS
<1>2. \A i \in 1..Len(s) : s[i] \in Event OBVIOUS
<1>3. \A i \in 1..Len(s) : Sent(s[i]) \in StreamEvent
  BY <1>2 DEF Sent, StreamEvent, Event
<1>4. AsSent(s) = [i \in 1..Len(s) |-> Sent(s[i])] BY <1>1 DEF AsSent
<1>5. AsSent(s) \in [1..Len(s) -> StreamEvent] BY <1>3, <1>4
<1> QED BY <1>1, <1>5

\* What the route sends of its own is an event of the stream.
LEMMA HandlerTypes ==
    ASSUME NEW type \in EventTypes, NEW n \in Nat
    PROVE  Handler(type, n) \in Seq(StreamEvent)
<1> DEFINE e == [seq |-> n, type |-> type, origin |-> "stream"]
<1>1. e \in StreamEvent BY DEF StreamEvent
<1>2. Handler(type, n) = <<e>> BY DEF Handler
<1> HIDE DEF e
<1> QED BY <1>1, <1>2

\* The connections and their ends are typed: what StreamTypeOK says of the
\* stream's own variables.
WireTypes ==
    /\ phase \in [Clients -> Phases]
    /\ wire \in [Clients -> Seq(StreamEvent)]

CountTypes ==
    /\ snap \in [Clients -> Statuses]
    /\ lastSeq \in [Clients -> Nat \union {-1}]
    /\ before \in [Clients -> Nat \union {-1}]
    /\ stalls \in [Clients -> Nat]
    /\ seen \in [Clients -> SUBSET StreamEvent]
    /\ missed \in [Clients -> SUBSET StreamEvent]
    /\ orphan \in BOOLEAN
    /\ drops \in Nat

\* Ending responses leaves what was sent on the wire.
LEMMA EndedTypes ==
    ASSUME StreamTypeOK, NEW S, Ends(S)
    PROVE  WireTypes' /\ stalls' \in [Clients -> Nat]
<1>0. PICK rejected : StreamsEnd(S, rejected) BY DEF Ends
<1>1. \A c \in Clients : Idle(c) \in Nat BY DEF Idle, StreamTypeOK
<1>2. stalls' \in [Clients -> Nat] BY <1>0, <1>1 DEF StreamsEnd, StreamTypeOK
<1>3. phase' \in [Clients -> Phases] BY <1>0 DEF StreamsEnd, StreamTypeOK, Phases
<1>4. wire' \in [Clients -> Seq(StreamEvent)]
  <2>1. << >> \in Seq(StreamEvent) OBVIOUS
  <2> QED BY <1>0, <2>1 DEF StreamsEnd, StreamTypeOK
<1> QED BY <1>2, <1>3, <1>4 DEF WireTypes

\* Every step keeps the types of what is on the wire, seen and missed.
LEMMA WireStep ==
    ASSUME IInv, IInv', StreamTypeOK, [StreamNext]_streamVars
    PROVE  WireTypes'
<1>1. buffer \in Seq(Event) /\ buffer' \in Seq(Event) BY DEF IInv, TypeOK, Data
<1>2. WireTypes BY DEF StreamTypeOK, WireTypes
<1>3. CASE RunStep
  <2> DEFINE news == AsSent(SubSeq(buffer', Len(buffer) + 1, Len(buffer')))
  <2>1. news \in Seq(StreamEvent)
    <3>1. SubSeq(buffer', Len(buffer) + 1, Len(buffer')) \in Seq(Event)
      <4>1. Len(buffer) + 1 \in 1..(Len(buffer') + 1) \/ Len(buffer) + 1 > Len(buffer')
        BY <1>1
      <4>2. \A i \in (Len(buffer) + 1)..Len(buffer') : buffer'[i] \in Event
        BY <1>1
      <4>3. Len(buffer) + 1 \in Nat /\ Len(buffer') \in Nat BY <1>1
      <4> QED BY <1>1, <4>2, <4>3, SubSeqProperties
    <3> QED BY <3>1, SentTypes
  <2>2. /\ wire' = [c \in Clients |-> IF phase[c] = "live"
                                       THEN wire[c] \o news ELSE wire[c]]
        /\ phase' = [c \in Clients |-> IF phase[c] = "live" /\ EndsWith(news)
                                        THEN "closing" ELSE phase[c]]
    BY <1>3 DEF RunStep, Broadcast
  <2> HIDE DEF news
  <2>3. \A c \in Clients : wire[c] \o news \in Seq(StreamEvent)
    <3> SUFFICES ASSUME NEW c \in Clients PROVE wire[c] \o news \in Seq(StreamEvent)
      OBVIOUS
    <3>1. wire[c] \in Seq(StreamEvent) BY <1>2 DEF WireTypes
    <3> QED BY <2>1, <3>1, ConcatProperties
  <2> QED BY <1>2, <2>2, <2>3 DEF WireTypes, Phases
<1>4. CASE ServerRestart BY <1>4, CutEnds, EndedTypes DEF ServerRestart
<1>5. CASE OrphanSubscribes BY <1>2, <1>5 DEF OrphanSubscribes, WireTypes
<1>6. ASSUME NEW c \in Clients,
             Open(c) \/ OpenFails(c) \/ Progress(c) \/ ReplayFails(c) \/ Drop(c)
      PROVE  WireTypes'
  <2>1. CASE Open(c) BY <1>2, <2>1 DEF Open, WireTypes, Phases
  <2>2. CASE OpenFails(c) BY <1>2, <2>2 DEF OpenFails, WireTypes, Phases
  <2>3. CASE Attach(c)
    <3>1. Handler("status", 0) \in Seq(StreamEvent)
      BY HandlerTypes DEF EventTypes
    <3>2. Replayed \in Seq(StreamEvent) BY <1>1, SentTypes DEF Replayed
    <3>3. Handler("status", 0) \o Replayed \in Seq(StreamEvent)
      BY <3>1, <3>2, ConcatProperties
    <3> QED BY <1>2, <2>3, <3>3 DEF Attach, WireTypes, Phases
  <2>4. CASE AttachUnknown(c)
    <3>1. Handler("status", 0) \in Seq(StreamEvent)
      BY HandlerTypes DEF EventTypes
    <3> QED BY <1>2, <2>4, <3>1 DEF AttachUnknown, WireTypes, Phases
  <2>5. CASE ReplayLog(c)
    <3>1. LogReplay(c) \in Seq(StreamEvent) BY ReplayedLog
    <3>2. wire[c] \in Seq(StreamEvent) BY <1>2 DEF WireTypes
    <3>3. wire[c] \o LogReplay(c) \in Seq(StreamEvent)
      BY <3>1, <3>2, ConcatProperties
    <3> QED BY <1>2, <2>5, <3>3 DEF ReplayLog, WireTypes, Phases
  <2>6. CASE ReplayFails(c)
    <3>1. Handler("run_failed", 1) \in Seq(StreamEvent)
      BY HandlerTypes DEF EventTypes, Terminal
    <3>2. wire[c] \in Seq(StreamEvent) BY <1>2 DEF WireTypes
    <3>3. wire[c] \o Handler("run_failed", 1) \in Seq(StreamEvent)
      BY <3>1, <3>2, ConcatProperties
    <3> QED BY <1>2, <2>6, <3>3 DEF ReplayFails, WireTypes, Phases
  <2>7. CASE Deliver(c)
    <3>1. wire[c] \in Seq(StreamEvent) /\ wire[c] # << >>
      BY <1>2, <2>7 DEF WireTypes, Deliver
    <3>2. Tail(wire[c]) \in Seq(StreamEvent) BY <3>1, Heads
    <3> QED BY <1>2, <2>7, <3>2 DEF Deliver, WireTypes
  <2>8. CASE Close(c) BY <2>8, EndedTypes DEF Close, Ends
  <2>9. CASE Drop(c) BY <2>9, CutEnds, EndedTypes DEF Drop
  <2> QED
    BY <1>6, <2>1, <2>2, <2>3, <2>4, <2>5, <2>6, <2>7, <2>8, <2>9 DEF Progress
<1>7. CASE UNCHANGED streamVars
  BY <1>2, <1>7 DEF streamVars, connections, WireTypes
<1> QED BY <1>3, <1>4, <1>5, <1>6, <1>7 DEF StreamNext

\* Every step keeps the types of numbers, phases and counters.
LEMMA CountStep ==
    ASSUME IInv, StreamTypeOK, [StreamNext]_streamVars
    PROVE  CountTypes'
<1>1. CountTypes /\ row \in Statuses
  BY DEF StreamTypeOK, CountTypes, TypeOK, Data
<1>2. CASE RunStep BY <1>1, <1>2 DEF RunStep, Broadcast, CountTypes
<1>3. CASE ServerRestart
  BY <1>1, <1>3, CutEnds, EndedTypes DEF ServerRestart, CountTypes
<1>4. CASE OrphanSubscribes BY <1>1, <1>4 DEF OrphanSubscribes, CountTypes
<1>5. ASSUME NEW c \in Clients,
             Open(c) \/ OpenFails(c) \/ Progress(c) \/ ReplayFails(c) \/ Drop(c)
      PROVE  CountTypes'
  <2>1. CASE Open(c)
    <3>1. /\ snap' = [snap EXCEPT ![c] = row]
          /\ before' = [before EXCEPT ![c] = lastSeq[c]]
          /\ UNCHANGED <<lastSeq, stalls, seen, missed, orphan, drops>>
      BY <2>1 DEF Open
    <3> QED BY <1>1, <3>1 DEF CountTypes
  <2>2. CASE OpenFails(c) BY <1>1, <2>2 DEF OpenFails, CountTypes
  <2>3. CASE Attach(c) BY <1>1, <2>3 DEF Attach, CountTypes
  <2>4. CASE AttachUnknown(c) BY <1>1, <2>4 DEF AttachUnknown, CountTypes
  <2>5. CASE ReplayLog(c) BY <1>1, <2>5 DEF ReplayLog, CountTypes
  <2>6. CASE ReplayFails(c) BY <1>1, <2>6 DEF ReplayFails, CountTypes
  <2>7. CASE Deliver(c)
    <3>1. wire[c] \in Seq(StreamEvent) /\ wire[c] # << >>
      BY <2>7 DEF StreamTypeOK, Deliver
    <3>2. Head(wire[c]) \in StreamEvent BY <3>1, Heads
    <3>3. Head(wire[c]).seq \in Nat BY <3>2 DEF StreamEvent
    <3>4. UNCHANGED <<snap, before, stalls, orphan, drops>> BY <2>7 DEF Deliver
    <3>5. CASE Head(wire[c]).seq =< lastSeq[c]
      <4>1. /\ missed' = [missed EXCEPT ![c] = @ \union ({Head(wire[c])} \ seen[c])]
            /\ UNCHANGED <<lastSeq, seen>>
        BY <2>7, <3>5 DEF Deliver
      <4> QED BY <1>1, <3>2, <3>4, <4>1 DEF CountTypes
    <3>6. CASE ~(Head(wire[c]).seq =< lastSeq[c])
      <4>1. /\ lastSeq' = [lastSeq EXCEPT ![c] = Head(wire[c]).seq]
            /\ seen' = [seen EXCEPT ![c] = @ \union {Head(wire[c])}]
            /\ UNCHANGED missed
        BY <2>7, <3>6 DEF Deliver
      <4> QED BY <1>1, <3>2, <3>3, <3>4, <4>1 DEF CountTypes
    <3> QED BY <3>5, <3>6
  <2>8. CASE Close(c) BY <1>1, <2>8, EndedTypes DEF Close, Ends, CountTypes
  <2>9. CASE Drop(c)
    <3>1. stalls' \in [Clients -> Nat] BY <2>9, CutEnds, EndedTypes DEF Drop
    <3>2. orphan' \in BOOLEAN /\ drops' = drops + 1
          /\ UNCHANGED <<snap, lastSeq, before, seen, missed>>
      BY <1>1, <2>9 DEF Drop, CountTypes
    <3> QED BY <1>1, <3>1, <3>2 DEF CountTypes
  <2> QED
    BY <1>5, <2>1, <2>2, <2>3, <2>4, <2>5, <2>6, <2>7, <2>8, <2>9 DEF Progress
<1>6. CASE UNCHANGED streamVars
  BY <1>1, <1>6 DEF streamVars, connections, CountTypes
<1> QED BY <1>2, <1>3, <1>4, <1>5, <1>6 DEF StreamNext

\* Nobody is connected at first.
LEMMA StreamInvInit == StreamInit => StreamInv
<1> SUFFICES ASSUME StreamInit PROVE StreamInv
  OBVIOUS
<1>1. IInv /\ TypeOK BY IInvInit DEF StreamInit, IInv
<1>2. /\ registered /\ restarts = 0 /\ buffer = << >> /\ started = FALSE
      /\ log = {}
  BY DEF StreamInit, Init
<1>3. StreamTypeOK
  <2>1. << >> \in Seq(StreamEvent) OBVIOUS
  <2>2. WireTypes BY <2>1 DEF StreamInit, WireTypes, Phases
  <2>3. CountTypes BY DEF StreamInit, CountTypes, Statuses
  <2> QED BY <1>1, <2>2, <2>3 DEF StreamTypeOK, WireTypes, CountTypes
<1>4. ASSUME NEW c \in Clients PROVE ClientInv(c)
  <2>1. /\ phase[c] = "idle" /\ wire[c] = << >> /\ lastSeq[c] = -1
        /\ seen[c] = {} /\ missed[c] = {}
    BY DEF StreamInit
  <2>2. Places(c) BY <2>1 DEF Places, SawTerminal
  <2>3. SeenShape(c) BY <2>1 DEF SeenShape
  <2>4. LiveWire(c)
    <3>1. 0..-1 = {} OBVIOUS
    <3>2. {Nth(k) : k \in 0..-1} = {} BY <3>1
    <3>3. Len(buffer) = 0 BY <1>2
    <3>4. -1 <= 0 OBVIOUS
    <3> QED BY <2>1, <3>2, <3>3, <3>4 DEF LiveWire
  <2>5. LogSeen(c) /\ ReplayWire(c) BY <1>2 DEF LogSeen, ReplayWire
  <2> QED BY <2>2, <2>3, <2>4, <2>5 DEF ClientInv
<1> QED BY <1>1, <1>2, <1>3, <1>4 DEF StreamInv

\* The inductive step, from that of the run and those of the connections.
LEMMA StreamInvStep == StreamInv /\ [StreamNext]_streamVars => StreamInv'
<1> SUFFICES ASSUME StreamInv, [StreamNext]_streamVars PROVE StreamInv'
  OBVIOUS
<1>1. IInv /\ StreamTypeOK /\ (registered <=> restarts = 0)
      /\ (~registered => unsettled = {})
  BY DEF StreamInv
<1>2. IInv' BY <1>1, RunInvStep
<1>3. StreamTypeOK'
  <2>1. WireTypes' /\ CountTypes' BY <1>1, <1>2, WireStep, CountStep
  <2> QED BY <1>2, <2>1 DEF StreamTypeOK, WireTypes, CountTypes, IInv
<1>4. (registered <=> restarts = 0)'
  <2>1. /\ ~registered => ~registered'
        /\ registered /\ registered' => restarts' = restarts
        /\ restarts \in Nat
        /\ ~registered' => restarts' \in {restarts, restarts + 1}
        /\ registered /\ ~registered' => restarts' = restarts + 1
    BY <1>1, AfterDeath
  <2>2. CASE registered' BY <1>1, <2>1, <2>2
  <2>3. CASE ~registered' /\ registered BY <1>1, <2>1, <2>3
  <2>4. CASE ~registered' /\ ~registered
    <3>1. restarts # 0 /\ restarts + 1 # 0 BY <1>1, <2>1, <2>4
    <3> QED BY <2>1, <2>4, <3>1
  <2> QED BY <2>2, <2>3, <2>4
<1>5. (~registered => unsettled = {})' BY <1>1, AfterDeath
<1>6. \A c \in Clients : ClientInv(c)' BY ClientStep
<1> QED BY <1>2, <1>3, <1>4, <1>5, <1>6 DEF StreamInv

-----------------------------------------------------------------------------
(* What clients see *)

\* StreamInv is an invariant of the run watched over its streams.
THEOREM StreamInvariance == StreamSpec => []StreamInv
<1>1. StreamInit => StreamInv BY StreamInvInit
<1>2. StreamInv /\ [StreamNext]_streamVars => StreamInv' BY StreamInvStep
<1> QED BY <1>1, <1>2, PTL DEF StreamSpec

\* Connections, wires and what clients keep have their types, whatever the
\* order of the handler's awaits, the client's retries and the deaths of the
\* process.
THEOREM StreamTypes == StreamSpec => []StreamTypeOK
<1>1. StreamInv => StreamTypeOK BY DEF StreamInv
<1> QED BY <1>1, StreamInvariance, PTL

\* Reconnecting loses and invents nothing: while the process lives a client
\* has every event up to its last, whatever it was cut from; afterwards all
\* that it takes for an event of the run is one, and none is skipped unseen.
THEOREM ClientsSeeTheRun == StreamSpec => []SeesTheRun
<1>1. StreamInv => SeesTheRun
  <2> SUFFICES ASSUME StreamInv PROVE SeesTheRun
    OBVIOUS
  <2>1. /\ IInv /\ (registered <=> restarts = 0)
        /\ \A c \in Clients : SeenShape(c) /\ LiveWire(c)
    BY DEF StreamInv, ClientInv
  <2>2. NoGapWhileAlive
    <3> SUFFICES ASSUME restarts = 0, NEW c \in Clients
                 PROVE  /\ {e.seq : e \in seen[c]} = 0..lastSeq[c]
                        /\ \A e \in seen[c] : e.seq > 0 => e = Sent(buffer[e.seq])
      BY DEF NoGapWhileAlive
    <3>1. seen[c] = {Nth(k) : k \in 0..lastSeq[c]} /\ lastSeq[c] <= Len(buffer)
      BY <2>1 DEF LiveWire
    <3>2. lastSeq[c] \in Int /\ Len(buffer) \in Nat
      BY <2>1, NthShape DEF StreamInv, StreamTypeOK
    <3>3. \A k \in 0..lastSeq[c] : k \in 0..Len(buffer) BY <3>1, <3>2
    <3>4. \A k \in 0..lastSeq[c] : Nth(k).seq = k BY <2>1, <3>3, NthShape
    <3>5. {e.seq : e \in seen[c]} = 0..lastSeq[c] BY <3>1, <3>4
    <3>6. \A e \in seen[c] : e.seq > 0 => e = Sent(buffer[e.seq])
      BY <3>1, <3>4 DEF Nth
    <3> QED BY <3>5, <3>6
  <2>3. SeenWasEmitted BY <2>1 DEF SeenWasEmitted, SeenShape
  <2>4. RunEventsAreNotMissed BY <2>1 DEF RunEventsAreNotMissed, SeenShape
  <2> QED BY <2>2, <2>3, <2>4 DEF SeesTheRun
<1> QED BY <1>1, StreamInvariance, PTL

\* A client that is told that the run is complete finds what it then reloads
\* in the store, unless a write of the ending failed.
THEOREM ToldOnlyWhatIsStored == StreamSpec => []TellsOnlyWhatIsStored
<1>1. StreamInv => TellsOnlyWhatIsStored
  <2> SUFFICES ASSUME StreamInv, NEW c \in Clients, NEW e \in seen[c],
                      e.type = "run_completed", ~finishFault
               PROVE  row = "completed" /\ msg = "completed" /\ saved = result
    BY DEF TellsOnlyWhatIsStored
  <2>1. IInv /\ SeenShape(c) BY DEF StreamInv, ClientInv
  <2>2. e.seq \in DOMAIN buffer /\ e = Sent(buffer[e.seq])
    BY <2>1 DEF SeenShape
  <2>3. buffer[e.seq].type = "run_completed" BY <2>2 DEF Sent
  <2>4. "run_completed" \in EmittedTypes BY <2>2, <2>3 DEF EmittedTypes
  <2> QED BY <2>1, <2>4 DEF IInv, EndingIsStored
<1> QED BY <1>1, StreamInvariance, PTL

=============================================================================
