------------------------------ MODULE RunStream ------------------------------
(***************************************************************************)
(* The run of RunManager.tla watched over server-sent events: the handler  *)
(* of GET /api/runs/:runId/stream (streamRun in server/chat-routes.ts) and *)
(* the clients that consume it (streamRunEvents in web/src/lib/chat-api.ts)*)
(*                                                                         *)
(* A client has at most one connection.  It reconnects when the connection *)
(* ends before a terminal event, skips by sequence number what a replay    *)
(* repeats, and gives up after MaxStalls connections that brought nothing. *)
(* Heartbeats are left out: a client drops them before anything else.      *)
(***************************************************************************)
EXTENDS RunManager, FiniteSets

CONSTANTS
    Clients,       \* browser tabs that watch the run
    MaxStalls,     \* connections without progress before a client gives up
    MaxDrops       \* bound: connections the network breaks or refuses

ASSUME StallsAssumption == MaxStalls \in Nat \ {0}
ASSUME DropsAssumption == MaxDrops \in Nat

VARIABLES
    phase,         \* where the connection of a client is
    snap,          \* run.status as its handler read it
    wire,          \* events written to the connection and not read yet
    lastSeq,       \* lastSequence of the client's loop
    before,        \* lastSequence when the connection was opened
    stalls,        \* connectionsWithoutProgress
    seen,          \* events handed to onEvent
    missed,        \* history: events skipped that were never handed on
    orphan,        \* a handler whose client left before it subscribed
    drops          \* history: connections broken or refused

connections == <<phase, snap, wire, lastSeq, before, stalls, seen, missed,
                 orphan, drops>>
streamVars == <<vars, connections>>

Phases == {"idle", "opening", "live", "replaying", "closing", "backoff",
           "done", "lost"}
Connected == {"opening", "live", "replaying", "closing"}

\* On the wire: the run's own events, and those the handler makes up.
Sent(ev) == [seq |-> ev.seq, type |-> ev.type, origin |-> "run"]
AsSent(events) == [i \in DOMAIN events |-> Sent(events[i])]
Handler(type, n) == <<[seq |-> n, type |-> type, origin |-> "stream"]>>

StreamEvent == [seq : Nat, type : EventTypes, origin : {"run", "stream"}]

SawTerminal(c) == \E e \in seen[c] : e.type \in Terminal

-----------------------------------------------------------------------------
StreamInit ==
    /\ Init
    /\ phase = [c \in Clients |-> "idle"]
    /\ snap = [c \in Clients |-> "pending"]
    /\ wire = [c \in Clients |-> << >>]
    /\ lastSeq = [c \in Clients |-> -1]
    /\ before = [c \in Clients |-> -1]
    /\ stalls = [c \in Clients |-> 0]
    /\ seen = [c \in Clients |-> {}]
    /\ missed = [c \in Clients |-> {}]
    /\ orphan = FALSE
    /\ drops = 0

\* The client connects and the handler reads the run row.  The lookups are
\* awaited: other steps happen between them and the subscription.
Open(c) ==
    /\ phase[c] \in {"idle", "backoff"}
    /\ phase' = [phase EXCEPT ![c] = "opening"]
    /\ snap' = [snap EXCEPT ![c] = row]
    /\ before' = [before EXCEPT ![c] = lastSeq[c]]
    /\ UNCHANGED <<vars, wire, lastSeq, stalls, seen, missed, orphan, drops>>

\* fetch() rejects: an error when nothing was ever received, else a stall.
OpenFails(c) ==
    /\ drops < MaxDrops
    /\ drops' = drops + 1
    /\ phase[c] \in {"idle", "backoff"}
    /\ stalls' = [stalls EXCEPT ![c] = @ + 1]
    /\ phase' = [phase EXCEPT ![c] =
                   IF lastSeq[c] < 0 \/ stalls'[c] >= MaxStalls
                     THEN "lost" ELSE "backoff"]
    /\ UNCHANGED <<vars, snap, wire, lastSeq, before, seen, missed, orphan>>

\* The handler greets and subscribes in one go: the buffer is replayed, then
\* the client listens.  A replay that holds the terminal event ends the
\* response.
\* Slip: only what is persisted is replayed.
ReplayedPersisted ==
    SelectSeq(AsSent(buffer'), LAMBDA ev : ev.type \notin Ephemeral)
Replayed == AsSent(buffer')
ReplayEnds == \E i \in DOMAIN buffer' : buffer'[i].type \in Terminal

Attach(c) ==
    /\ phase[c] = "opening"
    /\ Subscribe
    /\ wire' = [wire EXCEPT ![c] = Handler("status", 0) \o Replayed]
    /\ phase' = [phase EXCEPT ![c] =
                   IF ReplayEnds THEN "closing" ELSE "live"]
    /\ UNCHANGED <<snap, lastSeq, before, stalls, seen, missed, orphan, drops>>

\* The run is unknown to this process: the handler turns to the store.
AttachUnknown(c) ==
    /\ phase[c] = "opening"
    /\ ~registered
    /\ wire' = [wire EXCEPT ![c] = Handler("status", 0)]
    /\ phase' = [phase EXCEPT ![c] = "replaying"]
    /\ UNCHANGED <<vars, snap, lastSeq, before, stalls, seen, missed, orphan,
                   drops>>

\* listEvents, by sequence, then a run_failed of the handler's own making
\* when the row read at the start was not settled.
Place(n) == Cardinality({m \in log : m =< n})
Persisted ==
    [k \in 1..Cardinality(log) |-> buffer[CHOOSE n \in log : Place(n) = k]]

StaleNotice(c) ==
    IF snap[c] \in {"pending", "running"}
      THEN Handler("run_failed", Len(Persisted) + 1)
      ELSE << >>

LogReplay(c) == AsSent(Persisted) \o StaleNotice(c)

ReplayLog(c) ==
    /\ phase[c] = "replaying"
    /\ wire' = [wire EXCEPT ![c] = @ \o LogReplay(c)]
    /\ phase' = [phase EXCEPT ![c] = "closing"]
    /\ UNCHANGED <<vars, snap, lastSeq, before, stalls, seen, missed, orphan,
                   drops>>

\* listEvents fails: the handler reports it as a failed run.
ReplayFails(c) ==
    /\ phase[c] = "replaying"
    /\ Fault
    /\ wire' = [wire EXCEPT ![c] = @ \o Handler("run_failed", 1)]
    /\ phase' = [phase EXCEPT ![c] = "closing"]
    /\ UNCHANGED <<memory, store, finishFault, restarts, snap, lastSeq, before,
                   stalls, seen, missed, orphan, drops>>

\* deliver(): an event whose number is not above the last one is skipped.
Deliver(c) ==
    /\ phase[c] \in {"live", "replaying", "closing"}
    /\ wire[c] # << >>
    /\ LET ev == Head(wire[c]) IN
         IF ev.seq =< lastSeq[c]
           THEN /\ missed' = [missed EXCEPT ![c] = @ \union ({ev} \ seen[c])]
                /\ UNCHANGED <<lastSeq, seen>>
           ELSE /\ lastSeq' = [lastSeq EXCEPT ![c] = ev.seq]
                /\ seen' = [seen EXCEPT ![c] = @ \union {ev}]
                /\ UNCHANGED missed
    /\ wire' = [wire EXCEPT ![c] = Tail(@)]
    /\ UNCHANGED <<vars, phase, snap, before, stalls, orphan, drops>>

\* What the client's loop does when the connections of the clients in S end;
\* the fetch of those in rejected failed, and they never had an event.
\* Slip: a connection that brought nothing is not counted.
IdleUncounted(c) == IF lastSeq[c] > before[c] THEN 0 ELSE stalls[c]
Idle(c) == IF lastSeq[c] > before[c] THEN 0 ELSE stalls[c] + 1

StreamsEnd(S, rejected) ==
    /\ stalls' = [c \in Clients |->
                    IF c \in S /\ ~SawTerminal(c) THEN Idle(c) ELSE stalls[c]]
    /\ phase' = [c \in Clients |->
                   IF c \notin S THEN phase[c]
                   ELSE IF SawTerminal(c) THEN "done"
                   ELSE IF c \in rejected \/ Idle(c) >= MaxStalls
                     THEN "lost" ELSE "backoff"]
    /\ wire' = [c \in Clients |-> IF c \in S THEN << >> ELSE wire[c]]

\* The server has ended the response and the client has read all of it.
Close(c) ==
    /\ phase[c] = "closing"
    /\ wire[c] = << >>
    /\ StreamsEnd({c}, {})
    /\ UNCHANGED <<vars, snap, lastSeq, before, seen, missed, orphan, drops>>

\* Connections that are cut before the headers have come: fetch rejects.  They
\* are sent when the handler has found the run, and may be lost on the way.
NeverHeard(S) == {c \in S : lastSeq[c] < 0}
Cut(S) ==
    \E rejected \in SUBSET NeverHeard(S) :
        /\ {c \in NeverHeard(S) : phase[c] = "opening"} \subseteq rejected
        /\ StreamsEnd(S, rejected)

\* A proxy or the network cuts the connection: what was not read is gone.
\* A handler that has not subscribed yet does not notice, and goes on.
Drop(c) ==
    /\ drops < MaxDrops
    /\ drops' = drops + 1
    /\ phase[c] \in Connected
    /\ Cut({c})
    /\ orphan' = (orphan \/ phase[c] = "opening")
    /\ UNCHANGED <<vars, snap, lastSeq, before, seen, missed>>

\* Such a handler subscribes for nobody: it can start the run.
OrphanSubscribes ==
    /\ orphan
    /\ orphan' = FALSE
    /\ IF registered THEN Subscribe ELSE UNCHANGED vars
    /\ UNCHANGED <<phase, snap, wire, lastSeq, before, stalls, seen, missed,
                   drops>>

\* emitStream hands what a step emits to the listeners; the handler ends the
\* response on the terminal event.
\* Slip: it does not end on a failure.
EndsWhenCompleted(news) ==
    \E i \in DOMAIN news : news[i].type = "run_completed"
EndsWith(news) == \E i \in DOMAIN news : news[i].type \in Terminal

Broadcast ==
    LET news == AsSent(SubSeq(buffer', Len(buffer) + 1, Len(buffer')))
        last == EndsWith(news)
    IN /\ wire' = [c \in Clients |-> IF phase[c] = "live"
                                       THEN wire[c] \o news ELSE wire[c]]
       /\ phase' = [c \in Clients |-> IF phase[c] = "live" /\ last
                                        THEN "closing" ELSE phase[c]]
       /\ UNCHANGED <<snap, lastSeq, before, stalls, seen, missed, orphan,
                      drops>>

RunStep == Internal /\ Broadcast

\* A restart cuts every connection and every handler.
ServerRestart ==
    /\ Restart
    /\ Cut({c \in Clients : phase[c] \in Connected})
    /\ orphan' = FALSE
    /\ UNCHANGED <<snap, lastSeq, before, seen, missed, drops>>

\* Steps of a connection that need no failure.
Progress(c) ==
    \/ Attach(c) \/ AttachUnknown(c) \/ ReplayLog(c) \/ Deliver(c) \/ Close(c)

StreamNext ==
    \/ RunStep
    \/ ServerRestart
    \/ OrphanSubscribes
    \/ \E c \in Clients :
         Open(c) \/ OpenFails(c) \/ Progress(c) \/ ReplayFails(c) \/ Drop(c)

StreamSpec == StreamInit /\ [][StreamNext]_streamVars

\* The server runs as in RunManager's FairSpec; handlers and clients that
\* have something to do do it, and a client that backs off for two seconds
\* connects again.  Nobody has to open a stream in the first place.
StreamFairSpec ==
    /\ StreamSpec
    /\ WF_streamVars(Executor /\ Broadcast)
    /\ \A n \in 1..(MaxEvents + 3) :
         WF_streamVars(AppendReturns(n) /\ Broadcast)
    /\ \A c \in Clients :
         /\ WF_streamVars(Progress(c))
         /\ WF_streamVars(phase[c] = "backoff" /\ Open(c))

-----------------------------------------------------------------------------
(* Properties *)

StreamTypeOK ==
    /\ TypeOK
    /\ phase \in [Clients -> Phases]
    /\ snap \in [Clients -> Statuses]
    /\ wire \in [Clients -> Seq(StreamEvent)]
    /\ lastSeq \in [Clients -> Nat \union {-1}]
    /\ before \in [Clients -> Nat \union {-1}]
    /\ stalls \in [Clients -> Nat]
    /\ seen \in [Clients -> SUBSET StreamEvent]
    /\ missed \in [Clients -> SUBSET StreamEvent]
    /\ orphan \in BOOLEAN
    /\ drops \in Nat

\* While the process lives, a client has seen every event up to the last one
\* it saw, each once and as it was emitted, however often its connection was
\* cut between: the replay of the buffer and the skipping of what was seen
\* neither lose nor invent anything.
NoGapWhileAlive ==
    restarts = 0 =>
      \A c \in Clients :
        /\ {e.seq : e \in seen[c]} = 0..lastSeq[c]
        /\ \A e \in seen[c] : e.seq > 0 => e = Sent(buffer[e.seq])

\* After a restart the log is all there is: a client may miss events, but
\* what it takes for an event of the run is one, at its own number.
SeenWasEmitted ==
    \A c \in Clients : \A e \in seen[c] :
       e.origin = "run" => e.seq \in DOMAIN buffer /\ e = Sent(buffer[e.seq])

\* An event of the run is skipped only by a client that was handed it before.
RunEventsAreNotMissed ==
    \A c \in Clients : \A e \in missed[c] : e.origin = "stream"

\* However often its connection is cut and the process dies, a client sees the
\* run as it happened: replay, live events and the skipping of what was seen
\* add up.
SeesTheRun == NoGapWhileAlive /\ SeenWasEmitted /\ RunEventsAreNotMissed

\* The chat page reloads messages, runs and artifacts when it is told that
\* the run is complete: by then they are stored, unless a write failed.
TellsOnlyWhatIsStored ==
    \A c \in Clients :
      (\E e \in seen[c] : e.type = "run_completed") /\ ~finishFault =>
         row = "completed" /\ msg = "completed" /\ saved = result

\* On a network and a server that stay up every client that connects sees
\* the run to its end, whatever the store does and whoever else watches.
ServedToTheEnd ==
    \A c \in Clients :
      phase[c] = "opening" ~>
         (phase[c] = "done" /\ SawTerminal(c)) \/ drops > 0 \/ restarts > 0

\* With connections cut and the process restarted a client still comes to an
\* end of its own: it has seen a terminal event or says that it lost the run.
EveryClientStops ==
    \A c \in Clients : phase[c] = "opening" ~> phase[c] \in {"done", "lost"}

\* "already-seen events are skipped by sequence number" (chat-api.ts): only
\* events the client has seen are skipped.
OnlySeenIsSkipped == \A c \in Clients : missed[c] = {}

\* "resolves when the run reaches a terminal event" (chat-api.ts): a client
\* that has read the whole replay of a run that had settled has seen its end.
SettledReplayEnds ==
    \A c \in Clients :
      phase[c] = "closing" /\ wire[c] = << >>
      /\ snap[c] \in {"completed", "failed"} => SawTerminal(c)

=============================================================================
