------------------------------ MODULE ChatTurns ------------------------------
(***************************************************************************)
(* The turns of one chat: pages (tabs) post messages, approvals of a plan  *)
(* and choices; start-generation writes the rows and registers a run; the  *)
(* generator of server/chat-routes.ts decides what the turn continues; the *)
(* gates before the first draft (server/codegen.ts) stop it or let it      *)
(* write a contract; the end is stored and shown.                          *)
(*                                                                         *)
(* A turn is known by its number in the order of posting, and so is the    *)
(* text that was typed for it.  What the planner, the classifier and the   *)
(* draft loop answer is free.  The ending of a run is RunManager's, in the *)
(* four steps that other turns can tell apart.                             *)
(***************************************************************************)
EXTENDS Integers, Sequences, FiniteSets

CONSTANTS
    Pages,       \* tabs open on the chat
    MaxTurns,    \* bound: turns posted
    MaxFaults    \* bound: store faults, lost responses and streams, deaths

ASSUME TurnsAssumption == MaxTurns \in Nat \ {0} /\ MaxFaults \in Nat

VARIABLES
    turns,       \* the turns posted, in that order
    rows,        \* turns with a run row, in the order of created_at
    messages,    \* chat_messages: [role, turn] in the order of created_at
    page,        \* view state of each page
    faults       \* faults so far

vars == <<turns, rows, messages, page, faults>>

Choices == {"closest_draft", "spec_only"}     \* ApproximationConsent
Acts == {"message", "approve"} \union Choices
Asking == {"consent_required", "design_questions"}
Stops == {"plan_pending", "spec_only", "refused_unsafe"} \union Asking
Verdicts == {"launch_ready_possible", "draft_only", "unsafe_or_unsupported"}
Branches == {"fresh", "approved", "refine", "composed"}

\* Where the handler of the request or execute() is.
Stages == {"posted", "asked", "registered", "started", "continued",
           "drafting", "decided", "settled", "stored", "announced",
           "refused", "dead"}

Turn == Nat \ {0}

\* text: the turn it was typed for; after: the run the page showed when it
\* was posted; ended: with its end; base: lastCompletedRun; brief: the texts
\* the model is given; outcome: the deliverable, or "error"; source: a draft
\* that the artifact is still to be made of; row: pending and running are
\* "active".
Turns ==
    [text : Turn, act : Acts, after : Nat, ended : BOOLEAN,
     stage : Stages, base : Nat, branch : Branches \union {"none"},
     brief : SUBSET Turn, verdict : Verdicts \union {"none"},
     outcome : Stops \union {"none", "contract", "error"},
     source : {"none", "drafted", "kept"}, replied : BOOLEAN,
     row : {"none", "active", "completed", "failed"}]

Cards == {"plan", "choice"}
\* sending: the turn being posted; run: the one watched; shows: planPending,
\* consent, result and runError, and that the stream is over; read: how many
\* messages were loaded.
PageState == [sending : Nat, run : Nat,
              shows : SUBSET (Cards \union {"end", "error", "over"}),
              read : Nat]

-----------------------------------------------------------------------------
Init ==
    /\ turns = <<>> /\ rows = <<>> /\ messages = <<>>
    /\ page = [p \in Pages |->
                 [sending |-> 0, run |-> 0, shows |-> {}, read |-> 0]]
    /\ faults = 0

\* Bounds: only a chat without faults has as many turns as MaxTurns.
Fault ==
    /\ faults < MaxFaults
    /\ Len(turns) < MaxTurns
    /\ faults' = faults + 1
RoomForTurn == Len(turns) < IF faults = 0 THEN MaxTurns ELSE MaxTurns - 1

At(t, stage) == t \in DOMAIN turns /\ turns[t].stage = stage

\* Of a list, by position: its user messages, and the first and the last of
\* those a search is after.
Users(msgs) == {i \in DOMAIN msgs : msgs[i].role = "user"}
Earliest(found) == CHOOSE i \in found : \A j \in found : i =< j
Latest(found) == CHOOSE i \in found : \A j \in found : j =< i

-----------------------------------------------------------------------------
(* ChatPage. *)

Streaming(p) == page[p].run # 0 /\ page[p].shows \subseteq {"over"}

\* lastUserPrompt: the last user message the page has loaded.
LastPrompt(p) ==
    LET mine == {i \in Users(messages) : i =< page[p].read}
    IN IF mine = {} THEN 0 ELSE turns[messages[Latest(mine)].turn].text

NewTurn(p, act, text) ==
    [text |-> text, act |-> act,
     after |-> page[p].run, ended |-> "end" \in page[p].shows,
     stage |-> "posted", base |-> 0, branch |-> "none", brief |-> {},
     verdict |-> "none", outcome |-> "none", source |-> "none",
     replied |-> FALSE, row |-> "none"]

\* startNewRun: the error of the last attempt is cleared, the cards stay.
Post(p, act, text) ==
    /\ page[p].sending = 0
    /\ RoomForTurn
    /\ turns' = Append(turns, NewTurn(p, act, text))
    /\ page' = [page EXCEPT ![p].sending = Len(turns'),
                            ![p].shows = @ \ {"error"}]
    /\ UNCHANGED <<rows, messages, faults>>

Send(p) == ~Streaming(p) /\ Post(p, "message", Len(turns) + 1)

\* The other buttons send the last prompt again.
Resend(p, act) == LastPrompt(p) # 0 /\ Post(p, act, LastPrompt(p))
Retry(p) == "error" \in page[p].shows /\ Resend(p, "message")
Approve(p) == "plan" \in page[p].shows /\ Resend(p, "approve")
Choose(p, choice) == "choice" \in page[p].shows /\ Resend(p, choice)

\* start-generation has answered with the ids.
Answered(t) == turns[t].stage \notin {"posted", "asked", "refused"}
                 /\ turns[t].row # "none"

\* A run starts with its first stream.
Subscribed(t) ==
    turns' = IF At(t, "registered")
               THEN [turns EXCEPT ![t].stage = "started"] ELSE turns

\* refreshMessages: the messages as they are now, or those it had when three
\* attempts fail.
Refreshes(p, n) ==
    \/ n = Len(messages) /\ UNCHANGED faults
    \/ n = page[p].read /\ n # Len(messages) /\ Fault

\* The answer to the post: the page reads the messages and opens the stream.
Connect(p) ==
    LET t == page[p].sending
    IN /\ t # 0 /\ Answered(t)
       /\ Subscribed(t)
       /\ \E n \in 0 .. Len(messages) :
            /\ Refreshes(p, n)
            /\ page' = [page EXCEPT ![p] = [sending |-> 0, run |-> t,
                                            shows |-> {}, read |-> n]]
       /\ UNCHANGED <<rows, messages>>

\* The post failed, or was cut off while the handler works on it, which goes
\* on, or its answer was lost.
\* Slip: the composer stays disabled.
PostFailsSilently(p) ==
    /\ At(page[p].sending, "refused") \/ At(page[p].sending, "dead")
    /\ page' = [page EXCEPT ![p].shows = @ \union {"error"}]
    /\ UNCHANGED <<turns, rows, messages, faults>>
PostFails(p) ==
    LET t == page[p].sending
    IN /\ t # 0
       /\ \/ turns[t].stage \in {"refused", "dead"} /\ UNCHANGED faults
          \/ turns[t].stage \notin {"refused", "dead"} /\ Fault
       /\ page' = [page EXCEPT ![p].sending = 0,
                               ![p].shows = @ \union {"error"}]
       /\ UNCHANGED <<turns, rows, messages>>

\* A page that shows no run loads the chat: it opens the first run that is
\* active, or else the last one.
Open(p) ==
    LET active == {i \in DOMAIN rows : turns[rows[i]].row = "active"}
        t == rows[IF active # {} THEN Earliest(active) ELSE Len(rows)]
    IN /\ page[p].run = 0 /\ page[p].sending = 0
       /\ rows # <<>>
       /\ Subscribed(t)
       /\ page' = [page EXCEPT ![p] = [sending |-> 0, run |-> t,
                                       shows |-> {}, read |-> Len(messages)]]
       /\ UNCHANGED <<rows, messages, faults>>

CardOf(outcome) == CASE outcome = "plan_pending" -> {"plan"}
                     [] outcome \in Asking -> {"choice"}
                     [] OTHER -> {}

\* plan_ready, consent_required and design_questions are emitted before the
\* run has stored anything about its end.
SeesCard(p) ==
    LET t == page[p].run
    IN /\ t # 0 /\ turns[t].outcome # "none"
       /\ "over" \notin page[p].shows
       /\ CardOf(turns[t].outcome) \ page[p].shows # {}
       /\ page' = [page EXCEPT ![p].shows = @ \union CardOf(turns[t].outcome)]
       /\ UNCHANGED <<turns, rows, messages, faults>>

\* run_completed or run_failed.
SeesEnd(p) ==
    LET t == page[p].run
    IN /\ At(t, "announced")
       /\ CardOf(turns[t].outcome) \subseteq page[p].shows
       /\ "over" \notin page[p].shows
       /\ \E n \in 0 .. Len(messages) :
            /\ Refreshes(p, n)
            /\ page' = [page EXCEPT
                 ![p].shows = @ \union
                    {"over",
                     IF turns[t].outcome = "error" THEN "error" ELSE "end"},
                 ![p].read = n]
       /\ UNCHANGED <<turns, rows, messages>>

\* The stream is given up, or its replay says that the run was lost.
LosesStream(p) ==
    LET t == page[p].run
    IN /\ t # 0
       /\ "over" \notin page[p].shows
       /\ IF turns[t].stage \in {"refused", "dead"} THEN UNCHANGED faults
                                                    ELSE Fault
       /\ page' = [page EXCEPT ![p].shows = @ \union {"error", "over"}]
       /\ UNCHANGED <<turns, rows, messages>>

-----------------------------------------------------------------------------
(* POST /api/chats/start-generation.  A store call that fails, with or      *)
(* without effect, answers 500.                                            *)

Message(role, t) == [role |-> role, turn |-> t]

WriteUserMessage(t) ==
    /\ At(t, "posted")
    /\ \/ /\ messages' = Append(messages, Message("user", t))
          /\ turns' = [turns EXCEPT ![t].stage = "asked"]
          /\ UNCHANGED faults
       \/ /\ Fault
          /\ turns' = [turns EXCEPT ![t].stage = "refused"]
          /\ messages' \in {messages, Append(messages, Message("user", t))}
    /\ UNCHANGED <<rows, page>>

\* The placeholder of the answer, the row, and the registration; of the two
\* calls the first or the second may fail.
CreateRun(t) ==
    LET placed == Append(messages, Message("assistant", t))
    IN /\ At(t, "asked")
       /\ \/ /\ messages' = placed
             /\ rows' = Append(rows, t)
             /\ turns' = [turns EXCEPT ![t].stage = "registered",
                                       ![t].row = "active"]
             /\ UNCHANGED faults
          \/ /\ Fault
             /\ \/ /\ messages' \in {messages, placed}
                   /\ rows' = rows
                   /\ turns' = [turns EXCEPT ![t].stage = "refused"]
                \/ /\ messages' = placed
                   /\ rows' = Append(rows, t)
                   /\ turns' = [turns EXCEPT ![t].stage = "refused",
                                             ![t].row = "active"]
       /\ UNCHANGED page

-----------------------------------------------------------------------------
(* makeContinuationAwareGenerator. *)

Completed(rs) == {i \in DOMAIN rs : turns[rs[i]].row = "completed"}
\* Slip: the list is ascending, and its first element is taken.
FirstCompleted(rs) ==
    IF Completed(rs) = {} THEN 0 ELSE rs[Earliest(Completed(rs))]
LastCompleted(rs) ==
    IF Completed(rs) = {} THEN 0 ELSE rs[Latest(Completed(rs))]

\* The idea of the chat; its own prompt when no messages were read.
\* Slip: nothing then.
FirstTextRead(msgs, t) ==
    IF Users(msgs) = {} THEN 0
    ELSE turns[msgs[Earliest(Users(msgs))].turn].text
FirstText(msgs, t) ==
    IF Users(msgs) = {} THEN turns[t].text
    ELSE turns[msgs[Earliest(Users(msgs))].turn].text

\* What the last non-empty reply among the messages before the last one says
\* of earlier turns.
Agreed(msgs) ==
    LET replies == {i \in 1 .. Len(msgs) - 1 :
                      msgs[i].role = "assistant" /\ turns[msgs[i].turn].replied}
    IN IF replies = {} THEN {} ELSE turns[msgs[Latest(replies)].turn].brief

\* Slip: any run that stopped with a spec is taken for an approved plan.
PlanOfAny(t, last) ==
    turns[t].act = "approve" /\ last # 0 /\ turns[last].outcome \in Stops
PlanApproved(t, last) ==
    turns[t].act = "approve" /\ last # 0
      /\ turns[last].outcome = "plan_pending"

Branch(t, last, artifacts) ==
    CASE turns[t].act \in Choices -> "fresh"
      [] turns[t].act \notin Choices /\ PlanApproved(t, last) -> "approved"
      [] turns[t].act \notin Choices /\ last = 0 -> "fresh"
      [] OTHER -> IF turns[last].outcome = "contract" /\ turns[last].source = "kept"
                     /\ artifacts
                    THEN "refine" ELSE "composed"

Brief(t, branch, last, msgs) ==
    LET text == turns[t].text
        first == FirstText(msgs, t)
    IN CASE branch = "fresh" -> {text}
         [] branch = "approved" -> {text} \union turns[last].brief
         [] branch = "refine" ->
              {text, first} \union turns[last].brief
                \union {turns[msgs[i].turn].text : i \in Users(msgs)}
         [] branch = "composed" ->
              {text, first} \union (IF first = text THEN {} ELSE Agreed(msgs))

Continued(t, msgs, rs, artifacts) ==
    LET last == IF turns[t].act \in Choices THEN 0 ELSE LastCompleted(rs)
        branch == Branch(t, last, artifacts)
    IN [turns EXCEPT ![t].stage = "continued", ![t].base = last,
                     ![t].branch = branch,
                     ![t].brief = Brief(t, branch, last, msgs)]

\* Each of the three lists is empty when it cannot be read.
Continue(t) ==
    /\ At(t, "started")
    /\ \E msgs \in {messages, <<>>}, rs \in {rows, <<>>}, artifacts \in BOOLEAN :
         /\ IF msgs = messages /\ rs = rows /\ artifacts
              THEN UNCHANGED faults ELSE Fault
         /\ turns' = Continued(t, msgs, rs, artifacts)
    /\ UNCHANGED <<rows, messages, page>>

-----------------------------------------------------------------------------
(* The gates of runCodegenPipeline, and the loops behind them. *)

ConsentGate(verdict, act) ==
    CASE verdict = "unsafe_or_unsupported" -> "refused_unsafe"
      [] verdict = "launch_ready_possible" -> "none"
      [] verdict = "draft_only" ->
           CASE act = "closest_draft" -> "none"
             [] act = "spec_only" -> "spec_only"
             [] OTHER -> "consent_required"

DesignQuestionGate(critical, act) ==
    CASE ~critical \/ act = "closest_draft" -> "none"
      [] critical /\ act = "spec_only" -> "spec_only"
      [] critical /\ act \notin Choices -> "design_questions"

PlanGate(act) == IF act \in Choices THEN "none" ELSE "plan_pending"

\* The first of the three gates that stops.
Stop(verdict, critical, act) ==
    LET consent == ConsentGate(verdict, act)
        design == DesignQuestionGate(critical, act)
    IN CASE consent # "none" -> consent
         [] consent = "none" /\ design # "none" -> design
         [] OTHER -> PlanGate(act)

Decide(t, outcome, source) ==
    [turns EXCEPT ![t].stage = "decided", ![t].outcome = outcome,
                  ![t].source = source]

\* Planning, and the gates: a refinement passes none of them, and an approved
\* plan is not planned again.
Seeded(t) == turns[t].branch \in {"refine", "approved"}

SkipsGates(t) ==
    /\ At(t, "continued") /\ Seeded(t)
    /\ turns' = [turns EXCEPT ![t].stage = "drafting"]
    /\ UNCHANGED <<rows, messages, page, faults>>

Plan(t, verdict, critical) ==
    LET stop == Stop(verdict, critical, turns[t].act)
        planned == IF stop = "none"
                     THEN [turns EXCEPT ![t].stage = "drafting"]
                     ELSE Decide(t, stop, "none")
    IN /\ At(t, "continued") /\ ~Seeded(t)
       /\ turns' = [planned EXCEPT ![t].verdict = verdict]
       /\ UNCHANGED <<rows, messages, page, faults>>

\* The loops end with a contract, which has a source or not, or throw.
Draft(t, source) ==
    /\ At(t, "drafting")
    /\ turns' = Decide(t, "contract", source)
    /\ UNCHANGED <<rows, messages, page, faults>>

Fails(t) ==
    /\ At(t, "continued") \/ At(t, "drafting")
    /\ turns' = Decide(t, "error", "none")
    /\ UNCHANGED <<rows, messages, page, faults>>

-----------------------------------------------------------------------------
(* The end of a run (RunManager, finishWithResult and finishWithError).     *)

Settled(t) == IF turns[t].outcome = "error" THEN "failed" ELSE "completed"

\* A row that cannot be updated: what would follow is skipped.
Settle(t) ==
    /\ At(t, "decided")
    /\ \/ /\ turns' = [turns EXCEPT ![t].stage = "settled",
                                    ![t].row = Settled(t)]
          /\ UNCHANGED faults
       \/ /\ Fault
          /\ \E row \in {"active", Settled(t)} :
               turns' = [turns EXCEPT ![t].stage = "stored", ![t].row = row]
    /\ UNCHANGED <<rows, messages, page>>

\* The reply, then the artifact.
Store(t) ==
    /\ At(t, "settled")
    /\ \/ /\ turns' = [turns EXCEPT ![t].stage = "stored",
                                    ![t].replied = TRUE,
                                    ![t].source = IF @ = "drafted" THEN "kept"
                                                                   ELSE @]
          /\ UNCHANGED faults
       \/ /\ Fault
          /\ \E replied \in BOOLEAN :
               turns' = [turns EXCEPT ![t].stage = "stored",
                                      ![t].replied = replied,
                                      ![t].source = "none"]
    /\ UNCHANGED <<rows, messages, page>>

Announce(t) ==
    /\ At(t, "stored")
    /\ turns' = [turns EXCEPT ![t].stage = "announced"]
    /\ UNCHANGED <<rows, messages, page, faults>>

\* The process dies; handlers and runs die with it.
Restart ==
    /\ Fault
    /\ turns' = [t \in DOMAIN turns |->
                   IF turns[t].stage \in {"announced", "refused"} THEN turns[t]
                   ELSE [turns[t] EXCEPT !.stage = "dead"]]
    /\ UNCHANGED <<rows, messages, page>>

-----------------------------------------------------------------------------
User(p) ==
    \/ Send(p) \/ Retry(p) \/ Approve(p)
    \/ \E choice \in Choices : Choose(p, choice)

Watch(p) == Connect(p) \/ PostFails(p) \/ SeesCard(p) \/ SeesEnd(p)
              \/ LosesStream(p)

Serve(t) ==
    \/ WriteUserMessage(t) \/ CreateRun(t)
    \/ Continue(t) \/ SkipsGates(t)
    \/ \E verdict \in Verdicts, critical \in BOOLEAN : Plan(t, verdict, critical)
    \/ \E source \in {"none", "drafted"} : Draft(t, source)
    \/ Fails(t)
    \/ Settle(t) \/ Store(t) \/ Announce(t)

Next ==
    \/ \E p \in Pages : User(p) \/ Open(p) \/ Watch(p)
    \/ \E t \in DOMAIN turns : Serve(t)
    \/ Restart

Spec == Init /\ [][Next]_vars

\* The event loops of the server and of each page go on.
FairSpec ==
    /\ Spec
    /\ \A t \in 1 .. MaxTurns : WF_vars(Serve(t))
    /\ \A p \in Pages : WF_vars(Watch(p))

-----------------------------------------------------------------------------
(* Properties *)

TypeOK ==
    /\ turns \in Seq(Turns)
    /\ rows \in Seq(DOMAIN turns)
    /\ messages \in Seq([role : {"user", "assistant"}, turn : DOMAIN turns])
    /\ page \in [Pages -> PageState]
    /\ faults \in 0 .. MaxFaults

\* "Central consent gate: silent approximation is impossible"
\* (vault-scope.ts): whatever reads fail and whichever page asks, a contract
\* is written only of an idea that was not refused, and for a choice the user
\* made in that turn, an approved plan of an idea that could be launched, or
\* as a change of a contract.
CodeHasGoAhead ==
    \A t \in DOMAIN turns : turns[t].outcome = "contract" =>
      LET base == turns[t].base
      IN CASE turns[t].branch = "approved" ->
                /\ turns[base].outcome = "plan_pending"
                /\ turns[base].verdict = "launch_ready_possible"
           [] turns[t].branch = "refine" -> turns[base].outcome = "contract"
           [] OTHER -> /\ turns[t].act \in Choices
                       /\ turns[t].verdict # "unsafe_or_unsupported"

\* "Follow-up in a chat whose last completed run ..." (chat-routes.ts): a turn
\* posted from a page that showed the end of a run continues that run or a
\* later one, unless something failed.
Position(t) == CHOOSE i \in DOMAIN rows : rows[i] = t
ContinuesWhatWasShown ==
    \A t \in DOMAIN turns :
      /\ faults = 0
      /\ turns[t].branch # "none" /\ turns[t].act \notin Choices
      /\ turns[t].ended
      => /\ turns[t].base # 0
         /\ Position(turns[t].base) >= Position(turns[t].after)

\* Whatever fails, the user is not locked out: a page that is sending or
\* watching comes to a card, an end or an error.
PageIsFreed ==
    \A p \in Pages :
      (page[p].sending # 0 \/ Streaming(p))
        ~> (page[p].sending = 0 /\ ~Streaming(p))

\* "Keep this as a draft spec only - no contract yet" (codegen.ts): that
\* choice yields no contract.
SpecOnlyBuildsNothing ==
    \A t \in DOMAIN turns :
      turns[t].act = "spec_only" => turns[t].outcome # "contract"

\* "A design-question / consent choice resends the ORIGINAL idea verbatim"
\* (chat-routes.ts): what is generated for a choice is given the idea the
\* chat began with.
ChoiceKeepsTheIdea ==
    \A t \in DOMAIN turns :
      turns[t].act \in Choices /\ turns[t].branch # "none" =>
        FirstText(messages, t) \in turns[t].brief

\* "Approves the MechanicSpec shown by the last plan_ready pause in this
\* chat" (chat-api.ts): the plan that is built is the one whose card was
\* approved.
ApprovesWhatWasShown ==
    \A t \in DOMAIN turns :
      turns[t].branch = "approved" => turns[t].base = turns[t].after

=============================================================================
