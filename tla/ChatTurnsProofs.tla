---------------------------- MODULE ChatTurnsProofs ----------------------------
(***************************************************************************)
(* For every number of pages, turns and faults: no contract is written     *)
(* without a go-ahead, and without faults a turn continues the run whose   *)
(* end its page showed, or a later one. What a turn continues is decided   *)
(* by reading rows that other turns write. For the first, a row is         *)
(* completed only after its turn has decided, and what a turn has decided  *)
(* never changes. For the second, a page shows the end of a run only when  *)
(* its row is settled, and the last completed row can only move on.        *)
(***************************************************************************)
EXTENDS ChatTurns, WellFoundedInduction, TLAPS

\* Stages before execute() knows what the turn continues, and after the
\* outcome is known.
Unread == {"posted", "asked", "registered", "started", "refused"}
Ended == {"decided", "settled", "stored", "announced", "dead"}

\* A turn, with nothing said of texts and numbers.
Loose(X) ==
    [text : X, act : Acts, after : X, ended : BOOLEAN,
     stage : Stages, base : X, branch : Branches \union {"none"},
     brief : X, verdict : Verdicts \union {"none"},
     outcome : Stops \union {"none", "contract", "error"},
     source : {"none", "drafted", "kept"}, replied : BOOLEAN,
     row : {"none", "active", "completed", "failed"}]

\* What each place in the handler and the run knows of its own turn.
Follows(r) ==
    /\ r.stage \in Unread => r.outcome = "none" /\ r.branch = "none"
    /\ r.stage = "continued" => r.outcome = "none" /\ r.branch # "none"
    /\ r.stage = "drafting" => r.outcome = "none" /\ r.branch # "none"
    /\ r.stage = "decided" => r.outcome # "none"
    /\ r.row = "completed" => r.outcome # "none" /\ r.stage \in Ended
    /\ r.outcome # "none" => r.stage \in Ended
    /\ r.outcome = "plan_pending" => r.verdict = "launch_ready_possible"
    /\ (r.stage = "drafting" \/ r.outcome = "contract")
         /\ r.branch \notin {"approved", "refine"}
         => r.act \in Choices /\ r.verdict # "unsafe_or_unsupported"

\* What the turn that is continued has come to.
BaseIs(r, outcome) ==
    r.base \in DOMAIN turns /\ turns[r.base].outcome = outcome
Continues(r) ==
    /\ r.branch = "approved" => BaseIs(r, "plan_pending")
    /\ r.branch = "refine" => BaseIs(r, "contract")

Typed == \E X : turns \in Seq(Loose(X))
RowsTyped == rows \in Seq(DOMAIN turns)

TurnInv ==
    /\ Typed
    /\ RowsTyped
    /\ \A t \in DOMAIN turns : Follows(turns[t]) /\ Continues(turns[t])

\* What a step may do to turn t: what has been decided stays.
Keeps(old, new) ==
    old.outcome # "none" => new.outcome = old.outcome /\ new.verdict = old.verdict

-----------------------------------------------------------------------------
\* More values of texts and numbers, more turns.
LEMMA LooseGrows ==
    ASSUME NEW X, NEW Y, X \subseteq Y
    PROVE  Loose(X) \subseteq Loose(Y)
BY DEF Loose

\* A sequence over a set is one over a larger set.
LEMMA SeqGrows ==
    ASSUME NEW A, NEW B, A \subseteq B, NEW s \in Seq(A)
    PROVE  s \in Seq(B)
<1>1. s = [i \in 1 .. Len(s) |-> s[i]] /\ Len(s) \in Nat
  OBVIOUS
<1>2. \A i \in 1 .. Len(s) : s[i] \in B
  OBVIOUS
<1> QED
  BY <1>1, <1>2

\* What Typed says of each turn.
LEMMA TurnsAreTyped ==
    ASSUME Typed
    PROVE  /\ Len(turns) \in Nat /\ DOMAIN turns = 1 .. Len(turns)
           /\ \A t \in DOMAIN turns : \E X : turns[t] \in Loose(X)
BY DEF Typed

\* A turn that is posted.
LEMMA PostKeepsInv ==
    ASSUME TurnInv, NEW r, NEW X, r \in Loose(X), turns' = Append(turns, r),
           rows' = rows, r.outcome = "none", r.branch = "none",
           r.stage = "posted", r.row = "none"
    PROVE  TurnInv'
<1>1. PICK Y : turns \in Seq(Loose(Y))
  BY DEF TurnInv, Typed
<1> DEFINE Z == X \union Y
<1>2. Loose(X) \subseteq Loose(Z) /\ Loose(Y) \subseteq Loose(Z)
  BY LooseGrows
<1> HIDE DEF Z
<1>3. turns \in Seq(Loose(Z)) /\ r \in Loose(Z)
  BY <1>1, <1>2, SeqGrows
<1>4. turns' \in Seq(Loose(Z))
  BY <1>3
<1>5. /\ DOMAIN turns = 1 .. Len(turns) /\ Len(turns) \in Nat
      /\ DOMAIN turns' = 1 .. (Len(turns) + 1)
      /\ \A t \in DOMAIN turns : turns'[t] = turns[t]
      /\ turns'[Len(turns) + 1] = r
  BY <1>3
<1>6. Typed'
  BY <1>4 DEF Typed
<1>7. RowsTyped'
  BY <1>5 DEF TurnInv, RowsTyped
<1>8. Follows(r) /\ Continues(r)'
  BY DEF Follows, Continues, Unread
<1>9. ASSUME NEW t \in DOMAIN turns
      PROVE  Follows(turns[t]) /\ Continues(turns[t])'
  BY <1>5 DEF TurnInv, Continues, BaseIs
<1>10. \A t \in DOMAIN turns' : Follows(turns'[t]) /\ (Continues(turns[t]))'
  BY <1>5, <1>8, <1>9 DEF Continues, BaseIs
<1> QED
  BY <1>6, <1>7, <1>10 DEF TurnInv, Follows

\* A step of one turn.
LEMMA StepKeepsInv ==
    ASSUME TurnInv, NEW t \in DOMAIN turns, NEW r, NEW X, r \in Loose(X),
           turns' = [turns EXCEPT ![t] = r],
           rows' = rows \/ rows' = Append(rows, t),
           Follows(r), Continues(r), Keeps(turns[t], r)
    PROVE  TurnInv'
<1>1. PICK Y : turns \in Seq(Loose(Y))
  BY DEF TurnInv, Typed
<1> DEFINE Z == X \union Y
<1>2. Loose(X) \subseteq Loose(Z) /\ Loose(Y) \subseteq Loose(Z)
  BY LooseGrows
<1> HIDE DEF Z
<1>3. turns \in Seq(Loose(Z)) /\ r \in Loose(Z)
  BY <1>1, <1>2, SeqGrows
<1>4. turns' \in Seq(Loose(Z))
  BY <1>3
<1>5. /\ DOMAIN turns' = DOMAIN turns
      /\ turns'[t] = r
      /\ \A u \in DOMAIN turns : u # t => turns'[u] = turns[u]
  BY <1>3
<1>6. Typed'
  BY <1>4 DEF Typed
<1>7. RowsTyped'
  BY <1>5 DEF TurnInv, RowsTyped
<1>8. \A u \in DOMAIN turns : turns[u].outcome # "none" =>
         turns'[u].outcome = turns[u].outcome
  BY <1>5 DEF Keeps
<1>9. ASSUME NEW u \in DOMAIN turns
      PROVE  Follows(turns'[u])
  BY <1>5 DEF TurnInv
<1>10. ASSUME NEW u \in DOMAIN turns
       PROVE  Continues(turns[u])'
  <2>1. Continues(turns'[u])
    BY <1>5 DEF TurnInv
  <2> QED
    BY <2>1, <1>5, <1>8 DEF Continues, BaseIs
<1> QED
  BY <1>5, <1>6, <1>7, <1>9, <1>10 DEF TurnInv, Follows

\* Of some numbers there is a least one.
LEMMA LeastNumber ==
    ASSUME NEW S, S \subseteq Nat, S # {}
    PROVE  \E i \in S : \A j \in S : i =< j
<1>1. IsWellFoundedOn(OpToRel(<, Nat), Nat)
  BY NatLessThanWellFounded
<1>2. PICK i \in S : \A j \in S : ~(<<j, i>> \in OpToRel(<, Nat))
  BY <1>1, WFMin
<1>3. \A j \in S : ~(j < i)
  <2> SUFFICES ASSUME NEW j \in S, j < i PROVE FALSE
    OBVIOUS
  <2>1. <<j, i>> \in OpToRel(<, Nat)
    BY DEF OpToRel
  <2> QED
    BY <1>2, <2>1
<1> QED
  BY <1>3

\* The first and the last position that a search finds.
LEMMA EarliestIsFound ==
    ASSUME NEW S, S \subseteq Nat, S # {}
    PROVE  Earliest(S) \in S
<1> DEFINE Leads(i) == \A j \in S : i =< j
<1>1. \E i \in S : Leads(i)
  BY LeastNumber
<1> HIDE DEF Leads
<1>2. (CHOOSE i \in S : Leads(i)) \in S
  BY <1>1, Zenon
<1>3. (CHOOSE i \in S : Leads(i)) = Earliest(S)
  BY DEF Leads, Earliest
<1> QED
  BY <1>2, <1>3

\* A finite set of turns that is not empty has a latest one.
LEMMA LatestIsFound ==
    ASSUME NEW n \in Nat, NEW S, S \subseteq 1 .. n, S # {}
    PROVE  Latest(S) \in S /\ \A j \in S : j =< Latest(S)
<1> DEFINE Trails(i) == \A j \in S : j =< i
           D == {n - i : i \in S}
<1>1. \E i \in S : Trails(i)
  <2>1. \A i \in S : n - i \in Nat
    OBVIOUS
  <2>2. D \subseteq Nat /\ D # {}
    BY <2>1
  <2>3. PICK d \in D : \A e \in D : d =< e
    BY <2>2, LeastNumber
  <2>4. PICK i \in S : d = n - i
    OBVIOUS
  <2>5. \A j \in S : n - j \in D
    OBVIOUS
  <2> HIDE DEF D
  <2>6. \A j \in S : n - i =< n - j
    BY <2>3, <2>4, <2>5
  <2>7. i \in Nat /\ \A j \in S : j \in Nat
    OBVIOUS
  <2>8. \A j \in S : j =< i
    BY <2>6, <2>7
  <2> QED
    BY <2>8
<1> HIDE DEF Trails
<1>2. /\ (CHOOSE i \in S : Trails(i)) \in S
      /\ Trails(CHOOSE i \in S : Trails(i))
  BY <1>1, Zenon
<1>3. (CHOOSE i \in S : Trails(i)) = Latest(S)
  BY DEF Trails, Latest
<1> QED
  BY <1>2, <1>3 DEF Trails

\* The turn that the generator takes for the last completed one.
LEMMA LastIsCompleted ==
    ASSUME NEW rs, NEW X, rs \in Seq(X), 0 \notin X
    PROVE  /\ LastCompleted(rs) = 0 <=> Completed(rs) = {}
           /\ Completed(rs) # {} =>
                \E i \in Completed(rs) :
                   /\ rs[i] = LastCompleted(rs)
                   /\ \A j \in Completed(rs) : j =< i
<1>1. Completed(rs) \subseteq 1 .. Len(rs) /\ Len(rs) \in Nat
  BY DEF Completed
<1>2. CASE Completed(rs) = {}
  BY <1>2 DEF LastCompleted
<1>3. CASE Completed(rs) # {}
  <2> DEFINE i == Latest(Completed(rs))
  <2>1. i \in Completed(rs) /\ \A j \in Completed(rs) : j =< i
    BY <1>1, <1>3, LatestIsFound
  <2>2. LastCompleted(rs) = rs[i]
    BY <1>3 DEF LastCompleted
  <2> HIDE DEF i
  <2>3. rs[i] \in X
    BY <1>1, <2>1
  <2> QED
    BY <1>3, <2>1, <2>2, <2>3
<1> QED
  BY <1>2, <1>3

-----------------------------------------------------------------------------
\* A step that decides nothing: the turn stays before its reading, or after
\* its outcome, and its row is completed only then.
LEMMA SameDecision ==
    ASSUME TurnInv, NEW t \in DOMAIN turns, NEW X, NEW r \in Loose(X),
           turns' = [turns EXCEPT ![t] = r],
           rows' = rows \/ rows' = Append(rows, t),
           r.act = turns[t].act, r.branch = turns[t].branch,
           r.base = turns[t].base, r.verdict = turns[t].verdict,
           r.outcome = turns[t].outcome,
           \/ turns[t].stage \in Unread /\ r.stage \in Unread
           \/ turns[t].stage \in Ended /\ r.stage \in Ended \ {"decided"},
           r.row = "completed" => turns[t].stage = "decided"
                                    \/ turns[t].row = "completed"
    PROVE  TurnInv'
<1>1. Follows(turns[t]) /\ Continues(turns[t])
  BY DEF TurnInv
<1>2. Follows(r)
  BY <1>1 DEF Follows, Unread, Ended
<1>3. Continues(r) /\ Keeps(turns[t], r)
  BY <1>1 DEF Continues, BaseIs, Keeps
<1> QED
  BY <1>2, <1>3, StepKeepsInv

\* A page posts a prompt: a new turn, that has decided nothing.
LEMMA PostStep ==
    ASSUME TurnInv, NEW p \in Pages, NEW act \in Acts, NEW text, Post(p, act, text)
    PROVE  TurnInv'
<1> DEFINE r == NewTurn(p, act, text)
           X == {text, page[p].run, 0, {}}
<1>1. r \in Loose(X)
  BY DEF NewTurn, Loose, Stages
<1>2. r.outcome = "none" /\ r.branch = "none" /\ r.stage = "posted" /\ r.row = "none"
  BY DEF NewTurn
<1>3. turns' = Append(turns, r) /\ rows' = rows
  BY DEF Post
<1> HIDE DEF r
<1> QED
  BY <1>1, <1>2, <1>3, PostKeepsInv

\* A subscription starts the run of its turn, and decides nothing.
LEMMA SubscribedStep ==
    ASSUME TurnInv, NEW t, Subscribed(t), UNCHANGED rows
    PROVE  TurnInv'
<1>1. CASE ~At(t, "registered")
  BY <1>1 DEF Subscribed, TurnInv, Typed, RowsTyped, Continues, BaseIs
<1>2. CASE At(t, "registered")
  <2>1. t \in DOMAIN turns /\ turns[t].stage = "registered"
    BY <1>2 DEF At
  <2>2. PICK X : turns[t] \in Loose(X)
    BY <2>1, TurnsAreTyped DEF TurnInv
  <2> DEFINE r == [turns[t] EXCEPT !.stage = "started"]
  <2>3. turns' = [turns EXCEPT ![t] = r]
    BY <1>2 DEF Subscribed
  <2>4. /\ r \in Loose(X) /\ r.stage = "started"
        /\ r.act = turns[t].act /\ r.branch = turns[t].branch
        /\ r.base = turns[t].base /\ r.verdict = turns[t].verdict
        /\ r.outcome = turns[t].outcome /\ r.row = turns[t].row
    BY <2>2 DEF Loose, Stages
  <2> HIDE DEF r
  <2> QED
    BY <2>1, <2>3, <2>4, SameDecision DEF Unread
<1> QED
  BY <1>1, <1>2

\* The route writes the message, or fails to.
LEMMA WriteUserMessageStep ==
    ASSUME TurnInv, NEW t \in DOMAIN turns, WriteUserMessage(t)
    PROVE  TurnInv'
<1>1. PICK X : turns[t] \in Loose(X)
  BY TurnsAreTyped DEF TurnInv
<1>2. PICK s \in {"asked", "refused"} : turns' = [turns EXCEPT ![t].stage = s]
  BY DEF WriteUserMessage
<1> DEFINE r == [turns[t] EXCEPT !.stage = s]
<1>3. turns' = [turns EXCEPT ![t] = r]
  BY <1>2
<1>4. /\ r \in Loose(X) /\ r.stage = s
      /\ r.act = turns[t].act /\ r.branch = turns[t].branch
      /\ r.base = turns[t].base /\ r.verdict = turns[t].verdict
      /\ r.outcome = turns[t].outcome /\ r.row = turns[t].row
  BY <1>1 DEF Loose, Stages
<1>5. turns[t].stage = "posted" /\ rows' = rows
  BY DEF WriteUserMessage, At
<1> HIDE DEF r
<1> QED
  BY <1>3, <1>4, <1>5, SameDecision DEF Unread

\* The route creates the run's row and its placeholder.
LEMMA CreateRunStep ==
    ASSUME TurnInv, NEW t \in DOMAIN turns, CreateRun(t)
    PROVE  TurnInv'
<1>1. PICK X : turns[t] \in Loose(X)
  BY TurnsAreTyped DEF TurnInv
<1>2. turns[t].stage = "asked" /\ (rows' = rows \/ rows' = Append(rows, t))
  BY DEF CreateRun, At
<1>3. CASE turns' = [turns EXCEPT ![t].stage = "refused"]
  <2> DEFINE r == [turns[t] EXCEPT !.stage = "refused"]
  <2>1. turns' = [turns EXCEPT ![t] = r]
    BY <1>3
  <2>2. /\ r \in Loose(X) /\ r.stage = "refused"
        /\ r.act = turns[t].act /\ r.branch = turns[t].branch
        /\ r.base = turns[t].base /\ r.verdict = turns[t].verdict
        /\ r.outcome = turns[t].outcome /\ r.row = turns[t].row
    BY <1>1 DEF Loose, Stages
  <2> HIDE DEF r
  <2> QED
    BY <1>2, <2>1, <2>2, SameDecision DEF Unread
<1>4. ASSUME NEW s \in {"registered", "refused"},
             turns' = [turns EXCEPT ![t].stage = s, ![t].row = "active"]
      PROVE  TurnInv'
  <2> DEFINE r == [turns[t] EXCEPT !.stage = s, !.row = "active"]
  <2>1. turns' = [turns EXCEPT ![t] = r]
    BY <1>4
  <2>2. /\ r \in Loose(X) /\ r.stage = s
        /\ r.act = turns[t].act /\ r.branch = turns[t].branch
        /\ r.base = turns[t].base /\ r.verdict = turns[t].verdict
        /\ r.outcome = turns[t].outcome /\ r.row = "active"
    BY ZenonT(40), <1>1 DEF Loose, Stages
  <2> HIDE DEF r
  <2> QED
    BY <1>2, <2>1, <2>2, SameDecision DEF Unread
<1> QED
  BY <1>3, <1>4 DEF CreateRun

\* The run's row is settled; only a decided turn completes it.
LEMMA SettleStep ==
    ASSUME TurnInv, NEW t \in DOMAIN turns, Settle(t)
    PROVE  TurnInv'
<1>1. PICK X : turns[t] \in Loose(X)
  BY TurnsAreTyped DEF TurnInv
<1>2. turns[t].stage = "decided" /\ rows' = rows
  BY DEF Settle, At
<1>3. PICK s \in {"settled", "stored"}, w \in {"active", "completed", "failed"} :
         turns' = [turns EXCEPT ![t].stage = s, ![t].row = w]
  BY DEF Settle, Settled
<1> DEFINE r == [turns[t] EXCEPT !.stage = s, !.row = w]
<1>4. turns' = [turns EXCEPT ![t] = r]
  BY <1>3
<1>5. /\ r \in Loose(X) /\ r.stage = s
      /\ r.act = turns[t].act /\ r.branch = turns[t].branch
      /\ r.base = turns[t].base /\ r.verdict = turns[t].verdict
      /\ r.outcome = turns[t].outcome
  BY ZenonT(40), <1>1 DEF Loose, Stages
<1> HIDE DEF r
<1> QED
  BY <1>2, <1>4, <1>5, SameDecision DEF Ended

\* Reply and artifact are stored, or not.
LEMMA StoreStep ==
    ASSUME TurnInv, NEW t \in DOMAIN turns, Store(t)
    PROVE  TurnInv'
<1>1. PICK X : turns[t] \in Loose(X)
  BY TurnsAreTyped DEF TurnInv
<1>2. turns[t].stage = "settled" /\ rows' = rows
  BY DEF Store, At
<1>3. turns[t].source \in {"none", "drafted", "kept"}
  BY <1>1 DEF Loose
<1>4. PICK a \in BOOLEAN, b \in {"none", "drafted", "kept"} :
         turns' = [turns EXCEPT ![t].stage = "stored", ![t].replied = a, ![t].source = b]
  <2>1. CASE turns' = [turns EXCEPT ![t].stage = "stored", ![t].replied = TRUE,
                         ![t].source = IF @ = "drafted" THEN "kept" ELSE @]
    BY <2>1, <1>3
  <2>2. CASE \E replied \in BOOLEAN :
               turns' = [turns EXCEPT ![t].stage = "stored",
                                      ![t].replied = replied, ![t].source = "none"]
    BY <2>2
  <2> QED
    BY <2>1, <2>2 DEF Store
<1> DEFINE r == [turns[t] EXCEPT !.stage = "stored", !.replied = a, !.source = b]
<1>5. turns' = [turns EXCEPT ![t] = r]
  BY <1>4
<1>6. /\ r \in Loose(X) /\ r.stage = "stored"
      /\ r.act = turns[t].act /\ r.branch = turns[t].branch
      /\ r.base = turns[t].base /\ r.verdict = turns[t].verdict
      /\ r.outcome = turns[t].outcome /\ r.row = turns[t].row
  BY ZenonT(40), <1>1 DEF Loose, Stages
<1> HIDE DEF r
<1> QED
  BY <1>2, <1>5, <1>6, SameDecision DEF Ended

\* The end is announced.
LEMMA AnnounceStep ==
    ASSUME TurnInv, NEW t \in DOMAIN turns, Announce(t)
    PROVE  TurnInv'
<1>1. PICK X : turns[t] \in Loose(X)
  BY TurnsAreTyped DEF TurnInv
<1>2. turns[t].stage = "stored" /\ rows' = rows
  BY DEF Announce, At
<1> DEFINE r == [turns[t] EXCEPT !.stage = "announced"]
<1>3. turns' = [turns EXCEPT ![t] = r]
  BY DEF Announce
<1>4. /\ r \in Loose(X) /\ r.stage = "announced"
      /\ r.act = turns[t].act /\ r.branch = turns[t].branch
      /\ r.base = turns[t].base /\ r.verdict = turns[t].verdict
      /\ r.outcome = turns[t].outcome /\ r.row = turns[t].row
  BY <1>1 DEF Loose, Stages
<1> HIDE DEF r
<1> QED
  BY <1>2, <1>3, <1>4, SameDecision DEF Ended

-----------------------------------------------------------------------------
\* The generator continues a turn that is in the chat and that has decided.
LEMMA ContinueStep ==
    ASSUME TurnInv, NEW t \in DOMAIN turns, Continue(t)
    PROVE  TurnInv'
<1>1. PICK X : turns[t] \in Loose(X)
  BY TurnsAreTyped DEF TurnInv
<1>2. turns[t].stage = "started" /\ rows' = rows
  BY DEF Continue, At
<1>3. PICK msgs \in {messages, <<>>}, rs \in {rows, <<>>}, artifacts \in BOOLEAN :
         turns' = Continued(t, msgs, rs, artifacts)
  BY DEF Continue
<1> DEFINE last == IF turns[t].act \in Choices THEN 0 ELSE LastCompleted(rs)
           branch == Branch(t, last, artifacts)
           brief == Brief(t, branch, last, msgs)
           r == [turns[t] EXCEPT !.stage = "continued", !.base = last,
                                 !.branch = branch, !.brief = brief]
           Y == X \union {last, brief}
<1>4. last # 0 => last \in DOMAIN turns
  <2>1. rs \in Seq(DOMAIN turns) /\ 0 \notin DOMAIN turns
    <3>1. rows \in Seq(DOMAIN turns)
      BY DEF TurnInv, RowsTyped
    <3>2. DOMAIN turns = 1 .. Len(turns)
      BY TurnsAreTyped DEF TurnInv
    <3>3. rs = <<>> => rs \in Seq(DOMAIN turns)
      OBVIOUS
    <3>4. rs = rows \/ rs = <<>>
      OBVIOUS
    <3> QED
      BY <3>1, <3>2, <3>3, <3>4
  <2>2. Completed(rs) # {} /\ last # 0 => last \in DOMAIN turns
    BY <2>1, LastIsCompleted DEF Completed
  <2>3. Completed(rs) = {} => last = 0
    BY <2>1, LastIsCompleted
  <2> QED
    BY <2>2, <2>3
<1>5. /\ branch \in Branches
      /\ branch = "approved" => last # 0 /\ turns[last].outcome = "plan_pending"
      /\ branch = "refine" => last # 0 /\ turns[last].outcome = "contract"
  <2> HIDE DEF last
  <2>1. CASE turns[t].act \in Choices
    BY <2>1 DEF Branch, Branches, PlanApproved
  <2>2. CASE turns[t].act \notin Choices /\ PlanApproved(t, last)
    BY <2>2 DEF Branch, Branches, PlanApproved
  <2>3. CASE turns[t].act \notin Choices /\ ~PlanApproved(t, last) /\ last = 0
    BY <2>3 DEF Branch, Branches
  <2>4. CASE turns[t].act \notin Choices /\ ~PlanApproved(t, last) /\ last # 0
    BY <2>4 DEF Branch, Branches
  <2> QED
    BY <2>1, <2>2, <2>3, <2>4
<1>6. turns' = [turns EXCEPT ![t] = r]
  BY <1>3 DEF Continued
<1> HIDE DEF last, branch, brief
<1>7. turns[t] \in Loose(Y)
  BY <1>1, LooseGrows
<1>8. /\ r \in Loose(Y) /\ r.stage = "continued" /\ r.branch = branch
      /\ r.base = last /\ r.outcome = turns[t].outcome /\ r.row = turns[t].row
  <2>1. last \in Y /\ brief \in Y /\ branch \in Branches
    BY <1>5
  <2> HIDE DEF Y
  <2> QED
    BY <2>1, <1>7 DEF Loose, Stages
<1> HIDE DEF r
<1>9. Follows(turns[t])
  BY DEF TurnInv
<1>10. turns[t].outcome = "none" /\ turns[t].row # "completed"
  BY <1>2, <1>9 DEF Follows, Unread
<1>11. Follows(r) /\ Keeps(turns[t], r)
  BY <1>5, <1>8, <1>10 DEF Follows, Keeps, Unread, Branches
<1>12. Continues(r)
  BY <1>4, <1>5, <1>8 DEF Continues, BaseIs
<1> QED
  BY <1>2, <1>6, <1>8, <1>11, <1>12, StepKeepsInv

\* The gates let a turn through that was seeded, or that made a choice the
\* verdict allows; a plan is shown only of an idea that can be launched.
LEMMA GatesDecide ==
    ASSUME NEW verdict \in Verdicts, NEW critical \in BOOLEAN, NEW act \in Acts,
           NEW stop, stop = Stop(verdict, critical, act)
    PROVE  /\ stop \in Stops \union {"none"}
           /\ stop = "none" => act \in Choices /\ verdict # "unsafe_or_unsupported"
           /\ stop = "plan_pending" => verdict = "launch_ready_possible"
BY DEF Stop, ConsentGate, DesignQuestionGate, PlanGate, Verdicts, Acts, Choices,
       Stops, Asking

\* A turn that the gates are not asked about.
LEMMA SkipsGatesStep ==
    ASSUME TurnInv, NEW t \in DOMAIN turns, SkipsGates(t)
    PROVE  TurnInv'
<1>1. PICK X : turns[t] \in Loose(X)
  BY TurnsAreTyped DEF TurnInv
<1>2. turns[t].stage = "continued" /\ rows' = rows /\ Seeded(t)
  BY DEF SkipsGates, At
<1> DEFINE r == [turns[t] EXCEPT !.stage = "drafting"]
<1>3. turns' = [turns EXCEPT ![t] = r]
  BY DEF SkipsGates
<1>4. /\ r \in Loose(X) /\ r.stage = "drafting" /\ r.branch = turns[t].branch
      /\ r.base = turns[t].base /\ r.outcome = turns[t].outcome
      /\ r.row = turns[t].row
  BY <1>1 DEF Loose, Stages
<1> HIDE DEF r
<1>5. Follows(turns[t]) /\ Continues(turns[t])
  BY DEF TurnInv
<1>6. Follows(r) /\ Keeps(turns[t], r) /\ Continues(r)
  BY <1>2, <1>4, <1>5 DEF Follows, Continues, BaseIs, Keeps, Unread, Seeded
<1> QED
  BY <1>2, <1>3, <1>4, <1>6, StepKeepsInv

\* The gates answer, and stop the turn or let it draft.
LEMMA PlanStep ==
    ASSUME TurnInv, NEW t \in DOMAIN turns, NEW verdict \in Verdicts,
           NEW critical \in BOOLEAN, Plan(t, verdict, critical)
    PROVE  TurnInv'
<1>1. PICK X : turns[t] \in Loose(X)
  BY TurnsAreTyped DEF TurnInv
<1>2. turns[t].stage = "continued" /\ rows' = rows /\ turns[t].act \in Acts
  BY <1>1 DEF Plan, At, Loose
<1> DEFINE stop == Stop(verdict, critical, turns[t].act)
           r == IF stop = "none"
                  THEN [turns[t] EXCEPT !.stage = "drafting", !.verdict = verdict]
                  ELSE [turns[t] EXCEPT !.stage = "decided", !.outcome = stop,
                                        !.source = "none", !.verdict = verdict]
<1>3. turns' = [turns EXCEPT ![t] = r]
  <2>1. CASE stop = "none"
    BY <2>1 DEF Plan
  <2>2. CASE stop # "none"
    BY <2>2 DEF Plan, Decide
  <2> QED
    BY <2>1, <2>2
<1>4. /\ stop \in Stops \union {"none"}
      /\ stop = "none" => turns[t].act \in Choices /\ verdict # "unsafe_or_unsupported"
      /\ stop = "plan_pending" => verdict = "launch_ready_possible"
  BY <1>2, GatesDecide
<1> HIDE DEF stop
<1>5. /\ r \in Loose(X) /\ r.verdict = verdict /\ r.branch = turns[t].branch
      /\ r.base = turns[t].base /\ r.row = turns[t].row /\ r.act = turns[t].act
      /\ stop = "none" => r.stage = "drafting" /\ r.outcome = turns[t].outcome
      /\ stop # "none" => r.stage = "decided" /\ r.outcome = stop
  BY ZenonT(40), <1>1, <1>4 DEF Loose, Stages
<1> HIDE DEF r
<1>6. Follows(turns[t]) /\ Continues(turns[t])
  BY DEF TurnInv
<1>7. turns[t].outcome = "none" /\ turns[t].row # "completed"
  BY <1>2, <1>6 DEF Follows
<1>8. Follows(r)
  BY <1>2, <1>4, <1>5, <1>6, <1>7 DEF Follows, Unread, Ended, Stops, Asking
<1>9. Keeps(turns[t], r) /\ Continues(r)
  BY <1>5, <1>6, <1>7 DEF Continues, BaseIs, Keeps
<1> QED
  BY <1>2, <1>3, <1>5, <1>8, <1>9, StepKeepsInv

\* A draft ends in a contract or in an error.
LEMMA DraftEndsStep ==
    ASSUME TurnInv, NEW t \in DOMAIN turns,
           NEW source \in {"none", "drafted"},
           Draft(t, source) \/ Fails(t)
    PROVE  TurnInv'
<1>1. PICK X : turns[t] \in Loose(X)
  BY TurnsAreTyped DEF TurnInv
<1>2. PICK o \in {"contract", "error"}, c \in {"none", "drafted"} :
         /\ turns' = Decide(t, o, c)
         /\ rows' = rows
         /\ turns[t].stage \in {"continued", "drafting"}
         /\ o = "contract" => turns[t].stage = "drafting"
  BY DEF Draft, Fails, At
<1> DEFINE r == [turns[t] EXCEPT !.stage = "decided", !.outcome = o, !.source = c]
<1>3. turns' = [turns EXCEPT ![t] = r]
  BY <1>2 DEF Decide
<1>4. /\ r \in Loose(X) /\ r.stage = "decided" /\ r.branch = turns[t].branch
      /\ r.base = turns[t].base /\ r.outcome = o /\ r.act = turns[t].act
      /\ r.row = turns[t].row /\ r.verdict = turns[t].verdict
  BY ZenonT(40), <1>1 DEF Loose, Stages
<1> HIDE DEF r
<1>5. Follows(turns[t]) /\ Continues(turns[t])
  BY DEF TurnInv
<1>6. turns[t].outcome = "none" /\ turns[t].row # "completed"
  BY <1>2, <1>5 DEF Follows
<1>7. Follows(r)
  BY <1>2, <1>4, <1>5, <1>6 DEF Follows, Unread, Ended
<1>8. Keeps(turns[t], r) /\ Continues(r)
  BY <1>4, <1>5, <1>6 DEF Continues, BaseIs, Keeps
<1> QED
  BY <1>2, <1>3, <1>4, <1>7, <1>8, StepKeepsInv

\* A death freezes the turns: what had not been decided never is.
LEMMA RestartStep ==
    ASSUME TurnInv, Restart
    PROVE  TurnInv'
<1>1. PICK X : turns \in Seq(Loose(X))
  BY DEF TurnInv, Typed
<1>2. /\ rows' = rows
      /\ turns' = [t \in DOMAIN turns |->
                     IF turns[t].stage \in {"announced", "refused"} THEN turns[t]
                     ELSE [turns[t] EXCEPT !.stage = "dead"]]
  BY DEF Restart
<1>3. DOMAIN turns = 1 .. Len(turns) /\ Len(turns) \in Nat
  BY <1>1
<1>4. ASSUME NEW t \in DOMAIN turns
      PROVE  /\ turns'[t] \in Loose(X)
             /\ \/ turns'[t].stage = turns[t].stage /\ turns[t].stage \in {"announced", "refused"}
                \/ turns'[t].stage = "dead"
             /\ turns'[t].act = turns[t].act /\ turns'[t].branch = turns[t].branch
             /\ turns'[t].base = turns[t].base /\ turns'[t].row = turns[t].row
             /\ turns'[t].outcome = turns[t].outcome
             /\ turns'[t].verdict = turns[t].verdict
  <2>1. turns[t] \in Loose(X)
    BY <1>1
  <2> QED
    BY <1>2, <2>1 DEF Loose, Stages
<1>5. DOMAIN turns' = DOMAIN turns
  BY <1>2
<1>6. turns' \in Seq(Loose(X))
  BY <1>2, <1>3, <1>4
<1>7. Typed'
  BY <1>6 DEF Typed
<1>8. RowsTyped'
  BY <1>2, <1>5 DEF TurnInv, RowsTyped
<1>9. ASSUME NEW t \in DOMAIN turns
      PROVE  Follows(turns'[t]) /\ (Continues(turns[t]))'
  <2>1. Follows(turns[t]) /\ Continues(turns[t])
    BY DEF TurnInv
  <2>2. Follows(turns'[t])
    BY <1>4, <2>1 DEF Follows, Unread, Ended
  <2>3. (Continues(turns[t]))'
    BY <1>4, <1>5, <2>1 DEF Continues, BaseIs
  <2> QED
    BY <2>2, <2>3
<1> QED
  BY <1>5, <1>7, <1>8, <1>9 DEF TurnInv, Follows

\* No turn, nothing decided.
LEMMA TurnInvInit ==
    ASSUME Init
    PROVE  TurnInv
<1>1. turns = <<>> /\ rows = <<>>
  BY DEF Init
<1>2. turns \in Seq(Loose({})) /\ DOMAIN turns = {}
  BY <1>1
<1> QED
  BY <1>1, <1>2 DEF TurnInv, Typed, RowsTyped

\* Steps of the page alone keep what is said of turns.
LEMMA TurnInvUnchanged ==
    ASSUME TurnInv, UNCHANGED <<turns, rows>>
    PROVE  TurnInv'
BY DEF TurnInv, Typed, RowsTyped, Continues, BaseIs

\* The inductive step, one handler at a time.
LEMMA TurnInvStep ==
    ASSUME TurnInv, [Next]_vars
    PROVE  TurnInv'
<1>1. CASE UNCHANGED vars
  BY <1>1, TurnInvUnchanged DEF vars
<1>2. ASSUME NEW p \in Pages, User(p)
      PROVE  TurnInv'
  BY <1>2, PostStep
     DEF User, Send, Retry, Approve, Choose, Resend, Acts, Choices
<1>3. ASSUME NEW p \in Pages, Open(p)
      PROVE  TurnInv'
  BY <1>3, SubscribedStep DEF Open
<1>4. ASSUME NEW p \in Pages, Watch(p)
      PROVE  TurnInv'
  <2>1. CASE Connect(p)
    BY <2>1, SubscribedStep DEF Connect
  <2>2. CASE PostFails(p) \/ SeesCard(p) \/ SeesEnd(p) \/ LosesStream(p)
    BY <2>2, TurnInvUnchanged DEF PostFails, SeesCard, SeesEnd, LosesStream
  <2> QED
    BY <1>4, <2>1, <2>2 DEF Watch
<1>5. ASSUME NEW t \in DOMAIN turns, Serve(t)
      PROVE  TurnInv'
  BY <1>5, WriteUserMessageStep, CreateRunStep, ContinueStep, SkipsGatesStep,
     PlanStep, DraftEndsStep, SettleStep, StoreStep, AnnounceStep DEF Serve
<1> QED
  BY <1>1, <1>2, <1>3, <1>4, <1>5, RestartStep DEF Next

\* Whatever the number of pages, turns and faults: a contract is written only
\* for a choice the gates allow, of a plan that was shown of an idea that can
\* be launched, or as a change of a contract (the gates of codegen.ts and
\* makeContinuationAwareGenerator of chat-routes.ts).
THEOREM ContractsHaveGoAhead == Spec => []CodeHasGoAhead
<1>1. TurnInv => CodeHasGoAhead
  <2> SUFFICES ASSUME TurnInv, NEW t \in DOMAIN turns,
                      turns[t].outcome = "contract"
               PROVE  LET base == turns[t].base
                      IN CASE turns[t].branch = "approved" ->
                                /\ turns[base].outcome = "plan_pending"
                                /\ turns[base].verdict = "launch_ready_possible"
                           [] turns[t].branch = "refine" ->
                                turns[base].outcome = "contract"
                           [] OTHER -> /\ turns[t].act \in Choices
                                       /\ turns[t].verdict # "unsafe_or_unsupported"
    BY DEF CodeHasGoAhead
  <2>1. Follows(turns[t]) /\ Continues(turns[t])
    BY DEF TurnInv
  <2>2. CASE turns[t].branch = "approved"
    <3>1. turns[t].base \in DOMAIN turns /\ turns[turns[t].base].outcome = "plan_pending"
      BY <2>1, <2>2 DEF Continues, BaseIs
    <3>2. Follows(turns[turns[t].base])
      BY <3>1 DEF TurnInv
    <3> QED
      BY <2>2, <3>1, <3>2 DEF Follows
  <2>3. CASE turns[t].branch = "refine"
    BY <2>1, <2>3 DEF Continues, BaseIs
  <2>4. CASE turns[t].branch \notin {"approved", "refine"}
    BY <2>1, <2>4 DEF Follows
  <2> QED
    BY <2>2, <2>3, <2>4
<1> QED
  BY <1>1, TurnInvInit, TurnInvStep, PTL DEF Spec

-----------------------------------------------------------------------------
(* Types: what is read of a list is in it, and a page has read no more     *)
(* messages than there are.                                                *)

TurnsTyped == turns \in Seq(Turns)
MessagesTyped ==
    messages \in Seq([role : {"user", "assistant"}, turn : DOMAIN turns])
PagesTyped ==
    /\ page \in [Pages -> PageState]
    /\ \A p \in Pages : page[p].read =< Len(messages)
TypeInv ==
    TurnsTyped /\ RowsTyped /\ MessagesTyped /\ PagesTyped
      /\ faults \in 0 .. MaxFaults

\* A step of the server in turn t, which becomes r.
Moves(t, r) ==
    /\ turns' = [turns EXCEPT ![t] = r]
    /\ rows' = rows \/ rows' = Append(rows, t)
    /\ messages' \in {messages, Append(messages, Message("user", t)),
                      Append(messages, Message("assistant", t))}
    /\ page' = page /\ faults' \in 0 .. MaxFaults

\* Faults are counted.
LEMMA FaultsCounted ==
    ASSUME TypeInv, Fault \/ UNCHANGED faults
    PROVE  faults' \in 0 .. MaxFaults /\ (faults' = 0 => faults = 0 /\ UNCHANGED faults)
BY TurnsAssumption DEF TypeInv, Fault

\* The turns, by number.
LEMMA TurnsListed ==
    ASSUME TypeInv
    PROVE  /\ Len(turns) \in Nat /\ DOMAIN turns = 1 .. Len(turns)
           /\ \A t \in DOMAIN turns : turns[t] \in Turns /\ t \in Turn
           /\ Len(messages) \in Nat /\ DOMAIN messages = 1 .. Len(messages)
           /\ \A i \in DOMAIN messages : messages[i].turn \in DOMAIN turns
           /\ Len(rows) \in Nat /\ DOMAIN rows = 1 .. Len(rows)
           /\ \A i \in DOMAIN rows : rows[i] \in DOMAIN turns
<1>1. turns \in Seq(Turns) /\ Len(turns) \in Nat /\ DOMAIN turns = 1 .. Len(turns)
  BY DEF TypeInv, TurnsTyped
<1>2. \A t \in DOMAIN turns : turns[t] \in Turns /\ t \in Turn
  BY <1>1 DEF Turn
<1> DEFINE M == [role : {"user", "assistant"}, turn : DOMAIN turns]
<1>3. messages \in Seq(M)
  BY DEF TypeInv, MessagesTyped
<1>4. \A m \in M : m.turn \in DOMAIN turns
  OBVIOUS
<1> HIDE DEF M
<1>5. /\ Len(messages) \in Nat /\ DOMAIN messages = 1 .. Len(messages)
      /\ \A i \in DOMAIN messages : messages[i] \in M
  BY <1>3
<1>6. rows \in Seq(DOMAIN turns)
  BY DEF TypeInv, RowsTyped
<1>7. /\ Len(rows) \in Nat /\ DOMAIN rows = 1 .. Len(rows)
      /\ \A i \in DOMAIN rows : rows[i] \in DOMAIN turns
  BY <1>6
<1> QED
  BY <1>1, <1>2, <1>4, <1>5, <1>7

\* The fields of a turn.
LEMMA TurnFields ==
    ASSUME NEW r \in Turns
    PROVE  /\ r.text \in Turn /\ r.act \in Acts /\ r.after \in Nat
           /\ r.base \in Nat /\ r.brief \subseteq Turn
           /\ r.source \in {"none", "drafted", "kept"}
           /\ r.row \in {"none", "active", "completed", "failed"}
BY DEF Turns

\* A step of the server keeps the types.
LEMMA MoveTypes ==
    ASSUME TypeInv, NEW t \in DOMAIN turns, NEW r \in Turns, Moves(t, r)
    PROVE  TypeInv'
<1>1. turns \in Seq(Turns) /\ rows \in Seq(DOMAIN turns)
  BY DEF TypeInv, TurnsTyped, RowsTyped
<1>2. turns' \in Seq(Turns) /\ DOMAIN turns' = DOMAIN turns
  BY <1>1 DEF Moves
<1>3. rows' \in Seq(DOMAIN turns)
  <2> DEFINE D == DOMAIN turns
  <2>1. rows \in Seq(D) /\ t \in D
    BY <1>1
  <2> HIDE DEF D
  <2>2. Append(rows, t) \in Seq(D)
    BY <2>1
  <2>3. rows' \in Seq(D)
    BY <2>1, <2>2 DEF Moves
  <2> QED
    BY <2>3 DEF D
<1> DEFINE M == [role : {"user", "assistant"}, turn : DOMAIN turns]
<1>4. messages \in Seq(M)
  BY DEF TypeInv, MessagesTyped
<1>5. Message("user", t) \in M /\ Message("assistant", t) \in M
  BY DEF Message
<1>6. PICK m \in M : messages' = messages \/ messages' = Append(messages, m)
  BY <1>5 DEF Moves
<1> HIDE DEF M
<1>7. messages' \in Seq(M) /\ Len(messages) =< Len(messages') /\ Len(messages) \in Nat
      /\ Len(messages') \in Nat
  BY <1>4, <1>6
<1>8. TurnsTyped' /\ RowsTyped'
  BY <1>2, <1>3 DEF TurnsTyped, RowsTyped
<1>9. MessagesTyped'
  BY <1>2, <1>7 DEF MessagesTyped, M
<1>10. PagesTyped'
  <2>1. page' = page /\ page \in [Pages -> PageState]
    BY DEF Moves, TypeInv, PagesTyped
  <2>2. \A p \in Pages : page[p].read =< Len(messages) /\ page[p].read \in Nat
    <3>1. \A s \in PageState : s.read \in Nat
      BY DEF PageState
    <3>2. \A p \in Pages : page[p] \in PageState
      BY <2>1
    <3> QED
      BY <3>1, <3>2 DEF TypeInv, PagesTyped
  <2> QED
    BY <1>7, <2>1, <2>2 DEF PagesTyped
<1> QED
  BY <1>8, <1>9, <1>10 DEF TypeInv, Moves

\* A step of a page, which becomes s.
LEMMA PageTypes ==
    ASSUME TypeInv, NEW p \in Pages, NEW s \in PageState, s.read =< Len(messages),
           page' = [page EXCEPT ![p] = s],
           turns' \in Seq(Turns), DOMAIN turns \subseteq DOMAIN turns',
           UNCHANGED <<rows, messages>>, Fault \/ UNCHANGED faults
    PROVE  TypeInv'
<1>1. TurnsTyped'
  BY DEF TurnsTyped
<1>2. RowsTyped'
  BY SeqGrows DEF TypeInv, RowsTyped
<1>3. MessagesTyped'
  <2> DEFINE M == [role : {"user", "assistant"}, turn : DOMAIN turns]
             N == [role : {"user", "assistant"}, turn : DOMAIN turns']
  <2>1. M \subseteq N
    OBVIOUS
  <2>2. messages \in Seq(M)
    BY DEF TypeInv, MessagesTyped
  <2> HIDE DEF M, N
  <2>3. messages \in Seq(N)
    BY <2>1, <2>2, SeqGrows
  <2> QED
    BY <2>3 DEF MessagesTyped, N
<1>4. PagesTyped'
  BY DEF TypeInv, PagesTyped
<1> QED
  BY <1>1, <1>2, <1>3, <1>4, FaultsCounted DEF TypeInv

\* The first stream of a run changes its stage only.
LEMMA SubscribedTypes ==
    ASSUME TypeInv, NEW t, Subscribed(t)
    PROVE  turns' \in Seq(Turns) /\ DOMAIN turns' = DOMAIN turns
<1>1. turns \in Seq(Turns)
  BY DEF TypeInv, TurnsTyped
<1>2. CASE ~At(t, "registered")
  BY <1>1, <1>2 DEF Subscribed
<1>3. CASE At(t, "registered")
  <2> DEFINE r == [turns[t] EXCEPT !.stage = "started"]
  <2>1. t \in DOMAIN turns /\ turns' = [turns EXCEPT ![t] = r]
    BY <1>3 DEF Subscribed, At
  <2>2. turns[t] \in Turns
    BY <2>1, TurnsListed
  <2>3. r \in Turns
    BY <2>2 DEF Turns, Stages
  <2> HIDE DEF r
  <2> QED
    BY <1>1, <2>1, <2>3
<1> QED
  BY <1>2, <1>3

-----------------------------------------------------------------------------
(* What a page and a step of the server make of a turn.                    *)

\* A prompt that is sent again was typed for an earlier turn.
LEMMA PromptIsText ==
    ASSUME TypeInv, NEW p \in Pages, LastPrompt(p) # 0
    PROVE  LastPrompt(p) \in Turn
<1> DEFINE mine == {i \in Users(messages) : i =< page[p].read}
<1>1. LastPrompt(p) = IF mine = {} THEN 0
                      ELSE turns[messages[Latest(mine)].turn].text
  BY DEF LastPrompt
<1>2. mine \subseteq 1 .. Len(messages) /\ Len(messages) \in Nat
  BY TurnsListed DEF Users
<1> HIDE DEF mine
<1>3. Latest(mine) \in DOMAIN messages
  BY <1>1, <1>2, LatestIsFound, TurnsListed
<1>4. turns[messages[Latest(mine)].turn] \in Turns
  BY <1>3, TurnsListed
<1> QED
  BY <1>1, <1>4, TurnFields

\* The text a run reads is one that was typed.
LEMMA FirstTextIsText ==
    ASSUME TypeInv, NEW t \in DOMAIN turns, NEW msgs \in {messages, <<>>}
    PROVE  FirstText(msgs, t) \in Turn
<1>1. CASE Users(msgs) = {}
  BY <1>1, TurnsListed, TurnFields DEF FirstText
<1>2. CASE Users(msgs) # {}
  <2>1. msgs = messages
    BY <1>2 DEF Users
  <2>2. Users(messages) \subseteq Nat /\ Users(messages) \subseteq DOMAIN messages
    BY TurnsListed DEF Users
  <2>3. Earliest(Users(messages)) \in DOMAIN messages
    BY <1>2, <2>1, <2>2, EarliestIsFound
  <2>4. turns[messages[Earliest(Users(messages))].turn] \in Turns
    BY <2>3, TurnsListed
  <2> QED
    BY <1>2, <2>1, <2>4, TurnFields DEF FirstText
<1> QED
  BY <1>1, <1>2

\* An approved plan is made of texts that were typed.
LEMMA AgreedIsTexts ==
    ASSUME TypeInv, NEW msgs \in {messages, <<>>}
    PROVE  Agreed(msgs) \subseteq Turn
<1> DEFINE replies == {i \in 1 .. Len(msgs) - 1 :
                         msgs[i].role = "assistant" /\ turns[msgs[i].turn].replied}
<1>1. Agreed(msgs) = IF replies = {} THEN {}
                     ELSE turns[msgs[Latest(replies)].turn].brief
  BY DEF Agreed
<1>2. Len(msgs) \in Nat /\ (msgs = <<>> => Len(msgs) = 0)
  BY TurnsListed
<1>3. replies \subseteq 1 .. Len(msgs) /\ (msgs = <<>> => replies = {})
  BY <1>2
<1> HIDE DEF replies
<1>4. CASE replies # {}
  <2>1. msgs = messages /\ Latest(replies) \in DOMAIN messages
    BY <1>2, <1>3, <1>4, LatestIsFound, TurnsListed
  <2>2. turns[messages[Latest(replies)].turn] \in Turns
    BY <2>1, TurnsListed
  <2> QED
    BY <1>1, <1>4, <2>1, <2>2, TurnFields
<1> QED
  BY <1>1, <1>4

\* The model is given texts of the chat.
LEMMA BriefIsTexts ==
    ASSUME TypeInv, NEW t \in DOMAIN turns, NEW msgs \in {messages, <<>>},
           NEW branch \in Branches, NEW last \in Nat,
           branch \in {"approved", "refine"} => last \in DOMAIN turns
    PROVE  Brief(t, branch, last, msgs) \subseteq Turn
<1>1. turns[t].text \in Turn
  BY TurnsListed, TurnFields
<1>2. last \in DOMAIN turns => turns[last].brief \subseteq Turn
  BY TurnsListed, TurnFields
<1>3. {turns[msgs[i].turn].text : i \in Users(msgs)} \subseteq Turn
  <2> SUFFICES ASSUME NEW i \in Users(msgs)
               PROVE  turns[msgs[i].turn].text \in Turn
    OBVIOUS
  <2>1. msgs = messages /\ i \in DOMAIN messages
    BY DEF Users
  <2> QED
    BY <2>1, TurnsListed, TurnFields
<1>4. FirstText(msgs, t) \in Turn /\ Agreed(msgs) \subseteq Turn
  BY FirstTextIsText, AgreedIsTexts
<1>5. CASE branch = "fresh"
  BY <1>1, <1>5 DEF Brief
<1>6. CASE branch = "approved"
  BY <1>1, <1>2, <1>6 DEF Brief
<1>7. CASE branch = "refine"
  BY <1>1, <1>2, <1>3, <1>4, <1>7 DEF Brief
<1>8. CASE branch = "composed"
  BY <1>1, <1>4, <1>8 DEF Brief
<1> QED
  BY <1>5, <1>6, <1>7, <1>8 DEF Branches

\* What a turn of the chat keeps, and how its stage and its row go on.
Goes(t, r) ==
    /\ r.act = turns[t].act /\ r.after = turns[t].after
    /\ r.ended = turns[t].ended
    /\ turns[t].stage \notin {"refused", "announced", "dead"}
    /\ turns[t].stage = "posted" => r.stage \in {"asked", "refused"}
    /\ turns[t].stage = "asked" => r.stage = "refused" \/ r.row = "active"
    /\ turns[t].stage \in {"settled", "stored"} => r.stage \in {"stored", "announced"}
    /\ r.stage \notin {"posted", "dead"}
    /\ r.stage = "asked" => turns[t].stage = "posted" /\ rows' = rows
    /\ rows' = rows \/ (turns[t].stage = "asked" /\ r.row = "active")
    /\ \/ r.row = turns[t].row
       \/ turns[t].stage = "asked" /\ r.row = "active" /\ rows' = Append(rows, t)
       \/ /\ turns[t].stage = "decided" /\ r.stage \in {"settled", "stored"}
          /\ r.row \in {"active", "completed", "failed"}

\* Without faults the row tells how the run ended.
EndsAs(r) == IF r.outcome = "error" THEN "failed" ELSE "completed"
Tells(r) == r.stage \in {"settled", "stored", "announced"} => r.row = EndsAs(r)

\* Without faults a turn continues the last completed run.
Looks(t, r) ==
    \/ r.branch = turns[t].branch /\ r.base = turns[t].base
    \/ rows' = rows /\ (r.act \notin Choices => r.base = LastCompleted(rows))

\* A step of the server, in short.
Serves(t, r) ==
    /\ Moves(t, r) /\ Goes(t, r)
    /\ faults' = 0 => /\ faults = 0 /\ (Tells(turns[t]) => Tells(r))
                      /\ Looks(t, r)

\* Writing the message is a step of Serves.
LEMMA WriteUserMessageServes ==
    ASSUME TypeInv, NEW t \in DOMAIN turns, WriteUserMessage(t)
    PROVE  \E r \in Turns : Serves(t, r)
<1>1. PICK s \in {"asked", "refused"} : turns' = [turns EXCEPT ![t].stage = s]
  BY DEF WriteUserMessage
<1> DEFINE r == [turns[t] EXCEPT !.stage = s]
<1>2. turns' = [turns EXCEPT ![t] = r]
  BY <1>1
<1>3. turns[t] \in Turns
  BY TurnsListed
<1>4. /\ r \in Turns /\ r.stage = s /\ r.row = turns[t].row
      /\ r.act = turns[t].act /\ r.after = turns[t].after
      /\ r.ended = turns[t].ended /\ r.branch = turns[t].branch
      /\ r.base = turns[t].base
  BY <1>3 DEF Turns, Stages
<1>5. Fault \/ UNCHANGED faults
  BY DEF WriteUserMessage
<1> HIDE DEF r
<1>6. Moves(t, r)
  BY <1>2, <1>5, FaultsCounted DEF Moves, WriteUserMessage
<1>7. turns[t].stage = "posted" /\ rows' = rows
  BY DEF WriteUserMessage, At
<1> QED
  BY <1>4, <1>5, <1>6, <1>7, FaultsCounted DEF Serves, Goes, Tells, Looks

\* Creating the run is a step of Serves.
LEMMA CreateRunServes ==
    ASSUME TypeInv, NEW t \in DOMAIN turns, CreateRun(t)
    PROVE  \E r \in Turns : Serves(t, r)
<1>1. turns[t] \in Turns
  BY TurnsListed
<1>2. turns[t].stage = "asked" /\ page' = page /\ (Fault \/ UNCHANGED faults)
  BY DEF CreateRun, At
<1>3. messages' \in {messages, Append(messages, Message("assistant", t))}
  BY DEF CreateRun
<1>4. CASE turns' = [turns EXCEPT ![t].stage = "refused"] /\ rows' = rows
  <2> DEFINE r == [turns[t] EXCEPT !.stage = "refused"]
  <2>1. turns' = [turns EXCEPT ![t] = r]
    BY <1>4
  <2>2. /\ r \in Turns /\ r.stage = "refused" /\ r.row = turns[t].row
        /\ r.act = turns[t].act /\ r.after = turns[t].after
        /\ r.ended = turns[t].ended /\ r.branch = turns[t].branch
        /\ r.base = turns[t].base
    BY <1>1 DEF Turns, Stages
  <2> HIDE DEF r
  <2>3. Moves(t, r)
    BY <1>2, <1>3, <1>4, <2>1, FaultsCounted DEF Moves
  <2> QED
    BY <1>2, <1>4, <2>2, <2>3, FaultsCounted DEF Serves, Goes, Tells, Looks
<1>5. ASSUME NEW s \in {"registered", "refused"},
             turns' = [turns EXCEPT ![t].stage = s, ![t].row = "active"],
             rows' = Append(rows, t)
      PROVE  \E r \in Turns : Serves(t, r)
  <2> DEFINE r == [turns[t] EXCEPT !.stage = s, !.row = "active"]
  <2>1. turns' = [turns EXCEPT ![t] = r]
    BY <1>5
  <2>2. /\ r \in Turns /\ r.stage = s /\ r.row = "active"
        /\ r.act = turns[t].act /\ r.after = turns[t].after
        /\ r.ended = turns[t].ended /\ r.branch = turns[t].branch
        /\ r.base = turns[t].base
    BY ZenonT(40), <1>1 DEF Turns, Stages
  <2> HIDE DEF r
  <2>3. Moves(t, r)
    BY <1>2, <1>3, <1>5, <2>1, FaultsCounted DEF Moves
  <2> QED
    BY <1>2, <1>5, <2>2, <2>3, FaultsCounted DEF Serves, Goes, Tells, Looks
<1> QED
  BY <1>4, <1>5 DEF CreateRun

\* Settling the row is a step of Serves.
LEMMA SettleServes ==
    ASSUME TypeInv, NEW t \in DOMAIN turns, Settle(t)
    PROVE  \E r \in Turns : Serves(t, r)
<1>1. turns[t] \in Turns
  BY TurnsListed
<1>2. /\ turns[t].stage = "decided" /\ UNCHANGED <<rows, messages, page>>
      /\ Fault \/ UNCHANGED faults
  BY DEF Settle, At
<1>3. PICK s \in {"settled", "stored"}, w \in {"active", "completed", "failed"} :
         /\ turns' = [turns EXCEPT ![t].stage = s, ![t].row = w]
         /\ UNCHANGED faults => w = Settled(t)
  <2>1. Fault => faults' # faults
    BY DEF Fault, TypeInv
  <2> QED
    BY <2>1 DEF Settle, Settled
<1> DEFINE r == [turns[t] EXCEPT !.stage = s, !.row = w]
<1>4. turns' = [turns EXCEPT ![t] = r]
  BY <1>3
<1>5. /\ r \in Turns /\ r.stage = s /\ r.row = w
      /\ r.act = turns[t].act /\ r.after = turns[t].after
      /\ r.ended = turns[t].ended /\ r.branch = turns[t].branch
      /\ r.base = turns[t].base /\ r.outcome = turns[t].outcome
  BY ZenonT(40), <1>1 DEF Turns, Stages
<1> HIDE DEF r
<1>6. Moves(t, r)
  BY <1>2, <1>4, FaultsCounted DEF Moves
<1>7. faults' = 0 => Tells(r)
  BY <1>2, <1>3, <1>5, FaultsCounted DEF Tells, EndsAs, Settled
<1> QED
  BY <1>2, <1>5, <1>6, <1>7, FaultsCounted DEF Serves, Goes, Looks

\* Storing reply and artifact is a step of Serves.
LEMMA StoreServes ==
    ASSUME TypeInv, NEW t \in DOMAIN turns, Store(t)
    PROVE  \E r \in Turns : Serves(t, r)
<1>1. turns[t] \in Turns /\ turns[t].source \in {"none", "drafted", "kept"}
  BY TurnsListed, TurnFields
<1>2. /\ turns[t].stage = "settled" /\ UNCHANGED <<rows, messages, page>>
      /\ Fault \/ UNCHANGED faults
  BY DEF Store, At
<1>3. PICK a \in BOOLEAN, b \in {"none", "drafted", "kept"} :
         turns' = [turns EXCEPT ![t].stage = "stored", ![t].replied = a,
                                ![t].source = b]
  <2>1. CASE turns' = [turns EXCEPT ![t].stage = "stored", ![t].replied = TRUE,
                         ![t].source = IF @ = "drafted" THEN "kept" ELSE @]
    BY <2>1, <1>1
  <2>2. CASE \E replied \in BOOLEAN :
               turns' = [turns EXCEPT ![t].stage = "stored",
                                      ![t].replied = replied, ![t].source = "none"]
    BY <2>2
  <2> QED
    BY <2>1, <2>2 DEF Store
<1> DEFINE r == [turns[t] EXCEPT !.stage = "stored", !.replied = a, !.source = b]
<1>4. turns' = [turns EXCEPT ![t] = r]
  BY <1>3
<1>5. /\ r \in Turns /\ r.stage = "stored" /\ r.row = turns[t].row
      /\ r.act = turns[t].act /\ r.after = turns[t].after
      /\ r.ended = turns[t].ended /\ r.branch = turns[t].branch
      /\ r.base = turns[t].base /\ r.outcome = turns[t].outcome
  BY ZenonT(40), <1>1 DEF Turns, Stages
<1> HIDE DEF r
<1>6. Moves(t, r)
  BY <1>2, <1>4, FaultsCounted DEF Moves
<1> QED
  BY <1>2, <1>5, <1>6, FaultsCounted DEF Serves, Goes, Tells, Looks, EndsAs

\* Announcing the end is a step of Serves.
LEMMA AnnounceServes ==
    ASSUME TypeInv, NEW t \in DOMAIN turns, Announce(t)
    PROVE  \E r \in Turns : Serves(t, r)
<1>1. turns[t] \in Turns
  BY TurnsListed
<1>2. turns[t].stage = "stored" /\ UNCHANGED <<rows, messages, page, faults>>
  BY DEF Announce, At
<1> DEFINE r == [turns[t] EXCEPT !.stage = "announced"]
<1>3. turns' = [turns EXCEPT ![t] = r]
  BY DEF Announce
<1>4. /\ r \in Turns /\ r.stage = "announced" /\ r.row = turns[t].row
      /\ r.act = turns[t].act /\ r.after = turns[t].after
      /\ r.ended = turns[t].ended /\ r.branch = turns[t].branch
      /\ r.base = turns[t].base /\ r.outcome = turns[t].outcome
  BY <1>1 DEF Turns, Stages
<1> HIDE DEF r
<1>5. Moves(t, r)
  BY <1>2, <1>3, FaultsCounted DEF Moves
<1> QED
  BY <1>2, <1>4, <1>5, FaultsCounted DEF Serves, Goes, Tells, Looks, EndsAs

\* Reading what the turn continues is a step of Serves: it takes the last
\* completed row.
LEMMA ContinueServes ==
    ASSUME TypeInv, NEW t \in DOMAIN turns, Continue(t)
    PROVE  \E r \in Turns : Serves(t, r)
<1>1. turns[t] \in Turns
  BY TurnsListed
<1>2. /\ turns[t].stage = "started" /\ UNCHANGED <<rows, messages, page>>
      /\ Fault \/ UNCHANGED faults
  BY DEF Continue, At
<1>3. PICK msgs \in {messages, <<>>}, rs \in {rows, <<>>}, artifacts \in BOOLEAN :
         /\ turns' = Continued(t, msgs, rs, artifacts)
         /\ UNCHANGED faults => rs = rows
  <2>1. Fault => faults' # faults
    BY DEF Fault, TypeInv
  <2> QED
    BY <2>1 DEF Continue
<1> DEFINE last == IF turns[t].act \in Choices THEN 0 ELSE LastCompleted(rs)
           branch == Branch(t, last, artifacts)
           brief == Brief(t, branch, last, msgs)
           r == [turns[t] EXCEPT !.stage = "continued", !.base = last,
                                 !.branch = branch, !.brief = brief]
<1>4. last = 0 \/ last \in DOMAIN turns
  <2>1. rs \in Seq(DOMAIN turns) /\ 0 \notin DOMAIN turns
    <3>1. rows \in Seq(DOMAIN turns)
      BY DEF TypeInv, RowsTyped
    <3>2. DOMAIN turns = 1 .. Len(turns)
      BY TurnsListed
    <3>3. rs = <<>> => rs \in Seq(DOMAIN turns)
      OBVIOUS
    <3>4. rs = rows \/ rs = <<>>
      OBVIOUS
    <3> QED
      BY <3>1, <3>2, <3>3, <3>4
  <2>2. Completed(rs) # {} /\ last # 0 => last \in DOMAIN turns
    BY <2>1, LastIsCompleted DEF Completed
  <2>3. Completed(rs) = {} => last = 0
    BY <2>1, LastIsCompleted
  <2> QED
    BY <2>2, <2>3
<1>5. /\ branch \in Branches
      /\ branch \in {"approved", "refine"} => last # 0
  <2> HIDE DEF last
  <2>1. CASE turns[t].act \in Choices
    BY <2>1 DEF Branch, Branches, PlanApproved
  <2>2. CASE turns[t].act \notin Choices /\ PlanApproved(t, last)
    BY <2>2 DEF Branch, Branches, PlanApproved
  <2>3. CASE turns[t].act \notin Choices /\ ~PlanApproved(t, last) /\ last = 0
    BY <2>3 DEF Branch, Branches
  <2>4. CASE turns[t].act \notin Choices /\ ~PlanApproved(t, last) /\ last # 0
    BY <2>4 DEF Branch, Branches
  <2> QED
    BY <2>1, <2>2, <2>3, <2>4
<1>6. turns' = [turns EXCEPT ![t] = r]
  BY <1>3 DEF Continued
<1>7. rs = rows => (turns[t].act \notin Choices => last = LastCompleted(rows))
  OBVIOUS
<1> HIDE DEF last
<1>8. last \in Nat /\ (branch \in {"approved", "refine"} => last \in DOMAIN turns)
  BY <1>4, <1>5, TurnsListed
<1> HIDE DEF branch
<1>9. brief \subseteq Turn
  BY <1>5, <1>8, BriefIsTexts
<1> HIDE DEF brief
<1>10. /\ r \in Turns /\ r.stage = "continued" /\ r.row = turns[t].row
       /\ r.act = turns[t].act /\ r.after = turns[t].after
       /\ r.ended = turns[t].ended /\ r.base = last
  BY <1>1, <1>5, <1>8, <1>9 DEF Turns, Stages
<1> HIDE DEF r
<1>11. Moves(t, r)
  BY <1>2, <1>6, FaultsCounted DEF Moves
<1>12. faults' = 0 => rs = rows
  BY <1>2, <1>3, FaultsCounted
<1> QED
  BY <1>2, <1>7, <1>10, <1>11, <1>12, FaultsCounted
     DEF Serves, Goes, Tells, Looks

\* Going on to the draft is a step of Serves.
LEMMA SkipsGatesServes ==
    ASSUME TypeInv, NEW t \in DOMAIN turns, SkipsGates(t)
    PROVE  \E r \in Turns : Serves(t, r)
<1>1. turns[t] \in Turns
  BY TurnsListed
<1>2. turns[t].stage = "continued" /\ UNCHANGED <<rows, messages, page, faults>>
  BY DEF SkipsGates, At
<1> DEFINE r == [turns[t] EXCEPT !.stage = "drafting"]
<1>3. turns' = [turns EXCEPT ![t] = r]
  BY DEF SkipsGates
<1>4. /\ r \in Turns /\ r.stage = "drafting" /\ r.row = turns[t].row
      /\ r.act = turns[t].act /\ r.after = turns[t].after
      /\ r.ended = turns[t].ended /\ r.branch = turns[t].branch
      /\ r.base = turns[t].base
  BY <1>1 DEF Turns, Stages
<1> HIDE DEF r
<1>5. Moves(t, r)
  BY <1>2, <1>3, FaultsCounted DEF Moves
<1> QED
  BY <1>2, <1>4, <1>5, FaultsCounted DEF Serves, Goes, Tells, Looks

\* The answer of the gates is a step of Serves.
LEMMA PlanServes ==
    ASSUME TypeInv, NEW t \in DOMAIN turns, NEW verdict \in Verdicts,
           NEW critical \in BOOLEAN, Plan(t, verdict, critical)
    PROVE  \E r \in Turns : Serves(t, r)
<1>1. turns[t] \in Turns /\ turns[t].act \in Acts
  BY TurnsListed, TurnFields
<1>2. turns[t].stage = "continued" /\ UNCHANGED <<rows, messages, page, faults>>
  BY DEF Plan, At
<1> DEFINE stop == Stop(verdict, critical, turns[t].act)
           r == IF stop = "none"
                  THEN [turns[t] EXCEPT !.stage = "drafting", !.verdict = verdict]
                  ELSE [turns[t] EXCEPT !.stage = "decided", !.outcome = stop,
                                        !.source = "none", !.verdict = verdict]
<1>3. turns' = [turns EXCEPT ![t] = r]
  <2>1. CASE stop = "none"
    BY <2>1 DEF Plan
  <2>2. CASE stop # "none"
    BY <2>2 DEF Plan, Decide
  <2> QED
    BY <2>1, <2>2
<1>4. stop \in Stops \union {"none"}
  BY <1>1, GatesDecide
<1> HIDE DEF stop
<1>5. /\ r \in Turns /\ r.stage \in {"drafting", "decided"}
      /\ r.row = turns[t].row
      /\ r.act = turns[t].act /\ r.after = turns[t].after
      /\ r.ended = turns[t].ended /\ r.branch = turns[t].branch
      /\ r.base = turns[t].base
  BY ZenonT(40), <1>1, <1>4 DEF Turns, Stages
<1> HIDE DEF r
<1>6. Moves(t, r)
  BY <1>2, <1>3, FaultsCounted DEF Moves
<1> QED
  BY <1>2, <1>5, <1>6, FaultsCounted DEF Serves, Goes, Tells, Looks

\* The end of a draft is a step of Serves.
LEMMA DraftEndsServes ==
    ASSUME TypeInv, NEW t \in DOMAIN turns, NEW source \in {"none", "drafted"},
           Draft(t, source) \/ Fails(t)
    PROVE  \E r \in Turns : Serves(t, r)
<1>1. turns[t] \in Turns
  BY TurnsListed
<1>2. PICK o \in {"contract", "error"}, c \in {"none", "drafted"} :
         /\ turns' = Decide(t, o, c)
         /\ turns[t].stage \in {"continued", "drafting"}
         /\ UNCHANGED <<rows, messages, page, faults>>
  BY DEF Draft, Fails, At
<1> DEFINE r == [turns[t] EXCEPT !.stage = "decided", !.outcome = o, !.source = c]
<1>3. turns' = [turns EXCEPT ![t] = r]
  BY <1>2 DEF Decide
<1>4. /\ r \in Turns /\ r.stage = "decided" /\ r.row = turns[t].row
      /\ r.act = turns[t].act /\ r.after = turns[t].after
      /\ r.ended = turns[t].ended /\ r.branch = turns[t].branch
      /\ r.base = turns[t].base
  BY ZenonT(40), <1>1 DEF Turns, Stages
<1> HIDE DEF r
<1>5. Moves(t, r)
  BY <1>2, <1>3, FaultsCounted DEF Moves
<1> QED
  BY <1>2, <1>4, <1>5, FaultsCounted DEF Serves, Goes, Tells, Looks

\* Every step of the server goes on with its own turn.
LEMMA ServeServes ==
    ASSUME TypeInv, NEW t \in DOMAIN turns, Serve(t)
    PROVE  \E r \in Turns : Serves(t, r)
BY WriteUserMessageServes, CreateRunServes, ContinueServes, SkipsGatesServes,
   PlanServes, DraftEndsServes, SettleServes, StoreServes, AnnounceServes
   DEF Serve

-----------------------------------------------------------------------------
(* Which rows there are, and what they and the pages tell of an end.       *)

IsDone(t) == t \in DOMAIN turns /\ turns[t].row = "completed"

RowsInv ==
    /\ \A i, j \in DOMAIN rows : rows[i] = rows[j] => i = j
    /\ \A i \in DOMAIN rows : turns[rows[i]].stage \notin {"posted", "asked"}
    /\ \A t \in DOMAIN turns :
         /\ turns[t].row # "none" => \E i \in DOMAIN rows : rows[i] = t
         /\ turns[t].row \in {"completed", "failed"} =>
              turns[t].stage \in {"settled", "stored", "announced", "dead"}
         /\ turns[t].row = "none" =>
              turns[t].stage \in {"posted", "asked", "refused", "dead"}

\* The run that r continues has a row no older than the one it was posted
\* after.
ContinuesLater(r) ==
    \E i, j \in DOMAIN rows : rows[i] = r.base /\ rows[j] = r.after /\ j =< i

ShownInv ==
    /\ \A t \in DOMAIN turns : Tells(turns[t])
    /\ \A p \in Pages : "end" \in page[p].shows => IsDone(page[p].run)
    /\ \A t \in DOMAIN turns :
         turns[t].ended =>
           /\ IsDone(turns[t].after)
           /\ turns[t].branch # "none" /\ turns[t].act \notin Choices =>
                ContinuesLater(turns[t])

ChatInv ==
    TypeInv /\ RowsInv /\ (faults = 0 => ShownInv)

\* A row is written once, and settled once.
LEMMA ServeRows ==
    ASSUME TypeInv, RowsInv, NEW t \in DOMAIN turns, NEW r \in Turns, Serves(t, r)
    PROVE  RowsInv' /\ (\A u : IsDone(u) => IsDone(u)')
<1>1. /\ DOMAIN turns' = DOMAIN turns /\ turns'[t] = r
      /\ \A u \in DOMAIN turns : u # t => turns'[u] = turns[u]
  BY TurnsListed DEF Serves, Moves
<1>2. turns[t].stage \in {"posted", "asked", "decided"} =>
         turns[t].row # "completed"
  BY DEF RowsInv
<1>3. \A u : IsDone(u) => IsDone(u)'
  BY <1>1, <1>2 DEF IsDone, Serves, Goes
<1>4. CASE rows' = rows
  <2>1. \A i \in DOMAIN rows : turns'[rows[i]].stage \notin {"posted", "asked"}
    BY ZenonT(40), <1>1, <1>4, TurnsListed DEF RowsInv, Serves, Goes
  <2>2. r.row # "none" => \E i \in DOMAIN rows : rows[i] = t
    <3>1. rows # Append(rows, t)
      <4>1. rows \in Seq(DOMAIN turns)
        BY DEF TypeInv, RowsTyped
      <4> QED
        BY <4>1
    <3>2. turns[t].stage = "decided" => turns[t].row # "none"
      BY DEF RowsInv
    <3> QED
      BY <1>4, <3>1, <3>2 DEF RowsInv, Serves, Goes
  <2>3. r.row \in {"completed", "failed"} =>
          r.stage \in {"settled", "stored", "announced", "dead"}
    BY DEF RowsInv, Serves, Goes
  <2>4. r.row = "none" => r.stage \in {"posted", "asked", "refused", "dead"}
    BY DEF RowsInv, Serves, Goes
  <2>5. \A u \in DOMAIN turns' :
          /\ turns'[u].row # "none" => \E i \in DOMAIN rows : rows[i] = u
          /\ turns'[u].row \in {"completed", "failed"} =>
               turns'[u].stage \in {"settled", "stored", "announced", "dead"}
          /\ turns'[u].row = "none" =>
               turns'[u].stage \in {"posted", "asked", "refused", "dead"}
    BY <1>1, <2>2, <2>3, <2>4 DEF RowsInv
  <2> QED
    BY <1>3, <1>4, <2>1, <2>5 DEF RowsInv
<1>5. CASE rows' # rows
  <2>1. /\ rows' = Append(rows, t) /\ turns[t].stage = "asked"
        /\ r.row = "active" /\ r.stage \notin {"posted", "asked"}
    BY <1>5 DEF Serves, Moves, Goes
  <2>2. rows \in Seq(DOMAIN turns)
    BY DEF TypeInv, RowsTyped
  <2>3. /\ DOMAIN rows' = 1 .. Len(rows) + 1 /\ DOMAIN rows = 1 .. Len(rows)
        /\ Len(rows) \in Nat
        /\ \A i \in DOMAIN rows : rows'[i] = rows[i]
        /\ rows'[Len(rows) + 1] = t
    BY <2>1, <2>2
  <2>4. \A i \in DOMAIN rows : rows[i] # t
    BY <2>1 DEF RowsInv
  <2>5. \A i, j \in DOMAIN rows' : rows'[i] = rows'[j] => i = j
    BY <2>3, <2>4 DEF RowsInv
  <2>6. \A i \in DOMAIN rows' : turns'[rows'[i]].stage \notin {"posted", "asked"}
    BY <1>1, <2>1, <2>3, <2>4, TurnsListed DEF RowsInv
  <2>7. \A u \in DOMAIN turns' :
          /\ turns'[u].row # "none" => \E i \in DOMAIN rows' : rows'[i] = u
          /\ turns'[u].row \in {"completed", "failed"} =>
               turns'[u].stage \in {"settled", "stored", "announced", "dead"}
          /\ turns'[u].row = "none" =>
               turns'[u].stage \in {"posted", "asked", "refused", "dead"}
    <3> SUFFICES ASSUME NEW u \in DOMAIN turns'
                 PROVE  /\ turns'[u].row # "none" => \E i \in DOMAIN rows' : rows'[i] = u
                        /\ turns'[u].row \in {"completed", "failed"} =>
                             turns'[u].stage \in {"settled", "stored", "announced", "dead"}
                        /\ turns'[u].row = "none" =>
                             turns'[u].stage \in {"posted", "asked", "refused", "dead"}
      OBVIOUS
    <3>1. CASE u = t
      BY <1>1, <2>1, <2>3, <3>1
    <3>2. CASE u # t
      <4>1. turns'[u] = turns[u] /\ u \in DOMAIN turns
        BY <1>1, <3>2
      <4>2. turns[u].row # "none" => \E i \in DOMAIN rows' : rows'[i] = u
        BY <2>3, <4>1 DEF RowsInv
      <4> QED
        BY <4>1, <4>2 DEF RowsInv
    <3> QED
      BY <3>1, <3>2
  <2> QED
    BY <1>3, <2>5, <2>6, <2>7 DEF RowsInv
<1> QED
  BY <1>4, <1>5

\* The last completed run is no older than any completed one.
LEMMA LastIsLater ==
    ASSUME TypeInv, RowsInv, NEW r, IsDone(r.after), r.base = LastCompleted(rows)
    PROVE  ContinuesLater(r)
<1>1. r.after \in DOMAIN turns /\ turns[r.after].row = "completed"
  BY DEF IsDone
<1>2. PICK j \in DOMAIN rows : rows[j] = r.after
  BY <1>1 DEF RowsInv
<1>3. j \in Completed(rows)
  BY <1>1, <1>2 DEF Completed
<1>4. rows \in Seq(DOMAIN turns) /\ 0 \notin DOMAIN turns
  BY TurnsListed DEF TypeInv, RowsTyped
<1>5. PICK i \in Completed(rows) : rows[i] = LastCompleted(rows) /\ j =< i
  BY <1>3, <1>4, LastIsCompleted
<1>6. i \in DOMAIN rows
  BY DEF Completed
<1> QED
  BY <1>2, <1>5, <1>6 DEF ContinuesLater

\* A step of the server tells the end as it is, and continues the last run.
LEMMA ServeShown ==
    ASSUME TypeInv, RowsInv, ShownInv, NEW t \in DOMAIN turns, NEW r \in Turns,
           Serves(t, r), faults' = 0
    PROVE  ShownInv'
<1>1. /\ DOMAIN turns' = DOMAIN turns /\ turns'[t] = r
      /\ \A u \in DOMAIN turns : u # t => turns'[u] = turns[u]
      /\ page' = page /\ (rows' = rows \/ rows' = Append(rows, t))
  BY TurnsListed DEF Serves, Moves
<1>2. \A u : IsDone(u) => IsDone(u)'
  BY ServeRows
<1>3. Tells(r) /\ Looks(t, r) /\ Goes(t, r)
  BY DEF Serves, ShownInv
<1>4. ASSUME NEW u \in DOMAIN turns
      PROVE  Tells(turns'[u])
  BY <1>1, <1>3 DEF ShownInv
<1>5. ASSUME NEW p \in Pages, "end" \in page'[p].shows
      PROVE  IsDone(page[p].run)'
  BY <1>1, <1>2, <1>5 DEF ShownInv, IsDone
<1>6. ASSUME NEW u \in DOMAIN turns, turns'[u].ended
      PROVE  /\ IsDone(turns[u].after)'
             /\ turns'[u].branch # "none" /\ turns'[u].act \notin Choices =>
                  ContinuesLater(turns[u])'
  <2>1. turns[u].ended /\ turns'[u].after = turns[u].after
        /\ turns'[u].act = turns[u].act
    BY <1>1, <1>3, <1>6 DEF Goes
  <2>2. IsDone(turns[u].after)
    BY <2>1 DEF ShownInv
  <2>3. IsDone(turns[u].after)'
    BY <1>1, <1>2, <2>1, <2>2 DEF IsDone
  <2>4. ASSUME turns'[u].branch # "none", turns'[u].act \notin Choices
        PROVE  ContinuesLater(turns[u])'
    <3>1. CASE turns'[u].branch = turns[u].branch /\ turns'[u].base = turns[u].base
      <4>1. ContinuesLater(turns[u])
        BY <2>1, <2>4, <3>1 DEF ShownInv
      <4>2. ContinuesLater(turns'[u])
        BY <2>1, <3>1, <4>1 DEF ContinuesLater
      <4> DEFINE s == turns'[u]
      <4>3. PICK i \in DOMAIN rows, j \in DOMAIN rows :
              rows[i] = s.base /\ rows[j] = s.after /\ j =< i
        BY <4>2 DEF ContinuesLater
      <4>4. rows \in Seq(DOMAIN turns)
        BY DEF TypeInv, RowsTyped
      <4>5. /\ i \in DOMAIN rows' /\ j \in DOMAIN rows'
            /\ rows'[i] = rows[i] /\ rows'[j] = rows[j]
        BY <1>1, <4>4
      <4> QED
        BY <4>3, <4>5 DEF ContinuesLater
    <3>2. CASE u = t /\ rows' = rows
                 /\ (r.act \notin Choices => r.base = LastCompleted(rows))
      <4>1. r.base = LastCompleted(rows) /\ IsDone(r.after)
        BY <1>1, <2>1, <2>2, <2>4, <3>2
      <4>2. ContinuesLater(r)
        BY <4>1, LastIsLater
      <4> QED
        BY <1>1, <3>2, <4>2 DEF ContinuesLater
    <3> QED
      BY <1>1, <1>3, <3>1, <3>2 DEF Looks
  <2> QED
    BY <2>3, <2>4 DEF IsDone
<1>7. \A u \in DOMAIN turns' : Tells(turns[u])'
  BY <1>1, <1>4 DEF Tells, EndsAs
<1> QED
  BY <1>1, <1>5, <1>6, <1>7 DEF ShownInv

\* Every step of the server keeps the invariant: what Serves says is all
\* that matters.
LEMMA ServeChat ==
    ASSUME ChatInv, NEW t \in DOMAIN turns, Serve(t)
    PROVE  ChatInv'
<1>1. PICK r \in Turns : Serves(t, r)
  BY ServeServes DEF ChatInv
<1>2. TypeInv' /\ RowsInv'
  BY <1>1, MoveTypes, ServeRows DEF ChatInv, Serves
<1>3. faults' = 0 => ShownInv'
  BY <1>1, ServeShown DEF ChatInv, Serves
<1> QED
  BY <1>2, <1>3 DEF ChatInv

\* A page sends: what it shows of an end is remembered with the turn.
LEMMA PostChat ==
    ASSUME ChatInv, NEW p \in Pages, NEW act \in Acts, NEW text \in Turn,
           Post(p, act, text)
    PROVE  ChatInv'
<1> DEFINE n == Len(turns) + 1
           r == NewTurn(p, act, text)
           s == [page[p] EXCEPT !.sending = n, !.shows = @ \ {"error"}]
<1> USE DEF ChatInv
<1>1. page \in [Pages -> PageState] /\ page[p] \in PageState
      /\ page[p].read =< Len(messages)
  BY DEF TypeInv, PagesTyped
<1>2. page[p].run \in Nat
  BY <1>1 DEF PageState
<1>3. /\ r \in Turns /\ r.ended = ("end" \in page[p].shows)
      /\ r.after = page[p].run /\ r.branch = "none" /\ r.row = "none"
      /\ r.stage = "posted"
  BY <1>2 DEF NewTurn, Turns, Stages
<1> HIDE DEF r
<1>4. turns' = Append(turns, r) /\ UNCHANGED <<rows, messages, faults>>
  BY DEF Post, r
<1>5. turns \in Seq(Turns) /\ DOMAIN turns = 1 .. Len(turns) /\ Len(turns) \in Nat
  BY TurnsListed DEF TypeInv, TurnsTyped
<1>6. /\ turns' \in Seq(Turns) /\ Len(turns') = n
      /\ DOMAIN turns' = 1 .. n /\ turns'[n] = r
      /\ \A t \in DOMAIN turns : turns'[t] = turns[t]
      /\ DOMAIN turns \subseteq DOMAIN turns'
      /\ \A t \in DOMAIN turns' : t \in DOMAIN turns \/ t = n
  BY <1>3, <1>4, <1>5
<1>7. page' = [page EXCEPT ![p] = s]
  BY <1>1, <1>6 DEF Post
<1>8. /\ s \in PageState /\ s.read = page[p].read /\ s.run = page[p].run
      /\ s.shows \subseteq page[p].shows
  <2>1. n \in Nat
    BY <1>5
  <2> HIDE DEF n
  <2>2. page[p].shows \ {"error"} \subseteq page[p].shows
    OBVIOUS
  <2>3. s = [page[p] EXCEPT !.sending = n, !.shows = page[p].shows \ {"error"}]
    BY <1>1 DEF PageState
  <2> HIDE DEF s
  <2> QED
    BY <1>1, <2>1, <2>2, <2>3 DEF PageState
<1> HIDE DEF s, n
<1>9. TypeInv'
  BY <1>1, <1>4, <1>6, <1>7, <1>8, PageTypes
<1>10. \A i \in DOMAIN rows : rows[i] \in DOMAIN turns
  BY TurnsListed
<1>11. RowsInv'
  <2>1. \A i, j \in DOMAIN rows' : rows'[i] = rows'[j] => i = j
    BY <1>4 DEF RowsInv
  <2>2. \A i \in DOMAIN rows' : turns'[rows'[i]].stage \notin {"posted", "asked"}
    BY <1>4, <1>6, <1>10 DEF RowsInv
  <2>3. \A t \in DOMAIN turns' :
          /\ turns'[t].row # "none" => \E i \in DOMAIN rows' : rows'[i] = t
          /\ turns'[t].row \in {"completed", "failed"} =>
               turns'[t].stage \in {"settled", "stored", "announced", "dead"}
          /\ turns'[t].row = "none" =>
               turns'[t].stage \in {"posted", "asked", "refused", "dead"}
    BY <1>3, <1>4, <1>6 DEF RowsInv
  <2> QED
    BY <2>1, <2>2, <2>3 DEF RowsInv
<1>12. ASSUME faults' = 0
       PROVE  ShownInv'
  <2>1. ShownInv
    BY <1>4, <1>12
  <2>2. \A u : IsDone(u) => IsDone(u)'
    BY <1>6 DEF IsDone
  <2>3. ASSUME NEW q \in Pages, "end" \in page'[q].shows
        PROVE  IsDone(page[q].run)'
    <3>1. page'[q].run = page[q].run /\ "end" \in page[q].shows
      BY <1>1, <1>7, <1>8, <2>3
    <3>2. IsDone(page[q].run)
      BY <2>1, <3>1 DEF ShownInv
    <3> QED
      BY <1>6, <3>1, <3>2 DEF IsDone
  <2>4. \A t \in DOMAIN turns' : Tells(turns[t])'
    BY <1>3, <1>6, <2>1 DEF ShownInv, Tells, EndsAs
  <2>5. ASSUME NEW t \in DOMAIN turns', turns'[t].ended
        PROVE  /\ IsDone(turns[t].after)'
               /\ turns'[t].branch # "none" /\ turns'[t].act \notin Choices =>
                    ContinuesLater(turns[t])'
    <3>1. CASE t \in DOMAIN turns
      <4>1. turns'[t] = turns[t]
        BY <1>6, <3>1
      <4>2. /\ IsDone(turns[t].after)
            /\ turns[t].branch # "none" /\ turns[t].act \notin Choices =>
                 ContinuesLater(turns[t])
        BY <2>1, <2>5, <3>1, <4>1 DEF ShownInv
      <4> QED
        BY <1>4, <1>6, <4>1, <4>2 DEF IsDone, ContinuesLater
    <3>2. CASE t = n
      <4>1. IsDone(page[p].run)
        BY <1>3, <1>6, <2>1, <2>5, <3>2 DEF ShownInv
      <4> QED
        BY <1>3, <1>6, <3>2, <4>1 DEF IsDone
    <3> QED
      BY <1>6, <3>1, <3>2
  <2> QED
    BY <2>3, <2>4, <2>5 DEF ShownInv
<1> QED
  BY <1>4, <1>9, <1>11, <1>12

\* The first stream of a run: a registered turn starts.
LEMMA SubscribedTurns ==
    ASSUME TypeInv, NEW t, Subscribed(t), NEW u \in DOMAIN turns
    PROVE  /\ turns'[u].row = turns[u].row /\ turns'[u].act = turns[u].act
           /\ turns'[u].after = turns[u].after /\ turns'[u].ended = turns[u].ended
           /\ turns'[u].branch = turns[u].branch /\ turns'[u].base = turns[u].base
           /\ turns'[u].outcome = turns[u].outcome
           /\ \/ turns'[u].stage = turns[u].stage
              \/ turns[u].stage = "registered" /\ turns'[u].stage = "started"
<1>1. CASE ~At(t, "registered")
  BY <1>1 DEF Subscribed
<1>2. CASE At(t, "registered")
  <2> DEFINE r == [turns[t] EXCEPT !.stage = "started"]
  <2>1. /\ t \in DOMAIN turns /\ turns[t].stage = "registered"
        /\ turns' = [turns EXCEPT ![t] = r]
    BY <1>2 DEF Subscribed, At
  <2>2. turns[t] \in Turns
    BY <2>1, TurnsListed
  <2>3. /\ r.row = turns[t].row /\ r.act = turns[t].act
        /\ r.after = turns[t].after /\ r.ended = turns[t].ended
        /\ r.branch = turns[t].branch /\ r.base = turns[t].base
        /\ r.outcome = turns[t].outcome /\ r.stage = "started"
    BY <2>2 DEF Turns
  <2> HIDE DEF r
  <2>4. turns'[t] = r /\ (u # t => turns'[u] = turns[u])
    BY <2>1
  <2> QED
    BY <2>1, <2>3, <2>4
<1> QED
  BY <1>1, <1>2

\* A step of a page that may start the run it opens: what it shows of an end
\* is so.
LEMMA PageChat ==
    ASSUME ChatInv, NEW p \in Pages, NEW s \in PageState, s.read =< Len(messages),
           page' = [page EXCEPT ![p] = s], NEW t, Subscribed(t) \/ UNCHANGED turns,
           UNCHANGED <<rows, messages>>, Fault \/ UNCHANGED faults,
           faults' = 0 /\ "end" \in s.shows => IsDone(s.run)
    PROVE  ChatInv'
<1> USE DEF ChatInv
<1>1. turns' \in Seq(Turns) /\ DOMAIN turns' = DOMAIN turns
  BY SubscribedTypes DEF TypeInv, TurnsTyped
<1>2. TypeInv'
  BY <1>1, PageTypes
<1>3. \A u \in DOMAIN turns :
         /\ turns'[u].row = turns[u].row /\ turns'[u].act = turns[u].act
         /\ turns'[u].after = turns[u].after /\ turns'[u].ended = turns[u].ended
         /\ turns'[u].branch = turns[u].branch /\ turns'[u].base = turns[u].base
         /\ turns'[u].outcome = turns[u].outcome
         /\ \/ turns'[u].stage = turns[u].stage
            \/ turns[u].stage = "registered" /\ turns'[u].stage = "started"
  BY SubscribedTurns
<1>4. \A i \in DOMAIN rows : rows[i] \in DOMAIN turns
  BY TurnsListed
<1>5. RowsInv'
  <2>1. \A i \in DOMAIN rows : turns'[rows[i]].stage \notin {"posted", "asked"}
    BY <1>3, <1>4 DEF RowsInv
  <2>2. \A u \in DOMAIN turns' :
          /\ turns'[u].row # "none" => \E i \in DOMAIN rows : rows[i] = u
          /\ turns'[u].row \in {"completed", "failed"} =>
               turns'[u].stage \in {"settled", "stored", "announced", "dead"}
          /\ turns'[u].row = "none" =>
               turns'[u].stage \in {"posted", "asked", "refused", "dead"}
    BY <1>1, <1>3 DEF RowsInv
  <2> QED
    BY <2>1, <2>2 DEF RowsInv
<1>6. ASSUME faults' = 0
      PROVE  ShownInv'
  <2>1. ShownInv
    BY <1>6, FaultsCounted
  <2>2. \A u : IsDone(u) => IsDone(u)'
    BY <1>1, <1>3 DEF IsDone
  <2>3. \A u \in DOMAIN turns' : Tells(turns[u])'
    BY <1>1, <1>3, <2>1 DEF ShownInv, Tells, EndsAs
  <2>4. ASSUME NEW q \in Pages, "end" \in page'[q].shows
        PROVE  IsDone(page[q].run)'
    <3>1. page \in [Pages -> PageState]
      BY DEF TypeInv, PagesTyped
    <3>2. CASE q = p
      <4>1. page'[q] = s
        BY <3>1, <3>2
      <4>2. IsDone(s.run)
        BY <1>6, <2>4, <4>1
      <4> QED
        BY <1>1, <1>3, <4>1, <4>2 DEF IsDone
    <3>3. CASE q # p
      <4>1. page'[q] = page[q]
        BY <3>1, <3>3
      <4>2. IsDone(page[q].run)
        BY <2>1, <2>4, <4>1 DEF ShownInv
      <4> QED
        BY <1>1, <1>3, <4>1, <4>2 DEF IsDone
    <3> QED
      BY <3>2, <3>3
  <2>5. ASSUME NEW u \in DOMAIN turns', turns'[u].ended
        PROVE  /\ IsDone(turns[u].after)'
               /\ turns'[u].branch # "none" /\ turns'[u].act \notin Choices =>
                    ContinuesLater(turns[u])'
    <3>1. u \in DOMAIN turns /\ turns[u].ended
      BY <1>1, <1>3, <2>5
    <3>2. /\ IsDone(turns[u].after)
          /\ turns[u].branch # "none" /\ turns[u].act \notin Choices =>
               ContinuesLater(turns[u])
      BY <2>1, <3>1 DEF ShownInv
    <3>3. IsDone(turns[u].after)'
      BY <1>1, <1>3, <3>1, <3>2 DEF IsDone
    <3>4. turns'[u].branch # "none" /\ turns'[u].act \notin Choices =>
            ContinuesLater(turns[u])'
      BY <1>3, <3>1, <3>2 DEF ContinuesLater
    <3> QED
      BY <3>3, <3>4
  <2> QED
    BY <2>3, <2>4, <2>5 DEF ShownInv
<1> QED
  BY <1>2, <1>5, <1>6

\* A page that connects or opens a run starts over.
LEMMA StartsOver ==
    ASSUME ChatInv, NEW p \in Pages, NEW t \in Nat, NEW n \in Nat,
           n =< Len(messages),
           page' = [page EXCEPT ![p] = [sending |-> 0, run |-> t,
                                        shows |-> {}, read |-> n]],
           Subscribed(t), UNCHANGED <<rows, messages>>, Fault \/ UNCHANGED faults
    PROVE  ChatInv'
<1> DEFINE s == [sending |-> 0, run |-> t, shows |-> {}, read |-> n]
<1>1. s \in PageState /\ s.read = n /\ s.shows = {}
  BY DEF PageState
<1>2. page' = [page EXCEPT ![p] = s]
  OBVIOUS
<1> HIDE DEF s
<1> QED
  BY <1>1, <1>2, PageChat

\* A page that watches the run it had.
LEMMA PageGoesOn ==
    ASSUME ChatInv, NEW p \in Pages, NEW s, s.run = page[p].run,
           s \in PageState, s.read =< Len(messages),
           page' = [page EXCEPT ![p] = s], UNCHANGED <<turns, rows, messages>>,
           Fault \/ UNCHANGED faults,
           faults' = 0 /\ "end" \in s.shows =>
             "end" \in page[p].shows \/ IsDone(s.run)
    PROVE  ChatInv'
<1>1. faults' = 0 /\ "end" \in s.shows => IsDone(s.run)
  BY FaultsCounted DEF ChatInv, ShownInv
<1> QED
  BY <1>1, PageChat

\* The fields of a page.
LEMMA PageFields ==
    ASSUME TypeInv, NEW p \in Pages
    PROVE  /\ page[p] \in PageState /\ page[p].read =< Len(messages)
           /\ page[p].run \in Nat /\ page[p].sending \in Nat /\ page[p].read \in Nat
           /\ page[p].shows \subseteq (Cards \union {"end", "error", "over"})
<1>1. page[p] \in PageState /\ page[p].read =< Len(messages)
  BY DEF TypeInv, PagesTyped
<1> QED
  BY <1>1 DEF PageState

\* Connecting to a run, seeing its card or its end, losing its stream.
LEMMA WatchChat ==
    ASSUME ChatInv, NEW p \in Pages, Watch(p)
    PROVE  ChatInv'
<1> USE DEF ChatInv
<1>1. /\ page[p] \in PageState /\ page[p].read =< Len(messages)
      /\ page[p].run \in Nat /\ page[p].sending \in Nat /\ page[p].read \in Nat
      /\ page[p].shows \subseteq (Cards \union {"end", "error", "over"})
      /\ page \in [Pages -> PageState]
  BY PageFields DEF TypeInv, PagesTyped
<1>2. CASE Connect(p)
  <2> DEFINE t == page[p].sending
  <2>1. PICK n \in 0 .. Len(messages) :
           /\ Refreshes(p, n)
           /\ page' = [page EXCEPT ![p] = [sending |-> 0, run |-> t,
                                           shows |-> {}, read |-> n]]
    BY <1>2 DEF Connect
  <2>2. Subscribed(t) /\ UNCHANGED <<rows, messages>> /\ t \in Nat
    BY <1>1, <1>2 DEF Connect
  <2>3. n \in Nat /\ n =< Len(messages)
    BY <2>1, TurnsListed
  <2>4. Fault \/ UNCHANGED faults
    BY <2>1 DEF Refreshes
  <2> QED
    BY <2>1, <2>2, <2>3, <2>4, StartsOver
<1>3. ASSUME NEW shown, shown \in SUBSET (Cards \union {"error", "over"}),
             NEW sending \in {0, page[p].sending},
             page' = [page EXCEPT ![p].sending = sending,
                                  ![p].shows = @ \union shown],
             UNCHANGED <<turns, rows, messages>>, Fault \/ UNCHANGED faults
      PROVE  ChatInv'
  <2> DEFINE all == page[p].shows \union shown
             s == [page[p] EXCEPT !.sending = sending, !.shows = all]
  <2>1. page' = [page EXCEPT ![p] = s]
    BY <1>1, <1>3
  <2>2. all \subseteq (Cards \union {"end", "error", "over"}) /\ sending \in Nat
        /\ ("end" \in all => "end" \in page[p].shows)
    BY <1>1, <1>3 DEF Cards
  <2> HIDE DEF all
  <2>3. s \in PageState /\ s.run = page[p].run /\ s.read = page[p].read
        /\ s.shows = all
    BY <1>1, <2>2 DEF PageState
  <2> HIDE DEF s
  <2> QED
    BY <1>1, <1>3, <2>1, <2>2, <2>3, PageGoesOn
<1>4. CASE PostFails(p)
  <2>1. page' = [page EXCEPT ![p].sending = 0, ![p].shows = @ \union {"error"}]
    BY <1>4 DEF PostFails
  <2> QED
    BY <1>3, <1>4, <2>1 DEF PostFails
<1>5. ASSUME NEW shown, shown \in SUBSET (Cards \union {"error", "over"}),
             page' = [page EXCEPT ![p].shows = @ \union shown],
             UNCHANGED <<turns, rows, messages>>, Fault \/ UNCHANGED faults
      PROVE  ChatInv'
  <2> DEFINE sending == page[p].sending
  <2>1. page' = [page EXCEPT ![p].sending = sending,
                             ![p].shows = @ \union shown]
    BY <1>1, <1>5 DEF PageState
  <2> QED
    BY <1>3, <1>5, <2>1
<1>6. CASE SeesCard(p)
  <2> DEFINE shown == CardOf(turns[page[p].run].outcome)
  <2>1. shown \in SUBSET (Cards \union {"error", "over"})
    BY DEF CardOf, Cards
  <2>2. page' = [page EXCEPT ![p].shows = @ \union shown]
        /\ UNCHANGED <<turns, rows, messages, faults>>
    BY <1>6 DEF SeesCard
  <2> HIDE DEF shown
  <2> QED
    BY <1>5, <2>1, <2>2
<1>7. CASE LosesStream(p)
  <2> DEFINE shown == {"error", "over"}
  <2>1. shown \in SUBSET (Cards \union {"error", "over"})
    OBVIOUS
  <2>2. page' = [page EXCEPT ![p].shows = @ \union shown]
        /\ UNCHANGED <<turns, rows, messages>> /\ (Fault \/ UNCHANGED faults)
    BY <1>7 DEF LosesStream
  <2> QED
    BY <1>5, <2>1, <2>2
<1>8. CASE SeesEnd(p)
  <2> DEFINE t == page[p].run
             end == IF turns[t].outcome = "error" THEN "error" ELSE "end"
             all == page[p].shows \union {"over", end}
  <2>1. PICK n \in 0 .. Len(messages) :
           /\ Refreshes(p, n)
           /\ page' = [page EXCEPT ![p].shows = @ \union {"over", end},
                                   ![p].read = n]
    BY <1>8 DEF SeesEnd
  <2> DEFINE s == [page[p] EXCEPT !.shows = all, !.read = n]
  <2>2. page' = [page EXCEPT ![p] = s]
    BY <1>1, <2>1
  <2>3. n \in Nat /\ n =< Len(messages) /\ (Fault \/ UNCHANGED faults)
    BY <2>1, TurnsListed DEF Refreshes
  <2>4. At(t, "announced") /\ UNCHANGED <<turns, rows, messages>>
    BY <1>8 DEF SeesEnd
  <2>5. faults' = 0 /\ "end" \in all => "end" \in page[p].shows \/ IsDone(t)
    <3> SUFFICES ASSUME faults' = 0, "end" \in all, "end" \notin page[p].shows
                 PROVE  IsDone(t)
      OBVIOUS
    <3>1. turns[t].outcome # "error"
      OBVIOUS
    <3>2. ShownInv
      BY <2>3, FaultsCounted
    <3>3. Tells(turns[t]) /\ t \in DOMAIN turns /\ turns[t].stage = "announced"
      BY <2>4, <3>2 DEF ShownInv, At
    <3> QED
      BY <3>1, <3>3 DEF Tells, EndsAs, IsDone
  <2>6. all \subseteq (Cards \union {"end", "error", "over"})
    BY <1>1
  <2> HIDE DEF all
  <2>7. s \in PageState /\ s.run = t /\ s.read = n /\ s.shows = all
    BY <1>1, <2>3, <2>6 DEF PageState
  <2> HIDE DEF s
  <2> QED
    BY <2>2, <2>3, <2>4, <2>5, <2>7, PageGoesOn
<1> QED
  BY <1>2, <1>4, <1>6, <1>7, <1>8 DEF Watch

\* A page that opens the chat opens a run of it.
LEMMA OpenChat ==
    ASSUME ChatInv, NEW p \in Pages, Open(p)
    PROVE  ChatInv'
<1> DEFINE active == {i \in DOMAIN rows : turns[rows[i]].row = "active"}
           i == IF active # {} THEN Earliest(active) ELSE Len(rows)
           t == rows[i]
<1>1. /\ rows # <<>> /\ Subscribed(t)
      /\ page' = [page EXCEPT ![p] = [sending |-> 0, run |-> t, shows |-> {},
                                      read |-> Len(messages)]]
      /\ UNCHANGED <<rows, messages, faults>>
  BY DEF Open
<1>2. rows \in Seq(DOMAIN turns) /\ active \subseteq Nat
      /\ DOMAIN rows = 1 .. Len(rows) /\ Len(rows) \in Nat
  BY TurnsListed DEF ChatInv, TypeInv, RowsTyped
<1>3. active # {} => Earliest(active) \in DOMAIN rows
  <2> HIDE DEF active
  <2>1. active # {} => Earliest(active) \in active
    BY <1>2, EarliestIsFound
  <2> QED
    BY <2>1 DEF active
<1>4. Len(rows) \in DOMAIN rows
  BY <1>1, <1>2
<1> HIDE DEF active
<1>5. i \in DOMAIN rows
  BY <1>3, <1>4
<1> HIDE DEF i
<1>6. t \in Nat /\ Len(messages) \in Nat /\ Len(messages) =< Len(messages)
  BY <1>5, TurnsListed DEF ChatInv
<1> HIDE DEF t
<1> QED
  BY <1>1, <1>6, StartsOver

\* What the user does: sending, retrying, approving, choosing.
LEMMA UserChat ==
    ASSUME ChatInv, NEW p \in Pages, User(p)
    PROVE  ChatInv'
<1>1. Len(turns) + 1 \in Turn
  BY TurnsListed DEF ChatInv, Turn
<1>2. LastPrompt(p) # 0 => LastPrompt(p) \in Turn
  BY PromptIsText DEF ChatInv
<1>3. CASE Send(p)
  BY <1>1, <1>3, PostChat DEF Send, Acts
<1>4. ASSUME NEW act \in Acts, Resend(p, act)
      PROVE  ChatInv'
  BY <1>2, <1>4, PostChat DEF Resend
<1>5. "message" \in Acts /\ "approve" \in Acts /\ Choices \subseteq Acts
  BY DEF Acts
<1> QED
  BY <1>3, <1>4, <1>5 DEF User, Retry, Approve, Choose

\* A death leaves every row as it is.
LEMMA RestartChat ==
    ASSUME ChatInv, Restart
    PROVE  ChatInv'
<1> USE DEF ChatInv
<1>1. /\ UNCHANGED <<rows, messages, page>> /\ Fault
      /\ turns' = [t \in DOMAIN turns |->
                     IF turns[t].stage \in {"announced", "refused"} THEN turns[t]
                     ELSE [turns[t] EXCEPT !.stage = "dead"]]
  BY DEF Restart
<1>2. ASSUME NEW t \in DOMAIN turns
      PROVE  /\ turns'[t] \in Turns /\ turns'[t].row = turns[t].row
             /\ \/ turns'[t].stage = turns[t].stage
                \/ turns'[t].stage = "dead"
  <2>1. turns[t] \in Turns
    BY TurnsListed
  <2> QED
    BY <1>1, <2>1 DEF Turns, Stages
<1>3. DOMAIN turns' = DOMAIN turns /\ DOMAIN turns = 1 .. Len(turns)
      /\ Len(turns) \in Nat
  BY <1>1, TurnsListed
<1>4. turns' \in Seq(Turns)
  BY <1>1, <1>2, <1>3
<1>5. TypeInv'
  <2>1. TurnsTyped' /\ RowsTyped' /\ MessagesTyped' /\ PagesTyped'
    BY <1>1, <1>3, <1>4
       DEF TypeInv, TurnsTyped, RowsTyped, MessagesTyped, PagesTyped
  <2> QED
    BY <1>1, <2>1, FaultsCounted DEF TypeInv
<1>6. RowsInv'
  <2>1. \A i \in DOMAIN rows : turns'[rows[i]].stage \notin {"posted", "asked"}
    BY <1>2, TurnsListed DEF RowsInv
  <2>2. \A u \in DOMAIN turns' :
          /\ turns'[u].row # "none" => \E i \in DOMAIN rows : rows[i] = u
          /\ turns'[u].row \in {"completed", "failed"} =>
               turns'[u].stage \in {"settled", "stored", "announced", "dead"}
          /\ turns'[u].row = "none" =>
               turns'[u].stage \in {"posted", "asked", "refused", "dead"}
    BY <1>2, <1>3 DEF RowsInv
  <2> QED
    BY <1>1, <2>1, <2>2 DEF RowsInv
<1>7. faults' # 0
  BY <1>1 DEF Fault, TypeInv
<1> QED
  BY <1>5, <1>6, <1>7

\* An empty chat.
LEMMA ChatInvInit ==
    ASSUME Init
    PROVE  ChatInv
<1>1. turns = <<>> /\ rows = <<>> /\ messages = <<>> /\ faults = 0
  BY DEF Init
<1>2. DOMAIN turns = {} /\ DOMAIN rows = {} /\ Len(messages) = 0
  BY <1>1
<1> DEFINE s == [sending |-> 0, run |-> 0, shows |-> {}, read |-> 0]
<1>3. s \in PageState /\ s.read = 0 /\ s.shows = {}
  BY DEF PageState
<1>4. page = [p \in Pages |-> s]
  BY DEF Init
<1> HIDE DEF s
<1>5. page \in [Pages -> PageState]
      /\ \A p \in Pages : page[p].read = 0 /\ page[p].shows = {}
  BY <1>3, <1>4
<1>6. TypeInv
  BY <1>1, <1>2, <1>5, TurnsAssumption
     DEF TypeInv, TurnsTyped, RowsTyped, MessagesTyped, PagesTyped
<1>7. RowsInv /\ ShownInv
  BY <1>2, <1>5 DEF RowsInv, ShownInv
<1> QED
  BY <1>6, <1>7 DEF ChatInv

\* The inductive step, from those of server, page and user.
LEMMA ChatInvStep ==
    ASSUME ChatInv, [Next]_vars
    PROVE  ChatInv'
<1>1. CASE UNCHANGED vars
  BY <1>1 DEF vars, ChatInv, TypeInv, TurnsTyped, RowsTyped, MessagesTyped,
     PagesTyped, RowsInv, ShownInv, IsDone, Tells, EndsAs, ContinuesLater
<1>2. ASSUME NEW p \in Pages, User(p) \/ Open(p) \/ Watch(p)
      PROVE  ChatInv'
  BY <1>2, UserChat, OpenChat, WatchChat
<1>3. ASSUME NEW t \in DOMAIN turns, Serve(t)
      PROVE  ChatInv'
  BY <1>3, ServeChat
<1> QED
  BY <1>1, <1>2, <1>3, RestartChat DEF Next

\* What the pages show and the rows tell, in every reachable state.
THEOREM ChatInvariance == Spec => []ChatInv
BY ChatInvInit, ChatInvStep, PTL DEF Spec

\* Every turn, row, message and page keeps its type, whatever the store, the
\* process and the streams do: a turn continues a turn of this chat, and the
\* model is given texts that were typed in it.
THEOREM ChatTypes == Spec => []TypeOK
<1>1. ChatInv => TypeOK
  BY DEF ChatInv, TypeInv, TypeOK, TurnsTyped, RowsTyped, MessagesTyped,
     PagesTyped
<1> QED
  BY <1>1, ChatInvariance, PTL

\* A turn posted from a page that showed the end of a run continues that run
\* or a later one, for any number of pages and turns, as long as nothing
\* fails (lastCompletedRun of chat-routes.ts).
THEOREM ContinuesTheShown == Spec => []ContinuesWhatWasShown
<1>1. ChatInv => ContinuesWhatWasShown
  <2> SUFFICES ASSUME ChatInv, NEW t \in DOMAIN turns, faults = 0,
                      turns[t].branch # "none", turns[t].act \notin Choices,
                      turns[t].ended
               PROVE  /\ turns[t].base # 0
                      /\ Position(turns[t].base) >= Position(turns[t].after)
    BY DEF ContinuesWhatWasShown
  <2>1. ContinuesLater(turns[t])
    BY DEF ChatInv, ShownInv
  <2>2. PICK i \in DOMAIN rows, j \in DOMAIN rows :
           rows[i] = turns[t].base /\ rows[j] = turns[t].after /\ j =< i
    BY <2>1 DEF ContinuesLater
  <2>3. \A k, n \in DOMAIN rows : rows[k] = rows[n] => k = n
    BY DEF ChatInv, RowsInv
  <2>4. Position(turns[t].base) = i /\ Position(turns[t].after) = j
    BY <2>2, <2>3 DEF Position
  <2>5. turns[t].base \in DOMAIN turns /\ i \in Nat /\ j \in Nat
    BY <2>2, TurnsListed DEF ChatInv
  <2> QED
    BY <2>2, <2>4, <2>5, TurnsListed DEF ChatInv
<1> QED
  BY <1>1, ChatInvariance, PTL

================================================================================
