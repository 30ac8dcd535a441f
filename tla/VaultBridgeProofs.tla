-------------------------- MODULE VaultBridgeProofs --------------------------
(***************************************************************************)
(* Proofs about VaultBridge.tla, for every set of vaults, accounts and     *)
(* payloads and for every bound.                                           *)
(*                                                                         *)
(* A number is given out once by a document, and documents are numbered    *)
(* too, so whatever is under way for a call (a request, an operation of    *)
(* the page, an answer) is known by the two; it is of the kind of the call *)
(* that awaits it, and a write that succeeds has been mined.               *)
(***************************************************************************)
EXTENDS VaultBridge, TLAPS

\* What is posted between the page and the frame, and what is kept of it.
Requests == [gen : 1..MaxDocs, id : 1..MaxSeq, kind : Kinds \union {"ready"},
             payload : Payloads \union {None}]
Pushes == [kind : {"wallet"}, wallet : Wallets]
Answers == [kind : {"answer"}, id : 1..MaxSeq, gen : 1..MaxDocs, ok : BOOLEAN]
Steps == {"reading", "switching", "signing", "waiting", "ok", "failed"}
Ops == [gen : 1..MaxDocs, id : 1..MaxSeq, kind : Kinds,
        payload : Payloads \union {None}, vault : Vaults \union {None},
        account : Accounts \union {None}, step : Steps]
Txs == [gen : 1..MaxDocs, id : 1..MaxSeq, payload : Payloads \union {None},
        vault : Vaults \union {None}, account : Accounts,
        status : {"sent", "mined", "reverted", "replaced"}]
Ends == [gen : 1..MaxDocs, id : 1..MaxSeq, kind : Kinds,
         by : (1..MaxDocs) \union {None}, ok : BOOLEAN]
Docs == [gen : 1..MaxDocs, vault : Vaults \union {None}, seq : 0..MaxSeq,
         state : {"loading", "up", "crashed"},
         pending : SUBSET [id : 1..MaxSeq, kind : Kinds], view : Wallets]

TypeInv ==
    /\ wallet \in Wallets /\ changes \in 0..MaxChanges /\ stale \in BOOLEAN
    /\ shown \in Vaults \union {None} /\ page \in 1..MaxDocs
    /\ doc \in Docs /\ doc.gen <= page
    /\ toHost \in Seq(Requests) /\ toFrame \in Seq(Pushes \union Answers)
    /\ ops \subseteq Ops /\ txs \subseteq Txs /\ settled \subseteq Ends

\* A number that a document has given out.
Issued(x) == x.gen <= doc.gen /\ (x.gen = doc.gen => x.id <= doc.seq)

\* What is worked on for a call that is awaited is of the call's kind.
AsCalled(x) ==
    x.gen = doc.gen => \A p \in doc.pending : p.id = x.id => p.kind = x.kind

\* As far as a receipt tells.
Mined(x) ==
    \E t \in txs :
        t.gen = x.gen /\ t.id = x.id /\ t.status \in {"mined", "replaced"}

\* A write is signed by an account, and comes to success by its receipt only.
OpInv(o) ==
    /\ Issued(o) /\ AsCalled(o)
    /\ o.step \in {"signing", "waiting"} => o.kind = "write"
    /\ o.kind = "write" => o.step # "reading"
    /\ o.kind = "write" /\ o.step \in {"switching", "signing", "waiting"} =>
         o.account \in Accounts
    /\ o.kind = "write" /\ o.step = "ok" => Mined(o)

RequestInv(m) == Issued(m) /\ AsCalled(m)

\* A success on its way to the write that asked for it is of a mined one.
FrameInv(m) ==
    m.kind = "answer" =>
      /\ Issued(m)
      /\ m.ok /\ m.gen = doc.gen =>
           \A p \in doc.pending : p.id = m.id /\ p.kind = "write" => Mined(m)

PendingInv ==
    /\ \A p \in doc.pending : p.id <= doc.seq
    /\ \A p, q \in doc.pending : p.id = q.id => p = q

BridgeInv ==
    /\ TypeInv /\ PendingInv
    /\ \A i \in DOMAIN toHost : RequestInv(toHost[i])
    /\ \A o \in ops : OpInv(o)
    /\ \A i \in DOMAIN toFrame : FrameInv(toFrame[i])
    /\ \A s \in settled : Issued(s)
    /\ CallsEndOnce /\ OwnSuccessIsMined

-----------------------------------------------------------------------------
(* Queues and fields *)

\* What is in a queue that a message is added to, or taken from.
LEMMA Added ==
    ASSUME NEW S, NEW q \in Seq(S), NEW m \in S
    PROVE  /\ Append(q, m) \in Seq(S)
           /\ \A i \in DOMAIN Append(q, m) :
                 (i \in DOMAIN q /\ Append(q, m)[i] = q[i]) \/ Append(q, m)[i] = m
<1>1. DOMAIN Append(q, m) = 1 .. Len(q) + 1 /\ DOMAIN q = 1 .. Len(q) /\ Len(q) \in Nat
  OBVIOUS
<1> QED
  BY <1>1

\* The head and the tail of what waits in a queue.
LEMMA Taken ==
    ASSUME NEW S, NEW q \in Seq(S), q # <<>>
    PROVE  /\ Tail(q) \in Seq(S) /\ Head(q) \in S
           /\ 1 \in DOMAIN q /\ Head(q) = q[1]
           /\ \A i \in DOMAIN Tail(q) : i + 1 \in DOMAIN q /\ Tail(q)[i] = q[i + 1]
OBVIOUS

\* The fields of the document in the frame.
LEMMA DocFields ==
    ASSUME TypeInv
    PROVE  /\ doc.gen \in 1..MaxDocs /\ doc.seq \in 0..MaxSeq
           /\ doc.vault \in Vaults \union {None}
           /\ doc.state \in {"loading", "up", "crashed"} /\ doc.view \in Wallets
           /\ doc.pending \subseteq [id : 1..MaxSeq, kind : Kinds]
           /\ \A p \in doc.pending : p.id \in 1..MaxSeq /\ p.kind \in Kinds
<1>1. doc \in Docs
  BY DEF TypeInv
<1>2. doc.pending \subseteq [id : 1..MaxSeq, kind : Kinds]
  BY <1>1 DEF Docs
<1>3. \A p \in [id : 1..MaxSeq, kind : Kinds] : p.id \in 1..MaxSeq /\ p.kind \in Kinds
  OBVIOUS
<1> QED
  BY <1>1, <1>2, <1>3 DEF Docs

\* The fields of a wallet's state.
LEMMA WalletFields ==
    ASSUME NEW w \in Wallets
    PROVE  /\ w.account \in Accounts \union {None} /\ w.right \in BOOLEAN
           /\ w.account # None => [w EXCEPT !.right = TRUE] \in Wallets
           /\ w = [account |-> w.account, right |-> w.right]
<1>1. CASE w = Unknown
  BY <1>1 DEF Wallets, Unknown
<1>2. CASE w \in [account : Accounts, right : BOOLEAN]
  BY <1>2 DEF Wallets
<1> QED
  BY <1>1, <1>2 DEF Wallets

\* The fields of a request the page works on.
LEMMA OpFields ==
    ASSUME NEW o \in Ops
    PROVE  /\ o.gen \in 1..MaxDocs /\ o.id \in 1..MaxSeq /\ o.kind \in Kinds
           /\ o.payload \in Payloads \union {None} /\ o.vault \in Vaults \union {None}
           /\ o.account \in Accounts \union {None} /\ o.step \in Steps
BY DEF Ops

\* An operation goes on: only its step changes.
LEMMA OpMoves ==
    ASSUME NEW o \in Ops, NEW s \in Steps
    PROVE  LET r == [o EXCEPT !.step = s]
           IN  /\ r \in Ops /\ r.step = s /\ r.gen = o.gen /\ r.id = o.id
               /\ r.kind = o.kind /\ r.account = o.account
BY DEF Ops

\* The fields of a message to the page.
LEMMA RequestFields ==
    ASSUME NEW m \in Requests
    PROVE  /\ m.gen \in 1..MaxDocs /\ m.id \in 1..MaxSeq
           /\ m.kind \in Kinds \union {"ready"} /\ m.payload \in Payloads \union {None}
BY DEF Requests

\* The fields of a message to the frame.
LEMMA AnswerFields ==
    ASSUME NEW m \in Pushes \union Answers
    PROVE  /\ m.kind \in {"wallet", "answer"}
           /\ m.kind = "wallet" => m.wallet \in Wallets
           /\ m.kind = "answer" => /\ m.id \in 1..MaxSeq /\ m.gen \in 1..MaxDocs
                                   /\ m.ok \in BOOLEAN
<1>1. CASE m \in Pushes
  BY <1>1 DEF Pushes
<1>2. CASE m \in Answers
  BY <1>2 DEF Answers
<1> QED
  BY <1>1, <1>2

\* The fields of a transaction.
LEMMA TxFields ==
    ASSUME NEW t \in Txs
    PROVE  /\ t.gen \in 1..MaxDocs /\ t.id \in 1..MaxSeq /\ t.account \in Accounts
           /\ t.status \in {"sent", "mined", "reverted", "replaced"}
BY DEF Txs

\* The fields of a call that ended.
LEMMA EndFields ==
    ASSUME NEW s \in Ends
    PROVE  /\ s.gen \in 1..MaxDocs /\ s.id \in 1..MaxSeq /\ s.kind \in Kinds
           /\ s.ok \in BOOLEAN
BY DEF Ends

-----------------------------------------------------------------------------
(* The page.  The document of the frame stays; transactions are only added *)
(* and a mined one stays mined.                                            *)

MinedStays == \A x : Mined(x) => Mined(x)'

\* A step that leaves document and ends alone keeps the invariant if what is
\* under way stays right.
LEMMA DocStays ==
    ASSUME BridgeInv, TypeInv', UNCHANGED <<doc, settled>>, MinedStays,
           \A i \in DOMAIN toHost' : RequestInv(toHost'[i]),
           \A o \in ops' : OpInv(o),
           \A i \in DOMAIN toFrame' : FrameInv(toFrame'[i])
    PROVE  BridgeInv'
<1>1. PendingInv' /\ CallsEndOnce' /\ \A s \in settled' : Issued(s)'
  BY DEF BridgeInv, PendingInv, CallsEndOnce, Issued
<1>2. \A i \in DOMAIN toHost' : RequestInv(toHost[i])'
  BY DEF RequestInv, Issued, AsCalled
<1>3. ASSUME NEW o \in ops'
      PROVE  OpInv(o)'
  <2>1. OpInv(o)
    OBVIOUS
  <2>2. Mined(o) => Mined(o)'
    BY DEF MinedStays
  <2> QED
    BY <2>1, <2>2 DEF OpInv, Issued, AsCalled
<1>4. ASSUME NEW i \in DOMAIN toFrame'
      PROVE  FrameInv(toFrame[i])'
  <2>1. PICK m : m = toFrame'[i]
    OBVIOUS
  <2>2. FrameInv(m) /\ (Mined(m) => Mined(m)')
    BY <2>1 DEF MinedStays
  <2>3. FrameInv(m)'
    BY <2>2 DEF FrameInv, Issued
  <2> QED
    BY <2>1, <2>3 DEF FrameInv, Issued, Mined
<1>5. OwnSuccessIsMined'
  BY DEF BridgeInv, OwnSuccessIsMined, MinedStays, Mined
<1> QED
  BY <1>1, <1>2, <1>3, <1>4, <1>5 DEF BridgeInv

\* The page posts to the frame, or not.
LEMMA PagePosts ==
    ASSUME BridgeInv, NEW m \in Pushes \union Answers, FrameInv(m),
           toFrame' = toFrame \/ toFrame' = Append(toFrame, m)
    PROVE  /\ toFrame' \in Seq(Pushes \union Answers)
           /\ \A i \in DOMAIN toFrame' : FrameInv(toFrame'[i])
<1>1. toFrame \in Seq(Pushes \union Answers)
  BY DEF BridgeInv, TypeInv
<1>2. \A i \in DOMAIN toFrame : FrameInv(toFrame[i])
  BY DEF BridgeInv
<1>3. CASE toFrame' = toFrame
  BY <1>1, <1>2, <1>3
<1>4. CASE toFrame' = Append(toFrame, m)
  BY <1>1, <1>2, <1>4, Added
<1> QED
  BY <1>3, <1>4

\* The wallet pushed to the frame is a message, and says nothing of calls.
LEMMA PushIsTyped ==
    ASSUME BridgeInv
    PROVE  Push \in Pushes \union Answers /\ FrameInv(Push)
BY DEF BridgeInv, TypeInv, Push, Pushes, FrameInv

\* The wallet or the props change, or the wallet is pushed.
LEMMA PageStep ==
    ASSUME BridgeInv,
           \/ \E w \in Wallets : WalletChanges(w)
           \/ \E v \in Vaults \union {shown} : PageChanges(v)
           \/ PushEffect
    PROVE  BridgeInv'
<1> DEFINE Goes ==
      /\ wallet' \in Wallets /\ changes' \in 0..MaxChanges /\ stale' \in BOOLEAN
      /\ shown' \in Vaults \union {None} /\ page' \in 1..MaxDocs /\ page <= page'
      /\ UNCHANGED <<doc, toHost, ops, txs, settled>>
      /\ toFrame' = toFrame \/ toFrame' = Append(toFrame, Push)
<1>1. Goes
  <2>1. TypeInv /\ MaxDocs \in Nat /\ MaxChanges \in Nat
    BY VaultBridgeAssumption DEF BridgeInv
  <2>2. ASSUME NEW w \in Wallets, WalletChanges(w)
        PROVE  Goes
    <3> QED
      BY <2>1, <2>2 DEF TypeInv, WalletChanges
  <2>3. ASSUME NEW v \in Vaults \union {shown}, PageChanges(v)
        PROVE  Goes
    <3>1. v \in Vaults \union {None}
      BY <2>1 DEF TypeInv
    <3>2. page' = page + 1 /\ page \in 1..MaxDocs /\ page < MaxDocs
      BY <2>1, <2>3 DEF TypeInv, PageChanges
    <3>3. page' \in 1..MaxDocs /\ page <= page'
      BY <2>1, <3>2
    <3> QED
      BY <2>1, <2>3, <3>1, <3>3 DEF TypeInv, PageChanges
  <2>4. CASE PushEffect
    <3>1. /\ toFrame' = Append(toFrame, Push) /\ stale' = FALSE
          /\ UNCHANGED <<wallet, changes, shown, page, doc, toHost, ops, txs, settled>>
      BY <2>4 DEF PushEffect
    <3>2. page \in Nat
      BY <2>1 DEF TypeInv
    <3>3. wallet \in Wallets /\ changes \in 0..MaxChanges
          /\ shown \in Vaults \union {None} /\ page \in 1..MaxDocs
      BY <2>1 DEF TypeInv
    <3>4. stale' \in BOOLEAN
      BY <3>1, Zenon
    <3>6. page <= page
      BY <3>2
    <3>5. page' = page /\ wallet' = wallet /\ changes' = changes /\ shown' = shown
          /\ UNCHANGED <<doc, toHost, ops, txs, settled>>
      BY <3>1
    <3> QED
      BY <3>1, <3>3, <3>4, <3>5, <3>6, Zenon
  <2> QED
    BY <2>2, <2>3, <2>4
<1>2. /\ toFrame' \in Seq(Pushes \union Answers)
      /\ \A i \in DOMAIN toFrame' : FrameInv(toFrame'[i])
  BY <1>1, PushIsTyped, PagePosts
<1>3. TypeInv'
  BY <1>1, <1>2, DocFields DEF BridgeInv, TypeInv
<1>4. MinedStays
  BY <1>1 DEF MinedStays, Mined
<1> QED
  BY <1>1, <1>2, <1>3, <1>4, DocStays DEF BridgeInv

\* The page takes a request up: a write is signed only with an account.
LEMMA FirstStepIs ==
    ASSUME BridgeInv, NEW m \in Requests, m.kind # "ready"
    PROVE  /\ FirstStep(m) \in Steps
           /\ FirstStep(m) = "signing" => m.kind = "write"
           /\ FirstStep(m) # "waiting"
           /\ m.kind = "write" => /\ FirstStep(m) \notin {"reading", "ok"}
                                  /\ FirstStep(m) \in {"signing", "switching"} =>
                                       wallet.account \in Accounts
<1>1. wallet.account \in Accounts \union {None}
  BY WalletFields DEF BridgeInv, TypeInv
<1>2. m.kind \in {"read", "write", "switchChain"}
  BY RequestFields DEF Kinds
<1> QED
  BY <1>1, <1>2 DEF FirstStep, Steps

\* The page takes a message: a call becomes a request in its first step.
LEMMA HostReceivesStep ==
    ASSUME BridgeInv, HostReceives
    PROVE  BridgeInv'
<1> DEFINE m == Head(toHost)
<1>1. toHost # <<>> /\ toHost \in Seq(Requests) /\ toHost' = Tail(toHost)
  BY DEF HostReceives, BridgeInv, TypeInv
<1>2. /\ toHost' \in Seq(Requests) /\ m \in Requests
      /\ 1 \in DOMAIN toHost /\ m = toHost[1]
      /\ \A i \in DOMAIN toHost' : i + 1 \in DOMAIN toHost /\ toHost'[i] = toHost[i + 1]
  BY <1>1, Taken
<1>3. RequestInv(m) /\ \A i \in DOMAIN toHost' : RequestInv(toHost'[i])
  BY <1>2 DEF BridgeInv
<1>4. UNCHANGED <<host, doc, txs, settled>>
  BY DEF HostReceives
<1>5. MinedStays
  BY <1>4 DEF MinedStays, Mined
<1>6. CASE m.kind = "ready"
  <2>1. toFrame' = Append(toFrame, Push) /\ ops' = ops
    BY <1>6 DEF HostReceives
  <2>2. /\ toFrame' \in Seq(Pushes \union Answers)
        /\ \A i \in DOMAIN toFrame' : FrameInv(toFrame'[i])
    BY <2>1, PushIsTyped, PagePosts
  <2>3. TypeInv'
    BY <1>2, <1>4, <2>1, <2>2 DEF BridgeInv, TypeInv, host
  <2> QED
    BY <1>3, <1>4, <1>5, <2>1, <2>2, <2>3, DocStays DEF BridgeInv
<1>7. CASE m.kind # "ready"
  <2> DEFINE o == [gen |-> m.gen, id |-> m.id, kind |-> m.kind,
                   payload |-> m.payload, vault |-> shown,
                   account |-> wallet.account, step |-> FirstStep(m)]
  <2>1. ops' = ops \union {o} /\ toFrame' = toFrame
    BY <1>7 DEF HostReceives
  <2>2. FirstStep(m) \in Steps
    BY <1>2, <1>7, FirstStepIs
  <2>3. wallet.account \in Accounts \union {None} /\ shown \in Vaults \union {None}
    BY WalletFields DEF BridgeInv, TypeInv
  <2>4. m.kind \in Kinds
    BY <1>2, <1>7, RequestFields
  <2> HIDE DEF m
  <2>5. o \in Ops
    BY <1>2, <2>2, <2>3, <2>4, RequestFields DEF Ops
  <2>6. /\ o.gen = m.gen /\ o.id = m.id /\ o.kind = m.kind
        /\ o.account = wallet.account /\ o.step = FirstStep(m)
    OBVIOUS
  <2> HIDE DEF o
  <2>7. OpInv(o)
    BY <1>2, <1>3, <1>7, <2>6, FirstStepIs
       DEF OpInv, RequestInv, Issued, AsCalled
  <2>8. TypeInv'
    BY <1>2, <1>4, <2>1, <2>5 DEF BridgeInv, TypeInv, host
  <2> QED
    BY <1>3, <1>4, <1>5, <2>1, <2>7, <2>8, DocStays DEF BridgeInv
<1> QED
  BY <1>6, <1>7

\* An operation goes on: it stays that of its call, and by its next step it is
\* signed by an account, or mined.
LEMMA OpGoesOn ==
    ASSUME BridgeInv, NEW o \in ops, NEW s \in Steps,
           ops' = (ops \ {o}) \union {[o EXCEPT !.step = s]},
           s # "reading",
           s \in {"signing", "waiting"} => o.kind = "write" /\ o.account \in Accounts,
           s # "switching",
           o.kind = "write" /\ s = "ok" => Mined(o),
           wallet' \in Wallets, stale' \in BOOLEAN,
           UNCHANGED <<changes, shown, page, doc, toHost, toFrame, settled>>,
           txs' \subseteq Txs, txs \subseteq txs'
    PROVE  BridgeInv'
<1> DEFINE r == [o EXCEPT !.step = s]
<1>1. o \in Ops
  BY DEF BridgeInv, TypeInv
<1>2. /\ r \in Ops /\ r.step = s /\ r.gen = o.gen /\ r.id = o.id
      /\ r.kind = o.kind /\ r.account = o.account
  BY <1>1, OpMoves
<1>3. ops' = (ops \ {o}) \union {r}
  OBVIOUS
<1> HIDE DEF r
<1>4. OpInv(o)
  BY DEF BridgeInv
<1>5. OpInv(r)
  BY <1>2, <1>4 DEF OpInv, Issued, AsCalled, Mined
<1>6. \A q \in ops' : OpInv(q)
  BY <1>3, <1>5 DEF BridgeInv
<1>7. TypeInv'
  BY <1>2, <1>3 DEF BridgeInv, TypeInv
<1>8. MinedStays
  BY DEF MinedStays, Mined
<1> QED
  BY <1>6, <1>7, <1>8, DocStays DEF BridgeInv

\* A request fails, wherever it waits.
LEMMA FailsStep ==
    ASSUME BridgeInv, NEW o \in ops, Fails(o)
    PROVE  BridgeInv'
<1>1. "failed" \in Steps /\ ops' = (ops \ {o}) \union {[o EXCEPT !.step = "failed"]}
  BY DEF Fails, Moves, Steps
<1>2. /\ UNCHANGED <<wallet, stale, changes, shown, page, doc, toHost, toFrame,
                     settled, txs>>
      /\ wallet \in Wallets /\ stale \in BOOLEAN /\ txs \subseteq Txs
  BY DEF Fails, host, BridgeInv, TypeInv
<1> QED
  BY <1>1, <1>2, OpGoesOn

\* A read of the chain returns.
LEMMA ReadReturnsStep ==
    ASSUME BridgeInv, NEW o \in ops, ReadReturns(o)
    PROVE  BridgeInv'
<1>1. "ok" \in Steps /\ ops' = (ops \ {o}) \union {[o EXCEPT !.step = "ok"]}
  BY DEF ReadReturns, Moves, Steps
<1>2. /\ UNCHANGED <<wallet, stale, changes, shown, page, doc, toHost, toFrame,
                     settled, txs>>
      /\ wallet \in Wallets /\ stale \in BOOLEAN /\ txs \subseteq Txs
  BY DEF ReadReturns, host, BridgeInv, TypeInv
<1>3. o.kind # "write"
  BY DEF ReadReturns, BridgeInv, OpInv
<1> QED
  BY <1>1, <1>2, <1>3, OpGoesOn

\* The wallet switched the chain; a write goes on to its signature.
LEMMA SwitchedStep ==
    ASSUME BridgeInv, NEW o \in ops, Switched(o)
    PROVE  BridgeInv'
<1>1. PICK s \in {"signing", "ok"} :
         /\ ops' = (ops \ {o}) \union {[o EXCEPT !.step = s]}
         /\ s = "signing" <=> o.kind = "write"
  BY DEF Switched, Moves
<1>2. wallet \in Wallets /\ wallet.account # None
  BY DEF Switched, BridgeInv, TypeInv
<1>3. wallet' \in Wallets
  BY <1>2, WalletFields DEF Switched
<1>4. stale' \in BOOLEAN
  BY DEF Switched
<1>5. /\ UNCHANGED <<changes, shown, page, doc, toHost, toFrame, settled, txs>>
      /\ txs \subseteq Txs
  BY DEF Switched, BridgeInv, TypeInv
<1>6. o.kind = "write" => o.account \in Accounts
  BY DEF Switched, BridgeInv, OpInv
<1>7. s \in Steps
  BY <1>1 DEF Steps
<1> QED
  BY <1>1, <1>3, <1>4, <1>5, <1>6, <1>7, OpGoesOn

\* The wallet sends a transaction of the request.
LEMMA SendsStep ==
    ASSUME BridgeInv, NEW o \in ops, Sends(o)
    PROVE  BridgeInv'
<1> DEFINE t == [gen |-> o.gen, id |-> o.id, payload |-> o.payload,
                 vault |-> o.vault, account |-> o.account, status |-> "sent"]
<1>1. "waiting" \in Steps /\ ops' = (ops \ {o}) \union {[o EXCEPT !.step = "waiting"]}
  BY DEF Sends, Moves, Steps
<1>2. o.kind = "write" /\ o.account \in Accounts
  BY DEF Sends, BridgeInv, OpInv
<1>3. o \in Ops
  BY DEF BridgeInv, TypeInv
<1>4. t \in Txs
  BY <1>2, <1>3, OpFields DEF Txs
<1>5. txs' = txs \union {t}
  BY DEF Sends
<1> HIDE DEF t
<1>6. /\ UNCHANGED <<wallet, stale, changes, shown, page, doc, toHost, toFrame, settled>>
      /\ wallet \in Wallets /\ stale \in BOOLEAN /\ txs \subseteq Txs
  BY DEF Sends, host, BridgeInv, TypeInv
<1> QED
  BY <1>1, <1>2, <1>4, <1>5, <1>6, OpGoesOn

\* A receipt is answered with success exactly if it says so.
LEMMA ReceiptStep ==
    ASSUME BridgeInv, NEW o \in ops, NEW t \in txs, ReceiptOf(o, t)
    PROVE  BridgeInv'
<1>1. PICK s \in {"ok", "failed"} :
         /\ ops' = (ops \ {o}) \union {[o EXCEPT !.step = s]}
         /\ s = "ok" => t.status \in {"mined", "replaced"}
  BY DEF ReceiptOf, Moves
<1>2. /\ UNCHANGED <<wallet, stale, changes, shown, page, doc, toHost, toFrame,
                     settled, txs>>
      /\ wallet \in Wallets /\ stale \in BOOLEAN /\ txs \subseteq Txs
  BY DEF ReceiptOf, host, BridgeInv, TypeInv
<1>3. s = "ok" => Mined(o)
  BY <1>1 DEF ReceiptOf, Mined
<1>4. s \in Steps /\ s \notin {"reading", "signing", "waiting", "switching"}
  BY DEF Steps
<1> QED
  BY <1>1, <1>2, <1>3, <1>4, OpGoesOn

\* A block settles a transaction that was sent.
LEMMA IncludedStep ==
    ASSUME BridgeInv, NEW t \in txs, NEW status \in {"mined", "reverted", "replaced"},
           Included(t, status)
    PROVE  BridgeInv'
<1> DEFINE u == [t EXCEPT !.status = status]
<1>1. t \in Txs /\ t.status = "sent"
  BY DEF Included, BridgeInv, TypeInv
<1>2. u \in Txs
  BY <1>1 DEF Txs
<1>3. txs' = (txs \ {t}) \union {u}
  BY DEF Included
<1> HIDE DEF u
<1>4. UNCHANGED <<host, doc, toHost, toFrame, ops, settled>>
  BY DEF Included
<1>5. MinedStays
  BY <1>1, <1>3 DEF MinedStays, Mined
<1>6. TypeInv'
  BY <1>2, <1>3, <1>4 DEF BridgeInv, TypeInv, host
<1> QED
  BY <1>4, <1>5, <1>6, DocStays DEF BridgeInv

\* The answer to a call that is awaited tells how its operation ended.
LEMMA RepliesStep ==
    ASSUME BridgeInv, NEW o \in ops, Replies(o)
    PROVE  BridgeInv'
<1> DEFINE m == [kind |-> "answer", id |-> o.id, gen |-> o.gen, ok |-> o.step = "ok"]
<1>1. /\ ops' = ops \ {o} /\ toFrame' = Append(toFrame, m)
      /\ UNCHANGED <<host, doc, toHost, txs, settled>>
  BY DEF Replies
<1>2. o \in Ops /\ OpInv(o)
  BY DEF BridgeInv, TypeInv
<1>3. m \in Answers
  BY <1>2, OpFields DEF Answers
<1>4. m.id = o.id /\ m.gen = o.gen /\ (m.ok <=> o.step = "ok")
  OBVIOUS
<1> HIDE DEF m
<1>5. FrameInv(m)
  BY <1>2, <1>4 DEF FrameInv, OpInv, Issued, AsCalled, Mined
<1>6. /\ toFrame' \in Seq(Pushes \union Answers)
      /\ \A i \in DOMAIN toFrame' : FrameInv(toFrame'[i])
  BY <1>1, <1>3, <1>5, PagePosts
<1>7. TypeInv'
  BY <1>1, <1>6 DEF BridgeInv, TypeInv, host
<1>8. MinedStays
  BY <1>1 DEF MinedStays, Mined
<1> QED
  BY <1>1, <1>6, <1>7, <1>8, DocStays DEF BridgeInv

-----------------------------------------------------------------------------
(* The frame *)

\* A document goes on: it gives out numbers in order and ends calls.
LEMMA DocGoesOn ==
    ASSUME BridgeInv, NEW d \in Docs, doc' = d, d.gen = doc.gen, d.seq >= doc.seq,
           d.pending \subseteq doc.pending,
           UNCHANGED <<host, ops, txs>>,
           NEW m \in Requests, Issued(m)', AsCalled(m)',
           toHost' = toHost \/ toHost' = Append(toHost, m),
           toFrame' \in Seq(Pushes \union Answers),
           \A i \in DOMAIN toFrame' : FrameInv(toFrame'[i]),
           settled' \subseteq Ends, \A s \in settled' : Issued(s)',
           CallsEndOnce', OwnSuccessIsMined'
    PROVE  BridgeInv'
<1>1. doc \in Docs /\ doc.gen <= page /\ toHost \in Seq(Requests)
  BY DEF BridgeInv, TypeInv
<1>2. toHost' \in Seq(Requests)
      /\ \A i \in DOMAIN toHost' :
            (i \in DOMAIN toHost /\ toHost'[i] = toHost[i]) \/ toHost'[i] = m
  <2>1. CASE toHost' = toHost
    BY <1>1, <2>1
  <2>2. CASE toHost' = Append(toHost, m)
    BY <1>1, <2>2, Added
  <2> QED
    BY <2>1, <2>2
<1>3. TypeInv'
  BY <1>1, <1>2 DEF BridgeInv, TypeInv, host
<1>4. /\ doc.gen \in Nat /\ doc.seq \in Nat /\ d.seq \in Nat
      /\ \A p \in doc.pending : p.id \in Nat
  BY DocFields DEF Docs, BridgeInv
<1>5. PendingInv'
  BY <1>4 DEF BridgeInv, PendingInv
<1>6. \A x : x.id \in Nat /\ Issued(x) => Issued(x)'
  BY <1>4 DEF Issued
<1>7. \A x : AsCalled(x) => AsCalled(x)'
  BY DEF AsCalled
<1>8. \A i \in DOMAIN toHost' : RequestInv(toHost[i])'
  <2> SUFFICES ASSUME NEW i \in DOMAIN toHost' PROVE RequestInv(toHost[i])'
    OBVIOUS
  <2>1. PICK x : x = toHost'[i]
    OBVIOUS
  <2>2. CASE x = m
    <3>1. RequestInv(m)'
      BY DEF RequestInv
    <3> QED
      BY <2>1, <2>2, <3>1 DEF RequestInv, Issued, AsCalled
  <2>3. CASE x # m
    <3>1. i \in DOMAIN toHost /\ x = toHost[i] /\ x \in Requests
      BY <1>1, <1>2, <2>1, <2>3
    <3>2. RequestInv(x) /\ x.id \in Nat
      BY <3>1, RequestFields DEF BridgeInv
    <3>3. RequestInv(x)'
      BY <1>6, <1>7, <3>2 DEF RequestInv
    <3> QED
      BY <2>1, <3>3 DEF RequestInv, Issued, AsCalled
  <2> QED
    BY <2>2, <2>3
<1>9. ASSUME NEW o \in ops
      PROVE  OpInv(o)'
  <2>1. OpInv(o) /\ o.id \in Nat
    BY OpFields DEF BridgeInv, TypeInv
  <2> QED
    BY <1>6, <1>7, <2>1 DEF OpInv, Mined
<1>10. ASSUME NEW i \in DOMAIN toFrame'
       PROVE  FrameInv(toFrame[i])'
  <2>1. PICK x : x = toFrame'[i]
    OBVIOUS
  <2>2. x \in Pushes \union Answers
    BY <2>1
  <2>3. FrameInv(x) /\ (x.kind = "answer" => x.id \in Nat)
    BY <2>1, <2>2, AnswerFields
  <2>4. FrameInv(x)'
    BY <1>6, <2>3 DEF FrameInv, Mined
  <2> QED
    BY <2>1, <2>4 DEF FrameInv, Issued, Mined
<1> QED
  BY <1>3, <1>5, <1>8, <1>9, <1>10 DEF BridgeInv

\* A document that boots, or crashes.
LEMMA BootsStep ==
    ASSUME BridgeInv, Boots \/ Crashes
    PROVE  BridgeInv'
<1>1. doc \in Docs /\ doc.seq \in Nat /\ doc.gen \in Nat /\ MaxSeq \in Nat
  BY DocFields, VaultBridgeAssumption DEF BridgeInv, TypeInv
<1>2. /\ toFrame \in Seq(Pushes \union Answers) /\ settled \subseteq Ends
      /\ \A i \in DOMAIN toFrame : FrameInv(toFrame[i])
      /\ CallsEndOnce /\ OwnSuccessIsMined
      /\ \A s \in settled : Issued(s) /\ s.id \in Nat
  BY EndFields DEF BridgeInv, TypeInv
<1>3. CASE Boots
  <2> DEFINE d == [doc EXCEPT !.state = "up", !.seq = doc.seq + 1]
             r == [gen |-> doc.gen, id |-> doc.seq + 1, kind |-> "ready",
                   payload |-> None]
  <2>1. /\ doc' = d /\ toHost' = Append(toHost, r) /\ doc.seq < MaxSeq
        /\ UNCHANGED <<host, toFrame, ops, txs, settled>>
    BY <1>1, <1>3 DEF Boots, Posts, Docs
  <2>2. doc.seq + 1 \in 0..MaxSeq /\ doc.seq + 1 \in 1..MaxSeq
    BY <1>1, <2>1
  <2>3. /\ d \in Docs /\ d.gen = doc.gen /\ d.seq = doc.seq + 1
        /\ d.pending = doc.pending
    BY <1>1, <2>2 DEF Docs
  <2>4. doc.gen \in 1..MaxDocs
    BY DocFields DEF BridgeInv
  <2>5. r \in Requests /\ r.gen = doc.gen /\ r.id = doc.seq + 1
    BY <2>2, <2>4 DEF Requests
  <2> HIDE DEF d, r
  <2>10. PICK m \in Requests : m = r
    BY <2>5
  <2>6. Issued(m)'
    BY <1>1, <2>1, <2>3, <2>5, <2>10 DEF Issued
  <2>7. AsCalled(m)'
    <3>1. \A p \in doc.pending : p.id <= doc.seq /\ p.id \in Nat
      BY DocFields DEF BridgeInv, PendingInv
    <3> QED
      BY <1>1, <2>1, <2>3, <2>5, <2>10, <3>1 DEF AsCalled
  <2>8. \A s \in settled : Issued(s)'
    BY <1>1, <1>2, <2>1, <2>3 DEF Issued
  <2>9. CallsEndOnce' /\ OwnSuccessIsMined'
    BY <1>2, <2>1, <2>3 DEF CallsEndOnce, OwnSuccessIsMined
  <2> QED
    BY <1>1, <1>2, <2>1, <2>3, <2>6, <2>7, <2>8, <2>9, <2>10, DocGoesOn
<1>4. CASE Crashes
  <2> DEFINE d == [doc EXCEPT !.state = "crashed"]
  <2>1. doc' = d /\ UNCHANGED <<host, toHost, toFrame, ops, txs, settled>>
    BY <1>4 DEF Crashes
  <2>2. /\ d \in Docs /\ d.gen = doc.gen /\ d.seq = doc.seq
        /\ d.pending = doc.pending
    BY <1>1 DEF Docs
  <2> HIDE DEF d
  <2>3. BridgeInv'
    <3>1. \A x : Issued(x) <=> Issued(x)'
      BY <2>1, <2>2 DEF Issued
    <3>2. \A x : AsCalled(x) <=> AsCalled(x)'
      BY <2>1, <2>2 DEF AsCalled
    <3>3. \A x : Mined(x) <=> Mined(x)'
      BY <2>1 DEF Mined
    <3>4. TypeInv'
      BY <2>1, <2>2 DEF BridgeInv, TypeInv, host
    <3>5. PendingInv' /\ CallsEndOnce' /\ OwnSuccessIsMined'
      BY <1>2, <2>1, <2>2
         DEF BridgeInv, PendingInv, CallsEndOnce, OwnSuccessIsMined
    <3>6. /\ \A i \in DOMAIN toHost : RequestInv(toHost[i])'
          /\ \A i \in DOMAIN toFrame : FrameInv(toFrame[i])'
      BY <2>1, <2>2 DEF BridgeInv, RequestInv, FrameInv, Issued, AsCalled, Mined
    <3>7. \A o \in ops : OpInv(o)'
      BY <3>1, <3>2, <3>3 DEF BridgeInv, OpInv
    <3> QED
      BY <1>2, <2>1, <3>1, <3>4, <3>5, <3>6, <3>7 DEF BridgeInv
  <2> QED
    BY <2>3
<1> QED
  BY <1>3, <1>4

\* A call ends: it was awaited, so it has not ended before, and it is not
\* awaited any more.
LEMMA CallEnds ==
    ASSUME BridgeInv, NEW p \in doc.pending, NEW e \in Ends,
           e.gen = doc.gen, e.id = p.id, e.kind = p.kind,
           e.kind = "write" /\ e.by = e.gen /\ e.ok => Mined(e),
           NEW d \in Docs, doc' = d, d.gen = doc.gen, d.seq = doc.seq,
           d.pending = doc.pending \ {p}, UNCHANGED <<host, toHost, ops, txs>>,
           settled' = settled \union {e},
           toFrame' \in Seq(Pushes \union Answers),
           \A i \in DOMAIN toFrame' : FrameInv(toFrame'[i])
    PROVE  BridgeInv'
<1>1. /\ doc.gen \in Nat /\ doc.seq \in Nat /\ d.seq \in Nat
      /\ \A q \in doc.pending : q.id \in Nat
  BY DocFields DEF Docs, BridgeInv
<1>2. \A x : Issued(x) <=> Issued(x)'
  BY DEF Issued
<1>3. \A x : AsCalled(x) => AsCalled(x)'
  BY DEF AsCalled
<1>4. \A x : Mined(x) <=> Mined(x)'
  BY DEF Mined
<1>5. /\ settled \subseteq Ends /\ CallsEndOnce /\ OwnSuccessIsMined
      /\ PendingInv /\ \A s \in settled : Issued(s)
  BY DEF BridgeInv, TypeInv
<1>6. Issued(e)
  BY <1>1, <1>5 DEF Issued, PendingInv
<1>7. \A s \in settled' : Issued(s)'
  BY <1>2, <1>5, <1>6
<1>8. \A s \in settled : <<s.gen, s.id>> # <<e.gen, e.id>>
  BY <1>5 DEF CallsEndOnce
<1>9. CallsEndOnce'
  <2>1. \A s, r \in settled' : <<s.gen, s.id>> = <<r.gen, r.id>> => s = r
    BY <1>5, <1>8 DEF CallsEndOnce
  <2>2. \A s \in settled' : s.gen = d.gen => \A q \in d.pending : q.id # s.id
    <3> SUFFICES ASSUME NEW s \in settled', s.gen = d.gen, NEW q \in d.pending
                 PROVE  q.id # s.id
      OBVIOUS
    <3>1. CASE s = e
      BY <1>5, <3>1 DEF PendingInv
    <3>2. CASE s # e
      BY <1>5, <3>2 DEF CallsEndOnce
    <3> QED
      BY <3>1, <3>2
  <2> QED
    BY <2>1, <2>2 DEF CallsEndOnce
<1>10. OwnSuccessIsMined'
  <2>1. \A s \in settled : s.kind = "write" /\ s.by = s.gen /\ s.ok => Mined(s)
    BY <1>5 DEF OwnSuccessIsMined, Mined
  <2>2. \A s \in settled' : s.kind = "write" /\ s.by = s.gen /\ s.ok => Mined(s)
    BY <2>1
  <2> QED
    BY <2>2 DEF OwnSuccessIsMined, Mined
<1>11. TypeInv'
  BY DEF BridgeInv, TypeInv, host
<1>12. PendingInv'
  BY <1>5 DEF PendingInv
<1>13. \A i \in DOMAIN toHost' : RequestInv(toHost[i])'
  BY DEF BridgeInv, RequestInv, Issued, AsCalled
<1>14. \A o \in ops' : OpInv(o)'
  BY <1>2, <1>3, <1>4 DEF BridgeInv, OpInv
<1>15. \A i \in DOMAIN toFrame' : FrameInv(toFrame[i])'
  BY DEF FrameInv, Issued, Mined
<1> QED
  BY <1>7, <1>9, <1>10, <1>11, <1>12, <1>13, <1>14, <1>15 DEF BridgeInv

\* The timer of a call ends it in the frame, wherever its request is.
LEMMA TimesOutStep ==
    ASSUME BridgeInv, NEW p \in doc.pending, TimesOut(p)
    PROVE  BridgeInv'
<1> DEFINE d == [doc EXCEPT !.pending = doc.pending \ {p}]
           r == [gen |-> doc.gen, id |-> p.id, kind |-> p.kind, by |-> None,
                 ok |-> FALSE]
<1>1. doc \in Docs /\ toFrame \in Seq(Pushes \union Answers)
      /\ \A i \in DOMAIN toFrame : FrameInv(toFrame[i])
  BY DEF BridgeInv, TypeInv
<1>2. /\ doc' = d /\ settled' = settled \union {r}
      /\ UNCHANGED <<host, toHost, toFrame, ops, txs>>
  BY <1>1 DEF TimesOut, End
<1>3. p.id \in 1..MaxSeq /\ p.kind \in Kinds /\ doc.gen \in 1..MaxDocs
  BY DocFields DEF BridgeInv
<1>4. /\ r \in Ends /\ r.gen = doc.gen /\ r.id = p.id /\ r.kind = p.kind
      /\ r.ok = FALSE
  BY <1>3 DEF Ends
<1>5. /\ d \in Docs /\ d.gen = doc.gen /\ d.seq = doc.seq
      /\ d.pending = doc.pending \ {p}
  BY <1>1 DEF Docs
<1> HIDE DEF d, r
<1> QED
  BY <1>1, <1>2, <1>4, <1>5, CallEnds

\* A message of the page: at most one call awaits an answer of its number.
LEMMA FrameReceivesStep ==
    ASSUME BridgeInv, FrameReceives
    PROVE  BridgeInv'
<1> DEFINE m == Head(toFrame)
<1>1. /\ toFrame # <<>> /\ toFrame \in Seq(Pushes \union Answers)
      /\ toFrame' = Tail(toFrame) /\ UNCHANGED <<host, toHost, ops, txs>>
  BY DEF FrameReceives, BridgeInv, TypeInv
<1>2. /\ toFrame' \in Seq(Pushes \union Answers) /\ m \in Pushes \union Answers
      /\ 1 \in DOMAIN toFrame /\ m = toFrame[1]
      /\ \A i \in DOMAIN toFrame' :
            i + 1 \in DOMAIN toFrame /\ toFrame'[i] = toFrame[i + 1]
  BY <1>1, Taken
<1>3. FrameInv(m) /\ \A i \in DOMAIN toFrame' : FrameInv(toFrame'[i])
  BY <1>2 DEF BridgeInv
<1>4. CASE doc.state = "loading"
  <2>1. UNCHANGED <<doc, settled>>
    BY <1>4 DEF FrameReceives
  <2>2. TypeInv'
    BY <1>1, <1>2, <2>1 DEF BridgeInv, TypeInv, host
  <2>3. MinedStays
    BY <1>1 DEF MinedStays, Mined
  <2> QED
    BY <1>1, <1>3, <2>1, <2>2, <2>3, DocStays DEF BridgeInv
<1>5. CASE doc.state # "loading"
  <2> DEFINE view == IF m.kind = "wallet" THEN m.wallet ELSE doc.view
             d == [doc EXCEPT !.view = view, !.pending = doc.pending \ Awaited(m)]
  <2>1. doc \in Docs
    BY DEF BridgeInv, TypeInv
  <2>2. doc' = d
    BY <1>5, <2>1 DEF FrameReceives, Docs
  <2>3. settled' = settled \union UNION {End(p, m.gen, m.ok) : p \in Awaited(m)}
    BY <1>5 DEF FrameReceives
  <2>4. view \in Wallets
    BY <1>2, AnswerFields, DocFields DEF BridgeInv
  <2>5. Awaited(m) \subseteq doc.pending
    BY DEF Awaited
  <2> HIDE DEF view, m
  <2>6. /\ d \in Docs /\ d.gen = doc.gen /\ d.seq = doc.seq
        /\ d.pending = doc.pending \ Awaited(m)
    <3> HIDE DEF Awaited
    <3> QED
      BY <2>1, <2>4, <2>5 DEF Docs
  <2> HIDE DEF d
  <2>7. CASE Awaited(m) = {}
    <3>1. settled' = settled
      BY <2>3, <2>7
    <3>2. d.pending = doc.pending
      BY <2>6, <2>7
    <3>3. \A x : Issued(x) <=> Issued(x)'
      BY <2>2, <2>6 DEF Issued
    <3>4. \A x : AsCalled(x) <=> AsCalled(x)'
      BY <2>2, <2>6, <3>2 DEF AsCalled
    <3>5. \A x : Mined(x) <=> Mined(x)'
      BY <1>1 DEF Mined
    <3>6. TypeInv'
      BY <1>1, <1>2, <2>2, <2>6, <3>1 DEF BridgeInv, TypeInv, host
    <3>7. PendingInv' /\ CallsEndOnce' /\ OwnSuccessIsMined'
      BY <1>1, <2>2, <2>6, <3>1, <3>2
         DEF BridgeInv, PendingInv, CallsEndOnce, OwnSuccessIsMined
    <3>8. \A i \in DOMAIN toHost' : RequestInv(toHost[i])'
      BY <1>1, <2>2, <2>6, <3>2 DEF BridgeInv, RequestInv, Issued, AsCalled
    <3>9. \A i \in DOMAIN toFrame' : FrameInv(toFrame[i])'
      BY <1>1, <1>3, <2>2, <2>6, <3>2 DEF FrameInv, Issued, Mined
    <3>10. \A o \in ops' : OpInv(o)'
      BY <1>1, <3>3, <3>4, <3>5 DEF BridgeInv, OpInv
    <3>11. \A s \in settled' : Issued(s)'
      BY <3>1, <3>3 DEF BridgeInv
    <3> QED
      BY <3>6, <3>7, <3>8, <3>9, <3>10, <3>11 DEF BridgeInv
  <2>8. CASE Awaited(m) # {}
    <3>1. PICK p \in doc.pending : p \in Awaited(m)
      BY <2>5, <2>8
    <3>2. Awaited(m) = {p} /\ m.kind = "answer" /\ p.id = m.id
      BY <3>1 DEF Awaited, BridgeInv, PendingInv
    <3> DEFINE e == [gen |-> doc.gen, id |-> p.id, kind |-> p.kind, by |-> m.gen,
                     ok |-> m.ok]
    <3>3. settled' = settled \union {e}
      BY <2>3, <3>2 DEF End
    <3>4. p.id \in 1..MaxSeq /\ p.kind \in Kinds /\ doc.gen \in 1..MaxDocs
      BY DocFields DEF BridgeInv
    <3>5. m.gen \in 1..MaxDocs /\ m.ok \in BOOLEAN
      BY <1>2, <3>2, AnswerFields DEF m
    <3>6. /\ e \in Ends /\ e.gen = doc.gen /\ e.id = p.id /\ e.kind = p.kind
          /\ e.by = m.gen /\ (e.ok <=> m.ok)
      BY <3>4, <3>5 DEF Ends
    <3> HIDE DEF e
    <3>7. e.kind = "write" /\ e.by = e.gen /\ e.ok => Mined(e)
      BY <1>3, <3>2, <3>6 DEF FrameInv, Mined, m
    <3> QED
      BY <1>1, <1>2, <1>3, <2>2, <2>6, <3>2, <3>3, <3>6, <3>7, CallEnds
  <2> QED
    BY <2>7, <2>8
<1> QED
  BY <1>4, <1>5

\* A new document: nothing is under way for its calls, for its number is new.
LEMMA LoadsStep ==
    ASSUME BridgeInv, Loads
    PROVE  BridgeInv'
<1> DEFINE d == Document(page, shown)
<1>1. /\ doc.gen < page /\ doc' = d /\ toFrame' = <<>>
      /\ UNCHANGED <<host, toHost, ops, txs, settled>>
  BY DEF Loads
<1>2. page \in 1..MaxDocs /\ shown \in Vaults \union {None} /\ MaxSeq \in Nat
      /\ doc.gen \in 1..MaxDocs /\ MaxDocs \in Nat
  BY DocFields, VaultBridgeAssumption DEF BridgeInv, TypeInv
<1>3. d \in Docs /\ d.gen = page /\ d.pending = {} /\ d.seq = 0
  BY <1>2 DEF Document, Docs, Wallets
<1> HIDE DEF d
<1>4. \A x : x.gen \in 1..MaxDocs /\ Issued(x) => Issued(x)' /\ AsCalled(x)'
  BY <1>1, <1>2, <1>3 DEF Issued, AsCalled
<1>5. \A x : Mined(x) <=> Mined(x)'
  BY <1>1 DEF Mined
<1>6. TypeInv'
  <2>1. toFrame' \in Seq(Pushes \union Answers)
    BY <1>1
  <2> QED
    BY <1>1, <1>2, <1>3, <2>1 DEF BridgeInv, TypeInv, host
<1>7. \A s \in settled' : Issued(s)'
  BY <1>1, <1>4, EndFields DEF BridgeInv, TypeInv
<1>8. PendingInv' /\ CallsEndOnce' /\ OwnSuccessIsMined'
  BY <1>1, <1>3
     DEF BridgeInv, PendingInv, CallsEndOnce, OwnSuccessIsMined
<1>9. \A o \in ops' : OpInv(o)'
  <2> SUFFICES ASSUME NEW o \in ops PROVE OpInv(o)'
    BY <1>1
  <2>1. OpInv(o) /\ o.gen \in 1..MaxDocs
    BY OpFields DEF BridgeInv, TypeInv
  <2> QED
    BY <1>4, <1>5, <2>1 DEF OpInv
<1>10. \A i \in DOMAIN toHost' : RequestInv(toHost[i])'
  <2> SUFFICES ASSUME NEW i \in DOMAIN toHost PROVE RequestInv(toHost[i])'
    BY <1>1
  <2>1. PICK x : x = toHost[i]
    OBVIOUS
  <2>2. x \in Requests /\ RequestInv(x)
    BY <2>1 DEF BridgeInv, TypeInv
  <2>3. RequestInv(x)'
    BY <1>4, <2>2, RequestFields DEF RequestInv
  <2>4. toHost'[i] = x
    BY <1>1, <2>1
  <2> QED
    BY <2>3, <2>4 DEF RequestInv, Issued, AsCalled
<1>11. DOMAIN toFrame' = {}
  BY <1>1
<1> QED
  BY <1>6, <1>7, <1>8, <1>9, <1>10, <1>11 DEF BridgeInv

\* A call takes the next number of the document, which nothing carries yet.
LEMMA CallsStep ==
    ASSUME BridgeInv, NEW kind \in Kinds, NEW payload \in Payloads \union {None},
           Calls(kind, payload)
    PROVE  BridgeInv'
<1>1. /\ doc \in Docs /\ doc.seq \in Nat /\ doc.gen \in 1..MaxDocs /\ MaxSeq \in Nat
      /\ doc.pending \subseteq [id : 1..MaxSeq, kind : Kinds]
  BY DocFields, VaultBridgeAssumption DEF BridgeInv, TypeInv
<1>2. PICK n : n = doc.seq + 1
  OBVIOUS
<1>3. n \in 1..MaxSeq /\ n \in Nat /\ n > doc.seq
  BY <1>1, <1>2 DEF Calls
<1>4. PICK c : c = [id |-> n, kind |-> kind]
  OBVIOUS
<1>5. PICK m : m = [gen |-> doc.gen, id |-> n, kind |-> kind, payload |-> payload]
  OBVIOUS
<1> DEFINE d == [doc EXCEPT !.seq = n, !.pending = doc.pending \union {c}]
<1>6. /\ doc' = d /\ toHost' = Append(toHost, m)
      /\ UNCHANGED <<host, toFrame, ops, txs, settled>>
  BY <1>1, <1>2, <1>4, <1>5 DEF Calls, Posts, Docs
<1>7. c \in [id : 1..MaxSeq, kind : Kinds] /\ c.id = n /\ c.kind = kind
  BY <1>3, <1>4
<1>8. /\ d \in Docs /\ d.gen = doc.gen /\ d.seq = n
      /\ d.pending = doc.pending \union {c}
  <2>1. doc.pending \union {c} \subseteq [id : 1..MaxSeq, kind : Kinds]
    BY <1>1, <1>7
  <2>2. n \in 0..MaxSeq
    BY <1>1, <1>3
  <2> QED
    BY <1>1, <2>1, <2>2 DEF Docs
<1>9. m \in Requests /\ m.gen = doc.gen /\ m.id = n /\ m.kind = kind
  BY <1>1, <1>3, <1>5 DEF Requests
<1> HIDE DEF d
<1>10. \A x : x.id \in Nat /\ Issued(x) => Issued(x)' /\ (x.gen = doc.gen => x.id # n)
  BY <1>1, <1>3, <1>6, <1>8 DEF Issued
<1>11. \A x : x.id \in Nat /\ Issued(x) /\ AsCalled(x) => AsCalled(x)'
  BY <1>6, <1>7, <1>8, <1>10 DEF AsCalled
<1>12. \A x : Mined(x) <=> Mined(x)'
  BY <1>6 DEF Mined
<1>13. \A p \in doc.pending : p.id \in Nat /\ p.id <= doc.seq
  BY DocFields DEF BridgeInv, PendingInv
<1>14. toHost \in Seq(Requests)
  BY DEF BridgeInv, TypeInv
<1>15. /\ toHost' \in Seq(Requests)
       /\ \A i \in DOMAIN toHost' :
             (i \in DOMAIN toHost /\ toHost'[i] = toHost[i]) \/ toHost'[i] = m
  BY <1>6, <1>9, <1>14, Added
<1>16. TypeInv'
  BY <1>6, <1>8, <1>15 DEF BridgeInv, TypeInv, host
<1>17. PendingInv'
  <2>1. \A p \in d.pending : p.id <= n
    BY <1>1, <1>3, <1>7, <1>8, <1>13
  <2>2. \A p, q \in d.pending : p.id = q.id => p = q
    BY <1>1, <1>3, <1>7, <1>8, <1>13 DEF BridgeInv, PendingInv
  <2> QED
    BY <1>6, <1>8, <2>1, <2>2 DEF PendingInv
<1>18. RequestInv(m)'
  <2>1. Issued(m)'
    BY <1>1, <1>3, <1>6, <1>8, <1>9 DEF Issued
  <2>2. \A p \in d.pending : p.id = n => p = c
    BY <1>1, <1>3, <1>8, <1>13
  <2>3. AsCalled(m)'
    BY <1>6, <1>7, <1>8, <1>9, <2>2 DEF AsCalled
  <2> QED
    BY <2>1, <2>3 DEF RequestInv
<1>19. \A i \in DOMAIN toHost' : RequestInv(toHost[i])'
  <2> SUFFICES ASSUME NEW i \in DOMAIN toHost' PROVE RequestInv(toHost[i])'
    OBVIOUS
  <2>1. PICK x : x = toHost'[i]
    OBVIOUS
  <2>2. RequestInv(x)'
    <3>1. CASE x = m
      BY <1>18, <3>1
    <3>2. CASE x # m
      <4>1. i \in DOMAIN toHost /\ x = toHost[i] /\ x \in Requests
        BY <1>14, <1>15, <2>1, <3>2
      <4>2. RequestInv(x) /\ x.id \in Nat
        BY <4>1, RequestFields DEF BridgeInv
      <4> QED
        BY <1>10, <1>11, <4>2 DEF RequestInv
    <3> QED
      BY <3>1, <3>2
  <2> QED
    BY <2>1, <2>2 DEF RequestInv, Issued, AsCalled
<1>20. \A o \in ops' : OpInv(o)'
  <2> SUFFICES ASSUME NEW o \in ops PROVE OpInv(o)'
    BY <1>6
  <2>1. OpInv(o) /\ o.id \in Nat
    BY OpFields DEF BridgeInv, TypeInv
  <2> QED
    BY <1>10, <1>11, <1>12, <2>1 DEF OpInv
<1>21. \A i \in DOMAIN toFrame' : FrameInv(toFrame[i])'
  <2> SUFFICES ASSUME NEW i \in DOMAIN toFrame PROVE FrameInv(toFrame[i])'
    BY <1>6
  <2>1. PICK x : x = toFrame[i]
    OBVIOUS
  <2>2. x \in Pushes \union Answers /\ FrameInv(x)
    BY <2>1 DEF BridgeInv, TypeInv
  <2>3. x.kind = "answer" => x.id \in Nat /\ Issued(x)
    BY <2>2, AnswerFields DEF FrameInv
  <2>4. FrameInv(x)'
    BY <1>6, <1>7, <1>8, <1>10, <1>12, <2>2, <2>3 DEF FrameInv
  <2>5. toFrame'[i] = x
    BY <1>6, <2>1
  <2> QED
    BY <2>4, <2>5 DEF FrameInv, Issued, Mined
<1>22. \A s \in settled : s.id \in Nat /\ Issued(s)
  BY EndFields DEF BridgeInv, TypeInv
<1>23. \A s \in settled' : Issued(s)'
  BY <1>6, <1>10, <1>22
<1>24. CallsEndOnce'
  BY <1>6, <1>7, <1>8, <1>10, <1>22 DEF BridgeInv, CallsEndOnce
<1>25. OwnSuccessIsMined'
  BY <1>6 DEF BridgeInv, OwnSuccessIsMined
<1> QED
  BY <1>16, <1>17, <1>19, <1>20, <1>21, <1>23, <1>24, <1>25 DEF BridgeInv

-----------------------------------------------------------------------------
(* The theorems *)

\* At first there is a document that has called nothing.
LEMMA BridgeInvInit ==
    ASSUME Init
    PROVE  BridgeInv
<1>1. /\ wallet = Unknown /\ changes = 0 /\ stale = TRUE /\ page = 1
      /\ shown \in Vaults \union {None} /\ doc = Document(1, shown)
      /\ toHost = <<>> /\ toFrame = <<>> /\ ops = {} /\ txs = {} /\ settled = {}
  BY DEF Init
<1>2. MaxDocs \in Nat \ {0} /\ MaxSeq \in Nat /\ MaxChanges \in Nat
  BY VaultBridgeAssumption
<1>3. Unknown \in Wallets
  BY DEF Wallets
<1>4. doc \in Docs /\ doc.pending = {} /\ doc.gen = 1
  BY <1>1, <1>2, <1>3 DEF Document, Docs
<1>5. TypeInv
  BY <1>1, <1>2, <1>3, <1>4 DEF TypeInv
<1>6. DOMAIN toHost = {} /\ DOMAIN toFrame = {}
  BY <1>1
<1> QED
  BY <1>1, <1>4, <1>5, <1>6
     DEF BridgeInv, PendingInv, CallsEndOnce, OwnSuccessIsMined

\* The inductive step.
LEMMA BridgeInvStep ==
    ASSUME BridgeInv, [Next]_vars
    PROVE  BridgeInv'
<1>1. CASE UNCHANGED vars
  BY <1>1 DEF vars, host, BridgeInv, TypeInv, PendingInv, RequestInv, OpInv,
     FrameInv, Issued, AsCalled, Mined, CallsEndOnce, OwnSuccessIsMined
<1>2. CASE \/ \E w \in Wallets : WalletChanges(w)
           \/ \E v \in Vaults \union {shown} : PageChanges(v)
           \/ PushEffect
  BY <1>2, PageStep
<1>3. ASSUME NEW o \in ops,
             \/ Fails(o) \/ ReadReturns(o) \/ Switched(o) \/ Sends(o) \/ Replies(o)
             \/ \E t \in txs : ReceiptOf(o, t)
      PROVE  BridgeInv'
  BY <1>3, FailsStep, ReadReturnsStep, SwitchedStep, SendsStep, RepliesStep,
     ReceiptStep
<1>4. ASSUME NEW t \in txs, NEW s \in {"mined", "reverted", "replaced"}, Included(t, s)
      PROVE  BridgeInv'
  BY <1>4, IncludedStep
<1>5. ASSUME NEW k \in Kinds, NEW p \in Payloads \union {None}, Calls(k, p)
      PROVE  BridgeInv'
  BY <1>5, CallsStep
<1>6. ASSUME NEW p \in doc.pending, TimesOut(p)
      PROVE  BridgeInv'
  BY <1>6, TimesOutStep
<1> QED
  BY <1>1, <1>2, <1>3, <1>4, <1>5, <1>6, HostReceivesStep, LoadsStep, BootsStep,
     FrameReceivesStep DEF Next

\* What is under way for a call, in every reachable state.
THEOREM BridgeInvariance == Spec => []BridgeInv
BY BridgeInvInit, BridgeInvStep, PTL DEF Spec

\* The wallet, the documents, the messages and the operations keep their
\* types; an operation that is to be signed has an account.
THEOREM BridgeTypes == Spec => []TypeOK
<1>1. BridgeInv => TypeOK
  <2> SUFFICES ASSUME BridgeInv PROVE TypeOK
    OBVIOUS
  <2>1. TypeInv
    BY DEF BridgeInv
  <2>2. doc \in [gen : 1..page, vault : Vaults \union {None}, seq : 0..MaxSeq,
                 state : {"loading", "up", "crashed"},
                 pending : SUBSET [id : 1..MaxSeq, kind : Kinds], view : Wallets]
    <3>1. doc \in Docs /\ doc.gen <= page /\ page \in Nat /\ doc.gen \in 1..MaxDocs
      BY <2>1, DocFields DEF TypeInv
    <3>2. doc.gen \in 1..page
      BY <3>1
    <3> QED
      BY <3>1, <3>2 DEF Docs
  <2>3. ASSUME NEW i \in DOMAIN toHost
        PROVE  toHost[i].id \in 1..MaxSeq /\ toHost[i].gen <= doc.gen
    <3>1. toHost[i] \in Requests
      BY <2>1 DEF TypeInv
    <3> QED
      BY <3>1, RequestFields DEF BridgeInv, RequestInv, Issued
  <2>4. ASSUME NEW i \in DOMAIN toFrame
        PROVE  toFrame[i].kind \in {"wallet", "answer"}
    <3>1. toFrame[i] \in Pushes \union Answers
      BY <2>1 DEF TypeInv
    <3> QED
      BY <3>1, AnswerFields
  <2>5. ASSUME NEW o \in ops
        PROVE  /\ o.kind \in Kinds /\ o.vault \in Vaults \union {None}
               /\ o.step \in Steps
               /\ o.step \in {"signing", "waiting"} => o.account \in Accounts
    BY <2>1, OpFields DEF TypeInv, BridgeInv, OpInv
  <2>6. \A t \in txs :
            t.account \in Accounts /\ t.status \in {"sent", "mined", "reverted", "replaced"}
    BY <2>1, TxFields DEF TypeInv
  <2>7. \A s \in settled : s.kind \in Kinds /\ s.ok \in BOOLEAN
    BY <2>1, EndFields DEF TypeInv
  <2> QED
    BY <2>1, <2>2, <2>3, <2>4, <2>5, <2>6, <2>7 DEF TypeOK, TypeInv, Steps
<1> QED
  BY <1>1, BridgeInvariance, PTL

\* A call ends once, for any number of documents and calls: a late answer, a
\* timeout, or an answer meant for another document, never end it again
\* (bridgeCall of vault-runtime/bridge-client.ts).
THEOREM BridgeCallsEndOnce == Spec => []CallsEndOnce
<1>1. BridgeInv => CallsEndOnce
  BY DEF BridgeInv
<1> QED
  BY <1>1, BridgeInvariance, PTL

\* A write that its own request answers with success has been mined with
\* success or was replaced in the wallet, however the wallet, the chain and the documents go on meanwhile
\* (handleRequest of VaultCustomUI.tsx).
THEOREM BridgeSuccessIsMined == Spec => []OwnSuccessIsMined
<1>1. BridgeInv => OwnSuccessIsMined
  BY DEF BridgeInv
<1> QED
  BY <1>1, BridgeInvariance, PTL

=============================================================================
