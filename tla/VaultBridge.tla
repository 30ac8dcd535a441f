---------------------------- MODULE VaultBridge ----------------------------
(***************************************************************************)
(* The page and the sandboxed frame of a generated vault UI.  The frame    *)
(* has no wallet: it asks by message, the page reads, prompts and sends    *)
(* for it, and answers by the number of the call.  The frame's document is *)
(* replaced whenever what the page shows changes, which happens by itself  *)
(* when a token is launched, and each document numbers its calls anew.     *)
(***************************************************************************)
EXTENDS Integers, Sequences

CONSTANTS
    Vaults, Accounts,
    None,          \* no vault: the preview; no account; no spender
    Stranger,      \* a contract that is neither a vault nor its token
    Payloads,      \* what the component's code may ask to write
    MaxDocs,       \* bound: documents of the frame
    MaxSeq,        \* bound: numbers one document gives out
    MaxChanges     \* bound: changes of the wallet by its owner

ASSUME VaultBridgeAssumption ==
    /\ None \notin Vaults \union Accounts /\ Stranger \notin Vaults
    /\ Payloads \subseteq [target : Vaults \union {Stranger}, spender : Vaults \union {None, Stranger}]
    /\ MaxDocs \in Nat \ {0} /\ MaxSeq \in Nat /\ MaxChanges \in Nat

VARIABLES
    wallet,        \* the account connected, and whether on the vault's chain
    changes,
    stale,         \* the effect that pushes the wallet has yet to run
    shown, page,   \* the vault of the props; srcDoc, as a number
    doc,           \* the document in the frame
    toHost,        \* messages the frame's documents posted
    toFrame,       \* messages posted to the frame's present document
    ops,           \* requests the page works on
    txs,
    settled        \* history: how calls ended in the frame

host == <<wallet, changes, stale, shown, page>>
vars == <<host, doc, toHost, toFrame, ops, txs, settled>>

\* The chain of a wallet that is not connected makes no difference.
Unknown == [account |-> None, right |-> FALSE]
Wallets == {Unknown} \union [account : Accounts, right : BOOLEAN]
Kinds == {"read", "write", "switchChain"}
Document(n, v) == [gen |-> n, vault |-> v, state |-> "loading", seq |-> 0,
                   pending |-> {}, view |-> Unknown]

TypeOK ==
    /\ wallet \in Wallets /\ changes \in 0..MaxChanges /\ stale \in BOOLEAN
    /\ shown \in Vaults \union {None} /\ page \in 1..MaxDocs
    /\ doc \in [gen : 1..page, vault : Vaults \union {None}, seq : 0..MaxSeq,
                state : {"loading", "up", "crashed"},
                pending : SUBSET [id : 1..MaxSeq, kind : Kinds], view : Wallets]
    /\ \A i \in DOMAIN toHost : toHost[i].id \in 1..MaxSeq /\ toHost[i].gen <= doc.gen
    /\ \A i \in DOMAIN toFrame : toFrame[i].kind \in {"wallet", "answer"}
    /\ \A o \in ops :
           /\ o.kind \in Kinds /\ o.vault \in Vaults \union {None}
           /\ o.step \in {"reading", "switching", "signing", "waiting", "ok", "failed"}
           /\ o.step \in {"signing", "waiting"} => o.account \in Accounts
    /\ \A t \in txs :
           t.account \in Accounts /\ t.status \in {"sent", "mined", "reverted", "replaced"}
    /\ \A s \in settled : s.kind \in Kinds /\ s.ok \in BOOLEAN

\* A page begins without an account; the wallet reconnects after.
Init ==
    /\ wallet = Unknown /\ changes = 0 /\ stale = TRUE
    /\ shown \in Vaults \union {None} /\ page = 1
    /\ doc = Document(1, shown)
    /\ toHost = <<>> /\ toFrame = <<>>
    /\ ops = {} /\ txs = {} /\ settled = {}

-----------------------------------------------------------------------------
(* The page *)

\* pushWalletState
Push == [kind |-> "wallet", wallet |-> wallet]

WalletChanges(w) ==
    /\ changes < MaxChanges /\ w # wallet
    /\ wallet' = w /\ changes' = changes + 1 /\ stale' = TRUE
    /\ UNCHANGED <<shown, page, doc, toHost, toFrame, ops, txs, settled>>

PushEffect ==
    /\ stale
    /\ stale' = FALSE
    /\ toFrame' = Append(toFrame, Push)
    /\ UNCHANGED <<wallet, changes, shown, page, doc, toHost, ops, txs, settled>>

\* A launch is recorded, or the artifact is replaced: a new srcDoc, and
\* handleRequest is made anew over the new props.
PageChanges(v) ==
    /\ page < MaxDocs
    /\ shown' = v /\ page' = page + 1
    /\ UNCHANGED <<wallet, changes, stale, doc, toHost, toFrame, ops, txs, settled>>

\* checkWriteTarget; a vault's token counts as the vault.
Allowed(payload, vault) == payload.target = vault \/ payload.spender = vault

\* Slip: the account is not looked at.
NobodyPasses(m) ==
    CASE m.kind = "switchChain" -> "switching"
      [] m.kind = "read" -> IF shown = None THEN "ok" ELSE "reading"
      [] m.kind = "write" ->
             IF shown = None \/ ~Allowed(m.payload, shown) THEN "failed"
             ELSE IF wallet.right THEN "signing" ELSE "switching"

FirstStep(m) ==
    CASE m.kind = "switchChain" -> "switching"
      [] m.kind = "read" -> IF shown = None THEN "ok" ELSE "reading"
      [] m.kind = "write" ->
             IF shown = None \/ ~Allowed(m.payload, shown) \/ wallet.account = None THEN "failed"
             ELSE IF wallet.right THEN "signing" ELSE "switching"

\* onMessage, and handleRequest up to where it first waits
HostReceives ==
    /\ toHost # <<>>
    /\ toHost' = Tail(toHost)
    /\ LET m == Head(toHost)
       IN  IF m.kind = "ready"
           THEN toFrame' = Append(toFrame, Push) /\ UNCHANGED ops
           ELSE /\ ops' = ops \union
                       {[gen |-> m.gen, id |-> m.id, kind |-> m.kind, payload |-> m.payload,
                         vault |-> shown, account |-> wallet.account, step |-> FirstStep(m)]}
                /\ UNCHANGED toFrame
    /\ UNCHANGED <<host, doc, txs, settled>>

Moves(o, s) == ops' = (ops \ {o}) \union {[o EXCEPT !.step = s]}

Fails(o) ==
    /\ o.step \in {"reading", "switching", "signing", "waiting"}
    /\ Moves(o, "failed")
    /\ UNCHANGED <<host, doc, toHost, toFrame, txs, settled>>

ReadReturns(o) ==
    /\ o.step = "reading"
    /\ Moves(o, "ok")
    /\ UNCHANGED <<host, doc, toHost, toFrame, txs, settled>>

Switched(o) ==
    /\ o.step = "switching" /\ wallet.account # None
    /\ wallet' = [wallet EXCEPT !.right = TRUE]
    /\ stale' = (stale \/ ~wallet.right)
    /\ Moves(o, IF o.kind = "write" THEN "signing" ELSE "ok")
    /\ UNCHANGED <<changes, shown, page, doc, toHost, toFrame, txs, settled>>

\* writeContract: the wallet must still be this account's, on this chain.
Sends(o) ==
    /\ o.step = "signing"
    /\ wallet = [account |-> o.account, right |-> TRUE]
    /\ txs' = txs \union {[gen |-> o.gen, id |-> o.id, payload |-> o.payload,
                           vault |-> o.vault, account |-> o.account, status |-> "sent"]}
    /\ Moves(o, "waiting")
    /\ UNCHANGED <<host, doc, toHost, toFrame, settled>>

\* The chain takes it in its time, whether or not the page still waits, or the
\* user replaces it in the wallet.
Included(t, status) ==
    /\ t.status = "sent"
    /\ txs' = (txs \ {t}) \union {[t EXCEPT !.status = status]}
    /\ UNCHANGED <<host, doc, toHost, toFrame, ops, settled>>

\* Slip: the status of the receipt is not looked at.
AnyReceipt(o, t) ==
    /\ o.step = "waiting" /\ <<t.gen, t.id>> = <<o.gen, o.id>> /\ t.status # "sent"
    /\ Moves(o, "ok")
    /\ UNCHANGED <<host, doc, toHost, toFrame, txs, settled>>

\* waitForTransactionReceipt, which returns the receipt of a replacement; nobody
\* looks whose receipt it is.
ReceiptOf(o, t) ==
    /\ o.step = "waiting" /\ <<t.gen, t.id>> = <<o.gen, o.id>> /\ t.status # "sent"
    /\ Moves(o, IF t.status \in {"mined", "replaced"} THEN "ok" ELSE "failed")
    /\ UNCHANGED <<host, doc, toHost, toFrame, txs, settled>>

\* The answer carries the number only, and goes to the document of now.
Replies(o) ==
    /\ o.step \in {"ok", "failed"}
    /\ ops' = ops \ {o}
    /\ toFrame' = Append(toFrame, [kind |-> "answer", id |-> o.id, gen |-> o.gen, ok |-> o.step = "ok"])
    /\ UNCHANGED <<host, doc, toHost, txs, settled>>

-----------------------------------------------------------------------------
(* The frame *)

\* The browser replaces the document; what was posted to it is dropped, what it
\* posted is not.
Loads ==
    /\ doc.gen < page
    /\ doc' = Document(page, shown)
    /\ toFrame' = <<>>
    /\ UNCHANGED <<host, toHost, ops, txs, settled>>

Posts(id, kind, payload) ==
    toHost' = Append(toHost, [gen |-> doc.gen, id |-> id, kind |-> kind, payload |-> payload])

\* Slip: nothing is announced.
BootsSilently ==
    /\ doc.state = "loading" /\ doc.seq < MaxSeq
    /\ doc' = [doc EXCEPT !.state = "up", !.seq = @ + 1]
    /\ UNCHANGED <<host, toHost, toFrame, ops, txs, settled>>

\* boot and announceReady, which takes a number too
Boots ==
    /\ doc.state = "loading" /\ doc.seq < MaxSeq
    /\ doc' = [doc EXCEPT !.state = "up", !.seq = @ + 1]
    /\ Posts(doc.seq + 1, "ready", None)
    /\ UNCHANGED <<host, toFrame, ops, txs, settled>>

Crashes ==
    /\ doc.state = "loading"
    /\ doc' = [doc EXCEPT !.state = "crashed"]
    /\ UNCHANGED <<host, toHost, toFrame, ops, txs, settled>>

\* bridgeCall; a preview answers its reads and refuses its writes by itself.
Calls(kind, payload) ==
    /\ doc.state = "up" /\ doc.seq < MaxSeq
    /\ doc.vault = None => kind = "switchChain"
    /\ (kind = "write") <=> (payload # None)
    /\ doc' = [doc EXCEPT !.seq = @ + 1, !.pending = @ \union {[id |-> doc.seq + 1, kind |-> kind]}]
    /\ Posts(doc.seq + 1, kind, payload)
    /\ UNCHANGED <<host, toFrame, ops, txs, settled>>

End(p, by, ok) == settled \union {[gen |-> doc.gen, id |-> p.id, kind |-> p.kind, by |-> by, ok |-> ok]}

\* Slip: the call stays pending.
TimesOutPending(p) ==
    /\ settled' = End(p, None, FALSE)
    /\ UNCHANGED <<host, doc, toHost, toFrame, ops, txs>>
TimesOut(p) ==
    /\ doc' = [doc EXCEPT !.pending = @ \ {p}]
    /\ settled' = End(p, None, FALSE)
    /\ UNCHANGED <<host, toHost, toFrame, ops, txs>>

Awaited(m) == {p \in doc.pending : m.kind = "answer" /\ p.id = m.id}

\* The listener of the runtime; a document that loads has none yet.
FrameReceives ==
    /\ toFrame # <<>>
    /\ toFrame' = Tail(toFrame)
    /\ LET m == Head(toFrame)
       IN  IF doc.state = "loading"
           THEN UNCHANGED <<doc, settled>>
           ELSE /\ doc' = [doc EXCEPT !.view = IF m.kind = "wallet" THEN m.wallet ELSE @,
                                      !.pending = @ \ Awaited(m)]
                /\ settled' = settled \union UNION {End(p, m.gen, m.ok) : p \in Awaited(m)}
    /\ UNCHANGED <<host, toHost, ops, txs>>

-----------------------------------------------------------------------------
Next ==
    \/ \E w \in Wallets : WalletChanges(w)
    \/ \E v \in Vaults \union {shown} : PageChanges(v)
    \/ PushEffect \/ HostReceives
    \/ \E o \in ops :
           \/ Fails(o) \/ ReadReturns(o) \/ Switched(o) \/ Sends(o) \/ Replies(o)
           \/ \E t \in txs : ReceiptOf(o, t)
    \/ \E t \in txs, s \in {"mined", "reverted", "replaced"} : Included(t, s)
    \/ Loads \/ Boots \/ Crashes \/ FrameReceives
    \/ \E k \in Kinds, p \in Payloads \union {None} : Calls(k, p)
    \/ \E p \in doc.pending : TimesOut(p)

Spec == Init /\ [][Next]_vars

\* The browser runs effects, delivers messages and loads documents; the
\* wallet, the chain and the component owe nothing.
Fairness ==
    /\ WF_vars(PushEffect) /\ WF_vars(HostReceives) /\ WF_vars(FrameReceives)
    /\ WF_vars(Loads) /\ WF_vars(Boots)

FairSpec == Spec /\ Fairness

-----------------------------------------------------------------------------
\* A call ends once, whatever comes late: a timeout and an answer are never both
\* reported for it.
CallsEndOnce ==
    /\ \A s, r \in settled : <<s.gen, s.id>> = <<r.gen, r.id>> => s = r
    /\ \A s \in settled : s.gen = doc.gen => \A p \in doc.pending : p.id # s.id

\* A write that its own request answers with success was mined with success,
\* unless the user replaced it in the wallet.
OwnSuccessIsMined ==
    \A s \in settled :
        s.kind = "write" /\ s.by = s.gen /\ s.ok =>
            \E t \in txs :
                /\ t.gen = s.gen /\ t.id = s.id
                /\ t.status \in {"mined", "replaced"}

\* A document that is up comes to see the wallet as it is, although a push may
\* reach a document that does not listen yet or is about to go.
ViewCatchesUp ==
    \A w \in Wallets : []<>(doc.state # "up" \/ wallet # w \/ doc.view = w)

\* A call is answered by its own request (vault-runtime/bridge-client.ts:2:
\* "request/response RPC to the host page over postMessage").
AnswersOwnCall ==
    \A s \in settled : s.by \in {s.gen, None}
=============================================================================
