---------------------------- MODULE VaultPanel ----------------------------
(***************************************************************************)
(* The standard panel of a launched vault: a card for each method that     *)
(* writes, whose Execute switches the chain, approves what the method      *)
(* declares, sends the transaction and waits for it.  Prompts, blocks and  *)
(* clicks come in between in any order; what a submit carries over them is *)
(* what its click captured.  The approvals are all of one token here, and  *)
(* a form is one row of amounts.                                           *)
(***************************************************************************)
EXTENDS Integers, Sequences

CONSTANTS
    Cards,
    Fields,        \* input fields that an approval can name
    Approvals,     \* the fields named by each card's ApproveActions, in order
    Amounts,       \* what can be typed in a field
    MaxClicks,     \* bound: clicks on Execute
    MaxChanges,    \* bound: edits of a form and changes of the wallet's chain
    MaxRefreshes   \* bound: reloads of the schema

ASSUME VaultPanelAssumption ==
    /\ Approvals \in [Cards -> Seq(Fields)]
    /\ Amounts \subseteq Nat
    /\ MaxClicks \in Nat /\ MaxChanges \in Nat /\ MaxRefreshes \in Nat

VARIABLES
    onChain,       \* the wallet is on the vault's chain
    form,          \* what each card's fields hold
    status,        \* what each card shows
    mount,         \* a refresh takes all cards down and makes them anew
    changes,
    submits,       \* the clicks so far, each with how far its submit is
    allowance      \* of the user for the vault

panel == <<onChain, form, status, mount, changes>>
panelVars == <<panel, submits, allowance>>

Row == [Fields -> Amounts]
Busy == {"approving", "sending", "confirming"}
Steps == {"switching", "checking", "approving", "mining", "sending", "confirming", "over"}
Txs == {"none", "approval", "call"}

PanelTypeOK ==
    /\ onChain \in BOOLEAN
    /\ form \in [Cards -> Row]
    /\ status \in [Cards -> Busy \union {"idle", "success", "error"}]
    /\ mount \in 0..MaxRefreshes /\ changes \in 0..MaxChanges
    /\ submits \in Seq([card : Cards, mount : 0..MaxRefreshes, row : Row,
                        step : Steps, k : Nat, pending : Txs, called : {"not", "success", "reverted", "replaced"},
                        alone : BOOLEAN, failed : BOOLEAN, short : BOOLEAN])
    /\ allowance \in Nat

\* A refresh makes empty forms; the typing of their first contents is not told
\* apart from it.
PanelInit ==
    /\ onChain \in BOOLEAN
    /\ form \in [Cards -> Row]
    /\ status = [c \in Cards |-> "idle"]
    /\ mount = 0 /\ changes = 0 /\ submits = <<>>
    /\ allowance \in Amounts \union {0}

-----------------------------------------------------------------------------
\* A submit that goes on, or whose transaction is still to be mined.
Running(s) == s.step # "over" \/ s.pending # "none"

Named(s) == Approvals[s.card]
Amount(s) == s.row[Named(s)[s.k]]
Takes(row, fields) ==
    LET sum[n \in 0..Len(fields)] == IF n = 0 THEN 0 ELSE sum[n - 1] + row[fields[n]]
    IN  sum[Len(fields)]

\* Slip: any receipt is a success.
ShownMined(s) == CASE s.step = "switching" -> status[s.card]
              [] s.step \in {"checking", "approving", "mining"} -> "approving"
              [] s.step \in {"sending", "confirming"} -> s.step
              [] OTHER -> "success"

Shown(s) == CASE s.step = "switching" -> status[s.card]
              [] s.step \in {"checking", "approving", "mining"} -> "approving"
              [] s.step \in {"sending", "confirming"} -> s.step
              [] OTHER -> IF s.called \in {"success", "replaced"} THEN "success" ELSE "error"

\* The submit comes to a further step, and setStatus; a card that was taken
\* down shows nothing.
Goes(i, s) ==
    /\ submits' = [submits EXCEPT ![i] = s]
    /\ status' = IF s.mount = mount THEN [status EXCEPT ![s.card] = Shown(s)] ELSE status

\* On to the next approval, or to the transaction.
Onward(s) == IF s.k < Len(Named(s)) THEN [s EXCEPT !.step = "checking", !.k = @ + 1]
            ELSE [s EXCEPT !.step = "sending"]

\* Execute
Click(c) ==
    /\ Len(submits) < MaxClicks /\ status[c] \notin Busy
    /\ LET s == [card |-> c, mount |-> mount, row |-> form[c], step |-> "switching", k |-> 0,
                 pending |-> "none", called |-> "not", alone |-> \A i \in DOMAIN submits : ~Running(submits[i]),
                 failed |-> FALSE, short |-> FALSE]
           t == IF onChain THEN Onward(s) ELSE s
       IN  /\ submits' = Append([i \in DOMAIN submits |->
                                   [submits[i] EXCEPT !.alone = @ /\ ~Running(submits[i])]], t)
           /\ status' = [status EXCEPT ![c] = Shown(t)]
    /\ UNCHANGED <<onChain, form, mount, changes, allowance>>

Switched(i) ==
    /\ submits[i].step = "switching"
    /\ onChain' = TRUE
    /\ Goes(i, Onward(submits[i]))
    /\ UNCHANGED <<form, mount, changes, allowance>>

\* Slip: any allowance will do.
Some(s) == allowance > 0
Enough(s) == allowance >= Amount(s)

ReadsAllowance(i) ==
    /\ submits[i].step = "checking"
    /\ Goes(i, IF Enough(submits[i]) THEN Onward(submits[i]) ELSE [submits[i] EXCEPT !.step = "approving"])
    /\ UNCHANGED <<onChain, form, mount, changes, allowance>>

\* writeContract, for the approval and for the call; it refuses a wallet that
\* is on another chain by now.
SignsApproval(i) ==
    /\ submits[i].step = "approving" /\ onChain
    /\ Goes(i, [submits[i] EXCEPT !.step = "mining", !.pending = "approval"])
    /\ UNCHANGED <<onChain, form, mount, changes, allowance>>

SignsCall(i) ==
    /\ submits[i].step = "sending" /\ onChain
    /\ Goes(i, [submits[i] EXCEPT !.step = "confirming", !.pending = "call",
                                  !.short = allowance < Takes(submits[i].row, Named(submits[i]))])
    /\ UNCHANGED <<onChain, form, mount, changes, allowance>>

\* The chain, whether or not anybody waits
ApprovalMined(i) ==
    /\ submits[i].pending = "approval"
    /\ allowance' = submits[i].row[Named(submits[i])[submits[i].k]]
    /\ submits' = [submits EXCEPT ![i].pending = "none"]
    /\ UNCHANGED panel

CallMined(i) ==
    /\ submits[i].pending = "call" /\ allowance >= Takes(submits[i].row, Named(submits[i]))
    /\ allowance' = allowance - Takes(submits[i].row, Named(submits[i]))
    /\ submits' = [submits EXCEPT ![i].pending = "none", ![i].called = "success"]
    /\ UNCHANGED panel

\* It reverts, or the user replaces it in the wallet.
Undone(i, how) ==
    /\ submits[i].pending # "none"
    /\ submits' = [submits EXCEPT ![i].pending = "none",
                                  ![i].called = IF submits[i].pending = "call" THEN how ELSE @,
                                  ![i].failed = @ \/ submits[i].pending = "approval"]
    /\ UNCHANGED <<panel, allowance>>

\* waitForTransactionReceipt; what became of an approval is not looked at, and
\* for a transaction that was replaced it returns the replacement's success.
ApprovalReceipt(i) ==
    /\ submits[i].step = "mining" /\ submits[i].pending = "none"
    /\ Goes(i, Onward(submits[i]))
    /\ UNCHANGED <<onChain, form, mount, changes, allowance>>

CallReceipt(i) ==
    /\ submits[i].step = "confirming" /\ submits[i].pending = "none"
    /\ Goes(i, [submits[i] EXCEPT !.step = "over"])
    /\ UNCHANGED <<onChain, form, mount, changes, allowance>>

\* A prompt is declined, a read or a wait fails, an input does not parse.
Throws(i) ==
    /\ submits[i].step # "over"
    /\ submits' = [submits EXCEPT ![i].step = "over"]
    /\ status' = IF submits[i].mount = mount THEN [status EXCEPT ![submits[i].card] = "error"] ELSE status
    /\ UNCHANGED <<onChain, form, mount, changes, allowance>>

-----------------------------------------------------------------------------
Edit(c, row) ==
    /\ changes < MaxChanges /\ row # form[c]
    /\ changes' = changes + 1
    /\ form' = [form EXCEPT ![c] = row]
    /\ UNCHANGED <<onChain, status, mount, submits, allowance>>

ChainChanges ==
    /\ changes < MaxChanges
    /\ changes' = changes + 1
    /\ onChain' = ~onChain
    /\ UNCHANGED <<form, status, mount, submits, allowance>>

\* loadSchema: the panel shows that it loads, and then new cards; the submits
\* of the old ones run on.
Refresh ==
    /\ mount < MaxRefreshes
    /\ mount' = mount + 1
    /\ status' = [c \in Cards |-> "idle"]
    /\ form' \in [Cards -> Row]
    /\ UNCHANGED <<onChain, changes, submits, allowance>>

PanelNext ==
    \/ \E c \in Cards : Click(c) \/ \E r \in Row : Edit(c, r)
    \/ \E i \in DOMAIN submits :
           \/ Switched(i) \/ ReadsAllowance(i) \/ SignsApproval(i) \/ SignsCall(i)
           \/ ApprovalMined(i) \/ CallMined(i)
           \/ \E how \in {"reverted", "replaced"} : Undone(i, how)
           \/ ApprovalReceipt(i) \/ CallReceipt(i) \/ Throws(i)
    \/ ChainChanges \/ Refresh

PanelSpec == PanelInit /\ [][PanelNext]_panelVars

-----------------------------------------------------------------------------
\* A submit that nothing else of the panel overlaps, with one approval that is
\* not undone, sends its transaction with allowance enough for what was typed
\* when it was clicked, however the forms, the chain and old allowances are.
SoleSubmitIsCovered ==
    \A i \in DOMAIN submits :
        LET s == submits[i]
        IN  s.alone /\ ~s.failed /\ Len(Named(s)) = 1 => ~s.short

\* A card that shows success had the transaction of its last submit mined with
\* success or replaced in the wallet, unless submits overlapped or the last one
\* still waits for the wallet to switch chains (it shows the outcome of the one
\* before until then).
SuccessIsTheLast ==
    \A i \in DOMAIN submits :
        LET s == submits[i]
        IN  /\ s.alone /\ s.mount = mount /\ status[s.card] = "success" /\ s.step # "switching"
            /\ \A j \in DOMAIN submits : j > i => submits[j].card # s.card
            => s.called \in {"success", "replaced"} /\ s.pending = "none"

\* Nothing is sent after an approval that did not succeed
\* (src/flap/IVaultSchemasV1.sol:124: "After all approvals succeed, send the
\* write transaction.").
SendsAfterApprovals ==
    \A i \in DOMAIN submits :
        submits[i].failed => submits[i].called = "not" /\ submits[i].pending # "call"
=============================================================================
