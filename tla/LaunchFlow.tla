----------------------------- MODULE LaunchFlow -----------------------------
(***************************************************************************)
(* The launch panel of the chat page: deploy a factory, register the       *)
(* generated vault at it, launch the token.  Each button starts an         *)
(* asynchronous handler that works with the values of the render that      *)
(* created it, while the wallet may change account and network, the panel  *)
(* may be unmounted (its handlers go on, their setState does nothing) and  *)
(* the page may be reloaded (its handlers are gone, what they signed is    *)
(* not).  What a handler achieved is saved in the browser and posted,      *)
(* un-awaited, to the chat; the panel starts again from those records and  *)
(* from what it reads on chain.                                            *)
(*                                                                         *)
(* The chat's vault keeps its contract name and has one revision per       *)
(* finished run, known by its bytecode.                                    *)
(***************************************************************************)
EXTENDS VaultFactory

CONSTANTS
    DescOf,      \* buildOnChainDescription of each revision
    PrintOf,       \* payloadFingerprint of each bytecode: length and last bytes
    NoPrint,     \* the fingerprint of no bytecode
    Testnet,     \* the default network, and that of events without chainId
    Nobody,      \* no wallet
    First,       \* the revision that the page opens on
    Owner,       \* the account that is connected then
    MaxFaults,   \* bound: RPC failures, rejected prompts, lost posts
    MaxMoves     \* bound: moves of the user outside the three buttons

ASSUME LaunchAssumption ==
    /\ DescOf \in [Codes -> Descs]
    /\ NoPrint \notin {PrintOf[c] : c \in Codes}
    /\ Testnet \in Networks /\ Nobody \notin Accounts
    /\ First \in Codes /\ Owner \in Accounts
    /\ MaxFaults \in Nat /\ MaxMoves \in Nat

VARIABLES
    wallet,      \* MetaMask: account and network
    chat,        \* ChatPage: the result it shows, its artifacts, the target
    panel,       \* the panel's useState values
    configs,     \* loadStudioConfig calls that have not returned
    reading,     \* the registration read that has not returned
    ops,         \* handlers that have not returned
    cache,       \* localStorage
    posts,       \* launch-status requests under way
    db,          \* launch_status artifacts, oldest first
    faults, moves

panelVars == <<chat, panel, configs, reading>>
recordVars == <<cache, posts, db>>
vars == <<txs, slots, wallet, panelVars, ops, recordVars, faults, moves>>

Fingerprint(code) == IF code = NoCode THEN NoPrint ELSE PrintOf[code]

-----------------------------------------------------------------------------
(* Records.                                                                *)
NoEvent ==
    [status |-> "none", net |-> Testnet, factory |-> 0, code |-> NoCode,
     wallet |-> Nobody, tx |-> 0]
Event(status, net) == [NoEvent EXCEPT !.status = status, !.net = net]

EmptyState ==
    [factory |-> 0, code |-> NoCode, tx |-> 0, print |-> NoPrint, launched |-> 0]

\* One step of the fold of mergeVaultState.
Apply(acc, e) ==
    IF e.status = "factory_cleared" THEN [acc EXCEPT !.factory = 0]
    ELSE [acc EXCEPT
        !.factory = IF e.factory # 0 THEN e.factory ELSE @,
        !.code = IF e.code # NoCode THEN e.code ELSE @,
        !.tx = IF e.status = "registered" THEN e.tx ELSE @,
        !.print = IF e.status = "registered" THEN Fingerprint(e.code) ELSE @,
        !.launched = IF e.status = "launched" THEN e.tx ELSE @]

\* Only the events of the network are applied.
MergeVaultState(artifacts, net) ==
    LET fold[n \in 0..Len(artifacts)] ==
            IF n = 0 THEN EmptyState
            ELSE IF artifacts[n].net = net THEN Apply(fold[n - 1], artifacts[n])
            ELSE fold[n - 1]
    IN  fold[Len(artifacts)]

-----------------------------------------------------------------------------
(* What the panel computes on every render.                                *)
Persisted(c) == MergeVaultState(c.artifacts, c.target)

\* The live result, or the database's bytecode, or the browser's.
Payload(c, local) ==
    IF c.live THEN c.shown
    ELSE IF Persisted(c).code # NoCode THEN Persisted(c).code
    ELSE local.code

IsRegistered(p, c, local) ==
    p.regKey # NoPrint /\ p.regKey = Fingerprint(Payload(c, local))

FreshPanel ==
    [phase |-> "idle", factory |-> 0, regKey |-> NoPrint, regDesc |-> NoDesc,
     regTx |-> 0, launched |-> 0, preflight |-> "idle", known |-> FALSE]

\* Dependencies of the effects.
ConfigDeps(c) == <<Persisted(c).factory, c.target>>
ReadDeps(p, c, w) ==
    <<p.factory, w.account, p.regTx, DescOf[c.shown], c.target>>
LaunchedDeps(c, w) == <<w.account, Persisted(c).launched, c.target>>
TrustDeps(c, local) ==
    <<Persisted(c).print, Persisted(c).tx, Fingerprint(Payload(c, local))>>

ConfigCall(c) == [net |-> c.target, factory |-> Persisted(c).factory]
ReadCall(p, c, w, local) ==
    [factory |-> p.factory, account |-> w.account, net |-> c.target,
     desc |-> DescOf[c.shown], key |-> Fingerprint(Payload(c, local))]
NoRead == <<>>

Restored(p, c, w, local) ==
    [p EXCEPT !.launched =
        IF local.launched[<<w.account, c.target>>] # 0
        THEN local.launched[<<w.account, c.target>>]
        ELSE Persisted(c).launched]

Trusted(p, c, local) ==
    LET d == Persisted(c)
    IN  IF d.print = NoPrint \/ d.print # Fingerprint(Payload(c, local)) THEN p
        ELSE [p EXCEPT !.regKey = IF @ = NoPrint THEN d.print ELSE @,
                       !.regTx = IF @ = 0 THEN d.tx ELSE @]

\* A commit of the panel with new state and props: the effects whose
\* dependencies changed run, all of them when it mounts.
Commit(p, c, w, local, mounts) ==
    LET was(deps, now) == ~mounts /\ deps = now
        p1 == IF was(LaunchedDeps(chat, wallet), LaunchedDeps(c, w)) THEN p
              ELSE Restored(p, c, w, local)
        p2 == IF was(TrustDeps(chat, cache), TrustDeps(c, local)) THEN p1
              ELSE Trusted(p1, c, local)
        same == was(ReadDeps(panel, chat, wallet), ReadDeps(p2, c, w))
        reads == ~same /\ p2.factory # 0
    IN  /\ chat' = c
        /\ panel' = [p2 EXCEPT !.known = IF same THEN @ ELSE FALSE]
        /\ reading' = IF same THEN reading
                      ELSE IF reads THEN <<ReadCall(p2, c, w, local)>> ELSE NoRead
        /\ configs' = IF mounts THEN {ConfigCall(c)}
                      ELSE IF ConfigDeps(chat) = ConfigDeps(c) THEN configs
                      ELSE configs \union {ConfigCall(c)}

Render(p) == Commit(p, chat, wallet, cache, FALSE)

Fail == faults < MaxFaults /\ faults' = faults + 1
Move == moves < MaxMoves /\ moves' = moves + 1

-----------------------------------------------------------------------------
EarlierFactory ==
    [kind |-> "deploy", net |-> Testnet, from |-> Owner, factory |-> 0,
     code |-> NoCode, desc |-> NoDesc, status |-> "success", used |-> 0]

\* A run just ended in this browser, which deployed a test factory for an
\* earlier chat; or the chat is opened in another one.
Init ==
    /\ txs = <<EarlierFactory>>
    /\ slots = [f \in Id |-> [a \in Accounts |-> 0]]
    /\ wallet \in [account : {Owner}, net : Networks]
    /\ chat \in [shown : {First}, live : BOOLEAN, artifacts : {<<>>}, target : {Testnet}]
    /\ cache = [factory |-> [n \in Networks |-> IF chat.live /\ n = Testnet THEN 1 ELSE 0],
                code |-> IF chat.live THEN First ELSE NoCode,
                launched |-> [x \in Accounts \X Networks |-> 0]]
    /\ panel = FreshPanel
    /\ configs = {ConfigCall(chat)}
    /\ reading = NoRead
    /\ ops = {}
    /\ posts = {} /\ db = <<>>
    /\ faults = 0 /\ moves = 0

\* The config override is empty: the factory comes from the database as it
\* was when the call was made, or from the browser's cache now.
ConfigReturns ==
    \E call \in configs :
        /\ configs' = configs \ {call}
        /\ LET p == [panel EXCEPT
                        !.factory = IF call.factory # 0 THEN call.factory
                                    ELSE cache.factory[call.net],
                        !.regKey = NoPrint, !.regTx = 0, !.regDesc = NoDesc]
               same == ReadDeps(p, chat, wallet) = ReadDeps(panel, chat, wallet)
           IN  /\ panel' = [p EXCEPT !.known = @ /\ same]
               /\ reading' = IF same THEN reading
                             ELSE IF p.factory # 0
                             THEN <<ReadCall(p, chat, wallet, cache)>> ELSE NoRead
        /\ UNCHANGED <<chat, txs, slots, wallet, ops, recordVars, faults, moves>>

\* The effect of line 326: the description identifies the vault.
ReadReturns ==
    \E r \in {reading[i] : i \in DOMAIN reading} :
        /\ FactoryAt(r.factory, r.net)
        /\ reading' = NoRead
        /\ LET desc == DescriptionOf(r.factory, r.account)
           IN  panel' = [panel EXCEPT
                   !.regDesc = desc, !.known = TRUE,
                   !.regKey = IF desc = r.desc THEN r.key ELSE NoPrint]
        /\ UNCHANGED <<chat, configs, txs, slots, wallet, ops, recordVars, faults, moves>>

\* A rejected read is not handled, also when there is no factory to answer.
ReadFails ==
    \E r \in {reading[i] : i \in DOMAIN reading} :
        /\ IF FactoryAt(r.factory, r.net) THEN Fail ELSE UNCHANGED faults
        /\ reading' = NoRead
        /\ UNCHANGED <<chat, panel, configs, txs, slots, wallet, ops, recordVars, moves>>

-----------------------------------------------------------------------------
(* The three buttons.                                                      *)
Stages == {"switching", "simulating", "signing", "confirming", "looking"}
PhaseOf == [deploy |-> "factory", register |-> "register", launch |-> "launching"]

\* deployFactory has nothing to simulate.
Work(kind) == IF kind = "deploy" THEN "signing" ELSE "simulating"

Closure(kind, stage) ==
    [kind |-> kind, stage |-> stage, attached |-> TRUE, account |-> wallet.account,
     net |-> chat.target, factory |-> panel.factory,
     code |-> IF kind = "register" THEN Payload(chat, cache) ELSE NoCode,
     desc |-> DescOf[chat.shown], signer |-> Nobody, tx |-> 0]

CanRegister == panel.factory # 0 /\ Payload(chat, cache) \in Codes \ Oversized
CanLaunch ==
    /\ panel.factory # 0
    /\ IsRegistered(panel, chat, cache)
    /\ wallet.net = chat.target
    /\ panel.regDesc \in {NoDesc, DescOf[chat.shown]}

Enabled(kind) ==
    CASE kind = "register" -> CanRegister
      [] kind = "launch" -> CanLaunch
      [] OTHER -> TRUE

\* setPhase, and the preflight line that is shown from here on.
Begins(p, kind) ==
    [p EXCEPT !.phase = PhaseOf[kind],
              !.preflight = IF kind = "launch" THEN "running" ELSE @]

\* disabled={busy}
Press(kind) ==
    /\ panel.phase = "idle"
    /\ Enabled(kind)
    /\ Len(txs) + Cardinality(ops) < MaxTxs
    /\ LET on == wallet.net = chat.target
       IN  /\ ops' = ops \union {Closure(kind, IF on THEN Work(kind) ELSE "switching")}
           /\ Render(IF on THEN Begins(panel, kind)
                     ELSE [panel EXCEPT !.phase = "switching"])
    /\ UNCHANGED <<txs, slots, wallet, recordVars, faults, moves>>

\* setState of a handler: nothing once its panel is unmounted.
Show(op, p) ==
    IF op.attached THEN Render(p) ELSE UNCHANGED panelVars

Step(op, next) == ops' = (ops \ {op}) \union {next}

\* Slip: no finally.
StopsBusy(op, preflight) ==
    /\ ops' = ops \ {op}
    /\ Show(op, [panel EXCEPT !.preflight = IF op.kind = "launch" THEN preflight ELSE @])

\* The catch and finally of a handler.  launchToken reports every failure
\* after its metadata upload as a failed preflight.
Stops(op, preflight) ==
    /\ ops' = ops \ {op}
    /\ Show(op, [panel EXCEPT !.phase = "idle",
                              !.preflight = IF op.kind = "launch" THEN preflight ELSE @])

NetworkSwitched(op) ==
    /\ op.stage = "switching"
    /\ wallet' = [wallet EXCEPT !.net = op.net]
    /\ Step(op, [op EXCEPT !.stage = Work(op.kind)])
    /\ IF op.attached
       THEN Commit(Begins(panel, op.kind), chat, wallet', cache, FALSE)
       ELSE UNCHANGED panelVars
    /\ UNCHANGED <<txs, slots, recordVars, faults, moves>>

SwitchRefused(op) ==
    /\ op.stage = "switching"
    /\ Fail
    /\ Stops(op, panel.preflight)
    /\ UNCHANGED <<txs, slots, wallet, recordVars, moves>>

Tx(op, account) ==
    [kind |-> op.kind, net |-> op.net, from |-> account,
     factory |-> IF op.kind = "deploy" THEN 0 ELSE op.factory,
     code |-> op.code, desc |-> IF op.kind = "register" THEN op.desc ELSE NoDesc,
     status |-> "pending", used |-> 0]

\* registerVault simulates for the account of its render, then again, as
\* launchCodegenToken does, for the account that is connected by then.
Simulations(op) ==
    /\ op.kind = "register" => WouldSucceed(Tx(op, op.account))
    /\ WouldSucceed(Tx(op, wallet.account))

Simulated(op) ==
    /\ op.stage = "simulating"
    /\ Simulations(op)
    /\ Step(op, [op EXCEPT !.stage = "signing", !.signer = wallet.account])
    /\ UNCHANGED <<txs, slots, wallet, panelVars, recordVars, faults, moves>>

SimulationFails(op) ==
    /\ op.stage = "simulating"
    /\ IF Simulations(op) THEN Fail ELSE UNCHANGED faults
    /\ Stops(op, "failed")
    /\ UNCHANGED <<txs, slots, wallet, recordVars, moves>>

\* Slip: waits for another transaction than the one it sent.
SignedAnother(op) ==
    /\ op.stage = "signing" /\ wallet.net = op.net
    /\ Sign(Tx(op, IF op.kind = "deploy" THEN wallet.account ELSE op.signer))
    /\ Step(op, [op EXCEPT !.stage = "confirming", !.tx = Len(txs) + 2])
    /\ UNCHANGED <<wallet, panelVars, recordVars, faults, moves>>

\* wagmi refuses to sign for a network the wallet is not on.
Signed(op) ==
    /\ op.stage = "signing" /\ wallet.net = op.net
    /\ Sign(Tx(op, IF op.kind = "deploy" THEN wallet.account ELSE op.signer))
    /\ Step(op, [op EXCEPT !.stage = "confirming", !.tx = Len(txs) + 1])
    /\ UNCHANGED <<wallet, panelVars, recordVars, faults, moves>>

NotSigned(op) ==
    /\ op.stage = "signing"
    /\ IF wallet.net = op.net THEN Fail ELSE UNCHANGED faults
    /\ Stops(op, "failed")
    /\ UNCHANGED <<txs, slots, wallet, recordVars, moves>>

\* waitForTransactionReceipt throws for a reverted transaction, and when the
\* node stops answering.  The receipt of a replacement names no factory.
NotConfirmed(op) ==
    /\ op.stage = "confirming"
    /\ LET status == txs[op.tx].status
       IN  IF status = "reverted" \/ (op.kind = "deploy" /\ status = "replaced")
           THEN UNCHANGED faults ELSE Fail
    /\ Stops(op, "failed")
    /\ UNCHANGED <<txs, slots, wallet, recordVars, moves>>

\* Slip: any receipt will do.
Included(op, kind) ==
    op.stage = "confirming" /\ op.kind = kind /\ txs[op.tx].status # "pending"
\* No handler looks whether the receipt is that of its own transaction.
Confirmed(op, kind) ==
    /\ op.stage = "confirming" /\ op.kind = kind
    /\ IF kind = "deploy" THEN Succeeded(op.tx, kind) ELSE ReceiptIsSuccess(op.tx, kind)

Post(e) == posts' = posts \union {e}

FactoryDeployed(op) ==
    /\ Confirmed(op, "deploy")
    /\ cache' = [cache EXCEPT !.factory[op.net] = op.tx]
    /\ Post([Event("factory_deployed", op.net) EXCEPT
                !.factory = op.tx, !.wallet = op.account, !.tx = op.tx])
    /\ ops' = ops \ {op}
    /\ Show(op, [panel EXCEPT !.phase = "idle", !.factory = op.tx,
                              !.regKey = NoPrint, !.regTx = 0])
    /\ UNCHANGED <<txs, slots, wallet, db, faults, moves>>

VaultRegistered(op) ==
    /\ Confirmed(op, "register")
    /\ Post([Event("registered", op.net) EXCEPT
                !.factory = op.factory, !.code = op.code,
                !.wallet = op.account, !.tx = op.tx])
    /\ ops' = ops \ {op}
    /\ Show(op, [panel EXCEPT !.phase = "idle", !.regTx = op.tx,
                              !.regKey = Fingerprint(op.code)])
    /\ UNCHANGED <<txs, slots, wallet, cache, db, faults, moves>>

\* getVault, asked about the token of the simulation, is still to answer.
LaunchConfirmed(op) ==
    /\ Confirmed(op, "launch")
    /\ Step(op, [op EXCEPT !.stage = "looking"])
    /\ UNCHANGED <<txs, slots, wallet, panelVars, recordVars, faults, moves>>

\* What the portal says of a token that is not there is not this repository's.
VaultNotFound(op) ==
    /\ op.stage = "looking"
    /\ IF Succeeded(op.tx, "launch") THEN Fail ELSE UNCHANGED faults
    /\ Stops(op, "failed")
    /\ UNCHANGED <<txs, slots, wallet, recordVars, moves>>

TokenLaunched(op) ==
    /\ op.stage = "looking"
    /\ cache' = [cache EXCEPT !.launched[<<op.account, op.net>>] = op.tx]
    /\ Post([Event("launched", op.net) EXCEPT
                !.factory = op.factory, !.wallet = op.account, !.tx = op.tx])
    /\ ops' = ops \ {op}
    /\ Show(op, [panel EXCEPT !.phase = "idle", !.preflight = "ok", !.launched = op.tx])
    /\ UNCHANGED <<txs, slots, wallet, db, faults, moves>>

Handler ==
    \E op \in ops :
        \/ NetworkSwitched(op) \/ SwitchRefused(op)
        \/ Simulated(op) \/ SimulationFails(op)
        \/ Signed(op) \/ NotSigned(op)
        \/ NotConfirmed(op) \/ FactoryDeployed(op) \/ VaultRegistered(op)
        \/ LaunchConfirmed(op) \/ VaultNotFound(op) \/ TokenLaunched(op)

-----------------------------------------------------------------------------
(* The user, the network and the server.                                   *)
WalletChanges ==
    /\ Move
    /\ wallet' \in [account : Accounts, net : Networks] \ {wallet}
    /\ Commit(panel, chat, wallet', cache, FALSE)
    /\ UNCHANGED <<txs, slots, ops, recordVars, faults>>

TargetChanges ==
    /\ Move
    /\ panel.phase = "idle"
    /\ \E n \in Networks \ {chat.target} :
           Commit(panel, [chat EXCEPT !.target = n], wallet, cache, FALSE)
    /\ UNCHANGED <<txs, slots, wallet, ops, recordVars, faults>>

Detached == {[op EXCEPT !.attached = FALSE] : op \in ops}

\* Another tab of the chat page and back.
Remount ==
    /\ Move
    /\ ops' = Detached
    /\ Commit(FreshPanel, chat, wallet, cache, TRUE)
    /\ UNCHANGED <<txs, slots, wallet, recordVars, faults>>

\* The stored result has no bytecode, the target is the default again.
Reload ==
    /\ Move
    /\ ops' = {}
    /\ Commit(FreshPanel, [chat EXCEPT !.live = FALSE, !.artifacts = db, !.target = Testnet],
              wallet, cache, TRUE)
    /\ UNCHANGED <<txs, slots, wallet, recordVars, faults>>

\* A refinement ends: a new revision, and the artifacts are fetched again.
RunEnds ==
    /\ Move
    /\ \E c \in Codes \ {chat.shown} :
           LET local == [cache EXCEPT !.code = c]
           IN  /\ cache' = local
               /\ Commit(panel, [chat EXCEPT !.shown = c, !.live = TRUE, !.artifacts = db],
                         wallet, local, FALSE)
    /\ UNCHANGED <<txs, slots, wallet, ops, posts, db, faults>>

\* useManualBytecode: the event names no chain.
Paste ==
    /\ Move
    /\ Payload(chat, cache) = NoCode
    /\ \E c \in Codes \ Oversized :
           LET local == [cache EXCEPT !.code = c]
           IN  /\ cache' = local
               /\ Post([Event("bytecode_provided", Testnet) EXCEPT !.code = c])
               /\ Commit(panel, chat, wallet, local, FALSE)
    /\ UNCHANGED <<txs, slots, wallet, ops, db, faults>>

ResetFactory ==
    /\ Move
    /\ panel.phase = "idle" /\ panel.factory # 0
    /\ cache' = [cache EXCEPT !.factory[chat.target] = 0]
    /\ Post(Event("factory_cleared", chat.target))
    /\ Commit([panel EXCEPT !.factory = 0, !.regTx = 0, !.regKey = NoPrint],
              chat, wallet, cache', FALSE)
    /\ UNCHANGED <<txs, slots, wallet, ops, db, faults>>

PostArrives ==
    \E e \in posts :
        /\ posts' = posts \ {e}
        /\ db' = Append(db, e)
        /\ UNCHANGED <<txs, slots, wallet, panelVars, ops, cache, faults, moves>>

PostIsLost ==
    \E e \in posts :
        /\ Fail
        /\ posts' = posts \ {e}
        /\ UNCHANGED <<txs, slots, wallet, panelVars, ops, cache, db, moves>>

ChainMines ==
    /\ \E i \in Id :
           \/ (MineDeploy(i) \/ MineRegister(i) \/ MineLaunch(i)) /\ UNCHANGED faults
           \/ MineReverted(i) /\ IF WouldSucceed(txs[i]) THEN Fail ELSE UNCHANGED faults
    /\ UNCHANGED <<wallet, panelVars, ops, recordVars, moves>>

\* In the wallet, where the transaction waits for its nonce.
WalletReplaces ==
    /\ Move
    /\ \E i \in Id : Replace(i)
    /\ UNCHANGED <<wallet, panelVars, ops, recordVars, faults>>

User ==
    \/ \E kind \in Kinds : Press(kind)
    \/ WalletChanges \/ TargetChanges \/ Remount \/ Reload \/ RunEnds
    \/ Paste \/ ResetFactory

Next ==
    \/ User \/ Handler \/ ConfigReturns \/ ReadReturns \/ ReadFails
    \/ PostArrives \/ PostIsLost \/ ChainMines \/ WalletReplaces

Spec == Init /\ [][Next]_vars

-----------------------------------------------------------------------------
Records == posts \union {db[i] : i \in DOMAIN db}
Settled == panel.phase = "idle" /\ configs = {} /\ panel.known

TypeOK ==
    /\ ChainTypeOK
    /\ wallet \in [account : Accounts, net : Networks]
    /\ chat \in [shown : Codes, live : BOOLEAN, target : Networks,
                  artifacts : {SubSeq(db, 1, n) : n \in 0..Len(db)}]
    /\ panel.factory \in Id \union {0} /\ panel.launched \in Id \union {0}
    /\ \A op \in ops :
           /\ op.stage \in Stages /\ op.tx \in 0..Len(txs)
           /\ Tx(op, wallet.account) \in Requests

\* What the panel keeps for later visits, in the chat and in the browser, and
\* what it shows as launched, was signed for the network it is filed under
\* and has the receipt of a success: records are written only after the
\* receipt, whatever became of the panel, and a launch is never shown on the
\* other network.  The receipt is the transaction's own unless the user
\* replaced it in the wallet; a recorded factory is there in any case.
RecordsAreOnChain ==
    /\ \A e \in Records :
        /\ e.status = "factory_deployed" => FactoryAt(e.factory, e.net)
        /\ e.status = "registered" =>
               /\ ReceiptIsSuccess(e.tx, "register")
               /\ txs[e.tx].net = e.net /\ txs[e.tx].code = e.code
        /\ e.status = "launched" =>
               ReceiptIsSuccess(e.tx, "launch") /\ txs[e.tx].net = e.net
    /\ \A n \in Networks : cache.factory[n] # 0 => FactoryAt(cache.factory[n], n)
    /\ panel.launched # 0 =>
           ReceiptIsSuccess(panel.launched, "launch") /\ txs[panel.launched].net = chat.target

\* The buttons are disabled exactly while a handler of this panel works: no
\* answer of the wallet, the node or the chain leaves them disabled, and none
\* enables them while a second transaction could still be asked for.
BusyWhileWorking ==
    LET working == {op \in ops : op.attached}
    IN  /\ Cardinality(working) <= 1
        /\ panel.phase = "idle" <=> working = {}
        /\ \A op \in working :
               panel.phase = IF op.stage = "switching" THEN "switching" ELSE PhaseOf[op.kind]

\* A launch that the chat records is on chain, which the panel concludes from
\* the receipt.
LaunchedIsMined ==
    \A e \in Records : e.status = "launched" => Succeeded(e.tx, "launch")

\* "registered on-chain: yes (matches current payload)" of the debug list.
RegisteredMatchesPayload ==
    Settled /\ IsRegistered(panel, chat, cache) /\ panel.factory # 0 =>
        LET r == slots[panel.factory][wallet.account]
        IN  r # 0 => txs[r].code = Payload(chat, cache)

\* "Launch preflight failed - nothing was sent, no gas spent."
FailedMeansNothingSent ==
    [][\A op \in ops \ ops' :
        op.kind = "launch" /\ op.attached /\ panel'.preflight = "failed" => op.tx = 0]_vars
=============================================================================
