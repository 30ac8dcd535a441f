-------------------------- MODULE LaunchFlowProofs --------------------------
(***************************************************************************)
(* For any wallets, factories, networks and handlers. A registration       *)
(* becomes at most one vault: newVault deletes what it read; the argument  *)
(* is about the chain alone, since every step of the panel is a step of    *)
(* the chain or leaves it as it is. What is recorded or shown as launched  *)
(* happened on the network it is filed under, although handlers outlive    *)
(* the render that began them; and the panel is busy exactly while one     *)
(* handler works.                                                          *)
(***************************************************************************)
EXTENDS LaunchFlow, FiniteSetTheorems, WellFoundedInduction, TLAPS

\* A slot holds a successful registration of its wallet at its factory, on
\* the factory's network.
SlotsHoldRegistrations ==
    \A f \in Id, a \in Accounts :
        slots[f][a] # 0 =>
            /\ Succeeded(slots[f][a], "register")
            /\ txs[slots[f][a]].from = a
            /\ txs[slots[f][a]].factory = f
            /\ FactoryAt(f, txs[slots[f][a]].net)

\* What a launch consumed is in no slot any more.
ConsumedIsGone ==
    \A i \in Tokens, f \in Id, a \in Accounts :
        slots[f][a] # 0 => txs[i].used # slots[f][a]

InlineConsumesNothing ==
    \A i \in Tokens : txs[i].code # NoCode => txs[i].used = 0

ChainInv ==
    /\ ChainTypeOK
    /\ InlineConsumesNothing
    /\ SlotsHoldRegistrations
    /\ ConsumedIsGone
    /\ OneVaultPerRegistration

\* A transaction that is signed comes behind the others, pending.
LEMMA AppendTxs ==
    ASSUME ChainTypeOK, NEW t \in Requests, Len(txs) < MaxTxs,
           txs' = Append(txs, t), slots' = slots
    PROVE  /\ ChainTypeOK'
           /\ \A i \in 1..Len(txs) : i \in DOMAIN txs' /\ txs'[i] = txs[i]
           /\ Len(txs') = Len(txs) + 1
           /\ txs'[Len(txs) + 1].status = "pending"
           /\ DOMAIN txs = 1..Len(txs) /\ DOMAIN txs' = 1..(Len(txs) + 1)
<1>1. t \in Txs
  BY DEF Requests, Txs, Id
<1>2. txs \in Seq(Txs) /\ Len(txs) \in Nat /\ MaxTxs \in Nat
  BY FactoryAssumption DEF ChainTypeOK
<1> QED
  BY <1>1, <1>2 DEF ChainTypeOK, Requests

\* Signing adds a pending transaction: nothing that succeeded changes.
LEMMA SignKeepsInv ==
    ASSUME ChainInv, NEW t, Sign(t)
    PROVE  ChainInv'
<1>1. t \in Requests /\ Len(txs) < MaxTxs /\ txs' = Append(txs, t) /\ slots' = slots
  BY DEF Sign
<1>2. ChainTypeOK
  BY DEF ChainInv
<1>3. /\ ChainTypeOK'
      /\ \A i \in 1..Len(txs) : i \in DOMAIN txs' /\ txs'[i] = txs[i]
      /\ Len(txs') = Len(txs) + 1
      /\ txs'[Len(txs) + 1].status = "pending"
      /\ DOMAIN txs = 1..Len(txs) /\ DOMAIN txs' = 1..(Len(txs) + 1)
  BY <1>1, <1>2, AppendTxs
<1>4. Len(txs) \in Nat
  BY <1>2 DEF ChainTypeOK
<1>5. \A i \in DOMAIN txs' : txs'[i].status = "success" => i \in DOMAIN txs
  BY <1>3, <1>4
<1>6. Tokens' = Tokens /\ Tokens \subseteq 1..Len(txs)
  BY <1>3, <1>5 DEF Tokens, Succeeded
<1>8. SlotsHoldRegistrations'
  BY <1>1, <1>3 DEF ChainInv, SlotsHoldRegistrations, FactoryAt, Succeeded
<1>9. ConsumedIsGone'
  BY <1>1, <1>3, <1>6 DEF ChainInv, ConsumedIsGone
<1>10. OneVaultPerRegistration'
  BY <1>3, <1>4, <1>6 DEF ChainInv, OneVaultPerRegistration
<1>11. InlineConsumesNothing'
  BY <1>3, <1>6 DEF ChainInv, InlineConsumesNothing
<1> QED
  BY <1>3, <1>8, <1>9, <1>10, <1>11 DEF ChainInv

\* Settling a pending transaction leaves every settled one as it was.
LEMMA SettleTxs ==
    ASSUME ChainTypeOK, NEW i \in DOMAIN txs, txs[i].status = "pending",
           NEW s \in {"success", "reverted", "replaced"}, NEW u \in Id \union {0},
           Settle(i, s, u)
    PROVE  /\ txs' \in Seq(Txs) /\ Len(txs') = Len(txs) /\ DOMAIN txs' = DOMAIN txs
           /\ \A j \in DOMAIN txs : j # i => txs'[j] = txs[j]
           /\ txs'[i] = [txs[i] EXCEPT !.status = s, !.used = u]
           /\ txs[i] \in Txs /\ txs'[i] \in Txs
           /\ DOMAIN txs = 1..Len(txs) /\ i \in Id
           /\ \A j \in DOMAIN txs : txs[j].status = "success" => j # i
<1>1. txs \in Seq(Txs) /\ Len(txs) \in Nat /\ DOMAIN txs = 1..Len(txs)
      /\ Len(txs) <= MaxTxs /\ MaxTxs \in Nat
  BY FactoryAssumption DEF ChainTypeOK
<1>2. txs[i] \in Txs /\ i \in Id
  BY <1>1 DEF Id
<1>3. [txs[i] EXCEPT !.status = s, !.used = u] \in Txs
  BY <1>2 DEF Txs
<1>4. txs' = [txs EXCEPT ![i] = [txs[i] EXCEPT !.status = s, !.used = u]]
  BY <1>1, <1>2 DEF Settle, Txs
<1>5. /\ txs' \in Seq(Txs) /\ Len(txs') = Len(txs) /\ DOMAIN txs' = DOMAIN txs
      /\ \A j \in DOMAIN txs : j # i => txs'[j] = txs[j]
      /\ txs'[i] = [txs[i] EXCEPT !.status = s, !.used = u]
  BY <1>1, <1>3, <1>4
<1> QED
  BY <1>1, <1>2, <1>3, <1>5

\* A deployed factory, or a transaction that reverted or was replaced.
LEMMA SettledElsewhere ==
    ASSUME ChainInv, NEW i \in Id, NextNonce(i), UNCHANGED slots,
           \/ Settle(i, "success", 0) /\ txs[i].kind = "deploy"
           \/ Settle(i, "reverted", 0) \/ Settle(i, "replaced", 0)
    PROVE  ChainInv'
<1>1. ChainTypeOK /\ i \in DOMAIN txs /\ txs[i].status = "pending"
  BY DEF ChainInv, NextNonce
<1>2. PICK s \in {"success", "reverted", "replaced"} :
          Settle(i, s, 0) /\ (s = "success" => txs[i].kind = "deploy")
  OBVIOUS
<1>3. /\ txs' \in Seq(Txs) /\ Len(txs') = Len(txs) /\ DOMAIN txs' = DOMAIN txs
      /\ txs'[i] = [txs[i] EXCEPT !.status = s, !.used = 0]
      /\ txs[i] \in Txs /\ DOMAIN txs = 1..Len(txs)
      /\ \A j \in DOMAIN txs : j # i => txs'[j] = txs[j]
      /\ \A j \in DOMAIN txs : txs[j].status = "success" => j # i
  <2>1. CASE s = "success"
    BY <1>1, <1>2, <2>1, SettleTxs
  <2>2. CASE s = "reverted"
    BY <1>1, <1>2, <2>2, SettleTxs
  <2>3. CASE s = "replaced"
    BY <1>1, <1>2, <2>3, SettleTxs
  <2> QED
    BY <2>1, <2>2, <2>3
<1>4. txs'[i].status = s /\ txs'[i].kind = txs[i].kind
  BY <1>3 DEF Txs
<1>5. Tokens' = Tokens
  BY ZenonT(40), <1>2, <1>3, <1>4 DEF Tokens, Succeeded
<1>6. ChainTypeOK'
  BY <1>1, <1>3 DEF ChainTypeOK
<1>7. \A f, n : FactoryAt(f, n) => FactoryAt(f, n)'
  BY <1>3 DEF FactoryAt, Succeeded
<1>8. SlotsHoldRegistrations'
  BY <1>3, <1>7 DEF ChainInv, SlotsHoldRegistrations, FactoryAt, Succeeded
<1>9. \A j \in Tokens : txs'[j] = txs[j]
  BY <1>3 DEF Tokens, Succeeded
<1>10. ConsumedIsGone'
  BY <1>5, <1>9 DEF ChainInv, ConsumedIsGone
<1>13. \A j \in Tokens : txs[j].code = NoCode => Succeeded(txs[j].used, "register")
  BY <1>3 DEF ChainInv, OneVaultPerRegistration, Succeeded
<1>11. OneVaultPerRegistration'
  BY <1>3, <1>5, <1>9, <1>13 DEF ChainInv, OneVaultPerRegistration, Succeeded
<1>12. InlineConsumesNothing'
  BY <1>5, <1>9 DEF ChainInv, InlineConsumesNothing
<1> QED
  BY <1>6, <1>8, <1>10, <1>11, <1>12 DEF ChainInv

\* registerVault fills the slot of its sender with itself, which no launch
\* can have consumed: it was pending until now.
LEMMA RegisterKeepsInv ==
    ASSUME ChainInv, NEW i \in Id, MineRegister(i)
    PROVE  ChainInv'
<1>1. ChainTypeOK /\ i \in DOMAIN txs /\ txs[i].status = "pending"
      /\ txs[i].kind = "register" /\ Settle(i, "success", 0)
  BY DEF ChainInv, MineRegister, NextNonce
<1>2. /\ txs' \in Seq(Txs) /\ Len(txs') = Len(txs) /\ DOMAIN txs' = DOMAIN txs
      /\ txs'[i] = [txs[i] EXCEPT !.status = "success", !.used = 0]
      /\ txs[i] \in Txs /\ DOMAIN txs = 1..Len(txs)
      /\ \A j \in DOMAIN txs : j # i => txs'[j] = txs[j]
      /\ \A j \in DOMAIN txs : txs[j].status = "success" => j # i
  BY <1>1, SettleTxs
<1>3. /\ txs'[i].status = "success" /\ txs'[i].kind = "register"
      /\ txs'[i].from = txs[i].from /\ txs'[i].factory = txs[i].factory
      /\ txs'[i].net = txs[i].net /\ txs[i].from \in Accounts
      /\ txs[i].factory \in Id \union {0}
  BY <1>1, <1>2 DEF Txs
<1>4. Succeeded(i, "register")'
  BY <1>1, <1>2, <1>3 DEF Succeeded
<1>5. Tokens' = Tokens
  BY <1>2, <1>3 DEF Tokens, Succeeded
<1>6. \A f, n : FactoryAt(f, n) => FactoryAt(f, n)'
  BY <1>2 DEF FactoryAt, Succeeded
<1>7. slots' = slots \/
      /\ FactoryAt(txs[i].factory, txs[i].net)
      /\ slots' = [slots EXCEPT ![txs[i].factory][txs[i].from] = i]
  BY DEF MineRegister
<1>8. FactoryAt(txs[i].factory, txs[i].net) => txs[i].factory \in Id
  BY <1>2, <1>3 DEF FactoryAt, Succeeded
<1>9. slots \in [Id -> [Accounts -> Id \union {0}]]
  BY <1>1 DEF ChainTypeOK
<1>10. slots' \in [Id -> [Accounts -> Id \union {0}]]
  BY <1>3, <1>7, <1>8, <1>9
<1>11. \A f \in Id, a \in Accounts :
          slots'[f][a] = slots[f][a] \/
          /\ slots'[f][a] = i /\ f = txs[i].factory /\ a = txs[i].from
          /\ FactoryAt(f, txs[i].net)
  BY <1>3, <1>7, <1>8, <1>9
<1>12. ChainTypeOK'
  BY <1>1, <1>2, <1>10 DEF ChainTypeOK
<1>13. SlotsHoldRegistrations'
  <2>1. SUFFICES ASSUME NEW f \in Id, NEW a \in Accounts, slots'[f][a] # 0
                 PROVE  /\ Succeeded(slots[f][a], "register")'
                        /\ txs'[slots'[f][a]].from = a
                        /\ txs'[slots'[f][a]].factory = f
                        /\ FactoryAt(f, txs[slots[f][a]].net)'
    BY DEF SlotsHoldRegistrations
  <2>2. CASE slots'[f][a] = slots[f][a]
    BY <1>2, <2>1, <2>2 DEF ChainInv, SlotsHoldRegistrations, FactoryAt,
       Succeeded
  <2>3. CASE slots'[f][a] = i /\ f = txs[i].factory /\ a = txs[i].from
             /\ FactoryAt(f, txs[i].net)
    BY <1>1, <1>2, <1>3, <2>3 DEF FactoryAt, Succeeded
  <2> QED
    BY <1>11, <2>2, <2>3
<1>14. \A j \in Tokens : txs'[j] = txs[j]
  BY <1>2 DEF Tokens, Succeeded
<1>15. \A j \in Tokens : txs[j].code = NoCode => Succeeded(txs[j].used, "register")
  BY <1>2 DEF ChainInv, OneVaultPerRegistration, Succeeded
<1>16. ConsumedIsGone'
  BY <1>2, <1>5, <1>11, <1>14, <1>15 DEF ChainInv, ConsumedIsGone,
     InlineConsumesNothing, Id, Succeeded
<1>17. OneVaultPerRegistration'
  BY <1>2, <1>5, <1>14, <1>15 DEF ChainInv, OneVaultPerRegistration, Succeeded
<1>18. InlineConsumesNothing'
  BY <1>5, <1>14 DEF ChainInv, InlineConsumesNothing
<1> QED
  BY <1>12, <1>13, <1>16, <1>17, <1>18 DEF ChainInv

\* newVault: the launch takes its registration out of the slot, or brings
\* its own code and takes nothing.
LEMMA LaunchKeepsInv ==
    ASSUME ChainInv, NEW i \in Id, MineLaunch(i)
    PROVE  ChainInv'
<1> DEFINE f == txs[i].factory
           a == txs[i].from
           inline == txs[i].code # NoCode
           r == IF inline THEN 0 ELSE slots[f][a]
<1>1. ChainTypeOK /\ i \in DOMAIN txs /\ txs[i].status = "pending"
      /\ txs[i].kind = "launch" /\ WouldSucceed(txs[i]) /\ txs[i] \in Txs
  BY DEF ChainInv, MineLaunch, NextNonce, ChainTypeOK
<1>2. FactoryAt(f, txs[i].net) /\ f \in Id /\ a \in Accounts
  BY <1>1 DEF WouldSucceed, FactoryAt, Succeeded, ChainTypeOK, Txs, Id
<1>3. slots \in [Id -> [Accounts -> Id \union {0}]] /\ slots[f][a] \in Id \union {0}
  BY <1>1, <1>2 DEF ChainTypeOK
<1>4. ~inline => slots[f][a] # 0
  BY <1>1, <1>2, FactoryAssumption DEF WouldSucceed, Launches, CodeFor
<1>5. r \in Id \union {0} /\ Settle(i, "success", r)
  BY <1>3 DEF MineLaunch
<1>6. slots' = IF inline THEN slots ELSE [slots EXCEPT ![f][a] = 0]
  BY DEF MineLaunch
<1>7. /\ txs' \in Seq(Txs) /\ Len(txs') = Len(txs) /\ DOMAIN txs' = DOMAIN txs
      /\ \A j \in DOMAIN txs : j # i => txs'[j] = txs[j]
      /\ txs'[i] = [txs[i] EXCEPT !.status = "success", !.used = r]
      /\ DOMAIN txs = 1..Len(txs)
      /\ \A j \in DOMAIN txs : txs[j].status = "success" => j # i
  <2> HIDE DEF r
  <2> QED
    BY <1>1, <1>5, SettleTxs
<1>8. /\ txs'[i].status = "success" /\ txs'[i].kind = "launch" /\ txs'[i].used = r
      /\ txs'[i].from = a /\ txs'[i].factory = f /\ txs'[i].net = txs[i].net
      /\ txs'[i].code = txs[i].code
  BY <1>1, <1>7 DEF Txs
<1>9. Tokens' = Tokens \union {i} /\ i \notin Tokens
  <2>1. \A j \in DOMAIN txs : j # i => (Succeeded(j, "launch")' <=> Succeeded(j, "launch"))
    BY <1>7 DEF Succeeded
  <2>2. Succeeded(i, "launch")' /\ ~Succeeded(i, "launch")
    BY <1>1, <1>7, <1>8 DEF Succeeded
  <2> QED
    BY <1>1, <1>7, <2>1, <2>2 DEF Tokens
<1>10. \A j \in Tokens : txs'[j] = txs[j]
  BY <1>7 DEF Tokens, Succeeded
<1>11. /\ slots' \in [Id -> [Accounts -> Id \union {0}]]
       /\ \A g \in Id, b \in Accounts :
              slots'[g][b] # 0 =>
                  /\ slots'[g][b] = slots[g][b]
                  /\ ~inline => g # f \/ b # a
  <2>1. CASE inline
    BY <1>3, <1>6, <2>1
  <2>2. CASE ~inline
    BY <1>2, <1>3, <1>6, <2>2
  <2> QED
    BY <2>1, <2>2
<1>12. ChainTypeOK'
  BY <1>1, <1>7, <1>11 DEF ChainTypeOK
<1>13. SlotsHoldRegistrations'
  <2>1. SUFFICES ASSUME NEW g \in Id, NEW b \in Accounts, slots'[g][b] # 0
                 PROVE  /\ Succeeded(slots[g][b], "register")'
                        /\ txs'[slots'[g][b]].from = b
                        /\ txs'[slots'[g][b]].factory = g
                        /\ FactoryAt(g, txs[slots[g][b]].net)'
    BY DEF SlotsHoldRegistrations
  <2>2. slots'[g][b] = slots[g][b] /\ slots[g][b] # 0
    BY <1>11, <2>1
  <2> QED
    BY <1>7, <2>2 DEF ChainInv, SlotsHoldRegistrations, FactoryAt, Succeeded
\* The consumed registration names this wallet and this factory, so it is in
\* no other slot.
<1>14. ConsumedIsGone'
  <2>1. SUFFICES ASSUME NEW j \in Tokens', NEW g \in Id, NEW b \in Accounts,
                        slots'[g][b] # 0
                 PROVE  txs'[j].used # slots'[g][b]
    BY DEF ConsumedIsGone
  <2>2. CASE j \in Tokens
    BY <1>10, <1>11, <2>1, <2>2 DEF ChainInv, ConsumedIsGone
  <2>3. CASE j = i
    BY <1>2, <1>4, <1>8, <1>11, <2>1, <2>3 DEF ChainInv, SlotsHoldRegistrations
  <2> QED
    BY <1>9, <2>1, <2>2, <2>3
<1>15. InlineConsumesNothing'
  BY <1>8, <1>9, <1>10 DEF ChainInv, InlineConsumesNothing
<1>16. \A j \in Tokens : txs[j].code = NoCode => Succeeded(txs[j].used, "register")
  BY <1>7 DEF ChainInv, OneVaultPerRegistration, Succeeded
<1>17. ~inline =>
          /\ Succeeded(r, "register") /\ txs[r].from = a /\ txs[r].factory = f
          /\ txs[r].net = txs[i].net
          /\ \A j \in Tokens : txs[j].used # r
  BY <1>2, <1>4 DEF ChainInv, SlotsHoldRegistrations, ConsumedIsGone, FactoryAt
<1>18. OneVaultPerRegistration'
  <2>1. SUFFICES ASSUME NEW j \in Tokens', txs'[j].code = NoCode
                 PROVE  /\ txs'[j].used \in 1..Len(txs')
                        /\ txs'[txs'[j].used].kind = "register"
                        /\ txs'[txs'[j].used].status = "success"
                        /\ txs'[txs'[j].used].from = txs'[j].from
                        /\ txs'[txs'[j].used].factory = txs'[j].factory
                        /\ txs'[txs'[j].used].net = txs'[j].net
                        /\ \A m \in Tokens' \ {j} : txs'[m].used # txs'[j].used
    BY DEF OneVaultPerRegistration
  <2>2. CASE j \in Tokens
    <3>1. /\ txs[j].used \in DOMAIN txs /\ txs'[txs[j].used] = txs[txs[j].used]
      <4>1. txs[j].code = NoCode
        BY <1>10, <2>1, <2>2
      <4>2. Succeeded(txs[j].used, "register")
        BY <1>16, <2>2, <4>1
      <4> QED
        BY <1>7, <4>2 DEF Succeeded
    <3>2. \A m \in Tokens' \ {j} : txs'[m].used # txs'[j].used
      <4> txs[j].used \in 1..Len(txs) /\ txs'[j] = txs[j] /\ txs[j].code = NoCode
        BY <1>10, <2>1, <2>2 DEF ChainInv, OneVaultPerRegistration
      <4>1. CASE inline
        BY <1>8, <1>9, <1>10, <2>2, <4>1 DEF ChainInv, OneVaultPerRegistration
      <4>2. CASE ~inline
        BY <1>8, <1>9, <1>10, <1>17, <2>1, <2>2, <4>2
           DEF ChainInv, OneVaultPerRegistration
      <4> QED
        BY <4>1, <4>2
    <3> QED
      BY <1>7, <1>10, <2>1, <2>2, <3>1, <3>2 DEF ChainInv,
         OneVaultPerRegistration
  <2>3. CASE j = i
    BY ZenonT(40), <1>7, <1>8, <1>9, <1>10, <1>17, <2>1, <2>3 DEF Succeeded
  <2> QED
    BY <1>9, <2>1, <2>2, <2>3
<1> QED
  BY <1>12, <1>13, <1>14, <1>15, <1>18 DEF ChainInv

\* Whatever is mined next, the chain stays right.
LEMMA MineKeepsInv ==
    ASSUME ChainInv, NEW i \in Id,
           \/ MineDeploy(i) \/ MineRegister(i) \/ MineLaunch(i)
           \/ MineReverted(i) \/ Replace(i)
    PROVE  ChainInv'
<1>1. CASE MineDeploy(i)
  BY <1>1, SettledElsewhere DEF MineDeploy
<1>2. CASE MineRegister(i)
  BY <1>2, RegisterKeepsInv
<1>3. CASE MineLaunch(i)
  BY <1>3, LaunchKeepsInv
<1>4. CASE MineReverted(i) \/ Replace(i)
  BY <1>4, SettledElsewhere DEF MineReverted, Replace
<1> QED
  BY <1>1, <1>2, <1>3, <1>4

\* A step that leaves the chain alone.
LEMMA StutterKeepsInv ==
    ASSUME ChainInv, UNCHANGED chainVars
    PROVE  ChainInv'
BY DEF chainVars, ChainInv, ChainTypeOK, InlineConsumesNothing,
   SlotsHoldRegistrations,
       ConsumedIsGone, OneVaultPerRegistration, Tokens, FactoryAt, Succeeded

\* An empty chain, and one with the factory of an earlier chat.
LEMMA InitInv ==
    ASSUME txs = <<EarlierFactory>>,
           slots = [f \in Id |-> [a \in Accounts |-> 0]]
    PROVE  ChainInv
<1>1. EarlierFactory \in Txs /\ EarlierFactory.kind = "deploy"
  BY LaunchAssumption DEF EarlierFactory, Txs, Kinds
<1>2. DOMAIN txs = {1} /\ txs[1] = EarlierFactory /\ Len(txs) = 1
  OBVIOUS
<1>3. ChainTypeOK
  BY <1>1, <1>2, FactoryAssumption DEF ChainTypeOK
<1>4. Tokens = {}
  BY <1>1, <1>2 DEF Tokens, Succeeded
<1> QED
  BY <1>3, <1>4 DEF ChainInv, InlineConsumesNothing, SlotsHoldRegistrations,
                    ConsumedIsGone, OneVaultPerRegistration

\* The panel touches the chain only by signing; the chain's own steps are
\* those of VaultFactory.
LEMMA PanelStepsAreChainSteps ==
    ASSUME [Next]_vars
    PROVE  \/ \E t : Sign(t)
           \/ \E i \in Id : \/ MineDeploy(i) \/ MineRegister(i)
                            \/ MineLaunch(i) \/ MineReverted(i) \/ Replace(i)
           \/ UNCHANGED chainVars
<1> USE DEF chainVars
<1>1. CASE User
  BY <1>1 DEF User, Press, WalletChanges, TargetChanges, Remount, Reload,
     RunEnds, Paste, ResetFactory
<1>2. CASE Handler
  BY <1>2 DEF Handler, NetworkSwitched, SwitchRefused, Simulated,
     SimulationFails,
              Signed, NotSigned, NotConfirmed, FactoryDeployed, VaultRegistered,
              LaunchConfirmed, VaultNotFound, TokenLaunched
<1>3. CASE ConfigReturns \/ ReadReturns \/ ReadFails \/ PostArrives \/ PostIsLost
  BY <1>3 DEF ConfigReturns, ReadReturns, ReadFails, PostArrives, PostIsLost
<1>4. CASE ChainMines \/ WalletReplaces
  BY <1>4 DEF ChainMines, WalletReplaces
<1>5. CASE UNCHANGED vars
  BY <1>5 DEF vars
<1> QED
  BY <1>1, <1>2, <1>3, <1>4, <1>5 DEF Next

\* A registration becomes at most one vault, for the wallet and the factory
\* it was made for, however often a failed-looking launch is repeated.
THEOREM LaunchFlowOneVault ==
    Spec => []OneVaultPerRegistration
<1>1. Init => ChainInv
  BY InitInv DEF Init
<1>2. ChainInv /\ [Next]_vars => ChainInv'
  BY SignKeepsInv, MineKeepsInv, StutterKeepsInv, PanelStepsAreChainSteps
<1>3. ChainInv => OneVaultPerRegistration
  BY DEF ChainInv
<1> QED
  BY <1>1, <1>2, <1>3, PTL DEF Spec

-----------------------------------------------------------------------------
(* BytecodeStorage.                                                        *)

\* The chunks of a code are laid end to end, none is empty and none exceeds
\* what one contract may hold, and together they are as long as the code: read
\* returns what write was given.
THEOREM ChunksCoverTheCode ==
    ASSUME NEW len \in Nat \ {0}
    PROVE  /\ ChunkStart(1) = 0
           /\ ChunkEnd(len, ChunkCount(len)) = len
           /\ \A i \in 1..ChunkCount(len) :
                  /\ ChunkStart(i) < ChunkEnd(len, i)
                  /\ ChunkEnd(len, i) - ChunkStart(i) <= MAX_CHUNK_SIZE
                  /\ i < ChunkCount(len) => ChunkEnd(len, i) = ChunkStart(i + 1)
<1> DEFINE n == ChunkCount(len)
<1>1. n \in Nat /\ n * 24575 >= len /\ (n - 1) * 24575 < len /\ n > 0
  BY DEF ChunkCount, MAX_CHUNK_SIZE
<1>2. ASSUME NEW i \in 1..n
      PROVE  i * 24575 - 24575 < len /\ (i < n => i * 24575 < len)
  BY <1>1
<1>3. \A i \in 1..n : ChunkStart(i) = i * 24575 - 24575
  BY <1>1 DEF ChunkStart, MAX_CHUNK_SIZE
<1> HIDE DEF n
<1> QED
  BY <1>1, <1>2, <1>3 DEF ChunkStart, ChunkEnd, MAX_CHUNK_SIZE, n

-----------------------------------------------------------------------------
(* The panel and its records                                               *)

Fingerprints == {PrintOf[c] : c \in Codes} \union {NoPrint}
Events ==
    [status : {"none", "factory_deployed", "registered", "launched",
               "factory_cleared", "bytecode_provided"},
     net : Networks, factory : Id \union {0}, code : Codes \union {NoCode},
     wallet : Accounts \union {Nobody}, tx : Id \union {0}]
States(G) ==
    [factory : Id \union {0}, code : Codes \union {NoCode}, tx : Id \union {0},
     print : Fingerprints, launched : G \union {0}]
Wallets == [account : Accounts, net : Networks]
Chats == [shown : Codes, live : BOOLEAN, artifacts : Seq(Events), target : Networks]
Panels ==
    [phase : {"idle", "switching", "factory", "register", "launching"},
     factory : Id \union {0}, regKey : Fingerprints, regDesc : Descs \union {NoDesc},
     regTx : Id \union {0}, launched : Id \union {0},
     preflight : {"idle", "running", "ok", "failed"}, known : BOOLEAN]
Calls == [net : Networks, factory : Id \union {0}]
Reads ==
    [factory : Id \union {0}, account : Accounts, net : Networks, desc : Descs,
     key : Fingerprints]
Handlers ==
    [kind : Kinds, stage : Stages, attached : BOOLEAN, account : Accounts,
     net : Networks, factory : Id \union {0}, code : Codes \union {NoCode},
     desc : Descs, signer : Accounts \union {Nobody}, tx : Nat]
Caches ==
    [factory : [Networks -> Id \union {0}], code : Codes \union {NoCode},
     launched : [Accounts \X Networks -> Id \union {0}]]

\* The tokens launched on a network.
LaunchedOn(net) == {i \in Id : ReceiptIsSuccess(i, "launch") /\ txs[i].net = net}

PanelTypes ==
    /\ chat \in Chats /\ panel \in Panels
    /\ configs \in SUBSET Calls
    /\ \A i \in DOMAIN reading : reading[i] \in Reads

RecordTypes == cache \in Caches /\ posts \in SUBSET Events /\ db \in Seq(Events)

\* Of some numbers there is a least one.
LEMMA LeastNumber ==
    ASSUME NEW T, T \subseteq Nat, T # {}
    PROVE  \E k \in T : \A j \in T : k <= j
<1>1. IsWellFoundedOn(OpToRel(<, Nat), Nat) BY NatLessThanWellFounded
<1>2. PICK k \in T : \A j \in T : ~(<<j, k>> \in OpToRel(<, Nat))
  BY <1>1, WFMin
<1>3. \A j \in T : ~(j < k)
  <2> SUFFICES ASSUME NEW j \in T, j < k PROVE FALSE
    OBVIOUS
  <2>1. <<j, k>> \in Nat \X Nat OBVIOUS
  <2>2. <<j, k>> \in OpToRel(<, Nat) BY <2>1 DEF OpToRel
  <2> QED BY <1>2, <2>2
<1> QED BY <1>3

\* A fingerprint is one.
LEMMA FingerprintTypes ==
    ASSUME NEW c \in Codes \union {NoCode}
    PROVE  Fingerprint(c) \in Fingerprints
BY DEF Fingerprint, Fingerprints

\* One event of the fold; only a launch changes what is launched.
LEMMA ApplyTypes ==
    ASSUME NEW G, NEW s \in States(G), NEW e \in Events,
           e.status = "launched" => e.tx \in G
    PROVE  Apply(s, e) \in States(G)
<1>1. Fingerprint(e.code) \in Fingerprints BY FingerprintTypes DEF Events
<1>2. CASE e.status = "factory_cleared"
  <2>1. Apply(s, e) = [s EXCEPT !.factory = 0] BY <1>2 DEF Apply
  <2> QED BY <2>1 DEF States
<1>3. CASE e.status # "factory_cleared"
  <2> DEFINE F == IF e.factory # 0 THEN e.factory ELSE s.factory
             C == IF e.code # NoCode THEN e.code ELSE s.code
             T == IF e.status = "registered" THEN e.tx ELSE s.tx
             K == IF e.status = "registered" THEN Fingerprint(e.code) ELSE s.print
             L == IF e.status = "launched" THEN e.tx ELSE s.launched
  <2>1. /\ F \in Id \union {0} /\ C \in Codes \union {NoCode} /\ T \in Id \union {0}
        /\ K \in Fingerprints /\ L \in G \union {0}
    BY <1>1 DEF Events, States
  <2>2. Apply(s, e) = [s EXCEPT !.factory = F, !.code = C, !.tx = T, !.print = K,
                                !.launched = L]
    BY <1>3 DEF Apply
  <2> HIDE DEF F, C, T, K, L
  <2> QED BY <2>1, <2>2 DEF States
<1> QED BY <1>2, <1>3

\* The state of a network is folded from its own events: nothing is launched
\* there but what they say.
LEMMA Merged ==
    ASSUME NEW s \in Seq(Events), NEW net, NEW G,
           \A i \in DOMAIN s : s[i].net = net /\ s[i].status = "launched" => s[i].tx \in G
    PROVE  MergeVaultState(s, net) \in States(G)
<1> DEFINE N == Len(s)
           Next1(g, n) == IF n = 0 THEN EmptyState
                          ELSE IF s[n].net = net THEN Apply(g[n - 1], s[n]) ELSE g[n - 1]
<1>1. N \in Nat /\ DOMAIN s = 1..N OBVIOUS
<1>2. \A k \in 0..N : \E g : g = [n \in 0..k |-> Next1(g, n)]
  <2> DEFINE T == {k \in 0..N : ~\E g : g = [n \in 0..k |-> Next1(g, n)]}
  <2> SUFFICES ASSUME T # {} PROVE FALSE
    OBVIOUS
  <2>1. T \subseteq Nat BY <1>1
  <2>2. PICK k \in T : \A j \in T : k <= j BY <2>1, LeastNumber
  <2>3. CASE k = 0
    <3> DEFINE g == [n \in 0..0 |-> EmptyState]
    <3>1. g = [n \in 0..0 |-> Next1(g, n)] OBVIOUS
    <3> QED BY <2>2, <2>3, <3>1
  <2>4. CASE k # 0
    <3>1. k \in Nat /\ k - 1 \in 0..N /\ ~(k <= k - 1) BY <1>1, <2>4
    <3>2. k - 1 \notin T BY <2>2, <3>1
    <3>3. PICK g : g = [n \in 0..(k - 1) |-> Next1(g, n)] BY <3>1, <3>2
    <3> DEFINE h == [n \in 0..k |-> IF n = k THEN Next1(g, k) ELSE g[n]]
    <3>4. \A n \in 0..(k - 1) : h[n] = g[n] BY <3>1
    <3>5. \A n \in 0..k : n # 0 => n - 1 \in 0..(k - 1) BY <3>1
    <3>6. \A n \in 0..k : Next1(h, n) = Next1(g, n) BY <3>4, <3>5
    <3>7. \A n \in 0..(k - 1) : g[n] = Next1(g, n) BY <3>3
    <3>8. \A n \in 0..k : n # k => n \in 0..(k - 1) BY <3>1
    <3> HIDE DEF Next1
    <3>9. \A n \in 0..k : h[n] = Next1(h, n) BY <3>6, <3>7, <3>8
    <3>10. h = [n \in 0..k |-> h[n]] OBVIOUS
    <3> HIDE DEF h
    <3>11. h = [n \in 0..k |-> Next1(h, n)] BY <3>9, <3>10
    <3> QED BY <2>2, <3>11
  <2> QED BY <2>3, <2>4
<1> DEFINE fold == CHOOSE g : g = [n \in 0..N |-> Next1(g, n)]
<1>3. fold = [n \in 0..N |-> Next1(fold, n)]
  <2>1. N \in 0..N BY <1>1
  <2> HIDE DEF Next1, N
  <2>2. \E g : g = [n \in 0..N |-> Next1(g, n)] BY <1>2, <2>1
  <2> QED BY <2>2, Zenon
<1>4. MergeVaultState(s, net) = fold[N] BY DEF MergeVaultState
<1> HIDE DEF fold
<1>5. EmptyState \in States(G) BY DEF EmptyState, States, Fingerprints
<1>6. \A n \in 0..N : fold[n] \in States(G)
  <2> DEFINE T == {n \in 0..N : fold[n] \notin States(G)}
  <2> SUFFICES ASSUME T # {} PROVE FALSE
    OBVIOUS
  <2>1. T \subseteq Nat BY <1>1
  <2>2. PICK k \in T : \A j \in T : k <= j BY <2>1, LeastNumber
  <2>3. CASE k = 0 BY <1>3, <1>5, <2>2, <2>3
  <2>4. CASE k # 0
    <3>1. k \in Nat /\ k - 1 \in 0..N /\ ~(k <= k - 1) /\ k \in 1..N
      BY <1>1, <2>4
    <3>2. fold[k - 1] \in States(G) BY <2>2, <3>1
    <3>3. s[k] \in Events /\ k \in DOMAIN s BY <1>1, <3>1
    <3>4. fold[k] = IF s[k].net = net THEN Apply(fold[k - 1], s[k]) ELSE fold[k - 1]
      BY <1>3, <2>4
    <3>5. CASE s[k].net = net
      <4>1. Apply(fold[k - 1], s[k]) \in States(G)
        BY <3>2, <3>3, <3>5, ApplyTypes
      <4> QED BY <2>2, <3>4, <3>5, <4>1
    <3>6. CASE s[k].net # net BY <2>2, <3>2, <3>4, <3>6
    <3> QED BY <3>5, <3>6
  <2> QED BY <2>3, <2>4
<1> QED BY <1>1, <1>4, <1>6

-----------------------------------------------------------------------------
(* The invariant of the panel                                              *)

\* What was loaded of the database is how it began.
LoadedIsPrefix == \E n \in 0..Len(db) : chat.artifacts = SubSeq(db, 1, n)

\* What an event of the chat says happened where it says it did.
Holds(e) ==
    /\ e.status = "factory_deployed" => FactoryAt(e.factory, e.net)
    /\ e.status = "registered" =>
           /\ ReceiptIsSuccess(e.tx, "register")
           /\ txs[e.tx].net = e.net /\ txs[e.tx].code = e.code
    /\ e.status = "launched" => e.tx \in LaunchedOn(e.net)

RecordsHold ==
    /\ \A e \in posts : Holds(e)
    /\ \A i \in DOMAIN db : Holds(db[i])
    /\ \A n \in Networks : cache.factory[n] # 0 => FactoryAt(cache.factory[n], n)
    /\ \A a \in Accounts, n \in Networks :
           cache.launched[<<a, n>>] \in LaunchedOn(n) \union {0}

\* A handler that waits for a receipt waits for the transaction it signed.
Knows(op) ==
    /\ op.stage \in {"confirming", "looking"} =>
           /\ op.tx \in DOMAIN txs
           /\ txs[op.tx].kind = op.kind /\ txs[op.tx].net = op.net
           /\ txs[op.tx].code = op.code
    /\ op.stage = "looking" => op.kind = "launch" /\ ReceiptIsSuccess(op.tx, "launch")
    /\ op.stage \notin {"confirming", "looking"} => op.tx = 0
HandlersKnow == \A op \in ops : Knows(op)

\* The panel shows what is launched on its network; the network does not
\* change under a handler of the panel.
ShownIsLaunched ==
    /\ panel.launched \in LaunchedOn(chat.target) \union {0}
    /\ \A op \in ops : op.attached => op.net = chat.target

\* One handler works for the panel at a time, and the panel shows which.
PhaseIsWork ==
    /\ \A o1, o2 \in ops : o1.attached /\ o2.attached => o1 = o2
    /\ panel.phase = "idle" => \A op \in ops : ~op.attached
    /\ panel.phase # "idle" => \E op \in ops : op.attached
    /\ \A op \in ops :
           op.attached =>
               panel.phase = IF op.stage = "switching" THEN "switching" ELSE PhaseOf[op.kind]

LaunchInv ==
    /\ ChainInv
    /\ wallet \in Wallets /\ ops \in SUBSET Handlers /\ PanelTypes /\ RecordTypes
    /\ LoadedIsPrefix /\ RecordsHold /\ HandlersKnow /\ ShownIsLaunched /\ PhaseIsWork

\* The transactions stay, and what succeeded.
Grows ==
    \A i \in DOMAIN txs :
        /\ i \in DOMAIN txs'
        /\ txs'[i].kind = txs[i].kind /\ txs'[i].net = txs[i].net
        /\ txs'[i].code = txs[i].code
        /\ txs[i].status = "success" => txs'[i].status = "success"
        /\ txs[i].status = "replaced" => txs'[i].status = "replaced"

\* No step takes back a transaction or what became of it.
LEMMA ChainGrows ==
    ASSUME ChainInv, [Next]_vars
    PROVE  Grows
<1>1. CASE UNCHANGED chainVars BY <1>1 DEF chainVars, Grows
<1>2. ASSUME NEW t, Sign(t) PROVE Grows
  <2>1. \A i \in 1..Len(txs) : i \in DOMAIN txs' /\ txs'[i] = txs[i]
    BY <1>2, AppendTxs DEF Sign, ChainInv
  <2>2. DOMAIN txs = 1..Len(txs) BY DEF ChainInv, ChainTypeOK
  <2> QED BY <2>1, <2>2 DEF Grows
<1>3. ASSUME NEW i \in Id, NextNonce(i),
             NEW s \in {"success", "reverted", "replaced"}, NEW u \in Id \union {0}, Settle(i, s, u)
      PROVE  Grows
  <2>1. i \in DOMAIN txs /\ txs[i].status = "pending" BY <1>3 DEF NextNonce
  <2>2. /\ DOMAIN txs' = DOMAIN txs
        /\ \A j \in DOMAIN txs : j # i => txs'[j] = txs[j]
        /\ txs'[i] = [txs[i] EXCEPT !.status = s, !.used = u]
        /\ txs[i] \in Txs
    <3>1. ChainTypeOK BY DEF ChainInv
    <3>2. CASE s = "success" BY <1>3, <2>1, <3>1, <3>2, SettleTxs
    <3>3. CASE s = "reverted" BY <1>3, <2>1, <3>1, <3>3, SettleTxs
    <3>4. CASE s = "replaced" BY <1>3, <2>1, <3>1, <3>4, SettleTxs
    <3> QED BY <3>2, <3>3, <3>4
  <2>3. /\ txs'[i].kind = txs[i].kind /\ txs'[i].net = txs[i].net
        /\ txs'[i].code = txs[i].code
    BY <2>2 DEF Txs
  <2> QED BY <2>1, <2>2, <2>3 DEF Grows
<1>4. ASSUME NEW i \in Id,
             \/ MineDeploy(i) \/ MineRegister(i) \/ MineLaunch(i)
             \/ MineReverted(i) \/ Replace(i)
      PROVE  Grows
  <2>1. CASE MineDeploy(i) BY <1>3, <2>1 DEF MineDeploy
  <2>2. CASE MineRegister(i) BY <1>3, <2>2 DEF MineRegister
  <2>3. CASE MineLaunch(i)
    <3> DEFINE u == IF txs[i].code # NoCode THEN 0 ELSE slots[txs[i].factory][txs[i].from]
    <3>1. NextNonce(i) /\ Settle(i, "success", u) /\ txs[i] \in Txs
          /\ FactoryAt(txs[i].factory, txs[i].net)
      BY <2>3 DEF MineLaunch, NextNonce, WouldSucceed, ChainInv, ChainTypeOK
    <3>2. txs[i].factory \in Id
      BY <3>1 DEF FactoryAt, Succeeded, ChainInv, ChainTypeOK, Txs, Id
    <3>3. u \in Id \union {0} BY <3>1, <3>2 DEF ChainInv, ChainTypeOK, Txs
    <3> HIDE DEF u
    <3> QED BY <1>3, <3>1, <3>3
  <2>4. CASE MineReverted(i) \/ Replace(i)
    BY <1>3, <2>4 DEF MineReverted, Replace
  <2> QED BY <1>4, <2>1, <2>2, <2>3, <2>4
<1> QED BY <1>1, <1>2, <1>4, PanelStepsAreChainSteps

\* So what the records say stays true.
LEMMA StaysTrue ==
    ASSUME Grows
    PROVE  /\ \A i, kind : Succeeded(i, kind) => Succeeded(i, kind)'
           /\ \A i, kind : ReceiptIsSuccess(i, kind) => ReceiptIsSuccess(i, kind)'
           /\ \A f, n : FactoryAt(f, n) => FactoryAt(f, n)'
           /\ \A n : \A i \in LaunchedOn(n) \union {0} : i \in LaunchedOn(n)' \union {0}
           /\ \A e : Holds(e) => Holds(e)'
           /\ \A op : Knows(op) => Knows(op)'
<1>1. \A i, kind : Succeeded(i, kind) => Succeeded(i, kind)'
  BY DEF Grows, Succeeded
<1>2. \A i, kind : Succeeded(i, kind) => txs'[i].net = txs[i].net /\ txs'[i].code = txs[i].code
  BY DEF Grows, Succeeded
<1>3. \A f, n : FactoryAt(f, n) => FactoryAt(f, n)' BY <1>1, <1>2 DEF FactoryAt
<1>7. \A i, kind : ReceiptIsSuccess(i, kind) => ReceiptIsSuccess(i, kind)'
  BY DEF Grows, ReceiptIsSuccess
<1>8. \A i, kind :
          ReceiptIsSuccess(i, kind) => txs'[i].net = txs[i].net /\ txs'[i].code = txs[i].code
  BY DEF Grows, ReceiptIsSuccess
<1>4. \A n : \A i \in LaunchedOn(n) \union {0} : i \in LaunchedOn(n)' \union {0}
  BY <1>7, <1>8 DEF LaunchedOn
<1>5. \A e : Holds(e) => Holds(e)'
  <2> SUFFICES ASSUME NEW e, Holds(e) PROVE Holds(e)'
    OBVIOUS
  <2>1. e.status = "factory_deployed" => FactoryAt(e.factory, e.net)'
    BY <1>3 DEF Holds
  <2>2. e.status = "registered" =>
            /\ ReceiptIsSuccess(e.tx, "register")'
            /\ txs'[e.tx].net = e.net /\ txs'[e.tx].code = e.code
    BY <1>7, <1>8 DEF Holds
  <2>3. e.status = "launched" => e.tx \in LaunchedOn(e.net)'
    BY <1>7, <1>8 DEF Holds, LaunchedOn
  <2> QED BY <2>1, <2>2, <2>3 DEF Holds
<1>6. \A op : Knows(op) => Knows(op)' BY <1>7 DEF Knows, Grows
<1> QED BY <1>1, <1>3, <1>4, <1>5, <1>6, <1>7

\* A panel that is restored from the records shows what is launched on its
\* network.
LEMMA RestoredTypes ==
    ASSUME NEW p \in Panels, NEW c \in Chats, NEW w \in Wallets, NEW local \in Caches,
           NEW G, G \subseteq Id, Persisted(c) \in States(G),
           local.launched[<<w.account, c.target>>] \in G \union {0}
    PROVE  /\ Restored(p, c, w, local) \in Panels
           /\ Restored(p, c, w, local).launched \in G \union {0}
           /\ Restored(p, c, w, local).phase = p.phase
           /\ Restored(p, c, w, local).factory = p.factory
           /\ Restored(p, c, w, local).preflight = p.preflight
<1> DEFINE L == IF local.launched[<<w.account, c.target>>] # 0
                  THEN local.launched[<<w.account, c.target>>] ELSE Persisted(c).launched
<1>1. L \in G \union {0} BY DEF States
<1>2. Restored(p, c, w, local) = [p EXCEPT !.launched = L] BY DEF Restored
<1> HIDE DEF L
<1> QED BY <1>1, <1>2 DEF Panels

\* The stored fingerprint of a registration is taken over when it fits.
LEMMA TrustedTypes ==
    ASSUME NEW p \in Panels, NEW c, NEW local, NEW G, Persisted(c) \in States(G)
    PROVE  /\ Trusted(p, c, local) \in Panels
           /\ Trusted(p, c, local).launched = p.launched
           /\ Trusted(p, c, local).phase = p.phase
           /\ Trusted(p, c, local).factory = p.factory
           /\ Trusted(p, c, local).preflight = p.preflight
<1> DEFINE d == Persisted(c)
           K == IF p.regKey = NoPrint THEN d.print ELSE p.regKey
           T == IF p.regTx = 0 THEN d.tx ELSE p.regTx
<1>1. K \in Fingerprints /\ T \in Id \union {0} BY DEF States, Panels
<1>2. Trusted(p, c, local) \in {p, [p EXCEPT !.regKey = K, !.regTx = T]}
  BY DEF Trusted
<1> HIDE DEF K, T, d
<1>3. CASE Trusted(p, c, local) = p BY <1>3
<1>4. CASE Trusted(p, c, local) = [p EXCEPT !.regKey = K, !.regTx = T]
  BY <1>1, <1>4 DEF Panels
<1> QED BY <1>2, <1>3, <1>4

\* What is registered is a code the panel has, or none.
LEMMA PayloadTypes ==
    ASSUME NEW c \in Chats, NEW local \in Caches, NEW G, Persisted(c) \in States(G)
    PROVE  Payload(c, local) \in Codes \union {NoCode}
BY DEF Payload, Chats, Caches, States

\* What the effects that a commit runs ask for is typed.
LEMMA CallTypes ==
    ASSUME NEW p \in Panels, NEW c \in Chats, NEW w \in Wallets, NEW local \in Caches,
           NEW G, Persisted(c) \in States(G)
    PROVE  ConfigCall(c) \in Calls /\ ReadCall(p, c, w, local) \in Reads
<1>1. Fingerprint(Payload(c, local)) \in Fingerprints
  BY PayloadTypes, FingerprintTypes
<1>2. DescOf[c.shown] \in Descs BY LaunchAssumption DEF Chats
<1>3. ReadCall(p, c, w, local) \in Reads
  BY <1>1, <1>2 DEF ReadCall, Reads, Panels, Wallets, Chats
<1>4. ConfigCall(c) \in Calls BY DEF ConfigCall, Calls, Chats, States
<1> QED BY <1>3, <1>4

\* A commit of the panel: it keeps its types, its phase and its factory, and
\* shows what is launched on the network of the new props.
LEMMA Committed ==
    ASSUME PanelTypes, NEW p \in Panels, NEW c \in Chats, NEW w \in Wallets,
           NEW local \in Caches, NEW mounts \in BOOLEAN,
           Commit(p, c, w, local, mounts),
           NEW G, G \subseteq Id, Persisted(c) \in States(G),
           local.launched[<<w.account, c.target>>] \in G \union {0},
           mounts \/ c.target # chat.target \/ p.launched \in G \union {0}
    PROVE  /\ PanelTypes' /\ chat' = c
           /\ panel'.phase = p.phase /\ panel'.factory = p.factory
           /\ panel'.preflight = p.preflight
           /\ panel'.launched \in G \union {0}
<1> DEFINE was(deps, now) == ~mounts /\ deps = now
           p1 == IF was(LaunchedDeps(chat, wallet), LaunchedDeps(c, w)) THEN p
                 ELSE Restored(p, c, w, local)
           p2 == IF was(TrustDeps(chat, cache), TrustDeps(c, local)) THEN p1
                 ELSE Trusted(p1, c, local)
           same == was(ReadDeps(panel, chat, wallet), ReadDeps(p2, c, w))
           reads == ~same /\ p2.factory # 0
           K == IF same THEN p2.known ELSE FALSE
<1>1. /\ chat' = c
      /\ panel' = [p2 EXCEPT !.known = K]
      /\ reading' = IF same THEN reading
                    ELSE IF reads THEN <<ReadCall(p2, c, w, local)>> ELSE NoRead
      /\ configs' = IF mounts THEN {ConfigCall(c)}
                    ELSE IF ConfigDeps(chat) = ConfigDeps(c) THEN configs
                    ELSE configs \union {ConfigCall(c)}
  BY DEF Commit
<1> HIDE DEF same, reads
<1>2. /\ p1 \in Panels /\ p1.phase = p.phase /\ p1.factory = p.factory
      /\ p1.preflight = p.preflight /\ p1.launched \in G \union {0}
  <2>1. CASE was(LaunchedDeps(chat, wallet), LaunchedDeps(c, w))
    <3>1. ~mounts /\ c.target = chat.target BY <2>1 DEF LaunchedDeps
    <3>2. p.launched \in G \union {0} BY <3>1
    <3>3. p1 = p BY <2>1
    <3> HIDE DEF p1
    <3> QED BY <3>2, <3>3
  <2>2. CASE ~was(LaunchedDeps(chat, wallet), LaunchedDeps(c, w))
    <3>1. p1 = Restored(p, c, w, local) BY <2>2
    <3> HIDE DEF p1
    <3> QED BY <3>1, RestoredTypes
  <2> QED BY <2>1, <2>2
<1> HIDE DEF p1
<1>3. /\ p2 \in Panels /\ p2.phase = p.phase /\ p2.factory = p.factory
      /\ p2.preflight = p.preflight /\ p2.launched \in G \union {0}
  <2>1. p2 = p1 \/ p2 = Trusted(p1, c, local) OBVIOUS
  <2> HIDE DEF p2
  <2>2. CASE p2 = p1 BY <1>2, <2>2
  <2>3. CASE p2 = Trusted(p1, c, local) BY <1>2, <2>3, TrustedTypes
  <2> QED BY <2>1, <2>2, <2>3
<1> HIDE DEF p2
<1>4. K \in BOOLEAN BY <1>3 DEF Panels
<1> HIDE DEF K
<1>5. /\ panel' \in Panels
      /\ panel'.phase = p.phase /\ panel'.factory = p.factory
      /\ panel'.preflight = p.preflight /\ panel'.launched \in G \union {0}
  BY <1>1, <1>3, <1>4 DEF Panels
<1>6. ConfigCall(c) \in Calls /\ ReadCall(p2, c, w, local) \in Reads
  BY <1>3, CallTypes
<1>7. configs' \in SUBSET Calls BY <1>1, <1>6 DEF PanelTypes
<1>8. \A i \in DOMAIN reading' : reading'[i] \in Reads
  BY <1>1, <1>6 DEF PanelTypes, NoRead
<1> QED BY <1>1, <1>5, <1>7, <1>8 DEF PanelTypes

\* What the panel folds from the records of the chat is launched.
LEMMA PersistedHolds ==
    ASSUME RecordTypes, RecordsHold, LoadedIsPrefix, NEW c \in Chats,
           c.artifacts \in {chat.artifacts, db}
    PROVE  Persisted(c) \in States(LaunchedOn(c.target))
<1>1. db \in Seq(Events) /\ DOMAIN db = 1..Len(db) /\ Len(db) \in Nat
  BY DEF RecordTypes
<1>2. \A i \in DOMAIN c.artifacts : i \in DOMAIN db /\ c.artifacts[i] = db[i]
  <2>1. CASE c.artifacts = db BY <2>1
  <2>2. CASE c.artifacts = chat.artifacts
    <3>1. PICK n \in 0..Len(db) : chat.artifacts = SubSeq(db, 1, n)
      BY DEF LoadedIsPrefix
    <3>2. SubSeq(db, 1, n) = [i \in 1..n |-> db[i]] BY <1>1, <3>1
    <3> QED BY <1>1, <2>2, <3>1, <3>2
  <2> QED BY <2>1, <2>2
<1>3. c.artifacts \in Seq(Events) BY DEF Chats
<1>4. \A i \in DOMAIN c.artifacts :
          c.artifacts[i].net = c.target /\ c.artifacts[i].status = "launched"
              => c.artifacts[i].tx \in LaunchedOn(c.target)
  BY <1>2 DEF RecordsHold, Holds
<1> QED BY <1>3, <1>4, Merged DEF Persisted

\* Where a commit leaves the panel when its props come from the records.
PanelMoves ==
    /\ PanelTypes'
    /\ chat'.artifacts \in {chat.artifacts, db}
    /\ panel'.launched \in LaunchedOn(chat'.target) \union {0}

\* A render that was caused by the user or by a return sets the panel as
\* PanelMoves says.
LEMMA CommitMoves ==
    ASSUME LaunchInv, NEW p \in Panels, NEW c \in Chats, NEW w \in Wallets,
           NEW local \in Caches, NEW mounts \in BOOLEAN,
           Commit(p, c, w, local, mounts),
           c.artifacts \in {chat.artifacts, db}, local.launched = cache.launched,
           mounts \/ c.target # chat.target
               \/ p.launched \in LaunchedOn(chat.target) \union {0}
    PROVE  PanelMoves /\ chat' = c /\ panel'.phase = p.phase
<1>1. /\ PanelTypes /\ RecordTypes /\ RecordsHold /\ LoadedIsPrefix
  BY DEF LaunchInv
<1> DEFINE G == LaunchedOn(c.target)
<1>2. Persisted(c) \in States(G) BY <1>1, PersistedHolds
<1>3. G \subseteq Id BY DEF LaunchedOn
<1>4. local.launched[<<w.account, c.target>>] \in G \union {0}
  BY <1>1 DEF RecordsHold, Wallets, Chats
<1>5. mounts \/ c.target # chat.target \/ p.launched \in G \union {0} OBVIOUS
<1> HIDE DEF G
<1>6. /\ PanelTypes' /\ chat' = c /\ panel'.phase = p.phase
      /\ panel'.launched \in G \union {0}
  BY <1>1, <1>2, <1>3, <1>4, <1>5, Committed
<1> QED BY <1>6 DEF PanelMoves, G

\* What succeeded has a number.
LEMMA SucceededIds ==
    ASSUME ChainInv
    PROVE  /\ \A i, kind : Succeeded(i, kind) => i \in Id
           /\ \A i, kind : ReceiptIsSuccess(i, kind) => i \in Id
<1>1. DOMAIN txs = 1..Len(txs) /\ Len(txs) \in Nat /\ Len(txs) <= MaxTxs /\ MaxTxs \in Nat
  BY FactoryAssumption DEF ChainInv, ChainTypeOK
<1>2. DOMAIN txs \subseteq Id BY <1>1 DEF Id
<1> QED BY <1>2 DEF Succeeded, ReceiptIsSuccess

\* The panel of a handler that starts to work.
LEMMA BeginsTypes ==
    ASSUME panel \in Panels, NEW kind \in Kinds
    PROVE  /\ Begins(panel, kind) \in Panels
           /\ Begins(panel, kind).phase = PhaseOf[kind]
           /\ Begins(panel, kind).launched = panel.launched
<1> DEFINE q == IF kind = "launch" THEN "running" ELSE panel.preflight
<1>1. q \in {"idle", "running", "ok", "failed"} BY DEF Panels
<1>2. Begins(panel, kind) = [panel EXCEPT !.phase = PhaseOf[kind], !.preflight = q]
  BY DEF Begins
<1>3. PhaseOf[kind] \in {"factory", "register", "launching"}
  BY DEF PhaseOf, Kinds
<1> HIDE DEF q
<1> QED BY <1>1, <1>2, <1>3 DEF Panels

\* A handler that is still part of the panel renders it, another does not.
LEMMA ShowMoves ==
    ASSUME LaunchInv, NEW op \in ops, NEW p \in Panels, Show(op, p),
           op.attached => p.launched \in LaunchedOn(chat.target) \union {0}
    PROVE  /\ PanelMoves /\ chat' = chat
           /\ panel'.phase = IF op.attached THEN p.phase ELSE panel.phase
<1>1. wallet \in Wallets /\ cache \in Caches /\ chat \in Chats
  BY DEF LaunchInv, RecordTypes, PanelTypes
<1>2. CASE op.attached
  <2>1. Commit(p, chat, wallet, cache, FALSE) BY <1>2 DEF Show, Render
  <2> QED BY <1>1, <1>2, <2>1, CommitMoves
<1>3. CASE ~op.attached
  BY <1>3 DEF Show, panelVars, PanelMoves, PanelTypes, LaunchInv,
     ShownIsLaunched
<1> QED BY <1>2, <1>3

\* The panel when a step does not touch it.
LEMMA PanelStays ==
    ASSUME LaunchInv, UNCHANGED panelVars
    PROVE  PanelMoves /\ chat' = chat /\ panel'.phase = panel.phase
BY DEF panelVars, PanelMoves, PanelTypes, LaunchInv, ShownIsLaunched

-----------------------------------------------------------------------------
(* The handlers of a step                                                  *)

HandlersMove ==
    /\ ops' \in SUBSET Handlers /\ HandlersKnow' /\ PhaseIsWork'
    /\ \A op \in ops' : op.attached => op.net = chat'.target

\* One ends: the panel, if it is still its, is idle again.
LEMMA HandlerEnds ==
    ASSUME LaunchInv, Grows, NEW op \in ops, ops' = ops \ {op}, chat' = chat,
           panel'.phase = IF op.attached THEN "idle" ELSE panel.phase
    PROVE  HandlersMove
<1>1. ops' \in SUBSET Handlers BY DEF LaunchInv
<1>2. HandlersKnow' BY StaysTrue DEF LaunchInv, HandlersKnow
<1>3. \A o \in ops' : o.attached => o.net = chat'.target
  BY DEF LaunchInv, ShownIsLaunched
<1>4. PhaseIsWork'
  <2>1. CASE op.attached BY <2>1 DEF LaunchInv, PhaseIsWork
  <2>2. CASE ~op.attached BY <2>2 DEF LaunchInv, PhaseIsWork
  <2> QED BY <2>1, <2>2
<1> QED BY <1>1, <1>2, <1>3, <1>4 DEF HandlersMove

\* One goes on: the panel, if it is still its, shows what it does now.
LEMMA HandlerGoesOn ==
    ASSUME LaunchInv, Grows, NEW op \in ops, NEW new \in Handlers,
           ops' = (ops \ {op}) \union {new}, chat' = chat, Knows(new)',
           new.attached = op.attached, new.kind = op.kind, new.net = op.net,
           panel'.phase =
               IF ~op.attached THEN panel.phase
               ELSE IF new.stage = "switching" THEN "switching" ELSE PhaseOf[new.kind]
    PROVE  HandlersMove
<1>1. ops' \in SUBSET Handlers BY DEF LaunchInv
<1>2. HandlersKnow' BY StaysTrue DEF LaunchInv, HandlersKnow
<1>3. \A o \in ops' : o.attached => o.net = chat'.target
  BY DEF LaunchInv, ShownIsLaunched
<1>4. PhaseIsWork'
  <2>1. CASE op.attached
    <3>1. panel'.phase # "idle"
      BY <2>1 DEF PhaseOf, Handlers, Kinds
    <3>2. \A o \in ops' : o.attached => o = new
      BY <2>1 DEF LaunchInv, PhaseIsWork
    <3> QED BY <2>1, <3>1, <3>2 DEF PhaseIsWork
  <2>2. CASE ~op.attached
    BY <2>2 DEF LaunchInv, PhaseIsWork
  <2> QED BY <2>1, <2>2
<1> QED BY <1>1, <1>2, <1>3, <1>4 DEF HandlersMove

\* The network changes under an idle panel only.
LEMMA HandlersStay ==
    ASSUME LaunchInv, Grows, ops' = ops,
           chat'.target = chat.target \/ panel.phase = "idle",
           panel'.phase = panel.phase
    PROVE  HandlersMove
<1>1. HandlersKnow' BY StaysTrue DEF LaunchInv, HandlersKnow
<1>2. \A op \in ops' : op.attached => op.net = chat'.target
  BY DEF LaunchInv, ShownIsLaunched, PhaseIsWork
<1>3. PhaseIsWork' BY DEF LaunchInv, PhaseIsWork
<1> QED
  BY <1>1, <1>2, <1>3 DEF LaunchInv, HandlersMove

\* No handler belongs to a panel that was just mounted.
LEMMA HandlersDetach ==
    ASSUME LaunchInv, Grows, ops' \in SUBSET Detached, panel'.phase = "idle"
    PROVE  HandlersMove
<1>1. \A o \in ops' : o \in Handlers /\ ~o.attached /\ Knows(o)'
  <2> SUFFICES ASSUME NEW o \in ops' PROVE o \in Handlers /\ ~o.attached /\ Knows(o)'
    OBVIOUS
  <2>1. PICK op \in ops : o = [op EXCEPT !.attached = FALSE] BY DEF Detached
  <2>2. op \in Handlers /\ Knows(op)' BY StaysTrue DEF LaunchInv, HandlersKnow
  <2>3. /\ o \in Handlers /\ ~o.attached /\ o.stage = op.stage /\ o.tx = op.tx
        /\ o.kind = op.kind /\ o.net = op.net /\ o.code = op.code
    BY <2>1, <2>2 DEF Handlers
  <2> QED BY <2>2, <2>3 DEF Knows
<1> QED BY <1>1 DEF HandlersMove, HandlersKnow, PhaseIsWork

-----------------------------------------------------------------------------
(* The records of a step                                                   *)

RecordsMove == RecordTypes' /\ RecordsHold' /\ LoadedIsPrefix'

\* What was loaded stays a beginning of the database.
LEMMA PrefixStays ==
    ASSUME LaunchInv, chat'.artifacts \in {chat.artifacts, db}, db' = db
    PROVE  LoadedIsPrefix'
<1>1. db \in Seq(Events) BY DEF LaunchInv, RecordTypes
<1>2. CASE chat'.artifacts = chat.artifacts
  BY <1>2 DEF LaunchInv, LoadedIsPrefix
<1>3. CASE chat'.artifacts = db
  <2>1. SubSeq(db, 1, Len(db)) = db /\ Len(db) \in 0..Len(db) BY <1>1
  <2> QED BY <1>3, <2>1 DEF LoadedIsPrefix
<1> QED BY <1>2, <1>3

\* Records that are left alone stay true of a chain that grows.
LEMMA RecordsStay ==
    ASSUME LaunchInv, Grows, UNCHANGED recordVars,
           chat'.artifacts \in {chat.artifacts, db}
    PROVE  RecordsMove
<1>1. RecordTypes' BY DEF LaunchInv, RecordTypes, recordVars
<1>2. RecordsHold'
  <2>1. /\ UNCHANGED <<cache, posts, db>> /\ RecordsHold
    BY DEF recordVars, LaunchInv
  <2>2. (\A e \in posts : Holds(e)') /\ (\A j \in DOMAIN db : Holds(db[j])')
    <3>1. \A e \in posts : Holds(e)' BY <2>1, StaysTrue DEF RecordsHold
    <3>2. ASSUME NEW j \in DOMAIN db PROVE Holds(db[j])'
      <4>1. Holds(db[j]) BY <2>1 DEF RecordsHold
      <4>2. db'[j] = db[j] BY <2>1
      <4> QED BY <4>1, <4>2, StaysTrue DEF Holds
    <3> QED BY <3>1, <3>2
  <2>3. \A n \in Networks : cache.factory[n] # 0 => FactoryAt(cache.factory[n], n)'
    BY <2>1, StaysTrue DEF RecordsHold, FactoryAt
  <2>4. \A a \in Accounts, n \in Networks :
            cache.launched[<<a, n>>] \in LaunchedOn(n)' \union {0}
    BY <2>1, StaysTrue DEF RecordsHold
  <2> QED BY <2>1, <2>2, <2>3, <2>4 DEF RecordsHold, Holds, FactoryAt
<1>3. LoadedIsPrefix' BY PrefixStays DEF recordVars
<1> QED BY <1>1, <1>2, <1>3 DEF RecordsMove

\* An event is posted, or nothing is, and the browser's cache changes, to
\* what is true.
LEMMA RecordsGrow ==
    ASSUME LaunchInv, Grows, NEW new \in SUBSET Events, \A e \in new : Holds(e),
           posts' \subseteq posts \union new, db' = db, cache' \in Caches,
           \A n \in Networks : cache'.factory[n] # 0 => FactoryAt(cache'.factory[n], n),
           \A a \in Accounts, n \in Networks :
               cache'.launched[<<a, n>>] \in LaunchedOn(n) \union {0},
           chat'.artifacts \in {chat.artifacts, db}
    PROVE  RecordsMove
<1>1. RecordTypes' BY DEF LaunchInv, RecordTypes
<1>2. RecordsHold'
  <2>1. RecordsHold BY DEF LaunchInv
  <2>2. \A e \in posts' : Holds(e)' BY <2>1, StaysTrue DEF RecordsHold
  <2>3. ASSUME NEW j \in DOMAIN db PROVE Holds(db[j])'
    <3>1. Holds(db[j]) BY <2>1 DEF RecordsHold
    <3>2. db'[j] = db[j] OBVIOUS
    <3> QED BY <3>1, <3>2, StaysTrue DEF Holds
  <2>4. \A n \in Networks : cache'.factory[n] # 0 => FactoryAt(cache.factory[n], n)'
    BY StaysTrue DEF FactoryAt
  <2>5. \A a \in Accounts, n \in Networks :
            cache'.launched[<<a, n>>] \in LaunchedOn(n)' \union {0}
    BY StaysTrue
  <2> QED BY <2>2, <2>3, <2>4, <2>5 DEF RecordsHold, Holds
<1>3. LoadedIsPrefix' BY PrefixStays
<1> QED BY <1>1, <1>2, <1>3 DEF RecordsMove

\* A post arrives: it is the newest event of the database.
LEMMA RecordArrives ==
    ASSUME LaunchInv, PostArrives, Grows
    PROVE  RecordsMove
<1>1. PICK e \in posts : posts' = posts \ {e} /\ db' = Append(db, e)
                         /\ UNCHANGED <<cache, chat>>
  BY DEF PostArrives, panelVars
<1>2. /\ e \in Events /\ db \in Seq(Events) /\ Len(db) \in Nat /\ DOMAIN db = 1..Len(db)
      /\ RecordsHold
  BY <1>1 DEF LaunchInv, RecordTypes
<1>3. /\ db' \in Seq(Events) /\ Len(db') = Len(db) + 1 /\ DOMAIN db' = 1..(Len(db) + 1)
      /\ \A j \in 1..Len(db) : db'[j] = db[j]
      /\ db'[Len(db) + 1] = e
  BY <1>1, <1>2
<1>4. RecordTypes' BY <1>1, <1>3 DEF LaunchInv, RecordTypes
<1>5. RecordsHold'
  <2>1. \A f \in posts' : Holds(f)' BY <1>1, <1>2, StaysTrue DEF RecordsHold
  <2>2. ASSUME NEW j \in DOMAIN db' PROVE Holds(db[j])'
    <3>1. CASE j \in 1..Len(db)
      <4>1. Holds(db[j]) /\ db'[j] = db[j] BY <1>2, <1>3, <3>1 DEF RecordsHold
      <4> QED BY <4>1, StaysTrue DEF Holds
    <3>2. CASE j = Len(db) + 1
      <4>1. Holds(e) /\ db'[j] = e BY <1>1, <1>2, <1>3, <3>2 DEF RecordsHold
      <4> QED BY <4>1, StaysTrue DEF Holds
    <3> QED BY <1>2, <1>3, <3>1, <3>2
  <2>3. \A n \in Networks : cache.factory[n] # 0 => FactoryAt(cache.factory[n], n)'
    BY <1>1, <1>2, StaysTrue DEF RecordsHold, FactoryAt
  <2>4. \A a \in Accounts, n \in Networks :
            cache.launched[<<a, n>>] \in LaunchedOn(n)' \union {0}
    BY <1>2, StaysTrue DEF RecordsHold
  <2> QED BY <1>1, <2>1, <2>2, <2>3, <2>4 DEF RecordsHold, Holds, FactoryAt
<1>6. LoadedIsPrefix'
  <2>1. PICK n \in 0..Len(db) : chat.artifacts = SubSeq(db, 1, n)
    BY DEF LaunchInv, LoadedIsPrefix
  <2>2. SubSeq(db', 1, n) = SubSeq(db, 1, n)
    <3>1. SubSeq(db, 1, n) = [j \in 1..n |-> db[j]] BY <1>2, <2>1
    <3>2. SubSeq(db', 1, n) = [j \in 1..n |-> db'[j]] BY <1>2, <1>3, <2>1
    <3>3. \A j \in 1..n : db'[j] = db[j] BY <1>2, <1>3, <2>1
    <3> QED BY <3>1, <3>2, <3>3
  <2>3. n \in 0..Len(db') BY <1>2, <1>3, <2>1
  <2>4. chat' = chat BY <1>1
  <2> QED BY <2>1, <2>2, <2>3, <2>4 DEF LoadedIsPrefix
<1> QED BY <1>4, <1>5, <1>6 DEF RecordsMove

\* The parts of the invariant, put together.
LEMMA LaunchInvFrom ==
    ASSUME ChainInv', Grows, wallet' \in Wallets, PanelMoves, HandlersMove, RecordsMove
    PROVE  LaunchInv'
<1>1. panel'.launched \in LaunchedOn(chat.target)' \union {0}
  BY StaysTrue DEF PanelMoves, LaunchedOn
<1> QED
  BY <1>1 DEF LaunchInv, PanelMoves, HandlersMove, RecordsMove, ShownIsLaunched

-----------------------------------------------------------------------------
(* One handler                                                             *)

\* The catch and finally of a handler.
LEMMA Stopped ==
    ASSUME LaunchInv, ChainInv', Grows, NEW op \in ops,
           NEW pf \in {"idle", "running", "ok", "failed"}, Stops(op, pf),
           wallet' = wallet, UNCHANGED recordVars
    PROVE  LaunchInv'
<1> DEFINE q == IF op.kind = "launch" THEN pf ELSE panel.preflight
           p == [panel EXCEPT !.phase = "idle", !.preflight = q]
<1>1. ops' = ops \ {op} /\ Show(op, p) BY DEF Stops
<1>2. panel \in Panels /\ q \in {"idle", "running", "ok", "failed"}
  BY DEF LaunchInv, PanelTypes, Panels
<1> HIDE DEF q
<1>3. p \in Panels /\ p.phase = "idle" /\ p.launched = panel.launched
  BY <1>2 DEF Panels
<1> HIDE DEF p
<1>4. p.launched \in LaunchedOn(chat.target) \union {0}
  BY <1>3 DEF LaunchInv, ShownIsLaunched
<1>5. /\ PanelMoves /\ chat' = chat
      /\ panel'.phase = IF op.attached THEN p.phase ELSE panel.phase
  BY <1>1, <1>3, <1>4, ShowMoves
<1>6. HandlersMove BY <1>1, <1>3, <1>5, HandlerEnds
<1>7. RecordsMove BY <1>5, RecordsStay
<1> QED BY <1>5, <1>6, <1>7, LaunchInvFrom DEF LaunchInv

\* A handler that goes on without a word to the panel.
LEMMA WentOn ==
    ASSUME LaunchInv, ChainInv', Grows, NEW op \in ops, NEW new \in Handlers,
           Step(op, new), Knows(new)',
           new.attached = op.attached, new.kind = op.kind, new.net = op.net,
           op.stage # "switching", new.stage # "switching",
           UNCHANGED <<panelVars, wallet, recordVars>>
    PROVE  LaunchInv'
<1>1. ops' = (ops \ {op}) \union {new} BY DEF Step
<1>2. PanelMoves /\ chat' = chat /\ panel'.phase = panel.phase
  BY PanelStays
<1>3. op.attached => panel.phase = PhaseOf[op.kind]
  BY DEF LaunchInv, PhaseIsWork
<1>4. HandlersMove BY <1>1, <1>2, <1>3, HandlerGoesOn
<1>5. RecordsMove BY <1>2, RecordsStay
<1> QED BY <1>2, <1>4, <1>5, LaunchInvFrom DEF LaunchInv

\* The wallet answers a handler's request to switch the network.
LEMMA SwitchStep ==
    ASSUME LaunchInv, ChainInv', Grows, NEW op \in ops, NetworkSwitched(op)
    PROVE  LaunchInv'
<1> DEFINE new == [op EXCEPT !.stage = Work(op.kind)]
           p == Begins(panel, op.kind)
<1>1. /\ op.stage = "switching" /\ ops' = (ops \ {op}) \union {new}
      /\ wallet' = [wallet EXCEPT !.net = op.net]
      /\ UNCHANGED recordVars
      /\ IF op.attached THEN Commit(p, chat, wallet', cache, FALSE)
                        ELSE UNCHANGED panelVars
  BY DEF NetworkSwitched, Step
<1>2. op \in Handlers /\ wallet \in Wallets /\ panel \in Panels /\ chat \in Chats
      /\ cache \in Caches /\ Knows(op)
  BY DEF LaunchInv, PanelTypes, RecordTypes, HandlersKnow
<1>3. wallet' \in Wallets BY <1>1, <1>2 DEF Wallets, Handlers
<1>4. Work(op.kind) \in {"signing", "simulating"} BY DEF Work
<1>5. /\ new \in Handlers /\ new.stage = Work(op.kind)
      /\ new.attached = op.attached /\ new.kind = op.kind /\ new.net = op.net
      /\ new.tx = op.tx
  BY <1>2, <1>4 DEF Handlers, Stages
<1> HIDE DEF new
<1>6. Knows(new)' BY <1>1, <1>2, <1>4, <1>5 DEF Knows
<1>7. p \in Panels /\ p.phase = PhaseOf[op.kind] /\ p.launched = panel.launched
  BY <1>2, BeginsTypes DEF Handlers
<1> HIDE DEF p
<1>8. /\ PanelMoves /\ chat' = chat
      /\ panel'.phase = IF op.attached THEN p.phase ELSE panel.phase
  <2>1. CASE op.attached
    <3>1. p.launched \in LaunchedOn(chat.target) \union {0}
      BY <1>7 DEF LaunchInv, ShownIsLaunched
    <3> QED BY <1>1, <1>2, <1>3, <1>7, <2>1, <3>1, CommitMoves
  <2>2. CASE ~op.attached BY <1>1, <2>2, PanelStays
  <2> QED BY <2>1, <2>2
<1>9. HandlersMove BY <1>1, <1>4, <1>5, <1>6, <1>7, <1>8, HandlerGoesOn
<1>10. RecordsMove BY <1>1, <1>8, RecordsStay
<1> QED BY <1>3, <1>8, <1>9, <1>10, LaunchInvFrom

\* The preflight of a handler returns.
LEMMA SimulatedStep ==
    ASSUME LaunchInv, ChainInv', Grows, NEW op \in ops, Simulated(op)
    PROVE  LaunchInv'
<1>1. op \in Handlers /\ wallet \in Wallets /\ Knows(op)
  BY DEF LaunchInv, HandlersKnow
<1>2. PICK new : new = [op EXCEPT !.stage = "signing", !.signer = wallet.account]
  OBVIOUS
<1>3. /\ op.stage = "simulating" /\ Step(op, new)
      /\ UNCHANGED <<panelVars, wallet, recordVars>>
  BY <1>2 DEF Simulated
<1>4. /\ new \in Handlers /\ new.stage = "signing" /\ new.attached = op.attached
      /\ new.kind = op.kind /\ new.net = op.net /\ new.tx = op.tx
  BY <1>1, <1>2 DEF Handlers, Stages, Wallets
<1>5. Knows(new)' BY <1>1, <1>3, <1>4 DEF Knows
<1> QED BY <1>3, <1>4, <1>5, WentOn

\* The transaction that was signed is the one that is waited for.
LEMMA SignedStep ==
    ASSUME LaunchInv, ChainInv', Grows, NEW op \in ops, Signed(op)
    PROVE  LaunchInv'
<1>1. op \in Handlers /\ ChainTypeOK BY DEF LaunchInv, ChainInv
<1>2. PICK new : new = [op EXCEPT !.stage = "confirming", !.tx = Len(txs) + 1]
  OBVIOUS
<1>3. PICK t : t = Tx(op, IF op.kind = "deploy" THEN wallet.account ELSE op.signer)
  OBVIOUS
<1>4. /\ op.stage = "signing" /\ Step(op, new) /\ Sign(t)
      /\ UNCHANGED <<panelVars, wallet, recordVars>>
  BY <1>2, <1>3 DEF Signed
<1>5. /\ t \in Requests /\ Len(txs) < MaxTxs /\ txs' = Append(txs, t) /\ slots' = slots
  BY <1>4 DEF Sign
<1>6. t.kind = op.kind /\ t.net = op.net /\ t.code = op.code BY <1>3 DEF Tx
<1>7. Len(txs) \in Nat /\ txs \in Seq(Txs) BY <1>1 DEF ChainTypeOK
<1>8. /\ new \in Handlers /\ new.stage = "confirming" /\ new.attached = op.attached
      /\ new.kind = op.kind /\ new.net = op.net /\ new.tx = Len(txs) + 1
      /\ new.code = op.code
  <2>1. PICK k \in Nat : k = Len(txs) + 1 BY <1>7
  <2>2. new = [op EXCEPT !.stage = "confirming", !.tx = k] BY <1>2, <2>1
  <2>3. /\ new \in Handlers /\ new.stage = "confirming" /\ new.attached = op.attached
        /\ new.kind = op.kind /\ new.net = op.net /\ new.tx = k /\ new.code = op.code
    BY <1>1, <2>1, <2>2 DEF Handlers, Stages
  <2> QED BY <2>1, <2>3
<1>9. Len(txs) + 1 \in DOMAIN txs' /\ txs'[Len(txs) + 1] = t
  BY <1>5, <1>7
<1>10. Knows(new)' BY <1>6, <1>8, <1>9 DEF Knows
<1> QED BY <1>4, <1>8, <1>10, WentOn

\* The receipt of a launch has come; the vault is still to be looked up.
LEMMA LaunchConfirmedStep ==
    ASSUME LaunchInv, ChainInv', Grows, NEW op \in ops, LaunchConfirmed(op)
    PROVE  LaunchInv'
<1> DEFINE new == [op EXCEPT !.stage = "looking"]
<1>1. op \in Handlers /\ Knows(op) BY DEF LaunchInv, HandlersKnow
<1>2. /\ Confirmed(op, "launch") /\ Step(op, new)
      /\ UNCHANGED <<panelVars, wallet, recordVars>> /\ txs' = txs
  BY DEF LaunchConfirmed
<1>3. /\ new \in Handlers /\ new.stage = "looking" /\ new.attached = op.attached
      /\ new.kind = op.kind /\ new.net = op.net /\ new.tx = op.tx /\ new.code = op.code
  BY <1>1 DEF Handlers, Stages
<1> HIDE DEF new
<1>4. op.stage = "confirming" /\ op.kind = "launch" /\ ReceiptIsSuccess(op.tx, "launch")
  BY <1>2 DEF Confirmed
<1>5. Knows(new)' BY <1>1, <1>2, <1>3, <1>4 DEF Knows, ReceiptIsSuccess
<1> QED BY <1>2, <1>3, <1>4, <1>5, WentOn

\* A handler that ends well: it posts one event, the panel shows p.
LEMMA EndedWell ==
    ASSUME LaunchInv, ChainInv', Grows, NEW op \in ops, NEW p \in Panels, Show(op, p),
           ops' = ops \ {op}, p.phase = "idle",
           op.attached => p.launched \in LaunchedOn(chat.target) \union {0},
           NEW e \in Events, Post(e), Holds(e), db' = db, wallet' = wallet,
           cache' \in Caches,
           \A n \in Networks : cache'.factory[n] # 0 => FactoryAt(cache'.factory[n], n),
           \A a \in Accounts, n \in Networks :
               cache'.launched[<<a, n>>] \in LaunchedOn(n) \union {0}
    PROVE  LaunchInv'
<1>1. /\ PanelMoves /\ chat' = chat
      /\ panel'.phase = IF op.attached THEN p.phase ELSE panel.phase
  BY ShowMoves
<1>2. HandlersMove BY <1>1, HandlerEnds
<1>3. RecordsMove
  <2>1. {e} \in SUBSET Events /\ (\A f \in {e} : Holds(f)) /\ posts' \subseteq posts \union {e}
    BY DEF Post
  <2> HIDE DEF Post
  <2> QED BY <1>1, <2>1, RecordsGrow
<1> QED BY <1>1, <1>2, <1>3, LaunchInvFrom DEF LaunchInv

\* The receipt of a factory: it is recorded under the handler's own network.
LEMMA FactoryDeployedStep ==
    ASSUME LaunchInv, ChainInv', Grows, NEW op \in ops, FactoryDeployed(op)
    PROVE  LaunchInv'
<1>1. op \in Handlers /\ Knows(op) /\ panel \in Panels /\ cache \in Caches
      /\ RecordsHold
  BY DEF LaunchInv, HandlersKnow, PanelTypes, RecordTypes
<1>2. /\ op.stage = "confirming" /\ op.kind = "deploy" /\ Succeeded(op.tx, "deploy")
  BY DEF FactoryDeployed, Confirmed
<1>3. FactoryAt(op.tx, op.net) BY <1>1, <1>2 DEF Knows, FactoryAt
<1>4. op.tx \in Id BY <1>3, SucceededIds DEF FactoryAt, LaunchInv
<1>5. PICK p : p = [panel EXCEPT !.phase = "idle", !.factory = op.tx,
                                 !.regKey = NoPrint, !.regTx = 0]
  OBVIOUS
<1>6. PICK e : e = [Event("factory_deployed", op.net) EXCEPT
                       !.factory = op.tx, !.wallet = op.account, !.tx = op.tx]
  OBVIOUS
<1>7. /\ cache' = [cache EXCEPT !.factory[op.net] = op.tx]
      /\ Post(e) /\ ops' = ops \ {op} /\ Show(op, p) /\ db' = db /\ wallet' = wallet
  BY <1>5, <1>6 DEF FactoryDeployed
<1>8. p \in Panels /\ p.phase = "idle" /\ p.launched = panel.launched
  BY <1>1, <1>4, <1>5 DEF Panels, Fingerprints
<1>9. e \in Events /\ e.status = "factory_deployed" /\ e.factory = op.tx /\ e.net = op.net
  BY <1>1, <1>4, <1>6, LaunchAssumption DEF Event, NoEvent, Events, Handlers
<1>10. Holds(e) BY <1>3, <1>9 DEF Holds
<1>11. p.launched \in LaunchedOn(chat.target) \union {0}
  BY <1>8 DEF LaunchInv, ShownIsLaunched
<1>12. /\ cache' \in Caches /\ cache'.launched = cache.launched
       /\ \A n \in Networks :
             cache'.factory[n] = IF n = op.net THEN op.tx ELSE cache.factory[n]
  BY <1>1, <1>4, <1>7 DEF Caches, Handlers
<1>13. \A n \in Networks : cache'.factory[n] # 0 => FactoryAt(cache'.factory[n], n)
  BY <1>1, <1>3, <1>12 DEF RecordsHold
<1>14. \A a \in Accounts, n \in Networks :
           cache'.launched[<<a, n>>] \in LaunchedOn(n) \union {0}
  BY <1>1, <1>12 DEF RecordsHold
<1> QED BY <1>7, <1>8, <1>9, <1>10, <1>11, <1>12, <1>13, <1>14, EndedWell

\* The receipt of a registration: it is recorded for the handler's own
\* account.
LEMMA VaultRegisteredStep ==
    ASSUME LaunchInv, ChainInv', Grows, NEW op \in ops, VaultRegistered(op)
    PROVE  LaunchInv'
<1>1. op \in Handlers /\ Knows(op) /\ panel \in Panels /\ cache \in Caches
      /\ RecordsHold
  BY DEF LaunchInv, HandlersKnow, PanelTypes, RecordTypes
<1>2. /\ op.stage = "confirming" /\ op.kind = "register"
      /\ ReceiptIsSuccess(op.tx, "register")
  BY DEF VaultRegistered, Confirmed
<1>3. /\ ReceiptIsSuccess(op.tx, "register")
      /\ txs[op.tx].net = op.net /\ txs[op.tx].code = op.code
  BY <1>1, <1>2 DEF Knows
<1>4. op.tx \in Id BY <1>3, SucceededIds DEF LaunchInv
<1>5. PICK p : p = [panel EXCEPT !.phase = "idle", !.regTx = op.tx,
                                 !.regKey = Fingerprint(op.code)]
  OBVIOUS
<1>6. PICK e : e = [Event("registered", op.net) EXCEPT
                       !.factory = op.factory, !.code = op.code,
                       !.wallet = op.account, !.tx = op.tx]
  OBVIOUS
<1>7. /\ cache' = cache
      /\ Post(e) /\ ops' = ops \ {op} /\ Show(op, p) /\ db' = db /\ wallet' = wallet
  BY <1>5, <1>6 DEF VaultRegistered
<1>8. p \in Panels /\ p.phase = "idle" /\ p.launched = panel.launched
  <2>1. Fingerprint(op.code) \in Fingerprints
    BY <1>1, FingerprintTypes DEF Handlers
  <2> QED BY <1>1, <1>4, <1>5, <2>1 DEF Panels
<1>9. /\ e \in Events /\ e.status = "registered" /\ e.tx = op.tx /\ e.net = op.net
      /\ e.code = op.code
  BY <1>1, <1>4, <1>6, LaunchAssumption DEF Event, NoEvent, Events, Handlers
<1>10. Holds(e) BY <1>3, <1>9 DEF Holds
<1>11. p.launched \in LaunchedOn(chat.target) \union {0}
  BY <1>8 DEF LaunchInv, ShownIsLaunched
<1>12. cache' \in Caches
       /\ (\A n \in Networks : cache'.factory[n] # 0 => FactoryAt(cache'.factory[n], n))
       /\ (\A a \in Accounts, n \in Networks :
               cache'.launched[<<a, n>>] \in LaunchedOn(n) \union {0})
  BY <1>1, <1>7 DEF RecordsHold
<1> QED BY <1>7, <1>8, <1>9, <1>10, <1>11, <1>12, EndedWell

\* The receipt of a launch: the token is recorded and shown, if its panel is
\* still there.
LEMMA TokenLaunchedStep ==
    ASSUME LaunchInv, ChainInv', Grows, NEW op \in ops, TokenLaunched(op)
    PROVE  LaunchInv'
<1>1. op \in Handlers /\ Knows(op) /\ panel \in Panels /\ cache \in Caches
      /\ RecordsHold
  BY DEF LaunchInv, HandlersKnow, PanelTypes, RecordTypes
<1>2. op.stage = "looking" BY DEF TokenLaunched
<1>3. ReceiptIsSuccess(op.tx, "launch") /\ txs[op.tx].net = op.net
  BY <1>1, <1>2 DEF Knows
<1>4. op.tx \in Id /\ op.tx \in LaunchedOn(op.net)
  BY <1>3, SucceededIds DEF LaunchedOn, LaunchInv
<1>5. PICK p : p = [panel EXCEPT !.phase = "idle", !.preflight = "ok", !.launched = op.tx]
  OBVIOUS
<1>6. PICK e : e = [Event("launched", op.net) EXCEPT
                       !.factory = op.factory, !.wallet = op.account, !.tx = op.tx]
  OBVIOUS
<1>7. /\ cache' = [cache EXCEPT !.launched[<<op.account, op.net>>] = op.tx]
      /\ Post(e) /\ ops' = ops \ {op} /\ Show(op, p) /\ db' = db /\ wallet' = wallet
  BY <1>5, <1>6 DEF TokenLaunched
<1>8. p \in Panels /\ p.phase = "idle" /\ p.launched = op.tx
  BY <1>1, <1>4, <1>5 DEF Panels
<1>9. e \in Events /\ e.status = "launched" /\ e.tx = op.tx /\ e.net = op.net
  BY <1>1, <1>4, <1>6, LaunchAssumption DEF Event, NoEvent, Events, Handlers
<1>10. Holds(e) BY <1>4, <1>9 DEF Holds
<1>11. op.attached => p.launched \in LaunchedOn(chat.target) \union {0}
  BY <1>4, <1>8 DEF LaunchInv, ShownIsLaunched
<1>12. /\ cache' \in Caches /\ cache'.factory = cache.factory
       /\ \A a \in Accounts, n \in Networks :
             cache'.launched[<<a, n>>] =
                 IF a = op.account /\ n = op.net THEN op.tx ELSE cache.launched[<<a, n>>]
  <2> DEFINE g == [cache.launched EXCEPT ![<<op.account, op.net>>] = op.tx]
  <2>1. cache.launched \in [Accounts \X Networks -> Id \union {0}]
    BY <1>1 DEF Caches
  <2>2. <<op.account, op.net>> \in Accounts \X Networks BY <1>1 DEF Handlers
  <2>3. g \in [Accounts \X Networks -> Id \union {0}] BY <1>4, <2>1, <2>2
  <2>4. ASSUME NEW a \in Accounts, NEW n \in Networks
        PROVE  g[<<a, n>>] = IF a = op.account /\ n = op.net THEN op.tx
                             ELSE cache.launched[<<a, n>>]
    BY <2>1, <2>2
  <2>5. cache' = [cache EXCEPT !.launched = g] BY <1>7
  <2> HIDE DEF g
  <2> QED BY <1>1, <2>3, <2>4, <2>5 DEF Caches
<1>13. \A n \in Networks : cache'.factory[n] # 0 => FactoryAt(cache'.factory[n], n)
  BY <1>1, <1>12 DEF RecordsHold
<1>14. \A a \in Accounts, n \in Networks :
           cache'.launched[<<a, n>>] \in LaunchedOn(n) \union {0}
  BY <1>1, <1>4, <1>12 DEF RecordsHold
<1> QED BY <1>7, <1>8, <1>9, <1>10, <1>11, <1>12, <1>13, <1>14, EndedWell

\* A handler that ends badly.
LEMMA FailedStep ==
    ASSUME LaunchInv, ChainInv', Grows, NEW op \in ops,
           \/ SwitchRefused(op) \/ SimulationFails(op) \/ NotSigned(op)
           \/ NotConfirmed(op) \/ VaultNotFound(op)
    PROVE  LaunchInv'
<1>1. panel.preflight \in {"idle", "running", "ok", "failed"}
  BY DEF LaunchInv, PanelTypes, Panels
<1>2. CASE SwitchRefused(op) BY <1>1, <1>2, Stopped DEF SwitchRefused
<1>3. CASE SimulationFails(op) BY <1>3, Stopped DEF SimulationFails
<1>4. CASE NotSigned(op) BY <1>4, Stopped DEF NotSigned
<1>5. CASE NotConfirmed(op) BY <1>5, Stopped DEF NotConfirmed
<1>6. CASE VaultNotFound(op) BY <1>6, Stopped DEF VaultNotFound
<1> QED BY <1>2, <1>3, <1>4, <1>5, <1>6

\* Every step of a handler.
LEMMA HandlerStep ==
    ASSUME LaunchInv, ChainInv', Grows, Handler
    PROVE  LaunchInv'
<1>1. PICK op \in ops :
          \/ NetworkSwitched(op) \/ SwitchRefused(op)
          \/ Simulated(op) \/ SimulationFails(op)
          \/ Signed(op) \/ NotSigned(op)
          \/ NotConfirmed(op) \/ FactoryDeployed(op) \/ VaultRegistered(op)
          \/ LaunchConfirmed(op) \/ VaultNotFound(op) \/ TokenLaunched(op)
  BY DEF Handler
<1> QED
  BY <1>1, SwitchStep, SimulatedStep, SignedStep, LaunchConfirmedStep,
     FactoryDeployedStep,
     VaultRegisteredStep, TokenLaunchedStep, FailedStep

-----------------------------------------------------------------------------
(* The user                                                                *)

\* A button starts one handler, with the values of the render; it is enabled
\* only while there is none.
LEMMA PressStep ==
    ASSUME LaunchInv, ChainInv', Grows, NEW kind \in Kinds, Press(kind)
    PROVE  LaunchInv'
<1>1. /\ wallet \in Wallets /\ panel \in Panels /\ chat \in Chats /\ cache \in Caches
      /\ ops \in SUBSET Handlers
  BY DEF LaunchInv, PanelTypes, RecordTypes
<1>2. PICK stage \in Stages :
          stage = IF wallet.net = chat.target THEN Work(kind) ELSE "switching"
  BY DEF Work, Stages
<1>3. PICK new : new = Closure(kind, stage) OBVIOUS
<1>4. PICK p : p = IF wallet.net = chat.target THEN Begins(panel, kind)
                   ELSE [panel EXCEPT !.phase = "switching"]
  OBVIOUS
<1>5. /\ panel.phase = "idle" /\ ops' = ops \union {new}
      /\ Commit(p, chat, wallet, cache, FALSE)
      /\ UNCHANGED <<wallet, recordVars>>
  BY <1>2, <1>3, <1>4 DEF Press, Render
<1>6. Payload(chat, cache) \in Codes \union {NoCode}
  <2>1. Persisted(chat) \in States(LaunchedOn(chat.target))
    BY <1>1, PersistedHolds DEF LaunchInv
  <2> QED BY <1>1, <2>1, PayloadTypes
<1>7. /\ new \in Handlers /\ new.stage = stage /\ new.attached /\ new.kind = kind
      /\ new.net = chat.target /\ new.tx = 0
  <2>1. PICK code \in Codes \union {NoCode} :
            code = IF kind = "register" THEN Payload(chat, cache) ELSE NoCode
    BY <1>6
  <2>2. DescOf[chat.shown] \in Descs BY <1>1, LaunchAssumption DEF Chats
  <2>3. new = [kind |-> kind, stage |-> stage, attached |-> TRUE,
               account |-> wallet.account, net |-> chat.target, factory |-> panel.factory,
               code |-> code, desc |-> DescOf[chat.shown], signer |-> Nobody, tx |-> 0]
    BY <1>3, <2>1 DEF Closure
  <2> QED BY <1>1, <1>2, <2>1, <2>2, <2>3 DEF Handlers, Wallets, Chats, Panels
<1>8. /\ p \in Panels /\ p.launched = panel.launched
      /\ p.phase = IF stage = "switching" THEN "switching" ELSE PhaseOf[kind]
  <2>1. CASE wallet.net = chat.target
    BY <1>1, <1>2, <1>4, <2>1, BeginsTypes DEF Work
  <2>2. CASE wallet.net # chat.target
    BY <1>1, <1>2, <1>4, <2>2 DEF Panels
  <2> QED BY <2>1, <2>2
<1>9. p.launched \in LaunchedOn(chat.target) \union {0}
  BY <1>8 DEF LaunchInv, ShownIsLaunched
<1>10. PanelMoves /\ chat' = chat /\ panel'.phase = p.phase
  BY <1>1, <1>5, <1>8, <1>9, CommitMoves
<1>11. HandlersMove
  <2>1. \A op \in ops : ~op.attached BY <1>5 DEF LaunchInv, PhaseIsWork
  <2>2. Knows(new)' BY <1>2, <1>5, <1>7 DEF Knows, Work
  <2>3. HandlersKnow' BY <1>5, <2>2, StaysTrue DEF LaunchInv, HandlersKnow
  <2>4. panel'.phase # "idle" BY <1>8, <1>10 DEF PhaseOf, Kinds
  <2>5. PhaseIsWork' BY <1>5, <1>7, <1>8, <1>10, <2>1, <2>4 DEF PhaseIsWork
  <2> QED BY <1>1, <1>5, <1>7, <1>10, <2>1, <2>3, <2>5 DEF HandlersMove
<1>12. RecordsMove BY <1>5, <1>10, RecordsStay
<1> QED BY <1>1, <1>5, <1>10, <1>11, <1>12, LaunchInvFrom

\* A commit that keeps the handlers, or one that mounts the panel anew; an
\* event may be posted and the cache changed with it, to what is true.
LEMMA CommitStep ==
    ASSUME LaunchInv, ChainInv', Grows,
           NEW p \in Panels, NEW c \in Chats, NEW local \in Caches, NEW mounts \in BOOLEAN,
           wallet' \in Wallets, Commit(p, c, wallet', local, mounts),
           c.artifacts \in {chat.artifacts, db}, local.launched = cache.launched,
           mounts \/ p.launched = panel.launched,
           \/ ops' = ops /\ p.phase = panel.phase
              /\ (c.target = chat.target \/ panel.phase = "idle")
           \/ ops' \in SUBSET Detached /\ p.phase = "idle",
           NEW new \in SUBSET Events, \A e \in new : Holds(e),
           posts' \subseteq posts \union new, db' = db,
           cache' \in Caches, cache'.launched = cache.launched,
           \A n \in Networks : cache'.factory[n] # 0 => FactoryAt(cache'.factory[n], n)
    PROVE  LaunchInv'
<1>1. panel.launched \in LaunchedOn(chat.target) \union {0}
  BY DEF LaunchInv, ShownIsLaunched
<1>2. PanelMoves /\ chat' = c /\ panel'.phase = p.phase
  BY <1>1, CommitMoves
<1>3. HandlersMove BY <1>2, HandlersStay, HandlersDetach
<1>4. \A a \in Accounts, n \in Networks :
          cache'.launched[<<a, n>>] \in LaunchedOn(n) \union {0}
  BY DEF LaunchInv, RecordsHold
<1>5. RecordsMove BY <1>2, <1>4, RecordsGrow
<1> QED BY <1>2, <1>3, <1>5, LaunchInvFrom

\* The same when nothing is recorded.
LEMMA QuietCommitStep ==
    ASSUME LaunchInv, ChainInv', Grows,
           NEW p \in Panels, NEW c \in Chats, NEW mounts \in BOOLEAN,
           wallet' \in Wallets, Commit(p, c, wallet', cache, mounts),
           c.artifacts \in {chat.artifacts, db},
           mounts \/ p.launched = panel.launched,
           \/ ops' = ops /\ p.phase = panel.phase
              /\ (c.target = chat.target \/ panel.phase = "idle")
           \/ ops' \in SUBSET Detached /\ p.phase = "idle",
           UNCHANGED recordVars
    PROVE  LaunchInv'
<1>1. /\ cache \in Caches /\ cache' = cache /\ db' = db /\ posts' = posts
      /\ \A n \in Networks : cache.factory[n] # 0 => FactoryAt(cache.factory[n], n)
  BY DEF LaunchInv, RecordTypes, RecordsHold, recordVars
<1>2. {} \in SUBSET Events /\ (\A e \in {} : Holds(e)) /\ posts' \subseteq posts \union {}
  BY <1>1
<1> QED BY <1>1, <1>2, CommitStep

\* The wallet changes its account or network.
LEMMA WalletStep ==
    ASSUME LaunchInv, ChainInv', Grows, WalletChanges
    PROVE  LaunchInv'
<1>1. /\ wallet' \in Wallets /\ Commit(panel, chat, wallet', cache, FALSE)
      /\ ops' = ops /\ UNCHANGED recordVars
  BY DEF WalletChanges, Wallets
<1>2. panel \in Panels /\ chat \in Chats BY DEF LaunchInv, PanelTypes
<1> QED BY <1>1, <1>2, QuietCommitStep

\* The user chooses another network in the chat's panel.
LEMMA TargetStep ==
    ASSUME LaunchInv, ChainInv', Grows, TargetChanges
    PROVE  LaunchInv'
<1>1. panel \in Panels /\ chat \in Chats /\ wallet \in Wallets
  BY DEF LaunchInv, PanelTypes
<1>2. PICK n \in Networks : Commit(panel, [chat EXCEPT !.target = n], wallet, cache, FALSE)
  BY DEF TargetChanges
<1>3. PICK c : c = [chat EXCEPT !.target = n] OBVIOUS
<1>4. c \in Chats /\ c.artifacts = chat.artifacts BY <1>1, <1>3 DEF Chats
<1>5. /\ Commit(panel, c, wallet', cache, FALSE) /\ wallet' = wallet
      /\ ops' = ops /\ panel.phase = "idle" /\ UNCHANGED recordVars
  BY <1>2, <1>3 DEF TargetChanges
<1> QED BY <1>1, <1>4, <1>5, QuietCommitStep

\* The panel is mounted anew, or the page reloaded.
LEMMA MountStep ==
    ASSUME LaunchInv, ChainInv', Grows, Remount \/ Reload
    PROVE  LaunchInv'
<1>1. wallet \in Wallets /\ chat \in Chats /\ db \in Seq(Events)
  BY DEF LaunchInv, PanelTypes, RecordTypes
<1>2. FreshPanel \in Panels /\ FreshPanel.phase = "idle"
  BY DEF FreshPanel, Panels, Fingerprints
<1>3. CASE Remount
  <2>1. /\ Commit(FreshPanel, chat, wallet', cache, TRUE) /\ ops' = Detached
        /\ wallet' = wallet /\ UNCHANGED recordVars
    BY <1>3 DEF Remount
  <2> QED BY <1>1, <1>2, <2>1, QuietCommitStep
<1>4. CASE Reload
  <2>1. PICK c : c = [chat EXCEPT !.live = FALSE, !.artifacts = db, !.target = Testnet]
    OBVIOUS
  <2>2. c \in Chats /\ c.artifacts = db
    BY <1>1, <2>1, LaunchAssumption DEF Chats
  <2>3. /\ Commit(FreshPanel, c, wallet', cache, TRUE) /\ ops' = {}
        /\ wallet' = wallet /\ UNCHANGED recordVars
    BY <1>4, <2>1 DEF Reload
  <2> QED BY <1>1, <1>2, <2>2, <2>3, QuietCommitStep
<1> QED BY <1>3, <1>4

\* A refinement ends with a new revision, and the artifacts are fetched.
LEMMA RunEndsStep ==
    ASSUME LaunchInv, ChainInv', Grows, RunEnds
    PROVE  LaunchInv'
<1>1. /\ wallet \in Wallets /\ chat \in Chats /\ db \in Seq(Events) /\ panel \in Panels
      /\ cache \in Caches /\ RecordsHold
  BY DEF LaunchInv, PanelTypes, RecordTypes
<1>2. PICK code \in Codes :
          /\ cache' = [cache EXCEPT !.code = code]
          /\ Commit(panel, [chat EXCEPT !.shown = code, !.live = TRUE, !.artifacts = db],
                    wallet, [cache EXCEPT !.code = code], FALSE)
  BY DEF RunEnds
<1>3. PICK c : c = [chat EXCEPT !.shown = code, !.live = TRUE, !.artifacts = db] OBVIOUS
<1>4. PICK local : local = [cache EXCEPT !.code = code] OBVIOUS
<1>5. /\ cache' = local /\ Commit(panel, c, wallet', local, FALSE) /\ wallet' = wallet
      /\ ops' = ops /\ db' = db /\ posts' = posts
  BY <1>2, <1>3, <1>4 DEF RunEnds
<1>6. c \in Chats /\ c.artifacts = db /\ c.target = chat.target
  BY <1>1, <1>3 DEF Chats
<1>7. local \in Caches /\ local.launched = cache.launched /\ local.factory = cache.factory
  BY <1>1, <1>4 DEF Caches
<1>8. \A n \in Networks : cache'.factory[n] # 0 => FactoryAt(cache'.factory[n], n)
  BY <1>1, <1>5, <1>7 DEF RecordsHold
<1>9. {} \in SUBSET Events /\ (\A e \in {} : Holds(e)) /\ posts' \subseteq posts \union {}
  BY <1>5
<1> QED BY <1>1, <1>5, <1>6, <1>7, <1>8, <1>9, CommitStep

\* The user pastes the address of a factory.
LEMMA PasteStep ==
    ASSUME LaunchInv, ChainInv', Grows, Paste
    PROVE  LaunchInv'
<1>1. /\ wallet \in Wallets /\ chat \in Chats /\ panel \in Panels
      /\ cache \in Caches /\ RecordsHold
  BY DEF LaunchInv, PanelTypes, RecordTypes
<1>2. PICK code \in Codes :
          /\ cache' = [cache EXCEPT !.code = code]
          /\ Post([Event("bytecode_provided", Testnet) EXCEPT !.code = code])
          /\ Commit(panel, chat, wallet, [cache EXCEPT !.code = code], FALSE)
  BY DEF Paste
<1>3. PICK e : e = [Event("bytecode_provided", Testnet) EXCEPT !.code = code] OBVIOUS
<1>4. PICK local : local = [cache EXCEPT !.code = code] OBVIOUS
<1>5. /\ cache' = local /\ Commit(panel, chat, wallet', local, FALSE) /\ wallet' = wallet
      /\ ops' = ops /\ db' = db /\ posts' = posts \union {e}
  BY <1>2, <1>3, <1>4 DEF Paste, Post
<1>6. e \in Events /\ e.status = "bytecode_provided"
  BY <1>3, LaunchAssumption DEF Event, NoEvent, Events
<1>7. local \in Caches /\ local.launched = cache.launched /\ local.factory = cache.factory
  BY <1>1, <1>4 DEF Caches
<1>8. \A n \in Networks : cache'.factory[n] # 0 => FactoryAt(cache'.factory[n], n)
  BY <1>1, <1>5, <1>7 DEF RecordsHold
<1>9. /\ {e} \in SUBSET Events /\ (\A f \in {e} : Holds(f))
      /\ posts' \subseteq posts \union {e}
  BY <1>5, <1>6 DEF Holds
<1> QED BY <1>1, <1>5, <1>7, <1>8, <1>9, CommitStep

\* The user forgets the factory.
LEMMA ResetStep ==
    ASSUME LaunchInv, ChainInv', Grows, ResetFactory
    PROVE  LaunchInv'
<1>1. /\ wallet \in Wallets /\ chat \in Chats /\ panel \in Panels
      /\ cache \in Caches /\ RecordsHold
  BY DEF LaunchInv, PanelTypes, RecordTypes
<1>2. PICK e : e = Event("factory_cleared", chat.target) OBVIOUS
<1>3. PICK local : local = [cache EXCEPT !.factory[chat.target] = 0] OBVIOUS
<1>4. PICK p : p = [panel EXCEPT !.factory = 0, !.regTx = 0, !.regKey = NoPrint] OBVIOUS
<1>5. /\ cache' = local /\ Commit(p, chat, wallet', local, FALSE) /\ wallet' = wallet
      /\ ops' = ops /\ db' = db /\ posts' = posts \union {e}
  BY <1>2, <1>3, <1>4 DEF ResetFactory, Post
<1>6. e \in Events /\ e.status = "factory_cleared"
  BY <1>1, <1>2, LaunchAssumption DEF Event, NoEvent, Events, Chats
<1>7. /\ local \in Caches /\ local.launched = cache.launched
      /\ \A n \in Networks :
            local.factory[n] = IF n = chat.target THEN 0 ELSE cache.factory[n]
  BY <1>1, <1>3 DEF Caches, Chats
<1>8. \A n \in Networks : cache'.factory[n] # 0 => FactoryAt(cache'.factory[n], n)
  BY <1>1, <1>5, <1>7 DEF RecordsHold
<1>9. /\ {e} \in SUBSET Events /\ (\A f \in {e} : Holds(f))
      /\ posts' \subseteq posts \union {e}
  BY <1>5, <1>6 DEF Holds
<1>10. p \in Panels /\ p.launched = panel.launched /\ p.phase = panel.phase
  BY <1>1, <1>4 DEF Panels, Fingerprints
<1> QED BY <1>1, <1>5, <1>7, <1>8, <1>9, <1>10, CommitStep

\* Everything the user may do.
LEMMA UserStep ==
    ASSUME LaunchInv, ChainInv', Grows, User
    PROVE  LaunchInv'
<1>1. CASE \E kind \in Kinds : Press(kind) BY <1>1, PressStep
<1>2. CASE WalletChanges \/ TargetChanges BY <1>2, WalletStep, TargetStep
<1>3. CASE Remount \/ Reload BY <1>3, MountStep
<1>4. CASE RunEnds \/ Paste \/ ResetFactory
  BY <1>4, RunEndsStep, PasteStep, ResetStep
<1> QED BY <1>1, <1>2, <1>3, <1>4 DEF User

-----------------------------------------------------------------------------
(* The answers, the posts and the chain                                    *)

\* What a read returns is a description, or none.
LEMMA DescriptionTypes ==
    ASSUME ChainInv, NEW f \in Id, NEW a \in Accounts
    PROVE  DescriptionOf(f, a) \in Descs \union {NoDesc}
<1>1. txs \in Seq(Txs) /\ slots[f][a] \in Id \union {0}
  BY DEF ChainInv, ChainTypeOK
<1>2. CASE slots[f][a] = 0 BY <1>2 DEF DescriptionOf
<1>3. CASE slots[f][a] # 0
  <2>1. slots[f][a] \in DOMAIN txs
    BY <1>3 DEF ChainInv, SlotsHoldRegistrations, Succeeded
  <2>2. txs[slots[f][a]] \in Txs BY <1>1, <2>1
  <2> QED BY <1>3, <2>2 DEF DescriptionOf, Txs
<1> QED BY <1>2, <1>3

\* An answer changes neither the phase of the panel nor what is launched.
LEMMA AnswerStep ==
    ASSUME LaunchInv, ChainInv', Grows, PanelTypes', chat' = chat,
           panel'.phase = panel.phase, panel'.launched = panel.launched,
           UNCHANGED <<wallet, ops, recordVars>>
    PROVE  LaunchInv'
<1>1. PanelMoves BY DEF PanelMoves, LaunchInv, ShownIsLaunched
<1>2. HandlersMove BY HandlersStay
<1>3. RecordsMove BY RecordsStay
<1> QED BY <1>1, <1>2, <1>3, LaunchInvFrom DEF LaunchInv

\* A load of the configuration returns.
LEMMA ConfigStep ==
    ASSUME LaunchInv, ChainInv', Grows, ConfigReturns
    PROVE  LaunchInv'
<1>1. /\ wallet \in Wallets /\ chat \in Chats /\ panel \in Panels /\ cache \in Caches
      /\ configs \in SUBSET Calls /\ \A i \in DOMAIN reading : reading[i] \in Reads
  BY DEF LaunchInv, PanelTypes, RecordTypes
<1> DEFINE p(call) ==
               [panel EXCEPT
                   !.factory = IF call.factory # 0 THEN call.factory
                               ELSE cache.factory[call.net],
                   !.regKey = NoPrint, !.regTx = 0, !.regDesc = NoDesc]
           same(call) == ReadDeps(p(call), chat, wallet) = ReadDeps(panel, chat, wallet)
<1>2. PICK call \in configs :
          /\ configs' = configs \ {call}
          /\ panel' = [p(call) EXCEPT !.known = @ /\ same(call)]
          /\ reading' = IF same(call) THEN reading
                        ELSE IF p(call).factory # 0
                        THEN <<ReadCall(p(call), chat, wallet, cache)>> ELSE NoRead
          /\ UNCHANGED <<chat, wallet, ops, recordVars>>
  BY DEF ConfigReturns
<1>3. p(call) \in Panels /\ p(call).phase = panel.phase /\ p(call).launched = panel.launched
  <2>1. PICK F \in Id \union {0} :
            F = IF call.factory # 0 THEN call.factory ELSE cache.factory[call.net]
    BY <1>1 DEF Calls, Caches
  <2>2. p(call) = [panel EXCEPT !.factory = F, !.regKey = NoPrint, !.regTx = 0,
                                !.regDesc = NoDesc]
    BY <2>1
  <2> HIDE DEF p
  <2> QED BY <1>1, <2>2 DEF Panels, Fingerprints
<1>4. PICK q \in Panels : q = p(call) BY <1>3
<1>5. PICK b \in BOOLEAN : b = same(call) OBVIOUS
<1> HIDE DEF p, same
<1>6. PICK k \in BOOLEAN : k = (q.known /\ b) OBVIOUS
<1>7. panel' = [q EXCEPT !.known = k] BY <1>2, <1>4, <1>5, <1>6
<1>8. panel' \in Panels /\ panel'.phase = panel.phase /\ panel'.launched = panel.launched
  BY <1>3, <1>4, <1>7 DEF Panels
<1>9. ReadCall(q, chat, wallet, cache) \in Reads
  <2>1. Persisted(chat) \in States(LaunchedOn(chat.target))
    BY <1>1, PersistedHolds DEF LaunchInv
  <2> QED BY <1>1, <1>4, <2>1, CallTypes
<1>10. \A i \in DOMAIN reading' : reading'[i] \in Reads
  BY <1>1, <1>2, <1>4, <1>9 DEF NoRead
<1>11. PanelTypes' BY <1>1, <1>2, <1>8, <1>10 DEF PanelTypes
<1> QED BY <1>2, <1>8, <1>11, AnswerStep

\* A read of the chain or of a record returns, or fails.
LEMMA ReadStep ==
    ASSUME LaunchInv, ChainInv', Grows, ReadReturns \/ ReadFails
    PROVE  LaunchInv'
<1>1. /\ panel \in Panels /\ PanelTypes BY DEF LaunchInv, PanelTypes
<1>2. CASE ReadReturns
  <2>1. PICK i \in DOMAIN reading :
            LET r == reading[i]
            IN  /\ FactoryAt(r.factory, r.net)
                /\ reading' = NoRead
                /\ panel' = [panel EXCEPT
                      !.regDesc = DescriptionOf(r.factory, r.account), !.known = TRUE,
                      !.regKey = IF DescriptionOf(r.factory, r.account) = r.desc
                                 THEN r.key ELSE NoPrint]
                /\ UNCHANGED <<chat, configs, wallet, ops, recordVars>>
    BY <1>2 DEF ReadReturns
  <2>2. PICK r \in Reads : r = reading[i] BY <1>1, <2>1 DEF PanelTypes
  <2>3. r.factory \in Id BY <2>1, <2>2, SucceededIds DEF FactoryAt, LaunchInv
  <2>4. PICK d \in Descs \union {NoDesc} : d = DescriptionOf(r.factory, r.account)
    BY <2>2, <2>3, DescriptionTypes DEF LaunchInv, Reads
  <2>5. PICK k \in Fingerprints : k = IF d = r.desc THEN r.key ELSE NoPrint
    BY <2>2 DEF Reads, Fingerprints
  <2>6. panel' = [panel EXCEPT !.regDesc = d, !.known = TRUE, !.regKey = k]
    BY <2>1, <2>2, <2>4, <2>5
  <2>7. panel' \in Panels /\ panel'.phase = panel.phase /\ panel'.launched = panel.launched
    BY <1>1, <2>6 DEF Panels
  <2>8. PanelTypes' BY <1>1, <2>1, <2>7 DEF PanelTypes, NoRead
  <2> QED BY <2>1, <2>7, <2>8, AnswerStep
<1>3. CASE ReadFails
  <2>1. reading' = NoRead /\ UNCHANGED <<chat, panel, configs, wallet, ops, recordVars>>
    BY <1>3 DEF ReadFails
  <2>2. PanelTypes' BY <1>1, <2>1 DEF PanelTypes, NoRead
  <2> QED BY <2>1, <2>2, AnswerStep
<1> QED BY <1>2, <1>3

\* A step of the chain or of the server alone.
LEMMA OutsideStep ==
    ASSUME LaunchInv, ChainInv', Grows,
           ChainMines \/ WalletReplaces \/ PostArrives \/ PostIsLost \/ UNCHANGED vars
    PROVE  LaunchInv'
<1>1. UNCHANGED <<wallet, panelVars, ops>>
  BY DEF ChainMines, WalletReplaces, PostArrives, PostIsLost, vars
<1>2. PanelMoves /\ chat' = chat /\ panel'.phase = panel.phase
  BY <1>1, PanelStays
<1>3. HandlersMove BY <1>1, <1>2, HandlersStay
<1>4. RecordsMove
  <2>1. CASE ChainMines \/ WalletReplaces \/ UNCHANGED vars
    <3>1. UNCHANGED recordVars BY <2>1 DEF ChainMines, WalletReplaces, vars
    <3> QED BY <1>2, <3>1, RecordsStay
  <2>2. CASE PostArrives BY <2>2, RecordArrives
  <2>3. CASE PostIsLost
    <3>1. posts' \subseteq posts \union {} /\ db' = db /\ cache' = cache
      BY <2>3 DEF PostIsLost
    <3>2. {} \in SUBSET Events /\ \A e \in {} : Holds(e) OBVIOUS
    <3>3. /\ cache \in Caches
          /\ \A n \in Networks : cache.factory[n] # 0 => FactoryAt(cache.factory[n], n)
          /\ \A a \in Accounts, n \in Networks :
                cache.launched[<<a, n>>] \in LaunchedOn(n) \union {0}
      BY DEF LaunchInv, RecordTypes, RecordsHold
    <3> QED BY <1>2, <3>1, <3>2, <3>3, RecordsGrow
  <2> QED BY <2>1, <2>2, <2>3
<1> QED BY <1>1, <1>2, <1>3, <1>4, LaunchInvFrom DEF LaunchInv

-----------------------------------------------------------------------------
(* The theorems                                                            *)

\* Nothing signed, recorded or shown.
LEMMA LaunchInvInit == Init => LaunchInv
<1> SUFFICES ASSUME Init PROVE LaunchInv
  OBVIOUS
<1>1. ChainInv BY InitInv DEF Init
<1>2. FactoryAt(1, Testnet)
  BY DEF Init, EarlierFactory, FactoryAt, Succeeded
<1>3. 1 \in Id BY FactoryAssumption DEF Id
<1>4. wallet \in Wallets /\ chat.live \in BOOLEAN /\ chat.target = Testnet
      /\ chat.artifacts = <<>>
  BY LaunchAssumption DEF Init, Wallets
<1>5. chat \in Chats
  <2>1. <<>> \in Seq(Events) OBVIOUS
  <2>2. PICK none : none = <<>> OBVIOUS
  <2>3. chat \in [shown : {First}, live : BOOLEAN, artifacts : {none}, target : {Testnet}]
    BY <2>2 DEF Init
  <2> QED BY <2>1, <2>2, <2>3, LaunchAssumption DEF Chats
<1>6. /\ cache \in Caches
      /\ \A n \in Networks : cache.factory[n] # 0 => FactoryAt(cache.factory[n], n)
      /\ \A a \in Accounts, n \in Networks : cache.launched[<<a, n>>] = 0
  <2>1. PICK F : F = [n \in Networks |-> IF chat.live /\ n = Testnet THEN 1 ELSE 0]
    OBVIOUS
  <2>2. PICK L : L = [x \in Accounts \X Networks |-> 0] OBVIOUS
  <2>3. PICK C \in Codes \union {NoCode} : C = IF chat.live THEN First ELSE NoCode
    BY LaunchAssumption
  <2>4. cache = [factory |-> F, code |-> C, launched |-> L]
    BY <2>1, <2>2, <2>3 DEF Init
  <2>5. F \in [Networks -> Id \union {0}] BY <1>3, <2>1
  <2>6. L \in [Accounts \X Networks -> Id \union {0}] BY <2>2
  <2>7. \A n \in Networks : F[n] # 0 => F[n] = 1 /\ n = Testnet BY <2>1
  <2>8. \A a \in Accounts, n \in Networks : L[<<a, n>>] = 0 BY <2>2
  <2> QED BY <1>2, <2>4, <2>5, <2>6, <2>7, <2>8 DEF Caches
<1>7. panel \in Panels /\ panel.phase = "idle" /\ panel.launched = 0
  BY DEF Init, FreshPanel, Panels, Fingerprints
<1>8. posts = {} /\ db = <<>> /\ ops = {} /\ reading = <<>> /\ configs = {ConfigCall(chat)}
  BY DEF Init, NoRead
<1>9. db \in Seq(Events) /\ Len(db) = 0 /\ DOMAIN db = {} /\ SubSeq(db, 1, 0) = <<>>
  BY <1>8
<1>10. RecordTypes BY <1>6, <1>8, <1>9 DEF RecordTypes
<1>11. LoadedIsPrefix BY <1>4, <1>9 DEF LoadedIsPrefix
<1>12. RecordsHold BY <1>6, <1>8, <1>9 DEF RecordsHold
<1>13. PanelTypes
  <2>1. Persisted(chat) \in States(LaunchedOn(chat.target))
    BY <1>5, <1>10, <1>11, <1>12, PersistedHolds
  <2>2. ConfigCall(chat) \in Calls BY <1>4, <1>5, <1>6, <1>7, <2>1, CallTypes
  <2> QED BY <1>5, <1>7, <1>8, <2>2 DEF PanelTypes
<1> QED
  BY <1>1, <1>4, <1>7, <1>8, <1>10, <1>11, <1>12, <1>13
     DEF LaunchInv, HandlersKnow, ShownIsLaunched, PhaseIsWork

\* The inductive step, from that of the chain and those of handlers, user
\* and loads.
LEMMA LaunchInvStep == LaunchInv /\ [Next]_vars => LaunchInv'
<1> SUFFICES ASSUME LaunchInv, [Next]_vars PROVE LaunchInv'
  OBVIOUS
<1>1. ChainInv BY DEF LaunchInv
<1>2. ChainInv'
  BY <1>1, SignKeepsInv, MineKeepsInv, StutterKeepsInv,
     PanelStepsAreChainSteps
<1>3. Grows BY <1>1, ChainGrows
<1>4. CASE User BY <1>2, <1>3, <1>4, UserStep
<1>5. CASE Handler BY <1>2, <1>3, <1>5, HandlerStep
<1>6. CASE ConfigReturns BY <1>2, <1>3, <1>6, ConfigStep
<1>7. CASE ReadReturns \/ ReadFails BY <1>2, <1>3, <1>7, ReadStep
<1>8. CASE ChainMines \/ WalletReplaces \/ PostArrives \/ PostIsLost \/ UNCHANGED vars
  BY <1>2, <1>3, <1>8, OutsideStep
<1> QED BY <1>4, <1>5, <1>6, <1>7, <1>8 DEF Next

\* The panel, its handlers, the records of the chat and of the browser and the
\* chain fit together in every reachable state.
THEOREM LaunchInvariance == Spec => []LaunchInv
BY LaunchInvInit, LaunchInvStep, PTL DEF Spec

\* Every value of the panel, of its handlers and of the chain is one the code
\* can hold: a handler names a transaction that was signed, and what it would
\* send is a request that the contracts know.
THEOREM LaunchTypes == Spec => []TypeOK
<1>1. LaunchInv => TypeOK
  <2> SUFFICES ASSUME LaunchInv PROVE TypeOK
    OBVIOUS
  <2>1. ChainTypeOK /\ wallet \in Wallets /\ chat \in Chats /\ panel \in Panels
    BY DEF LaunchInv, ChainInv, PanelTypes
  <2>2. chat \in [shown : Codes, live : BOOLEAN, target : Networks,
                  artifacts : {SubSeq(db, 1, n) : n \in 0..Len(db)}]
    BY <2>1 DEF LaunchInv, LoadedIsPrefix, Chats
  <2>3. ASSUME NEW op \in ops
        PROVE  /\ op.stage \in Stages /\ op.tx \in 0..Len(txs)
               /\ Tx(op, wallet.account) \in Requests
    <3>1. op \in Handlers /\ Knows(op) BY DEF LaunchInv, HandlersKnow
    <3>2. Len(txs) \in Nat /\ DOMAIN txs = 1..Len(txs) BY <2>1 DEF ChainTypeOK
    <3>3. op.tx \in 0..Len(txs) BY <3>1, <3>2 DEF Knows, Handlers
    <3>4. Tx(op, wallet.account) \in Requests
      BY <2>1, <3>1 DEF Tx, Requests, Handlers, Wallets
    <3> QED BY <3>1, <3>3, <3>4 DEF Handlers
  <2> QED BY <2>1, <2>2, <2>3 DEF TypeOK, Wallets, Panels
<1> QED BY <1>1, LaunchInvariance, PTL

\* What the chat and the browser remember of a launch, and what the panel
\* shows as launched, happened on the network it is filed under, whatever
\* became of the handler that recorded it.
THEOREM RecordsAreTrue == Spec => []RecordsAreOnChain
<1>1. LaunchInv => RecordsAreOnChain
  <2> SUFFICES ASSUME LaunchInv PROVE RecordsAreOnChain
    OBVIOUS
  <2>1. \A e \in Records : Holds(e) BY DEF LaunchInv, RecordsHold, Records
  <2>2. panel.launched # 0 => panel.launched \in LaunchedOn(chat.target)
    BY DEF LaunchInv, ShownIsLaunched
  <2> QED
    BY <2>1, <2>2 DEF RecordsAreOnChain, Holds, LaunchedOn, LaunchInv,
       RecordsHold
<1> QED BY <1>1, LaunchInvariance, PTL

\* The buttons are disabled exactly while a handler of this panel works, and
\* there is never a second one.
THEOREM BusyExactlyWhileWorking == Spec => []BusyWhileWorking
<1>1. LaunchInv => BusyWhileWorking
  <2> SUFFICES ASSUME LaunchInv PROVE BusyWhileWorking
    OBVIOUS
  <2> DEFINE working == {op \in ops : op.attached}
  <2>1. panel.phase = "idle" <=> working = {} BY DEF LaunchInv, PhaseIsWork
  <2>2. \A op \in working :
            panel.phase = IF op.stage = "switching" THEN "switching" ELSE PhaseOf[op.kind]
    BY DEF LaunchInv, PhaseIsWork
  <2>3. \A o1, o2 \in working : o1 = o2 BY DEF LaunchInv, PhaseIsWork
  <2> HIDE DEF working
  <2>4. Cardinality(working) <= 1
    <3>1. CASE working = {} BY <3>1, FS_EmptySet
    <3>2. CASE working # {}
      <4>1. PICK o \in working : working = {o} BY <2>3, <3>2
      <4>2. Cardinality({o}) = 1 BY FS_Singleton
      <4> QED BY <4>1, <4>2
    <3> QED BY <3>1, <3>2
  <2> QED BY <2>1, <2>2, <2>4 DEF BusyWhileWorking, working
<1> QED BY <1>1, LaunchInvariance, PTL
=============================================================================
