---------------------------- MODULE VaultFactory ----------------------------
(***************************************************************************)
(* The chain as the launch panel uses it: transactions that were signed    *)
(* and are mined in the order of their sender's nonces, and the contract   *)
(* CodegenVaultFactory, which keeps one registered vault per wallet and    *)
(* gives it up when VaultPortal asks for it (newVault).                    *)
(*                                                                         *)
(* A transaction is known by its number in the order of signing.  A        *)
(* factory has the number of the transaction that deployed it, a token the *)
(* number of its launch, a registration the number of its registerVault.   *)
(***************************************************************************)
EXTENDS Integers, Sequences, FiniteSets

CONSTANTS
    Accounts,    \* wallets
    Networks,    \* chains
    Codes,       \* creation bytecodes
    Broken,      \* codes whose constructor reverts
    Oversized,   \* codes above MAX_INIT_CODE
    Descs,       \* descriptions
    NoCode,      \* empty vaultData
    NoDesc,      \* the empty description
    MaxTxs       \* bound: transactions signed

ASSUME FactoryAssumption ==
    /\ Broken \subseteq Codes /\ Oversized \subseteq Codes
    /\ NoCode \notin Codes /\ NoDesc \notin Descs
    /\ MaxTxs \in Nat \ {0}

VARIABLES
    txs,         \* the transactions, in the order of signing
    slots        \* slots[f][a]: the registration of wallet a at factory f, or 0

chainVars == <<txs, slots>>

Kinds == {"deploy", "register", "launch"}
Id == 1..MaxTxs

\* used: the registration that a successful launch consumed, 0 if its
\* vaultData carried the code.
Txs ==
    [kind : Kinds, net : Networks, from : Accounts, factory : Id \union {0},
     code : Codes \union {NoCode}, desc : Descs \union {NoDesc},
     status : {"pending", "success", "reverted", "replaced"},
     used : Id \union {0}]

ChainTypeOK ==
    /\ txs \in Seq(Txs) /\ Len(txs) <= MaxTxs
    /\ slots \in [Id -> [Accounts -> Id \union {0}]]

ChainInit ==
    /\ txs = <<>>
    /\ slots = [f \in Id |-> [a \in Accounts |-> 0]]

Succeeded(i, kind) ==
    i \in DOMAIN txs /\ txs[i].kind = kind /\ txs[i].status = "success"

\* waitForTransactionReceipt follows the nonce: for a transaction that its
\* sender replaced in the wallet it returns the receipt of the replacement.
ReceiptIsSuccess(i, kind) ==
    /\ i \in DOMAIN txs /\ txs[i].kind = kind
    /\ txs[i].status \in {"success", "replaced"}

FactoryAt(f, net) == Succeeded(f, "deploy") /\ txs[f].net = net
Tokens == {i \in DOMAIN txs : Succeeded(i, "launch")}
\* registerVault writes the description with the code and newVault deletes both.
DescriptionOf(f, a) == IF slots[f][a] = 0 THEN NoDesc ELSE txs[slots[f][a]].desc

\* The code that newVault deploys: parsed from vaultData, or read back from
\* the creator's registration.
CodeFor(t) ==
    IF t.code # NoCode THEN t.code
    ELSE IF slots[t.factory][t.from] = 0 THEN NoCode   \* NotRegistered
    ELSE txs[slots[t.factory][t.from]].code

Registers(t) == t.kind = "register" => t.code \in Codes \ Oversized
Launches(t) ==
    t.kind = "launch" => CodeFor(t) \in Codes \ (Broken \union Oversized)
\* What simulateContract finds out; a call to an address without code does
\* nothing and succeeds, the portal refuses such a factory.
WouldSucceed(t) ==
    /\ t.kind = "launch" => FactoryAt(t.factory, t.net)
    /\ FactoryAt(t.factory, t.net) => Registers(t) /\ Launches(t)

\* Any wallet may send anything to any factory, inline code included.
Requests ==
    [kind : Kinds, net : Networks, from : Accounts, factory : Id \union {0},
     code : Codes \union {NoCode}, desc : Descs \union {NoDesc},
     status : {"pending"}, used : {0}]

Sign(t) ==
    /\ t \in Requests
    /\ Len(txs) < MaxTxs
    /\ txs' = Append(txs, t)
    /\ UNCHANGED slots

NextNonce(i) ==
    /\ i \in DOMAIN txs /\ txs[i].status = "pending"
    /\ \A j \in 1..(i - 1) :
           txs[j].status = "pending" =>
               txs[j].from # txs[i].from \/ txs[j].net # txs[i].net

Settle(i, status, used) ==
    txs' = [txs EXCEPT ![i].status = status, ![i].used = used]

MineDeploy(i) ==
    /\ NextNonce(i) /\ txs[i].kind = "deploy"
    /\ Settle(i, "success", 0)
    /\ UNCHANGED slots

MineRegister(i) ==
    /\ NextNonce(i) /\ txs[i].kind = "register" /\ WouldSucceed(txs[i])
    /\ Settle(i, "success", 0)
    /\ slots' = IF FactoryAt(txs[i].factory, txs[i].net)
                THEN [slots EXCEPT ![txs[i].factory][txs[i].from] = i]
                ELSE slots

\* Slip: the registration is read and not deleted.
LaunchKeepsSlot(i) ==
    /\ NextNonce(i) /\ txs[i].kind = "launch" /\ WouldSucceed(txs[i])
    /\ Settle(i, "success", IF txs[i].code # NoCode THEN 0 ELSE slots[txs[i].factory][txs[i].from])
    /\ UNCHANGED slots
MineLaunch(i) ==
    /\ NextNonce(i) /\ txs[i].kind = "launch" /\ WouldSucceed(txs[i])
    /\ LET f == txs[i].factory
           a == txs[i].from
           inline == txs[i].code # NoCode
       IN  /\ Settle(i, "success", IF inline THEN 0 ELSE slots[f][a])
           /\ slots' = IF inline THEN slots ELSE [slots EXCEPT ![f][a] = 0]

\* A requirement of the contracts, or gas: the state is as before.
MineReverted(i) ==
    /\ NextNonce(i)
    /\ Settle(i, "reverted", 0)
    /\ UNCHANGED slots

\* Its sender cancels it: a transaction of the same nonce that does nothing
\* is mined instead, with success.
Replace(i) ==
    /\ NextNonce(i)
    /\ Settle(i, "replaced", 0)
    /\ UNCHANGED slots

Mine ==
    \E i \in Id :
        MineDeploy(i) \/ MineRegister(i) \/ MineLaunch(i) \/ MineReverted(i)
        \/ Replace(i)

SignAny == \E t \in Requests : Sign(t)
ChainNext == SignAny \/ Mine
ChainSpec == ChainInit /\ [][ChainNext]_chainVars

-----------------------------------------------------------------------------
(* BytecodeStorage.write cuts the code into chunks, each the runtime code  *)
(* of a contract of its own.                                               *)
MAX_CHUNK_SIZE == 24575
ChunkCount(len) == (len + MAX_CHUNK_SIZE - 1) \div MAX_CHUNK_SIZE
ChunkStart(i) == (i - 1) * MAX_CHUNK_SIZE
ChunkEnd(len, i) ==
    IF ChunkStart(i) + MAX_CHUNK_SIZE > len THEN len
    ELSE ChunkStart(i) + MAX_CHUNK_SIZE

-----------------------------------------------------------------------------
\* Every vault that a launch deployed without inline code came from one
\* registration, by the wallet that launched, at the factory it named, and no
\* two vaults from the same: newVault deletes what it reads.
OneVaultPerRegistration ==
    \A i \in Tokens :
        txs[i].code = NoCode =>
            /\ txs[i].used \in 1..Len(txs)
            /\ LET r == txs[txs[i].used]
               IN  /\ r.kind = "register" /\ r.status = "success"
                   /\ r.from = txs[i].from /\ r.factory = txs[i].factory
                   /\ r.net = txs[i].net
            /\ \A j \in Tokens \ {i} : txs[j].used # txs[i].used
=============================================================================
