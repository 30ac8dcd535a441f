--------------------------- MODULE FreeCoinVault ---------------------------
(***************************************************************************)
(* The sample vault, FreeCoinVault: tax revenue comes in, anyone may claim *)
(* a share of it once, one claim per cooldown.  Sending BNB calls the      *)
(* recipient, and a recipient may call the vault again, or any other party *)
(* that does, before it returns or fails.  The stack holds the calls that  *)
(* the vault is waiting for, each with the state a failure goes back to.   *)
(***************************************************************************)
EXTENDS Integers, Sequences

CONSTANTS
    Parties,     \* the accounts that call the vault
    Guardian,    \* _getGuardian on a supported chain
    Zero,        \* address(0)
    MaxReward,
    Cooldown,
    MaxUint,     \* type(uint256).max
    Supply,      \* bound: BNB that comes in
    MaxTime,     \* bound: block timestamps
    MaxDepth     \* bound: nested calls

ASSUME VaultAssumption ==
    /\ Guardian \in Parties /\ Zero \notin Parties
    /\ MaxReward \in Nat /\ Cooldown \in Nat /\ MaxUint \in Nat
    /\ Supply \in Nat /\ MaxTime \in Nat /\ MaxDepth \in Nat

VARIABLES
    now,         \* block.timestamp
    vault,       \* the vault's storage and balance, and what it did so far
    stack        \* calls out of the vault that have not returned

vars == <<now, vault, stack>>

Claims == [by : Parties, at : Nat, reward : Nat]

\* claims, received and withdrawn are the history of this vault; like the
\* rest of the record they are undone by a revert.
VaultStates ==
    [balance : Nat, hasClaimed : SUBSET Parties, nextClaimTime : Nat,
     locked : BOOLEAN, lastClaimer : Parties \union {Zero}, lastReward : Nat,
     autoForward : BOOLEAN, forwardAddress : Parties \union {Zero},
     claims : Seq(Claims), received : Nat, withdrawn : Nat]

Frames ==
    [op : {"claim", "receive", "withdraw"}, vault : VaultStates]

TypeOK ==
    /\ now \in Nat
    /\ vault \in VaultStates
    /\ stack \in Seq(Frames)

Init ==
    /\ now = 1
    /\ vault = [balance |-> 0, hasClaimed |-> {}, nextClaimTime |-> 0,
                locked |-> FALSE, lastClaimer |-> Zero, lastReward |-> 0,
                autoForward |-> FALSE, forwardAddress |-> Zero,
                claims |-> <<>>, received |-> 0, withdrawn |-> 0]
    /\ stack = <<>>

\* A call out of the vault: the BNB has moved while the recipient runs, and
\* the frame has the state that a failure goes back to.
Call(op, next) ==
    /\ Len(stack) < MaxDepth
    /\ stack' = Append(stack, [op |-> op, vault |-> vault])
    /\ vault' = next
    /\ UNCHANGED now

\* Slip: the maximum although the vault holds less.
MaxRewardAlways == MaxReward
NextReward == IF vault.balance < MaxReward THEN vault.balance ELSE MaxReward

\* nonReentrant, the two requires, and the checked addition.
CanClaim(a) ==
    /\ ~vault.locked
    /\ a \notin vault.hasClaimed
    /\ now >= vault.nextClaimTime
    /\ now + Cooldown <= MaxUint

\* Slips: a zero reward is not a claim; the last reward is left.
ClaimedUnmarked(a) ==
    [vault EXCEPT
        !.hasClaimed = IF NextReward = 0 THEN @ ELSE @ \union {a},
        !.nextClaimTime = now + Cooldown,
        !.lastClaimer = a,
        !.lastReward = NextReward,
        !.balance = @ - NextReward,
        !.claims = Append(@, [by |-> a, at |-> now, reward |-> NextReward])]
ClaimedUnshown(a) ==
    [vault EXCEPT
        !.hasClaimed = @ \union {a},
        !.nextClaimTime = now + Cooldown,
        !.lastClaimer = a,
        !.balance = @ - NextReward,
        !.claims = Append(@, [by |-> a, at |-> now, reward |-> NextReward])]
Claimed(a) ==
    [vault EXCEPT
        !.hasClaimed = @ \union {a},
        !.nextClaimTime = now + Cooldown,
        !.lastClaimer = a,
        !.lastReward = NextReward,
        !.balance = @ - NextReward,
        !.claims = Append(@, [by |-> a, at |-> now, reward |-> NextReward])]

\* Nothing to pay: the claim is over at once.
ClaimNothing(a) ==
    /\ CanClaim(a) /\ NextReward = 0
    /\ vault' = Claimed(a)
    /\ UNCHANGED <<now, stack>>

Claim(a) ==
    /\ CanClaim(a) /\ NextReward > 0
    /\ Call("claim", [Claimed(a) EXCEPT !.locked = TRUE])

\* receive(): keep what was sent, or pass it on.
Receive(amount) ==
    /\ vault.received + amount <= Supply
    /\ LET taken == [vault EXCEPT !.received = @ + amount]
       IN  IF vault.autoForward /\ vault.forwardAddress # Zero
           THEN Call("receive", [taken EXCEPT !.withdrawn = @ + amount])
           ELSE /\ vault' = [taken EXCEPT !.balance = @ + amount]
                /\ UNCHANGED <<now, stack>>

SetAutoForward(a, enabled, address) ==
    /\ a = Guardian
    /\ enabled => address # Zero
    /\ vault' = [vault EXCEPT !.autoForward = enabled,
                              !.forwardAddress = IF enabled THEN address ELSE @]
    /\ UNCHANGED <<now, stack>>

EmergencyWithdrawNative(a, to) ==
    /\ a = Guardian
    /\ to # Zero
    /\ vault.balance > 0
    /\ Call("withdraw",
            [vault EXCEPT !.balance = 0, !.withdrawn = @ + vault.balance])

Top == stack[Len(stack)]
Pop == stack' = SubSeq(stack, 1, Len(stack) - 1)

\* The recipient returns; claim() releases its guard.
Returns ==
    /\ stack # <<>>
    /\ vault' = IF Top.op = "claim" THEN [vault EXCEPT !.locked = FALSE] ELSE vault
    /\ Pop
    /\ UNCHANGED now

\* The recipient fails, and the require after the call with it.
Fails ==
    /\ stack # <<>>
    /\ vault' = Top.vault
    /\ Pop
    /\ UNCHANGED now

\* A transaction is over before the next block.
Tick ==
    /\ stack = <<>> /\ now < MaxTime
    /\ now' = now + 1
    /\ UNCHANGED <<vault, stack>>

\* Whoever is running: the sender of a transaction, or what a recipient calls.
Operation(a) ==
    \/ ClaimNothing(a)
    \/ Claim(a)
    \/ \E enabled \in BOOLEAN, address \in Parties \union {Zero} :
           SetAutoForward(a, enabled, address)
    \/ \E to \in Parties \union {Zero} : EmergencyWithdrawNative(a, to)

Next ==
    \/ Returns \/ Fails \/ Tick
    \/ \E amount \in 1..Supply : Receive(amount)
    \/ \E a \in Parties : Operation(a)

Spec == Init /\ [][Next]_vars

-----------------------------------------------------------------------------
\* Claims of one state of the vault, by its rules: everyone claimed at most
\* once and got at most maxReward, and between two claims lies the cooldown,
\* whichever of them were made from inside another call.
ClaimsFollowRules(v) ==
    /\ v.hasClaimed = {v.claims[i].by : i \in DOMAIN v.claims}
    /\ \A i \in DOMAIN v.claims :
           /\ v.claims[i].reward <= MaxReward
           /\ v.claims[i].at + Cooldown <= v.nextClaimTime
           /\ \A j \in 1..(i - 1) :
                  /\ v.claims[j].by # v.claims[i].by
                  /\ v.claims[j].at + Cooldown <= v.claims[i].at

\* The rules of claim() hold whatever recipients do while they are paid,
\* and of the state that a failure would go back to.
ClaimRules ==
    /\ ClaimsFollowRules(vault)
    /\ \A i \in DOMAIN stack : ClaimsFollowRules(stack[i].vault)

ClaimCalls == {i \in DOMAIN stack : stack[i].op = "claim"}

\* While someone is paid a reward nobody claims, not even with no cooldown,
\* and the guard is free again as soon as the claim returned or failed.
OneClaimAtATime ==
    /\ \A i, j \in ClaimCalls : i = j
    /\ vault.locked <=> ClaimCalls # {}

TotalReward(claims) ==
    LET total[n \in 0..Len(claims)] ==
            IF n = 0 THEN 0 ELSE total[n - 1] + claims[n].reward
    IN  total[Len(claims)]

Books(v) ==
    /\ v.balance = v.received - v.withdrawn - TotalReward(v.claims)
    /\ v.claims # <<>> =>
           LET c == v.claims[Len(v.claims)]
           IN  v.lastClaimer = c.by /\ v.lastReward = c.reward

\* The books balance at every call: what the vault holds is what it received
\* less what it paid for claims, forwarded and gave up to the guardian, and the
\* last reward shown is the last one paid.
BooksBalance == Books(vault)
=============================================================================
