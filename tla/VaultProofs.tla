---------------------------- MODULE VaultProofs ----------------------------
(***************************************************************************)
(* A vault and the panel that calls vaults.  Of the FreeCoin vault: the    *)
(* rules of claim(), its reentrancy guard and its books, for every set of  *)
(* parties, reward, cooldown and depth of calls; a failing call goes back  *)
(* to a state kept on the stack, so the invariants speak of those as well. *)
(* Of the panel: what its submits send and its cards show, for every set   *)
(* of methods with any approvals, by what holds of one submit (Placed,     *)
(* Covered, Told) and of two of them (Apart).                              *)
(***************************************************************************)
EXTENDS FreeCoinVault, VaultPanel, WellFoundedInduction, TLAPS

(* The claims of a FreeCoin vault                                          *)

Claiming(s, n) == \E j \in 1..n : s[j].op = "claim"

\* What a frame remembers: a state that follows the rules, guarded exactly if
\* a claim was running below it, and a claim started from an unguarded one.
FramesInv ==
    \A i \in DOMAIN stack :
        /\ ClaimsFollowRules(stack[i].vault)
        /\ stack[i].vault.locked <=> Claiming(stack, i - 1)
        /\ stack[i].op = "claim" => ~stack[i].vault.locked

IInv ==
    /\ TypeOK
    /\ ClaimsFollowRules(vault)
    /\ FramesInv
    /\ vault.locked <=> Claiming(stack, Len(stack))

\* The reward of claim() is between nothing and both the balance and maxReward.
LEMMA RewardBounds ==
    ASSUME vault \in VaultStates
    PROVE  /\ NextReward \in Nat
           /\ NextReward <= MaxReward
           /\ NextReward <= vault.balance
<1>1. vault.balance \in Nat BY DEF VaultStates
<1> QED BY <1>1, VaultAssumption DEF NextReward

\* A claim that its conditions allow keeps the rules of the claims so far,
\* because the cooldown of the last one is over and the claimer is new.
LEMMA ClaimedFollowsRules ==
    ASSUME NEW a \in Parties, TypeOK, ClaimsFollowRules(vault), CanClaim(a)
    PROVE  /\ Claimed(a) \in VaultStates
           /\ ClaimsFollowRules(Claimed(a))
           /\ Claimed(a).locked = vault.locked
<1> DEFINE n == Len(vault.claims)
           c == [by |-> a, at |-> now, reward |-> NextReward]
           v == Claimed(a)
<1>1. vault \in VaultStates /\ now \in Nat BY DEF TypeOK
<1>2. /\ NextReward \in Nat
      /\ NextReward <= MaxReward
      /\ NextReward <= vault.balance
  BY <1>1, RewardBounds
<1>3. /\ vault.balance \in Nat /\ vault.hasClaimed \in SUBSET Parties
      /\ vault.nextClaimTime \in Nat /\ vault.claims \in Seq(Claims)
  BY <1>1 DEF VaultStates
<1>4. c \in Claims BY <1>1, <1>2 DEF Claims
<1>5. v \in VaultStates
  <2>1. vault.balance - NextReward \in Nat BY <1>2, <1>3
  <2>2. now + Cooldown \in Nat BY <1>1, VaultAssumption
  <2>3. Append(vault.claims, c) \in Seq(Claims) BY <1>3, <1>4
  <2> QED BY <1>1, <1>2, <1>3, <2>1, <2>2, <2>3 DEF Claimed, VaultStates
<1>6. /\ v.claims = Append(vault.claims, c)
      /\ v.nextClaimTime = now + Cooldown
      /\ v.hasClaimed = vault.hasClaimed \union {a}
      /\ v.locked = vault.locked
  BY <1>1 DEF Claimed, VaultStates
<1>7. /\ n \in Nat
      /\ DOMAIN vault.claims = 1..n
      /\ DOMAIN v.claims = 1..(n + 1)
      /\ \A i \in 1..n : v.claims[i] = vault.claims[i] /\ vault.claims[i] \in Claims
      /\ v.claims[n + 1] = c
  BY <1>3, <1>4, <1>6
<1>8. ASSUME NEW i \in 1..n
      PROVE  /\ vault.claims[i].by # a
             /\ vault.claims[i].at \in Nat
             /\ vault.claims[i].at + Cooldown <= vault.nextClaimTime
  BY <1>7 DEF ClaimsFollowRules, CanClaim, Claims
<1>9. vault.nextClaimTime <= now BY DEF CanClaim
<1>10. v.hasClaimed = {v.claims[i].by : i \in DOMAIN v.claims}
  <2>1. vault.hasClaimed = {vault.claims[i].by : i \in 1..n}
    BY <1>7 DEF ClaimsFollowRules
  <2>2. {v.claims[i].by : i \in 1..(n + 1)} = {v.claims[i].by : i \in 1..n} \union {c.by}
    <3>1. 1..(n + 1) = (1..n) \union {n + 1} BY <1>7
    <3> QED BY <3>1, <1>7
  <2> QED BY <2>1, <2>2, <1>6, <1>7
<1>11. ASSUME NEW i \in 1..(n + 1)
       PROVE  /\ v.claims[i].reward <= MaxReward
              /\ v.claims[i].at + Cooldown <= v.nextClaimTime
              /\ \A j \in 1..(i - 1) :
                     /\ v.claims[j].by # v.claims[i].by
                     /\ v.claims[j].at + Cooldown <= v.claims[i].at
  <2>1. CASE i = n + 1
    <3>1. i - 1 = n BY <2>1, <1>7
    <3>2. ASSUME NEW j \in 1..n
          PROVE  v.claims[j].by # a /\ v.claims[j].at + Cooldown <= now
      <4>1. v.claims[j] = vault.claims[j] BY <1>7
      <4>2. /\ vault.claims[j].by # a /\ vault.claims[j].at \in Nat
            /\ vault.claims[j].at + Cooldown <= vault.nextClaimTime
        BY <1>8
      <4>3. vault.claims[j].at + Cooldown \in Nat BY <4>2, VaultAssumption
      <4>4. vault.claims[j].at + Cooldown <= now BY <4>2, <4>3, <1>1, <1>3, <1>9
      <4> QED BY <4>1, <4>2, <4>4
    <3> QED BY <2>1, <3>1, <3>2, <1>1, <1>2, <1>6, <1>7, VaultAssumption
  <2>2. CASE i \in 1..n
    <3>1. \A j \in 1..(i - 1) : j \in 1..n BY <2>2, <1>7
    <3>2. /\ vault.claims[i].reward <= MaxReward
          /\ \A j \in 1..(i - 1) :
                 /\ vault.claims[j].by # vault.claims[i].by
                 /\ vault.claims[j].at + Cooldown <= vault.claims[i].at
      BY <2>2, <1>7 DEF ClaimsFollowRules
    <3>3. vault.claims[i].at <= now
      BY <2>2, <1>1, <1>3, <1>8, <1>9, VaultAssumption
    <3>4. vault.claims[i].at + Cooldown <= now + Cooldown
      BY <3>3, <2>2, <1>1, <1>8, VaultAssumption
    <3> QED BY <2>2, <3>1, <3>2, <3>4, <1>6, <1>7
  <2> QED BY <2>1, <2>2, <1>7
<1> QED BY <1>5, <1>6, <1>7, <1>10, <1>11 DEF ClaimsFollowRules

\* A state that differs in neither claims, claimers nor the next time follows
\* the rules as well.
LEMMA SameClaims ==
    ASSUME NEW v, NEW w, ClaimsFollowRules(v), w.claims = v.claims,
           w.hasClaimed = v.hasClaimed, w.nextClaimTime = v.nextClaimTime
    PROVE  ClaimsFollowRules(w)
BY DEF ClaimsFollowRules

\* A call out of the vault pushes a frame that the invariant allows.
LEMMA CallKeeps ==
    ASSUME NEW op \in {"claim", "receive", "withdraw"}, NEW next \in VaultStates,
           IInv, Call(op, next), ClaimsFollowRules(next),
           op = "claim" => ~vault.locked,
           next.locked = (vault.locked \/ op = "claim")
    PROVE  IInv'
<1> DEFINE n == Len(stack)
           f == [op |-> op, vault |-> vault]
<1>1. /\ stack \in Seq(Frames) /\ vault \in VaultStates /\ now \in Nat
      /\ n \in Nat
  BY DEF IInv, TypeOK
<1>2. f \in Frames BY <1>1 DEF Frames
<1>3. stack' = Append(stack, f) /\ vault' = next /\ now' = now BY DEF Call
<1>4. /\ stack' \in Seq(Frames) /\ Len(stack') = n + 1
      /\ DOMAIN stack = 1..n /\ DOMAIN stack' = 1..(n + 1)
      /\ \A i \in 1..n : stack'[i] = stack[i]
      /\ stack'[n + 1] = f
  BY <1>1, <1>2, <1>3
<1>5. TypeOK' BY <1>1, <1>3, <1>4 DEF TypeOK
<1>6. \A k \in 0..n : Claiming(stack', k) <=> Claiming(stack, k)
  BY <1>1, <1>4 DEF Claiming
<1>7. ASSUME NEW i \in 1..(n + 1)
      PROVE  /\ ClaimsFollowRules(stack'[i].vault)
             /\ stack'[i].vault.locked <=> Claiming(stack', i - 1)
             /\ stack'[i].op = "claim" => ~stack'[i].vault.locked
  <2>1. CASE i = n + 1
    <3>1. i - 1 = n BY <2>1, <1>1
    <3>2. n \in 0..n BY <1>1
    <3>3. stack'[i].vault = vault /\ stack'[i].op = op BY <2>1, <1>4
    <3> QED BY <3>1, <3>2, <3>3, <1>6 DEF IInv
  <2>2. CASE i \in 1..n
    <3>1. i - 1 \in 0..n BY <2>2, <1>1
    <3> QED BY <2>2, <3>1, <1>4, <1>6 DEF IInv, FramesInv
  <2> QED BY <2>1, <2>2, <1>1
<1>8. FramesInv' BY <1>4, <1>7 DEF FramesInv
<1>9. Claiming(stack', n + 1) <=> Claiming(stack, n) \/ op = "claim"
  BY <1>1, <1>4 DEF Claiming
<1>10. next.locked <=> Claiming(stack', n + 1) BY <1>9 DEF IInv
<1> QED BY <1>3, <1>4, <1>5, <1>8, <1>10 DEF IInv

\* A change of the vault that makes no call and no claim.
LEMMA QuietKeeps ==
    ASSUME IInv, vault' \in VaultStates, ClaimsFollowRules(vault'),
           vault'.locked = vault.locked, UNCHANGED <<now, stack>>
    PROVE  IInv'
<1>1. TypeOK' BY DEF IInv, TypeOK
<1>2. FramesInv' BY DEF IInv, FramesInv
<1>3. vault'.locked <=> Claiming(stack', Len(stack')) BY DEF IInv
<1> QED BY <1>1, <1>2, <1>3 DEF IInv

\* Taking the last frame off leaves what the others remember.
LEMMA PopKeeps ==
    ASSUME IInv, stack # <<>>, Pop, UNCHANGED now, vault' \in VaultStates,
           ClaimsFollowRules(vault'),
           vault'.locked <=> Claiming(stack, Len(stack) - 1)
    PROVE  IInv'
<1> DEFINE n == Len(stack)
<1>1. /\ stack \in Seq(Frames) /\ now \in Nat /\ n \in Nat /\ n > 0
      /\ DOMAIN stack = 1..n
  BY DEF IInv, TypeOK
<1>2. stack' = SubSeq(stack, 1, n - 1) BY DEF Pop
<1>3. /\ stack' \in Seq(Frames) /\ Len(stack') = n - 1
      /\ DOMAIN stack' = 1..(n - 1)
      /\ \A i \in 1..(n - 1) : stack'[i] = stack[i]
  BY <1>1, <1>2
<1>4. TypeOK' BY <1>1, <1>3 DEF TypeOK
<1>5. \A k \in 0..(n - 1) : Claiming(stack', k) <=> Claiming(stack, k)
  BY SMTT(30), <1>1, <1>3 DEF Claiming
<1>6. ASSUME NEW i \in 1..(n - 1)
      PROVE  /\ ClaimsFollowRules(stack'[i].vault)
             /\ stack'[i].vault.locked <=> Claiming(stack', i - 1)
             /\ stack'[i].op = "claim" => ~stack'[i].vault.locked
  <2>1. i \in 1..n /\ i - 1 \in 0..(n - 1) BY <1>1
  <2> QED BY <2>1, <1>1, <1>3, <1>5 DEF IInv, FramesInv
<1>7. FramesInv' BY <1>3, <1>6 DEF FramesInv
<1>8. n - 1 \in 0..(n - 1) BY <1>1
<1>9. vault'.locked <=> Claiming(stack', Len(stack')) BY <1>3, <1>5, <1>8
<1> QED BY <1>4, <1>7, <1>9 DEF IInv

\* A claim that has nothing to pay writes its books and calls nobody.
LEMMA ClaimNothingKeeps ==
    ASSUME NEW a \in Parties, IInv, ClaimNothing(a)
    PROVE  IInv'
<1>1. /\ Claimed(a) \in VaultStates /\ ClaimsFollowRules(Claimed(a))
      /\ Claimed(a).locked = vault.locked
  BY ClaimedFollowsRules DEF IInv, ClaimNothing
<1>2. vault' = Claimed(a) BY DEF ClaimNothing
<1>3. UNCHANGED <<now, stack>> BY DEF ClaimNothing
<1>4. vault' \in VaultStates BY <1>1, <1>2
<1>5. ClaimsFollowRules(vault') BY <1>1, <1>2
<1>6. vault'.locked = vault.locked BY <1>1, <1>2
<1> QED BY <1>3, <1>4, <1>5, <1>6, QuietKeeps

\* claim() up to the payment: the guard is taken, and the call is put on the
\* stack.
LEMMA ClaimKeeps ==
    ASSUME NEW a \in Parties, IInv, Claim(a)
    PROVE  IInv'
<1> DEFINE next == [Claimed(a) EXCEPT !.locked = TRUE]
<1>1. /\ Claimed(a) \in VaultStates /\ ClaimsFollowRules(Claimed(a))
  BY ClaimedFollowsRules DEF IInv, Claim
<1>2. /\ next \in VaultStates /\ next.locked = TRUE
      /\ next.claims = Claimed(a).claims
      /\ next.hasClaimed = Claimed(a).hasClaimed
      /\ next.nextClaimTime = Claimed(a).nextClaimTime
  BY <1>1 DEF VaultStates
<1>3. ClaimsFollowRules(next) BY <1>1, <1>2, SameClaims
<1>4. Call("claim", next) BY DEF Claim
<1>5. ~vault.locked BY DEF Claim, CanClaim
<1> HIDE DEF next
<1>6. next.locked = (vault.locked \/ "claim" = "claim") BY <1>2
<1> QED BY <1>2, <1>3, <1>4, <1>5, <1>6, CallKeeps

\* receive() with and without forwarding.
LEMMA ReceiveKeeps ==
    ASSUME NEW amount \in 1..Supply, IInv, Receive(amount)
    PROVE  IInv'
<1> DEFINE taken == [vault EXCEPT !.received = @ + amount]
           next == [taken EXCEPT !.withdrawn = @ + amount]
           kept == [taken EXCEPT !.balance = @ + amount]
<1>1. vault \in VaultStates /\ ClaimsFollowRules(vault) BY DEF IInv, TypeOK
<1>2. /\ amount \in Nat /\ vault.received \in Nat /\ vault.withdrawn \in Nat
      /\ vault.balance \in Nat /\ vault.locked \in BOOLEAN
  BY <1>1, VaultAssumption DEF VaultStates
<1>3. /\ vault.received + amount \in Nat /\ vault.withdrawn + amount \in Nat
      /\ vault.balance + amount \in Nat
  BY <1>2
<1>4. /\ next \in VaultStates /\ next.locked = vault.locked
      /\ next.claims = vault.claims /\ next.hasClaimed = vault.hasClaimed
      /\ next.nextClaimTime = vault.nextClaimTime
  BY <1>1, <1>3 DEF VaultStates
<1>5. /\ kept \in VaultStates /\ kept.locked = vault.locked
      /\ kept.claims = vault.claims /\ kept.hasClaimed = vault.hasClaimed
      /\ kept.nextClaimTime = vault.nextClaimTime
  BY <1>1, <1>3 DEF VaultStates
<1>6. ClaimsFollowRules(next) BY <1>1, <1>4, SameClaims
<1>7. ClaimsFollowRules(kept) BY <1>1, <1>5, SameClaims
<1>8. CASE Call("receive", next)
  <2> HIDE DEF next
  <2>1. next.locked = (vault.locked \/ "receive" = "claim") BY <1>2, <1>4
  <2>2. "receive" # "claim" OBVIOUS
  <2> QED BY <1>4, <1>6, <1>8, <2>1, <2>2, CallKeeps
<1>9. CASE vault' = kept /\ UNCHANGED <<now, stack>>
  <2> HIDE DEF kept
  <2>1. vault' \in VaultStates /\ vault'.locked = vault.locked BY <1>5, <1>9
  <2>2. ClaimsFollowRules(vault') BY <1>7, <1>9
  <2> QED BY <1>9, <2>1, <2>2, QuietKeeps
<1> QED BY <1>8, <1>9 DEF Receive

\* setAutoForward touches neither claims nor guard.
LEMMA SetAutoForwardKeeps ==
    ASSUME NEW a \in Parties, NEW enabled \in BOOLEAN,
           NEW address \in Parties \union {Zero},
           IInv, SetAutoForward(a, enabled, address)
    PROVE  IInv'
<1>1. vault \in VaultStates /\ ClaimsFollowRules(vault) BY DEF IInv, TypeOK
<1>2. vault' = [vault EXCEPT !.autoForward = enabled,
                    !.forwardAddress = IF enabled THEN address ELSE @]
  BY DEF SetAutoForward
<1>3. /\ vault' \in VaultStates /\ vault'.locked = vault.locked
      /\ vault'.claims = vault.claims /\ vault'.hasClaimed = vault.hasClaimed
      /\ vault'.nextClaimTime = vault.nextClaimTime
  BY <1>1, <1>2 DEF VaultStates
<1>4. ClaimsFollowRules(vault') BY <1>1, <1>3, SameClaims
<1>5. UNCHANGED <<now, stack>> BY DEF SetAutoForward
<1> QED BY <1>3, <1>4, <1>5, QuietKeeps

\* emergencyWithdrawNative pays the whole balance to its recipient.
LEMMA EmergencyWithdrawKeeps ==
    ASSUME NEW a \in Parties, NEW to \in Parties \union {Zero},
           IInv, EmergencyWithdrawNative(a, to)
    PROVE  IInv'
<1> DEFINE next == [vault EXCEPT !.balance = 0, !.withdrawn = @ + vault.balance]
<1>1. vault \in VaultStates /\ ClaimsFollowRules(vault) BY DEF IInv, TypeOK
<1>2. vault.withdrawn + vault.balance \in Nat BY <1>1 DEF VaultStates
<1>3. /\ next \in VaultStates /\ next.locked = vault.locked
      /\ next.claims = vault.claims /\ next.hasClaimed = vault.hasClaimed
      /\ next.nextClaimTime = vault.nextClaimTime
  BY <1>1, <1>2 DEF VaultStates
<1>4. ClaimsFollowRules(next) BY <1>1, <1>3, SameClaims
<1>5. Call("withdraw", next) BY DEF EmergencyWithdrawNative
<1>6. vault.locked \in BOOLEAN BY <1>1 DEF VaultStates
<1> HIDE DEF next
<1>7. next.locked = (vault.locked \/ "withdraw" = "claim") BY <1>3, <1>6
<1>8. "withdraw" # "claim" OBVIOUS
<1> QED BY <1>3, <1>4, <1>5, <1>7, <1>8, CallKeeps

\* Only a claim leaves the guard free when it returns, and no claim ran below it.
LEMMA ReturnsKeeps ==
    ASSUME IInv, Returns
    PROVE  IInv'
<1> DEFINE n == Len(stack)
<1>1. /\ stack \in Seq(Frames) /\ n \in Nat /\ n > 0 /\ DOMAIN stack = 1..n
      /\ vault \in VaultStates /\ ClaimsFollowRules(vault)
  BY DEF IInv, TypeOK, Returns
<1>2. stack[n] \in Frames /\ n \in 1..n BY <1>1
<1>3. /\ stack[n].vault.locked <=> Claiming(stack, n - 1)
      /\ stack[n].op = "claim" => ~stack[n].vault.locked
  BY <1>1, <1>2 DEF IInv, FramesInv
<1>4. vault.locked <=> Claiming(stack, n) BY DEF IInv
<1>5. Claiming(stack, n) <=> Claiming(stack, n - 1) \/ stack[n].op = "claim"
  BY <1>1 DEF Claiming
<1>6. CASE stack[n].op = "claim"
  <2>1. vault' = [vault EXCEPT !.locked = FALSE] BY <1>6 DEF Returns, Top
  <2>2. /\ vault' \in VaultStates /\ ~vault'.locked /\ vault'.claims = vault.claims
        /\ vault'.hasClaimed = vault.hasClaimed
        /\ vault'.nextClaimTime = vault.nextClaimTime
    BY <1>1, <2>1 DEF VaultStates
  <2>3. ClaimsFollowRules(vault') BY <1>1, <2>2, SameClaims
  <2>4. vault'.locked <=> Claiming(stack, n - 1) BY <1>3, <1>6, <2>2
  <2> QED BY <2>2, <2>3, <2>4, PopKeeps DEF Returns
<1>7. CASE stack[n].op # "claim"
  <2>1. vault' = vault BY <1>7 DEF Returns, Top
  <2>2. vault'.locked <=> Claiming(stack, n - 1) BY <1>4, <1>5, <1>7, <2>1
  <2>3. vault' \in VaultStates /\ ClaimsFollowRules(vault') BY <1>1, <2>1
  <2> QED BY <2>2, <2>3, PopKeeps DEF Returns
<1> QED BY <1>6, <1>7

\* A recipient or a call that fails goes back to what its frame remembers.
LEMMA FailsKeeps ==
    ASSUME IInv, Fails
    PROVE  IInv'
<1> DEFINE n == Len(stack)
<1>1. stack \in Seq(Frames) /\ n \in Nat /\ n > 0 /\ DOMAIN stack = 1..n
  BY DEF IInv, TypeOK, Fails
<1>2. stack[n] \in Frames /\ n \in 1..n BY <1>1
<1>3. vault' = stack[n].vault BY DEF Fails, Top
<1>4. vault' \in VaultStates BY <1>2, <1>3 DEF Frames
<1>5. ClaimsFollowRules(vault') /\ (vault'.locked <=> Claiming(stack, n - 1))
  BY <1>1, <1>2, <1>3 DEF IInv, FramesInv
<1> QED BY <1>4, <1>5, PopKeeps DEF Fails

\* A new vault has no claims and no calls.
LEMMA InitIInv == Init => IInv
<1> SUFFICES ASSUME Init PROVE IInv OBVIOUS
<1>1. stack = <<>> /\ stack \in Seq(Frames) /\ DOMAIN stack = {} /\ Len(stack) = 0
  BY DEF Init
<1>2. /\ vault.claims = <<>> /\ DOMAIN vault.claims = {}
      /\ vault.hasClaimed = {} /\ vault.locked = FALSE
  BY DEF Init
<1>3. vault \in VaultStates BY DEF Init, VaultStates
<1>4. TypeOK BY <1>1, <1>3 DEF Init, TypeOK
<1>5. ClaimsFollowRules(vault) BY <1>2 DEF ClaimsFollowRules
<1>6. ~Claiming(stack, 0) BY DEF Claiming
<1> QED BY <1>1, <1>2, <1>4, <1>5, <1>6 DEF IInv, FramesInv

\* The inductive step, one function of the contract at a time.
LEMMA NextIInv == IInv /\ [Next]_vars => IInv'
<1> SUFFICES ASSUME IInv, [Next]_vars PROVE IInv' OBVIOUS
<1>1. CASE Returns BY <1>1, ReturnsKeeps
<1>2. CASE Fails BY <1>2, FailsKeeps
<1>3. CASE Tick
  <2>1. UNCHANGED <<vault, stack>> /\ now' \in Nat
    BY <1>3 DEF Tick, IInv, TypeOK
  <2> QED BY <2>1 DEF IInv, TypeOK, FramesInv
<1>4. CASE \E amount \in 1..Supply : Receive(amount) BY <1>4, ReceiveKeeps
<1>5. ASSUME NEW a \in Parties, Operation(a) PROVE IInv'
  <2>1. CASE ClaimNothing(a) BY <2>1, ClaimNothingKeeps
  <2>2. CASE Claim(a) BY <2>2, ClaimKeeps
  <2>3. CASE \E enabled \in BOOLEAN, address \in Parties \union {Zero} :
                 SetAutoForward(a, enabled, address)
    BY <2>3, SetAutoForwardKeeps
  <2>4. CASE \E to \in Parties \union {Zero} : EmergencyWithdrawNative(a, to)
    BY <2>4, EmergencyWithdrawKeeps
  <2> QED BY <1>5, <2>1, <2>2, <2>3, <2>4 DEF Operation
<1>6. CASE UNCHANGED vars
  <2>1. UNCHANGED <<now, vault, stack>> BY <1>6 DEF vars
  <2> QED BY <2>1 DEF IInv, TypeOK, FramesInv
<1> QED BY <1>1, <1>2, <1>3, <1>4, <1>5, <1>6 DEF Next

\* The rules hold of the storage and of every state a revert may go back to.
LEMMA IInvAlways == Spec => []IInv
BY InitIInv, NextIInv, PTL DEF Spec

\* claim(): nobody claims twice, no reward is above maxReward, and claims are a
\* cooldown apart, whatever the recipients of BNB call or fail.
THEOREM FreeCoinClaimRules == Spec => []ClaimRules
<1>1. IInv => ClaimRules BY DEF IInv, FramesInv, ClaimRules
<1> QED BY <1>1, IInvAlways, PTL

\* nonReentrant: at most one claim is in progress, and the guard is taken
\* exactly then.
THEOREM FreeCoinOneClaim == Spec => []OneClaimAtATime
<1>1. IInv => OneClaimAtATime
  <2> SUFFICES ASSUME IInv PROVE OneClaimAtATime OBVIOUS
  <2>1. /\ stack \in Seq(Frames) /\ DOMAIN stack = 1..Len(stack)
        /\ Len(stack) \in Nat
    BY DEF IInv, TypeOK
  <2>2. ASSUME NEW i \in ClaimCalls, NEW j \in ClaimCalls, i < j PROVE FALSE
    <3>1. i \in 1..(j - 1) /\ j \in DOMAIN stack BY <2>1, <2>2 DEF ClaimCalls
    <3>2. stack[i].op = "claim" /\ stack[j].op = "claim" BY DEF ClaimCalls
    <3>3. Claiming(stack, j - 1) BY <3>1, <3>2 DEF Claiming
    <3> QED BY <3>1, <3>2, <3>3 DEF IInv, FramesInv
  <2>3. \A i, j \in ClaimCalls : i = j
    <3> SUFFICES ASSUME NEW i \in ClaimCalls, NEW j \in ClaimCalls, i # j
                 PROVE  FALSE
      OBVIOUS
    <3>1. i \in Nat /\ j \in Nat BY <2>1 DEF ClaimCalls
    <3>2. i < j \/ j < i BY <3>1
    <3> QED BY <3>2, <2>2
  <2>4. vault.locked <=> ClaimCalls # {} BY <2>1 DEF IInv, Claiming, ClaimCalls
  <2> QED BY <2>3, <2>4 DEF OneClaimAtATime
<1> QED BY <1>1, IInvAlways, PTL

\* The vault, and every state that a failure would restore, keeps its shape;
\* above all no payment takes the balance below zero.
THEOREM FreeCoinTypes == Spec => []TypeOK
<1>1. IInv => TypeOK BY DEF IInv
<1> QED BY <1>1, IInvAlways, PTL

-----------------------------------------------------------------------------
(* The books                                                               *)

\* Of some numbers there is a least one.
LEMMA LeastNumber ==
    ASSUME NEW T, T \subseteq Nat, T # {}
    PROVE  \E k \in T : \A j \in T : k <= j
<1>1. IsWellFoundedOn(OpToRel(<, Nat), Nat) BY NatLessThanWellFounded
<1>2. PICK k \in T : \A j \in T : ~(<<j, k>> \in OpToRel(<, Nat))
  BY <1>1, WFMin
<1>3. \A j \in T : ~(j < k)
  <2> SUFFICES ASSUME NEW j \in T, j < k PROVE FALSE
    OBVIOUS
  <2>1. <<j, k>> \in OpToRel(<, Nat) BY DEF OpToRel
  <2> QED BY <1>2, <2>1
<1> QED BY <1>3

\* Sums of sequences exist, as otherwise there were a shortest one without.
LEMMA SumsExist ==
    ASSUME NEW v, NEW N \in Nat
    PROVE  \E g : g = [n \in 0..N |-> IF n = 0 THEN 0 ELSE g[n - 1] + v[n]]
<1> DEFINE Plus(g, n) == IF n = 0 THEN 0 ELSE g[n - 1] + v[n]
           T == {k \in 0..N : ~\E g : g = [n \in 0..k |-> Plus(g, n)]}
<1>1. T = {}
  <2> SUFFICES ASSUME T # {} PROVE FALSE
    OBVIOUS
  <2>1. T \subseteq Nat OBVIOUS
  <2>2. PICK k \in T : \A j \in T : k <= j BY <2>1, LeastNumber
  <2>3. CASE k = 0
    <3> DEFINE g == [n \in 0..0 |-> 0]
    <3>1. g = [n \in 0..0 |-> Plus(g, n)] OBVIOUS
    <3> QED BY <2>2, <2>3, <3>1
  <2>4. CASE k # 0
    <3>1. k \in Nat /\ k - 1 \in 0..N /\ ~(k <= k - 1) BY <2>4
    <3>2. k - 1 \notin T BY <2>2, <3>1
    <3>3. PICK g : g = [n \in 0..(k - 1) |-> Plus(g, n)] BY <3>1, <3>2
    <3> DEFINE h == [n \in 0..k |-> IF n = k THEN Plus(g, k) ELSE g[n]]
    <3>4. \A n \in 0..(k - 1) : h[n] = g[n] BY <3>1
    <3>5. \A n \in 0..k : n # 0 => n - 1 \in 0..(k - 1) BY <3>1
    <3>6. \A n \in 0..k : Plus(h, n) = Plus(g, n) BY <3>4, <3>5
    <3>7. \A n \in 0..(k - 1) : g[n] = Plus(g, n) BY <3>3
    <3>8. \A n \in 0..k : n # k => n \in 0..(k - 1) BY <3>1
    <3> HIDE DEF Plus
    <3>9. \A n \in 0..k : h[n] = Plus(h, n) BY <3>6, <3>7, <3>8
    <3>10. h = [n \in 0..k |-> h[n]] OBVIOUS
    <3> HIDE DEF h
    <3>11. h = [n \in 0..k |-> Plus(h, n)] BY <3>9, <3>10
    <3> QED BY <2>2, <3>11
  <2> QED BY <2>3, <2>4
<1> HIDE DEF Plus
<1>2. \E g : g = [n \in 0..N |-> Plus(g, n)] BY <1>1
<1> QED BY <1>2 DEF Plus

\* They are numbers.
LEMMA SumsTyped ==
    ASSUME NEW v, NEW g, NEW N \in Nat, g[0] = 0,
           \A n \in 1..N : v[n] \in Nat /\ g[n] = g[n - 1] + v[n]
    PROVE  \A n \in 0..N : g[n] \in Nat
<1> DEFINE T == {n \in 0..N : g[n] \notin Nat}
<1> SUFFICES ASSUME T # {} PROVE FALSE
  OBVIOUS
<1>1. T \subseteq Nat OBVIOUS
<1>2. PICK k \in T : \A j \in T : k <= j BY <1>1, LeastNumber
<1>3. k # 0 BY <1>2
<1>4. k \in 1..N /\ k - 1 \in 0..N /\ ~(k <= k - 1) BY <1>2, <1>3
<1>5. g[k - 1] \in Nat BY <1>2, <1>4
<1>6. g[k] \in Nat BY <1>4, <1>5
<1> QED BY <1>2, <1>6

\* g adds the rewards up, from the first claim on.
Adds(g, claims) ==
    /\ g \in [0..Len(claims) -> Nat] /\ g[0] = 0
    /\ \A n \in 1..Len(claims) : g[n] = g[n - 1] + claims[n].reward

\* The books add the rewards up.
LEMMA TotalAdds ==
    ASSUME NEW s \in Seq(Claims)
    PROVE  \E g : Adds(g, s) /\ TotalReward(s) = g[Len(s)]
<1> DEFINE N == Len(s)
           Next1(g, n) == IF n = 0 THEN 0 ELSE g[n - 1] + s[n].reward
<1>1. /\ N \in Nat /\ DOMAIN s = 1..N
      /\ \A n \in 1..N : s[n].reward \in Nat /\ n - 1 \in 0..N
  <2>1. N \in Nat /\ DOMAIN s = 1..N /\ \A n \in 1..N : s[n] \in Claims OBVIOUS
  <2>2. \A c \in Claims : c.reward \in Nat BY DEF Claims
  <2> QED BY <2>1, <2>2
<1> DEFINE total == CHOOSE g : g = [n \in 0..N |-> Next1(g, n)]
           v == [n \in 1..N |-> s[n].reward]
<1>2. \A n \in 1..N : v[n] = s[n].reward /\ v[n] \in Nat BY <1>1
<1> HIDE DEF v
<1>3. total = [n \in 0..N |-> Next1(total, n)]
  <2>1. PICK g : g = [n \in 0..N |-> IF n = 0 THEN 0 ELSE g[n - 1] + v[n]]
    BY <1>1, SumsExist
  <2>2. g = [n \in 0..N |-> Next1(g, n)] BY <1>1, <1>2, <2>1
  <2> HIDE DEF Next1, N
  <2> QED BY <2>2, Zenon
<1>4. TotalReward(s) = total[N] BY DEF TotalReward
<1> HIDE DEF total
<1>5. total[0] = 0 BY <1>1, <1>3
<1>6. \A n \in 1..N : total[n] = total[n - 1] + s[n].reward
  <2> SUFFICES ASSUME NEW n \in 1..N
               PROVE  total[n] = total[n - 1] + s[n].reward
    OBVIOUS
  <2>1. n \in 0..N /\ n # 0 BY <1>1
  <2> QED BY <1>3, <2>1
<1>7. \A n \in 0..N : total[n] \in Nat
  <2>1. \A n \in 1..N : v[n] \in Nat /\ total[n] = total[n - 1] + v[n]
    BY <1>2, <1>6
  <2> QED BY <1>1, <1>5, <2>1, SumsTyped
<1>8. DOMAIN total = 0..N /\ total = [n \in 0..N |-> total[n]] BY <1>3
<1>9. total \in [0..N -> Nat] BY <1>7, <1>8
<1>10. Adds(total, s) BY <1>5, <1>6, <1>9 DEF Adds
<1> QED BY <1>4, <1>10

\* No claims, nothing paid.
LEMMA TotalOfNone == TotalReward(<<>>) = 0
<1>1. <<>> \in Seq(Claims) /\ Len(<<>>) = 0 OBVIOUS
<1>2. PICK g : Adds(g, <<>>) /\ TotalReward(<<>>) = g[Len(<<>>)]
  BY <1>1, TotalAdds
<1> QED BY <1>1, <1>2 DEF Adds

\* One more claim adds its reward.
LEMMA TotalOfMore ==
    ASSUME NEW s \in Seq(Claims), NEW c \in Claims
    PROVE  /\ TotalReward(s) \in Nat
           /\ TotalReward(Append(s, c)) = TotalReward(s) + c.reward
<1> DEFINE N == Len(s)
           t == Append(s, c)
<1>1. /\ N \in Nat /\ t \in Seq(Claims) /\ Len(t) = N + 1 /\ t[N + 1] = c
      /\ \A n \in 1..N : t[n] = s[n]
  OBVIOUS
<1>2. PICK g : Adds(g, s) /\ TotalReward(s) = g[N] BY TotalAdds
<1>3. PICK h : Adds(h, t) /\ TotalReward(t) = h[N + 1] BY <1>1, TotalAdds
<1> HIDE DEF t
<1>4. \A n \in 0..N : h[n] = g[n]
  <2> DEFINE T == {n \in 0..N : h[n] # g[n]}
  <2> SUFFICES ASSUME T # {} PROVE FALSE
    OBVIOUS
  <2>1. T \subseteq Nat BY <1>1
  <2>2. PICK k \in T : \A j \in T : k <= j BY <2>1, LeastNumber
  <2>3. k # 0 BY <1>2, <1>3, <2>2 DEF Adds
  <2>4. k \in 1..N /\ k \in 1..(N + 1) /\ k - 1 \in 0..N /\ ~(k <= k - 1)
    BY <1>1, <2>2, <2>3
  <2>5. h[k - 1] = g[k - 1] BY <2>2, <2>4
  <2>6. g[k] = g[k - 1] + s[k].reward BY <1>2, <2>4 DEF Adds
  <2>7. h[k] = h[k - 1] + t[k].reward BY <1>1, <1>3, <2>4 DEF Adds
  <2>8. t[k] = s[k] BY <1>1, <2>4
  <2> QED BY <2>2, <2>5, <2>6, <2>7, <2>8
<1>5. N + 1 \in 1..(N + 1) /\ (N + 1) - 1 = N /\ N \in 0..N BY <1>1
<1>6. h[N + 1] = h[N] + c.reward BY <1>1, <1>3, <1>5 DEF Adds
<1> QED BY <1>2, <1>3, <1>4, <1>5, <1>6 DEF Adds, t

\* The books of the vault, and of the states that a failure goes back to.
BooksInv ==
    /\ Books(vault)
    /\ \A i \in DOMAIN stack : Books(stack[i].vault)

\* A claim takes from the balance what it adds to the rewards.
LEMMA ClaimedBooks ==
    ASSUME NEW a \in Parties, TypeOK, Books(vault)
    PROVE  Books(Claimed(a))
<1> DEFINE c == [by |-> a, at |-> now, reward |-> NextReward]
           v == Claimed(a)
<1>1. vault \in VaultStates /\ now \in Nat BY DEF TypeOK
<1>2. NextReward \in Nat /\ NextReward <= vault.balance BY <1>1, RewardBounds
<1>3. c \in Claims /\ vault.claims \in Seq(Claims)
  BY <1>1, <1>2 DEF Claims, VaultStates
<1>4. /\ v.balance = vault.balance - NextReward /\ v.claims = Append(vault.claims, c)
      /\ v.received = vault.received /\ v.withdrawn = vault.withdrawn
      /\ v.lastClaimer = a /\ v.lastReward = NextReward
  BY <1>1 DEF Claimed, VaultStates
<1>5. /\ TotalReward(vault.claims) \in Nat
      /\ TotalReward(v.claims) = TotalReward(vault.claims) + NextReward
  BY <1>3, <1>4, TotalOfMore
<1>6. vault.balance = vault.received - vault.withdrawn - TotalReward(vault.claims)
  BY DEF Books
<1>7. vault.balance \in Nat /\ vault.received \in Nat /\ vault.withdrawn \in Nat
  BY <1>1 DEF VaultStates
<1> HIDE DEF v
<1>8. v.balance = v.received - v.withdrawn - TotalReward(v.claims)
  BY <1>2, <1>4, <1>5, <1>6, <1>7
<1>9. v.claims[Len(v.claims)] = c BY <1>3, <1>4
<1> QED BY <1>4, <1>8, <1>9 DEF Books, v

\* A change of the vault that pays no claim.
LEMMA OtherBooks ==
    ASSUME NEW v \in VaultStates, Books(v), NEW w, w.claims = v.claims,
           w.lastClaimer = v.lastClaimer, w.lastReward = v.lastReward,
           w.balance - w.received + w.withdrawn = v.balance - v.received + v.withdrawn,
           w.balance \in Nat, w.received \in Nat, w.withdrawn \in Nat
    PROVE  Books(w)
<1>1. TotalReward(v.claims) \in Nat
  <2>1. PICK g : Adds(g, v.claims) /\ TotalReward(v.claims) = g[Len(v.claims)]
    BY TotalAdds DEF VaultStates
  <2>2. Len(v.claims) \in Nat BY DEF VaultStates
  <2> QED BY <2>1, <2>2 DEF Adds
<1>2. v.balance \in Nat /\ v.received \in Nat /\ v.withdrawn \in Nat
  BY DEF VaultStates
<1>3. v.balance = v.received - v.withdrawn - TotalReward(v.claims) BY DEF Books
<1>4. PICK t \in Nat : t = TotalReward(v.claims) BY <1>1
<1>5. v.balance = v.received - v.withdrawn - t BY <1>3, <1>4
<1>6. w.balance = w.received - w.withdrawn - t BY <1>2, <1>5
<1> QED BY <1>4, <1>6 DEF Books

\* A frame remembers the books as they were.
LEMMA FrameBooks ==
    ASSUME TypeOK, BooksInv, NEW op, NEW next, Call(op, next), Books(next)
    PROVE  BooksInv'
<1>1. stack \in Seq(Frames) /\ Len(stack) \in Nat BY DEF TypeOK
<1>2. PICK f : f = [op |-> op, vault |-> vault] OBVIOUS
<1>3. stack' = Append(stack, f) /\ vault' = next BY <1>2 DEF Call
<1>4. /\ DOMAIN stack = 1..Len(stack) /\ DOMAIN stack' = 1..(Len(stack) + 1)
      /\ \A i \in 1..Len(stack) : stack'[i] = stack[i]
      /\ stack'[Len(stack) + 1] = f
  BY <1>1, <1>3
<1>5. \A i \in DOMAIN stack' : i \in DOMAIN stack \/ i = Len(stack) + 1
  BY <1>1, <1>4
<1>6. f.vault = vault BY <1>2
<1>7. ASSUME NEW i \in DOMAIN stack' PROVE Books(stack'[i].vault)
  BY <1>4, <1>5, <1>6 DEF BooksInv
<1> QED BY <1>3, <1>7 DEF BooksInv, Books

\* The inductive step of the books, one function of the contract at a time.
LEMMA BooksStep == IInv /\ BooksInv /\ [Next]_vars => BooksInv'
<1> SUFFICES ASSUME IInv, BooksInv, [Next]_vars PROVE BooksInv'
  OBVIOUS
<1>1. TypeOK /\ vault \in VaultStates /\ Books(vault)
  BY DEF IInv, TypeOK, BooksInv
<1>2. ASSUME Books(vault'), UNCHANGED stack PROVE BooksInv'
  BY <1>2 DEF BooksInv, Books
<1>3. ASSUME stack # <<>>, Pop, Books(vault') PROVE BooksInv'
  <2>1. stack \in Seq(Frames) /\ Len(stack) \in Nat /\ Len(stack) > 0
    BY <1>1, <1>3 DEF TypeOK
  <2>2. DOMAIN stack' \subseteq DOMAIN stack /\ \A i \in DOMAIN stack' : stack'[i] = stack[i]
    BY <1>3, <2>1 DEF Pop
  <2> QED BY <1>3, <2>2 DEF BooksInv, Books
<1>4. CASE Returns
  <2>1. vault' = vault \/ vault' = [vault EXCEPT !.locked = FALSE]
    BY <1>4 DEF Returns
  <2>2. Books(vault')
    <3>1. CASE vault' = vault BY <1>1, <3>1
    <3>2. CASE vault' = [vault EXCEPT !.locked = FALSE]
      <4>1. PICK w : w = [vault EXCEPT !.locked = FALSE] OBVIOUS
      <4>2. /\ w.claims = vault.claims /\ w.lastClaimer = vault.lastClaimer
            /\ w.lastReward = vault.lastReward /\ w.balance = vault.balance
            /\ w.received = vault.received /\ w.withdrawn = vault.withdrawn
        BY <1>1, <4>1 DEF VaultStates
      <4>3. vault.balance \in Nat /\ vault.received \in Nat /\ vault.withdrawn \in Nat
        BY <1>1 DEF VaultStates
      <4>4. Books(w) BY <1>1, <4>2, <4>3, OtherBooks
      <4> QED BY <3>2, <4>1, <4>4
    <3> QED BY <2>1, <3>1, <3>2
  <2> QED BY <1>3, <1>4, <2>2 DEF Returns
<1>5. CASE Fails
  <2>1. stack \in Seq(Frames) /\ Len(stack) \in Nat /\ Len(stack) > 0
    BY <1>1, <1>5 DEF TypeOK, Fails
  <2>2. Len(stack) \in DOMAIN stack BY <2>1
  <2>3. Books(vault') BY <1>5, <2>2 DEF BooksInv, Fails, Top
  <2> QED BY <1>3, <1>5, <2>3 DEF Fails
<1>6. CASE Tick BY <1>1, <1>2, <1>6 DEF Tick
<1>7. ASSUME NEW amount \in 1..Supply, Receive(amount) PROVE BooksInv'
  <2> DEFINE taken == [vault EXCEPT !.received = @ + amount]
             next == [taken EXCEPT !.withdrawn = @ + amount]
             kept == [taken EXCEPT !.balance = @ + amount]
  <2>1. /\ amount \in Nat /\ vault.received \in Nat /\ vault.withdrawn \in Nat
        /\ vault.balance \in Nat
    BY <1>1, VaultAssumption DEF VaultStates
  <2>2. /\ next.claims = vault.claims /\ next.lastClaimer = vault.lastClaimer
        /\ next.lastReward = vault.lastReward /\ next.balance = vault.balance
        /\ next.received = vault.received + amount
        /\ next.withdrawn = vault.withdrawn + amount
    BY <1>1 DEF VaultStates
  <2>3. /\ kept.claims = vault.claims /\ kept.lastClaimer = vault.lastClaimer
        /\ kept.lastReward = vault.lastReward /\ kept.balance = vault.balance + amount
        /\ kept.received = vault.received + amount
        /\ kept.withdrawn = vault.withdrawn
    BY <1>1 DEF VaultStates
  <2>4. Books(next) /\ Books(kept)
    <3> HIDE DEF next, kept
    <3> QED BY <1>1, <2>1, <2>2, <2>3, OtherBooks
  <2>5. CASE Call("receive", next)
    <3> HIDE DEF next
    <3> QED BY <1>1, <2>4, <2>5, FrameBooks
  <2>6. CASE vault' = kept /\ UNCHANGED <<now, stack>>
    <3> HIDE DEF kept
    <3> QED BY <1>2, <2>4, <2>6
  <2> QED BY <1>7, <2>5, <2>6 DEF Receive
<1>8. ASSUME NEW a \in Parties, Operation(a) PROVE BooksInv'
  <2>1. CASE ClaimNothing(a) BY <1>1, <1>2, <2>1, ClaimedBooks DEF ClaimNothing
  <2>2. CASE Claim(a)
    <3>1. PICK v : v = Claimed(a) OBVIOUS
    <3>2. v \in VaultStates /\ Books(v)
      BY <1>1, <2>2, <3>1, ClaimedBooks, ClaimedFollowsRules DEF Claim, IInv
    <3>3. PICK w : w = [v EXCEPT !.locked = TRUE] OBVIOUS
    <3>4. /\ w.claims = v.claims /\ w.lastClaimer = v.lastClaimer
          /\ w.lastReward = v.lastReward /\ w.balance = v.balance
          /\ w.received = v.received /\ w.withdrawn = v.withdrawn
          /\ v.balance \in Nat /\ v.received \in Nat /\ v.withdrawn \in Nat
      BY <3>2, <3>3 DEF VaultStates
    <3>5. Books(w) BY <3>2, <3>4, OtherBooks
    <3>6. Call("claim", w) BY <2>2, <3>1, <3>3 DEF Claim
    <3> QED BY <1>1, <3>5, <3>6, FrameBooks
  <2>3. CASE \E enabled \in BOOLEAN, address \in Parties \union {Zero} :
                 SetAutoForward(a, enabled, address)
    <3>1. PICK enabled \in BOOLEAN, address \in Parties \union {Zero} :
              SetAutoForward(a, enabled, address)
      BY <2>3
    <3>2. PICK w : w = [vault EXCEPT !.autoForward = enabled,
                            !.forwardAddress = IF enabled THEN address ELSE @]
      OBVIOUS
    <3>3. /\ w.claims = vault.claims /\ w.lastClaimer = vault.lastClaimer
          /\ w.lastReward = vault.lastReward /\ w.balance = vault.balance
          /\ w.received = vault.received /\ w.withdrawn = vault.withdrawn
          /\ vault.balance \in Nat /\ vault.received \in Nat /\ vault.withdrawn \in Nat
      BY <1>1, <3>2 DEF VaultStates
    <3>4. Books(w) BY <1>1, <3>3, OtherBooks
    <3> QED BY <1>2, <3>1, <3>2, <3>4 DEF SetAutoForward
  <2>4. CASE \E to \in Parties \union {Zero} : EmergencyWithdrawNative(a, to)
    <3>1. PICK w : w = [vault EXCEPT !.balance = 0, !.withdrawn = @ + vault.balance]
      OBVIOUS
    <3>2. /\ w.claims = vault.claims /\ w.lastClaimer = vault.lastClaimer
          /\ w.lastReward = vault.lastReward /\ w.balance = 0
          /\ w.received = vault.received /\ w.withdrawn = vault.withdrawn + vault.balance
          /\ vault.balance \in Nat /\ vault.received \in Nat /\ vault.withdrawn \in Nat
      BY <1>1, <3>1 DEF VaultStates
    <3>3. Books(w) BY <1>1, <3>2, OtherBooks
    <3>4. Call("withdraw", w) BY <2>4, <3>1 DEF EmergencyWithdrawNative
    <3> QED BY <1>1, <3>3, <3>4, FrameBooks
  <2> QED BY <1>8, <2>1, <2>2, <2>3, <2>4 DEF Operation
<1>9. CASE UNCHANGED vars BY <1>1, <1>2, <1>9 DEF vars
<1> QED BY <1>4, <1>5, <1>6, <1>7, <1>8, <1>9 DEF Next

\* A new vault holds nothing and has paid nothing.
LEMMA InitBooks == Init => BooksInv
<1> SUFFICES ASSUME Init PROVE BooksInv
  OBVIOUS
<1>1. /\ vault.claims = <<>> /\ vault.balance = 0 /\ vault.received = 0
      /\ vault.withdrawn = 0 /\ DOMAIN stack = {}
  BY DEF Init
<1> QED BY <1>1, TotalOfNone DEF BooksInv, Books

\* However the calls of recipients nest, and whichever fail, the vault holds
\* what it received less what it paid, forwarded and gave up, and shows the
\* claim it paid last.
THEOREM FreeCoinBooks == Spec => []BooksBalance
<1>1. BooksInv => BooksBalance BY DEF BooksInv, BooksBalance
<1> QED BY <1>1, IInvAlways, InitBooks, BooksStep, PTL DEF Spec

-----------------------------------------------------------------------------
(* The panel that calls a vault.                                           *)

Submit ==
    [card : Cards, mount : 0..MaxRefreshes, row : Row, step : Steps, k : Nat,
     pending : Txs, called : {"not", "success", "reverted", "replaced"},
     alone : BOOLEAN, failed : BOOLEAN, short : BOOLEAN]

\* A submit waits for a transaction where it sent one, and names an approval
\* while it is at one; its card was made by now.
Placed(s) ==
    /\ s.mount <= mount
    /\ s.k <= Len(Named(s))
    /\ s.step = "switching" => s.k = 0
    /\ s.step \in {"checking", "approving", "mining"} \/ s.pending = "approval" => s.k >= 1
    /\ s.pending = "approval" => s.step \in {"mining", "over"}
    /\ s.pending = "call" => s.step \in {"confirming", "over"}

\* With one approval that is not undone, it sends what the allowance covers.
Covered(s) ==
    s.alone /\ ~s.failed /\ Len(Named(s)) = 1 =>
        /\ ~s.short
        /\ s.step = "sending" => allowance >= Takes(s.row, Named(s))
        /\ s.step = "mining" /\ s.pending = "none" => allowance >= Amount(s)

\* No submit before one that is alone goes on, and no other while it runs itself.
Apart ==
    \A i, j \in DOMAIN submits :
        submits[i].alone /\ (j < i \/ (j # i /\ Running(submits[i]))) => ~Running(submits[j])

\* A card's success is that of its last submit.
Told(i) ==
    LET s == submits[i]
    IN  /\ s.alone /\ s.mount = mount /\ status[s.card] = "success" /\ s.step # "switching"
        /\ \A j \in DOMAIN submits : j > i => submits[j].card # s.card
        => s.step = "over" /\ s.called \in {"success", "replaced"} /\ s.pending = "none"

PanelInv ==
    /\ onChain \in BOOLEAN /\ changes \in 0..MaxChanges /\ allowance \in Nat
    /\ form \in [Cards -> Row]
    /\ status \in [Cards -> Busy \union {"idle", "success", "error"}]
    /\ mount \in 0..MaxRefreshes
    /\ submits \in Seq(Submit)
    /\ \A i \in DOMAIN submits : Placed(submits[i]) /\ Covered(submits[i]) /\ Told(i)
    /\ Apart

\* What a number of approvals takes is a number; what one takes is what its
\* field says.
LEMMA TakesTyped ==
    ASSUME NEW row \in Row, NEW fields \in Seq(Fields)
    PROVE  /\ Takes(row, fields) \in Nat
           /\ Len(fields) = 1 => Takes(row, fields) = row[fields[1]]
<1> DEFINE N == Len(fields)
           v == [n \in 1..N |-> row[fields[n]]]
           Plus(g, n) == IF n = 0 THEN 0 ELSE g[n - 1] + row[fields[n]]
           sum == CHOOSE g : g = [n \in 0..N |-> Plus(g, n)]
<1>1. N \in Nat /\ \A n \in 1..N : v[n] = row[fields[n]] /\ v[n] \in Nat
  <2>1. row \in [Fields -> Amounts] /\ Amounts \subseteq Nat
    BY VaultPanelAssumption DEF Row
  <2>2. \A n \in 1..N : fields[n] \in Fields OBVIOUS
  <2>3. \A n \in 1..N : row[fields[n]] \in Nat BY <2>1, <2>2
  <2> QED BY <2>3
<1>2. Takes(row, fields) = sum[N] BY DEF Takes
<1> HIDE DEF v
<1>3. sum = [n \in 0..N |-> Plus(sum, n)]
  <2>1. PICK g : g = [n \in 0..N |-> IF n = 0 THEN 0 ELSE g[n - 1] + v[n]]
    BY <1>1, SumsExist
  <2>2. g = [n \in 0..N |-> Plus(g, n)] BY SMTT(30), <1>1, <2>1
  <2> HIDE DEF Plus, N
  <2> QED BY <2>2, Zenon
<1> HIDE DEF sum
<1>4. sum[0] = 0 /\ \A n \in 1..N : sum[n] = sum[n - 1] + v[n] BY <1>1, <1>3
<1>5. \A n \in 0..N : sum[n] \in Nat BY ZenonT(30), <1>1, <1>4, SumsTyped
<1> QED BY <1>1, <1>2, <1>4, <1>5

\* What a submit says of its approvals.
LEMMA NamedTyped ==
    ASSUME NEW s \in Submit
    PROVE  /\ Named(s) \in Seq(Fields) /\ Len(Named(s)) \in Nat
           /\ \A n \in 1..Len(Named(s)) : s.row[Named(s)[n]] \in Nat
           /\ Takes(s.row, Named(s)) \in Nat
           /\ Len(Named(s)) = 1 => Takes(s.row, Named(s)) = s.row[Named(s)[1]]
<1>1. Named(s) \in Seq(Fields) /\ s.row \in Row /\ Amounts \subseteq Nat
  BY VaultPanelAssumption DEF Named, Submit
<1>2. \A n \in 1..Len(Named(s)) : Named(s)[n] \in Fields BY <1>1
<1>3. \A n \in 1..Len(Named(s)) : s.row[Named(s)[n]] \in Nat
  BY <1>1, <1>2 DEF Row
<1> QED BY <1>1, <1>3, TakesTyped

\* On from the start, from an allowance that is enough, or from an approval that
\* is mined, a submit comes to its next approval or to what is covered.
LEMMA OnwardGoes ==
    ASSUME allowance \in Nat, NEW s \in Submit, Placed(s), Covered(s),
           \/ s.step = "switching"
           \/ s.step = "checking" /\ Enough(s)
           \/ s.step = "mining" /\ s.pending = "none",
           NEW t, t = Onward(s)
    PROVE  /\ t \in Submit /\ Placed(t) /\ Covered(t) /\ t.step \in {"checking", "sending"}
           /\ t.card = s.card /\ t.mount = s.mount /\ t.alone = s.alone /\ t.pending = "none"
<1>1. s.pending = "none"
  BY DEF Placed, Submit, Txs
<1>2. /\ Len(Named(s)) \in Nat /\ s.k \in Nat /\ s.k <= Len(Named(s))
      /\ Len(Named(s)) = 1 => Takes(s.row, Named(s)) = s.row[Named(s)[1]]
  BY NamedTyped DEF Placed, Submit
<1>3. CASE s.k < Len(Named(s))
  <2>1. t = [s EXCEPT !.step = "checking", !.k = s.k + 1] /\ s.k + 1 \in Nat
    BY <1>2, <1>3 DEF Onward
  <2>2. /\ t \in Submit /\ t.step = "checking" /\ t.k = s.k + 1 /\ Named(t) = Named(s)
        /\ t.card = s.card /\ t.mount = s.mount /\ t.alone = s.alone /\ t.pending = s.pending
        /\ t.short = s.short /\ t.failed = s.failed
    <3>1. t \in Submit BY <2>1 DEF Submit, Steps
    <3> QED BY <2>1, <3>1 DEF Submit, Named
  <2> QED BY <1>1, <1>2, <1>3, <2>2 DEF Placed, Covered
<1>4. CASE ~(s.k < Len(Named(s)))
  <2>1. t = [s EXCEPT !.step = "sending"]
    BY <1>4 DEF Onward
  <2>2. /\ t \in Submit /\ t.step = "sending" /\ t.k = s.k /\ Named(t) = Named(s)
        /\ t.card = s.card /\ t.mount = s.mount /\ t.alone = s.alone /\ t.pending = s.pending
        /\ t.short = s.short /\ t.failed = s.failed /\ t.row = s.row
    BY <2>1 DEF Submit, Steps, Named
  <2>3. Covered(t)
    <3> SUFFICES ASSUME s.alone, ~s.failed, Len(Named(s)) = 1
                 PROVE  ~s.short /\ allowance >= Takes(s.row, Named(s))
      BY <2>2 DEF Covered
    <3>1. s.k = 1 BY <1>2, <1>4
    <3>2. Amount(s) = Takes(s.row, Named(s)) BY <1>2, <3>1 DEF Amount
    <3> QED BY <1>1, <1>4, <3>1, <3>2 DEF Covered, Enough, Placed
  <2> QED BY <1>1, <1>2, <2>2, <2>3 DEF Placed
<1> QED BY <1>3, <1>4

\* A submit that moves keeps what holds of all of them, where it does for itself.
LEMMA MoveKeeps ==
    ASSUME PanelInv, NEW i \in DOMAIN submits, Running(submits[i]), NEW t \in Submit,
           submits' = [submits EXCEPT ![i] = t],
           t.card = submits[i].card, t.mount = submits[i].mount, t.alone = submits[i].alone,
           UNCHANGED <<form, mount, changes>>, onChain' \in BOOLEAN, allowance' \in Nat,
           Placed(t)', Covered(t)', Told(i)',
           \/ status' = status
           \/ \E v \in Busy \union {"idle", "success", "error"} :
                  status' = [status EXCEPT ![t.card] = v]
    PROVE  PanelInv'
<1>1. /\ submits \in Seq(Submit) /\ submits' \in Seq(Submit)
      /\ DOMAIN submits' = DOMAIN submits /\ submits'[i] = t
      /\ \A j \in DOMAIN submits : j # i => submits'[j] = submits[j]
      /\ \A j \in DOMAIN submits : submits[j] \in Submit /\ submits'[j].card = submits[j].card
                                   /\ submits'[j].alone = submits[j].alone /\ j \in Int
  BY DEF PanelInv
<1>2. /\ status' \in [Cards -> Busy \union {"idle", "success", "error"}]
      /\ \A c \in Cards : c # t.card => status'[c] = status[c]
  BY DEF PanelInv
<1>3. Apart'
  <2>1. \A j \in DOMAIN submits : Running(submits'[j]) => Running(submits[j])
    BY <1>1
  <2> SUFFICES ASSUME NEW a \in DOMAIN submits, NEW b \in DOMAIN submits,
                      submits'[a].alone, b < a \/ (b # a /\ Running(submits'[a])),
                      Running(submits'[b])
               PROVE  FALSE
    BY <1>1 DEF Apart, Running
  <2> QED BY <1>1, <2>1 DEF PanelInv, Apart
<1>4. ASSUME NEW j \in DOMAIN submits, j # i
      PROVE  (Placed(submits[j]) /\ Covered(submits[j]) /\ Told(j))'
  <2>1. Placed(submits[j]) /\ Covered(submits[j]) /\ Told(j) /\ submits'[j] = submits[j]
    BY <1>1, <1>4 DEF PanelInv
  <2>2. ~(submits[j].alone /\ (i < j \/ Running(submits[j])))
    BY <1>4 DEF PanelInv, Apart
  <2>3. Placed(submits[j])' BY <2>1 DEF Placed, Named
  <2>4. Covered(submits[j])'
    BY <2>1, <2>2 DEF Covered, Named, Amount, Running
  <2>5. Told(j)'
    <3> SUFFICES ASSUME submits[j].alone, submits[j].mount = mount,
                        status'[submits[j].card] = "success", submits[j].step # "switching",
                        \A n \in DOMAIN submits : n > j => submits[n].card # submits[j].card
                 PROVE  /\ submits[j].step = "over"
                        /\ submits[j].called \in {"success", "replaced"}
                        /\ submits[j].pending = "none"
      BY <1>1, <2>1 DEF Told
    <3>1. i > j BY <1>1, <1>4, <2>2
    <3>2. status'[submits[j].card] = status[submits[j].card]
      BY SMTT(30), <1>1, <1>2, <3>1 DEF Submit
    <3> QED BY <2>1, <3>2 DEF Told
  <2> QED BY <2>3, <2>4, <2>5
<1>5. ASSUME NEW j \in DOMAIN submits'
      PROVE  (Placed(submits[j]) /\ Covered(submits[j]) /\ Told(j))'
  <2>1. CASE j = i BY <1>1, <2>1
  <2>2. CASE j # i BY <1>1, <1>4, <2>2
  <2> QED BY <2>1, <2>2
<1> QED BY <1>1, <1>2, <1>3, <1>5 DEF PanelInv

\* So it is where a submit comes to a further step and shows it.
LEMMA GoesKeeps ==
    ASSUME PanelInv, NEW i \in DOMAIN submits, submits[i].step # "over", NEW t \in Submit,
           Goes(i, t), t.step # "switching", t.step = "over" => t.pending = "none",
           t.card = submits[i].card, t.mount = submits[i].mount, t.alone = submits[i].alone,
           UNCHANGED <<form, mount, changes, allowance>>, onChain' \in BOOLEAN,
           Placed(t), Covered(t)
    PROVE  PanelInv'
<1>1. /\ submits' = [submits EXCEPT ![i] = t] /\ submits'[i] = t
      /\ DOMAIN submits' = DOMAIN submits
      /\ status' = IF t.mount = mount THEN [status EXCEPT ![t.card] = Shown(t)] ELSE status
      /\ status \in [Cards -> Busy \union {"idle", "success", "error"}]
  BY DEF Goes, PanelInv
<1>2. /\ Shown(t) \in Busy \union {"idle", "success", "error"}
      /\ Shown(t) = "success" => t.step = "over" /\ t.called \in {"success", "replaced"}
  BY DEF Shown, Busy, Submit, Steps
<1>3. Told(i)'
  BY <1>1, <1>2 DEF Told, Submit
<1>4. Placed(t)' /\ Covered(t)'
  BY DEF Placed, Covered, Named, Amount
<1>5. allowance' \in Nat /\ Running(submits[i]) BY DEF PanelInv, Running
<1>6. \/ status' = status
      \/ \E v \in Busy \union {"idle", "success", "error"} :
             status' = [status EXCEPT ![t.card] = v]
  BY <1>1, <1>2
<1> HIDE DEF PanelInv
<1> QED BY <1>1, <1>3, <1>4, <1>5, <1>6, MoveKeeps

\* And where the chain settles one of its transactions: what a card shows as a
\* success has none that is pending.
LEMMA ChainKeeps ==
    ASSUME PanelInv, NEW i \in DOMAIN submits, submits[i].pending # "none", NEW t \in Submit,
           submits' = [submits EXCEPT ![i] = t], UNCHANGED panel, allowance' \in Nat,
           t.step = submits[i].step,
           t.card = submits[i].card, t.mount = submits[i].mount, t.alone = submits[i].alone,
           Placed(t), Covered(t)'
    PROVE  PanelInv'
<1>1. /\ submits'[i] = t /\ DOMAIN submits' = DOMAIN submits
      /\ UNCHANGED <<onChain, form, status, mount, changes>>
      /\ \A j \in DOMAIN submits : submits'[j].card = submits[j].card
  BY DEF PanelInv, panel
<1>2. Told(i)'
  <2>1. Told(i) BY DEF PanelInv
  <2> SUFFICES ASSUME submits[i].alone, submits[i].mount = mount,
                      status[submits[i].card] = "success", submits[i].step # "switching",
                      \A j \in DOMAIN submits : j > i => submits[j].card # submits[i].card
               PROVE  FALSE
    BY <1>1 DEF Told
  <2> QED BY <2>1 DEF Told
<1>3. Placed(t)' BY <1>1 DEF Placed, Named
<1>4. onChain' \in BOOLEAN /\ Running(submits[i]) BY <1>1 DEF PanelInv, Running
<1> QED BY <1>1, <1>2, <1>3, <1>4, MoveKeeps

-----------------------------------------------------------------------------
\* The steps of a submit.
LEMMA SubmitKeeps ==
    ASSUME PanelInv, NEW i \in DOMAIN submits,
           \/ Switched(i) \/ ReadsAllowance(i) \/ SignsApproval(i) \/ SignsCall(i)
           \/ ApprovalMined(i) \/ CallMined(i)
           \/ \E how \in {"reverted", "replaced"} : Undone(i, how)
           \/ ApprovalReceipt(i) \/ CallReceipt(i) \/ Throws(i)
    PROVE  PanelInv'
<1> DEFINE s == submits[i]
<1>1. /\ s \in Submit /\ Placed(s) /\ Covered(s) /\ allowance \in Nat /\ onChain \in BOOLEAN
      /\ submits \in Seq(Submit)
  BY DEF PanelInv
<1>2. /\ Named(s) \in Seq(Fields) /\ Len(Named(s)) \in Nat
      /\ \A n \in 1..Len(Named(s)) : s.row[Named(s)[n]] \in Nat
      /\ Takes(s.row, Named(s)) \in Nat
      /\ Len(Named(s)) = 1 => Takes(s.row, Named(s)) = s.row[Named(s)[1]]
  BY <1>1, NamedTyped
<1>3. CASE Switched(i)
  <2>1. PICK t : t = Onward(s) OBVIOUS
  <2>2. s.step = "switching" /\ Goes(i, t) /\ UNCHANGED <<form, mount, changes, allowance>>
        /\ onChain' \in BOOLEAN
    BY <1>3, <2>1 DEF Switched
  <2>3. /\ t \in Submit /\ Placed(t) /\ Covered(t) /\ t.step \in {"checking", "sending"}
        /\ t.card = s.card /\ t.mount = s.mount /\ t.alone = s.alone /\ t.pending = "none"
    BY <1>1, <2>1, <2>2, OnwardGoes
  <2> QED BY <2>2, <2>3, GoesKeeps
<1>4. CASE ReadsAllowance(i)
  <2>1. CASE Enough(s)
    <3>1. PICK t : t = Onward(s) OBVIOUS
    <3>2. s.step = "checking" /\ Goes(i, t) /\ UNCHANGED <<onChain, form, mount, changes, allowance>>
      BY <1>4, <2>1, <3>1 DEF ReadsAllowance
    <3>3. /\ t \in Submit /\ Placed(t) /\ Covered(t) /\ t.step \in {"checking", "sending"}
          /\ t.card = s.card /\ t.mount = s.mount /\ t.alone = s.alone /\ t.pending = "none"
      BY <1>1, <2>1, <3>1, <3>2, OnwardGoes
    <3> QED BY <1>1, <3>2, <3>3, GoesKeeps
  <2>2. CASE ~Enough(s)
    <3>1. PICK t : t = [s EXCEPT !.step = "approving"] OBVIOUS
    <3>2. s.step = "checking" /\ Goes(i, t) /\ UNCHANGED <<onChain, form, mount, changes, allowance>>
      BY <1>4, <2>2, <3>1 DEF ReadsAllowance
    <3>3. t \in Submit BY <1>1, <3>1 DEF Submit, Steps
    <3>4. /\ t.step = "approving" /\ t.card = s.card /\ t.mount = s.mount /\ t.alone = s.alone
          /\ t.k = s.k /\ t.pending = s.pending /\ t.short = s.short /\ t.failed = s.failed
      BY <1>1, <3>1 DEF Submit
    <3>5. Placed(t) /\ Covered(t)
      BY <1>1, <3>2, <3>4 DEF Placed, Covered, Named
    <3> QED BY <1>1, <3>2, <3>3, <3>4, <3>5, GoesKeeps
  <2> QED BY <2>1, <2>2
<1>5. CASE SignsApproval(i)
  <2>1. PICK t : t = [s EXCEPT !.step = "mining", !.pending = "approval"] OBVIOUS
  <2>2. s.step = "approving" /\ Goes(i, t) /\ UNCHANGED <<onChain, form, mount, changes, allowance>>
    BY <1>5, <2>1 DEF SignsApproval
  <2>3. t \in Submit BY <1>1, <2>1 DEF Submit, Steps, Txs
  <2>4. /\ t.step = "mining" /\ t.card = s.card /\ t.mount = s.mount /\ t.alone = s.alone
        /\ t.k = s.k /\ t.pending = "approval" /\ t.short = s.short /\ t.failed = s.failed
    BY <1>1, <2>1 DEF Submit
  <2>5. Placed(t) /\ Covered(t)
    BY <1>1, <2>2, <2>4 DEF Placed, Covered, Named
  <2> QED BY <1>1, <2>2, <2>3, <2>4, <2>5, GoesKeeps
<1>6. CASE SignsCall(i)
  <2>0. PICK b \in BOOLEAN : b = (allowance < Takes(s.row, Named(s)))
    <3>1. (allowance < Takes(s.row, Named(s))) \in BOOLEAN BY <1>1, <1>2
    <3> QED BY <3>1, Zenon
  <2>1. PICK t : t = [s EXCEPT !.step = "confirming", !.pending = "call", !.short = b]
    OBVIOUS
  <2>2. s.step = "sending" /\ Goes(i, t) /\ UNCHANGED <<onChain, form, mount, changes, allowance>>
    BY <1>6, <2>0, <2>1 DEF SignsCall
  <2>3. t \in Submit BY <1>1, <2>1 DEF Submit, Steps, Txs
  <2>4. /\ t.step = "confirming" /\ t.card = s.card /\ t.mount = s.mount /\ t.alone = s.alone
        /\ t.k = s.k /\ t.pending = "call" /\ t.failed = s.failed
        /\ t.short <=> allowance < Takes(s.row, Named(s))
    BY <1>1, <2>0, <2>1 DEF Submit
  <2>5. Placed(t) /\ Covered(t)
    BY <1>1, <1>2, <2>2, <2>4 DEF Placed, Covered, Named
  <2> QED BY <1>1, <2>2, <2>3, <2>4, <2>5, GoesKeeps
<1>7. CASE ApprovalMined(i)
  <2>1. PICK t : t = [s EXCEPT !.pending = "none"] OBVIOUS
  <2>2. /\ s.pending = "approval" /\ submits' = [submits EXCEPT ![i] = t] /\ UNCHANGED panel
        /\ allowance' = s.row[Named(s)[s.k]]
    BY <1>7, <2>1 DEF ApprovalMined
  <2>3. t \in Submit BY <1>1, <2>1 DEF Submit, Txs
  <2>4. /\ t.step = s.step /\ t.card = s.card /\ t.mount = s.mount /\ t.alone = s.alone
        /\ t.k = s.k /\ t.pending = "none" /\ t.short = s.short /\ t.failed = s.failed
        /\ t.row = s.row
    BY <1>1, <2>1 DEF Submit
  <2>5. s.k \in 1..Len(Named(s)) /\ s.step \in {"mining", "over"}
    BY <1>1, <1>2, <2>2 DEF Placed, Submit
  <2>6. allowance' \in Nat BY <1>2, <2>2, <2>5
  <2>7. Placed(t) /\ Covered(t)'
    BY <1>1, <2>2, <2>4, <2>5, <2>6 DEF Placed, Covered, Named, Amount
  <2> QED BY <1>1, <2>2, <2>3, <2>4, <2>6, <2>7, ChainKeeps
<1>8. CASE CallMined(i)
  <2>1. PICK t : t = [s EXCEPT !.pending = "none", !.called = "success"] OBVIOUS
  <2>2. /\ s.pending = "call" /\ submits' = [submits EXCEPT ![i] = t] /\ UNCHANGED panel
        /\ allowance >= Takes(s.row, Named(s)) /\ allowance' = allowance - Takes(s.row, Named(s))
    BY <1>8, <2>1 DEF CallMined
  <2>3. t \in Submit BY <1>1, <2>1 DEF Submit, Txs
  <2>4. /\ t.step = s.step /\ t.card = s.card /\ t.mount = s.mount /\ t.alone = s.alone
        /\ t.k = s.k /\ t.pending = "none" /\ t.short = s.short /\ t.failed = s.failed
    BY <1>1, <2>1 DEF Submit
  <2>5. s.step \in {"confirming", "over"} BY <1>1, <2>2 DEF Placed
  <2>6. allowance' \in Nat BY <1>1, <1>2, <2>2
  <2>7. Placed(t) /\ Covered(t)'
    BY <1>1, <2>4, <2>5 DEF Placed, Covered, Named
  <2> QED BY <1>1, <2>2, <2>3, <2>4, <2>6, <2>7, ChainKeeps
<1>9. CASE \E how \in {"reverted", "replaced"} : Undone(i, how)
  <2>7. PICK how \in {"reverted", "replaced"} : Undone(i, how) BY <1>9
  <2>1. PICK t : t = [s EXCEPT !.pending = "none",
                         !.called = IF s.pending = "call" THEN how ELSE @,
                         !.failed = @ \/ s.pending = "approval"]
    OBVIOUS
  <2>2. /\ s.pending # "none" /\ submits' = [submits EXCEPT ![i] = t]
        /\ UNCHANGED <<panel, allowance>>
    BY <2>1, <2>7 DEF Undone
  <2>3. t \in Submit BY <1>1, <2>1 DEF Submit, Txs
  <2>4. /\ t.step = s.step /\ t.card = s.card /\ t.mount = s.mount /\ t.alone = s.alone
        /\ t.k = s.k /\ t.pending = "none" /\ t.short = s.short
        /\ t.failed <=> s.failed \/ s.pending = "approval"
    BY <1>1, <2>1 DEF Submit
  <2>5. s.pending = "call" => s.step \in {"confirming", "over"}
    BY <1>1 DEF Placed
  <2>6. Placed(t) /\ Covered(t)'
    BY <1>1, <2>2, <2>4, <2>5 DEF Placed, Covered, Named, Submit, Txs
  <2> QED BY <1>1, <2>2, <2>3, <2>4, <2>6, ChainKeeps
<1>10. CASE ApprovalReceipt(i)
  <2>1. PICK t : t = Onward(s) OBVIOUS
  <2>2. /\ s.step = "mining" /\ s.pending = "none" /\ Goes(i, t)
        /\ UNCHANGED <<onChain, form, mount, changes, allowance>>
    BY <1>10, <2>1 DEF ApprovalReceipt
  <2>3. /\ t \in Submit /\ Placed(t) /\ Covered(t) /\ t.step \in {"checking", "sending"}
        /\ t.card = s.card /\ t.mount = s.mount /\ t.alone = s.alone /\ t.pending = "none"
    BY <1>1, <2>1, <2>2, OnwardGoes
  <2> QED BY <1>1, <2>2, <2>3, GoesKeeps
<1>11. CASE CallReceipt(i)
  <2>1. PICK t : t = [s EXCEPT !.step = "over"] OBVIOUS
  <2>2. /\ s.step = "confirming" /\ s.pending = "none" /\ Goes(i, t)
        /\ UNCHANGED <<onChain, form, mount, changes, allowance>>
    BY <1>11, <2>1 DEF CallReceipt
  <2>3. t \in Submit BY <1>1, <2>1 DEF Submit, Steps
  <2>4. /\ t.step = "over" /\ t.card = s.card /\ t.mount = s.mount /\ t.alone = s.alone
        /\ t.k = s.k /\ t.pending = s.pending /\ t.short = s.short /\ t.failed = s.failed
    BY <1>1, <2>1 DEF Submit
  <2>5. Placed(t) /\ Covered(t)
    BY <1>1, <2>2, <2>4 DEF Placed, Covered, Named
  <2> QED BY <1>1, <2>2, <2>3, <2>4, <2>5, GoesKeeps
<1>12. CASE Throws(i)
  <2>1. PICK t : t = [s EXCEPT !.step = "over"] OBVIOUS
  <2>2. /\ s.step # "over" /\ submits' = [submits EXCEPT ![i] = t]
        /\ UNCHANGED <<onChain, form, mount, changes, allowance>>
        /\ status' = IF s.mount = mount THEN [status EXCEPT ![s.card] = "error"] ELSE status
    BY <1>12, <2>1 DEF Throws
  <2>3. t \in Submit BY <1>1, <2>1 DEF Submit, Steps
  <2>4. /\ t.step = "over" /\ t.card = s.card /\ t.mount = s.mount /\ t.alone = s.alone
        /\ t.k = s.k /\ t.pending = s.pending /\ t.short = s.short /\ t.failed = s.failed
    BY <1>1, <2>1 DEF Submit
  <2>5. Placed(t)' /\ Covered(t)'
    BY <1>1, <2>2, <2>4 DEF Placed, Covered, Named
  <2>6. Told(i)'
    <3>1. submits'[i] = t /\ status \in [Cards -> Busy \union {"idle", "success", "error"}]
      BY <1>1, <2>2 DEF PanelInv
    <3> QED BY <2>2, <2>3, <2>4, <3>1 DEF Told, Submit
  <2>7. Running(s) BY <2>2 DEF Running
  <2> QED BY <1>1, <2>2, <2>3, <2>4, <2>5, <2>6, <2>7, MoveKeeps
<1> QED
  BY <1>3, <1>4, <1>5, <1>6, <1>7, <1>8, <1>9, <1>10, <1>11, <1>12

\* A click marks the submits that go on as overlapped, and starts one more.
LEMMA ClickKeeps ==
    ASSUME PanelInv, NEW c \in Cards, Click(c)
    PROVE  PanelInv'
<1> DEFINE n == Len(submits)
           marked == [i \in DOMAIN submits |->
                        [submits[i] EXCEPT !.alone = @ /\ ~Running(submits[i])]]
<1>1. /\ submits \in Seq(Submit) /\ n \in Nat /\ DOMAIN submits = 1..n
      /\ form \in [Cards -> Row] /\ mount \in 0..MaxRefreshes /\ allowance \in Nat
      /\ status \in [Cards -> Busy \union {"idle", "success", "error"}]
      /\ UNCHANGED <<onChain, form, mount, changes, allowance>>
  BY DEF PanelInv, Click
<1>2. PICK s : s = [card |-> c, mount |-> mount, row |-> form[c], step |-> "switching",
                    k |-> 0, pending |-> "none", called |-> "not",
                    alone |-> \A i \in DOMAIN submits : ~Running(submits[i]),
                    failed |-> FALSE, short |-> FALSE]
  OBVIOUS
<1>3. PICK t : t = IF onChain THEN Onward(s) ELSE s
  OBVIOUS
<1>4. /\ submits' = Append(marked, t) /\ status' = [status EXCEPT ![c] = Shown(t)]
      /\ status[c] \notin Busy
  BY <1>2, <1>3 DEF Click
<1>5. /\ s \in Submit /\ s.card = c /\ s.mount = mount /\ s.step = "switching" /\ s.k = 0
      /\ s.pending = "none" /\ ~s.short
      /\ s.alone <=> \A i \in DOMAIN submits : ~Running(submits[i])
  <2>1. PICK b \in BOOLEAN : b = \A i \in DOMAIN submits : ~Running(submits[i])
    OBVIOUS
  <2>2. s = [card |-> c, mount |-> mount, row |-> form[c], step |-> "switching",
             k |-> 0, pending |-> "none", called |-> "not", alone |-> b,
             failed |-> FALSE, short |-> FALSE]
    BY <1>2, <2>1
  <2>3. form[c] \in Row BY <1>1
  <2>4. s \in Submit BY <1>1, <2>2, <2>3 DEF Submit, Steps, Txs
  <2> QED BY <2>1, <2>2, <2>4
<1>6. Placed(s) /\ Covered(s)
  BY <1>1, <1>5, NamedTyped DEF Placed, Covered
<1>7. /\ t \in Submit /\ Placed(t) /\ Covered(t) /\ t.card = c /\ t.alone = s.alone
      /\ t.step \in {"switching", "checking", "sending"}
  BY <1>1, <1>3, <1>5, <1>6, OnwardGoes
<1>8. \A i \in 1..n : /\ marked[i] \in Submit /\ marked[i].card = submits[i].card
                      /\ marked[i].mount = submits[i].mount /\ marked[i].row = submits[i].row
                      /\ marked[i].step = submits[i].step /\ marked[i].k = submits[i].k
                      /\ marked[i].pending = submits[i].pending
                      /\ marked[i].called = submits[i].called
                      /\ marked[i].failed = submits[i].failed
                      /\ marked[i].short = submits[i].short
                      /\ marked[i].alone <=> submits[i].alone /\ ~Running(submits[i])
  <2> SUFFICES ASSUME NEW i \in 1..n
               PROVE  /\ marked[i] \in Submit /\ marked[i].card = submits[i].card
                      /\ marked[i].mount = submits[i].mount /\ marked[i].row = submits[i].row
                      /\ marked[i].step = submits[i].step /\ marked[i].k = submits[i].k
                      /\ marked[i].pending = submits[i].pending
                      /\ marked[i].called = submits[i].called
                      /\ marked[i].failed = submits[i].failed
                      /\ marked[i].short = submits[i].short
                      /\ marked[i].alone <=> submits[i].alone /\ ~Running(submits[i])
    OBVIOUS
  <2>1. submits[i] \in Submit BY <1>1
  <2>2. PICK b \in BOOLEAN : b = (submits[i].alone /\ ~Running(submits[i]))
    OBVIOUS
  <2>3. marked[i] = [submits[i] EXCEPT !.alone = b]
    BY <1>1, <2>2
  <2> HIDE DEF marked
  <2> QED BY <2>1, <2>2, <2>3 DEF Submit
<1>9. marked \in Seq(Submit) /\ Len(marked) = n
  <2>1. DOMAIN marked = 1..n BY <1>1
  <2>2. marked \in [1..n -> Submit] BY <1>1, <1>8
  <2> QED BY <1>1, <2>2
<1> HIDE DEF marked
<1>10. /\ submits' \in Seq(Submit) /\ DOMAIN submits' = 1..(n + 1)
       /\ submits'[n + 1] = t /\ \A i \in 1..n : submits'[i] = marked[i]
  BY <1>1, <1>4, <1>7, <1>9
<1>11. /\ Shown(t) \in Busy \union {"idle", "success", "error"}
       /\ t.step # "switching" => Shown(t) # "success"
  BY <1>1, <1>7 DEF Shown, Busy
<1>12. status' \in [Cards -> Busy \union {"idle", "success", "error"}]
  BY <1>1, <1>4, <1>11
<1>13. Apart'
  <2> SUFFICES ASSUME NEW i \in 1..(n + 1), NEW j \in 1..(n + 1), submits'[i].alone,
                      j < i \/ (j # i /\ Running(submits'[i])), Running(submits'[j])
               PROVE  FALSE
    BY <1>10 DEF Apart, Running
  <2>1. \A a \in 1..n : Running(submits'[a]) <=> Running(submits[a])
    BY <1>8, <1>10 DEF Running
  <2>2. CASE i = n + 1
    BY <1>1, <1>5, <1>7, <1>10, <2>1, <2>2
  <2>3. CASE i # n + 1
    <3>1. i \in 1..n /\ submits[i].alone /\ ~Running(submits[i])
      BY <1>1, <1>8, <1>10, <2>3
    <3>2. j < i /\ j \in 1..n BY <1>1, <2>1, <3>1
    <3> QED BY <1>1, <2>1, <3>1, <3>2 DEF PanelInv, Apart
  <2> QED BY <2>2, <2>3
<1>14. ASSUME NEW i \in 1..n PROVE (Placed(submits[i]) /\ Covered(submits[i]) /\ Told(i))'
  <2>1. Placed(submits[i]) /\ Covered(submits[i]) /\ Told(i)
    BY <1>1 DEF PanelInv
  <2>2. Placed(submits[i])'
    BY <1>1, <1>8, <1>10, <2>1 DEF Placed, Named
  <2>3. Covered(submits[i])'
    BY <1>1, <1>8, <1>10, <2>1 DEF Covered, Named, Amount
  <2>4. Told(i)'
    <3> SUFFICES ASSUME submits'[i].alone, submits'[i].mount = mount,
                        status'[submits'[i].card] = "success", submits'[i].step # "switching",
                        \A j \in 1..(n + 1) : j > i => submits'[j].card # submits'[i].card
                 PROVE  /\ submits'[i].step = "over"
                        /\ submits'[i].called \in {"success", "replaced"}
                        /\ submits'[i].pending = "none"
      BY <1>1, <1>10 DEF Told
    <3>0. \A j \in 1..n : submits'[j].card = submits[j].card /\ j \in 1..(n + 1)
      BY <1>1, <1>8, <1>10
    <3>1. submits[i].card # c
      <4>1. n + 1 \in 1..(n + 1) /\ n + 1 > i /\ submits'[n + 1].card = c
        BY <1>1, <1>7, <1>10
      <4> QED BY <3>0, <4>1
    <3>2. status[submits[i].card] = "success"
      <4>1. submits'[i].card = submits[i].card BY <3>0
      <4>2. status'[submits[i].card] = status[submits[i].card]
        BY ONLY <1>1, <1>4, <3>1
      <4> QED BY <4>1, <4>2
    <3>3. \A j \in 1..n : j > i => submits[j].card # submits[i].card
      BY <3>0
    <3> QED BY <1>1, <1>8, <1>10, <2>1, <3>2, <3>3 DEF Told
  <2> QED BY <2>2, <2>3, <2>4
<1>15. ASSUME NEW i \in 1..(n + 1), i = n + 1
       PROVE  (Placed(submits[i]) /\ Covered(submits[i]) /\ Told(i))'
  <2>1. submits'[i] = t /\ t.card \in Cards BY <1>7, <1>10, <1>15
  <2>2. Placed(submits[i])' BY <1>1, <1>7, <2>1 DEF Placed, Named
  <2>3. Covered(submits[i])' BY <1>1, <1>7, <2>1 DEF Covered, Named, Amount
  <2>4. Told(i)' BY <1>1, <1>4, <1>7, <1>11, <2>1 DEF Told
  <2> QED BY <2>2, <2>3, <2>4
<1>16. ASSUME NEW i \in 1..(n + 1)
       PROVE  (Placed(submits[i]) /\ Covered(submits[i]) /\ Told(i))'
  <2>1. i = n + 1 \/ i \in 1..n BY <1>1
  <2> QED BY <1>14, <1>15, <2>1
<1>17. onChain' \in BOOLEAN /\ changes' \in 0..MaxChanges /\ allowance' \in Nat
  BY <1>1 DEF PanelInv
<1> QED BY <1>1, <1>10, <1>12, <1>13, <1>16, <1>17 DEF PanelInv

-----------------------------------------------------------------------------
\* The invariant of the panel holds from its first schema on.
THEOREM PanelInvAlways == PanelSpec => []PanelInv
<1>1. PanelInit => PanelInv
  <2> SUFFICES ASSUME PanelInit PROVE PanelInv
    OBVIOUS
  <2>1. submits = <<>> /\ submits \in Seq(Submit) /\ DOMAIN submits = {}
    BY DEF PanelInit
  <2>2. allowance \in Nat /\ mount \in 0..MaxRefreshes /\ changes \in 0..MaxChanges
    BY VaultPanelAssumption DEF PanelInit
  <2>3. Apart BY <2>1 DEF Apart
  <2> QED BY <2>1, <2>2, <2>3 DEF PanelInit, PanelInv, Busy
<1>2. PanelInv /\ [PanelNext]_panelVars => PanelInv'
  <2> SUFFICES ASSUME PanelInv, [PanelNext]_panelVars PROVE PanelInv'
    OBVIOUS
  <2>1. ASSUME NEW c \in Cards, Click(c) PROVE PanelInv'
    BY <2>1, ClickKeeps
  <2>2. ASSUME NEW c \in Cards, NEW r \in Row, Edit(c, r) PROVE PanelInv'
    <3>1. /\ changes' \in 0..MaxChanges /\ form' \in [Cards -> Row]
          /\ UNCHANGED <<onChain, status, mount, submits, allowance>>
      BY <2>2, VaultPanelAssumption DEF Edit, PanelInv
    <3> QED BY <3>1 DEF PanelInv, Placed, Covered, Told, Apart, Named, Amount
  <2>3. ASSUME NEW i \in DOMAIN submits,
               \/ Switched(i) \/ ReadsAllowance(i) \/ SignsApproval(i) \/ SignsCall(i)
               \/ ApprovalMined(i) \/ CallMined(i)
               \/ \E how \in {"reverted", "replaced"} : Undone(i, how)
               \/ ApprovalReceipt(i) \/ CallReceipt(i) \/ Throws(i)
        PROVE  PanelInv'
    BY <2>3, SubmitKeeps
  <2>4. CASE ChainChanges
    <3>1. /\ changes' \in 0..MaxChanges /\ onChain' \in BOOLEAN
          /\ UNCHANGED <<form, status, mount, submits, allowance>>
      BY <2>4, VaultPanelAssumption DEF ChainChanges, PanelInv
    <3> QED BY <3>1 DEF PanelInv, Placed, Covered, Told, Apart, Named, Amount
  <2>5. CASE Refresh
    <3>1. /\ mount' = mount + 1 /\ mount' \in 0..MaxRefreshes /\ mount \in Nat
          /\ form' \in [Cards -> Row]
          /\ status' \in [Cards -> Busy \union {"idle", "success", "error"}]
          /\ UNCHANGED <<onChain, changes, submits, allowance>>
      BY <2>5, VaultPanelAssumption DEF Refresh, PanelInv
    <3>2. \A i \in DOMAIN submits : submits[i] \in Submit BY DEF PanelInv
    <3>3. \A i \in DOMAIN submits : Placed(submits[i])' /\ ~(submits[i].mount = mount')
      BY <3>1, <3>2 DEF PanelInv, Placed, Named, Submit
    <3>4. \A i \in DOMAIN submits : Covered(submits[i])' /\ Told(i)'
      BY <3>1, <3>3 DEF PanelInv, Covered, Told, Named, Amount
    <3>5. Apart' BY <3>1 DEF PanelInv, Apart
    <3> QED BY <3>1, <3>3, <3>4, <3>5 DEF PanelInv
  <2>6. CASE UNCHANGED panelVars
    BY <2>6 DEF panelVars, panel, PanelInv, Placed, Covered, Told, Apart,
       Named, Amount
  <2> QED BY <2>1, <2>2, <2>3, <2>4, <2>5, <2>6 DEF PanelNext
<1> QED BY <1>1, <1>2, PTL DEF PanelSpec

\* No allowance falls below zero, and a submit is where the code can bring it.
THEOREM PanelTypes == PanelSpec => []PanelTypeOK
<1>1. PanelInv => PanelTypeOK BY DEF PanelInv, PanelTypeOK, Submit
<1> QED BY <1>1, PanelInvAlways, PTL

\* SoleSubmitIsCovered, for any methods with any approvals, and any number of
\* clicks, edits, prompts and reloads.
THEOREM SoleSubmitsAreCovered == PanelSpec => []SoleSubmitIsCovered
<1>1. PanelInv => SoleSubmitIsCovered
  BY DEF PanelInv, SoleSubmitIsCovered, Covered
<1> QED BY <1>1, PanelInvAlways, PTL

\* SuccessIsTheLast: what a card shows of its last submit is what the chain did.
THEOREM SuccessesAreTheLast == PanelSpec => []SuccessIsTheLast
<1>1. PanelInv => SuccessIsTheLast
  BY DEF PanelInv, SuccessIsTheLast, Told
<1> QED BY <1>1, PanelInvAlways, PTL
=============================================================================
