---------------------------- MODULE AccountsProofs ----------------------------
(***************************************************************************)
(* Sessions and owners, for any wallets, chats, lifetimes and caps: a      *)
(* session was earned with a nonce of its own, a chat that was made under  *)
(* a session stays its wallet's, and a late sign-in does not change who    *)
(* the page is.                                                            *)
(***************************************************************************)
EXTENDS Accounts, FiniteSetTheorems, WellFoundedInduction, TLAPS

\* A number is issued once; a nonce that gave a session is no longer pending.
NoncesInv ==
    /\ \A n \in nonces : n.nonce \in 1..issued
    /\ \A m, n \in nonces : m.nonce = n.nonce => m = n
    /\ \A t \in minted :
           /\ t.nonce \in 1..issued
           /\ \A n \in nonces : n.nonce # t.nonce

\* A sign-in that waits for its user's row was proven by its wallet, in time,
\* with a nonce that is nobody else's any more.
ProvenInv ==
    \A i \in DOMAIN flows :
        flows[i].step = "issue" =>
            /\ flows[i].nonce \in 1..issued
            /\ flows[i].signer = flows[i].wallet
            /\ flows[i].provenAt < flows[i].issuedAt + NonceTtl
            /\ flows[i].provenAt <= now
            /\ \A n \in nonces : n.nonce # flows[i].nonce
            /\ \A t \in minted : t.nonce # flows[i].nonce
            /\ \A j \in DOMAIN flows :
                   flows[j].step = "issue" /\ flows[j].nonce = flows[i].nonce => j = i

\* A sign-in holds a session of its own wallet, and is cancelled once another
\* wallet is connected.
FlowsInv ==
    \A i \in DOMAIN flows :
        /\ flows[i].token \in minted \union {None}
        /\ flows[i].step = "answer" => flows[i].token \in minted
        /\ flows[i].token # None => flows[i].token.wallet = flows[i].wallet
        /\ ~flows[i].cancelled => flows[i].wallet = wallet

\* The page knows of chats that were made, each by one request, and a claim
\* that found a chat anonymous is of a chat that was made anonymous.
ChatsInv ==
    /\ \A c \in anon : born[c] # NoChat
    /\ \A m \in making : m.made <=> born[m.chat] # NoChat
    /\ \A m, n \in making : m.chat = n.chat => m = n
    /\ \A o \in opening : born[o.chat] # NoChat
    /\ \A c \in claims : /\ born[c.chat] # NoChat
                         /\ c.read => born[c.chat] \notin Wallets

IInv ==
    /\ TypeOK
    /\ NoncesInv
    /\ ProvenInv
    /\ FlowsInv
    /\ ChatsInv
    /\ SessionsAreProven
    /\ BornOwnedStays

-----------------------------------------------------------------------------
(* The operators of the model *)

\* Of some numbers there is a least one.
LEMMA LeastNumber ==
    ASSUME NEW T, T \subseteq Nat, T # {}
    PROVE  \E k \in T : \A j \in T : k <= j
<1>1. IsWellFoundedOn(OpToRel(<, Nat), Nat) BY NatLessThanWellFounded
<1>2. PICK k \in T : \A j \in T : ~(<<j, k>> \in OpToRel(<, Nat))
  BY <1>1, WFMin
<1>3. \A j \in T : ~(j < k)
  <2> SUFFICES ASSUME NEW j \in T, j < k PROVE FALSE
    OBVIOUS
  <2>1. <<j, k>> \in Nat \X Nat OBVIOUS
  <2>2. <<j, k>> \in OpToRel(<, Nat) BY <2>1 DEF OpToRel
  <2> QED BY <1>2, <2>2
<1> QED BY <1>3

\* Pruning leaves room for one nonce under the cap: the oldest it keeps has
\* all the others among its younger ones.
LEMMA PrunedFits ==
    ASSUME TypeOK, NoncesInv
    PROVE  /\ Pruned \subseteq nonces /\ IsFiniteSet(Pruned)
           /\ Cardinality(Pruned) <= MaxPending - 1
<1>1. IsFiniteSet(nonces) /\ nonces \subseteq Nonces BY DEF TypeOK
<1>2. Pruned \subseteq Fresh /\ Fresh \subseteq nonces BY DEF Pruned, Fresh
<1>3. IsFiniteSet(Pruned) BY <1>1, <1>2, FS_Subset
<1>4. MaxPending \in Nat \ {0} BY AccountsAssumption
<1>5. CASE Pruned = {} BY <1>2, <1>3, <1>4, <1>5, FS_EmptySet
<1>6. CASE Pruned # {}
  <2> DEFINE T == {n.nonce : n \in Pruned}
  <2>1. T \subseteq Nat /\ T # {} BY <1>1, <1>2, <1>6 DEF Nonces
  <2>2. PICK k \in T : \A j \in T : k <= j BY <2>1, LeastNumber
  <2>3. PICK n0 \in Pruned : n0.nonce = k BY <2>2
  <2>4. Pruned \ {n0} \subseteq Younger(n0)
    <3> SUFFICES ASSUME NEW m \in Pruned, m # n0 PROVE m \in Younger(n0)
      OBVIOUS
    <3>1. m.nonce # n0.nonce BY <1>2 DEF NoncesInv
    <3>2. m.nonce \in Nat /\ n0.nonce \in Nat BY <1>1, <1>2 DEF Nonces
    <3>3. n0.nonce <= m.nonce BY <2>2, <2>3
    <3>4. m.nonce > n0.nonce BY <3>1, <3>2, <3>3
    <3> QED BY <1>2, <3>4 DEF Younger
  <2>5. Younger(n0) \subseteq nonces BY <1>2 DEF Younger
  <2>6. IsFiniteSet(Younger(n0)) BY <1>1, <2>5, FS_Subset
  <2>7. Cardinality(Pruned \ {n0}) <= Cardinality(Younger(n0))
    BY <2>4, <2>6, FS_Subset
  <2>8. Cardinality(Pruned \ {n0}) = Cardinality(Pruned) - 1
    BY <1>3, FS_RemoveElement
  <2>9. Cardinality(Younger(n0)) < MaxPending - 1 BY DEF Pruned
  <2>10. Cardinality(Pruned) \in Nat /\ Cardinality(Younger(n0)) \in Nat
    BY <1>3, <2>6, FS_CardinalityType
  <2> QED BY <1>2, <1>3, <1>4, <2>7, <2>8, <2>9, <2>10
<1> QED BY <1>5, <1>6

\* The one pending nonce that proves a sign-in is its wallet's and not expired.
LEMMA ProvenNonce ==
    ASSUME TypeOK, NoncesInv, NEW f \in Flows, Proves(f)
    PROVE  LET at == (CHOOSE n \in nonces : n.nonce = f.nonce).at
           IN  /\ at \in Nat /\ now < at + NonceTtl
               /\ f.signer = f.wallet
               /\ \E n \in nonces : n.nonce = f.nonce
<1>1. PICK n \in nonces : /\ n.nonce = f.nonce
                          /\ ~Expired(n)
                          /\ n.wallet = f.wallet
                          /\ f.signer = f.wallet
  BY DEF Proves
<1>2. (CHOOSE m \in nonces : m.nonce = f.nonce) = n
  BY <1>1 DEF NoncesInv
<1>3. n \in Nonces /\ now \in Nat BY <1>1 DEF TypeOK
<1>4. n.at \in Nat BY <1>3 DEF Nonces
<1>5. NonceTtl \in Nat BY AccountsAssumption
<1>6. now < n.at + NonceTtl BY <1>1, <1>3, <1>4, <1>5 DEF Expired
<1> QED BY <1>1, <1>2, <1>4, <1>6

\* The session of a sign-in that waits for its user's row is what was proven.
LEMMA ProvenToken ==
    ASSUME TypeOK, ProvenInv, NEW i \in DOMAIN flows, flows[i].step = "issue"
    PROVE  LET t == Token(flows[i])
           IN  /\ t \in Tokens
               /\ t.wallet = flows[i].wallet /\ t.signer = flows[i].wallet
               /\ t.nonce = flows[i].nonce
               /\ t.provenAt < t.issuedAt + NonceTtl
               /\ t.provenAt + SessionTtl <= t.expires
<1> DEFINE f == flows[i]
           t == Token(f)
<1>1. f \in Flows /\ now \in Nat /\ secret \in Nat BY DEF TypeOK
<1>2. SessionTtl \in Nat BY AccountsAssumption
<1>3. /\ f.wallet \in Wallets /\ f.nonce \in Nat
      /\ f.issuedAt \in Nat /\ f.provenAt \in Nat
  BY <1>1 DEF Flows
<1>4. f.signer = f.wallet /\ f.provenAt < f.issuedAt + NonceTtl /\ f.provenAt <= now
  BY DEF ProvenInv
<1>5. /\ t.wallet = f.wallet /\ t.nonce = f.nonce /\ t.signer = f.signer
      /\ t.issuedAt = f.issuedAt /\ t.provenAt = f.provenAt
      /\ t.expires = now + SessionTtl
  BY DEF Token
<1>6. t \in Tokens BY <1>1, <1>2, <1>3, <1>4 DEF Token, Tokens
<1>7. f.provenAt + SessionTtl <= now + SessionTtl BY <1>1, <1>2, <1>3, <1>4
<1> QED BY <1>4, <1>5, <1>6, <1>7

\* The fields of a sign-in that its steps change keep their types.
LEMMA FlowTypes ==
    ASSUME NEW f \in Flows
    PROVE  /\ [f EXCEPT !.step = "over"] \in Flows
           /\ [f EXCEPT !.step = "claim"] \in Flows
           /\ [f EXCEPT !.step = "over", !.cancelled = TRUE] \in Flows
           /\ [f EXCEPT !.cancelled = TRUE] \in Flows
           /\ \A k \in Nat : [f EXCEPT !.step = "sign", !.nonce = k] \in Flows
           /\ \A w \in Wallets : [f EXCEPT !.step = "connect", !.signer = w] \in Flows
           /\ [f EXCEPT !.step = "connect"] \in Flows
           /\ \A k, l \in Nat : [f EXCEPT !.step = "issue", !.provenAt = k,
                                           !.issuedAt = l] \in Flows
           /\ \A t \in Tokens : [f EXCEPT !.step = "answer", !.token = t] \in Flows
<1>1. [f EXCEPT !.step = "over"] \in Flows BY DEF Flows
<1>2. [f EXCEPT !.step = "claim"] \in Flows BY DEF Flows
<1>3. [f EXCEPT !.step = "over", !.cancelled = TRUE] \in Flows BY DEF Flows
<1>4. [f EXCEPT !.cancelled = TRUE] \in Flows BY DEF Flows
<1>5. \A k \in Nat : [f EXCEPT !.step = "sign", !.nonce = k] \in Flows
  BY DEF Flows
<1>6. \A w \in Wallets : [f EXCEPT !.step = "connect", !.signer = w] \in Flows
  BY DEF Flows
<1>7. \A t \in Tokens : [f EXCEPT !.step = "answer", !.token = t] \in Flows
  BY DEF Flows
<1>8. [f EXCEPT !.step = "connect"] \in Flows BY DEF Flows
<1>9. \A k, l \in Nat :
         [f EXCEPT !.step = "issue", !.provenAt = k, !.issuedAt = l] \in Flows
  BY DEF Flows
<1> QED BY <1>1, <1>2, <1>3, <1>4, <1>5, <1>6, <1>7, <1>8, <1>9

\* A step of sign-in i changes nothing of the others.
LEMMA AdvanceKeeps ==
    ASSUME flows \in Seq(Flows), NEW i \in DOMAIN flows, NEW f \in Flows,
           Advance(i, f)
    PROVE  /\ flows' \in Seq(Flows)
           /\ DOMAIN flows' = DOMAIN flows
           /\ flows'[i] = f
           /\ \A j \in DOMAIN flows : j # i => flows'[j] = flows[j]
<1>1. flows' = [flows EXCEPT ![i] = f] BY DEF Advance
<1>2. flows' \in Seq(Flows) BY <1>1
<1> QED BY <1>1, <1>2

\* The sign-ins after the effect ran for w: the ones before it, and for a
\* wallet a new one, without a session.
LEMMA EffectFlows ==
    ASSUME TypeOK, NEW w \in Wallets \union {None}, NEW before \in Seq(Flows),
           Len(before) = Len(flows), Effect(w, before)
    PROVE  /\ flows' \in Seq(Flows)
           /\ \A i \in DOMAIN before : i \in DOMAIN flows' /\ flows'[i] = before[i]
           /\ \A i \in DOMAIN flows' :
                 i \in DOMAIN before \/
                     /\ flows'[i].wallet = w /\ flows'[i].token = None
                     /\ flows'[i].step # "answer" /\ flows'[i].step # "issue"
           /\ user' \in {user, None}
           /\ claims' \in SUBSET Claims
           /\ \A c \in claims' : c \in claims \/ (c.chat \in anon /\ c.read = FALSE)
<1>1. CASE w = None
  BY <1>1 DEF Effect, TypeOK
<1>2. CASE w # None
  <2>1. w \in Wallets BY <1>2
  <2>2. ASignIn(w) \in Flows
    BY <2>1 DEF ASignIn, Flows
  <2>3. Reuse(w) \in Flows /\ Reuse(w).wallet = w /\ Reuse(w).token = None
        /\ Reuse(w).step \notin {"answer", "issue"}
    <3>1. /\ [ASignIn(w) EXCEPT !.step = "over"] \in Flows
          /\ [ASignIn(w) EXCEPT !.step = "claim"] \in Flows
      BY <2>2, FlowTypes
    <3>2. Reuse(w) \in Flows BY <3>1 DEF Reuse
    <3> QED BY <3>2 DEF Reuse, ASignIn
  <2>4. ASignIn(w).wallet = w /\ ASignIn(w).token = None
        /\ ASignIn(w).step \notin {"answer", "issue"}
    BY DEF ASignIn
  <2>5. PICK f \in Flows : /\ flows' = Append(before, f)
                           /\ f.wallet = w /\ f.token = None
                           /\ f.step \notin {"answer", "issue"}
    BY <1>2, <2>2, <2>3, <2>4 DEF Effect
  <2>6. flows' \in Seq(Flows) /\ Len(flows') = Len(before) + 1
        /\ flows'[Len(before) + 1] = f
        /\ \A i \in 1..Len(before) : flows'[i] = before[i]
    BY <2>5
  <2>7. DOMAIN before = 1..Len(before) /\ DOMAIN flows' = 1..Len(flows')
        /\ Len(before) \in Nat
    BY <2>6
  <2>8. user' = user BY <1>2 DEF Effect
  <2>9. claims' \in SUBSET Claims
        /\ \A c \in claims' : c \in claims \/ (c.chat \in anon /\ c.read = FALSE)
    <3>1. CASE user # None /\ user.wallet = w
      <4>1. user \in Tokens BY <3>1 DEF TypeOK
      <4>2. Len(flows) + 1 \in Nat BY DEF TypeOK
      <4>3. ClaimsOf(Len(flows) + 1, user) \in SUBSET Claims
        BY <4>1, <4>2 DEF ClaimsOf, Claims, TypeOK
      <4>4. claims' = claims \union ClaimsOf(Len(flows) + 1, user)
        BY <1>2, <3>1 DEF Effect
      <4> QED BY <4>3, <4>4 DEF ClaimsOf, TypeOK
    <3>2. CASE ~(user # None /\ user.wallet = w)
      BY <1>2, <3>2 DEF Effect, TypeOK
    <3> QED BY <3>1, <3>2
  <2> QED BY <2>5, <2>6, <2>7, <2>8, <2>9
<1> QED BY <1>1, <1>2

\* The sign-ins after the effect ran, one by one.
LEMMA AfterEffect ==
    ASSUME TypeOK, NEW w \in Wallets \union {None}, NEW before \in Seq(Flows),
           Len(before) = Len(flows), Effect(w, before), NEW i \in DOMAIN flows'
    PROVE  \/ i \in DOMAIN before /\ flows'[i] = before[i]
           \/ /\ i \notin DOMAIN before
              /\ flows'[i].wallet = w /\ flows'[i].token = None
              /\ flows'[i].step # "answer" /\ flows'[i].step # "issue"
<1>1. CASE i \in DOMAIN before BY <1>1, EffectFlows
<1>2. CASE i \notin DOMAIN before
  <2>1. \A j \in DOMAIN flows' :
           j \in DOMAIN before \/
               /\ flows'[j].wallet = w /\ flows'[j].token = None
               /\ flows'[j].step # "answer" /\ flows'[j].step # "issue"
    BY EffectFlows
  <2> QED BY <1>2, <2>1
<1> QED BY <1>1, <1>2

\* What an effect's cleanup leaves of the sign-ins before it.
LEMMA Leftovers ==
    ASSUME TypeOK
    PROVE  /\ AllOver \in Seq(Flows) /\ Len(AllOver) = Len(flows)
           /\ AllCancelled \in Seq(Flows) /\ Len(AllCancelled) = Len(flows)
           /\ DOMAIN AllOver = DOMAIN flows /\ DOMAIN AllCancelled = DOMAIN flows
           /\ \A i \in DOMAIN flows :
                 /\ AllOver[i].cancelled /\ AllCancelled[i].cancelled
                 /\ AllOver[i].step \notin {"answer", "issue"}
                 /\ AllCancelled[i].step = flows[i].step
                 /\ AllCancelled[i].nonce = flows[i].nonce
                 /\ AllCancelled[i].signer = flows[i].signer
                 /\ AllCancelled[i].issuedAt = flows[i].issuedAt
                 /\ AllCancelled[i].provenAt = flows[i].provenAt
                 /\ AllOver[i].wallet = flows[i].wallet
                 /\ AllCancelled[i].wallet = flows[i].wallet
                 /\ AllOver[i].token = flows[i].token
                 /\ AllCancelled[i].token = flows[i].token
<1>1. flows \in Seq(Flows) /\ DOMAIN flows = 1..Len(flows) /\ Len(flows) \in Nat
  BY DEF TypeOK
<1>2. \A i \in DOMAIN flows : flows[i] \in Flows BY <1>1
<1>3. \A i \in DOMAIN flows : /\ [flows[i] EXCEPT !.step = "over", !.cancelled = TRUE] \in Flows
                              /\ [flows[i] EXCEPT !.cancelled = TRUE] \in Flows
  BY <1>2, FlowTypes
<1>4. AllOver \in Seq(Flows) /\ Len(AllOver) = Len(flows)
  <2>1. AllOver \in [1..Len(flows) -> Flows] BY <1>1, <1>3 DEF AllOver
  <2> QED BY <1>1, <2>1
<1>5. AllCancelled \in Seq(Flows) /\ Len(AllCancelled) = Len(flows)
  <2>1. AllCancelled \in [1..Len(flows) -> Flows] BY <1>1, <1>3 DEF AllCancelled
  <2> QED BY <1>1, <2>1
<1>6. ASSUME NEW i \in DOMAIN flows
      PROVE  /\ AllOver[i].cancelled /\ AllCancelled[i].cancelled
             /\ AllOver[i].step \notin {"answer", "issue"}
             /\ AllCancelled[i].step = flows[i].step
             /\ AllCancelled[i].nonce = flows[i].nonce
             /\ AllCancelled[i].signer = flows[i].signer
             /\ AllCancelled[i].issuedAt = flows[i].issuedAt
             /\ AllCancelled[i].provenAt = flows[i].provenAt
             /\ AllOver[i].wallet = flows[i].wallet
             /\ AllCancelled[i].wallet = flows[i].wallet
             /\ AllOver[i].token = flows[i].token
             /\ AllCancelled[i].token = flows[i].token
  BY <1>2, <1>6 DEF AllOver, AllCancelled, Flows
<1> QED BY <1>4, <1>5, <1>6 DEF AllOver, AllCancelled

-----------------------------------------------------------------------------
(* Steps *)

\* A nonce comes when it is asked for and a session when it is issued;
\* otherwise nonces only go.
LEMMA NonceSteps ==
    ASSUME [Next]_vars
    PROVE  \/ \E i \in DOMAIN flows : AskNonce(i) \/ Issue(i)
           \/ nonces' \subseteq nonces /\ UNCHANGED <<issued, minted>>
<1>1. ASSUME NEW w \in Wallets \union {None}, WalletChanges(w)
      PROVE  UNCHANGED <<nonces, issued, minted>>
  BY <1>1 DEF WalletChanges, server
<1>2. CASE Reload BY <1>2 DEF Reload, server
<1>3. CASE Tick BY <1>3 DEF Tick, server
<1>4. CASE Restart BY <1>4 DEF Restart
<1>5. ASSUME NEW i \in DOMAIN flows,
             Sign(i) \/ Connect(i) \/ ConnectRefused(i) \/ Declined(i)
             \/ SignInLost(i) \/ SignedIn(i) \/ Settled(i)
      PROVE  nonces' \subseteq nonces /\ UNCHANGED <<issued, minted>>
  BY <1>5 DEF Sign, Connect, ConnectRefused, Declined, SignInLost, SignedIn,
     Settled, server, Without
<1>6. ASSUME NEW c \in claims, ClaimRead(c) \/ ClaimWrite(c) \/ ClaimLost(c)
      PROVE  UNCHANGED <<nonces, issued, minted>>
  BY <1>6 DEF ClaimRead, ClaimWrite, ClaimLost, server
<1>7. ASSUME NEW c \in Chats, Make(c) \/ Open(c)
      PROVE  UNCHANGED <<nonces, issued, minted>>
  BY <1>7 DEF Make, Open, server
<1>8. ASSUME NEW m \in making, MakeServed(m) \/ MakeAnswered(m)
      PROVE  UNCHANGED <<nonces, issued, minted>>
  BY <1>8 DEF MakeServed, MakeAnswered, server
<1>9. ASSUME NEW o \in opening, Opened(o)
      PROVE  UNCHANGED <<nonces, issued, minted>>
  BY <1>9 DEF Opened, server
<1>10. CASE UNCHANGED vars BY <1>10 DEF vars, server
<1> QED BY <1>1, <1>2, <1>3, <1>4, <1>5, <1>6, <1>7, <1>8, <1>9, <1>10 DEF Next

\* No step forges, renumbers or doubles a nonce, and none overfills the
\* table.
LEMMA NoncesStep ==
    ASSUME TypeOK, NoncesInv, ProvenInv, [Next]_vars
    PROVE  NoncesInv'
<1>1. ASSUME NEW i \in DOMAIN flows, AskNonce(i) PROVE NoncesInv'
  <2>1. Pruned \subseteq nonces BY PrunedFits
  <2>2. issued \in Nat BY DEF TypeOK
  <2> DEFINE new == [nonce |-> issued + 1, wallet |-> flows[i].wallet, at |-> now]
  <2>3. /\ nonces' = Pruned \union {new}
        /\ issued' = issued + 1 /\ minted' = minted
    BY <1>1 DEF AskNonce
  <2>4. new.nonce = issued + 1 OBVIOUS
  <2> HIDE DEF new
  <2>5. \A n \in nonces : n.nonce \in 1..issued BY DEF NoncesInv
  <2>6. \A t \in minted : t.nonce \in 1..issued BY DEF NoncesInv
  <2>7. issued + 1 \notin 1..issued /\ issued + 1 \in 1..(issued + 1)
        /\ 1..issued \subseteq 1..(issued + 1)
    BY <2>2
  <2>8. \A n \in nonces' : n.nonce \in 1..issued'
    BY <2>1, <2>3, <2>4, <2>5, <2>7
  <2>9. \A m, n \in nonces' : m.nonce = n.nonce => m = n
    BY <2>1, <2>3, <2>4, <2>5, <2>7 DEF NoncesInv
  <2>10. \A t \in minted' : /\ t.nonce \in 1..issued'
                            /\ \A n \in nonces' : n.nonce # t.nonce
    BY <2>1, <2>3, <2>4, <2>6, <2>7 DEF NoncesInv
  <2> QED BY <2>8, <2>9, <2>10 DEF NoncesInv
<1>2. ASSUME NEW i \in DOMAIN flows, Issue(i) PROVE NoncesInv'
  <2>1. flows[i].step = "issue" BY <1>2 DEF Issue
  <2>2. Token(flows[i]).nonce = flows[i].nonce BY <2>1, ProvenToken
  <2>3. /\ flows[i].nonce \in 1..issued
        /\ \A n \in nonces : n.nonce # flows[i].nonce
    BY <2>1 DEF ProvenInv
  <2>4. /\ nonces' = nonces /\ issued' = issued
        /\ minted' = minted \union {Token(flows[i])}
    BY <1>2 DEF Issue
  <2> QED BY <2>2, <2>3, <2>4 DEF NoncesInv
<1>3. CASE nonces' \subseteq nonces /\ UNCHANGED <<issued, minted>>
  BY <1>3 DEF NoncesInv
<1> QED BY <1>1, <1>2, <1>3, NonceSteps

\* A token is minted only for a proven sign-in, whose nonce is of no other
\* session and gives no second one.
LEMMA SessionsStep ==
    ASSUME TypeOK, ProvenInv, SessionsAreProven, [Next]_vars
    PROVE  SessionsAreProven'
<1>1. ASSUME NEW i \in DOMAIN flows, Issue(i) PROVE SessionsAreProven'
  <2>1. flows[i].step = "issue" BY <1>1 DEF Issue
  <2> DEFINE t == Token(flows[i])
  <2>2. /\ t.wallet = flows[i].wallet /\ t.signer = flows[i].wallet
        /\ t.nonce = flows[i].nonce
        /\ t.provenAt < t.issuedAt + NonceTtl
        /\ t.provenAt + SessionTtl <= t.expires
    BY <2>1, ProvenToken
  <2>3. minted' = minted \union {t} BY <1>1 DEF Issue
  <2> HIDE DEF t
  <2>4. \A u \in minted : u.nonce # t.nonce BY <2>1, <2>2 DEF ProvenInv
  <2> QED BY <2>2, <2>3, <2>4 DEF SessionsAreProven
<1>2. CASE minted' = minted BY <1>2 DEF SessionsAreProven
<1> QED BY <1>1, <1>2, NonceSteps DEF AskNonce

\* What was proven stays so, while no sign-in is proven and no session issued.
LEMMA ProvenKept ==
    ASSUME TypeOK, ProvenInv, nonces' \subseteq nonces, UNCHANGED <<issued, minted>>,
           now' \in {now, now + 1},
           \A i \in DOMAIN flows' :
               flows'[i].step = "issue" =>
                   /\ i \in DOMAIN flows /\ flows[i].step = "issue"
                   /\ flows'[i].nonce = flows[i].nonce
                   /\ flows'[i].wallet = flows[i].wallet
                   /\ flows'[i].signer = flows[i].signer
                   /\ flows'[i].issuedAt = flows[i].issuedAt
                   /\ flows'[i].provenAt = flows[i].provenAt
    PROVE  ProvenInv'
<1> SUFFICES ASSUME NEW i \in DOMAIN flows', flows'[i].step = "issue"
    PROVE  /\ flows'[i].nonce \in 1..issued'
           /\ flows'[i].signer = flows'[i].wallet
           /\ flows'[i].provenAt < flows'[i].issuedAt + NonceTtl
           /\ flows'[i].provenAt <= now'
           /\ \A n \in nonces' : n.nonce # flows'[i].nonce
           /\ \A t \in minted' : t.nonce # flows'[i].nonce
           /\ \A j \in DOMAIN flows' :
                  flows'[j].step = "issue" /\ flows'[j].nonce = flows'[i].nonce => j = i
  BY DEF ProvenInv
<1>1. i \in DOMAIN flows /\ flows[i] \in Flows /\ now \in Nat BY DEF TypeOK
<1>2. flows[i].provenAt \in Nat BY <1>1 DEF Flows
<1>3. flows[i].provenAt <= now BY DEF ProvenInv
<1>4. flows'[i].provenAt <= now' BY <1>1, <1>2, <1>3
<1> QED BY <1>4 DEF ProvenInv

\* A sign-in that is not proven by its step changes nothing of the proven ones.
LEMMA AdvanceProven ==
    ASSUME TypeOK, ProvenInv, NEW i \in DOMAIN flows, NEW f \in Flows, Advance(i, f),
           f.step # "issue", nonces' \subseteq nonces, UNCHANGED <<now, issued, minted>>
    PROVE  ProvenInv'
<1>1. /\ DOMAIN flows' = DOMAIN flows /\ flows'[i] = f
      /\ \A j \in DOMAIN flows : j # i => flows'[j] = flows[j]
  BY AdvanceKeeps DEF TypeOK
<1> QED BY <1>1, ProvenKept

\* The effect proves nothing, and its cleanup leaves no more than there was.
LEMMA EffectProven ==
    ASSUME TypeOK, ProvenInv, NEW w \in Wallets \union {None},
           NEW before \in Seq(Flows),
           Len(before) = Len(flows), DOMAIN before = DOMAIN flows,
           Effect(w, before), UNCHANGED <<now, nonces, issued, minted>>,
           \A i \in DOMAIN flows :
               before[i].step = "issue" =>
                   /\ flows[i].step = "issue"
                   /\ before[i].nonce = flows[i].nonce
                   /\ before[i].wallet = flows[i].wallet
                   /\ before[i].signer = flows[i].signer
                   /\ before[i].issuedAt = flows[i].issuedAt
                   /\ before[i].provenAt = flows[i].provenAt
    PROVE  ProvenInv'
<1>1. ASSUME NEW j \in DOMAIN flows'
      PROVE  \/ j \in DOMAIN before /\ flows'[j] = before[j]
             \/ flows'[j].step # "issue"
  BY AfterEffect
<1> QED BY <1>1, ProvenKept

\* Only Connect proves a sign-in, with a nonce it takes out of the table; the
\* numbers of new nonces are new, and a session takes its proof with it.
LEMMA ProvenStep ==
    ASSUME TypeOK, NoncesInv, ProvenInv, [Next]_vars
    PROVE  ProvenInv'
<1>1. ASSUME NEW w \in Wallets \union {None}, WalletChanges(w) PROVE ProvenInv'
  <2>1. Effect(w, AllCancelled) /\ UNCHANGED <<now, nonces, issued, minted>>
    BY <1>1 DEF WalletChanges, server
  <2> QED BY <2>1, Leftovers, EffectProven
<1>2. CASE Reload
  <2>1. Effect(wallet, AllOver) /\ UNCHANGED <<now, nonces, issued, minted>>
    BY <1>2 DEF Reload, server
  <2>2. wallet \in Wallets \union {None} BY DEF TypeOK
  <2> QED BY <2>1, <2>2, Leftovers, EffectProven
<1>3. CASE UNCHANGED <<nonces, issued, minted, flows>> /\ now' \in {now, now + 1}
  BY <1>3, ProvenKept
<1>4. CASE Tick BY <1>3, <1>4 DEF Tick, page, server
<1>5. CASE Restart
  <2>1. /\ nonces' = {} /\ UNCHANGED <<now, issued, minted>>
        /\ flows' = [j \in DOMAIN flows |->
                       IF flows[j].step = "issue" THEN [flows[j] EXCEPT !.step = "connect"]
                       ELSE flows[j]]
    BY <1>5 DEF Restart
  <2>2. \A j \in DOMAIN flows' : flows'[j].step # "issue"
    <3> SUFFICES ASSUME NEW j \in DOMAIN flows PROVE flows'[j].step # "issue"
      BY <2>1
    <3>1. flows[j] \in Flows BY DEF TypeOK
    <3>2. [flows[j] EXCEPT !.step = "connect"].step = "connect" BY <3>1 DEF Flows
    <3> QED BY <2>1, <3>2
  <2> QED BY <2>1, <2>2, ProvenKept
<1>6. ASSUME NEW i \in DOMAIN flows, AskNonce(i) PROVE ProvenInv'
  <2> DEFINE new == [nonce |-> issued + 1, wallet |-> flows[i].wallet, at |-> now]
             g == [flows[i] EXCEPT !.step = "sign", !.nonce = issued + 1]
  <2>1. flows[i] \in Flows /\ issued \in Nat BY DEF TypeOK
  <2>2. g \in Flows /\ g.step = "sign"
    <3>1. issued + 1 \in Nat BY <2>1
    <3>2. g \in Flows BY <2>1, <3>1, FlowTypes
    <3> QED BY <2>1, <3>2 DEF Flows
  <2>3. /\ nonces' = Pruned \union {new} /\ issued' = issued + 1
        /\ UNCHANGED <<now, minted>> /\ Advance(i, g)
    BY <1>6 DEF AskNonce
  <2>4. new.nonce = issued + 1 OBVIOUS
  <2> HIDE DEF new, g
  <2>5. /\ DOMAIN flows' = DOMAIN flows /\ flows'[i] = g
        /\ \A j \in DOMAIN flows : j # i => flows'[j] = flows[j]
    BY <2>2, <2>3, AdvanceKeeps DEF TypeOK
  <2>6. Pruned \subseteq nonces BY PrunedFits
  <2>7. issued + 1 \notin 1..issued /\ 1..issued \subseteq 1..(issued + 1)
    BY <2>1
  <2>8. \A j \in DOMAIN flows' :
           flows'[j].step = "issue" => j \in DOMAIN flows /\ flows'[j] = flows[j]
    BY <2>2, <2>5
  <2>9. \A j \in DOMAIN flows : flows[j].step = "issue" =>
           /\ flows[j].nonce \in 1..(issued + 1) /\ flows[j].nonce # issued + 1
    BY <2>7 DEF ProvenInv
  <2>10. \A j \in DOMAIN flows : flows[j].step = "issue" =>
            \A n \in nonces' : n.nonce # flows[j].nonce
    BY <2>3, <2>4, <2>6, <2>9 DEF ProvenInv
  <2> QED BY <2>3, <2>8, <2>9, <2>10 DEF ProvenInv
<1>7. ASSUME NEW i \in DOMAIN flows, Connect(i) PROVE ProvenInv'
  <2> DEFINE f == flows[i]
             at == (CHOOSE n \in nonces : n.nonce = f.nonce).at
             g == [f EXCEPT !.step = "issue", !.provenAt = now, !.issuedAt = at]
  <2>1. f \in Flows /\ now \in Nat BY DEF TypeOK
  <2>2. Proves(f) BY <1>7 DEF Connect
  <2>3. /\ at \in Nat /\ now < at + NonceTtl /\ f.signer = f.wallet
        /\ \E n \in nonces : n.nonce = f.nonce
    BY <2>1, <2>2, ProvenNonce
  <2>4. /\ nonces' = Without(f.nonce) /\ Advance(i, g)
        /\ UNCHANGED <<now, issued, minted>>
    BY <1>7 DEF Connect
  <2> HIDE DEF at
  <2>5. g \in Flows BY <2>1, <2>3, FlowTypes
  <2>6. /\ g.step = "issue" /\ g.provenAt = now /\ g.issuedAt = at
        /\ g.nonce = f.nonce /\ g.wallet = f.wallet /\ g.signer = f.signer
    BY <2>1 DEF Flows
  <2> HIDE DEF g
  <2>7. /\ DOMAIN flows' = DOMAIN flows /\ flows'[i] = g
        /\ \A j \in DOMAIN flows : j # i => flows'[j] = flows[j]
    BY <2>4, <2>5, AdvanceKeeps DEF TypeOK
  <2>8. /\ f.nonce \in 1..issued
        /\ \A t \in minted : t.nonce # f.nonce
    BY <2>3 DEF NoncesInv
  <2>9. \A j \in DOMAIN flows : flows[j].step = "issue" => flows[j].nonce # f.nonce
    BY <2>3 DEF ProvenInv
  <2>10. nonces' \subseteq nonces /\ \A n \in nonces' : n.nonce # f.nonce
    BY <2>4 DEF Without
  <2>11. now <= now BY <2>1
  <2>12. ASSUME NEW j \in DOMAIN flows, j # i, flows[j].step = "issue"
         PROVE  /\ flows'[j].nonce \in 1..issued'
                /\ flows'[j].signer = flows'[j].wallet
                /\ flows'[j].provenAt < flows'[j].issuedAt + NonceTtl
                /\ flows'[j].provenAt <= now'
                /\ \A n \in nonces' : n.nonce # flows'[j].nonce
                /\ \A t \in minted' : t.nonce # flows'[j].nonce
                /\ \A k \in DOMAIN flows' :
                       flows'[k].step = "issue" /\ flows'[k].nonce = flows'[j].nonce => k = j
    BY <2>4, <2>6, <2>7, <2>9, <2>10, <2>12 DEF ProvenInv
  <2>13. /\ flows'[i].nonce \in 1..issued'
         /\ flows'[i].signer = flows'[i].wallet
         /\ flows'[i].provenAt < flows'[i].issuedAt + NonceTtl
         /\ flows'[i].provenAt <= now'
         /\ \A n \in nonces' : n.nonce # flows'[i].nonce
         /\ \A t \in minted' : t.nonce # flows'[i].nonce
         /\ \A k \in DOMAIN flows' :
                flows'[k].step = "issue" /\ flows'[k].nonce = flows'[i].nonce => k = i
    BY <2>3, <2>4, <2>6, <2>7, <2>8, <2>9, <2>10, <2>11
  <2> QED BY <2>7, <2>12, <2>13 DEF ProvenInv
<1>8. ASSUME NEW i \in DOMAIN flows, Issue(i) PROVE ProvenInv'
  <2> DEFINE t == Token(flows[i])
             g == [flows[i] EXCEPT !.step = "answer", !.token = t]
  <2>1. flows[i] \in Flows /\ flows[i].step = "issue" BY <1>8 DEF TypeOK, Issue
  <2>2. t \in Tokens /\ t.nonce = flows[i].nonce BY <2>1, ProvenToken
  <2>3. /\ minted' = minted \union {t} /\ Advance(i, g)
        /\ UNCHANGED <<now, nonces, issued>>
    BY <1>8 DEF Issue
  <2> HIDE DEF t
  <2>4. g \in Flows BY <2>1, <2>2, FlowTypes
  <2>5. g.step = "answer" BY <2>1 DEF Flows
  <2> HIDE DEF g
  <2>6. /\ DOMAIN flows' = DOMAIN flows /\ flows'[i] = g
        /\ \A j \in DOMAIN flows : j # i => flows'[j] = flows[j]
    BY <2>3, <2>4, AdvanceKeeps DEF TypeOK
  <2>7. \A j \in DOMAIN flows' : flows'[j].step = "issue" =>
           j \in DOMAIN flows /\ flows'[j] = flows[j] /\ flows[j].nonce # t.nonce
    BY <2>1, <2>2, <2>5, <2>6 DEF ProvenInv
  <2> QED BY <2>3, <2>7 DEF ProvenInv
<1>9. ASSUME NEW i \in DOMAIN flows, Sign(i) PROVE ProvenInv'
  <2> DEFINE g == [flows[i] EXCEPT !.step = "connect", !.signer = wallet]
  <2>1. flows[i] \in Flows /\ wallet \in Wallets BY <1>9 DEF Sign, TypeOK
  <2>2. g \in Flows /\ g.step = "connect"
    <3>1. g \in Flows BY <2>1, FlowTypes
    <3> QED BY <2>1, <3>1 DEF Flows
  <2>3. Advance(i, g) /\ UNCHANGED <<now, nonces, issued, minted>>
    BY <1>9 DEF Sign, server
  <2> HIDE DEF g
  <2> QED BY <2>2, <2>3, AdvanceProven
<1>10. ASSUME NEW i \in DOMAIN flows,
              ConnectRefused(i) \/ Declined(i) \/ SignInLost(i) \/ SignedIn(i)
              \/ Settled(i)
       PROVE  ProvenInv'
  <2>1. PICK step \in {"over", "claim"} : Advance(i, [flows[i] EXCEPT !.step = step])
    BY <1>10 DEF ConnectRefused, Declined, SignInLost, SignedIn, Settled,
       SignedOut
  <2>2. nonces' \subseteq nonces /\ UNCHANGED <<now, issued, minted>>
    BY <1>10 DEF ConnectRefused, Declined, SignInLost, SignedIn, Settled,
       server, Without
  <2> DEFINE g == [flows[i] EXCEPT !.step = step]
  <2>3. flows[i] \in Flows BY DEF TypeOK
  <2>4. g \in Flows BY <2>3, FlowTypes
  <2>5. g.step # "issue" BY <2>3 DEF Flows
  <2>6. Advance(i, g) BY <2>1
  <2> HIDE DEF g
  <2> QED BY <2>2, <2>4, <2>5, <2>6, AdvanceProven
<1>11. ASSUME NEW c \in claims, ClaimRead(c) \/ ClaimWrite(c) \/ ClaimLost(c)
       PROVE  ProvenInv'
  BY <1>3, <1>11 DEF ClaimRead, ClaimWrite, ClaimLost, page, server
<1>12. ASSUME NEW c \in Chats, Make(c) \/ Open(c) PROVE ProvenInv'
  BY <1>3, <1>12 DEF Make, Open, server
<1>13. ASSUME NEW m \in making, MakeServed(m) \/ MakeAnswered(m) PROVE ProvenInv'
  BY <1>3, <1>13 DEF MakeServed, MakeAnswered, server
<1>14. ASSUME NEW o \in opening, Opened(o) PROVE ProvenInv'
  BY <1>3, <1>14 DEF Opened, server
<1>15. CASE UNCHANGED vars BY <1>3, <1>15 DEF vars, page, server
<1> QED
  BY <1>1, <1>2, <1>4, <1>5, <1>6, <1>7, <1>8, <1>9, <1>10, <1>11, <1>12, <1>13,
     <1>14, <1>15 DEF Next

\* The invariant of the sign-ins over a step of one of them.
LEMMA AdvanceInv ==
    ASSUME TypeOK, FlowsInv, NEW i \in DOMAIN flows, NEW f \in Flows,
           Advance(i, f), wallet' = wallet, minted \subseteq minted',
           f.wallet = flows[i].wallet, f.cancelled = flows[i].cancelled,
           f.token \in minted' \union {None},
           f.step = "answer" => f.token \in minted',
           f.token # None => f.token.wallet = f.wallet
    PROVE  FlowsInv'
<1>1. /\ DOMAIN flows' = DOMAIN flows /\ flows'[i] = f
      /\ \A j \in DOMAIN flows : j # i => flows'[j] = flows[j]
  BY AdvanceKeeps DEF TypeOK
<1> QED BY <1>1 DEF FlowsInv

\* The invariant of the sign-ins when the effect runs, after its cleanup.
LEMMA EffectInv ==
    ASSUME TypeOK, FlowsInv, NEW w \in Wallets \union {None},
           NEW before \in Seq(Flows),
           Len(before) = Len(flows), DOMAIN before = DOMAIN flows,
           Effect(w, before), wallet' = w, minted' = minted,
           \A i \in DOMAIN flows :
               /\ before[i].cancelled
               /\ before[i].wallet = flows[i].wallet
               /\ before[i].token = flows[i].token
               /\ before[i].step = "answer" => flows[i].step = "answer"
    PROVE  FlowsInv'
<1> SUFFICES ASSUME NEW i \in DOMAIN flows'
    PROVE /\ flows'[i].token \in minted' \union {None}
          /\ flows'[i].step = "answer" => flows'[i].token \in minted'
          /\ flows'[i].token # None => flows'[i].token.wallet = flows'[i].wallet
          /\ ~flows'[i].cancelled => flows'[i].wallet = wallet'
  BY DEF FlowsInv
<1>1. \/ i \in DOMAIN before /\ flows'[i] = before[i]
      \/ /\ i \notin DOMAIN before
         /\ flows'[i].wallet = w /\ flows'[i].token = None
         /\ flows'[i].step # "answer" /\ flows'[i].step # "issue"
  BY AfterEffect
<1>2. CASE i \in DOMAIN before BY <1>1, <1>2 DEF FlowsInv
<1>3. CASE i \notin DOMAIN before BY <1>1, <1>3
<1> QED BY <1>2, <1>3

\* A sign-in under way keeps to its own wallet's session, and the effect's
\* cleanup cancels it when the wallet changes.
LEMMA FlowsStep ==
    ASSUME TypeOK, NoncesInv, ProvenInv, FlowsInv, [Next]_vars
    PROVE  FlowsInv'
<1>1. ASSUME NEW w \in Wallets \union {None}, WalletChanges(w)
      PROVE  FlowsInv'
  <2>1. wallet' = w /\ Effect(w, AllCancelled) /\ minted' = minted
    BY <1>1 DEF WalletChanges, server
  <2> QED BY <2>1, Leftovers, EffectInv
<1>2. CASE Reload
  <2>1. wallet' = wallet /\ Effect(wallet, AllOver) /\ minted' = minted
    BY <1>2 DEF Reload, server
  <2>2. wallet \in Wallets \union {None} BY DEF TypeOK
  <2>3. wallet' \in Wallets \union {None} /\ Effect(wallet', AllOver)
    BY <2>1, <2>2
  <2> QED BY <2>1, <2>2, <2>3, Leftovers, EffectInv
<1>3. ASSUME NEW i \in DOMAIN flows,
             AskNonce(i) \/ Sign(i) \/ Connect(i) \/ Issue(i) \/ ConnectRefused(i)
             \/ Declined(i) \/ SignInLost(i) \/ SignedIn(i) \/ Settled(i)
      PROVE  FlowsInv'
  <2>1. flows[i] \in Flows BY DEF TypeOK
  <2>2. /\ flows[i].token \in minted \union {None}
        /\ flows[i].token # None => flows[i].token.wallet = flows[i].wallet
    BY DEF FlowsInv
  <2> DEFINE f == flows[i]
  <2>3. CASE AskNonce(i)
    <3> DEFINE g == [f EXCEPT !.step = "sign", !.nonce = issued + 1]
    <3>1. issued + 1 \in Nat BY DEF TypeOK
    <3>2. g \in Flows BY <2>1, <3>1, FlowTypes
    <3>3. g.wallet = f.wallet /\ g.cancelled = f.cancelled /\ g.token = f.token
          /\ g.step = "sign"
      BY <2>1 DEF Flows
    <3>4. Advance(i, g) /\ wallet' = wallet /\ minted' = minted
      BY <2>3 DEF AskNonce
    <3> HIDE DEF g
    <3> QED BY <2>2, <3>2, <3>3, <3>4, AdvanceInv
  <2>4. CASE Sign(i)
    <3> DEFINE g == [f EXCEPT !.step = "connect", !.signer = wallet]
    <3>1. wallet \in Wallets BY <2>4 DEF Sign, TypeOK
    <3>2. g \in Flows BY <2>1, <3>1, FlowTypes
    <3>3. g.wallet = f.wallet /\ g.cancelled = f.cancelled /\ g.token = f.token
          /\ g.step = "connect"
      BY <2>1 DEF Flows
    <3>4. Advance(i, g) /\ wallet' = wallet /\ minted' = minted
      BY <2>4 DEF Sign, server
    <3> HIDE DEF g
    <3> QED BY <2>2, <3>2, <3>3, <3>4, AdvanceInv
  <2>5. CASE Connect(i)
    <3> DEFINE at == (CHOOSE n \in nonces : n.nonce = f.nonce).at
               g == [f EXCEPT !.step = "issue", !.provenAt = now, !.issuedAt = at]
    <3>1. now \in Nat /\ at \in Nat BY <2>1, <2>5, ProvenNonce DEF Connect, TypeOK
    <3>2. Advance(i, g) /\ wallet' = wallet /\ minted' = minted
      BY <2>5 DEF Connect
    <3> HIDE DEF at
    <3>3. g \in Flows BY <2>1, <3>1, FlowTypes
    <3>4. g.wallet = f.wallet /\ g.cancelled = f.cancelled /\ g.token = f.token
          /\ g.step = "issue"
      BY <2>1 DEF Flows
    <3> HIDE DEF g
    <3> QED BY <2>2, <3>2, <3>3, <3>4, AdvanceInv
  <2>7. CASE Issue(i)
    <3> DEFINE t == Token(f)
               g == [f EXCEPT !.step = "answer", !.token = t]
    <3>1. t \in Tokens /\ t.wallet = f.wallet
      BY <2>7, ProvenToken DEF Issue
    <3>2. Advance(i, g) /\ wallet' = wallet /\ minted' = minted \union {t}
      BY <2>7 DEF Issue
    <3> HIDE DEF t
    <3>3. g \in Flows BY <2>1, <3>1, FlowTypes
    <3>4. g.wallet = f.wallet /\ g.cancelled = f.cancelled /\ g.token = t
      BY <2>1 DEF Flows
    <3> HIDE DEF g
    <3> QED BY <3>1, <3>2, <3>3, <3>4, AdvanceInv
  <2>6. CASE ConnectRefused(i) \/ Declined(i) \/ SignInLost(i) \/ SignedIn(i) \/ Settled(i)
    <3>1. PICK step \in {"over", "claim"} : Advance(i, [f EXCEPT !.step = step])
      BY <2>6 DEF ConnectRefused, Declined, SignInLost, SignedIn, Settled,
         SignedOut
    <3>2. wallet' = wallet /\ minted' = minted
      BY <2>6 DEF ConnectRefused, Declined, SignInLost, SignedIn, Settled,
         server
    <3> DEFINE g == [f EXCEPT !.step = step]
    <3>3. g \in Flows BY <2>1, FlowTypes
    <3>4. g.wallet = f.wallet /\ g.cancelled = f.cancelled /\ g.token = f.token
          /\ g.step # "answer"
      BY <2>1 DEF Flows
    <3>5. Advance(i, g) BY <3>1
    <3> HIDE DEF g
    <3> QED BY <2>2, <3>2, <3>3, <3>4, <3>5, AdvanceInv
  <2> QED BY <1>3, <2>3, <2>4, <2>5, <2>6, <2>7
<1>4. CASE UNCHANGED <<flows, wallet, minted>> BY <1>4 DEF FlowsInv
<1>5. CASE Tick
  BY <1>4, <1>5 DEF Tick, page, server
<1>11. CASE Restart
  <2>1. /\ wallet' = wallet /\ minted' = minted
        /\ flows' = [j \in DOMAIN flows |->
                       IF flows[j].step = "issue" THEN [flows[j] EXCEPT !.step = "connect"]
                       ELSE flows[j]]
    BY <1>11 DEF Restart
  <2>2. ASSUME NEW j \in DOMAIN flows
        PROVE  /\ flows'[j].wallet = flows[j].wallet /\ flows'[j].token = flows[j].token
               /\ flows'[j].cancelled = flows[j].cancelled
               /\ flows'[j].step = "answer" => flows[j].step = "answer"
    <3>1. flows[j] \in Flows BY DEF TypeOK
    <3> QED BY <2>1, <3>1 DEF Flows
  <2>3. DOMAIN flows' = DOMAIN flows BY <2>1
  <2> QED BY <2>1, <2>2, <2>3 DEF FlowsInv
<1>6. ASSUME NEW c \in claims, ClaimRead(c) \/ ClaimWrite(c) \/ ClaimLost(c)
      PROVE  FlowsInv'
  BY <1>4, <1>6 DEF ClaimRead, ClaimWrite, ClaimLost, page, server
<1>7. ASSUME NEW c \in Chats, Make(c) \/ Open(c)
      PROVE  FlowsInv'
  BY <1>4, <1>7 DEF Make, Open, server
<1>8. ASSUME NEW m \in making, MakeServed(m) \/ MakeAnswered(m)
      PROVE  FlowsInv'
  BY <1>4, <1>8 DEF MakeServed, MakeAnswered, server
<1>9. ASSUME NEW o \in opening, Opened(o)
      PROVE  FlowsInv'
  BY <1>4, <1>9 DEF Opened, server
<1>10. CASE UNCHANGED vars BY <1>4, <1>10 DEF vars, page, server
<1> QED
  BY <1>1, <1>2, <1>3, <1>5, <1>6, <1>7, <1>8, <1>9, <1>10, <1>11 DEF Next

\* The user of a request is a wallet or nobody.
LEMMA RequesterType ==
    ASSUME NEW t \in Tokens \union {None}
    PROVE  Requester(t) \in Wallets \union {None}
BY DEF Requester, Valid, Tokens

\* Requests and claims go on being about chats that were made, and a chat
\* found anonymous was made so.
LEMMA ChatsStep ==
    ASSUME TypeOK, ChatsInv, BornOwnedStays, [Next]_vars
    PROVE  ChatsInv'
<1> USE AccountsAssumption
<1> DEFINE Kept ==
        \A c \in claims' : c \in claims \/ (c.chat \in anon /\ c.read = FALSE)
<1>1. ASSUME NEW w \in Wallets \union {None}, WalletChanges(w)
      PROVE  ChatsInv'
  <2>1. Kept BY <1>1, Leftovers, EffectFlows DEF WalletChanges
  <2>2. UNCHANGED <<born, anon, making, opening>>
    BY <1>1 DEF WalletChanges, server
  <2> QED BY <2>1, <2>2 DEF ChatsInv
<1>2. CASE Reload
  <2>1. wallet \in Wallets \union {None} BY DEF TypeOK
  <2>2. Kept BY <1>2, <2>1, Leftovers, EffectFlows DEF Reload
  <2>3. /\ UNCHANGED <<born, anon>> /\ opening' = {} /\ making' \subseteq making
    BY <1>2 DEF Reload, server
  <2> QED BY <2>2, <2>3 DEF ChatsInv
<1>3. CASE UNCHANGED <<born, making, opening>> /\ Kept /\ anon' \subseteq anon
  BY <1>3 DEF ChatsInv
<1>4. CASE Tick \/ Restart
  BY <1>3, <1>4 DEF Tick, Restart, page, server
<1>5. ASSUME NEW i \in DOMAIN flows,
             AskNonce(i) \/ Sign(i) \/ Connect(i) \/ Issue(i) \/ ConnectRefused(i)
             \/ Declined(i) \/ SignInLost(i)
      PROVE  ChatsInv'
  BY <1>3, <1>5 DEF AskNonce, Sign, Connect, Issue, ConnectRefused, Declined,
     SignInLost,
     server
<1>6. ASSUME NEW i \in DOMAIN flows, SignedIn(i) PROVE ChatsInv'
  <2> DEFINE t == flows[i].token
  <2>1. \A c \in ClaimsOf(i, t) : c.chat \in anon /\ c.read = FALSE
    BY DEF ClaimsOf
  <2>2. claims' = claims \/ claims' = claims \union ClaimsOf(i, t)
    BY <1>6 DEF SignedIn
  <2>3. Kept BY <2>1, <2>2
  <2> QED BY <1>3, <1>6, <2>3 DEF SignedIn, server
<1>7. ASSUME NEW i \in DOMAIN flows, Settled(i) PROVE ChatsInv'
  BY <1>3, <1>7 DEF Settled, server
<1>8. ASSUME NEW c \in claims, ClaimRead(c) PROVE ChatsInv'
  <2>1. c \in Claims BY DEF TypeOK
  <2> DEFINE d == [c EXCEPT !.read = TRUE]
  <2>2. d.chat = c.chat BY <2>1 DEF Claims
  <2>3. \A e \in claims' : e \in claims \/ (e = d /\ owner[c.chat] = None)
    BY <1>8 DEF ClaimRead
  <2> HIDE DEF d
  <2>4. c.chat \in Chats BY <2>1 DEF Claims
  <2>5. owner[c.chat] = None => born[c.chat] \notin Wallets
    BY <2>4 DEF BornOwnedStays
  <2>6. UNCHANGED <<born, making, opening, anon>>
    BY <1>8 DEF ClaimRead, server, page
  <2> QED BY <2>2, <2>3, <2>5, <2>6 DEF ChatsInv
<1>9. ASSUME NEW c \in claims, ClaimWrite(c) \/ ClaimLost(c) PROVE ChatsInv'
  BY <1>3, <1>9 DEF ClaimWrite, ClaimLost, server, page
<1>10. ASSUME NEW c \in Chats, Make(c) PROVE ChatsInv'
  <2> DEFINE m == [chat |-> c, token |-> user, made |-> FALSE]
  <2>1. m.chat = c /\ m.made = FALSE OBVIOUS
  <2>2. making' = making \union {m} BY <1>10 DEF Make
  <2> HIDE DEF m
  <2>3. born[c] = NoChat /\ \A k \in making : k.chat # c BY <1>10 DEF Make
  <2>4. UNCHANGED <<born, anon, opening, claims>> BY <1>10 DEF Make, server
  <2> QED BY <2>1, <2>2, <2>3, <2>4 DEF ChatsInv
<1>11. ASSUME NEW m \in making, MakeServed(m) PROVE ChatsInv'
  <2>1. /\ m.chat \in Chats /\ m.token \in Tokens \union {None}
        /\ m \in [chat : Chats, token : Tokens \union {None}, made : BOOLEAN]
    BY DEF TypeOK
  <2> DEFINE n == [m EXCEPT !.made = TRUE]
  <2>2. n.chat = m.chat /\ n.made = TRUE BY <2>1
  <2>3. making' = (making \ {m}) \union {n} BY <1>11 DEF MakeServed
  <2> HIDE DEF n
  <2>4. Requester(m.token) # NoChat BY <2>1, RequesterType
  <2>5. /\ born' = [born EXCEPT ![m.chat] = Requester(m.token)]
        /\ UNCHANGED <<anon, opening, claims>>
    BY <1>11 DEF MakeServed
  <2>6. born'[m.chat] # NoChat /\ \A c : c # m.chat => born'[c] = born[c]
    BY <2>1, <2>4, <2>5 DEF TypeOK
  <2>7. born[m.chat] = NoChat BY <1>11 DEF MakeServed, ChatsInv
  <2>8. \A k \in making \ {m} : k.chat # m.chat BY DEF ChatsInv
  <2>9. /\ \A c \in anon' : born'[c] # NoChat
        /\ \A o \in opening' : born'[o.chat] # NoChat
        /\ \A c \in claims' : /\ born'[c.chat] # NoChat
                              /\ c.read => born'[c.chat] \notin Wallets
    BY <2>5, <2>6, <2>7 DEF ChatsInv
  <2>10. \A k \in making' : k.made <=> born'[k.chat] # NoChat
    BY <2>2, <2>3, <2>6, <2>8 DEF ChatsInv
  <2>11. \A k, l \in making' : k.chat = l.chat => k = l
    BY <2>2, <2>3, <2>8 DEF ChatsInv
  <2> QED BY <2>9, <2>10, <2>11 DEF ChatsInv
<1>12. ASSUME NEW m \in making, MakeAnswered(m) PROVE ChatsInv'
  <2>1. born[m.chat] # NoChat BY <1>12 DEF MakeAnswered, ChatsInv
  <2> QED BY <1>12, <2>1 DEF MakeAnswered, ChatsInv, server
<1>13. ASSUME NEW c \in Chats, Open(c) PROVE ChatsInv'
  <2> DEFINE o == [chat |-> c, owned |-> owner[c] # None]
  <2>1. o.chat = c /\ opening' = opening \union {o} BY <1>13 DEF Open
  <2> HIDE DEF o
  <2>2. born[c] # NoChat BY <1>13 DEF Open, CanAccess
  <2>3. UNCHANGED <<born, anon, making, claims>> BY <1>13 DEF Open, server
  <2> QED BY <2>1, <2>2, <2>3 DEF ChatsInv
<1>14. ASSUME NEW o \in opening, Opened(o) PROVE ChatsInv'
  BY <1>14 DEF Opened, ChatsInv, server
<1>15. CASE UNCHANGED vars BY <1>3, <1>15 DEF vars, page, server
<1> QED
  BY <1>1, <1>2, <1>4, <1>5, <1>6, <1>7, <1>8, <1>9, <1>10, <1>11, <1>12, <1>13,
     <1>14, <1>15 DEF Next

\* The owners change when a claim is written and when a chat is made.
LEMMA OwnersStep ==
    ASSUME TypeOK, ChatsInv, BornOwnedStays, [Next]_vars
    PROVE  BornOwnedStays'
<1> USE AccountsAssumption
<1>1. CASE UNCHANGED <<owner, born>> BY <1>1 DEF BornOwnedStays
<1>2. ASSUME NEW c \in claims, ClaimWrite(c) PROVE BornOwnedStays'
  <2>1. born[c.chat] \notin Wallets BY <1>2 DEF ClaimWrite, ChatsInv
  <2>2. /\ owner' = [owner EXCEPT ![c.chat] = c.token.wallet]
        /\ born' = born
    BY <1>2 DEF ClaimWrite
  <2> QED BY <2>1, <2>2 DEF BornOwnedStays, TypeOK
<1>3. ASSUME NEW m \in making, MakeServed(m) PROVE BornOwnedStays'
  <2>1. /\ owner' = [owner EXCEPT ![m.chat] = Requester(m.token)]
        /\ born' = [born EXCEPT ![m.chat] = Requester(m.token)]
    BY <1>3 DEF MakeServed
  <2> QED BY <2>1 DEF BornOwnedStays, TypeOK
<1>4. ASSUME NEW w \in Wallets \union {None}, WalletChanges(w)
      PROVE  BornOwnedStays'
  BY <1>1, <1>4 DEF WalletChanges, server
<1>5. CASE Reload \/ Tick \/ Restart
  BY <1>1, <1>5 DEF Reload, Tick, Restart, server
<1>6. ASSUME NEW i \in DOMAIN flows,
             AskNonce(i) \/ Sign(i) \/ Connect(i) \/ Issue(i) \/ ConnectRefused(i)
             \/ Declined(i) \/ SignInLost(i) \/ SignedIn(i) \/ Settled(i)
      PROVE  BornOwnedStays'
  BY <1>1, <1>6 DEF AskNonce, Sign, Connect, Issue, ConnectRefused, Declined,
     SignInLost,
     SignedIn, Settled, server
<1>7. ASSUME NEW c \in claims, ClaimRead(c) \/ ClaimLost(c) PROVE BornOwnedStays'
  BY <1>1, <1>7 DEF ClaimRead, ClaimLost, server
<1>8. ASSUME NEW c \in Chats, Make(c) \/ Open(c) PROVE BornOwnedStays'
  BY <1>1, <1>8 DEF Make, Open, server
<1>9. ASSUME NEW m \in making, MakeAnswered(m) PROVE BornOwnedStays'
  BY <1>1, <1>9 DEF MakeAnswered, server
<1>10. ASSUME NEW o \in opening, Opened(o) PROVE BornOwnedStays'
  BY <1>1, <1>10 DEF Opened, server
<1>11. CASE UNCHANGED vars BY <1>1, <1>11 DEF vars, server
<1> QED
  BY <1>2, <1>3, <1>4, <1>5, <1>6, <1>7, <1>8, <1>9, <1>10, <1>11 DEF Next

\* The page's user after sign-in i is who it was, nobody, or the session of i.
LEMMA SignedOutUser ==
    ASSUME TypeOK, NEW i \in DOMAIN flows, SignedOut(i)
    PROVE  flows' \in Seq(Flows) /\ user' \in minted \union {None}
<1>1. flows[i] \in Flows BY DEF TypeOK
<1>2. [flows[i] EXCEPT !.step = "over"] \in Flows BY <1>1, FlowTypes
<1>3. flows' \in Seq(Flows) BY <1>2, AdvanceKeeps DEF SignedOut, TypeOK
<1>4. user' \in minted \union {None} BY DEF SignedOut, TypeOK
<1> QED BY <1>3, <1>4

\* Every step keeps the types.
LEMMA TypeStep ==
    ASSUME TypeOK, NoncesInv, ProvenInv, FlowsInv, [Next]_vars
    PROVE  TypeOK'
<1>1. ASSUME NEW w \in Wallets \union {None}, WalletChanges(w) PROVE TypeOK'
  <2>1. /\ flows' \in Seq(Flows) /\ user' \in {user, None}
        /\ claims' \in SUBSET Claims
    BY <1>1, Leftovers, EffectFlows DEF WalletChanges
  <2> QED BY <1>1, <2>1 DEF WalletChanges, TypeOK, server
<1>2. CASE Reload
  <2>1. wallet \in Wallets \union {None} BY DEF TypeOK
  <2>2. /\ flows' \in Seq(Flows) /\ user' \in {user, None}
        /\ claims' \in SUBSET Claims
    BY <1>2, <2>1, Leftovers, EffectFlows DEF Reload
  <2> QED BY <1>2, <2>2 DEF Reload, TypeOK, server
<1>3. CASE Tick
  BY <1>3 DEF Tick, TypeOK, server, page
<1>4. CASE Restart
  <2>1. flows' \in Seq(Flows)
    <3>1. ASSUME NEW j \in DOMAIN flows
          PROVE  flows[j] \in Flows /\ [flows[j] EXCEPT !.step = "connect"] \in Flows
      <4>1. flows[j] \in Flows BY DEF TypeOK
      <4> QED BY <4>1, FlowTypes
    <3>2. flows \in Seq(Flows) /\ DOMAIN flows = 1..Len(flows) /\ Len(flows) \in Nat
      BY DEF TypeOK
    <3>3. flows' \in [1..Len(flows) -> Flows] BY <1>4, <3>1, <3>2 DEF Restart
    <3> QED BY <3>2, <3>3
  <2> QED BY <1>4, <2>1, FS_EmptySet, AccountsAssumption DEF Restart, TypeOK
<1>5. ASSUME NEW i \in DOMAIN flows, AskNonce(i) PROVE TypeOK'
  <2>1. flows[i] \in Flows /\ issued + 1 \in Nat /\ now \in Nat BY DEF TypeOK
  <2> DEFINE n == [nonce |-> issued + 1, wallet |-> flows[i].wallet, at |-> now]
  <2>2. n \in Nonces BY <2>1 DEF Nonces, Flows
  <2>3. nonces' = Pruned \union {n} BY <1>5 DEF AskNonce
  <2> HIDE DEF n
  <2>4. nonces' \in SUBSET Nonces BY <2>2, <2>3, PrunedFits DEF TypeOK
  <2>5. IsFiniteSet(Pruned) /\ Cardinality(Pruned) <= MaxPending - 1
    BY PrunedFits
  <2>6. IsFiniteSet(nonces') /\ Cardinality(nonces') <= Cardinality(Pruned) + 1
    BY <2>3, <2>5, FS_AddElement, FS_CardinalityType
  <2>7. Cardinality(nonces') <= MaxPending
    BY <2>5, <2>6, FS_CardinalityType, AccountsAssumption
  <2>8. flows' \in Seq(Flows)
    BY <1>5, <2>1, FlowTypes, AdvanceKeeps DEF AskNonce, TypeOK
  <2> QED BY <1>5, <2>1, <2>4, <2>6, <2>7, <2>8 DEF AskNonce, TypeOK
<1>6. ASSUME NEW i \in DOMAIN flows, Sign(i) PROVE TypeOK'
  <2>1. flows[i] \in Flows /\ wallet \in Wallets BY <1>6 DEF TypeOK, Sign
  <2>2. flows' \in Seq(Flows)
    BY <1>6, <2>1, FlowTypes, AdvanceKeeps DEF Sign, TypeOK
  <2> QED BY <1>6, <2>2 DEF Sign, TypeOK, server
<1>7. ASSUME NEW k, nonces' = Without(k)
      PROVE  /\ nonces' \in SUBSET Nonces /\ IsFiniteSet(nonces')
             /\ Cardinality(nonces') <= MaxPending
  <2>1. nonces' \subseteq nonces BY <1>7 DEF Without
  <2>2. IsFiniteSet(nonces') /\ Cardinality(nonces') <= Cardinality(nonces)
    BY <2>1, FS_Subset DEF TypeOK
  <2> QED BY <2>1, <2>2, FS_CardinalityType, AccountsAssumption DEF TypeOK
<1>8. ASSUME NEW i \in DOMAIN flows, Connect(i) PROVE TypeOK'
  <2> DEFINE at == (CHOOSE n \in nonces : n.nonce = flows[i].nonce).at
  <2>1. flows[i] \in Flows /\ now \in Nat BY DEF TypeOK
  <2>2. at \in Nat BY <1>8, <2>1, ProvenNonce DEF Connect
  <2>3. Advance(i, [flows[i] EXCEPT !.step = "issue", !.provenAt = now,
                                    !.issuedAt = at])
    BY <1>8 DEF Connect
  <2> HIDE DEF at
  <2>4. flows' \in Seq(Flows)
    BY <2>1, <2>2, <2>3, FlowTypes, AdvanceKeeps DEF TypeOK
  <2> QED BY <1>7, <1>8, <2>4 DEF Connect, TypeOK
<1>22. ASSUME NEW i \in DOMAIN flows, Issue(i) PROVE TypeOK'
  <2>1. flows[i] \in Flows BY DEF TypeOK
  <2>2. Token(flows[i]) \in Tokens BY <1>22, ProvenToken DEF Issue
  <2>3. flows' \in Seq(Flows)
    BY <1>22, <2>1, <2>2, FlowTypes, AdvanceKeeps DEF Issue, TypeOK
  <2>4. minted' \in SUBSET Tokens /\ minted \subseteq minted'
    BY <1>22, <2>2 DEF Issue, TypeOK
  <2> QED BY <1>22, <2>3, <2>4 DEF Issue, TypeOK
<1>9. ASSUME NEW i \in DOMAIN flows, ConnectRefused(i) PROVE TypeOK'
  BY <1>7, <1>9, SignedOutUser DEF ConnectRefused, TypeOK
<1>10. ASSUME NEW i \in DOMAIN flows, Declined(i) \/ SignInLost(i) PROVE TypeOK'
  <2>1. SignedOut(i) BY <1>10 DEF Declined, SignInLost
  <2>2. flows' \in Seq(Flows) /\ user' \in minted \union {None}
    BY <2>1, SignedOutUser
  <2> QED BY <1>10, <2>2 DEF Declined, SignInLost, TypeOK, server
<1>11. ASSUME NEW i \in DOMAIN flows, SignedIn(i) PROVE TypeOK'
  <2>1. flows[i] \in Flows BY DEF TypeOK
  <2>2. flows[i].token \in minted BY <1>11 DEF SignedIn, FlowsInv
  <2>3. flows' \in Seq(Flows)
    BY <1>11, <2>1, FlowTypes, AdvanceKeeps DEF SignedIn, TypeOK
  <2>4. ClaimsOf(i, flows[i].token) \in SUBSET Claims
    <3>1. i \in Nat /\ flows[i].token \in Tokens /\ anon \in SUBSET Chats
      BY <2>2 DEF TypeOK
    <3> QED BY <3>1 DEF ClaimsOf, Claims
  <2>5. claims' \in SUBSET Claims /\ user' \in minted \union {None}
    BY <1>11, <2>2, <2>4 DEF SignedIn, TypeOK
  <2> QED BY <1>11, <2>3, <2>5 DEF SignedIn, TypeOK, server
<1>12. ASSUME NEW i \in DOMAIN flows, Settled(i) PROVE TypeOK'
  <2>1. flows[i] \in Flows BY DEF TypeOK
  <2>2. flows[i].token \in minted \union {None} BY DEF FlowsInv
  <2>3. flows' \in Seq(Flows)
    BY <1>12, <2>1, FlowTypes, AdvanceKeeps DEF Settled, TypeOK
  <2>4. anon' \in SUBSET Chats /\ user' \in minted \union {None}
    BY <1>12, <2>2 DEF Settled, TypeOK
  <2> QED BY <1>12, <2>3, <2>4 DEF Settled, TypeOK, server
<1>13. ASSUME NEW c \in claims, ClaimRead(c) PROVE TypeOK'
  <2>1. c \in Claims BY DEF TypeOK
  <2>2. [c EXCEPT !.read = TRUE] \in Claims BY <2>1 DEF Claims
  <2> QED BY <1>13, <2>2 DEF ClaimRead, TypeOK, server, page
<1>14. ASSUME NEW c \in claims, ClaimWrite(c) PROVE TypeOK'
  <2>1. c \in Claims BY DEF TypeOK
  <2>2. c.token.wallet \in Wallets BY <2>1 DEF Claims, Tokens
  <2>3. owner' \in [Chats -> Wallets \union {None}]
    BY <1>14, <2>2 DEF ClaimWrite, TypeOK
  <2> QED BY <1>14, <2>3 DEF ClaimWrite, TypeOK, page
<1>15. ASSUME NEW c \in claims, ClaimLost(c) PROVE TypeOK'
  BY <1>15 DEF ClaimLost, TypeOK, server, page
<1>16. ASSUME NEW c \in Chats, Make(c) PROVE TypeOK'
  <2> DEFINE Makes == [chat : Chats, token : Tokens \union {None}, made : BOOLEAN]
             m == [chat |-> c, token |-> user, made |-> FALSE]
  <2>1. user \in Tokens \union {None} BY DEF TypeOK
  <2>2. m \in Makes BY <2>1
  <2>3. making' = making \union {m} BY <1>16 DEF Make
  <2> HIDE DEF m
  <2>4. making' \in SUBSET Makes BY <2>2, <2>3 DEF TypeOK
  <2> QED BY <1>16, <2>4 DEF Make, TypeOK, server
<1>17. ASSUME NEW m \in making, MakeServed(m) PROVE TypeOK'
  <2> DEFINE Makes == [chat : Chats, token : Tokens \union {None}, made : BOOLEAN]
  <2>1. m \in Makes BY DEF TypeOK
  <2>2. [m EXCEPT !.made = TRUE] \in Makes BY <2>1
  <2>3. Requester(m.token) \in Wallets \union {None} BY <2>1, RequesterType
  <2>4. /\ owner' \in [Chats -> Wallets \union {None}]
        /\ born' \in [Chats -> Wallets \union {None, NoChat}]
    BY <1>17, <2>3 DEF MakeServed, TypeOK
  <2>5. making' \in SUBSET Makes BY <1>17, <2>2 DEF MakeServed, TypeOK
  <2> QED BY <1>17, <2>4, <2>5 DEF MakeServed, TypeOK
<1>18. ASSUME NEW m \in making, MakeAnswered(m) PROVE TypeOK'
  BY <1>18 DEF MakeAnswered, TypeOK, server
<1>19. ASSUME NEW c \in Chats, Open(c) PROVE TypeOK'
  <2> DEFINE Opens == [chat : Chats, owned : BOOLEAN]
             o == [chat |-> c, owned |-> owner[c] # None]
  <2>1. o \in Opens
    <3>1. (owner[c] # None) \in BOOLEAN OBVIOUS
    <3> QED BY <3>1
  <2>2. opening' = opening \union {o} BY <1>19 DEF Open
  <2> HIDE DEF o
  <2>3. opening' \in SUBSET Opens BY <2>1, <2>2 DEF TypeOK
  <2> QED BY <1>19, <2>3 DEF Open, TypeOK, server
<1>20. ASSUME NEW o \in opening, Opened(o) PROVE TypeOK'
  BY <1>20 DEF Opened, TypeOK, server
<1>21. CASE UNCHANGED vars BY <1>21 DEF vars, TypeOK, server, page
<1> QED
  BY <1>1, <1>2, <1>3, <1>4, <1>5, <1>6, <1>8, <1>9, <1>10, <1>11, <1>12, <1>13,
     <1>14, <1>15, <1>16, <1>17, <1>18, <1>19, <1>20, <1>21, <1>22 DEF Next

-----------------------------------------------------------------------------
(* Theorems *)

\* Nothing is issued, minted or owned at first.
LEMMA IInvInit ==
    ASSUME Init
    PROVE  IInv
<1> USE AccountsAssumption
<1>1. TypeOK BY FS_EmptySet DEF Init, TypeOK
<1>2. NoncesInv BY DEF Init, NoncesInv
<1>3. FlowsInv /\ ProvenInv BY DEF Init, FlowsInv, ProvenInv
<1>4. ChatsInv BY DEF Init, ChatsInv
<1>5. SessionsAreProven BY DEF Init, SessionsAreProven
<1>6. BornOwnedStays BY DEF Init, BornOwnedStays
<1> QED BY <1>1, <1>2, <1>3, <1>4, <1>5, <1>6 DEF IInv

\* The inductive step, conjunct by conjunct.
LEMMA IInvStep ==
    ASSUME IInv, [Next]_vars
    PROVE  IInv'
BY TypeStep, NoncesStep, ProvenStep, FlowsStep, ChatsStep, SessionsStep, OwnersStep
   DEF IInv

\* The inductive invariant holds always.
THEOREM AccountsInvariance == Spec => []IInv
<1>1. Init => IInv BY IInvInit
<1>2. IInv /\ [Next]_vars => IInv' BY IInvStep
<1> QED BY <1>1, <1>2, PTL DEF Spec

\* Type correctness; the pending nonces keep to their cap.
THEOREM AccountsTypes == Spec => []TypeOK
<1>1. IInv => TypeOK BY DEF IInv
<1> QED BY <1>1, AccountsInvariance, PTL

\* Every session was earned by a nonce of its wallet that was fresh when it was
\* checked, signed by that wallet, and no nonce gave two, whatever happened
\* between the check and the token (verifySignIn, auth.ts).
THEOREM SessionsWereEarned == Spec => []SessionsAreProven
<1>1. IInv => SessionsAreProven BY DEF IInv
<1> QED BY <1>1, AccountsInvariance, PTL

\* No claim, not even one that read before another wallet's was written,
\* changes the owner of a chat that was made under a session.
THEOREM MadeUnderASessionStays == Spec => []BornOwnedStays
<1>1. IInv => BornOwnedStays BY DEF IInv
<1> QED BY <1>1, AccountsInvariance, PTL

\* Only a sign-in that is not cancelled sets the user, and such a sign-in is
\* of the connected wallet.
LEMMA UserStep ==
    ASSUME TypeOK, FlowsInv, [Next]_vars, user' # user, user' # None
    PROVE  user'.wallet = wallet'
<1>1. ASSUME NEW i \in DOMAIN flows, SignedIn(i) \/ Settled(i)
      PROVE  user'.wallet = wallet'
  <2>1. user' = flows[i].token /\ ~flows[i].cancelled /\ wallet' = wallet
    BY <1>1 DEF SignedIn, Settled
  <2> QED BY <2>1 DEF FlowsInv
<1>2. ASSUME NEW w \in Wallets \union {None}, WalletChanges(w) PROVE FALSE
  BY <1>2, Leftovers, EffectFlows DEF WalletChanges
<1>3. CASE Reload
  <2>1. wallet \in Wallets \union {None} BY DEF TypeOK
  <2>2. user' \in {user, None} BY <1>3, <2>1, Leftovers, EffectFlows DEF Reload
  <2> QED BY <2>2
<1>4. CASE Tick \/ Restart BY <1>4 DEF Tick, Restart, page
<1>5. ASSUME NEW i \in DOMAIN flows,
             AskNonce(i) \/ Sign(i) \/ Connect(i) \/ Issue(i) \/ ConnectRefused(i)
             \/ Declined(i) \/ SignInLost(i)
      PROVE  FALSE
  BY <1>5 DEF AskNonce, Sign, Connect, Issue, ConnectRefused, Declined, SignInLost,
     SignedOut
<1>6. ASSUME NEW c \in claims, ClaimRead(c) \/ ClaimWrite(c) \/ ClaimLost(c)
      PROVE  FALSE
  BY <1>6 DEF ClaimRead, ClaimWrite, ClaimLost, page
<1>7. ASSUME NEW c \in Chats, Make(c) \/ Open(c) PROVE FALSE
  BY <1>7 DEF Make, Open
<1>8. ASSUME NEW m \in making, MakeServed(m) \/ MakeAnswered(m) PROVE FALSE
  BY <1>8 DEF MakeServed, MakeAnswered
<1>9. ASSUME NEW o \in opening, Opened(o) PROVE FALSE
  BY <1>9 DEF Opened
<1>10. CASE UNCHANGED vars BY <1>10 DEF vars, page
<1> QED
  BY <1>1, <1>2, <1>3, <1>4, <1>5, <1>6, <1>7, <1>8, <1>9, <1>10 DEF Next

\* A late sign-in never makes the page another wallet's than the connected
\* one (the cancelled flag of WalletUserSync.tsx).
THEOREM LateSignInsChangeNobody == Spec => SignsInConnectedWallet
<1>1. IInv /\ [Next]_vars => (user' # user /\ user' # None => user'.wallet = wallet')
  BY UserStep DEF IInv
<1>2. IInv /\ [Next]_vars
        => [user' # user /\ user' # None => user'.wallet = wallet']_vars
  BY <1>1
<1> QED BY <1>2, AccountsInvariance, PTL DEF Spec, SignsInConnectedWallet
=============================================================================
