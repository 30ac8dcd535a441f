----------------------------- MODULE Accounts -----------------------------
(***************************************************************************)
(* Who a browser is, and whose its chats are: signing in with a wallet     *)
(* (nonce, signature, session token), the session that rides on every      *)
(* request, chats made with and without one, and the claim that moves this *)
(* browser's anonymous chats to the wallet that connected.  One browser    *)
(* tab, several wallets, one server process that may restart.              *)
(***************************************************************************)
EXTENDS Integers, Sequences, FiniteSets

CONSTANTS
    Wallets, Chats,
    None,          \* no wallet, no user, no owner, no token
    MaxPending,    \* MAX_PENDING_NONCES
    NonceTtl, SessionTtl,
    HasSecret,     \* AUTH_SECRET is set
    MaxTime,       \* bound: clock
    MaxFlows,      \* bound: sign-ins of one browser
    MaxFaults      \* bound: lost requests, server restarts and page reloads

NoChat == "not created"

ASSUME AccountsAssumption ==
    /\ None \notin Wallets /\ NoChat \notin Wallets \union {None}
    /\ MaxPending \in Nat \ {0}
    /\ NonceTtl \in Nat \ {0} /\ SessionTtl \in Nat \ {0}
    /\ HasSecret \in BOOLEAN
    /\ MaxTime \in Nat /\ MaxFlows \in Nat /\ MaxFaults \in Nat

VARIABLES
    now, faults,
    nonces,        \* pendingNonces; the Map's order is that of their numbers
    issued,        \* nonces issued so far, each with a new number
    secret,        \* changes with every process when it is random
    minted,        \* the session tokens ever created
    owner,         \* userId of each chat; None while it is anonymous
    born,          \* the owner each chat was created with; NoChat before
    wallet,        \* the account the wallet is connected with
    user,          \* currentUser, which is also the cached one
    anon,          \* localAnonymousChatIds
    flows,         \* runs of the WalletUserSync effect
    claims,        \* claim requests under way
    making,        \* start-generation requests under way
    opening        \* chat page loads under way

server == <<nonces, issued, secret, minted, owner, born>>
page == <<wallet, user, anon, flows, making, opening>>
vars == <<now, faults, server, page, claims>>

Tokens == [wallet : Wallets, nonce : Nat, signer : Wallets, issuedAt : Nat,
           provenAt : Nat, expires : Nat, secret : Nat]
Nonces == [nonce : Nat, wallet : Wallets, at : Nat]
\* At "issue" the request has proven itself and waits for its user's row.
Flows == [wallet : Wallets,
          step : {"nonce", "sign", "connect", "issue", "answer", "claim", "over"},
          cancelled : BOOLEAN, nonce : Nat, signer : Wallets \union {None},
          issuedAt : Nat, provenAt : Nat, token : Tokens \union {None}]
Claims == [flow : Nat, chat : Chats, token : Tokens, read : BOOLEAN]

TypeOK ==
    /\ now \in Nat /\ faults \in Nat /\ issued \in Nat /\ secret \in Nat
    /\ nonces \in SUBSET Nonces
    /\ IsFiniteSet(nonces) /\ Cardinality(nonces) <= MaxPending
    /\ minted \in SUBSET Tokens
    /\ owner \in [Chats -> Wallets \union {None}]
    /\ born \in [Chats -> Wallets \union {None, NoChat}]
    /\ wallet \in Wallets \union {None}
    /\ user \in minted \union {None}
    /\ anon \in SUBSET Chats
    /\ flows \in Seq(Flows)
    /\ claims \in SUBSET Claims
    /\ making \in SUBSET [chat : Chats, token : Tokens \union {None}, made : BOOLEAN]
    /\ opening \in SUBSET [chat : Chats, owned : BOOLEAN]

Init ==
    /\ now = 0 /\ faults = 0
    /\ nonces = {} /\ issued = 0 /\ secret = 0 /\ minted = {}
    /\ owner = [c \in Chats |-> None] /\ born = [c \in Chats |-> NoChat]
    /\ wallet = None /\ user = None /\ anon = {}
    /\ flows = <<>> /\ claims = {} /\ making = {} /\ opening = {}

-----------------------------------------------------------------------------
(* Sessions on the server *)

\* verifySessionToken
Valid(t) == t # None /\ t.secret = secret /\ now < t.expires

\* requesterUserId: the session's user; a user is one wallet.
Requester(t) == IF Valid(t) THEN t.wallet ELSE None

CanAccess(c, t) == born[c] # NoChat /\ owner[c] \in {None, Requester(t)}

Expired(n) == n.at + NonceTtl <= now

Fresh == {n \in nonces : ~Expired(n)}
Younger(n) == {m \in Fresh : m.nonce > n.nonce}

\* Slip: it prunes to the cap and not below it.
PrunedToCap == {n \in Fresh : Cardinality(Younger(n)) < MaxPending}
\* prunePendingNonces: expired ones go, then the oldest until one fits.
Pruned == {n \in Fresh : Cardinality(Younger(n)) < MaxPending - 1}

\* Slip: a signature of anybody for a known nonce.
ProvesByAnyone(f) ==
    \E n \in nonces :
        /\ n.nonce = f.nonce
        /\ ~Expired(n)
        /\ n.wallet = f.wallet
\* verifySignIn: the nonce is known, fresh and this wallet's, and the wallet
\* signed its message.
Proves(f) ==
    \E n \in nonces :
        /\ n.nonce = f.nonce
        /\ ~Expired(n)
        /\ n.wallet = f.wallet
        /\ f.signer = f.wallet

Without(k) == {n \in nonces : n.nonce # k}

\* createSessionToken; when the nonce was issued and proven is history.
Token(f) ==
    [wallet |-> f.wallet, nonce |-> f.nonce, signer |-> f.signer,
     issuedAt |-> f.issuedAt, provenAt |-> f.provenAt,
     expires |-> now + SessionTtl, secret |-> secret]

-----------------------------------------------------------------------------
(* WalletUserSync *)

ASignIn(w) == [wallet |-> w, step |-> "nonce", cancelled |-> FALSE, nonce |-> 0,
               signer |-> None, issuedAt |-> 0, provenAt |-> 0, token |-> None]
Reuse(w) == [ASignIn(w) EXCEPT !.step = IF anon = {} THEN "over" ELSE "claim"]

AllOver == [i \in DOMAIN flows |-> [flows[i] EXCEPT !.step = "over", !.cancelled = TRUE]]
AllCancelled == [i \in DOMAIN flows |-> [flows[i] EXCEPT !.cancelled = TRUE]]

\* claimAnonymousChats of flow i, with the token that requests carry by then.
ClaimsOf(i, token) == [flow : {i}, chat : anon, token : {token}, read : {FALSE}]

\* The effect for the account w; before is what its cleanup left of the others.
Effect(w, before) ==
    IF w = None
    THEN /\ user' = None /\ flows' = before /\ UNCHANGED claims
    ELSE /\ Len(flows) < MaxFlows
         /\ UNCHANGED user
         /\ IF user # None /\ user.wallet = w
            THEN /\ flows' = Append(before, Reuse(w))
                 /\ claims' = claims \union ClaimsOf(Len(flows) + 1, user)
            ELSE /\ flows' = Append(before, ASignIn(w))
                 /\ UNCHANGED claims

WalletChanges(w) ==
    /\ w # wallet
    /\ wallet' = w
    /\ Effect(w, AllCancelled)
    /\ UNCHANGED <<now, faults, server, anon, making, opening>>

\* The page is gone with everything that waits in it; requests under way are
\* not, and the cached user is read again.
Reload ==
    /\ faults < MaxFaults
    /\ faults' = faults + 1
    /\ opening' = {}
    /\ making' = {m \in making : ~m.made}
    /\ Effect(wallet, AllOver)
    /\ UNCHANGED <<now, server, wallet, anon>>

Advance(i, fields) == flows' = [flows EXCEPT ![i] = fields]

AskNonce(i) ==
    /\ flows[i].step = "nonce"
    /\ nonces' = Pruned \union {[nonce |-> issued + 1, wallet |-> flows[i].wallet, at |-> now]}
    /\ issued' = issued + 1
    /\ Advance(i, [flows[i] EXCEPT !.step = "sign", !.nonce = issued + 1])
    /\ UNCHANGED <<now, faults, secret, minted, owner, born, wallet, user, anon,
                   claims, making, opening>>

\* signMessageAsync signs with the account that is connected by now.
Sign(i) ==
    /\ flows[i].step = "sign" /\ wallet # None
    /\ Advance(i, [flows[i] EXCEPT !.step = "connect", !.signer = wallet])
    /\ UNCHANGED <<now, faults, server, wallet, user, anon, claims, making, opening>>

\* POST /api/users/connect that verifies, up to the upsert of the user
Connect(i) ==
    /\ flows[i].step = "connect" /\ Proves(flows[i])
    /\ nonces' = Without(flows[i].nonce)
    /\ Advance(i, [flows[i] EXCEPT
                      !.step = "issue", !.provenAt = now,
                      !.issuedAt = (CHOOSE n \in nonces : n.nonce = flows[i].nonce).at])
    /\ UNCHANGED <<now, faults, issued, secret, minted, owner, born, wallet, user,
                   anon, claims, making, opening>>

\* The user's row is there.
Issue(i) ==
    /\ flows[i].step = "issue"
    /\ minted' = minted \union {Token(flows[i])}
    /\ Advance(i, [flows[i] EXCEPT !.step = "answer", !.token = Token(flows[i])])
    /\ UNCHANGED <<now, faults, nonces, issued, secret, owner, born, wallet, user,
                   anon, claims, making, opening>>

\* The effect's catch: whoever was signed in no longer is, if this is still
\* the current effect.
SignedOut(i) ==
    /\ Advance(i, [flows[i] EXCEPT !.step = "over"])
    /\ user' = IF flows[i].cancelled THEN user ELSE None

ConnectRefused(i) ==
    /\ flows[i].step = "connect" /\ ~Proves(flows[i])
    /\ nonces' = Without(flows[i].nonce)
    /\ SignedOut(i)
    /\ UNCHANGED <<now, faults, issued, secret, minted, owner, born, wallet, anon,
                   claims, making, opening>>

Declined(i) ==
    /\ flows[i].step = "sign"
    /\ SignedOut(i)
    /\ UNCHANGED <<now, faults, server, wallet, anon, claims, making, opening>>

SignInLost(i) ==
    /\ faults < MaxFaults
    /\ flows[i].step \in {"nonce", "connect", "issue", "answer"}
    /\ faults' = faults + 1
    /\ SignedOut(i)
    /\ UNCHANGED <<now, server, wallet, anon, claims, making, opening>>

\* Slip: a cancelled effect signs in all the same.
SignedInLate(i) ==
    /\ flows[i].step = "answer"
    /\ user' = flows[i].token
    /\ Advance(i, [flows[i] EXCEPT !.step = IF anon = {} THEN "over" ELSE "claim"])
    /\ claims' = claims \union ClaimsOf(i, flows[i].token)
    /\ UNCHANGED <<now, faults, server, wallet, anon, making, opening>>

SignedIn(i) ==
    /\ flows[i].step = "answer"
    /\ IF flows[i].cancelled
       THEN /\ Advance(i, [flows[i] EXCEPT !.step = "over"])
            /\ UNCHANGED <<user, claims>>
       ELSE /\ user' = flows[i].token
            /\ Advance(i, [flows[i] EXCEPT !.step = IF anon = {} THEN "over" ELSE "claim"])
            /\ claims' = claims \union ClaimsOf(i, flows[i].token)
    /\ UNCHANGED <<now, faults, server, wallet, anon, making, opening>>

\* Promise.allSettled: whatever came of the claims, the list is cleared.
Settled(i) ==
    /\ flows[i].step = "claim"
    /\ \A c \in claims : c.flow # i
    /\ Advance(i, [flows[i] EXCEPT !.step = "over"])
    /\ IF flows[i].cancelled
       THEN UNCHANGED <<user, anon>>
       ELSE /\ anon' = {}
            /\ user' = IF flows[i].token = None THEN user ELSE flows[i].token
    /\ UNCHANGED <<now, faults, server, wallet, claims, making, opening>>

-----------------------------------------------------------------------------
(* POST /api/chats/:chatId/claim: a read, and a write in a second call *)

\* Slip: the owner is not looked at.
ClaimAny(c) ==
    /\ ~c.read
    /\ claims' = (claims \ {c}) \union {d \in {[c EXCEPT !.read = TRUE]} : Valid(c.token)}
    /\ UNCHANGED <<now, faults, server, page>>

\* 401, 403, already this wallet's, or anonymous as far as it looks.
ClaimRead(c) ==
    /\ ~c.read
    /\ claims' = (claims \ {c}) \union
                     {d \in {[c EXCEPT !.read = TRUE]} : Valid(c.token) /\ owner[c.chat] = None}
    /\ UNCHANGED <<now, faults, server, page>>

ClaimWrite(c) ==
    /\ c.read
    /\ owner' = [owner EXCEPT ![c.chat] = c.token.wallet]
    /\ claims' = claims \ {c}
    /\ UNCHANGED <<now, faults, nonces, issued, secret, minted, born, page>>

ClaimLost(c) ==
    /\ faults < MaxFaults /\ ~c.read
    /\ faults' = faults + 1
    /\ claims' = claims \ {c}
    /\ UNCHANGED <<now, server, page>>

-----------------------------------------------------------------------------
(* Chats *)

\* onGenerate: a connected wallet is enough, a session is not asked for.
Make(c) ==
    /\ wallet # None /\ born[c] = NoChat
    /\ \A m \in making : m.chat # c
    /\ making' = making \union {[chat |-> c, token |-> user, made |-> FALSE]}
    /\ UNCHANGED <<now, faults, server, wallet, user, anon, flows, claims, opening>>

MakeServed(m) ==
    /\ ~m.made
    /\ born' = [born EXCEPT ![m.chat] = Requester(m.token)]
    /\ owner' = [owner EXCEPT ![m.chat] = Requester(m.token)]
    /\ making' = (making \ {m}) \union {[m EXCEPT !.made = TRUE]}
    /\ UNCHANGED <<now, faults, nonces, issued, secret, minted, wallet, user, anon,
                   flows, claims, opening>>

\* Remembered when nobody is signed in by then; then the chat's page opens.
MakeAnswered(m) ==
    /\ m.made
    /\ making' = making \ {m}
    /\ anon' = IF user = None THEN anon \union {m.chat} ELSE anon
    /\ UNCHANGED <<now, faults, server, wallet, user, flows, claims, opening>>

\* The chat page: the server answers if it may, the page remembers what it
\* was shown without an owner.
Open(c) ==
    /\ CanAccess(c, user)
    /\ \A m \in making : m.chat # c
    /\ opening' = opening \union {[chat |-> c, owned |-> owner[c] # None]}
    /\ UNCHANGED <<now, faults, server, wallet, user, anon, flows, claims, making>>

Opened(o) ==
    /\ opening' = opening \ {o}
    /\ anon' = IF o.owned THEN anon ELSE anon \union {o.chat}
    /\ UNCHANGED <<now, faults, server, wallet, user, flows, claims, making>>

-----------------------------------------------------------------------------
Tick ==
    /\ now < MaxTime
    /\ now' = now + 1
    /\ UNCHANGED <<faults, server, page, claims>>

\* The process starts again: the nonces are gone, and a random secret is new.  A
\* sign-in that waited for its user fails as one whose nonce is not known.
Restart ==
    /\ faults < MaxFaults
    /\ faults' = faults + 1
    /\ nonces' = {}
    /\ secret' = IF HasSecret THEN secret ELSE secret + 1
    /\ flows' = [i \in DOMAIN flows |->
                    IF flows[i].step = "issue" THEN [flows[i] EXCEPT !.step = "connect"]
                    ELSE flows[i]]
    /\ UNCHANGED <<now, issued, minted, owner, born, wallet, user, anon, making,
                   opening, claims>>

Next ==
    \/ \E w \in Wallets \union {None} : WalletChanges(w)
    \/ Reload \/ Tick \/ Restart
    \/ \E i \in DOMAIN flows :
           \/ AskNonce(i) \/ Sign(i) \/ Connect(i) \/ Issue(i) \/ ConnectRefused(i)
           \/ Declined(i) \/ SignInLost(i) \/ SignedIn(i) \/ Settled(i)
    \/ \E c \in claims : ClaimRead(c) \/ ClaimWrite(c) \/ ClaimLost(c)
    \/ \E c \in Chats : Make(c) \/ Open(c)
    \/ \E m \in making : MakeServed(m) \/ MakeAnswered(m)
    \/ \E o \in opening : Opened(o)

Spec == Init /\ [][Next]_vars

-----------------------------------------------------------------------------
\* Every session was earned: its wallet signed a nonce that was issued for it
\* less than NonceTtl before it was checked, no nonce gave two sessions, and a
\* session counts from its making, however long its user's row took.
SessionsAreProven ==
    \A t \in minted :
        /\ t.signer = t.wallet
        /\ t.provenAt < t.issuedAt + NonceTtl
        /\ t.provenAt + SessionTtl <= t.expires
        /\ \A u \in minted : u.nonce = t.nonce => u = t

\* A chat created under a session stays its wallet's, whatever is claimed.
BornOwnedStays ==
    \A c \in Chats : born[c] \in Wallets => owner[c] = born[c]

\* A sign-in that comes to its end late, after the wallet changed, never makes
\* the page another wallet's than the connected one.
SignsInConnectedWallet ==
    [][user' # user /\ user' # None => user'.wallet = wallet']_vars

\* A claim never takes a chat from a wallet that owns it
\* (chat-routes.ts:387-389: "only when it is currently unowned, so a chat can
\* never be taken from whichever user already owns it").
OwnerKept ==
    [][\A c \in Chats : owner[c] # None => owner'[c] = owner[c]]_vars

\* Where an anonymous chat can still be found by this browser: its list, or the
\* page that is about to put it there.
Found(c) ==
    \/ c \in anon
    \/ \E m \in making : m.chat = c
    \/ [chat |-> c, owned |-> FALSE] \in opening

\* While nothing fails, an anonymous chat that this browser listed stays listed
\* until it is claimed (WalletUserSync.tsx:13-14: "Then any chats this browser
\* started anonymously are claimed into the wallet's history").
ListedUntilClaimed ==
    [][\A c \in Chats :
           c \in anon /\ c \notin anon' => owner'[c] # None]_vars
=============================================================================
