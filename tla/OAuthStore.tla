----------------------------- MODULE OAuthStore -----------------------------
(***************************************************************************)
(* The OAuth store of oauth.go and the gate in front of the HTTP server    *)
(* (security.go).  An authorization gives out a code, a token request      *)
(* exchanges it in three steps: it takes the code out of the store under   *)
(* the mutex, checks its copy without it, and takes the mutex again to add *)
(* the token.  Entries that have expired stay until something prunes them. *)
(*                                                                         *)
(* A code has the name of its grant and a token that of its exchange, as   *)
(* randomToken never repeats itself.  A critical section reads the clock   *)
(* once; between two of them time may pass.  A verifier is known by the    *)
(* challenge it hashes to.  Requests that are turned down before they      *)
(* touch the store are not steps.                                          *)
(***************************************************************************)
EXTENDS Integers, PartialMaps

CONSTANTS
  Grants,        \* authorization requests that may succeed
  Exchanges,     \* token requests
  Asks,          \* what an authorization request may ask for
  Forms,         \* what a token request may say
  Client,        \* the client_id the operator configured
  RedirectURIs,  \* the registered URIs, without their ports
  CodeLifetime, TokenLifetime,
  UseKey,        \* an auth key is configured too
  UseAllowlist,  \* an address allowlist is configured
  MaxTime,       \* bound: instants of the clock
  MaxRestarts,   \* bound: restarts of the server
  Never          \* no code

ASSUME GrantAssumption == Never \notin Grants
ASSUME LifetimeAssumption ==
  CodeLifetime \in Nat /\ TokenLifetime \in Nat /\ MaxTime \in Nat /\ MaxRestarts \in Nat

VARIABLES
  now,           \* the monotonic clock
  restarts,
  codes,         \* s.codes
  tokens,        \* s.tokens: the last instant of each
  pc,            \* where each token request is
  form,          \* what it said
  code,          \* its copy of the entry it took, if there was one
  answer,        \* what each authorization led to: the entry as it was issued
  takers,        \* the exchanges that found the code of each grant
  until          \* the last instant of each token, as its client was told

vars == <<now, restarts, codes, tokens, pc, form, code, answer, takers, until>>
exchangeVars == <<pc, form, code>>
clientVars == <<answer, takers, until>>

NoForm == [code |-> Never]
NoEntry == [client |-> Never]
Entry == [client : {Client}, redirect : {a.redirect : a \in Asks},
          challenge : {a.challenge : a \in Asks}, expiresAt : Nat]

TypeOK ==
  /\ now \in 0..MaxTime
  /\ restarts \in 0..MaxRestarts
  /\ DOMAIN codes \subseteq Grants /\ \A g \in DOMAIN codes : codes[g] \in Entry
  /\ DOMAIN tokens \subseteq Exchanges /\ \A e \in DOMAIN tokens : tokens[e] \in Nat
  /\ pc \in [Exchanges -> {"new", "taken", "passed", "granted", "refused", "lost"}]
  /\ form \in [Exchanges -> Forms \cup {NoForm}]
  /\ code \in [Exchanges -> Entry \cup {NoEntry}]
  /\ answer \in [Grants -> Entry \cup {NoEntry}]
  /\ takers \in [Grants -> SUBSET Exchanges]
  /\ until \in [Exchanges -> Nat]

-----------------------------------------------------------------------------
\* now.After(expiresAt): the last instant is still good.
After(t, last) == t > last

PrunedCodes == Only(codes, {g \in DOMAIN codes : ~After(now, codes[g].expiresAt)})
PrunedTokens == Only(tokens, {e \in DOMAIN tokens : ~After(now, tokens[e])})

Init ==
  /\ now = 0 /\ restarts = 0
  /\ codes = EmptyMap /\ tokens = EmptyMap
  /\ pc = [e \in Exchanges |-> "new"]
  /\ form = [e \in Exchanges |-> NoForm]
  /\ code = [e \in Exchanges |-> NoEntry]
  /\ answer = [g \in Grants |-> NoEntry]
  /\ takers = [g \in Grants |-> {}]
  /\ until = [e \in Exchanges |-> 0]

\* The port of a loopback redirect is the client's to choose.
Registered(redirect) == redirect.uri \in RedirectURIs

Authorizes(ask) ==
  /\ ask.responseType = "code"
  /\ ask.challenge # ""
  /\ ask.method \in {"", "S256"}
  /\ ask.client = Client
  /\ Registered(ask.redirect)

(* Mutant: only token requests prune. *)
AuthorizeUnpruned(g, ask) ==
  /\ answer[g] = NoEntry
  /\ Authorizes(ask)
  /\ LET entry == [client |-> ask.client, redirect |-> ask.redirect,
                   challenge |-> ask.challenge, expiresAt |-> now + CodeLifetime]
     IN  /\ codes' = With(codes, g, entry)
         /\ answer' = [answer EXCEPT ![g] = entry]
  /\ UNCHANGED <<now, restarts, tokens, takers, until, exchangeVars>>

Authorize(g, ask) ==
  /\ answer[g] = NoEntry
  /\ Authorizes(ask)
  /\ LET entry == [client |-> ask.client, redirect |-> ask.redirect,
                   challenge |-> ask.challenge, expiresAt |-> now + CodeLifetime]
     IN  /\ codes' = With(PrunedCodes, g, entry)
         /\ answer' = [answer EXCEPT ![g] = entry]
  /\ tokens' = PrunedTokens
  /\ UNCHANGED <<now, restarts, takers, until, exchangeVars>>

\* handleToken, first section: whatever the checks will say, the code is gone.
Take(e, f) ==
  /\ pc[e] = "new"
  /\ f.grantType = "authorization_code"
  /\ f.code \in DOMAIN codes
  /\ pc' = [pc EXCEPT ![e] = "taken"]
  /\ form' = [form EXCEPT ![e] = f]
  /\ code' = [code EXCEPT ![e] = codes[f.code]]
  /\ codes' = Without(codes, f.code)
  /\ takers' = [takers EXCEPT ![f.code] = @ \cup {e}]
  /\ UNCHANGED <<now, restarts, tokens, answer, until>>

TakeUnknown(e, f) ==
  /\ pc[e] = "new"
  /\ f.grantType = "authorization_code"
  /\ f.code \notin DOMAIN codes
  /\ pc' = [pc EXCEPT ![e] = "refused"]
  /\ UNCHANGED <<now, restarts, codes, tokens, form, code, clientVars>>

(* Mutant: redirects are compared as in the authorization, without ports. *)
PassesOnAnyPort(e) ==
  /\ code[e].client = form[e].client
  /\ code[e].redirect.uri = form[e].redirect.uri
  /\ ~After(now, code[e].expiresAt)
  /\ form[e].verifier # "" /\ form[e].verifier = code[e].challenge
  /\ form[e].secretKnown

Passes(e) ==
  /\ code[e].client = form[e].client
  /\ code[e].redirect = form[e].redirect
  /\ ~After(now, code[e].expiresAt)
  /\ form[e].verifier # "" /\ form[e].verifier = code[e].challenge
  /\ form[e].secretKnown

\* Between the sections: the checks, on the copy.
Verify(e) ==
  /\ pc[e] = "taken"
  /\ Passes(e)
  /\ pc' = [pc EXCEPT ![e] = "passed"]
  /\ UNCHANGED <<now, restarts, codes, tokens, form, code, clientVars>>

(* Mutant: a request that fails gives the code back. *)
RefuseReturning(e) ==
  /\ pc[e] = "taken"
  /\ ~Passes(e)
  /\ pc' = [pc EXCEPT ![e] = "refused"]
  /\ codes' = With(codes, form[e].code, code[e])
  /\ form' = [form EXCEPT ![e] = NoForm]
  /\ code' = [code EXCEPT ![e] = NoEntry]
  /\ UNCHANGED <<now, restarts, tokens, clientVars>>

Refuse(e) ==
  /\ pc[e] = "taken"
  /\ ~Passes(e)
  /\ pc' = [pc EXCEPT ![e] = "refused"]
  /\ form' = [form EXCEPT ![e] = NoForm]
  /\ code' = [code EXCEPT ![e] = NoEntry]
  /\ UNCHANGED <<now, restarts, codes, tokens, clientVars>>

\* Second section.
Mint(e) ==
  /\ pc[e] = "passed"
  /\ pc' = [pc EXCEPT ![e] = "granted"]
  /\ form' = [form EXCEPT ![e] = NoForm]
  /\ code' = [code EXCEPT ![e] = NoEntry]
  /\ codes' = PrunedCodes
  /\ tokens' = With(PrunedTokens, e, now + TokenLifetime)
  /\ until' = [until EXCEPT ![e] = now + TokenLifetime]
  /\ UNCHANGED <<now, restarts, answer, takers>>

-----------------------------------------------------------------------------
(* The gate: the allowlist outermost, then the bearer check, then the mux. *)

PublicPaths == {"/health", "/oauth"}
Bearers == Exchanges \cup {"none", "key", "other"}
Requests == [path : PublicPaths \cup {"/mcp"}, listed : BOOLEAN, bearer : Bearers]

(* Mutant: expiry is left to the pruning. *)
ValidTokenIfStored(t) == t \in DOMAIN tokens

ValidToken(t) == t \in DOMAIN tokens /\ ~After(now, tokens[t])

AuthAdmits(r) ==
  \/ r.path \in PublicPaths
  \/ UseKey /\ r.bearer = "key"
  \/ ValidToken(r.bearer)

AllowlistAdmits(r) == r.path = "/health" \/ r.listed

Served(r) == (UseAllowlist => AllowlistAdmits(r)) /\ AuthAdmits(r)

\* A request under a token that has expired also removes it.
Validate(t) ==
  /\ t \in DOMAIN tokens
  /\ ~ValidToken(t)
  /\ tokens' = Without(tokens, t)
  /\ UNCHANGED <<now, restarts, codes, exchangeVars, clientVars>>

-----------------------------------------------------------------------------
Tick ==
  /\ now < MaxTime
  /\ now' = now + 1
  /\ UNCHANGED <<restarts, codes, tokens, exchangeVars, clientVars>>

\* The state is per process: a new one starts empty, and the requests that
\* were under way go down with the old one.
Restart ==
  /\ restarts < MaxRestarts
  /\ restarts' = restarts + 1
  /\ codes' = EmptyMap /\ tokens' = EmptyMap
  /\ pc' = [e \in Exchanges |-> IF pc[e] \in {"new", "refused"} THEN pc[e] ELSE "lost"]
  /\ form' = [e \in Exchanges |-> NoForm]
  /\ code' = [e \in Exchanges |-> NoEntry]
  /\ UNCHANGED <<now, clientVars>>

Next ==
  \/ Tick \/ Restart
  \/ \E g \in Grants, ask \in Asks : Authorize(g, ask)
  \/ \E e \in Exchanges :
       \/ \E f \in Forms : Take(e, f) \/ TakeUnknown(e, f)
       \/ Verify(e) \/ Refuse(e) \/ Mint(e) \/ Validate(e)

Spec == Init /\ [][Next]_vars
-----------------------------------------------------------------------------
(* Properties *)

\* A code is found by one token request at most, however many carry it at
\* once and whatever becomes of the first (handleToken deletes it before the
\* checks).
FoundOnce == \A g \in Grants : \A e, f \in takers[g] : e = f

\* A token is due only to a request that named the code of a grant made to
\* the same client, redirect and challenge: the copy it was checked against
\* is the entry of that code, whatever was stored and pruned meanwhile.
DueToItsGrant ==
  \A e \in Exchanges : pc[e] = "passed" =>
    LET f == form[e]
        g == f.code
    IN  /\ g \in Grants /\ takers[g] = {e}
        /\ f.client = answer[g].client
        /\ f.redirect = answer[g].redirect
        /\ f.verifier = answer[g].challenge

\* What its client was told of a token is what the gate does with it: a
\* request other than for a public path is served to the configured key and,
\* until their last instant or a restart, to tokens; from addresses on the
\* list only, except for /health.  So pruning and the removal of expired
\* tokens change no answer.
ServedExactly ==
  \A r \in Requests :
    Served(r) <=>
      /\ r.path # "/health" /\ UseAllowlist => r.listed
      /\ \/ r.path # "/mcp"
         \/ r.bearer = "key" /\ UseKey
         \/ \E e \in Exchanges : e = r.bearer /\ pc[e] = "granted" /\ now <= until[e]

\* The store keeps nothing that has expired past the next change that adds
\* an entry (pruneLocked: "so the maps cannot grow without bound").
AddingPrunes ==
  [][DOMAIN codes' \ DOMAIN codes # {} \/ DOMAIN tokens' \ DOMAIN tokens # {} =>
       /\ \A g \in DOMAIN codes' : now' <= codes'[g].expiresAt
       /\ \A e \in DOMAIN tokens' : now' <= tokens'[e]]_vars

\* The store with its expired entries does what a store does that forgets a
\* code and a token at the instant they expire.
issuedBar == {g \in Grants : answer[g] # NoEntry}
spentBar == {e \in Exchanges : pc[e] # "new"}
approvedBar == {e \in Exchanges : pc[e] = "passed"}
codesBar ==
  [g \in {h \in DOMAIN codes : now <= codes[h].expiresAt} |-> codes[g].expiresAt]
heldBar ==
  [e \in {x \in Exchanges : pc[x] = "taken" /\ now <= code[x].expiresAt} |-> code[e].expiresAt]
tokensBar == [e \in {x \in DOMAIN tokens : now <= tokens[x]} |-> tokens[e]]

Grant == INSTANCE CodeGrant WITH
  issued <- issuedBar,
  codes <- codesBar,
  spent <- spentBar,
  held <- heldBar,
  approved <- approvedBar,
  tokens <- tokensBar

ImplementsGrant == Grant!Spec
=============================================================================
