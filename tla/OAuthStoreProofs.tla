-------------------------- MODULE OAuthStoreProofs --------------------------
(***************************************************************************)
(* Theorems about OAuthStore for any number of grants and exchanges, any   *)
(* requests and any lifetimes.                                             *)
(***************************************************************************)
EXTENDS OAuthStore, TLAPS

(* What is missing is no entry.                                            *)
LEMMA EntryIsNotNoEntry == NoEntry \notin Entry
<1> SUFFICES ASSUME NoEntry \in Entry PROVE FALSE
  OBVIOUS
<1>1. DOMAIN NoEntry = {"client"}
  BY DEF NoEntry
<1>2. "expiresAt" \in DOMAIN NoEntry
  BY DEF Entry
<1>3. QED
  BY <1>1, <1>2

-----------------------------------------------------------------------------
LEMMA TypeInit == Init => TypeOK
BY LifetimeAssumption DEF Init, TypeOK, EmptyMap

(* The entry an authorization makes is an entry.                           *)
LEMMA NewEntry ==
  ASSUME TypeOK, NEW ask \in Asks, Authorizes(ask)
  PROVE  [client |-> ask.client, redirect |-> ask.redirect,
          challenge |-> ask.challenge, expiresAt |-> now + CodeLifetime] \in Entry
<1>1. now + CodeLifetime \in Nat
  BY LifetimeAssumption DEF TypeOK
<1>2. /\ ask.client \in {Client}
      /\ ask.redirect \in {a.redirect : a \in Asks}
      /\ ask.challenge \in {a.challenge : a \in Asks}
  BY DEF Authorizes
<1>3. QED
  BY <1>1, <1>2 DEF Entry

LEMMA TypeNext == TypeOK /\ [Next]_vars => TypeOK'
<1> SUFFICES ASSUME TypeOK, [Next]_vars PROVE TypeOK'
  OBVIOUS
<1> USE LifetimeAssumption DEF TypeOK
<1>1. ASSUME NEW g \in Grants, NEW ask \in Asks, Authorize(g, ask) PROVE TypeOK'
  <2> DEFINE entry == [client |-> ask.client, redirect |-> ask.redirect,
                       challenge |-> ask.challenge, expiresAt |-> now + CodeLifetime]
  <2>1. entry \in Entry
    BY <1>1, NewEntry DEF Authorize
  <2>2. codes' = With(PrunedCodes, g, entry) /\ tokens' = PrunedTokens
        /\ answer' = [answer EXCEPT ![g] = entry]
        /\ UNCHANGED <<now, restarts, takers, until, pc, form, code>>
    BY <1>1 DEF Authorize, exchangeVars
  <2> HIDE DEF entry
  <2>3. DOMAIN codes' \subseteq Grants /\ \A h \in DOMAIN codes' : codes'[h] \in Entry
    BY <2>1, <2>2 DEF PrunedCodes, Only, With
  <2>4. DOMAIN tokens' \subseteq Exchanges /\ \A e \in DOMAIN tokens' : tokens'[e] \in Nat
    BY <2>2 DEF PrunedTokens, Only
  <2>5. QED
    BY <2>1, <2>2, <2>3, <2>4
<1>2. ASSUME NEW e \in Exchanges, NEW f \in Forms, Take(e, f) PROVE TypeOK'
  <2>1. f.code \in Grants /\ codes[f.code] \in Entry
    BY <1>2 DEF Take
  <2>2. DOMAIN codes' \subseteq Grants /\ \A h \in DOMAIN codes' : codes'[h] \in Entry
    BY <1>2 DEF Take, Without
  <2>3. takers' \in [Grants -> SUBSET Exchanges]
    BY <1>2, <2>1 DEF Take
  <2>4. QED
    BY <1>2, <2>1, <2>2, <2>3 DEF Take
<1>3. ASSUME NEW e \in Exchanges, NEW f \in Forms, TakeUnknown(e, f) PROVE TypeOK'
  BY <1>3 DEF TakeUnknown, clientVars
<1>4. ASSUME NEW e \in Exchanges, Verify(e) PROVE TypeOK'
  BY <1>4 DEF Verify, clientVars
<1>5. ASSUME NEW e \in Exchanges, Refuse(e) PROVE TypeOK'
  BY <1>5 DEF Refuse, clientVars
<1>6. ASSUME NEW e \in Exchanges, Mint(e) PROVE TypeOK'
  <2>1. DOMAIN codes' \subseteq Grants /\ \A h \in DOMAIN codes' : codes'[h] \in Entry
    BY <1>6 DEF Mint, PrunedCodes, Only
  <2>2. now + TokenLifetime \in Nat
    OBVIOUS
  <2>3. DOMAIN tokens' \subseteq Exchanges /\ \A x \in DOMAIN tokens' : tokens'[x] \in Nat
    BY <1>6, <2>2 DEF Mint, PrunedTokens, Only, With
  <2>4. UNCHANGED <<now, restarts, answer, takers>>
    BY <1>6 DEF Mint
  <2>5. /\ pc' \in [Exchanges -> {"new", "taken", "passed", "granted", "refused", "lost"}]
        /\ form' \in [Exchanges -> Forms \cup {NoForm}]
        /\ code' \in [Exchanges -> Entry \cup {NoEntry}]
        /\ until' \in [Exchanges -> Nat]
    BY <1>6, <2>2 DEF Mint
  <2>6. QED
    BY <2>1, <2>3, <2>4, <2>5
<1>7. ASSUME NEW e \in Exchanges, Validate(e) PROVE TypeOK'
  BY <1>7 DEF Validate, Without, exchangeVars, clientVars
<1>8. ASSUME Tick PROVE TypeOK'
  BY <1>8 DEF Tick, exchangeVars, clientVars
<1>9. ASSUME Restart PROVE TypeOK'
  BY <1>9 DEF Restart, EmptyMap, clientVars
<1>10. ASSUME UNCHANGED vars PROVE TypeOK'
  BY <1>10 DEF vars
<1>11. QED
  BY <1>1, <1>2, <1>3, <1>4, <1>5, <1>6, <1>7, <1>8, <1>9, <1>10 DEF Next

(* Every reachable state is well typed: the store holds entries of grants  *)
(* and tokens of exchanges only.                                           *)
THEOREM TypeCorrect == Spec => []TypeOK
BY TypeInit, TypeNext, PTL DEF Spec

-----------------------------------------------------------------------------
(* How the store, the requests under way and what the clients know go      *)
(* together.                                                               *)
Underway == {"taken", "passed"}

CodeInv ==
  \A g \in Grants :
    /\ g \in DOMAIN codes => takers[g] = {} /\ answer[g] = codes[g]
    /\ answer[g] = NoEntry => takers[g] = {}

HeldInv ==
  \A e \in Exchanges : pc[e] \in Underway =>
    /\ form[e].code \in Grants
    /\ takers[form[e].code] = {e}
    /\ code[e] = answer[form[e].code]
    /\ code[e] \in Entry

TokenInv ==
  /\ \A e \in DOMAIN tokens : pc[e] = "granted" /\ tokens[e] = until[e]
  /\ \A e \in Exchanges : pc[e] = "granted" /\ now <= until[e] => e \in DOMAIN tokens

StoreInv == TypeOK /\ CodeInv /\ HeldInv /\ FoundOnce /\ DueToItsGrant /\ TokenInv

LEMMA StoreInvInit == Init => StoreInv
<1> SUFFICES ASSUME Init PROVE StoreInv
  OBVIOUS
<1>1. CodeInv /\ HeldInv /\ FoundOnce /\ DueToItsGrant /\ TokenInv
  BY DEF Init, CodeInv, HeldInv, FoundOnce, DueToItsGrant, TokenInv, Underway, EmptyMap
<1>2. QED
  BY <1>1, TypeInit DEF StoreInv

LEMMA CodeInvNext == StoreInv /\ [Next]_vars => CodeInv'
<1> SUFFICES ASSUME StoreInv, [Next]_vars PROVE CodeInv'
  OBVIOUS
<1> USE DEF StoreInv, CodeInv, TypeOK
<1>1. ASSUME NEW g \in Grants, NEW ask \in Asks, Authorize(g, ask) PROVE CodeInv'
  <2> DEFINE entry == [client |-> ask.client, redirect |-> ask.redirect,
                       challenge |-> ask.challenge, expiresAt |-> now + CodeLifetime]
  <2>1. entry \in Entry
    BY <1>1, NewEntry DEF Authorize
  <2>2. codes' = With(PrunedCodes, g, entry) /\ answer[g] = NoEntry
        /\ answer' = [answer EXCEPT ![g] = entry] /\ takers' = takers
    BY <1>1 DEF Authorize
  <2> HIDE DEF entry
  <2>3. ASSUME NEW h \in Grants, h # g
        PROVE  /\ h \in DOMAIN codes' => takers'[h] = {} /\ answer'[h] = codes'[h]
               /\ answer'[h] = NoEntry => takers'[h] = {}
    BY <2>2, <2>3 DEF PrunedCodes, Only, With
  <2>4. takers'[g] = {} /\ answer'[g] = codes'[g]
    BY <2>2 DEF With
  <2>5. QED
    BY <2>3, <2>4
<1>2. ASSUME NEW e \in Exchanges, NEW f \in Forms, Take(e, f) PROVE CodeInv'
  <2>1. f.code \in Grants /\ answer[f.code] \in Entry
    BY <1>2 DEF Take
  <2>2. codes' = Without(codes, f.code) /\ answer' = answer
        /\ takers' = [takers EXCEPT ![f.code] = @ \cup {e}]
    BY <1>2 DEF Take
  <2>3. QED
    BY <2>1, <2>2, EntryIsNotNoEntry DEF Without
<1>3. ASSUME NEW e \in Exchanges, Mint(e) PROVE CodeInv'
  BY <1>3 DEF Mint, PrunedCodes, Only
<1>4. ASSUME Restart PROVE CodeInv'
  BY <1>4 DEF Restart, clientVars, EmptyMap
<1>5. ASSUME UNCHANGED <<codes, answer, takers>> PROVE CodeInv'
  BY <1>5
<1>6. QED
  BY <1>1, <1>2, <1>3, <1>4, <1>5
     DEF Next, vars, TakeUnknown, Verify, Refuse, Validate, Tick, clientVars

(* A code that has been found is in the store no more, so what was found   *)
(* stays as it is.                                                         *)
LEMMA FoundOnceNext == StoreInv /\ [Next]_vars => FoundOnce'
<1> SUFFICES ASSUME StoreInv, [Next]_vars PROVE FoundOnce'
  OBVIOUS
<1>1. ASSUME NEW e \in Exchanges, NEW f \in Forms, Take(e, f) PROVE FoundOnce'
  <2>1. f.code \in Grants /\ takers[f.code] = {}
        /\ takers' = [takers EXCEPT ![f.code] = @ \cup {e}]
    BY <1>1 DEF Take, StoreInv, TypeOK, CodeInv
  <2>2. QED
    BY <2>1 DEF StoreInv, TypeOK, FoundOnce
<1>2. ASSUME UNCHANGED takers PROVE FoundOnce'
  BY <1>2 DEF StoreInv, FoundOnce
<1>3. QED
  BY <1>1, <1>2 DEF Next, vars, Authorize, TakeUnknown, Verify, Refuse, Mint,
                    Validate, Tick, Restart, clientVars

LEMMA HeldInvNext == StoreInv /\ [Next]_vars => HeldInv'
<1> SUFFICES ASSUME StoreInv, [Next]_vars PROVE HeldInv'
  OBVIOUS
<1> USE DEF StoreInv, TypeOK, HeldInv, Underway
<1>1. ASSUME NEW g \in Grants, NEW ask \in Asks, Authorize(g, ask) PROVE HeldInv'
  <2>1. \A e \in Exchanges : pc[e] \in Underway => form[e].code # g
    BY <1>1, EntryIsNotNoEntry DEF Authorize
  <2>2. \A h \in Grants : h # g => answer'[h] = answer[h]
    BY <1>1 DEF Authorize
  <2>3. UNCHANGED <<pc, form, code, takers>>
    BY <1>1 DEF Authorize, exchangeVars
  <2>4. QED
    BY <2>1, <2>2, <2>3
<1>2. ASSUME NEW e \in Exchanges, NEW f \in Forms, Take(e, f) PROVE HeldInv'
  <2>1. f.code \in Grants /\ takers[f.code] = {} /\ codes[f.code] \in Entry
        /\ answer[f.code] = codes[f.code]
    BY <1>2 DEF Take, CodeInv
  <2>2. answer' = answer /\ form' = [form EXCEPT ![e] = f]
        /\ code' = [code EXCEPT ![e] = codes[f.code]]
        /\ pc' = [pc EXCEPT ![e] = "taken"]
        /\ takers' = [takers EXCEPT ![f.code] = @ \cup {e}]
    BY <1>2 DEF Take
  <2>3. form'[e] = f /\ code'[e] = codes[f.code] /\ takers'[f.code] = {e}
    BY <2>1, <2>2
  <2>4. ASSUME NEW x \in Exchanges, x # e, pc'[x] \in Underway
        PROVE  /\ form'[x].code \in Grants
               /\ takers'[form'[x].code] = {x}
               /\ code'[x] = answer'[form'[x].code]
               /\ code'[x] \in Entry
    <3>1. pc'[x] = pc[x] /\ form'[x] = form[x] /\ code'[x] = code[x]
      BY <2>2, <2>4
    <3>2. takers[form[x].code] = {x}
      BY <2>4, <3>1
    <3>3. form[x].code # f.code
      BY <2>1, <3>2
    <3>4. QED
      BY <2>2, <2>4, <3>1, <3>3
  <2>5. QED
    BY <2>1, <2>2, <2>3, <2>4
<1>3. ASSUME NEW e \in Exchanges, NEW f \in Forms, TakeUnknown(e, f) PROVE HeldInv'
  BY <1>3 DEF TakeUnknown, clientVars
<1>4. ASSUME NEW e \in Exchanges, Verify(e) PROVE HeldInv'
  BY <1>4 DEF Verify, clientVars
<1>5. ASSUME NEW e \in Exchanges, Refuse(e) PROVE HeldInv'
  BY <1>5 DEF Refuse, clientVars
<1>6. ASSUME NEW e \in Exchanges, Mint(e) PROVE HeldInv'
  BY <1>6 DEF Mint
<1>7. ASSUME Restart PROVE HeldInv'
  BY <1>7 DEF Restart
<1>8. ASSUME UNCHANGED <<pc, form, code, answer, takers>> PROVE HeldInv'
  BY <1>8
<1>9. QED
  BY <1>1, <1>2, <1>3, <1>4, <1>5, <1>6, <1>7, <1>8
     DEF Next, vars, Validate, Tick, exchangeVars, clientVars

LEMMA DueNext == StoreInv /\ HeldInv' /\ [Next]_vars => DueToItsGrant'
<1> SUFFICES ASSUME StoreInv, HeldInv', [Next]_vars,
                    NEW e \in Exchanges, pc'[e] = "passed"
             PROVE  /\ form'[e].code \in Grants
                    /\ takers'[form'[e].code] = {e}
                    /\ form'[e].client = answer'[form'[e].code].client
                    /\ form'[e].redirect = answer'[form'[e].code].redirect
                    /\ form'[e].verifier = answer'[form'[e].code].challenge
  BY DEF DueToItsGrant
<1>1. /\ form'[e].code \in Grants
      /\ takers'[form'[e].code] = {e}
      /\ code'[e] = answer'[form'[e].code]
  BY DEF HeldInv, Underway
(* Only Verify makes a request pass, and it compares with the copy.        *)
<1>2. \/ pc[e] = "passed" /\ form'[e] = form[e] /\ code'[e] = code[e]
      \/ pc[e] = "taken" /\ form'[e] = form[e] /\ code'[e] = code[e] /\ Passes(e)
  <2> USE DEF StoreInv, TypeOK
  <2>1. CASE \E x \in Exchanges : Verify(x)
    BY <2>1 DEF Verify
  <2>2. CASE \E x \in Exchanges :
                Refuse(x) \/ Mint(x) \/ \E f \in Forms : Take(x, f) \/ TakeUnknown(x, f)
    BY <2>2 DEF Refuse, Mint, Take, TakeUnknown
  <2>3. CASE Restart
    BY <2>3 DEF Restart
  <2>4. CASE UNCHANGED <<pc, form, code>>
    BY <2>4
  <2>5. QED
    BY <2>1, <2>2, <2>3, <2>4
       DEF Next, vars, Authorize, Validate, Tick, exchangeVars
<1>3. /\ form[e].client = code[e].client
      /\ form[e].redirect = code[e].redirect
      /\ form[e].verifier = code[e].challenge
  <2>1. CASE pc[e] = "passed"
    BY <2>1 DEF StoreInv, HeldInv, Underway, DueToItsGrant
  <2>2. CASE pc[e] = "taken"
    BY <2>2, <1>2 DEF Passes
  <2>3. QED
    BY <2>1, <2>2, <1>2
<1>4. QED
  BY <1>1, <1>2, <1>3

LEMMA TokenInvNext == StoreInv /\ [Next]_vars => TokenInv'
<1> SUFFICES ASSUME StoreInv, [Next]_vars PROVE TokenInv'
  OBVIOUS
<1> USE DEF StoreInv, TypeOK, TokenInv
<1>1. ASSUME NEW g \in Grants, NEW ask \in Asks, Authorize(g, ask) PROVE TokenInv'
  BY <1>1 DEF Authorize, exchangeVars, PrunedTokens, Only, After
<1>2. ASSUME NEW e \in Exchanges, Mint(e) PROVE TokenInv'
  <2>1. /\ pc' = [pc EXCEPT ![e] = "granted"] /\ now' = now
        /\ tokens' = With(PrunedTokens, e, now + TokenLifetime)
        /\ until' = [until EXCEPT ![e] = now + TokenLifetime]
    BY <1>2 DEF Mint
  <2>2. e \in DOMAIN tokens' /\ tokens'[e] = now + TokenLifetime
        /\ pc'[e] = "granted" /\ until'[e] = now + TokenLifetime
    BY <2>1 DEF With
  <2>3. ASSUME NEW x, x # e
        PROVE  /\ x \in DOMAIN tokens' <=> x \in DOMAIN tokens /\ now <= tokens[x]
               /\ x \in DOMAIN tokens' => tokens'[x] = tokens[x]
    BY <2>1, <2>3 DEF With, PrunedTokens, Only, After
  <2>4. \A x \in Exchanges : x # e => pc'[x] = pc[x] /\ until'[x] = until[x]
    BY <2>1
  <2>5. QED
    BY <2>1, <2>2, <2>3, <2>4
<1>3. ASSUME NEW e \in Exchanges, Validate(e) PROVE TokenInv'
  BY <1>3 DEF Validate, ValidToken, After, Without, exchangeVars, clientVars
<1>4. ASSUME NEW e \in Exchanges, NEW f \in Forms, Take(e, f) \/ TakeUnknown(e, f)
      PROVE  TokenInv'
  BY <1>4 DEF Take, TakeUnknown, clientVars
<1>5. ASSUME NEW e \in Exchanges, Verify(e) \/ Refuse(e) PROVE TokenInv'
  BY <1>5 DEF Verify, Refuse, clientVars
<1>6. ASSUME Tick PROVE TokenInv'
  BY <1>6 DEF Tick, exchangeVars, clientVars
<1>7. ASSUME Restart PROVE TokenInv'
  BY <1>7 DEF Restart, EmptyMap, clientVars
<1>8. ASSUME UNCHANGED vars PROVE TokenInv'
  BY <1>8 DEF vars
<1>9. QED
  BY <1>1, <1>2, <1>3, <1>4, <1>5, <1>6, <1>7, <1>8 DEF Next

LEMMA StoreInvAlways == Spec => []StoreInv
<1>1. StoreInv /\ [Next]_vars => StoreInv'
  BY TypeNext, CodeInvNext, HeldInvNext, FoundOnceNext, DueNext, TokenInvNext DEF StoreInv
<1>2. QED
  BY <1>1, StoreInvInit, PTL DEF Spec

(* Every code is found by one exchange at most, in every interleaving of   *)
(* token requests.                                                         *)
THEOREM OneExchangePerCode == Spec => []FoundOnce
<1>1. StoreInv => FoundOnce
  BY DEF StoreInv
<1>2. QED
  BY <1>1, StoreInvAlways, PTL

(* Whatever is about to be given a token has named the code of a grant     *)
(* with its client, redirect and challenge.                                *)
THEOREM TokensFollowGrants == Spec => []DueToItsGrant
<1>1. StoreInv => DueToItsGrant
  BY DEF StoreInv
<1>2. QED
  BY <1>1, StoreInvAlways, PTL

LEMMA LiveTokens ==
  ASSUME StoreInv, NEW t
  PROVE  ValidToken(t) <=>
           \E e \in Exchanges : e = t /\ pc[e] = "granted" /\ now <= until[e]
BY DEF StoreInv, TypeOK, TokenInv, ValidToken, After

(* The gate serves a request exactly if its client has reason to expect    *)
(* it.                                                                     *)
THEOREM GateIsExact == Spec => []ServedExactly
<1>1. ASSUME StoreInv PROVE ServedExactly
  <2>1. SUFFICES ASSUME NEW r \in Requests
                 PROVE  Served(r) <=>
                   /\ r.path # "/health" /\ UseAllowlist => r.listed
                   /\ \/ r.path # "/mcp"
                      \/ r.bearer = "key" /\ UseKey
                      \/ \E e \in Exchanges :
                           e = r.bearer /\ pc[e] = "granted" /\ now <= until[e]
    BY DEF ServedExactly
  <2>2. r.path \in {"/health", "/oauth", "/mcp"}
    BY DEF Requests, PublicPaths
  <2>3. AuthAdmits(r) <=>
          \/ r.path # "/mcp"
          \/ r.bearer = "key" /\ UseKey
          \/ \E e \in Exchanges : e = r.bearer /\ pc[e] = "granted" /\ now <= until[e]
    BY <1>1, <2>2, LiveTokens DEF AuthAdmits, PublicPaths
  <2>4. QED
    BY <2>3 DEF Served, AllowlistAdmits
<1>2. QED
  BY <1>1, StoreInvAlways, PTL

(* A change that adds an entry leaves nothing that has expired.            *)
THEOREM AdditionsPrune == Spec => AddingPrunes
<1> DEFINE Adds == DOMAIN codes' \ DOMAIN codes # {} \/ DOMAIN tokens' \ DOMAIN tokens # {}
           Clean == /\ \A g \in DOMAIN codes' : now' <= codes'[g].expiresAt
                    /\ \A e \in DOMAIN tokens' : now' <= tokens'[e]
<1>1. ASSUME StoreInv, [Next]_vars, Adds PROVE Clean
  <2> USE DEF StoreInv, TypeOK
  <2>1. ASSUME NEW g \in Grants, NEW ask \in Asks, Authorize(g, ask) PROVE Clean
    <3>1. now' = now /\ now <= now + CodeLifetime
      BY <1>1, <2>1, LifetimeAssumption DEF Authorize
    <3>2. \A h \in DOMAIN codes' : now <= codes'[h].expiresAt
      BY <1>1, <2>1, <3>1 DEF Authorize, With, PrunedCodes, Only, After, Entry
    <3>3. \A e \in DOMAIN tokens' : now <= tokens'[e]
      BY <1>1, <2>1 DEF Authorize, PrunedTokens, Only, After
    <3>4. QED
      BY <3>1, <3>2, <3>3
  <2>2. ASSUME NEW e \in Exchanges, Mint(e) PROVE Clean
    <3>1. now' = now /\ now <= now + TokenLifetime
      BY <1>1, <2>2, LifetimeAssumption DEF Mint
    <3>2. \A h \in DOMAIN codes' : now <= codes'[h].expiresAt
      BY <1>1, <2>2 DEF Mint, PrunedCodes, Only, After, Entry
    <3>3. \A x \in DOMAIN tokens' : now <= tokens'[x]
      BY <1>1, <2>2, <3>1 DEF Mint, With, PrunedTokens, Only, After
    <3>4. QED
      BY <3>1, <3>2, <3>3
  (* No other step adds an entry.                                          *)
  <2>3. ASSUME NEW e \in Exchanges, NEW f \in Forms, Take(e, f) PROVE FALSE
    BY <1>1, <2>3 DEF Take, Without
  <2>4. ASSUME NEW e \in Exchanges, Validate(e) PROVE FALSE
    BY <1>1, <2>4 DEF Validate, Without
  <2>5. ASSUME Restart PROVE FALSE
    BY <1>1, <2>5 DEF Restart, EmptyMap
  <2>6. ASSUME UNCHANGED <<codes, tokens>> PROVE FALSE
    BY <1>1, <2>6
  <2>7. QED
    BY <1>1, <2>1, <2>2, <2>3, <2>4, <2>5, <2>6
       DEF Next, vars, TakeUnknown, Verify, Refuse, Tick
<1>2. StoreInv /\ [Next]_vars => [Adds => Clean]_vars
  BY <1>1
<1>3. QED
  BY <1>2, StoreInvAlways, PTL DEF Spec, AddingPrunes

-----------------------------------------------------------------------------
(* The refinement.  A map of the store is seen without its expired         *)
(* entries, so a pruning and a removal are not seen at all, and a tick of  *)
(* the clock removes what expires with it.                                 *)

LEMMA GrantInit == Init => Grant!Init
<1> SUFFICES ASSUME Init PROVE Grant!Init
  OBVIOUS
<1>1. issuedBar = {} /\ spentBar = {} /\ approvedBar = {}
  BY DEF Init, issuedBar, spentBar, approvedBar
<1>2. codesBar = EmptyMap /\ heldBar = EmptyMap /\ tokensBar = EmptyMap
  BY DEF Init, codesBar, heldBar, tokensBar, EmptyMap
<1>3. QED
  BY <1>1, <1>2 DEF Init, Grant!Init, Grant!EmptyMap, EmptyMap

LEMMA GrantStep == StoreInv /\ [Next]_vars => [Grant!Next]_Grant!vars
<1> SUFFICES ASSUME StoreInv, [Next]_vars PROVE Grant!Next \/ UNCHANGED Grant!vars
  OBVIOUS
<1> USE DEF StoreInv, TypeOK
<1>1. ASSUME NEW g \in Grants, NEW ask \in Asks, Authorize(g, ask)
      PROVE  Grant!Issue(g)
  <2>1. g \notin issuedBar /\ issuedBar' = issuedBar \cup {g}
    BY <1>1, EntryIsNotNoEntry, NewEntry DEF Authorize, issuedBar
  <2>2. codesBar' = With(codesBar, g, now + CodeLifetime)
    <3>1. g \notin DOMAIN codes
      BY <1>1, EntryIsNotNoEntry DEF Authorize, CodeInv
    <3>2. now' = now /\ now <= now + CodeLifetime /\ now + CodeLifetime \in Nat
      BY <1>1, LifetimeAssumption DEF Authorize
    <3>3. /\ DOMAIN codes' = DOMAIN PrunedCodes \cup {g}
          /\ codes'[g].expiresAt = now + CodeLifetime
          /\ \A h \in DOMAIN PrunedCodes : codes'[h] = codes[h]
      BY <1>1, <3>1 DEF Authorize, With, PrunedCodes, Only
    <3>4. DOMAIN PrunedCodes = {h \in DOMAIN codes : now <= codes[h].expiresAt}
      BY DEF PrunedCodes, Only, After, Entry
    <3>5. {h \in DOMAIN codes' : now' <= codes'[h].expiresAt} = DOMAIN PrunedCodes \cup {g}
      BY <3>2, <3>3, <3>4
    <3>6. QED
      BY <3>1, <3>3, <3>4, <3>5 DEF codesBar, With
  <2>3. tokensBar' = tokensBar
    BY <1>1 DEF Authorize, tokensBar, PrunedTokens, Only, After
  <2>4. spentBar' = spentBar /\ approvedBar' = approvedBar /\ heldBar' = heldBar
        /\ now' = now
    BY <1>1 DEF Authorize, exchangeVars, spentBar, approvedBar, heldBar
  <2>5. QED
    BY <2>1, <2>2, <2>3, <2>4 DEF Grant!Issue, Grant!With, With
<1>2. ASSUME NEW e \in Exchanges, NEW f \in Forms, Take(e, f)
      PROVE  Grant!Claim(e, f.code) \/ Grant!Miss(e)
  <2>1. f.code \in DOMAIN codes /\ codes[f.code].expiresAt \in Nat /\ pc[e] = "new"
    BY <1>2 DEF Take, Entry
  <2>2. e \notin spentBar /\ spentBar' = spentBar \cup {e}
    BY <1>2 DEF Take, spentBar
  <2>3. approvedBar' = approvedBar /\ issuedBar' = issuedBar /\ tokensBar' = tokensBar
        /\ now' = now
    BY <1>2 DEF Take, approvedBar, issuedBar, tokensBar
  <2>4. /\ pc'[e] = "taken" /\ code'[e] = codes[f.code]
        /\ \A x \in Exchanges : x # e => pc'[x] = pc[x] /\ code'[x] = code[x]
        /\ codes' = Without(codes, f.code)
    BY <1>2 DEF Take
  <2>5. CASE now <= codes[f.code].expiresAt
    <3>1. f.code \in DOMAIN codesBar /\ codesBar[f.code] = codes[f.code].expiresAt
      BY <2>1, <2>5 DEF codesBar
    <3>2. codesBar' = Without(codesBar, f.code)
      BY <2>3, <2>4 DEF codesBar, Without
    <3>3. DOMAIN heldBar' = DOMAIN heldBar \cup {e}
      BY <2>1, <2>3, <2>4, <2>5 DEF heldBar
    <3>4. heldBar' = With(heldBar, e, codes[f.code].expiresAt)
      BY <2>1, <2>3, <2>4, <2>5, <3>3 DEF heldBar, With
    <3>5. Grant!Claim(e, f.code)
      BY <2>2, <2>3, <3>1, <3>2, <3>4 DEF Grant!Claim, Grant!With, With, Grant!Without, Without
    <3>6. QED
      BY <3>5
  <2>6. CASE ~(now <= codes[f.code].expiresAt)
    <3>1. codesBar' = codesBar
      BY <2>3, <2>4, <2>6 DEF codesBar, Without
    <3>2. {x \in Exchanges : pc'[x] = "taken" /\ now' <= code'[x].expiresAt}
            = {x \in Exchanges : pc[x] = "taken" /\ now <= code[x].expiresAt}
      BY <2>1, <2>3, <2>4, <2>6
    <3>3. heldBar' = heldBar
      BY <2>1, <2>4, <3>2 DEF heldBar
    <3>4. Grant!Miss(e)
      BY <2>2, <2>3, <3>1, <3>3 DEF Grant!Miss
    <3>5. QED
      BY <3>4
  <2>7. QED
    BY <2>5, <2>6
<1>3. ASSUME NEW e \in Exchanges, NEW f \in Forms, TakeUnknown(e, f)
      PROVE  Grant!Miss(e)
  <2>1. e \notin spentBar /\ spentBar' = spentBar \cup {e} /\ approvedBar' = approvedBar
    BY <1>3 DEF TakeUnknown, spentBar, approvedBar
  <2>2. UNCHANGED <<now, issuedBar, codesBar, tokensBar>>
    BY <1>3 DEF TakeUnknown, clientVars, issuedBar, codesBar, tokensBar
  <2>3. heldBar' = heldBar
    BY <1>3 DEF TakeUnknown, heldBar
  <2>4. QED
    BY <2>1, <2>2, <2>3 DEF Grant!Miss
(* A request that leaves the checks holds its code no more.                *)
<1>4. ASSUME NEW e \in Exchanges, pc[e] = "taken", now' = now,
             \A x \in Exchanges : x # e => pc'[x] = pc[x] /\ code'[x] = code[x],
             pc'[e] # "taken"
      PROVE  heldBar' = Without(heldBar, e)
  BY <1>4 DEF heldBar, Without
<1>5. ASSUME NEW e \in Exchanges, Verify(e) PROVE Grant!Approve(e)
  <2>1. e \in DOMAIN heldBar
    <3>1. pc[e] = "taken" /\ ~(now > code[e].expiresAt)
      BY <1>5 DEF Verify, Passes, After
    <3>2. code[e].expiresAt \in Nat
      BY <3>1 DEF HeldInv, Underway, Entry
    <3>3. QED
      BY <3>1, <3>2 DEF heldBar
  <2>2. approvedBar' = approvedBar \cup {e} /\ spentBar' = spentBar
    BY <1>5 DEF Verify, approvedBar, spentBar
  <2>3. UNCHANGED <<now, issuedBar, codesBar, tokensBar>>
    BY <1>5 DEF Verify, clientVars, issuedBar, codesBar, tokensBar
  <2>4. heldBar' = Without(heldBar, e)
    BY <1>4, <1>5 DEF Verify
  <2>5. QED
    BY <2>1, <2>2, <2>3, <2>4 DEF Grant!Approve, Grant!Without, Without
<1>6. ASSUME NEW e \in Exchanges, Refuse(e)
      PROVE  Grant!Refuse(e) \/ UNCHANGED Grant!vars
  <2>1. approvedBar' = approvedBar /\ spentBar' = spentBar
    BY <1>6 DEF Refuse, approvedBar, spentBar
  <2>2. UNCHANGED <<now, issuedBar, codesBar, tokensBar>>
    BY <1>6 DEF Refuse, clientVars, issuedBar, codesBar, tokensBar
  <2>3. heldBar' = Without(heldBar, e)
    BY <1>4, <1>6 DEF Refuse
  <2>4. CASE e \in DOMAIN heldBar
    BY <2>1, <2>2, <2>3, <2>4 DEF Grant!Refuse, Grant!Without, Without
  <2>5. CASE e \notin DOMAIN heldBar
    <3>1. heldBar' = heldBar
      BY <2>3, <2>5 DEF Without, heldBar
    <3>2. QED
      BY <2>1, <2>2, <3>1 DEF Grant!vars
  <2>6. QED
    BY <2>4, <2>5
<1>7. ASSUME NEW e \in Exchanges, Mint(e) PROVE Grant!Grant(e)
  <2>1. e \in approvedBar /\ approvedBar' = approvedBar \ {e} /\ spentBar' = spentBar
    BY <1>7 DEF Mint, approvedBar, spentBar
  <2>2. now' = now /\ issuedBar' = issuedBar /\ now + TokenLifetime \in Nat
        /\ now <= now + TokenLifetime
    BY <1>7, LifetimeAssumption DEF Mint, issuedBar
  <2>3. heldBar' = heldBar
    BY <1>7 DEF Mint, heldBar
  <2>4. codesBar' = codesBar
    BY <1>7 DEF Mint, codesBar, PrunedCodes, Only, After, Entry
  <2>5. tokensBar' = With(tokensBar, e, now + TokenLifetime)
    <3>1. /\ DOMAIN tokens' = DOMAIN PrunedTokens \cup {e}
          /\ tokens'[e] = now + TokenLifetime
          /\ \A x \in DOMAIN PrunedTokens : x # e => tokens'[x] = tokens[x]
      BY <1>7 DEF Mint, With, PrunedTokens, Only
    <3>2. DOMAIN PrunedTokens = {x \in DOMAIN tokens : now <= tokens[x]}
      BY DEF PrunedTokens, Only, After
    <3>3. {x \in DOMAIN tokens' : now' <= tokens'[x]} = DOMAIN PrunedTokens \cup {e}
      BY <2>2, <3>1, <3>2
    <3>4. QED
      BY <3>1, <3>2, <3>3 DEF tokensBar, With
  <2>6. QED
    BY <2>1, <2>2, <2>3, <2>4, <2>5 DEF Grant!Grant, Grant!With, With
<1>8. ASSUME NEW e \in Exchanges, Validate(e) PROVE UNCHANGED Grant!vars
  <2>1. tokensBar' = tokensBar
    BY <1>8 DEF Validate, ValidToken, After, Without, tokensBar
  <2>2. QED
    BY <1>8, <2>1 DEF Validate, exchangeVars, clientVars, Grant!vars,
                      issuedBar, codesBar, spentBar, heldBar, approvedBar
<1>9. ASSUME Tick PROVE Grant!Tick
  <2>1. now' = now + 1 /\ now \in Nat
    BY <1>9 DEF Tick
  <2>2. UNCHANGED <<codes, tokens, pc, code, answer>>
    BY <1>9 DEF Tick, exchangeVars, clientVars
  <2>3. issuedBar' = issuedBar /\ spentBar' = spentBar /\ approvedBar' = approvedBar
    BY <2>2 DEF issuedBar, spentBar, approvedBar
  <2>4. tokensBar' = Grant!Good(tokensBar, now')
    BY <2>1, <2>2 DEF tokensBar, Grant!Good, Grant!Only
  <2>5. codesBar' = Grant!Good(codesBar, now')
    BY <2>1, <2>2 DEF codesBar, Grant!Good, Grant!Only, Entry
  <2>6. heldBar' = Grant!Good(heldBar, now')
    <3>1. \A x \in Exchanges : pc[x] = "taken" => code[x].expiresAt \in Nat
      BY DEF HeldInv, Underway, Entry
    <3>2. QED
      BY <2>1, <2>2, <3>1 DEF heldBar, Grant!Good, Grant!Only
  <2>7. QED
    BY <2>1, <2>3, <2>4, <2>5, <2>6 DEF Grant!Tick
<1>10. ASSUME Restart PROVE Grant!Restart
  <2>1. codesBar' = EmptyMap /\ tokensBar' = EmptyMap
    BY <1>10 DEF Restart, codesBar, tokensBar, EmptyMap
  <2>2. heldBar' = EmptyMap /\ approvedBar' = {} /\ spentBar' = spentBar
    BY <1>10 DEF Restart, heldBar, approvedBar, spentBar, EmptyMap
  <2>3. UNCHANGED <<now, issuedBar>>
    BY <1>10 DEF Restart, clientVars, issuedBar
  <2>4. QED
    BY <2>1, <2>2, <2>3 DEF Grant!Restart, Grant!EmptyMap, EmptyMap
<1>11. ASSUME UNCHANGED vars PROVE UNCHANGED Grant!vars
  BY <1>11 DEF vars, Grant!vars, issuedBar, codesBar, spentBar, heldBar, approvedBar, tokensBar
<1>12. ASSUME NEW e \in Exchanges, NEW f \in Forms, Take(e, f) PROVE f.code \in Grants
  BY <1>12 DEF Take
<1>13. QED
  BY <1>1, <1>2, <1>3, <1>5, <1>6, <1>7, <1>8, <1>9, <1>10, <1>11, <1>12 DEF Next, Grant!Next

(* The store keeps what a code grant promises.                             *)
THEOREM Implementation == Spec => ImplementsGrant
BY GrantInit, GrantStep, StoreInvAlways, PTL DEF Spec, ImplementsGrant, Grant!Spec
=============================================================================
