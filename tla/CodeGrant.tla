----------------------------- MODULE CodeGrant -----------------------------
(***************************************************************************)
(* What an OAuth code grant promises: a code can be redeemed until it      *)
(* expires and by one exchange only, which then holds it for as long as it *)
(* is good; an exchange that has been approved gets one token, and the     *)
(* token is accepted until it expires.  Here whatever expires is gone with *)
(* the tick of the clock that ends it.  OAuthStore, which forgets at its   *)
(* leisure, implements this.                                               *)
(***************************************************************************)
EXTENDS Integers, PartialMaps

CONSTANTS
  Grants,       \* authorizations; each gives out one code
  Exchanges,    \* requests for a token; each yields at most one
  CodeLifetime,
  TokenLifetime

VARIABLES
  now,
  issued,       \* the grants whose code has been given out
  codes,        \* codes that can be redeemed, with their last instant
  spent,        \* the exchanges that have had their try
  held,         \* exchanges that hold a good code, with its last instant
  approved,     \* exchanges that are due a token
  tokens        \* tokens that are accepted, with their last instant

vars == <<now, issued, codes, spent, held, approved, tokens>>

\* The entries of m that are good at t.
Good(m, t) == Only(m, {x \in DOMAIN m : t <= m[x]})

Init ==
  /\ now = 0
  /\ issued = {} /\ spent = {} /\ approved = {}
  /\ codes = EmptyMap /\ held = EmptyMap /\ tokens = EmptyMap

Tick ==
  /\ now' = now + 1
  /\ codes' = Good(codes, now')
  /\ held' = Good(held, now')
  /\ tokens' = Good(tokens, now')
  /\ UNCHANGED <<issued, spent, approved>>

Issue(g) ==
  /\ g \notin issued
  /\ issued' = issued \cup {g}
  /\ codes' = With(codes, g, now + CodeLifetime)
  /\ UNCHANGED <<now, spent, held, approved, tokens>>

Claim(e, g) ==
  /\ e \notin spent
  /\ g \in DOMAIN codes
  /\ spent' = spent \cup {e}
  /\ held' = With(held, e, codes[g])
  /\ codes' = Without(codes, g)
  /\ UNCHANGED <<now, issued, approved, tokens>>

\* The exchange names no code that is good.
Miss(e) ==
  /\ e \notin spent
  /\ spent' = spent \cup {e}
  /\ UNCHANGED <<now, issued, codes, held, approved, tokens>>

\* The exchange does not prove that the code is its own; the code is lost.
Refuse(e) ==
  /\ e \in DOMAIN held
  /\ held' = Without(held, e)
  /\ UNCHANGED <<now, issued, codes, spent, approved, tokens>>

Approve(e) ==
  /\ e \in DOMAIN held
  /\ held' = Without(held, e)
  /\ approved' = approved \cup {e}
  /\ UNCHANGED <<now, issued, codes, spent, tokens>>

Grant(e) ==
  /\ e \in approved
  /\ approved' = approved \ {e}
  /\ tokens' = With(tokens, e, now + TokenLifetime)
  /\ UNCHANGED <<now, issued, codes, spent, held>>

\* Nothing survives a restart of the server.
Restart ==
  /\ codes' = EmptyMap /\ held' = EmptyMap /\ tokens' = EmptyMap
  /\ approved' = {}
  /\ UNCHANGED <<now, issued, spent>>

Next ==
  \/ Tick \/ Restart
  \/ \E g \in Grants : Issue(g)
  \/ \E e \in Exchanges :
       \/ \E g \in Grants : Claim(e, g)
       \/ Miss(e) \/ Refuse(e) \/ Approve(e) \/ Grant(e)

Spec == Init /\ [][Next]_vars
=============================================================================
