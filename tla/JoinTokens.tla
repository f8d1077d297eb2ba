----------------------------- MODULE JoinTokens -----------------------------
(***************************************************************************)
(* Join tokens of crates/gatewayctl/src/token.rs: a secret is burned by the *)
(* first node that joins with it and from then on admits that node alone.   *)
(* used and bound_node always change together: one field holds both.        *)
(***************************************************************************)
EXTENDS Integers

CONSTANTS
  Nodes,   \* node ids
  Free,    \* bound_node: None
  Ttl      \* default_ttl_secs, in clock ticks

ASSUME TokenAssumption ==
  /\ Free \notin Nodes
  /\ Ttl \in Nat

Tokens == [expires : Nat, bound : Nodes \cup {Free}]

\* mint_with_ttl
Mint(now) == [expires |-> now + Ttl, bound |-> Free]

\* Mutant of Authorize: freshness is asked of a burned token too.
AuthorizeFreshOnly(token, n, now) ==
  CASE now >= token.expires -> "expired"
    [] token.bound = Free -> "fresh_join"
    [] token.bound = n -> "reconnect"
    [] OTHER -> "already_used"

\* Mutant of Authorize: a burned token is not compared with its node.
AuthorizeAnyone(token, n, now) ==
  CASE token.bound # Free -> "reconnect"
    [] now >= token.expires -> "expired"
    [] OTHER -> "fresh_join"

\* authorize, for a known secret: a burned token admits the node it is bound
\* to whatever its age, an unused one expires.
Authorize(token, n, now) ==
  CASE token.bound = n -> "reconnect"
    [] token.bound # Free /\ token.bound # n -> "already_used"
    [] token.bound = Free /\ now >= token.expires -> "expired"
    [] OTHER -> "fresh_join"

Admits(token, n, now) == Authorize(token, n, now) \in {"fresh_join", "reconnect"}

Bind(token, n) == [token EXCEPT !.bound = n]
=============================================================================
