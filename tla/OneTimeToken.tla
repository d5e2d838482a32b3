---------------------------- MODULE OneTimeToken ----------------------------
(***************************************************************************)
(* What every bearer token of this system promises: refresh tokens (their  *)
(* rotation answers a replay with 401) and magic-link tokens ("single-use",*)
(* frontend/src/app/login/page.tsx:190).  A token is handed out once, can  *)
(* be exchanged for a grant at most once, and can be withdrawn (sign-out,  *)
(* expiry, a failed exchange) at any moment before that.  Sessions and     *)
(* MagicLinks are shown to implement this module.                          *)
(***************************************************************************)
EXTENDS Naturals

CONSTANT Tokens

VARIABLES
  stage,    \* Tokens -> {"unissued", "live", "spent", "void"}
  grants    \* Tokens -> Nat: how often the token was exchanged

tokenVars == <<stage, grants>>

TokenInit ==
  /\ stage = [t \in Tokens |-> "unissued"]
  /\ grants = [t \in Tokens |-> 0]

Issue(t) ==
  /\ stage[t] = "unissued"
  /\ stage' = [stage EXCEPT ![t] = "live"]
  /\ UNCHANGED grants

Redeem(t) ==
  /\ stage[t] = "live"
  /\ stage' = [stage EXCEPT ![t] = "spent"]
  /\ grants' = [grants EXCEPT ![t] = @ + 1]

\* Also before anybody has seen it; a restart may withdraw several at once.
Withdraw(ts) ==
  /\ \A t \in ts : stage[t] \in {"unissued", "live"}
  /\ stage' = [t \in Tokens |-> IF t \in ts THEN "void" ELSE stage[t]]
  /\ UNCHANGED grants

TokenNext ==
  \/ \E t \in Tokens : Issue(t) \/ Redeem(t)
  \/ \E ts \in SUBSET Tokens : Withdraw(ts)

TokenSpec == TokenInit /\ [][TokenNext]_tokenVars

\* A token buys at most one grant, and one that bought it is never live again.
SingleUse ==
  \A t \in Tokens : grants[t] <= 1 /\ (grants[t] = 1 => stage[t] = "spent")

=============================================================================
