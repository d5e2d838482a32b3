------------------------------ MODULE MCSignIn ------------------------------
(***************************************************************************)
(* Signing in, for TLC: magic links, the pages that sign in, and who a tab *)
(* is signed in as afterwards.  They share no state here, for each takes   *)
(* any answer of the others, so each behaviour moves one part.             *)
(***************************************************************************)
EXTENDS MagicLinks, LoginPage, BrowserSession

VARIABLE part
pagesVars == <<part, vars, loginVars, browserVars>>

PagesInit ==
  /\ part \in {"links", "login", "browser"}
  /\ Init /\ LoginInit /\ BrowserInit
  /\ part # "browser" => cookie = Nobody

\* Bound: invitations are for one of the accounts.
OneInvited ==
  \A f \in Flights : flight'[f].kind = "redeem" => flight'[f].user = CHOOSE u \in Users : TRUE

PagesNext ==
  /\ UNCHANGED part
  /\ \/ part = "links" /\ Next /\ UNCHANGED <<loginVars, browserVars>>
     \/ part = "login" /\ LoginNext /\ UNCHANGED <<vars, browserVars>>
     \/ part = "browser" /\ BrowserNext /\ OneInvited /\ UNCHANGED <<vars, loginVars>>

Fairness ==
  /\ WF_pagesVars(part = "login" /\ ProbeEnds /\ UNCHANGED <<part, vars, browserVars>>)
  /\ WF_pagesVars(part = "login" /\ Redirected /\ UNCHANGED <<part, vars, browserVars>>)

PagesSpec == PagesInit /\ [][PagesNext]_pagesVars /\ Fairness

\* Every part is typed.
PagesTypeOK == TypeOK /\ LoginTypeOK /\ BrowserTypeOK
=============================================================================
