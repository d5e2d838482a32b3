--------------------------- MODULE BrowserSession ---------------------------
(***************************************************************************)
(* Who a browser tab is signed in as: the module state of lib/authTokens,  *)
(* which every request of lib/apiClient asks for a token, localStorage and *)
(* the refresh cookie, which all tabs share.  A token is abstracted to the *)
(* account it speaks for.  The server's side of refresh, sign-in and       *)
(* sign-out is module Sessions; here it may grant or refuse.               *)
(*                                                                         *)
(* StoreLate is a slip of the operator it stands before.                   *)
(***************************************************************************)
EXTENDS FiniteSets

CONSTANTS
  Panes,     \* tabs
  Users, Nobody,
  Flights,   \* requests in flight
  NoFlight

ASSUME BrowserAssumption ==
  /\ Nobody \notin Users /\ NoFlight \notin Flights
  /\ "anyone" \notin Users \cup {Nobody}
  /\ Panes # {}

VARIABLES
  storage,  \* localStorage: the access token
  cookie,   \* the refresh cookie
  pane,     \* per tab: cachedAccessToken, refreshEnabled and refreshPromise
  flight,   \* per request
  speaks,   \* history: who each tab last signed in as; Anyone once it is reloaded
  late      \* history: tabs that signed in while a refresh of theirs was out

browserVars == <<storage, cookie, pane, flight, speaks, late>>

Anyone == "anyone"
Accounts == Users \cup {Nobody}

PaneRec == [cached : Accounts, enabled : BOOLEAN, promise : Flights \cup {NoFlight}]
NewPane == [cached |-> Nobody, enabled |-> TRUE, promise |-> NoFlight]

\* on: the refresh it awaits before it is sent; alive: its page is still there.
\* user: who a sign-in is for, and whose cookie a refresh carries.
FlightRec == [kind : {"none", "refresh", "signIn", "redeem", "signOut"}, at : {"token", "sent", "body"},
              pane : Panes, user : Accounts, on : Flights \cup {NoFlight}, alive : BOOLEAN]
NoCallOut == [kind |-> "none", at |-> "sent", pane |-> CHOOSE p \in Panes : TRUE,
              user |-> Nobody, on |-> NoFlight, alive |-> FALSE]

BrowserInit ==
  /\ storage = Nobody /\ cookie \in Accounts
  /\ pane = [p \in Panes |-> NewPane]
  /\ flight = [f \in Flights |-> NoCallOut]
  /\ speaks = [p \in Panes |-> Anyone]
  /\ late = {}

-----------------------------------------------------------------------------
\* The token getStoredAccessToken has at hand: none if refreshing is disabled.
TokenOf(p) ==
  IF ~pane[p].enabled THEN Nobody
  ELSE IF pane[p].cached # Nobody THEN pane[p].cached ELSE storage

RefreshOf(p) == [NoCallOut EXCEPT !.kind = "refresh", !.pane = p, !.user = cookie, !.alive = TRUE]

\* getStoredAccessToken, for a request c of tab p (NoFlight: for one that only
\* reads); r is the slot of the refresh it may begin.
GetToken(p, c, new, r) ==
  LET token == TokenOf(p)
      begins == pane[p].enabled /\ token = Nobody /\ pane[p].promise = NoFlight
      on == IF ~pane[p].enabled \/ token # Nobody THEN NoFlight
            ELSE IF begins THEN r ELSE pane[p].promise
  IN /\ begins => r \in Flights \ {c} /\ flight[r].kind = "none"
     /\ pane' = [pane EXCEPT ![p].cached = IF pane[p].enabled THEN token ELSE @,
                             ![p].promise = IF begins THEN r ELSE @]
     /\ flight' = [f \in Flights |->
          CASE f = c -> [new EXCEPT !.on = on, !.at = IF on = NoFlight THEN "sent" ELSE "token"]
            [] begins /\ f = r -> RefreshOf(p)
            [] OTHER -> flight[f]]

\* Any request of a page.
Ask(p, r) ==
  /\ GetToken(p, NoFlight, NoCallOut, r)
  /\ UNCHANGED <<storage, cookie, speaks, late>>

Start(kind, p, user, f, r) ==
  /\ flight[f].kind = "none"
  /\ GetToken(p, f, [NoCallOut EXCEPT !.kind = kind, !.pane = p, !.user = user, !.alive = TRUE], r)
  /\ UNCHANGED <<storage, cookie, speaks, late>>

\* A password or a magic link.
SignIn(p, u, f, r) == Start("signIn", p, u, f, r)

\* An invitation: its page is loaded anew once the token is stored.
Redeem(p, u, f, r) == Start("redeem", p, u, f, r)

SignOut(p, f, r) == Start("signOut", p, Nobody, f, r)

\* What this refresh ends with: the promise is forgotten, who awaited it goes on.
Resolved(fs, f) ==
  [g \in Flights |->
    CASE g = f -> NoCallOut
      [] g # f /\ fs[g].on = f -> [fs[g] EXCEPT !.on = NoFlight, !.at = "sent"]
      [] OTHER -> fs[g]]

Out(p) == {f \in Flights : flight[f].kind = "refresh" /\ flight[f].pane = p /\ flight[f].alive}

\* storeAccessToken
Store(p, user) ==
  /\ storage' = user
  /\ pane' = [pane EXCEPT ![p].enabled = TRUE, ![p].cached = user]

\* refreshAccessToken gives nothing: refused, failed, or disabled meanwhile.
NoToken(f) ==
  /\ pane' = [pane EXCEPT ![flight[f].pane].promise = IF flight[f].alive THEN NoFlight ELSE @]
  /\ flight' = Resolved(flight, f)
  /\ UNCHANGED <<storage, speaks, late>>

\* The head of an answer: the browser has taken its cookie, whatever the page
\* has done in the meantime.
RefreshAnswered(f) ==
  /\ flight[f].kind = "refresh" /\ flight[f].at = "sent"
  /\ \/ flight[f].user # Nobody /\ cookie' = flight[f].user
        /\ IF flight[f].alive /\ pane[flight[f].pane].enabled
           THEN flight' = [flight EXCEPT ![f].at = "body"] /\ UNCHANGED <<storage, pane, speaks, late>>
           ELSE NoToken(f)
     \/ flight[f].user # Nobody /\ cookie' = Nobody /\ NoToken(f)
     \/ UNCHANGED cookie /\ NoToken(f)

StoreLate(f) ==
  /\ flight[f].kind = "refresh" /\ flight[f].at = "body"
  /\ Store(flight[f].pane, flight[f].user)
  /\ flight' = Resolved(flight, f)
  /\ UNCHANGED <<cookie, speaks, late>>

\* Its body: the token is stored unless refreshing was disabled meanwhile.
RefreshEnds(f) ==
  LET p == flight[f].pane
  IN /\ flight[f].kind = "refresh" /\ flight[f].at = "body"
     /\ \/ /\ flight[f].alive /\ pane[p].enabled
           /\ storage' = flight[f].user
           /\ pane' = [pane EXCEPT ![p] = [cached |-> flight[f].user, enabled |-> TRUE,
                                           promise |-> NoFlight]]
           /\ flight' = Resolved(flight, f)
           /\ UNCHANGED <<speaks, late>>
        \/ ~(flight[f].alive /\ pane[p].enabled) /\ NoToken(f)
     /\ UNCHANGED cookie

SignInAnswered(f) ==
  /\ flight[f].kind \in {"signIn", "redeem"} /\ flight[f].at = "sent"
  /\ \/ /\ cookie' = flight[f].user
        /\ flight' = [flight EXCEPT ![f].at = "body"]
     \/ UNCHANGED cookie /\ flight' = [flight EXCEPT ![f] = NoCallOut]
  /\ UNCHANGED <<storage, pane, speaks, late>>

SignInEnds(f) ==
  LET p == flight[f].pane
  IN /\ flight[f].kind = "signIn" /\ flight[f].at = "body"
     /\ flight' = [flight EXCEPT ![f] = NoCallOut]
     /\ IF flight[f].alive
        THEN /\ Store(p, flight[f].user)
             /\ speaks' = [speaks EXCEPT ![p] = flight[f].user]
             /\ late' = IF Out(p) = {} THEN late \ {p} ELSE late \cup {p}
        ELSE UNCHANGED <<storage, pane, speaks, late>>
     /\ UNCHANGED cookie

\* handleSignOut: answered or not, the tab forgets its token and stops
\* refreshing.  Not answered, the cookie stays.
SignOutEnds(f) ==
  LET p == flight[f].pane
  IN /\ flight[f].kind = "signOut" /\ flight[f].at = "sent"
     /\ cookie' = Nobody \/ UNCHANGED cookie
     /\ flight' = [flight EXCEPT ![f] = NoCallOut]
     /\ IF flight[f].alive
        THEN /\ storage' = Nobody
             /\ pane' = [pane EXCEPT ![p] = [NewPane EXCEPT !.enabled = FALSE]]
             /\ speaks' = [speaks EXCEPT ![p] = Nobody]
        ELSE UNCHANGED <<storage, pane, speaks>>
     /\ UNCHANGED late

\* The page is loaded anew: the module state is gone and refreshing enabled.
\* What was sent may still be answered; what was not is not sent.
Reloaded(p, fs) ==
  /\ pane' = [pane EXCEPT ![p] = NewPane]
  /\ flight' = [f \in Flights |->
       IF fs[f].pane # p \/ fs[f].kind = "none" THEN fs[f]
       ELSE IF fs[f].at = "sent" THEN [fs[f] EXCEPT !.alive = FALSE] ELSE NoCallOut]
  /\ speaks' = [speaks EXCEPT ![p] = Anyone]
  /\ late' = late \ {p}

ReloadPage(p) == Reloaded(p, flight) /\ UNCHANGED <<storage, cookie>>

RedeemEnds(f) ==
  /\ flight[f].kind = "redeem" /\ flight[f].at = "body"
  /\ IF flight[f].alive
     THEN storage' = flight[f].user /\ Reloaded(flight[f].pane, [flight EXCEPT ![f] = NoCallOut])
     ELSE flight' = [flight EXCEPT ![f] = NoCallOut] /\ UNCHANGED <<storage, pane, speaks, late>>
  /\ UNCHANGED cookie

BrowserNext ==
  \/ \E p \in Panes : ReloadPage(p)
  \/ \E p \in Panes, r \in Flights :
       \/ Ask(p, r)
       \/ \E f \in Flights : SignOut(p, f, r) \/ \E u \in Users : SignIn(p, u, f, r) \/ Redeem(p, u, f, r)
  \/ \E f \in Flights :
       \/ RefreshAnswered(f) \/ RefreshEnds(f)
       \/ SignInAnswered(f) \/ SignInEnds(f) \/ RedeemEnds(f) \/ SignOutEnds(f)

BrowserSpec == BrowserInit /\ [][BrowserNext]_browserVars

-----------------------------------------------------------------------------
BrowserTypeOK ==
  /\ storage \in Accounts /\ cookie \in Accounts
  /\ pane \in [Panes -> PaneRec]
  /\ flight \in [Flights -> FlightRec]
  /\ speaks \in [Panes -> Accounts \cup {Anyone}]
  /\ late \subseteq Panes

(***************************************************************************)
(* A tab speaks for the account it signed in as, whoever signs in or out   *)
(* in another tab, and for none once it has signed out, however late a     *)
(* refresh is answered: until it is loaded anew, and unless a refresh of   *)
(* its own was out as it signed in, which may bring the old account back.  *)
(***************************************************************************)
TabSpeaksForItsAccount ==
  \A p \in Panes :
    /\ speaks[p] = Nobody => TokenOf(p) = Nobody
    /\ speaks[p] \in Users /\ p \notin late => TokenOf(p) = speaks[p]

(***************************************************************************)
(* "Sessions rely on API-issued, HTTP-only cookies; sign out clears them   *)
(* instantly" (login/page.tsx:192): where a tab has signed out and the     *)
(* cookie is gone, only somebody who signs in brings a cookie back.        *)
(***************************************************************************)
SignOutClearsCookie ==
  [][\A p \in Panes : speaks[p] = Nobody /\ cookie = Nobody /\ cookie' # Nobody =>
       \E f \in Flights : flight[f].kind \in {"signIn", "redeem"} /\ flight[f] # flight'[f]]_browserVars
=============================================================================
