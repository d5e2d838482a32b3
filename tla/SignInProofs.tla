---------------------------- MODULE SignInProofs ----------------------------
(***************************************************************************)
(* Theorems about signing in, for any number of tabs, accounts, links and  *)
(* requests: a tab speaks for the account it signed in as, the page that   *)
(* has signed somebody in has its timer running, and the parts MCSignIn    *)
(* puts side by side stay typed.  Names without a section's prefix (Inv,   *)
(* InvNext) are MagicLinksProofs'.                                         *)
(***************************************************************************)
EXTENDS MCSignIn, MagicLinksProofs, TLAPS

-----------------------------------------------------------------------------
(***************************************************************************)
(* The tabs.  While a tab speaks for the account it signed in as, it has   *)
(* that account's token in memory, so it begins no refresh, and none it    *)
(* had begun before is out; while it is signed out, it takes no token that *)
(* is brought to it.                                                       *)
(***************************************************************************)
\* Sign-ins and redemptions are for an account.
SignsIn(f) == flight[f].kind \in {"signIn", "redeem"} => flight[f].user \in Users

SignedOut(p) == speaks[p] = Nobody => ~pane[p].enabled

SignedIn(p) ==
  speaks[p] \in Users /\ p \notin late =>
    pane[p].enabled /\ pane[p].cached = speaks[p] /\ Out(p) = {}

TabsInv ==
  /\ BrowserTypeOK
  /\ \A f \in Flights : SignsIn(f)
  /\ \A p \in Panes : SignedOut(p) /\ SignedIn(p)

USE BrowserAssumption DEF Accounts, Anyone

\* The constants of the records.
LEMMA Records == NoCallOut \in FlightRec /\ NoCallOut.kind = "none" /\ NewPane \in PaneRec
  /\ NewPane.enabled /\ NewPane.cached = Nobody /\ NoCallOut.user = Nobody
BY DEF NoCallOut, FlightRec, NewPane, PaneRec

\* Initially nobody has signed in.
LEMMA TabsInvInit == BrowserInit => TabsInv
<1> SUFFICES ASSUME BrowserInit PROVE TabsInv
  OBVIOUS
<1>1. BrowserTypeOK
  BY Records DEF BrowserInit, BrowserTypeOK
<1>2. \A f \in Flights : SignsIn(f)
  BY Records DEF BrowserInit, SignsIn
<1>3. \A p \in Panes : speaks[p] = Anyone
  BY DEF BrowserInit
<1> QED BY <1>1, <1>2, <1>3 DEF TabsInv, SignedOut, SignedIn

\* The invariant implies the property.
LEMMA TabsInvSpeaks == TabsInv => TabSpeaksForItsAccount
BY DEF TabsInv, SignedOut, SignedIn, TabSpeaksForItsAccount, TokenOf

-----------------------------------------------------------------------------
\* A step that changes neither who a tab speaks for nor whether it refreshes,
\* nor the token of a tab that is signed in, and begins no refresh of such a tab.
LEMMA QuietStep ==
  ASSUME TabsInv, UNCHANGED <<speaks, late>>,
         storage' \in Accounts, cookie' \in Accounts,
         pane' \in [Panes -> PaneRec], flight' \in [Flights -> FlightRec],
         \A f \in Flights : SignsIn(f)',
         \A p \in Panes : pane'[p].enabled = pane[p].enabled,
         \A p \in Panes : speaks[p] \in Users /\ p \notin late =>
           pane'[p].cached = pane[p].cached /\ Out(p)' \subseteq Out(p)
  PROVE  TabsInv'
<1>1. BrowserTypeOK'
  BY DEF TabsInv, BrowserTypeOK
<1>2. ASSUME NEW p \in Panes PROVE SignedOut(p)' /\ SignedIn(p)'
  BY DEF TabsInv, SignedOut, SignedIn
<1> QED BY <1>1, <1>2 DEF TabsInv

\* A request that asks for a token, whether or not that begins a refresh.
LEMMA TokenKeeps ==
  ASSUME TabsInv, NEW p \in Panes, NEW r \in Flights, NEW c \in Flights \cup {NoFlight},
         NEW new \in FlightRec, GetToken(p, c, new, r),
         c \in Flights => new.kind # "refresh" /\ (new.kind \in {"signIn", "redeem"} => new.user \in Users),
         UNCHANGED <<storage, cookie, speaks, late>>
  PROVE  TabsInv'
<1> DEFINE token == TokenOf(p)
           begins == pane[p].enabled /\ token = Nobody /\ pane[p].promise = NoFlight
           on == IF ~pane[p].enabled \/ token # Nobody THEN NoFlight
                 ELSE IF begins THEN r ELSE pane[p].promise
           sent == [new EXCEPT !.on = on, !.at = IF on = NoFlight THEN "sent" ELSE "token"]
<1>1. /\ storage \in Accounts /\ cookie \in Accounts /\ pane \in [Panes -> PaneRec]
      /\ flight \in [Flights -> FlightRec] /\ speaks \in [Panes -> Accounts \cup {Anyone}]
      /\ \A f \in Flights : SignsIn(f)
      /\ \A q \in Panes : SignedOut(q) /\ SignedIn(q)
  BY DEF TabsInv, BrowserTypeOK
<1>2. pane[p] \in PaneRec /\ token \in Accounts /\ on \in Flights \cup {NoFlight}
  BY <1>1 DEF TokenOf, PaneRec
<1>3. /\ RefreshOf(p) \in FlightRec /\ RefreshOf(p).kind = "refresh" /\ RefreshOf(p).pane = p
  BY <1>1, Records DEF RefreshOf, FlightRec
<1>4. sent \in FlightRec /\ sent.kind = new.kind /\ sent.user = new.user
  BY <1>2 DEF FlightRec
<1>5. /\ flight' = [f \in Flights |-> IF f = c THEN sent
                                    ELSE IF begins /\ f = r THEN RefreshOf(p) ELSE flight[f]]
      /\ pane' = [pane EXCEPT ![p].cached = IF pane[p].enabled THEN token ELSE @,
                              ![p].promise = IF begins THEN r ELSE @]
  BY DEF GetToken
<1> HIDE DEF token, begins, on, sent
<1>6. flight' \in [Flights -> FlightRec]
  BY <1>1, <1>3, <1>4, <1>5
<1>7. \A f \in Flights : SignsIn(f)'
  BY <1>1, <1>3, <1>4, <1>5 DEF SignsIn
<1>8. /\ pane' \in [Panes -> PaneRec]
      /\ \A q \in Panes : pane'[q].enabled = pane[q].enabled
      /\ \A q \in Panes : q # p => pane'[q] = pane[q]
      /\ pane'[p].cached = IF pane[p].enabled THEN token ELSE pane[p].cached
  BY <1>1, <1>2, <1>5 DEF PaneRec
<1>9. ASSUME NEW q \in Panes, speaks[q] \in Users, q \notin late
      PROVE  pane'[q].cached = pane[q].cached /\ Out(q)' \subseteq Out(q)
  <2>1. pane[q].enabled /\ pane[q].cached = speaks[q]
    BY <1>1, <1>9 DEF SignedIn
  <2>2. q = p => token = pane[q].cached /\ ~begins
    BY <1>9, <2>1 DEF token, begins, TokenOf
  <2>3. ASSUME NEW f \in Out(q)' PROVE f \in Out(q)
    <3>1. f \in Flights /\ flight'[f].kind = "refresh" /\ flight'[f].pane = q /\ flight'[f].alive
      BY DEF Out
    <3>2. flight'[f] = flight[f]
      BY <1>3, <1>4, <1>5, <2>2, <3>1
    <3> QED BY <3>1, <3>2 DEF Out
  <2> QED BY <1>8, <2>1, <2>2, <2>3
<1> QED BY <1>1, <1>6, <1>7, <1>8, <1>9, QuietStep

\* What a refresh that ends leaves of the requests: those that awaited it go on.
LEMMA ResolvedFlights ==
  ASSUME TabsInv, NEW f \in Flights, flight' = Resolved(flight, f)
  PROVE  /\ flight' \in [Flights -> FlightRec]
         /\ \A g \in Flights : SignsIn(g)'
         /\ \A p \in Panes : Out(p)' \subseteq Out(p)
<1>1. flight \in [Flights -> FlightRec] /\ \A g \in Flights : SignsIn(g)
  BY DEF TabsInv, BrowserTypeOK
<1>2. ASSUME NEW g \in Flights
      PROVE  /\ flight'[g] \in FlightRec
             /\ \/ flight'[g] = NoCallOut
                \/ /\ flight'[g].kind = flight[g].kind /\ flight'[g].user = flight[g].user
                   /\ flight'[g].pane = flight[g].pane
                   /\ flight'[g].alive <=> flight[g].alive
  <2>1. flight[g] \in FlightRec
    BY <1>1
  <2>2. LET q == [flight[g] EXCEPT !.on = NoFlight, !.at = "sent"]
        IN /\ q \in FlightRec /\ q.kind = flight[g].kind /\ q.user = flight[g].user
           /\ q.pane = flight[g].pane /\ q.alive = flight[g].alive
    BY <2>1 DEF FlightRec
  <2>3. flight'[g] \in {NoCallOut, [flight[g] EXCEPT !.on = NoFlight, !.at = "sent"], flight[g]}
    BY DEF Resolved
  <2> QED BY <2>1, <2>2, <2>3, Records
<1>3. flight' \in [Flights -> FlightRec]
  BY <1>2 DEF Resolved
<1>4. \A g \in Flights : SignsIn(g)'
  BY <1>1, <1>2, Records DEF SignsIn
<1>5. ASSUME NEW p \in Panes, NEW g \in Out(p)' PROVE g \in Out(p)
  BY <1>2, Records DEF Out
<1> QED BY <1>3, <1>4, <1>5

\* A refresh that gives no token changes nobody's.
LEMMA NoTokenKeeps ==
  ASSUME TabsInv, NEW f \in Flights, NoToken(f), cookie' \in Accounts PROVE TabsInv'
<1>1. /\ storage \in Accounts /\ pane \in [Panes -> PaneRec] /\ flight[f] \in FlightRec
      /\ flight[f].pane \in Panes
  BY DEF TabsInv, BrowserTypeOK, FlightRec
<1>2. /\ pane' = [pane EXCEPT ![flight[f].pane].promise = IF flight[f].alive THEN NoFlight ELSE @]
      /\ flight' = Resolved(flight, f) /\ UNCHANGED <<storage, speaks, late>>
  BY DEF NoToken
<1>3. /\ pane' \in [Panes -> PaneRec]
      /\ \A p \in Panes : pane'[p].enabled = pane[p].enabled /\ pane'[p].cached = pane[p].cached
  BY <1>1, <1>2 DEF PaneRec
<1> QED BY <1>1, <1>2, <1>3, ResolvedFlights, QuietStep

\* The answer of a refresh, with or without a token.
LEMMA RefreshAnsweredKeeps ==
  ASSUME TabsInv, NEW f \in Flights, RefreshAnswered(f) PROVE TabsInv'
<1>1. /\ storage \in Accounts /\ cookie \in Accounts /\ pane \in [Panes -> PaneRec]
      /\ flight \in [Flights -> FlightRec] /\ flight[f].user \in Accounts
      /\ \A g \in Flights : SignsIn(g)
  BY DEF TabsInv, BrowserTypeOK, FlightRec
<1>2. cookie' \in Accounts
  BY <1>1 DEF RefreshAnswered
<1>3. CASE NoToken(f)
  BY <1>2, <1>3, NoTokenKeeps
<1>4. CASE flight' = [flight EXCEPT ![f].at = "body"] /\ UNCHANGED <<storage, pane, speaks, late>>
  <2> DEFINE q == [flight[f] EXCEPT !.at = "body"]
  <2>1. /\ q \in FlightRec /\ q.kind = flight[f].kind /\ q.user = flight[f].user
        /\ q.pane = flight[f].pane /\ q.alive = flight[f].alive
    BY <1>1 DEF FlightRec
  <2>2. flight' = [flight EXCEPT ![f] = q]
    BY <1>4
  <2> HIDE DEF q
  <2>3. flight' \in [Flights -> FlightRec] /\ \A g \in Flights : SignsIn(g)'
    BY <1>1, <2>1, <2>2 DEF SignsIn
  <2>4. \A p \in Panes : Out(p)' \subseteq Out(p)
    BY <1>1, <2>1, <2>2 DEF Out
  <2> QED BY <1>1, <1>2, <1>4, <2>3, <2>4, QuietStep
<1> QED BY <1>3, <1>4 DEF RefreshAnswered

\* A token is stored only by a tab of which nothing is said.
LEMMA RefreshEndsKeeps ==
  ASSUME TabsInv, NEW f \in Flights, RefreshEnds(f) PROVE TabsInv'
<1> DEFINE p == flight[f].pane
<1>1. /\ storage \in Accounts /\ cookie \in Accounts /\ pane \in [Panes -> PaneRec]
      /\ flight[f].user \in Accounts /\ p \in Panes
      /\ \A q \in Panes : SignedIn(q)
  BY DEF TabsInv, BrowserTypeOK, FlightRec
<1>2. CASE NoToken(f)
  BY <1>1, <1>2, NoTokenKeeps DEF RefreshEnds
<1>3. CASE ~NoToken(f)
  <2> DEFINE new == [cached |-> flight[f].user, enabled |-> TRUE, promise |-> NoFlight]
  <2>1. /\ flight[f].kind = "refresh" /\ flight[f].alive /\ pane[p].enabled
        /\ storage' = flight[f].user /\ pane' = [pane EXCEPT ![p] = new]
        /\ flight' = Resolved(flight, f) /\ UNCHANGED <<cookie, speaks, late>>
    BY <1>3 DEF RefreshEnds
  <2>2. new \in PaneRec /\ new.enabled
    BY <1>1 DEF PaneRec
  <2> HIDE DEF new
  <2>3. f \in Out(p)
    BY <2>1 DEF Out
  <2>4. ~(speaks[p] \in Users /\ p \notin late)
    BY <1>1, <2>3 DEF SignedIn
  <2>5. /\ pane' \in [Panes -> PaneRec]
        /\ \A q \in Panes : q # p => pane'[q] = pane[q]
        /\ pane'[p].enabled
    BY <1>1, <2>1, <2>2
  <2>6. \A q \in Panes : pane'[q].enabled = pane[q].enabled
    <3>1. pane[p] \in PaneRec /\ pane'[p] \in PaneRec
      BY <1>1, <2>5
    <3>2. pane'[p].enabled = pane[p].enabled
      BY <2>1, <2>5, <3>1 DEF PaneRec
    <3> QED BY <2>5, <3>2
  <2>7. \A q \in Panes : speaks[q] \in Users /\ q \notin late => pane'[q].cached = pane[q].cached
    BY <2>4, <2>5
  <2> QED BY <1>1, <2>1, <2>5, <2>6, <2>7, ResolvedFlights, QuietStep
<1> QED BY <1>2, <1>3

\* The answer of a sign-in changes only the cookie.
LEMMA SignInAnsweredKeeps ==
  ASSUME TabsInv, NEW f \in Flights, SignInAnswered(f) PROVE TabsInv'
<1>1. /\ storage \in Accounts /\ cookie \in Accounts /\ pane \in [Panes -> PaneRec]
      /\ flight \in [Flights -> FlightRec] /\ flight[f].user \in Accounts
      /\ \A g \in Flights : SignsIn(g)
  BY DEF TabsInv, BrowserTypeOK, FlightRec
<1>2. PICK q : /\ flight' = [flight EXCEPT ![f] = q]
               /\ q = [flight[f] EXCEPT !.at = "body"] \/ q = NoCallOut
  BY DEF SignInAnswered
<1>3. /\ q \in FlightRec /\ q.kind # "refresh"
      /\ q.kind = "none" \/ (q.kind = flight[f].kind /\ q.user = flight[f].user)
  <2>1. LET b == [flight[f] EXCEPT !.at = "body"]
        IN b \in FlightRec /\ b.kind = flight[f].kind /\ b.user = flight[f].user
    BY <1>1 DEF FlightRec
  <2>2. flight[f].kind # "refresh"
    BY DEF SignInAnswered
  <2> QED BY <1>2, <2>1, <2>2, Records
<1>4. flight' \in [Flights -> FlightRec] /\ \A g \in Flights : SignsIn(g)'
  BY <1>1, <1>2, <1>3 DEF SignsIn
<1>5. \A p \in Panes : Out(p)' \subseteq Out(p)
  BY <1>1, <1>2, <1>3 DEF Out
<1>6. cookie' \in Accounts /\ UNCHANGED <<storage, pane, speaks, late>>
  BY <1>1 DEF SignInAnswered
<1> QED BY <1>1, <1>4, <1>5, <1>6, QuietStep

\* A request that is over, and what it leaves of the others.
LEMMA OverFlights ==
  ASSUME TabsInv, NEW f \in Flights, flight' = [flight EXCEPT ![f] = NoCallOut]
  PROVE  /\ flight' \in [Flights -> FlightRec]
         /\ \A g \in Flights : SignsIn(g)'
         /\ \A p \in Panes : Out(p)' \subseteq Out(p)
<1>1. flight \in [Flights -> FlightRec] /\ \A g \in Flights : SignsIn(g)
  BY DEF TabsInv, BrowserTypeOK
<1> QED BY <1>1, Records DEF SignsIn, Out

\* A tab that has signed in speaks for its account.
LEMMA SignInEndsKeeps ==
  ASSUME TabsInv, NEW f \in Flights, SignInEnds(f) PROVE TabsInv'
<1> PICK p \in Panes : p = flight[f].pane
  BY DEF TabsInv, BrowserTypeOK, FlightRec
<1>1. /\ storage \in Accounts /\ cookie \in Accounts /\ pane \in [Panes -> PaneRec]
      /\ flight \in [Flights -> FlightRec] /\ flight[f].user \in Users /\ p \in Panes
      /\ speaks \in [Panes -> Accounts \cup {Anyone}] /\ late \subseteq Panes
      /\ \A q \in Panes : SignedOut(q) /\ SignedIn(q)
  BY DEF TabsInv, BrowserTypeOK, FlightRec, SignsIn, SignInEnds
<1>2. flight' = [flight EXCEPT ![f] = NoCallOut] /\ UNCHANGED cookie
  BY DEF SignInEnds
<1>3. CASE ~flight[f].alive
  BY <1>1, <1>2, <1>3, OverFlights, QuietStep DEF SignInEnds
<1>4. CASE flight[f].alive
  <2>1. /\ storage' = flight[f].user
        /\ pane' = [pane EXCEPT ![p].enabled = TRUE, ![p].cached = flight[f].user]
        /\ speaks' = [speaks EXCEPT ![p] = flight[f].user]
        /\ late' = IF Out(p) = {} THEN late \ {p} ELSE late \cup {p}
    BY <1>4 DEF SignInEnds, Store
  <2>2. /\ pane' \in [Panes -> PaneRec] /\ pane'[p].enabled /\ pane'[p].cached = flight[f].user
        /\ \A q \in Panes : q # p => pane'[q] = pane[q]
    <3>1. LET r == [pane[p] EXCEPT !.enabled = TRUE, !.cached = flight[f].user]
          IN r \in PaneRec /\ r.enabled /\ r.cached = flight[f].user
      <4>1. pane[p] \in PaneRec /\ flight[f].user \in Accounts
        BY <1>1
      <4> QED BY <4>1 DEF PaneRec
    <3>2. pane' = [pane EXCEPT ![p] = [pane[p] EXCEPT !.enabled = TRUE, !.cached = flight[f].user]]
      BY <1>1, <2>1
    <3> QED BY <1>1, <3>1, <3>2
  <2>3. BrowserTypeOK'
    BY <1>1, <1>2, <2>1, <2>2, OverFlights DEF BrowserTypeOK
  <2>4. SignedOut(p)' /\ SignedIn(p)'
    BY <1>1, <1>2, <2>1, <2>2, OverFlights DEF SignedOut, SignedIn
  <2>5. ASSUME NEW q \in Panes, q # p PROVE SignedOut(q)' /\ SignedIn(q)'
    <3>1. pane'[q] = pane[q] /\ speaks'[q] = speaks[q] /\ (q \in late' <=> q \in late)
      BY <1>1, <2>1, <2>2, <2>5
    <3>2. Out(q)' \subseteq Out(q)
      BY <1>2, OverFlights
    <3> QED BY <1>1, <3>1, <3>2 DEF SignedOut, SignedIn
  <2> QED BY <1>2, <2>3, <2>4, <2>5, OverFlights DEF TabsInv
<1> QED BY <1>3, <1>4

\* A tab that has signed out takes no token, whether or not it was answered.
LEMMA SignOutEndsKeeps ==
  ASSUME TabsInv, NEW f \in Flights, SignOutEnds(f) PROVE TabsInv'
<1> PICK p \in Panes : p = flight[f].pane
  BY DEF TabsInv, BrowserTypeOK, FlightRec
<1> DEFINE new == [NewPane EXCEPT !.enabled = FALSE]
<1>1. /\ storage \in Accounts /\ cookie \in Accounts /\ pane \in [Panes -> PaneRec]
      /\ flight \in [Flights -> FlightRec] /\ p \in Panes
      /\ speaks \in [Panes -> Accounts \cup {Anyone}] /\ late \subseteq Panes
      /\ \A q \in Panes : SignedOut(q) /\ SignedIn(q)
  BY DEF TabsInv, BrowserTypeOK, FlightRec
<1>2. flight' = [flight EXCEPT ![f] = NoCallOut] /\ cookie' \in Accounts /\ UNCHANGED late
  BY <1>1 DEF SignOutEnds
<1>3. CASE ~flight[f].alive
  BY <1>1, <1>2, <1>3, OverFlights, QuietStep DEF SignOutEnds
<1>4. CASE flight[f].alive
  <2>1. new \in PaneRec /\ ~new.enabled
    BY Records DEF PaneRec
  <2>2. /\ storage' = Nobody /\ pane' = [pane EXCEPT ![p] = new]
        /\ speaks' = [speaks EXCEPT ![p] = Nobody]
    BY <1>4 DEF SignOutEnds
  <2> HIDE DEF new
  <2>3. BrowserTypeOK'
    BY <1>1, <1>2, <2>1, <2>2, OverFlights DEF BrowserTypeOK
  <2>4. SignedOut(p)' /\ SignedIn(p)'
    BY <1>1, <2>1, <2>2 DEF SignedOut, SignedIn
  <2>5. ASSUME NEW q \in Panes, q # p PROVE SignedOut(q)' /\ SignedIn(q)'
    <3>1. pane'[q] = pane[q] /\ speaks'[q] = speaks[q]
      BY <1>1, <2>2, <2>5
    <3>2. Out(q)' \subseteq Out(q)
      BY <1>2, OverFlights
    <3> QED BY <1>1, <1>2, <3>1, <3>2 DEF SignedOut, SignedIn
  <2> QED BY <1>2, <2>3, <2>4, <2>5, OverFlights DEF TabsInv
<1> QED BY <1>3, <1>4

\* A page that is loaded anew speaks for whoever is signed in.
LEMMA ReloadedKeeps ==
  ASSUME TabsInv, NEW p \in Panes, NEW fs \in [Flights -> FlightRec], Reloaded(p, fs),
         \A g \in Flights : fs[g] = flight[g] \/ fs[g] = NoCallOut,
         storage' \in Accounts, cookie' \in Accounts
  PROVE  TabsInv'
<1>1. /\ pane \in [Panes -> PaneRec] /\ speaks \in [Panes -> Accounts \cup {Anyone}]
      /\ late \subseteq Panes
      /\ \A g \in Flights : SignsIn(g)
      /\ \A q \in Panes : SignedOut(q) /\ SignedIn(q)
  BY DEF TabsInv, BrowserTypeOK
<1>2. ASSUME NEW g \in Flights
      PROVE  /\ flight'[g] \in FlightRec
             /\ \/ flight'[g].kind = "none"
                \/ /\ flight'[g].kind = flight[g].kind /\ flight'[g].user = flight[g].user
                   /\ flight'[g].pane = flight[g].pane
                   /\ flight'[g].alive => flight[g].alive
  <2>1. LET q == [fs[g] EXCEPT !.alive = FALSE]
        IN /\ q \in FlightRec /\ q.kind = fs[g].kind /\ q.user = fs[g].user
           /\ q.pane = fs[g].pane /\ ~q.alive
    BY DEF FlightRec
  <2>2. flight'[g] \in {fs[g], [fs[g] EXCEPT !.alive = FALSE], NoCallOut}
    BY DEF Reloaded
  <2> QED BY <2>1, <2>2, Records
<1>3. flight' \in [Flights -> FlightRec]
  BY <1>2 DEF Reloaded
<1>4. \A g \in Flights : SignsIn(g)'
  BY <1>1, <1>2 DEF SignsIn
<1>5. \A q \in Panes : Out(q)' \subseteq Out(q)
  BY <1>2 DEF Out
<1>6. /\ pane' = [pane EXCEPT ![p] = NewPane] /\ speaks' = [speaks EXCEPT ![p] = Anyone]
      /\ late' = late \ {p}
  BY DEF Reloaded
<1>7. BrowserTypeOK'
  BY <1>1, <1>3, <1>6, Records DEF BrowserTypeOK
<1>8. ASSUME NEW q \in Panes PROVE SignedOut(q)' /\ SignedIn(q)'
  BY <1>1, <1>5, <1>6 DEF SignedOut, SignedIn
<1> QED BY <1>4, <1>7, <1>8 DEF TabsInv

\* Redeeming an invitation stores a token and loads the page anew.
LEMMA RedeemEndsKeeps ==
  ASSUME TabsInv, NEW f \in Flights, RedeemEnds(f) PROVE TabsInv'
<1>1. /\ storage \in Accounts /\ cookie \in Accounts /\ pane \in [Panes -> PaneRec]
      /\ flight \in [Flights -> FlightRec] /\ flight[f].user \in Accounts
      /\ flight[f].pane \in Panes
  BY DEF TabsInv, BrowserTypeOK, FlightRec
<1>2. CASE ~flight[f].alive
  BY <1>1, <1>2, OverFlights, QuietStep DEF RedeemEnds
<1>3. CASE flight[f].alive
  <2> DEFINE fs == [flight EXCEPT ![f] = NoCallOut]
  <2>1. /\ fs \in [Flights -> FlightRec]
        /\ \A g \in Flights : fs[g] = flight[g] \/ fs[g] = NoCallOut
    BY <1>1, Records
  <2>2. Reloaded(flight[f].pane, fs) /\ storage' = flight[f].user /\ UNCHANGED cookie
    BY <1>3 DEF RedeemEnds
  <2> HIDE DEF fs
  <2>3. PICK p \in Panes : p = flight[f].pane
    BY <1>1
  <2>4. Reloaded(p, fs)
    BY <2>2, <2>3 DEF Reloaded
  <2> QED BY <1>1, <2>1, <2>2, <2>4, ReloadedKeeps
<1> QED BY <1>2, <1>3

\* A page that is loaded anew without a redemption.
LEMMA ReloadKeeps ==
  ASSUME TabsInv, NEW p \in Panes, ReloadPage(p) PROVE TabsInv'
BY ReloadedKeeps DEF ReloadPage, TabsInv, BrowserTypeOK

\* A request of a page, or a sign-in, redemption or sign-out that is sent.
LEMMA StartKeeps ==
  ASSUME TabsInv, NEW p \in Panes, NEW r \in Flights,
         \/ Ask(p, r)
         \/ \E f \in Flights : SignOut(p, f, r) \/ \E u \in Users : SignIn(p, u, f, r) \/ Redeem(p, u, f, r)
  PROVE  TabsInv'
<1>1. ASSUME NEW f \in Flights, NEW kind \in {"signIn", "redeem", "signOut"}, NEW u \in Accounts,
             kind # "signOut" => u \in Users, Start(kind, p, u, f, r)
      PROVE  TabsInv'
  <2> DEFINE new == [NoCallOut EXCEPT !.kind = kind, !.pane = p, !.user = u, !.alive = TRUE]
  <2>1. new \in FlightRec /\ new.kind = kind /\ new.user = u
    BY Records DEF FlightRec
  <2>2. GetToken(p, f, new, r) /\ UNCHANGED <<storage, cookie, speaks, late>>
    BY <1>1 DEF Start
  <2> HIDE DEF new
  <2> QED BY <1>1, <2>1, <2>2, TokenKeeps
<1>2. CASE Ask(p, r)
  BY <1>2, TokenKeeps, Records DEF Ask
<1> QED BY <1>1, <1>2 DEF SignIn, Redeem, SignOut

\* The invariant is inductive.
LEMMA TabsInvNext == TabsInv /\ [BrowserNext]_browserVars => TabsInv'
<1> SUFFICES ASSUME TabsInv, [BrowserNext]_browserVars PROVE TabsInv'
  OBVIOUS
<1>1. CASE UNCHANGED browserVars
  BY <1>1 DEF browserVars, TabsInv, BrowserTypeOK, SignsIn, SignedOut, SignedIn, Out
<1>2. CASE \E p \in Panes : ReloadPage(p)
  BY <1>2, ReloadKeeps
<1>3. CASE \E p \in Panes, r \in Flights :
             \/ Ask(p, r)
             \/ \E f \in Flights : SignOut(p, f, r) \/ \E u \in Users : SignIn(p, u, f, r) \/ Redeem(p, u, f, r)
  BY <1>3, StartKeeps
<1>4. CASE \E f \in Flights : \/ RefreshAnswered(f) \/ RefreshEnds(f)
                              \/ SignInAnswered(f) \/ SignInEnds(f) \/ RedeemEnds(f) \/ SignOutEnds(f)
  BY <1>4, RefreshAnsweredKeeps, RefreshEndsKeeps, SignInAnsweredKeeps, SignInEndsKeeps,
     RedeemEndsKeeps, SignOutEndsKeeps
<1> QED BY <1>1, <1>2, <1>3, <1>4 DEF BrowserNext

(***************************************************************************)
(* However many tabs and requests there are: a tab speaks for the account  *)
(* it signed in as until it is loaded anew, and for none once it has       *)
(* signed out, unless a refresh of its own was out as it signed in.        *)
(***************************************************************************)
THEOREM TabsSpeakForTheirAccount == BrowserSpec => []TabSpeaksForItsAccount
BY TabsInvInit, TabsInvNext, TabsInvSpeaks, PTL DEF BrowserSpec
-----------------------------------------------------------------------------
(***************************************************************************)
(* The pages that sign in.  /login starts its timer once: as long as no    *)
(* status has changed meanwhile, it is still running.                      *)
(***************************************************************************)
TimerRuns ==
  /\ login.page = "login" /\ Succeeded(login.status) /\ ~login.hurried => login.timer
  /\ login.page = "link" /\ Succeeded(login.status) => login.timer

LoginInv ==
  /\ LoginTypeOK /\ TimerRuns
  /\ login.page = "login" /\ login.navigated /\ ~login.hurried => login.timer

LEMMA NewLoginFits ==
  /\ NewLogin \in LoginRec /\ ~NewLogin.navigated /\ ~NewLogin.timer
  /\ NewLogin.page = "login" /\ ~Succeeded(NewLogin.status)
<1>1. [f \in Forms |-> "idle"] \in [Forms -> {"idle", "loading", "success", "error"}]
  OBVIOUS
<1> QED
  BY <1>1 DEF NewLogin, LoginRec, Succeeded

\* A page that was only just opened, or left.
LEMMA OpenedKeeps ==
  ASSUME NEW p \in {"login", "link", "invite", "away"}, NEW s \in [Forms -> {"idle", "loading", "success", "error"}],
         ~Succeeded(s), login' = [NewLogin EXCEPT !.page = p, !.status = s]
  PROVE  LoginInv'
<1>1. PICK v : v = [NewLogin EXCEPT !.page = p, !.status = s]
  OBVIOUS
<1>2. v \in LoginRec /\ v.status = s /\ ~v.navigated
  BY <1>1, NewLoginFits DEF LoginRec
<1>3. login' = v
  BY <1>1
<1> QED
  BY <1>2, <1>3 DEF LoginInv, LoginTypeOK, TimerRuns

LEMMA LoginInvInit == LoginInit => LoginInv
<1> SUFFICES ASSUME LoginInit PROVE LoginInv
  OBVIOUS
<1>1. PICK v : v = [NewLogin EXCEPT !.page = "away"]
  OBVIOUS
<1>2. v \in LoginRec /\ v.page = "away"
  BY <1>1, NewLoginFits DEF LoginRec
<1> QED
  BY <1>1, <1>2 DEF LoginInit, LoginInv, LoginTypeOK, TimerRuns

LEMMA LeaveKeeps == LoginInv /\ LeaveLogin => LoginInv'
<1> SUFFICES ASSUME LeaveLogin PROVE LoginInv'
  OBVIOUS
<1>1. PICK v : v = [NewLogin EXCEPT !.page = "away"]
  OBVIOUS
<1>2. v \in LoginRec /\ v.page = "away"
  BY <1>1, NewLoginFits DEF LoginRec
<1> QED
  BY <1>1, <1>2 DEF LeaveLogin, LoginInv, LoginTypeOK, TimerRuns

\* A form changes its status, and the effect of the page runs.
LEMMA BecomesKeeps ==
  ASSUME LoginInv, NEW f \in Forms, NEW s \in {"loading", "success", "error"}, Becomes(f, s)
  PROVE  LoginInv'
<1>1. PICK l \in LoginRec : l = login
  BY DEF LoginInv, LoginTypeOK
<1>2. PICK st : st = [l.status EXCEPT ![f] = s]
  OBVIOUS
<1>3. st \in [Forms -> {"idle", "loading", "success", "error"}]
  BY <1>2 DEF LoginRec
<1>4. CASE l.page = "login" /\ LoginEffect(st)
  <2>1. PICK start \in BOOLEAN : start = (Succeeded(st) /\ ~l.navigated)
    OBVIOUS
  <2>2. PICK v : v = [l EXCEPT !.status = st, !.timer = start,
                               !.navigated = l.navigated \/ start, !.hurried = l.hurried \/ l.timer]
    OBVIOUS
  <2>3. login' = v
    BY <1>1, <1>4, <2>1, <2>2 DEF LoginEffect
  <2>4. /\ v \in LoginRec /\ v.page = "login" /\ v.status = st /\ v.timer = start
        /\ v.navigated = (l.navigated \/ start) /\ v.hurried = (l.hurried \/ l.timer)
    BY <1>3, <1>4, <2>2 DEF LoginRec
  <2>5. l.navigated /\ ~l.hurried => l.timer
    BY <1>1, <1>4 DEF LoginInv
  <2> QED
    BY <2>1, <2>3, <2>4, <2>5 DEF LoginInv, LoginTypeOK, TimerRuns
<1>5. CASE l.page = "link" /\ LinkEffect(st)
  <2>1. PICK start \in BOOLEAN : start = Succeeded(st)
    BY DEF Succeeded
  <2>2. PICK v : v = [l EXCEPT !.status = st, !.timer = start]
    OBVIOUS
  <2>3. login' = v
    BY <1>1, <1>5, <2>1, <2>2 DEF LinkEffect
  <2>4. v \in LoginRec /\ v.page = "link" /\ v.status = st /\ v.timer = start
    BY <1>3, <1>5, <2>2 DEF LoginRec
  <2> QED
    BY <2>1, <2>3, <2>4 DEF LoginInv, LoginTypeOK, TimerRuns
<1>6. CASE l.page = "invite" /\ login' = [l EXCEPT !.status = st]
  <2>1. PICK v : v = [l EXCEPT !.status = st]
    OBVIOUS
  <2>2. v \in LoginRec /\ v.page = "invite"
    BY <1>3, <1>6, <2>1 DEF LoginRec
  <2> QED
    BY <1>6, <2>1, <2>2 DEF LoginInv, LoginTypeOK, TimerRuns
<1> QED
  BY <1>1, <1>2, <1>4, <1>5, <1>6 DEF Becomes

LEMMA LoginInvNext == LoginInv /\ [LoginNext]_loginVars => LoginInv'
<1> SUFFICES ASSUME LoginInv, [LoginNext]_loginVars PROVE LoginInv'
  OBVIOUS
<1>1. CASE VisitLogin
  BY <1>1, NewLoginFits DEF VisitLogin, LoginInv, LoginTypeOK, TimerRuns
<1>2. CASE VisitLink
  <2>1. PICK s : s = [NewLogin.status EXCEPT !["link"] = "loading"]
    OBVIOUS
  <2>2. s \in [Forms -> {"idle", "loading", "success", "error"}] /\ ~Succeeded(s)
    BY <2>1, NewLoginFits DEF LoginRec, Succeeded
  <2>3. login' = [NewLogin EXCEPT !.page = "link", !.status = s]
    BY <1>2, <2>1, NewLoginFits DEF VisitLink, LoginRec
  <2> QED
    BY <2>2, <2>3, OpenedKeeps
<1>3. CASE VisitInvite
  <2>1. PICK v : v = [NewLogin EXCEPT !.page = "invite"]
    OBVIOUS
  <2>2. v \in LoginRec /\ v.page = "invite"
    BY <2>1, NewLoginFits DEF LoginRec
  <2> QED
    BY <1>3, <2>1, <2>2 DEF VisitInvite, LoginInv, LoginTypeOK, TimerRuns
<1>4. CASE ProbeEnds
  <2>1. PICK l \in LoginRec : l = login
    BY DEF LoginInv, LoginTypeOK
  <2>2. PICK health \in {"healthy", "issue"} : login' = [l EXCEPT !.health = health]
    BY <1>4, <2>1 DEF ProbeEnds
  <2>3. PICK v : v = [l EXCEPT !.health = health]
    OBVIOUS
  <2>4. /\ v \in LoginRec /\ v.page = l.page /\ v.status = l.status /\ v.timer = l.timer
        /\ v.navigated = l.navigated /\ v.hurried = l.hurried
    BY <2>3 DEF LoginRec
  <2>5. login' = v
    BY <2>2, <2>3
  <2> QED
    BY <2>1, <2>4, <2>5 DEF LoginInv, LoginTypeOK, TimerRuns
<1>5. CASE LeaveLogin \/ InviteRedeemed \/ ContinueNow \/ Redirected
  BY <1>5, LeaveKeeps DEF InviteRedeemed, ContinueNow, Redirected
<1>6. CASE SubmitInvite \/ RetryLink
  BY <1>6, BecomesKeeps DEF SubmitInvite, RetryLink, Forms
<1>7. ASSUME NEW f \in Forms, Submit(f) \/ SubmitBlank(f) \/ Answered(f) \/ Refused(f) PROVE LoginInv'
  BY <1>7, BecomesKeeps DEF Submit, SubmitBlank, Answered, Refused
<1>8. CASE UNCHANGED loginVars
  BY <1>8 DEF loginVars, LoginInv, LoginTypeOK, TimerRuns
<1> QED
  BY <1>1, <1>2, <1>3, <1>4, <1>5, <1>6, <1>7, <1>8 DEF LoginNext

(***************************************************************************)
(* /login and /magic-link: a page that shows a success has the timer of    *)
(* its redirection running, unless on /login a status has changed while it *)
(* ran.  This is what LoginMovesOn rests on: no effect clears the timer    *)
(* without a change the reader made.                                       *)
(***************************************************************************)
THEOREM RedirectionIsUnderWay == LoginSpec => []TimerRuns
<1>1. LoginInv => TimerRuns
  BY DEF LoginInv
<1> QED
  BY <1>1, LoginInvInit, LoginInvNext, PTL DEF LoginSpec

-----------------------------------------------------------------------------
(***************************************************************************)
(* The parts side by side.                                                 *)
(***************************************************************************)
PagesInv == Inv /\ LoginInv /\ TabsInv

LEMMA PagesInvNext == PagesInv /\ [PagesNext]_pagesVars => PagesInv'
<1> SUFFICES ASSUME PagesInv, [PagesNext]_pagesVars PROVE PagesInv'
  OBVIOUS
<1>1. [Next]_vars /\ [LoginNext]_loginVars /\ [BrowserNext]_browserVars
  BY DEF PagesNext, pagesVars
<1> QED
  BY <1>1, InvNext, LoginInvNext, TabsInvNext DEF PagesInv

(***************************************************************************)
(* Links, requests and grants, the page that signs in, tabs, storage and   *)
(* cookie keep their types.                                                *)
(***************************************************************************)
THEOREM PagesAreTyped == PagesSpec => []PagesTypeOK
<1>1. PagesInit => PagesInv
  BY InvInit, LoginInvInit, TabsInvInit DEF PagesInit, PagesInv
<1>2. PagesInv => PagesTypeOK
  BY DEF PagesInv, PagesTypeOK, Inv, LoginInv, TabsInv
<1> QED
  BY <1>1, <1>2, PagesInvNext, PTL DEF PagesSpec
=============================================================================
