-------------------------- MODULE MagicLinksProofs --------------------------
(***************************************************************************)
(* MagicLinks implements OneTimeToken, for any number of links, requests   *)
(* and pages: a link that is open in one page lets at most one request     *)
(* through, whatever Redis does.  A link is unknown while the request that *)
(* mints it is under way, and the only request that consumes it is the one *)
(* of its page; so what a request read of it is still true when it deletes *)
(* it.                                                                     *)
(***************************************************************************)
EXTENDS MagicLinks, TLAPS

\* The requests that have minted a link and not mailed it yet.
Making(t) == {r \in Requests : req[r].link = t /\ req[r].pc \in {"save", "mail"}}

Deleting(t) == \E r \in Consuming(t) : At(r, "del")

LinkOK(t) ==
  /\ t > minted => t \notin known /\ Making(t) = {}
  /\ t \notin known => grants[t] = 0 /\ Consuming(t) = {}
  /\ t \in known => Making(t) = {}
  /\ \A r, s \in Making(t) : r = s
  /\ t \notin Shared =>
       /\ \A r, s \in Consuming(t) : r = s
       /\ grants[t] <= 1
       /\ grants[t] > 0 => t \notin stored /\ ~Deleting(t)

\* An idle slot is about no link, and it alone.
Idles == \A r \in Requests : req[r].pc = "idle" <=> req[r].link = NoLink

Inv == TypeOK /\ Idles /\ \A t \in Links : LinkOK(t)

USE MagicLinksAssumption

\* No request is about the link of an idle slot.
LEMMA NoLinkIsNone == NoLink \notin Links /\ Links \subseteq Nat
BY DEF NoLink, Links

\* Initially there are no links.
LEMMA InvInit == Init => Inv
<1> SUFFICES ASSUME Init PROVE Inv
  OBVIOUS
<1>1. TypeOK
  BY DEF Init, TypeOK, Idle, PCs, Links
<1>2. ASSUME NEW t \in Links PROVE LinkOK(t)
  <2>1. Making(t) = {} /\ Consuming(t) = {}
    BY NoLinkIsNone DEF Init, Making, Consuming, Idle
  <2> QED BY <2>1 DEF Init, LinkOK, Deleting
<1>3. Idles
  BY DEF Init, Idles, Idle
<1> QED BY <1>1, <1>2, <1>3 DEF Inv

-----------------------------------------------------------------------------
(***************************************************************************)
(* A step of one request, about one link.                                  *)
(***************************************************************************)
\* The slot and the link are the only ones that change.
Own(r, t) ==
  /\ \A s \in Requests \ {r} : req'[s] = req[s]
  /\ req[r].link \in {t, NoLink} /\ req'[r].link \in {t, NoLink}
  /\ req'[r].pc = "idle" <=> req'[r].link = NoLink
  /\ \A v \in Links \ {t} : /\ v \in stored' <=> v \in stored
                            /\ v \in known' <=> v \in known
                            /\ grants'[v] = grants[v]
  /\ minted <= minted'

\* What may become of a link, as OneTimeToken has it.
Moves(t) ==
  t \notin Shared =>
    \/ Stage(t)' = Stage(t) /\ grants'[t] = grants[t]
    \/ Stage(t) = "unissued" /\ Stage(t)' = "live" /\ grants'[t] = grants[t]
    \/ Stage(t) = "live" /\ Stage(t)' = "spent" /\ grants'[t] = grants[t] + 1
    \/ Stage(t) \in {"unissued", "live"} /\ Stage(t)' = "void" /\ grants'[t] = grants[t]

Still(t) == t \notin Shared => Stage(t)' = Stage(t) /\ grants'[t] = grants[t]

OneMoves ==
  \/ \A t \in Links : Still(t)
  \/ \E t \in Links : Moves(t) /\ \A v \in Links \ {t} : Still(v)

\* The requests about another link are the same before and after.
LEMMA OtherRequests ==
  ASSUME Inv, NEW r \in Requests, NEW t \in Links, Own(r, t), TypeOK',
         NEW v \in Links, v # t
  PROVE  /\ Making(v)' = Making(v) /\ Consuming(v)' = Consuming(v)
         /\ Deleting(v)' <=> Deleting(v)
<1>1. \A s \in Requests : req[s].link = v \/ req'[s].link = v => req'[s] = req[s]
  BY NoLinkIsNone DEF Own
<1>2. Making(v)' = Making(v) /\ Consuming(v)' = Consuming(v)
  BY <1>1 DEF Making, Consuming
<1>3. \A s \in Consuming(v) : req'[s] = req[s]
  BY <1>1 DEF Consuming
<1> QED BY <1>2, <1>3 DEF Deleting, At

\* What holds of the other links still holds, and they stay at their stages.
LEMMA OthersKeep ==
  ASSUME Inv, NEW r \in Requests, NEW t \in Links, Own(r, t), TypeOK', LinkOK(t)', Moves(t)
  PROVE  Inv' /\ OneMoves
<1>1. ASSUME NEW v \in Links, v # t PROVE LinkOK(v)' /\ Still(v)
  <2>1. /\ Making(v)' = Making(v) /\ Consuming(v)' = Consuming(v)
        /\ Deleting(v)' <=> Deleting(v)
    BY <1>1, OtherRequests
  <2>2. /\ v \in stored' <=> v \in stored
        /\ v \in known' <=> v \in known
        /\ grants'[v] = grants[v] /\ minted <= minted' /\ minted \in Nat /\ minted' \in Nat
        /\ v \in Nat
    BY <1>1, NoLinkIsNone DEF Own, Inv, TypeOK
  <2>3. LinkOK(v)'
    BY <2>1, <2>2 DEF Inv, LinkOK
  <2>4. Stage(v)' = Stage(v)
    BY <2>1, <2>2 DEF Stage, Deleting
  <2> QED BY <2>2, <2>3, <2>4 DEF Still
<1>2. Idles'
  BY DEF Inv, Idles, Own
<1> QED BY <1>1, <1>2 DEF Inv, OneMoves

\* A stage, told from what is known of the link.
LEMMA Stages ==
  ASSUME NEW t \in Links
  PROVE  Stage(t) = IF grants[t] > 0 THEN "spent"
                    ELSE IF t \notin known THEN "unissued"
                    ELSE IF t \in stored \/ Deleting(t) THEN "live" ELSE "void"
BY DEF Stage, Deleting

\* The slot of a request is written.
LEMMA Slots ==
  ASSUME TypeOK, NEW r \in Requests, NEW q \in [pc : PCs, link : Links \cup {NoLink}],
         req' = [req EXCEPT ![r] = q]
  PROVE  /\ req' \in [Requests -> [pc : PCs, link : Links \cup {NoLink}]] /\ req'[r] = q
         /\ \A s \in Requests \ {r} : req'[s] = req[s]
BY DEF TypeOK

\* It goes on to its next await, or is answered.
LEMMA GoesOn ==
  ASSUME TypeOK, NEW r \in Requests, NEW p \in PCs, Goto(r, p)
  PROVE  /\ req' \in [Requests -> [pc : PCs, link : Links \cup {NoLink}]]
         /\ req'[r].pc = p /\ req'[r].link = req[r].link
         /\ \A s \in Requests \ {r} : req'[s] = req[s]
<1> DEFINE q == [req[r] EXCEPT !.pc = p]
<1>1. q \in [pc : PCs, link : Links \cup {NoLink}] /\ q.pc = p /\ q.link = req[r].link
  BY DEF TypeOK
<1>2. req' = [req EXCEPT ![r] = q]
  BY DEF Goto, TypeOK
<1> HIDE DEF q
<1> QED BY <1>1, <1>2, Slots

\* An answered request is idle.
LEMMA AnswerIsIdle ==
  ASSUME TypeOK, NEW r \in Requests, Answer(r)
  PROVE  /\ req' \in [Requests -> [pc : PCs, link : Links \cup {NoLink}]]
         /\ req'[r].pc = "idle" /\ req'[r].link = NoLink
         /\ \A s \in Requests \ {r} : req'[s] = req[s]
<1>1. Idle \in [pc : PCs, link : Links \cup {NoLink}] /\ Idle.pc = "idle" /\ Idle.link = NoLink
  BY DEF Idle, PCs
<1> QED BY <1>1, Slots DEF Answer

\* A link that no page shares is looked up by one request alone.
LEMMA Alone ==
  ASSUME Inv, NEW t \in Links, t \notin Shared, NEW r \in Consuming(t)
  PROVE  /\ \A s \in Requests : s # r => s \notin Consuming(t)
         /\ Deleting(t) <=> At(r, "del")
BY DEF Inv, LinkOK, Deleting

-----------------------------------------------------------------------------
(***************************************************************************)
(* The steps.                                                              *)
(***************************************************************************)
\* Nothing that a link's stage depends on changes.
LEMMA QuietMove ==
  ASSUME NEW t \in Links, grants'[t] = grants[t], t \in known' <=> t \in known,
         t \in stored' <=> t \in stored, Deleting(t)' <=> Deleting(t)
  PROVE  Moves(t)
<1>1. Stage(t)' = Stage(t)
  BY DEF Stage, Deleting
<1> QED BY <1>1 DEF Moves

\* A link is minted.
LEMMA BeginRequestKeeps ==
  ASSUME Inv, NEW r \in Requests, BeginRequest(r)
  PROVE  Inv' /\ OneMoves
<1> DEFINE t == minted + 1
           q == [pc |-> "save", link |-> t]
<1>1. /\ TypeOK /\ t \in Links /\ q \in [pc : PCs, link : Links \cup {NoLink}]
      /\ q.pc = "save" /\ q.link = t /\ t > minted
  BY DEF Inv, TypeOK, BeginRequest, Links, PCs
<1> HIDE DEF q
<1>2. PICK l \in Links : l = t
  BY <1>1
<1>3. /\ req[r].pc = "idle" /\ minted' = l /\ UNCHANGED <<stored, known, grants>>
      /\ req' = [req EXCEPT ![r] = q]
  BY <1>2 DEF BeginRequest, At, q
<1>4. /\ req' \in [Requests -> [pc : PCs, link : Links \cup {NoLink}]] /\ req'[r] = q
      /\ \A s \in Requests \ {r} : req'[s] = req[s]
  BY <1>1, <1>3, Slots
<1>5. l > minted /\ minted \in Nat /\ l \in Nat /\ q.link = l /\ q.pc = "save"
  BY <1>1, <1>2, NoLinkIsNone DEF TypeOK
<1>6. l \notin known /\ Making(l) = {} /\ Consuming(l) = {} /\ grants[l] = 0
  BY <1>5 DEF Inv, LinkOK
<1>7. TypeOK'
  BY <1>1, <1>3, <1>4 DEF TypeOK, Links
<1>8. req[r].link = NoLink
  BY <1>3 DEF Inv, Idles
<1>9. Own(r, l)
  BY <1>3, <1>4, <1>5, <1>8, NoLinkIsNone DEF Own
<1>10. Making(l)' = {r} /\ Consuming(l)' = {}
  BY <1>1, <1>4, <1>5, <1>6 DEF Making, Consuming
<1>11. LinkOK(l)'
  BY <1>3, <1>5, <1>6, <1>10 DEF LinkOK, Deleting
<1>12. Moves(l)
  BY <1>3, <1>6, <1>10, QuietMove DEF Deleting
<1> QED BY <1>7, <1>9, <1>11, <1>12, OthersKeep

\* The link of a request that is not idle.
LEMMA LinkOf ==
  ASSUME Inv, NEW r \in Requests, req[r].pc # "idle"
  PROVE  req[r].link \in Links
BY DEF Inv, Idles, TypeOK

\* It is stored, or that fails.
LEMMA SaveKeeps ==
  ASSUME Inv, NEW r \in Requests, Save(r)
  PROVE  Inv' /\ OneMoves
<1>1. PICK t \in Links : t = req[r].link
  BY LinkOf DEF Save, At
<1>2. TypeOK /\ req[r].pc = "save" /\ UNCHANGED <<minted, known, grants>> /\ "mail" \in PCs
  BY DEF Inv, Save, At, PCs
<1>3. /\ t \notin known /\ grants[t] = 0 /\ Consuming(t) = {} /\ ~(t > minted)
      /\ \A s \in Making(t) : s = r
  <2>1. r \in Making(t)
    BY <1>1, <1>2 DEF Making
  <2> QED BY <2>1 DEF Inv, LinkOK
<1>4. /\ req' \in [Requests -> [pc : PCs, link : Links \cup {NoLink}]]
      /\ \A s \in Requests \ {r} : req'[s] = req[s]
      /\ \/ req'[r].pc = "mail" /\ req'[r].link = t
         \/ req'[r].pc = "idle" /\ req'[r].link = NoLink
  <2>1. CASE Goto(r, "mail")
    BY <1>1, <1>2, <2>1, GoesOn
  <2>2. CASE Answer(r)
    BY <1>2, <2>2, AnswerIsIdle
  <2> QED BY <2>1, <2>2 DEF Save
<1>5. stored' \subseteq Links /\ \A v \in Links \ {t} : v \in stored' <=> v \in stored
  BY <1>1, <1>2 DEF Save, TypeOK
<1>6. TypeOK' /\ Own(r, t)
  BY <1>1, <1>2, <1>4, <1>5, NoLinkIsNone DEF TypeOK, Own
<1>7. Making(t)' \subseteq {r} /\ Consuming(t)' = {}
  BY <1>3, <1>4 DEF Making, Consuming
<1>8. LinkOK(t)'
  BY <1>2, <1>3, <1>7 DEF LinkOK, Deleting
<1>9. Moves(t)
  BY <1>2, <1>3, <1>7 DEF Moves, Stage
<1> QED BY <1>6, <1>8, <1>9, OthersKeep

\* It is mailed.
LEMMA MailKeeps ==
  ASSUME Inv, NEW r \in Requests, Mail(r)
  PROVE  Inv' /\ OneMoves
<1>1. PICK t \in Links : t = req[r].link
  BY LinkOf DEF Mail, At
<1>2. /\ TypeOK /\ req[r].pc = "mail" /\ UNCHANGED <<stored, minted, grants>>
      /\ known' = known \cup {t} /\ Answer(r)
  BY <1>1 DEF Inv, Mail, At
<1>3. /\ t \notin known /\ grants[t] = 0 /\ Consuming(t) = {} /\ ~(t > minted)
      /\ \A s \in Making(t) : s = r
  <2>1. r \in Making(t)
    BY <1>1, <1>2 DEF Making
  <2> QED BY <2>1 DEF Inv, LinkOK
<1>4. /\ req' \in [Requests -> [pc : PCs, link : Links \cup {NoLink}]]
      /\ \A s \in Requests \ {r} : req'[s] = req[s]
      /\ req'[r].pc = "idle" /\ req'[r].link = NoLink
  BY <1>2, AnswerIsIdle
<1>5. TypeOK' /\ Own(r, t)
  <2>1. TypeOK'
    BY <1>2, <1>4 DEF TypeOK
  <2>2. minted <= minted'
    BY <1>2 DEF TypeOK
  <2> QED BY <1>1, <1>2, <1>4, <2>1, <2>2 DEF Own
<1>6. Making(t)' = {} /\ Consuming(t)' = {}
  BY <1>3, <1>4 DEF Making, Consuming
<1>7. LinkOK(t)'
  BY <1>2, <1>3, <1>6 DEF LinkOK, Deleting
<1>8. Moves(t)
  BY <1>2, <1>3, <1>6 DEF Moves, Stage
<1> QED BY <1>5, <1>7, <1>8, OthersKeep

\* A page opens the link.
LEMMA BeginConsumeKeeps ==
  ASSUME Inv, NEW r \in Requests, NEW t \in Links, BeginConsume(r, t)
  PROVE  Inv' /\ OneMoves
<1> DEFINE q == [pc |-> "get", link |-> t]
<1>1. /\ TypeOK /\ q \in [pc : PCs, link : Links \cup {NoLink}] /\ q.pc = "get" /\ q.link = t
  BY DEF Inv, PCs
<1> HIDE DEF q
<1>2. /\ req[r].pc = "idle" /\ t \in known /\ (t \in Shared \/ Consuming(t) = {})
      /\ UNCHANGED <<stored, minted, known, grants>> /\ req' = [req EXCEPT ![r] = q]
  BY DEF BeginConsume, At, q
<1>3. /\ req' \in [Requests -> [pc : PCs, link : Links \cup {NoLink}]] /\ req'[r] = q
      /\ \A s \in Requests \ {r} : req'[s] = req[s]
  BY <1>1, <1>2, Slots
<1>4. req[r].link = NoLink
  BY <1>2 DEF Inv, Idles
<1>5. TypeOK' /\ Own(r, t)
  BY <1>1, <1>2, <1>3, <1>4, NoLinkIsNone DEF TypeOK, Own
<1>6. Making(t)' = Making(t) /\ Consuming(t)' = Consuming(t) \cup {r}
  BY <1>1, <1>2, <1>3, <1>4, NoLinkIsNone DEF Making, Consuming
<1>7. Deleting(t)' <=> Deleting(t)
  BY <1>1, <1>2, <1>3, <1>6 DEF Deleting, At
<1>8. LinkOK(t)'
  BY <1>2, <1>6, <1>7 DEF Inv, LinkOK
<1>9. Moves(t)
  BY <1>2, <1>7, QuietMove
<1> QED BY <1>5, <1>8, <1>9, OthersKeep

\* The link is looked up.
LEMMA GetLinkKeeps ==
  ASSUME Inv, NEW r \in Requests, GetLink(r)
  PROVE  Inv' /\ OneMoves
<1>1. PICK t \in Links : t = req[r].link
  BY LinkOf DEF GetLink, At
<1>2. /\ TypeOK /\ req[r].pc = "get" /\ UNCHANGED <<stored, minted, known, grants>>
      /\ r \in Consuming(t) /\ "del" \in PCs
  BY <1>1 DEF Inv, GetLink, At, Consuming, PCs
<1>3. /\ req' \in [Requests -> [pc : PCs, link : Links \cup {NoLink}]]
      /\ \A s \in Requests \ {r} : req'[s] = req[s]
      /\ \/ req'[r].pc = "del" /\ req'[r].link = t /\ t \in stored
         \/ req'[r].pc = "idle" /\ req'[r].link = NoLink
  <2>1. CASE Goto(r, "del") /\ t \in stored
    BY <1>1, <1>2, <2>1, GoesOn
  <2>2. CASE Answer(r)
    BY <1>2, <2>2, AnswerIsIdle
  <2> QED BY <1>1, <2>1, <2>2 DEF GetLink
<1>4. TypeOK' /\ Own(r, t)
  BY <1>1, <1>2, <1>3, NoLinkIsNone DEF TypeOK, Own
<1>5. Making(t)' = Making(t) /\ Consuming(t)' \subseteq Consuming(t)
  BY <1>1, <1>2, <1>3, NoLinkIsNone DEF Making, Consuming
<1>6. t \in stored \/ Deleting(t)' <=> t \in stored \/ Deleting(t)
  BY <1>1, <1>2, <1>3, NoLinkIsNone DEF Deleting, Consuming, At
<1>7. t \notin stored => (Deleting(t)' <=> Deleting(t))
  BY <1>6
<1>8. LinkOK(t)'
  <2>1. LinkOK(t)
    BY DEF Inv
  <2> QED BY <1>2, <1>5, <1>7, <2>1 DEF LinkOK
<1>9. Moves(t)
  BY <1>2, <1>6 DEF Moves, Stage, Deleting
<1> QED BY <1>4, <1>8, <1>9, OthersKeep

\* The link is deleted, which lets the request through to its login, or that fails.
LEMMA DelLinkKeeps ==
  ASSUME Inv, NEW r \in Requests, DelLink(r)
  PROVE  Inv' /\ OneMoves
<1>1. PICK t \in Links : t = req[r].link
  BY LinkOf DEF DelLink, At
<1>2. /\ TypeOK /\ req[r].pc = "del" /\ UNCHANGED <<minted, known>>
      /\ r \in Consuming(t) /\ "login" \in PCs /\ LinkOK(t)
  BY <1>1 DEF Inv, DelLink, At, Consuming, PCs
<1>3. /\ req' \in [Requests -> [pc : PCs, link : Links \cup {NoLink}]]
      /\ \A s \in Requests \ {r} : req'[s] = req[s]
      /\ \/ req'[r].pc = "login" /\ req'[r].link = t
         \/ req'[r].pc = "idle" /\ req'[r].link = NoLink
  <2>1. CASE Goto(r, "login")
    BY <1>1, <1>2, <2>1, GoesOn
  <2>2. CASE Answer(r)
    BY <1>2, <2>2, AnswerIsIdle
  <2> QED BY <2>1, <2>2 DEF DelLink
<1>4. /\ stored' \subseteq stored /\ \A v \in Links \ {t} : v \in stored' <=> v \in stored
      /\ \/ t \notin stored' /\ grants' = [grants EXCEPT ![t] = @ + 1]
         \/ UNCHANGED grants
  BY <1>1, <1>2 DEF DelLink
<1>5. grants[t] \in Nat /\ grants' \in [Links -> Nat]
  BY <1>2, <1>4 DEF TypeOK
<1>6. TypeOK' /\ Own(r, t)
  BY <1>1, <1>2, <1>3, <1>4, <1>5, NoLinkIsNone DEF TypeOK, Own
<1>7. Making(t)' = Making(t) /\ Consuming(t)' \subseteq Consuming(t)
  BY <1>1, <1>2, <1>3, NoLinkIsNone DEF Making, Consuming
<1>8. t \in known
  BY <1>2 DEF LinkOK
<1>9. t \notin Shared => grants[t] = 0 /\ Deleting(t) /\ ~Deleting(t)'
  <2>1. ASSUME t \notin Shared PROVE \A s \in Consuming(t) : s = r
    BY <1>2, <2>1 DEF LinkOK
  <2> QED BY <1>2, <1>3, <1>5, <1>7, <2>1 DEF Deleting, At, LinkOK
<1>10. LinkOK(t)'
  BY <1>2, <1>4, <1>5, <1>7, <1>8, <1>9 DEF LinkOK, TypeOK
<1>11. Moves(t)
  <2>1. (grants'[t] = grants[t] + 1 /\ t \notin stored') \/ grants'[t] = grants[t]
    BY <1>2, <1>4 DEF TypeOK
  <2> QED BY <1>2, <1>8, <1>9, <2>1 DEF Moves, Stage, Deleting
<1> QED BY <1>6, <1>10, <1>11, OthersKeep

\* The login ends.
LEMMA LoginKeeps ==
  ASSUME Inv, NEW r \in Requests, Login(r)
  PROVE  Inv' /\ OneMoves
<1>1. PICK t \in Links : t = req[r].link
  BY LinkOf DEF Login, At
<1>2. TypeOK /\ req[r].pc = "login" /\ UNCHANGED <<stored, minted, known, grants>> /\ Answer(r)
  BY DEF Inv, Login, At
<1>3. /\ req' \in [Requests -> [pc : PCs, link : Links \cup {NoLink}]]
      /\ \A s \in Requests \ {r} : req'[s] = req[s]
      /\ req'[r].pc = "idle" /\ req'[r].link = NoLink
  BY <1>2, AnswerIsIdle
<1>4. TypeOK' /\ Own(r, t)
  BY <1>1, <1>2, <1>3, NoLinkIsNone DEF TypeOK, Own
<1>5. Making(t)' = Making(t) /\ Consuming(t)' \subseteq Consuming(t)
  BY <1>1, <1>2, <1>3, NoLinkIsNone DEF Making, Consuming
<1>6. Deleting(t)' <=> Deleting(t)
  BY <1>1, <1>2, <1>3, <1>5, NoLinkIsNone DEF Deleting, Consuming, At
<1>7. LinkOK(t)'
  BY <1>2, <1>5, <1>6 DEF Inv, LinkOK
<1>8. Moves(t)
  BY <1>2, <1>6, QuietMove
<1> QED BY <1>4, <1>7, <1>8, OthersKeep

\* The link expires.
LEMMA LinkExpiresKeeps ==
  ASSUME Inv, NEW t \in Links, LinkExpires(t)
  PROVE  Inv' /\ OneMoves
<1>1. stored' = stored \ {t} /\ UNCHANGED <<minted, req, known, grants>>
  BY DEF LinkExpires
<1>2. TypeOK' /\ Idles'
  BY <1>1 DEF Inv, TypeOK, Idles
<1>3. ASSUME NEW v \in Links PROVE LinkOK(v)' /\ (v = t => Moves(v)) /\ (v # t => Still(v))
  <2>1. /\ Making(v)' = Making(v) /\ Consuming(v)' = Consuming(v)
        /\ Deleting(v)' <=> Deleting(v)
    BY <1>1 DEF Making, Consuming, Deleting, At
  <2>2. LinkOK(v)'
    BY <1>1, <2>1 DEF Inv, LinkOK
  <2>3. v = t => Moves(v)
    BY <1>1, <2>1 DEF Moves, Stage, Deleting
  <2>4. v # t => Still(v)
    BY <1>1, <2>1 DEF Still, Stage, Deleting
  <2> QED BY <2>2, <2>3, <2>4
<1> QED BY <1>2, <1>3 DEF Inv, OneMoves

\* Every step keeps the invariant and moves at most one link, as OneTimeToken has it.
LEMMA InvNext ==
  ASSUME Inv, [Next]_vars
  PROVE  Inv' /\ OneMoves
<1>1. CASE UNCHANGED vars
  <2>1. UNCHANGED <<stored, minted, req, known, grants>>
    BY <1>1 DEF vars
  <2>2. ASSUME NEW v \in Links PROVE LinkOK(v)' /\ Still(v)
    <3>1. /\ Making(v)' = Making(v) /\ Consuming(v)' = Consuming(v)
          /\ Deleting(v)' <=> Deleting(v)
      BY <2>1 DEF Making, Consuming, Deleting, At
    <3>2. Still(v)
      BY <2>1, <3>1 DEF Still, Stage, Deleting
    <3> QED BY <2>1, <3>1, <3>2 DEF Inv, LinkOK
  <2> QED BY <2>1, <2>2 DEF Inv, TypeOK, Idles, OneMoves
<1>2. ASSUME NEW r \in Requests, Step(r) PROVE Inv' /\ OneMoves
  BY <1>2, SaveKeeps, MailKeeps, GetLinkKeeps, DelLinkKeeps, LoginKeeps DEF Step
<1> QED BY <1>1, <1>2, BeginRequestKeeps, BeginConsumeKeeps, LinkExpiresKeeps DEF Next

\* So it holds throughout.
LEMMA InvAlways == Spec => []Inv
<1>1. Inv /\ [Next]_vars => Inv'
  BY InvNext
<1> QED BY <1>1, InvInit, PTL DEF Spec

-----------------------------------------------------------------------------
(***************************************************************************)
(* The stores, the requests and the history keep their types.              *)
(***************************************************************************)
THEOREM TypeCorrect == Spec => []TypeOK
<1>1. Inv => TypeOK
  BY DEF Inv
<1> QED BY <1>1, InvAlways, PTL

StageOf == [t \in Links \ Shared |-> Stage(t)]

GrantsOf == [t \in Links \ Shared |-> grants[t]]

\* In the beginning no link is issued.
LEMMA TokenInit == Init => Token!TokenInit
<1> SUFFICES ASSUME Init PROVE Token!TokenInit
  OBVIOUS
<1>1. \A t \in Links : Stage(t) = "unissued" /\ grants[t] = 0
  BY DEF Init, Stage
<1> QED BY <1>1 DEF Token!TokenInit

\* Every step issues, redeems or withdraws a link, or leaves them all as they are.
LEMMA TokenStep ==
  ASSUME Inv, Inv', [Next]_vars
  PROVE  [Token!TokenNext]_<<StageOf, GrantsOf>>
<1>1. OneMoves
  BY InvNext
<1>2. CASE \A t \in Links : Still(t)
  BY <1>2 DEF Still, StageOf, GrantsOf
<1>3. ASSUME NEW t \in Links, Moves(t), \A v \in Links \ {t} : Still(v)
      PROVE  [Token!TokenNext]_<<StageOf, GrantsOf>>
  <2>1. CASE t \in Shared
    <3>1. \A v \in Links : Still(v)
      BY <1>3, <2>1 DEF Still
    <3> QED BY <3>1 DEF Still, StageOf, GrantsOf
  <2>2. CASE t \notin Shared
    <3>1. t \in Links \ Shared /\ StageOf[t] = Stage(t) /\ GrantsOf[t] = grants[t]
      BY <2>2 DEF StageOf, GrantsOf
    <3>2. /\ StageOf' = [StageOf EXCEPT ![t] = Stage(t)']
          /\ GrantsOf' = [GrantsOf EXCEPT ![t] = grants'[t]]
      BY <1>3, <2>2 DEF Still, StageOf, GrantsOf
    <3>3. CASE Stage(t)' = Stage(t) /\ grants'[t] = grants[t]
      BY <3>1, <3>2, <3>3 DEF StageOf, GrantsOf
    <3>4. CASE grants'[t] = grants[t] /\ Stage(t) = "unissued" /\ Stage(t)' = "live"
      <4>1. Token!Issue(t)
        BY <3>1, <3>2, <3>4 DEF Token!Issue, StageOf, GrantsOf
      <4> QED BY <3>1, <4>1 DEF Token!TokenNext
    <3>5. CASE grants'[t] = grants[t] + 1 /\ Stage(t) = "live" /\ Stage(t)' = "spent"
      <4>1. Token!Redeem(t)
        BY <3>1, <3>2, <3>5 DEF Token!Redeem, StageOf, GrantsOf
      <4> QED BY <3>1, <4>1 DEF Token!TokenNext
    <3>6. CASE grants'[t] = grants[t] /\ Stage(t) \in {"unissued", "live"} /\ Stage(t)' = "void"
      <4>1. Token!Withdraw({t})
        BY <3>1, <3>2, <3>6 DEF Token!Withdraw, StageOf, GrantsOf
      <4> QED BY <3>1, <4>1 DEF Token!TokenNext
    <3> QED BY <1>3, <2>2, <3>3, <3>4, <3>5, <3>6 DEF Moves
  <2> QED BY <2>1, <2>2
<1> QED BY <1>1, <1>2, <1>3 DEF OneMoves

(***************************************************************************)
(* The links that are open in one page each implement OneTimeToken.        *)
(***************************************************************************)
THEOREM MagicLinksAreOneTime == Spec => LinksAreOneTime
<1>1. Inv /\ Inv' /\ [Next]_vars =>
        [Token!TokenNext]_<<[t \in Links \ Shared |-> Stage(t)],
                            [t \in Links \ Shared |-> grants[t]]>>
  BY TokenStep DEF StageOf, GrantsOf
<1> QED BY <1>1, TokenInit, InvAlways, PTL
        DEF Spec, LinksAreOneTime, Token!TokenSpec, Token!tokenVars
=============================================================================
