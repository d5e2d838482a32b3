----------------------------- MODULE MagicLinks -----------------------------
(***************************************************************************)
(* Passwordless sign-in: POST /auth/magic-link/request stores a random     *)
(* token in Redis and mails it, POST /auth/magic-link exchanges it for a   *)
(* login.  RedisSessionStore.consumeMagicLinkToken reads the key and then  *)
(* deletes it, two awaits that other requests can come between.            *)
(*                                                                         *)
(* The login itself (createSessionTokens) is Sessions' Record and          *)
(* Fallback; here it is one step that succeeds or answers 500.  Variants   *)
(* that no action uses are named as in Sessions.                           *)
(***************************************************************************)
EXTENDS Naturals, FiniteSets

CONSTANTS
  Requests,    \* slots for requests in flight on the server
  MaxLinks,    \* bound: links issued in one behaviour
  Shared,      \* the links open in several pages; a page by itself posts its
               \* link once (redemptionAttemptedRef of the magic-link page)
  RedisFails   \* TRUE: a Redis command may be refused, or applied and its answer lost

ASSUME MagicLinksAssumption ==
  MaxLinks \in Nat /\ Shared \subseteq Nat /\ RedisFails \in BOOLEAN

Links == 1 .. MaxLinks
NoLink == 0

VARIABLES
  stored,   \* links with a live key auth:magic:<token>
  minted,   \* how many tokens randomUUID has returned
  req       \* per slot: the await it is at and the link it is about

(* History: *)
VARIABLES
  known,    \* links that reached a mailbox
  grants    \* how many requests each link has let through to a login

vars == <<stored, minted, req, known, grants>>

PCs == {"idle", "save", "mail", "get", "del", "login"}

Idle == [pc |-> "idle", link |-> NoLink]

At(r, p) == req[r].pc = p

Goto(r, p) == req' = [req EXCEPT ![r].pc = p]

Answer(r) == req' = [req EXCEPT ![r] = Idle]

Consuming(t) == {r \in Requests : req[r].link = t /\ req[r].pc \in {"get", "del", "login"}}

\* The user exists; otherwise the handler answers 202 or 404 and stores nothing.
BeginRequest(r) ==
  /\ At(r, "idle")
  /\ minted < MaxLinks
  /\ minted' = minted + 1
  /\ req' = [req EXCEPT ![r] = [pc |-> "save", link |-> minted + 1]]
  /\ UNCHANGED <<stored, known, grants>>

SaveWithoutToken(r) ==
  /\ At(r, "save")
  /\ stored' = stored \cup {NoLink}
  /\ Goto(r, "mail")
  /\ UNCHANGED <<minted, known, grants>>

Save(r) ==
  /\ At(r, "save")
  /\ \/ stored' = stored \cup {req[r].link} /\ Goto(r, "mail")
     \/ RedisFails /\ stored' \in {stored, stored \cup {req[r].link}} /\ Answer(r)
  /\ UNCHANGED <<minted, known, grants>>

Mail(r) ==
  /\ At(r, "mail")
  /\ known' = known \cup {req[r].link}
  /\ Answer(r)
  /\ UNCHANGED <<stored, minted, grants>>

BeginConsume(r, t) ==
  /\ At(r, "idle")
  /\ t \in known
  /\ t \in Shared \/ Consuming(t) = {}
  /\ req' = [req EXCEPT ![r] = [pc |-> "get", link |-> t]]
  /\ UNCHANGED <<stored, minted, known, grants>>

GetLink(r) ==
  /\ At(r, "get")
  /\ \/ req[r].link \in stored /\ Goto(r, "del")
     \/ (req[r].link \notin stored \/ RedisFails) /\ Answer(r)
  /\ UNCHANGED <<stored, minted, known, grants>>

DelLinkForgets(r) ==
  /\ At(r, "del")
  /\ grants' = [grants EXCEPT ![req[r].link] = @ + 1]
  /\ Goto(r, "login")
  /\ UNCHANGED <<stored, minted, known>>

DelLink(r) ==
  /\ At(r, "del")
  /\ \/ /\ stored' = stored \ {req[r].link}
        /\ grants' = [grants EXCEPT ![req[r].link] = @ + 1]
        /\ Goto(r, "login")
     \/ /\ RedisFails
        /\ stored' \in {stored, stored \ {req[r].link}}
        /\ Answer(r)
        /\ UNCHANGED grants
  /\ UNCHANGED <<minted, known>>

Login(r) ==
  /\ At(r, "login")
  /\ Answer(r)
  /\ UNCHANGED <<stored, minted, known, grants>>

LinkExpires(t) ==
  /\ t \in stored
  /\ stored' = stored \ {t}
  /\ UNCHANGED <<minted, req, known, grants>>

Step(r) == Save(r) \/ Mail(r) \/ GetLink(r) \/ DelLink(r) \/ Login(r)

Init ==
  /\ stored = {} /\ minted = 0
  /\ req = [r \in Requests |-> Idle]
  /\ known = {}
  /\ grants = [t \in Links |-> 0]

Next ==
  \/ \E r \in Requests : BeginRequest(r) \/ Step(r)
  \/ \E r \in Requests, t \in Links : BeginConsume(r, t)
  \/ \E t \in Links : LinkExpires(t)

Spec == Init /\ [][Next]_vars

-----------------------------------------------------------------------------
\* The values of the store, the requests and the history.
TypeOK ==
  /\ stored \subseteq Links /\ minted \in 0 .. MaxLinks
  /\ req \in [Requests -> [pc : PCs, link : Links \cup {NoLink}]]
  /\ known \subseteq Links
  /\ grants \in [Links -> Nat]

\* "Tokens are single-use" (frontend/src/app/login/page.tsx:190): one link lets at
\* most one request through to a login.
LinkIsSingleUse == \A t \in Links : grants[t] <= 1

(***************************************************************************)
(* A link is a one-time token: live while Redis has it and while a request *)
(* that read it has not yet deleted it.                                    *)
(***************************************************************************)
Stage(t) ==
  IF grants[t] > 0 THEN "spent"
  ELSE IF t \notin known THEN "unissued"
  ELSE IF t \in stored \/ \E r \in Consuming(t) : At(r, "del") THEN "live"
  ELSE "void"

Token == INSTANCE OneTimeToken WITH
  Tokens <- Links \ Shared,
  stage  <- [t \in Links \ Shared |-> Stage(t)],
  grants <- [t \in Links \ Shared |-> grants[t]]

\* The links that are open in one page each implement OneTimeToken.
LinksAreOneTime == Token!TokenSpec
=============================================================================
