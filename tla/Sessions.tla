------------------------------ MODULE Sessions ------------------------------
(***************************************************************************)
(* Refresh sessions of the backend: the rows PrismaSessionService keeps in *)
(* PostgreSQL, the entries RedisSessionStore keeps when a row cannot be    *)
(* written, and the handlers of POST /auth/login, /auth/refresh and        *)
(* /auth/logout that move a session between them.                          *)
(*                                                                         *)
(* A handler is a process that gives up the event loop at every await, so  *)
(* there is one action per awaited call of a store; everything between two *)
(* awaits belongs to the action of the first.  Fresh UUIDs are numbered in *)
(* the order they are minted.  The signed refresh token of session s is    *)
(* identified with s: the JWT carries nothing but sub and sid, and the row *)
(* keeps the hash of that same JWT, so the hash comparison of              *)
(* consumeSession never fails for a token the server signed.               *)
(*                                                                         *)
(* A definition that stands before the one it resembles and differs from   *)
(* it by one slip (SetStatusForgets, CatchAndRetry, ...) is a variant that *)
(* no action uses: with it in place of the other, the property that        *)
(* PROJECT.json pairs it with fails.                                       *)
(***************************************************************************)
EXTENDS Integers, FiniteSets

CONSTANTS
  Requests,      \* slots for requests in flight on the server
  MaxSids,       \* bound: sessions minted in one behaviour
  SingleFlight,  \* TRUE: a token is never presented by two refreshes at once
                 \* (frontend/src/lib/authTokens.ts shares one refreshPromise)
  Faults         \* which of "prisma", "redis", "lostAck", "restart" occur

ASSUME SessionsAssumption ==
  /\ MaxSids \in Nat
  /\ SingleFlight \in BOOLEAN
  /\ Faults \subseteq {"prisma", "redis", "lostAck", "restart"}

Sids == 1 .. MaxSids
NoSid == 0

VARIABLES
  row,      \* Session.status by id, "none" while there is no row
  past,     \* sessions whose row has expiresAt before now
  cache,    \* sessions with a live key auth:refresh:<sid> in Redis
  expired,  \* the refresh JWTs of sessions 1 .. expired no longer verify
  gauge,    \* treazr_active_sessions of the running process
  minted,   \* how many session ids randomUUID has returned
  req       \* per slot: the await it is at, the session whose token it
            \* carries and the session it is creating

(* History, read by no guard: *)
VARIABLES
  known,    \* tokens the server has sent to a client
  parent,   \* the session a session was rotated from, NoSid for a login
  origin,   \* the login a session descends from
  spent,    \* tokens whose refresh was answered with 200
  closed,   \* tokens whose logout ran without an error
  over,     \* logins ended by such a logout while nothing else used them
  drift     \* what TTL lapses and restarts have put between gauge and Redis

stores == <<row, past, cache, expired, gauge>>
history == <<known, spent, closed, over>>
vars == <<row, past, cache, expired, gauge, minted, req,
          known, parent, origin, spent, closed, over, drift>>

Refreshing == {"lookup", "expire", "revoke", "get", "delHit", "delMiss"}
Creating == {"record", "fallback"}
LoggingOut == {"outRevoke", "outDel"}
PCs == {"idle"} \cup Refreshing \cup Creating \cup LoggingOut

\* History again: late, the token was already spent or closed when the request
\* began; shaky, the database failed the request while it looked the token up.
Slot == [pc : PCs, tok : Sids \cup {NoSid}, sid : Sids \cup {NoSid},
         late : BOOLEAN, shaky : BOOLEAN]

Idle == [pc |-> "idle", tok |-> NoSid, sid |-> NoSid, late |-> FALSE, shaky |-> FALSE]

Live(s) == (row[s] = "ACTIVE" /\ s \notin past) \/ s \in cache

(***************************************************************************)
(* Calls of the stores.  An outcome is "done", "error" (not applied) or    *)
(* "lost" (applied, but the caller sees an error).                         *)
(***************************************************************************)
Outcomes(store) ==
  {"done"} \cup (IF store \in Faults THEN {"error"} ELSE {})
           \cup (IF store \in Faults /\ "lostAck" \in Faults THEN {"lost"} ELSE {})

SetStatusForgets(s, status, out) == row' = row

SetStatus(s, status, out) ==       \* session.update; P2025 (no row) is ignored
  row' = [row EXCEPT ![s] = IF out = "error" \/ @ = "none" THEN @ ELSE status]

DeleteEntryForgets(s, out) == UNCHANGED <<cache, gauge>>

DeleteEntryMiscounts(s, out) ==
  /\ cache' = IF out = "error" THEN cache ELSE cache \ {s}
  /\ gauge' = IF out = "done" THEN gauge - 1 ELSE gauge

DeleteEntry(s, out) ==             \* deleteRefreshSession
  /\ cache' = IF out = "error" THEN cache ELSE cache \ {s}
  /\ gauge' = IF out = "done" /\ s \in cache THEN gauge - 1 ELSE gauge

(***************************************************************************)
(* Requests.                                                               *)
(***************************************************************************)
At(r, p) == req[r].pc = p

Goto(r, p) == req' = [req EXCEPT ![r].pc = p]

CatchAndRetry(r, p) == req' = [req EXCEPT ![r].pc = "lookup", ![r].shaky = TRUE]

\* The refresh handler catches what the database throws and looks in Redis.
CatchAndGoto(r, p) == req' = [req EXCEPT ![r].pc = p, ![r].shaky = TRUE]

NoMint == UNCHANGED <<minted, parent, origin>>

\* The reply is sent, whatever its status, and the slot is free.
Answer(r) == req' = [req EXCEPT ![r] = Idle] /\ NoMint

\* randomUUID and both JWTs: the tail that login and refresh share.
Mint(r, from) ==
  LET s == minted + 1
  IN /\ s \in Sids
     /\ minted' = s
     /\ req' = [req EXCEPT ![r] =
                  [Idle EXCEPT !.pc = "record", !.tok = from, !.sid = s, !.late = req[r].late]]
     /\ parent' = [parent EXCEPT ![s] = from]
     /\ origin' = [origin EXCEPT ![s] = IF from = NoSid THEN s ELSE origin[from]]

\* The requests that are exchanging the token of s.
InFlight(s) == {r \in Requests : req[r].pc \in Refreshing \cup Creating /\ req[r].tok = s}

BeginLogin(r) ==
  /\ At(r, "idle")
  /\ Mint(r, NoSid)
  /\ UNCHANGED <<stores, history, drift>>

\* A token that fails jwt.verify is answered at once and touches no store.
Present(r, s, p) ==
  /\ At(r, "idle")
  /\ s \in known /\ s > expired
  /\ req' = [req EXCEPT ![r] =
               [Idle EXCEPT !.pc = p, !.tok = s, !.late = s \in spent \cup closed]]
  /\ NoMint
  /\ UNCHANGED <<stores, history, drift>>

BeginRefresh(r, s) ==
  /\ SingleFlight => InFlight(s) = {}
  /\ Present(r, s, "lookup")

BeginLogout(r, s) == Present(r, s, "outRevoke")

\* What consumeSession asks of the row before it looks at its expiry.
OpenAnyStatus(s) == row[s] # "none"

OpenWrongStatus(s) == row[s] = "EXPIRED"

Open(s) == row[s] = "ACTIVE"

\* consumeSession: findUnique and the synchronous checks on what it returned.
Lookup(r) ==
  /\ At(r, "lookup")
  /\ LET s == req[r].tok
     IN \/ Open(s) /\ Goto(r, IF s \in past THEN "expire" ELSE "revoke")
        \/ ~Open(s) /\ Goto(r, "get")
        \/ "prisma" \in Faults /\ CatchAndGoto(r, "get")
  /\ NoMint
  /\ UNCHANGED <<stores, history, drift>>

ExpireRow(r) ==
  /\ At(r, "expire")
  /\ \E out \in Outcomes("prisma") :
       /\ SetStatus(req[r].tok, "EXPIRED", out)
       /\ IF out = "done" THEN Goto(r, "get") ELSE CatchAndGoto(r, "get")
  /\ NoMint
  /\ UNCHANGED <<past, cache, expired, gauge, history, drift>>

RevokeRow(r) ==
  /\ At(r, "revoke")
  /\ \E out \in Outcomes("prisma") :
       /\ SetStatus(req[r].tok, "REVOKED", out)
       /\ IF out = "done" THEN Mint(r, req[r].tok)
                          ELSE CatchAndGoto(r, "get") /\ NoMint
  /\ UNCHANGED <<past, cache, expired, gauge, history, drift>>

GetEntry(r) ==
  /\ At(r, "get")
  /\ \/ Goto(r, IF req[r].tok \in cache THEN "delHit" ELSE "delMiss") /\ NoMint
     \/ "redis" \in Faults /\ Answer(r)
  /\ UNCHANGED <<stores, history, drift>>

\* The entry is deleted whether or not the read found it.
DelEntry(r) ==
  /\ req[r].pc \in {"delHit", "delMiss"}
  /\ \E out \in Outcomes("redis") :
       /\ DeleteEntry(req[r].tok, out)
       /\ IF out = "done" /\ At(r, "delHit") THEN Mint(r, req[r].tok) ELSE Answer(r)
  /\ UNCHANGED <<row, past, expired, history, drift>>

GrantEchoesToken(r) ==
  /\ known' = known \cup {req[r].tok}
  /\ Answer(r)
  /\ UNCHANGED <<spent, closed, over>>

\* 200 and the new cookie leave in the step that stored the session.
Grant(r) ==
  /\ known' = known \cup {req[r].sid}
  /\ spent' = spent \cup ({req[r].tok} \ {NoSid})
  /\ Answer(r)
  /\ UNCHANGED <<closed, over>>

RecordInBoth(r) ==
  /\ At(r, "record")
  /\ row' = [row EXCEPT ![req[r].sid] = "ACTIVE"]
  /\ Goto(r, "fallback") /\ NoMint
  /\ UNCHANGED <<past, cache, expired, gauge, history, drift>>

Record(r) ==
  /\ At(r, "record")
  /\ \E out \in Outcomes("prisma") :
       /\ row' = [row EXCEPT ![req[r].sid] = IF out = "error" THEN @ ELSE "ACTIVE"]
       /\ IF out = "done" THEN Grant(r)
                          ELSE Goto(r, "fallback") /\ NoMint /\ UNCHANGED history
  /\ UNCHANGED <<past, cache, expired, gauge, drift>>

Fallback(r) ==
  /\ At(r, "fallback")
  /\ \E out \in Outcomes("redis") :
       /\ cache' = IF out = "error" THEN cache ELSE cache \cup {req[r].sid}
       /\ gauge' = IF out = "done" THEN gauge + 1 ELSE gauge
       /\ IF out = "done" THEN Grant(r) ELSE Answer(r) /\ UNCHANGED history
  /\ UNCHANGED <<row, past, expired, drift>>

\* Sign-out answers 204 whatever happens; an error only skips what is left.
LogoutRevoke(r) ==
  /\ At(r, "outRevoke")
  /\ \E out \in Outcomes("prisma") :
       /\ SetStatus(req[r].tok, "REVOKED", out)
       /\ IF out = "done" THEN Goto(r, "outDel") /\ NoMint ELSE Answer(r)
  /\ UNCHANGED <<past, cache, expired, gauge, history, drift>>

\* Nobody else is using the login that s belongs to.
Unshared(s) ==
  s \notin spent /\ \A t \in Sids : origin[t] = origin[s] => InFlight(t) = {}

LogoutDelete(r) ==
  /\ At(r, "outDel")
  /\ LET s == req[r].tok
     IN \E out \in Outcomes("redis") :
          /\ DeleteEntry(s, out)
          /\ closed' = IF out = "done" THEN closed \cup {s} ELSE closed
          /\ over' = IF out = "done" /\ Unshared(s) THEN over \cup {origin[s]} ELSE over
  /\ Answer(r)
  /\ UNCHANGED <<row, past, expired, known, spent, drift>>

Step(r) ==
  \/ Lookup(r) \/ ExpireRow(r) \/ RevokeRow(r) \/ GetEntry(r) \/ DelEntry(r)
  \/ Record(r) \/ Fallback(r) \/ LogoutRevoke(r) \/ LogoutDelete(r)

(***************************************************************************)
(* Time and failures.  All tokens have one lifetime, so JWTs expire in the *)
(* order they were signed, each before the row or entry written after it.  *)
(***************************************************************************)
JwtExpires ==
  /\ expired < minted
  /\ expired' = expired + 1
  /\ NoMint
  /\ UNCHANGED <<row, past, cache, gauge, req, history, drift>>

RowExpires(s) ==               \* nobody looks at the expiry of any other row
  /\ s <= expired /\ s \notin past
  /\ row[s] = "ACTIVE"
  /\ past' = past \cup {s}
  /\ NoMint
  /\ UNCHANGED <<row, cache, expired, gauge, req, history, drift>>

EntryExpires(s) ==
  /\ s <= expired /\ s \in cache
  /\ cache' = cache \ {s}
  /\ drift' = drift + 1
  /\ NoMint
  /\ UNCHANGED <<row, past, expired, gauge, req, history>>

\* The process dies with every request in flight; its metrics start again at 0.
Restart ==
  /\ "restart" \in Faults
  /\ req' = [r \in Requests |-> Idle]
  /\ gauge' = 0
  /\ drift' = -Cardinality(cache)
  /\ NoMint
  /\ UNCHANGED <<row, past, cache, expired, history>>

Init ==
  /\ row = [s \in Sids |-> "none"]
  /\ past = {} /\ cache = {} /\ expired = 0
  /\ gauge = 0 /\ minted = 0
  /\ req = [r \in Requests |-> Idle]
  /\ known = {} /\ spent = {} /\ closed = {} /\ over = {}
  /\ parent = [s \in Sids |-> NoSid]
  /\ origin = [s \in Sids |-> NoSid]
  /\ drift = 0

Next ==
  \/ \E r \in Requests : BeginLogin(r) \/ Step(r)
  \/ \E r \in Requests, s \in Sids : BeginRefresh(r, s) \/ BeginLogout(r, s)
  \/ \E s \in Sids : RowExpires(s) \/ EntryExpires(s)
  \/ JwtExpires
  \/ Restart

Spec == Init /\ [][Next]_vars

\* Every awaited call settles (the drivers time out), so a request in flight
\* takes its next step; nothing obliges a client to send one.
FairSpec == Spec /\ \A r \in Requests : WF_vars(Step(r))

-----------------------------------------------------------------------------
\* The values the stores, the requests and the history range over.
TypeOK ==
  /\ row \in [Sids -> {"none", "ACTIVE", "REVOKED", "EXPIRED"}]
  /\ past \subseteq Sids /\ cache \subseteq Sids
  /\ minted \in 0 .. MaxSids /\ expired \in 0 .. minted
  /\ gauge \in Int /\ drift \in Int
  /\ req \in [Requests -> Slot]
  /\ known \subseteq Sids /\ spent \subseteq Sids /\ closed \subseteq Sids
  /\ over \subseteq Sids
  /\ parent \in [Sids -> Sids \cup {NoSid}]
  /\ origin \in [Sids -> Sids \cup {NoSid}]

Honest == "lostAck" \notin Faults

\* A session never lives in both stores: the Redis entry is written only after
\* the row could not be (auth/routes.ts:91-96, 360-368).  Were it in both, the
\* entry would survive the revocation of the row and the token could be replayed.
OneStore == Honest => \A s \in cache : row[s] = "none"

\* A refresh that begins after its token was exchanged (200) or signed out
\* without an error is refused, whatever else runs and whatever fails in between.
NoReplay == Honest => \A r \in Requests : req[r].late => req[r].pc \notin Creating

\* One login holds one live refresh token, as long as a page shares one refresh:
\* rotation "revokes previous sessions" (backend/tests/auth.spec.ts:168).
OneLiveTokenPerLogin ==
  Honest => \A s, t \in Sids :
    Live(s) /\ Live(t) /\ origin[s] = origin[t] => s = t

\* Sign-out of the newest token of a login, while no refresh of that login is in
\* flight, ends the login: no token a client was ever sent works again.
LogoutEndsLogin ==
  Honest /\ SingleFlight => \A s \in known : origin[s] \in over => ~Live(s)

\* treazr_active_sessions differs from the Redis sessions only by what TTL lapses
\* and restarts leave behind; deletes and fallbacks are each counted once.
GaugeDrift == Honest => gauge = Cardinality(cache) + drift

\* A 401 is deserved and final: when a refresh has missed in both stores and the
\* database answered it, the token is worth nothing to anyone, and what is worth nothing
\* does not work again, so the page may drop it.  (If the database failed the refresh, a
\* token whose row is ACTIVE is refused all the same.)
RefusalIsFinal ==
  /\ [](\A r \in Requests : At(r, "delMiss") /\ ~req[r].shaky => ~Live(req[r].tok))
  /\ [][\A s \in known : ~Live(s) => ~Live(s)']_vars

\* Every request is answered, or lost with the process; only one that needs a
\* fresh id when the bound has used them up may wait.
EveryRequestIsAnswered ==
  \A r \in Requests :
    ~At(r, "idle") ~> \/ At(r, "idle")
                      \/ minted = MaxSids /\ req[r].pc \in {"revoke", "delHit"}

(***************************************************************************)
(* A refresh token is a one-time token.  Between the read that found it    *)
(* and the write that retires it the request holds it, so it still counts  *)
(* as live even if its entry lapses; the sessions rotated from it are its  *)
(* grants.                                                                 *)
(***************************************************************************)
Grants(s) == Cardinality({c \in Sids : parent[c] = s})

Held(s) == \E r \in Requests : req[r].pc \in {"revoke", "delHit"} /\ req[r].tok = s

Stage(s) ==
  IF Grants(s) > 0 THEN "spent"
  ELSE IF s \notin known THEN "unissued"
  ELSE IF Live(s) \/ Held(s) THEN "live"
  ELSE "void"

Token == INSTANCE OneTimeToken WITH
  Tokens <- Sids,
  stage  <- [s \in Sids |-> Stage(s)],
  grants <- [s \in Sids |-> Grants(s)]

\* With one refresh at a time per token, the sessions implement OneTimeToken.
RefreshTokensAreOneTime == Token!TokenSpec
=============================================================================
