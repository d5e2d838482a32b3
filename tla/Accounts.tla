------------------------------ MODULE Accounts ------------------------------
(***************************************************************************)
(* How accounts come to be: invitations issued by an admin or by the       *)
(* generate-invite script and redeemed over HTTP, and the first admin made *)
(* by POST /auth/bootstrap or by the create-admin script.                  *)
(*                                                                         *)
(* Handlers and scripts are processes with one action per database call.   *)
(* PostgreSQL refuses a second user with the same email or username        *)
(* (prisma/schema.prisma), email first, and that is all it refuses: no     *)
(* handler opens a transaction.  Emails are the normalised ones.  The      *)
(* candidates for a username depend on the email and the attempt, the last *)
(* on chance: player_ and eight hex digits, which may be taken like any    *)
(* other.  Variants are named as in Sessions.                              *)
(***************************************************************************)
EXTENDS Naturals, FiniteSets

CONSTANTS
  Requests,   \* slots for HTTP requests and script runs
  Emails,     \* normalised addresses
  BootEmail,  \* ADMIN_BOOTSTRAP_EMAIL
  Names,      \* usernames
  Tried,      \* by email: the candidates seed, seed_1, seed_2, ...
  Fallbacks,  \* what player_<random> may be; a candidate or a taken name among them
  CliName,    \* by email: the one username that create-admin tries
  Codes,      \* invite codes
  Anyone,     \* the email of an invite that is not reserved
  Attempts,   \* candidates tried before player_<random>; 5 in the code
  MaxUsers    \* bound: accounts created in one behaviour

ASSUME AccountsAssumption ==
  /\ BootEmail \in Emails /\ Anyone \notin Emails
  /\ Codes \cap {"http", "cli"} = {}
  /\ Attempts \in Nat /\ MaxUsers \in Nat
  /\ Tried \in [Emails -> [0 .. Attempts - 1 -> Names]]
  /\ CliName \in [Emails -> Names]
  /\ Fallbacks \subseteq Names /\ Fallbacks # {}

NoUser == 0
Ids == 1 .. MaxUsers

VARIABLES
  users,     \* rows of User: [id, email, name, isAdmin] and, as history, via:
             \* the invite code, "http" or "cli" the account was created through
  nextId,    \* ids given out
  invites,   \* Invite by code: issued, reserved email, expired, redeemedById
  req        \* per slot: the call it is at and what it remembers

vars == <<users, nextId, invites, req>>

PCs == {"idle", "getInvite", "countAdmins", "findBoot", "findEmail", "create",
        "mark", "session", "cliCount", "cliCreate"}

\* door is via of the account being made; late (history): there was an admin
\* when the request began.
Idle == [pc |-> "idle", door |-> "http", email |-> BootEmail, try |-> 0,
         id |-> NoUser, late |-> FALSE]

At(r, p) == req[r].pc = p

Goto(r, p) == req' = [req EXCEPT ![r].pc = p]

Answer(r) == req' = [req EXCEPT ![r] = Idle]

Admins == {u \in users : u.isAdmin}

(***************************************************************************)
(* Invitations.                                                            *)
(***************************************************************************)
Issue(c, e) ==
  /\ ~invites[c].issued
  /\ invites' = [invites EXCEPT ![c] =
       [issued |-> TRUE, email |-> e, expired |-> FALSE, redeemedBy |-> NoUser]]
  /\ UNCHANGED <<users, nextId, req>>

IssueByAdmin(c, e) == Admins # {} /\ Issue(c, e)

IssueByScript(c, e) == Issue(c, e)

InviteExpires(c) ==
  /\ invites[c].issued /\ ~invites[c].expired
  /\ invites' = [invites EXCEPT ![c].expired = TRUE]
  /\ UNCHANGED <<users, nextId, req>>

\* Expiry, redemption and reservation as the redeem handler checks them.
ReservedForIgnored(c, e) == TRUE

ReservedFor(c, e) == invites[c].email \in {Anyone, e}

BeginRedeem(r, c, e) ==
  /\ At(r, "idle")
  /\ req' = [req EXCEPT ![r] = [Idle EXCEPT !.pc = "getInvite", !.door = c, !.email = e]]
  /\ UNCHANGED <<users, nextId, invites>>

GetInvite(r) ==
  /\ At(r, "getInvite")
  /\ LET c == req[r].door
         admits == /\ invites[c].issued
                   /\ ~invites[c].expired
                   /\ invites[c].redeemedBy = NoUser
                   /\ ReservedFor(c, req[r].email)
     IN IF admits THEN Goto(r, "findEmail") ELSE Answer(r)
  /\ UNCHANGED <<users, nextId, invites>>

\* invite.update by code: whoever comes last is the redeemer.
MarkLatestUser(r) ==
  /\ At(r, "mark")
  /\ invites' = [invites EXCEPT ![req[r].door].redeemedBy = nextId]
  /\ Goto(r, "session")
  /\ UNCHANGED <<users, nextId>>

Mark(r) ==
  /\ At(r, "mark")
  /\ invites' = [invites EXCEPT ![req[r].door].redeemedBy = req[r].id]
  /\ Goto(r, "session")
  /\ UNCHANGED <<users, nextId>>

\* createSessionTokens: see Sessions.
OpenSession(r) ==
  /\ At(r, "session")
  /\ Answer(r)
  /\ UNCHANGED <<users, nextId, invites>>

(***************************************************************************)
(* createUserWithPassword, shared by redemption and bootstrap.             *)
(***************************************************************************)
EmailNeverTaken(e) == FALSE

EmailTaken(e) == \E u \in users : u.email = e

NameTaken(n) == \E u \in users : u.name = n

Candidates(e, try) == IF try < Attempts THEN {Tried[e][try]} ELSE Fallbacks

InsertReusesId(e, name, isAdmin, via) ==
  /\ nextId < MaxUsers
  /\ nextId' = nextId + 1
  /\ users' = users \cup {[id |-> nextId, email |-> e, name |-> name,
                           isAdmin |-> isAdmin, via |-> via]}

Insert(e, name, isAdmin, via) ==
  /\ nextId < MaxUsers
  /\ nextId' = nextId + 1
  /\ users' = users \cup {[id |-> nextId + 1, email |-> e, name |-> name,
                           isAdmin |-> isAdmin, via |-> via]}

FindEmail(r) ==
  /\ At(r, "findEmail")
  /\ IF EmailTaken(req[r].email) THEN Answer(r) ELSE Goto(r, "create")
  /\ UNCHANGED <<users, nextId, invites>>

\* P2002 on the email: 409, or a raw 500 from the last attempt.
CreateMeetsEmail(r) ==
  /\ At(r, "create")
  /\ EmailTaken(req[r].email)
  /\ Answer(r)
  /\ UNCHANGED <<users, nextId, invites>>

\* P2002 on the username: the next candidate, or a 409 or 500 after the fallback.
CreateRetriesSameName(r) ==
  /\ At(r, "create")
  /\ ~EmailTaken(req[r].email)
  /\ \E name \in Candidates(req[r].email, req[r].try) : NameTaken(name)
  /\ req[r].try = Attempts /\ Answer(r)
  /\ UNCHANGED <<users, nextId, invites>>

CreateMeetsName(r) ==
  /\ At(r, "create")
  /\ ~EmailTaken(req[r].email)
  /\ \E name \in Candidates(req[r].email, req[r].try) : NameTaken(name)
  /\ IF req[r].try < Attempts
       THEN req' = [req EXCEPT ![r].try = @ + 1]
       ELSE Answer(r)
  /\ UNCHANGED <<users, nextId, invites>>

CreateUser(r) ==
  /\ At(r, "create")
  /\ ~EmailTaken(req[r].email)
  /\ \E name \in Candidates(req[r].email, req[r].try) :
       ~NameTaken(name) /\ Insert(req[r].email, name, req[r].door = "http", req[r].door)
  /\ IF req[r].door = "http"
       THEN Answer(r)
       ELSE req' = [req EXCEPT ![r].pc = "mark", ![r].id = nextId + 1]
  /\ UNCHANGED invites

(***************************************************************************)
(* The first admin.                                                        *)
(***************************************************************************)
BeginBootstrap(r) ==
  /\ At(r, "idle")
  /\ req' = [req EXCEPT ![r] = [Idle EXCEPT !.pc = "countAdmins", !.late = Admins # {}]]
  /\ UNCHANGED <<users, nextId, invites>>

NeedsBootstrapAlways == TRUE

NeedsBootstrap == Admins = {}

CountAdmins(r) ==
  /\ At(r, "countAdmins")
  /\ IF NeedsBootstrap THEN Goto(r, "findBoot") ELSE Answer(r)
  /\ UNCHANGED <<users, nextId, invites>>

FindBoot(r) ==
  /\ At(r, "findBoot")
  /\ IF EmailTaken(BootEmail) THEN Answer(r) ELSE Goto(r, "findEmail")
  /\ UNCHANGED <<users, nextId, invites>>

\* create-admin: the count comes before the prompts for email and password.
BeginScript(r, e) ==
  /\ At(r, "idle")
  /\ req' = [req EXCEPT ![r] = [Idle EXCEPT
       !.pc = "cliCount", !.door = "cli", !.email = e, !.late = Admins # {}]]
  /\ UNCHANGED <<users, nextId, invites>>

ScriptCount(r) ==
  /\ At(r, "cliCount")
  /\ IF users = {} THEN Goto(r, "cliCreate") ELSE Answer(r)
  /\ UNCHANGED <<users, nextId, invites>>

ScriptCreate(r) ==
  LET e == req[r].email
  IN /\ At(r, "cliCreate")
     /\ IF EmailTaken(e) \/ NameTaken(CliName[e])
          THEN UNCHANGED <<users, nextId>>
          ELSE Insert(e, CliName[e], TRUE, "cli")
     /\ Answer(r)
     /\ UNCHANGED invites

\* A database error, a crash or an interrupted script: what is done stays done.
Abandon(r) ==
  /\ ~At(r, "idle")
  /\ Answer(r)
  /\ UNCHANGED <<users, nextId, invites>>

Step(r) ==
  \/ GetInvite(r) \/ FindEmail(r)
  \/ CreateMeetsEmail(r) \/ CreateMeetsName(r) \/ CreateUser(r)
  \/ Mark(r) \/ OpenSession(r)
  \/ CountAdmins(r) \/ FindBoot(r) \/ ScriptCount(r) \/ ScriptCreate(r)

Init ==
  /\ users = {} /\ nextId = 0
  /\ invites = [c \in Codes |->
       [issued |-> FALSE, email |-> Anyone, expired |-> FALSE, redeemedBy |-> NoUser]]
  /\ req = [r \in Requests |-> Idle]

Next ==
  \/ \E r \in Requests : Step(r) \/ Abandon(r) \/ BeginBootstrap(r)
  \/ \E r \in Requests, e \in Emails : BeginScript(r, e)
  \/ \E r \in Requests, c \in Codes, e \in Emails : BeginRedeem(r, c, e)
  \/ \E c \in Codes, e \in Emails : IssueByAdmin(c, e)
  \/ \E c \in Codes, e \in Emails \cup {Anyone} : IssueByScript(c, e)
  \/ \E c \in Codes : InviteExpires(c)

Spec == Init /\ [][Next]_vars

\* Every database call settles, so a handler goes on to its answer.
FairSpec == Spec /\ \A r \in Requests : WF_vars(Step(r))

-----------------------------------------------------------------------------
\* Rows, invites and requests range over what the schema and handlers allow.
TypeOK ==
  /\ users \subseteq [id : Ids, email : Emails, name : Names,
                      isAdmin : BOOLEAN, via : Codes \cup {"http", "cli"}]
  /\ nextId \in 0 .. MaxUsers
  /\ invites \in [Codes -> [issued : BOOLEAN, email : Emails \cup {Anyone},
                            expired : BOOLEAN, redeemedBy : Ids \cup {NoUser}]]
  /\ req \in [Requests -> [pc : PCs, door : Codes \cup {"http", "cli"}, email : Emails,
                           try : 0 .. Attempts, id : Ids \cup {NoUser}, late : BOOLEAN]]

Reserved(c) == invites[c].issued /\ invites[c].email # Anyone

Joined(c) == {u \in users : u.via = c}

\* A reserved invite makes at most one account, however its redemptions overlap
\* and wherever they fail: nothing serialises them but the unique email.
ReservedInviteIsSingleUse ==
  \A c \in Codes : Reserved(c) => \A u, v \in Joined(c) : u = v

\* Nobody gets an account through an invite that was not issued, or was reserved
\* for somebody else.
EveryAccountWasInvited ==
  \A u \in users : u.via \in Codes =>
    invites[u.via].issued /\ invites[u.via].email \in {Anyone, u.email}

\* The redeemer on record did join with that invite, whoever else was joining.
RedeemerJoined ==
  \A c \in Codes : invites[c].redeemedBy # NoUser =>
    \E u \in Joined(c) : u.id = invites[c].redeemedBy

\* Once a reserved invite names its redeemer, no later step names another.
RedemptionIsStable ==
  [][\A c \in Codes : Reserved(c) /\ invites[c].redeemedBy # NoUser
       => invites'[c].redeemedBy = invites[c].redeemedBy]_vars

\* A bootstrap, by either door, that begins when there is an admin makes none.
NoBootstrapAfterAdmin ==
  \A r \in Requests : req[r].late => req[r].pc \in {"countAdmins", "cliCount"}

\* Concurrent POST /auth/bootstrap calls make one admin between them.
OneHttpAdmin == \A u, v \in Joined("http") : u = v

\* Every request is answered, and the search for a username ends, though the fallback
\* may be taken too; only an insert may wait, when the bound has used up the ids.
EveryRequestIsAnswered ==
  \A r \in Requests :
    ~At(r, "idle") ~> \/ At(r, "idle")
                      \/ nextId = MaxUsers /\ req[r].pc \in {"create", "cliCreate"}

\* "Single-use code" (frontend/src/app/(auth)/invite/[token]/page.tsx:60), said of any
\* invite: it makes one account.
InviteIsSingleUse == \A c \in Codes : \A u, v \in Joined(c) : u = v
=============================================================================
