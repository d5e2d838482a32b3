--------------------------- MODULE AccountsProofs ---------------------------
(***************************************************************************)
(* Theorems about Accounts for any number of requests, emails, codes and   *)
(* username candidates.  No transaction serialises a redemption, so they   *)
(* all rest on two facts: PostgreSQL keeps emails unique, and what a       *)
(* request was admitted by (an issued invite that is open or reserved for  *)
(* its email) never changes behind its back.                               *)
(***************************************************************************)
EXTENDS Accounts, TLAPS

Slot == [pc : PCs, door : Codes \cup {"http", "cli"}, email : Emails,
         try : 0 .. Attempts, id : Ids \cup {NoUser}, late : BOOLEAN]

(***************************************************************************)
(* The inductive invariant.                                                *)
(***************************************************************************)
EmailsUnique == \A u, v \in users : u.email = v.email => u = v

HttpEmail == \A u \in users : u.via = "http" => u.email = BootEmail

\* Which door a request came in by.
Doors(r) ==
  /\ req[r].pc \in {"getInvite", "mark"} => req[r].door \in Codes
  /\ req[r].pc \in {"findEmail", "create"} => req[r].door # "cli"
  /\ req[r].pc \in {"countAdmins", "findBoot"} => req[r].door = "http"
  /\ req[r].door = "http" => req[r].email = BootEmail

\* Past getInvite, the invite is open or reserved for the request's email.
Admitted(r) ==
  req[r].door \in Codes /\ req[r].pc \in {"findEmail", "create", "mark"} =>
    /\ invites[req[r].door].issued
    /\ invites[req[r].door].email \in {Anyone, req[r].email}

\* A request about to mark an invite has made a user with it.
Marking(r) ==
  req[r].pc = "mark" => \E u \in users : u.via = req[r].door /\ u.id = req[r].id

\* A late bootstrap has not passed its count, and there is still an admin.
Late(r) ==
  req[r].late => req[r].pc \in {"countAdmins", "cliCount"} /\ \E u \in users : u.isAdmin

RequestOK(r) == Doors(r) /\ Admitted(r) /\ Marking(r) /\ Late(r)

Rows ==
  /\ EmailsUnique /\ HttpEmail
  /\ EveryAccountWasInvited /\ RedeemerJoined

Inv == TypeOK /\ Rows /\ \A r \in Requests : RequestOK(r)

-----------------------------------------------------------------------------
\* TypeOK in the names of this module.
LEMMA Types ==
  TypeOK <=>
    /\ users \subseteq [id : Ids, email : Emails, name : Names,
                        isAdmin : BOOLEAN, via : Codes \cup {"http", "cli"}]
    /\ nextId \in 0 .. MaxUsers
    /\ invites \in [Codes -> [issued : BOOLEAN, email : Emails \cup {Anyone},
                              expired : BOOLEAN, redeemedBy : Ids \cup {NoUser}]]
    /\ req \in [Requests -> Slot]
BY DEF TypeOK, Slot

\* A free slot is a slot.
LEMMA IdleTyped == Idle \in Slot
BY AccountsAssumption DEF Idle, Slot, PCs

\* An idle slot asks nothing of the stores.
LEMMA IdleOK == ASSUME NEW r \in Requests, req[r] = Idle PROVE RequestOK(r)
BY AccountsAssumption DEF Idle, RequestOK, Doors, Admitted, Marking, Late

-----------------------------------------------------------------------------
(***************************************************************************)
(* What the other requests, and the rows, survive.                         *)
(***************************************************************************)
\* Invites keep what a request was admitted by; users are only added.
StoresGrow ==
  /\ users \subseteq users'
  /\ \A c \in Codes : invites[c].issued =>
       invites'[c].issued /\ invites'[c].email = invites[c].email

\* A request that does not move stays safe.
LEMMA OthersOK ==
  ASSUME NEW q \in Requests, RequestOK(q), StoresGrow, req'[q] = req[q]
  PROVE  RequestOK(q)'
<1>1. Doors(q)'
  BY DEF RequestOK, Doors
<1>2. Admitted(q)'
  BY DEF RequestOK, Admitted, StoresGrow
<1>3. Marking(q)'
  BY DEF RequestOK, Marking, StoresGrow
<1>4. Late(q)'
  BY DEF RequestOK, Late, StoresGrow
<1> QED
  BY <1>1, <1>2, <1>3, <1>4 DEF RequestOK

\* A step of r alone that writes no row.
LEMMA MoveStep ==
  ASSUME Inv, NEW r \in Requests, UNCHANGED <<users, nextId, invites>>,
         NEW s \in Slot, req' = [req EXCEPT ![r] = s],
         req'[r] = s => RequestOK(r)'
  PROVE  Inv'
<1>1. TypeOK'
  BY Types DEF Inv, TypeOK, Slot
<1>2. Rows'
  BY DEF Inv, Rows, EmailsUnique, HttpEmail, EveryAccountWasInvited, RedeemerJoined, Joined
<1>3. StoresGrow
  BY DEF StoresGrow
<1>4. req'[r] = s /\ \A q \in Requests \ {r} : req'[q] = req[q]
  BY Types DEF Inv
<1>5. ASSUME NEW q \in Requests PROVE RequestOK(q)'
  BY <1>3, <1>4, OthersOK DEF Inv
<1> QED
  BY <1>1, <1>2, <1>5 DEF Inv

\* A request that ends.
LEMMA AnswerStep ==
  ASSUME Inv, NEW r \in Requests, UNCHANGED <<users, nextId, invites>>, Answer(r)
  PROVE  Inv'
<1>1. req'[r] = Idle => RequestOK(r)'
  BY AccountsAssumption DEF Idle, RequestOK, Doors, Admitted, Marking, Late
<1> QED
  BY <1>1, IdleTyped, MoveStep DEF Answer

\* A request that goes on to its next call.
LEMMA GotoStep ==
  ASSUME Inv, NEW r \in Requests, UNCHANGED <<users, nextId, invites>>,
         NEW p \in PCs, Goto(r, p),
         req'[r] = [req[r] EXCEPT !.pc = p] => RequestOK(r)'
  PROVE  Inv'
<1>1. [req[r] EXCEPT !.pc = p] \in Slot
  BY Types DEF Inv, Slot
<1>2. req' = [req EXCEPT ![r] = [req[r] EXCEPT !.pc = p]]
  BY Types DEF Inv, Goto
<1> QED
  BY <1>1, <1>2, MoveStep

-----------------------------------------------------------------------------
(***************************************************************************)
(* Rows.                                                                   *)
(***************************************************************************)
\* Every candidate is a username.
LEMMA CandidatesTyped ==
  ASSUME NEW e \in Emails, NEW try \in 0 .. Attempts
  PROVE  Candidates(e, try) \subseteq Names
<1>1. CASE try < Attempts
  <2>1. try \in 0 .. Attempts - 1
    BY <1>1, AccountsAssumption
  <2> QED
    BY <1>1, <2>1, AccountsAssumption DEF Candidates
<1>2. CASE ~(try < Attempts)
  BY <1>2, AccountsAssumption DEF Candidates
<1> QED
  BY <1>1, <1>2

\* What a row of User may be added for.
Welcome(e, name, isAdmin, via) ==
  /\ e \in Emails /\ name \in Names /\ isAdmin \in BOOLEAN
  /\ via \in Codes \cup {"http", "cli"}
  /\ ~EmailTaken(e)
  /\ via = "http" => e = BootEmail
  /\ via \in Codes => invites[via].issued /\ invites[via].email \in {Anyone, e}

\* An insert that the unique email admits keeps the rows in order.
LEMMA InsertStep ==
  ASSUME Inv, NEW e, NEW name, NEW isAdmin, NEW via, Welcome(e, name, isAdmin, via),
         Insert(e, name, isAdmin, via), invites' = invites, req' \in [Requests -> Slot]
  PROVE  TypeOK' /\ Rows' /\ StoresGrow
<1> DEFINE new == [id |-> nextId + 1, email |-> e, name |-> name,
                   isAdmin |-> isAdmin, via |-> via]
<1>1. users' = users \cup {new} /\ nextId' = nextId + 1
  BY DEF Insert
<1>2. nextId \in Nat /\ nextId + 1 \in Ids /\ nextId' \in 0 .. MaxUsers
  BY AccountsAssumption, <1>1 DEF Insert, Inv, TypeOK, Ids
<1>3. TypeOK'
  BY <1>1, <1>2 DEF Inv, Welcome, TypeOK, Slot
<1>4. EmailsUnique'
  BY <1>1 DEF Inv, Rows, EmailsUnique, Welcome, EmailTaken
<1>5. HttpEmail'
  BY <1>1 DEF Inv, Rows, HttpEmail, Welcome
<1>6. EveryAccountWasInvited'
  BY <1>1 DEF Inv, Rows, EveryAccountWasInvited, Welcome
<1>7. RedeemerJoined'
  BY <1>1 DEF Inv, Rows, RedeemerJoined, Joined
<1>8. StoresGrow
  BY <1>1 DEF StoresGrow
<1> QED
  BY <1>3, <1>4, <1>5, <1>6, <1>7, <1>8 DEF Rows

\* A step that changes invites only, and of an issued one not whom it is for.
LEMMA InviteStep ==
  ASSUME Inv, UNCHANGED <<users, nextId>>, StoresGrow,
         invites' \in [Codes -> [issued : BOOLEAN, email : Emails \cup {Anyone},
                                 expired : BOOLEAN, redeemedBy : Ids \cup {NoUser}]],
         req' \in [Requests -> Slot], RedeemerJoined'
  PROVE  TypeOK' /\ Rows'
<1>1. TypeOK'
  BY DEF Inv, TypeOK, Slot
<1>2. EmailsUnique' /\ HttpEmail'
  BY DEF Inv, Rows, EmailsUnique, HttpEmail
<1>3. EveryAccountWasInvited'
  BY DEF Inv, Rows, EveryAccountWasInvited, StoresGrow
<1> QED
  BY <1>1, <1>2, <1>3 DEF Rows

\* A step that writes rows, of one request.
LEMMA RowStep ==
  ASSUME Inv, TypeOK', Rows', StoresGrow, NEW r \in Requests,
         \A q \in Requests \ {r} : req'[q] = req[q], RequestOK(r)'
  PROVE  Inv'
<1>1. ASSUME NEW q \in Requests PROVE RequestOK(q)'
  BY OthersOK DEF Inv
<1> QED
  BY <1>1 DEF Inv

-----------------------------------------------------------------------------
(***************************************************************************)
(* One lemma per action.                                                   *)
(***************************************************************************)
\* Issuing an invite.
LEMMA IssueKeeps ==
  ASSUME Inv, NEW c \in Codes, NEW e \in Emails \cup {Anyone}, Issue(c, e)
  PROVE  Inv'
<1>1. StoresGrow
  BY DEF Issue, StoresGrow, Inv, TypeOK
<1>2. RedeemerJoined'
  BY DEF Issue, RedeemerJoined, Joined, Inv, Rows, TypeOK
<1>3. TypeOK' /\ Rows'
  BY <1>1, <1>2, InviteStep, Types DEF Issue, Inv, TypeOK
<1>4. ASSUME NEW q \in Requests PROVE RequestOK(q)'
  BY <1>1, OthersOK DEF Issue, Inv
<1> QED
  BY <1>3, <1>4 DEF Inv

\* The expiry of an invite.
LEMMA InviteExpiresKeeps ==
  ASSUME Inv, NEW c \in Codes, InviteExpires(c)
  PROVE  Inv'
<1>1. StoresGrow
  BY DEF InviteExpires, StoresGrow, Inv, TypeOK
<1>2. RedeemerJoined'
  BY DEF InviteExpires, RedeemerJoined, Joined, Inv, Rows, TypeOK
<1>3. TypeOK' /\ Rows'
  <2>1. /\ invites' \in [Codes -> [issued : BOOLEAN, email : Emails \cup {Anyone},
                                    expired : BOOLEAN, redeemedBy : Ids \cup {NoUser}]]
        /\ UNCHANGED <<users, nextId, req>>
    <3>1. /\ invites \in [Codes -> [issued : BOOLEAN, email : Emails \cup {Anyone},
                                   expired : BOOLEAN, redeemedBy : Ids \cup {NoUser}]]
          /\ invites' = [invites EXCEPT ![c].expired = TRUE]
          /\ UNCHANGED <<users, nextId, req>>
      BY Types DEF InviteExpires, Inv
    <3> QED BY <3>1
  <2>2. req' \in [Requests -> Slot]
    BY <2>1, Types DEF Inv
  <2> QED BY <1>1, <1>2, <2>1, <2>2, InviteStep
<1>4. ASSUME NEW q \in Requests PROVE RequestOK(q)'
  BY <1>1, OthersOK DEF InviteExpires, Inv
<1> QED
  BY <1>3, <1>4 DEF Inv

\* A redemption begins.
LEMMA BeginRedeemKeeps ==
  ASSUME Inv, NEW r \in Requests, NEW c \in Codes, NEW e \in Emails, BeginRedeem(r, c, e)
  PROVE  Inv'
<1> DEFINE s == [Idle EXCEPT !.pc = "getInvite", !.door = c, !.email = e]
<1>1. s \in Slot
  BY IdleTyped DEF Slot, PCs
<1>2. req'[r] = s => RequestOK(r)'
  BY AccountsAssumption DEF Idle, RequestOK, Doors, Admitted, Marking, Late
<1> QED
  BY <1>1, <1>2, MoveStep DEF BeginRedeem

\* A bootstrap over HTTP begins.
LEMMA BeginBootstrapKeeps ==
  ASSUME Inv, NEW r \in Requests, BeginBootstrap(r)
  PROVE  Inv'
<1> DEFINE s == [Idle EXCEPT !.pc = "countAdmins", !.late = Admins # {}]
<1>1. s \in Slot
  BY IdleTyped DEF Slot, PCs
<1>2. /\ s.pc = "countAdmins" /\ s.door = "http" /\ s.email = BootEmail
      /\ s.late = (Admins # {})
  BY DEF Idle
<1>3. Admins' = Admins
  BY DEF BeginBootstrap, Admins
<1>4. ASSUME req'[r] = s PROVE Doors(r)' /\ Admitted(r)' /\ Marking(r)'
  BY <1>2, <1>4, AccountsAssumption DEF Doors, Admitted, Marking
<1>5. ASSUME req'[r] = s PROVE Late(r)'
  <2>1. req'[r].late => Admins' # {}
    BY <1>2, <1>3, <1>5
  <2> QED
    BY <1>2, <1>5, <2>1 DEF Late, Admins
<1>6. req'[r] = s => RequestOK(r)'
  BY <1>4, <1>5 DEF RequestOK
<1> QED
  BY <1>1, <1>6, MoveStep DEF BeginBootstrap

\* A run of create-admin begins.
LEMMA BeginScriptKeeps ==
  ASSUME Inv, NEW r \in Requests, NEW e \in Emails, BeginScript(r, e)
  PROVE  Inv'
<1> DEFINE s == [Idle EXCEPT !.pc = "cliCount", !.door = "cli", !.email = e,
                            !.late = Admins # {}]
<1>1. s \in Slot
  BY IdleTyped DEF Slot, PCs
<1>2. /\ s.pc = "cliCount" /\ s.door = "cli"
      /\ s.late = (Admins # {})
  BY DEF Idle
<1>3. Admins' = Admins
  BY DEF BeginScript, Admins
<1>4. ASSUME req'[r] = s PROVE Doors(r)' /\ Admitted(r)' /\ Marking(r)'
  BY <1>2, <1>4, AccountsAssumption DEF Doors, Admitted, Marking
<1>5. ASSUME req'[r] = s PROVE Late(r)'
  <2>1. req'[r].late => Admins' # {}
    BY <1>2, <1>3, <1>5
  <2> QED
    BY <1>2, <1>5, <2>1 DEF Late, Admins
<1>6. req'[r] = s => RequestOK(r)'
  BY <1>4, <1>5 DEF RequestOK
<1> QED
  BY <1>1, <1>6, MoveStep DEF BeginScript

\* The checks on the invite: a request that passes them is admitted.
LEMMA GetInviteKeeps ==
  ASSUME Inv, NEW r \in Requests, GetInvite(r)
  PROVE  Inv'
<1>1. CASE Goto(r, "findEmail")
  <2> DEFINE c == req[r].door
  <2>1. /\ c \in Codes /\ req[r].pc = "getInvite"
        /\ req'[r] = [req[r] EXCEPT !.pc = "findEmail"]
        /\ UNCHANGED <<users, nextId, invites>>
    BY <1>1, Types DEF GetInvite, Goto, At, Doors, Inv, RequestOK
  <2>2. req'[r].pc = "findEmail" /\ (Answer(r) => req'[r].pc = "idle")
    BY <2>1, Types DEF Answer, Idle, Inv, Slot
  <2>3. invites[c].issued /\ ReservedFor(c, req[r].email)
    BY <2>2 DEF GetInvite
  <2>4. Admitted(r)' /\ Doors(r)'
    BY <2>1, <2>3, AccountsAssumption, Types DEF Admitted, Doors, Inv, Slot, ReservedFor
  <2>5. Marking(r)' /\ Late(r)'
    BY <2>1, Types DEF Marking, Late, Inv, RequestOK, Slot
  <2>6. "findEmail" \in PCs
    BY DEF PCs
  <2> QED
    BY <1>1, <2>1, <2>4, <2>5, <2>6, GotoStep DEF RequestOK
<1>2. CASE Answer(r)
  BY <1>2, AnswerStep DEF GetInvite
<1> QED
  BY <1>1, <1>2 DEF GetInvite

\* The reads that lead to the insert or end the request.
LEMMA ReadsKeep ==
  ASSUME Inv, NEW r \in Requests,
         FindEmail(r) \/ CountAdmins(r) \/ FindBoot(r) \/ ScriptCount(r)
  PROVE  Inv'
<1>1. CASE Answer(r)
  BY <1>1, AnswerStep DEF FindEmail, CountAdmins, FindBoot, ScriptCount
<1>2. CASE FindEmail(r) /\ Goto(r, "create")
  <2>1. RequestOK(r)'
    BY <1>2, Types DEF FindEmail, Goto, At, Inv, RequestOK, Doors, Admitted, Marking, Late, Slot
  <2> QED
    BY <1>2, <2>1, GotoStep DEF FindEmail, PCs
<1>3. CASE CountAdmins(r) /\ ~Answer(r)
  <2>1. Admins = {} /\ Goto(r, "findBoot") /\ UNCHANGED <<users, nextId, invites>>
    BY <1>3 DEF CountAdmins, NeedsBootstrap
  <2>2. ~req[r].late
    BY <2>1 DEF Inv, RequestOK, Late, Admins
  <2>3. RequestOK(r)'
    BY <1>3, <2>1, <2>2, Types, AccountsAssumption
       DEF CountAdmins, Goto, At, Inv, RequestOK, Doors, Admitted, Marking, Late, Slot
  <2> QED
    BY <2>1, <2>3, GotoStep DEF PCs
<1>4. CASE FindBoot(r) /\ Goto(r, "findEmail")
  <2>1. RequestOK(r)'
    BY <1>4, Types, AccountsAssumption
       DEF FindBoot, Goto, At, Inv, RequestOK, Doors, Admitted, Marking, Late, Slot
  <2> QED
    BY <1>4, <2>1, GotoStep DEF FindBoot, PCs
<1>5. CASE ScriptCount(r) /\ ~Answer(r)
  <2>1. users = {} /\ Goto(r, "cliCreate") /\ UNCHANGED <<users, nextId, invites>>
    BY <1>5 DEF ScriptCount
  <2>2. ~req[r].late
    BY <2>1 DEF Inv, RequestOK, Late
  <2>3. RequestOK(r)'
    BY <1>5, <2>1, <2>2, Types
       DEF ScriptCount, Goto, At, Inv, RequestOK, Doors, Admitted, Marking, Late, Slot
  <2> QED
    BY <2>1, <2>3, GotoStep DEF PCs
<1> QED
  BY <1>1, <1>2, <1>3, <1>4, <1>5 DEF FindEmail, FindBoot

\* The next username candidate, or an answer after the last.
LEMMA CreateMeetsNameKeeps ==
  ASSUME Inv, NEW r \in Requests, CreateMeetsName(r)
  PROVE  Inv'
<1> DEFINE s == [req[r] EXCEPT !.try = @ + 1]
<1>1. req[r] \in Slot /\ UNCHANGED <<users, nextId, invites>>
  BY Types DEF Inv, CreateMeetsName
<1>2. CASE req[r].try < Attempts
  <2>1. req[r].try + 1 \in 0 .. Attempts
    BY <1>1, <1>2, AccountsAssumption DEF Slot
  <2>2. s \in Slot /\ req' = [req EXCEPT ![r] = s]
    BY <1>1, <1>2, <2>1, Types DEF CreateMeetsName, Inv, Slot
  <2>3. ASSUME req'[r] = s PROVE RequestOK(r)'
    BY <1>1, <2>3 DEF Inv, RequestOK, Doors, Admitted, Marking, Late, Slot
  <2> QED
    BY <1>1, <2>2, <2>3, MoveStep
<1>3. CASE ~(req[r].try < Attempts)
  BY <1>1, <1>3, AnswerStep DEF CreateMeetsName
<1> QED
  BY <1>2, <1>3

\* The insert of a redemption or a bootstrap.
LEMMA CreateUserKeeps ==
  ASSUME Inv, NEW r \in Requests, CreateUser(r)
  PROVE  Inv'
<1> DEFINE e == req[r].email  via == req[r].door
<1> PICK name \in Candidates(e, req[r].try) :
      ~NameTaken(name) /\ Insert(e, name, via = "http", via)
  BY DEF CreateUser
<1>1. req[r] \in Slot /\ req[r].pc = "create" /\ nextId \in Nat
  BY Types, AccountsAssumption DEF Inv, CreateUser, At
<1>2. Doors(r) /\ Admitted(r) /\ via # "cli" /\ ~req[r].late
  BY <1>1 DEF Inv, RequestOK, Doors, Late
<1>3. Welcome(e, name, via = "http", via)
  BY <1>1, <1>2, CandidatesTyped DEF Welcome, CreateUser, Slot, Doors, Admitted
<1>4. /\ Insert(e, name, via = "http", via) /\ invites' = invites
  BY DEF CreateUser
<1>5. nextId + 1 \in Ids
  BY <1>1, <1>4, AccountsAssumption DEF Insert, Ids
<1>6. CASE via = "http"
  <2>1. req' = [req EXCEPT ![r] = Idle]
    BY <1>6 DEF CreateUser, Answer
  <2>2. req' \in [Requests -> Slot] /\ req'[r] = Idle
    BY <2>1, IdleTyped, Types DEF Inv
  <2>3. RequestOK(r)'
    BY <2>2, AccountsAssumption DEF Idle, RequestOK, Doors, Admitted, Marking, Late
  <2>4. TypeOK' /\ Rows' /\ StoresGrow
    BY <1>3, <1>4, <2>2, InsertStep
  <2> QED
    BY <2>1, <2>3, <2>4, RowStep
<1>7. CASE via # "http"
  <2>1. req' = [req EXCEPT ![r].pc = "mark", ![r].id = nextId + 1]
    BY <1>7 DEF CreateUser
  <2>2. /\ req' \in [Requests -> Slot]
        /\ req'[r] = [req[r] EXCEPT !.pc = "mark", !.id = nextId + 1]
    BY <1>1, <1>5, <2>1, Types DEF Inv, Slot, PCs
  <2>3. TypeOK' /\ Rows' /\ StoresGrow
    BY <1>3, <1>4, <2>2, InsertStep
  <2>4. Doors(r)' /\ Admitted(r)' /\ Late(r)'
    BY <1>1, <1>2, <1>4, <1>7, <2>2 DEF Doors, Admitted, Late, Slot
  <2>5. Marking(r)'
    <3> DEFINE new == [id |-> nextId + 1, email |-> e, name |-> name,
                       isAdmin |-> via = "http", via |-> via]
    <3>1. new \in users'
      BY <1>4 DEF Insert
    <3>2. req'[r].id = new.id /\ req'[r].door = new.via
      BY <1>1, <2>2 DEF Slot
    <3> QED
      BY <3>1, <3>2 DEF Marking
  <2>6. RequestOK(r)'
    BY <2>4, <2>5 DEF RequestOK
  <2>7. ASSUME NEW q \in Requests \ {r} PROVE req'[q] = req[q]
    BY <2>1, Types DEF Inv
  <2> QED
    BY <2>3, <2>6, <2>7, RowStep
<1> QED
  BY <1>6, <1>7

\* The insert of create-admin.
LEMMA ScriptCreateKeeps ==
  ASSUME Inv, NEW r \in Requests, ScriptCreate(r)
  PROVE  Inv'
<1> DEFINE e == req[r].email  name == CliName[e]
<1>1. req[r] \in Slot /\ e \in Emails /\ Answer(r) /\ invites' = invites
  BY Types DEF Inv, ScriptCreate, Slot
<1>2. CASE UNCHANGED <<users, nextId>>
  BY <1>1, <1>2, AnswerStep
<1>3. CASE ~EmailTaken(e) /\ Insert(e, name, TRUE, "cli")
  <2>1. name \in Names
    BY <1>1, AccountsAssumption
  <2>2. Welcome(e, name, TRUE, "cli")
    BY <1>1, <1>3, <2>1, AccountsAssumption DEF Welcome
  <2>3. req' \in [Requests -> Slot] /\ req'[r] = Idle
    BY <1>1, IdleTyped, Types DEF Inv, Answer
  <2>4. TypeOK' /\ Rows' /\ StoresGrow
    BY <1>1, <1>3, <2>2, <2>3, InsertStep
  <2>5. RequestOK(r)'
    BY <2>3, AccountsAssumption DEF Idle, RequestOK, Doors, Admitted, Marking, Late
  <2> QED
    BY <1>1, <2>4, <2>5, RowStep DEF Answer
<1> QED
  BY <1>2, <1>3 DEF ScriptCreate

\* The redeemer put on record has joined with the invite.
LEMMA MarkKeeps ==
  ASSUME Inv, NEW r \in Requests, Mark(r)
  PROVE  Inv'
<1> DEFINE c == req[r].door
<1>1. /\ req[r] \in Slot /\ req[r].pc = "mark" /\ c \in Codes
      /\ \E u \in Joined(c) : u.id = req[r].id
  BY Types DEF Inv, Mark, At, RequestOK, Doors, Marking, Joined
<1>2. /\ invites' = [invites EXCEPT ![c].redeemedBy = req[r].id]
      /\ req' = [req EXCEPT ![r].pc = "session"] /\ UNCHANGED <<users, nextId>>
  BY DEF Mark, Goto
<1>3. StoresGrow
  BY <1>2 DEF StoresGrow, Inv, TypeOK
<1>4. RedeemerJoined'
  BY <1>1, <1>2 DEF RedeemerJoined, Joined, Inv, Rows, TypeOK
<1>5. req' \in [Requests -> Slot] /\ req'[r] = [req[r] EXCEPT !.pc = "session"]
  BY <1>1, <1>2, Types DEF Inv, Slot, PCs
<1>6. invites' \in [Codes -> [issued : BOOLEAN, email : Emails \cup {Anyone},
                              expired : BOOLEAN, redeemedBy : Ids \cup {NoUser}]]
  BY <1>1, <1>2 DEF Inv, TypeOK, Slot
<1>7. TypeOK' /\ Rows'
  BY <1>2, <1>3, <1>4, <1>5, <1>6, InviteStep
<1>8. RequestOK(r)'
  BY <1>1, <1>5, AccountsAssumption
     DEF Inv, RequestOK, Doors, Admitted, Marking, Late, Slot
<1> QED
  BY <1>2, <1>3, <1>7, <1>8, RowStep

-----------------------------------------------------------------------------
\* Nothing is there at first.
LEMMA InitInv == Init => Inv
<1> SUFFICES ASSUME Init PROVE Inv
  OBVIOUS
<1>1. TypeOK
  BY IdleTyped, Types, AccountsAssumption DEF Init
<1>2. Rows
  BY DEF Init, Rows, EmailsUnique, HttpEmail, EveryAccountWasInvited, RedeemerJoined
<1>3. \A r \in Requests : RequestOK(r)
  BY IdleOK DEF Init
<1> QED
  BY <1>1, <1>2, <1>3 DEF Inv

\* Every step keeps the invariant.
LEMMA NextInv == Inv /\ [Next]_vars => Inv'
<1> SUFFICES ASSUME Inv, [Next]_vars PROVE Inv'
  OBVIOUS
<1>1. ASSUME UNCHANGED vars PROVE Inv'
  BY <1>1 DEF vars, Inv, TypeOK, Rows, EmailsUnique, HttpEmail,
              EveryAccountWasInvited, RedeemerJoined, Joined, RequestOK, Doors, Admitted,
              Marking, Late
<1>2. ASSUME NEW r \in Requests, Step(r) PROVE Inv'
  <2>1. ASSUME CreateMeetsEmail(r) \/ OpenSession(r) PROVE Inv'
    BY <2>1, AnswerStep DEF CreateMeetsEmail, OpenSession
  <2> QED
    BY <1>2, <2>1, GetInviteKeeps, ReadsKeep, CreateMeetsNameKeeps, CreateUserKeeps,
       MarkKeeps, ScriptCreateKeeps DEF Step
<1>3. ASSUME NEW r \in Requests, Abandon(r) \/ BeginBootstrap(r) PROVE Inv'
  BY <1>3, AnswerStep, BeginBootstrapKeeps DEF Abandon
<1>4. ASSUME NEW r \in Requests, NEW e \in Emails, BeginScript(r, e) PROVE Inv'
  BY <1>4, BeginScriptKeeps
<1>5. ASSUME NEW r \in Requests, NEW c \in Codes, NEW e \in Emails, BeginRedeem(r, c, e)
      PROVE  Inv'
  BY <1>5, BeginRedeemKeeps
<1>6. ASSUME NEW c \in Codes, NEW e \in Emails \cup {Anyone},
             IssueByAdmin(c, e) \/ IssueByScript(c, e)
      PROVE  Inv'
  BY <1>6, IssueKeeps DEF IssueByAdmin, IssueByScript
<1>7. ASSUME NEW c \in Codes, InviteExpires(c) PROVE Inv'
  BY <1>7, InviteExpiresKeeps
<1> QED
  BY <1>1, <1>2, <1>3, <1>4, <1>5, <1>6, <1>7 DEF Next

\* The invariant holds in every behaviour of Accounts.
THEOREM Invariance == Spec => []Inv
BY InitInv, NextInv, PTL DEF Spec

-----------------------------------------------------------------------------
(***************************************************************************)
(* What follows from the invariant.                                        *)
(***************************************************************************)
\* Users who joined by one reserved invite are one: they have its email.
LEMMA ReservedMeansOne ==
  ASSUME Inv, NEW c \in Codes, Reserved(c), NEW u \in Joined(c), NEW v \in Joined(c)
  PROVE  u = v
<1>1. u.email = invites[c].email /\ v.email = invites[c].email
  BY DEF Inv, Rows, EveryAccountWasInvited, Reserved, Joined
<1> QED
  BY <1>1 DEF Inv, Rows, EmailsUnique, Joined

\* Rows, invites and requests keep their types, whatever usernames the candidates and
\* fallbacks of createUserWithPassword are: no request tries more than Attempts + 1.
THEOREM TypeCorrect == Spec => []TypeOK
<1>1. Inv => TypeOK
  BY DEF Inv
<1> QED
  BY <1>1, Invariance, PTL

\* However redemptions of a reserved invite overlap and fail, they make one account.
THEOREM ReservedInvitesMakeOneAccount == Spec => []ReservedInviteIsSingleUse
<1>1. Inv => ReservedInviteIsSingleUse
  BY ReservedMeansOne DEF ReservedInviteIsSingleUse
<1> QED
  BY <1>1, Invariance, PTL

\* Nobody gets an account by an invite that was not issued, or was meant for another.
THEOREM AccountsAreInvited == Spec => []EveryAccountWasInvited
<1>1. Inv => EveryAccountWasInvited
  BY DEF Inv, Rows
<1> QED
  BY <1>1, Invariance, PTL

\* The redeemer on record joined by the invite.
THEOREM RedeemersJoined == Spec => []RedeemerJoined
<1>1. Inv => RedeemerJoined
  BY DEF Inv, Rows
<1> QED
  BY <1>1, Invariance, PTL

\* A bootstrap that begins when there is an admin gets no further than its count.
THEOREM LateBootstrapsMakeNoAdmin == Spec => []NoBootstrapAfterAdmin
<1>1. Inv => NoBootstrapAfterAdmin
  BY DEF Inv, RequestOK, Late, NoBootstrapAfterAdmin
<1> QED
  BY <1>1, Invariance, PTL

\* Bootstraps over HTTP make one admin between them.
THEOREM HttpMakesOneAdmin == Spec => []OneHttpAdmin
<1>1. Inv => OneHttpAdmin
  BY DEF Inv, Rows, HttpEmail, EmailsUnique, OneHttpAdmin, Joined
<1> QED
  BY <1>1, Invariance, PTL

\* No step renames the redeemer of a reserved invite.
THEOREM RedemptionsAreStable == Spec => RedemptionIsStable
<1> DEFINE Stable == \A c \in Codes : Reserved(c) /\ invites[c].redeemedBy # NoUser
                       => invites'[c].redeemedBy = invites[c].redeemedBy
<1>1. Inv /\ Inv' /\ [Next]_vars => [Stable]_vars
  <2> SUFFICES ASSUME Inv, Inv', Next, NEW c \in Codes, Reserved(c),
                      invites[c].redeemedBy # NoUser
               PROVE  invites'[c].redeemedBy = invites[c].redeemedBy
    OBVIOUS
  <2>1. CASE invites' = invites
    BY <2>1
  <2>2. ASSUME NEW d \in Codes, NEW e, Issue(d, e)
        PROVE  invites'[c].redeemedBy = invites[c].redeemedBy
    BY <2>2 DEF Issue, Reserved, Inv, TypeOK
  <2>3. ASSUME NEW d \in Codes, InviteExpires(d)
        PROVE  invites'[c].redeemedBy = invites[c].redeemedBy
    BY <2>3 DEF InviteExpires, Inv, TypeOK
  <2>4. ASSUME NEW r \in Requests, Mark(r)
        PROVE  invites'[c].redeemedBy = invites[c].redeemedBy
    <3>1. /\ req[r].door \in Codes
          /\ \E u \in Joined(req[r].door) : u.id = req[r].id
      BY <2>4 DEF Inv, Mark, At, RequestOK, Doors, Marking, Joined
    <3>2. \E v \in Joined(c) : v.id = invites[c].redeemedBy
      BY DEF Inv, Rows, RedeemerJoined
    <3>3. req[r].door = c => req[r].id = invites[c].redeemedBy
      BY <3>1, <3>2, ReservedMeansOne
    <3> QED
      BY <2>4, <3>1, <3>3 DEF Mark, Inv, TypeOK
  <2> QED
    BY <2>1, <2>2, <2>3, <2>4
       DEF Next, Step, Abandon, BeginBootstrap, BeginScript, BeginRedeem, IssueByAdmin,
           IssueByScript, GetInvite, FindEmail, CreateMeetsEmail, CreateMeetsName, CreateUser,
           OpenSession, CountAdmins, FindBoot, ScriptCount, ScriptCreate
<1>2. Spec => [][Stable]_vars
  BY <1>1, Invariance, PTL DEF Spec
<1> QED
  BY <1>2 DEF RedemptionIsStable
=============================================================================
