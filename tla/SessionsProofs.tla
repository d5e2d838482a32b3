--------------------------- MODULE SessionsProofs ---------------------------
(***************************************************************************)
(* Theorems about Sessions for any number of requests and sessions, any    *)
(* clients (one page or many tabs) and any faults: the types are kept, and *)
(* a refusal is final unless the database failed the refresh it answers.   *)
(* When no applied write is reported as failed, no session is in both      *)
(* stores, no retired token is honoured again and the gauge counts the     *)
(* sessions in Redis; with one refresh at a time per token, too, a login   *)
(* holds one live token, ends when that is signed out, and the tokens      *)
(* implement OneTimeToken.                                                 *)
(***************************************************************************)
EXTENDS Sessions, FiniteSetTheorems, TLAPS

Dead(s) == row[s] # "ACTIVE" /\ s \notin cache

Retired == spent \cup closed

(***************************************************************************)
(* The inductive invariant.  A session being created is nobody's yet; a    *)
(* token that was presented is known and stays in the store it was put in; *)
(* so revoking the row, or deleting the entry, that a request found kills  *)
(* the token for good.                                                     *)
(***************************************************************************)
Unminted == \A s \in Sids : s > minted => row[s] = "none" /\ s \notin cache

Apart == \A s \in cache : row[s] = "none"

RetiredDead == Retired \subseteq known /\ \A s \in Retired : Dead(s)

\* No two requests create one session.
CreatingApart ==
  \A q, r \in Requests :
    req[q].pc \in Creating /\ req[r].pc \in Creating /\ req[q].sid = req[r].sid => q = r

CreatingFresh(r) ==
  req[r].pc \in Creating =>
    /\ req[r].sid \notin known \cup cache
    /\ row[req[r].sid] = "none"

PresentedKnown(r) ==
  /\ req[r].pc \in Refreshing \cup LoggingOut => req[r].tok \in known
  /\ req[r].pc \in Creating => req[r].tok \in known \cup {NoSid}

Found(r) ==
  /\ req[r].pc \in {"revoke", "expire"} => row[req[r].tok] # "none"
  /\ req[r].pc = "delHit" => row[req[r].tok] = "none"
  /\ req[r].pc = "outDel" => row[req[r].tok] # "ACTIVE"
  /\ req[r].pc \in Creating /\ req[r].tok # NoSid => Dead(req[r].tok)

LateRefused(r) ==
  req[r].late =>
    /\ req[r].pc \in {"lookup", "get", "delMiss"} \cup LoggingOut
    /\ req[r].tok \in Retired

RequestSafe(r) == CreatingFresh(r) /\ PresentedKnown(r) /\ Found(r) /\ LateRefused(r)

\* What the slots name has been minted; needed for the types already.
Minted ==
  /\ known \subseteq 1 .. minted
  /\ \A s \in 1 .. minted : origin[s] \in Sids
  /\ \A r \in Requests :
       /\ req[r].tok \in 0 .. minted
       /\ req[r].pc \in Refreshing \cup LoggingOut => req[r].tok \in 1 .. minted
       /\ req[r].pc \in Creating => req[r].sid \in 1 .. minted

TypeInv == TypeOK /\ Minted

Safe ==
  /\ Unminted /\ Apart /\ RetiredDead /\ CreatingApart
  /\ \A r \in Requests : RequestSafe(r)

Inv == TypeInv /\ (Honest => Safe)

-----------------------------------------------------------------------------
USE DEF NoSid

\* The steps of Next, one disjunct per action: what a step proof splits on.
Steps ==
  \/ \E r \in Requests : BeginLogin(r)
  \/ \E r \in Requests, s \in Sids : BeginRefresh(r, s) \/ BeginLogout(r, s)
  \/ \E r \in Requests : Lookup(r) \/ ExpireRow(r) \/ RevokeRow(r)
  \/ \E r \in Requests : GetEntry(r) \/ DelEntry(r)
  \/ \E r \in Requests : Record(r) \/ Fallback(r)
  \/ \E r \in Requests : LogoutRevoke(r) \/ LogoutDelete(r)
  \/ \E s \in Sids : RowExpires(s) \/ EntryExpires(s)
  \/ JwtExpires
  \/ Restart

\* Next, one disjunct per line of the step proofs.
LEMMA NextSteps == Next => Steps
BY DEF Next, Step, Steps

\* Ids are positive: NoSid is none of them.
LEMMA SidsAreNaturals == Sids \subseteq Nat /\ NoSid \notin Sids
BY SessionsAssumption DEF Sids

-----------------------------------------------------------------------------
(***************************************************************************)
(* Types.  TypeOK is not inductive by itself: that what is sent, signed    *)
(* out or ended is a session rests on the slots naming minted sessions.    *)
(* The two halves of TypeInv: what Goto, Answer and Mint write, and the    *)
(* rest.                                                                   *)
(***************************************************************************)
SlotsTyped ==
  /\ minted \in 0 .. MaxSids
  /\ req \in [Requests -> Slot]
  /\ parent \in [Sids -> Sids \cup {NoSid}]
  /\ origin \in [Sids -> Sids \cup {NoSid}]
  /\ Minted

StoresTyped ==
  /\ row \in [Sids -> {"none", "ACTIVE", "REVOKED", "EXPIRED"}]
  /\ past \subseteq Sids /\ cache \subseteq Sids
  /\ expired \in 0 .. minted
  /\ gauge \in Int /\ drift \in Int
  /\ spent \subseteq Sids /\ closed \subseteq Sids /\ over \subseteq Sids

\* The two halves together are TypeInv.
LEMMA TypeHalves == TypeInv <=> SlotsTyped /\ StoresTyped
BY SessionsAssumption DEF TypeInv, TypeOK, SlotsTyped, StoresTyped, Minted, Sids

\* A slot that is written well leaves all slots well.
LEMMA WriteSlot ==
  ASSUME SlotsTyped, NEW r \in Requests, NEW v \in Slot, req' = [req EXCEPT ![r] = v],
         known' \subseteq 1 .. minted', NoMint,
         v.tok \in 0 .. minted,
         v.pc \in Refreshing \cup LoggingOut => v.tok \in 1 .. minted,
         v.pc \in Creating => v.sid \in 1 .. minted
  PROVE  SlotsTyped'
BY DEF SlotsTyped, Minted, NoMint

\* A request that goes on keeps what it holds.
LEMMA GoOn ==
  ASSUME SlotsTyped, NEW r \in Requests, NEW p \in PCs, Goto(r, p) \/ CatchAndGoto(r, p),
         NoMint, known' = known,
         p \in Creating => req[r].pc \in Creating,
         p \in Refreshing \cup LoggingOut => req[r].pc \in Refreshing \cup LoggingOut
  PROVE  SlotsTyped'
<1>1. req[r] \in Slot
  BY DEF SlotsTyped
<1>2. PICK v \in Slot : /\ req' = [req EXCEPT ![r] = v]
                        /\ v.pc = p /\ v.tok = req[r].tok /\ v.sid = req[r].sid
  <2>1. CASE Goto(r, p)
    <3>1. [req[r] EXCEPT !.pc = p] \in Slot
      BY <1>1 DEF Slot
    <3> QED
      BY <1>1, <2>1, <3>1 DEF Goto, Slot
  <2>2. CASE CatchAndGoto(r, p)
    <3>1. [req[r] EXCEPT !.pc = p, !.shaky = TRUE] \in Slot
      BY <1>1 DEF Slot
    <3> QED
      BY <1>1, <2>2, <3>1 DEF CatchAndGoto, Slot
  <2> QED
    BY <2>1, <2>2
<1>3. /\ known' \subseteq 1 .. minted'
      /\ v.tok \in 0 .. minted
      /\ v.pc \in Refreshing \cup LoggingOut => v.tok \in 1 .. minted
      /\ v.pc \in Creating => v.sid \in 1 .. minted
  BY <1>2 DEF SlotsTyped, Minted, NoMint
<1> QED
  BY <1>2, <1>3, WriteSlot

\* An answer forgets what the slot held.
LEMMA Answered ==
  ASSUME SlotsTyped, NEW r \in Requests, Answer(r), known' \subseteq 1 .. minted
  PROVE  SlotsTyped'
<1>1. Idle \in Slot /\ Idle.tok = 0 /\ Idle.pc = "idle"
  BY DEF Idle, Slot, PCs
<1>2. 0 \in 0 .. minted /\ "idle" \notin Refreshing \cup LoggingOut \cup Creating
  BY DEF SlotsTyped, Refreshing, LoggingOut, Creating
<1> QED
  BY <1>1, <1>2, WriteSlot DEF Answer, NoMint

\* A fresh id: the slot that asked for it creates the session.
LEMMA MintSlot ==
  ASSUME SlotsTyped, NEW r \in Requests, NEW from \in 0 .. minted, Mint(r, from), known' = known
  PROVE  SlotsTyped' /\ minted' = minted + 1
<1> DEFINE s == minted + 1
           v == [Idle EXCEPT !.pc = "record", !.tok = from, !.sid = s, !.late = req[r].late]
<1>1. s \in Sids /\ minted' = s /\ minted' \in 0 .. MaxSids
  BY SessionsAssumption DEF Mint, SlotsTyped, Sids
<1>2. from \in Sids \cup {NoSid} /\ req[r].late \in BOOLEAN
  BY SessionsAssumption DEF SlotsTyped, Sids, Slot
<1>3. v \in Slot /\ v.pc = "record" /\ v.tok = from /\ v.sid = s
  BY <1>1, <1>2 DEF Slot, Idle, PCs, Creating
<1>4. req' = [req EXCEPT ![r] = v]
  BY DEF Mint
<1>5. parent' \in [Sids -> Sids \cup {NoSid}]
  BY <1>1, <1>2 DEF SlotsTyped, Mint
<1>6. /\ origin' \in [Sids -> Sids \cup {NoSid}]
      /\ \A t \in 1 .. minted' : origin'[t] \in Sids
  <2>1. (IF from = NoSid THEN s ELSE origin[from]) \in Sids
    BY <1>1 DEF SlotsTyped, Minted
  <2> QED
    BY <1>1, <2>1, SessionsAssumption DEF SlotsTyped, Minted, Mint, Sids
<1>7. "record" \in Creating /\ "record" \notin Refreshing \cup LoggingOut
  BY DEF Creating, Refreshing, LoggingOut
<1>8. ASSUME NEW q \in Requests
      PROVE  /\ req'[q].tok \in 0 .. minted'
             /\ req'[q].pc \in Refreshing \cup LoggingOut => req'[q].tok \in 1 .. minted'
             /\ req'[q].pc \in Creating => req'[q].sid \in 1 .. minted'
  <2>1. CASE q = r
    BY <1>1, <1>3, <1>4, <1>7, <2>1 DEF SlotsTyped
  <2>2. CASE q # r
    BY <1>1, <1>4, <2>2 DEF SlotsTyped, Minted
  <2> QED
    BY <2>1, <2>2
<1>9. known' \subseteq 1 .. minted'
  BY <1>1 DEF SlotsTyped, Minted
<1>10. req' \in [Requests -> Slot]
  BY <1>3, <1>4 DEF SlotsTyped
<1> QED
  BY <1>1, <1>5, <1>6, <1>8, <1>9, <1>10 DEF SlotsTyped, Minted

\* A server that has just started, with empty stores, is well typed.
LEMMA TypeInvInit == Init => TypeInv
<1>1. Idle \in Slot /\ Idle.tok = 0 /\ Idle.pc = "idle"
  BY DEF Idle, Slot, PCs
<1>2. "idle" \notin Refreshing \cup LoggingOut \cup Creating
  BY DEF Refreshing, LoggingOut, Creating
<1> SUFFICES ASSUME Init PROVE SlotsTyped /\ StoresTyped
  BY TypeHalves
<1>3. \A r \in Requests : req[r] = Idle
  BY DEF Init
<1>4. req \in [Requests -> Slot]
  BY <1>1 DEF Init
<1>5. SlotsTyped
  BY <1>1, <1>2, <1>3, <1>4, SessionsAssumption DEF Init, SlotsTyped, Minted, Sids
<1>6. StoresTyped
  BY SessionsAssumption DEF Init, StoresTyped, Sids
<1> QED
  BY <1>5, <1>6

\* What the stores hold after a step that writes no expiry and no drift.
LEMMA StoresKept ==
  ASSUME SlotsTyped, StoresTyped, minted' = minted \/ minted' = minted + 1,
         UNCHANGED <<past, expired, drift>>,
         row' \in [Sids -> {"none", "ACTIVE", "REVOKED", "EXPIRED"}],
         cache' \subseteq Sids, gauge' \in Int,
         spent' \subseteq Sids, closed' \subseteq Sids, over' \subseteq Sids
  PROVE  StoresTyped'
BY DEF SlotsTyped, StoresTyped

\* session.update writes a status of the enum.
LEMMA SetStatusTyped ==
  ASSUME StoresTyped, NEW s, NEW status \in {"REVOKED", "EXPIRED"}, NEW out,
         SetStatus(s, status, out)
  PROVE  row' \in [Sids -> {"none", "ACTIVE", "REVOKED", "EXPIRED"}]
BY DEF StoresTyped, SetStatus

\* deleteRefreshSession removes at most one entry and counts an integer.
LEMMA DeleteEntryTyped ==
  ASSUME StoresTyped, NEW s, NEW out, DeleteEntry(s, out)
  PROVE  cache' \subseteq Sids /\ gauge' \in Int
BY DEF StoresTyped, DeleteEntry

\* The token of a request that uses one is a session.
LEMMA Carried ==
  ASSUME SlotsTyped, NEW r \in Requests
  PROVE  /\ req[r].pc \in Refreshing \cup LoggingOut => req[r].tok \in Sids /\ req[r].tok \in 1 .. minted
         /\ req[r].pc \in Creating => req[r].sid \in Sids /\ req[r].sid \in 1 .. minted
         /\ req[r].tok \in 0 .. minted /\ req[r].tok \in Sids \cup {NoSid}
BY SessionsAssumption DEF SlotsTyped, Minted, Sids

\* A login mints an id; a refresh or a sign-out carries a token it was sent.
LEMMA TypeBegin ==
  ASSUME SlotsTyped, StoresTyped, NEW r \in Requests,
         BeginLogin(r) \/ \E s \in Sids : BeginRefresh(r, s) \/ BeginLogout(r, s)
  PROVE  SlotsTyped' /\ StoresTyped'
<1>1. CASE BeginLogin(r)
  <2>1. 0 \in 0 .. minted /\ Mint(r, 0) /\ known' = known
    BY <1>1 DEF BeginLogin, SlotsTyped, history
  <2>2. SlotsTyped' /\ minted' = minted + 1
    BY <2>1, MintSlot
  <2>3. UNCHANGED <<stores, history, drift>>
    BY <1>1 DEF BeginLogin
  <2> QED
    BY <2>2, <2>3, StoresKept DEF StoresTyped, stores, history
<1>2. ASSUME NEW s \in Sids, NEW p \in {"lookup", "outRevoke"}, Present(r, s, p)
      PROVE  SlotsTyped' /\ StoresTyped'
  <2> DEFINE late == s \in spent \cup closed
             v == [Idle EXCEPT !.pc = p, !.tok = s, !.late = late]
  <2>5. late \in BOOLEAN
    OBVIOUS
  <2>6. req' = [req EXCEPT ![r] = v]
    BY <1>2 DEF Present
  <2> HIDE DEF late
  <2>1. v \in Slot /\ v.tok = s /\ v.pc = p
    BY <2>5 DEF Idle, Slot, PCs, Refreshing, LoggingOut
  <2>2. s \in 1 .. minted /\ s \in 0 .. minted
    BY <1>2 DEF Present, SlotsTyped, Minted
  <2>3. NoMint /\ known' \subseteq 1 .. minted'
    BY <1>2 DEF Present, SlotsTyped, Minted, NoMint, history
  <2>4. v.pc \notin Creating
    BY <2>1 DEF Creating
  <2>7. SlotsTyped'
    BY <2>1, <2>2, <2>3, <2>4, <2>6, WriteSlot
  <2> QED
    BY <1>2, <2>7, StoresKept DEF Present, NoMint, StoresTyped, stores, history
<1> QED
  BY <1>1, <1>2 DEF BeginRefresh, BeginLogout

\* One request goes on or is answered, or mints; nothing of the history is written.
LEMMA StepTyped ==
  ASSUME SlotsTyped, NEW r \in Requests, req[r].pc \in Refreshing \cup LoggingOut,
         NEW p \in {"expire", "revoke", "get", "delHit", "delMiss", "outDel"},
         \/ (Goto(r, p) \/ CatchAndGoto(r, p)) /\ NoMint
         \/ Answer(r)
         \/ Mint(r, req[r].tok),
         known' = known
  PROVE  SlotsTyped' /\ (minted' = minted \/ minted' = minted + 1)
<1>1. CASE (Goto(r, p) \/ CatchAndGoto(r, p)) /\ NoMint
  <2>1. p \in PCs /\ p \notin Creating
    BY DEF PCs, Refreshing, LoggingOut, Creating
  <2> QED
    BY <1>1, <2>1, GoOn DEF NoMint
<1>2. CASE Answer(r)
  BY <1>2, Answered DEF Answer, NoMint, SlotsTyped, Minted
<1>3. CASE Mint(r, req[r].tok)
  BY <1>3, Carried, MintSlot
<1> QED
  BY <1>1, <1>2, <1>3

\* The handler of /auth/refresh up to the creation of the new session.
LEMMA TypeRefresh ==
  ASSUME SlotsTyped, StoresTyped, NEW r \in Requests,
         Lookup(r) \/ ExpireRow(r) \/ RevokeRow(r) \/ GetEntry(r) \/ DelEntry(r)
  PROVE  SlotsTyped' /\ StoresTyped'
<1>1. CASE Lookup(r)
  <2>1. req[r].pc \in Refreshing
    BY <1>1 DEF Lookup, At, Refreshing
  <2>2. PICK p \in {"expire", "revoke", "get"} : Goto(r, p) \/ CatchAndGoto(r, p)
    BY <1>1 DEF Lookup
  <2>3. NoMint /\ UNCHANGED <<stores, history, drift>>
    BY <1>1 DEF Lookup
  <2>4. SlotsTyped'
    BY <2>1, <2>2, <2>3, StepTyped DEF history
  <2> QED
    BY <2>3, <2>4, StoresKept DEF NoMint, StoresTyped, stores, history
<1>2. CASE ExpireRow(r)
  <2>1. req[r].pc \in Refreshing
    BY <1>2 DEF ExpireRow, At, Refreshing
  <2>2. PICK out \in Outcomes("prisma") :
          /\ SetStatus(req[r].tok, "EXPIRED", out)
          /\ Goto(r, "get") \/ CatchAndGoto(r, "get")
    BY <1>2 DEF ExpireRow
  <2>3. NoMint /\ UNCHANGED <<past, cache, expired, gauge, history, drift>>
    BY <1>2 DEF ExpireRow
  <2>4. SlotsTyped'
    BY <2>1, <2>2, <2>3, StepTyped DEF history
  <2>5. row' \in [Sids -> {"none", "ACTIVE", "REVOKED", "EXPIRED"}]
    BY <2>2, SetStatusTyped
  <2> QED
    BY <2>3, <2>4, <2>5, StoresKept DEF NoMint, StoresTyped, history
<1>3. CASE RevokeRow(r)
  <2>1. req[r].pc \in Refreshing
    BY <1>3 DEF RevokeRow, At, Refreshing
  <2>2. PICK out \in Outcomes("prisma") :
          /\ SetStatus(req[r].tok, "REVOKED", out)
          /\ Mint(r, req[r].tok) \/ (CatchAndGoto(r, "get") /\ NoMint)
    BY <1>3 DEF RevokeRow
  <2>3. UNCHANGED <<past, cache, expired, gauge, history, drift>>
    BY <1>3 DEF RevokeRow
  <2>4. SlotsTyped' /\ (minted' = minted \/ minted' = minted + 1)
    BY <2>1, <2>2, <2>3, StepTyped DEF history
  <2>5. row' \in [Sids -> {"none", "ACTIVE", "REVOKED", "EXPIRED"}]
    BY <2>2, SetStatusTyped
  <2> QED
    BY <2>3, <2>4, <2>5, StoresKept DEF StoresTyped, history
<1>4. CASE GetEntry(r)
  <2>1. req[r].pc \in Refreshing
    BY <1>4 DEF GetEntry, At, Refreshing
  <2>2. PICK p \in {"delHit", "delMiss"} : (Goto(r, p) /\ NoMint) \/ Answer(r)
    BY <1>4 DEF GetEntry
  <2>3. UNCHANGED <<stores, history, drift>>
    BY <1>4 DEF GetEntry
  <2>4. SlotsTyped' /\ (minted' = minted \/ minted' = minted + 1)
    BY <2>1, <2>2, <2>3, StepTyped DEF history
  <2> QED
    BY <2>3, <2>4, StoresKept DEF StoresTyped, stores, history
<1>5. CASE DelEntry(r)
  <2>1. req[r].pc \in Refreshing
    BY <1>5 DEF DelEntry, Refreshing
  <2>2. PICK out \in Outcomes("redis") :
          DeleteEntry(req[r].tok, out) /\ (Mint(r, req[r].tok) \/ Answer(r))
    BY <1>5 DEF DelEntry
  <2>3. UNCHANGED <<row, past, expired, history, drift>>
    BY <1>5 DEF DelEntry
  <2>4. SlotsTyped' /\ (minted' = minted \/ minted' = minted + 1)
    BY <2>1, <2>2, <2>3, StepTyped DEF history
  <2>5. cache' \subseteq Sids /\ gauge' \in Int
    BY <2>2, DeleteEntryTyped
  <2> QED
    BY <2>3, <2>4, <2>5, StoresKept DEF StoresTyped, history
<1> QED
  BY <1>1, <1>2, <1>3, <1>4, <1>5

\* Storing the new session: recordSession, then the Redis fallback.
LEMMA TypeCreate ==
  ASSUME SlotsTyped, StoresTyped, NEW r \in Requests, Record(r) \/ Fallback(r)
  PROVE  SlotsTyped' /\ StoresTyped'
<1>1. req[r].pc \in Creating
  BY DEF Record, Fallback, At, Creating
<1>2. /\ req[r].sid \in Sids /\ req[r].sid \in 1 .. minted
      /\ req[r].tok \in Sids \cup {NoSid}
  BY <1>1, Carried
<1>3. NoMint /\ past' = past /\ expired' = expired /\ drift' = drift
  BY DEF Record, Fallback, Grant, Answer
<1>4. \/ Goto(r, "fallback") /\ UNCHANGED history
      \/ Answer(r) /\ UNCHANGED history
      \/ Grant(r)
  BY DEF Record, Fallback
<1>5. row' \in [Sids -> {"none", "ACTIVE", "REVOKED", "EXPIRED"}]
  BY DEF Record, Fallback, StoresTyped
<1>6. cache' \subseteq Sids /\ gauge' \in Int
  BY <1>2 DEF Record, Fallback, StoresTyped
<1>7. spent' \subseteq Sids /\ closed' \subseteq Sids /\ over' \subseteq Sids
  BY <1>2, <1>4 DEF Grant, StoresTyped, history
<1>8. SlotsTyped'
  <2>1. CASE Goto(r, "fallback") /\ UNCHANGED history
    <3>1. "fallback" \in PCs /\ "fallback" \notin Refreshing \cup LoggingOut
      BY DEF PCs, Creating, Refreshing, LoggingOut
    <3> QED
      BY <1>1, <1>3, <2>1, <3>1, GoOn DEF history
  <2>2. CASE Answer(r) /\ UNCHANGED history
    BY <2>2, Answered DEF history, SlotsTyped, Minted
  <2>3. CASE Grant(r)
    BY <1>2, <2>3, Answered DEF Grant, SlotsTyped, Minted
  <2> QED
    BY <1>4, <2>1, <2>2, <2>3
<1> QED
  BY <1>3, <1>5, <1>6, <1>7, <1>8, StoresKept DEF NoMint

\* The handler of /auth/logout.
LEMMA TypeLogout ==
  ASSUME SlotsTyped, StoresTyped, NEW r \in Requests, LogoutRevoke(r) \/ LogoutDelete(r)
  PROVE  SlotsTyped' /\ StoresTyped'
<1>1. req[r].pc \in LoggingOut
  BY DEF LogoutRevoke, LogoutDelete, At, LoggingOut
<1>2. req[r].tok \in Sids /\ req[r].tok \in 1 .. minted
  BY <1>1, Carried
<1>3. CASE LogoutRevoke(r)
  <2>1. PICK out \in Outcomes("prisma") :
          /\ SetStatus(req[r].tok, "REVOKED", out)
          /\ (Goto(r, "outDel") /\ NoMint) \/ Answer(r)
    BY <1>3 DEF LogoutRevoke
  <2>2. UNCHANGED <<past, cache, expired, gauge, history, drift>>
    BY <1>3 DEF LogoutRevoke
  <2>3. SlotsTyped' /\ (minted' = minted \/ minted' = minted + 1)
    BY <1>1, <2>1, <2>2, StepTyped DEF history
  <2>4. row' \in [Sids -> {"none", "ACTIVE", "REVOKED", "EXPIRED"}]
    BY <2>1, SetStatusTyped
  <2> QED
    BY <2>2, <2>3, <2>4, StoresKept DEF StoresTyped, history
<1>4. CASE LogoutDelete(r)
  <2>1. PICK out \in Outcomes("redis") :
          /\ DeleteEntry(req[r].tok, out)
          /\ closed' \subseteq closed \cup {req[r].tok}
          /\ over' \subseteq over \cup {origin[req[r].tok]}
    BY <1>4 DEF LogoutDelete
  <2>2. Answer(r) /\ UNCHANGED <<row, past, expired, known, spent, drift>>
    BY <1>4 DEF LogoutDelete
  <2>3. SlotsTyped'
    BY <2>2, Answered DEF SlotsTyped, Minted
  <2>4. origin[req[r].tok] \in Sids
    BY <1>2 DEF SlotsTyped, Minted
  <2>5. cache' \subseteq Sids /\ gauge' \in Int
    BY <2>1, DeleteEntryTyped
  <2>6. spent' \subseteq Sids /\ closed' \subseteq Sids /\ over' \subseteq Sids
    BY <1>2, <2>1, <2>2, <2>4 DEF StoresTyped
  <2> QED
    BY <2>2, <2>3, <2>5, <2>6, StoresKept DEF Answer, NoMint, StoresTyped
<1> QED
  BY <1>3, <1>4

\* Expiry and restart.
LEMMA TypeEnvironment ==
  ASSUME SlotsTyped, StoresTyped,
         JwtExpires \/ Restart \/ \E s \in Sids : RowExpires(s) \/ EntryExpires(s)
  PROVE  SlotsTyped' /\ StoresTyped'
<1>1. NoMint /\ known' = known /\ UNCHANGED <<row, spent, closed, over>>
  BY DEF JwtExpires, Restart, RowExpires, EntryExpires, history
<1>2. CASE Restart
  <2>1. Idle \in Slot /\ Idle.tok = 0 /\ Idle.pc = "idle"
    BY DEF Idle, Slot, PCs
  <2>2. "idle" \notin Refreshing \cup LoggingOut \cup Creating
    BY DEF Refreshing, LoggingOut, Creating
  <2>3. SlotsTyped'
    BY <1>1, <1>2, <2>1, <2>2 DEF Restart, SlotsTyped, Minted, NoMint
  <2>4. Cardinality(cache) \in Nat
    <3>1. IsFiniteSet(Sids)
      BY SessionsAssumption, FS_Interval DEF Sids
    <3> QED
      BY <3>1, FS_Subset, FS_CardinalityType DEF StoresTyped
  <2>5. gauge' \in Int /\ drift' \in Int
    BY <1>2, <2>4 DEF Restart
  <2> QED
    BY <1>1, <1>2, <2>3, <2>5 DEF Restart, StoresTyped, NoMint
<1>3. CASE JwtExpires
  BY <1>1, <1>3 DEF JwtExpires, SlotsTyped, StoresTyped, Minted, NoMint
<1>4. CASE \E s \in Sids : RowExpires(s)
  BY <1>1, <1>4 DEF RowExpires, SlotsTyped, StoresTyped, Minted, NoMint
<1>5. CASE \E s \in Sids : EntryExpires(s)
  BY <1>1, <1>5 DEF EntryExpires, SlotsTyped, StoresTyped, Minted, NoMint
<1> QED
  BY <1>2, <1>3, <1>4, <1>5

\* Every step keeps the types.
LEMMA TypeInvStep == TypeInv /\ [Next]_vars => TypeInv'
<1>3. (SlotsTyped /\ StoresTyped)' => TypeInv'
  BY TypeHalves, PTL
<1> SUFFICES ASSUME SlotsTyped, StoresTyped, [Next]_vars
             PROVE  SlotsTyped' /\ StoresTyped'
  BY <1>3, TypeHalves
<1>1. CASE UNCHANGED vars
  BY <1>1 DEF vars, SlotsTyped, StoresTyped, Minted
<1>2. CASE Next
  BY <1>2, NextSteps, TypeBegin, TypeRefresh, TypeCreate, TypeLogout, TypeEnvironment DEF Steps
<1> QED
  BY <1>1, <1>2

\* The types are kept, for any number of requests and sessions, with any faults.
THEOREM TypeCorrect == Spec => []TypeOK
<1>1. TypeInv => TypeOK
  BY DEF TypeInv
<1> QED
  BY <1>1, TypeInvInit, TypeInvStep, PTL DEF Spec

-----------------------------------------------------------------------------
(***************************************************************************)
(* Safety.  Every step but a grant only kills tokens: no row appears, no   *)
(* status becomes ACTIVE, no entry appears.  A grant writes one session,   *)
(* which no other request and no client knows.                             *)
(***************************************************************************)
OnlyKills ==
  /\ \A s \in Sids : row[s] = "none" <=> row'[s] = "none"
  /\ \A s \in Sids : row'[s] = "ACTIVE" => row[s] = "ACTIVE"
  /\ cache' \subseteq cache
  /\ known' = known /\ spent' = spent /\ closed \subseteq closed'

\* A step that writes no store kills nothing, and creates nothing.
LEMMA StoresUnchangedKill == ASSUME UNCHANGED <<stores, history>> PROVE OnlyKills
BY DEF OnlyKills, stores, history

\* Revoking or expiring a row never brings a token to life.
LEMMA SetStatusKills ==
  ASSUME TypeInv, NEW s \in Sids, NEW status \in {"REVOKED", "EXPIRED"}, NEW out,
         SetStatus(s, status, out), UNCHANGED <<cache, history>>
  PROVE  /\ OnlyKills
         /\ out # "error" => row'[s] # "ACTIVE"
BY DEF OnlyKills, SetStatus, TypeInv, TypeOK, history

\* Deleting an entry never brings a token to life.
LEMMA DeleteEntryKills ==
  ASSUME TypeInv, NEW s \in Sids, NEW out, DeleteEntry(s, out), row' = row,
         known' = known, spent' = spent, closed \subseteq closed'
  PROVE  /\ OnlyKills
         /\ out # "error" => s \notin cache'
BY DEF OnlyKills, DeleteEntry

\* What a slot holds is in range.
LEMMA InRange ==
  ASSUME TypeInv, NEW r \in Requests
  PROVE  /\ req[r] \in Slot
         /\ req[r].pc \in Refreshing \cup LoggingOut => req[r].tok \in Sids
         /\ req[r].pc \in Creating => req[r].sid \in Sids /\ req[r].sid \in 1 .. minted
         /\ req[r].tok \in Sids \cup {NoSid}
         /\ known \subseteq Sids
BY SessionsAssumption DEF TypeInv, TypeOK, Minted, Sids

\* A request that waits stays safe while others only kill tokens.
LEMMA WaitingSafe ==
  ASSUME TypeInv, OnlyKills, NEW q \in Requests, RequestSafe(q), req'[q] = req[q]
  PROVE  RequestSafe(q)'
<1>1. CreatingFresh(q)'
  BY InRange DEF RequestSafe, CreatingFresh, OnlyKills
<1>2. PresentedKnown(q)'
  BY DEF RequestSafe, PresentedKnown, OnlyKills
<1>3. Found(q)'
  <2>1. "revoke" \in Refreshing /\ "expire" \in Refreshing /\ "delHit" \in Refreshing
        /\ "outDel" \in LoggingOut
    BY DEF Refreshing, LoggingOut
  <2>2. req[q].pc \in {"revoke", "expire", "delHit", "outDel"} => req[q].tok \in Sids
    BY <2>1, InRange
  <2> QED
    BY <2>2, InRange DEF RequestSafe, Found, Dead, OnlyKills
<1>4. LateRefused(q)'
  BY DEF RequestSafe, LateRefused, Retired, OnlyKills
<1> QED
  BY <1>1, <1>2, <1>3, <1>4 DEF RequestSafe

\* A step of r that only kills tokens and leaves r itself safe.
LEMMA KillStep ==
  ASSUME TypeInv, Safe, OnlyKills, minted' = minted \/ minted' = minted + 1,
         \A s \in closed' \ closed : s \in known /\ Dead(s)',
         NEW r \in Requests, \A q \in Requests \ {r} : req'[q] = req[q],
         RequestSafe(r)',
         req'[r].pc \in Creating =>
           \/ req[r].pc \in Creating /\ req'[r].sid = req[r].sid
           \/ req'[r].sid = minted + 1
  PROVE  Safe'
<1>1. Unminted'
  <2> SUFFICES ASSUME NEW s \in Sids, s > minted' PROVE row'[s] = "none" /\ s \notin cache'
    BY DEF Unminted
  <2>1. s > minted
    BY SessionsAssumption DEF TypeInv, TypeOK, Sids
  <2> QED
    BY <2>1 DEF Safe, Unminted, OnlyKills
<1>2. Apart'
  BY DEF Safe, Apart, OnlyKills, TypeInv, TypeOK
<1>3. RetiredDead'
  BY DEF Safe, RetiredDead, Retired, Dead, OnlyKills, TypeInv, TypeOK
<1>4. CreatingApart'
  <2> SUFFICES ASSUME NEW q \in Requests, q # r, req[q].pc \in Creating,
                      req'[r].pc \in Creating, req[q].sid = req'[r].sid
               PROVE  FALSE
    BY DEF Safe, CreatingApart
  <2>1. req[q].sid \in 1 .. minted /\ minted \in Nat
    BY InRange DEF TypeInv, TypeOK
  <2> QED
    BY <2>1 DEF Safe, CreatingApart
<1>5. ASSUME NEW q \in Requests PROVE RequestSafe(q)'
  BY WaitingSafe DEF Safe
<1> QED
  BY <1>1, <1>2, <1>3, <1>4, <1>5 DEF Safe

\* A step of the environment: no slot is written.
LEMMA QuietStep ==
  ASSUME TypeInv, Safe, OnlyKills, minted' = minted, closed' = closed, req' = req
  PROVE  Safe'
<1>1. Unminted' /\ CreatingApart'
  BY DEF Safe, Unminted, CreatingApart, OnlyKills, TypeInv, TypeOK
<1>2. Apart'
  BY DEF Safe, Apart, OnlyKills, TypeInv, TypeOK
<1>3. RetiredDead'
  BY DEF Safe, RetiredDead, Retired, Dead, OnlyKills, TypeInv, TypeOK
<1>4. ASSUME NEW q \in Requests PROVE RequestSafe(q)'
  BY WaitingSafe DEF Safe
<1> QED
  BY <1>1, <1>2, <1>3, <1>4 DEF Safe

\* What a request that goes on has written: its pc.
LEMMA GotoWrites ==
  ASSUME TypeInv, NEW r \in Requests, NEW p \in PCs, Goto(r, p) \/ CatchAndGoto(r, p)
  PROVE  /\ req'[r].pc = p /\ req'[r].tok = req[r].tok
         /\ req'[r].sid = req[r].sid /\ req'[r].late = req[r].late
         /\ \A q \in Requests \ {r} : req'[q] = req[q]
<1>1. req \in [Requests -> Slot] /\ req[r] \in Slot
  BY DEF TypeInv, TypeOK
<1>2. CASE Goto(r, p)
  BY <1>1, <1>2 DEF Goto, Slot
<1>3. CASE CatchAndGoto(r, p)
  BY <1>1, <1>3 DEF CatchAndGoto, Slot
<1> QED
  BY <1>2, <1>3

\* What an answer has written: an idle slot.
LEMMA AnswerWrites ==
  ASSUME TypeInv, NEW r \in Requests, Answer(r)
  PROVE  /\ req'[r].pc = "idle" /\ RequestSafe(r)'
         /\ minted' = minted
         /\ \A q \in Requests \ {r} : req'[q] = req[q]
<1>1. req'[r] = Idle /\ minted' = minted /\ \A q \in Requests \ {r} : req'[q] = req[q]
  BY DEF Answer, NoMint, TypeInv, TypeOK
<1>2. req'[r].pc = "idle" /\ req'[r].late = FALSE
  BY <1>1 DEF Idle
<1>3. "idle" \notin Refreshing \cup LoggingOut \cup Creating
  BY DEF Refreshing, LoggingOut, Creating
<1>4. RequestSafe(r)'
  BY <1>2, <1>3 DEF RequestSafe, CreatingFresh, PresentedKnown, Found, LateRefused
<1> QED
  BY <1>1, <1>2, <1>4

\* What a fresh id has written.
LEMMA MintWrites ==
  ASSUME TypeInv, NEW r \in Requests, NEW from \in Sids \cup {NoSid}, Mint(r, from)
  PROVE  /\ req'[r].pc = "record" /\ req'[r].tok = from
         /\ req'[r].sid = minted + 1 /\ req'[r].late = req[r].late
         /\ minted' = minted + 1 /\ minted + 1 \in Sids
         /\ \A q \in Requests \ {r} : req'[q] = req[q]
<1>1. req \in [Requests -> Slot]
  BY DEF TypeInv, TypeOK
<1> QED
  BY <1>1 DEF Mint, Idle

\* A session is created for nobody, or from a token that was just retired.
LEMMA MintStep ==
  ASSUME TypeInv, Safe, OnlyKills, closed' = closed, NEW r \in Requests,
         NEW from \in known \cup {NoSid}, Mint(r, from), ~req[r].late,
         from # NoSid => Dead(from)'
  PROVE  Safe'
<1>1. from \in Sids \cup {NoSid}
  BY DEF TypeInv, TypeOK
<1>2. /\ req'[r].pc = "record" /\ req'[r].tok = from
      /\ req'[r].sid = minted + 1 /\ ~req'[r].late
      /\ minted' = minted + 1 /\ minted + 1 \in Sids
      /\ \A q \in Requests \ {r} : req'[q] = req[q]
  BY <1>1, MintWrites
<1>3. minted + 1 > minted /\ minted + 1 \notin known
  BY SessionsAssumption DEF TypeInv, TypeOK, Minted
<1>4. CreatingFresh(r)'
  BY <1>2, <1>3 DEF CreatingFresh, Safe, Unminted, OnlyKills
<1>5. "record" \in Creating /\ "record" \notin Refreshing \cup LoggingOut
  BY DEF Creating, Refreshing, LoggingOut
<1>6. RequestSafe(r)'
  BY <1>2, <1>4, <1>5 DEF RequestSafe, PresentedKnown, Found, LateRefused, OnlyKills
<1> QED
  BY <1>2, <1>6, KillStep

\* A request goes on in the refresh or in the sign-out it is in.
LEMMA GoOnStep ==
  ASSUME TypeInv, Safe, OnlyKills, NoMint, closed' = closed,
         NEW r \in Requests, req[r].pc \in Refreshing \cup LoggingOut,
         NEW p \in {"expire", "revoke", "get", "delHit", "delMiss", "outDel"},
         Goto(r, p) \/ CatchAndGoto(r, p),
         p \in {"revoke", "expire"} => row'[req[r].tok] # "none",
         p = "delHit" => row'[req[r].tok] = "none",
         p = "outDel" => row'[req[r].tok] # "ACTIVE",
         p \in {"revoke", "expire", "delHit"} => ~req[r].late
  PROVE  Safe'
<1>1. p \in PCs /\ p \in Refreshing \cup LoggingOut /\ p \notin Creating
  BY DEF PCs, Refreshing, LoggingOut, Creating
<1>2. /\ req'[r].pc = p /\ req'[r].tok = req[r].tok
      /\ req'[r].sid = req[r].sid /\ req'[r].late = req[r].late
      /\ \A q \in Requests \ {r} : req'[q] = req[q]
  BY <1>1, GotoWrites
<1>3. PresentedKnown(r)' /\ CreatingFresh(r)'
  BY <1>1, <1>2 DEF PresentedKnown, CreatingFresh, Safe, RequestSafe, OnlyKills
<1>4. Found(r)'
  BY <1>1, <1>2 DEF Found
<1>5. LateRefused(r)'
  BY <1>2 DEF LateRefused, LoggingOut, Safe, RequestSafe, Retired, OnlyKills
<1> QED
  BY <1>1, <1>2, <1>3, <1>4, <1>5, KillStep DEF RequestSafe, NoMint

\* A request that is answered leaves nothing but dead tokens behind.
LEMMA AnswerStep ==
  ASSUME TypeInv, Safe, OnlyKills, NEW r \in Requests, Answer(r),
         \A s \in closed' \ closed : s \in known /\ Dead(s)'
  PROVE  Safe'
<1>1. "idle" \notin Creating
  BY DEF Creating
<1> QED
  BY <1>1, AnswerWrites, KillStep

\* Without lost acknowledgements an error means: not applied.
LEMMA HonestOutcomes == Honest => \A store : Outcomes(store) \subseteq {"done", "error"}
BY DEF Honest, Outcomes

\* New requests are safe: login, refresh, sign-out.
LEMMA SafeBegin ==
  ASSUME TypeInv, Safe, NEW r \in Requests,
         BeginLogin(r) \/ \E s \in Sids : BeginRefresh(r, s) \/ BeginLogout(r, s)
  PROVE  Safe'
<1>1. OnlyKills /\ closed' = closed
  BY StoresUnchangedKill DEF BeginLogin, BeginRefresh, BeginLogout, Present, history
<1>2. ~req[r].late
  <2>1. req[r].pc = "idle"
    BY DEF BeginLogin, BeginRefresh, BeginLogout, Present, At
  <2> QED
    BY <2>1 DEF Safe, RequestSafe, LateRefused, LoggingOut
<1>3. CASE BeginLogin(r)
  BY <1>1, <1>2, <1>3, MintStep DEF BeginLogin
<1>4. ASSUME NEW s \in Sids, NEW p \in {"lookup", "outRevoke"}, Present(r, s, p)
      PROVE  Safe'
  <2> DEFINE late == s \in spent \cup closed
  <2>1. req' = [req EXCEPT ![r] = [Idle EXCEPT !.pc = p, !.tok = s, !.late = late]]
    BY <1>4 DEF Present
  <2>2. late => s \in Retired
    BY DEF Retired
  <2>3. late \in BOOLEAN
    OBVIOUS
  <2> HIDE DEF late
  <2>4. /\ req'[r].pc = p /\ req'[r].tok = s /\ req'[r].late = late
        /\ \A q \in Requests \ {r} : req'[q] = req[q]
    BY <2>1, <2>3 DEF TypeInv, TypeOK, Idle
  <2>5. s \in known /\ minted' = minted
    BY <1>4 DEF Present, NoMint
  <2>6. p \in {"lookup"} \cup LoggingOut /\ p \notin Creating
    BY DEF LoggingOut, Creating
  <2>7. RequestSafe(r)'
    BY <1>1, <2>2, <2>4, <2>5, <2>6
    DEF RequestSafe, CreatingFresh, PresentedKnown, Found, LateRefused, Retired, OnlyKills
  <2> QED
    BY <1>1, <2>4, <2>5, <2>6, <2>7, KillStep
<1> QED
  BY <1>3, <1>4 DEF BeginRefresh, BeginLogout

\* The handler of /auth/refresh retires a token before it mints its successor.
LEMMA SafeRefresh ==
  ASSUME Honest, TypeInv, Safe, NEW r \in Requests,
         Lookup(r) \/ ExpireRow(r) \/ RevokeRow(r) \/ GetEntry(r) \/ DelEntry(r)
  PROVE  Safe'
<1> DEFINE s == req[r].tok
<1>1. req[r].pc \in Refreshing
  BY DEF Lookup, ExpireRow, RevokeRow, GetEntry, DelEntry, At, Refreshing
<1>2. s \in Sids /\ s \in known
  BY <1>1, InRange DEF Safe, RequestSafe, PresentedKnown
<1>3. Found(r) /\ LateRefused(r) /\ (req[r].late => Dead(s))
  BY DEF Safe, RequestSafe, RetiredDead, LateRefused
<1>4. CASE Lookup(r)
  <2>1. OnlyKills /\ NoMint /\ closed' = closed /\ row' = row
    BY <1>4, StoresUnchangedKill DEF Lookup, stores, history
  <2>2. PICK p \in {"expire", "revoke", "get"} :
          (Goto(r, p) \/ CatchAndGoto(r, p)) /\ (p # "get" => row[s] = "ACTIVE")
    BY <1>4 DEF Lookup, Open
  <2> QED
    BY <1>1, <1>3, <2>1, <2>2, GoOnStep DEF Dead
<1>5. CASE ExpireRow(r)
  <2>1. PICK out \in Outcomes("prisma") :
          SetStatus(s, "EXPIRED", out) /\ (Goto(r, "get") \/ CatchAndGoto(r, "get"))
    BY <1>5 DEF ExpireRow
  <2>2. NoMint /\ UNCHANGED <<cache, history>>
    BY <1>5 DEF ExpireRow
  <2>3. OnlyKills
    BY <1>2, <2>1, <2>2, SetStatusKills
  <2> QED
    BY <1>1, <2>1, <2>2, <2>3, GoOnStep DEF history
<1>6. CASE RevokeRow(r)
  <2>1. PICK out \in Outcomes("prisma") :
          /\ SetStatus(s, "REVOKED", out)
          /\ \/ out = "done" /\ Mint(r, s)
             \/ CatchAndGoto(r, "get") /\ NoMint
    BY <1>6 DEF RevokeRow
  <2>2. UNCHANGED <<cache, history>> /\ req[r].pc = "revoke"
    BY <1>6 DEF RevokeRow, At
  <2>3. OnlyKills /\ (out = "done" => row'[s] # "ACTIVE")
    BY <1>2, <2>1, <2>2, SetStatusKills
  <2>4. s \notin cache /\ ~req[r].late
    BY <1>3, <2>2 DEF Found, LateRefused, LoggingOut, Safe, Apart
  <2> QED
    BY <1>1, <1>2, <2>1, <2>2, <2>3, <2>4, MintStep, GoOnStep DEF Dead, history
<1>7. CASE GetEntry(r)
  <2>1. OnlyKills /\ closed' = closed /\ row' = row
    BY <1>7, StoresUnchangedKill DEF GetEntry, stores, history
  <2>2. PICK p \in {"delHit", "delMiss"} :
          /\ (Goto(r, p) /\ NoMint) \/ Answer(r)
          /\ p = "delHit" => s \in cache
    BY <1>7 DEF GetEntry
  <2>3. p = "delHit" => row[s] = "none" /\ ~req[r].late
    BY <1>3, <2>2 DEF Dead, Safe, Apart
  <2> QED
    BY <1>1, <2>1, <2>2, <2>3, GoOnStep, AnswerStep
<1>8. CASE DelEntry(r)
  <2>1. PICK out \in Outcomes("redis") :
          /\ DeleteEntry(s, out)
          /\ \/ out = "done" /\ At(r, "delHit") /\ Mint(r, s)
             \/ Answer(r)
    BY <1>8 DEF DelEntry
  <2>2. UNCHANGED <<row, history>>
    BY <1>8 DEF DelEntry
  <2>3. OnlyKills /\ closed' = closed /\ (out = "done" => s \notin cache')
    BY <1>2, <2>1, <2>2, DeleteEntryKills DEF history
  <2>4. At(r, "delHit") => row[s] = "none" /\ ~req[r].late
    BY <1>3 DEF At, Found, LateRefused, LoggingOut
  <2> QED
    BY <1>2, <2>1, <2>2, <2>3, <2>4, MintStep, AnswerStep DEF Dead
<1> QED
  BY <1>4, <1>5, <1>6, <1>7, <1>8

\* Storing the session and answering 200 retires the old token, already dead,
\* and shows the client a session that only this request could name.
LEMMA GrantStep ==
  ASSUME TypeInv, Safe, NEW r \in Requests, req[r].pc \in Creating, Grant(r),
         \/ row' = [row EXCEPT ![req[r].sid] = "ACTIVE"] /\ cache' = cache
         \/ cache' = cache \cup {req[r].sid} /\ row' = row
  PROVE  Safe'
<1> DEFINE n == req[r].sid
           t == req[r].tok
<1>1. /\ n \in Sids /\ n \in 1 .. minted /\ n \notin known /\ n \notin cache /\ row[n] = "none"
      /\ t \in known \cup {NoSid} /\ (t # NoSid => Dead(t))
  BY InRange DEF Safe, RequestSafe, CreatingFresh, PresentedKnown, Found
<1>2. /\ known' = known \cup {n} /\ spent' = spent \cup ({t} \ {NoSid})
      /\ closed' = closed /\ minted' = minted
  BY DEF Grant, Answer, NoMint
<1>3. \A q \in Requests \ {r} : req'[q] = req[q]
  BY AnswerWrites DEF Grant
<1>4. RequestSafe(r)' /\ req'[r].pc \notin Creating
  BY AnswerWrites DEF Grant, Creating
<1>5. \A s \in Sids \ {n} : row'[s] = row[s] /\ (s \in cache' <=> s \in cache)
  BY DEF TypeInv, TypeOK
<1>6. Unminted'
  <2> SUFFICES ASSUME NEW s \in Sids, s > minted PROVE row'[s] = "none" /\ s \notin cache'
    BY <1>2 DEF Unminted
  <2>1. s # n
    BY <1>1 DEF TypeInv, TypeOK
  <2> QED
    BY <1>5, <2>1 DEF Safe, Unminted
<1>7. Apart'
  BY <1>1, <1>5 DEF Safe, Apart, TypeInv, TypeOK
<1>8. RetiredDead'
  <2>1. Retired' \subseteq known \cup {n} /\ \A s \in Retired' : s \in known /\ Dead(s)
    BY <1>1, <1>2 DEF Safe, RetiredDead, Retired
  <2>2. \A s \in Retired' : s \in Sids \ {n}
    BY <1>1, <2>1 DEF TypeInv, TypeOK
  <2> QED
    BY <1>2, <1>5, <2>1, <2>2 DEF RetiredDead, Dead
<1>9. CreatingApart'
  BY <1>3, <1>4 DEF Safe, CreatingApart
<1>10. ASSUME NEW q \in Requests, q # r PROVE RequestSafe(q)'
  <2>1. req'[q] = req[q] /\ RequestSafe(q)
    BY <1>3, <1>10 DEF Safe
  <2>2. req[q].pc \in Creating => req[q].sid \in Sids \ {n}
    BY <1>10, InRange DEF Safe, CreatingApart
  <2>3. req[q].tok \in known => req[q].tok \in Sids \ {n}
    BY <1>1, InRange
  <2>4. req[q].pc \in {"revoke", "expire", "delHit", "outDel"} => req[q].tok \in known
    BY <2>1 DEF RequestSafe, PresentedKnown, Refreshing, LoggingOut
  <2>5. CreatingFresh(q)' /\ PresentedKnown(q)'
    BY <1>2, <1>5, <2>1, <2>2 DEF RequestSafe, CreatingFresh, PresentedKnown
  <2>6. Found(q)'
    BY <1>5, <2>1, <2>3, <2>4 DEF RequestSafe, PresentedKnown, Found, Dead
  <2>7. LateRefused(q)'
    BY <1>2, <2>1 DEF RequestSafe, LateRefused, Retired
  <2> QED
    BY <2>5, <2>6, <2>7 DEF RequestSafe
<1> QED
  BY <1>4, <1>6, <1>7, <1>8, <1>9, <1>10 DEF Safe

\* recordSession and the Redis fallback write one store, never both.
LEMMA SafeCreate ==
  ASSUME Honest, TypeInv, Safe, NEW r \in Requests, Record(r) \/ Fallback(r)
  PROVE  Safe'
<1>1. req[r].pc \in Creating /\ req[r].sid \in Sids
  BY InRange DEF Record, Fallback, At, Creating
<1>2. CASE Record(r)
  <2>1. PICK out \in Outcomes("prisma") :
          /\ row' = [row EXCEPT ![req[r].sid] = IF out = "error" THEN @ ELSE "ACTIVE"]
          /\ IF out = "done" THEN Grant(r)
                             ELSE Goto(r, "fallback") /\ NoMint /\ UNCHANGED history
    BY <1>2 DEF Record
  <2>2. UNCHANGED <<past, cache, expired, gauge>>
    BY <1>2 DEF Record
  <2>3. CASE out = "done"
    BY <1>1, <2>1, <2>2, <2>3, GrantStep
  <2>4. CASE out = "error"
    <3>1. row' = row /\ Goto(r, "fallback") /\ NoMint /\ UNCHANGED history
      BY <2>1, <2>4 DEF TypeInv, TypeOK
    <3>2. OnlyKills /\ closed' = closed
      BY <2>2, <3>1, StoresUnchangedKill DEF stores, history
    <3>3. "fallback" \in PCs /\ "fallback" \in Creating
          /\ "fallback" \notin Refreshing \cup LoggingOut
      BY DEF PCs, Creating, Refreshing, LoggingOut
    <3>4. /\ req'[r].pc = "fallback" /\ req'[r].tok = req[r].tok
          /\ req'[r].sid = req[r].sid /\ req'[r].late = req[r].late
          /\ \A q \in Requests \ {r} : req'[q] = req[q]
      BY <3>1, <3>3, GotoWrites
    <3>5. RequestSafe(r) /\ ~req[r].late
      BY <1>1 DEF Safe, RequestSafe, LateRefused, Creating, LoggingOut
    <3>6. RequestSafe(r)'
      BY <1>1, <2>2, <3>1, <3>3, <3>4, <3>5
      DEF RequestSafe, CreatingFresh, PresentedKnown, Found, LateRefused, Dead, history
    <3> QED
      BY <1>1, <3>1, <3>2, <3>4, <3>6, KillStep DEF NoMint
  <2> QED
    BY <2>1, <2>3, <2>4, HonestOutcomes
<1>3. CASE Fallback(r)
  <2>1. PICK out \in Outcomes("redis") :
          /\ cache' = IF out = "error" THEN cache ELSE cache \cup {req[r].sid}
          /\ IF out = "done" THEN Grant(r) ELSE Answer(r) /\ UNCHANGED history
    BY <1>3 DEF Fallback
  <2>2. row' = row
    BY <1>3 DEF Fallback
  <2>3. CASE out = "done"
    BY <1>1, <2>1, <2>2, <2>3, GrantStep
  <2>4. CASE out = "error"
    <3>1. OnlyKills /\ closed' = closed /\ Answer(r)
      BY <2>1, <2>2, <2>4 DEF OnlyKills, history
    <3> QED
      BY <3>1, AnswerStep
  <2> QED
    BY <2>1, <2>3, <2>4, HonestOutcomes
<1> QED
  BY <1>2, <1>3

\* The handler of /auth/logout kills its token before it is done.
LEMMA SafeLogout ==
  ASSUME Honest, TypeInv, Safe, NEW r \in Requests, LogoutRevoke(r) \/ LogoutDelete(r)
  PROVE  Safe'
<1> DEFINE s == req[r].tok
<1>1. req[r].pc \in LoggingOut
  BY DEF LogoutRevoke, LogoutDelete, At, LoggingOut
<1>2. s \in Sids /\ s \in known
  BY <1>1, InRange DEF Safe, RequestSafe, PresentedKnown
<1>3. CASE LogoutRevoke(r)
  <2>1. PICK out \in Outcomes("prisma") :
          /\ SetStatus(s, "REVOKED", out)
          /\ \/ out = "done" /\ Goto(r, "outDel") /\ NoMint
             \/ Answer(r)
    BY <1>3 DEF LogoutRevoke
  <2>2. UNCHANGED <<cache, history>>
    BY <1>3 DEF LogoutRevoke
  <2>3. OnlyKills /\ closed' = closed /\ (out = "done" => row'[s] # "ACTIVE")
    BY <1>2, <2>1, <2>2, SetStatusKills DEF history
  <2> QED
    BY <1>1, <2>1, <2>3, GoOnStep, AnswerStep
<1>4. CASE LogoutDelete(r)
  <2>1. PICK out \in Outcomes("redis") :
          /\ DeleteEntry(s, out)
          /\ closed' = IF out = "done" THEN closed \cup {s} ELSE closed
    BY <1>4 DEF LogoutDelete
  <2>2. Answer(r) /\ UNCHANGED <<row, known, spent>>
    BY <1>4 DEF LogoutDelete
  <2>3. OnlyKills /\ (out = "done" => s \notin cache')
    BY <1>2, <2>1, <2>2, DeleteEntryKills
  <2>4. row[s] # "ACTIVE"
    BY <1>4 DEF LogoutDelete, At, Safe, RequestSafe, Found
  <2>5. \A c \in closed' \ closed : c \in known /\ Dead(c)'
    BY <1>2, <2>1, <2>2, <2>3, <2>4 DEF Dead
  <2> QED
    BY <2>2, <2>3, <2>5, AnswerStep
<1> QED
  BY <1>3, <1>4

\* Expiry and restart create no token.
LEMMA SafeEnvironment ==
  ASSUME TypeInv, Safe,
         JwtExpires \/ Restart \/ \E s \in Sids : RowExpires(s) \/ EntryExpires(s)
  PROVE  Safe'
<1>1. OnlyKills /\ minted' = minted /\ closed' = closed
  BY DEF JwtExpires, Restart, RowExpires, EntryExpires, OnlyKills, NoMint, history
<1>2. CASE Restart
  <2>1. \A q \in Requests : req'[q].pc = "idle" /\ ~req'[q].late
    BY <1>2 DEF Restart, Idle
  <2>2. "idle" \notin Refreshing \cup LoggingOut \cup Creating
    BY DEF Refreshing, LoggingOut, Creating
  <2>3. \A q \in Requests : RequestSafe(q)'
    BY <2>1, <2>2 DEF RequestSafe, CreatingFresh, PresentedKnown, Found, LateRefused
  <2>4. CreatingApart'
    BY <2>1, <2>2 DEF CreatingApart
  <2> QED
    BY <1>2, <2>3, <2>4 DEF Restart, Safe, Unminted, Apart, RetiredDead, Retired, Dead, NoMint, history
<1>3. CASE ~Restart
  BY <1>1, <1>3, QuietStep DEF JwtExpires, RowExpires, EntryExpires
<1> QED
  BY <1>2, <1>3

\* A server that has just started, with empty stores, is safe.
LEMMA SafeInit == Init => Safe
<1> SUFFICES ASSUME Init PROVE Safe
  OBVIOUS
<1>1. \A r \in Requests : req[r].pc = "idle" /\ ~req[r].late
  BY DEF Init, Idle
<1>2. "idle" \notin Refreshing \cup LoggingOut \cup Creating
  BY DEF Refreshing, LoggingOut, Creating
<1>3. \A r \in Requests : RequestSafe(r)
  BY <1>1, <1>2 DEF RequestSafe, CreatingFresh, PresentedKnown, Found, LateRefused
<1> QED
  BY <1>1, <1>2, <1>3 DEF Init, Safe, Unminted, Apart, RetiredDead, Retired, CreatingApart

\* Every step keeps the safety half of the invariant.
LEMMA SafeStep == ASSUME Honest, TypeInv, Safe, [Next]_vars PROVE Safe'
<1>1. CASE UNCHANGED vars
  <2>1. OnlyKills /\ minted' = minted /\ closed' = closed /\ req' = req
    BY <1>1 DEF vars, OnlyKills
  <2> QED
    BY <2>1, QuietStep
<1>2. CASE Next
  BY <1>2, NextSteps, SafeBegin, SafeRefresh, SafeCreate, SafeLogout, SafeEnvironment DEF Steps
<1> QED
  BY <1>1, <1>2

\* The inductive invariant holds in every reachable state.
LEMMA InvInvariant == Spec => []Inv
<1>1. Init => Inv
  BY TypeInvInit, SafeInit DEF Inv
<1>2. Inv /\ [Next]_vars => Inv'
  <2>1. Honest' = Honest
    BY DEF Honest
  <2> QED
    BY <2>1, TypeInvStep, SafeStep DEF Inv
<1> QED
  BY <1>1, <1>2, PTL DEF Spec

\* When no applied write is reported as failed, no session is ever in both stores,
\* whatever else fails, for any clients.
THEOREM SessionInOneStore == Spec => []OneStore
<1>1. Inv => OneStore
  BY DEF Inv, Safe, Apart, OneStore
<1> QED
  BY <1>1, InvInvariant, PTL

\* When no applied write is reported as failed, a refresh that begins after its token
\* was exchanged or signed out is refused, however many requests run at once.
THEOREM RetiredTokensAreRefused == Spec => []NoReplay
<1>1. Inv => NoReplay
  <2> SUFFICES ASSUME Safe, NEW r \in Requests, req[r].late
               PROVE  req[r].pc \notin Creating
    BY DEF Inv, NoReplay
  <2>1. req[r].pc \in {"lookup", "get", "delMiss"} \cup LoggingOut
    BY DEF Safe, RequestSafe, LateRefused
  <2> QED
    BY <2>1 DEF LoggingOut, Creating
<1> QED
  BY <1>1, InvInvariant, PTL

-----------------------------------------------------------------------------
(***************************************************************************)
(* The gauge.  It counts the sessions in Redis: every step that writes one *)
(* writes the other, or the drift, by as much.  A fallback counts a session*)
(* that is not in Redis yet, which is CreatingFresh.                       *)
(***************************************************************************)
\* A set of sessions is finite, and grows or shrinks by the one that is added
\* or removed.
LEMMA CountSessions ==
  ASSUME NEW S \in SUBSET Sids, NEW s \in Sids
  PROVE  /\ Cardinality(S) \in Nat
         /\ Cardinality(S \cup {s}) = IF s \in S THEN Cardinality(S) ELSE Cardinality(S) + 1
         /\ Cardinality(S \ {s}) = IF s \in S THEN Cardinality(S) - 1 ELSE Cardinality(S)
<1>1. IsFiniteSet(Sids)
  BY SessionsAssumption, FS_Interval DEF Sids
<1>2. IsFiniteSet(S)
  BY <1>1, FS_Subset
<1> QED
  BY <1>2, FS_CardinalityType, FS_AddElement, FS_RemoveElement

\* deleteRefreshSession counts what it removes.
LEMMA DeleteEntryCounts ==
  ASSUME TypeInv, GaugeDrift, Honest, NEW s \in Sids, NEW out \in {"done", "error"},
         DeleteEntry(s, out), drift' = drift
  PROVE  gauge' = Cardinality(cache') + drift'
<1>1. cache \in SUBSET Sids /\ gauge = Cardinality(cache) + drift /\ drift \in Int
  BY DEF TypeInv, TypeOK, GaugeDrift
<1>2. CASE out = "done"
  <2>1. cache' = cache \ {s} /\ gauge' = IF s \in cache THEN gauge - 1 ELSE gauge
    BY <1>2 DEF DeleteEntry
  <2>2. /\ Cardinality(cache) \in Nat
        /\ Cardinality(cache \ {s}) = IF s \in cache THEN Cardinality(cache) - 1 ELSE Cardinality(cache)
    BY <1>1, CountSessions
  <2> QED
    BY <1>1, <2>1, <2>2
<1>3. CASE out = "error"
  BY <1>1, <1>3 DEF DeleteEntry
<1> QED
  BY <1>2, <1>3

\* Every step keeps the gauge right.
LEMMA GaugeStep ==
  ASSUME Inv, GaugeDrift, Honest, [Next]_vars
  PROVE  gauge' = Cardinality(cache') + drift'
<1>1. /\ TypeInv /\ Safe /\ cache \in SUBSET Sids /\ drift \in Int
      /\ gauge = Cardinality(cache) + drift
  BY DEF Inv, TypeInv, TypeOK, GaugeDrift
<1>2. CASE UNCHANGED <<cache, gauge, drift>>
  BY <1>1, <1>2
<1>3. ASSUME NEW r \in Requests, DelEntry(r) PROVE gauge' = Cardinality(cache') + drift'
  <2>1. req[r].tok \in Sids /\ drift' = drift
    BY <1>1, <1>3, InRange DEF DelEntry, Refreshing
  <2>2. PICK out \in Outcomes("redis") : DeleteEntry(req[r].tok, out)
    BY <1>3 DEF DelEntry
  <2> QED
    BY <1>1, <2>1, <2>2, HonestOutcomes, DeleteEntryCounts
<1>4. ASSUME NEW r \in Requests, LogoutDelete(r) PROVE gauge' = Cardinality(cache') + drift'
  <2>1. req[r].tok \in Sids /\ drift' = drift
    BY <1>1, <1>4, InRange DEF LogoutDelete, At, LoggingOut
  <2>2. PICK out \in Outcomes("redis") : DeleteEntry(req[r].tok, out)
    BY <1>4 DEF LogoutDelete
  <2> QED
    BY <1>1, <2>1, <2>2, HonestOutcomes, DeleteEntryCounts
<1>5. ASSUME NEW r \in Requests, Fallback(r) PROVE gauge' = Cardinality(cache') + drift'
  <2>1. req[r].pc \in Creating
    BY <1>5 DEF Fallback, At, Creating
  <2>2. req[r].sid \in Sids /\ req[r].sid \notin cache
    BY <1>1, <2>1, InRange DEF Safe, RequestSafe, CreatingFresh
  <2>3. PICK out \in {"done", "error"} :
          /\ cache' = IF out = "error" THEN cache ELSE cache \cup {req[r].sid}
          /\ gauge' = IF out = "done" THEN gauge + 1 ELSE gauge
    BY <1>5, HonestOutcomes DEF Fallback
  <2>4. drift' = drift
    BY <1>5 DEF Fallback
  <2> QED
    BY <1>1, <2>2, <2>3, <2>4, CountSessions
<1>6. ASSUME NEW s \in Sids, EntryExpires(s) PROVE gauge' = Cardinality(cache') + drift'
  BY <1>1, <1>6, CountSessions DEF EntryExpires
<1>7. CASE Restart
  <2>1. Cardinality(cache) \in Nat
    <3>1. IsFiniteSet(Sids)
      BY SessionsAssumption, FS_Interval DEF Sids
    <3> QED
      BY <1>1, <3>1, FS_Subset, FS_CardinalityType
  <2> QED
    BY <1>1, <1>7, <2>1 DEF Restart
<1>8. CASE \E r \in Requests, s \in Sids : BeginRefresh(r, s) \/ BeginLogout(r, s)
  BY <1>2, <1>8 DEF BeginRefresh, BeginLogout, Present, stores
<1>9. CASE \E r \in Requests : ExpireRow(r) \/ RevokeRow(r) \/ Record(r) \/ LogoutRevoke(r)
  BY <1>2, <1>9 DEF ExpireRow, RevokeRow, Record, LogoutRevoke
<1>10. CASE JwtExpires \/ \E s \in Sids : RowExpires(s)
  BY <1>2, <1>10 DEF JwtExpires, RowExpires
<1>11. CASE UNCHANGED vars
  BY <1>2, <1>11 DEF vars
<1>12. CASE \E r \in Requests : BeginLogin(r) \/ Lookup(r) \/ GetEntry(r)
  BY <1>2, <1>12 DEF BeginLogin, Lookup, GetEntry, stores
<1> QED
  BY <1>3, <1>4, <1>5, <1>6, <1>7, <1>8, <1>9, <1>10, <1>11, <1>12, NextSteps DEF Steps

\* When no applied write is reported as failed, the gauge of active sessions counts the
\* entries in Redis, up to what TTL lapses and restarts leave behind.  Sessions whose row
\* is in PostgreSQL are none of its business.
THEOREM GaugeCountsSessions == Spec => []GaugeDrift
<1>1. Init => GaugeDrift
  BY FS_EmptySet DEF Init, GaugeDrift
<1>2. Inv /\ GaugeDrift /\ [Next]_vars => GaugeDrift'
  <2>1. Honest' = Honest
    BY DEF Honest
  <2> QED
    BY <2>1, GaugeStep DEF GaugeDrift
<1> QED
  BY <1>1, <1>2, InvInvariant, PTL DEF Spec

-----------------------------------------------------------------------------
(***************************************************************************)
(* Refusals, whatever is lost.  A token that a request carries is known,   *)
(* and what is created is not: so no store takes it back, and what a       *)
(* refresh has not found it will not miss.  The states with lost           *)
(* acknowledgements are not Safe, so this has an invariant of its own.     *)
(***************************************************************************)
NobodysYet(r) == req[r].pc \in Creating => req[r].sid \notin known

MissedBoth(r) ==
  /\ req[r].pc = "expire" => req[r].tok \in past
  /\ req[r].pc \in {"get", "delMiss"} /\ ~req[r].shaky =>
       row[req[r].tok] # "ACTIVE" \/ req[r].tok \in past
  /\ req[r].pc = "delMiss" => req[r].tok \notin cache

RefusalOK(r) == PresentedKnown(r) /\ NobodysYet(r) /\ MissedBoth(r)

RefusalInv == TypeInv /\ CreatingApart /\ \A r \in Requests : RefusalOK(r)

\* What a client knows never comes to life.
KnownStayDead ==
  /\ known \subseteq known' /\ past \subseteq past'
  /\ \A s \in known : row'[s] = "ACTIVE" => row[s] = "ACTIVE"
  /\ \A s \in known : s \in cache' => s \in cache

\* A request that waits while others only write what nobody knows.
LEMMA WaitingRefusal ==
  ASSUME TypeInv, KnownStayDead, NEW q \in Requests, RefusalOK(q), req'[q] = req[q],
         req[q].pc \in Creating => req[q].sid \notin known'
  PROVE  RefusalOK(q)'
<1>1. PresentedKnown(q)' /\ NobodysYet(q)'
  BY DEF RefusalOK, PresentedKnown, NobodysYet, KnownStayDead
<1>2. req[q].pc \in {"expire", "get", "delMiss"} => req[q].tok \in known
  BY DEF RefusalOK, PresentedKnown, Refreshing
<1>3. MissedBoth(q)'
  BY <1>2 DEF RefusalOK, MissedBoth, KnownStayDead
<1> QED
  BY <1>1, <1>3 DEF RefusalOK

\* A step of r that shows nobody a session.
LEMMA RefusalStep ==
  ASSUME RefusalInv, KnownStayDead, known' = known,
         NEW r \in Requests, \A q \in Requests \ {r} : req'[q] = req[q], RefusalOK(r)',
         req'[r].pc \in Creating =>
           \/ req[r].pc \in Creating /\ req'[r].sid = req[r].sid
           \/ req'[r].sid = minted + 1
  PROVE  CreatingApart' /\ \A q \in Requests : RefusalOK(q)'
<1>1. CreatingApart'
  <2> SUFFICES ASSUME NEW q \in Requests, q # r, req[q].pc \in Creating,
                      req'[r].pc \in Creating, req[q].sid = req'[r].sid
               PROVE  FALSE
    BY DEF RefusalInv, CreatingApart
  <2>1. req[q].sid \in 1 .. minted /\ minted \in Nat
    BY InRange DEF RefusalInv, TypeInv, TypeOK
  <2> QED
    BY <2>1 DEF RefusalInv, CreatingApart
<1>2. ASSUME NEW q \in Requests, q # r PROVE RefusalOK(q)'
  BY <1>2, WaitingRefusal DEF RefusalInv, RefusalOK, NobodysYet
<1> QED
  BY <1>1, <1>2

\* A step that writes no slot.
LEMMA RefusalQuiet ==
  ASSUME RefusalInv, KnownStayDead, known' = known, req' = req
  PROVE  CreatingApart' /\ \A q \in Requests : RefusalOK(q)'
<1>1. CreatingApart'
  BY DEF RefusalInv, CreatingApart
<1> QED
  BY <1>1, WaitingRefusal DEF RefusalInv, RefusalOK, NobodysYet

\* What a request that goes on has written, its shakiness included.
LEMMA GotoShaky ==
  ASSUME TypeInv, NEW r \in Requests, NEW p \in PCs
  PROVE  /\ Goto(r, p) => req'[r].shaky = req[r].shaky
         /\ CatchAndGoto(r, p) => req'[r].shaky
<1>1. req \in [Requests -> Slot] /\ req[r] \in Slot
  BY DEF TypeInv, TypeOK
<1> QED
  BY <1>1 DEF Goto, CatchAndGoto, Slot

\* A request goes on in the refresh or in the sign-out it is in.
LEMMA RefusalGoesOn ==
  ASSUME RefusalInv, KnownStayDead, known' = known,
         NEW r \in Requests, req[r].pc \in Refreshing \cup LoggingOut,
         NEW p \in {"expire", "revoke", "get", "delHit", "delMiss", "outDel"},
         Goto(r, p) \/ CatchAndGoto(r, p),
         p = "expire" => req[r].tok \in past',
         p = "get" /\ Goto(r, p) => row'[req[r].tok] # "ACTIVE" \/ req[r].tok \in past',
         p = "delMiss" => req[r].pc = "get" /\ req[r].tok \notin cache'
  PROVE  CreatingApart' /\ \A q \in Requests : RefusalOK(q)'
<1>1. p \in PCs /\ p \in Refreshing \cup LoggingOut /\ p \notin Creating
  BY DEF PCs, Refreshing, LoggingOut, Creating
<1>2. /\ req'[r].pc = p /\ req'[r].tok = req[r].tok
      /\ \A q \in Requests \ {r} : req'[q] = req[q]
  BY <1>1, GotoWrites DEF RefusalInv
<1>3. req[r].tok \in known
  BY DEF RefusalInv, RefusalOK, PresentedKnown
<1>4. PresentedKnown(r)' /\ NobodysYet(r)'
  BY <1>1, <1>2, <1>3 DEF PresentedKnown, NobodysYet
<1>5. MissedBoth(r)'
  <2>1. CASE p = "delMiss"
    <3>1. ~req'[r].shaky => ~req[r].shaky
      BY <1>1, GotoShaky DEF RefusalInv
    <3>2. ~req[r].shaky => row[req[r].tok] # "ACTIVE" \/ req[r].tok \in past
      BY <2>1 DEF RefusalInv, RefusalOK, MissedBoth
    <3> QED
      BY <1>2, <1>3, <2>1, <3>1, <3>2 DEF MissedBoth, KnownStayDead
  <2>2. CASE p = "get"
    BY <1>1, <1>2, <2>2, GotoShaky DEF MissedBoth, RefusalInv
  <2>3. CASE p \notin {"delMiss", "get"}
    BY <1>2, <2>3 DEF MissedBoth
  <2> QED
    BY <2>1, <2>2, <2>3
<1>6. RefusalOK(r)'
  BY <1>4, <1>5 DEF RefusalOK
<1> QED
  BY <1>1, <1>2, <1>6, RefusalStep

\* A slot that holds no token yet: it is idle, or creates a session.
LEMMA RefusalFresh ==
  ASSUME RefusalInv, KnownStayDead, known' = known, NEW r \in Requests,
         \/ Answer(r)
         \/ \E from \in known \cup {NoSid} : Mint(r, from)
  PROVE  CreatingApart' /\ \A q \in Requests : RefusalOK(q)'
<1>1. "idle" \notin Refreshing \cup LoggingOut \cup Creating
      /\ "record" \notin Refreshing \cup LoggingOut /\ "record" \in Creating
  BY DEF Refreshing, LoggingOut, Creating
<1>2. CASE Answer(r)
  <2>1. req'[r].pc = "idle" /\ \A q \in Requests \ {r} : req'[q] = req[q]
    BY <1>2, AnswerWrites DEF RefusalInv
  <2>2. RefusalOK(r)'
    BY <1>1, <2>1 DEF RefusalOK, PresentedKnown, NobodysYet, MissedBoth
  <2> QED
    BY <1>1, <2>1, <2>2, RefusalStep
<1>3. ASSUME NEW from \in known \cup {NoSid}, Mint(r, from)
      PROVE  CreatingApart' /\ \A q \in Requests : RefusalOK(q)'
  <2>1. from \in Sids \cup {NoSid}
    BY DEF RefusalInv, TypeInv, TypeOK
  <2>2. /\ req'[r].pc = "record" /\ req'[r].tok = from /\ req'[r].sid = minted + 1
        /\ \A q \in Requests \ {r} : req'[q] = req[q]
    BY <1>3, <2>1, MintWrites DEF RefusalInv
  <2>3. minted + 1 \notin known
    BY SessionsAssumption DEF RefusalInv, TypeInv, TypeOK, Minted
  <2>4. RefusalOK(r)'
    BY <1>1, <2>2, <2>3 DEF RefusalOK, PresentedKnown, NobodysYet, MissedBoth
  <2> QED
    BY <1>1, <2>2, <2>4, RefusalStep
<1> QED
  BY <1>2, <1>3

\* A status that is set is not ACTIVE, and one error-free write has set it.
LEMMA SetStatusDead ==
  ASSUME TypeInv, NEW s \in Sids, NEW status \in {"REVOKED", "EXPIRED"}, NEW out,
         SetStatus(s, status, out)
  PROVE  /\ \A t \in Sids : row'[t] = "ACTIVE" => row[t] = "ACTIVE"
         /\ out # "error" => row'[s] # "ACTIVE"
BY DEF SetStatus, TypeInv, TypeOK

\* The handler of /auth/refresh, up to the new session.
LEMMA RefusalRefresh ==
  ASSUME RefusalInv, NEW r \in Requests,
         Lookup(r) \/ ExpireRow(r) \/ RevokeRow(r) \/ GetEntry(r) \/ DelEntry(r)
  PROVE  CreatingApart' /\ \A q \in Requests : RefusalOK(q)'
<1> DEFINE s == req[r].tok
<1>1. req[r].pc \in Refreshing
  BY DEF Lookup, ExpireRow, RevokeRow, GetEntry, DelEntry, At, Refreshing
<1>2. s \in Sids /\ s \in known /\ known \subseteq Sids /\ TypeInv /\ MissedBoth(r)
  BY <1>1, InRange DEF RefusalInv, RefusalOK, PresentedKnown
<1>3. CASE Lookup(r)
  <2>1. KnownStayDead /\ known' = known /\ row' = row /\ past' = past
    BY <1>3 DEF Lookup, KnownStayDead, stores, history
  <2>2. PICK p \in {"expire", "revoke", "get"} :
          /\ Goto(r, p) \/ CatchAndGoto(r, p)
          /\ p = "expire" => s \in past
          /\ p = "get" => row[s] # "ACTIVE" \/ CatchAndGoto(r, p)
    BY <1>3 DEF Lookup, Open
  <2>3. CASE p = "get" /\ ~Goto(r, p)
    BY <1>1, <2>1, <2>2, <2>3, RefusalGoesOn
  <2>4. CASE p = "get" /\ row[s] = "ACTIVE" /\ s \notin past
    <3>1. CatchAndGoto(r, "get") /\ "get" \in PCs
      BY <2>2, <2>4 DEF PCs, Refreshing
    <3>2. /\ req'[r].pc = "get" /\ req'[r].tok = s /\ req'[r].shaky
          /\ \A q \in Requests \ {r} : req'[q] = req[q]
      BY <1>2, <3>1, GotoWrites, GotoShaky
    <3>3. "get" \notin Creating
      BY DEF Creating
    <3>4. RefusalOK(r)'
      BY <1>2, <2>1, <3>2, <3>3 DEF RefusalOK, PresentedKnown, NobodysYet, MissedBoth
    <3> QED
      BY <2>1, <3>2, <3>3, <3>4, RefusalStep
  <2> QED
    BY <1>1, <2>1, <2>2, <2>3, <2>4, RefusalGoesOn
<1>4. CASE ExpireRow(r)
  <2>1. PICK out \in Outcomes("prisma") :
          /\ SetStatus(s, "EXPIRED", out)
          /\ Goto(r, "get") \/ CatchAndGoto(r, "get")
    BY <1>4 DEF ExpireRow
  <2>2. UNCHANGED <<past, cache, history>> /\ s \in past
    BY <1>2, <1>4 DEF ExpireRow, At, MissedBoth
  <2>3. KnownStayDead /\ known' = known
    BY <1>2, <2>1, <2>2, SetStatusDead DEF KnownStayDead, history
  <2> QED
    BY <1>1, <2>1, <2>2, <2>3, RefusalGoesOn
<1>5. CASE RevokeRow(r)
  <2>1. PICK out \in Outcomes("prisma") :
          /\ SetStatus(s, "REVOKED", out)
          /\ Mint(r, s) \/ CatchAndGoto(r, "get")
    BY <1>5 DEF RevokeRow
  <2>2. UNCHANGED <<past, cache, history>>
    BY <1>5 DEF RevokeRow
  <2>3. KnownStayDead /\ known' = known
    BY <1>2, <2>1, <2>2, SetStatusDead DEF KnownStayDead, history
  <2>4. CASE Mint(r, s)
    BY <1>2, <2>3, <2>4, RefusalFresh
  <2>5. CASE CatchAndGoto(r, "get")
    <3>1. "get" \in PCs /\ "get" \notin Creating
      BY DEF PCs, Refreshing, Creating
    <3>2. /\ req'[r].pc = "get" /\ req'[r].tok = s /\ req'[r].shaky
          /\ \A q \in Requests \ {r} : req'[q] = req[q]
      BY <1>2, <2>5, <3>1, GotoWrites, GotoShaky
    <3>3. RefusalOK(r)'
      BY <1>2, <2>3, <3>1, <3>2 DEF RefusalOK, PresentedKnown, NobodysYet, MissedBoth
    <3> QED
      BY <2>3, <3>1, <3>2, <3>3, RefusalStep
  <2> QED
    BY <2>1, <2>4, <2>5
<1>6. CASE GetEntry(r)
  <2>1. KnownStayDead /\ known' = known /\ cache' = cache
    BY <1>6 DEF GetEntry, KnownStayDead, stores, history
  <2>2. PICK p \in {"delHit", "delMiss"} :
          /\ Goto(r, p) \/ Answer(r)
          /\ p = "delMiss" => s \notin cache
    BY <1>6 DEF GetEntry
  <2>3. req[r].pc = "get"
    BY <1>6 DEF GetEntry, At
  <2> QED
    BY <1>1, <2>1, <2>2, <2>3, RefusalGoesOn, RefusalFresh
<1>7. CASE DelEntry(r)
  <2>1. KnownStayDead /\ known' = known
    BY <1>7 DEF DelEntry, DeleteEntry, KnownStayDead, history
  <2>2. Mint(r, s) \/ Answer(r)
    BY <1>7 DEF DelEntry
  <2> QED
    BY <1>2, <2>1, <2>2, RefusalFresh
<1> QED
  BY <1>3, <1>4, <1>5, <1>6, <1>7

\* Storing a session, perhaps without knowing it, writes what nobody knows.
LEMMA RefusalCreate ==
  ASSUME RefusalInv, NEW r \in Requests, Record(r) \/ Fallback(r)
  PROVE  CreatingApart' /\ \A q \in Requests : RefusalOK(q)'
<1> DEFINE n == req[r].sid
<1>1. req[r].pc \in Creating /\ TypeInv
  BY DEF Record, Fallback, At, Creating, RefusalInv
<1>2. n \in Sids /\ n \notin known /\ known \subseteq Sids
  BY <1>1, InRange DEF RefusalInv, RefusalOK, NobodysYet
<1>3. \/ Grant(r)
      \/ Answer(r) /\ known' = known
      \/ Goto(r, "fallback") /\ known' = known
  BY DEF Record, Fallback, history
<1>4. KnownStayDead
  <2>1. known \subseteq known' /\ past' = past
    BY <1>3 DEF Record, Fallback, Grant
  <2>2. \A s \in Sids \ {n} : row'[s] = row[s] /\ (s \in cache' => s \in cache)
    BY <1>1 DEF Record, Fallback, TypeInv, TypeOK
  <2> QED
    BY <1>2, <2>1, <2>2 DEF KnownStayDead
<1>5. CASE Goto(r, "fallback") /\ known' = known
  <2>1. "fallback" \in PCs /\ "fallback" \in Creating /\ "fallback" \notin Refreshing \cup LoggingOut
    BY DEF PCs, Creating, Refreshing, LoggingOut
  <2>2. /\ req'[r].pc = "fallback" /\ req'[r].tok = req[r].tok /\ req'[r].sid = n
        /\ \A q \in Requests \ {r} : req'[q] = req[q]
    BY <1>1, <1>5, <2>1, GotoWrites
  <2>3. RefusalOK(r)'
    BY <1>1, <1>2, <1>5, <2>1, <2>2
    DEF RefusalInv, RefusalOK, PresentedKnown, NobodysYet, MissedBoth
  <2> QED
    BY <1>1, <1>4, <1>5, <2>2, <2>3, RefusalStep
<1>6. CASE Grant(r)
  <2>1. known' = known \cup {n} /\ Answer(r)
    BY <1>6 DEF Grant
  <2>2. req'[r].pc = "idle" /\ \A q \in Requests \ {r} : req'[q] = req[q]
    BY <1>1, <2>1, AnswerWrites
  <2>3. "idle" \notin Refreshing \cup LoggingOut \cup Creating
    BY DEF Refreshing, LoggingOut, Creating
  <2>4. RefusalOK(r)'
    BY <2>2, <2>3 DEF RefusalOK, PresentedKnown, NobodysYet, MissedBoth
  <2>5. CreatingApart'
    BY <2>2, <2>3 DEF RefusalInv, CreatingApart
  <2>6. ASSUME NEW q \in Requests, q # r PROVE RefusalOK(q)'
    <3>1. req[q].pc \in Creating => req[q].sid \notin known'
      BY <1>1, <2>1, <2>6 DEF RefusalInv, CreatingApart, RefusalOK, NobodysYet
    <3> QED
      BY <1>1, <1>4, <2>2, <2>6, <3>1, WaitingRefusal DEF RefusalInv
  <2> QED
    BY <2>4, <2>5, <2>6
<1> QED
  BY <1>3, <1>4, <1>5, <1>6, RefusalFresh

\* Every step keeps the invariant of refusals.
LEMMA RefusalNext == RefusalInv /\ [Next]_vars => RefusalInv'
<1> SUFFICES ASSUME RefusalInv, [Next]_vars
             PROVE  CreatingApart' /\ \A q \in Requests : RefusalOK(q)'
  BY TypeInvStep DEF RefusalInv
<1>1. TypeInv /\ known \subseteq Sids
  BY DEF RefusalInv, TypeInv, TypeOK
<1>2. CASE \E r \in Requests : BeginLogin(r)
  <2>1. PICK r \in Requests : BeginLogin(r)
    BY <1>2
  <2>2. KnownStayDead /\ known' = known /\ Mint(r, NoSid)
    BY <2>1 DEF BeginLogin, KnownStayDead, stores, history
  <2> QED
    BY <2>2, RefusalFresh
<1>3. ASSUME NEW r \in Requests, NEW s \in Sids, BeginRefresh(r, s) \/ BeginLogout(r, s)
      PROVE  CreatingApart' /\ \A q \in Requests : RefusalOK(q)'
  <2>1. PICK p \in {"lookup", "outRevoke"} : Present(r, s, p)
    BY <1>3 DEF BeginRefresh, BeginLogout
  <2>2. KnownStayDead /\ known' = known /\ s \in known
    BY <2>1 DEF Present, KnownStayDead, stores, history
  <2>3. /\ req'[r].pc = p /\ req'[r].tok = s
        /\ \A q \in Requests \ {r} : req'[q] = req[q]
    BY <1>1, <2>1 DEF Present, Idle, TypeInv, TypeOK
  <2>4. p \notin Creating
    BY DEF Creating
  <2>5. RefusalOK(r)'
    BY <2>2, <2>3, <2>4 DEF RefusalOK, PresentedKnown, NobodysYet, MissedBoth
  <2> QED
    BY <2>2, <2>3, <2>4, <2>5, RefusalStep
<1>4. ASSUME NEW r \in Requests, LogoutRevoke(r) \/ LogoutDelete(r)
      PROVE  CreatingApart' /\ \A q \in Requests : RefusalOK(q)'
  <2>1. req[r].pc \in LoggingOut /\ known' = known /\ past' = past
    BY <1>4 DEF LogoutRevoke, LogoutDelete, At, LoggingOut, history
  <2>2. req[r].tok \in Sids
    BY <1>1, <2>1, InRange
  <2>3. KnownStayDead
    BY <1>1, <1>4, <2>1, <2>2, SetStatusDead DEF LogoutRevoke, LogoutDelete, DeleteEntry, KnownStayDead
  <2>4. Goto(r, "outDel") \/ Answer(r)
    BY <1>4 DEF LogoutRevoke, LogoutDelete
  <2> QED
    BY <2>1, <2>3, <2>4, RefusalGoesOn, RefusalFresh
<1>5. CASE Restart
  <2>1. \A q \in Requests : req'[q].pc = "idle"
    BY <1>5 DEF Restart, Idle
  <2>2. "idle" \notin Refreshing \cup LoggingOut \cup Creating
    BY DEF Refreshing, LoggingOut, Creating
  <2> QED
    BY <2>1, <2>2 DEF CreatingApart, RefusalOK, PresentedKnown, NobodysYet, MissedBoth
<1>6. CASE JwtExpires \/ \E s \in Sids : RowExpires(s) \/ EntryExpires(s)
  <2>1. KnownStayDead /\ known' = known /\ req' = req
    BY <1>6 DEF JwtExpires, RowExpires, EntryExpires, KnownStayDead, history
  <2> QED
    BY <2>1, RefusalQuiet
<1>7. CASE UNCHANGED vars
  <2>1. KnownStayDead /\ known' = known /\ req' = req
    BY <1>7 DEF vars, KnownStayDead
  <2> QED
    BY <2>1, RefusalQuiet
<1> QED
  BY <1>2, <1>3, <1>4, <1>5, <1>6, <1>7, NextSteps, RefusalRefresh, RefusalCreate DEF Steps

\* No step brings a token that a client knows back to life.
LEMMA RefusedStayDead == RefusalInv /\ [Next]_vars => KnownStayDead
<1> SUFFICES ASSUME RefusalInv, [Next]_vars PROVE KnownStayDead
  OBVIOUS
<1>1. TypeInv /\ known \subseteq Sids
  BY DEF RefusalInv, TypeInv, TypeOK
<1>2. ASSUME NEW r \in Requests, NEW s, BeginLogin(r) \/ BeginRefresh(r, s) \/ BeginLogout(r, s)
      PROVE  KnownStayDead
  BY <1>2 DEF BeginLogin, BeginRefresh, BeginLogout, Present, KnownStayDead, stores, history
<1>3. ASSUME NEW r \in Requests, Lookup(r) \/ GetEntry(r) \/ DelEntry(r) PROVE KnownStayDead
  BY <1>3 DEF Lookup, GetEntry, DelEntry, DeleteEntry, KnownStayDead, stores, history
<1>4. ASSUME NEW r \in Requests, ExpireRow(r) \/ RevokeRow(r) \/ LogoutRevoke(r)
      PROVE  KnownStayDead
  <2>1. req[r].tok \in Sids /\ known' = known /\ past' = past /\ cache' = cache
    BY <1>1, <1>4, InRange
       DEF ExpireRow, RevokeRow, LogoutRevoke, At, Refreshing, LoggingOut, history
  <2>2. \/ \E out \in Outcomes("prisma") : SetStatus(req[r].tok, "EXPIRED", out)
        \/ \E out \in Outcomes("prisma") : SetStatus(req[r].tok, "REVOKED", out)
    BY <1>4 DEF ExpireRow, RevokeRow, LogoutRevoke
  <2>3. PICK status \in {"REVOKED", "EXPIRED"} : \E out : SetStatus(req[r].tok, status, out)
    BY <2>2
  <2>4. PICK out : SetStatus(req[r].tok, status, out)
    BY <2>3
  <2> QED
    BY <1>1, <2>1, <2>4, SetStatusDead DEF KnownStayDead
<1>5. ASSUME NEW r \in Requests, LogoutDelete(r) PROVE KnownStayDead
  BY <1>5 DEF LogoutDelete, DeleteEntry, KnownStayDead
<1>6. ASSUME NEW r \in Requests, Record(r) \/ Fallback(r) PROVE KnownStayDead
  <2>1. req[r].sid \in Sids /\ req[r].sid \notin known
    BY <1>1, <1>6, InRange DEF Record, Fallback, At, Creating, RefusalInv, RefusalOK, NobodysYet
  <2>2. known \subseteq known' /\ past' = past
    BY <1>6 DEF Record, Fallback, Grant, history
  <2>3. \A s \in Sids \ {req[r].sid} : row'[s] = row[s] /\ (s \in cache' => s \in cache)
    BY <1>1, <1>6 DEF Record, Fallback, TypeInv, TypeOK
  <2> QED
    BY <1>1, <2>1, <2>2, <2>3 DEF KnownStayDead
<1>7. CASE Restart \/ JwtExpires \/ \E s \in Sids : RowExpires(s) \/ EntryExpires(s)
  BY <1>7 DEF Restart, JwtExpires, RowExpires, EntryExpires, KnownStayDead, history
<1>8. CASE UNCHANGED vars
  BY <1>8 DEF vars, KnownStayDead
<1> QED
  BY <1>2, <1>3, <1>4, <1>5, <1>6, <1>7, <1>8, NextSteps DEF Steps

\* A token that a refresh is refused for, although the database did not fail that
\* refresh, is worth nothing, and no token that is worth nothing works again.  A refusal
\* after a failed read of the database is excepted: the row may be ACTIVE.
THEOREM RefusalsAreFinal == Spec => RefusalIsFinal
<1> DEFINE Deserved == \A r \in Requests : At(r, "delMiss") /\ ~req[r].shaky => ~Live(req[r].tok)
           StayDead == \A s \in known : ~Live(s) => ~Live(s)'
<1>1. Init => RefusalInv
  <2> SUFFICES ASSUME Init PROVE CreatingApart /\ \A r \in Requests : RefusalOK(r)
    BY TypeInvInit DEF RefusalInv
  <2>1. \A r \in Requests : req[r].pc = "idle"
    BY DEF Init, Idle
  <2>2. "idle" \notin Refreshing \cup LoggingOut \cup Creating
    BY DEF Refreshing, LoggingOut, Creating
  <2> QED
    BY <2>1, <2>2 DEF CreatingApart, RefusalOK, PresentedKnown, NobodysYet, MissedBoth
<1>2. RefusalInv => Deserved
  BY DEF RefusalInv, RefusalOK, MissedBoth, At, Live
<1>3. RefusalInv /\ [Next]_vars => [StayDead]_vars
  BY RefusedStayDead DEF KnownStayDead, Live
<1>4. Spec => []Deserved /\ [][StayDead]_vars
  BY <1>1, <1>2, <1>3, RefusalNext, PTL DEF Spec
<1> QED
  BY <1>4 DEF RefusalIsFinal

-----------------------------------------------------------------------------
(***************************************************************************)
(* The sessions of one login, when no token is exchanged by two requests   *)
(* at once.  They form a chain: every one but the newest known is spent,   *)
(* and spent tokens are dead.  All steps are of one of four kinds.         *)
(***************************************************************************)
Exchanging == Refreshing \cup Creating

Holding == {"revoke", "delHit"}

\* Tokens may die and requests may go on, or be gone; none is exchanged.  A
\* request comes to hold a token only while it is live.
GoesOn(q) ==
  \/ req'[q].pc = "idle"
  \/ /\ req'[q].tok = req[q].tok /\ req'[q].sid = req[q].sid /\ req'[q].late = req[q].late
     /\ req'[q].pc \in Creating => req[q].pc \in Creating
     /\ req'[q].pc \in Exchanging => req[q].pc \in Exchanging
     /\ req'[q].pc \in Holding => req[q].pc = req'[q].pc \/ Live(req[q].tok)

SignsOff(s) == over' = over \cup {origin[s]} /\ s \in known /\ Unshared(s) /\ Dead(s)'

Ages ==
  /\ OnlyKills /\ NoMint /\ past \subseteq past'
  /\ \A s \in past' \ past : s \in Sids /\ row[s] # "none"
  /\ \A q \in Requests : GoesOn(q)
  /\ over' = over \/ \E s \in Sids : SignsOff(s)

\* A request takes the token of s up.
TakesUp(r, s) ==
  /\ UNCHANGED <<stores, history>> /\ NoMint
  /\ req[r].pc = "idle" /\ req'[r].pc \in {"lookup", "outRevoke"}
  /\ s \in known /\ req'[r].tok = s /\ req'[r].late = (s \in spent \cup closed)
  /\ req'[r].pc = "lookup" /\ SingleFlight => InFlight(s) = {}
  /\ \A q \in Requests \ {r} : req'[q] = req[q]

\* A session is minted: for a login, or for the token that it retires.
Exchanges(r, from) ==
  /\ Mint(r, from) /\ OnlyKills /\ UNCHANGED <<past, closed, over>>
  /\ \A s \in Sids \ {from} : row'[s] = row[s] /\ (s \in cache' <=> s \in cache)
  /\ \/ from = NoSid /\ req[r].pc = "idle"
     \/ from # NoSid /\ req[r].pc \in Holding /\ from = req[r].tok /\ Dead(from)'

\* A session is stored, and sent to the client.
Grants200(r) ==
  /\ req[r].pc \in Creating /\ Grant(r) /\ past' = past
  /\ \/ row' = [row EXCEPT ![req[r].sid] = "ACTIVE"] /\ cache' = cache
     \/ cache' = cache \cup {req[r].sid} /\ row' = row

OneOfFour ==
  \/ Ages
  \/ \E r \in Requests : Grants200(r) \/ \E s \in Sids : TakesUp(r, s)
  \/ \E r \in Requests, from \in Sids \cup {NoSid} : Exchanges(r, from)

\* A request that goes on to hold no token, or one that it held or that lives.
LEMMA AgesOn ==
  ASSUME TypeInv, OnlyKills, NoMint, past' = past, over' = over,
         NEW r \in Requests, NEW p \in PCs, Goto(r, p) \/ CatchAndGoto(r, p),
         p \in Creating => req[r].pc \in Creating,
         p \in Exchanging => req[r].pc \in Exchanging,
         p \in Holding => Live(req[r].tok)
  PROVE  Ages
<1>1. /\ req'[r].pc = p /\ req'[r].tok = req[r].tok
      /\ req'[r].sid = req[r].sid /\ req'[r].late = req[r].late
      /\ \A q \in Requests \ {r} : req'[q] = req[q]
  BY GotoWrites
<1>2. \A q \in Requests : GoesOn(q)
  BY <1>1 DEF GoesOn
<1> QED
  BY <1>2 DEF Ages

\* An answer that shows no session.
LEMMA AgesOut ==
  ASSUME TypeInv, OnlyKills, past' = past, NEW r \in Requests, Answer(r),
         over' = over \/ \E s \in Sids : SignsOff(s)
  PROVE  Ages
<1>1. req'[r].pc = "idle" /\ \A q \in Requests \ {r} : req'[q] = req[q]
  BY AnswerWrites
<1>2. \A q \in Requests : GoesOn(q)
  BY <1>1 DEF GoesOn
<1> QED
  BY <1>2 DEF Ages, Answer

\* Taking a token up, or logging in.
LEMMA BeginKind ==
  ASSUME TypeInv, Safe, NEW r \in Requests,
         BeginLogin(r) \/ \E s \in Sids : BeginRefresh(r, s) \/ BeginLogout(r, s)
  PROVE  OneOfFour
<1>1. CASE BeginLogin(r)
  <2>1. Exchanges(r, NoSid)
    BY <1>1, StoresUnchangedKill DEF BeginLogin, Exchanges, At, stores, history
  <2> QED
    BY <2>1 DEF OneOfFour
<1>2. ASSUME NEW s \in Sids, BeginRefresh(r, s) \/ BeginLogout(r, s) PROVE OneOfFour
  <2> DEFINE late == s \in spent \cup closed
  <2>1. PICK p \in {"lookup", "outRevoke"} :
          Present(r, s, p) /\ (p = "lookup" /\ SingleFlight => InFlight(s) = {})
    BY <1>2 DEF BeginRefresh, BeginLogout
  <2>2. req' = [req EXCEPT ![r] = [Idle EXCEPT !.pc = p, !.tok = s, !.late = late]]
    BY <2>1 DEF Present
  <2>3. late \in BOOLEAN
    OBVIOUS
  <2> HIDE DEF late
  <2>4. /\ req'[r].pc = p /\ req'[r].tok = s /\ req'[r].late = late
        /\ \A q \in Requests \ {r} : req'[q] = req[q]
    BY <2>2, <2>3 DEF TypeInv, TypeOK, Idle
  <2>5. TakesUp(r, s)
    BY <2>1, <2>4 DEF TakesUp, Present, At, late
  <2> QED
    BY <2>5 DEF OneOfFour
<1> QED
  BY <1>1, <1>2

\* The handler of /auth/refresh.
LEMMA RefreshKind ==
  ASSUME Honest, TypeInv, Safe, NEW r \in Requests,
         Lookup(r) \/ ExpireRow(r) \/ RevokeRow(r) \/ GetEntry(r) \/ DelEntry(r)
  PROVE  OneOfFour
<1>1. req[r].pc \in Refreshing
  BY DEF Lookup, ExpireRow, RevokeRow, GetEntry, DelEntry, At, Refreshing
<1>2. PICK s \in Sids : s = req[r].tok
  BY <1>1, InRange
<1>3. s = req[r].tok /\ s \in known /\ Found(r) /\ s # NoSid /\ req[r].pc \in Exchanging
  BY <1>2, <1>1, InRange, SidsAreNaturals DEF Safe, RequestSafe, PresentedKnown, Exchanging
<1>4. \A p \in {"expire", "revoke", "get", "delHit", "delMiss"} : p \in PCs /\ p \notin Creating
  BY DEF PCs, Refreshing, Creating
<1>5. CASE Lookup(r)
  <2>1. OnlyKills /\ NoMint /\ past' = past /\ over' = over
    BY <1>5, StoresUnchangedKill DEF Lookup, stores, history
  <2>2. PICK p \in {"expire", "revoke", "get"} :
          /\ Goto(r, p) \/ CatchAndGoto(r, p)
          /\ p = "revoke" => Live(s)
    BY <1>3, <1>5 DEF Lookup, Open, Live
  <2>3. Ages
    BY <1>3, <1>4, <2>1, <2>2, AgesOn DEF Holding
  <2> QED
    BY <2>3 DEF OneOfFour
<1>6. CASE ExpireRow(r)
  <2>1. PICK out \in Outcomes("prisma") :
          SetStatus(s, "EXPIRED", out) /\ (Goto(r, "get") \/ CatchAndGoto(r, "get"))
    BY <1>3, <1>6 DEF ExpireRow
  <2>2. NoMint /\ UNCHANGED <<past, cache, history>>
    BY <1>3, <1>6 DEF ExpireRow
  <2>3. OnlyKills /\ over' = over
    BY <1>3, <2>1, <2>2, SetStatusKills DEF history
  <2>4. Ages
    BY <1>3, <1>4, <2>1, <2>2, <2>3, AgesOn DEF Holding
  <2> QED
    BY <2>4 DEF OneOfFour
<1>7. CASE RevokeRow(r)
  <2>1. PICK out \in Outcomes("prisma") :
          /\ SetStatus(s, "REVOKED", out)
          /\ \/ out = "done" /\ Mint(r, s)
             \/ CatchAndGoto(r, "get") /\ NoMint
    BY <1>3, <1>7 DEF RevokeRow
  <2>2. UNCHANGED <<past, cache, history>> /\ req[r].pc = "revoke"
    BY <1>7 DEF RevokeRow, At
  <2>3. OnlyKills /\ over' = over /\ closed' = closed /\ (out = "done" => row'[s] # "ACTIVE")
    BY <1>3, <2>1, <2>2, SetStatusKills DEF history
  <2>4. CASE CatchAndGoto(r, "get") /\ NoMint
    <3>1. Ages
      BY <1>3, <1>4, <2>2, <2>3, <2>4, AgesOn DEF Holding
    <3> QED
      BY <3>1 DEF OneOfFour
  <2>5. CASE out = "done" /\ Mint(r, s)
    <3>1. s \notin cache' /\ Dead(s)'
      BY <1>3, <2>2, <2>3, <2>5 DEF Found, Safe, Apart, Dead
    <3>2. \A t \in Sids \ {s} : row'[t] = row[t] /\ (t \in cache' <=> t \in cache)
      BY <2>1, <2>2 DEF SetStatus, TypeInv, TypeOK
    <3>3. Exchanges(r, s)
      BY <1>3, <2>2, <2>3, <2>5, <3>1, <3>2 DEF Exchanges, Holding
    <3> QED
      BY <1>3, <3>3 DEF OneOfFour
  <2> QED
    BY <2>1, <2>4, <2>5
<1>8. CASE GetEntry(r)
  <2>1. OnlyKills /\ past' = past /\ over' = over
    BY <1>8, StoresUnchangedKill DEF GetEntry, stores, history
  <2>2. PICK p \in {"delHit", "delMiss"} :
          /\ (Goto(r, p) /\ NoMint) \/ Answer(r)
          /\ p = "delHit" => Live(s)
    BY <1>3, <1>8 DEF GetEntry, Live
  <2>3. Ages
    BY <1>3, <1>4, <2>1, <2>2, AgesOn, AgesOut DEF Holding
  <2> QED
    BY <2>3 DEF OneOfFour
<1>9. CASE DelEntry(r)
  <2>1. PICK out \in Outcomes("redis") :
          /\ DeleteEntry(s, out)
          /\ \/ out = "done" /\ At(r, "delHit") /\ Mint(r, s)
             \/ Answer(r)
    BY <1>3, <1>9 DEF DelEntry
  <2>2. UNCHANGED <<row, past, history>>
    BY <1>3, <1>9 DEF DelEntry
  <2>3. OnlyKills /\ over' = over /\ closed' = closed /\ (out = "done" => s \notin cache')
    BY <1>3, <2>1, <2>2, DeleteEntryKills DEF history
  <2>4. CASE Answer(r)
    <3>1. Ages
      BY <2>2, <2>3, <2>4, AgesOut
    <3> QED
      BY <3>1 DEF OneOfFour
  <2>5. CASE out = "done" /\ At(r, "delHit") /\ Mint(r, s)
    <3>1. Dead(s)'
      BY <1>3, <2>2, <2>3, <2>5 DEF Found, At, Dead
    <3>2. \A t \in Sids \ {s} : row'[t] = row[t] /\ (t \in cache' <=> t \in cache)
      BY <2>1, <2>2 DEF DeleteEntry
    <3>3. Exchanges(r, s)
      BY <1>3, <2>2, <2>3, <2>5, <3>1, <3>2 DEF Exchanges, Holding, At
    <3> QED
      BY <1>3, <3>3 DEF OneOfFour
  <2> QED
    BY <2>1, <2>4, <2>5
<1> QED
  BY <1>5, <1>6, <1>7, <1>8, <1>9

\* Storing the session, signing out, and the environment.
LEMMA OtherKind ==
  ASSUME Honest, TypeInv, Safe,
         \/ \E r \in Requests : Record(r) \/ Fallback(r) \/ LogoutRevoke(r) \/ LogoutDelete(r)
         \/ JwtExpires \/ Restart \/ \E s \in Sids : RowExpires(s) \/ EntryExpires(s)
         \/ UNCHANGED vars
  PROVE  OneOfFour
<1>1. ASSUME NEW r \in Requests, Record(r) PROVE OneOfFour
  <2>1. PICK out \in Outcomes("prisma") :
          /\ row' = [row EXCEPT ![req[r].sid] = IF out = "error" THEN @ ELSE "ACTIVE"]
          /\ IF out = "done" THEN Grant(r)
                             ELSE Goto(r, "fallback") /\ NoMint /\ UNCHANGED history
    BY <1>1 DEF Record
  <2>2. UNCHANGED <<past, cache>> /\ req[r].pc \in Creating
    BY <1>1 DEF Record, At, Creating
  <2>3. CASE out = "done"
    BY <2>1, <2>2, <2>3 DEF OneOfFour, Grants200
  <2>4. CASE out = "error"
    <3>1. row' = row /\ Goto(r, "fallback") /\ NoMint /\ UNCHANGED history
      BY <2>1, <2>4 DEF TypeInv, TypeOK
    <3>2. OnlyKills /\ over' = over
      BY <2>2, <3>1 DEF OnlyKills, history
    <3>3. "fallback" \in PCs /\ "fallback" \notin Holding /\ req[r].pc \in Exchanging
      BY <2>2 DEF PCs, Creating, Holding, Exchanging
    <3>4. Ages
      BY <2>2, <3>1, <3>2, <3>3, AgesOn
    <3> QED
      BY <3>4 DEF OneOfFour
  <2> QED
    BY <2>3, <2>4, HonestOutcomes
<1>2. ASSUME NEW r \in Requests, Fallback(r) PROVE OneOfFour
  <2>1. PICK out \in {"done", "error"} :
          /\ cache' = IF out = "error" THEN cache ELSE cache \cup {req[r].sid}
          /\ IF out = "done" THEN Grant(r) ELSE Answer(r) /\ UNCHANGED history
    BY <1>2, HonestOutcomes DEF Fallback
  <2>2. UNCHANGED <<past, row>> /\ req[r].pc \in Creating
    BY <1>2 DEF Fallback, At, Creating
  <2>3. CASE out = "done"
    BY <2>1, <2>2, <2>3 DEF OneOfFour, Grants200
  <2>4. CASE out = "error"
    <3>1. OnlyKills /\ over' = over
      BY <2>1, <2>2, <2>4 DEF OnlyKills, history
    <3>2. Ages
      BY <2>1, <2>2, <2>4, <3>1, AgesOut
    <3> QED
      BY <3>2 DEF OneOfFour
  <2> QED
    BY <2>3, <2>4
<1>3. ASSUME NEW r \in Requests, LogoutRevoke(r) PROVE OneOfFour
  <2>1. req[r].tok \in Sids
    BY <1>3, InRange DEF LogoutRevoke, At, LoggingOut
  <2>2. PICK out \in Outcomes("prisma") :
          /\ SetStatus(req[r].tok, "REVOKED", out)
          /\ \/ out = "done" /\ Goto(r, "outDel") /\ NoMint
             \/ Answer(r)
    BY <1>3 DEF LogoutRevoke
  <2>3. UNCHANGED <<past, cache, history>>
    BY <1>3 DEF LogoutRevoke
  <2>4. OnlyKills /\ over' = over
    BY <2>1, <2>2, <2>3, SetStatusKills DEF history
  <2>5. "outDel" \in PCs /\ "outDel" \notin Creating \cup Exchanging \cup Holding
    BY DEF PCs, LoggingOut, Creating, Exchanging, Refreshing, Holding
  <2>6. Ages
    BY <2>2, <2>3, <2>4, <2>5, AgesOn, AgesOut
  <2> QED
    BY <2>6 DEF OneOfFour
<1>4. ASSUME NEW r \in Requests, LogoutDelete(r) PROVE OneOfFour
  <2>0. PICK s \in Sids : s = req[r].tok
    BY <1>4, InRange DEF LogoutDelete, At, LoggingOut
  <2>1. s \in known /\ row[s] # "ACTIVE"
    BY <1>4, <2>0, InRange
    DEF LogoutDelete, At, LoggingOut, Safe, RequestSafe, PresentedKnown, Found
  <2>2. PICK out \in {"done", "error"} :
          /\ DeleteEntry(s, out)
          /\ closed' = IF out = "done" THEN closed \cup {s} ELSE closed
          /\ over' = IF out = "done" /\ Unshared(s) THEN over \cup {origin[s]} ELSE over
    BY <1>4, <2>0, HonestOutcomes DEF LogoutDelete
  <2>3. Answer(r) /\ UNCHANGED <<row, past, known, spent>>
    BY <1>4 DEF LogoutDelete
  <2>4. OnlyKills /\ (out = "done" => s \notin cache')
    BY <2>1, <2>2, <2>3, DeleteEntryKills
  <2>5. over' = over \/ SignsOff(s)
    BY <2>1, <2>2, <2>3, <2>4 DEF SignsOff, Dead
  <2>6. Ages
    BY <2>1, <2>3, <2>4, <2>5, AgesOut
  <2> QED
    BY <2>6 DEF OneOfFour
<1>5. CASE JwtExpires \/ Restart \/ UNCHANGED vars \/ \E s \in Sids : RowExpires(s) \/ EntryExpires(s)
  <2>1. OnlyKills /\ NoMint /\ over' = over
    BY <1>5 DEF JwtExpires, Restart, RowExpires, EntryExpires, OnlyKills, NoMint, history, vars
  <2>2. past \subseteq past' /\ \A s \in past' \ past : s \in Sids /\ row[s] # "none"
    BY <1>5 DEF JwtExpires, Restart, RowExpires, EntryExpires, vars
  <2>3. \A q \in Requests : GoesOn(q)
    BY <1>5 DEF JwtExpires, Restart, RowExpires, EntryExpires, vars, GoesOn, Idle
  <2>4. Ages
    BY <2>1, <2>2, <2>3 DEF Ages
  <2> QED
    BY <2>4 DEF OneOfFour
<1> QED
  BY <1>1, <1>2, <1>3, <1>4, <1>5

\* When no acknowledgement is lost, every step is of one of the four kinds.
LEMMA StepKinds == ASSUME Honest, Inv, [Next]_vars PROVE OneOfFour
<1>1. TypeInv /\ Safe
  BY DEF Inv
<1> QED
  BY <1>1, NextSteps, BeginKind, RefreshKind, OtherKind DEF Steps

-----------------------------------------------------------------------------
(***************************************************************************)
(* What holds of the chains: what lives is known, a token is in one        *)
(* exchange at a time, the known tokens of a login that are not spent are  *)
(* at most one, and a login that was ended has nothing left that lives, is *)
(* held or is being created.                                               *)
(***************************************************************************)
LiveKnown == \A s \in Sids : row[s] = "ACTIVE" \/ s \in cache => s \in known

OneExchange ==
  \A q, r \in Requests :
    /\ req[q].pc \in Exchanging /\ req[r].pc \in Exchanging
    /\ req[q].tok = req[r].tok /\ req[q].tok # NoSid
    => q = r

NotSpent(r) ==
  req[r].pc \in Exchanging /\ ~req[r].late /\ req[r].tok # NoSid => req[r].tok \notin spent

Origins == over \subseteq 1 .. minted /\ \A s \in 1 .. minted : origin[s] \in 1 .. minted

Lineage(r) ==
  req[r].pc \in Creating =>
    IF req[r].tok = NoSid
    THEN /\ origin[req[r].sid] = req[r].sid
         /\ \A u \in 1 .. minted : origin[u] = req[r].sid => u = req[r].sid
    ELSE origin[req[r].sid] = origin[req[r].tok]

Newest == \A s, t \in known \ spent : origin[s] = origin[t] => s = t

Born(s) == \E r \in Requests : req[r].pc \in Creating /\ req[r].sid = s

Potent(s) == ~Dead(s) \/ Held(s) \/ Born(s)

OverEnded == \A s \in 1 .. minted : origin[s] \in over => ~Potent(s)

\* A session that was exchanged is dead, and no request holds it.
Parents ==
  \A c \in Sids : parent[c] # NoSid =>
    c \in 1 .. minted /\ parent[c] \in known /\ Dead(parent[c]) /\ ~Held(parent[c])

PastWritten == \A s \in past : row[s] # "none"

Chains ==
  /\ LiveKnown /\ OneExchange /\ Origins /\ Newest /\ OverEnded /\ Parents /\ PastWritten
  /\ \A r \in Requests : NotSpent(r) /\ Lineage(r)

\* Ids, and what the slots carry, in the terms the chains are told in.
LEMMA Carries ==
  ASSUME TypeInv, Safe, NEW r \in Requests
  PROVE  /\ minted \in Nat /\ known \subseteq 1 .. minted /\ 1 .. minted \subseteq Sids
         /\ \A s \in 1 .. minted : s # NoSid
         /\ req[r].pc \in Refreshing => req[r].tok \in known
         /\ req[r].pc \in Creating =>
              /\ req[r].sid \in 1 .. minted /\ req[r].sid \notin known \cup cache
              /\ row[req[r].sid] = "none" /\ ~req[r].late
              /\ req[r].tok \in known \cup {NoSid}
              /\ req[r].tok # NoSid => Dead(req[r].tok)
<1>1. minted \in Nat /\ known \subseteq 1 .. minted /\ 1 .. minted \subseteq Sids
  BY SessionsAssumption DEF TypeInv, TypeOK, Minted, Sids
<1>2. \A s \in 1 .. minted : s # NoSid
  BY <1>1
<1>3. RequestSafe(r)
  BY DEF Safe
<1>4. req[r].pc \in Creating => ~req[r].late
  BY <1>3 DEF RequestSafe, LateRefused, Creating, LoggingOut
<1> QED
  BY <1>1, <1>2, <1>3, <1>4, InRange DEF RequestSafe, CreatingFresh, PresentedKnown, Found

\* The kinds of pc are apart.
LEMMA KindsOfPc ==
  /\ Holding \subseteq Refreshing /\ Refreshing \subseteq Exchanging /\ Creating \subseteq Exchanging
  /\ Refreshing \cap Creating = {} /\ Holding \cap Creating = {}
  /\ "idle" \notin Exchanging /\ "outRevoke" \notin Exchanging
  /\ "lookup" \in Refreshing /\ "lookup" \notin Holding
  /\ "record" \in Creating
BY DEF Holding, Refreshing, Creating, Exchanging

\* What a fresh id descends from; the lineage of the others is untouched.
LEMMA MintLineage ==
  ASSUME TypeInv, NEW r \in Requests, NEW from \in Sids \cup {NoSid}, Mint(r, from)
  PROVE  /\ origin'[minted + 1] = IF from = NoSid THEN minted + 1 ELSE origin[from]
         /\ parent'[minted + 1] = from
         /\ \A u \in Sids \ {minted + 1} : origin'[u] = origin[u] /\ parent'[u] = parent[u]
BY DEF Mint, TypeInv, TypeOK

\* The request that was granted forgets its token; the others go on waiting.
LEMMA GrantWrites ==
  ASSUME TypeInv, NEW r \in Requests, Grants200(r)
  PROVE  /\ req'[r].pc = "idle" /\ \A q \in Requests \ {r} : req'[q] = req[q]
         /\ NoMint /\ over' = over
         /\ known' = known \cup {req[r].sid} /\ spent' = spent \cup ({req[r].tok} \ {NoSid})
BY AnswerWrites DEF Grants200, Grant, Answer

\* What exchanging has written, and from what.
LEMMA ExchangeWrites ==
  ASSUME TypeInv, Safe, NEW r \in Requests, NEW from \in Sids \cup {NoSid}, Exchanges(r, from)
  PROVE  /\ from \in known \cup {NoSid}
         /\ from # NoSid => req[r].pc \in Holding /\ from = req[r].tok /\ Dead(from)'
         /\ from = NoSid => req[r].pc = "idle"
         /\ req'[r].pc = "record" /\ req'[r].tok = from /\ req'[r].sid = minted + 1
         /\ req'[r].late = req[r].late
         /\ minted' = minted + 1 /\ minted + 1 \in Sids
         /\ \A q \in Requests \ {r} : req'[q] = req[q]
         /\ over' = over /\ past' = past /\ OnlyKills
<1>1. from # NoSid => req[r].pc \in Holding /\ from = req[r].tok /\ Dead(from)'
  BY DEF Exchanges
<1>2. from \in known \cup {NoSid}
  BY <1>1, Carries, KindsOfPc
<1> QED
  BY <1>1, <1>2, MintWrites DEF Exchanges

-----------------------------------------------------------------------------
\* Nothing lives that no client was sent: a grant shows what it brings to life.
LEMMA LiveKnownKept ==
  ASSUME TypeInv, Safe, LiveKnown, OneOfFour
  PROVE  LiveKnown'
<1>1. CASE OnlyKills
  BY <1>1 DEF LiveKnown, OnlyKills
<1>2. ASSUME NEW r \in Requests, NEW s \in Sids, TakesUp(r, s) PROVE LiveKnown'
  BY <1>2 DEF TakesUp, LiveKnown, stores, history
<1>3. ASSUME NEW r \in Requests, Grants200(r) PROVE LiveKnown'
  <2>1. known' = known \cup {req[r].sid}
    BY <1>3, GrantWrites
  <2> QED
    BY <1>3, <2>1 DEF Grants200, LiveKnown, TypeInv, TypeOK
<1> QED
  BY <1>1, <1>2, <1>3 DEF OneOfFour, Ages, Exchanges

\* No request begins to exchange a token that another exchanges.
LEMMA OneExchangeKept ==
  ASSUME SingleFlight, TypeInv, Safe, OneExchange, OneOfFour
  PROVE  OneExchange'
<1>1. CASE Ages
  <2>1. \A q \in Requests : req'[q].pc \in Exchanging =>
          req[q].pc \in Exchanging /\ req'[q].tok = req[q].tok
    BY <1>1, KindsOfPc DEF Ages, GoesOn
  <2> QED
    BY <2>1 DEF OneExchange
<1>2. ASSUME NEW r \in Requests, NEW s \in Sids, TakesUp(r, s) PROVE OneExchange'
  <2>1. req'[r].pc \in Exchanging =>
          \A q \in Requests : req[q].pc \in Exchanging => req[q].tok # s
    BY <1>2, KindsOfPc DEF TakesUp, InFlight, Exchanging
  <2>2. req'[r].tok = s /\ \A q \in Requests \ {r} : req'[q] = req[q]
    BY <1>2 DEF TakesUp
  <2> QED
    BY <2>1, <2>2 DEF OneExchange
<1>3. ASSUME NEW r \in Requests, NEW from \in Sids \cup {NoSid}, Exchanges(r, from)
      PROVE  OneExchange'
  <2>1. /\ from # NoSid => req[r].pc \in Exchanging /\ from = req[r].tok
        /\ req'[r].tok = from /\ \A q \in Requests \ {r} : req'[q] = req[q]
    BY <1>3, ExchangeWrites, KindsOfPc
  <2> QED
    BY <2>1 DEF OneExchange
<1>4. ASSUME NEW r \in Requests, Grants200(r) PROVE OneExchange'
  <2>1. req'[r].pc \notin Exchanging /\ \A q \in Requests \ {r} : req'[q] = req[q]
    BY <1>4, GrantWrites, KindsOfPc
  <2> QED
    BY <2>1 DEF OneExchange
<1> QED
  BY <1>1, <1>2, <1>3, <1>4 DEF OneOfFour

\* A token that is being exchanged in time is not spent by anybody else.
LEMMA NotSpentKept ==
  ASSUME TypeInv, Safe, OneExchange, \A r \in Requests : NotSpent(r), OneOfFour,
         NEW q \in Requests
  PROVE  NotSpent(q)'
<1>1. CASE Ages
  BY <1>1, KindsOfPc DEF Ages, GoesOn, NotSpent, OnlyKills
<1>2. ASSUME NEW r \in Requests, NEW s \in Sids, TakesUp(r, s) PROVE NotSpent(q)'
  <2>1. spent' = spent
    BY <1>2 DEF TakesUp, history
  <2>2. req'[r].tok = s /\ (~req'[r].late => s \notin spent)
    BY <1>2 DEF TakesUp
  <2>3. q # r => req'[q] = req[q]
    BY <1>2 DEF TakesUp
  <2> QED
    BY <2>1, <2>2, <2>3 DEF NotSpent
<1>3. ASSUME NEW r \in Requests, NEW from \in Sids \cup {NoSid}, Exchanges(r, from)
      PROVE  NotSpent(q)'
  <2>1. /\ from # NoSid => req[r].pc \in Exchanging /\ from = req[r].tok
        /\ req'[r].tok = from /\ req'[r].late = req[r].late
        /\ \A p \in Requests \ {r} : req'[p] = req[p]
        /\ spent' = spent
    BY <1>3, ExchangeWrites, KindsOfPc DEF OnlyKills
  <2> QED
    BY <2>1 DEF NotSpent
<1>4. ASSUME NEW r \in Requests, Grants200(r) PROVE NotSpent(q)'
  <2>1. req'[r].pc \notin Exchanging /\ \A p \in Requests \ {r} : req'[p] = req[p]
    BY <1>4, GrantWrites, KindsOfPc
  <2>2. spent' = spent \cup ({req[r].tok} \ {NoSid}) /\ req[r].pc \in Exchanging
    BY <1>4, GrantWrites, KindsOfPc DEF Grants200
  <2>3. CASE q = r
    BY <2>1, <2>3 DEF NotSpent
  <2>4. CASE q # r
    <3>1. req[q].pc \in Exchanging /\ req[q].tok # NoSid => req[q].tok # req[r].tok
      BY <2>2, <2>4 DEF OneExchange
    <3> QED
      BY <2>1, <2>2, <2>4, <3>1 DEF NotSpent
  <2> QED
    BY <2>3, <2>4
<1> QED
  BY <1>1, <1>2, <1>3, <1>4 DEF OneOfFour

\* Every session descends from a login that was minted.
LEMMA OriginsKept ==
  ASSUME TypeInv, Safe, Origins, OneOfFour
  PROVE  Origins'
<1>1. CASE Ages
  <2>1. minted' = minted /\ origin' = origin
    BY <1>1 DEF Ages, NoMint
  <2>2. over' \subseteq 1 .. minted
    <3>1. \A s \in known : origin[s] \in 1 .. minted
      BY DEF TypeInv, Minted, Origins
    <3>2. over' = over \/ \E s \in known : over' = over \cup {origin[s]}
      BY <1>1 DEF Ages, SignsOff
    <3>3. over \subseteq 1 .. minted
      BY DEF Origins
    <3>4. ASSUME NEW s \in known, over' = over \cup {origin[s]} PROVE over' \subseteq 1 .. minted
      BY <3>1, <3>3, <3>4
    <3> QED
      BY <3>2, <3>3, <3>4
  <2> QED
    BY <2>1, <2>2 DEF Origins
<1>2. ASSUME NEW r \in Requests, NEW s \in Sids, TakesUp(r, s) PROVE Origins'
  BY <1>2 DEF TakesUp, NoMint, Origins, history
<1>3. ASSUME NEW r \in Requests, NEW from \in Sids \cup {NoSid}, Exchanges(r, from)
      PROVE  Origins'
  <2>1. /\ minted' = minted + 1 /\ minted + 1 \in Sids /\ over' = over
        /\ from \in known \cup {NoSid} /\ minted \in Nat /\ known \subseteq 1 .. minted
    BY <1>3, ExchangeWrites, Carries
  <2>2. /\ origin'[minted + 1] = IF from = NoSid THEN minted + 1 ELSE origin[from]
        /\ \A u \in Sids \ {minted + 1} : origin'[u] = origin[u]
    BY <1>3, MintLineage DEF Exchanges
  <2>3. origin'[minted + 1] \in 1 .. minted + 1
    BY <2>1, <2>2 DEF Origins
  <2>4. ASSUME NEW u \in 1 .. minted PROVE origin'[u] \in 1 .. minted + 1
    <3>1. u \in Sids \ {minted + 1}
      BY <2>1, Carries, <1>3
    <3> QED
      BY <2>1, <2>2, <3>1 DEF Origins
  <2>5. over \subseteq 1 .. minted + 1
    BY <2>1 DEF Origins
  <2>6. 1 .. minted + 1 = (1 .. minted) \cup {minted + 1}
    BY <2>1
  <2> QED
    BY <2>1, <2>3, <2>4, <2>5, <2>6 DEF Origins
<1>4. ASSUME NEW r \in Requests, Grants200(r) PROVE Origins'
  BY <1>4, GrantWrites DEF NoMint, Origins
<1> QED
  BY <1>1, <1>2, <1>3, <1>4 DEF OneOfFour

\* The session being created is of its token's login, or a login by itself.
LEMMA LineageKept ==
  ASSUME TypeInv, Safe, Origins, \A r \in Requests : Lineage(r), OneOfFour, NEW q \in Requests
  PROVE  Lineage(q)'
<1>1. CASE Ages
  <2>1. /\ req'[q].pc \in Creating =>
             req[q].pc \in Creating /\ req'[q].tok = req[q].tok /\ req'[q].sid = req[q].sid
        /\ minted' = minted /\ origin' = origin
    BY <1>1, KindsOfPc DEF Ages, GoesOn, NoMint
  <2> QED
    BY <2>1 DEF Lineage
<1>2. ASSUME NEW r \in Requests, NEW s \in Sids, TakesUp(r, s) PROVE Lineage(q)'
  <2>1. req'[r].pc \notin Creating /\ (q # r => req'[q] = req[q])
    BY <1>2, KindsOfPc DEF TakesUp, Exchanging
  <2>2. minted' = minted /\ origin' = origin
    BY <1>2 DEF TakesUp, NoMint
  <2> QED
    BY <2>1, <2>2 DEF Lineage
<1>3. ASSUME NEW r \in Requests, NEW from \in Sids \cup {NoSid}, Exchanges(r, from)
      PROVE  Lineage(q)'
  <2> DEFINE n == minted + 1
  <2>1. /\ minted' = n /\ n \in Sids /\ minted \in Nat
        /\ known \subseteq 1 .. minted /\ from \in known \cup {NoSid}
        /\ req'[r].tok = from /\ req'[r].sid = n /\ (q # r => req'[q] = req[q])
    BY <1>3, ExchangeWrites, Carries
  <2>2. /\ origin'[n] = IF from = NoSid THEN n ELSE origin[from]
        /\ \A u \in Sids \ {n} : origin'[u] = origin[u]
    BY <1>3, MintLineage DEF Exchanges
  <2>3. \A u \in 1 .. minted : u \in Sids /\ u # n /\ u # NoSid
    BY <2>1, Carries, <1>3
  <2>4. 1 .. minted' = (1 .. minted) \cup {n}
    BY <2>1
  <2> HIDE DEF n
  <2>5. \A u \in 1 .. minted : origin'[u] = origin[u] /\ origin[u] # n
    <3>1. \A u \in 1 .. minted : origin[u] \in 1 .. minted
      BY DEF Origins
    <3> QED
      BY <2>2, <2>3, <3>1
  <2>6. CASE q = r
    <3>1. CASE from = NoSid
      BY <2>1, <2>2, <2>4, <2>5, <2>6, <3>1 DEF Lineage
    <3>2. CASE from # NoSid
      BY <2>1, <2>2, <2>5, <2>6, <3>2 DEF Lineage
    <3> QED
      BY <3>1, <3>2
  <2>7. ASSUME q # r, req[q].pc \in Creating PROVE Lineage(q)'
    <3>1. /\ req[q].sid \in 1 .. minted /\ req[q].sid \notin known
          /\ req[q].tok \in known \cup {NoSid}
      BY <2>7, Carries
    <3>2. CASE req[q].tok = NoSid
      <4>1. /\ origin[req[q].sid] = req[q].sid
            /\ \A u \in 1 .. minted : origin[u] = req[q].sid => u = req[q].sid
        BY <2>7, <3>2 DEF Lineage
      <4>2. origin'[n] # req[q].sid
        BY <2>1, <2>2, <2>3, <3>1, <4>1
      <4> QED
        BY <2>1, <2>4, <2>5, <2>7, <3>1, <3>2, <4>1, <4>2 DEF Lineage
    <3>3. CASE req[q].tok # NoSid
      <4>1. req[q].tok \in 1 .. minted
        BY <2>1, <3>1, <3>3
      <4> QED
        BY <2>1, <2>5, <2>7, <3>1, <3>3, <4>1 DEF Lineage
    <3> QED
      BY <3>2, <3>3
  <2>8. CASE q # r /\ req[q].pc \notin Creating
    BY <2>1, <2>8 DEF Lineage
  <2> QED
    BY <2>6, <2>7, <2>8
<1>4. ASSUME NEW r \in Requests, Grants200(r) PROVE Lineage(q)'
  <2>1. /\ req'[r].pc \notin Creating /\ (q # r => req'[q] = req[q])
        /\ minted' = minted /\ origin' = origin
    BY <1>4, GrantWrites, KindsOfPc DEF NoMint
  <2> QED
    BY <2>1 DEF Lineage
<1> QED
  BY <1>1, <1>2, <1>3, <1>4 DEF OneOfFour

\* Of the tokens of one login that were sent, at most one is not spent.
LEMMA NewestKept ==
  ASSUME TypeInv, Safe, Newest, \A r \in Requests : NotSpent(r) /\ Lineage(r), OneOfFour
  PROVE  Newest'
<1>1. CASE Ages
  BY <1>1 DEF Ages, OnlyKills, NoMint, Newest
<1>2. ASSUME NEW r \in Requests, NEW s \in Sids, TakesUp(r, s) PROVE Newest'
  BY <1>2 DEF TakesUp, NoMint, history, Newest
<1>3. ASSUME NEW r \in Requests, NEW from \in Sids \cup {NoSid}, Exchanges(r, from)
      PROVE  Newest'
  <2>1. /\ known' = known /\ spent' = spent /\ minted \in Nat
        /\ \A u \in known : u \in Sids \ {minted + 1}
    BY <1>3, Carries DEF Exchanges, OnlyKills
  <2>2. \A u \in Sids \ {minted + 1} : origin'[u] = origin[u]
    BY <1>3, MintLineage DEF Exchanges
  <2> QED
    BY <2>1, <2>2 DEF Newest
<1>4. ASSUME NEW r \in Requests, Grants200(r) PROVE Newest'
  <2> DEFINE n == req[r].sid
             t == req[r].tok
  <2>1. known' = known \cup {n} /\ spent' = spent \cup ({t} \ {NoSid}) /\ origin' = origin
    BY <1>4, GrantWrites DEF NoMint
  <2>2. /\ req[r].pc \in Creating /\ n \notin known /\ known \subseteq 1 .. minted
        /\ t \in known \cup {NoSid} /\ ~req[r].late
    BY <1>4, Carries DEF Grants200
  <2>3. ASSUME NEW u \in known \ spent', origin[u] = origin[n] PROVE FALSE
    <3>1. CASE t = NoSid
      BY <2>2, <2>3, <3>1 DEF Lineage
    <3>2. CASE t # NoSid
      <4>1. origin[n] = origin[t] /\ t \in known \ spent
        BY <2>2, <3>2, KindsOfPc DEF Lineage, NotSpent
      <4>2. u = t
        BY <2>1, <2>3, <4>1 DEF Newest
      <4> QED
        BY <2>1, <2>3, <3>2, <4>2
    <3> QED
      BY <3>1, <3>2
  <2> QED
    BY <2>1, <2>3 DEF Newest
<1> QED
  BY <1>1, <1>2, <1>3, <1>4 DEF OneOfFour

\* While tokens age, nothing that is worth nothing becomes worth something.
LEMMA AgesImpotent ==
  ASSUME TypeInv, Ages, NEW s \in Sids, Potent(s)'
  PROVE  Potent(s)
<1>1. CASE ~Dead(s)'
  BY <1>1 DEF Ages, OnlyKills, Dead, Potent
<1>2. ASSUME NEW q \in Requests, req'[q].pc \in Holding, req'[q].tok = s PROVE Potent(s)
  <2>1. req[q].tok = s /\ (req[q].pc \in Holding \/ Live(s))
    BY <1>2 DEF Ages, GoesOn, Holding
  <2> QED
    BY <2>1 DEF Potent, Held, Live, Dead, Holding
<1>3. ASSUME NEW q \in Requests, req'[q].pc \in Creating, req'[q].sid = s PROVE Potent(s)
  <2>1. req[q].pc \in Creating /\ req[q].sid = s
    BY <1>3, KindsOfPc DEF Ages, GoesOn
  <2> QED
    BY <2>1 DEF Potent, Born
<1>4. (\E q \in Requests : req'[q].pc \in Holding /\ req'[q].tok = s) \/ ~Held(s)'
  BY DEF Held, Holding
<1>5. (\E q \in Requests : req'[q].pc \in Creating /\ req'[q].sid = s) \/ ~Born(s)'
  BY DEF Born
<1> QED
  BY <1>1, <1>2, <1>3, <1>4, <1>5 DEF Potent

\* The sign-out of the newest token, with no other request on its login, leaves
\* nothing of the login.
LEMMA SignsOffAll ==
  ASSUME TypeInv, Safe, LiveKnown, Origins, Newest, \A r \in Requests : Lineage(r), Ages,
         NEW s \in Sids, SignsOff(s), NEW t \in 1 .. minted, origin[t] = origin[s]
  PROVE  ~Potent(t)'
<1>1. /\ s \in known /\ s \notin spent /\ Dead(s)' /\ t \in Sids /\ s \in 1 .. minted
      /\ \A u \in Sids : origin[u] = origin[s] => InFlight(u) = {}
  <2>1. 1 .. minted \subseteq Sids
    BY SessionsAssumption DEF TypeInv, TypeOK, Sids
  <2>2. known \subseteq 1 .. minted
    BY DEF TypeInv, Minted
  <2> QED
    BY <2>1, <2>2 DEF SignsOff, Unshared
<1>2. Dead(t)'
  <2> SUFFICES ASSUME ~Dead(t)' PROVE t = s
    BY <1>1
  <2>1. ~Dead(t)
    BY <1>1 DEF Ages, OnlyKills, Dead
  <2>2. t \in known /\ t \notin spent
    BY <1>1, <2>1 DEF LiveKnown, Dead, Safe, RetiredDead, Retired
  <2> QED
    BY <1>1, <2>2 DEF Newest
<1>3. ASSUME NEW q \in Requests, req'[q].pc \in Holding, req'[q].tok = t PROVE FALSE
  <2>1. req[q].pc \in Exchanging /\ req[q].tok = t
    BY <1>3, KindsOfPc DEF Ages, GoesOn
  <2> QED
    BY <1>1, <2>1 DEF InFlight, Exchanging
<1>4. ASSUME NEW q \in Requests, req'[q].pc \in Creating, req'[q].sid = t PROVE FALSE
  <2>1. req[q].pc \in Creating /\ req[q].sid = t
    BY <1>4, KindsOfPc DEF Ages, GoesOn
  <2>2. req[q].tok \in known \cup {NoSid} /\ t \notin known
    BY <2>1, Carries
  <2>3. CASE req[q].tok = NoSid
    <3>1. s = t
      BY <1>1, <2>1, <2>3 DEF Lineage
    <3> QED
      BY <1>1, <2>2, <3>1
  <2>4. CASE req[q].tok # NoSid
    <3>1. origin[req[q].tok] = origin[s] /\ req[q].tok \in Sids
      BY <2>1, <2>2, <2>4 DEF Lineage, TypeInv, TypeOK
    <3> QED
      BY <1>1, <2>1, <3>1 DEF InFlight
  <2> QED
    BY <2>3, <2>4
<1> QED
  BY <1>2, <1>3, <1>4 DEF Potent, Held, Holding, Born

\* A login that was ended stays ended.
LEMMA OverEndedKept ==
  ASSUME TypeInv, Safe, LiveKnown, Origins, Newest, OverEnded,
         \A r \in Requests : Lineage(r), OneOfFour
  PROVE  OverEnded'
<1>1. CASE Ages
  <2>1. minted' = minted /\ origin' = origin
    BY <1>1 DEF Ages, NoMint
  <2>2. ASSUME NEW t \in 1 .. minted, origin[t] \in over' PROVE ~Potent(t)'
    <3>1. CASE origin[t] \in over
      <4>1. t \in Sids
        BY SessionsAssumption DEF TypeInv, TypeOK, Sids
      <4>2. ~Potent(t)
        BY <3>1 DEF OverEnded
      <4> QED
        BY <1>1, <4>1, <4>2, AgesImpotent
    <3>2. ASSUME NEW s \in Sids, SignsOff(s), origin[t] = origin[s] PROVE ~Potent(t)'
      BY <1>1, <3>2, SignsOffAll
    <3> QED
      BY <1>1, <2>2, <3>1, <3>2 DEF Ages, SignsOff
  <2> QED
    BY <2>1, <2>2 DEF OverEnded
<1>2. ASSUME NEW r \in Requests, NEW s \in Sids, TakesUp(r, s) PROVE OverEnded'
  <2>1. \A q \in Requests :
          /\ req'[q].pc \in Holding => req'[q] = req[q]
          /\ req'[q].pc \in Creating => req'[q] = req[q]
    BY <1>2, KindsOfPc DEF TakesUp, Exchanging
  <2>2. UNCHANGED <<row, cache, minted, origin, over>>
    BY <1>2 DEF TakesUp, stores, history, NoMint
  <2>3. ASSUME NEW t, Potent(t)' PROVE Potent(t)
    BY <2>1, <2>2, <2>3 DEF Potent, Dead, Held, Holding, Born
  <2> QED
    BY <2>2, <2>3 DEF OverEnded
<1>3. ASSUME NEW r \in Requests, NEW from \in Sids \cup {NoSid}, Exchanges(r, from)
      PROVE  OverEnded'
  <2> DEFINE n == minted + 1
  <2>1. /\ minted' = n /\ n \in Sids /\ minted \in Nat /\ over' = over
        /\ known \subseteq 1 .. minted /\ from \in known \cup {NoSid} /\ OnlyKills
        /\ from # NoSid => req[r].pc \in Holding /\ from = req[r].tok
        /\ req'[r].pc \notin Holding /\ req'[r].sid = n
        /\ \A q \in Requests \ {r} : req'[q] = req[q]
    BY <1>3, ExchangeWrites, Carries, KindsOfPc
  <2>2. /\ origin'[n] = IF from = NoSid THEN n ELSE origin[from]
        /\ \A u \in Sids \ {n} : origin'[u] = origin[u]
    BY <1>3, MintLineage DEF Exchanges
  <2>3. \A u \in 1 .. minted : u \in Sids /\ u # n
    BY <2>1, Carries, <1>3
  <2>4. 1 .. minted' = (1 .. minted) \cup {n}
    BY <2>1
  <2>5. n \notin over
    BY <2>1 DEF Origins
  <2> HIDE DEF n
  <2>6. origin'[n] \notin over
    <3>1. CASE from = NoSid
      BY <2>2, <2>5, <3>1
    <3>2. CASE from # NoSid
      <4>1. Potent(from)
        BY <2>1, <3>2 DEF Potent, Held, Holding
      <4> QED
        BY <2>1, <2>2, <3>2, <4>1 DEF OverEnded
    <3> QED
      BY <3>1, <3>2
  <2>7. ASSUME NEW t \in 1 .. minted, Potent(t)' PROVE Potent(t)
    BY <2>1, <2>3, <2>7 DEF Potent, Dead, Held, Holding, Born, OnlyKills
  <2> QED
    BY <2>1, <2>2, <2>3, <2>4, <2>6, <2>7 DEF OverEnded
<1>4. ASSUME NEW r \in Requests, Grants200(r) PROVE OverEnded'
  <2>1. /\ req'[r].pc = "idle" /\ \A q \in Requests \ {r} : req'[q] = req[q]
        /\ UNCHANGED <<minted, origin, over>>
        /\ "idle" \notin Holding /\ "idle" \notin Creating
    BY <1>4, GrantWrites, KindsOfPc DEF NoMint
  <2>2. ASSUME NEW t \in 1 .. minted, Potent(t)' PROVE Potent(t)
    <3>1. CASE t = req[r].sid
      BY <1>4, <3>1 DEF Grants200, Potent, Born
    <3>2. CASE t # req[r].sid
      <4>1. t \in Sids
        BY <1>4, Carries
      <4>2. Dead(t) => Dead(t)'
        BY <1>4, <3>2, <4>1 DEF Grants200, Dead, TypeInv, TypeOK
      <4>3. (Held(t)' => Held(t)) /\ (Born(t)' => Born(t))
        BY <2>1 DEF Held, Holding, Born
      <4> QED
        BY <2>2, <4>2, <4>3 DEF Potent
    <3> QED
      BY <3>1, <3>2
  <2> QED
    BY <2>1, <2>2 DEF OverEnded
<1> QED
  BY <1>1, <1>2, <1>3, <1>4 DEF OneOfFour

\* A token that was exchanged never lives again, and is in no other exchange.
LEMMA ParentsKept ==
  ASSUME TypeInv, Safe, OneExchange, Parents, OneOfFour
  PROVE  Parents'
<1>1. known \subseteq Sids
  BY DEF TypeInv, TypeOK
<1>2. CASE Ages
  <2>1. minted' = minted /\ parent' = parent /\ known' = known
    BY <1>2 DEF Ages, NoMint, OnlyKills
  <2>2. ASSUME NEW s \in Sids, Dead(s), ~Held(s) PROVE Dead(s)' /\ ~Held(s)'
    <3>1. Dead(s)'
      BY <1>2, <2>2 DEF Ages, OnlyKills, Dead
    <3>2. ~Live(s)
      BY <2>2 DEF Live, Dead
    <3>3. ~Held(s)'
      BY <1>2, <2>2, <3>2 DEF Ages, GoesOn, Held, Holding
    <3> QED
      BY <3>1, <3>3
  <2> QED
    BY <1>1, <2>1, <2>2 DEF Parents
<1>3. ASSUME NEW r \in Requests, NEW s \in Sids, TakesUp(r, s) PROVE Parents'
  <2>1. \A q \in Requests : req'[q].pc \in Holding => req'[q] = req[q]
    BY <1>3, KindsOfPc DEF TakesUp, Exchanging
  <2>2. UNCHANGED <<row, cache, minted, parent, known>>
    BY <1>3 DEF TakesUp, stores, history, NoMint
  <2>3. ASSUME NEW t PROVE (Dead(t) => Dead(t)') /\ (Held(t)' => Held(t))
    BY <2>1, <2>2 DEF Dead, Held, Holding
  <2> QED
    BY <2>2, <2>3 DEF Parents
<1>4. ASSUME NEW r \in Requests, NEW from \in Sids \cup {NoSid}, Exchanges(r, from)
      PROVE  Parents'
  <2> DEFINE n == minted + 1
  <2>1. /\ minted' = n /\ n \in Sids /\ minted \in Nat /\ known' = known
        /\ from \in known \cup {NoSid} /\ OnlyKills
        /\ from # NoSid => req[r].pc \in Holding /\ from = req[r].tok /\ Dead(from)'
        /\ req'[r].pc \notin Holding
        /\ \A q \in Requests \ {r} : req'[q] = req[q]
    BY <1>4, ExchangeWrites, Carries, KindsOfPc DEF OnlyKills
  <2>2. parent'[n] = from /\ \A u \in Sids \ {n} : parent'[u] = parent[u]
    BY <1>4, MintLineage DEF Exchanges
  <2>3. 1 .. minted' = (1 .. minted) \cup {n}
    BY <2>1
  <2> HIDE DEF n
  <2>4. ASSUME NEW s \in Sids PROVE (Dead(s) => Dead(s)') /\ (Held(s)' => Held(s))
    BY <2>1 DEF OnlyKills, Dead, Held, Holding
  <2>5. from # NoSid => ~Held(from)'
    <3>1. ASSUME from # NoSid, NEW q \in Requests \ {r}, req[q].pc \in Holding PROVE req[q].tok # from
      BY <2>1, <3>1, KindsOfPc DEF OneExchange
    <3> QED
      BY <2>1, <3>1 DEF Held, Holding
  <2>6. ASSUME NEW p \in known, Dead(p), ~Held(p) PROVE Dead(p)' /\ ~Held(p)'
    BY <1>1, <2>4, <2>6
  <2>7. ASSUME NEW c \in Sids \ {n}, parent[c] # NoSid
        PROVE  /\ c \in 1 .. minted' /\ parent[c] \in known'
               /\ \A p \in known : p = parent[c] => Dead(p)' /\ ~Held(p)'
    BY <2>1, <2>3, <2>6, <2>7 DEF Parents
  <2>8. \A p \in known : p = from => Dead(p)' /\ ~Held(p)'
    BY <2>1, <2>5, Carries, <1>4
  <2>9. from # NoSid => from \in known' /\ n \in 1 .. minted'
    BY <2>1, <2>3
  <2>10. ASSUME NEW c \in Sids, parent'[c] # NoSid
         PROVE  /\ c \in 1 .. minted' /\ parent'[c] \in known'
                /\ \A p \in known : p = parent'[c] => Dead(p)' /\ ~Held(p)'
    BY <2>2, <2>7, <2>8, <2>9, <2>10
  <2> QED
    BY <2>1, <2>10 DEF Parents, Dead, Held
<1>5. ASSUME NEW r \in Requests, Grants200(r) PROVE Parents'
  <2>1. /\ req'[r].pc = "idle" /\ \A q \in Requests \ {r} : req'[q] = req[q]
        /\ UNCHANGED <<minted, parent>> /\ known \subseteq known' /\ "idle" \notin Holding
    BY <1>5, GrantWrites, KindsOfPc DEF NoMint
  <2>2. req[r].sid \notin known
    BY <1>5, Carries DEF Grants200
  <2>3. ASSUME NEW s \in known PROVE (Dead(s) => Dead(s)') /\ (Held(s)' => Held(s))
    <3>1. Dead(s) => Dead(s)'
      BY <1>5, <2>2 DEF Grants200, Dead, TypeInv, TypeOK
    <3>2. Held(s)' => Held(s)
      BY <2>1 DEF Held, Holding
    <3> QED
      BY <3>1, <3>2
  <2> QED
    BY <2>1, <2>3 DEF Parents
<1> QED
  BY <1>2, <1>3, <1>4, <1>5 DEF OneOfFour

\* Only rows that were written expire.
LEMMA PastWrittenKept ==
  ASSUME TypeInv, Safe, PastWritten, OneOfFour
  PROVE  PastWritten'
<1>1. past \subseteq Sids
  BY DEF TypeInv, TypeOK
<1>2. CASE Ages
  <2>1. \A s \in past' : s \in Sids /\ row[s] # "none"
    <3>1. ASSUME NEW s \in past', s \notin past PROVE s \in Sids /\ row[s] # "none"
      BY <1>2, <3>1 DEF Ages
    <3> QED
      BY <1>1, <3>1 DEF PastWritten
  <2> QED
    BY <1>2, <2>1 DEF Ages, OnlyKills, PastWritten
<1>3. ASSUME NEW r \in Requests, NEW s \in Sids, TakesUp(r, s) PROVE PastWritten'
  BY <1>3 DEF TakesUp, stores, PastWritten
<1>4. ASSUME NEW r \in Requests, NEW from \in Sids \cup {NoSid}, Exchanges(r, from)
      PROVE  PastWritten'
  BY <1>1, <1>4 DEF Exchanges, OnlyKills, PastWritten
<1>5. ASSUME NEW r \in Requests, Grants200(r) PROVE PastWritten'
  BY <1>1, <1>5 DEF Grants200, PastWritten, TypeInv, TypeOK
<1> QED
  BY <1>2, <1>3, <1>4, <1>5 DEF OneOfFour

\* The inductive invariant, with the chains where they are promised.
ChainInv == Inv /\ (Honest /\ SingleFlight => Chains)

\* No session yet: no chain.
LEMMA ChainsInit == Init => Chains
<1> SUFFICES ASSUME Init PROVE Chains
  OBVIOUS
<1>1. \A r \in Requests : req[r].pc \notin Exchanging
  BY KindsOfPc DEF Init, Idle
<1>2. OneExchange /\ \A r \in Requests : NotSpent(r) /\ Lineage(r)
  BY <1>1, KindsOfPc DEF OneExchange, NotSpent, Lineage
<1> QED
  BY <1>2 DEF Init, Chains, LiveKnown, Origins, Newest, OverEnded, Parents, PastWritten

\* Every step keeps the chains.
LEMMA ChainsStep == ASSUME Honest, SingleFlight, Inv, Chains, [Next]_vars PROVE Chains'
<1>1. TypeInv /\ Safe /\ OneOfFour
  BY StepKinds DEF Inv
<1> QED
  BY <1>1, LiveKnownKept, OneExchangeKept, NotSpentKept, OriginsKept, LineageKept, NewestKept,
     OverEndedKept, ParentsKept, PastWrittenKept DEF Chains

\* The chains hold in every reachable state.
LEMMA ChainInvariant == Spec => []ChainInv
<1>1. Init => ChainInv
  BY TypeInvInit, SafeInit, ChainsInit DEF ChainInv, Inv
<1>2. ChainInv /\ [Next]_vars => ChainInv'
  <2> SUFFICES ASSUME ChainInv, [Next]_vars PROVE ChainInv'
    OBVIOUS
  <2>1. (Honest /\ SingleFlight)' = (Honest /\ SingleFlight)
    BY DEF Honest
  <2>2. Inv'
    <3>1. Honest' = Honest
      BY DEF Honest
    <3> QED
      BY <3>1, TypeInvStep, SafeStep DEF ChainInv, Inv
  <2> QED
    BY <2>1, <2>2, ChainsStep DEF ChainInv
<1> QED
  BY <1>1, <1>2, PTL DEF Spec

\* When pages share one refresh and no applied write is reported as failed, a login
\* holds at most one live refresh token, however long its chain of rotations.
THEOREM OneTokenPerLogin == SingleFlight => (Spec => []OneLiveTokenPerLogin)
<1>1. ChainInv /\ SingleFlight => OneLiveTokenPerLogin
  <2> SUFFICES ASSUME Safe, Chains, NEW s \in Sids, NEW t \in Sids,
                      Live(s), Live(t), origin[s] = origin[t]
               PROVE  s = t
    BY DEF ChainInv, Inv, OneLiveTokenPerLogin
  <2>1. ASSUME NEW u \in Sids, Live(u) PROVE u \in known \ spent
    BY <2>1 DEF Chains, LiveKnown, Live, Safe, RetiredDead, Retired, Dead
  <2> QED
    BY <2>1 DEF Chains, Newest
<1>2. CASE SingleFlight
  <2>1. ChainInv => OneLiveTokenPerLogin
    BY <1>1, <1>2
  <2> QED
    BY <2>1, ChainInvariant, PTL
<1> QED
  BY <1>2

\* When pages share one refresh and no applied write is reported as failed: signing the
\* newest token of a login out, while no refresh of that login is in flight, ends it.
THEOREM SignOutEndsLogin == Spec => []LogoutEndsLogin
<1>1. ChainInv => LogoutEndsLogin
  <2> SUFFICES ASSUME TypeInv, Chains, NEW s \in known, origin[s] \in over PROVE ~Live(s)
    BY DEF ChainInv, Inv, LogoutEndsLogin
  <2>1. s \in 1 .. minted
    BY DEF TypeInv, Minted
  <2> QED
    BY <2>1 DEF Chains, OverEnded, Potent, Dead, Live
<1> QED
  BY <1>1, ChainInvariant, PTL

-----------------------------------------------------------------------------
(***************************************************************************)
(* The refinement.  Ageing withdraws the tokens that stop living; an       *)
(* exchange redeems the token it retires, which is live because the request*)
(* holds it; a grant issues the session it stores; and taking a token up,  *)
(* or minting the session of a login, is a stutter.                        *)
(***************************************************************************)
StageOf == [s \in Sids |-> Stage(s)]

GrantsOf == [s \in Sids |-> Grants(s)]

Still(s) == Stage(s)' = Stage(s) /\ Grants(s)' = Grants(s)

Usable(s) == Live(s) \/ Held(s)

\* A session was exchanged as often as sessions descend directly from it.
LEMMA GrantsCount ==
  ASSUME NEW s \in Sids
  PROVE  Grants(s) \in Nat /\ (Grants(s) = 0 <=> \A c \in Sids : parent[c] # s)
<1>1. IsFiniteSet(Sids)
  BY SessionsAssumption, FS_Interval DEF Sids
<1>2. IsFiniteSet({c \in Sids : parent[c] = s})
  BY <1>1, FS_Subset
<1> QED
  BY <1>2, FS_CardinalityType, FS_EmptySet DEF Grants

\* The stage of a session, by cases.
LEMMA Stages ==
  ASSUME NEW s \in Sids
  PROVE  /\ Grants(s) # 0 => Stage(s) = "spent"
         /\ Grants(s) = 0 /\ s \notin known => Stage(s) = "unissued"
         /\ Grants(s) = 0 /\ s \in known /\ Usable(s) => Stage(s) = "live"
         /\ Grants(s) = 0 /\ s \in known /\ ~Usable(s) => Stage(s) = "void"
BY GrantsCount DEF Stage, Usable

\* A session that is as usable, as known and as often exchanged as before is
\* in the stage it was in.
LEMMA StillThere ==
  ASSUME NEW s \in Sids, Grants(s)' = Grants(s), s \in known' <=> s \in known,
         Usable(s)' <=> Usable(s)
  PROVE  Still(s)
BY DEF Still, Stage, Usable

\* Ageing only withdraws.
LEMMA AgesWithdraws ==
  ASSUME TypeInv, Ages
  PROVE  Token!TokenNext
<1> DEFINE W == {s \in Sids : Stage(s)' # Stage(s)}
<1>1. known' = known /\ parent' = parent
  BY DEF Ages, OnlyKills, NoMint
<1>2. \A s \in Sids : Grants(s)' = Grants(s)
  BY <1>1 DEF Grants
<1>3. ASSUME NEW s \in Sids, Usable(s)' PROVE Usable(s)
  <2>1. CASE Live(s)'
    BY <2>1 DEF Ages, OnlyKills, Live, Usable
  <2>2. ASSUME NEW q \in Requests, req'[q].pc \in Holding, req'[q].tok = s PROVE Usable(s)
    BY <2>2 DEF Ages, GoesOn, Usable, Held, Holding
  <2>3. CASE Held(s)'
    BY <2>2, <2>3 DEF Held, Holding
  <2> QED
    BY <1>3, <2>1, <2>3 DEF Usable
<1>4. ASSUME NEW s \in Sids, Stage(s)' # Stage(s)
      PROVE  Stage(s) = "live" /\ Stage(s)' = "void"
  BY <1>1, <1>2, <1>3, <1>4 DEF Stage, Usable
<1>5. W \in SUBSET Sids
  OBVIOUS
<1> HIDE DEF W
<1>6. StageOf' = [s \in Sids |-> IF s \in W THEN "void" ELSE StageOf[s]]
  BY <1>4 DEF StageOf, W
<1>7. \A s \in W : StageOf[s] = "live"
  BY <1>4 DEF StageOf, W
<1>8. GrantsOf' = GrantsOf
  BY <1>2 DEF GrantsOf
<1>9. Token!Withdraw(W)
  BY <1>5, <1>6, <1>7, <1>8 DEF Token!Withdraw, StageOf, GrantsOf
<1> QED
  BY <1>5, <1>9 DEF Token!TokenNext

\* No session moves: a stutter.
LEMMA AllStill == ASSUME \A s \in Sids : Still(s) PROVE UNCHANGED <<StageOf, GrantsOf>>
BY DEF Still, StageOf, GrantsOf

\* One session moves.
LEMMA OneStirs ==
  ASSUME NEW t \in Sids, \A s \in Sids \ {t} : Still(s)
  PROVE  /\ StageOf' = [StageOf EXCEPT ![t] = Stage(t)']
         /\ GrantsOf' = [GrantsOf EXCEPT ![t] = Grants(t)']
BY DEF Still, StageOf, GrantsOf

\* Taking a token up moves none.
LEMMA TakesUpStutters ==
  ASSUME TypeInv, NEW r \in Requests, NEW s \in Sids, TakesUp(r, s)
  PROVE  UNCHANGED <<StageOf, GrantsOf>>
<1>1. \A q \in Requests : req'[q].pc \in Holding \/ req[q].pc \in Holding => req'[q] = req[q]
  BY KindsOfPc DEF TakesUp, Exchanging
<1>2. UNCHANGED <<row, past, cache, parent, known>>
  BY DEF TakesUp, stores, history, NoMint
<1>3. ASSUME NEW t \in Sids PROVE Still(t)
  <2>1. Usable(t)' <=> Usable(t)
    BY <1>1, <1>2 DEF Usable, Live, Held, Holding
  <2>2. Grants(t)' = Grants(t)
    BY <1>2 DEF Grants
  <2> QED
    BY <1>2, <2>1, <2>2, StillThere
<1> QED
  BY <1>3, AllStill

\* An exchange redeems the token it retires and leaves the others; a login
\* leaves them all.
LEMMA ExchangeRedeems ==
  ASSUME TypeInv, Safe, Chains, TypeInv', NEW r \in Requests, NEW from \in Sids \cup {NoSid},
         Exchanges(r, from)
  PROVE  [Token!TokenNext]_<<StageOf, GrantsOf>>
<1> DEFINE n == minted + 1
<1>1. /\ minted' = n /\ n \in Sids /\ minted \in Nat /\ known' = known /\ past' = past
      /\ from \in known \cup {NoSid} /\ known \subseteq 1 .. minted
      /\ from # NoSid => req[r].pc \in Holding /\ from = req[r].tok
      /\ from = NoSid => req[r].pc \notin Holding
      /\ req'[r].pc \notin Holding
      /\ \A q \in Requests \ {r} : req'[q] = req[q]
  BY ExchangeWrites, Carries, KindsOfPc DEF OnlyKills
<1>2. parent'[n] = from /\ \A u \in Sids \ {n} : parent'[u] = parent[u]
  BY MintLineage DEF Exchanges
<1>3. parent[n] = NoSid
  BY <1>1 DEF Chains, Parents
<1>4. \A s \in Sids : s # NoSid
  BY SidsAreNaturals
<1> HIDE DEF n
<1>5. ASSUME NEW t \in Sids \ {from} PROVE Still(t)
  <2>1. {c \in Sids : parent'[c] = t} = {c \in Sids : parent[c] = t}
    BY <1>1, <1>2, <1>3, <1>4
  <2>2. Grants(t)' = Grants(t)
    BY <2>1 DEF Grants
  <2>3. Live(t)' <=> Live(t)
    BY <1>1 DEF Exchanges, Live
  <2>4. Held(t)' <=> Held(t)
    BY <1>1 DEF Held, Holding
  <2> QED
    BY <1>1, <2>2, <2>3, <2>4, StillThere DEF Usable
<1>6. CASE from = NoSid
  BY <1>4, <1>5, <1>6, AllStill
<1>7. CASE from # NoSid
  <2>1. from \in Sids /\ from \in known /\ Held(from)
    BY <1>1, <1>7 DEF Held, Holding
  <2>2. \A c \in Sids : parent[c] # from
    BY <1>7, <2>1 DEF Chains, Parents
  <2>3. {c \in Sids : parent'[c] = from} = {n} /\ {c \in Sids : parent[c] = from} = {}
    BY <1>1, <1>2, <2>2
  <2>4. Grants(from) = 0 /\ Grants(from)' = 1
    BY <2>3, FS_EmptySet, FS_Singleton DEF Grants
  <2>5. Stage(from) = "live"
    BY <2>1, <2>4, Stages DEF Usable
  <2>6. Stage(from)' = "spent"
    BY <2>4 DEF Stage
  <2>7. /\ StageOf' = [StageOf EXCEPT ![from] = "spent"]
        /\ GrantsOf' = [GrantsOf EXCEPT ![from] = @ + 1]
    <3>1. GrantsOf[from] = 0
      BY <2>1, <2>4 DEF GrantsOf
    <3> QED
      BY <1>5, <2>1, <2>4, <2>6, <3>1, OneStirs
  <2>8. Token!Redeem(from)
    BY <2>1, <2>5, <2>7 DEF Token!Redeem, StageOf, GrantsOf
  <2> QED
    BY <2>1, <2>8 DEF Token!TokenNext
<1> QED
  BY <1>6, <1>7

\* A grant issues the session it stores.
LEMMA GrantIssues ==
  ASSUME TypeInv, Safe, Chains, NEW r \in Requests, Grants200(r)
  PROVE  Token!TokenNext
<1>1. PICK n \in Sids : n = req[r].sid
  BY Carries DEF Grants200
<1>2. n \notin known /\ row[n] = "none" /\ n \notin past
  BY <1>1, Carries DEF Grants200, Chains, PastWritten
<1>3. /\ known' = known \cup {n} /\ parent' = parent /\ past' = past
      /\ req'[r].pc \notin Holding /\ req[r].pc \notin Holding
      /\ \A q \in Requests \ {r} : req'[q] = req[q]
  BY <1>1, GrantWrites, KindsOfPc DEF NoMint, Grants200
<1>4. \A s \in Sids : Grants(s)' = Grants(s)
  BY <1>3 DEF Grants
<1>5. Grants(n) = 0
  <2>1. \A c \in Sids : parent[c] # n
    BY <1>2, SidsAreNaturals DEF Chains, Parents
  <2> QED
    BY <1>2, <2>1, GrantsCount
<1>6. Live(n)' /\ \A t \in Sids \ {n} : Live(t)' <=> Live(t)
  BY <1>1, <1>2, <1>3 DEF Grants200, Live, TypeInv, TypeOK
<1>7. Stage(n) = "unissued" /\ Stage(n)' = "live"
  BY <1>2, <1>3, <1>4, <1>5, <1>6 DEF Stage
<1>8. ASSUME NEW t \in Sids \ {n} PROVE Still(t)
  <2>1. Held(t)' <=> Held(t)
    BY <1>3 DEF Held, Holding
  <2> QED
    BY <1>3, <1>4, <1>6, <2>1, StillThere DEF Usable
<1>9. StageOf' = [StageOf EXCEPT ![n] = "live"] /\ GrantsOf' = GrantsOf
  <2>1. GrantsOf' = GrantsOf
    BY <1>4 DEF GrantsOf
  <2> QED
    BY <1>7, <1>8, <2>1, OneStirs
<1>10. Token!Issue(n)
  BY <1>2, <1>7, <1>9 DEF Token!Issue, StageOf, GrantsOf
<1> QED
  BY <1>2, <1>10 DEF Token!TokenNext

\* Every step issues, redeems or withdraws, or leaves all tokens as they are.
LEMMA TokenStep ==
  ASSUME Honest, SingleFlight, ChainInv, TypeInv', [Next]_vars
  PROVE  [Token!TokenNext]_<<StageOf, GrantsOf>>
<1>1. TypeInv /\ Safe /\ Chains /\ OneOfFour
  BY StepKinds DEF ChainInv, Inv
<1> QED
  BY <1>1, AgesWithdraws, TakesUpStutters, ExchangeRedeems, GrantIssues DEF OneOfFour

\* Before the first login no token is issued.
LEMMA TokenInit == Init => Token!TokenInit
<1> SUFFICES ASSUME Init PROVE Token!TokenInit
  OBVIOUS
<1>1. ASSUME NEW s \in Sids PROVE Grants(s) = 0 /\ Stage(s) = "unissued"
  <2>1. Grants(s) = 0
    BY GrantsCount, SidsAreNaturals DEF Init
  <2> QED
    BY <2>1 DEF Init, Stage
<1> QED
  BY <1>1 DEF Token!TokenInit

\* With one refresh at a time per token and no lost acknowledgement, refresh
\* tokens implement OneTimeToken: each is issued once, exchanged at most once
\* and never usable again after that, however requests interleave and fail.
THEOREM RefreshTokensImplementOneTimeToken ==
  Honest /\ SingleFlight => (Spec => RefreshTokensAreOneTime)
<1> SUFFICES ASSUME Honest, SingleFlight PROVE Spec => RefreshTokensAreOneTime
  OBVIOUS
<1>1. ChainInv /\ ChainInv' /\ [Next]_vars =>
        [Token!TokenNext]_<<[s \in Sids |-> Stage(s)], [s \in Sids |-> Grants(s)]>>
  BY TokenStep DEF StageOf, GrantsOf, ChainInv, Inv
<1> QED
  BY <1>1, TokenInit, ChainInvariant, PTL
  DEF Spec, RefreshTokensAreOneTime, Token!TokenSpec, Token!tokenVars
=============================================================================
