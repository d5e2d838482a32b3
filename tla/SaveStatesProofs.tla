-------------------------- MODULE SaveStatesProofs --------------------------
(***************************************************************************)
(* Theorems about SaveStates for any number of requests, games, slots and  *)
(* saves, and any faults: what was answered with 201 is kept, and every    *)
(* slot is the atomic register of SaveRegister.  Both rest on keys being   *)
(* fresh: a request about to upsert is the only one that holds its key,    *)
(* and nobody has been told of that key yet.                               *)
(***************************************************************************)
EXTENDS SaveStates, TLAPS, WellFoundedInduction

\* What a request carries at the await it is at.
CarriesOK(c) ==
  /\ CallAt(c, "idle") => call[c].game = Void /\ call[c].slot = Void
  /\ call[c].pc \in {"checkSave", "upload", "upsert"} =>
       call[c].game \in Games /\ call[c].slot \in Slots
  /\ call[c].pc \in {"upload", "upsert"} => call[c].bytes \in Bytes
  /\ call[c].pc \in {"checkLoad", "find"} => call[c].game \in Games
  /\ CallAt(c, "download") => call[c].key \in 1 .. Len(made)
  /\ call[c].before \subseteq answered

\* A request about to upsert has uploaded its save under a key of its own.
UpsertOK(c) ==
  CallAt(c, "upsert") =>
    /\ call[c].key \in objects \ answered
    /\ made[call[c].key].game = call[c].game
    /\ made[call[c].key].slot = call[c].slot

KeysApart ==
  \A c, d \in Calls :
    CallAt(c, "upsert") /\ CallAt(d, "upsert") /\ c # d => call[c].key # call[d].key

\* What was answered before a save stays answered; what a row holds is stored.
MadeKnown == \A k \in 1 .. Len(made) : made[k].before \subseteq answered
RowsStored == \A g \in Games, s \in Slots : rows[g][s] \in objects \cup {NoKey}

Inv ==
  /\ SaveTypeOK /\ AnsweredSaveIsKept
  /\ KeysApart /\ MadeKnown /\ RowsStored
  /\ \A c \in Calls : CarriesOK(c) /\ UpsertOK(c)

USE SaveStatesAssumption DEF Keys, NoKey

-----------------------------------------------------------------------------
(***************************************************************************)
(* The steps.                                                              *)
(***************************************************************************)
\* A step that only moves requests, takes nobody to the upsert and tells
\* nobody that a save succeeded.
Moves(c) ==
  /\ UNCHANGED <<made, objects, rows, answered>>
  /\ \E r \in CallRec :
       /\ call' = [call EXCEPT ![c] = r]
       /\ r.pc # "upsert"
       /\ r.pc = "idle" => r.game = Void /\ r.slot = Void
       /\ r.pc \in {"checkSave", "upload"} => r.game \in Games /\ r.slot \in Slots
       /\ r.pc = "upload" => r.bytes \in Bytes
       /\ r.pc \in {"checkLoad", "find"} => r.game \in Games
       /\ r.pc = "download" => r.key \in 1 .. Len(made)
       /\ r.before \subseteq answered

\* Initially nothing is stored or asked.
LEMMA InvInit == SaveInit => Inv
<1> SUFFICES ASSUME SaveInit PROVE Inv
  OBVIOUS
<1> USE DEF SaveInit, NoCall
<1>1. SaveTypeOK
  BY DEF SaveTypeOK, CallRec, SavePCs, MadeRec
<1>2. AnsweredSaveIsKept /\ KeysApart /\ MadeKnown /\ RowsStored
  BY DEF AnsweredSaveIsKept, KeysApart, MadeKnown, RowsStored, CallAt
<1>3. \A c \in Calls : CarriesOK(c) /\ UpsertOK(c)
  BY DEF CarriesOK, UpsertOK, CallAt
<1> QED BY <1>1, <1>2, <1>3 DEF Inv

\* Steps that only move requests keep the invariant.
LEMMA MovesKeep ==
  ASSUME Inv, NEW c \in Calls, Moves(c) PROVE Inv'
<1> USE DEF Inv, SaveTypeOK
<1> PICK r \in CallRec :
      /\ call' = [call EXCEPT ![c] = r]
      /\ r.pc # "upsert"
      /\ r.pc = "idle" => r.game = Void /\ r.slot = Void
      /\ r.pc \in {"checkSave", "upload"} => r.game \in Games /\ r.slot \in Slots
      /\ r.pc = "upload" => r.bytes \in Bytes
      /\ r.pc \in {"checkLoad", "find"} => r.game \in Games
      /\ r.pc = "download" => r.key \in 1 .. Len(made)
      /\ r.before \subseteq answered
  BY DEF Moves
<1>a. UNCHANGED <<made, objects, rows, answered>>
  BY DEF Moves
<1>1. SaveTypeOK'
  BY <1>a
<1>2. AnsweredSaveIsKept' /\ MadeKnown' /\ RowsStored'
  BY <1>a DEF AnsweredSaveIsKept, MadeKnown, RowsStored
<1>3. KeysApart'
  BY DEF KeysApart, CallAt
<1>4. ASSUME NEW d \in Calls PROVE CarriesOK(d)' /\ UpsertOK(d)'
  BY <1>a DEF CarriesOK, UpsertOK, CallAt
<1> QED BY <1>1, <1>2, <1>3, <1>4

\* All steps of requests but the upload and the upsert are of that kind.
LEMMA Moving ==
  ASSUME Inv, NEW c \in Calls,
         \/ Player(c)
         \/ Refuse(c) \/ CheckSave(c) \/ CheckLoad(c) \/ QueryFails(c)
         \/ Download(c) \/ DownloadFails(c)
  PROVE  Moves(c)
<1> USE DEF Inv, SaveTypeOK, CallAt
<1>t. call[c] \in CallRec /\ CarriesOK(c)
  OBVIOUS
<1>1. ASSUME NEW pc \in {"checkSave", "checkLoad"}, NEW g \in Games, NEW s \in Slots \cup {Void},
             NEW b \in Bytes \cup {Void}, pc = "checkSave" => s \in Slots, Send(c, pc, g, s, b)
      PROVE  Moves(c)
  <2> DEFINE r == [NoCall EXCEPT !.pc = pc, !.game = g, !.slot = s, !.bytes = b, !.before = answered]
  <2>0. NoCall \in CallRec
    BY DEF NoCall, CallRec, SavePCs
  <2>1. /\ r \in CallRec
        /\ r.pc = pc /\ r.game = g /\ r.slot = s /\ r.before = answered
    <3>1. answered \in SUBSET Keys
      OBVIOUS
    <3> QED BY <2>0, <3>1 DEF CallRec, SavePCs
  <2>2. call' = [call EXCEPT ![c] = r] /\ UNCHANGED <<made, objects, rows, answered>>
    BY <1>1 DEF Send
  <2> HIDE DEF r
  <2> QED BY <1>1, <2>1, <2>2 DEF Moves
<1>2. CASE Receive(c)
  <2>1. NoCall \in CallRec
    BY DEF NoCall, CallRec, SavePCs
  <2> QED BY <1>2, <2>1 DEF Receive, Moves, NoCall
<1>3. ASSUME NEW p \in {"upload", "find", "failed"}, Then(c, p),
             UNCHANGED <<made, objects, rows, answered>>,
             p = "upload" => CallAt(c, "checkSave") /\ call[c].bytes # Void,
             p = "find" => CallAt(c, "checkLoad")
      PROVE  Moves(c)
  <2> DEFINE r == [call[c] EXCEPT !.pc = p]
  <2>1. r \in CallRec /\ r.pc = p
    BY <1>t DEF CallRec, SavePCs
  <2>2. call' = [call EXCEPT ![c] = r]
    BY <1>3 DEF Then
  <2>3. /\ r.game = call[c].game /\ r.slot = call[c].slot
        /\ r.bytes = call[c].bytes /\ r.before = call[c].before
    BY <1>t DEF CallRec
  <2>4. p = "upload" => call[c].game \in Games /\ call[c].slot \in Slots /\ call[c].bytes \in Bytes
    BY <1>3, <1>t DEF CarriesOK, CallRec
  <2>5. p = "find" => call[c].game \in Games
    BY <1>3, <1>t DEF CarriesOK
  <2>6. call[c].before \subseteq answered
    BY <1>t DEF CarriesOK
  <2> HIDE DEF r
  <2> QED BY <1>3, <2>1, <2>2, <2>3, <2>4, <2>5, <2>6 DEF Moves
<1>4. CASE Download(c) /\ call[c].key \in objects
  <2> DEFINE r == [call[c] EXCEPT !.pc = "loaded", !.bytes = made[call[c].key].bytes]
  <2> call[c].key \in 1 .. Len(made)
    BY <1>4
  <2>1. made[call[c].key].bytes \in Bytes
    <3>1. made[call[c].key] \in MadeRec
      OBVIOUS
    <3> QED BY <3>1 DEF MadeRec
  <2>2. r \in CallRec /\ r.pc = "loaded" /\ r.before = call[c].before
    BY <1>t, <2>1 DEF CallRec, SavePCs
  <2>3. call' = [call EXCEPT ![c] = r] /\ UNCHANGED <<made, objects, rows, answered>>
    BY <1>4 DEF Download
  <2>4. call[c].before \subseteq answered
    BY <1>t DEF CarriesOK
  <2> HIDE DEF r
  <2> QED BY <2>2, <2>3, <2>4 DEF Moves
<1>5. CASE Download(c) /\ call[c].key \notin objects
  BY <1>3, <1>5 DEF Download
<1>6. CASE Player(c)
  <2>1. CASE Receive(c)
    BY <1>2, <2>1
  <2>2. CASE \E g \in Games, s \in Slots, b \in Bytes \cup {Void} : SendSave(c, g, s, b)
    BY <1>1, <2>2 DEF SendSave
  <2>3. CASE \E g \in Games, s \in Slots \cup {Void} : SendLoad(c, g, s)
    BY <1>1, <2>3 DEF SendLoad
  <2> QED BY <1>6, <2>1, <2>2, <2>3 DEF Player
<1>7. CASE Refuse(c)
  BY <1>3, <1>7 DEF Refuse
<1>8. CASE CheckSave(c)
  BY <1>3, <1>8 DEF CheckSave
<1>9. CASE CheckLoad(c)
  BY <1>3, <1>9 DEF CheckLoad
<1>10. CASE QueryFails(c)
  BY <1>3, <1>10 DEF QueryFails
<1>11. CASE DownloadFails(c)
  BY <1>3, <1>11 DEF DownloadFails
<1> QED BY <1>4, <1>5, <1>6, <1>7, <1>8, <1>9, <1>10, <1>11

\* An upload that succeeds draws a key nobody has.
LEMMA UploadKeeps ==
  ASSUME Inv, NEW c \in Calls, NEW kept \in BOOLEAN, Upload(c, kept) PROVE Inv'
<1> USE DEF Inv, SaveTypeOK
<1> DEFINE n == Len(made) + 1
           e == [game |-> call[c].game, slot |-> call[c].slot,
                 bytes |-> call[c].bytes, before |-> call[c].before]
<1>1. call[c] \in CallRec /\ CarriesOK(c) /\ CallAt(c, "upload") /\ n \in Keys
  BY DEF Upload
<1>2. e \in MadeRec /\ e.game = call[c].game /\ e.slot = call[c].slot /\ e.before \subseteq answered
  BY <1>1 DEF MadeRec, CarriesOK, CallRec, CallAt
<1>3. /\ made' = Append(made, e) /\ made' \in Seq(MadeRec) /\ Len(made') = n
      /\ \A k \in 1 .. Len(made) : made'[k] = made[k]
      /\ made'[n] = e
  BY <1>2 DEF Upload
<1>4. objects \subseteq objects' /\ objects' \subseteq objects \cup {n} /\ UNCHANGED <<rows, answered>>
  BY <1>3 DEF Upload
<1>5. \/ /\ n \in objects'
         /\ call' = [call EXCEPT ![c].pc = "upsert", ![c].key = n]
      \/ call' = [call EXCEPT ![c].pc = "failed"]
  BY <1>3 DEF Upload, Then
<1> HIDE DEF e
<1>6. call' \in [Calls -> CallRec]
  BY <1>1, <1>5 DEF CallRec, SavePCs
<1>7. SaveTypeOK'
  <2>1. 1 .. Len(made') = 1 .. n /\ Len(made) \in Nat /\ 1 .. Len(made) \subseteq 1 .. n /\ n <= MaxSaves
    BY <1>1, <1>3 DEF Keys
  <2>2. rows' \in [Games -> [Slots -> {NoKey} \cup 1 .. Len(made')]]
    <3>1. {NoKey} \cup 1 .. Len(made) \subseteq {NoKey} \cup 1 .. n
      BY <2>1
    <3>2. rows \in [Games -> [Slots -> {NoKey} \cup 1 .. n]]
      BY <3>1
    <3> QED BY <1>4, <2>1, <3>2
  <2>3. objects' \subseteq 1 .. Len(made') /\ answered' \subseteq objects'
    BY <1>4, <2>1
  <2> QED BY <1>3, <1>6, <2>1, <2>2, <2>3
<1>8. AnsweredSaveIsKept'
  BY <1>3, <1>4 DEF AnsweredSaveIsKept
<1>9. MadeKnown'
  BY <1>2, <1>3, <1>4 DEF MadeKnown
<1>10. RowsStored'
  BY <1>4 DEF RowsStored
<1>11. /\ n \notin objects /\ n \notin answered
       /\ \A d \in Calls : CallAt(d, "upsert") => call[d].key # n
  BY DEF UpsertOK
<1>12. KeysApart'
  BY <1>1, <1>5, <1>11 DEF KeysApart, CallAt, CallRec
<1>13. ASSUME NEW d \in Calls PROVE CarriesOK(d)' /\ UpsertOK(d)'
  <2>1. CASE d # c
    <3>1. call'[d] = call[d]
      BY <2>1, <1>5
    <3>2. CarriesOK(d)'
      BY <3>1, <1>3, <1>4 DEF CarriesOK, CallAt
    <3>3. CallAt(d, "upsert") => call[d].key \in 1 .. Len(made) /\ call[d].key \in objects' \ answered
      BY <1>4 DEF UpsertOK
    <3>4. CallAt(d, "upsert") => made'[call[d].key] = made[call[d].key]
      BY <1>3, <3>3
    <3>5. UpsertOK(d)'
      BY <3>1, <3>3, <3>4, <1>4 DEF UpsertOK, CallAt
    <3> QED BY <3>2, <3>5
  <2>2. CASE d = c
    <3>1. /\ call'[c].game = call[c].game /\ call'[c].slot = call[c].slot
          /\ call'[c].bytes = call[c].bytes /\ call'[c].before = call[c].before
          /\ call'[c].pc \in {"upsert", "failed"}
          /\ call'[c].pc = "upsert" => n \in objects' /\ call'[c].key = n
      BY <1>1, <1>5 DEF CallRec
    <3>2. CarriesOK(c)'
      BY <3>1, <1>1, <1>4 DEF CarriesOK, CallAt
    <3>3. UpsertOK(c)'
      BY <3>1, <1>2, <1>3, <1>4, <1>11 DEF UpsertOK, CallAt
    <3> QED BY <2>2, <3>2, <3>3
  <2> QED BY <2>1, <2>2
<1> QED BY <1>7, <1>8, <1>9, <1>10, <1>12, <1>13

\* An upsert points the slot at a save that nobody had been told of before.
LEMMA UpsertKeeps ==
  ASSUME Inv, NEW c \in Calls, Upsert(c) PROVE Inv'
<1> USE DEF Inv, SaveTypeOK
<1> DEFINE k == call[c].key
           g == call[c].game
           s == call[c].slot
<1>1. /\ call[c] \in CallRec /\ CarriesOK(c) /\ CallAt(c, "upsert")
      /\ g \in Games /\ s \in Slots
      /\ k \in objects /\ k \notin answered /\ made[k].game = g /\ made[k].slot = s
  BY DEF Upsert, UpsertOK, CarriesOK, CallAt
<1>2. /\ rows' = [rows EXCEPT ![g][s] = k]
      /\ UNCHANGED <<made, objects>>
      /\ \/ call' = [call EXCEPT ![c].pc = "saved"] /\ answered' = answered \cup {k}
         \/ call' = [call EXCEPT ![c].pc = "failed"] /\ answered' = answered
  BY DEF Upsert, Point, AnswerSaved, Then
<1>3. SaveTypeOK'
  <2>1. call' \in [Calls -> CallRec]
    <3>1. ASSUME NEW p \in {"saved", "failed"} PROVE [call[c] EXCEPT !.pc = p] \in CallRec
      BY <1>1 DEF CallRec, SavePCs
    <3> QED BY <1>2, <3>1
  <2>2. rows' \in [Games -> [Slots -> {NoKey} \cup 1 .. Len(made)]]
    BY <1>1, <1>2
  <2> QED BY <1>1, <1>2, <2>1, <2>2
<1>4. AnsweredSaveIsKept'
  <2> SUFFICES ASSUME NEW j \in answered'
               PROVE  /\ rows'[made[j].game][made[j].slot] \in objects
                      /\ rows'[made[j].game][made[j].slot] \notin made[j].before
    BY <1>2 DEF AnsweredSaveIsKept
  <2>1. j \in 1 .. Len(made) /\ made[j] \in MadeRec
    BY <1>1, <1>2
  <2>2. made[j].game \in Games /\ made[j].slot \in Slots
    BY <2>1 DEF MadeRec
  <2>3. CASE made[j].game = g /\ made[j].slot = s
    BY <1>1, <1>2, <2>1, <2>2, <2>3 DEF MadeKnown
  <2>4. CASE ~(made[j].game = g /\ made[j].slot = s)
    <3>1. j \in answered
      BY <1>1, <1>2, <2>4
    <3>2. rows'[made[j].game][made[j].slot] = rows[made[j].game][made[j].slot]
      BY <1>1, <1>2, <2>2, <2>4
    <3> QED BY <3>1, <3>2 DEF AnsweredSaveIsKept
  <2> QED BY <2>3, <2>4
<1>5. MadeKnown'
  BY <1>2 DEF MadeKnown
<1>6. RowsStored'
  BY <1>1, <1>2 DEF RowsStored
<1>7. KeysApart'
  <2>1. call'[c].pc # "upsert" /\ \A d \in Calls : d # c => call'[d] = call[d]
    BY <1>1, <1>2 DEF CallRec
  <2> QED BY <2>1 DEF KeysApart, CallAt
<1>8. ASSUME NEW d \in Calls PROVE CarriesOK(d)' /\ UpsertOK(d)'
  <2>1. CASE d # c
    <3>1. call'[d] = call[d]
      BY <2>1, <1>2
    <3>2. CarriesOK(d)'
      BY <3>1, <1>2 DEF CarriesOK, CallAt
    <3>3. UpsertOK(d)'
      BY <2>1, <3>1, <1>1, <1>2 DEF UpsertOK, KeysApart, CallAt
    <3> QED BY <3>2, <3>3
  <2>2. CASE d = c
    <3>1. call'[c].pc \in {"saved", "failed"} /\ call'[c].before = call[c].before
      BY <1>1, <1>2 DEF CallRec
    <3> QED BY <2>2, <3>1, <1>1, <1>2 DEF CarriesOK, UpsertOK, CallAt
  <2> QED BY <2>1, <2>2
<1> QED BY <1>3, <1>4, <1>5, <1>6, <1>7, <1>8

\* A query changes no row and finds one of the keys the rows hold.
LEMMA FetchKeeps ==
  ASSUME Inv, NEW c \in Calls, CallAt(c, "find"), NEW k \in {NoKey} \cup 1 .. Len(made), Fetch(c, k)
  PROVE  Inv'
<1> DEFINE r == [call[c] EXCEPT !.key = k, !.pc = IF k = NoKey THEN "missing" ELSE "download"]
<1>1. call[c] \in CallRec /\ CarriesOK(c) /\ k \in Keys \cup {NoKey} /\ call \in [Calls -> CallRec]
  BY DEF Inv, SaveTypeOK
<1>2. /\ r \in CallRec /\ r.pc \in {"missing", "download"} /\ r.before = call[c].before
      /\ r.pc = "download" => r.key \in 1 .. Len(made)
  BY <1>1 DEF CallRec, SavePCs
<1>3. call' = [call EXCEPT ![c] = r] /\ UNCHANGED <<made, objects, rows, answered>>
  BY <1>1 DEF Fetch
<1>4. call[c].before \subseteq answered
  BY <1>1 DEF CarriesOK
<1> HIDE DEF r
<1>5. Moves(c)
  BY <1>2, <1>3, <1>4 DEF Moves
<1> QED BY <1>5, MovesKeep

\* Of the saves of a game the newest is one of them, when there is any.
LEMMA NewestIsIn ==
  ASSUME NEW ks \in SUBSET Nat, NEW n \in Nat, \A k \in ks : k <= n, ks # {}
  PROVE  NewestOf(ks) \in ks
<1> DEFINE T == {n - k : k \in ks}
<1>1. T \subseteq Nat /\ T # {}
  <2>1. \A k \in ks : k \in Nat /\ k <= n
    OBVIOUS
  <2>2. \A k \in ks : n - k \in Nat
    BY <2>1
  <2> QED BY <2>2
<1>2. \E x \in T : \A y \in T : ~(<<y, x>> \in OpToRel(<, Nat))
  BY <1>1, NatLessThanWellFounded, WFMin
<1>3. PICK x \in T : \A y \in T : ~(y < x)
  BY <1>1, <1>2 DEF OpToRel
<1>4. PICK k \in ks : x = n - k
  BY <1>3
<1>5. \A j \in ks : j <= k
  <2> TAKE j \in ks
  <2>1. n - j \in T
    OBVIOUS
  <2>2. ~(n - j < n - k)
    BY <2>1, <1>3, <1>4
  <2>3. j \in Nat /\ k \in Nat
    BY <1>4
  <2> QED BY <2>2, <2>3
<1>6. Newest(ks) \in ks
  BY <1>5 DEF Newest
<1> QED BY <1>6 DEF NewestOf

\* What FindLatest fetches.
LEMMA LatestIsHeld ==
  ASSUME Inv, NEW g \in Games
  PROVE  /\ KeysHeld(g) = {} => NewestOf(KeysHeld(g)) = NoKey
         /\ KeysHeld(g) # {} => NewestOf(KeysHeld(g)) \in KeysHeld(g)
<1>1. KeysHeld(g) \in SUBSET Nat /\ \A k \in KeysHeld(g) : k <= MaxSaves
  BY DEF Inv, SaveTypeOK, KeysHeld
<1>2. KeysHeld(g) # {} => NewestOf(KeysHeld(g)) \in KeysHeld(g)
  BY <1>1, NewestIsIn
<1> QED BY <1>2 DEF NewestOf

\* What a crash of the process does to the requests in flight.
LEMMA RestartKeeps == Inv /\ SaveRestart => Inv'
<1> SUFFICES ASSUME Inv, SaveRestart PROVE Inv'
  OBVIOUS
<1> USE DEF Inv, SaveTypeOK
<1>1. UNCHANGED <<made, objects, rows, answered>>
  BY DEF SaveRestart
<1>2. ASSUME NEW c \in Calls
      PROVE  \/ call'[c] = call[c]
             \/ call'[c] = [call[c] EXCEPT !.pc = "failed"]
  BY DEF SaveRestart
<1>3. ASSUME NEW c \in Calls
      PROVE  /\ call'[c] \in CallRec /\ call'[c].before = call[c].before
             /\ call'[c].pc = "failed" \/ call'[c] = call[c]
  <2>1. call[c] \in CallRec
    OBVIOUS
  <2>2. LET r == [call[c] EXCEPT !.pc = "failed"]
        IN r \in CallRec /\ r.before = call[c].before /\ r.pc = "failed"
    BY <2>1 DEF CallRec, SavePCs
  <2> QED BY <1>2, <2>1, <2>2
<1>4. call' \in [Calls -> CallRec]
  BY <1>3 DEF SaveRestart
<1>5. SaveTypeOK'
  BY <1>1, <1>4
<1>6. AnsweredSaveIsKept' /\ MadeKnown' /\ RowsStored'
  BY <1>1 DEF AnsweredSaveIsKept, MadeKnown, RowsStored
<1>7. KeysApart'
  BY <1>3 DEF KeysApart, CallAt
<1>8. \A c \in Calls : CarriesOK(c)' /\ UpsertOK(c)'
  BY <1>1, <1>3 DEF CarriesOK, UpsertOK, CallAt
<1> QED BY <1>5, <1>6, <1>7, <1>8

\* The invariant is inductive.
LEMMA InvNext == Inv /\ [SaveNext]_saveVars => Inv'
<1> SUFFICES ASSUME Inv, [SaveNext]_saveVars PROVE Inv'
  OBVIOUS
<1>1. CASE SaveRestart
  BY <1>1, RestartKeeps
<1>2. ASSUME NEW c \in Calls, Handle(c) \/ Player(c) PROVE Inv'
  <2>1. CASE \E kept \in BOOLEAN : Upload(c, kept)
    BY <2>1, UploadKeeps
  <2>2. CASE Upsert(c)
    BY <2>2, UpsertKeeps
  <2>3. CASE FindLatest(c)
    <3>1. call[c].game \in Games /\ CallAt(c, "find")
      BY <2>3 DEF FindLatest, Inv, CarriesOK, CallAt
    <3>2. NewestOf(KeysHeld(call[c].game)) \in {NoKey} \cup 1 .. Len(made)
      <4>1. KeysHeld(call[c].game) \subseteq {NoKey} \cup 1 .. Len(made)
        BY <3>1 DEF KeysHeld, Inv, SaveTypeOK
      <4> QED BY <3>1, <4>1, LatestIsHeld
    <3> QED BY <2>3, <3>1, <3>2, FetchKeeps DEF FindLatest
  <2>4. CASE FindById(c)
    <3>1. call[c].game \in Games /\ call[c].slot \in Slots /\ CallAt(c, "find")
      BY <2>4 DEF FindById, Inv, CarriesOK, CallAt, SaveTypeOK, CallRec
    <3>2. rows[call[c].game][call[c].slot] \in {NoKey} \cup 1 .. Len(made)
      BY <3>1 DEF Inv, SaveTypeOK
    <3> QED BY <2>4, <3>1, <3>2, FetchKeeps DEF FindById
  <2>5. CASE \/ Player(c) \/ Refuse(c) \/ CheckSave(c) \/ CheckLoad(c) \/ QueryFails(c)
             \/ Download(c) \/ DownloadFails(c)
    BY <2>5, Moving, MovesKeep
  <2> QED BY <1>2, <2>1, <2>2, <2>3, <2>4, <2>5 DEF Handle
<1>3. CASE UNCHANGED saveVars
  BY <1>3 DEF saveVars, Inv, SaveTypeOK, AnsweredSaveIsKept, KeysApart, MadeKnown, RowsStored,
              CarriesOK, UpsertOK, CallAt
<1> QED BY <1>1, <1>2, <1>3 DEF SaveNext, Backend

(***************************************************************************)
(* The refinement: SaveRegister's view of a request.                       *)
(***************************************************************************)
CallView(c) == [st |-> Asked(c), game |-> call[c].game, slot |-> call[c].slot, val |-> Found(c)]
CallViews == [c \in Calls |-> CallView(c)]

\* What an answer and a call make of a view.
Answered(view, st, val) == [view EXCEPT !.st = st, !.val = val]
Called(st, g, s) == [Register!Free EXCEPT !.st = st, !.game = g, !.slot = s]

\* The first, field by field.
LEMMA AnsweredView ==
  ASSUME NEW a, NEW st, NEW g, NEW s, NEW val, NEW st1, NEW val1,
         a = [st |-> st, game |-> g, slot |-> s, val |-> val]
  PROVE  Answered(a, st1, val1) = [st |-> st1, game |-> g, slot |-> s, val |-> val1]
<1> DEFINE b == [st |-> st1, game |-> g, slot |-> s, val |-> val]
           d == [a EXCEPT !.st = st1]
<1>1. d = b
  OBVIOUS
<1>2. [b EXCEPT !.val = val1] = [st |-> st1, game |-> g, slot |-> s, val |-> val1]
  OBVIOUS
<1> HIDE DEF d
<1>3. [a EXCEPT !.st = st1, !.val = val1] = [d EXCEPT !.val = val1]
  BY DEF d
<1> QED BY <1>1, <1>2, <1>3 DEF Answered

\* The second, likewise.
LEMMA CalledView ==
  ASSUME NEW st, NEW g, NEW s
  PROVE  Called(st, g, s) = [st |-> st, game |-> g, slot |-> s, val |-> NoKey]
<1> DEFINE a == [st |-> "free", game |-> Void, slot |-> Void, val |-> NoKey]
           b == [st |-> st, game |-> Void, slot |-> Void, val |-> NoKey]
           e == [st |-> st, game |-> g, slot |-> Void, val |-> NoKey]
           d == [a EXCEPT !.st = st]
           f == [d EXCEPT !.game = g]
<1>1. d = b
  OBVIOUS
<1>2. [b EXCEPT !.game = g] = e
  OBVIOUS
<1>3. [e EXCEPT !.slot = s] = [st |-> st, game |-> g, slot |-> s, val |-> NoKey]
  OBVIOUS
<1> HIDE DEF d
<1>4. f = e
  BY <1>1, <1>2
<1> HIDE DEF f
<1>5. [a EXCEPT !.st = st, !.game = g, !.slot = s] = [f EXCEPT !.slot = s]
  BY DEF d, f
<1> QED BY <1>3, <1>4, <1>5 DEF Called, Register!Free

\* A request that has not changed is seen as it was.
LEMMA SameView ==
  ASSUME NEW c, call'[c] = call[c] PROVE CallView(c)' = CallView(c)
BY DEF CallView, Asked, Found, CallAt

\* A request ends in a failure before it has written anything.
LEMMA FailIsFail ==
  ASSUME Inv, UNCHANGED rows,
         NEW C \in SUBSET {c \in Calls : call[c].pc \notin Replies \cup {"idle"}},
         \A c \in C : call'[c] = [call[c] EXCEPT !.pc = "failed"],
         \A c \in Calls \ C : CallView(c)' = CallView(c)
  PROVE  Register!Fail
<1>1. ASSUME NEW c \in C
      PROVE  /\ CallView(c).st \in {"saving", "loading", "found"}
             /\ CallView(c)' = Answered(CallView(c), "failed", NoKey)
  <2>1. call[c] \in CallRec /\ c \in Calls
    BY DEF Inv, SaveTypeOK
  <2>2. /\ call'[c].pc = "failed" /\ call'[c].game = call[c].game /\ call'[c].slot = call[c].slot
    BY <2>1 DEF CallRec
  <2>3. Asked(c) \in {"saving", "loading", "found"}
    BY <2>1 DEF Asked, CallAt, CallRec, SavePCs, Replies
  <2>4. Asked(c)' = "failed" /\ Found(c)' = NoKey
    BY <2>2 DEF Asked, Found, CallAt
  <2>5. CallView(c)' = [st |-> "failed", game |-> call[c].game, slot |-> call[c].slot, val |-> NoKey]
    BY <2>2, <2>4 DEF CallView
  <2>6. CallView(c) = [st |-> Asked(c), game |-> call[c].game, slot |-> call[c].slot, val |-> Found(c)]
    BY DEF CallView
  <2>7. Answered(CallView(c), "failed", NoKey)
          = [st |-> "failed", game |-> call[c].game, slot |-> call[c].slot, val |-> NoKey]
    BY <2>6, AnsweredView
  <2>8. CallView(c).st = Asked(c)
    BY <2>6
  <2> QED BY <2>3, <2>5, <2>7, <2>8
<1>2. CallViews' = [c \in Calls |-> IF c \in C THEN Answered(CallViews[c], "failed", NoKey)
                                ELSE CallViews[c]]
  BY <1>1 DEF CallViews
<1>3. C \in SUBSET {c \in Calls : CallViews[c].st \in {"saving", "loading", "found"}}
  BY <1>1 DEF CallViews
<1> QED BY <1>2, <1>3 DEF Register!Fail, Answered, CallViews, CallView

\* A step of one request that shows in its view alone.
LEMMA ViewStep ==
  ASSUME NEW c \in Calls, NEW r, Inv, call' = [call EXCEPT ![c] = r], NEW v, CallView(c)' = v
  PROVE  CallViews' = [CallViews EXCEPT ![c] = v]
<1>1. \A d \in Calls : d # c => CallView(d)' = CallView(d)
  BY SameView DEF Inv, SaveTypeOK
<1> QED BY <1>1 DEF CallViews

\* Initially every slot is empty and every call free.
LEMMA RegisterInit == SaveInit => Register!Init
BY DEF SaveInit, Register!Init, Register!Free, NoCall, Asked, Found, CallAt

\* A call is sent.
LEMMA SendIsCall ==
  ASSUME Inv, NEW c \in Calls, NEW g \in Games, NEW b \in Bytes \cup {Void},
         NEW s \in Slots \cup {Void}, NEW pc \in {"checkSave", "checkLoad"}, Send(c, pc, g, s, b)
  PROVE  Register!Call(c)
<1> DEFINE st == IF pc = "checkSave" THEN "saving" ELSE "loading"
           v == [st |-> st, game |-> g, slot |-> s, val |-> NoKey]
<1>1. call \in [Calls -> CallRec] /\ CarriesOK(c)
  BY DEF Inv, SaveTypeOK
<1>2. call'[c].pc = pc /\ call'[c].game = g /\ call'[c].slot = s
  <2>1. NoCall \in CallRec
    BY DEF NoCall, CallRec, SavePCs
  <2> QED BY <1>1, <2>1 DEF Send, CallRec
<1>3. CallView(c)' = v
  BY <1>2 DEF CallView, Asked, Found, CallAt
<1>4. CallViews' = [CallViews EXCEPT ![c] = v]
  BY <1>3, ViewStep DEF Send
<1>5. CallView(c) = [st |-> "free", game |-> Void, slot |-> Void, val |-> NoKey]
  BY <1>1 DEF Send, CallView, Asked, Found, CallAt, CarriesOK
<1>6. v = Called(st, g, s)
  BY CalledView
<1>7. CallView(c) = Register!Free /\ st \in {"saving", "loading"} /\ UNCHANGED rows
  BY <1>5 DEF Register!Free, Send
<1>8. CallViews[c] = Register!Free
  BY <1>7 DEF CallViews
<1>9. CallViews' = [CallViews EXCEPT ![c] = Called(st, g, s)]
  BY <1>4, <1>6
<1> HIDE DEF v, st
<1>10. \E s1 \in Slots \cup {Void}, st1 \in {"saving", "loading"} :
         CallViews' = [CallViews EXCEPT ![c] = [Register!Free EXCEPT !.st = st1, !.game = g, !.slot = s1]]
  BY <1>7, <1>9 DEF Called
<1> QED BY <1>7, <1>8, <1>10 DEF Register!Call, CallViews, CallView

\* An answer is received.
LEMMA ReceiveIsReturn ==
  ASSUME Inv, NEW c \in Calls, Receive(c) PROVE Register!Return(c)
<1>1. call'[c] = NoCall
  BY DEF Receive, Inv, SaveTypeOK
<1>2. CallView(c)' = Register!Free
  BY <1>1 DEF NoCall, CallView, Asked, Found, CallAt, Register!Free
<1>3. CallViews' = [CallViews EXCEPT ![c] = Register!Free]
  BY <1>2, ViewStep DEF Receive
<1> QED BY <1>3 DEF Register!Return, CallViews, CallView, Receive

\* An upsert is the instant at which a save takes effect.
LEMMA UpsertIsEffect ==
  ASSUME Inv, NEW c \in Calls, Upsert(c) PROVE Register!TakeEffect(c)
<1>1. /\ call \in [Calls -> CallRec] /\ call[c] \in CallRec /\ call[c].pc = "upsert"
      /\ call[c].slot \in Slots /\ call[c].key \in Keys
  <2>1. call \in [Calls -> CallRec] /\ UpsertOK(c) /\ CarriesOK(c) /\ call[c].pc = "upsert"
    BY DEF Inv, SaveTypeOK, Upsert, CallAt
  <2>2. call[c].key \in objects /\ objects \subseteq Keys
    BY <2>1 DEF UpsertOK, CallAt, Inv, SaveTypeOK
  <2> QED BY <2>1, <2>2 DEF CarriesOK
<1> PICK k \in Keys : k = call[c].key
  BY <1>1
<1>2. CallView(c) = [st |-> "saving", game |-> call[c].game, slot |-> call[c].slot, val |-> NoKey]
  BY <1>1 DEF CallView, Asked, Found, CallAt
<1>3. /\ rows' = [rows EXCEPT ![CallViews[c].game][CallViews[c].slot] = k]
      /\ CallViews[c].st = "saving" /\ CallViews[c].slot \in Slots
  <2>1. CallViews[c] = CallView(c)
    BY DEF CallViews
  <2>2. /\ CallViews[c].st = "saving" /\ CallViews[c].game = call[c].game /\ CallViews[c].slot = call[c].slot
    BY <1>2, <2>1
  <2> QED BY <1>1, <2>2 DEF Upsert, Point
<1>4. CASE AnswerSaved(c)
  <2>1. /\ call' = [call EXCEPT ![c] = [call[c] EXCEPT !.pc = "saved"]]
        /\ call'[c].pc = "saved" /\ call'[c].key = k
        /\ call'[c].game = call[c].game /\ call'[c].slot = call[c].slot
    BY <1>1, <1>4 DEF AnswerSaved, Then, CallRec
  <2>2. CallView(c)' = Answered(CallView(c), "saved", k)
    <3>1. CallView(c)' = [st |-> "saved", game |-> call[c].game, slot |-> call[c].slot, val |-> k]
      BY <2>1 DEF CallView, Asked, Found, CallAt
    <3> QED BY <1>2, <3>1, AnsweredView
  <2>3. CallViews' = [CallViews EXCEPT ![c] = Answered(CallView(c), "saved", k)]
    BY <2>1, <2>2, ViewStep
  <2>4. Register!Answer(c, "saved", k)
    BY <2>3 DEF Register!Answer, Answered, CallViews, CallView
  <2> QED BY <1>3, <2>4 DEF Register!TakeEffect, CallViews, CallView
<1>5. CASE Then(c, "failed")
  <2>1. /\ call' = [call EXCEPT ![c] = [call[c] EXCEPT !.pc = "failed"]]
        /\ call'[c].pc = "failed"
        /\ call'[c].game = call[c].game /\ call'[c].slot = call[c].slot
    BY <1>1, <1>5 DEF Then, CallRec
  <2>2. CallView(c)' = Answered(CallView(c), "failed", NoKey)
    <3>1. CallView(c)' = [st |-> "failed", game |-> call[c].game, slot |-> call[c].slot, val |-> NoKey]
      BY <2>1 DEF CallView, Asked, Found, CallAt
    <3> QED BY <1>2, <3>1, AnsweredView
  <2>3. CallViews' = [CallViews EXCEPT ![c] = Answered(CallView(c), "failed", NoKey)]
    BY <2>1, <2>2, ViewStep
  <2>4. Register!Answer(c, "failed", NoKey)
    BY <2>3 DEF Register!Answer, Answered, CallViews, CallView
  <2> QED BY <1>1, <1>3, <2>4 DEF Register!TakeEffect, CallViews, CallView
<1> QED BY <1>4, <1>5 DEF Upsert

\* A query is the instant at which a load sees the slots.
LEMMA FetchIsFind ==
  ASSUME Inv, NEW c \in Calls, CallAt(c, "find"),
         NEW k \in {NoKey} \cup 1 .. Len(made), Fetch(c, k),
         k \in Register!Held(c), k = NoKey => Register!Held(c) = {NoKey}
  PROVE  Register!Find(c)
<1>1. call \in [Calls -> CallRec] /\ call[c] \in CallRec /\ call[c].pc = "find"
  BY DEF Inv, SaveTypeOK, CallAt
<1>2. CallView(c) = [st |-> "loading", game |-> call[c].game, slot |-> call[c].slot, val |-> NoKey]
  BY <1>1 DEF CallView, Asked, Found, CallAt
<1> DEFINE r == [call[c] EXCEPT !.key = k, !.pc = IF k = NoKey THEN "missing" ELSE "download"]
<1>3. /\ call' = [call EXCEPT ![c] = r]
      /\ r.pc \in {"missing", "download"} /\ r.key = k
      /\ r.game = call[c].game /\ r.slot = call[c].slot
  BY <1>1 DEF Fetch, CallRec
<1> HIDE DEF r
<1>4. CallView(c)' = Answered(CallView(c), "found", k)
  <2>1. CallView(c)' = [st |-> "found", game |-> call[c].game, slot |-> call[c].slot, val |-> k]
    BY <1>1, <1>3 DEF CallView, Asked, Found, CallAt
  <2> QED BY <1>2, <2>1, AnsweredView
<1>5. CallViews' = [CallViews EXCEPT ![c] = Answered(CallView(c), "found", k)]
  BY <1>3, <1>4, ViewStep
<1>6. Register!Answer(c, "found", k) /\ UNCHANGED rows
  BY <1>5 DEF Register!Answer, Answered, CallViews, CallView, Fetch
<1> QED BY <1>2, <1>6 DEF Register!Find, CallView

\* A request fails on its own.
LEMMA OneFails ==
  ASSUME Inv, NEW c \in Calls, Then(c, "failed"), UNCHANGED rows,
         call[c].pc \notin Replies \cup {"idle"}
  PROVE  Register!Fail
<1>1. call'[c] = [call[c] EXCEPT !.pc = "failed"] /\ \A d \in Calls \ {c} : call'[d] = call[d]
  BY DEF Then, Inv, SaveTypeOK
<1>2. \A d \in Calls \ {c} : CallView(d)' = CallView(d)
  BY <1>1, SameView
<1>3. {c} \in SUBSET {d \in Calls : call[d].pc \notin Replies \cup {"idle"}}
  OBVIOUS
<1> QED BY <1>1, <1>2, <1>3, FailIsFail

\* A crash fails the requests whose handlers are at work.
LEMMA RestartFails == Inv /\ SaveRestart => Register!Fail
<1> SUFFICES ASSUME Inv, SaveRestart PROVE Register!Fail
  OBVIOUS
<1> DEFINE C == {c \in Calls : call[c].pc \notin Replies \cup {"idle"}}
<1>1. \A c \in C : call'[c] = [call[c] EXCEPT !.pc = "failed"]
  BY DEF SaveRestart
<1>2. \A c \in Calls \ C : call'[c] = call[c]
  BY DEF SaveRestart
<1>3. \A c \in Calls \ C : CallView(c)' = CallView(c)
  BY <1>2, SameView
<1>4. C \in SUBSET C /\ UNCHANGED rows
  BY DEF SaveRestart
<1> QED BY <1>1, <1>3, <1>4, FailIsFail

\* What a request does between its call and the instant it takes effect, or
\* between that and its answer, does not show.
LEMMA SilentStep ==
  ASSUME Inv, NEW c \in Calls, NEW r, call' = [call EXCEPT ![c] = r], UNCHANGED rows,
         r.game = call[c].game, r.slot = call[c].slot,
         \/ call[c].pc \in {"checkSave", "upload"} /\ r.pc \in {"upload", "upsert"}
         \/ call[c].pc = "checkLoad" /\ r.pc = "find"
         \/ call[c].pc = "download" /\ r.pc = "loaded" /\ r.key = call[c].key
  PROVE  UNCHANGED <<rows, CallViews>>
<1>1. call'[c] = r
  BY DEF Inv, SaveTypeOK
<1>2. Asked(c)' = Asked(c) /\ Found(c)' = Found(c)
  BY <1>1 DEF Asked, Found, CallAt
<1>3. CallView(c)' = CallView(c)
  BY <1>1, <1>2 DEF CallView
<1>4. CallViews' = [CallViews EXCEPT ![c] = CallView(c)]
  BY <1>3, ViewStep
<1> QED BY <1>4 DEF CallViews

\* Every step of a handler is a step of the registers, or does not show.
LEMMA HandleStep ==
  ASSUME Inv, NEW c \in Calls, Handle(c)
  PROVE  Register!Next \/ UNCHANGED <<rows, CallViews>>
<1> USE DEF CallAt
<1>t. call \in [Calls -> CallRec] /\ call[c] \in CallRec /\ CarriesOK(c)
  BY DEF Inv, SaveTypeOK
<1>f. ASSUME Then(c, "failed"), UNCHANGED rows, call[c].pc \notin Replies \cup {"idle"}
      PROVE  Register!Next
  BY <1>f, OneFails DEF Register!Next
<1>s. ASSUME NEW p \in {"upload", "find"}, Then(c, p), UNCHANGED rows,
             call[c].pc = IF p = "upload" THEN "checkSave" ELSE "checkLoad"
      PROVE  UNCHANGED <<rows, CallViews>>
  <2> DEFINE r == [call[c] EXCEPT !.pc = p]
  <2>1. /\ call' = [call EXCEPT ![c] = r] /\ r.pc = p
        /\ r.game = call[c].game /\ r.slot = call[c].slot
    BY <1>t, <1>s DEF Then, CallRec
  <2> HIDE DEF r
  <2> QED BY <1>s, <2>1, SilentStep
<1>1. CASE Refuse(c) \/ QueryFails(c) \/ DownloadFails(c)
  BY <1>1, <1>f DEF Refuse, QueryFails, DownloadFails, Replies
<1>2. CASE CheckSave(c)
  BY <1>2, <1>f, <1>s DEF CheckSave, Replies
<1>3. CASE CheckLoad(c)
  BY <1>3, <1>s DEF CheckLoad
<1>4. ASSUME NEW kept \in BOOLEAN, Upload(c, kept)
      PROVE  Register!Next \/ UNCHANGED <<rows, CallViews>>
  <2>1. CASE Then(c, "failed")
    BY <2>1, <1>4, <1>f DEF Upload, Replies
  <2>2. CASE call' = [call EXCEPT ![c].pc = "upsert", ![c].key = Len(made')]
    <3> DEFINE r == [call[c] EXCEPT !.pc = "upsert", !.key = Len(made')]
    <3>1. /\ call' = [call EXCEPT ![c] = r] /\ r.pc = "upsert"
          /\ r.game = call[c].game /\ r.slot = call[c].slot
      BY <1>t, <2>2 DEF CallRec
    <3> HIDE DEF r
    <3> QED BY <1>4, <3>1, SilentStep DEF Upload
  <2> QED BY <1>4, <2>1, <2>2 DEF Upload
<1>5. CASE Upsert(c)
  BY <1>5, UpsertIsEffect DEF Register!Next
<1>6. CASE FindLatest(c)
  <2>1. call[c].game \in Games /\ call[c].slot = Void
    BY <1>6, <1>t DEF FindLatest, CarriesOK
  <2>2. Register!Held(c) = {rows[call[c].game][s] : s \in Slots}
    BY <2>1 DEF Register!Held
  <2>3. PICK k : k = NewestOf(KeysHeld(call[c].game))
    OBVIOUS
  <2>4. KeysHeld(call[c].game) \subseteq {NoKey} \cup 1 .. Len(made)
    BY <2>1 DEF KeysHeld, Inv, SaveTypeOK
  <2>5. /\ KeysHeld(call[c].game) = {} => k = NoKey
        /\ KeysHeld(call[c].game) # {} => k \in KeysHeld(call[c].game)
    BY <2>1, <2>3, LatestIsHeld
  <2>6. \E s \in Slots : TRUE
    OBVIOUS
  <2>7. k \in {NoKey} \cup 1 .. Len(made) /\ k \in Register!Held(c)
    BY <2>2, <2>4, <2>5, <2>6 DEF KeysHeld
  <2>8. k = NoKey => Register!Held(c) = {NoKey}
    BY <2>2, <2>5, <2>6 DEF KeysHeld
  <2>9. Fetch(c, k) /\ call[c].pc = "find"
    BY <1>6, <2>3 DEF FindLatest, Fetch
  <2> QED BY <2>7, <2>8, <2>9, FetchIsFind DEF Register!Next
<1>7. CASE FindById(c)
  <2>1. call[c].game \in Games /\ call[c].slot \in Slots
    BY <1>7, <1>t DEF FindById, CarriesOK, CallRec
  <2>2. Register!Held(c) = {rows[call[c].game][call[c].slot]}
    BY <2>1 DEF Register!Held
  <2>3. PICK k : k = rows[call[c].game][call[c].slot]
    OBVIOUS
  <2>4. k \in {NoKey} \cup 1 .. Len(made)
    BY <2>1, <2>3 DEF Inv, SaveTypeOK
  <2>5. Fetch(c, k) /\ call[c].pc = "find"
    BY <1>7, <2>3 DEF FindById, Fetch
  <2> QED BY <2>2, <2>3, <2>4, <2>5, FetchIsFind DEF Register!Next
<1>8. CASE Download(c)
  <2>1. CASE call[c].key \in objects
    <3> DEFINE r == [call[c] EXCEPT !.pc = "loaded", !.bytes = made[call[c].key].bytes]
    <3>1. /\ call' = [call EXCEPT ![c] = r] /\ r.pc = "loaded" /\ r.key = call[c].key
          /\ r.game = call[c].game /\ r.slot = call[c].slot
      BY <1>t, <1>8, <2>1 DEF Download, CallRec
    <3> HIDE DEF r
    <3> QED BY <1>8, <3>1, SilentStep DEF Download
  <2>2. CASE call[c].key \notin objects
    BY <1>8, <2>2, <1>f DEF Download, Replies
  <2> QED BY <2>1, <2>2
<1> QED BY <1>1, <1>2, <1>3, <1>4, <1>5, <1>6, <1>7, <1>8 DEF Handle

\* Every step of the requests and the process is a step of the registers.
LEMMA RegisterStep ==
  Inv /\ [SaveNext]_saveVars => [Register!Next]_<<rows, CallViews>>
<1> SUFFICES ASSUME Inv, [SaveNext]_saveVars
             PROVE  Register!Next \/ UNCHANGED <<rows, CallViews>>
  OBVIOUS
<1>1. CASE SaveRestart
  BY <1>1, RestartFails DEF Register!Next
<1>2. ASSUME NEW c \in Calls, Player(c) PROVE Register!Next
  <2>1. CASE Receive(c)
    BY <2>1, ReceiveIsReturn DEF Register!Next
  <2>2. CASE \E g \in Games, s \in Slots, b \in Bytes \cup {Void} : SendSave(c, g, s, b)
    BY <2>2, SendIsCall DEF SendSave, Register!Next
  <2>3. CASE \E g \in Games, s \in Slots \cup {Void} : SendLoad(c, g, s)
    BY <2>3, SendIsCall DEF SendLoad, Register!Next
  <2> QED BY <1>2, <2>1, <2>2, <2>3 DEF Player
<1>3. CASE UNCHANGED saveVars
  BY <1>3 DEF saveVars, CallViews, CallView, Asked, Found, CallAt
<1> QED BY <1>1, <1>2, <1>3, HandleStep DEF SaveNext, Backend

-----------------------------------------------------------------------------
\* The strengthened invariant holds throughout.
LEMMA InvAlways == SaveSpec => []Inv
BY InvInit, InvNext, PTL DEF SaveSpec

(***************************************************************************)
(* Rows, objects and requests keep their types, and what a request carries *)
(* is what its await says.                                                 *)
(***************************************************************************)
THEOREM TypeCorrect == SaveSpec => []SaveTypeOK
<1>1. Inv => SaveTypeOK
  BY DEF Inv
<1> QED BY <1>1, InvAlways, PTL

(***************************************************************************)
(* A save answered with 201 is never lost to an older one, a failure or a  *)
(* restart.                                                                *)
(***************************************************************************)
THEOREM AnsweredSavesAreKept == SaveSpec => []AnsweredSaveIsKept
<1>1. Inv => AnsweredSaveIsKept
  BY DEF Inv
<1> QED BY <1>1, InvAlways, PTL

(***************************************************************************)
(* The upload, the upsert and the two calls of a load together are atomic  *)
(* operations on the registers of SaveRegister.                            *)
(***************************************************************************)
THEOREM SavesAreAtomicRegisters == SaveSpec => SaveRegisterSpec
<1>1. Inv /\ [SaveNext]_saveVars =>
        [Register!Next]_<<rows, [c \in Calls |-> [st |-> Asked(c), game |-> call[c].game,
                                                 slot |-> call[c].slot, val |-> Found(c)]]>>
  BY RegisterStep DEF CallViews, CallView
<1> QED BY <1>1, RegisterInit, InvAlways, PTL DEF SaveSpec, SaveRegisterSpec, Register!Spec
=============================================================================
