----------------------------- MODULE SaveStates -----------------------------
(***************************************************************************)
(* Cloud saves of the backend: the handlers of POST and GET                *)
(* /roms/:id/save-state(s) and the SaveStateService they call.  A save     *)
(* puts its bytes into the object store under a fresh key and then points  *)
(* the row of its slot at the key; a load finds a row and then fetches the *)
(* object, so two requests interleave between any of these calls.          *)
(*                                                                         *)
(* A game is a pair of a player and a ROM, which every query of the        *)
(* service filters by.  Keys are numbered as their upserts are sent: that  *)
(* is the order of the updatedAt that Prisma puts into the rows, so the    *)
(* row with the greatest key is the one findFirst returns.  Objects and    *)
(* rows are never deleted.                                                 *)
(*                                                                         *)
(* UploadAnyway, UpsertIfAbsent and FindAny are slips of the operators     *)
(* they stand before; no action uses them.                                 *)
(***************************************************************************)
EXTENDS Integers, FiniteSets, Sequences

CONSTANTS
  Calls,       \* requests in flight
  Games,
  Slots,
  Bytes,       \* bodies of a save that the handler accepts
  MaxSaves,    \* bound: objects stored in one behaviour
  SaveFaults,  \* which of "expired", "query", "store", "lostAck", "restart" occur
  Void         \* no game, slot or bytes

ASSUME SaveStatesAssumption ==
  /\ MaxSaves \in Nat
  /\ Void \notin Games \cup Slots \cup Bytes
  /\ Slots # {}

Keys == 1 .. MaxSaves
NoKey == 0

VARIABLES
  made,      \* the saves uploaded, in order; the position is the key
  objects,   \* keys the object store holds
  rows,      \* SaveState.objectKey by game and slot, NoKey without a row
  call,      \* per request: the await it is at, what it asks and has found
  answered   \* history: keys whose save was answered with 201

saveVars == <<made, objects, rows, call, answered>>

SavePCs == {"idle", "checkSave", "checkLoad", "upload", "upsert", "find", "download",
            "saved", "loaded", "missing", "failed"}
Replies == {"saved", "loaded", "missing", "failed"}

\* before is history: the keys answered when the request was sent.
CallRec == [pc : SavePCs, game : Games \cup {Void}, slot : Slots \cup {Void},
            bytes : Bytes \cup {Void}, key : Keys \cup {NoKey}, before : SUBSET Keys]

NoCall == [pc |-> "idle", game |-> Void, slot |-> Void, bytes |-> Void,
           key |-> NoKey, before |-> {}]

SaveInit ==
  /\ made = <<>>
  /\ objects = {}
  /\ rows = [g \in Games |-> [s \in Slots |-> NoKey]]
  /\ call = [c \in Calls |-> NoCall]
  /\ answered = {}

CallAt(c, p) == call[c].pc = p
Then(c, p) == call' = [call EXCEPT ![c].pc = p]

(***************************************************************************)
(* The client.                                                             *)
(***************************************************************************)
Send(c, pc, g, s, b) ==
  /\ CallAt(c, "idle")
  /\ call' = [call EXCEPT ![c] = [NoCall EXCEPT !.pc = pc, !.game = g, !.slot = s,
                                                !.bytes = b, !.before = answered]]
  /\ UNCHANGED <<made, objects, rows, answered>>

\* bytes = Void is a body the handler refuses: empty, not base64 or over 5 MiB.
SendSave(c, g, s, b) == Send(c, "checkSave", g, s, b)

\* s = Void asks for the latest save of the game, else for the row of a slot.
SendLoad(c, g, s) == Send(c, "checkLoad", g, s, Void)

Receive(c) ==
  /\ call[c].pc \in Replies
  /\ call' = [call EXCEPT ![c] = NoCall]
  /\ UNCHANGED <<made, objects, rows, answered>>

(***************************************************************************)
(* The handlers.                                                           *)
(***************************************************************************)
MayFail(kind) == kind \in SaveFaults
MayBeLost(kind) == {kind, "lostAck"} \subseteq SaveFaults

\* authenticate refuses a token that has expired, before the handler.
Refuse(c) ==
  /\ MayFail("expired") /\ call[c].pc \in {"checkSave", "checkLoad"}
  /\ Then(c, "failed")
  /\ UNCHANGED <<made, objects, rows, answered>>

\* romService.findById, the caller's id and the schema of the body.
CheckSave(c) ==
  /\ CallAt(c, "checkSave")
  /\ \/ call[c].bytes # Void /\ Then(c, "upload")
     \/ call[c].bytes = Void /\ Then(c, "failed")
  /\ UNCHANGED <<made, objects, rows, answered>>

CheckLoad(c) ==
  /\ CallAt(c, "checkLoad")
  /\ Then(c, "find")
  /\ UNCHANGED <<made, objects, rows, answered>>

QueryFails(c) ==
  /\ MayFail("query") /\ call[c].pc \in {"checkSave", "checkLoad", "find", "upsert"}
  /\ Then(c, "failed")
  /\ UNCHANGED <<made, objects, rows, answered>>

\* putObject under a fresh UUID; the store may keep the object of a failed put.
UploadAnyway(c, kept) ==
  /\ CallAt(c, "upload") /\ Len(made) < MaxSaves
  /\ made' = Append(made, [game |-> call[c].game, slot |-> call[c].slot,
                           bytes |-> call[c].bytes, before |-> call[c].before])
  /\ objects' = IF kept THEN objects \cup {Len(made')} ELSE objects
  /\ call' = [call EXCEPT ![c].pc = "upsert", ![c].key = Len(made')]
  /\ UNCHANGED <<rows, answered>>

Upload(c, kept) ==
  /\ CallAt(c, "upload") /\ Len(made) < MaxSaves
  /\ made' = Append(made, [game |-> call[c].game, slot |-> call[c].slot,
                           bytes |-> call[c].bytes, before |-> call[c].before])
  /\ objects' = IF kept THEN objects \cup {Len(made')} ELSE objects
  /\ \/ /\ kept
        /\ call' = [call EXCEPT ![c].pc = "upsert", ![c].key = Len(made')]
     \/ /\ IF kept THEN MayBeLost("store") ELSE MayFail("store")
        /\ Then(c, "failed")
  /\ UNCHANGED <<rows, answered>>

\* saveState.upsert, one INSERT ... ON CONFLICT DO UPDATE statement.
Point(c) == rows' = [rows EXCEPT ![call[c].game][call[c].slot] = call[c].key]

UpsertIfAbsent(c) ==
  /\ CallAt(c, "upsert")
  /\ rows' = [rows EXCEPT ![call[c].game][call[c].slot] = IF @ = NoKey THEN call[c].key ELSE @]
  /\ Then(c, "saved")
  /\ answered' = answered \cup {call[c].key}
  /\ UNCHANGED <<made, objects>>

\* 201; every other end of the handler is an error.
AnswerSaved(c) == Then(c, "saved") /\ answered' = answered \cup {call[c].key}

Upsert(c) ==
  /\ CallAt(c, "upsert")
  /\ Point(c)
  /\ \/ AnswerSaved(c)
     \/ MayBeLost("query") /\ Then(c, "failed") /\ UNCHANGED answered
  /\ UNCHANGED <<made, objects>>

KeysHeld(g) == {rows[g][s] : s \in Slots} \ {NoKey}

Newest(ks) == CHOOSE k \in ks : \A j \in ks : j <= k

NewestOf(ks) == IF ks = {} THEN NoKey ELSE Newest(ks)

\* Without a row 404, else the service goes on to fetch its object.
Fetch(c, k) ==
  /\ call' = [call EXCEPT ![c].key = k, ![c].pc = IF k = NoKey THEN "missing" ELSE "download"]
  /\ UNCHANGED <<made, objects, rows, answered>>

FindAny(c) ==
  /\ CallAt(c, "find") /\ call[c].slot = Void
  /\ Fetch(c, NewestOf({k \in 1 .. Len(made) : made[k].game = call[c].game}))

\* getLatest: findFirst by updatedAt, descending.
FindLatest(c) ==
  /\ CallAt(c, "find") /\ call[c].slot = Void
  /\ Fetch(c, NewestOf(KeysHeld(call[c].game)))

\* getById: findFirst with the player and the ROM besides the row's id.
FindById(c) ==
  /\ CallAt(c, "find") /\ call[c].slot # Void
  /\ Fetch(c, rows[call[c].game][call[c].slot])

Download(c) ==
  /\ CallAt(c, "download")
  /\ IF call[c].key \in objects
     THEN call' = [call EXCEPT ![c].pc = "loaded", ![c].bytes = made[call[c].key].bytes]
     ELSE Then(c, "failed")
  /\ UNCHANGED <<made, objects, rows, answered>>

DownloadFails(c) ==
  /\ MayFail("store") /\ CallAt(c, "download")
  /\ Then(c, "failed")
  /\ UNCHANGED <<made, objects, rows, answered>>

\* The process stops: what its requests had not written stays unwritten.
SaveRestart ==
  /\ "restart" \in SaveFaults
  /\ \E c \in Calls : call[c].pc \notin Replies \cup {"idle"}
  /\ call' = [c \in Calls |-> IF call[c].pc \in Replies \cup {"idle"} THEN call[c]
                              ELSE [call[c] EXCEPT !.pc = "failed"]]
  /\ UNCHANGED <<made, objects, rows, answered>>

Handle(c) ==
  \/ Refuse(c) \/ CheckSave(c) \/ CheckLoad(c) \/ QueryFails(c)
  \/ \E kept \in BOOLEAN : Upload(c, kept)
  \/ Upsert(c) \/ FindLatest(c) \/ FindById(c) \/ Download(c) \/ DownloadFails(c)

Backend == SaveRestart \/ \E c \in Calls : Handle(c)

Player(c) ==
  \/ \E g \in Games, s \in Slots, b \in Bytes \cup {Void} : SendSave(c, g, s, b)
  \/ \E g \in Games, s \in Slots \cup {Void} : SendLoad(c, g, s)
  \/ Receive(c)

SaveNext == Backend \/ \E c \in Calls : Player(c)

SaveSpec == SaveInit /\ [][SaveNext]_saveVars

-----------------------------------------------------------------------------
MadeRec == [game : Games, slot : Slots, bytes : Bytes, before : SUBSET Keys]

\* Types, and what the await a request is at says of what it carries.
SaveTypeOK ==
  /\ made \in Seq(MadeRec) /\ Len(made) <= MaxSaves
  /\ objects \subseteq 1 .. Len(made)
  /\ answered \subseteq objects
  /\ rows \in [Games -> [Slots -> {NoKey} \cup 1 .. Len(made)]]
  /\ call \in [Calls -> CallRec]

(***************************************************************************)
(* A save answered with 201 is never lost: from then on its slot points at *)
(* an object the store has, and never at a save that had been answered     *)
(* before this one was sent (the order the player saw), however requests,  *)
(* failures and restarts interleave (SaveStateService.create uploads       *)
(* first and then replaces the row in one statement).                      *)
(***************************************************************************)
AnsweredSaveIsKept ==
  \A k \in answered :
    LET held == rows[made[k].game][made[k].slot]
    IN held \in objects /\ held \notin made[k].before

(***************************************************************************)
(* The slots are atomic registers: a save takes effect at its upsert, a    *)
(* load at its query, and the object fetched later still is the one of the *)
(* row that was found, since no key is ever written twice.                 *)
(***************************************************************************)
Asked(c) ==
  CASE CallAt(c, "idle") -> "free"
    [] call[c].pc \in {"checkSave", "upload", "upsert"} -> "saving"
    [] call[c].pc \in {"checkLoad", "find"} -> "loading"
    [] call[c].pc \in {"download", "loaded", "missing"} -> "found"
    [] OTHER -> call[c].pc

Found(c) == IF Asked(c) \in {"saved", "found"} THEN call[c].key ELSE NoKey

Register ==
  INSTANCE SaveRegister WITH
    Saves <- Keys, Empty <- NoKey, Any <- Void, reg <- rows,
    op <- [c \in Calls |-> [st |-> Asked(c), game |-> call[c].game,
                            slot |-> call[c].slot, val |-> Found(c)]]

SaveRegisterSpec == Register!Spec
=============================================================================
