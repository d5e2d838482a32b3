----------------------------- MODULE RomUploads -----------------------------
(***************************************************************************)
(* How a ROM gets into the library: the upload page of an admin and the    *)
(* onboarding wizard, the object storage they put the file in, and the     *)
(* handlers under /admin/roms that verify the object and write the rows.   *)
(*                                                                         *)
(* An upload is one submission of a form.  It has two object keys, the one *)
(* of the presigned grant and the one of the direct fallback; both are     *)
(* fresh (randomUUID).  A file is identified with its SHA-256.  One action *)
(* is one awaited call of the page or of the registration handler.  The    *)
(* page may give up, or be closed, while a call of its own is still being  *)
(* served.  Variants that no action uses are named as in Sessions.         *)
(***************************************************************************)
EXTENDS FiniteSets

CONSTANTS
  Uploads,
  Files,      \* contents, by checksum
  NoFile,     \* the content of a key that holds no object
  Garbage,    \* an object that is not the file the page hashed
  Platforms,  \* slugs of platform names
  Faults,     \* which of "refuse", "cut" occur: a call fails, or is cut off
  LateFiles   \* files whose registration may fail for the page after its commit

ASSUME RomUploadsAssumption ==
  /\ NoFile \notin Files /\ Garbage \notin Files \cup {NoFile}
  /\ Faults \subseteq {"refuse", "cut"}
  /\ LateFiles \subseteq Files

Keys == Uploads \X {"grant", "direct"}
NoKey == <<>>

VARIABLES
  obj,        \* the bucket: Keys -> contents
  flying,     \* uploads whose PUT was cut off but may still be applied
  assets,     \* rows of Rom and RomAsset, written together: [key, sum, plat]
  platforms,  \* rows of Platform
  up,         \* the page, per upload
  reg         \* the registration handler, per upload

vars == <<obj, flying, assets, platforms, up, reg>>

(* Page states.  "report" is the error state in which the failure report is *)
(* in flight; "complete", "failed", "cleaned" and "closed" are final.       *)
Working == {"grant", "put", "direct", "verify", "register"}
Final == {"complete", "failed", "cleaned", "closed"}
PCs == {"new"} \cup Working \cup {"report"} \cup Final

RegPCs == {"none", "verify", "describe", "find", "platform", "newPlatform",
           "create", "sign", "done"}

\* cut and late are history: the PUT was cut off; the file was in the library
\* when the registration began.
Page == [pc : PCs, kind : {"page", "wizard"}, file : Files, plat : Platforms,
         key : Keys \cup {NoKey}, cut : BOOLEAN, late : BOOLEAN]

At(u, p) == up[u].pc = p

RegAt(u, p) == reg[u] = p

Goto(u, p) == up' = [up EXCEPT ![u].pc = p]

RegGoto(u, p) == reg' = [reg EXCEPT ![u] = p]

\* The catch of the page's uploadRom reports a failure if it has a key; the
\* wizard's hook only shows the error.
Caught(u) ==
  IF up[u].kind = "page" /\ up[u].key # NoKey THEN "report" ELSE "failed"

Stored(f) == {f, Garbage}      \* what a PUT of f may leave in the bucket

Catalogued(f) == \E a \in assets : a.sum = f

(***************************************************************************)
(* The page.                                                               *)
(***************************************************************************)
Submit(u) ==
  /\ At(u, "new")
  /\ Goto(u, "grant")
  /\ UNCHANGED <<obj, flying, assets, platforms, reg>>

GrantForgetsKey(u) ==
  /\ At(u, "grant")
  /\ Goto(u, "put")
  /\ UNCHANGED <<obj, flying, assets, platforms, reg>>

\* A fresh key, and a URL that is signed without looking at the bucket.
Granted(u) == up' = [up EXCEPT ![u].pc = "put", ![u].key = <<u, "grant">>]

\* POST /admin/roms/uploads/initiate
Grant(u) ==
  /\ At(u, "grant")
  /\ \/ Granted(u)
     \/ "refuse" \in Faults /\ Goto(u, Caught(u))
  /\ UNCHANGED <<obj, flying, assets, platforms, reg>>

\* A PUT that is answered with an error, or whose fetch throws, sends the page to
\* the direct upload (or, for a file over 50 MB, to its catch) and ends the wizard.
AfterBadPut(u) == IF up[u].kind = "page" THEN {"direct", "report"} ELSE {"failed"}

\* registerAdminRom: the handler begins, and the page waits for it.
SendRegistration(u) ==
  /\ up' = [up EXCEPT ![u].pc = "register", ![u].late = Catalogued(up[u].file)]
  /\ RegGoto(u, "verify")

Put(u) ==
  /\ At(u, "put")
  /\ \E c \in Stored(up[u].file) : obj' = [obj EXCEPT ![<<u, "grant">>] = c]
  /\ IF up[u].kind = "page"
       THEN Goto(u, "verify") /\ UNCHANGED reg
       ELSE SendRegistration(u)
  /\ UNCHANGED <<flying, assets, platforms>>

PutRefused(u) ==
  /\ "refuse" \in Faults
  /\ At(u, "put")
  /\ \E p \in AfterBadPut(u) : Goto(u, p)
  /\ UNCHANGED <<obj, flying, assets, platforms, reg>>

PutCutOff(u) ==
  /\ "cut" \in Faults
  /\ At(u, "put")
  /\ flying' = flying \cup {u}
  /\ \E p \in AfterBadPut(u) : up' = [up EXCEPT ![u].pc = p, ![u].cut = TRUE]
  /\ UNCHANGED <<obj, assets, platforms, reg>>

PutLands(u) ==
  /\ u \in flying
  /\ flying' = flying \ {u}
  /\ \E c \in Stored(up[u].file) : obj' = [obj EXCEPT ![<<u, "grant">>] = c]
  /\ UNCHANGED <<assets, platforms, up, reg>>

PutIsLost(u) ==
  /\ u \in flying
  /\ flying' = flying \ {u}
  /\ UNCHANGED <<obj, assets, platforms, up, reg>>

DirectKeepsKey(u) ==
  /\ At(u, "direct")
  /\ obj' = [obj EXCEPT ![<<u, "direct">>] = up[u].file]
  /\ Goto(u, "verify")
  /\ UNCHANGED <<flying, assets, platforms, reg>>

\* uploadAsset hashes what it was sent before it stores it.
Direct(u) ==
  /\ At(u, "direct")
  /\ obj' = [obj EXCEPT ![<<u, "direct">>] = up[u].file]
  /\ up' = [up EXCEPT ![u].pc = "verify", ![u].key = <<u, "direct">>]
  /\ UNCHANGED <<flying, assets, platforms, reg>>

DirectFails(u) ==
  /\ At(u, "direct")
  /\ \/ "refuse" \in Faults /\ UNCHANGED obj /\ Goto(u, "report")
     \/ /\ "cut" \in Faults
        /\ obj' = [obj EXCEPT ![<<u, "direct">>] = up[u].file]
        /\ up' = [up EXCEPT ![u].pc = "report", ![u].cut = TRUE]
  /\ UNCHANGED <<flying, assets, platforms, reg>>

\* POST /admin/roms/uploads/verify, then the page sends the registration.
Verify(u) ==
  /\ At(u, "verify")
  /\ obj[up[u].key] = up[u].file
  /\ SendRegistration(u)
  /\ UNCHANGED <<obj, flying, assets, platforms>>

VerifyFails(u) ==
  /\ At(u, "verify")
  /\ obj[up[u].key] # up[u].file \/ "refuse" \in Faults
  /\ Goto(u, "report")
  /\ UNCHANGED <<obj, flying, assets, platforms, reg>>

\* The answer of POST /admin/roms does not reach the page, which catches the error
\* while the handler, if it is not done, goes on.
ReplyLost(u) ==
  /\ up[u].file \in LateFiles
  /\ At(u, "register")
  /\ Goto(u, Caught(u))
  /\ UNCHANGED <<obj, flying, assets, platforms, reg>>

\* deleteAsset: a key without an object is deleted like any other.
Delete(k) == obj' = [obj EXCEPT ![k] = NoFile]

\* POST /admin/roms/uploads/failure deletes whatever key it is given and answers
\* 204; the page does not wait for it.
Report(u) ==
  /\ At(u, "report")
  /\ \/ Delete(up[u].key) /\ Goto(u, "cleaned")
     \/ "refuse" \in Faults /\ UNCHANGED obj /\ Goto(u, "failed")
  /\ UNCHANGED <<flying, assets, platforms, reg>>

\* The tab is closed: a PUT or direct upload that is under way may still be applied.
Close(u) ==
  /\ up[u].pc \in Working \cup {"report"}
  /\ up' = [up EXCEPT ![u].pc = "closed"]
  /\ flying' = IF At(u, "put") THEN flying \cup {u} ELSE flying
  /\ \/ UNCHANGED obj
     \/ At(u, "direct") /\ obj' = [obj EXCEPT ![<<u, "direct">>] = up[u].file]
     \/ At(u, "report") /\ Delete(up[u].key)
  /\ UNCHANGED <<assets, platforms, reg>>

(***************************************************************************)
(* POST /admin/roms: the handler, registerRom and the rows it writes.      *)
(***************************************************************************)
RegFailUncaught(u) == RegGoto(u, "done") /\ UNCHANGED up

\* 4xx or 5xx; a page that is still there catches it.
RegFail(u) ==
  /\ RegGoto(u, "done")
  /\ IF At(u, "register") THEN Goto(u, Caught(u)) ELSE UNCHANGED up

RegMayFail(u) == "refuse" \in Faults /\ RegFail(u)

VerifiedTrusts(u) == obj[up[u].key] # NoFile

Verified(u) == obj[up[u].key] = up[u].file

RegVerify(u) ==
  /\ RegAt(u, "verify")
  /\ \/ Verified(u) /\ RegGoto(u, "describe") /\ UNCHANGED up
     \/ ~Verified(u) /\ RegFail(u)
     \/ RegMayFail(u)
  /\ UNCHANGED <<obj, flying, assets, platforms>>

\* describeAsset: size and metadata are those of the object just verified, if it
\* is still there.
RegDescribe(u) ==
  /\ RegAt(u, "describe")
  /\ \/ obj[up[u].key] # NoFile /\ RegGoto(u, "find") /\ UNCHANGED up
     \/ obj[up[u].key] = NoFile /\ RegFail(u)
     \/ RegMayFail(u)
  /\ UNCHANGED <<obj, flying, assets, platforms>>

KnownNever(f) == FALSE

Known(f) == Catalogued(f)

\* An asset with this checksum: its ROM is the answer and nothing is written.
RegFind(u) ==
  /\ RegAt(u, "find")
  /\ \/ RegGoto(u, IF Known(up[u].file) THEN "sign" ELSE "platform") /\ UNCHANGED up
     \/ RegMayFail(u)
  /\ UNCHANGED <<obj, flying, assets, platforms>>

RegPlatform(u) ==
  /\ RegAt(u, "platform")
  /\ \/ /\ RegGoto(u, IF up[u].plat \in platforms THEN "create" ELSE "newPlatform")
        /\ UNCHANGED up
     \/ RegMayFail(u)
  /\ UNCHANGED <<obj, flying, assets, platforms>>

\* Platform.id and slug are unique: whoever comes second answers 500.
RegNewPlatform(u) ==
  /\ RegAt(u, "newPlatform")
  /\ \/ /\ up[u].plat \notin platforms
        /\ platforms' = platforms \cup {up[u].plat}
        /\ RegGoto(u, "create") /\ UNCHANGED up
     \/ /\ up[u].plat \in platforms \/ "refuse" \in Faults
        /\ RegFail(u) /\ UNCHANGED platforms
  /\ UNCHANGED <<obj, flying, assets>>

\* rom.create writes the ROM and its asset in one transaction; RomAsset.checksum
\* is unique.
RegCreate(u) ==
  /\ RegAt(u, "create")
  /\ \/ /\ ~Catalogued(up[u].file)
        /\ assets' = assets \cup {[key |-> up[u].key, sum |-> up[u].file, plat |-> up[u].plat]}
        /\ \/ RegGoto(u, "sign") /\ UNCHANGED up
           \/ up[u].file \in LateFiles /\ RegFail(u)
     \/ /\ Catalogued(up[u].file) \/ "refuse" \in Faults
        /\ RegFail(u) /\ UNCHANGED assets
  /\ UNCHANGED <<obj, flying, platforms>>

\* 201
RegDone(u) ==
  /\ RegGoto(u, "done")
  /\ IF At(u, "register") THEN Goto(u, "complete") ELSE UNCHANGED up

\* getSignedAssetUrl throws, with the rows already committed.
SignFails(u) == up[u].file \in LateFiles /\ RegFail(u)

\* enrichRom signs a URL for each asset.
RegSign(u) ==
  /\ RegAt(u, "sign")
  /\ RegDone(u) \/ SignFails(u)
  /\ UNCHANGED <<obj, flying, assets, platforms>>

PageStep(u) ==
  \/ Grant(u) \/ Put(u) \/ PutRefused(u) \/ PutCutOff(u)
  \/ Direct(u) \/ DirectFails(u) \/ Verify(u) \/ VerifyFails(u)
  \/ Report(u)

ServerStep(u) ==
  \/ RegVerify(u) \/ RegDescribe(u) \/ RegFind(u) \/ RegPlatform(u)
  \/ RegNewPlatform(u) \/ RegCreate(u) \/ RegSign(u)

\* What the forms will be filled in with is chosen here.
Init ==
  /\ obj = [k \in Keys |-> NoFile]
  /\ flying = {} /\ assets = {} /\ platforms = {}
  /\ up \in [Uploads -> {p \in Page :
                p.pc = "new" /\ p.key = NoKey /\ ~p.cut /\ ~p.late}]
  /\ reg = [u \in Uploads |-> "none"]

Next ==
  \E u \in Uploads :
    \/ Submit(u) \/ PageStep(u) \/ ServerStep(u)
    \/ PutLands(u) \/ PutIsLost(u) \/ ReplyLost(u) \/ Close(u)

Spec == Init /\ [][Next]_vars

\* Every call settles, so page and handler go on; nobody has to submit a form.
FairSpec ==
  Spec /\ \A u \in Uploads : WF_vars(PageStep(u)) /\ WF_vars(ServerStep(u))

-----------------------------------------------------------------------------
\* The values of the stores, the pages and the handlers; a page that is past its
\* grant has a key of its own.
TypeOK ==
  /\ obj \in [Keys -> Files \cup {NoFile, Garbage}]
  /\ flying \subseteq Uploads /\ platforms \subseteq Platforms
  /\ assets \subseteq [key : Keys, sum : Files, plat : platforms]
  /\ up \in [Uploads -> Page]
  /\ reg \in [Uploads -> RegPCs]
  /\ \A u \in Uploads : up[u].pc \in (Working \ {"grant"}) \cup {"report"}
       => up[u].key \in {<<u, "grant">>, <<u, "direct">>}

\* A page that reported its failure leaves no object of its own behind, under either
\* key, unless one of its calls was cut off (upload/page.tsx:263-272).
CleanedLeavesNothing ==
  \A u \in Uploads : At(u, "cleaned") /\ ~up[u].cut =>
    obj[<<u, "grant">>] = NoFile /\ obj[<<u, "direct">>] = NoFile

\* A file that was in the library when its registration began is not registered
\* again: "reuse the existing ROM instead of failing with a 500" (rom.service.ts:89).
DuplicateIsReused ==
  \A u \in Uploads : up[u].late => reg[u] \notin {"platform", "newPlatform", "create"}

\* Every submission comes to an end: a ROM, an error or a closed tab.
UploadEnds ==
  \A u \in Uploads : up[u].pc \in Working \cup {"report"} ~> up[u].pc \in Final

Playable == {f \in Files : \E a \in assets : a.sum = f /\ obj[a.key] = f}

\* "Upload complete. Redirecting to the ROM dossier" (upload/page.tsx:260): the ROM the
\* page goes to can be played.
CompleteMeansPlayable ==
  \A u \in Uploads : At(u, "complete") => up[u].file \in Playable

Library == INSTANCE Catalogue WITH
  Files    <- Files \ LateFiles,
  playable <- Playable \ LateFiles,
  told     <- [u \in Uploads |-> IF At(u, "complete") /\ up[u].file \notin LateFiles
                                 THEN up[u].file ELSE NoFile]

\* A file none of whose registrations fails after its commit, whatever happens to the
\* others, implements Catalogue: once it can be played it stays so, and nobody is told
\* that it was published before it can.
UploadsFillCatalogue == Library!CatalogueSpec
=============================================================================
