----------------------------- MODULE UploadForm -----------------------------
(***************************************************************************)
(* The page /admin/roms/upload: a file is chosen, its checksum computed,   *)
(* and "Create ROM" uploads, verifies and registers it.  Neither a new     *)
(* choice nor "Reset form" nor leaving stops what is under way, and all of *)
(* it writes the one form.  What the backend does is module RomUploads.    *)
(* VerifiesSome is a slip of the operator it stands before.                *)
(***************************************************************************)
EXTENDS Naturals

CONSTANTS
  Files, NoFile,   \* a file stands for its bytes and for their checksum
  Uploads,         \* uploads in flight
  MaxReads         \* bound: checksums of one file computed at a time

ASSUME UploadFormAssumption == NoFile \notin Files /\ MaxReads \in Nat

VARIABLES
  form,        \* what the page shows; mixed (history) as said at FormRec
  reading,     \* how many FileReaders of the page read each file
  up,          \* per upload: the call it awaits, what it sends, and two histories
  mislabelled  \* history: a ROM was registered with the checksum of another file

uploadVars == <<form, reading, up, mislabelled>>

\* page: the form, some other page, or the dossier of the ROM uploaded.
\* rom: optimisticRomId is set; pushed: the router is moving to that ROM's dossier.
\* mixed: the file was chosen while the checksum of another one was out.
FormRec ==
  [page : {"form", "other", "dossier"}, file : Files \cup {NoFile}, sum : Files \cup {NoFile},
   stage : {"idle", "computing", "ready", "uploading", "verifying", "registering", "redirecting", "error"},
   rom : BOOLEAN, pushed : BOOLEAN, mixed : BOOLEAN]
BlankForm == [page |-> "form", file |-> NoFile, sum |-> NoFile, stage |-> "idle",
            rom |-> FALSE, pushed |-> FALSE, mixed |-> FALSE]

\* gone: the page was left; disturbed: something else may move its stage.
UpRec == [at : {"none", "put", "direct", "verify", "register"},
          file : Files \cup {NoFile}, sum : Files \cup {NoFile}, gone : BOOLEAN, disturbed : BOOLEAN]
NoUp == [at |-> "none", file |-> NoFile, sum |-> NoFile, gone |-> FALSE, disturbed |-> FALSE]

UploadInit ==
  /\ form = [BlankForm EXCEPT !.page = "other"]
  /\ reading = [f \in Files |-> 0]
  /\ up = [u \in Uploads |-> NoUp]
  /\ mislabelled = FALSE

Hashing == \E f \in Files : reading[f] > 0

Mine == {u \in Uploads : up[u].at # "none" /\ ~up[u].gone}

Disturbed == [u \in Uploads |-> IF u \in Mine THEN [up[u] EXCEPT !.disturbed = TRUE] ELSE up[u]]

\* disabledReason is empty.
CanCreate ==
  /\ form.page = "form" /\ form.file # NoFile /\ form.sum # NoFile
  /\ form.stage \notin {"uploading", "registering", "redirecting", "verifying"}

-----------------------------------------------------------------------------
OpenForm ==
  /\ form.page # "form"
  /\ form' = BlankForm
  /\ UNCHANGED <<reading, up, mislabelled>>

\* What is under way goes on, without the form.
Away(page, ups) ==
  /\ form' = [BlankForm EXCEPT !.page = page]
  /\ reading' = [f \in Files |-> 0]
  /\ up' = [u \in Uploads |-> IF ups[u].at = "none" THEN NoUp
                              ELSE [ups[u] EXCEPT !.gone = TRUE, !.disturbed = TRUE]]

LeaveForm ==
  /\ form.page = "form"
  /\ Away("other", up)
  /\ UNCHANGED mislabelled

\* The file picker or a drop, at any stage.
ChooseFile(f) ==
  /\ form.page = "form" /\ reading[f] < MaxReads
  /\ form' = [form EXCEPT !.file = f, !.sum = NoFile, !.stage = "computing", !.mixed = Hashing]
  /\ reading' = [reading EXCEPT ![f] = @ + 1]
  /\ up' = Disturbed
  /\ UNCHANGED mislabelled

\* A drop without a file leaves the ROM shown, the button "Reset form" does not.
ClearFile ==
  /\ form.page = "form"
  /\ form' = [form EXCEPT !.file = NoFile, !.sum = NoFile, !.stage = "idle", !.mixed = Hashing]
  /\ up' = Disturbed
  /\ UNCHANGED <<reading, mislabelled>>

ResetForm ==
  /\ form.page = "form"
  /\ form' = [BlankForm EXCEPT !.pushed = form.pushed, !.mixed = Hashing]
  /\ up' = Disturbed
  /\ UNCHANGED <<reading, mislabelled>>

\* A checksum is shown as that of whatever file is shown.
ChecksumEnds(f) ==
  /\ reading[f] > 0
  /\ reading' = [reading EXCEPT ![f] = @ - 1]
  /\ \/ form' = [form EXCEPT !.sum = f, !.stage = "ready"]
     \/ form' = [form EXCEPT !.stage = "error"]
  /\ UNCHANGED <<up, mislabelled>>

-----------------------------------------------------------------------------
\* onSubmit
CreateRom(u) ==
  /\ CanCreate
  /\ up[u].at = "none"
  /\ form' = [form EXCEPT !.stage = "uploading"]
  /\ up' = [Disturbed EXCEPT ![u] =
              [at |-> "put", file |-> form.file, sum |-> form.sum, gone |-> FALSE,
               disturbed |-> Hashing \/ Mine # {}]]
  /\ UNCHANGED <<reading, mislabelled>>

Stage(u, stage) == form' = IF up[u].gone THEN form ELSE [form EXCEPT !.stage = stage]

UpTo(u, at) == up' = [up EXCEPT ![u].at = at]

\* The upload slot is granted and the file put there; a PUT that is refused, or
\* whose answer is lost, is followed by the direct upload, up to 50 MB.
PutReplied(u) ==
  /\ up[u].at = "put"
  /\ \/ UpTo(u, "verify") /\ Stage(u, "verifying")
     \/ UpTo(u, "direct") /\ UNCHANGED form
  /\ UNCHANGED <<reading, mislabelled>>

DirectReplied(u) ==
  /\ up[u].at = "direct" /\ UpTo(u, "verify") /\ Stage(u, "verifying")
  /\ UNCHANGED <<reading, mislabelled>>

VerifiesSome(u) == up[u].sum # NoFile

\* The backend hashes the object stored and compares.
Verifies(u) == up[u].file = up[u].sum

Verified(u) ==
  /\ up[u].at = "verify" /\ Verifies(u)
  /\ UpTo(u, "register") /\ Stage(u, "registering")
  /\ UNCHANGED <<reading, mislabelled>>

\* The page moves to the dossier; so does a page that had moved on to another.
Registered(u) ==
  /\ up[u].at = "register"
  /\ mislabelled' = (mislabelled \/ up[u].file # up[u].sum)
  /\ \/ /\ ~up[u].gone
        /\ form' = [form EXCEPT !.stage = "redirecting", !.rom = TRUE, !.pushed = TRUE]
        /\ up' = [up EXCEPT ![u] = NoUp]
        /\ UNCHANGED reading
     \/ up[u].gone /\ Away("dossier", [up EXCEPT ![u] = NoUp])

\* router.push, which nothing takes back.
Redirect ==
  /\ form.pushed
  /\ Away("dossier", up)
  /\ UNCHANGED mislabelled

\* A call is refused, its answer lost, or the checksums differ.
CreateFails(u) ==
  /\ up[u].at # "none"
  /\ up' = [up EXCEPT ![u] = NoUp]
  /\ Stage(u, "error")
  /\ \/ UNCHANGED mislabelled
     \/ up[u].at = "register" /\ mislabelled' = (mislabelled \/ up[u].file # up[u].sum)
  /\ UNCHANGED reading

UploadNext ==
  \/ OpenForm \/ LeaveForm \/ ClearFile \/ ResetForm \/ Redirect
  \/ \E f \in Files : ChooseFile(f) \/ ChecksumEnds(f)
  \/ \E u \in Uploads :
       \/ CreateRom(u) \/ PutReplied(u) \/ DirectReplied(u)
       \/ Verified(u) \/ Registered(u) \/ CreateFails(u)

UploadSpec == UploadInit /\ [][UploadNext]_uploadVars

-----------------------------------------------------------------------------
UploadTypeOK ==
  /\ form \in FormRec /\ reading \in [Files -> 0 .. MaxReads]
  /\ up \in [Uploads -> UpRec] /\ mislabelled \in BOOLEAN

(***************************************************************************)
(* Whatever the order in which checksums and uploads end: a ROM registered *)
(* has the checksum of its bytes; the checksum shown is that of the file   *)
(* shown unless that was chosen while another checksum was out; and "Every *)
(* step shows a status you can trust" (upload/page.tsx:336) as far as it   *)
(* holds: while an upload that nothing disturbed is out the form says so   *)
(* and cannot be sent again, and what redirects has been registered.       *)
(***************************************************************************)
UploadFormIsHonest ==
  /\ ~mislabelled
  /\ form.sum # NoFile /\ ~form.mixed => form.sum = form.file
  /\ \A u \in Mine : ~up[u].disturbed =>
       form.stage = CASE up[u].at = "verify"   -> "verifying"
                      [] up[u].at = "register" -> "registering"
                      [] OTHER                 -> "uploading"
  /\ form.stage = "redirecting" => form.rom
=============================================================================
