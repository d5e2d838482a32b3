----------------------------- MODULE Catalogue -----------------------------
(***************************************************************************)
(* What the ROM library promises an admin who uploads: a file that was     *)
(* published can be played from then on, and an upload is reported         *)
(* complete only when its file has been published.  RomUploads is shown to *)
(* implement this module.                                                  *)
(***************************************************************************)
CONSTANTS
  Files,
  NoFile,     \* told of an upload that is not complete; not in Files
  Uploads

VARIABLES
  playable,   \* files of Files that a catalogued ROM can be played from
  told        \* Uploads -> the file the upload was reported complete for

CatalogueInit ==
  /\ playable = {}
  /\ told = [u \in Uploads |-> NoFile]

Publish(f) ==
  /\ playable' = playable \cup {f}
  /\ UNCHANGED told

ReportComplete(u, f) ==
  /\ f \in playable
  /\ told[u] = NoFile
  /\ told' = [told EXCEPT ![u] = f]
  /\ UNCHANGED playable

CatalogueNext ==
  \/ \E f \in Files : Publish(f)
  \/ \E u \in Uploads, f \in Files : ReportComplete(u, f)

CatalogueSpec == CatalogueInit /\ [][CatalogueNext]_<<playable, told>>
=============================================================================
