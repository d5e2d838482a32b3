------------------------------ MODULE Profile -------------------------------
(***************************************************************************)
(* One user's profile: the row, the routes and the GraphQL resolver that   *)
(* read it and then update it, and the two pages that upload an avatar to  *)
(* the object storage and save it: /profile, and /settings/profile, which  *)
(* sends the avatar's key with every save and never its metadata.          *)
(*                                                                         *)
(* A stored avatar's content type and size are abstracted to the key they  *)
(* were sent with.  A row's name is not yet complete when the account was  *)
(* created with one of a single letter.  UploadEndsAnyway and WritesUnset  *)
(* are slips of the operators they stand before; no action uses them.      *)
(***************************************************************************)
EXTENDS FiniteSets

CONSTANTS
  Editors,       \* open pages, or GraphQL clients
  Names, Short,  \* display names; the incomplete one
  Keys,          \* object keys of avatars
  Null, Unset,   \* null, and a field that is not sent or not chosen
  ProfileFaults  \* which of "query", "upload", "lostReply" occur

ASSUME ProfileAssumption == Null # Unset /\ {Short, Null, Unset} \cap (Names \cup Keys) = {}

VARIABLES
  user,     \* the row
  objects,  \* the avatars in storage
  editor,   \* per page: what is chosen, and its upload
  save,     \* per page: the update in flight
  bare,     \* history: the keys saved without their metadata
  settled   \* history: the last update of the name came alone through updateUserProfile

profileVars == <<user, objects, editor, save, bare, settled>>

UserRec == [name : Names \cup {Short}, key : Keys \cup {Null}, meta : Keys \cup {Null},
            complete : BOOLEAN]

\* pick: avatarSelection of /profile, avatarObjectKey of /settings/profile;
\* key: the avatar being uploaded.
EditorRec == [page : {"closed", "profile", "settings", "graphql"}, pick : Keys \cup {Null, Unset},
              up : {"none", "put", "done"}, key : Keys \cup {Null}]
NoEditor == [page |-> "closed", pick |-> Unset, up |-> "none", key |-> Null]

\* meta: contentType and size are sent, or null is for one of them.
Payload == [name : Names \cup {Unset}, key : Keys \cup {Null, Unset}, meta : {"none", "null", "sent"}]

\* had: as it was read, the profile had been completed or its name was complete;
\* alone (history): no other update was written since.
SaveRec == [at : {"none", "read", "write", "saved"}, sends : Payload,
            had : BOOLEAN, alone : BOOLEAN]
NoSave == [at |-> "none", sends |-> [name |-> Unset, key |-> Unset, meta |-> "none"],
           had |-> FALSE, alone |-> TRUE]

ProfileInit ==
  /\ user \in {[name |-> n, key |-> Null, meta |-> Null, complete |-> FALSE] : n \in Names \cup {Short}}
  /\ objects = {} /\ bare = {} /\ settled = FALSE
  /\ editor = [e \in Editors |-> NoEditor]
  /\ save = [e \in Editors |-> NoSave]

IsProfileComplete(name) == name # Short

-----------------------------------------------------------------------------
\* What a page that has loaded the profile holds: the settings page the avatar's
\* key, and none when the load failed.
Loaded(page) ==
  IF page # "settings" THEN {Unset}
  ELSE {user.key} \cup (IF "query" \in ProfileFaults THEN {Null} ELSE {})

OpenEditor(e, page) ==
  /\ editor[e].page = "closed"
  /\ \E pick \in Loaded(page) :
       editor' = [editor EXCEPT ![e] = [NoEditor EXCEPT !.page = page, !.pick = pick]]
  /\ UNCHANGED <<user, objects, save, bare, settled>>

\* A page left with a request in flight is one that does nothing more.
CloseEditor(e) ==
  /\ editor[e].page # "closed" /\ editor[e].up = "none" /\ save[e].at = "none"
  /\ editor' = [editor EXCEPT ![e] = NoEditor]
  /\ UNCHANGED <<user, objects, save, bare, settled>>

\* buildObjectKey draws a key nobody has.
FreshKeys == Keys \ (objects \cup {editor[e].key : e \in Editors})

\* uploadAvatar: a grant is asked for,
ChooseImage(e) ==
  /\ editor[e].page \in {"profile", "settings"} /\ editor[e].up = "none" /\ save[e].at = "none"
  /\ \E k \in FreshKeys : editor' = [editor EXCEPT ![e].up = "put", ![e].key = k]
  /\ UNCHANGED <<user, objects, save, bare, settled>>

\* the browser puts the file there,
PutAvatar(e) ==
  /\ editor[e].up = "put"
  /\ objects' = objects \cup {editor[e].key}
  /\ editor' = [editor EXCEPT ![e].up = "done"]
  /\ UNCHANGED <<user, save, bare, settled>>

UploadEndsAnyway(e) ==
  /\ editor[e].up # "none"
  /\ editor' = [editor EXCEPT ![e].up = "none", ![e].pick = editor[e].key, ![e].key = Null]
  /\ UNCHANGED <<user, objects, save, bare, settled>>

\* and the page takes the key as its choice,
UploadEnds(e) ==
  /\ editor[e].up = "done"
  /\ editor' = [editor EXCEPT ![e].up = "none", ![e].pick = editor[e].key, ![e].key = Null]
  /\ UNCHANGED <<user, objects, save, bare, settled>>

\* or keeps the one it had.
UploadFails(e) ==
  /\ "upload" \in ProfileFaults /\ editor[e].up # "none"
  /\ editor' = [editor EXCEPT ![e].up = "none", ![e].key = Null]
  /\ UNCHANGED <<user, objects, save, bare, settled>>

\* "Remove avatar", on /profile only.
ClearAvatar(e) ==
  /\ editor[e].page = "profile" /\ editor[e].up = "none"
  /\ editor' = [editor EXCEPT ![e].pick = Null]
  /\ UNCHANGED <<user, objects, save, bare, settled>>

\* profilePatchSchema, as far as it tells payloads apart.
Valid(p) == (p.name # Unset \/ p.key # Unset) /\ (p.key = Null => p.meta = "none")

\* /profile sends a choice, with its metadata; the settings page its key, and
\* never any.  A GraphQL client may send part of the profile (the server takes
\* any key; this client sends those that were uploaded).
FromProfilePage(e, p) ==
  p.name # Unset /\ p.key = editor[e].pick /\ p.meta = IF p.key \in Keys THEN "sent" ELSE "none"

FromSettings(e, p) == p.name # Unset /\ p.key = editor[e].pick /\ p.meta = "none"

FromGraphql(p) == p.key \in objects \cup {Null, Unset}

Payloads(e) ==
  {p \in Payload : Valid(p) /\ CASE editor[e].page = "profile" -> FromProfilePage(e, p)
                                 [] editor[e].page = "settings" -> FromSettings(e, p)
                                 [] editor[e].page = "graphql" -> FromGraphql(p)
                                 [] OTHER -> FALSE}

Submit(e) ==
  /\ save[e].at = "none"
  /\ \E p \in Payloads(e) : save' = [save EXCEPT ![e] = [NoSave EXCEPT !.at = "read", !.sends = p]]
  /\ UNCHANGED <<user, objects, editor, bare, settled>>

\* updateUserProfile: findUnique,
ReadProfile(e) ==
  /\ save[e].at = "read"
  /\ save' = [save EXCEPT ![e].at = "write",
                          ![e].had = IsProfileComplete(user.name) \/ user.complete]
  /\ UNCHANGED <<user, objects, editor, bare, settled>>

MetaWritten(p) ==
  CASE p.meta = "sent" -> p.key
    [] p.meta = "null" -> Null
    [] OTHER -> user.meta

WritesUnset(p) == [key |-> p.key, meta |-> IF p.key = Null THEN Null ELSE MetaWritten(p)]

\* A field that is undefined is not written, and metadata only with a key.
AvatarWritten(p) ==
  CASE p.key = Unset -> [key |-> user.key, meta |-> user.meta]
    [] p.key = Null -> [key |-> Null, meta |-> Null]
    [] OTHER -> [key |-> p.key, meta |-> MetaWritten(p)]

\* profileCompletedAt, from the name that is sent or the row that was read.
Completed(s) == s.sends.name # Unset \/ s.had

Overtaken == [d \in Editors |-> IF save[d].at = "write" THEN [save[d] EXCEPT !.alone = FALSE] ELSE save[d]]

\* then update.
WriteProfile(e) ==
  LET p == save[e].sends
      avatar == AvatarWritten(p)
  IN /\ save[e].at = "write"
     /\ user' = [name |-> IF p.name = Unset THEN user.name ELSE p.name,
                 key |-> avatar.key, meta |-> avatar.meta, complete |-> Completed(save[e])]
     /\ save' = [Overtaken EXCEPT ![e] = [NoSave EXCEPT !.at = "saved"]]
     /\ bare' = IF p.key \in Keys /\ p.meta # "sent" THEN bare \cup {p.key} ELSE bare
     /\ settled' = save[e].alone
     /\ UNCHANGED <<objects, editor>>

\* PATCH /auth/profile, which the wizard uses.
PatchName(name) ==
  /\ user' = [user EXCEPT !.name = name]
  /\ save' = Overtaken
  /\ settled' = (settled /\ user.complete)
  /\ UNCHANGED <<objects, editor, bare>>

\* The answer resets the choice, also one that was made after the save was sent.
SaveAnswered(e) ==
  /\ save[e].at = "saved"
  /\ editor' = [editor EXCEPT ![e].pick = IF editor[e].page = "settings" THEN user.key ELSE Unset]
  /\ save' = [save EXCEPT ![e] = NoSave]
  /\ UNCHANGED <<user, objects, bare, settled>>

\* A query fails, or the answer is lost: the form is left as it is.
SaveFails(e) ==
  /\ \/ "query" \in ProfileFaults /\ save[e].at \in {"read", "write"}
     \/ "lostReply" \in ProfileFaults /\ save[e].at = "saved"
  /\ save' = [save EXCEPT ![e] = NoSave]
  /\ UNCHANGED <<user, objects, editor, bare, settled>>

ProfileNext ==
  \/ \E e \in Editors :
       \/ \E page \in {"profile", "settings", "graphql"} : OpenEditor(e, page)
       \/ CloseEditor(e) \/ ChooseImage(e) \/ PutAvatar(e) \/ UploadEnds(e) \/ UploadFails(e)
       \/ ClearAvatar(e) \/ Submit(e)
       \/ ReadProfile(e) \/ WriteProfile(e) \/ SaveAnswered(e) \/ SaveFails(e)
  \/ \E name \in Names : PatchName(name)

ProfileSpec == ProfileInit /\ [][ProfileNext]_profileVars

-----------------------------------------------------------------------------
ProfileTypeOK ==
  /\ user \in UserRec
  /\ objects \subseteq Keys /\ bare \subseteq Keys
  /\ editor \in [Editors -> EditorRec]
  /\ save \in [Editors -> SaveRec]
  /\ settled \in BOOLEAN

(***************************************************************************)
(* The row agrees with itself and with the storage, however uploads and    *)
(* updates of two pages interleave: the avatar it names has been uploaded, *)
(* its metadata is that avatar's unless it was saved without it, and a     *)
(* profile said to be complete has a complete name.  The converse may be   *)
(* lost to updates that overlap and to PATCH /auth/profile, and is back    *)
(* after the next update that comes alone.                                 *)
(***************************************************************************)
ProfileAgrees ==
  /\ user.key \in objects \cup {Null}
  /\ user.key = Null => user.meta = Null
  /\ user.meta = user.key \/ user.key \in bare
  /\ user.complete => IsProfileComplete(user.name)
  /\ settled /\ IsProfileComplete(user.name) => user.complete
=============================================================================
