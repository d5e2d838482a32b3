----------------------------- MODULE MCConsole ------------------------------
(***************************************************************************)
(* What an admin and every signed-in user have, for TLC: the onboarding    *)
(* wizard with the emulator configuration, the upload form and the profile.*)
(* They share no state, so each behaviour moves one part; "admin" and      *)
(* "tabs" are two sizes of the first.                                      *)
(***************************************************************************)
EXTENDS Onboarding, UploadForm, Profile

VARIABLE part
vars == <<part, adminVars, uploadVars, profileVars>>

Parts == {"admin", "tabs", "upload", "profile"}

Init ==
  /\ part \in Parts
  /\ AdminInit /\ UploadInit /\ ProfileInit
  /\ part # "profile" => user.name = Short

\* Bound: "Reload from backend" is pressed when nothing else is out.
Unhurried ==
  \A t \in Consoles, r \in Reqs :
    req[r].at = "idle" /\ req'[r].at = "get" /\ con'[t].view = con[t].view
      => \A q \in Reqs : req[q].at = "idle"

Idle == CHOOSE t \in Consoles : TRUE

\* Bound: part "admin" is one tab with several requests, a localStorage that
\* refuses nothing, a backend that is degraded and uploads that fail (after the
\* last step the wizard does what it did before); part "tabs" several tabs of
\* the wizard, each with whatever progress it has, and one request at a time,
\* one URL and a backend that is well.
OneOrTwoTabs ==
  IF part = "admin"
  THEN /\ con'[Idle] = Closed
       /\ \A t \in Consoles : con'[t].view \in Steps =>
            con'[t].prog = stored' /\ con'[t].prog.health # "ok"
       /\ "rom" \notin stored'.done
  ELSE /\ \A r \in Reqs : req'[r].at # "idle" => r = CHOOSE q \in Reqs : TRUE
       /\ \A t \in Consoles :
            /\ con'[t].view # "config" /\ con'[t].form.url = DefaultUrl
            /\ con'[t].prog.health # "degraded"

\* What moves the wizard and the configuration.
Administers(A) ==
  part \in {"admin", "tabs"} /\ A /\ Unhurried /\ OneOrTwoTabs /\ UNCHANGED <<uploadVars, profileVars>>

\* Bound: one page is /profile, the other is not, and no upload is in flight
\* together with two updates.
OneEach ==
  LET first == CHOOSE e \in Editors : TRUE
  IN /\ \A e \in Editors :
          editor'[e].page \in {"closed"} \cup IF e = first THEN {"profile"} ELSE {"settings", "graphql"}
     /\ (\A e \in Editors : save'[e].at # "none") => \A e \in Editors : editor'[e].up = "none"

Next ==
  /\ UNCHANGED part
  /\ \/ Administers(AdminNext)
     \/ part = "upload" /\ UploadNext /\ UNCHANGED <<adminVars, profileVars>>
     \/ part = "profile" /\ ProfileNext /\ OneEach /\ UNCHANGED <<adminVars, uploadVars>>

Fairness ==
  \A r \in Reqs : WF_vars(Administers(Handle(r)) /\ UNCHANGED part)

Spec == Init /\ [][Next]_vars /\ Fairness

\* Every part is typed.
TypeOK == AdminTypeOK /\ UploadTypeOK /\ ProfileTypeOK
=============================================================================
