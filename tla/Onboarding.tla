----------------------------- MODULE Onboarding -----------------------------
(***************************************************************************)
(* The onboarding wizard, the page /admin/emulator-config and the routes   *)
(* /admin/emulator-config and /health behind them.  Tabs of one browser    *)
(* share the stored progress of the wizard; all share the configuration    *)
(* kept in Redis.                                                          *)
(*                                                                         *)
(* What a step sends but for the emulator's is one call that succeeds or   *)
(* fails (the upload is module RomUploads, the profile module Profile).    *)
(* AnyUrlFallsBack and SaveRepliedForgets are slips of the operators they  *)
(* stand before; no action uses them.                                      *)
(***************************************************************************)
EXTENDS FiniteSets

CONSTANTS
  Consoles,          \* tabs
  Reqs,              \* requests in flight, and the timers set by their answers
  Urls, DefaultUrl,  \* NEXT_PUBLIC_EMULATOR_EMBED_URL
  NoUrl,
  Loopback,          \* those of localhost, 127.0.0.1 or 0.0.0.0: the container is another URL
  AdminFaults        \* which of "redis", "lostReply", "quota" occur

ASSUME OnboardingAssumption ==
  /\ Consoles # {}
  /\ DefaultUrl \in Urls /\ NoUrl \notin Urls
  /\ Loopback \subseteq Urls

VARIABLES
  config,   \* Redis admin:emulator-config
  stored,   \* localStorage treazr.adminOnboarding.v1
  con,      \* per tab: the page or step shown, the progress and the form
  req,      \* per request: what it does and where it is
  probed    \* history: the URLs verified, and what answered the backend for them

adminVars == <<config, stored, con, req, probed>>

\* wizardSteps, in order: what comes before each.
Steps == {"health", "profile", "emulator", "rom"}
Preceding == [health |-> {}, profile |-> {"health"}, emulator |-> {"health", "profile"},
              rom |-> {"health", "profile", "emulator"}]

\* completed; the data of the steps "health" and "emulator".
Progress == [done : SUBSET Steps, health : {"none", "ok", "degraded"}, url : Urls \cup {NoUrl}]
NoProgress == [done |-> {}, health |-> "none", url |-> NoUrl]

\* as is history: the URL shown is as it came from the backend, as it was sent
\* to be verified, or has changed since.
\* busy: the status of the page /admin/emulator-config, which any answer resets.
Form == [url : Urls, verified : BOOLEAN, error : BOOLEAN, as : {"stored", "sent", "edited"},
         busy : {"no", "load", "save"}]
NewForm(url) == [url |-> IF url = NoUrl THEN DefaultUrl ELSE url, verified |-> url # NoUrl,
                 error |-> FALSE, as |-> "stored", busy |-> "no"]

ConRec == [view : Steps \cup {"closed", "config"}, prog : Progress, form : Form]
Closed == [view |-> "closed", prog |-> NoProgress, form |-> NewForm(NoUrl)]

\* gone: the step that sent it, or its whole page, is no longer shown.
ReqRec == [at : {"idle", "call", "get", "got", "probe", "fallback", "set", "saved", "timer"},
           from : Steps \cup {"config"}, tab : Consoles, url : Urls \cup {NoUrl},
           gone : {"no", "step", "page"}]
NoReq == [at |-> "idle", from |-> "config", tab |-> CHOOSE t \in Consoles : TRUE,
          url |-> NoUrl, gone |-> "no"]

AdminInit ==
  /\ config = NoUrl /\ stored = NoProgress /\ probed = {}
  /\ con = [t \in Consoles |-> Closed]
  /\ req = [r \in Reqs |-> NoReq]

Sent(t, from, at, url) ==
  [at |-> at, from |-> from, tab |-> t, url |-> url, gone |-> "no"]

Waits(t, ats) ==
  \E r \in Reqs : req[r].at \in ats /\ req[r].tab = t /\ req[r].gone = "no"

Saving(t) == Waits(t, {"probe", "fallback", "set", "saved"})

-----------------------------------------------------------------------------
FindNext(done) ==
  IF done = Steps THEN "rom" ELSE CHOOSE s \in Steps \ done : Preceding[s] \subseteq done

CanJumpTo(t, s) == s = con[t].view \/ Preceding[s] \subseteq con[t].prog.done

\* What is awaited goes on when its step or page is left, and is kept here as
\* far as it still has an effect;
Outlives(v, gone) == v.at \in {"probe", "fallback", "set"} \/ (gone = "step" /\ v.at \in {"call", "saved"})

\* a completion timer is cleared, but for one of a step that was left before.
Left(v, gone) ==
  IF Outlives(v, gone) THEN [v EXCEPT !.gone = IF @ = "page" THEN @ ELSE gone]
  ELSE IF v.gone # "no" /\ gone = "step" THEN v ELSE NoReq

Unmounted(rs, t, gone) ==
  [r \in Reqs |-> IF rs[r].tab = t /\ rs[r].at # "idle" THEN Left(rs[r], gone) ELSE rs[r]]

Loads(view, prog) == view = "config" \/ (view = "emulator" /\ prog.url = NoUrl)

\* The tab shows something else, which may load the configuration, as r.
Show(t, view, prog, gone, r, rs) ==
  /\ con' = [con EXCEPT ![t] =
       [view |-> view, prog |-> prog,
        form |-> [NewForm(IF view = "emulator" THEN prog.url ELSE NoUrl) EXCEPT
                    !.busy = IF view = "config" THEN "load" ELSE "no"]]]
  /\ LET left == Unmounted(rs, t, gone)
     IN IF Loads(view, prog)
        THEN left[r].at = "idle" /\ req' = [left EXCEPT ![r] = Sent(t, view, "get", NoUrl)]
        ELSE req' = left

VisitWizard(t, r) ==
  /\ con[t].view = "closed"
  /\ Show(t, FindNext(stored.done), stored, "page", r, req)
  /\ UNCHANGED <<config, stored, probed>>

VisitConfig(t, r) ==
  /\ con[t].view = "closed"
  /\ Show(t, "config", NoProgress, "page", r, req)
  /\ UNCHANGED <<config, stored, probed>>

Depart(t) ==
  /\ con[t].view # "closed"
  /\ con' = [con EXCEPT ![t] = Closed]
  /\ req' = Unmounted(req, t, "page")
  /\ UNCHANGED <<config, stored, probed>>

JumpTo(t, s, r) ==
  /\ con[t].view \in Steps \ {s} /\ CanJumpTo(t, s)
  /\ Show(t, s, con[t].prog, "step", r, req)
  /\ UNCHANGED <<config, stored, probed>>

\* handleCompletion, as request r ends: all steps keep the handler of their
\* page, also after they were left.  The progress is stored, if there is room.
Complete(r, prog) ==
  LET t == req[r].tab
      rs == [req EXCEPT ![r] = NoReq]
      next == FindNext(prog.done)
  IN IF req[r].gone = "page" THEN req' = rs /\ UNCHANGED <<con, stored>>
     ELSE /\ IF next = con[t].view
             THEN con' = [con EXCEPT ![t].prog = prog] /\ req' = rs
             ELSE Show(t, next, prog, "step", r, rs)
          /\ stored' = prog \/ ("quota" \in AdminFaults /\ UNCHANGED stored)

-----------------------------------------------------------------------------
Call(t, step, r) ==
  /\ con[t].view = step /\ req[r].at = "idle"
  /\ req' = [req EXCEPT ![r] = Sent(t, step, "call", NoUrl)]
  /\ UNCHANGED <<config, stored, con, probed>>

\* A step's button is disabled while its call is out,
HandleCheck(t, r) == ~Waits(t, {"call"}) /\ Call(t, "health", r)

SubmitProfile(t, r) == ~Waits(t, {"call"}) /\ Call(t, "profile", r)

\* but for that of the upload, which is given a disabled of its own.
SubmitRom(t, r) == Call(t, "rom", r)

\* buildHealthResponse answers whatever is down, and the step is completed
\* whatever it answers.
HealthStatus(down) == IF down = {} THEN "ok" ELSE "degraded"

Ends(r, step, health) ==
  /\ req[r].at = "call" /\ req[r].from = step
  /\ LET prog == con[req[r].tab].prog
     IN Complete(r, [prog EXCEPT !.done = @ \cup {step}, !.health = IF health = "none" THEN @ ELSE health])
  /\ UNCHANGED <<config, probed>>

HealthChecked(r) ==
  \E down \in SUBSET {"redis", "prisma", "objectStorage"} : Ends(r, "health", HealthStatus(down))

ProfileVerified(r) == Ends(r, "profile", "none")

RomUploaded(r) == Ends(r, "rom", "none")

CallFails(r) ==
  /\ req[r].at = "call"
  /\ req' = [req EXCEPT ![r] = NoReq]
  /\ UNCHANGED <<config, stored, con, probed>>

-----------------------------------------------------------------------------
EditUrl(t, url) ==
  /\ \/ con[t].view = "emulator"
     \/ con[t].view = "config" /\ con[t].form.busy = "no"
  /\ con' = [con EXCEPT ![t].form.url = url, ![t].form.as = "edited"]
  /\ UNCHANGED <<config, stored, req, probed>>

\* "Reload from backend"
LoadConfig(t, r) ==
  /\ \/ con[t].view = "emulator" /\ ~Waits(t, {"get", "got"})
     \/ con[t].view = "config" /\ con[t].form.busy # "load"
  /\ req[r].at = "idle"
  /\ req' = [req EXCEPT ![r] = Sent(t, con[t].view, "get", NoUrl)]
  /\ con' = [con EXCEPT ![t].form.error = FALSE,
                        ![t].form.busy = IF con[t].view = "config" THEN "load" ELSE "no"]
  /\ UNCHANGED <<config, stored, probed>>

\* "Validate & save"
SaveConfig(t, r) ==
  /\ \/ con[t].view = "emulator" /\ ~Saving(t)
     \/ con[t].view = "config" /\ con[t].form.busy = "no"
  /\ req[r].at = "idle"
  /\ req' = [req EXCEPT ![r] = Sent(t, con[t].view, "probe", con[t].form.url)]
  /\ con' = [con EXCEPT ![t].form.error = FALSE, ![t].form.as = "sent",
                        ![t].form.busy = IF con[t].view = "config" THEN "save" ELSE "no"]
  /\ UNCHANGED <<config, stored, probed>>

ReqTo(r, at) == req' = [req EXCEPT ![r].at = at]

GetConfig(r) ==
  /\ req[r].at = "get"
  /\ req' = [req EXCEPT ![r].at = "got", ![r].url = config]
  /\ UNCHANGED <<config, stored, con, probed>>

\* PUT: verifyEmulatorEndpoint asks the URL,
EndpointAnswers(r) ==
  /\ req[r].at = "probe"
  /\ ReqTo(r, "set") /\ probed' = probed \cup {<<req[r].url, "itself">>}
  /\ UNCHANGED <<config, stored, con>>

AnyUrlFallsBack(r) ==
  /\ req[r].at = "probe"
  /\ ReqTo(r, "fallback")
  /\ UNCHANGED <<config, stored, con, probed>>

\* and if that fails, for a loopback URL, the container at EMULATORJS_HOST;
EndpointFails(r) ==
  /\ req[r].at = "probe" /\ req[r].url \in Loopback
  /\ ReqTo(r, "fallback")
  /\ UNCHANGED <<config, stored, con, probed>>

ContainerAnswers(r) ==
  /\ req[r].at = "fallback"
  /\ ReqTo(r, "set") /\ probed' = probed \cup {<<req[r].url, "container">>}
  /\ UNCHANGED <<config, stored, con>>

\* then redis.set of the URL as it was sent, in whatever order the endpoints of
\* two requests answered.
SetConfig(r) ==
  /\ req[r].at = "set"
  /\ config' = req[r].url /\ ReqTo(r, "saved")
  /\ UNCHANGED <<stored, con, probed>>

ConfigLoaded(r) ==
  /\ req[r].at = "got"
  /\ req' = [req EXCEPT ![r] = NoReq]
  /\ con' = IF req[r].gone # "no" THEN con
            ELSE [con EXCEPT ![req[r].tab].form =
                    [NewForm(req[r].url) EXCEPT !.error = con[req[r].tab].form.error,
                                                !.as = IF Saving(req[r].tab) THEN "edited" ELSE "stored"]]
  /\ UNCHANGED <<config, stored, probed>>

SaveRepliedForgets(r) ==
  /\ req[r].at = "saved"
  /\ req' = [req EXCEPT ![r] = NoReq]
  /\ con' = IF req[r].gone # "no" THEN con
            ELSE [con EXCEPT ![req[r].tab].form.verified = TRUE]
  /\ UNCHANGED <<config, stored, probed>>

\* The wizard marks the URL it shows as verified and sets the completion timer
\* anew; the config page shows the URL it saved.
ConfigSaved(r) ==
  /\ req[r].at = "saved"
  /\ LET t == req[r].tab
         shown == req[r].gone = "no"
     IN /\ con' = IF ~shown THEN con
                  ELSE [con EXCEPT ![t].form.verified = TRUE, ![t].form.busy = "no",
                          ![t].form.url = IF req[r].from = "config" THEN req[r].url ELSE @,
                          ![t].form.as = IF req[r].from = "config" \/ @ = "sent" THEN "stored" ELSE @]
        /\ req' = IF req[r].from = "config" THEN [req EXCEPT ![r] = NoReq]
                  ELSE [q \in Reqs |->
                    CASE q = r -> [req[r] EXCEPT !.at = "timer"]
                      [] shown /\ req[q].at = "timer" /\ req[q].tab = t /\ req[q].gone = "no" -> NoReq
                      [] OTHER -> req[q]]
  /\ UNCHANGED <<config, stored, probed>>

\* Nothing answers, Redis fails, or the answer is lost.
ConfigFails(r) ==
  /\ \/ req[r].at = "probe" /\ req[r].url \notin Loopback
     \/ req[r].at = "fallback"
     \/ "redis" \in AdminFaults /\ req[r].at \in {"get", "set"}
     \/ "lostReply" \in AdminFaults /\ req[r].at \in {"got", "saved"}
  /\ req' = [req EXCEPT ![r] = NoReq]
  /\ con' = IF req[r].gone # "no" THEN con ELSE [con EXCEPT ![req[r].tab].form.error = TRUE,
                                                               ![req[r].tab].form.busy = "no"]
  /\ UNCHANGED <<config, stored, probed>>

\* One second after the answer.
TimerFires(r) ==
  /\ req[r].at = "timer"
  /\ LET prog == con[req[r].tab].prog
     IN Complete(r, [prog EXCEPT !.done = @ \cup {"emulator"}, !.url = req[r].url])
  /\ UNCHANGED <<config, probed>>

Handle(r) ==
  \/ HealthChecked(r) \/ ProfileVerified(r) \/ RomUploaded(r) \/ CallFails(r)
  \/ GetConfig(r) \/ EndpointAnswers(r) \/ EndpointFails(r) \/ ContainerAnswers(r) \/ SetConfig(r)
  \/ ConfigLoaded(r) \/ ConfigSaved(r) \/ ConfigFails(r) \/ TimerFires(r)

AdminNext ==
  \/ \E t \in Consoles : Depart(t) \/ \E url \in Urls : EditUrl(t, url)
  \/ \E t \in Consoles, r \in Reqs :
       \/ VisitWizard(t, r) \/ VisitConfig(t, r)
       \/ HandleCheck(t, r) \/ SubmitProfile(t, r) \/ SubmitRom(t, r)
       \/ LoadConfig(t, r) \/ SaveConfig(t, r)
       \/ \E s \in Steps : JumpTo(t, s, r)
  \/ \E r \in Reqs : Handle(r)

\* Requests are answered, after two probes of 5 s at the latest, and timers fire.
AdminFairness == \A r \in Reqs : WF_adminVars(Handle(r))

AdminSpec == AdminInit /\ [][AdminNext]_adminVars /\ AdminFairness

-----------------------------------------------------------------------------
AdminTypeOK ==
  /\ config \in Urls \cup {NoUrl} /\ probed \subseteq Urls \X {"itself", "container"}
  /\ stored \in Progress
  /\ con \in [Consoles -> ConRec]
  /\ req \in [Reqs -> ReqRec]

\* The URLs that have answered, and the loopback URLs in whose place the
\* container has.
VerifiedUrls ==
  {url \in Urls : \/ <<url, "itself">> \in probed
                  \/ url \in Loopback /\ <<url, "container">> \in probed}

\* The steps are completed in order, and the emulator's with a URL the backend
\* has verified, after it stored one.
Honest(prog) ==
  /\ \A s \in prog.done : Preceding[s] \subseteq prog.done
  /\ "emulator" \in prog.done => prog.url \in VerifiedUrls /\ config # NoUrl

(***************************************************************************)
(* The wizard never gets ahead of itself: what is stored and what each tab *)
(* holds is honest, whichever tab wrote last, with however old a progress, *)
(* and however late an answer or a completion timer came; the step shown   *)
(* is one all earlier steps allow; the configuration only ever names a URL *)
(* that has answered, or a loopback URL for which the container answered;  *)
(* and so does a form that says verified, unless it was edited or reloaded *)
(* meanwhile.                                                              *)
(***************************************************************************)
WizardIsHonest ==
  /\ Honest(stored)
  /\ config \in VerifiedUrls \cup {NoUrl}
  /\ \A t \in Consoles :
       LET c == con[t]
       IN /\ Honest(c.prog)
          /\ c.view \in Steps => Preceding[c.view] \subseteq c.prog.done
          /\ c.form.verified /\ c.form.as = "stored" => c.form.url \in VerifiedUrls

(***************************************************************************)
(* "Validate & save" of the wizard comes to an end: the step is completed, *)
(* or an error is shown, or the admin has left the step (which cancels the *)
(* completion of what has been saved) or pressed again within the second.  *)
(***************************************************************************)
SaveCompletes ==
  \A t \in Consoles :
    con[t].view = "emulator" /\ Saving(t)
      ~> \/ "emulator" \in con[t].prog.done \/ con[t].form.error
         \/ con[t].view # "emulator" \/ (Saving(t) /\ Waits(t, {"timer"}))
=============================================================================
