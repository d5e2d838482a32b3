--------------------------- MODULE ConsoleProofs ----------------------------
(***************************************************************************)
(* Theorems about the onboarding wizard with the emulator configuration,   *)
(* the upload form and the profile, for any number of tabs, requests,      *)
(* files, checksums, uploads, pages and updates, one section for each; and *)
(* about the three of them together.                                       *)
(***************************************************************************)
EXTENDS MCConsole, TLAPS

-----------------------------------------------------------------------------
(***************************************************************************)
(* The wizard.  A request that may still complete a step was sent from a   *)
(* step that the tab's progress allowed, and until the page is left that   *)
(* progress only grows; a URL that a request brings back is verified, and  *)
(* the one it was sent with is still shown as long as nothing was edited.  *)
(***************************************************************************)
Answered(url) == url \in VerifiedUrls \cup {NoUrl}

Completes == {"call", "probe", "fallback", "set", "saved", "timer"}

\* What a request in flight carries.
Brings(v) ==
  /\ v.at = "probe" => v.url \in Urls
  /\ v.at = "fallback" => v.url \in Loopback
  /\ v.at = "got" => Answered(v.url)
  /\ v.at \in {"set", "saved", "timer"} => v.url \in VerifiedUrls
  /\ v.at \in {"saved", "timer"} => config # NoUrl
  /\ v.at = "call" => v.from \in Steps
  /\ v.at \in {"probe", "fallback", "set", "saved"} => v.from \in {"emulator", "config"}
  /\ v.at = "timer" => v.from = "emulator"

\* What it may still do to its tab.
OnView(v) == v.at # "idle" /\ v.gone = "no" => v.from = con[v.tab].view

Allowed(v) ==
  v.at \in Completes /\ v.from \in Steps /\ v.gone # "page" =>
    Preceding[v.from] \subseteq con[v.tab].prog.done

AsShown(v) ==
  LET f == con[v.tab].form
  IN v.at \in {"probe", "fallback", "set", "saved"} /\ v.from = "emulator" /\ v.gone = "no" =>
       /\ f.as = "sent" => v.url = f.url
       /\ f.as = "stored" => f.url \in VerifiedUrls

ReqOK(v) == Brings(v) /\ OnView(v) /\ Allowed(v) /\ AsShown(v)

ProgOK(prog) == Honest(prog) /\ Answered(prog.url)

ConOK(c) ==
  /\ ProgOK(c.prog)
  /\ c.view \in Steps => Preceding[c.view] \subseteq c.prog.done
  /\ c.form.verified /\ c.form.as = "stored" => c.form.url \in VerifiedUrls

AdminInv ==
  /\ AdminTypeOK /\ Answered(config) /\ ProgOK(stored)
  /\ \A t \in Consoles : ConOK(con[t])
  /\ \A r \in Reqs : ReqOK(req[r])

\* What is verified changes only as an endpoint answers.
LEMMA VerifiedStays == ASSUME UNCHANGED probed PROVE VerifiedUrls' = VerifiedUrls
  BY DEF VerifiedUrls

LEMMA VerifiedAreUrls == VerifiedUrls \subseteq Urls
  BY DEF VerifiedUrls

\* The order of the steps: there is a next one, and what comes before it is done.
LEMMA NextStep ==
  ASSUME NEW done \in SUBSET Steps
  PROVE  FindNext(done) \in Steps /\ Preceding[FindNext(done)] \subseteq done
<1>1. CASE done = Steps
  BY <1>1 DEF FindNext, Preceding, Steps
<1>2. CASE done # Steps
  <2>1. \E s \in Steps \ done : Preceding[s] \subseteq done
    BY <1>2 DEF Steps, Preceding
  <2>2. FindNext(done) = CHOOSE s \in Steps \ done : Preceding[s] \subseteq done
    BY <1>2 DEF FindNext
  <2> QED
    BY <2>1, <2>2
<1> QED
  BY <1>1, <1>2

\* Completing a step that was allowed keeps the order.
LEMMA CompleteInOrder ==
  ASSUME NEW done \in SUBSET Steps, \A s \in done : Preceding[s] \subseteq done,
         NEW step \in Steps, Preceding[step] \subseteq done
  PROVE  \A s \in done \cup {step} : Preceding[s] \subseteq done \cup {step}
OBVIOUS

\* An idle slot, a form that was just shown and a closed tab are as they should be.
LEMMA FreshRecords ==
  /\ NoReq \in ReqRec /\ NoReq.at = "idle" /\ ReqOK(NoReq)
  /\ \A url \in Urls \cup {NoUrl} :
       /\ NewForm(url) \in Form /\ NewForm(url).as = "stored" /\ NewForm(url).busy = "no"
       /\ NewForm(url).verified => NewForm(url).url = url /\ url # NoUrl
  /\ NoProgress \in Progress /\ ProgOK(NoProgress)
  /\ Closed \in ConRec /\ Closed.view = "closed" /\ ConOK(Closed)
<1>1. (CHOOSE t \in Consoles : TRUE) \in Consoles
  BY OnboardingAssumption
<1>2. NoReq \in ReqRec /\ NoReq.at = "idle"
  BY <1>1 DEF NoReq, ReqRec
<1>3. ReqOK(NoReq)
  BY <1>2 DEF ReqOK, Brings, OnView, Allowed, AsShown, Completes
<1>4. \A url \in Urls \cup {NoUrl} :
        /\ NewForm(url) \in Form /\ NewForm(url).as = "stored" /\ NewForm(url).busy = "no"
        /\ NewForm(url).verified => NewForm(url).url = url /\ url # NoUrl
  BY OnboardingAssumption DEF NewForm, Form
<1>5. NoProgress \in Progress /\ ProgOK(NoProgress)
  BY DEF NoProgress, Progress, ProgOK, Honest, Answered
<1>6. Closed \in ConRec /\ Closed.view = "closed" /\ Closed.prog = NoProgress
      /\ Closed.form = NewForm(NoUrl)
  BY <1>4, <1>5 DEF Closed, ConRec
<1>7. ConOK(Closed)
  BY <1>4, <1>5, <1>6 DEF ConOK, Steps
<1> QED
  BY <1>2, <1>3, <1>4, <1>5, <1>6, <1>7

\* No tab is open and nothing is stored.
LEMMA AdminInvInit == AdminInit => AdminInv
<1> SUFFICES ASSUME AdminInit PROVE AdminInv
  OBVIOUS
<1>1. AdminTypeOK
  BY FreshRecords DEF AdminInit, AdminTypeOK
<1> QED
  BY <1>1, FreshRecords DEF AdminInit, AdminInv, Answered

-----------------------------------------------------------------------------
\* What becomes of a request when its step or its page is left.
LEMMA UnmountedOne ==
  ASSUME NEW rs \in [Reqs -> ReqRec], NEW t \in Consoles, NEW gone \in {"step", "page"},
         NEW q \in Reqs
  PROVE  LET u == Unmounted(rs, t, gone)[q]
             v == rs[q]
         IN /\ u \in ReqRec
            /\ \/ u = NoReq
               \/ u = v /\ (v.tab # t \/ v.at = "idle" \/ (gone = "step" /\ v.gone # "no"))
               \/ /\ u.at = v.at /\ u.from = v.from /\ u.tab = v.tab /\ u.url = v.url
                  /\ u.gone # "no" /\ (gone = "page" => u.gone = "page")
                  /\ v.gone = "page" => u.gone = "page"
<1> DEFINE v == rs[q]
<1>1. v \in ReqRec
  OBVIOUS
<1>2. Unmounted(rs, t, gone)[q] = IF v.tab = t /\ v.at # "idle" THEN Left(v, gone) ELSE v
  BY DEF Unmounted
<1> HIDE DEF v
<1>3. CASE Outlives(v, gone)
  <2>1. Left(v, gone) = [v EXCEPT !.gone = IF v.gone = "page" THEN v.gone ELSE gone]
    BY <1>3 DEF Left
  <2>2. [v EXCEPT !.gone = IF v.gone = "page" THEN v.gone ELSE gone] \in ReqRec
    BY <1>1 DEF ReqRec
  <2>3. /\ Left(v, gone).at = v.at /\ Left(v, gone).from = v.from /\ Left(v, gone).tab = v.tab
        /\ Left(v, gone).url = v.url
        /\ Left(v, gone).gone = IF v.gone = "page" THEN v.gone ELSE gone
    BY <1>1, <2>1 DEF ReqRec
  <2> QED
    BY <1>1, <1>2, <2>1, <2>2, <2>3 DEF v
<1>4. CASE ~Outlives(v, gone)
  BY <1>1, <1>2, <1>4, FreshRecords DEF Left, v
<1> QED
  BY <1>3, <1>4

\* A request that was left, or that is none of the tab's, as the tab moves on.
LEMMA LeftReqOK ==
  ASSUME AdminTypeOK, NEW rs \in [Reqs -> ReqRec], NEW q \in Reqs, ReqOK(rs[q]),
         NEW t \in Consoles, NEW gone \in {"step", "page"}, NEW c \in ConRec,
         con' = [con EXCEPT ![t] = c], gone = "step" => con[t].prog.done \subseteq c.prog.done,
         UNCHANGED <<config, probed>>,
         NEW u, u = Unmounted(rs, t, gone)[q]
  PROVE  u \in ReqRec /\ ReqOK(u)'
<1>1. PICK v \in ReqRec : v = rs[q]
  OBVIOUS
<1>2. u \in ReqRec /\ v.tab \in Consoles /\ con \in [Consoles -> ConRec]
  BY <1>1, UnmountedOne, ZenonT(60) DEF ReqRec, AdminTypeOK
<1>3. CASE u = NoReq
  <2>1. ReqOK(NoReq)'
    BY FreshRecords DEF ReqOK, Brings, OnView, Allowed, AsShown, Completes
  <2> QED
    BY <1>2, <1>3, <2>1
<1>4. CASE u = v /\ (v.tab # t \/ v.at = "idle")
  <2>1. v.at # "idle" => con'[v.tab] = con[v.tab]
    BY <1>2, <1>4
  <2> QED
    BY <1>1, <1>2, <1>4, <2>1, VerifiedStays DEF ReqOK, Brings, Answered, OnView, Allowed, AsShown, Completes
<1>5. CASE u = v /\ gone = "step" /\ v.gone # "no"
  <2>1. con[v.tab].prog.done \subseteq con'[v.tab].prog.done
    BY <1>2, <1>5
  <2> QED
    BY <1>1, <1>2, <1>5, <2>1, VerifiedStays DEF ReqOK, Brings, Answered, OnView, Allowed, AsShown, Completes
<1>6. CASE /\ u.at = v.at /\ u.from = v.from /\ u.tab = v.tab /\ u.url = v.url
           /\ u.gone # "no" /\ (gone = "page" => u.gone = "page")
           /\ v.gone = "page" => u.gone = "page"
  <2>1. u.gone # "page" => con[v.tab].prog.done \subseteq con'[v.tab].prog.done
    BY <1>2, <1>6 DEF ReqRec
  <2> QED
    BY <1>1, <1>2, <1>6, <2>1, VerifiedStays DEF ReqOK, Brings, Answered, OnView, Allowed, AsShown, Completes
<1> QED
  BY <1>1, <1>3, <1>4, <1>5, <1>6, UnmountedOne

\* One tab changes, and all requests are as they should be.
LEMMA TabChanges ==
  ASSUME AdminInv, NEW t \in Consoles, NEW c \in ConRec, con' = [con EXCEPT ![t] = c],
         UNCHANGED <<config, probed>>, ConOK(c)', stored' \in Progress, ProgOK(stored'),
         req' \in [Reqs -> ReqRec], \A q \in Reqs : ReqOK(req[q])'
  PROVE  AdminInv'
<1>1. con' \in [Consoles -> ConRec] /\ con'[t] = c
  BY DEF AdminInv, AdminTypeOK
<1>2. AdminTypeOK'
  BY <1>1 DEF AdminInv, AdminTypeOK
<1>3. Answered(config)' /\ ProgOK(stored)'
  BY VerifiedStays DEF AdminInv, Answered, ProgOK, Honest
<1>4. ASSUME NEW d \in Consoles PROVE ConOK(con[d])'
  <2>1. CASE d = t
    BY <1>1, <2>1
  <2>2. CASE d # t
    <3>1. con'[d] = con[d] /\ ConOK(con[d])
      BY <2>2 DEF AdminInv, AdminTypeOK
    <3> QED
      BY <3>1, VerifiedStays DEF ConOK, ProgOK, Honest, Answered
  <2> QED
    BY <2>1, <2>2
<1> QED
  BY <1>2, <1>3, <1>4 DEF AdminInv

\* The tab shows another step or page, with progress it may have.
LEMMA ShowKeeps ==
  ASSUME AdminInv, NEW t \in Consoles, NEW view \in Steps \cup {"config"},
         NEW prog \in Progress, ProgOK(prog),
         view \in Steps => Preceding[view] \subseteq prog.done,
         NEW gone \in {"step", "page"}, gone = "step" => con[t].prog.done \subseteq prog.done,
         NEW rs \in [Reqs -> ReqRec], \A q \in Reqs : ReqOK(rs[q]),
         NEW r \in Reqs, Show(t, view, prog, gone, r, rs),
         UNCHANGED <<config, probed>>, stored' = stored \/ stored' = prog
  PROVE  AdminInv'
<1> DEFINE url == IF view = "emulator" THEN prog.url ELSE NoUrl
           fresh == [NewForm(url) EXCEPT !.busy = IF view = "config" THEN "load" ELSE "no"]
<1>1. /\ url \in Urls \cup {NoUrl} /\ Answered(url)
  BY DEF Progress, ProgOK, Answered
<1> HIDE DEF url
<1>2. PICK f \in Form : f = fresh
  BY <1>1, FreshRecords DEF Form
<1>3. /\ f.as = "stored" /\ (f.verified => f.url \in VerifiedUrls)
  BY <1>1, <1>2, FreshRecords DEF Form, Answered
<1>4. PICK c \in ConRec : c = [view |-> view, prog |-> prog, form |-> f]
  BY DEF ConRec
<1>5. con' = [con EXCEPT ![t] = c] /\ c.view = view /\ c.prog = prog /\ c.form = f
  BY <1>2, <1>4 DEF Show, url
<1>6. ConOK(c)'
  BY <1>3, <1>5, VerifiedStays DEF ConOK, ProgOK, Honest, Answered
<1>7. PICK left : left = Unmounted(rs, t, gone)
  OBVIOUS
<1>8. left = [q \in Reqs |-> left[q]]
  BY <1>7 DEF Unmounted
<1>9. ASSUME NEW q \in Reqs PROVE left[q] \in ReqRec /\ \A u : u = left[q] => ReqOK(u)'
  BY <1>5, <1>7, LeftReqOK DEF AdminInv
<1>10. CASE Loads(view, prog)
  <2>1. PICK s : s = Sent(t, view, "get", NoUrl)
    OBVIOUS
  <2>2. s \in ReqRec /\ s.at = "get" /\ s.tab = t /\ s.from = view
    BY <2>1 DEF Sent, ReqRec
  <2>3. req' = [left EXCEPT ![r] = s]
    BY <1>7, <1>10, <2>1 DEF Show
  <2>4. con'[t].view = view
    BY <1>5 DEF AdminInv, AdminTypeOK
  <2>5. ReqOK(s)'
    BY <2>2, <2>4 DEF ReqOK, Brings, OnView, Allowed, AsShown, Completes
  <2>6. ASSUME NEW q \in Reqs PROVE req'[q] \in ReqRec /\ ReqOK(req[q])'
    <3>1. req'[q] = IF q = r THEN s ELSE left[q]
      BY <1>8, <2>3
    <3> QED
      BY <1>9, <2>2, <2>5, <3>1
  <2>7. req' \in [Reqs -> ReqRec]
    BY <1>8, <1>9, <2>2, <2>3
  <2> QED
    BY <1>5, <1>6, <2>6, <2>7, TabChanges DEF AdminInv, AdminTypeOK
<1>11. CASE ~Loads(view, prog)
  <2>1. req' = left
    BY <1>7, <1>11 DEF Show
  <2>2. req' \in [Reqs -> ReqRec]
    BY <1>8, <1>9, <2>1
  <2>3. \A q \in Reqs : ReqOK(req[q])'
    BY <1>9, <2>1
  <2> QED
    BY <1>5, <1>6, <2>2, <2>3, TabChanges DEF AdminInv, AdminTypeOK
<1> QED
  BY <1>10, <1>11

\* Without r, the requests are as they should be.
LEMMA Forgotten ==
  ASSUME AdminInv, NEW r \in Reqs
  PROVE  /\ [req EXCEPT ![r] = NoReq] \in [Reqs -> ReqRec]
         /\ \A q \in Reqs : ReqOK([req EXCEPT ![r] = NoReq][q])
<1>1. req \in [Reqs -> ReqRec]
  BY DEF AdminInv, AdminTypeOK
<1>2. ASSUME NEW q \in Reqs PROVE ReqOK([req EXCEPT ![r] = NoReq][q])
  <2>1. [req EXCEPT ![r] = NoReq][q] = IF q = r THEN NoReq ELSE req[q]
    BY <1>1
  <2> QED
    BY <2>1, FreshRecords DEF AdminInv
<1> QED
  BY <1>1, <1>2, FreshRecords

\* A step is completed: the progress grows by it, is stored if there is room,
\* and the next step is shown, or the step that is shown stays.
LEMMA CompleteKeeps ==
  ASSUME AdminInv, NEW r \in Reqs, NEW prog \in Progress,
         req[r].gone # "page" =>
           ProgOK(prog) /\ con[req[r].tab].prog.done \subseteq prog.done,
         Complete(r, prog), UNCHANGED <<config, probed>>
  PROVE  AdminInv'
<1>1. PICK t \in Consoles : t = req[r].tab
  BY DEF AdminInv, AdminTypeOK, ReqRec
<1>2. PICK rs \in [Reqs -> ReqRec] : rs = [req EXCEPT ![r] = NoReq]
  BY Forgotten
<1>3. \A q \in Reqs : ReqOK(rs[q])
  BY <1>2, Forgotten
<1>4. prog.done \in SUBSET Steps
  BY DEF Progress
<1>5. FindNext(prog.done) \in Steps /\ Preceding[FindNext(prog.done)] \subseteq prog.done
  BY <1>4, NextStep
<1>6. con \in [Consoles -> ConRec] /\ con[t] \in ConRec /\ ConOK(con[t]) /\ stored \in Progress
      /\ ProgOK(stored)
  BY DEF AdminInv, AdminTypeOK
<1>7. CASE req[r].gone = "page"
  <2>1. req' = rs /\ UNCHANGED <<con, stored, config, probed>>
    BY <1>2, <1>7 DEF Complete
  <2>2. PICK c \in ConRec : c = con[t]
    BY <1>6
  <2>3. con' = [con EXCEPT ![t] = c] /\ ConOK(c)'
    BY <1>6, <2>1, <2>2, VerifiedStays DEF ConOK, ProgOK, Honest, Answered
  <2>4. \A q \in Reqs : ReqOK(req[q])'
    BY <1>3, <2>1, VerifiedStays DEF ReqOK, Brings, OnView, Allowed, AsShown, Answered
  <2> QED
    BY <1>6, <2>1, <2>2, <2>3, <2>4, TabChanges
<1>8. CASE req[r].gone # "page" /\ FindNext(prog.done) = con[t].view
  <2>1. con' = [con EXCEPT ![t].prog = prog] /\ req' = rs /\ (stored' = prog \/ stored' = stored)
    BY <1>1, <1>2, <1>8 DEF Complete
  <2>2. PICK c \in ConRec : c = [con[t] EXCEPT !.prog = prog]
    BY <1>6 DEF ConRec
  <2>3. con' = [con EXCEPT ![t] = c] /\ c.view = con[t].view /\ c.prog = prog /\ c.form = con[t].form
    BY <1>6, <2>1, <2>2 DEF ConRec
  <2>4. ConOK(c)'
    BY <1>5, <1>6, <1>8, <2>3, VerifiedStays DEF ConOK, ProgOK, Honest, Answered
  <2>5. ASSUME NEW q \in Reqs PROVE ReqOK(req[q])'
    <3>1. PICK v \in ReqRec : v = rs[q]
      OBVIOUS
    <3>2. /\ con'[v.tab].view = con[v.tab].view /\ con'[v.tab].form = con[v.tab].form
          /\ con[v.tab].prog.done \subseteq con'[v.tab].prog.done
      BY <1>1, <1>6, <1>8, <2>3, <3>1 DEF ReqRec
    <3>3. ReqOK(v)
      BY <1>3, <3>1
    <3>4. ReqOK(v)'
      BY <3>2, <3>3, VerifiedStays DEF ReqOK, Brings, OnView, Allowed, AsShown, Answered
    <3> QED
      BY <2>1, <3>1, <3>4
  <2>6. req' \in [Reqs -> ReqRec]
    BY <2>1
  <2>7. stored' \in Progress /\ ProgOK(stored')
    BY <1>6, <1>8, <2>1
  <2> QED
    BY <2>3, <2>4, <2>5, <2>6, <2>7, TabChanges
<1>9. CASE req[r].gone # "page" /\ FindNext(prog.done) # con[t].view
  <2>1. Show(t, FindNext(prog.done), prog, "step", r, rs) /\ (stored' = prog \/ stored' = stored)
    BY <1>1, <1>2, <1>9 DEF Complete
  <2> QED
    BY <1>1, <1>3, <1>5, <1>9, <2>1, ShowKeeps
<1> QED
  BY <1>7, <1>8, <1>9

\* A call answers, or the timer of a saved configuration fires.
LEMMA CompletionKeeps ==
  ASSUME AdminInv, NEW r \in Reqs,
         HealthChecked(r) \/ ProfileVerified(r) \/ RomUploaded(r) \/ TimerFires(r)
  PROVE  AdminInv'
<1>1. PICK t \in Consoles : t = req[r].tab
  BY DEF AdminInv, AdminTypeOK, ReqRec
<1>2. con[t] \in ConRec /\ con[t].prog \in Progress /\ ProgOK(con[t].prog) /\ ReqOK(req[r])
      /\ req[r] \in ReqRec
  BY DEF AdminInv, AdminTypeOK, ConRec, ConOK
<1>3. ASSUME NEW step \in Steps, NEW health \in {"none", "ok", "degraded"}, step # "emulator",
             Ends(r, step, health)
      PROVE  AdminInv'
  <2>1. PICK p \in Progress :
          p = [con[t].prog EXCEPT !.done = @ \cup {step}, !.health = IF health = "none" THEN @ ELSE health]
    BY <1>2 DEF Progress
  <2>2. p.done = con[t].prog.done \cup {step} /\ p.url = con[t].prog.url
    BY <1>2, <2>1 DEF Progress
  <2>3. req[r].at = "call" /\ req[r].from = step /\ Complete(r, p) /\ UNCHANGED <<config, probed>>
    BY <1>1, <1>3, <2>1 DEF Ends
  <2>4. req[r].gone # "page" => Preceding[step] \subseteq con[t].prog.done
    BY <1>1, <1>2, <2>3 DEF ReqOK, Allowed, Completes
  <2>5. req[r].gone # "page" => ProgOK(p)
    BY <1>2, <1>3, <2>2, <2>4, CompleteInOrder DEF ProgOK, Honest, Answered, Progress
  <2> QED
    BY <1>1, <2>2, <2>3, <2>5, CompleteKeeps
<1>4. CASE TimerFires(r)
  <2>1. /\ req[r].at = "timer" /\ req[r].from = "emulator"
        /\ req[r].url \in VerifiedUrls /\ config # NoUrl /\ req[r].url \in Urls \cup {NoUrl}
    BY <1>2, <1>4 DEF TimerFires, ReqOK, Brings, ReqRec
  <2>2. PICK p \in Progress :
          p = [con[t].prog EXCEPT !.done = @ \cup {"emulator"}, !.url = req[r].url]
    BY <1>2, <2>1 DEF Progress, Steps
  <2>3. p.done = con[t].prog.done \cup {"emulator"} /\ p.url = req[r].url
    BY <1>2, <2>2 DEF Progress
  <2>4. Complete(r, p) /\ UNCHANGED <<config, probed>>
    BY <1>1, <1>4, <2>2 DEF TimerFires
  <2>5. req[r].gone # "page" => Preceding["emulator"] \subseteq con[t].prog.done
    BY <1>1, <1>2, <2>1 DEF ReqOK, Allowed, Completes, Steps
  <2>6. req[r].gone # "page" => ProgOK(p)
    BY <1>2, <2>1, <2>3, <2>5, CompleteInOrder, VerifiedStays DEF ProgOK, Honest, Answered, Progress, Steps
  <2> QED
    BY <1>1, <2>3, <2>4, <2>6, CompleteKeeps
<1>5. CASE HealthChecked(r)
  BY <1>3, <1>5 DEF HealthChecked, HealthStatus, Steps
<1>6. CASE ProfileVerified(r) \/ RomUploaded(r)
  BY <1>3, <1>6 DEF ProfileVerified, RomUploaded, Steps
<1> QED
  BY <1>4, <1>5, <1>6

\* One request moves and its tab's form may change; a tab changes what it shows
\* only when it is left.
LEMMA RequestMoves ==
  ASSUME AdminInv, NEW r \in Reqs, NEW v \in ReqRec, req' = [req EXCEPT ![r] = v], stored' = stored,
         NEW t \in Consoles, NEW c \in ConRec, con' = [con EXCEPT ![t] = c],
         c.view = con[t].view, c.prog = con[t].prog,
         c.form.verified /\ c.form.as = "stored" => c.form.url \in VerifiedUrls,
         VerifiedUrls \subseteq VerifiedUrls', probed' \subseteq Urls \X {"itself", "container"},
         config' \in Urls \cup {NoUrl}, config' \in VerifiedUrls' \cup {NoUrl},
         config # NoUrl => config' # NoUrl,
         ReqOK(v)',
         \A q \in Reqs \ {r} : req[q].tab = t => AsShown(req[q])'
  PROVE  AdminInv'
<1>1. /\ con \in [Consoles -> ConRec] /\ con[t] \in ConRec /\ ConOK(con[t])
      /\ req \in [Reqs -> ReqRec] /\ stored \in Progress /\ ProgOK(stored)
  BY DEF AdminInv, AdminTypeOK
<1>2. con' \in [Consoles -> ConRec] /\ \A d \in Consoles \ {t} : con'[d] = con[d]
  BY <1>1
<1>3. AdminTypeOK'
  BY <1>1, <1>2 DEF AdminTypeOK
<1>4. ASSUME NEW p, ProgOK(p) PROVE ProgOK(p)'
  BY <1>4, VerifiedStays DEF ProgOK, Honest, Answered
<1>5. ASSUME NEW d \in Consoles PROVE ConOK(con[d])'
  <2>1. ProgOK(con[d].prog) /\ con'[d].prog = con[d].prog /\ con'[d].view = con[d].view
    BY <1>1, <1>2 DEF AdminInv, ConOK
  <2>2. PICK p : p = con[d].prog
    OBVIOUS
  <2>3. ProgOK(con[d].prog)'
    BY <1>4, <2>1, <2>2
  <2>4. con'[d].form.verified /\ con'[d].form.as = "stored" => con'[d].form.url \in VerifiedUrls'
    BY <1>1, <1>2 DEF AdminInv, ConOK
  <2> QED
    BY <2>1, <2>3, <2>4 DEF AdminInv, ConOK
<1>6. ASSUME NEW q \in Reqs PROVE ReqOK(req[q])'
  <2>1. CASE q = r
    <3>1. req'[q] = v
      BY <1>1, <2>1
    <3> QED
      BY <3>1
  <2>2. CASE q # r
    <3>1. PICK u \in ReqRec : u = req[q]
      BY <1>1
    <3>2. req'[q] = u /\ ReqOK(u) /\ u.tab \in Consoles
      BY <1>1, <2>2, <3>1 DEF AdminInv, ReqRec
    <3>3. con'[u.tab].view = con[u.tab].view /\ con'[u.tab].prog = con[u.tab].prog
      BY <1>1, <1>2, <3>2
    <3>4. Brings(u)' /\ OnView(u)' /\ Allowed(u)'
      BY <3>2, <3>3 DEF ReqOK, Brings, OnView, Allowed, Answered
    <3>5. AsShown(u)'
      <4>1. CASE u.tab = t
        BY <2>2, <3>1, <4>1, <3>2 DEF AsShown
      <4>2. CASE u.tab # t
        BY <1>2, <3>2, <4>2 DEF ReqOK, AsShown
      <4> QED
        BY <4>1, <4>2
    <3> QED
      BY <3>2, <3>4, <3>5 DEF ReqOK
  <2> QED
    BY <2>1, <2>2
<1>7. Answered(config)' /\ ProgOK(stored)'
  <2>1. PICK p : p = stored
    OBVIOUS
  <2>2. ProgOK(stored)'
    BY <1>1, <1>4, <2>1
  <2> QED
    BY <2>2 DEF Answered
<1> QED
  BY <1>3, <1>5, <1>6, <1>7 DEF AdminInv

\* A page or step is shown, or the page is left.
LEMMA ViewsKeep ==
  ASSUME AdminInv, NEW t \in Consoles,
         \/ Depart(t)
         \/ \E r \in Reqs : VisitWizard(t, r) \/ VisitConfig(t, r) \/ \E s \in Steps : JumpTo(t, s, r)
  PROVE  AdminInv'
<1>1. /\ con \in [Consoles -> ConRec] /\ con[t] \in ConRec /\ ConOK(con[t])
      /\ req \in [Reqs -> ReqRec] /\ (\A q \in Reqs : ReqOK(req[q]))
      /\ stored \in Progress /\ ProgOK(stored)
  BY DEF AdminInv, AdminTypeOK
<1>2. con[t].prog \in Progress /\ ProgOK(con[t].prog)
  BY <1>1 DEF ConRec, ConOK
<1>3. ASSUME NEW r \in Reqs, VisitWizard(t, r) PROVE AdminInv'
  <2>1. FindNext(stored.done) \in Steps /\ Preceding[FindNext(stored.done)] \subseteq stored.done
    BY <1>1, NextStep DEF Progress
  <2>2. /\ Show(t, FindNext(stored.done), stored, "page", r, req)
        /\ UNCHANGED <<config, stored, probed>>
    BY <1>3 DEF VisitWizard
  <2> QED
    BY <1>1, <2>1, <2>2, ShowKeeps
<1>4. ASSUME NEW r \in Reqs, VisitConfig(t, r) PROVE AdminInv'
  <2>1. "config" \notin Steps
    BY DEF Steps
  <2>2. Show(t, "config", NoProgress, "page", r, req) /\ UNCHANGED <<config, stored, probed>>
    BY <1>4 DEF VisitConfig
  <2> QED
    BY <1>1, <2>1, <2>2, FreshRecords, ShowKeeps
<1>5. ASSUME NEW r \in Reqs, NEW s \in Steps, JumpTo(t, s, r) PROVE AdminInv'
  <2>1. /\ Show(t, s, con[t].prog, "step", r, req) /\ UNCHANGED <<config, stored, probed>>
        /\ Preceding[s] \subseteq con[t].prog.done
    BY <1>1, <1>5 DEF JumpTo, CanJumpTo, ConOK
  <2> QED
    BY <1>1, <1>2, <2>1, ShowKeeps
<1>6. CASE Depart(t)
  <2>1. /\ con' = [con EXCEPT ![t] = Closed] /\ req' = Unmounted(req, t, "page")
        /\ UNCHANGED <<config, stored, probed>>
    BY <1>6 DEF Depart
  <2>2. ASSUME NEW q \in Reqs PROVE req'[q] \in ReqRec /\ ReqOK(req[q])'
    <3>1. PICK u : u = Unmounted(req, t, "page")[q]
      OBVIOUS
    <3> QED
      BY <1>1, <2>1, <3>1, FreshRecords, LeftReqOK DEF AdminInv
  <2>3. req' \in [Reqs -> ReqRec]
    BY <2>1, <2>2 DEF Unmounted
  <2>4. ConOK(Closed)'
    BY FreshRecords DEF ConOK, ProgOK, Honest, Answered, Closed, NoProgress, NewForm, Steps
  <2> QED
    BY <1>1, <2>1, <2>2, <2>3, <2>4, FreshRecords, TabChanges
<1> QED
  BY <1>3, <1>4, <1>5, <1>6

\* Calls are sent, or fail: their tab's form stays as it is.
LEMMA CallsKeep ==
  ASSUME AdminInv, NEW r \in Reqs,
         \/ \E t \in Consoles : HandleCheck(t, r) \/ SubmitProfile(t, r) \/ SubmitRom(t, r)
         \/ CallFails(r) \/ GetConfig(r) \/ SetConfig(r)
         \/ EndpointAnswers(r) \/ EndpointFails(r) \/ ContainerAnswers(r)
  PROVE  AdminInv'
<1>1. /\ con \in [Consoles -> ConRec] /\ req \in [Reqs -> ReqRec] /\ req[r] \in ReqRec
      /\ ReqOK(req[r]) /\ req[r].tab \in Consoles
      /\ config \in Urls \cup {NoUrl} /\ Answered(config) /\ probed \subseteq Urls \X {"itself", "container"}
  BY DEF AdminInv, AdminTypeOK, ReqRec
<1>2. ASSUME NEW v \in ReqRec, req' = [req EXCEPT ![r] = v], UNCHANGED <<stored, con>>,
             VerifiedUrls \subseteq VerifiedUrls', probed' \subseteq Urls \X {"itself", "container"},
             config' \in Urls \cup {NoUrl}, config' \in VerifiedUrls' \cup {NoUrl},
             config # NoUrl => config' # NoUrl, ReqOK(v)'
      PROVE  AdminInv'
  <2>1. PICK t \in Consoles : t = req[r].tab
    BY <1>1
  <2>2. PICK c \in ConRec : c = con[t]
    BY <1>1
  <2>3. con' = [con EXCEPT ![t] = c]
    BY <1>1, <1>2, <2>2
  <2>4. c.form.verified /\ c.form.as = "stored" => c.form.url \in VerifiedUrls
    BY <2>2 DEF AdminInv, ConOK
  <2>5. \A q \in Reqs \ {r} : req[q].tab = t => AsShown(req[q])'
    <3>1. \A q \in Reqs \ {r} : req'[q] = req[q] /\ AsShown(req[q])
      BY <1>1, <1>2 DEF AdminInv, ReqOK
    <3> QED
      BY <1>2, <3>1 DEF AsShown
  <2> QED
    <3>1. /\ stored' = stored /\ req' = [req EXCEPT ![r] = v]
          /\ VerifiedUrls \subseteq VerifiedUrls' /\ probed' \subseteq Urls \X {"itself", "container"} /\ ReqOK(v)'
      BY <1>2
    <3>2. /\ config' \in Urls \cup {NoUrl} /\ config' \in VerifiedUrls' \cup {NoUrl}
          /\ config # NoUrl => config' # NoUrl
      BY <1>2
    <3>3. c.view = con[t].view /\ c.prog = con[t].prog
      BY <2>2
    <3> QED
      BY <2>3, <2>4, <2>5, <3>1, <3>2, <3>3, RequestMoves, ZenonT(60)
<1>3. ASSUME NEW t \in Consoles, NEW step \in Steps, Call(t, step, r) PROVE AdminInv'
  <2>1. PICK v \in ReqRec : v = Sent(t, step, "call", NoUrl)
    BY <1>3 DEF Sent, ReqRec
  <2>2. v.at = "call" /\ v.from = step /\ v.tab = t /\ v.gone = "no"
    BY <2>1 DEF Sent
  <2>3. con[t].view = step /\ req' = [req EXCEPT ![r] = v] /\ UNCHANGED <<config, stored, con, probed>>
    BY <1>3, <2>1 DEF Call
  <2>4. Preceding[step] \subseteq con[t].prog.done
    BY <2>3 DEF AdminInv, ConOK
  <2>5. ReqOK(v)'
    BY <2>2, <2>3, <2>4 DEF ReqOK, Brings, OnView, Allowed, AsShown
  <2> QED
    BY <1>1, <1>2, <2>3, <2>5, VerifiedStays DEF Answered
<1>4. CASE CallFails(r)
  <2>1. ReqOK(NoReq)'
    BY FreshRecords DEF ReqOK, Brings, OnView, Allowed, AsShown, Completes
  <2>2. /\ req' = [req EXCEPT ![r] = NoReq] /\ UNCHANGED <<config, stored, con, probed>>
        /\ config' \in VerifiedUrls' \cup {NoUrl}
    BY <1>1, <1>4, VerifiedStays DEF CallFails, Answered
  <2> QED
    BY <1>1, <1>2, <1>4, <2>1, <2>2, FreshRecords, VerifiedStays
<1>5. CASE GetConfig(r)
  <2>1. PICK v \in ReqRec : v = [req[r] EXCEPT !.at = "got", !.url = config]
    BY <1>1 DEF ReqRec
  <2>2. /\ v.at = "got" /\ v.url = config /\ v.tab = req[r].tab /\ v.from = req[r].from
        /\ v.gone = req[r].gone
    BY <1>1, <2>1 DEF ReqRec
  <2>3. req' = [req EXCEPT ![r] = v] /\ UNCHANGED <<config, stored, con, probed>> /\ req[r].at = "get"
    BY <1>1, <1>5, <2>1 DEF GetConfig
  <2>4. ReqOK(v)'
    BY <1>1, <2>2, <2>3, VerifiedStays DEF ReqOK, Brings, OnView, Allowed, AsShown, Completes, Answered
  <2> QED
    BY <1>1, <1>2, <2>3, <2>4, VerifiedStays DEF Answered
<1>6. CASE EndpointAnswers(r) \/ ContainerAnswers(r)
  <2>1. PICK v \in ReqRec : v = [req[r] EXCEPT !.at = "set"]
    BY <1>1 DEF ReqRec
  <2>2. /\ v.at = "set" /\ v.url = req[r].url /\ v.tab = req[r].tab /\ v.from = req[r].from
        /\ v.gone = req[r].gone
    BY <1>1, <2>1 DEF ReqRec
  <2>3. PICK by \in {"itself", "container"} :
          /\ req' = [req EXCEPT ![r] = v] /\ UNCHANGED <<config, stored, con>>
          /\ req[r].at = IF by = "itself" THEN "probe" ELSE "fallback"
          /\ probed' = probed \cup {<<req[r].url, by>>}
    BY <1>1, <1>6, <2>1 DEF EndpointAnswers, ContainerAnswers, ReqTo
  <2>4. req[r].url \in Urls /\ (by = "container" => req[r].url \in Loopback)
    BY <1>1, <2>3, OnboardingAssumption DEF ReqOK, Brings
  <2>5. VerifiedUrls \subseteq VerifiedUrls' /\ req[r].url \in VerifiedUrls'
    BY <2>3, <2>4, VerifiedStays DEF VerifiedUrls
  <2>6. probed' \subseteq Urls \X {"itself", "container"}
    BY <1>1, <2>3, <2>4
  <2>7. ReqOK(v)'
    BY <1>1, <2>2, <2>3, <2>5 DEF ReqOK, Brings, OnView, Allowed, AsShown, Completes
  <2> QED
    BY <1>1, <1>2, <2>3, <2>5, <2>6, <2>7 DEF Answered
<1>8. CASE EndpointFails(r)
  <2>1. PICK v \in ReqRec : v = [req[r] EXCEPT !.at = "fallback"]
    BY <1>1 DEF ReqRec
  <2>2. /\ v.at = "fallback" /\ v.url = req[r].url /\ v.tab = req[r].tab /\ v.from = req[r].from
        /\ v.gone = req[r].gone
    BY <1>1, <2>1 DEF ReqRec
  <2>3. /\ req' = [req EXCEPT ![r] = v] /\ UNCHANGED <<config, stored, con, probed>>
        /\ req[r].at = "probe" /\ req[r].url \in Loopback
    BY <1>1, <1>8, <2>1 DEF EndpointFails, ReqTo
  <2>4. ReqOK(v)'
    BY <1>1, <2>2, <2>3, VerifiedStays DEF ReqOK, Brings, OnView, Allowed, AsShown, Completes
  <2> QED
    BY <1>1, <1>2, <2>3, <2>4, VerifiedStays DEF Answered
<1>7. CASE SetConfig(r)
  <2>1. PICK v \in ReqRec : v = [req[r] EXCEPT !.at = "saved"]
    BY <1>1 DEF ReqRec
  <2>2. /\ v.at = "saved" /\ v.url = req[r].url /\ v.tab = req[r].tab /\ v.from = req[r].from
        /\ v.gone = req[r].gone
    BY <1>1, <2>1 DEF ReqRec
  <2>3. /\ req' = [req EXCEPT ![r] = v] /\ UNCHANGED <<stored, con, probed>> /\ req[r].at = "set"
        /\ config' = req[r].url
    BY <1>1, <1>7, <2>1 DEF SetConfig, ReqTo
  <2>4. req[r].url \in VerifiedUrls /\ req[r].url # NoUrl
    BY <1>1, <2>3, VerifiedAreUrls, OnboardingAssumption DEF ReqOK, Brings
  <2>5. ReqOK(v)'
    BY <1>1, <2>2, <2>3, <2>4, VerifiedStays DEF ReqOK, Brings, OnView, Allowed, AsShown, Completes
  <2> QED
    BY <1>1, <1>2, <2>3, <2>4, <2>5, VerifiedStays, VerifiedAreUrls
<1> QED
  BY <1>3, <1>4, <1>5, <1>6, <1>7, <1>8 DEF HandleCheck, SubmitProfile, SubmitRom, Steps

\* The form is edited, loaded or sent, or an answer to it comes.
LEMMA FormKeeps ==
  ASSUME AdminInv, NEW t \in Consoles, NEW r \in Reqs,
         LoadConfig(t, r) \/ SaveConfig(t, r)
  PROVE  AdminInv'
<1>1. /\ con \in [Consoles -> ConRec] /\ con[t] \in ConRec /\ con[t].form \in Form
      /\ ConOK(con[t]) /\ req \in [Reqs -> ReqRec]
      /\ config \in Urls \cup {NoUrl} /\ config \in VerifiedUrls \cup {NoUrl} /\ probed \subseteq Urls \X {"itself", "container"}
      /\ \A q \in Reqs : ReqOK(req[q])
  BY DEF AdminInv, AdminTypeOK, ConRec, Answered
<1>2. CASE LoadConfig(t, r)
  <2>1. PICK f \in Form :
          f = [con[t].form EXCEPT !.error = FALSE,
                                  !.busy = IF con[t].view = "config" THEN "load" ELSE "no"]
    BY <1>1 DEF Form
  <2>2. f.url = con[t].form.url /\ f.verified = con[t].form.verified /\ f.as = con[t].form.as
    BY <1>1, <2>1 DEF Form
  <2>3. PICK c \in ConRec : c = [con[t] EXCEPT !.form = f]
    BY <1>1 DEF ConRec
  <2>4. con' = [con EXCEPT ![t] = c] /\ c.view = con[t].view /\ c.prog = con[t].prog /\ c.form = f
    <3>1. PICK busy : busy = IF con[t].view = "config" THEN "load" ELSE "no"
      OBVIOUS
    <3>2. [con EXCEPT ![t].form.error = FALSE, ![t].form.busy = busy] = [con EXCEPT ![t].form = f]
      BY <1>1, <2>1, <3>1 DEF ConRec
    <3>3. [con EXCEPT ![t].form = f] = [con EXCEPT ![t] = c]
      BY <1>1, <2>3 DEF ConRec
    <3>4. con' = [con EXCEPT ![t].form.error = FALSE, ![t].form.busy = busy]
      BY <1>2, <3>1 DEF LoadConfig
    <3> QED
      BY <1>1, <2>3, <3>2, <3>3, <3>4 DEF ConRec
  <2>5. con[t].view \in {"emulator", "config"}
    BY <1>2 DEF LoadConfig
  <2>6. PICK v \in ReqRec : v = Sent(t, con[t].view, "get", NoUrl)
    BY <2>5 DEF Sent, ReqRec, Steps
  <2>7. v.at = "get" /\ v.from = con[t].view /\ v.tab = t /\ v.gone = "no"
    BY <2>6 DEF Sent
  <2>8. req' = [req EXCEPT ![r] = v] /\ UNCHANGED <<config, stored, probed>>
    BY <1>2, <2>6 DEF LoadConfig
  <2>9. ReqOK(v)'
    <3>1. con'[t].view = con[t].view
      BY <1>1, <2>4
    <3> QED
      BY <2>7, <3>1 DEF ReqOK, Brings, OnView, Allowed, AsShown, Completes
  <2>10. \A q \in Reqs \ {r} : req[q].tab = t => AsShown(req[q])'
    <3>1. con'[t].form.url = con[t].form.url /\ con'[t].form.as = con[t].form.as /\ probed' = probed
      BY <1>1, <2>2, <2>4, <2>8
    <3>2. \A q \in Reqs \ {r} : req'[q] = req[q] /\ AsShown(req[q])
      BY <1>1, <2>8 DEF ReqOK
    <3> QED
      BY <3>1, <3>2, VerifiedStays DEF AsShown
  <2>11. c.form.verified /\ c.form.as = "stored" => c.form.url \in VerifiedUrls
    BY <1>1, <2>2, <2>4 DEF ConOK
  <2> QED
    <3>1. req' = [req EXCEPT ![r] = v] /\ stored' = stored /\ config' = config /\ probed' = probed
      BY <2>8
    <3>2. /\ VerifiedUrls \subseteq VerifiedUrls' /\ probed' \subseteq Urls \X {"itself", "container"}
          /\ config' \in Urls \cup {NoUrl} /\ config' \in VerifiedUrls' \cup {NoUrl}
          /\ config # NoUrl => config' # NoUrl
      BY <1>1, <3>1, VerifiedStays
    <3>3. c.form.verified /\ c.form.as = "stored" => c.form.url \in VerifiedUrls
      BY <2>11
    <3> QED
      BY <2>4, <2>9, <2>10, <3>1, <3>2, <3>3, RequestMoves, ZenonT(60)
<1>3. CASE SaveConfig(t, r)
  <2>1. PICK f \in Form :
          f = [con[t].form EXCEPT !.error = FALSE, !.as = "sent",
                                  !.busy = IF con[t].view = "config" THEN "save" ELSE "no"]
    BY <1>1 DEF Form
  <2>2. f.url = con[t].form.url /\ f.as = "sent"
    BY <1>1, <2>1 DEF Form
  <2>3. PICK c \in ConRec : c = [con[t] EXCEPT !.form = f]
    BY <1>1 DEF ConRec
  <2>4. con' = [con EXCEPT ![t] = c] /\ c.view = con[t].view /\ c.prog = con[t].prog /\ c.form = f
    <3>1. PICK busy : busy = IF con[t].view = "config" THEN "save" ELSE "no"
      OBVIOUS
    <3>2. [con EXCEPT ![t].form.error = FALSE, ![t].form.as = "sent", ![t].form.busy = busy]
            = [con EXCEPT ![t].form = f]
      BY <1>1, <2>1, <3>1 DEF ConRec
    <3>3. [con EXCEPT ![t].form = f] = [con EXCEPT ![t] = c]
      BY <1>1, <2>3 DEF ConRec
    <3>4. con' = [con EXCEPT ![t].form.error = FALSE, ![t].form.as = "sent", ![t].form.busy = busy]
      BY <1>3, <3>1 DEF SaveConfig
    <3> QED
      BY <1>1, <2>3, <3>2, <3>3, <3>4 DEF ConRec
  <2>5. con[t].view \in {"emulator", "config"} /\ con[t].form.url \in Urls
    BY <1>1, <1>3 DEF SaveConfig, Form
  <2>6. PICK v \in ReqRec : v = Sent(t, con[t].view, "probe", con[t].form.url)
    BY <2>5 DEF Sent, ReqRec, Steps
  <2>7. /\ v.at = "probe" /\ v.from = con[t].view /\ v.tab = t /\ v.gone = "no"
        /\ v.url = con[t].form.url
    BY <2>6 DEF Sent
  <2>8. req' = [req EXCEPT ![r] = v] /\ UNCHANGED <<config, stored, probed>>
    BY <1>3, <2>6 DEF SaveConfig
  <2>9. ReqOK(v)'
    <3>1. con'[t].view = con[t].view /\ con'[t].form.url = v.url /\ con'[t].prog = con[t].prog
          /\ con'[t].form.as = "sent"
      BY <1>1, <2>2, <2>4, <2>7
    <3>2. con[t].view \in Steps => Preceding[con[t].view] \subseteq con[t].prog.done
      BY <1>1 DEF ConOK
    <3> QED
      BY <2>5, <2>7, <3>1, <3>2 DEF ReqOK, Brings, OnView, Allowed, AsShown
  <2>10. ASSUME NEW q \in Reqs \ {r}, req[q].tab = t PROVE AsShown(req[q])'
    <3>1. req'[q] = req[q] /\ OnView(req[q])
      BY <1>1, <2>8 DEF ReqOK
    <3>2. ~(req[q].at \in {"probe", "fallback", "set", "saved"} /\ req[q].from = "emulator" /\ req[q].gone = "no")
      <4>1. con[t].view = "emulator" => ~Saving(t)
        BY <1>3 DEF SaveConfig
      <4> QED
        BY <2>10, <3>1, <4>1 DEF Saving, Waits, OnView
    <3> QED
      BY <3>1, <3>2 DEF AsShown
  <2> QED
    <3>1. req' = [req EXCEPT ![r] = v] /\ stored' = stored /\ config' = config /\ probed' = probed
      BY <2>8
    <3>2. /\ VerifiedUrls \subseteq VerifiedUrls' /\ probed' \subseteq Urls \X {"itself", "container"}
          /\ config' \in Urls \cup {NoUrl} /\ config' \in VerifiedUrls' \cup {NoUrl}
          /\ config # NoUrl => config' # NoUrl
      BY <1>1, <3>1, VerifiedStays
    <3>3. c.form.verified /\ c.form.as = "stored" => c.form.url \in VerifiedUrls
      BY <2>2, <2>4
    <3> QED
      BY <2>4, <2>9, <2>10, <3>1, <3>2, <3>3, RequestMoves, ZenonT(60)
<1> QED
  BY <1>2, <1>3

\* An answer that changes nothing but the form leaves the requests as they are.
LEMMA AnswerKeeps ==
  ASSUME AdminInv, NEW r \in Reqs, NEW f \in Form,
         req' = [req EXCEPT ![r] = NoReq], UNCHANGED <<config, stored, probed>>,
         req[r].gone # "no" => con' = con,
         req[r].gone = "no" =>
           /\ con' = [con EXCEPT ![req[r].tab].form = f]
           /\ f.verified /\ f.as = "stored" => f.url \in VerifiedUrls
           /\ f.as = "edited" \/ (f.as = "stored" /\ ~Saving(req[r].tab))
              \/ (f.as = con[req[r].tab].form.as /\ f.url = con[req[r].tab].form.url)
  PROVE  AdminInv'
<1>1. PICK t \in Consoles : t = req[r].tab
  BY DEF AdminInv, AdminTypeOK, ReqRec
<1>2. /\ con \in [Consoles -> ConRec] /\ con[t] \in ConRec /\ ConOK(con[t])
      /\ req \in [Reqs -> ReqRec] /\ NoReq \in ReqRec
      /\ config' \in Urls \cup {NoUrl} /\ config' \in VerifiedUrls' \cup {NoUrl} /\ probed' \subseteq Urls \X {"itself", "container"}
      /\ \A q \in Reqs : ReqOK(req[q])
  BY VerifiedStays,FreshRecords DEF AdminInv, AdminTypeOK, Answered
<1>3. ReqOK(NoReq)'
  BY FreshRecords DEF ReqOK, Brings, OnView, Allowed, AsShown, Completes
<1>4. PICK c \in ConRec : c = IF req[r].gone # "no" THEN con[t] ELSE [con[t] EXCEPT !.form = f]
  BY <1>2 DEF ConRec
<1>5. /\ con' = [con EXCEPT ![t] = c] /\ c.view = con[t].view /\ c.prog = con[t].prog
      /\ c.form = IF req[r].gone # "no" THEN con[t].form ELSE f
  BY <1>1, <1>2, <1>4 DEF ConRec
<1>6. c.form.verified /\ c.form.as = "stored" => c.form.url \in VerifiedUrls
  BY <1>2, <1>5 DEF ConOK
<1>7. ASSUME NEW q \in Reqs \ {r}, req[q].tab = t PROVE AsShown(req[q])'
  <2>1. req'[q] = req[q] /\ AsShown(req[q])
    BY <1>2 DEF ReqOK
  <2>2. \/ con'[t].form.as = "edited" \/ ~Saving(t)
        \/ con'[t].form.as = con[t].form.as /\ con'[t].form.url = con[t].form.url
    BY <1>1, <1>2, <1>5
  <2>3. CASE ~Saving(t)
    BY <1>7, <2>1, <2>3 DEF AsShown, Saving, Waits
  <2> QED
    BY <1>7, <2>1, <2>2, <2>3, VerifiedStays DEF AsShown
<1>8. config # NoUrl => config' # NoUrl
  OBVIOUS
<1>9. /\ VerifiedUrls \subseteq VerifiedUrls' /\ probed' \subseteq Urls \X {"itself", "container"} /\ stored' = stored
      /\ config' \in Urls \cup {NoUrl} /\ config' \in VerifiedUrls' \cup {NoUrl}
      /\ req' = [req EXCEPT ![r] = NoReq] /\ NoReq \in ReqRec
  BY <1>2, VerifiedStays
<1>10. c.view = con[t].view /\ c.prog = con[t].prog /\ con' = [con EXCEPT ![t] = c]
  BY <1>5
<1>11. PICK v \in ReqRec : v = NoReq
  BY <1>2
<1>12. ReqOK(v)' /\ req' = [req EXCEPT ![r] = v]
  BY <1>3, <1>9, <1>11
<1> QED
  BY <1>6, <1>7, <1>8, <1>9, <1>10, <1>12, RequestMoves

\* The configuration is loaded, or a request about it fails.
LEMMA ConfigAnswersKeep ==
  ASSUME AdminInv, NEW r \in Reqs, ConfigLoaded(r) \/ ConfigFails(r)
  PROVE  AdminInv'
<1>1. PICK t \in Consoles : t = req[r].tab
  BY DEF AdminInv, AdminTypeOK, ReqRec
<1>2. /\ con[t] \in ConRec /\ con[t].form \in Form /\ ConOK(con[t]) /\ con \in [Consoles -> ConRec]
      /\ req[r] \in ReqRec /\ ReqOK(req[r])
  BY DEF AdminInv, AdminTypeOK, ConRec
<1>3. CASE ConfigLoaded(r)
  <2>1. req[r].url \in Urls \cup {NoUrl} /\ Answered(req[r].url)
    BY <1>2, <1>3 DEF ConfigLoaded, ReqOK, Brings, ReqRec
  <2>2. PICK f \in Form :
          f = [NewForm(req[r].url) EXCEPT !.error = con[t].form.error,
                                          !.as = IF Saving(t) THEN "edited" ELSE "stored"]
    BY <1>2, <2>1, FreshRecords DEF Form
  <2>3. (f.as = "edited" \/ (f.as = "stored" /\ ~Saving(t))) /\ (f.verified => f.url \in VerifiedUrls)
    BY <2>1, <2>2, FreshRecords DEF Form, Answered
  <2>4. /\ req' = [req EXCEPT ![r] = NoReq] /\ UNCHANGED <<config, stored, probed>>
        /\ con' = IF req[r].gone # "no" THEN con ELSE [con EXCEPT ![req[r].tab].form = f]
    BY <1>1, <1>3, <2>2 DEF ConfigLoaded
  <2> QED
    BY <1>1, <2>3, <2>4, AnswerKeeps
<1>4. CASE ConfigFails(r)
  <2>1. PICK f \in Form : f = [con[t].form EXCEPT !.error = TRUE, !.busy = "no"]
    BY <1>2 DEF Form
  <2>2. f.as = con[t].form.as /\ f.url = con[t].form.url /\ f.verified = con[t].form.verified
    BY <1>2, <2>1 DEF Form
  <2>3. [con EXCEPT ![t].form.error = TRUE, ![t].form.busy = "no"] = [con EXCEPT ![t].form = f]
    BY <1>2, <2>1 DEF ConRec
  <2>4. /\ req' = [req EXCEPT ![r] = NoReq] /\ UNCHANGED <<config, stored, probed>>
        /\ con' = IF req[r].gone # "no" THEN con ELSE [con EXCEPT ![req[r].tab].form = f]
    BY <1>1, <1>4, <2>3 DEF ConfigFails
  <2> QED
    BY <1>1, <1>2, <2>2, <2>4, AnswerKeeps DEF ConOK
<1> QED
  BY <1>3, <1>4

\* The URL shown is edited: what was sent is no longer what is shown.
LEMMA EditKeeps ==
  ASSUME AdminInv, NEW t \in Consoles, NEW url \in Urls, EditUrl(t, url)
  PROVE  AdminInv'
<1>1. /\ con \in [Consoles -> ConRec] /\ con[t] \in ConRec /\ con[t].form \in Form
      /\ ConOK(con[t]) /\ req \in [Reqs -> ReqRec] /\ (\A q \in Reqs : ReqOK(req[q]))
      /\ stored \in Progress /\ ProgOK(stored)
  BY DEF AdminInv, AdminTypeOK, ConRec
<1>2. PICK f \in Form : f = [con[t].form EXCEPT !.url = url, !.as = "edited"]
  BY <1>1 DEF Form
<1>3. PICK c \in ConRec : c = [con[t] EXCEPT !.form = f]
  BY <1>1 DEF ConRec
<1>4. f.as = "edited" /\ c.view = con[t].view /\ c.prog = con[t].prog /\ c.form = f
  BY <1>1, <1>2, <1>3 DEF ConRec, Form
<1>5. con' = [con EXCEPT ![t] = c] /\ UNCHANGED <<config, stored, req, probed>>
  <2>1. [con EXCEPT ![t].form.url = url, ![t].form.as = "edited"] = [con EXCEPT ![t].form = f]
    BY <1>1, <1>2 DEF ConRec
  <2>2. [con EXCEPT ![t].form = f] = [con EXCEPT ![t] = c]
    BY <1>1, <1>3 DEF ConRec
  <2> QED
    BY <2>1, <2>2 DEF EditUrl
<1>6. ConOK(c)'
  BY <1>1, <1>4, <1>5, VerifiedStays DEF ConOK, ProgOK, Honest, Answered
<1>7. ASSUME NEW q \in Reqs PROVE ReqOK(req[q])'
  <2>1. PICK v \in ReqRec : v = req[q]
    BY <1>1
  <2>2. v.tab \in Consoles /\ ReqOK(v) /\ req'[q] = v
    BY <1>1, <1>5, <2>1 DEF ReqRec
  <2>3. con'[v.tab].view = con[v.tab].view /\ con'[v.tab].prog = con[v.tab].prog
    BY <1>1, <1>4, <1>5, <2>2
  <2>4. Brings(v)' /\ OnView(v)' /\ Allowed(v)'
    BY <1>5, <2>2, <2>3, VerifiedStays DEF ReqOK, Brings, OnView, Allowed, Answered
  <2>5. AsShown(v)'
    <3>1. v.tab = t => con'[v.tab].form.as = "edited"
      BY <1>1, <1>4, <1>5
    <3>2. CASE v.tab = t
      <4>1. con'[v.tab].form.as = "edited"
        BY <3>1, <3>2
      <4> QED
        BY <4>1 DEF AsShown
    <3>3. CASE v.tab # t
      <4>1. con'[v.tab] = con[v.tab] /\ probed' = probed
        BY <1>1, <1>5, <2>2, <3>3
      <4> QED
        BY <2>2, <4>1, VerifiedStays DEF ReqOK, AsShown
    <3> QED
      BY <3>2, <3>3
  <2> QED
    BY <2>2, <2>4, <2>5 DEF ReqOK
<1>8. req' \in [Reqs -> ReqRec] /\ stored' \in Progress /\ ProgOK(stored')
  <2>1. PICK p : p = stored
    OBVIOUS
  <2> QED
    BY <1>1, <1>5, <2>1
<1> QED
  BY <1>5, <1>6, <1>7, <1>8, TabChanges

\* "Validate & save" was answered: the URL shown is verified if it is the one
\* that was sent, or if it is the one the page of the configuration takes over.
LEMMA SavedKeeps ==
  ASSUME AdminInv, NEW r \in Reqs, ConfigSaved(r)
  PROVE  AdminInv'
<1>1. PICK t \in Consoles : t = req[r].tab
  BY DEF AdminInv, AdminTypeOK, ReqRec
<1>2. PICK v \in ReqRec : v = req[r]
  BY DEF AdminInv, AdminTypeOK
<1>3. /\ con \in [Consoles -> ConRec] /\ con[t] \in ConRec /\ con[t].form \in Form /\ ConOK(con[t])
      /\ req \in [Reqs -> ReqRec] /\ (\A q \in Reqs : ReqOK(req[q])) /\ ReqOK(v)
      /\ stored \in Progress /\ ProgOK(stored) /\ NoReq \in ReqRec
  BY <1>2, FreshRecords DEF AdminInv, AdminTypeOK, ConRec
<1>4. /\ v.at = "saved" /\ v.url \in VerifiedUrls /\ v.url \in Urls /\ config # NoUrl /\ v.tab = t
      /\ v.from \in {"emulator", "config"} /\ v.gone \in {"no", "step", "page"}
      /\ (v.gone = "no" => v.from = con[t].view)
      /\ UNCHANGED <<config, stored, probed>>
  BY <1>1, <1>2, <1>3, VerifiedAreUrls DEF ConfigSaved, ReqOK, Brings, OnView, AdminInv, AdminTypeOK, ReqRec
<1>5. PICK f \in Form :
        f = [con[t].form EXCEPT !.verified = TRUE, !.busy = "no",
               !.url = IF v.from = "config" THEN v.url ELSE con[t].form.url,
               !.as = IF v.from = "config" \/ con[t].form.as = "sent" THEN "stored"
                      ELSE con[t].form.as]
  BY <1>3, <1>4 DEF Form
<1>6. /\ f.url = IF v.from = "config" THEN v.url ELSE con[t].form.url
      /\ f.as = IF v.from = "config" \/ con[t].form.as = "sent" THEN "stored" ELSE con[t].form.as
  BY <1>3, <1>5 DEF Form
<1>7. PICK c \in ConRec : c = IF v.gone = "no" THEN [con[t] EXCEPT !.form = f] ELSE con[t]
  BY <1>3 DEF ConRec
<1>8. /\ c.view = con[t].view /\ c.prog = con[t].prog
      /\ c.form = IF v.gone = "no" THEN f ELSE con[t].form
  BY <1>3, <1>7 DEF ConRec
<1>9. con' = [con EXCEPT ![t] = c]
  <2>1. CASE v.gone = "no"
    <3>1. PICK url, as :
            /\ url = IF v.from = "config" THEN v.url ELSE con[t].form.url
            /\ as = IF v.from = "config" \/ con[t].form.as = "sent" THEN "stored" ELSE con[t].form.as
      OBVIOUS
    <3>2. con' = [con EXCEPT ![t].form.verified = TRUE, ![t].form.busy = "no",
                             ![t].form.url = url, ![t].form.as = as]
      BY <1>1, <1>2, <1>3, <2>1, <3>1 DEF ConfigSaved, ConRec, Form
    <3>3. [con EXCEPT ![t].form.verified = TRUE, ![t].form.busy = "no",
                      ![t].form.url = url, ![t].form.as = as] = [con EXCEPT ![t].form = f]
      <4>1. PICK g \in Form : g = [con[t].form EXCEPT !.verified = TRUE, !.busy = "no"]
        BY <1>3 DEF Form
      <4>2. f = [g EXCEPT !.url = url, !.as = as]
        BY <1>3, <1>5, <3>1, <4>1 DEF Form
      <4>3. PICK cg \in [Consoles -> ConRec] : cg = [con EXCEPT ![t].form = g]
        BY <1>3 DEF ConRec
      <4>4. [con EXCEPT ![t].form.verified = TRUE, ![t].form.busy = "no"] = cg
        BY <1>3, <4>1, <4>3 DEF ConRec
      <4>5. cg[t] \in ConRec /\ cg[t].form = g
        BY <1>3, <4>3 DEF ConRec
      <4>6. [cg EXCEPT ![t].form.url = url, ![t].form.as = as] = [cg EXCEPT ![t].form = f]
        BY <4>2, <4>3, <4>5, ZenonT(60) DEF ConRec
      <4>7. [cg EXCEPT ![t].form = f] = [con EXCEPT ![t].form = f]
        BY <1>3, <4>3 DEF ConRec
      <4> QED
        BY <4>4, <4>6, <4>7
    <3>4. [con EXCEPT ![t].form = f] = [con EXCEPT ![t] = c]
      BY <1>3, <1>7, <2>1 DEF ConRec
    <3> QED
      BY <3>2, <3>3, <3>4
  <2>2. CASE v.gone # "no"
    BY <1>2, <1>3, <1>7, <2>2 DEF ConfigSaved
  <2> QED
    BY <2>1, <2>2
<1>10. c.form.verified /\ c.form.as = "stored" => c.form.url \in VerifiedUrls
  <2>1. v.from = "emulator" /\ v.gone = "no" /\ con[t].form.as \in {"sent", "stored"} =>
          con[t].form.url \in VerifiedUrls
    BY <1>3, <1>4 DEF ReqOK, AsShown
  <2> QED
    <3>1. CASE v.gone = "no" /\ v.from = "config"
      BY <1>4, <1>6, <1>8, <3>1
    <3>2. CASE v.gone = "no" /\ v.from = "emulator"
      <4>1. f.url = con[t].form.url /\ (f.as = "stored" => con[t].form.as \in {"stored", "sent"})
        BY <1>6, <3>2
      <4> QED
        BY <1>3, <1>4, <1>8, <2>1, <3>2, <4>1 DEF ConOK
    <3>3. CASE v.gone # "no"
      BY <1>3, <1>8, <3>3 DEF ConOK
    <3> QED
      BY <1>4, <3>1, <3>2, <3>3
<1>11. ConOK(c)'
  BY <1>3, <1>4, <1>8, <1>10, VerifiedStays DEF ConOK, ProgOK, Honest, Answered
<1>12. ASSUME NEW u \in ReqRec, ReqOK(u)
       PROVE  ReqOK(u)'
  <2>1. u.tab \in Consoles
    BY DEF ReqRec
  <2>2. con'[u.tab].view = con[u.tab].view /\ con'[u.tab].prog = con[u.tab].prog
    BY <1>3, <1>8, <1>9, <2>1
  <2>3. Brings(u)' /\ OnView(u)' /\ Allowed(u)'
    BY <1>4, <1>12, <2>2, VerifiedStays DEF ReqOK, Brings, OnView, Allowed, Answered
  <2>4. AsShown(u)'
    <3>1. CASE u.tab = t /\ v.gone = "no"
      <4>1. con'[u.tab].form = f /\ con'[u.tab].view = con[t].view
        BY <1>3, <1>8, <1>9, <3>1
      <4>3. CASE v.from = "config"
        BY <1>4, <1>6, <4>1, <4>3, VerifiedStays DEF AsShown
      <4>4. CASE v.from = "emulator"
        <5>1. f.url = con[t].form.url /\ (f.as = "stored" => con[t].form.as \in {"stored", "sent"})
          BY <1>6, <4>4
        <5>2. f.as = "stored" => f.url \in VerifiedUrls'
          BY <1>3, <1>4, <3>1, <4>4, <5>1, VerifiedStays DEF ReqOK, AsShown
        <5>3. f.as # "sent"
          BY <1>3, <1>6, <4>4 DEF Form
        <5> QED
          BY <4>1, <5>2, <5>3 DEF AsShown
      <4> QED
        BY <1>4, <4>3, <4>4
    <3>2. CASE ~(u.tab = t /\ v.gone = "no")
      <4>1. con'[u.tab].form = con[u.tab].form
        BY <1>3, <1>8, <1>9, <2>1, <3>2
      <4> QED
        BY <1>4, <1>12, <4>1, VerifiedStays DEF ReqOK, AsShown
    <3> QED
      BY <3>1, <3>2
  <2> QED
    BY <2>3, <2>4 DEF ReqOK
<1>13. ReqOK(NoReq)'
  BY FreshRecords DEF ReqOK, Brings, OnView, Allowed, AsShown, Completes
<1>14. PICK w \in ReqRec : w = [v EXCEPT !.at = "timer"]
  BY DEF ReqRec
<1>15. w.at = "timer" /\ w.url = v.url /\ w.tab = v.tab /\ w.from = v.from /\ w.gone = v.gone
  BY <1>14 DEF ReqRec
<1>16. v.from = "emulator" => ReqOK(w)'
  <2>1. con'[t].view = con[t].view /\ con'[t].prog = con[t].prog
    BY <1>3, <1>8, <1>9
  <2> QED
    BY <1>3, <1>4, <1>15, <2>1, VerifiedStays DEF ReqOK, Brings, OnView, Allowed, AsShown, Completes, Steps
<1>17. CASE v.from = "config"
  <2>1. PICK n \in ReqRec : n = NoReq
    BY <1>3
  <2>2. req' = [req EXCEPT ![r] = n] /\ ReqOK(n)'
    BY <1>2, <1>13, <1>17, <2>1 DEF ConfigSaved
  <2>3. ASSUME NEW q \in Reqs PROVE req'[q] \in ReqRec /\ ReqOK(req[q])'
    <3>1. PICK u \in ReqRec : u = req[q]
      BY <1>3
    <3>2. req'[q] = IF q = r THEN n ELSE u
      BY <1>3, <2>2, <3>1
    <3> QED
      BY <1>3, <1>12, <2>2, <3>1, <3>2
  <2>4. req' \in [Reqs -> ReqRec]
    BY <1>3, <2>2
  <2> QED
    BY <1>3, <1>4, <1>9, <1>11, <2>3, <2>4, TabChanges
<1>18. CASE v.from = "emulator"
  <2>1. PICK n \in ReqRec : n = NoReq
    BY <1>3
  <2>2. ASSUME NEW q \in Reqs PROVE req'[q] \in ReqRec /\ ReqOK(req[q])'
    <3>1. PICK u \in ReqRec : u = req[q]
      BY <1>3
    <3>2. req'[q] = w \/ req'[q] = n \/ req'[q] = u
      BY <1>2, <1>14, <1>18, <2>1, <3>1 DEF ConfigSaved
    <3>3. CASE req'[q] = w
      BY <1>16, <1>18, <3>3
    <3>4. CASE req'[q] = n
      BY <1>13, <2>1, <3>4
    <3>5. CASE req'[q] = u
      BY <1>3, <1>12, <3>1, <3>5
    <3> QED
      BY <3>2, <3>3, <3>4, <3>5
  <2>3. req' \in [Reqs -> ReqRec]
    <3>1. req' = [q \in Reqs |-> req'[q]]
      BY <1>2, <1>18 DEF ConfigSaved
    <3> QED
      BY <2>2, <3>1
  <2> QED
    BY <1>3, <1>4, <1>9, <1>11, <2>2, <2>3, TabChanges
<1> QED
  BY <1>4, <1>17, <1>18

\* AdminInv is inductive.
LEMMA AdminInvNext == AdminInv /\ [AdminNext]_adminVars => AdminInv'
<1> SUFFICES ASSUME AdminInv, [AdminNext]_adminVars PROVE AdminInv'
  OBVIOUS
<1>1. ASSUME NEW t \in Consoles, Depart(t) PROVE AdminInv'
  BY <1>1, ViewsKeep
<1>2. ASSUME NEW t \in Consoles, NEW url \in Urls, EditUrl(t, url) PROVE AdminInv'
  BY <1>2, EditKeeps
<1>3. ASSUME NEW t \in Consoles, NEW r \in Reqs,
             VisitWizard(t, r) \/ VisitConfig(t, r) \/ \E s \in Steps : JumpTo(t, s, r)
      PROVE  AdminInv'
  BY <1>3, ViewsKeep
<1>4. ASSUME NEW t \in Consoles, NEW r \in Reqs,
             HandleCheck(t, r) \/ SubmitProfile(t, r) \/ SubmitRom(t, r)
      PROVE  AdminInv'
  BY <1>4, CallsKeep
<1>5. ASSUME NEW t \in Consoles, NEW r \in Reqs, LoadConfig(t, r) \/ SaveConfig(t, r)
      PROVE  AdminInv'
  BY <1>5, FormKeeps
<1>6. ASSUME NEW r \in Reqs, Handle(r) PROVE AdminInv'
  <2>1. CASE HealthChecked(r) \/ ProfileVerified(r) \/ RomUploaded(r) \/ TimerFires(r)
    BY <2>1, CompletionKeeps
  <2>2. CASE \/ CallFails(r) \/ GetConfig(r) \/ SetConfig(r)
            \/ EndpointAnswers(r) \/ EndpointFails(r) \/ ContainerAnswers(r)
    BY <2>2, CallsKeep
  <2>3. CASE ConfigLoaded(r) \/ ConfigFails(r)
    BY <2>3, ConfigAnswersKeep
  <2>4. CASE ConfigSaved(r)
    BY <2>4, SavedKeeps
  <2> QED
    BY <1>6, <2>1, <2>2, <2>3, <2>4 DEF Handle
<1>7. CASE UNCHANGED adminVars
  BY <1>7, VerifiedStays DEF adminVars, AdminInv, AdminTypeOK, Answered, ProgOK, Honest, ConOK, ReqOK, Brings,
              OnView, Allowed, AsShown
<1> QED
  BY <1>1, <1>2, <1>3, <1>4, <1>5, <1>6, <1>7 DEF AdminNext

\* The wizard never gets ahead of itself: stored progress and that of every tab
\* is in order, and the URLs it names have answered, whichever tab wrote last
\* and however late an answer or a completion timer came.
THEOREM WizardStaysHonest == AdminSpec => []WizardIsHonest
<1>1. AdminInv => WizardIsHonest
  BY VerifiedStays DEF AdminInv, WizardIsHonest, ProgOK, ConOK, Answered
<1> QED
  BY <1>1, AdminInvInit, AdminInvNext, PTL DEF AdminSpec

-----------------------------------------------------------------------------
(***************************************************************************)
(* The profile.  What a page has chosen, and what an update carries, has   *)
(* been uploaded; what an update has read of the row's completeness is     *)
(* still so, and all of it as long as the update stays alone: a complete   *)
(* name is only ever replaced by another.                                  *)
(***************************************************************************)
Uploaded(e) ==
  /\ editor[e].pick \in objects \cup {Null, Unset}
  /\ editor[e].up = "put" => editor[e].key \in Keys
  /\ editor[e].up = "done" => editor[e].key \in objects

SaveSends(e) ==
  save[e].at \in {"read", "write"} => save[e].sends.key \in objects \cup {Null, Unset}

SaveHas(e) ==
  save[e].at = "write" =>
    /\ save[e].had => IsProfileComplete(user.name)
    /\ save[e].alone /\ IsProfileComplete(user.name) => save[e].had

ProfileInv ==
  /\ ProfileTypeOK /\ ProfileAgrees
  /\ \A e \in Editors : Uploaded(e) /\ SaveSends(e) /\ SaveHas(e)

\* A page that is closed, and no update, are well typed.
LEMMA NoneOpen ==
  /\ NoEditor \in EditorRec /\ NoEditor.pick = Unset /\ NoEditor.up = "none"
  /\ NoSave \in SaveRec /\ NoSave.at = "none"
<1>1. [name |-> Unset, key |-> Unset, meta |-> "none"] \in Payload
  BY DEF Payload
<1> QED
  BY <1>1 DEF NoEditor, EditorRec, NoSave, SaveRec

\* A new account agrees with itself.
LEMMA ProfileInvInit == ProfileInit => ProfileInv
<1> SUFFICES ASSUME ProfileInit PROVE ProfileInv
  OBVIOUS
<1>1. /\ user \in UserRec /\ user.key = Null /\ user.meta = Null /\ user.complete = FALSE
  <2>1. PICK n \in Names \cup {Short} :
          user = [name |-> n, key |-> Null, meta |-> Null, complete |-> FALSE]
    BY DEF ProfileInit
  <2> QED
    BY <2>1 DEF UserRec
<1>2. ProfileTypeOK
  BY <1>1, NoneOpen DEF ProfileInit, ProfileTypeOK
<1>3. ProfileAgrees
  BY <1>1 DEF ProfileInit, ProfileAgrees
<1>4. \A e \in Editors : Uploaded(e) /\ SaveSends(e) /\ SaveHas(e)
  BY NoneOpen DEF ProfileInit, Uploaded, SaveSends, SaveHas
<1> QED
  BY <1>2, <1>3, <1>4 DEF ProfileInv

\* Pages and uploads: the row and the updates in flight stay as they are.
LEMMA EditorStep ==
  ASSUME ProfileInv, NEW e \in Editors, NEW v \in EditorRec,
         editor' = [editor EXCEPT ![e] = v],
         objects \subseteq objects', objects' \subseteq Keys, UNCHANGED <<user, bare, settled>>,
         v.pick \in objects \cup {Null, Unset},
         v.up = "put" => v.key \in Keys, v.up = "done" => v.key \in objects',
         save' = save \/ save' = [save EXCEPT ![e] = NoSave]
  PROVE  ProfileInv'
<1>1. editor' \in [Editors -> EditorRec] /\ save' \in [Editors -> SaveRec]
  BY NoneOpen DEF ProfileInv, ProfileTypeOK
<1>2. ProfileTypeOK'
  BY <1>1 DEF ProfileInv, ProfileTypeOK
<1>3. ProfileAgrees'
  BY DEF ProfileInv, ProfileAgrees
<1>4. ASSUME NEW d \in Editors PROVE Uploaded(d)'
  BY DEF ProfileInv, ProfileTypeOK, Uploaded
<1>5. ASSUME NEW d \in Editors PROVE SaveSends(d)' /\ SaveHas(d)'
  <2>1. save'[d] = save[d] \/ save'[d] = NoSave
    BY DEF ProfileInv, ProfileTypeOK
  <2> QED
    BY <2>1, NoneOpen DEF ProfileInv, SaveSends, SaveHas
<1> QED
  BY <1>2, <1>3, <1>4, <1>5 DEF ProfileInv

\* What a page does before it saves, and the answer to a save.
LEMMA EditorActions ==
  ASSUME ProfileInv, NEW e \in Editors,
         \/ \E page \in {"profile", "settings", "graphql"} : OpenEditor(e, page)
         \/ CloseEditor(e) \/ ChooseImage(e) \/ PutAvatar(e) \/ UploadEnds(e) \/ UploadFails(e)
         \/ ClearAvatar(e) \/ SaveAnswered(e)
  PROVE  ProfileInv'
<1>1. /\ editor \in [Editors -> EditorRec] /\ editor[e] \in EditorRec
      /\ Uploaded(e) /\ objects \subseteq Keys
      /\ user.key \in objects \cup {Null} /\ user \in UserRec
  BY DEF ProfileInv, ProfileTypeOK, ProfileAgrees
<1>2. ASSUME NEW page \in {"profile", "settings", "graphql"}, OpenEditor(e, page) PROVE ProfileInv'
  <2>1. PICK pick \in Loaded(page) :
          editor' = [editor EXCEPT ![e] = [NoEditor EXCEPT !.page = page, !.pick = pick]]
    BY <1>2 DEF OpenEditor
  <2>2. pick \in objects \cup {Null, Unset}
    BY <1>1, <2>1 DEF Loaded
  <2>3. [NoEditor EXCEPT !.page = page, !.pick = pick] \in EditorRec
    BY <1>1, <2>2 DEF NoEditor, EditorRec
  <2> QED
    BY <1>1, <1>2, <2>1, <2>2, <2>3, EditorStep DEF OpenEditor, NoEditor
<1>3. CASE CloseEditor(e)
  BY <1>1, <1>3, NoneOpen, EditorStep DEF CloseEditor
<1>4. CASE ChooseImage(e)
  <2>1. PICK k \in Keys : editor' = [editor EXCEPT ![e].up = "put", ![e].key = k]
    BY <1>4 DEF ChooseImage, FreshKeys
  <2>2. [editor[e] EXCEPT !.up = "put", !.key = k] \in EditorRec
    BY <1>1 DEF EditorRec
  <2>3. editor' = [editor EXCEPT ![e] = [editor[e] EXCEPT !.up = "put", !.key = k]]
    BY <1>1, <2>1
  <2> QED
    BY <1>1, <1>4, <2>2, <2>3, EditorStep DEF ChooseImage, Uploaded, EditorRec
<1>5. CASE PutAvatar(e)
  <2>1. PICK v \in EditorRec : v = [editor[e] EXCEPT !.up = "done"]
    BY <1>1 DEF EditorRec
  <2>2. editor' = [editor EXCEPT ![e] = v]
    BY <1>1, <1>5, <2>1 DEF PutAvatar
  <2>3. editor[e].key \in Keys
    BY <1>1, <1>5 DEF PutAvatar, Uploaded
  <2>4. /\ objects' = objects \cup {editor[e].key} /\ UNCHANGED <<user, bare, settled, save>>
        /\ editor[e].pick \in objects \cup {Null, Unset}
    BY <1>1, <1>5 DEF PutAvatar, Uploaded
  <2>5. v.pick = editor[e].pick /\ v.up = "done" /\ v.key = editor[e].key
    BY <1>1, <2>1 DEF EditorRec
  <2> QED
    BY <1>1, <2>2, <2>3, <2>4, <2>5, EditorStep
<1>6. CASE UploadEnds(e)
  <2>1. PICK v \in EditorRec :
          v = [editor[e] EXCEPT !.up = "none", !.pick = editor[e].key, !.key = Null]
    BY <1>1 DEF EditorRec
  <2>2. v.pick = editor[e].key /\ v.up = "none"
    BY <1>1, <2>1 DEF EditorRec
  <2>3. editor' = [editor EXCEPT ![e] = v] /\ UNCHANGED <<user, objects, save, bare, settled>>
    BY <1>1, <1>6, <2>1 DEF UploadEnds
  <2>4. editor[e].key \in objects /\ objects \subseteq Keys
    BY <1>1, <1>6 DEF UploadEnds, Uploaded
  <2> QED
    BY <1>1, <2>2, <2>3, <2>4, EditorStep
<1>7. CASE UploadFails(e)
  <2>1. [editor[e] EXCEPT !.up = "none", !.key = Null] \in EditorRec
    BY <1>1 DEF EditorRec
  <2>2. editor' = [editor EXCEPT ![e] = [editor[e] EXCEPT !.up = "none", !.key = Null]]
    BY <1>1, <1>7 DEF UploadFails
  <2> QED
    BY <1>1, <1>7, <2>1, <2>2, EditorStep, ZenonT(60) DEF UploadFails, Uploaded, EditorRec
<1>8. CASE ClearAvatar(e)
  <2>1. [editor[e] EXCEPT !.pick = Null] \in EditorRec
    BY <1>1 DEF EditorRec
  <2>2. editor' = [editor EXCEPT ![e] = [editor[e] EXCEPT !.pick = Null]]
    BY <1>1, <1>8 DEF ClearAvatar
  <2> QED
    BY <1>1, <1>8, <2>1, <2>2, EditorStep DEF ClearAvatar, Uploaded, EditorRec
<1>9. CASE SaveAnswered(e)
  <2>1. PICK p \in objects \cup {Null, Unset} :
          p = IF editor[e].page = "settings" THEN user.key ELSE Unset
    BY <1>1
  <2>2. PICK v \in EditorRec : v = [editor[e] EXCEPT !.pick = p]
    BY <1>1 DEF EditorRec
  <2>3. editor' = [editor EXCEPT ![e] = v] /\ save' = [save EXCEPT ![e] = NoSave]
    BY <1>1, <1>9, <2>1, <2>2 DEF SaveAnswered
  <2>4. v.pick = p /\ v.up = editor[e].up /\ v.key = editor[e].key
    BY <1>1, <2>2 DEF EditorRec
  <2>5. UNCHANGED <<user, objects, bare, settled>>
    BY <1>9 DEF SaveAnswered
  <2> QED
    BY <1>1, <2>3, <2>4, <2>5, EditorStep DEF Uploaded
<1> QED
  BY <1>2, <1>3, <1>4, <1>5, <1>6, <1>7, <1>8, <1>9

\* An update sends what has been uploaded, reads the row, or is lost.
LEMMA SaveActions ==
  ASSUME ProfileInv, NEW e \in Editors, Submit(e) \/ ReadProfile(e) \/ SaveFails(e)
  PROVE  ProfileInv'
<1>1. /\ save \in [Editors -> SaveRec] /\ save[e] \in SaveRec
      /\ Uploaded(e) /\ SaveSends(e) /\ objects \subseteq Keys /\ ProfileAgrees
  BY DEF ProfileInv, ProfileTypeOK
<1>2. UNCHANGED <<user, objects, editor, bare, settled>>
  BY DEF Submit, ReadProfile, SaveFails
<1>3. ASSUME NEW v \in SaveRec, save' = [save EXCEPT ![e] = v],
             v.at \in {"read", "write"} => v.sends.key \in objects \cup {Null, Unset},
             v.at = "write" => (v.had <=> IsProfileComplete(user.name))
      PROVE  ProfileInv'
  <2>1. ProfileTypeOK' /\ ProfileAgrees'
    BY <1>1, <1>2, <1>3 DEF ProfileInv, ProfileTypeOK, ProfileAgrees
  <2>2. ASSUME NEW d \in Editors PROVE Uploaded(d)' /\ SaveSends(d)' /\ SaveHas(d)'
    BY <1>1, <1>2, <1>3 DEF ProfileInv, Uploaded, SaveSends, SaveHas
  <2> QED
    BY <2>1, <2>2 DEF ProfileInv
<1>4. CASE Submit(e)
  <2>1. PICK p \in Payloads(e) : save' = [save EXCEPT ![e] = [NoSave EXCEPT !.at = "read", !.sends = p]]
    BY <1>4 DEF Submit
  <2>2. p \in Payload /\ p.key \in objects \cup {Null, Unset}
    BY <1>1, <2>1 DEF Payloads, FromProfilePage, FromSettings, FromGraphql, Uploaded
  <2>3. [NoSave EXCEPT !.at = "read", !.sends = p] \in SaveRec
    BY <2>2 DEF NoSave, SaveRec
  <2> QED
    BY <1>3, <2>1, <2>2, <2>3 DEF NoSave
<1>5. CASE ReadProfile(e)
  <2> DEFINE h == IsProfileComplete(user.name) \/ user.complete
  <2>1. h = IsProfileComplete(user.name) /\ h \in BOOLEAN
    BY <1>1 DEF ProfileAgrees, IsProfileComplete
  <2>2. save' = [save EXCEPT ![e] = [save[e] EXCEPT !.at = "write", !.had = h]]
    BY <1>1, <1>5 DEF ReadProfile
  <2> HIDE DEF h
  <2>3. [save[e] EXCEPT !.at = "write", !.had = h] \in SaveRec
    BY <1>1, <2>1 DEF SaveRec
  <2>4. save[e].at = "read"
    BY <1>5 DEF ReadProfile
  <2> QED
    BY <1>1, <1>3, <2>1, <2>2, <2>3, <2>4 DEF SaveRec, SaveSends
<1>6. CASE SaveFails(e)
  BY <1>3, <1>6, NoneOpen DEF SaveFails
<1> QED
  BY <1>4, <1>5, <1>6

\* An update that was overtaken is not alone, and otherwise as it was.
LEMMA OvertakenSaves ==
  ASSUME ProfileTypeOK, NEW d \in Editors
  PROVE  /\ Overtaken[d] \in SaveRec
         /\ Overtaken[d].at = save[d].at /\ Overtaken[d].sends = save[d].sends
         /\ Overtaken[d].had = save[d].had
         /\ save[d].at = "write" => ~Overtaken[d].alone
<1>1. save[d] \in SaveRec
  BY DEF ProfileTypeOK
<1> QED
  BY <1>1 DEF Overtaken, SaveRec

\* The avatar that an update writes is there, with its metadata unless it is bare.
LEMMA AvatarAgrees ==
  ASSUME ProfileTypeOK, ProfileAgrees, NEW p \in Payload,
         p.key \in objects \cup {Null, Unset},
         bare' = IF p.key \in Keys /\ p.meta # "sent" THEN bare \cup {p.key} ELSE bare
  PROVE  LET a == AvatarWritten(p)
         IN /\ a.key \in Keys \cup {Null} /\ a.meta \in Keys \cup {Null}
            /\ a.key \in objects \cup {Null}
            /\ a.key = Null => a.meta = Null
            /\ a.meta = a.key \/ a.key \in bare'
<1>1. /\ user.key \in objects \cup {Null} /\ (user.key = Null => user.meta = Null)
      /\ user.meta = user.key \/ user.key \in bare
      /\ user.key \in Keys \cup {Null} /\ user.meta \in Keys \cup {Null} /\ objects \subseteq Keys
  BY DEF ProfileTypeOK, ProfileAgrees, UserRec
<1>2. Null \notin Keys
  BY ProfileAssumption
<1>3. CASE p.key = Unset
  <2>1. AvatarWritten(p) = [key |-> user.key, meta |-> user.meta]
    BY <1>3, ProfileAssumption DEF AvatarWritten
  <2> QED
    BY <1>1, <2>1
<1>4. CASE p.key = Null /\ p.key # Unset
  <2>1. AvatarWritten(p) = [key |-> Null, meta |-> Null]
    BY <1>4 DEF AvatarWritten
  <2> QED
    BY <2>1
<1>5. CASE p.key # Null /\ p.key # Unset
  <2>1. AvatarWritten(p) = [key |-> p.key, meta |-> MetaWritten(p)]
    BY <1>5 DEF AvatarWritten
  <2>2. p.key \in objects /\ p.key \in Keys
    BY <1>1, <1>5
  <2>3. MetaWritten(p) \in Keys \cup {Null} /\ (p.meta = "sent" => MetaWritten(p) = p.key)
    BY <1>1, <2>2 DEF MetaWritten
  <2>4. p.key \in bare' \/ p.meta = "sent"
    BY <2>2
  <2> QED
    BY <1>1, <1>2, <1>5, <2>1, <2>2, <2>3, <2>4
<1> QED
  BY <1>3, <1>4, <1>5

\* The update: the row agrees, and the updates it overtakes know as much as before.
LEMMA WriteProfileAgrees ==
  ASSUME ProfileInv, NEW e \in Editors, WriteProfile(e)
  PROVE  ProfileInv'
<1> DEFINE p == save[e].sends
           a == AvatarWritten(p)
<1>1. /\ ProfileTypeOK /\ ProfileAgrees /\ save[e] \in SaveRec /\ p \in Payload
      /\ save[e].at = "write" /\ SaveSends(e) /\ SaveHas(e) /\ user \in UserRec
  BY DEF ProfileInv, ProfileTypeOK, WriteProfile, SaveRec
<1>2. /\ user' = [name |-> IF p.name = Unset THEN user.name ELSE p.name,
                  key |-> a.key, meta |-> a.meta, complete |-> Completed(save[e])]
      /\ save' = [Overtaken EXCEPT ![e] = [NoSave EXCEPT !.at = "saved"]]
      /\ bare' = IF p.key \in Keys /\ p.meta # "sent" THEN bare \cup {p.key} ELSE bare
      /\ settled' = save[e].alone /\ UNCHANGED <<objects, editor>>
  BY DEF WriteProfile
<1>3. p.key \in objects \cup {Null, Unset}
  BY <1>1 DEF SaveSends
<1>4. /\ a.key \in Keys \cup {Null} /\ a.meta \in Keys \cup {Null}
      /\ a.key \in objects \cup {Null} /\ (a.key = Null => a.meta = Null)
      /\ a.meta = a.key \/ a.key \in bare'
  BY <1>1, <1>2, <1>3, AvatarAgrees
<1> HIDE DEF a
<1>5. Completed(save[e]) \in BOOLEAN /\ (Completed(save[e]) <=> p.name # Unset \/ save[e].had)
  BY <1>1 DEF Completed, SaveRec
<1>6. /\ user'.name \in Names \cup {Short}
      /\ p.name # Unset => IsProfileComplete(user'.name)
      /\ p.name = Unset => user'.name = user.name
      /\ IsProfileComplete(user.name) => IsProfileComplete(user'.name)
  <2>1. user.name \in Names \cup {Short} /\ p.name \in Names \cup {Unset}
    BY <1>1 DEF UserRec, Payload
  <2>2. \A n \in Names : IsProfileComplete(n)
    BY ProfileAssumption DEF IsProfileComplete
  <2> QED
    BY <1>2, <2>1, <2>2
<1>7. user' \in UserRec /\ user'.key = a.key /\ user'.meta = a.meta
      /\ user'.complete = Completed(save[e])
  BY <1>2, <1>4, <1>5, <1>6 DEF UserRec
<1>8. ProfileAgrees'
  <2>1. user'.complete => IsProfileComplete(user'.name)
    BY <1>1, <1>5, <1>6, <1>7 DEF SaveHas
  <2>2. settled' /\ IsProfileComplete(user'.name) => user'.complete
    BY <1>1, <1>2, <1>5, <1>6, <1>7 DEF SaveHas
  <2> QED
    BY <1>2, <1>4, <1>7, <2>1, <2>2 DEF ProfileAgrees, IsProfileComplete
<1>9. ASSUME NEW d \in Editors
      PROVE  save'[d] \in SaveRec /\ SaveSends(d)' /\ SaveHas(d)' /\ Uploaded(d)'
  <2>1. [NoSave EXCEPT !.at = "saved"] \in SaveRec /\ [NoSave EXCEPT !.at = "saved"].at = "saved"
    BY NoneOpen DEF NoSave, SaveRec
  <2>2. CASE d = e
    <3>1. save'[d] = [NoSave EXCEPT !.at = "saved"]
      BY <1>2, <2>2 DEF Overtaken
    <3> QED
      BY <1>2, <2>1, <2>2, <3>1 DEF SaveSends, SaveHas, Uploaded, ProfileInv
  <2>3. CASE d # e
    <3>1. save'[d] = Overtaken[d]
      BY <1>2, <2>3 DEF Overtaken
    <3>2. SaveHas(d)'
      BY <1>1, <1>6, <3>1, OvertakenSaves DEF SaveHas, ProfileInv
    <3> QED
      BY <1>1, <1>2, <3>1, <3>2, OvertakenSaves DEF SaveSends, Uploaded, ProfileInv
  <2> QED
    BY <2>2, <2>3
<1>10. ProfileTypeOK'
  <2>1. save' \in [Editors -> SaveRec]
    <3>1. DOMAIN save' = Editors /\ save' = [d \in Editors |-> save'[d]]
      BY <1>2 DEF Overtaken
    <3> QED
      BY <1>9, <3>1
  <2>2. bare' \subseteq Keys /\ settled' \in BOOLEAN
    BY <1>1, <1>2 DEF ProfileTypeOK, SaveRec
  <2> QED
    BY <1>1, <1>2, <1>7, <2>1, <2>2 DEF ProfileTypeOK
<1> QED
  BY <1>8, <1>9, <1>10 DEF ProfileInv

\* PATCH /auth/profile: a complete name, and no update is alone.
LEMMA PatchNameAgrees ==
  ASSUME ProfileInv, NEW name \in Names, PatchName(name)
  PROVE  ProfileInv'
<1>1. ProfileTypeOK /\ ProfileAgrees /\ user \in UserRec /\ IsProfileComplete(name)
  BY ProfileAssumption DEF ProfileInv, ProfileTypeOK, IsProfileComplete
<1>2. /\ user' = [user EXCEPT !.name = name] /\ save' = Overtaken
      /\ settled' = (settled /\ user.complete) /\ UNCHANGED <<objects, editor, bare>>
  BY DEF PatchName
<1>3. /\ user' \in UserRec /\ user'.name = name /\ user'.key = user.key
      /\ user'.meta = user.meta /\ user'.complete = user.complete
  BY <1>1, <1>2 DEF UserRec
<1>4. ProfileAgrees'
  <2>1. IsProfileComplete(user.name)' /\ (settled' => user'.complete)
    BY <1>1, <1>2, <1>3 DEF IsProfileComplete
  <2> QED
    BY <1>1, <1>2, <1>3, <2>1 DEF ProfileAgrees
<1>5. ASSUME NEW d \in Editors PROVE SaveSends(d)' /\ SaveHas(d)' /\ Uploaded(d)'
  BY <1>1, <1>2, <1>3, OvertakenSaves DEF ProfileInv, SaveSends, SaveHas, Uploaded
<1>6. ProfileTypeOK'
  <2>1. save' \in [Editors -> SaveRec]
    BY <1>1, <1>2, OvertakenSaves DEF Overtaken
  <2> QED
    BY <1>1, <1>2, <1>3, <2>1 DEF ProfileTypeOK
<1> QED
  BY <1>4, <1>5, <1>6 DEF ProfileInv

\* ProfileInv is inductive.
LEMMA ProfileInvNext == ProfileInv /\ [ProfileNext]_profileVars => ProfileInv'
<1> SUFFICES ASSUME ProfileInv, [ProfileNext]_profileVars PROVE ProfileInv'
  OBVIOUS
<1>1. CASE UNCHANGED profileVars
  BY <1>1 DEF profileVars, ProfileInv, ProfileTypeOK, ProfileAgrees, Uploaded, SaveSends, SaveHas
<1>2. CASE ProfileNext
  BY <1>2, EditorActions, SaveActions, WriteProfileAgrees, PatchNameAgrees DEF ProfileNext
<1> QED
  BY <1>1, <1>2

\* The row agrees with itself and with the storage, for any number of pages and
\* any interleaving of their uploads and updates.
THEOREM RowAgreesWithItself == ProfileSpec => []ProfileAgrees
<1>1. ProfileInv => ProfileAgrees
  BY DEF ProfileInv
<1> QED
  BY <1>1, ProfileInvInit, ProfileInvNext, PTL DEF ProfileSpec

-----------------------------------------------------------------------------
(***************************************************************************)
(* The upload form.  The page cancels nothing; what keeps it honest is     *)
(* that the backend compares the checksum, and that an upload which        *)
(* nothing disturbs is the only one out and no checksum is.                *)
(***************************************************************************)
\* What is registered has been compared.
Compared == \A u \in Uploads : up[u].at = "register" => up[u].file = up[u].sum

\* Without a file chosen meanwhile, only the file shown is being read.
ReadsShown == ~form.mixed => \A f \in Files : reading[f] > 0 => form.file = f

\* Uploads and checksums of this page are only out while it is shown.
OnForm == form.page # "form" => Mine = {} /\ \A f \in Files : reading[f] = 0

\* Nothing else is out beside an undisturbed upload.
Alone == \A u \in Mine : ~up[u].disturbed => Mine = {u} /\ ~Hashing

UploadInv ==
  /\ UploadTypeOK /\ UploadFormIsHonest
  /\ Compared /\ ReadsShown /\ OnForm /\ Alone

USE UploadFormAssumption

\* Initially another page is shown and nothing is out.
LEMMA UploadInvInit == UploadInit => UploadInv
<1> SUFFICES ASSUME UploadInit PROVE UploadInv
  OBVIOUS
<1>1. BlankForm \in FormRec /\ NoUp \in UpRec
  BY DEF BlankForm, FormRec, NoUp, UpRec
<1>2. form \in FormRec /\ form.stage = "idle" /\ form.sum = NoFile
  BY <1>1 DEF UploadInit, BlankForm, FormRec
<1>3. UploadTypeOK
  <2>1. reading = [f \in Files |-> 0] /\ up = [u \in Uploads |-> NoUp] /\ mislabelled = FALSE
    BY DEF UploadInit
  <2>2. reading \in [Files -> 0 .. MaxReads]
    BY <2>1
  <2>3. up \in [Uploads -> UpRec]
    BY <1>1, <2>1
  <2> QED BY <1>2, <2>1, <2>2, <2>3 DEF UploadTypeOK
<1>4. Mine = {} /\ \A u \in Uploads : up[u].at = "none"
  BY DEF Mine, UploadInit, NoUp
<1>5. UploadFormIsHonest
  BY <1>2, <1>4 DEF UploadFormIsHonest, UploadInit
<1>6. Compared /\ ReadsShown /\ OnForm /\ Alone
  BY <1>4 DEF Compared, ReadsShown, OnForm, Alone, UploadInit
<1> QED BY <1>3, <1>5, <1>6 DEF UploadInv

-----------------------------------------------------------------------------
(***************************************************************************)
(* Steps of the form.                                                      *)
(***************************************************************************)
\* The uploads as they are after something else may move the stage.
LEMMA DisturbedUps ==
  ASSUME UploadTypeOK, up' = Disturbed
  PROVE  /\ up' \in [Uploads -> UpRec]
         /\ \A u \in Uploads : /\ up'[u].at = up[u].at /\ up'[u].gone = up[u].gone
                               /\ up'[u].file = up[u].file /\ up'[u].sum = up[u].sum
                               /\ u \in Mine => up'[u].disturbed
         /\ Mine' = Mine
<1>1. ASSUME NEW u \in Uploads
      PROVE  LET r == [up[u] EXCEPT !.disturbed = TRUE]
             IN /\ r \in UpRec /\ r.at = up[u].at /\ r.gone = up[u].gone
                /\ r.file = up[u].file /\ r.sum = up[u].sum /\ r.disturbed
  BY DEF UploadTypeOK, UpRec
<1>2. ASSUME NEW u \in Uploads
      PROVE  /\ up'[u] \in UpRec /\ up'[u].at = up[u].at /\ up'[u].gone = up[u].gone
             /\ up'[u].file = up[u].file /\ up'[u].sum = up[u].sum
             /\ u \in Mine => up'[u].disturbed
  BY <1>1 DEF Disturbed, UploadTypeOK
<1>3. up' \in [Uploads -> UpRec]
  BY <1>2 DEF Disturbed
<1>4. Mine' = Mine
  BY <1>2 DEF Mine
<1> QED BY <1>2, <1>3, <1>4

\* The form changes under the user's hand: whatever is out is disturbed.
LEMMA FormChanges ==
  ASSUME UploadInv, form.page = "form", up' = Disturbed, UNCHANGED mislabelled,
         form' \in FormRec, form'.page = "form", form'.sum = NoFile,
         form'.stage # "redirecting" \/ form'.rom,
         form'.mixed = Hashing,
         reading' \in [Files -> 0 .. MaxReads],
         \A f \in Files : reading'[f] > 0 => form'.file = f \/ reading[f] > 0
  PROVE  UploadInv'
<1> USE DEF UploadInv
<1>1. up' \in [Uploads -> UpRec] /\ Mine' = Mine
  BY DisturbedUps
<1>a. \A u \in Uploads : up'[u].at = up[u].at /\ up'[u].file = up[u].file /\ up'[u].sum = up[u].sum
  BY DisturbedUps
<1>b. \A u \in Uploads : u \in Mine => up'[u].disturbed
  BY DisturbedUps
<1>2. UploadTypeOK'
  BY <1>1 DEF UploadTypeOK
<1>3. \A u \in Mine' : u \in Uploads /\ up'[u].disturbed
  BY <1>1, <1>b DEF Mine
<1>4. UploadFormIsHonest'
  BY <1>3 DEF UploadFormIsHonest
<1>5. Compared'
  BY <1>a DEF Compared
<1>6. OnForm'
  BY DEF OnForm
<1>7. ReadsShown'
  BY DEF ReadsShown, Hashing
<1>8. Alone'
  BY <1>3 DEF Alone
<1> QED BY <1>2, <1>4, <1>5, <1>6, <1>7, <1>8

\* The page is left: whatever is out is gone.
LEMMA Leaves ==
  ASSUME UploadInv, NEW page \in {"other", "dossier"}, NEW ups \in [Uploads -> UpRec], Away(page, ups),
         \A u \in Uploads : ups[u].at = "register" => ups[u].file = ups[u].sum,
         mislabelled' = FALSE
  PROVE  UploadInv'
<1>1. form' \in FormRec /\ form'.stage = "idle" /\ form'.sum = NoFile
  BY DEF Away, BlankForm, FormRec
<1>2. reading' \in [Files -> 0 .. MaxReads] /\ \A f \in Files : reading'[f] = 0
  <2>1. reading' = [f \in Files |-> 0]
    BY DEF Away
  <2> QED BY <2>1
<1>3. ASSUME NEW u \in Uploads
      PROVE  /\ up'[u] \in UpRec
             /\ up'[u].at = "none" \/ up'[u].gone
             /\ up'[u].at = "register" => up'[u].file = up'[u].sum
  <2>1. ups[u] \in UpRec
    OBVIOUS
  <2>2. LET r == [ups[u] EXCEPT !.gone = TRUE, !.disturbed = TRUE]
        IN r \in UpRec /\ r.gone /\ r.at = ups[u].at /\ r.file = ups[u].file /\ r.sum = ups[u].sum
    BY <2>1 DEF UpRec
  <2>3. NoUp \in UpRec /\ NoUp.at = "none"
    BY DEF NoUp, UpRec
  <2>4. up'[u] = IF ups[u].at = "none" THEN NoUp ELSE [ups[u] EXCEPT !.gone = TRUE, !.disturbed = TRUE]
    BY DEF Away
  <2> QED BY <2>1, <2>2, <2>3, <2>4
<1>4. up' \in [Uploads -> UpRec] /\ Mine' = {}
  BY <1>3 DEF Away, Mine
<1>5. UploadTypeOK'
  BY <1>1, <1>2, <1>4 DEF UploadTypeOK
<1>6. UploadFormIsHonest'
  BY <1>1, <1>4 DEF UploadFormIsHonest
<1>7. Compared' /\ ReadsShown' /\ OnForm' /\ Alone'
  BY <1>2, <1>3, <1>4 DEF Compared, ReadsShown, OnForm, Alone
<1> QED BY <1>5, <1>6, <1>7 DEF UploadInv

(***************************************************************************)
(* Steps of an upload.                                                     *)
(***************************************************************************)
\* What an undisturbed upload has the form say.
Saying(at) == CASE at = "verify"   -> "verifying"
                [] at = "register" -> "registering"
                [] OTHER           -> "uploading"

\* An upload goes on to its next call, and says so on its own form.
LEMMA GoesOn ==
  ASSUME UploadInv, NEW u \in Uploads, up[u].at # "none", NEW at \in {"direct", "verify", "register"},
         UpTo(u, at), at = "register" => up[u].file = up[u].sum,
         NEW stage, stage = Saying(at),
         Stage(u, stage) \/ (UNCHANGED form /\ up[u].at = "put" /\ at = "direct"),
         UNCHANGED <<reading, mislabelled>>
  PROVE  UploadInv'
<1> USE DEF UploadInv
<1>1. /\ up \in [Uploads -> UpRec] /\ form \in FormRec /\ reading \in [Files -> 0 .. MaxReads]
      /\ mislabelled = FALSE
  BY DEF UploadTypeOK, UploadFormIsHonest
<1> DEFINE r == [up[u] EXCEPT !.at = at]
<1>2. /\ r \in UpRec /\ r.at = at /\ r.gone = up[u].gone /\ r.disturbed = up[u].disturbed
      /\ r.file = up[u].file /\ r.sum = up[u].sum
  BY <1>1 DEF UpRec
<1>3. up' = [up EXCEPT ![u] = r]
  BY <1>1 DEF UpTo
<1> HIDE DEF r
<1>4. Mine' = Mine
  BY <1>1, <1>2, <1>3 DEF Mine
<1>5. \/ up[u].gone /\ form' = form
      \/ ~up[u].gone /\ form' = [form EXCEPT !.stage = Saying(at)]
      \/ form' = form /\ up[u].at = "put" /\ at = "direct"
  BY DEF Stage
<1>q. LET q == [form EXCEPT !.stage = Saying(at)]
      IN /\ q \in FormRec /\ q.page = form.page /\ q.file = form.file /\ q.sum = form.sum
         /\ q.mixed = form.mixed /\ q.rom = form.rom /\ q.stage = Saying(at)
  BY <1>1 DEF FormRec, Saying
<1>6. /\ form' \in FormRec /\ form'.page = form.page /\ form'.file = form.file
      /\ form'.sum = form.sum /\ form'.mixed = form.mixed /\ form'.rom = form.rom
      /\ form'.stage \in {form.stage, Saying(at)}
  BY <1>1, <1>5, <1>q
<1>a. up[u].gone => form' = form
  BY <1>5
<1>b. ~up[u].gone => form'.stage = Saying(at) \/ (form' = form /\ up[u].at = "put" /\ at = "direct")
  BY <1>5, <1>q
<1>7. UploadTypeOK'
  BY <1>1, <1>2, <1>3, <1>6 DEF UploadTypeOK
<1>8. Compared'
  BY <1>1, <1>2, <1>3 DEF Compared
<1>9. ReadsShown'
  BY <1>6 DEF ReadsShown
<1>10. OnForm'
  BY <1>4, <1>6 DEF OnForm
<1>11. Alone'
  <2>1. \A v \in Mine : up'[v].disturbed = up[v].disturbed
    BY <1>1, <1>2, <1>3 DEF Mine
  <2> QED BY <1>4, <2>1 DEF Alone, Hashing
<1>12. ASSUME NEW v \in Mine, ~up'[v].disturbed
       PROVE  form'.stage = Saying(up'[v].at)
  <2>1. v \in Uploads /\ ~up[v].disturbed /\ ~up[v].gone /\ up[v].at # "none"
    BY <1>1, <1>2, <1>3, <1>12 DEF Mine
  <2>2. form.stage = Saying(up[v].at) /\ Mine = {v}
    BY <2>1 DEF UploadFormIsHonest, Saying, Alone
  <2>3. CASE u = v
    BY <1>1, <1>2, <1>3, <1>b, <2>1, <2>2, <2>3 DEF Saying
  <2>4. CASE u # v
    <3>1. up[u].gone
      BY <2>2, <2>4 DEF Mine
    <3> QED BY <1>1, <1>3, <1>a, <2>2, <2>4, <3>1
  <2> QED BY <2>3, <2>4
<1>13. form'.stage = "redirecting" => form'.rom
  <2>1. Saying(at) # "redirecting"
    BY DEF Saying
  <2> QED BY <1>6, <2>1 DEF UploadFormIsHonest
<1>14. UploadFormIsHonest'
  <2>1. form'.sum # NoFile /\ ~form'.mixed => form'.sum = form'.file
    BY <1>6 DEF UploadFormIsHonest
  <2>2. ~mislabelled'
    BY <1>1
  <2>3. \A v \in Mine' : ~up'[v].disturbed => form'.stage = Saying(up'[v].at)
    BY <1>4, <1>12
  <2> QED BY <1>13, <2>1, <2>2, <2>3 DEF UploadFormIsHonest, Saying
<1> QED BY <1>7, <1>8, <1>9, <1>10, <1>11, <1>14

\* An upload ends, and its form moves to a stage at which none is out.
LEMMA UploadGone ==
  ASSUME UploadInv, NEW u \in Uploads, up' = [up EXCEPT ![u] = NoUp], up[u].at # "none",
         NEW stage \in {"error", "redirecting"},
         form' \in FormRec, form'.page = form.page, form'.file = form.file, form'.sum = form.sum,
         form'.mixed = form.mixed, up[u].gone => form' = form,
         ~up[u].gone => form'.stage = stage,
         form'.stage = "redirecting" => form'.rom,
         UNCHANGED reading, mislabelled' = FALSE
  PROVE  UploadInv'
<1> USE DEF UploadInv
<1>1. up \in [Uploads -> UpRec] /\ reading \in [Files -> 0 .. MaxReads]
  BY DEF UploadTypeOK
<1>2. NoUp \in UpRec /\ NoUp.at = "none"
  BY DEF NoUp, UpRec
<1>3. Mine' = Mine \ {u} /\ Mine \subseteq Uploads
  BY <1>1, <1>2 DEF Mine
<1>4. UploadTypeOK'
  BY <1>1, <1>2 DEF UploadTypeOK
<1>5. Compared' /\ ReadsShown' /\ OnForm'
  BY <1>1, <1>2, <1>3 DEF Compared, ReadsShown, OnForm
<1>6. \A v \in Mine' : up'[v] = up[v] /\ v # u /\ v \in Mine
  BY <1>1, <1>3
<1>7. Alone'
  BY <1>3, <1>6 DEF Alone, Hashing
<1>8. ASSUME NEW v \in Mine', ~up'[v].disturbed
      PROVE  form'.stage = Saying(up'[v].at)
  <2>1. Mine = {v} /\ form.stage = Saying(up[v].at)
    BY <1>6, <1>8 DEF Alone, UploadFormIsHonest, Saying
  <2>2. up[u].gone
    BY <1>6, <2>1 DEF Mine
  <2> QED BY <1>6, <2>1, <2>2
<1>9. form'.sum # NoFile /\ ~form'.mixed => form'.sum = form'.file
  BY DEF UploadFormIsHonest
<1>10. UploadFormIsHonest'
  BY <1>8, <1>9 DEF UploadFormIsHonest, Saying
<1> QED BY <1>4, <1>5, <1>7, <1>10

-----------------------------------------------------------------------------
\* Opening the form finds no upload of this page out.
LEMMA OpenKeeps == UploadInv /\ OpenForm => UploadInv'
<1> SUFFICES ASSUME UploadInv, OpenForm PROVE UploadInv'
  OBVIOUS
<1> USE DEF UploadInv
<1>1. Mine = {} /\ Mine' = {}
  BY DEF OpenForm, OnForm, Mine
<1>2. BlankForm \in FormRec /\ BlankForm.sum = NoFile /\ BlankForm.stage = "idle"
  BY DEF BlankForm, FormRec
<1>3. form' = BlankForm /\ UNCHANGED <<reading, up, mislabelled>>
  BY DEF OpenForm
<1>4. UploadTypeOK' /\ UploadFormIsHonest' /\ Compared' /\ OnForm' /\ Alone'
  BY <1>1, <1>2, <1>3 DEF UploadTypeOK, UploadFormIsHonest, Compared, OnForm, Alone, OpenForm
<1>5. ReadsShown'
  BY <1>3 DEF ReadsShown, OnForm, OpenForm
<1> QED BY <1>4, <1>5

\* Another choice of file, none, or "Reset form".
LEMMA ChoiceKeeps ==
  ASSUME UploadInv, ClearFile \/ ResetForm \/ \E f \in Files : ChooseFile(f)
  PROVE  UploadInv'
<1>1. form \in FormRec /\ reading \in [Files -> 0 .. MaxReads]
  BY DEF UploadInv, UploadTypeOK
<1>2. ASSUME NEW f \in Files, ChooseFile(f) PROVE UploadInv'
  <2> DEFINE q == [form EXCEPT !.file = f, !.sum = NoFile, !.stage = "computing", !.mixed = Hashing]
  <2>1. Hashing \in BOOLEAN
    BY DEF Hashing
  <2>2. /\ q \in FormRec /\ q.page = form.page /\ q.sum = NoFile /\ q.stage = "computing"
        /\ q.mixed = Hashing /\ q.file = f
    BY <1>1, <2>1 DEF FormRec
  <2> HIDE DEF q
  <2>3. /\ form' = q /\ form.page = "form" /\ up' = Disturbed /\ UNCHANGED mislabelled
        /\ reading' = [reading EXCEPT ![f] = @ + 1] /\ reading[f] < MaxReads
    BY <1>2 DEF ChooseFile, q
  <2>4. reading' \in [Files -> 0 .. MaxReads] /\ \A g \in Files : g # f => reading'[g] = reading[g]
    BY <1>1, <2>3
  <2> QED BY <2>2, <2>3, <2>4, FormChanges
<1>3. CASE ClearFile
  <2> DEFINE q == [form EXCEPT !.file = NoFile, !.sum = NoFile, !.stage = "idle", !.mixed = Hashing]
  <2>1. Hashing \in BOOLEAN
    BY DEF Hashing
  <2>2. /\ q \in FormRec /\ q.page = form.page /\ q.sum = NoFile /\ q.stage = "idle"
        /\ q.mixed = Hashing
    BY <1>1, <2>1 DEF FormRec
  <2> HIDE DEF q
  <2>3. form' = q /\ form.page = "form" /\ up' = Disturbed /\ UNCHANGED <<reading, mislabelled>>
    BY <1>3 DEF ClearFile, q
  <2> QED BY <1>1, <2>2, <2>3, FormChanges
<1>4. CASE ResetForm
  <2> DEFINE q == [BlankForm EXCEPT !.pushed = form.pushed, !.mixed = Hashing]
  <2>1. Hashing \in BOOLEAN /\ BlankForm \in FormRec
    BY DEF Hashing, BlankForm, FormRec
  <2>2. BlankForm.page = "form" /\ BlankForm.sum = NoFile /\ BlankForm.stage = "idle"
    BY DEF BlankForm
  <2>3. /\ q \in FormRec /\ q.page = "form" /\ q.sum = NoFile /\ q.stage = "idle"
        /\ q.mixed = Hashing
    BY <1>1, <2>1, <2>2 DEF FormRec
  <2> HIDE DEF q
  <2>4. form' = q /\ form.page = "form" /\ up' = Disturbed /\ UNCHANGED <<reading, mislabelled>>
    BY <1>4 DEF ResetForm, q
  <2> QED BY <1>1, <2>3, <2>4, FormChanges
<1> QED BY <1>2, <1>3, <1>4

\* A checksum that ends is that of the file shown, unless that was chosen later.
LEMMA ChecksumKeeps ==
  ASSUME UploadInv, NEW f \in Files, ChecksumEnds(f) PROVE UploadInv'
<1> USE DEF UploadInv
<1>1. /\ form \in FormRec /\ reading \in [Files -> 0 .. MaxReads] /\ reading[f] > 0
      /\ reading' = [reading EXCEPT ![f] = @ - 1] /\ UNCHANGED <<up, mislabelled>>
  BY DEF ChecksumEnds, UploadTypeOK
<1>2. reading' \in [Files -> 0 .. MaxReads] /\ \A g \in Files : reading'[g] > 0 => reading[g] > 0
  BY <1>1
<1>3. /\ form' \in FormRec /\ form'.page = form.page /\ form'.file = form.file
      /\ form'.mixed = form.mixed /\ form'.stage \in {"ready", "error"}
      /\ form'.sum = f \/ form'.sum = form.sum
  <2>1. CASE form' = [form EXCEPT !.sum = f, !.stage = "ready"]
    BY <1>1, <2>1 DEF FormRec
  <2>2. CASE form' = [form EXCEPT !.stage = "error"]
    BY <1>1, <2>2 DEF FormRec
  <2> QED BY <2>1, <2>2 DEF ChecksumEnds
<1>4. UploadTypeOK'
  BY <1>1, <1>2, <1>3 DEF UploadTypeOK
<1>5. Compared' /\ Mine' = Mine
  BY <1>1 DEF Compared, Mine
<1>6. ReadsShown'
  BY <1>2, <1>3 DEF ReadsShown
<1>7. form.page = "form"
  BY <1>1 DEF OnForm, UploadTypeOK, FormRec
<1>8. OnForm'
  BY <1>3, <1>7 DEF OnForm
<1>9. \A u \in Mine : up[u].disturbed
  BY <1>1 DEF Alone, Hashing
<1>10. Alone'
  BY <1>1, <1>5, <1>9 DEF Alone
<1>11. form'.sum # NoFile /\ ~form'.mixed => form'.sum = form'.file
  BY <1>1, <1>3 DEF ReadsShown, UploadFormIsHonest
<1>12. UploadFormIsHonest'
  BY <1>1, <1>3, <1>5, <1>9, <1>11 DEF UploadFormIsHonest
<1> QED BY <1>4, <1>5, <1>6, <1>8, <1>10, <1>12

\* "Create ROM" starts an upload that is undisturbed if nothing else is out.
LEMMA CreateKeeps ==
  ASSUME UploadInv, NEW u \in Uploads, CreateRom(u) PROVE UploadInv'
<1> USE DEF UploadInv
<1>1. /\ form \in FormRec /\ form.page = "form" /\ form.file \in Files /\ form.sum \in Files
      /\ up[u].at = "none" /\ UNCHANGED <<reading, mislabelled>>
      /\ up \in [Uploads -> UpRec]
  BY DEF CreateRom, CanCreate, UploadTypeOK, FormRec
<1> DEFINE r == [at |-> "put", file |-> form.file, sum |-> form.sum, gone |-> FALSE,
                 disturbed |-> Hashing \/ Mine # {}]
<1>2. /\ r \in UpRec /\ r.at = "put" /\ ~r.gone
      /\ ~r.disturbed => ~Hashing /\ Mine = {}
  BY <1>1 DEF UpRec
<1>3. up' = [Disturbed EXCEPT ![u] = r]
  BY DEF CreateRom
<1> HIDE DEF r
<1>4. ASSUME NEW v \in Uploads
      PROVE  /\ Disturbed[v] \in UpRec
             /\ Disturbed[v].at = up[v].at /\ Disturbed[v].gone = up[v].gone
             /\ Disturbed[v].file = up[v].file /\ Disturbed[v].sum = up[v].sum
             /\ v \in Mine => Disturbed[v].disturbed
  <2>1. up[v] \in UpRec
    BY <1>1
  <2>2. LET q == [up[v] EXCEPT !.disturbed = TRUE]
        IN /\ q \in UpRec /\ q.at = up[v].at /\ q.gone = up[v].gone
           /\ q.file = up[v].file /\ q.sum = up[v].sum /\ q.disturbed
    BY <2>1 DEF UpRec
  <2> QED BY <2>1, <2>2 DEF Disturbed
<1>5. up' \in [Uploads -> UpRec] /\ up'[u] = r /\ \A v \in Uploads : v # u => up'[v] = Disturbed[v]
  <2>1. Disturbed \in [Uploads -> UpRec]
    BY <1>4 DEF Disturbed
  <2> QED BY <1>2, <1>3, <2>1
<1>6. /\ form' \in FormRec /\ form'.page = "form" /\ form'.file = form.file /\ form'.sum = form.sum
      /\ form'.mixed = form.mixed /\ form'.stage = "uploading"
  BY <1>1 DEF CreateRom, FormRec
<1>7. UploadTypeOK'
  BY <1>1, <1>5, <1>6 DEF UploadTypeOK
<1>8. Compared'
  BY <1>2, <1>4, <1>5 DEF Compared
<1>9. ReadsShown' /\ OnForm'
  BY <1>1, <1>6 DEF ReadsShown, OnForm
<1>10. ASSUME NEW v \in Mine', ~up'[v].disturbed
       PROVE  v = u /\ ~Hashing /\ Mine = {}
  <2>1. v \in Uploads /\ up'[v].at # "none" /\ ~up'[v].gone
    BY DEF Mine
  <2>2. CASE v # u
    <3>1. v \in Mine
      BY <1>4, <1>5, <2>1, <2>2 DEF Mine
    <3>2. up'[v].disturbed
      BY <1>4, <1>5, <2>1, <2>2, <3>1
    <3> QED BY <1>10, <3>2
  <2>3. CASE v = u
    BY <1>2, <1>5, <1>10, <2>3
  <2> QED BY <2>2, <2>3
<1>11. Mine' = Mine \cup {u}
  BY <1>2, <1>4, <1>5 DEF Mine
<1>12. Alone'
  BY <1>1, <1>10, <1>11 DEF Alone, Hashing
<1>13. \A v \in Mine' : ~up'[v].disturbed => up'[v].at = "put"
  BY <1>2, <1>5, <1>10
<1>14. form'.sum # NoFile /\ ~form'.mixed => form'.sum = form'.file
  BY <1>6 DEF UploadFormIsHonest
<1>15. UploadFormIsHonest'
  BY <1>1, <1>6, <1>13, <1>14 DEF UploadFormIsHonest
<1> QED BY <1>7, <1>8, <1>9, <1>12, <1>15

\* Leaving the page, or the redirect of an upload that succeeded.
LEMMA LeaveKeeps ==
  ASSUME UploadInv, LeaveForm \/ Redirect PROVE UploadInv'
<1>1. /\ \E page \in {"other", "dossier"} : Away(page, up)
      /\ up \in [Uploads -> UpRec] /\ mislabelled' = FALSE
      /\ \A u \in Uploads : up[u].at = "register" => up[u].file = up[u].sum
  BY DEF LeaveForm, Redirect, UploadInv, UploadTypeOK, UploadFormIsHonest, Compared
<1> QED BY <1>1, Leaves

\* The answers of the calls of an upload.
LEMMA UploadAnswerKeeps ==
  ASSUME UploadInv, NEW u \in Uploads, PutReplied(u) \/ DirectReplied(u) \/ Verified(u)
  PROVE  UploadInv'
<1>1. /\ "verifying" = Saying("verify") /\ "registering" = Saying("register")
  BY DEF Saying
<1>2. CASE PutReplied(u)
  <2>1. UNCHANGED <<reading, mislabelled>> /\ up[u].at = "put"
    BY <1>2 DEF PutReplied
  <2>2. CASE UpTo(u, "verify") /\ Stage(u, "verifying")
    BY <1>1, <2>1, <2>2, GoesOn
  <2>3. CASE UpTo(u, "direct") /\ UNCHANGED form
    BY <2>1, <2>3, GoesOn
  <2> QED BY <1>1, <1>2, <2>2, <2>3 DEF PutReplied
<1>3. CASE DirectReplied(u)
  <2>1. /\ UpTo(u, "verify") /\ Stage(u, "verifying")
        /\ UNCHANGED <<reading, mislabelled>> /\ up[u].at = "direct"
    BY <1>1, <1>3 DEF DirectReplied
  <2> QED BY <1>1, <2>1, GoesOn
<1>4. CASE Verified(u)
  <2>1. /\ UpTo(u, "register") /\ Stage(u, "registering")
        /\ UNCHANGED <<reading, mislabelled>> /\ up[u].at = "verify" /\ up[u].file = up[u].sum
    BY <1>1, <1>4 DEF Verified, Verifies
  <2> QED BY <1>1, <2>1, GoesOn
<1> QED BY <1>2, <1>3, <1>4

\* The answer of the registration.
LEMMA RegisteredKeeps ==
  ASSUME UploadInv, NEW u \in Uploads, Registered(u) PROVE UploadInv'
<1>1. /\ form \in FormRec /\ up \in [Uploads -> UpRec] /\ mislabelled' = FALSE
      /\ up[u].at = "register"
      /\ \A v \in Uploads : up[v].at = "register" => up[v].file = up[v].sum
  BY DEF UploadInv, UploadTypeOK, UploadFormIsHonest, Compared, Registered
<1>2. CASE ~up[u].gone
  <2> DEFINE q == [form EXCEPT !.stage = "redirecting", !.rom = TRUE, !.pushed = TRUE]
  <2>1. /\ q \in FormRec /\ q.page = form.page /\ q.file = form.file /\ q.sum = form.sum
        /\ q.mixed = form.mixed /\ q.rom /\ q.stage = "redirecting"
    BY <1>1 DEF FormRec
  <2> HIDE DEF q
  <2>2. form' = q /\ up' = [up EXCEPT ![u] = NoUp] /\ UNCHANGED reading
    BY <1>2 DEF Registered, q
  <2> QED BY <1>1, <1>2, <2>1, <2>2, UploadGone
<1>3. CASE up[u].gone
  <2> DEFINE ups == [up EXCEPT ![u] = NoUp]
  <2>1. NoUp \in UpRec /\ NoUp.at = "none"
    BY DEF NoUp, UpRec
  <2>2. ups \in [Uploads -> UpRec] /\ \A v \in Uploads : ups[v].at = "register" => ups[v].file = ups[v].sum
    BY <1>1, <2>1
  <2>3. Away("dossier", ups)
    BY <1>3 DEF Registered
  <2> HIDE DEF ups
  <2> QED BY <1>1, <2>2, <2>3, Leaves
<1> QED BY <1>2, <1>3

\* A call fails, or its answer is lost.
LEMMA FailKeeps ==
  ASSUME UploadInv, NEW u \in Uploads, CreateFails(u) PROVE UploadInv'
<1>1. /\ form \in FormRec /\ mislabelled' = FALSE
      /\ up[u].at # "none" /\ up' = [up EXCEPT ![u] = NoUp] /\ UNCHANGED reading
  BY DEF UploadInv, UploadTypeOK, UploadFormIsHonest, Compared, CreateFails
<1>2. /\ form.stage = "redirecting" => form.rom
  BY DEF UploadInv, UploadFormIsHonest
<1>3. CASE up[u].gone
  <2>1. form' = form
    BY <1>3 DEF CreateFails, Stage
  <2> QED BY <1>1, <1>2, <1>3, <2>1, UploadGone
<1>4. CASE ~up[u].gone
  <2> DEFINE q == [form EXCEPT !.stage = "error"]
  <2>1. /\ q \in FormRec /\ q.page = form.page /\ q.file = form.file /\ q.sum = form.sum
        /\ q.mixed = form.mixed /\ q.stage = "error"
    BY <1>1 DEF FormRec
  <2> HIDE DEF q
  <2>2. form' = q
    BY <1>4 DEF CreateFails, Stage, q
  <2> QED BY <1>1, <1>4, <2>1, <2>2, UploadGone
<1> QED BY <1>3, <1>4

\* The invariant is inductive.
LEMMA UploadInvNext == UploadInv /\ [UploadNext]_uploadVars => UploadInv'
<1> SUFFICES ASSUME UploadInv, [UploadNext]_uploadVars PROVE UploadInv'
  OBVIOUS
<1>1. CASE OpenForm
  BY <1>1, OpenKeeps
<1>2. CASE LeaveForm \/ Redirect
  BY <1>2, LeaveKeeps
<1>3. CASE ClearFile \/ ResetForm \/ \E f \in Files : ChooseFile(f)
  BY <1>3, ChoiceKeeps
<1>4. CASE \E f \in Files : ChecksumEnds(f)
  BY <1>4, ChecksumKeeps
<1>5. CASE \E u \in Uploads : CreateRom(u)
  BY <1>5, CreateKeeps
<1>6. CASE \E u \in Uploads : PutReplied(u) \/ DirectReplied(u) \/ Verified(u)
  BY <1>6, UploadAnswerKeeps
<1>7. CASE \E u \in Uploads : Registered(u)
  BY <1>7, RegisteredKeeps
<1>8. CASE \E u \in Uploads : CreateFails(u)
  BY <1>8, FailKeeps
<1>9. CASE UNCHANGED uploadVars
  BY <1>9 DEF uploadVars, UploadInv, UploadTypeOK, UploadFormIsHonest, Compared, ReadsShown, OnForm, Alone,
              Mine, Hashing
<1> QED BY <1>1, <1>2, <1>3, <1>4, <1>5, <1>6, <1>7, <1>8, <1>9 DEF UploadNext

(***************************************************************************)
(* However many files, checksums and uploads are out, and however they     *)
(* end: no ROM is registered under the checksum of another file, and the   *)
(* stage and checksum the page shows are those it claims.                  *)
(***************************************************************************)
THEOREM FormIsHonest == UploadSpec => []UploadFormIsHonest
<1>1. UploadInv => UploadFormIsHonest
  BY DEF UploadInv
<1> QED BY <1>1, UploadInvInit, UploadInvNext, PTL DEF UploadSpec

-----------------------------------------------------------------------------
ConsoleInv == AdminInv /\ UploadInv /\ ProfileInv

\* However the wizard, the upload form and the profile are interleaved, all of
\* their state keeps its type.
THEOREM ConsoleIsTyped == Spec => []TypeOK
<1>1. Init => ConsoleInv
  BY AdminInvInit, UploadInvInit, ProfileInvInit DEF Init, ConsoleInv
<1>2. ConsoleInv /\ [Next]_vars => ConsoleInv'
  <2> SUFFICES ASSUME ConsoleInv, [Next]_vars PROVE ConsoleInv'
    OBVIOUS
  <2>1. [AdminNext]_adminVars /\ [UploadNext]_uploadVars /\ [ProfileNext]_profileVars
    <3>1. CASE Administers(AdminNext)
      BY <3>1 DEF Administers
    <3>2. CASE UploadNext /\ UNCHANGED <<adminVars, profileVars>>
      BY <3>2
    <3>3. CASE ProfileNext /\ UNCHANGED <<adminVars, uploadVars>>
      BY <3>3
    <3>4. CASE UNCHANGED vars
      BY <3>4 DEF vars
    <3> QED
      BY <3>1, <3>2, <3>3, <3>4 DEF Next
  <2> QED
    BY <2>1, AdminInvNext, UploadInvNext, ProfileInvNext DEF ConsoleInv
<1>3. ConsoleInv => TypeOK
  BY DEF ConsoleInv, TypeOK, AdminInv, UploadInv, ProfileInv
<1> QED
  BY <1>1, <1>2, <1>3, PTL DEF Spec
=============================================================================
