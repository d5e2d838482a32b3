------------------------------ MODULE LoginPage ------------------------------
(***************************************************************************)
(* The pages that sign somebody in and then move on: /login, with a form   *)
(* for a magic link and one for a password, /magic-link/<token>, which     *)
(* posts its link by itself, and /invite/<token>.  The first two move on   *)
(* by a timer, which an effect starts and clears as the statuses of the    *)
(* forms change, the third as soon as it is answered.  What the            *)
(* answers do to the token is module BrowserSession.  LoginEffectBoth is a *)
(* slip of the operator it stands before.                                  *)
(***************************************************************************)

VARIABLE login

loginVars == <<login>>

Forms == {"link", "password", "invite"}

\* navigated: hasNavigated of /login.  timer: the 650 or 1200 ms are running.
\* hurried (history): on /login, a status changed while they were.
LoginRec ==
  [page : {"login", "link", "invite", "away"}, status : [Forms -> {"idle", "loading", "success", "error"}],
   health : {"checking", "healthy", "issue"}, navigated : BOOLEAN, timer : BOOLEAN, hurried : BOOLEAN]

NewLogin ==
  [page |-> "login", status |-> [f \in Forms |-> "idle"], health |-> "checking",
   navigated |-> FALSE, timer |-> FALSE, hurried |-> FALSE]

LoginInit == login = [NewLogin EXCEPT !.page = "away"]

VisitLogin == login.page = "away" /\ login' = NewLogin

\* redemptionAttemptedRef: the page posts its link once.
VisitLink ==
  /\ login.page = "away"
  /\ login' = [NewLogin EXCEPT !.page = "link", !.status["link"] = "loading"]

VisitInvite == login.page = "away" /\ login' = [NewLogin EXCEPT !.page = "invite"]

\* Whatever is out stays out, and changes no page any more.
LeaveLogin == login.page # "away" /\ login' = [NewLogin EXCEPT !.page = "away"]

ProbeEnds ==
  /\ login.page = "login" /\ login.health = "checking"
  /\ \E health \in {"healthy", "issue"} : login' = [login EXCEPT !.health = health]

Succeeded(status) == \E f \in Forms : status[f] = "success"

LoginEffectBoth(status) ==
  LET start == (\A f \in Forms : status[f] = "success") /\ ~login.navigated
  IN login' = [login EXCEPT !.status = status, !.timer = start,
                            !.navigated = @ \/ start, !.hurried = @ \/ login.timer]

\* The effect of /login on its two statuses: it is cleaned up first, which
\* stops the timer, and started anew at most once.
LoginEffect(status) ==
  LET start == Succeeded(status) /\ ~login.navigated
  IN login' = [login EXCEPT !.status = status, !.timer = start,
                            !.navigated = @ \/ start, !.hurried = @ \/ login.timer]

\* That of /magic-link starts it at every success.
LinkEffect(status) ==
  login' = [login EXCEPT !.status = status, !.timer = Succeeded(status)]

Becomes(f, state) ==
  LET status == [login.status EXCEPT ![f] = state]
  IN /\ status # login.status
     /\ \/ login.page = "login" /\ f # "invite" /\ LoginEffect(status)
        \/ login.page = "link" /\ f = "link" /\ LinkEffect(status)
        \/ login.page = "invite" /\ f = "invite" /\ login' = [login EXCEPT !.status = status]

\* A form that was sent can be sent again once it is answered, also with success.
Submit(f) == login.page = "login" /\ login.status[f] # "loading" /\ Becomes(f, "loading")

SubmitBlank(f) == login.page = "login" /\ login.status[f] # "loading" /\ Becomes(f, "error")

\* "Retry verification"
RetryLink == login.page = "link" /\ login.status["link"] # "loading" /\ Becomes("link", "loading")

\* AuthInviteForm: its fields and its button are disabled while it is sent.
InviteOpen == login.page = "invite" /\ login.status["invite"] # "loading"

SubmitInvite == InviteOpen /\ Becomes("invite", "loading")

\* handleSuccess leaves for the library at once.
InviteRedeemed == login.page = "invite" /\ login.status["invite"] = "loading" /\ LeaveLogin

Answered(f) == login.page # "invite" /\ login.status[f] = "loading" /\ Becomes(f, "success")

Refused(f) == login.status[f] = "loading" /\ Becomes(f, "error")

\* "Continue now"
ContinueNow == login.page = "login" /\ Succeeded(login.status) /\ LeaveLogin

Redirected == login.timer /\ LeaveLogin

LoginNext ==
  \/ VisitLogin \/ VisitLink \/ VisitInvite \/ SubmitInvite \/ InviteRedeemed \/ LeaveLogin
  \/ ProbeEnds \/ RetryLink \/ ContinueNow \/ Redirected
  \/ \E f \in Forms : Submit(f) \/ SubmitBlank(f) \/ Answered(f) \/ Refused(f)

LoginSpec == LoginInit /\ [][LoginNext]_loginVars

\* Timers fire; the one of the probe aborts it after 4 s.
LoginFairness == WF_loginVars(ProbeEnds) /\ WF_loginVars(Redirected)

-----------------------------------------------------------------------------
LoginTypeOK == login \in LoginRec

\* "we will auto-redirect you" (frontend/src/app/login/page.tsx:204): whoever has
\* signed in is taken on, unless on /login a form was sent or answered while the
\* timer ran, or on /magic-link the link was sent again; and the API status shown
\* does not stay "Probing".
LoginMovesOn ==
  /\ login.page = "login" /\ Succeeded(login.status) /\ ~login.hurried
       ~> login.page # "login" \/ login.hurried
  /\ login.page = "link" /\ Succeeded(login.status)
       ~> login.page # "link" \/ ~Succeeded(login.status)
  /\ login.page = "login" /\ login.health = "checking"
       ~> login.page # "login" \/ login.health # "checking"
=============================================================================
