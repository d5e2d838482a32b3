---------------------------- MODULE PlayerProofs ----------------------------
(***************************************************************************)
(* Theorems about what a player uses, for any number of pages, views,      *)
(* requests, ROMs and samples: the play page over the cloud saves, the     *)
(* play metrics, the library list and the stars, each for a behaviour of   *)
(* its own; last, that the parts MCPlayer puts side by side stay typed.    *)
(* Names without a section's prefix (Inv, InvNext) are SaveStatesProofs'.  *)
(***************************************************************************)
EXTENDS MCPlayer, SaveStatesProofs, FiniteSetTheorems, TLAPS

-----------------------------------------------------------------------------
(***************************************************************************)
(* The play page.  Once a page has been told that its own game runs, it    *)
(* holds that emulator and the window keeps no other; and what a save      *)
(* carries through the backend is what its handler will keep locally.      *)
(***************************************************************************)
Fits(p, w) ==
  /\ p.open = Void => p.dossier = "none" /\ p.script = "none"
  /\ p.script = "loading" => w.loaders > 0
  /\ p.booted => p.script # "none" /\ p.handle = p.open /\ w.built = p.open

PageOK(t) == Fits(tab[t], win[t])

\* How far the request v of the save j has come.
Carries(j, v) ==
  /\ j.game \in Games /\ j.bytes \in Bytes
  /\ j.ready => j.bytes = j.game
  /\ v.game = j.game
  /\ v.pc \in {"checkSave", "upload", "upsert", "saved", "failed"}
  /\ v.pc = "checkSave" => v.bytes \in {j.bytes, Void}
  /\ v.pc = "upload" => v.bytes = j.bytes
  /\ v.pc \in {"upsert", "saved"} =>
       v.key \in 1 .. Len(made) /\ made[v.key].game = j.game /\ made[v.key].bytes = j.bytes
  /\ v.pc = "saved" => v.key \in answered

JobOK(c) == job[c].kind = "save" => Carries(job[c], call[c])

PlayInv ==
  /\ Inv /\ PlayTypeOK /\ LocalFollowsCloud
  /\ \A t \in Tabs : PageOK(t)
  /\ \A c \in Calls : JobOK(c)

\* Every game is one of its ROM.
LEMMA RomOfGame == ASSUME NEW g \in Games PROVE RomOf(g) \in Roms /\ g \in RomOf(g)
BY PlayAssumption DEF RomOf

\* No page is mounted and nothing is out.
LEMMA PlayInvInit == PlayInit => PlayInv
<1> SUFFICES ASSUME PlayInit PROVE PlayInv
  OBVIOUS
<1>1. Inv
  BY InvInit DEF PlayInit
<1>2. NoPage \in TabRec /\ NoJob \in JobRec /\ [built |-> Void, loaders |-> 0] \in WinRec
  BY PlayAssumption DEF NoPage, TabRec, NoJob, JobRec, WinRec
<1>3. PlayTypeOK
  BY <1>1, <1>2 DEF PlayInit, PlayTypeOK, Inv
<1>4. \A t \in Tabs : PageOK(t)
  BY DEF PlayInit, PageOK, Fits, NoPage
<1>5. \A c \in Calls : JobOK(c)
  BY DEF PlayInit, JobOK, NoJob
<1>6. LocalFollowsCloud
  BY DEF PlayInit, LocalFollowsCloud
<1> QED
  BY <1>1, <1>3, <1>4, <1>5, <1>6 DEF PlayInv

\* Saves and their answers only grow in number.
LEMMA MadeGrows ==
  ASSUME Inv, [SaveNext]_saveVars
  PROVE  /\ answered \subseteq answered' /\ Len(made) <= Len(made')
         /\ \A k \in 1 .. Len(made) : made'[k] = made[k]
<1>1. made \in Seq(MadeRec)
  BY DEF Inv, SaveTypeOK
<1>2. CASE \E c \in Calls, kept \in BOOLEAN : Upload(c, kept)
  <2>1. PICK c \in Calls : made' = Append(made, [game |-> call[c].game, slot |-> call[c].slot,
                                      bytes |-> call[c].bytes, before |-> call[c].before])
                           /\ answered' = answered
    BY <1>2 DEF Upload
  <2> QED
    BY <1>1, <2>1
<1>3. CASE \E c \in Calls : Upsert(c)
  BY <1>1, <1>3 DEF Upsert, AnswerSaved
<1>4. CASE UNCHANGED <<made, answered>>
  BY <1>1, <1>4
<1>5. ASSUME NEW c \in Calls, Handle(c) \/ Player(c) PROVE
        \/ \E kept \in BOOLEAN : Upload(c, kept)
        \/ Upsert(c) \/ UNCHANGED <<made, answered>>
  BY <1>5 DEF Handle, Player, Refuse, CheckSave, CheckLoad, QueryFails, FindLatest, FindById, Fetch,
              Download, DownloadFails, SendSave, SendLoad, Send, Receive
<1> QED
  BY <1>2, <1>3, <1>4, <1>5 DEF SaveNext, Backend, SaveRestart, saveVars

\* What was local and answered stays so, until something is stored locally.
LEMMA LocalStays ==
  ASSUME PlayInv, [SaveNext]_saveVars, UNCHANGED local
  PROVE  LocalFollowsCloud'
<1>1. answered \subseteq 1 .. Len(made)
  BY DEF PlayInv, Inv, SaveTypeOK
<1> QED
  BY <1>1, MadeGrows DEF PlayInv, LocalFollowsCloud

\* A request that stays where it was, or fails, carries what it carried.
LEMMA SaveGoesOn ==
  ASSUME PlayInv, [SaveNext]_saveVars, NEW j, NEW v, Carries(j, v), NEW w,
         w = v \/ w = [v EXCEPT !.pc = "failed"], v \in CallRec
  PROVE  Carries(j, w)'
<1>1. w.game = v.game /\ w.bytes = v.bytes /\ w.key = v.key /\ w.pc \in {v.pc, "failed"}
  BY DEF CallRec
<1> QED
  BY <1>1, MadeGrows DEF Carries, PlayInv

\* The backend moves a save on, or fails it.
LEMMA BackendKeepsJobs ==
  ASSUME PlayInv, Backend, UNCHANGED job, NEW c \in Calls PROVE JobOK(c)'
<1> SUFFICES ASSUME job[c].kind = "save" PROVE Carries(job[c], call[c])'
  BY DEF JobOK
<1>1. PICK j \in JobRec : j = job[c]
  BY DEF PlayInv, PlayTypeOK
<1>2. PICK v \in CallRec : v = call[c]
  BY DEF PlayInv, Inv, SaveTypeOK
<1>3. Carries(j, v) /\ CarriesOK(c) /\ call \in [Calls -> CallRec] /\ made \in Seq(MadeRec)
  BY <1>1, <1>2 DEF PlayInv, JobOK, Inv, SaveTypeOK
<1>4. [SaveNext]_saveVars
  BY DEF SaveNext
<1>5. ASSUME call'[c] = v \/ call'[c] = [v EXCEPT !.pc = "failed"]
      PROVE  Carries(job[c], call[c])'
  <2>1. PICK w : w = call'[c]
    OBVIOUS
  <2>2. Carries(j, w)'
    BY <1>2, <1>3, <1>4, <1>5, <2>1, SaveGoesOn
  <2> QED
    BY <1>1, <2>1, <2>2 DEF Carries
<1>6. CASE SaveRestart
  BY <1>2, <1>3, <1>5, <1>6 DEF SaveRestart
<1>7. ASSUME NEW d \in Calls, Handle(d), d # c PROVE Carries(job[c], call[c])'
  <2>1. \E r : call' = [call EXCEPT ![d] = r]
    <3>1. ASSUME NEW p, Then(d, p) PROVE \E r : call' = [call EXCEPT ![d] = r]
      BY <1>3, <3>1 DEF Then
    <3>2. CASE \E kept \in BOOLEAN : Upload(d, kept)
      <4>1. PICK kept \in BOOLEAN : Upload(d, kept)
        BY <3>2
      <4>2. CASE call' = [call EXCEPT ![d].pc = "upsert", ![d].key = Len(made')]
        <5>1. call' = [call EXCEPT ![d] = [call[d] EXCEPT !.pc = "upsert", !.key = Len(made')]]
          BY <1>3, <4>2
        <5> QED
          BY <5>1
      <4>3. CASE Then(d, "failed")
        BY <3>1, <4>3
      <4> QED
        BY <4>1, <4>2, <4>3 DEF Upload
    <3>3. ASSUME NEW k, Fetch(d, k) PROVE \E r : call' = [call EXCEPT ![d] = r]
      <4>1. call' = [call EXCEPT ![d] = [call[d] EXCEPT !.key = k,
                                          !.pc = IF k = NoKey THEN "missing" ELSE "download"]]
        BY <1>3, <3>3 DEF Fetch
      <4> QED
        BY <4>1
    <3>4. CASE Download(d)
      <4>1. CASE call' = [call EXCEPT ![d].pc = "loaded", ![d].bytes = made[call[d].key].bytes]
        <5>1. call' = [call EXCEPT ![d] = [call[d] EXCEPT !.pc = "loaded",
                                                          !.bytes = made[call[d].key].bytes]]
          BY <1>3, <4>1
        <5> QED
          BY <5>1
      <4> QED
        BY <3>1, <3>4, <4>1 DEF Download
    <3> QED
      BY <1>7, <3>1, <3>2, <3>3, <3>4 DEF Handle, Refuse, CheckSave, CheckLoad, QueryFails, Upsert,
         AnswerSaved, FindLatest, FindById, DownloadFails
  <2>2. call'[c] = v
    BY <1>2, <1>3, <1>7, <2>1
  <2> QED
    BY <1>5, <2>2
<1>8. CASE Handle(c)
  <2>1. v.pc \in {"checkSave", "upload", "upsert", "saved", "failed"}
    BY <1>3 DEF Carries
  <2>2. ASSUME Then(c, "failed") PROVE Carries(job[c], call[c])'
    <3>1. call'[c] = [v EXCEPT !.pc = "failed"]
      BY <1>2, <1>3, <2>2 DEF Then
    <3> QED
      BY <1>5, <3>1
  <2>3. CASE CheckSave(c)
    <3>1. CASE call[c].bytes # Void /\ Then(c, "upload")
      <4>1. PICK w \in CallRec : w = [v EXCEPT !.pc = "upload"]
        BY DEF CallRec, SavePCs
      <4>2. /\ w = call'[c] /\ w.pc = "upload" /\ w.bytes = v.bytes /\ w.game = v.game
            /\ v.pc = "checkSave" /\ v.bytes # Void
        BY <1>2, <1>3, <2>3, <3>1, <4>1 DEF Then, CallRec, CheckSave, CallAt
      <4> QED
        BY <1>1, <1>3, <4>2 DEF Carries
    <3> QED
      BY <2>2, <2>3, <3>1 DEF CheckSave
  <2>4. ASSUME NEW kept \in BOOLEAN, Upload(c, kept) PROVE Carries(job[c], call[c])'
    <3>1. CASE call' = [call EXCEPT ![c].pc = "upsert", ![c].key = Len(made')]
      <4>1. PICK m \in MadeRec : m = [game |-> v.game, slot |-> v.slot, bytes |-> v.bytes, before |-> v.before]
        BY <1>2, <1>3, <2>4 DEF CarriesOK, Upload, CallAt, MadeRec, CallRec
      <4>2. /\ made' = Append(made, m) /\ v.pc = "upload"
        BY <1>2, <2>4, <4>1 DEF Upload, CallAt
      <4>3. Len(made') = Len(made) + 1 /\ made'[Len(made')] = m /\ Len(made') \in 1 .. Len(made')
        BY <1>3, <4>2
      <4>4. PICK w : w = [v EXCEPT !.pc = "upsert", !.key = Len(made')]
        OBVIOUS
      <4>5. /\ w = call'[c] /\ w.pc = "upsert" /\ w.key = Len(made') /\ w.game = v.game
        BY <1>2, <1>3, <3>1, <4>4 DEF CallRec
      <4>6. m.game = j.game /\ m.bytes = j.bytes
        BY <1>3, <4>1, <4>2 DEF Carries
      <4> QED
        BY <1>1, <1>3, <4>3, <4>5, <4>6 DEF Carries
    <3> QED
      BY <2>2, <2>4, <3>1 DEF Upload
  <2>5. CASE Upsert(c)
    <3>1. CASE AnswerSaved(c)
      <4>1. PICK w : w = [v EXCEPT !.pc = "saved"]
        OBVIOUS
      <4>2. /\ w = call'[c] /\ w.pc = "saved" /\ w.key = v.key /\ w.game = v.game
            /\ v.pc = "upsert" /\ v.key \in answered' /\ made' = made
        BY <1>2, <1>3, <2>5, <3>1, <4>1 DEF AnswerSaved, Then, CallRec, Upsert, CallAt
      <4> QED
        BY <1>1, <1>3, <4>2 DEF Carries
    <3> QED
      BY <2>2, <2>5, <3>1 DEF Upsert
  <2> QED
    BY <1>2, <1>8, <2>1, <2>2, <2>3, <2>4, <2>5 DEF Handle, Refuse, CheckLoad, QueryFails, FindLatest,
       FindById, Download, DownloadFails, CallAt
<1> QED
  BY <1>6, <1>7, <1>8 DEF Backend

\* One page changes, with its window; the cloud does not.
LEMMA PageMoves ==
  ASSUME PlayInv, NEW t \in Tabs, NEW p \in TabRec, NEW w \in WinRec, Fits(p, w),
         tab' = [tab EXCEPT ![t] = p], win' = [win EXCEPT ![t] = w],
         UNCHANGED <<saveVars, local>>, job' \in [Calls -> JobRec],
         \A c \in Calls : job[c].kind = "save" \/ job'[c].kind = "save" =>
           /\ job'[c].kind = job[c].kind /\ job'[c].game = job[c].game
           /\ job'[c].bytes = job[c].bytes /\ job'[c].ready = job[c].ready
  PROVE  PlayInv'
<1>1. Inv'
  BY InvNext DEF PlayInv
<1>2. tab' \in [Tabs -> TabRec] /\ win' \in [Tabs -> WinRec]
  BY DEF PlayInv, PlayTypeOK
<1>3. PlayTypeOK'
  BY <1>1, <1>2 DEF PlayInv, PlayTypeOK, Inv
<1>4. ASSUME NEW d \in Tabs PROVE PageOK(d)'
  <2>1. d # t => tab'[d] = tab[d] /\ win'[d] = win[d] /\ PageOK(d)
    BY DEF PlayInv, PlayTypeOK
  <2>2. d = t => tab'[d] = p /\ win'[d] = w
    BY DEF PlayInv, PlayTypeOK
  <2> QED
    BY <2>1, <2>2 DEF PageOK
<1>5. \A c \in Calls : JobOK(c)'
  BY DEF PlayInv, JobOK, Carries, saveVars
<1>6. LocalFollowsCloud'
  BY DEF PlayInv, LocalFollowsCloud, saveVars
<1> QED
  BY <1>1, <1>3, <1>4, <1>5, <1>6 DEF PlayInv

\* The same, when no handler is left behind.
LEMMA PageStep ==
  ASSUME PlayInv, NEW t \in Tabs, NEW p \in TabRec, NEW w \in WinRec, Fits(p, w),
         tab' = [tab EXCEPT ![t] = p], win' = [win EXCEPT ![t] = w],
         UNCHANGED <<saveVars, local, job>>
  PROVE  PlayInv'
<1>1. job' \in [Calls -> JobRec]
  BY DEF PlayInv, PlayTypeOK
<1>2. UNCHANGED <<saveVars, local>>
  OBVIOUS
<1> QED
  BY <1>1, <1>2, PageMoves

\* The emulator's effect may start its script.
LEMMA StartKeeps ==
  ASSUME PlayInv, NEW t \in Tabs, NEW p \in TabRec, Fits(p, win[t]),
         p.dossier = "ready" => p.open # Void,
         Start(t, p), UNCHANGED <<saveVars, local, job>>
  PROVE  PlayInv'
<1>1. win \in [Tabs -> WinRec] /\ win[t] \in WinRec
  BY DEF PlayInv, PlayTypeOK
<1>2. CASE p.armed /\ p.dossier = "ready" /\ p.script = "none"
  <2>1. PICK q \in TabRec : q = [p EXCEPT !.script = "loading"]
    BY DEF TabRec
  <2>2. PICK w \in WinRec : w = [win[t] EXCEPT !.loaders = @ + 1]
    BY <1>1, <1>2, PlayAssumption DEF Start, WinRec
  <2>3. tab' = [tab EXCEPT ![t] = q] /\ win' = [win EXCEPT ![t] = w]
    BY <1>1, <1>2, <2>1, <2>2 DEF Start, WinRec
  <2>4. ~p.booted
    BY <1>2 DEF Fits
  <2>5. /\ q.open = p.open /\ q.script = "loading" /\ q.booted = p.booted
    BY <2>1 DEF TabRec
  <2>6. w.loaders > 0
    BY <1>1, <2>2 DEF WinRec
  <2>7. Fits(q, w)
    BY <1>2, <2>4, <2>5, <2>6 DEF Fits, TabRec
  <2> QED
    BY <2>3, <2>7, PageStep
<1>3. CASE ~(p.armed /\ p.dossier = "ready" /\ p.script = "none")
  <2>1. PICK w \in WinRec : w = win[t]
    BY <1>1
  <2>2. tab' = [tab EXCEPT ![t] = p] /\ win' = [win EXCEPT ![t] = w]
    BY <1>1, <1>3, <2>1 DEF Start
  <2> QED
    BY <2>1, <2>2, PageStep
<1> QED
  BY <1>2, <1>3

\* The page takes hold of an emulator: its own, once that has been announced.
LEMMA HoldKeeps ==
  ASSUME PlayInv, NEW t \in Tabs, NEW h \in Bytes \cup {Void},
         NEW script \in {"polling", "timer", "done"}, tab[t].script # "none",
         tab[t].booted => h = tab[t].open,
         Hold(t, h, script), UNCHANGED saveVars
  PROVE  PlayInv'
<1>1. tab \in [Tabs -> TabRec] /\ tab[t] \in TabRec /\ win \in [Tabs -> WinRec]
      /\ Fits(tab[t], win[t])
  BY DEF PlayInv, PlayTypeOK, PageOK
<1>2. PICK p \in TabRec : p = [tab[t] EXCEPT !.handle = h, !.script = script]
  BY <1>1 DEF TabRec
<1>3. PICK w \in WinRec : w = win[t]
  BY <1>1
<1>4. tab' = [tab EXCEPT ![t] = p] /\ win' = [win EXCEPT ![t] = w] /\ UNCHANGED <<saveVars, local, job>>
  BY <1>1, <1>2, <1>3 DEF Hold
<1>5. /\ p.open = tab[t].open /\ p.handle = h /\ p.script = script /\ p.booted = tab[t].booted
      /\ p.dossier = tab[t].dossier
  BY <1>1, <1>2 DEF TabRec
<1>6. Fits(p, w)
  BY <1>1, <1>3, <1>5 DEF Fits
<1> QED
  BY <1>4, <1>6, PageStep

\* What happens on a page, but for its saves and loads.
LEMMA PageKeeps ==
  ASSUME PlayInv, NEW t \in Tabs, Page(t), UNCHANGED saveVars PROVE PlayInv'
<1>1. PICK q \in TabRec : q = tab[t]
  BY DEF PlayInv, PlayTypeOK
<1>2. PICK w \in WinRec : w = win[t]
  BY DEF PlayInv, PlayTypeOK
<1>3. /\ tab \in [Tabs -> TabRec] /\ win \in [Tabs -> WinRec] /\ job \in [Calls -> JobRec]
      /\ Fits(q, w)
  BY <1>1, <1>2 DEF PlayInv, PlayTypeOK, PageOK
<1>4. /\ w.built \in Games \cup {Void} /\ w.built \in Bytes \cup {Void} /\ q.handle \in Bytes \cup {Void}
      /\ Stub \in Bytes /\ w.loaders \in 0 .. MaxLoaders /\ Void \notin Games /\ MaxLoaders \in Nat
  <2>1. w.built \in Games \cup {Void} /\ q.handle \in Bytes \cup {Void} /\ w.loaders \in 0 .. MaxLoaders
    BY DEF WinRec, TabRec
  <2>2. Bytes = Games \cup {Stub} /\ MaxLoaders \in Nat
    BY PlayAssumption
  <2> QED
    BY <2>1, <2>2, SaveStatesAssumption
<1>5. ASSUME NEW p \in TabRec, tab' = [tab EXCEPT ![t] = p], Fits(p, w), UNCHANGED <<win, local, job>>
      PROVE  PlayInv'
  <2>1. win' = [win EXCEPT ![t] = w]
    BY <1>2, <1>3, <1>5
  <2>2. UNCHANGED <<saveVars, local, job>>
    BY <1>5
  <2> QED
    BY <1>5, <2>1, <2>2, PageStep
<1>6. ASSUME NEW g \in Games, Open(t, g) PROVE PlayInv'
  <2>1. PICK p \in TabRec : p = [NoPage EXCEPT !.open = g, !.dossier = "loading", !.prep = TRUE]
    BY DEF NoPage, TabRec
  <2>2. p.open = g /\ p.script = "none" /\ p.booted = FALSE
    BY <2>1 DEF NoPage
  <2>3. Fits(p, w)
    BY <1>4, <2>2 DEF Fits
  <2> QED
    BY <1>5, <1>6, <2>1, <2>3 DEF Open
<1>7. CASE Dossier(t)
  <2>1. PICK d \in {"ready", "bare", "error"} : Start(t, [tab[t] EXCEPT !.dossier = d])
    BY <1>7 DEF Dossier
  <2>2. PICK p \in TabRec : p = [q EXCEPT !.dossier = d]
    BY DEF TabRec
  <2>3. /\ p.open = q.open /\ p.script = q.script /\ p.booted = q.booted /\ p.handle = q.handle
        /\ q.dossier = "loading" /\ p.dossier = d
    BY <1>1, <1>7, <2>2 DEF TabRec, Dossier
  <2>4. Fits(p, win[t]) /\ p.open # Void
    BY <1>2, <1>3, <2>3 DEF Fits
  <2> QED
    BY <1>1, <1>7, <2>1, <2>2, <2>4, StartKeeps DEF Dossier
<1>8. CASE Confirm(t)
  <2>1. PICK p \in TabRec : p = [q EXCEPT !.armed = TRUE, !.prep = FALSE]
    BY DEF TabRec
  <2>2. /\ p.open = q.open /\ p.script = q.script /\ p.booted = q.booted /\ p.handle = q.handle
        /\ p.dossier = q.dossier
    BY <2>1 DEF TabRec
  <2>3. Fits(p, win[t]) /\ (p.dossier = "ready" => p.open # Void)
    BY <1>2, <1>3, <2>2 DEF Fits
  <2> QED
    BY <1>1, <1>8, <2>1, <2>3, StartKeeps DEF Confirm
<1>9. CASE CancelPrep(t) \/ OpenPrep(t)
  <2>1. PICK prep \in BOOLEAN : tab' = [tab EXCEPT ![t].prep = prep] /\ UNCHANGED <<win, local, job>>
    BY <1>9 DEF CancelPrep, OpenPrep
  <2>2. PICK p \in TabRec : p = [q EXCEPT !.prep = prep]
    BY DEF TabRec
  <2>3. /\ p.open = q.open /\ p.script = q.script /\ p.booted = q.booted /\ p.handle = q.handle
        /\ p.dossier = q.dossier
    BY <2>2 DEF TabRec
  <2>4. Fits(p, w) /\ tab' = [tab EXCEPT ![t] = p]
    BY <1>1, <1>3, <2>1, <2>2, <2>3 DEF Fits
  <2> QED
    BY <1>5, <2>1, <2>4
<1>10. CASE ScriptLoads(t)
  <2>1. CASE win[t].built # Void
    BY <1>1, <1>2, <1>3, <1>4, <1>10, <2>1, HoldKeeps DEF ScriptLoads, Fits
  <2>2. CASE win[t].built = Void
    BY <1>1, <1>2, <1>3, <1>4, <1>10, <2>2, HoldKeeps DEF ScriptLoads, Fits
  <2> QED
    BY <2>1, <2>2
<1>11. CASE Poll(t)
  BY <1>1, <1>2, <1>3, <1>4, <1>11, HoldKeeps DEF Poll, Fits
<1>12. CASE Fallback(t)
  <2>1. PICK h : h = IF win[t].built # Void THEN win[t].built ELSE Stub
    OBVIOUS
  <2>2. h \in Bytes \cup {Void} /\ (tab[t].booted => h = tab[t].open) /\ tab[t].script # "none"
    BY <1>1, <1>2, <1>3, <1>4, <1>12, <2>1 DEF Fits, Fallback
  <2> QED
    BY <1>12, <2>1, <2>2, HoldKeeps DEF Fallback
<1>13. CASE ScriptFails(t)
  <2>1. PICK p \in TabRec : p = [q EXCEPT !.handle = Stub, !.script = "done", !.booted = FALSE]
    BY <1>4 DEF TabRec
  <2>2. w.loaders > 0 /\ q.script = "loading"
    BY <1>1, <1>3, <1>13 DEF ScriptFails, Fits
  <2>3. PICK x \in WinRec : x = [w EXCEPT !.loaders = w.loaders - 1]
    <3>1. w.loaders - 1 \in 0 .. MaxLoaders
      BY <1>4, <2>2
    <3> QED
      BY <3>1 DEF WinRec
  <2>4. p.open = q.open /\ p.dossier = q.dossier /\ p.script = "done" /\ p.booted = FALSE
    BY <2>1 DEF TabRec
  <2>5. Fits(p, x)
    BY <1>3, <2>2, <2>4 DEF Fits
  <2>6. /\ tab' = [tab EXCEPT ![t] = p] /\ win' = [win EXCEPT ![t] = x]
        /\ UNCHANGED <<saveVars, local, job>>
    BY <1>1, <1>2, <1>3, <1>13, <2>1, <2>3 DEF ScriptFails, WinRec
  <2> QED
    BY <2>5, <2>6, PageStep
<1>14. CASE LoaderRuns(t)
  <2>1. PICK x : x = [w EXCEPT !.loaders = w.loaders - 1,
                               !.built = IF q.script = "none" THEN w.built ELSE q.open]
    OBVIOUS
  <2>2. w.loaders > IF q.script = "loading" THEN 1 ELSE 0
    BY <1>1, <1>2, <1>14 DEF LoaderRuns
  <2>3. x.loaders = w.loaders - 1 /\ x.built = IF q.script = "none" THEN w.built ELSE q.open
    BY <2>1 DEF WinRec
  <2>4. x \in WinRec
    <3>1. w.loaders - 1 \in 0 .. MaxLoaders
      BY <1>4, <2>2
    <3>2. q.open \in Games \cup {Void}
      BY DEF TabRec
    <3> QED
      BY <1>4, <2>1, <3>1, <3>2 DEF WinRec
  <2>5. Fits(q, x)
    BY <1>3, <1>4, <2>2, <2>3 DEF Fits
  <2>6. /\ tab' = [tab EXCEPT ![t] = q] /\ win' = [win EXCEPT ![t] = x]
        /\ UNCHANGED <<saveVars, local, job>>
    BY <1>1, <1>2, <1>3, <1>14, <2>1 DEF LoaderRuns, WinRec
  <2> QED
    BY <2>4, <2>5, <2>6, PageStep
<1>15. CASE GameReady(t)
  <2>1. PICK p \in TabRec : p = [q EXCEPT !.handle = w.built, !.booted = q.booted \/ w.built = q.open]
    BY <1>4 DEF TabRec
  <2>2. /\ p.open = q.open /\ p.dossier = q.dossier /\ p.script = q.script /\ p.handle = w.built
        /\ p.booted = (q.booted \/ w.built = q.open) /\ q.script # "none"
    BY <1>1, <1>15, <2>1 DEF TabRec, GameReady
  <2>3. Fits(p, w)
    BY <1>3, <2>2 DEF Fits
  <2>4. tab' = [tab EXCEPT ![t] = p]
    BY <1>1, <1>2, <1>3, <1>15, <2>1 DEF GameReady, TabRec
  <2> QED
    BY <1>5, <1>15, <2>3, <2>4 DEF GameReady
<1>16. CASE Leave(t)
  <2>1. PICK p \in TabRec : p = NoPage
    BY DEF NoPage, TabRec
  <2>2. Fits(p, w)
    BY <2>1 DEF Fits, NoPage
  <2>3. /\ tab' = [tab EXCEPT ![t] = p] /\ win' = [win EXCEPT ![t] = w]
        /\ UNCHANGED <<saveVars, local>>
    BY <1>2, <1>3, <1>16, <2>1 DEF Leave
  <2>4. ASSUME NEW c \in Calls PROVE
          /\ job'[c] \in JobRec /\ job'[c].kind = job[c].kind /\ job'[c].game = job[c].game
          /\ job'[c].bytes = job[c].bytes /\ job'[c].ready = job[c].ready
    BY <1>3, <1>16 DEF Leave, JobRec
  <2>5. job' \in [Calls -> JobRec]
    BY <1>16, <2>4 DEF Leave
  <2> QED
    BY <2>2, <2>3, <2>4, <2>5, PageMoves
<1> QED
  BY <1>6, <1>7, <1>8, <1>9, <1>10, <1>11, <1>12, <1>13, <1>14, <1>15, <1>16 DEF Page

\* A request of the page is sent: for a save it is the page's game and bytes.
LEMMA SentKeeps ==
  ASSUME PlayInv, NEW c \in Calls, NEW pc \in {"checkSave", "checkLoad"}, NEW g \in Games,
         NEW s \in Slots \cup {Void}, NEW b \in Bytes \cup {Void}, Send(c, pc, g, s, b),
         [SaveNext]_saveVars, NEW j \in JobRec, job' = [job EXCEPT ![c] = j], UNCHANGED <<win, local>>,
         NEW t \in Tabs, NEW p \in TabRec, tab' = [tab EXCEPT ![t] = p], Fits(p, win[t]),
         j.kind = "save" => /\ pc = "checkSave" /\ j.game = g /\ j.bytes \in Bytes
                            /\ b \in {j.bytes, Void} /\ (j.ready => j.bytes = j.game)
  PROVE  PlayInv'
<1>1. Inv'
  BY InvNext DEF PlayInv
<1>2. /\ tab \in [Tabs -> TabRec] /\ job \in [Calls -> JobRec] /\ call \in [Calls -> CallRec]
  BY DEF PlayInv, PlayTypeOK, Inv, SaveTypeOK
<1>3. PlayTypeOK'
  BY <1>1, <1>2 DEF PlayInv, PlayTypeOK, Inv
<1>4. ASSUME NEW d \in Tabs PROVE PageOK(d)'
  BY <1>2 DEF PlayInv, PageOK
<1>5. PICK v : v = [NoCall EXCEPT !.pc = pc, !.game = g, !.slot = s, !.bytes = b, !.before = answered]
  OBVIOUS
<1>6. call' = [call EXCEPT ![c] = v] /\ v.pc = pc /\ v.game = g /\ v.bytes = b
      /\ UNCHANGED <<made, answered>>
  BY <1>5 DEF Send, NoCall
<1>7. ASSUME NEW d \in Calls PROVE JobOK(d)'
  <2>1. CASE d = c
    <3>1. job'[d] = j /\ call'[d] = v
      BY <1>2, <1>6, <2>1
    <3>2. j.kind = "save" => Carries(j, v)'
      BY <1>6 DEF Carries
    <3> QED
      BY <3>1, <3>2 DEF JobOK
  <2>2. CASE d # c
    <3>1. job'[d] = job[d] /\ call'[d] = call[d] /\ JobOK(d)
      BY <1>2, <1>6, <2>2 DEF PlayInv
    <3> QED
      BY <1>6, <3>1 DEF JobOK, Carries
  <2> QED
    BY <2>1, <2>2
<1>8. LocalFollowsCloud'
  BY LocalStays
<1> QED
  BY <1>1, <1>3, <1>4, <1>7, <1>8 DEF PlayInv

\* Save, upload of the local save, and load are pressed.
LEMMA PressedKeeps ==
  ASSUME PlayInv, NEW t \in Tabs, NEW c \in Calls, Save(t, c) \/ Sync(t, c) \/ Load(t, c)
  PROVE  PlayInv' /\ SaveNext
<1>1. PICK q \in TabRec : q = tab[t]
  BY DEF PlayInv, PlayTypeOK
<1>2. /\ tab \in [Tabs -> TabRec] /\ Fits(q, win[t]) /\ local \in [Roms -> Bytes \cup {Void}]
      /\ Void \notin Games /\ Void \notin Bytes /\ Stub \in Bytes /\ SlotOne \in Slots
  BY <1>1, PlayAssumption, SaveStatesAssumption DEF PlayInv, PlayTypeOK, PageOK
<1>3. ASSUME NEW kind, Enabled(t, kind) PROVE q.open \in Games
  BY <1>1, <1>2, <1>3 DEF Enabled, Controls, Fits, TabRec
<1>4. CASE Save(t, c)
  <2>1. PICK h : h = IF q.handle = Void THEN Stub ELSE q.handle
    OBVIOUS
  <2>2. PICK b \in {h, Void} : SendSave(c, q.open, SlotOne, b)
    BY <1>1, <1>4, <2>1 DEF Save
  <2>3. q.open \in Games /\ h \in Bytes
    BY <1>2, <1>3, <1>4, <2>1 DEF Save, TabRec
  <2>4. PICK p \in TabRec : p = [q EXCEPT !.handle = h]
    BY <2>3 DEF TabRec
  <2>5. /\ p.open = q.open /\ p.dossier = q.dossier /\ p.script = q.script /\ p.booted = q.booted
        /\ p.handle = h
    BY <2>4 DEF TabRec
  <2>6. Fits(p, win[t])
    BY <1>2, <2>1, <2>3, <2>5 DEF Fits
  <2>7. tab' = [tab EXCEPT ![t] = p] /\ UNCHANGED <<win, local>>
    BY <1>1, <1>2, <1>4, <2>1, <2>4 DEF Save
  <2>8. PICK j \in JobRec : j = [kind |-> "save", tab |-> t, game |-> q.open, bytes |-> h,
                                 gone |-> FALSE, ready |-> q.booted]
    BY <2>3 DEF JobRec, TabRec
  <2>9. job' = [job EXCEPT ![c] = j] /\ j.game = q.open /\ j.bytes = h /\ j.ready = q.booted
    BY <1>1, <1>4, <2>1, <2>8 DEF Save, Await
  <2>10. j.ready => j.bytes = j.game
    BY <1>2, <2>1, <2>3, <2>9 DEF Fits
  <2>11. SaveNext /\ Send(c, "checkSave", q.open, SlotOne, b)
    BY <1>2, <2>2, <2>3 DEF SaveNext, Player, SendSave
  <2> QED
    <3>1. SlotOne \in Slots \cup {Void} /\ b \in Bytes \cup {Void} /\ b \in {j.bytes, Void} /\ j.bytes \in Bytes
      BY <1>2, <2>2, <2>3, <2>9
    <3> QED
      BY <2>3, <2>6, <2>7, <2>9, <2>10, <2>11, <3>1, SentKeeps
<1>5. ASSUME NEW b \in Bytes \cup {Void}, NEW s \in Slots \cup {Void}, NEW pc \in {"checkSave", "checkLoad"},
             NEW kind \in {"sync", "load"}, Enabled(t, kind), Send(c, pc, q.open, s, b), SaveNext,
             Await(c, t, kind, b), UNCHANGED <<tab, win, local>>
      PROVE  PlayInv' /\ SaveNext
  <2>1. q.open \in Games
    BY <1>3, <1>5
  <2>2. PICK j \in JobRec : j = [kind |-> kind, tab |-> t, game |-> q.open, bytes |-> b,
                                 gone |-> FALSE, ready |-> q.booted]
    BY <2>1 DEF JobRec, TabRec
  <2>3. job' = [job EXCEPT ![c] = j] /\ j.kind # "save"
    BY <1>1, <1>5, <2>2 DEF Await
  <2>4. tab' = [tab EXCEPT ![t] = q] /\ UNCHANGED <<win, local>>
    BY <1>1, <1>2, <1>5
  <2> QED
    BY <1>2, <1>5, <2>1, <2>3, <2>4, SentKeeps
<1>6. CASE Sync(t, c)
  <2>1. PICK b : b = IF q.last # Void THEN q.last ELSE local[RomOf(q.open)]
    OBVIOUS
  <2>2. /\ Enabled(t, "sync") /\ SendSave(c, q.open, SlotOne, b) /\ Await(c, t, "sync", b)
        /\ UNCHANGED <<tab, win, local>>
    BY <1>1, <1>6, <2>1 DEF Sync
  <2>3. q.open \in Games
    BY <1>3, <2>2
  <2>4. b \in Bytes \cup {Void}
    BY <1>2, <2>1, <2>3, RomOfGame DEF TabRec
  <2>5. SaveNext
    BY <1>2, <2>2, <2>3, <2>4 DEF SaveNext, Player
  <2> QED
    BY <1>2, <1>5, <2>2, <2>4, <2>5 DEF SendSave
<1>7. CASE Load(t, c)
  <2>1. /\ Enabled(t, "load") /\ SendLoad(c, q.open, Void) /\ Await(c, t, "load", Void)
        /\ UNCHANGED <<tab, win, local>>
    BY <1>1, <1>7 DEF Load
  <2>2. q.open \in Games
    BY <1>3, <2>1
  <2>3. SaveNext
    BY <2>1, <2>2 DEF SaveNext, Player
  <2> QED
    BY <1>5, <2>1, <2>3 DEF SendLoad
<1> QED
  BY <1>4, <1>6, <1>7

\* A save, an upload of the local save or a load is answered.
LEMMA RepliedKeeps ==
  ASSUME PlayInv, NEW c \in Calls, SaveReplied(c) \/ SyncReplied(c) \/ LoadReplied(c)
  PROVE  PlayInv' /\ SaveNext
<1>1. /\ tab \in [Tabs -> TabRec] /\ job \in [Calls -> JobRec] /\ call \in [Calls -> CallRec]
      /\ win \in [Tabs -> WinRec] /\ local \in [Roms -> Bytes \cup {Void}]
      /\ NoJob \in JobRec /\ NoJob.kind = "none" /\ answered \subseteq 1 .. Len(made)
  BY DEF PlayInv, PlayTypeOK, Inv, SaveTypeOK, NoJob, JobRec
<1>2. PICK j \in JobRec : j = job[c]
  BY <1>1
<1>3. PICK v \in CallRec : v = call[c]
  BY <1>1
<1>4. /\ Receive(c) /\ job' = [job EXCEPT ![c] = NoJob] /\ UNCHANGED <<made, answered>>
      /\ \A d \in Calls : d # c => call'[d] = call[d]
  BY <1>1 DEF SaveReplied, SyncReplied, LoadReplied, Receive
<1>5. SaveNext
  BY <1>4 DEF SaveNext, Player
<1>6. Inv'
  BY <1>5, InvNext DEF PlayInv
<1>7. /\ UNCHANGED win
      /\ tab' = tab \/ tab' = [tab EXCEPT ![j.tab].last = j.bytes]
  BY <1>2 DEF SaveReplied, SyncReplied, LoadReplied, Remember
<1>8. ASSUME NEW d \in Tabs PROVE tab'[d] \in TabRec /\ PageOK(d)'
  <2>1. PICK q \in TabRec : q = tab[d]
    BY <1>1
  <2>2. PICK p : p = [q EXCEPT !.last = j.bytes]
    OBVIOUS
  <2>3. /\ p \in TabRec /\ p.open = q.open /\ p.dossier = q.dossier /\ p.script = q.script
        /\ p.booted = q.booted /\ p.handle = q.handle
    BY <2>2 DEF TabRec, JobRec
  <2>4. tab'[d] = q \/ tab'[d] = p
    BY <1>1, <1>7, <2>1, <2>2
  <2>5. win'[d] = win[d] /\ Fits(q, win[d])
    BY <1>7, <2>1 DEF PlayInv, PageOK
  <2>6. Fits(p, win[d])
    BY <2>3, <2>5 DEF Fits
  <2> QED
    BY <2>3, <2>4, <2>5, <2>6 DEF PageOK
<1>9. ASSUME NEW d \in Calls PROVE JobOK(d)'
  <2>1. d = c => job'[d].kind = "none"
    BY <1>1, <1>4
  <2>2. d # c => job'[d] = job[d] /\ call'[d] = call[d] /\ JobOK(d)
    BY <1>1, <1>4 DEF PlayInv
  <2> QED
    BY <1>4, <2>1, <2>2 DEF JobOK, Carries
<1>10. local' \in [Roms -> Bytes \cup {Void}] /\ LocalFollowsCloud'
  <2>1. CASE UNCHANGED local
    BY <1>1, <1>5, <2>1, LocalStays
  <2>2. CASE SaveReplied(c) /\ CallAt(c, "saved") /\ local' = [local EXCEPT ![RomOf(job[c].game)] = job[c].bytes]
    <3>1. Carries(j, v) /\ v.pc = "saved"
      BY <1>2, <1>3, <2>2 DEF SaveReplied, PlayInv, JobOK, CallAt
    <3>2. PICK k \in answered : made[k].game = j.game /\ made[k].bytes = j.bytes
      BY <3>1 DEF Carries
    <3>3. PICK G \in Roms : G = RomOf(j.game) /\ j.game \in G
      BY <3>1, RomOfGame DEF Carries
    <3>4. local' = [local EXCEPT ![G] = j.bytes] /\ j.bytes \in Bytes
      BY <1>2, <2>2, <3>1, <3>3 DEF Carries
    <3>5. local' \in [Roms -> Bytes \cup {Void}]
      BY <1>1, <3>4
    <3>6. ASSUME NEW R \in Roms, local'[R] # Void
          PROVE  \E n \in answered' : made'[n].game \in R /\ made'[n].bytes = local'[R]
      <4>1. CASE R = G
        BY <1>1, <1>4, <3>2, <3>3, <3>4, <4>1
      <4>2. CASE R # G
        BY <1>1, <1>4, <3>4, <3>6, <4>2 DEF LocalFollowsCloud, PlayInv
      <4> QED
        BY <4>1, <4>2
    <3> QED
      BY <3>5, <3>6 DEF LocalFollowsCloud
  <2> QED
    BY <2>1, <2>2 DEF SaveReplied, SyncReplied, LoadReplied
<1>11. PlayTypeOK'
  <2>1. tab' \in [Tabs -> TabRec]
    <3>1. tab' = [d \in Tabs |-> tab'[d]]
      BY <1>1, <1>7
    <3> QED
      BY <1>8, <3>1
  <2> QED
    BY <1>1, <1>4, <1>6, <1>7, <1>10, <2>1 DEF PlayTypeOK, Inv
<1> QED
  BY <1>5, <1>6, <1>8, <1>9, <1>10, <1>11 DEF PlayInv

\* PlayInv is inductive, and a page asks nothing of the saves they do not offer.
LEMMA PlayInvNext ==
  ASSUME PlayInv, [PlayNext]_playVars PROVE PlayInv' /\ [SaveNext]_saveVars
<1>1. ASSUME NEW t \in Tabs, Page(t) /\ UNCHANGED saveVars PROVE PlayInv' /\ [SaveNext]_saveVars
  BY <1>1, PageKeeps
<1>2. ASSUME NEW t \in Tabs, NEW c \in Calls, Save(t, c) \/ Sync(t, c) \/ Load(t, c)
      PROVE  PlayInv' /\ [SaveNext]_saveVars
  BY <1>2, PressedKeeps
<1>3. ASSUME NEW c \in Calls, SaveReplied(c) \/ SyncReplied(c) \/ LoadReplied(c)
      PROVE  PlayInv' /\ [SaveNext]_saveVars
  BY <1>3, RepliedKeeps
<1>4. CASE Backend /\ UNCHANGED pageVars
  <2>1. SaveNext /\ UNCHANGED <<tab, win, local, job>>
    BY <1>4 DEF SaveNext, pageVars
  <2>2. Inv' /\ LocalFollowsCloud'
    BY <2>1, InvNext, LocalStays DEF PlayInv
  <2>3. PlayTypeOK'
    BY <2>1, <2>2 DEF PlayInv, PlayTypeOK, Inv
  <2>4. \A t \in Tabs : PageOK(t)'
    BY <2>1 DEF PlayInv, PageOK
  <2>5. \A c \in Calls : JobOK(c)'
    BY <1>4, <2>1, BackendKeepsJobs
  <2> QED
    BY <2>1, <2>2, <2>3, <2>4, <2>5 DEF PlayInv
<1>5. CASE UNCHANGED playVars
  <2>1. UNCHANGED saveVars /\ UNCHANGED <<tab, win, local, job>>
    BY <1>5 DEF playVars, pageVars
  <2>2. Inv' /\ LocalFollowsCloud'
    BY <2>1, InvNext, LocalStays DEF PlayInv
  <2> QED
    BY <2>1, <2>2 DEF PlayInv, PlayTypeOK, Inv, PageOK, JobOK, Carries, saveVars
<1> QED
  BY <1>1, <1>2, <1>3, <1>4, <1>5 DEF PlayNext

\* The pages of a browser are players of SaveStates: what they save and load is
\* that module's, and so are its guarantees.
THEOREM PagesArePlayers == PlaySpec => SaveSpec
<1>1. PlayInit => SaveInit
  BY DEF PlayInit
<1>2. PlayInv /\ [PlayNext]_playVars => [SaveNext]_saveVars
  BY PlayInvNext
<1>3. PlayInv /\ [PlayNext]_playVars => PlayInv'
  BY PlayInvNext
<1> QED
  BY <1>1, <1>2, <1>3, PlayInvInit, PTL DEF PlaySpec, SaveSpec

(***************************************************************************)
(* So the slots that the play pages save to and load from, whichever tabs  *)
(* are open and whatever fails, are the atomic registers of SaveRegister.  *)
(***************************************************************************)
THEOREM PagesUseAtomicRegisters == PlaySpec => SaveRegisterSpec
  BY PagesArePlayers, SavesAreAtomicRegisters, PTL

\* However pages, windows and loader scripts are mixed up, a save that is
\* pressed after the page's own game has announced itself captures that game.
THEOREM SavesCaptureOwnGame == PlaySpec => []SavesOwnGame
<1>1. PlayInv => SavesOwnGame
  BY DEF PlayInv, JobOK, Carries, SavesOwnGame
<1>2. PlayInv /\ [PlayNext]_playVars => PlayInv'
  BY PlayInvNext
<1> QED
  BY <1>1, <1>2, PlayInvInit, PTL DEF PlaySpec

\* Whatever fails and whichever page wrote it, what localStorage holds of a ROM is a
\* save of some player of that ROM which the cloud has answered for.
THEOREM LocalCopiesAreAnswered == PlaySpec => []LocalFollowsCloud
<1>1. PlayInv => LocalFollowsCloud
  BY DEF PlayInv
<1>2. PlayInv /\ [PlayNext]_playVars => PlayInv'
  BY PlayInvNext
<1> QED
  BY <1>1, <1>2, PlayInvInit, PTL DEF PlaySpec

-----------------------------------------------------------------------------
(***************************************************************************)
(* The play metrics.  Frames counted on the pages, samples on their way    *)
(* and samples ever added are counted as the sets of pairs of their bearer *)
(* and a number, so that a count moves as a column of such pairs.          *)
(***************************************************************************)
Column(a, lo, n) == {a} \X (lo + 1 .. lo + n)

Counted == {x \in Players \X (1 .. MaxFrames) : x[2] <= playing[x[1]].frames}
OnItsWay == {x \in net \X (1 .. Most) : x[2] <= x[1].samples}

\* Every sample added stands for a frame drawn, or is one of no frame.
Balance ==
  /\ IsFiniteSet(Counted) /\ IsFiniteSet(OnItsWay)
  /\ Cardinality(Counted) + Cardinality(OnItsWay) + ingested <= drawn + blank

\* The global key outlives those of the ROMs, and holds as much.
Covers ==
  /\ IsFiniteSet(RomSamples) /\ Cardinality(RomSamples) <= global /\ global <= ingested
  /\ \A r \in PlayedRoms :
       rollup[r] <= ingested /\ (rollup[r] > 0 => ttl[r] <= ttl[Global])

MetricsInv ==
  /\ MetricsTypeOK /\ Balance /\ Covers
  /\ \A p \in Players : playing[p].frames <= drawn

\* A column has as many pairs as it is high.
LEMMA ColumnSize ==
  ASSUME NEW a, NEW lo \in Nat, NEW n \in Nat
  PROVE  IsFiniteSet(Column(a, lo, n)) /\ Cardinality(Column(a, lo, n)) = n
<1> DEFINE S == lo + 1 .. lo + n
           T == Column(a, lo, n)
           f == [i \in S |-> <<a, i>>]
<1>1. IsFiniteSet(S) /\ Cardinality(S) = n
  BY FS_Interval
<1>2. f \in [S -> T]
  BY DEF Column
<1>3. \A t \in T : \E i \in S : f[i] = t
  BY DEF Column
<1>4. \A i, j \in S : f[i] = f[j] => i = j
  OBVIOUS
<1>5. f \in Surjection(S, T) /\ f \in Injection(S, T)
  BY <1>2, <1>3, <1>4 DEF Surjection, Injection, IsInjective
<1> HIDE DEF f, S, T
<1>6. IsFiniteSet(T) /\ Cardinality(T) = Cardinality(S)
  BY <1>1, <1>5, FS_Surjection
<1> QED
  BY <1>1, <1>6 DEF T

\* Putting a column on a set that has none of it, and taking it away.
LEMMA ColumnAdded ==
  ASSUME NEW S, IsFiniteSet(S), NEW a, NEW lo \in Nat, NEW n \in Nat,
         S \cap Column(a, lo, n) = {}
  PROVE  /\ IsFiniteSet(S \cup Column(a, lo, n))
         /\ Cardinality(S \cup Column(a, lo, n)) = Cardinality(S) + n
<1>1. IsFiniteSet(Column(a, lo, n)) /\ Cardinality(Column(a, lo, n)) = n
  BY ColumnSize
<1>2. Cardinality(S) \in Nat /\ Cardinality({}) = 0
  BY FS_CardinalityType, FS_EmptySet
<1>3. /\ IsFiniteSet(S \cup Column(a, lo, n))
      /\ Cardinality(S \cup Column(a, lo, n))
           = Cardinality(S) + Cardinality(Column(a, lo, n)) - Cardinality(S \cap Column(a, lo, n))
  BY <1>1, FS_Union
<1>4. Cardinality(S \cap Column(a, lo, n)) = 0
  BY <1>2
<1>5. PICK k \in Nat : k = Cardinality(S)
  BY <1>2
<1>6. PICK m : m = Cardinality(S \cup Column(a, lo, n))
  OBVIOUS
<1>7. m = k + n
  BY <1>1, <1>3, <1>4, <1>5, <1>6
<1> QED
  BY <1>3, <1>5, <1>6, <1>7

LEMMA ColumnTaken ==
  ASSUME NEW S, IsFiniteSet(S), NEW a, NEW n \in Nat, Column(a, 0, n) \subseteq S
  PROVE  /\ IsFiniteSet(S \ Column(a, 0, n))
         /\ Cardinality(S \ Column(a, 0, n)) = Cardinality(S) - n
<1> DEFINE T == S \ Column(a, 0, n)
<1>1. IsFiniteSet(T)
  BY FS_Subset
<1>2. Cardinality(T) \in Nat
  BY <1>1, FS_CardinalityType
<1>3. T \cap Column(a, 0, n) = {} /\ T \cup Column(a, 0, n) = S
  OBVIOUS
<1> HIDE DEF T
<1>4. Cardinality(T \cup Column(a, 0, n)) = Cardinality(T) + n
  BY <1>1, <1>3, ColumnAdded
<1>5. Cardinality(S) = Cardinality(T) + n
  BY <1>3, <1>4
<1>6. Cardinality(T) = Cardinality(S) - n
  <2>1. PICK k \in Nat : k = Cardinality(T)
    BY <1>2
  <2>2. Cardinality(S) = k + n
    BY <1>5, <2>1
  <2> QED
    BY <2>1, <2>2
<1> QED
  BY <1>1, <1>6 DEF T

\* Nothing is counted and no key is written.
LEMMA MetricsInvInit == MetricsInit => MetricsInv
<1> SUFFICES ASSUME MetricsInit PROVE MetricsInv
  OBVIOUS
<1>1. Resting \in PlayRec /\ Resting.frames = 0
  BY MetricsAssumption DEF Resting, PlayRec
<1>2. MetricsTypeOK
  BY <1>1, MetricsAssumption DEF MetricsInit, MetricsTypeOK, Most
<1>3. Counted = {} /\ OnItsWay = {} /\ RomSamples = {}
  BY <1>1, MetricsAssumption DEF MetricsInit, Counted, OnItsWay, RomSamples, Most
<1>4. Cardinality({}) = 0 /\ IsFiniteSet({})
  BY FS_EmptySet
<1>5. Balance
  BY <1>3, <1>4 DEF MetricsInit, Balance
<1>6. Covers
  BY <1>3, <1>4 DEF MetricsInit, Covers
<1> QED
  BY <1>1, <1>2, <1>5, <1>6 DEF MetricsInit, MetricsInv

\* What the types say of the numbers.
LEMMA MetricsNumbers ==
  ASSUME MetricsInv
  PROVE  /\ MaxFrames \in Nat /\ MaxSamples \in Nat /\ Ttl \in Nat \ {0} /\ Most = MaxFrames + MaxSamples
         /\ playing \in [Players -> PlayRec] /\ \A p \in Players : playing[p].frames \in 0 .. MaxFrames
         /\ sent \in 0 .. MaxSamples /\ drawn \in 0 .. MaxFrames /\ blank \in 0 .. sent
         /\ ingested \in Nat /\ global \in Nat
         /\ rollup \in [PlayedRoms -> 0 .. Most] /\ ttl \in [PlayedRoms \cup {Global} -> 0 .. Ttl]
         /\ \A m \in net : m.id \in 1 .. sent /\ m.rom \in PlayedRoms /\ m.samples \in 1 .. Most
         /\ Cardinality(Counted) \in Nat /\ Cardinality(OnItsWay) \in Nat /\ Cardinality(RomSamples) \in Nat
<1>1. /\ Cardinality(Counted) \in Nat /\ Cardinality(OnItsWay) \in Nat
      /\ Cardinality(RomSamples) \in Nat
  BY FS_CardinalityType DEF MetricsInv, Balance, Covers
<1>2. \A p \in Players : playing[p].frames \in 0 .. MaxFrames
  BY DEF MetricsInv, MetricsTypeOK, PlayRec
<1>3. \A m \in net : m.id \in 1 .. sent /\ m.rom \in PlayedRoms /\ m.samples \in 1 .. Most
  BY DEF MetricsInv, MetricsTypeOK
<1>4. ingested \in Nat /\ global \in Nat
  BY MetricsAssumption DEF MetricsInv, MetricsTypeOK, Most
<1> QED
  BY <1>1, <1>2, <1>3, <1>4, MetricsAssumption DEF MetricsInv, MetricsTypeOK, Most

\* One frame is drawn and counted.
LEMMA FrameKeeps == ASSUME MetricsInv, NEW p \in Players, Frame(p) PROVE MetricsInv'
<1>1. PICK n \in Nat : n = playing[p].frames
  BY MetricsNumbers
<1>2. n + 1 \in 1 .. MaxFrames /\ n <= drawn /\ drawn' = drawn + 1 /\ drawn' \in 0 .. MaxFrames
  BY <1>1, MetricsNumbers DEF Frame, MetricsInv
<1>3. PICK q \in PlayRec : q = [playing[p] EXCEPT !.frames = n + 1] /\ q.frames = n + 1
  <2>1. playing[p] \in PlayRec /\ n + 1 \in 0 .. MaxFrames
    BY <1>2, MetricsNumbers
  <2>2. /\ [playing[p] EXCEPT !.frames = n + 1] \in PlayRec
        /\ [playing[p] EXCEPT !.frames = n + 1].frames = n + 1
    BY <2>1 DEF PlayRec
  <2> QED
    BY <2>2
<1>4. playing' = [playing EXCEPT ![p] = q]
  BY <1>1, <1>3, MetricsNumbers DEF Frame
<1>5. UNCHANGED <<net, sent, rollup, global, ttl, ingested, blank>>
  BY DEF Frame, rolled
<1>6. MetricsTypeOK'
  BY <1>2, <1>4, <1>5 DEF MetricsInv, MetricsTypeOK
<1>7. playing'[p].frames = n + 1 /\ \A d \in Players : d # p => playing'[d] = playing[d]
  <2>1. DOMAIN playing = Players
    BY MetricsNumbers
  <2>2. playing'[p] = q /\ \A d \in Players : d # p => playing'[d] = playing[d]
    BY <1>4, <2>1
  <2> QED
    BY <1>3, <2>2
<1>8. \A d \in Players : playing'[d].frames <= drawn'
  <2>1. \A d \in Players : playing[d].frames <= drawn /\ playing[d].frames \in Nat
    BY MetricsNumbers DEF MetricsInv
  <2> QED
    BY <1>2, <1>7, <2>1, MetricsNumbers
<1>9. Counted' = Counted \cup {<<p, n + 1>>} /\ <<p, n + 1>> \notin Counted
  <2>2. ASSUME NEW d \in Players, NEW i \in 1 .. MaxFrames PROVE
          i <= playing'[d].frames <=> (i <= playing[d].frames \/ <<d, i>> = <<p, n + 1>>)
    BY <1>1, <1>7
  <2>3. \A x \in Players \X (1 .. MaxFrames) :
          x[2] <= playing'[x[1]].frames <=> (x[2] <= playing[x[1]].frames \/ x = <<p, n + 1>>)
    BY <2>2
  <2>4. <<p, n + 1>> \in Players \X (1 .. MaxFrames)
    BY <1>2
  <2>5. <<p, n + 1>> \notin Counted
    BY <1>1 DEF Counted
  <2> QED
    BY <2>3, <2>4, <2>5 DEF Counted
<1>10. IsFiniteSet(Counted') /\ Cardinality(Counted') = Cardinality(Counted) + 1
  BY <1>9, FS_AddElement DEF MetricsInv, Balance
<1>11. OnItsWay' = OnItsWay /\ RomSamples' = RomSamples
  BY <1>5 DEF OnItsWay, RomSamples
<1>12. Balance'
  BY <1>2, <1>5, <1>10, <1>11, MetricsNumbers DEF MetricsInv, Balance
<1>13. Covers'
  BY <1>5, <1>11 DEF MetricsInv, Covers
<1> QED
  BY <1>6, <1>8, <1>12, <1>13 DEF MetricsInv

\* What is counted is published, or lost, and counted anew from zero.
LEMMA PublishKeeps ==
  ASSUME MetricsInv, NEW p \in Players, Publish(p), NEW q \in PlayRec, q.frames = 0,
         playing' = [playing EXCEPT ![p] = q]
  PROVE  MetricsInv'
<1>1. PICK n \in 0 .. MaxFrames : n = playing[p].frames
  BY MetricsNumbers
<1>2. PICK k : k = IF n = 0 THEN 1 ELSE n
  OBVIOUS
<1>3. PICK m : m = [id |-> sent', rom |-> playing[p].rom, samples |-> k]
  OBVIOUS
<1>4. /\ sent' = sent + 1 /\ sent < MaxSamples /\ net' \in {net, net \cup {m}}
      /\ blank' = IF n = 0 THEN blank + 1 ELSE blank
      /\ UNCHANGED <<rollup, global, ttl, ingested, drawn>> /\ playing[p].rom \in PlayedRoms
  BY <1>1, <1>2, <1>3, MetricsNumbers DEF Publish, rolled, Running, PlayRec
<1>5. k \in 1 .. Most /\ blank' + n = blank + k /\ blank' \in 0 .. sent' /\ m.samples = k /\ m.id = sent'
  BY <1>1, <1>2, <1>3, <1>4, MetricsNumbers
<1>6. MetricsTypeOK'
  <2>1. m \in [id : 1 .. sent', rom : PlayedRoms, samples : 1 .. Most]
    BY <1>3, <1>4, <1>5, MetricsNumbers
  <2>2. \A x \in net : x \in [id : 1 .. sent', rom : PlayedRoms, samples : 1 .. Most]
    <3>1. \A x \in 1 .. sent : x \in 1 .. sent'
      BY <1>4, MetricsNumbers
    <3>2. net \subseteq [id : 1 .. sent, rom : PlayedRoms, samples : 1 .. Most]
      BY DEF MetricsInv, MetricsTypeOK
    <3> QED
      BY <3>1, <3>2
  <2>3. sent' \in 0 .. MaxSamples /\ playing' \in [Players -> PlayRec]
    BY <1>4, MetricsNumbers
  <2> QED
    BY <1>4, <1>5, <2>1, <2>2, <2>3 DEF MetricsInv, MetricsTypeOK
<1>7. \A d \in Players : playing'[d].frames <= drawn'
  BY <1>4, MetricsNumbers DEF MetricsInv
<1>8. Counted' = Counted \ Column(p, 0, n) /\ Column(p, 0, n) \subseteq Counted
  <2>1. playing'[p].frames = 0 /\ \A d \in Players : d # p => playing'[d] = playing[d]
    BY MetricsNumbers
  <2>2. ASSUME NEW d \in Players, NEW i \in 1 .. MaxFrames PROVE
          i <= playing'[d].frames <=> (i <= playing[d].frames /\ d # p)
    BY <2>1
  <2>3. \A x \in Players \X (1 .. MaxFrames) :
          x[2] <= playing'[x[1]].frames <=> (x[2] <= playing[x[1]].frames /\ x[1] # p)
    BY <2>2
  <2>4. Column(p, 0, n) = {x \in Players \X (1 .. MaxFrames) : x[1] = p /\ x[2] <= playing[x[1]].frames}
    BY <1>1, MetricsNumbers DEF Column
  <2> QED
    BY <2>3, <2>4 DEF Counted
<1>9. IsFiniteSet(Counted') /\ Cardinality(Counted') = Cardinality(Counted) - n
  BY <1>8, ColumnTaken DEF MetricsInv, Balance
<1>10. IsFiniteSet(OnItsWay') /\ Cardinality(OnItsWay') <= Cardinality(OnItsWay) + k
  <2>1. CASE net' = net
    <3>1. OnItsWay' = OnItsWay
      BY <2>1 DEF OnItsWay
    <3> QED
      BY <1>5, <3>1, MetricsNumbers DEF MetricsInv, Balance
  <2>2. CASE net' = net \cup {m}
    <3>1. m \notin net
      BY <1>4, <1>5, MetricsNumbers
    <3>2. Column(m, 0, k) = {x \in {m} \X (1 .. Most) : x[2] <= x[1].samples}
      BY <1>5, MetricsNumbers DEF Column
    <3>3. OnItsWay' = OnItsWay \cup Column(m, 0, k)
      BY <2>2, <3>2 DEF OnItsWay
    <3>4. OnItsWay \cap Column(m, 0, k) = {}
      BY <3>1, <3>2 DEF OnItsWay
    <3>5. IsFiniteSet(OnItsWay) /\ k \in Nat /\ 0 \in Nat
      BY <1>5, MetricsNumbers DEF MetricsInv, Balance
    <3>6. /\ IsFiniteSet(OnItsWay \cup Column(m, 0, k))
          /\ Cardinality(OnItsWay \cup Column(m, 0, k)) = Cardinality(OnItsWay) + k
      BY <3>4, <3>5, ColumnAdded
    <3> QED
      BY <3>3, <3>5, <3>6, MetricsNumbers
  <2> QED
    BY <1>4, <2>1, <2>2
<1>11. Balance'
  <2>1. Cardinality(OnItsWay') \in Nat
    BY <1>10, FS_CardinalityType
  <2> QED
    BY <1>1, <1>4, <1>5, <1>9, <1>10, <2>1, MetricsNumbers DEF MetricsInv, Balance
<1>12. Covers'
  <2>1. RomSamples' = RomSamples
    BY <1>4 DEF RomSamples
  <2> QED
    BY <1>4, <2>1 DEF MetricsInv, Covers
<1> QED
  BY <1>6, <1>7, <1>11, <1>12 DEF MetricsInv

\* A sample is added to the key of its ROM and to the global one, or is lost.
LEMMA IngestKeeps == ASSUME MetricsInv, NEW m \in net, Ingest(m) PROVE MetricsInv'
<1>1. PICK r \in PlayedRoms : r = m.rom
  BY MetricsNumbers
<1>2. PICK k \in 1 .. Most : k = m.samples
  BY MetricsNumbers
<1>3. net' = net \ {m} /\ UNCHANGED <<playing, sent, drawn, blank>>
  BY DEF Ingest
<1>4. Counted' = Counted
  BY <1>3 DEF Counted
<1>5. OnItsWay' = OnItsWay \ Column(m, 0, k) /\ Column(m, 0, k) \subseteq OnItsWay
  <2>1. Column(m, 0, k) = {x \in {m} \X (1 .. Most) : x[2] <= x[1].samples}
    BY <1>2, MetricsNumbers DEF Column
  <2> QED
    BY <1>3, <2>1 DEF OnItsWay
<1>6. /\ IsFiniteSet(OnItsWay') /\ Cardinality(OnItsWay') = Cardinality(OnItsWay) - k
      /\ Cardinality(OnItsWay') \in Nat
  <2>1. k \in Nat /\ IsFiniteSet(OnItsWay)
    BY MetricsNumbers DEF MetricsInv, Balance
  <2>2. /\ IsFiniteSet(OnItsWay \ Column(m, 0, k))
        /\ Cardinality(OnItsWay \ Column(m, 0, k)) = Cardinality(OnItsWay) - k
    BY <1>5, <2>1, ColumnTaken
  <2> QED
    BY <1>5, <2>2, FS_CardinalityType
<1>7. CASE UNCHANGED rolled
  <2>1. UNCHANGED <<rollup, global, ttl, ingested>>
    BY <1>7 DEF rolled
  <2>2. MetricsTypeOK'
    BY <1>3, <2>1 DEF MetricsInv, MetricsTypeOK
  <2>3. Balance'
    BY <1>3, <1>4, <1>6, <2>1, MetricsNumbers DEF MetricsInv, Balance
  <2>4. RomSamples' = RomSamples
    BY <2>1 DEF RomSamples
  <2>5. Covers'
    BY <2>1, <2>4 DEF MetricsInv, Covers
  <2> QED
    BY <1>3, <2>2, <2>3, <2>5 DEF MetricsInv
<1>8. CASE /\ rollup' = [rollup EXCEPT ![r] = @ + k] /\ global' = global + k
           /\ ingested' = ingested + k /\ Refresh(r)
  <2>1. PICK n \in 0 .. Most : n = rollup[r]
    BY MetricsNumbers
  <2>2. /\ rollup'[r] = n + k /\ \A s \in PlayedRoms : s # r => rollup'[s] = rollup[s]
        /\ DOMAIN rollup' = PlayedRoms /\ rollup' = [rollup EXCEPT ![r] = n + k]
    BY <1>8, <2>1, MetricsNumbers
  <2>3. Balance'
    BY <1>3, <1>4, <1>6, <1>8, MetricsNumbers DEF MetricsInv, Balance
  <2>4. ingested' <= Most /\ ingested' \in Nat /\ n <= ingested /\ global <= ingested
    <3>1. ingested' <= drawn + blank
      <4>1. Cardinality(Counted) \in Nat /\ Counted' = Counted /\ Cardinality(OnItsWay') \in Nat
        BY <1>4, <1>6, MetricsNumbers
      <4>2. Cardinality(Counted) + Cardinality(OnItsWay') + ingested' <= drawn + blank
        BY <1>3, <1>4, <2>3 DEF Balance
      <4>3. ingested' \in Nat
        BY <1>8, MetricsNumbers
      <4> QED
        BY <4>1, <4>2, <4>3, MetricsNumbers
    <3>2. n <= ingested /\ global <= ingested
      BY <2>1 DEF MetricsInv, Covers
    <3> QED
      BY <1>8, <3>1, <3>2, MetricsNumbers
  <2>5. n + k \in 0 .. Most /\ n + k <= ingested' /\ global' \in 0 .. Most /\ global' <= ingested'
    BY <1>8, <2>1, <2>4, MetricsNumbers
  <2>6. ttl' = [ttl EXCEPT ![r] = Ttl, ![Global] = Ttl] /\ ttl' \in [PlayedRoms \cup {Global} -> 0 .. Ttl]
    BY <1>8, MetricsNumbers DEF Refresh
  <2>7. MetricsTypeOK'
    <3>1. rollup' \in [PlayedRoms -> 0 .. Most] /\ ingested' \in 0 .. Most
      BY <2>2, <2>4, <2>5, MetricsNumbers
    <3>2. net' \subseteq net
      BY <1>3
    <3> QED
      BY <1>3, <2>5, <2>6, <3>1, <3>2 DEF MetricsInv, MetricsTypeOK
  <2>8. RomSamples' = RomSamples \cup Column(r, n, k) /\ RomSamples \cap Column(r, n, k) = {}
    <3>1. ASSUME NEW s \in PlayedRoms, NEW i \in 1 .. Most PROVE
            i <= rollup'[s] <=> (i <= rollup[s] \/ (s = r /\ i \in n + 1 .. n + k))
      <4>1. CASE s = r
        BY <2>1, <2>2, <4>1, MetricsNumbers
      <4>2. CASE s # r
        BY <2>2, <4>2
      <4> QED
        BY <4>1, <4>2
    <3>2. \A x \in PlayedRoms \X (1 .. Most) :
            x[2] <= rollup'[x[1]] <=> (x[2] <= rollup[x[1]] \/ (x[1] = r /\ x[2] \in n + 1 .. n + k))
      BY <3>1
    <3>3. Column(r, n, k) = {x \in PlayedRoms \X (1 .. Most) : x[1] = r /\ x[2] \in n + 1 .. n + k}
      BY <2>1, <2>5, MetricsNumbers DEF Column
    <3>4. ASSUME NEW x \in RomSamples, x \in Column(r, n, k) PROVE FALSE
      <4>1. x[1] = r /\ x[2] \in n + 1 .. n + k /\ x[2] <= rollup[x[1]]
        BY <3>3, <3>4 DEF RomSamples
      <4> QED
        BY <2>1, <4>1
    <3> QED
      BY <3>2, <3>3, <3>4 DEF RomSamples
  <2>9. IsFiniteSet(RomSamples') /\ Cardinality(RomSamples') = Cardinality(RomSamples) + k
    <3>1. IsFiniteSet(RomSamples) /\ n \in Nat /\ k \in Nat
      BY MetricsNumbers DEF MetricsInv, Covers
    <3>2. /\ IsFiniteSet(RomSamples \cup Column(r, n, k))
          /\ Cardinality(RomSamples \cup Column(r, n, k)) = Cardinality(RomSamples) + k
      BY <2>8, <3>1, ColumnAdded
    <3> QED
      BY <2>8, <3>2
  <2>10. Covers'
    <3>1. Cardinality(RomSamples') <= global'
      BY <1>8, <2>9, MetricsNumbers DEF MetricsInv, Covers
    <3>2. ASSUME NEW s \in PlayedRoms PROVE
            rollup'[s] <= ingested' /\ (rollup'[s] > 0 => ttl'[s] <= ttl'[Global])
      <4>1. ttl'[Global] = Ttl /\ ttl'[s] \in 0 .. Ttl
        BY <2>6, MetricsNumbers
      <4>2. rollup'[s] <= ingested'
        <5>1. CASE s = r
          BY <2>2, <2>5, <5>1
        <5>2. CASE s # r
          <6>1. rollup[s] \in 0 .. Most /\ rollup[s] <= ingested /\ rollup'[s] = rollup[s]
            BY <2>2, <5>2, MetricsNumbers DEF MetricsInv, Covers
          <6> QED
            BY <1>8, <6>1, MetricsNumbers
        <5> QED
          BY <5>1, <5>2
      <4> QED
        BY <4>1, <4>2, MetricsNumbers
    <3> QED
      BY <2>5, <2>9, <3>1, <3>2 DEF Covers
  <2> QED
    BY <1>3, <2>3, <2>7, <2>10 DEF MetricsInv
<1> QED
  BY <1>1, <1>2, <1>7, <1>8 DEF Ingest

\* The keys of ROMs run out before the global one does.
LEMMA TickKeeps == ASSUME MetricsInv, Tick PROVE MetricsInv'
<1>1. UNCHANGED <<playing, net, sent, drawn, blank, ingested>>
  BY DEF Tick
<1>2. Counted' = Counted /\ OnItsWay' = OnItsWay
  BY <1>1 DEF Counted, OnItsWay
<1>3. Balance'
  BY <1>1, <1>2 DEF MetricsInv, Balance
<1>4. \A k \in PlayedRoms \cup {Global} :
        ttl[k] \in 0 .. Ttl /\ ttl'[k] = (IF ttl[k] > 0 THEN ttl[k] - 1 ELSE 0) /\ ttl'[k] \in 0 .. Ttl
  <2>1. DOMAIN ttl = PlayedRoms \cup {Global}
    BY MetricsNumbers
  <2>2. \A k \in DOMAIN ttl : ttl[k] \in 0 .. Ttl
    BY MetricsNumbers
  <2>3. ttl' = [k \in DOMAIN ttl |-> IF ttl[k] > 0 THEN ttl[k] - 1 ELSE 0]
    BY DEF Tick
  <2> QED
    BY <2>1, <2>2, <2>3, MetricsNumbers
<1>5. ttl' \in [PlayedRoms \cup {Global} -> 0 .. Ttl]
  <2>1. DOMAIN ttl = PlayedRoms \cup {Global}
    BY MetricsNumbers
  <2>2. ttl' = [k \in PlayedRoms \cup {Global} |-> IF ttl[k] > 0 THEN ttl[k] - 1 ELSE 0]
    BY <2>1 DEF Tick
  <2> QED
    BY <1>4, <2>2
<1>6. /\ rollup' \in [PlayedRoms -> 0 .. Most]
      /\ \A r \in PlayedRoms : /\ rollup[r] \in 0 .. Most
                               /\ rollup'[r] = (IF ttl[r] > 1 THEN rollup[r] ELSE 0)
  <2>1. \A r \in PlayedRoms : rollup[r] \in 0 .. Most /\ 0 \in 0 .. Most
    BY MetricsNumbers
  <2>2. rollup' = [r \in PlayedRoms |-> IF ttl[r] > 1 THEN rollup[r] ELSE 0]
    BY DEF Tick
  <2> QED
    BY <2>1, <2>2
<1>7. global' \in 0 .. Most /\ global' = (IF ttl[Global] > 1 THEN global ELSE 0) /\ global' <= ingested
  <2>1. global \in 0 .. Most /\ global <= ingested /\ 0 \in 0 .. Most
    BY MetricsNumbers DEF MetricsInv, Covers, MetricsTypeOK
  <2>2. global' = IF ttl[Global] > 1 THEN global ELSE 0
    BY DEF Tick
  <2> QED
    BY <2>1, <2>2, MetricsNumbers
<1>8. MetricsTypeOK'
  BY <1>1, <1>5, <1>6, <1>7 DEF MetricsInv, MetricsTypeOK
<1>9. \A r \in PlayedRoms : rollup[r] <= ingested /\ (rollup[r] > 0 => ttl[r] <= ttl[Global])
  BY DEF MetricsInv, Covers
<1>10. \A r \in PlayedRoms : rollup'[r] <= ingested' /\ (rollup'[r] > 0 => ttl'[r] <= ttl'[Global])
  <2> SUFFICES ASSUME NEW r \in PlayedRoms
               PROVE  rollup'[r] <= ingested' /\ (rollup'[r] > 0 => ttl'[r] <= ttl'[Global])
    OBVIOUS
  <2>1. /\ ttl[r] \in 0 .. Ttl /\ ttl'[r] = (IF ttl[r] > 0 THEN ttl[r] - 1 ELSE 0)
        /\ ttl[Global] \in 0 .. Ttl /\ ttl'[Global] = (IF ttl[Global] > 0 THEN ttl[Global] - 1 ELSE 0)
    BY <1>4
  <2>2. ingested \in Nat /\ ingested' = ingested
    BY <1>1, MetricsNumbers
  <2>3. rollup'[r] > 0 => rollup[r] > 0 /\ ttl[r] <= ttl[Global]
    BY <1>6, <1>9
  <2> QED
    BY <1>6, <1>9, <2>1, <2>2, <2>3, MetricsNumbers
<1>11. IsFiniteSet(RomSamples') /\ Cardinality(RomSamples') <= global'
  <2>1. CASE ttl[Global] > 1
    <3>1. \A r \in PlayedRoms : rollup'[r] <= rollup[r]
      BY <1>6, MetricsNumbers
    <3>2. ASSUME NEW x \in RomSamples' PROVE x \in RomSamples
      <4>1. x \in PlayedRoms \X (1 .. Most) /\ x[2] <= rollup'[x[1]]
        BY DEF RomSamples
      <4>2. x[1] \in PlayedRoms /\ x[2] \in 1 .. Most
        BY <4>1
      <4>3. x[2] <= rollup[x[1]]
        BY <1>6, <3>1, <4>1, <4>2, MetricsNumbers
      <4> QED
        BY <4>1, <4>3 DEF RomSamples
    <3>3. IsFiniteSet(RomSamples) /\ RomSamples' \subseteq RomSamples
      BY <3>2 DEF MetricsInv, Covers
    <3>4. IsFiniteSet(RomSamples') /\ Cardinality(RomSamples') <= Cardinality(RomSamples)
      BY <3>3, FS_Subset
    <3>5. Cardinality(RomSamples') \in Nat
      BY <3>4, FS_CardinalityType
    <3>6. Cardinality(RomSamples) <= global /\ global' = global
      BY <1>7, <2>1 DEF MetricsInv, Covers
    <3> QED
      BY <3>4, <3>5, <3>6, MetricsNumbers
  <2>2. CASE ~(ttl[Global] > 1)
    <3>1. \A r \in PlayedRoms : rollup'[r] = 0
      <4> SUFFICES ASSUME NEW r \in PlayedRoms PROVE rollup'[r] = 0
        OBVIOUS
      <4>1. ttl[r] \in 0 .. Ttl /\ ttl[Global] \in 0 .. Ttl
        BY <1>4
      <4> QED
        BY <1>6, <1>9, <2>2, <4>1, MetricsNumbers
    <3>2. RomSamples' = {}
      BY <3>1, MetricsNumbers DEF RomSamples
    <3>3. IsFiniteSet({}) /\ Cardinality({}) = 0
      BY FS_EmptySet
    <3> QED
      BY <1>7, <2>2, <3>2, <3>3
  <2> QED
    BY <2>1, <2>2
<1>12. Covers'
  BY <1>1, <1>7, <1>10, <1>11 DEF Covers
<1> QED
  BY <1>1, <1>3, <1>8, <1>12 DEF MetricsInv

\* A page that starts, is hidden or is shown counts nothing.
LEMMA PageCounts ==
  ASSUME MetricsInv, NEW p \in Players, NEW q \in PlayRec, q.frames <= playing[p].frames,
         playing' = [playing EXCEPT ![p] = q],
         UNCHANGED <<net, sent, rollup, global, ttl, ingested, drawn, blank>>
  PROVE  MetricsInv'
<1>1. ASSUME NEW d \in Players
      PROVE  /\ playing'[d].frames \in Nat /\ playing[d].frames \in Nat
             /\ playing'[d].frames <= playing[d].frames
  <2>1. playing[d] \in PlayRec /\ playing'[d] = IF d = p THEN q ELSE playing[d]
    BY MetricsNumbers
  <2>2. \A z \in PlayRec : z.frames \in Nat
    BY MetricsAssumption DEF PlayRec
  <2> QED
    BY <2>1, <2>2
<1>2. Counted' \subseteq Counted
  <2>1. \A x \in Players \X (1 .. MaxFrames) :
          x[2] <= playing'[x[1]].frames => x[2] <= playing[x[1]].frames
    BY <1>1
  <2> QED
    BY <2>1 DEF Counted
<1>3. OnItsWay' = OnItsWay /\ RomSamples' = RomSamples
  BY DEF OnItsWay, RomSamples
<1>4. IsFiniteSet(Counted') /\ Cardinality(Counted') <= Cardinality(Counted)
  BY <1>2, FS_Subset DEF MetricsInv, Balance
<1>5. Cardinality(Counted') \in Nat
  BY <1>4, FS_CardinalityType
<1>6. Balance'
  BY <1>3, <1>4, <1>5, MetricsNumbers DEF MetricsInv, Balance
<1>7. Covers'
  BY <1>3 DEF MetricsInv, Covers
<1>8. MetricsTypeOK'
  BY MetricsNumbers DEF MetricsInv, MetricsTypeOK
<1>9. \A d \in Players : playing'[d].frames <= drawn'
  <2>1. \A d \in Players : playing[d].frames <= drawn
    BY DEF MetricsInv
  <2> QED
    BY <1>1, <2>1, MetricsNumbers
<1> QED
  BY <1>6, <1>7, <1>8, <1>9 DEF MetricsInv

LEMMA MetricsInvNext == MetricsInv /\ [MetricsNext]_metricsVars => MetricsInv'
<1> SUFFICES ASSUME MetricsInv, [MetricsNext]_metricsVars PROVE MetricsInv'
  OBVIOUS
<1>1. ASSUME NEW p \in Players, NEW r \in PlayedRoms, StartMetrics(p, r) PROVE MetricsInv'
  <2>1. PICK z \in PlayRec : z = Resting /\ z.frames = 0
    <3>1. Resting \in PlayRec /\ Resting.frames = 0
      BY MetricsAssumption DEF Resting, PlayRec
    <3> QED
      BY <3>1
  <2>2. PICK q : q = [z EXCEPT !.rom = r] /\ q \in PlayRec /\ q.frames = 0
    <3>1. [z EXCEPT !.rom = r] \in PlayRec /\ [z EXCEPT !.rom = r].frames = 0
      BY <2>1 DEF PlayRec
    <3> QED
      BY <3>1
  <2>3. UNCHANGED <<net, sent, rollup, global, ttl, ingested, drawn, blank>>
    BY <1>1 DEF StartMetrics, rolled
  <2>4. playing' = [playing EXCEPT ![p] = q]
    BY <1>1, <2>1, <2>2 DEF StartMetrics
  <2>5. q.frames <= playing[p].frames
    BY <2>2, MetricsNumbers
  <2> QED
    BY <2>2, <2>3, <2>4, <2>5, PageCounts
<1>2. ASSUME NEW p \in Players, Frame(p) PROVE MetricsInv'
  BY <1>2, FrameKeeps
<1>3. ASSUME NEW p \in Players, Visibility(p) PROVE MetricsInv'
  <2>1. PICK q : q = [playing[p] EXCEPT !.hidden = ~@]
    OBVIOUS
  <2>2. playing[p] \in PlayRec
    BY MetricsNumbers
  <2>3. q \in PlayRec /\ q.frames <= playing[p].frames
    <3>1. q \in PlayRec /\ q.frames = playing[p].frames
      BY <2>1, <2>2 DEF PlayRec
    <3> QED
      BY <3>1, MetricsNumbers
  <2>4. playing' = [playing EXCEPT ![p] = q]
    BY <1>3, <2>1, MetricsNumbers DEF Visibility
  <2>5. UNCHANGED <<net, sent, rollup, global, ttl, ingested, drawn, blank>>
    BY <1>3 DEF Visibility, rolled
  <2> QED
    BY <2>3, <2>4, <2>5, PageCounts
<1>4. ASSUME NEW p \in Players, Sample(p) PROVE MetricsInv'
  <2>1. PICK q : q = [playing[p] EXCEPT !.frames = 0]
    OBVIOUS
  <2>2. playing[p] \in PlayRec
    BY MetricsNumbers
  <2>3. q \in PlayRec /\ q.frames = 0
    BY <2>1, <2>2, MetricsAssumption DEF PlayRec
  <2>4. playing' = [playing EXCEPT ![p] = q] /\ Publish(p)
    BY <1>4, <2>1, MetricsNumbers DEF Sample
  <2> QED
    BY <2>3, <2>4, PublishKeeps
<1>5. ASSUME NEW p \in Players, StopMetrics(p) PROVE MetricsInv'
  <2>1. Resting \in PlayRec /\ Resting.frames = 0
    BY MetricsAssumption DEF Resting, PlayRec
  <2> QED
    BY <1>5, <2>1, PublishKeeps DEF StopMetrics
<1>6. ASSUME NEW m \in net, Ingest(m) PROVE MetricsInv'
  BY <1>6, IngestKeeps
<1>7. ASSUME Tick PROVE MetricsInv'
  BY <1>7, TickKeeps
<1>8. ASSUME UNCHANGED metricsVars PROVE MetricsInv'
  <2>1. UNCHANGED <<playing, net, sent, rollup, global, ttl, drawn, blank, ingested>>
    BY <1>8 DEF metricsVars
  <2>2. Counted' = Counted /\ OnItsWay' = OnItsWay /\ RomSamples' = RomSamples
    BY <2>1 DEF Counted, OnItsWay, RomSamples
  <2> QED
    BY <2>1, <2>2 DEF MetricsInv, MetricsTypeOK, Balance, Covers
<1> QED
  BY <1>1, <1>2, <1>3, <1>4, <1>5, <1>6, <1>7, <1>8 DEF MetricsNext

LEMMA MetricsInvAlways == MetricsSpec => []MetricsInv
  BY MetricsInvInit, MetricsInvNext, PTL DEF MetricsSpec

(***************************************************************************)
(* useEmulatorMetrics and MetricsStore: whatever is hidden, unmounted,     *)
(* lost or sent twice over, all the samples ever added to the rollups are  *)
(* at most the frames drawn and one for each sample without a frame.       *)
(***************************************************************************)
THEOREM FramesAreCountedOnce == MetricsSpec => []CountsAtMostDrawn
<1>1. ASSUME MetricsInv PROVE CountsAtMostDrawn
  <2>1. Cardinality(Counted) + Cardinality(OnItsWay) + ingested <= drawn + blank
    BY <1>1 DEF MetricsInv, Balance
  <2> QED
    BY <1>1, <2>1, MetricsNumbers DEF CountsAtMostDrawn
<1> QED
  BY <1>1, MetricsInvAlways, PTL

(***************************************************************************)
(* recordEmulatorPerformance: the global rollup holds at least what the    *)
(* rollups of the ROMs hold together, however their keys expire.           *)
(***************************************************************************)
THEOREM GlobalOutlivesRoms == MetricsSpec => []GlobalCoversRoms
<1>1. ASSUME MetricsInv PROVE GlobalCoversRoms
  BY <1>1, MetricsNumbers DEF MetricsInv, Covers, GlobalCoversRoms
<1> QED
  BY <1>1, MetricsInvAlways, PTL

-----------------------------------------------------------------------------
(***************************************************************************)
(* The library list.  The ROM numbered r is behind roms - r others, newest *)
(* first; while ROMs are registered it moves back, so what the first n     *)
(* pages held is what is before place n * PageSize now, or further on.     *)
(***************************************************************************)
Numbers(R) == {Unknown} \cup 0 .. R

ListRec(R) == [pages : Seq(SUBSET (1 .. R)), total : Numbers(R),
               fetch : [page : 0 .. MaxRoms + 1, items : SUBSET (1 .. R), found : BOOLEAN,
                        total : Numbers(R)],
               atStart : 0 .. R, torn : BOOLEAN]

Shown(l) == UNION {l.pages[i] : i \in 1 .. Len(l.pages)}

\* Of the ROMs the list was opened with, S has all that come before place
\* n * PageSize when there are R.
UpTo(l, n, R, S) == \A r \in 1 .. l.atStart : R - r < n * PageSize => r \in S

\* What the list holds, when there are R ROMs, and what its request has found.
Complete(l, R) ==
  LET n == Len(l.pages)
      S == Shown(l) \cup l.fetch.items
  IN /\ UpTo(l, n, R, Shown(l))
     /\ l.pages # <<>> => l.total # Unknown
     /\ l.pages # <<>> /\ ~l.torn => UpTo(l, n, l.total, Shown(l))
     /\ l.fetch.page > 0 => l.fetch.page = n + 1
     /\ l.fetch.page = 0 => ~l.fetch.found /\ l.fetch.total = Unknown
     /\ l.fetch.found => UpTo(l, n + 1, R, S)
     /\ l.fetch.found /\ l.fetch.total # Unknown /\ ~l.torn => UpTo(l, n + 1, l.fetch.total, S)
     /\ ~l.fetch.found /\ l.fetch.total # Unknown /\ ~l.torn => l.fetch.total = R

ListInv ==
  /\ roms \in 0 .. MaxRoms /\ starred \subseteq 1 .. roms
  /\ played \in [1 .. MaxRoms -> 0 .. MaxPlays] /\ filter \in Filters
  /\ lists \in [Filters -> ListRec(roms)]
  /\ Complete(lists[NewestFirst], roms)

\* Rounding up to whole pages.
LEMMA WholePages ==
  ASSUME NEW t \in Int, NEW n \in Nat
  PROVE  /\ (t + PageSize - 1) \div PageSize \in Int
         /\ n + 1 <= (t + PageSize - 1) \div PageSize <=> n * PageSize < t
<1>1. PageSize \in Int /\ PageSize > 0
  BY LibraryAssumption
<1>2. PICK x \in Int : x = t + PageSize - 1
  BY <1>1
<1>3. PICK q \in Int : q = x \div PageSize /\ q * PageSize <= x /\ x < q * PageSize + PageSize
  BY <1>1, SMTT(30)
<1>4. CASE n + 1 <= q
  <2>1. (n + 1) * PageSize <= q * PageSize
    BY <1>1, <1>4, SMTT(30)
  <2>2. (n + 1) * PageSize = n * PageSize + PageSize
    BY <1>1, SMTT(30)
  <2> QED
    BY <1>1, <1>2, <1>3, <1>4, <2>1, <2>2, SMTT(30)
<1>5. CASE ~(n + 1 <= q)
  <2>1. q * PageSize <= n * PageSize
    BY <1>1, <1>5, SMTT(30)
  <2> QED
    BY <1>1, <1>2, <1>3, <1>5, <2>1, SMTT(30)
<1> QED
  BY <1>2, <1>3, <1>4, <1>5

\* A page of all ROMs, newest first.
LEMMA NewestPage ==
  ASSUME ListInv, NEW n \in Nat
  PROVE  PageOf(NewestFirst, n + 1)
           = {r \in 1 .. roms : n * PageSize <= roms - r /\ roms - r < (n + 1) * PageSize}
<1>1. Where(NewestFirst) = 1 .. roms
  BY DEF Where, NewestFirst
<1>2. ASSUME NEW r \in 1 .. roms PROVE Ahead(NewestFirst, r) = roms - r
  <2>1. roms \in Nat /\ r \in Nat /\ r <= roms
    BY LibraryAssumption DEF ListInv
  <2>2. {q \in 1 .. roms : Before(NewestFirst, q, r)} = r + 1 .. roms
    BY <2>1 DEF Before, NewestFirst
  <2>3. Cardinality(r + 1 .. roms) = IF r + 1 > roms THEN 0 ELSE roms - (r + 1) + 1
    BY <2>1, FS_Interval
  <2>4. {q \in Where(NewestFirst) : Before(NewestFirst, q, r)} = r + 1 .. roms
    BY <1>1, <2>2
  <2>5. Cardinality(r + 1 .. roms) = roms - r
    BY <2>1, <2>3
  <2> QED
    BY <2>4, <2>5 DEF Ahead
<1>3. (n + 1) - 1 = n
  OBVIOUS
<1> QED
  BY <1>1, <1>2, <1>3 DEF PageOf

\* How many rows a filter has.
LEMMA RowsCounted ==
  ASSUME ListInv, NEW f \in Filters
  PROVE  /\ Where(f) \subseteq 1 .. roms /\ Cardinality(Where(f)) \in 0 .. roms
         /\ f = NewestFirst => Cardinality(Where(f)) = roms
<1>1. roms \in Nat
  BY LibraryAssumption DEF ListInv
<1>2. IsFiniteSet(1 .. roms) /\ Cardinality(1 .. roms) = roms
  BY <1>1, FS_Interval
<1>3. Where(f) \subseteq 1 .. roms
  BY DEF Where, ListInv
<1>4. IsFiniteSet(Where(f)) /\ Cardinality(Where(f)) <= Cardinality(1 .. roms)
  BY <1>2, <1>3, FS_Subset
<1>5. Cardinality(Where(f)) \in Nat
  BY <1>4, FS_CardinalityType
<1>6. f = NewestFirst => Where(f) = 1 .. roms
  BY DEF Where, NewestFirst
<1> QED
  BY <1>1, <1>2, <1>3, <1>4, <1>5, <1>6

\* A later catalogue has all that an earlier one had.
LEMMA ListsGrow ==
  ASSUME NEW R \in Nat, NEW Q \in Nat, R <= Q
  PROVE  ListRec(R) \subseteq ListRec(Q)
<1>1. 1 .. R \subseteq 1 .. Q /\ 0 .. R \subseteq 0 .. Q
  OBVIOUS
<1>2. SUBSET (1 .. R) \subseteq SUBSET (1 .. Q) /\ Numbers(R) \subseteq Numbers(Q)
  BY <1>1 DEF Numbers
<1>3. Seq(SUBSET (1 .. R)) \subseteq Seq(SUBSET (1 .. Q))
  BY <1>2
<1> QED
  BY <1>1, <1>2, <1>3 DEF ListRec

LEMMA UpToGrows ==
  ASSUME NEW l, NEW R \in Nat, l.atStart \in 0 .. R, NEW n \in Nat, NEW S, UpTo(l, n, R, S)
  PROVE  UpTo(l, n, R + 1, S)
<1>1. PICK a \in Int : a = n * PageSize
  BY LibraryAssumption
<1> QED
  BY <1>1 DEF UpTo

LEMMA NoListFits == ASSUME NEW R \in Nat PROVE NoList \in ListRec(R) /\ Complete(NoList, R)
<1>1. NoFetch \in [page : 0 .. MaxRoms + 1, items : SUBSET (1 .. R), found : BOOLEAN, total : Numbers(R)]
  BY LibraryAssumption DEF NoFetch, Numbers
<1>2. NoList \in ListRec(R)
  BY <1>1 DEF NoList, ListRec, Numbers
<1>3. NoList.atStart = 0 /\ NoList.pages = <<>> /\ NoList.fetch = NoFetch
  BY DEF NoList
<1>4. \A n, Q, S : UpTo(NoList, n, Q, S)
  BY <1>3 DEF UpTo
<1>5. NoFetch.page = 0 /\ NoFetch.found = FALSE /\ NoFetch.total = Unknown
  BY DEF NoFetch
<1> QED
  BY <1>2, <1>3, <1>4, <1>5 DEF Complete

LEMMA ListInvInit == ListInit => ListInv
<1> SUFFICES ASSUME ListInit PROVE ListInv
  OBVIOUS
<1>1. roms \in Nat /\ NewestFirst \in Filters /\ Default \in Filters
  BY LibraryAssumption DEF ListInit, NewestFirst, Filters, Default
<1>2. NoList \in ListRec(roms) /\ Complete(NoList, roms)
  BY <1>1, NoListFits
<1>3. lists \in [Filters -> ListRec(roms)] /\ lists[NewestFirst] = NoList
  BY <1>1, <1>2 DEF ListInit
<1> QED
  BY <1>1, <1>2, <1>3, LibraryAssumption DEF ListInit, ListInv

\* One list changes, and the catalogue does not.
LEMMA ListKeeps ==
  ASSUME ListInv, NEW f \in Filters, NEW v \in ListRec(roms), ToList(f, v),
         UNCHANGED <<roms, starred, played>>, filter' \in Filters,
         f = NewestFirst => Complete(v, roms)
  PROVE  ListInv'
<1>1. lists' = [lists EXCEPT ![f] = v] /\ lists \in [Filters -> ListRec(roms)]
  BY DEF ToList, ListInv
<1>2. PICK R : R = roms /\ R = roms'
  OBVIOUS
<1>3. NewestFirst \in Filters
  BY DEF NewestFirst, Filters
<1>4. lists' \in [Filters -> ListRec(R)]
  BY <1>1, <1>2
<1>5. PICK w : w = lists'[NewestFirst]
  OBVIOUS
<1>6. Complete(w, R)
  BY <1>1, <1>2, <1>3, <1>5 DEF ListInv
<1>7. Complete(lists'[NewestFirst], roms')
  BY <1>2, <1>5, <1>6
<1>8. lists' \in [Filters -> ListRec(roms')]
  BY <1>2, <1>4
<1> QED
  BY <1>2, <1>7, <1>8 DEF ListInv

\* The list of a filter and its fields.
LEMMA ListTyped ==
  ASSUME ListInv, NEW f \in Filters
  PROVE  /\ roms \in Nat /\ lists[f] \in ListRec(roms)
         /\ f = NewestFirst => Complete(lists[f], roms)
  BY LibraryAssumption DEF ListInv

LEMMA FetchPageKeeps == ASSUME ListInv, FetchPage PROVE ListInv'
<1>1. PICK R \in Nat : R = roms /\ R <= MaxRoms
  BY LibraryAssumption DEF ListInv
<1>2. PICK f \in Filters : f = filter
  BY DEF ListInv
<1>3. PICK l \in ListRec(R) : l = lists[f] /\ (f = NewestFirst => Complete(l, R))
  BY <1>1, <1>2, ListTyped
<1>4. PICK n \in Nat : n = Len(l.pages)
  BY DEF ListRec
<1>5. PICK s \in 0 .. R : s = IF l.pages = <<>> THEN R ELSE l.atStart
  BY <1>1, <1>3 DEF ListRec
<1>6. PICK v : v = [l EXCEPT !.fetch.page = n + 1, !.atStart = s]
  OBVIOUS
<1>7. ToList(f, v) /\ l.fetch = NoFetch /\ HasNextPage(l) /\ UNCHANGED <<roms, starred, played, filter>>
  BY <1>1, <1>2, <1>3, <1>4, <1>5, <1>6 DEF FetchPage
<1>8. n + 1 \in 0 .. MaxRoms + 1
  <2>1. CASE l.pages = <<>>
    BY <1>4, <2>1, LibraryAssumption
  <2>2. CASE l.pages # <<>>
    <3>1. l.total \in Int /\ l.total <= R
      BY DEF ListRec, Numbers, Unknown
    <3>2. n * PageSize < l.total
      BY <1>4, <1>7, <2>2, <3>1, WholePages DEF HasNextPage, TotalPages
    <3>3. n <= n * PageSize /\ n * PageSize \in Int
      BY LibraryAssumption, SMTT(30)
    <3> QED
      BY <1>1, <3>1, <3>2, <3>3, LibraryAssumption
  <2> QED
    BY <2>1, <2>2
<1>9. PICK fe : fe = [l.fetch EXCEPT !.page = n + 1]
  OBVIOUS
<1>10. /\ fe \in [page : 0 .. MaxRoms + 1, items : SUBSET (1 .. R), found : BOOLEAN, total : Numbers(R)]
       /\ fe.page = n + 1 /\ fe.items = {} /\ fe.found = FALSE /\ fe.total = Unknown
  <2>1. l.fetch \in [page : 0 .. MaxRoms + 1, items : SUBSET (1 .. R), found : BOOLEAN, total : Numbers(R)]
    BY DEF ListRec
  <2>2. l.fetch.items = {} /\ l.fetch.found = FALSE /\ l.fetch.total = Unknown
    BY <1>7 DEF NoFetch
  <2> QED
    BY <1>8, <1>9, <2>1, <2>2
<1>11. v = [l EXCEPT !.fetch = fe, !.atStart = s]
  BY <1>6, <1>9 DEF ListRec
<1>12. /\ v \in ListRec(R) /\ v.pages = l.pages /\ v.total = l.total /\ v.torn = l.torn
       /\ v.fetch = fe /\ v.atStart = s
  BY <1>10, <1>11 DEF ListRec
<1>13. ASSUME Complete(l, R) PROVE Complete(v, R)
  <2>1. Shown(v) = Shown(l) /\ Len(v.pages) = n
    BY <1>4, <1>12 DEF Shown
  <2>2. CASE l.pages = <<>>
    <3>1. n = 0 /\ v.atStart = R /\ 0 * PageSize = 0
      BY <1>4, <1>5, <1>12, <2>2, LibraryAssumption
    <3>2. UpTo(v, n, R, Shown(v))
      BY <3>1 DEF UpTo
    <3> QED
      BY <1>10, <1>12, <2>1, <2>2, <3>2 DEF Complete
  <2>3. CASE l.pages # <<>>
    <3>1. v.atStart = l.atStart
      BY <1>5, <1>12, <2>3
    <3>2. \A Q, S : UpTo(l, n, Q, S) => UpTo(v, n, Q, S)
      BY <3>1 DEF UpTo
    <3>3. /\ UpTo(l, n, R, Shown(l)) /\ l.total # Unknown
          /\ ~l.torn => UpTo(l, n, l.total, Shown(l))
      BY <1>4, <1>13, <2>3 DEF Complete
    <3> QED
      BY <1>10, <1>12, <2>1, <3>2, <3>3, LibraryAssumption DEF Complete, Unknown
  <2> QED
    BY <2>2, <2>3
<1>14. filter' \in Filters
  BY <1>7 DEF ListInv
<1> QED
  BY <1>1, <1>3, <1>7, <1>12, <1>13, <1>14, ListKeeps

LEMMA FindManyKeeps == ASSUME ListInv, NEW f \in Filters, FindMany(f) PROVE ListInv'
<1>1. PICK R \in Nat : R = roms /\ R <= MaxRoms
  BY LibraryAssumption DEF ListInv
<1>3. PICK l \in ListRec(R) : l = lists[f] /\ (f = NewestFirst => Complete(l, R))
  BY <1>1, ListTyped
<1>4. PICK n \in Nat : n = Len(l.pages)
  BY DEF ListRec
<1>5. PICK x \in SUBSET (1 .. R) : x = PageOf(f, l.fetch.page)
  <2>1. PageOf(f, l.fetch.page) \subseteq 1 .. R
    BY <1>1, RowsCounted DEF PageOf
  <2> QED
    BY <2>1
<1>6. PICK fe : fe = [l.fetch EXCEPT !.items = x, !.found = TRUE]
  OBVIOUS
<1>7. PICK v : v = [l EXCEPT !.fetch = fe]
  OBVIOUS
<1>8. l.fetch \in [page : 0 .. MaxRoms + 1, items : SUBSET (1 .. R), found : BOOLEAN, total : Numbers(R)]
  BY DEF ListRec
<1>9. /\ fe \in [page : 0 .. MaxRoms + 1, items : SUBSET (1 .. R), found : BOOLEAN, total : Numbers(R)]
      /\ fe.page = l.fetch.page /\ fe.items = x /\ fe.found = TRUE /\ fe.total = l.fetch.total
  BY <1>6, <1>8
<1>10. /\ v \in ListRec(R) /\ v.pages = l.pages /\ v.total = l.total /\ v.torn = l.torn
       /\ v.fetch = fe /\ v.atStart = l.atStart
  BY <1>7, <1>9 DEF ListRec
<1>11. ToList(f, v)
  <2>1. v = [l EXCEPT !.fetch.items = x, !.fetch.found = TRUE]
    BY <1>6, <1>7, <1>8 DEF ListRec
  <2> QED
    BY <1>3, <1>5, <2>1 DEF FindMany
<1>12. l.fetch.page > 0 /\ ~l.fetch.found /\ UNCHANGED <<roms, starred, played, filter>>
  BY <1>3 DEF FindMany
<1>13. ASSUME f = NewestFirst PROVE Complete(v, R)
  <2>1. /\ UpTo(l, n, R, Shown(l)) /\ l.fetch.page = n + 1
        /\ l.pages # <<>> => l.total # Unknown
        /\ l.pages # <<>> /\ ~l.torn => UpTo(l, n, l.total, Shown(l))
        /\ l.fetch.total # Unknown /\ ~l.torn => l.fetch.total = R
    BY <1>3, <1>4, <1>12, <1>13 DEF Complete
  <2>2. Shown(v) = Shown(l) /\ Len(v.pages) = n
    BY <1>4, <1>10 DEF Shown
  <2>3. \A m, Q, S : UpTo(l, m, Q, S) => UpTo(v, m, Q, S)
    BY <1>10 DEF UpTo
  <2>4. UpTo(l, n + 1, R, Shown(l) \cup x)
    <3>1. x = {r \in 1 .. R : n * PageSize <= R - r /\ R - r < (n + 1) * PageSize}
      BY <1>1, <1>5, <1>13, <2>1, NewestPage
    <3>2. PICK a \in Int : a = n * PageSize
      BY LibraryAssumption
    <3>3. PICK b \in Int : b = (n + 1) * PageSize
      BY LibraryAssumption
    <3>4. l.atStart \in 0 .. R
      BY DEF ListRec
    <3>5. ASSUME NEW r \in 1 .. l.atStart, R - r < b PROVE r \in Shown(l) \cup x
      <4>1. CASE R - r < a
        BY <2>1, <3>2, <4>1 DEF UpTo
      <4>2. CASE ~(R - r < a)
        BY <3>1, <3>2, <3>3, <3>4, <3>5, <4>2
      <4> QED
        BY <4>1, <4>2
    <3> QED
      BY <3>3, <3>5 DEF UpTo
  <2>5. UpTo(v, n, R, Shown(v)) /\ (l.pages # <<>> /\ ~l.torn => UpTo(v, n, l.total, Shown(v)))
    BY <2>1, <2>2, <2>3
  <2>6. UpTo(v, n + 1, R, Shown(v) \cup x)
    BY <2>2, <2>3, <2>4
  <2>7. fe.total # Unknown /\ ~l.torn => UpTo(v, n + 1, fe.total, Shown(v) \cup x)
    BY <1>9, <2>1, <2>6
  <2>8. v.fetch.page = n + 1 /\ n + 1 # 0
    BY <1>9, <1>10, <2>1
  <2> QED
    BY <1>9, <1>10, <2>1, <2>2, <2>5, <2>6, <2>7, <2>8 DEF Complete
<1>14. filter' \in Filters
  BY <1>12 DEF ListInv
<1> QED
  BY <1>1, <1>10, <1>11, <1>12, <1>13, <1>14, ListKeeps

LEMMA CountKeeps == ASSUME ListInv, NEW f \in Filters, Count(f) PROVE ListInv'
<1>1. PICK R \in Nat : R = roms /\ R <= MaxRoms
  BY LibraryAssumption DEF ListInv
<1>2. PICK l \in ListRec(R) : l = lists[f] /\ (f = NewestFirst => Complete(l, R))
  BY <1>1, ListTyped
<1>3. PICK n \in Nat : n = Len(l.pages)
  BY DEF ListRec
<1>4. PICK k \in 0 .. R : k = Cardinality(Where(f)) /\ (f = NewestFirst => k = R)
  BY <1>1, RowsCounted
<1>5. PICK fe : fe = [l.fetch EXCEPT !.total = k]
  OBVIOUS
<1>6. PICK v : v = [l EXCEPT !.fetch = fe]
  OBVIOUS
<1>7. l.fetch \in [page : 0 .. MaxRoms + 1, items : SUBSET (1 .. R), found : BOOLEAN, total : Numbers(R)]
  BY DEF ListRec
<1>8. /\ fe \in [page : 0 .. MaxRoms + 1, items : SUBSET (1 .. R), found : BOOLEAN, total : Numbers(R)]
      /\ fe.page = l.fetch.page /\ fe.items = l.fetch.items /\ fe.found = l.fetch.found /\ fe.total = k
  BY <1>5, <1>7 DEF Numbers
<1>9. /\ v \in ListRec(R) /\ v.pages = l.pages /\ v.total = l.total /\ v.torn = l.torn
      /\ v.fetch = fe /\ v.atStart = l.atStart
  BY <1>6, <1>8 DEF ListRec
<1>10. ToList(f, v)
  <2>1. v = [l EXCEPT !.fetch.total = k]
    BY <1>5, <1>6, <1>7 DEF ListRec
  <2> QED
    BY <1>2, <1>4, <2>1 DEF Count
<1>11. l.fetch.page > 0 /\ l.fetch.total = Unknown /\ UNCHANGED <<roms, starred, played, filter>>
  BY <1>2 DEF Count
<1>12. ASSUME f = NewestFirst PROVE Complete(v, R)
  <2>1. /\ UpTo(l, n, R, Shown(l)) /\ l.fetch.page = n + 1
        /\ l.pages # <<>> => l.total # Unknown
        /\ l.pages # <<>> /\ ~l.torn => UpTo(l, n, l.total, Shown(l))
        /\ l.fetch.found => UpTo(l, n + 1, R, Shown(l) \cup l.fetch.items)
    BY <1>2, <1>3, <1>11, <1>12 DEF Complete
  <2>2. Shown(v) = Shown(l) /\ Len(v.pages) = n
    BY <1>3, <1>9 DEF Shown
  <2>3. \A m, Q, S : UpTo(l, m, Q, S) => UpTo(v, m, Q, S)
    BY <1>9 DEF UpTo
  <2>4. UpTo(v, n, R, Shown(v)) /\ (l.pages # <<>> /\ ~l.torn => UpTo(v, n, l.total, Shown(v)))
    BY <2>1, <2>2, <2>3
  <2>5. fe.found => UpTo(v, n + 1, R, Shown(v) \cup fe.items)
    BY <1>8, <2>1, <2>2, <2>3
  <2>6. fe.total = R
    BY <1>4, <1>8, <1>12
  <2>7. fe.found => UpTo(v, n + 1, fe.total, Shown(v) \cup fe.items)
    BY <2>5, <2>6
  <2>8. v.fetch.page = n + 1 /\ n + 1 # 0
    BY <1>8, <1>9, <2>1
  <2> QED
    BY <1>9, <2>1, <2>2, <2>4, <2>5, <2>6, <2>7, <2>8 DEF Complete
<1>13. filter' \in Filters
  BY <1>11 DEF ListInv
<1> QED
  BY <1>1, <1>9, <1>10, <1>11, <1>12, <1>13, ListKeeps

LEMMA ShowPageKeeps == ASSUME ListInv, NEW f \in Filters, ShowPage(f) PROVE ListInv'
<1>1. PICK R \in Nat : R = roms /\ R <= MaxRoms
  BY LibraryAssumption DEF ListInv
<1>2. PICK l \in ListRec(R) : l = lists[f] /\ (f = NewestFirst => Complete(l, R))
  BY <1>1, ListTyped
<1>3. PICK n \in Nat : n = Len(l.pages) /\ l.pages \in Seq(SUBSET (1 .. R))
  BY DEF ListRec
<1>4. PICK x \in SUBSET (1 .. R) : x = l.fetch.items
  BY DEF ListRec
<1>5. PICK k \in Numbers(R) : k = l.fetch.total
  BY DEF ListRec
<1>6. PICK ps \in Seq(SUBSET (1 .. R)) : ps = Append(l.pages, x)
  <2>1. Append(l.pages, x) \in Seq(SUBSET (1 .. R))
    BY <1>3
  <2> QED
    BY <2>1
<1>7. PICK v : v = [l EXCEPT !.pages = ps, !.total = k, !.fetch = NoFetch]
  OBVIOUS
<1>8. /\ NoFetch \in [page : 0 .. MaxRoms + 1, items : SUBSET (1 .. R), found : BOOLEAN, total : Numbers(R)]
      /\ NoFetch.page = 0 /\ NoFetch.found = FALSE /\ NoFetch.total = Unknown
  BY LibraryAssumption DEF NoFetch, Numbers
<1>9. /\ v \in ListRec(R) /\ v.pages = ps /\ v.total = k /\ v.torn = l.torn
      /\ v.fetch = NoFetch /\ v.atStart = l.atStart
  BY <1>7, <1>8 DEF ListRec
<1>10. ToList(f, v)
  BY <1>2, <1>4, <1>5, <1>6, <1>7 DEF ShowPage
<1>11. l.fetch.found /\ k # Unknown /\ UNCHANGED <<roms, starred, played, filter>>
  BY <1>2, <1>5 DEF ShowPage
<1>12. Shown(v) = Shown(l) \cup x /\ Len(v.pages) = n + 1 /\ v.pages # <<>>
  <2>1. Len(ps) = n + 1 /\ ps[n + 1] = x /\ \A i \in 1 .. n : ps[i] = l.pages[i]
    BY <1>3, <1>6
  <2>2. 1 .. n + 1 = (1 .. n) \cup {n + 1}
    OBVIOUS
  <2>3. Shown(v) = UNION {ps[i] : i \in 1 .. n + 1}
    BY <1>9, <2>1 DEF Shown
  <2>4. Shown(l) = UNION {l.pages[i] : i \in 1 .. n}
    BY <1>3 DEF Shown
  <2>5. \A z : (\E i \in 1 .. n + 1 : z \in ps[i]) <=> (\E i \in 1 .. n : z \in l.pages[i]) \/ z \in x
    BY <2>1, <2>2
  <2>6. Shown(v) = Shown(l) \cup x
    BY <2>3, <2>4, <2>5
  <2>7. ps # <<>>
    BY <2>1
  <2> QED
    BY <1>9, <2>1, <2>6, <2>7
<1>13. ASSUME f = NewestFirst PROVE Complete(v, R)
  <2>1. \A m, Q, S : UpTo(l, m, Q, S) => UpTo(v, m, Q, S)
    BY <1>9 DEF UpTo
  <2>2. UpTo(l, n + 1, R, Shown(l) \cup x) /\ (~l.torn => UpTo(l, n + 1, k, Shown(l) \cup x))
    BY <1>2, <1>3, <1>4, <1>5, <1>11, <1>13 DEF Complete
  <2>3. UpTo(v, n + 1, R, Shown(v)) /\ (~v.torn => UpTo(v, n + 1, v.total, Shown(v)))
    BY <1>9, <1>12, <2>1, <2>2
  <2> QED
    BY <1>8, <1>9, <1>11, <1>12, <2>3 DEF Complete
<1>14. filter' \in Filters
  BY <1>11 DEF ListInv
<1> QED
  BY <1>1, <1>9, <1>10, <1>11, <1>13, <1>14, ListKeeps

LEMMA FetchFailsKeeps == ASSUME ListInv, NEW f \in Filters, FetchFails(f) PROVE ListInv'
<1>1. PICK R \in Nat : R = roms /\ R <= MaxRoms
  BY LibraryAssumption DEF ListInv
<1>2. PICK l \in ListRec(R) : l = lists[f] /\ (f = NewestFirst => Complete(l, R))
  BY <1>1, ListTyped
<1>3. PICK v : v = [l EXCEPT !.fetch = NoFetch]
  OBVIOUS
<1>4. /\ NoFetch \in [page : 0 .. MaxRoms + 1, items : SUBSET (1 .. R), found : BOOLEAN, total : Numbers(R)]
      /\ NoFetch.page = 0 /\ NoFetch.found = FALSE /\ NoFetch.total = Unknown
  BY LibraryAssumption DEF NoFetch, Numbers
<1>5. /\ v \in ListRec(R) /\ v.pages = l.pages /\ v.total = l.total /\ v.torn = l.torn
      /\ v.fetch = NoFetch /\ v.atStart = l.atStart
  BY <1>3, <1>4 DEF ListRec
<1>6. ToList(f, v) /\ UNCHANGED <<roms, starred, played, filter>>
  BY <1>2, <1>3 DEF FetchFails
<1>7. ASSUME f = NewestFirst PROVE Complete(v, R)
  <2>1. \A m, Q, S : UpTo(l, m, Q, S) => UpTo(v, m, Q, S)
    BY <1>5 DEF UpTo
  <2>2. Shown(v) = Shown(l)
    BY <1>5 DEF Shown
  <2>3. /\ UpTo(l, Len(l.pages), R, Shown(l)) /\ (l.pages # <<>> => l.total # Unknown)
        /\ l.pages # <<>> /\ ~l.torn => UpTo(l, Len(l.pages), l.total, Shown(l))
    BY <1>2, <1>7 DEF Complete
  <2>4. /\ UpTo(v, Len(v.pages), R, Shown(v))
        /\ v.pages # <<>> /\ ~v.torn => UpTo(v, Len(v.pages), v.total, Shown(v))
    BY <1>5, <2>1, <2>2, <2>3
  <2> QED
    BY <1>4, <1>5, <2>3, <2>4 DEF Complete
<1>8. filter' \in Filters
  BY <1>6 DEF ListInv
<1> QED
  BY <1>1, <1>5, <1>6, <1>7, <1>8, ListKeeps

LEMMA SetFilterKeeps == ASSUME ListInv, NEW f \in Filters, NEW fresh \in BOOLEAN, SetFilter(f, fresh) PROVE ListInv'
<1>1. filter' = f /\ UNCHANGED <<roms, starred, played>> /\ roms \in Nat
  BY LibraryAssumption DEF SetFilter, ListInv
<1>2. CASE UNCHANGED lists
  <2>1. PICK R : R = roms /\ R = roms'
    BY <1>1
  <2>2. PICK w : w = lists[NewestFirst] /\ w = lists'[NewestFirst]
    BY <1>2
  <2>3. Complete(w, R) /\ lists' \in [Filters -> ListRec(R)]
    BY <1>2, <2>1, <2>2 DEF ListInv
  <2>4. Complete(lists'[NewestFirst], roms') /\ lists' \in [Filters -> ListRec(roms')]
    BY <2>1, <2>2, <2>3
  <2> QED
    BY <1>1, <2>1, <2>4 DEF ListInv
<1>3. CASE ToList(f, NoList)
  BY <1>1, <1>3, NoListFits, ListKeeps
<1> QED
  BY <1>2, <1>3 DEF SetFilter

\* A ROM is registered: the others move back by one place.
LEMMA RegisterRomKeeps == ASSUME ListInv, RegisterRom PROVE ListInv'
<1>1. PICK R \in Nat : R = roms /\ R < MaxRoms /\ roms' = R + 1
  BY LibraryAssumption DEF ListInv, RegisterRom
<1>2. ListRec(R) \subseteq ListRec(R + 1) /\ 1 .. R \subseteq 1 .. R + 1
  BY ListsGrow
<1>3. ASSUME NEW l \in ListRec(R), NEW v, v = [l EXCEPT !.torn = @ \/ HalfRead(l)]
      PROVE  /\ v \in ListRec(R) /\ v.pages = l.pages /\ v.total = l.total
             /\ v.fetch = l.fetch /\ v.atStart = l.atStart /\ v.torn = (l.torn \/ HalfRead(l))
  BY <1>3 DEF ListRec
<1>4. lists' = [f \in Filters |-> [lists[f] EXCEPT !.torn = @ \/ HalfRead(lists[f])]]
  BY DEF RegisterRom
<1>5. lists' \in [Filters -> ListRec(R + 1)]
  <2>1. ASSUME NEW f \in Filters
        PROVE  [lists[f] EXCEPT !.torn = @ \/ HalfRead(lists[f])] \in ListRec(R + 1)
    <3>1. lists[f] \in ListRec(R)
      BY <1>1 DEF ListInv
    <3> QED
      BY <1>2, <1>3, <3>1
  <2> QED
    BY <1>4, <2>1
<1>6. PICK l \in ListRec(R) : l = lists[NewestFirst] /\ Complete(l, R)
  BY <1>1 DEF ListInv, NewestFirst, Filters
<1>7. PICK v : v = [l EXCEPT !.torn = @ \/ HalfRead(l)]
  OBVIOUS
<1>8. lists'[NewestFirst] = v
  BY <1>4, <1>6, <1>7 DEF NewestFirst, Filters
<1>9. /\ v.pages = l.pages /\ v.total = l.total
      /\ v.fetch = l.fetch /\ v.atStart = l.atStart /\ v.torn = (l.torn \/ HalfRead(l))
  BY <1>3, <1>7
<1>10. Complete(v, R + 1)
  <2>1. PICK n \in Nat : n = Len(l.pages)
    BY DEF ListRec
  <2>2. Shown(v) = Shown(l) /\ Len(v.pages) = n
    BY <1>9, <2>1 DEF Shown
  <2>3. \A m, Q, S : UpTo(l, m, Q, S) => UpTo(v, m, Q, S)
    BY <1>9 DEF UpTo
  <2>4. \A m \in Nat : \A S : UpTo(l, m, R, S) => UpTo(l, m, R + 1, S)
    <3>1. l.atStart \in 0 .. R
      BY DEF ListRec
    <3> QED
      BY <3>1, UpToGrows
  <2>5. /\ UpTo(l, n, R, Shown(l))
        /\ l.pages # <<>> => l.total # Unknown
        /\ l.pages # <<>> /\ ~l.torn => UpTo(l, n, l.total, Shown(l))
        /\ l.fetch.page > 0 => l.fetch.page = n + 1
        /\ l.fetch.page = 0 => ~l.fetch.found /\ l.fetch.total = Unknown
        /\ l.fetch.found => UpTo(l, n + 1, R, Shown(l) \cup l.fetch.items)
        /\ l.fetch.found /\ l.fetch.total # Unknown /\ ~l.torn
             => UpTo(l, n + 1, l.fetch.total, Shown(l) \cup l.fetch.items)
    BY <1>6, <2>1 DEF Complete
  <2>6. UpTo(v, n, R + 1, Shown(v)) /\ (l.pages # <<>> /\ ~v.torn => UpTo(v, n, l.total, Shown(v)))
    BY <1>9, <2>2, <2>3, <2>4, <2>5
  <2>7. l.fetch.found => UpTo(v, n + 1, R + 1, Shown(v) \cup l.fetch.items)
    <3>1. n + 1 \in Nat
      OBVIOUS
    <3> QED
      BY <2>2, <2>3, <2>4, <2>5, <3>1
  <2>8. l.fetch.found /\ l.fetch.total # Unknown /\ ~v.torn
          => UpTo(v, n + 1, l.fetch.total, Shown(v) \cup l.fetch.items)
    BY <1>9, <2>2, <2>3, <2>5
  <2>9. ~(~l.fetch.found /\ l.fetch.total # Unknown /\ ~v.torn)
    <3>1. l.fetch.page \in Nat
      BY LibraryAssumption DEF ListRec
    <3>2. l.fetch.page > 0 \/ l.fetch.total = Unknown
      BY <2>5, <3>1
    <3>3. l.fetch.found \in BOOLEAN
      BY DEF ListRec
    <3>4. ~l.fetch.found /\ l.fetch.total # Unknown => HalfRead(l)
      BY <3>2, <3>3, Zenon DEF HalfRead
    <3> QED
      BY <1>9, <3>4
  <2> QED
    BY <1>9, <2>2, <2>5, <2>6, <2>7, <2>8, <2>9 DEF Complete
<1>11. PICK Q \in Nat : Q = R + 1 /\ roms' = Q
  BY <1>1
<1>12. lists' \in [Filters -> ListRec(roms')] /\ Complete(lists'[NewestFirst], roms')
  BY <1>5, <1>8, <1>10, <1>11
<1>13. starred' \subseteq 1 .. roms' /\ played' \in [1 .. MaxRoms -> 0 .. MaxPlays] /\ filter' \in Filters
  BY <1>1, <1>2 DEF RegisterRom, ListInv
<1>14. roms' \in 0 .. MaxRoms
  BY <1>1, LibraryAssumption
<1> QED
  BY <1>12, <1>13, <1>14 DEF ListInv

\* Nothing but what is starred or played changes.
LEMMA ReaderKeeps ==
  ASSUME ListInv, UNCHANGED <<roms, filter, lists>>,
         starred' \subseteq 1 .. roms, played' \in [1 .. MaxRoms -> 0 .. MaxPlays]
  PROVE  ListInv'
<1>1. PICK R : R = roms /\ R = roms'
  OBVIOUS
<1>2. PICK w : w = lists[NewestFirst] /\ w = lists'[NewestFirst]
  OBVIOUS
<1>3. Complete(w, R) /\ lists' \in [Filters -> ListRec(R)]
  BY <1>1, <1>2 DEF ListInv
<1>4. Complete(lists'[NewestFirst], roms') /\ lists' \in [Filters -> ListRec(roms')]
  BY <1>1, <1>2, <1>3
<1> QED
  BY <1>1, <1>4 DEF ListInv

LEMMA ListInvNext == ListInv /\ [ListNext]_listVars => ListInv'
<1> SUFFICES ASSUME ListInv, [ListNext]_listVars PROVE ListInv'
  OBVIOUS
<1>1. CASE FetchPage
  BY <1>1, FetchPageKeeps
<1>2. ASSUME NEW f \in Filters, FindMany(f) PROVE ListInv'
  BY <1>2, FindManyKeeps
<1>3. ASSUME NEW f \in Filters, Count(f) PROVE ListInv'
  BY <1>3, CountKeeps
<1>4. ASSUME NEW f \in Filters, ShowPage(f) PROVE ListInv'
  BY <1>4, ShowPageKeeps
<1>5. ASSUME NEW f \in Filters, FetchFails(f) PROVE ListInv'
  BY <1>5, FetchFailsKeeps
<1>6. ASSUME NEW f \in Filters, NEW fresh \in BOOLEAN, SetFilter(f, fresh) PROVE ListInv'
  BY <1>6, SetFilterKeeps
<1>7. CASE RegisterRom
  BY <1>7, RegisterRomKeeps
<1>8. ASSUME NEW r \in 1 .. roms, StarRom(r) PROVE ListInv'
  BY <1>8, ReaderKeeps DEF StarRom, ListInv
<1>9. ASSUME NEW r \in 1 .. roms, PlayRom(r) PROVE ListInv'
  <2>1. r \in 1 .. MaxRoms
    BY LibraryAssumption DEF ListInv
  <2>2. played[r] \in 0 .. MaxPlays /\ played[r] < MaxPlays
    BY <1>9, <2>1 DEF ListInv, PlayRom
  <2>3. played' \in [1 .. MaxRoms -> 0 .. MaxPlays]
    <3>1. PICK k \in 0 .. MaxPlays : k = played[r] + 1
      BY <2>2, LibraryAssumption
    <3> QED
      BY <1>9, <2>1, <3>1 DEF ListInv, PlayRom
  <2> QED
    BY <1>9, <2>3, ReaderKeeps DEF PlayRom, ListInv
<1>10. CASE UNCHANGED listVars
  BY <1>10, ReaderKeeps DEF listVars, ListInv
<1> QED
  BY <1>1, <1>2, <1>3, <1>4, <1>5, <1>6, <1>7, <1>8, <1>9, <1>10 DEF ListNext

LEMMA ListInvAlways == ListSpec => []ListInv
  BY ListInvInit, ListInvNext, PTL DEF ListSpec

\* Before is an order: of two rows one is before the other, and what is before
\* the first is before the second.
LEMMA RowOrder ==
  ASSUME ListInv, NEW f \in Filters
  PROVE  \A a, b \in Where(f) :
           /\ ~Before(f, a, a) /\ (a # b => Before(f, a, b) \/ Before(f, b, a))
           /\ \A c \in Where(f) : Before(f, c, a) /\ Before(f, a, b) => Before(f, c, b)
<1>1. \A a \in Where(f) : a \in Int /\ played[a] \in Int
  <2>1. Where(f) \subseteq 1 .. MaxRoms
    BY RowsCounted, LibraryAssumption DEF ListInv
  <2> QED
    BY <2>1, LibraryAssumption DEF ListInv
<1> QED
  BY <1>1 DEF Before

\* A row has more rows ahead of it than one that is before it.
LEMMA AheadGrows ==
  ASSUME ListInv, NEW f \in Filters, NEW a \in Where(f), NEW b \in Where(f), Before(f, a, b)
  PROVE  Ahead(f, a) \in Nat /\ Ahead(f, b) \in Nat /\ Ahead(f, a) < Ahead(f, b)
<1> DEFINE S == {q \in Where(f) : Before(f, q, a)}
           T == {q \in Where(f) : Before(f, q, b)}
<1>1. IsFiniteSet(Where(f))
  <2>1. roms \in Nat /\ Where(f) \subseteq 1 .. roms
    BY RowsCounted, LibraryAssumption DEF ListInv
  <2>2. IsFiniteSet(1 .. roms)
    BY <2>1, FS_Interval
  <2> QED
    BY <2>1, <2>2, FS_Subset
<1>2. S \subseteq T /\ a \in T /\ a \notin S /\ T \subseteq Where(f)
  BY RowOrder
<1> HIDE DEF S, T
<1>3. IsFiniteSet(T) /\ IsFiniteSet(S)
  BY <1>1, <1>2, FS_Subset
<1>4. IsFiniteSet(S \cup {a}) /\ Cardinality(S \cup {a}) = Cardinality(S) + 1
  BY <1>2, <1>3, FS_AddElement
<1>5. Cardinality(S \cup {a}) <= Cardinality(T)
  BY <1>2, <1>3, FS_Subset
<1>6. Cardinality(S) \in Nat /\ Cardinality(T) \in Nat
  BY <1>3, FS_CardinalityType
<1>7. Ahead(f, a) = Cardinality(S) /\ Ahead(f, b) = Cardinality(T)
  BY DEF Ahead, S, T
<1>8. PICK s \in Nat : s = Cardinality(S)
  BY <1>6
<1>9. PICK t \in Nat : t = Cardinality(T)
  BY <1>6
<1>10. s + 1 <= t
  BY <1>4, <1>5, <1>8, <1>9
<1> QED
  BY <1>7, <1>8, <1>9, <1>10

\* Where a row stands is a number of its own.
LEMMA RowsApart ==
  ASSUME ListInv, NEW f \in Filters
  PROVE  \A a \in Where(f) : Ahead(f, a) \in Nat /\ \A b \in Where(f) : Ahead(f, a) = Ahead(f, b) => a = b
<1> SUFFICES ASSUME NEW a \in Where(f)
             PROVE  Ahead(f, a) \in Nat /\ \A b \in Where(f) : Ahead(f, a) = Ahead(f, b) => a = b
  OBVIOUS
<1>1. Ahead(f, a) \in Nat
  <2>1. roms \in Nat /\ Where(f) \subseteq 1 .. roms
    BY RowsCounted, LibraryAssumption DEF ListInv
  <2>2. IsFiniteSet(1 .. roms)
    BY <2>1, FS_Interval
  <2>3. IsFiniteSet({q \in Where(f) : Before(f, q, a)})
    BY <2>1, <2>2, FS_Subset
  <2> QED
    BY <2>3, FS_CardinalityType DEF Ahead
<1>2. ASSUME NEW b \in Where(f), Ahead(f, a) = Ahead(f, b), a # b PROVE FALSE
  <2>1. CASE Before(f, a, b)
    BY <1>2, <2>1, AheadGrows
  <2>2. CASE Before(f, b, a)
    BY <1>2, <2>2, AheadGrows
  <2> QED
    BY <1>2, <2>1, <2>2, RowOrder
<1> QED
  BY <1>1, <1>2

\* Every row is on one page of the catalogue as it is, and a page has its size at most.
PagesPartition ==
  \A f \in Filters :
    /\ \A r \in Where(f) : \E n \in Nat \ {0} :
         r \in PageOf(f, n) /\ \A m \in Nat \ {0} : r \in PageOf(f, m) => m = n
    /\ \A n \in Nat \ {0} :
         IsFiniteSet(PageOf(f, n)) /\ Cardinality(PageOf(f, n)) <= PageSize

LEMMA RowsOnPages == ListInv => PagesPartition
<1> SUFFICES ASSUME ListInv, NEW f \in Filters
             PROVE  /\ \A r \in Where(f) : \E n \in Nat \ {0} :
                         r \in PageOf(f, n) /\ \A m \in Nat \ {0} : r \in PageOf(f, m) => m = n
                    /\ \A n \in Nat \ {0} :
                         IsFiniteSet(PageOf(f, n)) /\ Cardinality(PageOf(f, n)) <= PageSize
  BY DEF PagesPartition
<1>1. PageSize \in Int /\ PageSize > 0
  BY LibraryAssumption
<1>2. ASSUME NEW r \in Where(f)
      PROVE  \E n \in Nat \ {0} :
               r \in PageOf(f, n) /\ \A m \in Nat \ {0} : r \in PageOf(f, m) => m = n
  <2>1. PICK a \in Nat : a = Ahead(f, r)
    BY RowsApart
  <2>2. PICK q \in Int : q * PageSize <= a /\ a < q * PageSize + PageSize
    <3>1. a \div PageSize \in Int /\ (a \div PageSize) * PageSize <= a
          /\ a < (a \div PageSize) * PageSize + PageSize
      BY <1>1, SMTT(30)
    <3> QED
      BY <3>1
  <2>3. (q + 1) * PageSize = q * PageSize + PageSize
    BY <1>1, SMTT(30)
  <2>4. q >= 0
    <3>1. ASSUME q + 1 <= 0 PROVE (q + 1) * PageSize <= 0
      BY <1>1, <3>1, SMTT(30)
    <3>2. q * PageSize \in Int /\ (q + 1) * PageSize \in Int
      BY <1>1
    <3> QED
      BY <1>1, <2>2, <2>3, <3>1, <3>2
  <2>5. PICK n \in Nat \ {0} : n = q + 1 /\ n - 1 = q
    BY <2>4
  <2>6. r \in PageOf(f, n)
    BY <2>1, <2>2, <2>3, <2>5 DEF PageOf
  <2>7. ASSUME NEW m \in Nat \ {0}, r \in PageOf(f, m) PROVE m = n
    <3>1. (m - 1) * PageSize <= a /\ a < m * PageSize
      BY <2>1, <2>7 DEF PageOf
    <3>2. CASE m < n
      <4>1. m * PageSize <= q * PageSize
        BY <1>1, <2>5, <3>2, SMTT(30)
      <4>2. m * PageSize \in Int /\ q * PageSize \in Int
        BY <1>1
      <4> QED
        BY <2>2, <3>1, <4>1, <4>2
    <3>3. CASE n < m
      <4>1. n * PageSize <= (m - 1) * PageSize
        BY <1>1, <3>3, SMTT(30)
      <4>2. n * PageSize \in Int /\ (m - 1) * PageSize \in Int /\ n * PageSize = q * PageSize + PageSize
        BY <1>1, <2>3, <2>5
      <4> QED
        BY <2>2, <3>1, <4>1, <4>2
    <3> QED
      BY <3>2, <3>3
  <2> QED
    BY <2>6, <2>7
<1>3. ASSUME NEW n \in Nat \ {0}
      PROVE  IsFiniteSet(PageOf(f, n)) /\ Cardinality(PageOf(f, n)) <= PageSize
  <2> DEFINE S == PageOf(f, n)
             lo == (n - 1) * PageSize
             T == lo .. lo + PageSize - 1
             at == [r \in S |-> Ahead(f, r)]
  <2>1. lo \in Int /\ n * PageSize = lo + PageSize
    BY <1>1, SMTT(30)
  <2>2. IsFiniteSet(T) /\ Cardinality(T) = PageSize
    <3>1. PICK a \in Int : a = lo
      BY <2>1
    <3>2. PICK b \in Int : b = a + PageSize - 1 /\ b - a + 1 = PageSize /\ ~(a > b)
      BY <1>1, <3>1
    <3>3. IsFiniteSet(a .. b) /\ Cardinality(a .. b) = PageSize
      BY <3>2, FS_Interval
    <3> QED
      BY <3>1, <3>2, <3>3
  <2>3. \A r \in S : r \in Where(f) /\ Ahead(f, r) \in Int /\ lo <= Ahead(f, r) /\ Ahead(f, r) < n * PageSize
    BY RowsApart DEF PageOf
  <2> HIDE DEF lo
  <2>4. at \in [S -> T]
    BY <1>1, <2>1, <2>3
  <2>5. \A a, b \in S : at[a] = at[b] => a = b
    BY <2>3, RowsApart
  <2>6. at \in Injection(S, T)
    BY <2>4, <2>5 DEF Injection, IsInjective
  <2> HIDE DEF S, T, at
  <2>7. IsFiniteSet(S) /\ Cardinality(S) <= Cardinality(T)
    BY <2>2, <2>6, FS_Injection
  <2> QED
    BY <2>2, <2>7 DEF S
<1> QED
  BY <1>2, <1>3

(***************************************************************************)
(* GET /roms, skip and take: whatever is filtered and ordered, the order   *)
(* has no ties (the createdAt of the rows decides), so every row is on     *)
(* exactly one page of a catalogue that stays as it is, and no page has    *)
(* more than PageSize rows.                                                *)
(***************************************************************************)
THEOREM PagesPartitionRows == ListSpec => []PagesPartition
  BY ListInvAlways, RowsOnPages, PTL

LEMMA ListTypes == ListInv => ListTypeOK
<1> SUFFICES ASSUME ListInv PROVE ListTypeOK
  OBVIOUS
<1>1. PICK R \in Nat : R = roms /\ R <= MaxRoms
  BY LibraryAssumption DEF ListInv
<1>2. ASSUME NEW f \in Filters
      PROVE  LET l == lists[f]
             IN /\ \A i \in 1 .. Len(l.pages) : l.pages[i] \subseteq 1 .. roms
                /\ l.total \in {Unknown} \cup 0 .. roms
                /\ l.fetch \in FetchRec
                /\ l.atStart \in 0 .. roms /\ l.torn \in BOOLEAN
  <2>1. PICK l \in ListRec(R) : l = lists[f]
    BY <1>1 DEF ListInv
  <2>2. \A i \in 1 .. Len(l.pages) : l.pages[i] \subseteq 1 .. R
    BY DEF ListRec
  <2>3. l.total \in {Unknown} \cup 0 .. R /\ l.atStart \in 0 .. R /\ l.torn \in BOOLEAN
    BY DEF ListRec, Numbers
  <2>4. l.fetch \in FetchRec
    <3>1. SUBSET (1 .. R) \subseteq SUBSET (1 .. MaxRoms) /\ 0 .. R \subseteq 0 .. MaxRoms
      BY <1>1, LibraryAssumption
    <3>2. l.fetch \in [page : 0 .. MaxRoms + 1, items : SUBSET (1 .. R), found : BOOLEAN, total : Numbers(R)]
      BY DEF ListRec
    <3> QED
      BY <3>1, <3>2 DEF FetchRec, Numbers
  <2> QED
    BY <1>1, <2>1, <2>2, <2>3, <2>4
<1>3. DOMAIN lists = Filters
  BY DEF ListInv
<1> QED
  BY <1>2, <1>3 DEF ListInv, ListTypeOK

(***************************************************************************)
(* GET /roms and useRomLibrary: who gets to the end of the catalogue,      *)
(* newest first, has been shown every ROM that was there when the list was *)
(* opened, unless one was registered between the two queries of a request. *)
(***************************************************************************)
THEOREM TheEndHasBeenReached == ListSpec => []EndOfListShowsAll
<1>1. ASSUME ListInv PROVE EndOfListShowsAll
  <2>1. PICK R \in Nat : R = roms
    BY <1>1, LibraryAssumption DEF ListInv
  <2>2. PICK l \in ListRec(R) : l = lists[NewestFirst] /\ Complete(l, R)
    BY <1>1, <2>1 DEF ListInv, NewestFirst, Filters
  <2>3. ASSUME ~HasNextPage(l), ~l.torn, NEW r \in 1 .. l.atStart PROVE r \in Shown(l)
    <3>1. PICK n \in Nat : n = Len(l.pages)
      BY DEF ListRec
    <3>2. UpTo(l, n, l.total, Shown(l)) /\ ~(n + 1 <= TotalPages(l)) /\ l.total \in Int
      BY <2>2, <2>3, <3>1 DEF HasNextPage, Complete, ListRec, Numbers, Unknown
    <3>3. ~(n * PageSize < l.total)
      BY <3>2, WholePages DEF TotalPages
    <3>4. l.total - r < n * PageSize
      <4>1. n * PageSize \in Int /\ r \in Int /\ r > 0
        BY LibraryAssumption DEF ListRec
      <4> QED
        BY <3>2, <3>3, <4>1
    <3> QED
      BY <3>2, <3>4 DEF UpTo
  <2>4. ~HasNextPage(l) /\ ~l.torn => 1 .. l.atStart \subseteq UNION {l.pages[i] : i \in 1 .. Len(l.pages)}
    BY <2>3 DEF Shown
  <2> QED
    BY <2>2, <2>4 DEF EndOfListShowsAll, NewestFirst
<1> QED
  BY <1>1, ListInvAlways, PTL

-----------------------------------------------------------------------------
(***************************************************************************)
(* The stars.  A view that nothing has overtaken has at most one toggle    *)
(* out, and beside it at most the refresh of a RomHero, whose answer is    *)
(* dropped once the toggle has been sent; and no other view has toggled    *)
(* since.                                                                  *)
(***************************************************************************)
TogglesAt == {"token", "find", "delete", "create", "flipped", "failed"}
SentAt == TogglesAt \ {"token"}
ReadsAt == {"ask", "read", "shown"}

Toggling(v) == {k \in Of(v) : click[k].at \in TogglesAt}
SentToggles(v) == {k \in Of(v) : click[k].at \in SentAt}

\* What may be out at a time.
Apart(v) ==
  /\ \A k \in Of(v) : click[k].at # "unread"
  /\ \A j, k \in Toggling(v) : j = k
  /\ \A j, k \in Reads(v) : j = k
  /\ \A j \in Toggling(v), k \in Reads(v) : v \in Heroes /\ click[k].at # "ask"
  /\ \A k \in Of(v) : v \in Heroes \/ click[k].at \in TogglesAt => page[v] = "ready"

\* What the requests of the view know of the star.
Knows(v) ==
  /\ \A k \in Of(v) : v \notin Heroes \/ click[k].at = "ask" => ~click[k].old
  /\ \A k \in Of(v) : click[k].at = "flipped" => click[k].is = IsFavorite
  /\ \A k \in Toggling(v) : click[k].at # "flipped" /\ ~click[k].old =>
       IF v \in Heroes THEN click[k].was = IsFavorite ELSE star[v] = IsFavorite
  /\ \A k \in Of(v) : click[k].at = "shown" /\ ~click[k].old => click[k].is = IsFavorite
  /\ \A j \in SentToggles(v), k \in Reads(v) : click[k].old

\* What the view shows when no toggle of its own is on its way.
Shows(v) ==
  SentToggles(v) = {} =>
    /\ \A k \in Reads(v) : click[k].old => star[v] = IsFavorite
    /\ Reads(v) = {} /\ page[v] = "ready" => star[v] = IsFavorite

ViewOK(v) == Apart(v) /\ Knows(v) /\ Shows(v)

DeletesOK == \A k \in Clicks : click[k].at = "delete" => click[k].id # NoRow

StarInv ==
  /\ StarTypeOK /\ SuccessFlipsOnce /\ DeletesOK
  /\ \A v \in Views \ unsure : ViewOK(v)

USE FavouritesAssumption

\* A slot without a request.
LEMMA IdleSlot ==
  /\ NoClick \in ClickRec /\ NoClick.at = "idle" /\ NoClick.view \in Views
  /\ ~NoClick.old /\ ~NoClick.is /\ ~NoClick.was /\ NoClick.id = NoRow
BY DEF NoClick, ClickRec, NoRow

\* Initially no view has been opened.
LEMMA StarInvInit == ASSUME StarInit PROVE StarInv
<1>1. NoClick \in ClickRec /\ NoClick.at = "idle"
  BY IdleSlot
<1>2. click \in [Clicks -> ClickRec] /\ \A k \in Clicks : click[k].at = "idle"
  BY <1>1 DEF StarInit
<1>3. StarTypeOK
  BY <1>2 DEF StarInit, StarTypeOK, NoRow
<1>4. SuccessFlipsOnce /\ DeletesOK
  BY <1>2 DEF StarInit, SuccessFlipsOnce, DeletesOK, NoRow
<1>5. ASSUME NEW v \in Views PROVE ViewOK(v)
  <2>1. Of(v) = {} /\ page[v] = "loading"
    BY <1>2 DEF StarInit, Of
  <2> QED BY <2>1 DEF ViewOK, Apart, Knows, Shows, Toggling, Reads
<1> QED BY <1>3, <1>4, <1>5 DEF StarInv

-----------------------------------------------------------------------------
(***************************************************************************)
(* A step of one request, of one view.                                     *)
(***************************************************************************)
\* The requests of the other views are left alone, and so are these views, unless
\* they are overtaken.
Own(v) ==
  /\ \A q \in Clicks : \/ click'[q] = click[q]
                       \/ /\ click[q].at = "idle" \/ click[q].view = v
                          /\ click'[q].at = "idle" \/ click'[q].view = v
  /\ \A w \in Views \ {v} : w \notin unsure' =>
       w \notin unsure /\ row' = row /\ star'[w] = star[w] /\ page'[w] = page[w]

\* What holds of the other views still holds.
LEMMA OthersKeep ==
  ASSUME StarInv, NEW v \in Views, Own(v), StarTypeOK', SuccessFlipsOnce', DeletesOK',
         v \notin unsure' => ViewOK(v)'
  PROVE  StarInv'
<1>1. ASSUME NEW w \in Views, w # v, w \notin unsure' PROVE ViewOK(w)'
  <2>1. /\ Of(w)' = Of(w) /\ \A q \in Of(w) : click'[q] = click[q]
        /\ star'[w] = star[w] /\ page'[w] = page[w] /\ row' = row
    BY <1>1 DEF Own, Of
  <2>2. Toggling(w)' = Toggling(w) /\ SentToggles(w)' = SentToggles(w) /\ Reads(w)' = Reads(w)
    BY <2>1 DEF Toggling, SentToggles, Reads
  <2>3. ViewOK(w)
    BY <1>1 DEF Own, StarInv
  <2>4. Apart(w)'
    BY <2>1, <2>2, <2>3 DEF ViewOK, Apart, Toggling, Reads
  <2>5. Knows(w)'
    BY <2>1, <2>2, <2>3 DEF ViewOK, Knows, Toggling, SentToggles, Reads, IsFavorite
  <2>6. Shows(w)'
    BY <2>1, <2>2, <2>3 DEF ViewOK, Shows, Reads, IsFavorite
  <2> QED BY <2>4, <2>5, <2>6 DEF ViewOK
<1> QED BY <1>1 DEF StarInv

\* One slot is written.
LEMMA Slot ==
  ASSUME StarTypeOK, NEW k \in Clicks, NEW q \in ClickRec, click' = [click EXCEPT ![k] = q]
  PROVE  /\ click' \in [Clicks -> ClickRec] /\ click'[k] = q
         /\ \A j \in Clicks \ {k} : click'[j] = click[j]
BY DEF StarTypeOK

\* A request is answered, or gives up.
LEMMA Ends ==
  ASSUME StarTypeOK, NEW k \in Clicks, click' = [click EXCEPT ![k] = NoClick]
  PROVE  /\ click' \in [Clicks -> ClickRec] /\ click'[k].at = "idle"
         /\ \A j \in Clicks \ {k} : click'[j] = click[j]
BY IdleSlot, Slot

\* A request goes on to its next await.
LEMMA GoesOn ==
  ASSUME StarTypeOK, NEW k \in Clicks, NEW p, ClickTo(k, p),
         p \in {"read", "failed", "unread", "find"}
  PROVE  /\ click' \in [Clicks -> ClickRec] /\ click'[k].at = p
         /\ click'[k].view = click[k].view /\ click'[k].id = click[k].id
         /\ click'[k].is = click[k].is /\ click'[k].was = click[k].was
         /\ click'[k].old = click[k].old
         /\ \A j \in Clicks \ {k} : click'[j] = click[j]
<1> DEFINE q == [click[k] EXCEPT !.at = p]
<1>1. /\ q \in ClickRec /\ q.at = p /\ q.view = click[k].view /\ q.id = click[k].id
      /\ q.is = click[k].is /\ q.was = click[k].was /\ q.old = click[k].old
  BY DEF StarTypeOK, ClickRec
<1>2. click' = [click EXCEPT ![k] = q]
  BY DEF ClickTo
<1> HIDE DEF q
<1> QED BY <1>1, <1>2, Slot

\* Where a request belongs.
Place(k, v) ==
  /\ k \in Of(v) <=> click[k].at # "idle" /\ click[k].view = v
  /\ k \in Toggling(v) <=> k \in Of(v) /\ click[k].at \in TogglesAt
  /\ k \in SentToggles(v) <=> k \in Of(v) /\ click[k].at \in SentAt
  /\ k \in Reads(v) <=> k \in Of(v) /\ click[k].at \in ReadsAt

\* The requests of a view, before and after a step of one of them.
Kept(j, v) ==
  /\ j \in Of(v)' <=> j \in Of(v)
  /\ j \in Toggling(v)' <=> j \in Toggling(v)
  /\ j \in SentToggles(v)' <=> j \in SentToggles(v)
  /\ j \in Reads(v)' <=> j \in Reads(v)
  /\ j \in Of(v) => click'[j] = click[j]

Nested(v) == SentToggles(v) \subseteq Toggling(v) /\ Toggling(v) \subseteq Of(v) /\ Reads(v) \subseteq Of(v)

Sets(k, v) ==
  /\ Place(k, v) /\ Place(k, v)' /\ Nested(v) /\ Nested(v)'
  /\ \A j : j # k => Kept(j, v)

\* A step of a request leaves the others where they are.
LEMMA Places ==
  ASSUME NEW k \in Clicks, NEW v \in Views, \A j \in Clicks \ {k} : click'[j] = click[j]
  PROVE  Sets(k, v)
<1>1. Place(k, v) /\ Place(k, v)'
  BY DEF Place, Of, Toggling, SentToggles, Reads, ReadsAt
<1>2. ASSUME NEW j, j # k
      PROVE  /\ j \in Of(v)' <=> j \in Of(v)
             /\ j \in Of(v) => click'[j] = click[j]
  BY <1>2 DEF Of
<1>3. ASSUME NEW j, j # k PROVE Kept(j, v)
  BY <1>2, <1>3 DEF Toggling, SentToggles, Reads, Kept
<1>4. Nested(v)
  BY DEF SentToggles, Toggling, Reads, SentAt, Nested
<1>5. Nested(v)'
  BY DEF SentToggles, Toggling, Reads, SentAt, Nested
<1> QED BY <1>1, <1>3, <1>4, <1>5 DEF Sets

-----------------------------------------------------------------------------
(***************************************************************************)
(* The steps.                                                              *)
(***************************************************************************)
\* The view of a request that is out.
LEMMA ViewOf ==
  ASSUME StarInv, NEW k \in Clicks PROVE click[k].view \in Views
BY DEF StarInv, StarTypeOK, ClickRec

\* The request leaves a view that is overtaken by this.
LEMMA Overtakes ==
  ASSUME StarInv, NEW k \in Clicks, NEW v \in Views, v = click[k].view,
         \A j \in Clicks \ {k} : click'[j] = click[j],
         click'[k].at = "idle" \/ click'[k].view = v,
         click'[k].at # "delete", UNCHANGED <<row, flips>>,
         unsure' = unsure \cup {v}, StarTypeOK',
         \A w \in Views \ {v} : star'[w] = star[w] /\ page'[w] = page[w]
  PROVE  StarInv'
<1>1. Own(v)
  BY DEF Own
<1>2. SuccessFlipsOnce' /\ DeletesOK'
  BY DEF StarInv, SuccessFlipsOnce, DeletesOK
<1> QED BY <1>1, <1>2, OthersKeep

\* A RomHero has its token.
LEMMA RefreshHeroKeeps == ASSUME StarInv, NEW k \in Clicks, RefreshHero(k) PROVE StarInv'
<1>1. PICK v \in Views : v = click[k].view
  BY ViewOf
<1>2. StarTypeOK /\ click[k].at = "ask" /\ UNCHANGED <<row, lastRow, page, star, flips>>
  BY DEF StarInv, RefreshHero
<1>3. CASE ClickTo(k, "read") /\ UNCHANGED unsure
  <2>1. /\ click' \in [Clicks -> ClickRec] /\ click'[k].at = "read"
        /\ click'[k].view = v /\ click'[k].old = click[k].old
        /\ \A j \in Clicks \ {k} : click'[j] = click[j]
    BY <1>1, <1>2, <1>3, GoesOn
  <2>2. StarTypeOK' /\ SuccessFlipsOnce' /\ Own(v) /\ DeletesOK'
    BY <1>1, <1>2, <1>3, <2>1 DEF StarTypeOK, StarInv, SuccessFlipsOnce, Own, DeletesOK
  <2>3. ASSUME v \notin unsure PROVE ViewOK(v)'
    <3>1. ViewOK(v)
      BY <2>3 DEF StarInv
    <3>2. Sets(k, v)
      BY <2>1, Places
    <3>3. Apart(v)'
      BY <1>1, <1>2, <2>1, <3>1, <3>2 DEF ViewOK, Apart, Sets, Kept, Nested, Place, TogglesAt, ReadsAt
    <3>4. Knows(v)'
      BY <1>1, <1>2, <2>1, <3>1, <3>2
      DEF ViewOK, Knows, IsFavorite, Sets, Kept, Nested, Place, TogglesAt, SentAt, ReadsAt
    <3>5. Shows(v)'
      BY <1>1, <1>2, <2>1, <3>1, <3>2
      DEF ViewOK, Shows, Knows, IsFavorite, Sets, Kept, Nested, Place, SentAt, ReadsAt
    <3> QED BY <3>3, <3>4, <3>5 DEF ViewOK
  <2> QED BY <1>3, <2>2, <2>3, OthersKeep
<1>4. CASE click' = [click EXCEPT ![k] = NoClick] /\ unsure' = unsure \cup {v}
  <2>1. /\ click' \in [Clicks -> ClickRec] /\ click'[k].at = "idle"
        /\ \A j \in Clicks \ {k} : click'[j] = click[j]
    BY <1>2, <1>4, Ends
  <2>2. StarTypeOK'
    BY <1>2, <1>4, <2>1 DEF StarTypeOK
  <2> QED BY <1>1, <1>2, <1>4, <2>1, <2>2, Overtakes
<1> QED BY <1>1, <1>3, <1>4 DEF RefreshHero

\* A request begins.
LEMMA Begins ==
  ASSUME StarTypeOK, NEW k \in Clicks, NEW v \in Views, NEW at \in {"token", "find", "read"},
         Begin(k, v, at)
  PROVE  /\ click' \in [Clicks -> ClickRec] /\ click'[k].at = at /\ click'[k].view = v
         /\ click'[k].was = (v \in Heroes /\ star[v]) /\ click'[k].old = (v \in Heroes /\ Reads(v) # {})
         /\ \A j \in Clicks \ {k} : click'[j] = click[j]
<1>1. NoClick \in ClickRec
  BY IdleSlot
<1> DEFINE was == v \in Heroes /\ star[v]
           old == v \in Heroes /\ Reads(v) # {}
           q == [NoClick EXCEPT !.view = v, !.at = at, !.was = was, !.old = old]
<1>2. was \in BOOLEAN /\ old \in BOOLEAN
  BY DEF StarTypeOK
<1>3. click' = [click EXCEPT ![k] = q]
  BY DEF Begin
<1> HIDE DEF was, old
<1>4. q \in ClickRec /\ q.at = at /\ q.view = v /\ q.was = was /\ q.old = old
  BY <1>1, <1>2 DEF ClickRec
<1> HIDE DEF q
<1> QED BY <1>3, <1>4, Slot DEF was, old

\* The star is clicked: alone, or beside the refresh of a RomHero.
LEMMA ClickKeeps ==
  ASSUME StarInv, NEW k \in Clicks, NEW v \in Views, NEW at \in {"token", "find"}, Click(k, v, at),
         v \in Heroes => at = "token"
  PROVE  StarInv'
<1>1. /\ StarTypeOK /\ click[k].at = "idle" /\ page[v] = "ready"
      /\ UNCHANGED <<row, lastRow, star, flips, page>> /\ Begin(k, v, at)
  BY DEF StarInv, Click, Begin
<1>2. /\ click' \in [Clicks -> ClickRec] /\ click'[k].at = at /\ click'[k].view = v
      /\ click'[k].was = (v \in Heroes /\ star[v]) /\ click'[k].old = (v \in Heroes /\ Reads(v) # {})
      /\ \A j \in Clicks \ {k} : click'[j] = click[j]
  BY <1>1, Begins
<1>3. StarTypeOK' /\ unsure \subseteq unsure'
  BY <1>1, <1>2 DEF StarTypeOK, Click
<1>4. SuccessFlipsOnce' /\ Own(v) /\ DeletesOK'
  BY <1>1, <1>2, <1>3 DEF StarInv, SuccessFlipsOnce, Own, DeletesOK
<1>5. ASSUME v \notin unsure' PROVE ViewOK(v)'
  <2>1. ViewOK(v) /\ Sets(k, v)
    BY <1>2, <1>3, <1>5, Places DEF StarInv
  <2>2. \A j \in Of(v) : v \in Heroes /\ click[j].at \in {"read", "shown"}
    BY <1>5 DEF Click, Overlaps
  <2>3. /\ k \notin Of(v) /\ k \in Of(v)' /\ k \in Toggling(v)' /\ k \notin Reads(v)'
        /\ Toggling(v) = {} /\ SentToggles(v) = {}
    BY <1>1, <1>2, <2>1, <2>2 DEF Sets, Place, Nested, TogglesAt, SentAt, ReadsAt, Toggling, SentToggles
  <2>4. v \notin Heroes => Of(v) = {}
    BY <2>2
  <2>5. Reads(v) = {} => star[v] = IsFavorite
    BY <1>1, <2>1, <2>3 DEF ViewOK, Shows
  <2>6. Apart(v)'
    BY <1>1, <1>2, <2>1, <2>2, <2>3 DEF ViewOK, Apart, Sets, Kept, Nested, TogglesAt
  <2>7. Knows(v)'
    <3>1. \A j \in Of(v)' : v \notin Heroes \/ click'[j].at = "ask" => ~click'[j].old
      BY <1>2, <2>1, <2>2 DEF ViewOK, Knows, Sets, Kept
    <3>2. \A j \in Of(v)' : click'[j].at = "flipped" => click'[j].is = IsFavorite
      BY <1>1, <1>2, <2>1 DEF ViewOK, Knows, Sets, Kept, IsFavorite
    <3>3. \A j \in Toggling(v)' : click'[j].at # "flipped" /\ ~click'[j].old =>
            IF v \in Heroes THEN click'[j].was = IsFavorite ELSE star[v] = IsFavorite
      <4>1. \A j \in Toggling(v)' : j = k
        BY <2>1, <2>3 DEF Sets, Kept
      <4>2. ~click'[k].old => star[v] = IsFavorite
        BY <1>2, <2>1, <2>4, <2>5 DEF Sets, Nested
      <4>3. ~click'[k].old /\ v \in Heroes => click'[k].was = IsFavorite
        BY <1>1, <1>2, <4>2 DEF StarTypeOK
      <4> QED BY <4>1, <4>2, <4>3
    <3>4. \A j \in Of(v)' : click'[j].at = "shown" /\ ~click'[j].old => click'[j].is = IsFavorite
      BY <1>2, <2>1 DEF ViewOK, Knows, Sets, Kept
    <3>5. SentToggles(v)' = {} \/ v \notin Heroes
      BY <1>2, <2>1, <2>3 DEF Sets, Kept, Place, SentAt
    <3>6. v \notin Heroes => Reads(v)' = {}
      BY <2>1, <2>3, <2>4 DEF Sets, Kept, Nested
    <3> QED BY <1>1, <3>1, <3>2, <3>3, <3>4, <3>5, <3>6 DEF Knows, IsFavorite
  <2>8. Shows(v)'
    <3>1. \A j \in Reads(v)' : j \in Reads(v) /\ click'[j] = click[j]
      BY <2>1, <2>3 DEF Sets, Kept, Nested
    <3>2. Reads(v)' = {} => Reads(v) = {}
      BY <2>1, <2>3 DEF Sets, Kept, Nested
    <3> QED BY <1>1, <2>1, <2>3, <2>5, <3>1, <3>2 DEF ViewOK, Shows, IsFavorite
  <2> QED BY <2>6, <2>7, <2>8 DEF ViewOK
<1> QED BY <1>3, <1>4, <1>5, OthersKeep

\* A page or a card is loaded.
LEMMA LoadStarKeeps ==
  ASSUME StarInv, NEW k \in Clicks, NEW v \in Views, LoadStar(k, v) PROVE StarInv'
<1>1. /\ StarTypeOK /\ click[k].at = "idle" /\ v \notin Heroes /\ Begin(k, v, "read")
      /\ UNCHANGED <<row, lastRow, star, flips>>
  BY DEF StarInv, LoadStar, Begin
<1>2. /\ click' \in [Clicks -> ClickRec] /\ click'[k].at = "read" /\ click'[k].view = v
      /\ click'[k].old = (v \in Heroes /\ Reads(v) # {})
      /\ \A j \in Clicks \ {k} : click'[j] = click[j]
  BY <1>1, Begins
<1>3. PICK now \in {page[v], "loading"} : page' = [page EXCEPT ![v] = now]
  BY DEF LoadStar
<1>4. now \in {"loading", "ready", "error"}
  BY <1>1 DEF StarTypeOK
<1>5. /\ page' \in [Views -> {"loading", "ready", "error"}]
      /\ \A w \in Views \ {v} : page'[w] = page[w]
  BY <1>1, <1>3, <1>4 DEF StarTypeOK
<1>6. unsure' \subseteq Views /\ \A w \in Views \ {v} : w \in unsure' <=> w \in unsure
  BY <1>1 DEF LoadStar, StarTypeOK
<1>7. StarTypeOK' /\ SuccessFlipsOnce' /\ Own(v) /\ DeletesOK'
  BY <1>1, <1>2, <1>5, <1>6 DEF StarTypeOK, StarInv, SuccessFlipsOnce, Own, DeletesOK
<1>8. ASSUME v \notin unsure' PROVE ViewOK(v)'
  <2>1. Of(v) = {} /\ Sets(k, v)
    BY <1>2, <1>8, Places DEF LoadStar
  <2>2. /\ Of(v)' = {k} /\ Toggling(v)' = {} /\ SentToggles(v)' = {} /\ Reads(v)' = {k}
    BY <1>2, <2>1 DEF Sets, Kept, Nested, Place, TogglesAt, SentAt, ReadsAt
  <2> QED BY <1>1, <1>2, <2>2 DEF ViewOK, Apart, Knows, Shows, TogglesAt
<1> QED BY <1>7, <1>8, OthersKeep

\* A RomHero is rendered.
LEMMA MountHeroKeeps ==
  ASSUME StarInv, NEW k \in Clicks, NEW v \in Views, MountHero(k, v) PROVE StarInv'
<1> DEFINE q == [NoClick EXCEPT !.view = v, !.at = "ask"]
<1>1. /\ StarTypeOK /\ click[k].at = "idle" /\ v \in Heroes /\ Of(v) = {}
      /\ click' = [click EXCEPT ![k] = q]
      /\ page' = [page EXCEPT ![v] = "ready"] /\ unsure' = unsure \ {v}
      /\ UNCHANGED <<row, lastRow, flips>>
  BY DEF StarInv, MountHero
<1>2. q \in ClickRec /\ q.at = "ask" /\ q.view = v /\ ~q.old
  <2>1. NoClick \in ClickRec /\ ~NoClick.old
    BY IdleSlot
  <2> QED BY <2>1 DEF ClickRec
<1> HIDE DEF q
<1>3. /\ click' \in [Clicks -> ClickRec] /\ click'[k] = q
      /\ \A j \in Clicks \ {k} : click'[j] = click[j]
  BY <1>1, <1>2, Slot
<1>4. PICK is \in BOOLEAN : star' = [star EXCEPT ![v] = is]
  BY DEF MountHero
<1>5. /\ page' \in [Views -> {"loading", "ready", "error"}] /\ page'[v] = "ready"
      /\ star' \in [Views -> BOOLEAN]
      /\ \A w \in Views \ {v} : page'[w] = page[w] /\ star'[w] = star[w]
  BY <1>1, <1>4 DEF StarTypeOK
<1>6. StarTypeOK' /\ SuccessFlipsOnce' /\ Own(v) /\ DeletesOK'
  BY <1>1, <1>2, <1>3, <1>5 DEF StarTypeOK, StarInv, SuccessFlipsOnce, Own, DeletesOK
<1>7. Sets(k, v)
  BY <1>3, Places
<1>8. Of(v)' = {k} /\ Toggling(v)' = {} /\ SentToggles(v)' = {} /\ Reads(v)' = {k}
  BY <1>1, <1>2, <1>3, <1>7 DEF Sets, Kept, Nested, Place, TogglesAt, SentAt, ReadsAt
<1>9. ViewOK(v)'
  BY <1>1, <1>2, <1>3, <1>5, <1>8 DEF ViewOK, Apart, Knows, Shows, TogglesAt
<1> QED BY <1>6, <1>9, OthersKeep

\* The toggle has its token, and the answer of a refresh is no longer wanted; or it
\* has none, and gives up.
LEMMA TokenArrivesKeeps == ASSUME StarInv, NEW k \in Clicks, TokenArrives(k) PROVE StarInv'
<1>1. PICK v \in Views : v = click[k].view
  BY ViewOf
<1>2. StarTypeOK /\ click[k].at = "token" /\ UNCHANGED <<row, lastRow, page, star, flips, unsure>>
  BY DEF StarInv, TokenArrives
<1>3. k \in Of(v) /\ k \in Toggling(v) /\ k \notin SentToggles(v) /\ k \notin Reads(v)
  BY <1>1, <1>2 DEF Of, Toggling, SentToggles, Reads, TogglesAt, SentAt
<1>4. CASE click' = [click EXCEPT ![k] = NoClick]
  <2>1. /\ click' \in [Clicks -> ClickRec] /\ click'[k].at = "idle"
        /\ \A j \in Clicks \ {k} : click'[j] = click[j]
    BY <1>2, <1>4, Ends
  <2>2. StarTypeOK' /\ SuccessFlipsOnce' /\ Own(v) /\ DeletesOK'
    BY <1>1, <1>2, <2>1 DEF StarTypeOK, StarInv, SuccessFlipsOnce, Own, DeletesOK
  <2>3. ASSUME v \notin unsure PROVE ViewOK(v)'
    <3>1. ViewOK(v) /\ Sets(k, v)
      BY <2>1, <2>3, Places DEF StarInv
    <3>2. k \notin Of(v)' /\ SentToggles(v)' = SentToggles(v) /\ Reads(v)' = Reads(v)
      BY <1>3, <2>1, <3>1 DEF Sets, Kept, Nested, Place
    <3>3. Apart(v)' /\ Knows(v)'
      BY <1>2, <2>1, <3>1, <3>2 DEF ViewOK, Apart, Knows, Sets, Kept, Nested, IsFavorite
    <3>4. Shows(v)'
      BY <1>2, <3>1, <3>2 DEF ViewOK, Shows, Sets, Kept, Nested, IsFavorite
    <3> QED BY <3>3, <3>4 DEF ViewOK
  <2> QED BY <1>2, <2>2, <2>3, OthersKeep
<1>5. CASE click' = [q \in Clicks |->
                       IF q = k THEN [click[q] EXCEPT !.at = "find"]
                       ELSE [click[q] EXCEPT !.old = click[q].old \/
                              (v \in Heroes /\ q \in Reads(v) /\ click[q].at # "ask")]]
  <2>1. /\ click'[k] \in ClickRec /\ click'[k].at = "find" /\ click'[k].view = v
        /\ click'[k].was = click[k].was /\ click'[k].old = click[k].old
    BY <1>1, <1>2, <1>5 DEF StarTypeOK, ClickRec
  <2>2. ASSUME NEW j \in Clicks \ {k}
        PROVE  /\ click'[j] \in ClickRec /\ click'[j].at = click[j].at
               /\ click'[j].view = click[j].view /\ click'[j].is = click[j].is
               /\ click'[j].id = click[j].id /\ click'[j].was = click[j].was
               /\ click'[j].old = (click[j].old \/
                    (v \in Heroes /\ j \in Reads(v) /\ click[j].at # "ask"))
               /\ j \notin Reads(v) => click'[j] = click[j]
    <3> DEFINE old == click[j].old \/ (v \in Heroes /\ j \in Reads(v) /\ click[j].at # "ask")
               q == [click[j] EXCEPT !.old = old]
    <3>1. click'[j] = q
      BY <1>5
    <3>2. old \in BOOLEAN /\ click[j] \in ClickRec
      BY <1>2 DEF StarTypeOK, ClickRec
    <3>3. j \notin Reads(v) => old = click[j].old
      BY <3>2 DEF ClickRec
    <3> HIDE DEF old
    <3>4. /\ q \in ClickRec /\ q.at = click[j].at /\ q.view = click[j].view /\ q.is = click[j].is
          /\ q.id = click[j].id /\ q.was = click[j].was /\ q.old = old
      BY <3>2 DEF ClickRec
    <3>5. j \notin Reads(v) => q = click[j]
      BY <3>2, <3>3 DEF ClickRec
    <3> HIDE DEF q
    <3> QED BY <3>1, <3>4, <3>5 DEF old
  <2>3. StarTypeOK' /\ SuccessFlipsOnce' /\ DeletesOK'
    <3>1. click' \in [Clicks -> ClickRec]
      BY <1>5, <2>1, <2>2
    <3> QED BY <1>2, <2>1, <2>2, <3>1 DEF StarTypeOK, StarInv, SuccessFlipsOnce, DeletesOK
  <2>4. Own(v)
    BY <1>1, <1>2, <2>1, <2>2 DEF Own, Reads, Of
  <2>5. ASSUME v \notin unsure PROVE ViewOK(v)'
    <3>1. Apart(v) /\ Knows(v)
      BY <2>5 DEF StarInv, ViewOK
    <3>2. Of(v)' = Of(v)
      BY <1>1, <1>2, <2>1, <2>2 DEF Of
    <3>3. Toggling(v)' = Toggling(v) /\ Reads(v)' = Reads(v)
      BY <1>2, <2>1, <2>2, <3>2 DEF Toggling, Reads, TogglesAt, Of
    <3>4. Toggling(v) = {k} /\ SentToggles(v)' = {k} /\ Of(v) \subseteq Clicks /\ Reads(v) \subseteq Of(v)
      <4>1. Toggling(v) = {k} /\ Of(v) \subseteq Clicks /\ Reads(v) \subseteq Of(v)
        BY <1>3, <3>1 DEF Apart, Of, Reads
      <4>2. k \in SentToggles(v)' /\ SentToggles(v)' \subseteq Toggling(v)'
        BY <1>3, <2>1, <3>2 DEF SentToggles, SentAt, Toggling, TogglesAt
      <4> QED BY <3>3, <4>1, <4>2
    <3>5. Apart(v)'
      <4>1. \A j \in Of(v) : click'[j].at = IF j = k THEN "find" ELSE click[j].at
        BY <2>1, <2>2, <3>4
      <4>2. \A j \in Of(v) : click'[j].at # "unread" /\
              (click'[j].at \in TogglesAt => click[j].at \in TogglesAt)
        BY <1>2, <3>1, <4>1 DEF Apart, TogglesAt
      <4>3. \A j \in Toggling(v), i \in Reads(v) : click'[i].at # "ask"
        BY <3>1, <3>4, <4>1 DEF Apart
      <4> QED BY <1>2, <3>1, <3>2, <3>3, <4>2, <4>3 DEF Apart
    <3>6. Knows(v)'
      <4>1. \A j \in Reads(v) : v \in Heroes /\ click[j].at # "ask" /\ j # k
        BY <1>3, <3>1 DEF Apart
      <4>2. \A j \in Of(v) : j # k => j \in Reads(v)
        BY <3>1, <3>4 DEF Apart, Of, Toggling, Reads, TogglesAt, ClickRec, StarTypeOK, StarInv
      <4>3. \A j \in Of(v) : v \notin Heroes \/ click'[j].at = "ask" => ~click'[j].old
        BY <1>2, <2>1, <2>2, <3>1, <3>4, <4>1, <4>2 DEF Knows
      <4>4. \A j \in Of(v) : click'[j].at = "flipped" => click'[j].is = IsFavorite
        BY <2>1, <2>2, <3>1, <3>4 DEF Knows
      <4>5. ~click'[k].old => IF v \in Heroes THEN click'[k].was = IsFavorite ELSE star[v] = IsFavorite
        BY <1>2, <1>3, <2>1, <3>1 DEF Knows
      <4>6. \A j \in Of(v) : click'[j].at = "shown" /\ ~click'[j].old => click'[j].is = IsFavorite
        <5>1. ASSUME NEW j \in Of(v), click'[j].at = "shown", ~click'[j].old
              PROVE  /\ click[j].at = "shown" /\ ~click[j].old
                     /\ click'[j].is = click[j].is
          <6>1. j # k /\ j \in Clicks
            BY <2>1, <3>4, <5>1
          <6> QED BY <2>2, <5>1, <6>1
        <5> QED BY <3>1, <5>1 DEF Knows
      <4>7. \A j \in Reads(v) : click'[j].old
        BY <2>2, <3>4, <4>1
      <4> QED BY <1>2, <3>2, <3>3, <3>4, <4>3, <4>4, <4>5, <4>6, <4>7 DEF Knows, IsFavorite
    <3>7. Shows(v)'
      BY <3>4 DEF Shows
    <3> QED BY <3>5, <3>6, <3>7 DEF ViewOK
  <2> QED BY <1>2, <2>3, <2>4, <2>5, OthersKeep
<1> QED BY <1>1, <1>4, <1>5 DEF TokenArrives

\* The row is looked up.
LEMMA FindRowKeeps == ASSUME StarInv, NEW k \in Clicks, FindRow(k) PROVE StarInv'
<1>1. PICK v \in Views : v = click[k].view
  BY ViewOf
<1>2. StarTypeOK /\ click[k].at = "find" /\ UNCHANGED <<row, lastRow, page, star, flips, unsure>>
  BY DEF StarInv, FindRow
<1> DEFINE at == IF row = NoRow THEN "create" ELSE "delete"
           q == [click[k] EXCEPT !.at = at, !.id = row]
<1>3. click' = [click EXCEPT ![k] = q]
  BY DEF FindRow
<1>4. /\ at \in {"create", "delete"} /\ (at = "delete" => row # NoRow)
      /\ row \in 0 .. MaxRows /\ click[k] \in ClickRec
  BY <1>2 DEF StarTypeOK
<1> HIDE DEF at
<1>5. /\ q \in ClickRec /\ q.at = at /\ q.id = row /\ q.view = v
      /\ q.was = click[k].was /\ q.old = click[k].old
  BY <1>1, <1>4 DEF ClickRec
<1> HIDE DEF q
<1>6. /\ click' \in [Clicks -> ClickRec] /\ click'[k] = q
      /\ \A j \in Clicks \ {k} : click'[j] = click[j]
  BY <1>2, <1>3, <1>5, Slot
<1>7. StarTypeOK' /\ SuccessFlipsOnce' /\ Own(v) /\ DeletesOK'
  BY <1>1, <1>2, <1>4, <1>5, <1>6 DEF StarTypeOK, StarInv, SuccessFlipsOnce, Own, DeletesOK
<1>8. ASSUME v \notin unsure PROVE ViewOK(v)'
  <2>1. ViewOK(v) /\ Sets(k, v)
    BY <1>6, <1>8, Places DEF StarInv
  <2>2. /\ Of(v)' = Of(v) /\ Toggling(v)' = Toggling(v) /\ SentToggles(v)' = SentToggles(v) /\ Reads(v)' = Reads(v)
        /\ k \in Toggling(v) /\ k \in SentToggles(v)
    BY <1>1, <1>2, <1>4, <1>5, <1>6, <2>1 DEF Sets, Kept, Place, TogglesAt, SentAt, ReadsAt
  <2>3. Apart(v)' /\ Knows(v)' /\ Shows(v)'
    BY <1>2, <1>4, <1>5, <1>6, <2>1, <2>2
    DEF ViewOK, Apart, Knows, Shows, Sets, Kept, Nested, TogglesAt, IsFavorite
  <2> QED BY <2>3 DEF ViewOK
<1> QED BY <1>2, <1>7, <1>8, OthersKeep

\* The toggle is carried out: what it answers is the star, and the other views are
\* overtaken.
LEMMA FlipKeeps ==
  ASSUME StarInv, NEW k \in Clicks, NEW is \in BOOLEAN, click[k].at \in {"delete", "create"},
         Flip(k, is), is = (row' # NoRow), (row' # NoRow) # (row # NoRow),
         UNCHANGED <<page, star>>, lastRow' \in 0 .. MaxRows, row' \in 0 .. lastRow'
  PROVE  StarInv'
<1>1. PICK v \in Views : v = click[k].view
  BY ViewOf
<1> DEFINE q == [click[k] EXCEPT !.at = "flipped", !.is = is]
<1>2. /\ StarTypeOK /\ click' = [click EXCEPT ![k] = q] /\ flips' = flips + 1 /\ flips < MaxFlips
      /\ unsure' = unsure \cup (Views \ {v})
  BY <1>1 DEF StarInv, Flip
<1>3. q \in ClickRec /\ q.at = "flipped" /\ q.is = is /\ q.view = v
  BY <1>1, <1>2 DEF StarTypeOK, ClickRec
<1> HIDE DEF q
<1>4. /\ click' \in [Clicks -> ClickRec] /\ click'[k] = q
      /\ \A j \in Clicks \ {k} : click'[j] = click[j]
  BY <1>2, <1>3, Slot
<1>5. StarTypeOK' /\ Own(v) /\ DeletesOK'
  BY <1>1, <1>2, <1>3, <1>4 DEF StarTypeOK, StarInv, Own, DeletesOK
<1>6. SuccessFlipsOnce'
  <2>1. flips \in Nat /\ (row # NoRow) = (flips % 2 = 1)
    BY <1>2 DEF StarInv, StarTypeOK, SuccessFlipsOnce
  <2>2. ((flips + 1) % 2 = 1) # (flips % 2 = 1)
    BY <2>1
  <2> QED BY <1>2, <2>1, <2>2 DEF SuccessFlipsOnce
<1>7. ASSUME v \notin unsure PROVE ViewOK(v)'
  <2>1. ViewOK(v) /\ Sets(k, v)
    BY <1>4, <1>7, Places DEF StarInv
  <2>2. /\ Of(v)' = Of(v) /\ Toggling(v)' = Toggling(v) /\ SentToggles(v)' = SentToggles(v) /\ Reads(v)' = Reads(v)
        /\ k \in Toggling(v) /\ k \in SentToggles(v)
    BY <1>1, <1>3, <1>4, <2>1 DEF Sets, Kept, Place, TogglesAt, SentAt, ReadsAt
  <2>3. Apart(v)' /\ Shows(v)'
    BY <1>3, <1>4, <2>1, <2>2 DEF ViewOK, Apart, Shows, Sets, Kept, Nested, TogglesAt
  <2>4. Knows(v)'
    <3>1. \A j \in Toggling(v) : j = k
      BY <2>1, <2>2 DEF ViewOK, Apart
    <3>2. \A j \in Of(v) : click[j].at = "flipped" => j = k
      BY <2>1, <3>1 DEF Toggling, TogglesAt
    <3>3. \A j \in Of(v) : click[j].at = "shown" => j \in Reads(v) /\ click[j].old
      BY <2>1, <2>2 DEF ViewOK, Knows, Reads
    <3>4. \A j \in Of(v) : j # k => click'[j] = click[j]
      BY <2>1 DEF Sets, Kept
    <3>5. /\ \A j \in Of(v) : click'[j].at = "flipped" => click'[j].is = (row' # NoRow)
          /\ \A j \in Of(v) : click'[j].at = "shown" => click'[j].old
          /\ \A j \in Toggling(v) : click'[j].at = "flipped"
      BY <1>3, <1>4, <3>1, <3>2, <3>3, <3>4
    <3>6. \A j \in Of(v) : v \notin Heroes \/ click'[j].at = "ask" => ~click'[j].old
      <4>1. v \notin Heroes => ~click[k].old
        BY <2>1, <2>2 DEF ViewOK, Knows, Sets, Nested
      <4>2. q.old = click[k].old
        BY <1>2 DEF StarTypeOK, ClickRec, q
      <4> QED BY <1>3, <1>4, <2>1, <3>4, <4>1, <4>2 DEF ViewOK, Knows
    <3>7. \A j \in Reads(v) : click'[j].old
      BY <1>3, <1>4, <2>1, <2>2, <3>4 DEF ViewOK, Knows, Sets, Nested, Place, ReadsAt
    <3> QED BY <2>2, <3>5, <3>6, <3>7 DEF Knows, IsFavorite
  <2> QED BY <2>3, <2>4 DEF ViewOK
<1> QED BY <1>2, <1>5, <1>6, <1>7, OthersKeep

\* The row is deleted by the id that was found, or created.
LEMMA DeleteRowKeeps == ASSUME StarInv, NEW k \in Clicks, DeleteRow(k) PROVE StarInv'
<1>1. /\ click[k].at = "delete" /\ row # NoRow /\ row' = NoRow /\ Flip(k, FALSE)
      /\ UNCHANGED <<lastRow, page, star>>
  BY DEF DeleteRow, StarInv, DeletesOK
<1>2. lastRow' \in 0 .. MaxRows /\ row' \in 0 .. lastRow'
  BY <1>1 DEF StarInv, StarTypeOK, NoRow
<1> QED BY <1>1, <1>2, FlipKeeps

\* And the one that is created.
LEMMA CreateRowKeeps == ASSUME StarInv, NEW k \in Clicks, CreateRow(k) PROVE StarInv'
<1>1. /\ click[k].at = "create" /\ row = NoRow /\ Flip(k, TRUE) /\ UNCHANGED <<page, star>>
      /\ row' = lastRow + 1 /\ lastRow' = lastRow + 1 /\ lastRow < MaxRows
  BY DEF CreateRow
<1>2. lastRow \in 0 .. MaxRows
  BY DEF StarInv, StarTypeOK
<1>3. row' # NoRow /\ lastRow' \in 0 .. MaxRows /\ row' \in 0 .. lastRow'
  BY <1>1, <1>2 DEF NoRow
<1> QED BY <1>1, <1>3, FlipKeeps

\* The toggle is refused, or fails.
LEMMA ToggleFailsKeeps ==
  ASSUME StarInv, NEW k \in Clicks, ToggleFails(k) \/ ToggleRefused(k) PROVE StarInv'
<1>1. PICK v \in Views : v = click[k].view
  BY ViewOf
<1>2. /\ StarTypeOK /\ click[k].at \in {"find", "delete", "create"} /\ ClickTo(k, "failed")
      /\ UNCHANGED <<row, lastRow, page, star, flips, unsure>>
  BY DEF StarInv, ToggleFails, ToggleRefused
<1>3. /\ click' \in [Clicks -> ClickRec] /\ click'[k].at = "failed"
      /\ click'[k].view = v /\ click'[k].was = click[k].was /\ click'[k].old = click[k].old
      /\ \A j \in Clicks \ {k} : click'[j] = click[j]
  BY <1>1, <1>2, GoesOn
<1>4. StarTypeOK' /\ SuccessFlipsOnce' /\ Own(v) /\ DeletesOK'
  BY <1>1, <1>2, <1>3 DEF StarTypeOK, StarInv, SuccessFlipsOnce, Own, DeletesOK
<1>5. ASSUME v \notin unsure PROVE ViewOK(v)'
  <2>1. ViewOK(v) /\ Sets(k, v)
    BY <1>3, <1>5, Places DEF StarInv
  <2>2. /\ Of(v)' = Of(v) /\ Toggling(v)' = Toggling(v) /\ SentToggles(v)' = SentToggles(v) /\ Reads(v)' = Reads(v)
        /\ k \in Toggling(v) /\ k \in SentToggles(v)
    BY <1>1, <1>2, <1>3, <2>1 DEF Sets, Kept, Place, TogglesAt, SentAt, ReadsAt
  <2>3. Apart(v)' /\ Knows(v)' /\ Shows(v)'
    BY <1>2, <1>3, <2>1, <2>2
    DEF ViewOK, Apart, Knows, Shows, Sets, Kept, Nested, TogglesAt, IsFavorite
  <2> QED BY <2>3 DEF ViewOK
<1> QED BY <1>2, <1>4, <1>5, OthersKeep

\* The star is read.
LEMMA ReadStarKeeps == ASSUME StarInv, NEW k \in Clicks, ReadStar(k) PROVE StarInv'
<1>1. PICK v \in Views : v = click[k].view
  BY ViewOf
<1> DEFINE q == [click[k] EXCEPT !.at = "shown", !.is = IsFavorite]
<1>2. /\ StarTypeOK /\ click[k].at = "read" /\ click' = [click EXCEPT ![k] = q]
      /\ UNCHANGED <<row, lastRow, page, star, flips, unsure>>
  BY DEF StarInv, ReadStar
<1>3. /\ q \in ClickRec /\ q.at = "shown" /\ q.is = IsFavorite /\ q.view = v /\ q.old = click[k].old
  BY <1>1, <1>2 DEF StarTypeOK, ClickRec, IsFavorite
<1> HIDE DEF q
<1>4. /\ click' \in [Clicks -> ClickRec] /\ click'[k] = q
      /\ \A j \in Clicks \ {k} : click'[j] = click[j]
  BY <1>2, <1>3, Slot
<1>5. StarTypeOK' /\ SuccessFlipsOnce' /\ Own(v) /\ DeletesOK'
  BY <1>1, <1>2, <1>3, <1>4 DEF StarTypeOK, StarInv, SuccessFlipsOnce, Own, DeletesOK
<1>6. ASSUME v \notin unsure PROVE ViewOK(v)'
  <2>1. ViewOK(v) /\ Sets(k, v)
    BY <1>4, <1>6, Places DEF StarInv
  <2>2. /\ Of(v)' = Of(v) /\ Toggling(v)' = Toggling(v) /\ SentToggles(v)' = SentToggles(v) /\ Reads(v)' = Reads(v)
        /\ k \in Reads(v) /\ k \notin Toggling(v)
    BY <1>1, <1>2, <1>3, <1>4, <2>1 DEF Sets, Kept, Place, TogglesAt, SentAt, ReadsAt
  <2>3. Apart(v)' /\ Knows(v)' /\ Shows(v)'
    BY <1>2, <1>3, <1>4, <2>1, <2>2
    DEF ViewOK, Apart, Knows, Shows, Sets, Kept, Nested, TogglesAt, IsFavorite
  <2> QED BY <2>3 DEF ViewOK
<1> QED BY <1>2, <1>5, <1>6, OthersKeep

\* The ROM is answered as to a stranger, or not at all.
LEMMA BadReadKeeps ==
  ASSUME StarInv, NEW k \in Clicks, ReadAnonymously(k) \/ ReadFails(k) PROVE StarInv'
<1>1. PICK v \in Views : v = click[k].view
  BY ViewOf
<1>2. StarTypeOK /\ UNCHANGED <<row, lastRow, page, star, flips>> /\ unsure' = unsure \cup {v}
  BY <1>1 DEF StarInv, ReadAnonymously, ReadFails
<1>3. /\ click' \in [Clicks -> ClickRec] /\ click'[k].view = v /\ click'[k].at # "delete"
      /\ \A j \in Clicks \ {k} : click'[j] = click[j]
  <2>1. CASE ReadFails(k)
    BY <1>1, <1>2, <2>1, GoesOn DEF ReadFails
  <2>2. CASE ReadAnonymously(k)
    <3> DEFINE q == [click[k] EXCEPT !.at = "shown", !.is = FALSE]
    <3>1. q \in ClickRec /\ q.at = "shown" /\ q.view = v
      BY <1>1, <1>2 DEF StarTypeOK, ClickRec
    <3>2. click' = [click EXCEPT ![k] = q]
      BY <2>2 DEF ReadAnonymously
    <3> HIDE DEF q
    <3> QED BY <1>2, <3>1, <3>2, Slot
  <2> QED BY <2>1, <2>2
<1>4. StarTypeOK'
  BY <1>2, <1>3 DEF StarTypeOK
<1> QED BY <1>1, <1>2, <1>3, <1>4, Overtakes

\* A view shows the error of a load.
LEMMA ShowUnreadKeeps == ASSUME StarInv, NEW k \in Clicks, ShowUnread(k) PROVE StarInv'
<1>1. PICK v \in Views : v = click[k].view
  BY ViewOf
<1>2. /\ StarTypeOK /\ UNCHANGED <<row, lastRow, star, flips>> /\ unsure' = unsure \cup {v}
      /\ click' = [click EXCEPT ![k] = NoClick]
      /\ page' = IF page[v] = "loading" THEN [page EXCEPT ![v] = "error"] ELSE page
  BY <1>1 DEF StarInv, ShowUnread
<1>3. /\ click' \in [Clicks -> ClickRec] /\ click'[k].at = "idle"
      /\ \A j \in Clicks \ {k} : click'[j] = click[j]
  BY <1>2, Ends
<1>4. StarTypeOK' /\ \A w \in Views \ {v} : page'[w] = page[w]
  BY <1>2, <1>3 DEF StarTypeOK
<1> QED BY <1>1, <1>2, <1>3, <1>4, Overtakes

\* The view shows what its toggle was answered.
LEMMA ShowToggledKeeps == ASSUME StarInv, NEW k \in Clicks, ShowToggled(k) PROVE StarInv'
<1>1. PICK v \in Views : v = click[k].view
  BY ViewOf
<1>2. /\ StarTypeOK /\ UNCHANGED <<row, lastRow, page, flips, unsure>> /\ click[k].at = "flipped"
      /\ click' = [click EXCEPT ![k] = NoClick] /\ click[k].is \in BOOLEAN
      /\ star' = IF page[v] = "ready" THEN [star EXCEPT ![v] = click[k].is] ELSE star
  BY <1>1 DEF StarInv, ShowToggled, StarTypeOK, ClickRec
<1>3. /\ click' \in [Clicks -> ClickRec] /\ click'[k].at = "idle"
      /\ \A j \in Clicks \ {k} : click'[j] = click[j]
  BY <1>2, Ends
<1>4. /\ star' \in [Views -> BOOLEAN] /\ \A w \in Views \ {v} : star'[w] = star[w]
      /\ page[v] = "ready" => star'[v] = click[k].is
  BY <1>2 DEF StarTypeOK
<1>5. StarTypeOK' /\ SuccessFlipsOnce' /\ Own(v) /\ DeletesOK'
  BY <1>1, <1>2, <1>3, <1>4 DEF StarTypeOK, StarInv, SuccessFlipsOnce, Own, DeletesOK
<1>6. ASSUME v \notin unsure PROVE ViewOK(v)'
  <2>1. ViewOK(v) /\ Sets(k, v)
    BY <1>3, <1>6, Places DEF StarInv
  <2>2. k \in Of(v) /\ k \in Toggling(v) /\ k \notin Of(v)' /\ \A j \in Toggling(v) : j = k
    BY <1>1, <1>2, <1>3, <2>1 DEF Sets, Place, TogglesAt, ViewOK, Apart
  <2>3. star'[v] = IsFavorite
    BY <1>2, <1>4, <2>1, <2>2 DEF ViewOK, Apart, Knows, TogglesAt
  <2>4. Toggling(v)' = {} /\ SentToggles(v)' = {}
    BY <2>1, <2>2 DEF Sets, Kept, Nested
  <2>5. Apart(v)' /\ Knows(v)' /\ Shows(v)'
    BY <1>2, <2>1, <2>2, <2>3, <2>4
    DEF ViewOK, Apart, Knows, Shows, Sets, Kept, Nested, IsFavorite
  <2> QED BY <2>5 DEF ViewOK
<1> QED BY <1>2, <1>5, <1>6, OthersKeep

\* The view shows what was read, unless a toggle came between.
LEMMA ShowStarKeeps == ASSUME StarInv, NEW k \in Clicks, ShowStar(k) PROVE StarInv'
<1>1. PICK v \in Views : v = click[k].view
  BY ViewOf
<1>2. /\ StarTypeOK /\ UNCHANGED <<row, lastRow, flips, unsure>> /\ click[k].at = "shown"
      /\ click' = [click EXCEPT ![k] = NoClick] /\ click[k].is \in BOOLEAN
      /\ star' = IF v \in Heroes /\ click[k].old THEN star ELSE [star EXCEPT ![v] = click[k].is]
      /\ page' = [page EXCEPT ![v] = "ready"]
  BY <1>1 DEF StarInv, ShowStar, StarTypeOK, ClickRec
<1>3. /\ click' \in [Clicks -> ClickRec] /\ click'[k].at = "idle"
      /\ \A j \in Clicks \ {k} : click'[j] = click[j]
  BY <1>2, Ends
<1>4. /\ star' \in [Views -> BOOLEAN] /\ \A w \in Views \ {v} : star'[w] = star[w]
      /\ star'[v] = IF v \in Heroes /\ click[k].old THEN star[v] ELSE click[k].is
      /\ page' \in [Views -> {"loading", "ready", "error"}] /\ page'[v] = "ready"
      /\ \A w \in Views \ {v} : page'[w] = page[w]
  BY <1>2 DEF StarTypeOK
<1>5. StarTypeOK' /\ SuccessFlipsOnce' /\ Own(v) /\ DeletesOK'
  BY <1>1, <1>2, <1>3, <1>4 DEF StarTypeOK, StarInv, SuccessFlipsOnce, Own, DeletesOK
<1>6. ASSUME v \notin unsure PROVE ViewOK(v)'
  <2>1. ViewOK(v) /\ Sets(k, v)
    BY <1>3, <1>6, Places DEF StarInv
  <2>2. /\ k \in Of(v) /\ k \in Reads(v) /\ k \notin Of(v)' /\ \A j \in Reads(v) : j = k
        /\ \A j \in Toggling(v) : v \in Heroes
        /\ k \notin Toggling(v)
    BY <1>1, <1>2, <1>3, <2>1 DEF Sets, Place, TogglesAt, ReadsAt, ViewOK, Apart
  <2>3. Reads(v)' = {} /\ SentToggles(v)' = SentToggles(v) /\ Toggling(v)' = Toggling(v)
    BY <2>1, <2>2 DEF Sets, Kept, Nested
  <2>4. SentToggles(v) = {} => star'[v] = IsFavorite
    BY <1>2, <1>4, <2>1, <2>2 DEF ViewOK, Knows, Shows
  <2>5. Apart(v)'
    BY <1>4, <2>1, <2>2, <2>3 DEF ViewOK, Apart, Sets, Kept, Nested
  <2>6. Knows(v)'
    BY <1>2, <2>1, <2>2, <2>3 DEF ViewOK, Knows, Sets, Kept, Nested, IsFavorite
  <2>7. Shows(v)'
    BY <1>2, <2>3, <2>4 DEF Shows, IsFavorite
  <2> QED BY <2>5, <2>6, <2>7 DEF ViewOK
<1> QED BY <1>2, <1>5, <1>6, OthersKeep

\* The view shows that its toggle failed; a RomHero puts its star back.
LEMMA ShowErrorKeeps == ASSUME StarInv, NEW k \in Clicks, ShowError(k) PROVE StarInv'
<1>1. PICK v \in Views : v = click[k].view
  BY ViewOf
<1>2. /\ StarTypeOK /\ UNCHANGED <<row, lastRow, page, flips>>
      /\ click' = [click EXCEPT ![k] = NoClick] /\ click[k].was \in BOOLEAN
      /\ click[k].at \in {"failed", "flipped"}
      /\ star' = IF v \in Heroes THEN [star EXCEPT ![v] = click[k].was] ELSE star
  BY <1>1 DEF StarInv, ShowError, Lost, StarTypeOK, ClickRec
<1>3. /\ click' \in [Clicks -> ClickRec] /\ click'[k].at = "idle"
      /\ \A j \in Clicks \ {k} : click'[j] = click[j]
  BY <1>2, Ends
<1>4. /\ star' \in [Views -> BOOLEAN] /\ \A w \in Views \ {v} : star'[w] = star[w]
      /\ star'[v] = IF v \in Heroes THEN click[k].was ELSE star[v]
  BY <1>2 DEF StarTypeOK
<1>5. CASE unsure' = unsure \cup {v}
  <2>1. StarTypeOK'
    BY <1>2, <1>3, <1>4, <1>5 DEF StarTypeOK
  <2> QED BY <1>1, <1>2, <1>3, <1>4, <1>5, <2>1, Overtakes
<1>6. CASE click[k].at = "failed" /\ ~click[k].old /\ UNCHANGED unsure
  <2>1. StarTypeOK' /\ SuccessFlipsOnce' /\ Own(v) /\ DeletesOK'
    BY <1>1, <1>2, <1>3, <1>4, <1>6 DEF StarTypeOK, StarInv, SuccessFlipsOnce, Own, DeletesOK
  <2>2. ASSUME v \notin unsure PROVE ViewOK(v)'
    <3>1. ViewOK(v) /\ Sets(k, v)
      BY <1>3, <2>2, Places DEF StarInv
    <3>2. k \in Of(v) /\ k \in Toggling(v) /\ k \notin Of(v)' /\ \A j \in Toggling(v) : j = k
      BY <1>1, <1>2, <1>3, <3>1 DEF Sets, Place, TogglesAt, ViewOK, Apart
    <3>3. star'[v] = IsFavorite
      BY <1>4, <1>6, <3>1, <3>2 DEF ViewOK, Knows
    <3>4. Toggling(v)' = {} /\ SentToggles(v)' = {}
      BY <3>1, <3>2 DEF Sets, Kept, Nested
    <3>5. Apart(v)' /\ Knows(v)' /\ Shows(v)'
      BY <1>2, <3>1, <3>2, <3>3, <3>4
      DEF ViewOK, Apart, Knows, Shows, Sets, Kept, Nested, IsFavorite
    <3> QED BY <3>5 DEF ViewOK
  <2> QED BY <1>6, <2>1, <2>2, OthersKeep
<1> QED BY <1>1, <1>2, <1>5, <1>6 DEF ShowError

\* Every step keeps the invariant.
LEMMA StarInvNext == StarInv /\ [StarNext]_starVars => StarInv'
<1> SUFFICES ASSUME StarInv, [StarNext]_starVars PROVE StarInv'
  OBVIOUS
<1>1. CASE UNCHANGED starVars
  <2>1. UNCHANGED <<row, lastRow, page, star, click, flips, unsure>>
    BY <1>1 DEF starVars
  <2>2. ASSUME NEW v \in Views \ unsure PROVE ViewOK(v)'
    BY <2>1 DEF StarInv, ViewOK, Apart, Knows, Shows, Toggling, SentToggles, Reads, Of, IsFavorite
  <2> QED BY <2>1, <2>2 DEF StarInv, StarTypeOK, SuccessFlipsOnce, DeletesOK
<1>2. ASSUME NEW k \in Clicks, NEW v \in Views,
             ClickStar(k, v) \/ ClickCard(k, v) \/ LoadStar(k, v) \/ MountHero(k, v)
      PROVE  StarInv'
  BY <1>2, ClickKeeps, LoadStarKeeps, MountHeroKeeps DEF ClickStar, ClickCard
<1>3. ASSUME NEW k \in Clicks,
             \/ TokenArrives(k) \/ FindRow(k) \/ DeleteRow(k) \/ CreateRow(k)
             \/ ToggleFails(k) \/ ToggleRefused(k) \/ ShowToggled(k) \/ ShowError(k)
             \/ RefreshHero(k) \/ ReadStar(k) \/ ReadAnonymously(k) \/ ReadFails(k)
             \/ ShowStar(k) \/ ShowUnread(k)
      PROVE  StarInv'
  BY <1>3, TokenArrivesKeeps, FindRowKeeps, DeleteRowKeeps, CreateRowKeeps, ToggleFailsKeeps,
     ShowToggledKeeps, ShowErrorKeeps, RefreshHeroKeeps, ReadStarKeeps, BadReadKeeps,
     ShowStarKeeps, ShowUnreadKeeps
<1> QED BY <1>1, <1>2, <1>3 DEF StarNext

\* So it holds throughout.
LEMMA StarInvAlways == StarSpec => []StarInv
<1>1. StarInit => StarInv
  BY StarInvInit
<1> QED BY <1>1, StarInvNext, PTL DEF StarSpec

-----------------------------------------------------------------------------
(***************************************************************************)
(* Toggles that race flip the star as often as they are answered with      *)
(* success, and a view at rest that nothing has overtaken shows the star   *)
(* as it is.                                                               *)
(***************************************************************************)
THEOREM StarsStayTrue == StarSpec => []StarsAreTrue
<1>1. ASSUME StarInv, NEW v \in Views \ unsure, Of(v) = {}, page[v] = "ready"
      PROVE  star[v] = (row # NoRow)
  <2>1. SentToggles(v) = {} /\ Reads(v) = {}
    BY <1>1 DEF SentToggles, Reads
  <2> QED BY <1>1, <2>1 DEF StarInv, ViewOK, Shows, IsFavorite
<1>2. StarInv => StarsAreTrue
  BY <1>1 DEF StarInv, StarsAreTrue, RestingViewIsTrue
<1> QED BY <1>2, StarInvAlways, PTL
-----------------------------------------------------------------------------
(***************************************************************************)
(* The parts side by side.  The backend's saves are the same in the parts  *)
(* "saves" and "play"; only in the latter do they belong to pages.         *)
(***************************************************************************)
PartsInv ==
  /\ Inv /\ PlayTypeOK /\ (part # "saves" => PlayInv)
  /\ StarInv /\ ListInv /\ MetricsInv

LEMMA PartsInvInit == Init => PartsInv
  BY PlayInvInit, StarInvInit, ListInvInit, MetricsInvInit DEF Init, PartsInv, PlayInv

\* What a part does not move keeps its invariant.
LEMMA PlayRests == ASSUME Inv, PlayTypeOK, UNCHANGED playVars PROVE Inv' /\ PlayTypeOK' /\ (PlayInv => PlayInv')
<1>1. UNCHANGED pageVars /\ UNCHANGED saveVars
  BY DEF playVars
<1>2. Inv'
  BY <1>1, InvNext
<1>3. PlayTypeOK'
  BY <1>1, <1>2 DEF PlayTypeOK, Inv, pageVars
<1>4. PlayInv => PlayInv'
  BY PlayInvNext
<1> QED
  BY <1>2, <1>3, <1>4

LEMMA PartsInvNext == PartsInv /\ [Next]_vars => PartsInv'
<1> SUFFICES ASSUME PartsInv, [Next]_vars PROVE PartsInv'
  OBVIOUS
<1>1. Inv /\ PlayTypeOK /\ StarInv /\ ListInv /\ MetricsInv /\ (part # "saves" => PlayInv) /\ part' = part
  BY DEF PartsInv, Next, vars
<1>2. CASE UNCHANGED <<playVars, listVars, metricsVars>> /\ StarNext
  BY <1>1, <1>2, PlayRests, StarInvNext, ListInvNext, MetricsInvNext DEF PartsInv
<1>3. CASE UNCHANGED <<playVars, starVars, metricsVars>> /\ ListNext
  BY <1>1, <1>3, PlayRests, StarInvNext, ListInvNext, MetricsInvNext DEF PartsInv
<1>4. CASE UNCHANGED <<playVars, starVars, listVars>> /\ MetricsNext
  BY <1>1, <1>4, PlayRests, StarInvNext, ListInvNext, MetricsInvNext DEF PartsInv
<1>5. CASE UNCHANGED <<playVars, starVars, listVars, metricsVars>>
  BY <1>1, <1>5, PlayRests, StarInvNext, ListInvNext, MetricsInvNext DEF PartsInv
<1>6. CASE UNCHANGED <<starVars, listVars, metricsVars>> /\ Plays
  BY <1>1, <1>6, PlayInvNext, StarInvNext, ListInvNext, MetricsInvNext DEF PartsInv, PlayInv, Plays
<1>7. CASE UNCHANGED <<starVars, listVars, metricsVars>> /\ Saves
  <2>1. Inv'
    BY <1>1, <1>7, InvNext DEF Saves
  <2>2. PlayTypeOK'
    BY <1>1, <1>7, <2>1 DEF PlayTypeOK, Inv, Saves, pageVars
  <2> QED
    BY <1>1, <1>7, <2>1, <2>2, StarInvNext, ListInvNext, MetricsInvNext DEF PartsInv, Saves
<1> QED
  BY <1>2, <1>3, <1>4, <1>5, <1>6, <1>7 DEF Next, vars

(***************************************************************************)
(* Every part of what a player uses is typed: the records of pages, win-   *)
(* dows and requests, the rows and objects, the lists and the rollups.     *)
(***************************************************************************)
THEOREM PlayerIsTyped == Spec => []TypeOK
<1>1. PartsInv => TypeOK
  BY ListTypes DEF PartsInv, TypeOK, StarInv, MetricsInv
<1> QED
  BY <1>1, PartsInvInit, PartsInvNext, PTL DEF Spec
=============================================================================
