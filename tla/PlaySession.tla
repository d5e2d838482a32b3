---------------------------- MODULE PlaySession -----------------------------
(***************************************************************************)
(* The page /play/[romId]: it opens a ROM, starts EmulatorJS in its window *)
(* and moves save states between the emulator, localStorage and the cloud  *)
(* (SaveStates).  Tabs of one browser share localStorage, and so do the    *)
(* players who sign in there one after another: its key has the ROM and    *)
(* not the player, and nothing removes it.  Each tab has its own window,   *)
(* which outlives the pages that are opened in it one after another, and   *)
(* with it EJS_emulator and the loaders still to run.                      *)
(*                                                                         *)
(* A game is one player's play of a ROM.  The bytes of a save are the game *)
(* they were captured from, or Stub for those of the stub emulator.  The effects React runs after a *)
(* state change belong to the action that changes the state.               *)
(*                                                                         *)
(* FallbackForgets and SaveRepliedFirst are slips of the operators they    *)
(* stand before; no action uses them.                                      *)
(***************************************************************************)
EXTENDS SaveStates

CONSTANTS
  Tabs,
  Roms,         \* each ROM as the set of its games, one per player
  Stub,
  SlotOne,      \* the slot every save of the page goes to
  MaxLoaders    \* bound: loader scripts waiting to run in one window

ASSUME PlayAssumption ==
  /\ Bytes = Games \cup {Stub}
  /\ Stub \notin Games
  /\ Roms \subseteq SUBSET Games
  /\ \A g \in Games : \E R \in Roms : g \in R
  /\ \A R, S \in Roms : R # S => R \cap S = {}
  /\ SlotOne \in Slots
  /\ MaxLoaders \in Nat

RomOf(g) == CHOOSE R \in Roms : g \in R

VARIABLES
  tab,      \* per tab: the page that is mounted
  win,      \* per tab: what the window keeps from page to page
  local,    \* localStorage treazr:save:<romId>
  job       \* per call: the handler of the page that awaits it

pageVars == <<tab, win, local, job>>
playVars == <<saveVars, pageVars>>

\* dossier: fetchRomDetails; "bare" is a ROM without an asset.
\* prep: the SessionPrepDialog is open; armed: it has been confirmed.
\* script: the embed script, then the 250 ms poll and the 10 s timer it starts.
\* booted is history: the emulator of this ROM has announced its game since the
\* page was mounted or its script failed.
TabRec == [open : Games \cup {Void}, dossier : {"none", "loading", "ready", "bare", "error"},
           prep : BOOLEAN, armed : BOOLEAN, script : {"none", "loading", "polling", "timer", "done"},
           handle : Bytes \cup {Void}, last : Bytes \cup {Void},
           booted : BOOLEAN]
NoPage == [open |-> Void, dossier |-> "none", prep |-> FALSE, armed |-> FALSE, script |-> "none",
           handle |-> Void, last |-> Void, booted |-> FALSE]

WinRec == [built : Games \cup {Void}, loaders : 0 .. MaxLoaders]

\* gone: the page was left; ready (history): it was booted when it began.
JobRec == [kind : {"none", "save", "sync", "load"}, tab : Tabs \cup {Void},
           game : Games \cup {Void}, bytes : Bytes \cup {Void},
           gone : BOOLEAN, ready : BOOLEAN]
NoJob == [kind |-> "none", tab |-> Void, game |-> Void, bytes |-> Void,
          gone |-> FALSE, ready |-> FALSE]

PlayInit ==
  /\ SaveInit
  /\ tab = [t \in Tabs |-> NoPage]
  /\ win = [t \in Tabs |-> [built |-> Void, loaders |-> 0]]
  /\ local = [R \in Roms |-> Void]
  /\ job = [c \in Calls |-> NoJob]

(***************************************************************************)
(* The page and its emulator.                                              *)
(***************************************************************************)
Open(t, g) ==
  /\ tab[t].open = Void
  /\ tab' = [tab EXCEPT ![t] = [NoPage EXCEPT !.open = g, !.dossier = "loading", !.prep = TRUE]]
  /\ UNCHANGED <<win, local, job>>

\* The emulator effect, once the session is confirmed and the asset known.
Start(t, page) ==
  IF page.armed /\ page.dossier = "ready" /\ page.script = "none"
  THEN /\ win[t].loaders < MaxLoaders
       /\ tab' = [tab EXCEPT ![t] = [page EXCEPT !.script = "loading"]]
       /\ win' = [win EXCEPT ![t].loaders = @ + 1]
  ELSE tab' = [tab EXCEPT ![t] = page] /\ UNCHANGED win

Dossier(t) ==
  /\ tab[t].dossier = "loading"
  /\ \E d \in {"ready", "bare", "error"} : Start(t, [tab[t] EXCEPT !.dossier = d])
  /\ UNCHANGED <<local, job>>

\* Ready Up and Cancel of the dialog, and the button that opens it again.
Confirm(t) ==
  /\ tab[t].prep
  /\ Start(t, [tab[t] EXCEPT !.armed = TRUE, !.prep = FALSE])
  /\ UNCHANGED <<local, job>>

CancelPrep(t) ==
  /\ tab[t].prep
  /\ tab' = [tab EXCEPT ![t].prep = FALSE]
  /\ UNCHANGED <<win, local, job>>

OpenPrep(t) ==
  /\ tab[t].open # Void /\ ~tab[t].prep
  /\ tab' = [tab EXCEPT ![t].prep = TRUE]
  /\ UNCHANGED <<win, local, job>>

Hold(t, h, script) ==
  /\ tab' = [tab EXCEPT ![t].handle = h, ![t].script = script]
  /\ UNCHANGED <<win, local, job>>

\* load event of the embed script: markEmulatorReady or beginReadinessWatch.
ScriptLoads(t) ==
  /\ tab[t].script = "loading"
  /\ IF win[t].built # Void THEN Hold(t, win[t].built, "done")
     ELSE Hold(t, tab[t].handle, "polling")

ScriptFails(t) ==
  /\ tab[t].script = "loading"
  /\ tab' = [tab EXCEPT ![t].handle = Stub, ![t].script = "done", ![t].booted = FALSE]
  /\ win' = [win EXCEPT ![t].loaders = @ - 1]
  /\ UNCHANGED <<local, job>>

Poll(t) ==
  /\ tab[t].script = "polling" /\ win[t].built # Void
  /\ Hold(t, win[t].built, "timer")

FallbackForgets(t) ==
  /\ tab[t].script \in {"polling", "timer"}
  /\ Hold(t, Stub, "done")

\* The 10 s timer, which nothing but leaving the page cancels.
Fallback(t) ==
  /\ tab[t].script \in {"polling", "timer"}
  /\ Hold(t, IF win[t].built # Void THEN win[t].built ELSE Stub, "done")

\* A loader runs and builds the emulator of the game the window names then,
\* whichever page inserted it; with no page mounted it builds none.
LoaderRuns(t) ==
  /\ win[t].loaders > IF tab[t].script = "loading" THEN 1 ELSE 0
  /\ win' = [win EXCEPT ![t].loaders = @ - 1,
                        ![t].built = IF tab[t].script = "none" THEN @ ELSE tab[t].open]
  /\ UNCHANGED <<tab, local, job>>

\* EJS_onGameReady and EJS_onGameStart.
GameReady(t) ==
  /\ tab[t].script # "none" /\ win[t].built # Void
  /\ tab' = [tab EXCEPT ![t].handle = win[t].built,
                        ![t].booted = @ \/ win[t].built = tab[t].open]
  /\ UNCHANGED <<win, local, job>>

\* Unmount: the effect's cleanup clears the timers and the EJS_ settings but
\* not EJS_emulator; handlers that await a call go on.
Leave(t) ==
  /\ tab[t].open # Void
  /\ tab' = [tab EXCEPT ![t] = NoPage]
  /\ job' = [c \in Calls |-> IF job[c].tab = t THEN [job[c] EXCEPT !.gone = TRUE] ELSE job[c]]
  /\ UNCHANGED <<win, local>>

(***************************************************************************)
(* Saving and loading.                                                     *)
(***************************************************************************)
Busy(t, kind) == \E c \in Calls : job[c].kind = kind /\ job[c].tab = t /\ ~job[c].gone

\* ControlOverlay is shown once the dossier is there; until the session is
\* confirmed it is disabled, and each button while its own call is awaited.
Controls(t) == tab[t].dossier \in {"ready", "bare"} /\ tab[t].armed

Enabled(t, kind) == Controls(t) /\ ~Busy(t, kind)

Await(c, t, kind, b) ==
  job' = [job EXCEPT ![c] = [kind |-> kind, tab |-> t, game |-> tab[t].open, bytes |-> b,
                             gone |-> FALSE, ready |-> tab[t].booted]]

\* handleSaveState: without a runtime the stub is enabled and captured.  The
\* bytes may be more than the handler accepts.
Save(t, c) ==
  LET h == IF tab[t].handle = Void THEN Stub ELSE tab[t].handle
  IN /\ Enabled(t, "save")
     /\ \E b \in {h, Void} : SendSave(c, tab[t].open, SlotOne, b)
     /\ Await(c, t, "save", h)
     /\ tab' = [tab EXCEPT ![t].handle = h]
     /\ UNCHANGED <<win, local>>

\* handleUploadCloudSave.
Sync(t, c) ==
  LET b == IF tab[t].last # Void THEN tab[t].last ELSE local[RomOf(tab[t].open)]
  IN /\ Enabled(t, "sync") /\ b # Void
     /\ SendSave(c, tab[t].open, SlotOne, b)
     /\ Await(c, t, "sync", b)
     /\ UNCHANGED <<tab, win, local>>

\* handleLoadState and the hook's loadLatestSaveState.
Load(t, c) ==
  /\ Enabled(t, "load") /\ tab[t].handle # Void
  /\ SendLoad(c, tab[t].open, Void)
  /\ Await(c, t, "load", Void)
  /\ UNCHANGED <<tab, win, local>>

Remember(c) ==
  tab' = IF job[c].gone THEN tab ELSE [tab EXCEPT ![job[c].tab].last = job[c].bytes]

SaveRepliedFirst(c) ==
  /\ job[c].kind = "save" /\ Receive(c)
  /\ local' = [local EXCEPT ![RomOf(job[c].game)] = job[c].bytes]
  /\ Remember(c)
  /\ job' = [job EXCEPT ![c] = NoJob] /\ UNCHANGED win

\* persistLocalSave runs after the cloud has answered; localStorage may throw.
SaveReplied(c) ==
  /\ job[c].kind = "save" /\ Receive(c)
  /\ \/ /\ CallAt(c, "saved")
        /\ local' = [local EXCEPT ![RomOf(job[c].game)] = job[c].bytes]
        /\ Remember(c)
     \/ UNCHANGED <<local, tab>>
  /\ job' = [job EXCEPT ![c] = NoJob] /\ UNCHANGED win

SyncReplied(c) ==
  /\ job[c].kind = "sync" /\ Receive(c)
  /\ IF CallAt(c, "saved") THEN Remember(c) ELSE UNCHANGED tab
  /\ job' = [job EXCEPT ![c] = NoJob] /\ UNCHANGED <<win, local>>

\* The bytes go into the emulator, whose memory is not modelled.
LoadReplied(c) ==
  /\ job[c].kind = "load" /\ Receive(c)
  /\ job' = [job EXCEPT ![c] = NoJob] /\ UNCHANGED <<tab, win, local>>

Page(t) ==
  \/ \E g \in Games : Open(t, g)
  \/ Dossier(t) \/ Confirm(t) \/ CancelPrep(t) \/ OpenPrep(t) \/ ScriptLoads(t) \/ ScriptFails(t) \/ Poll(t)
  \/ Fallback(t) \/ LoaderRuns(t) \/ GameReady(t) \/ Leave(t)

PlayNext ==
  \/ \E t \in Tabs : Page(t) /\ UNCHANGED saveVars
  \/ \E t \in Tabs, c \in Calls : Save(t, c) \/ Sync(t, c) \/ Load(t, c)
  \/ \E c \in Calls : SaveReplied(c) \/ SyncReplied(c) \/ LoadReplied(c)
  \/ Backend /\ UNCHANGED pageVars

PlaySpec == PlayInit /\ [][PlayNext]_playVars

-----------------------------------------------------------------------------
PlayTypeOK ==
  /\ SaveTypeOK
  /\ tab \in [Tabs -> TabRec]
  /\ win \in [Tabs -> WinRec]
  /\ local \in [Roms -> Bytes \cup {Void}]
  /\ job \in [Calls -> JobRec]

(***************************************************************************)
(* A save pressed after the emulator of the page's own ROM has announced   *)
(* its game captures that game: no poll, timer, or emulator left behind in *)
(* the window by another ROM's page puts the stub or the other game into   *)
(* the slot.  Before that announcement, or once the embed script has       *)
(* failed, the page does overwrite the slot with such bytes.               *)
(***************************************************************************)
SavesOwnGame ==
  \A c \in Calls : job[c].kind = "save" /\ job[c].ready => job[c].bytes = job[c].game

(***************************************************************************)
(* localStorage never holds bytes the cloud has not answered for, whatever *)
(* failed and whichever page of whichever tab wrote it: the page keeps a   *)
(* local copy of a save only once the cloud has it.  The cloud may have it *)
(* for another player of the ROM, or have a newer save by now.             *)
(***************************************************************************)
LocalFollowsCloud ==
  \A R \in Roms : local[R] # Void =>
    \E k \in answered : made[k].game \in R /\ made[k].bytes = local[R]
=============================================================================
