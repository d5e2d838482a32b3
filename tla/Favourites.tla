----------------------------- MODULE Favourites -----------------------------
(***************************************************************************)
(* The star of one ROM for one player: the Favorite row, the toggle of     *)
(* POST /roms/:id/favorite, and the views that show the star: the detail   *)
(* pages and RomHero, which await an access token before they send, and    *)
(* the library's cards, which send at once.  (RomHero has its tests but no *)
(* page shows it yet.)                                                     *)
(*                                                                         *)
(* Rows are identified by their id, a fresh cuid.  DeleteAny stands before *)
(* the operator it is a slip of; no action uses it.                        *)
(***************************************************************************)
EXTENDS Integers, FiniteSets

CONSTANTS
  Views,             \* the views that show the star:
  PageViews, Heroes, \* those of them that are detail pages, or a RomHero
  Clicks,            \* requests in flight
  MaxRows,           \* bound: favourite rows created
  MaxFlips,          \* bound: toggles answered with 200
  StarFaults         \* which of "query", "lostReply", "expired" occur

ASSUME FavouritesAssumption ==
  /\ PageViews \subseteq Views /\ Heroes \subseteq Views \ PageViews
  /\ Views # {} /\ MaxRows \in Nat /\ MaxFlips \in Nat

NoRow == 0

VARIABLES
  row,      \* id of the Favorite row, NoRow without one
  lastRow,  \* ids given out
  page,     \* per view: whether its ROM is "loading", "ready" or an "error"
  star,     \* per view: the isFavorite it shows
  click,    \* per request: its view, what it does and the await it is at
  flips,    \* history: toggles that were carried out without an error
  unsure    \* history: views that something else has overtaken

starVars == <<row, lastRow, page, star, click, flips, unsure>>

\* is: what the answer says.  was: what a RomHero showed when it was clicked.
\* old: a RomHero's refresh that a toggle has overtaken (mutationVersionRef),
\* or (history) its toggle that began while a refresh was under way.
ClickRec == [at : {"idle", "token", "find", "delete", "create", "ask", "read", "flipped", "shown",
                   "failed", "unread"},
             view : Views, id : 0 .. MaxRows, is : BOOLEAN, was : BOOLEAN, old : BOOLEAN]

NoClick == [at |-> "idle", view |-> CHOOSE v \in Views : TRUE, id |-> NoRow, is |-> FALSE,
            was |-> FALSE, old |-> FALSE]

StarInit ==
  /\ row = NoRow /\ lastRow = 0
  /\ page = [v \in Views |-> "loading"]
  /\ star = [v \in Views |-> FALSE]
  /\ click = [k \in Clicks |-> NoClick]
  /\ flips = 0 /\ unsure = {}

Of(v) == {k \in Clicks : click[k].at # "idle" /\ click[k].view = v}

Toggles == {"find", "delete", "create", "flipped"}

\* isPending of useMutation, or RomHero's "saving": the button is disabled.
Pending(v) == \E k \in Of(v) : click[k].at \in Toggles

Reads(v) == {k \in Of(v) : click[k].at \in {"ask", "read", "shown"}}

ClickTo(k, at) == click' = [click EXCEPT ![k].at = at]

Begin(k, v, at) ==
  /\ click[k].at = "idle"
  /\ click' = [click EXCEPT ![k] = [NoClick EXCEPT !.view = v, !.at = at, !.was = v \in Heroes /\ star[v],
                                                   !.old = v \in Heroes /\ Reads(v) # {}]]
  /\ UNCHANGED <<row, lastRow, star, flips>>

\* A RomHero whose refresh has been sent may be clicked: it drops the answer.
Overlaps(v) == \E k \in Of(v) : v \in Heroes => click[k].at \notin {"read", "shown"}

Click(k, v, at) ==
  /\ page[v] = "ready" /\ ~Pending(v)
  /\ Begin(k, v, at)
  /\ unsure' = IF Overlaps(v) THEN unsure \cup {v} ELSE unsure
  /\ UNCHANGED page

\* handleToggleFavorite of the detail pages: getStoredAccessToken, then mutate,
\* which no longer looks at isPending.
ClickStar(k, v) == v \in PageViews \cup Heroes /\ Click(k, v, "token")

\* That of the library: mutate at once.
ClickCard(k, v) == v \notin PageViews \cup Heroes /\ Click(k, v, "find")

\* Without a token the page only says so.  RomHero: mutationVersionRef + 1.
TokenArrives(k) ==
  LET Overtaken(q) == click[k].view \in Heroes /\ q \in Reads(click[k].view) /\ click[q].at # "ask"
  IN /\ click[k].at = "token"
     /\ \/ click' = [q \in Clicks |-> IF q = k THEN [click[q] EXCEPT !.at = "find"]
                                      ELSE [click[q] EXCEPT !.old = @ \/ Overtaken(q)]]
        \/ click' = [click EXCEPT ![k] = NoClick]
     /\ UNCHANGED <<row, lastRow, page, star, flips, unsure>>

\* loadRom or a query: of a page that is opened, or again with its data shown.
LoadStar(k, v) ==
  /\ v \notin Heroes
  /\ Begin(k, v, "read")
  /\ \E now \in {page[v], "loading"} : page' = [page EXCEPT ![v] = now]
  /\ unsure' = IF Of(v) = {} THEN unsure \ {v} ELSE unsure \cup {v}

\* RomHero is rendered with what the server knew, then refreshes on its own.
MountHero(k, v) ==
  /\ v \in Heroes /\ Of(v) = {} /\ click[k].at = "idle"
  /\ click' = [click EXCEPT ![k] = [NoClick EXCEPT !.view = v, !.at = "ask"]]
  /\ page' = [page EXCEPT ![v] = "ready"]
  /\ \E is \in BOOLEAN : star' = [star EXCEPT ![v] = is]
  /\ unsure' = unsure \ {v}
  /\ UNCHANGED <<row, lastRow, flips>>

\* refreshFavoriteState has its token, or none and leaves it at that.
RefreshHero(k) ==
  /\ click[k].at = "ask"
  /\ \/ ClickTo(k, "read") /\ UNCHANGED unsure
     \/ /\ click' = [click EXCEPT ![k] = NoClick]
        /\ unsure' = unsure \cup {click[k].view}
  /\ UNCHANGED <<row, lastRow, page, star, flips>>

Flip(k, is) ==
  /\ click' = [click EXCEPT ![k].at = "flipped", ![k].is = is]
  /\ flips' = flips + 1 /\ flips < MaxFlips
  /\ unsure' = unsure \cup (Views \ {click[k].view})

\* toggleFavorite: findUnique,
FindRow(k) ==
  /\ click[k].at = "find"
  /\ click' = [click EXCEPT ![k].at = IF row = NoRow THEN "create" ELSE "delete", ![k].id = row]
  /\ UNCHANGED <<row, lastRow, page, star, flips, unsure>>

DeleteAny(k) ==
  /\ click[k].at = "delete"
  /\ row' = NoRow /\ Flip(k, FALSE)
  /\ UNCHANGED <<lastRow, page, star>>

\* then delete by the id that was found,
DeleteRow(k) ==
  /\ click[k].at = "delete" /\ row = click[k].id
  /\ row' = NoRow /\ Flip(k, FALSE)
  /\ UNCHANGED <<lastRow, page, star>>

\* or create.
CreateRow(k) ==
  /\ click[k].at = "create" /\ row = NoRow /\ lastRow < MaxRows
  /\ lastRow' = lastRow + 1 /\ row' = lastRow + 1 /\ Flip(k, TRUE)
  /\ UNCHANGED <<page, star>>

\* P2025 and P2002 (another request was faster), or the database fails: 500.
ToggleFails(k) ==
  /\ \/ click[k].at = "delete" /\ row # click[k].id
     \/ click[k].at = "create" /\ row # NoRow
     \/ "query" \in StarFaults /\ click[k].at \in {"find", "delete", "create"}
  /\ ClickTo(k, "failed")
  /\ UNCHANGED <<row, lastRow, page, star, flips, unsure>>

\* authenticate refuses the token before the handler runs.
ToggleRefused(k) ==
  /\ "expired" \in StarFaults /\ click[k].at = "find"
  /\ ClickTo(k, "failed")
  /\ UNCHANGED <<row, lastRow, page, star, flips, unsure>>

\* findById with the caller's favourites.
IsFavorite == row # NoRow

\* GET /roms/:id
ReadStar(k) ==
  /\ click[k].at = "read"
  /\ click' = [click EXCEPT ![k].at = "shown", ![k].is = IsFavorite]
  /\ UNCHANGED <<row, lastRow, page, star, flips, unsure>>

\* tryAuthenticateRequest swallows a token that has expired: the ROM is
\* answered as to a stranger, whose star it never is.
ReadAnonymously(k) ==
  /\ "expired" \in StarFaults /\ click[k].at = "read"
  /\ click' = [click EXCEPT ![k].at = "shown", ![k].is = FALSE]
  /\ unsure' = unsure \cup {click[k].view}
  /\ UNCHANGED <<row, lastRow, page, star, flips>>

\* Not found, or any other error.
ReadFails(k) ==
  /\ "query" \in StarFaults /\ click[k].at = "read"
  /\ ClickTo(k, "unread")
  /\ unsure' = unsure \cup {click[k].view}
  /\ UNCHANGED <<row, lastRow, page, star, flips>>

\* onSuccess changes a ROM that is there.
ShowToggled(k) ==
  LET v == click[k].view
  IN /\ click[k].at = "flipped"
     /\ star' = IF page[v] = "ready" THEN [star EXCEPT ![v] = click[k].is] ELSE star
     /\ click' = [click EXCEPT ![k] = NoClick]
     /\ UNCHANGED <<row, lastRow, page, flips, unsure>>

\* What loadRom or a query sets; a RomHero shows it if no toggle came between.
ShowStar(k) ==
  /\ click[k].at = "shown"
  /\ star' = IF click[k].view \in Heroes /\ click[k].old THEN star
             ELSE [star EXCEPT ![click[k].view] = click[k].is]
  /\ page' = [page EXCEPT ![click[k].view] = "ready"]
  /\ click' = [click EXCEPT ![k] = NoClick]
  /\ UNCHANGED <<row, lastRow, flips, unsure>>

Lost(k, at) == "lostReply" \in StarFaults /\ click[k].at = at

\* A message, and the star stays as it was; RomHero puts back the one clicked.
ShowError(k) ==
  LET v == click[k].view
  IN /\ click[k].at = "failed" \/ Lost(k, "flipped")
     /\ star' = IF v \in Heroes THEN [star EXCEPT ![v] = click[k].was] ELSE star
     /\ unsure' = IF click[k].at = "flipped" \/ click[k].old THEN unsure \cup {v} ELSE unsure
     /\ click' = [click EXCEPT ![k] = NoClick]
     /\ UNCHANGED <<row, lastRow, page, flips>>

\* The page has an error in its place; with data shown, and in RomHero, nothing.
ShowUnread(k) ==
  LET v == click[k].view
  IN /\ click[k].at = "unread" \/ Lost(k, "shown")
     /\ page' = IF page[v] = "loading" THEN [page EXCEPT ![v] = "error"] ELSE page
     /\ unsure' = unsure \cup {v}
     /\ click' = [click EXCEPT ![k] = NoClick]
     /\ UNCHANGED <<row, lastRow, star, flips>>

StarNext ==
  \E k \in Clicks :
    \/ \E v \in Views : ClickStar(k, v) \/ ClickCard(k, v) \/ LoadStar(k, v) \/ MountHero(k, v)
    \/ TokenArrives(k) \/ FindRow(k) \/ DeleteRow(k) \/ CreateRow(k)
    \/ ToggleFails(k) \/ ToggleRefused(k) \/ ShowToggled(k) \/ ShowError(k)
    \/ RefreshHero(k) \/ ReadStar(k) \/ ReadAnonymously(k) \/ ReadFails(k)
    \/ ShowStar(k) \/ ShowUnread(k)

StarSpec == StarInit /\ [][StarNext]_starVars

-----------------------------------------------------------------------------
StarTypeOK ==
  /\ lastRow \in 0 .. MaxRows /\ row \in 0 .. lastRow
  /\ page \in [Views -> {"loading", "ready", "error"}]
  /\ star \in [Views -> BOOLEAN]
  /\ click \in [Clicks -> ClickRec]
  /\ flips \in 0 .. MaxFlips
  /\ unsure \subseteq Views

(***************************************************************************)
(* Toggles of one star that race, from a double click or from two tabs,    *)
(* flip it exactly as often as they are answered with success: those that  *)
(* find the row changed under them are refused and flip nothing.           *)
(***************************************************************************)
SuccessFlipsOnce == (row # NoRow) = (flips % 2 = 1)

(***************************************************************************)
(* A view at rest shows the star as it is, unless since it last began to   *)
(* load on its own another view has toggled, two of its own requests have  *)
(* overlapped (a double click gets past the disabled button while the      *)
(* token is awaited), a load was refused or failed or an answer was lost.  *)
(* A RomHero may be clicked while its refresh is on its way: whichever of  *)
(* the two is answered first, it shows the star as the toggle left it; but *)
(* a toggle that fails then puts back a star from before the refresh.      *)
(***************************************************************************)
RestingViewIsTrue ==
  \A v \in Views \ unsure :
    Of(v) = {} /\ page[v] = "ready" => star[v] = (row # NoRow)

StarsAreTrue == SuccessFlipsOnce /\ RestingViewIsTrue
=============================================================================
