---------------------------- MODULE LibraryPages ----------------------------
(***************************************************************************)
(* The library list: GET /roms answers one page of a filtered and ordered  *)
(* catalogue, from two queries that are not one transaction; useRomLibrary *)
(* appends page after page until the last answer says there is no more,    *)
(* while ROMs are registered, starred and played by others.                *)
(*                                                                         *)
(* ROMs are numbered as they are registered, so a greater one has a later  *)
(* createdAt.  PageOffByOne stands before the operator it is a slip of.    *)
(***************************************************************************)
EXTENDS Integers, FiniteSets, Sequences

CONSTANTS
  MaxRoms,    \* bound: ROMs registered
  MaxPlays,  \* bound: save states of one ROM
  PageSize

ASSUME LibraryAssumption == MaxRoms \in Nat /\ MaxPlays \in Nat /\ PageSize \in Nat \ {0}

Unknown == -1

VARIABLES
  roms,     \* ROMs registered so far
  starred,  \* those the reader has starred
  played,   \* per ROM: how many save states all players have
  filter,   \* the reader's FilterState, platform and genre left out
  lists     \* per filter: the list in the query cache

listVars == <<roms, starred, played, filter, lists>>

Filters == [favoritesOnly : BOOLEAN, order : {"newest", "recent"}]
Default == [favoritesOnly |-> FALSE, order |-> "recent"]

\* The request in flight: which page, and what its two queries found.
NoFetch == [page |-> 0, items |-> {}, found |-> FALSE, total |-> Unknown]

\* pages are sets of ROMs, total is meta.total of the last one.  atStart and
\* torn are history: how many ROMs there were when the list was opened, and
\* whether one was registered between the two queries of a request.
NoList == [pages |-> <<>>, total |-> Unknown, fetch |-> NoFetch, atStart |-> 0, torn |-> FALSE]

ListInit ==
  /\ roms \in 0 .. MaxRoms
  /\ starred \in SUBSET (1 .. roms)
  /\ played = [r \in 1 .. MaxRoms |-> 0]
  /\ filter = Default
  /\ lists = [f \in Filters |-> NoList]

Where(f) == IF f.favoritesOnly THEN starred ELSE 1 .. roms

\* orderBy: "recent" counts the saves of all players first.
Before(f, a, b) ==
  \/ f.order = "recent" /\ played[a] > played[b]
  \/ (f.order = "recent" => played[a] = played[b]) /\ a > b

Ahead(f, r) == Cardinality({q \in Where(f) : Before(f, q, r)})

PageOffByOne(f, n) ==
  {r \in Where(f) : n * PageSize <= Ahead(f, r) /\ Ahead(f, r) < (n + 1) * PageSize}

\* skip (page - 1) * pageSize, take pageSize.
PageOf(f, n) ==
  {r \in Where(f) : (n - 1) * PageSize <= Ahead(f, r) /\ Ahead(f, r) < n * PageSize}

TotalPages(l) == (l.total + PageSize - 1) \div PageSize

\* getNextPageParam.
HasNextPage(l) == l.pages = <<>> \/ Len(l.pages) + 1 <= TotalPages(l)

ToList(f, l) == lists' = [lists EXCEPT ![f] = l]

\* The query of the filter's key, or fetchNextPage: of the list on the screen.
FetchPage ==
  LET l == lists[filter]
  IN /\ l.fetch = NoFetch /\ HasNextPage(l)
     /\ ToList(filter, [l EXCEPT !.fetch.page = Len(l.pages) + 1,
                                 !.atStart = IF l.pages = <<>> THEN roms ELSE @])
     /\ UNCHANGED <<roms, starred, played, filter>>

FindMany(f) ==
  LET l == lists[f]
  IN /\ l.fetch.page > 0 /\ ~l.fetch.found
     /\ ToList(f, [l EXCEPT !.fetch.items = PageOf(f, l.fetch.page), !.fetch.found = TRUE])
     /\ UNCHANGED <<roms, starred, played, filter>>

Count(f) ==
  LET l == lists[f]
  IN /\ l.fetch.page > 0 /\ l.fetch.total = Unknown
     /\ ToList(f, [l EXCEPT !.fetch.total = Cardinality(Where(f))])
     /\ UNCHANGED <<roms, starred, played, filter>>

\* The answer goes to the key it was asked for, on the screen or not.
ShowPage(f) ==
  LET l == lists[f]
  IN /\ l.fetch.found /\ l.fetch.total # Unknown
     /\ ToList(f, [l EXCEPT !.pages = Append(@, l.fetch.items), !.total = l.fetch.total,
                            !.fetch = NoFetch])
     /\ UNCHANGED <<roms, starred, played, filter>>

\* After one retry the query shows its error and keeps its pages.
FetchFails(f) ==
  /\ lists[f].fetch.page > 0
  /\ ToList(f, [lists[f] EXCEPT !.fetch = NoFetch])
  /\ UNCHANGED <<roms, starred, played, filter>>

\* A new key.  A list still fresh in the cache is shown as it is; one that is
\* stale or was dropped begins anew (the stale one stays on the screen until
\* its pages have been fetched again, which is not modelled).
SetFilter(f, fresh) ==
  /\ f # filter /\ filter' = f
  /\ IF fresh THEN UNCHANGED lists ELSE lists[f].fetch = NoFetch /\ ToList(f, NoList)
  /\ UNCHANGED <<roms, starred, played>>

HalfRead(l) == l.fetch.page > 0 /\ l.fetch.found # (l.fetch.total # Unknown)

RegisterRom ==
  /\ roms < MaxRoms /\ roms' = roms + 1
  /\ lists' = [f \in Filters |-> [lists[f] EXCEPT !.torn = @ \/ HalfRead(lists[f])]]
  /\ UNCHANGED <<starred, played, filter>>

\* The star on the card changes in the pages, which keep their ROMs.
StarRom(r) ==
  /\ starred' = IF r \in starred THEN starred \ {r} ELSE starred \cup {r}
  /\ UNCHANGED <<roms, played, filter, lists>>

PlayRom(r) ==
  /\ played[r] < MaxPlays /\ played' = [played EXCEPT ![r] = @ + 1]
  /\ UNCHANGED <<roms, starred, filter, lists>>

ListNext ==
  \/ FetchPage
  \/ \E f \in Filters :
       \/ FindMany(f) \/ Count(f) \/ ShowPage(f) \/ FetchFails(f)
       \/ \E fresh \in BOOLEAN : SetFilter(f, fresh)
  \/ RegisterRom
  \/ \E r \in 1 .. roms : StarRom(r) \/ PlayRom(r)

ListSpec == ListInit /\ [][ListNext]_listVars

-----------------------------------------------------------------------------
FetchRec == [page : 0 .. MaxRoms + 1, items : SUBSET (1 .. MaxRoms), found : BOOLEAN,
             total : {Unknown} \cup 0 .. MaxRoms]

ListTypeOK ==
  /\ roms \in 0 .. MaxRoms
  /\ starred \subseteq 1 .. roms
  /\ played \in [1 .. MaxRoms -> 0 .. MaxPlays]
  /\ filter \in Filters
  /\ DOMAIN lists = Filters
  /\ \A f \in Filters :
       LET l == lists[f]
       IN /\ \A i \in 1 .. Len(l.pages) : l.pages[i] \subseteq 1 .. roms
          /\ l.total \in {Unknown} \cup 0 .. roms
          /\ l.fetch \in FetchRec
          /\ l.atStart \in 0 .. roms /\ l.torn \in BOOLEAN

(***************************************************************************)
(* A reader of the whole catalogue, newest first, who gets to the end has  *)
(* been shown every ROM that was there when the list was opened, whatever  *)
(* is registered meanwhile and whichever filters are looked at in between: *)
(* a new ROM shifts the offsets towards a repeated card, never a skipped   *)
(* one, unless it is registered between the query of a page and its count  *)
(* (then the list can stop before its last ROM).                           *)
(***************************************************************************)
EndOfListShowsAll ==
  LET l == lists[[favoritesOnly |-> FALSE, order |-> "newest"]]
  IN ~HasNextPage(l) /\ ~l.torn => 1 .. l.atStart \subseteq UNION {l.pages[i] : i \in 1 .. Len(l.pages)}
=============================================================================
