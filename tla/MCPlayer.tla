------------------------------ MODULE MCPlayer ------------------------------
(***************************************************************************)
(* What a player uses, for TLC: the play page with the cloud saves behind  *)
(* it, the library list, the star of a ROM and the play metrics.  But for  *)
(* the first two they share no state, so each behaviour moves one part:    *)
(* the others neither help nor hinder what is stated about it.             *)
(***************************************************************************)
EXTENDS PlaySession, Favourites, LibraryPages, PlayMetrics, TLC

VARIABLE part
vars == <<part, playVars, starVars, listVars, metricsVars>>

Parts == {"saves", "play", "star", "list", "metrics"}

Init ==
  /\ part \in Parts
  /\ PlayInit /\ StarInit /\ ListInit /\ MetricsInit
  /\ part # "list" => roms = 0
  /\ Cardinality(starred) <= 1

\* Bound: part "saves" is about one game, with one body besides the refused one.
OneGame ==
  \E g \in Games :
    /\ \A c \in Calls : {call'[c].game, call'[c].bytes} \subseteq {g, Void}
    /\ \A k \in 1 .. Len(made') : made'[k].game = g

Sent(kind) == \E c \in Calls : job'[c].kind = kind /\ job[c].kind # kind

\* Bound: part "play" has one request in flight, and the pages, which cannot see
\* what the backend does with it, wait until it has; what follows the first save
\* that is stored are uploads and loads.  A confirmed dialog is not opened again.
OneCall ==
  /\ Cardinality({c \in Calls : call'[c] # NoCall}) <= 1
  /\ (\E c \in Calls : call[c].pc \notin Replies \cup {"idle"}) => UNCHANGED pageVars
  /\ made # <<>> => ~Sent("save")
  /\ \A t \in Tabs : ~(tab'[t].armed /\ tab'[t].prep)

NewestFirst == [favoritesOnly |-> FALSE, order |-> "newest"]

\* Bound: one ROM is starred or played.  The cache holds one list, and of
\* another than that of all ROMs, newest first, it holds one page.
OneOfEach ==
  /\ Cardinality(starred') + Cardinality({r \in 1 .. MaxRoms : played'[r] > 0}) <= 1
  /\ Cardinality({f \in Filters : lists'[f] # NoList}) <= 1
  /\ \A f \in Filters \ {NewestFirst} : Len(lists'[f].pages) <= 1

Saves == part = "saves" /\ SaveNext /\ OneGame /\ UNCHANGED pageVars
Plays == part = "play" /\ PlayNext /\ OneCall

Next ==
  /\ UNCHANGED part
  /\ \/ (Saves \/ Plays) /\ UNCHANGED <<starVars, listVars, metricsVars>>
     \/ part = "star" /\ StarNext /\ UNCHANGED <<playVars, listVars, metricsVars>>
     \/ part = "list" /\ ListNext /\ OneOfEach /\ UNCHANGED <<playVars, starVars, metricsVars>>
     \/ part = "metrics" /\ MetricsNext /\ UNCHANGED <<playVars, starVars, listVars>>

Spec == Init /\ [][Next]_vars

\* Every part is typed.
TypeOK == PlayTypeOK /\ StarTypeOK /\ ListTypeOK /\ MetricsTypeOK

\* The players of one ROM may be exchanged.
Symmetry == Permutations(Calls) \cup UNION {Permutations(R) : R \in Roms} \cup Permutations(Clicks)
              \cup Permutations(Players) \cup Permutations(PlayedRoms)
=============================================================================
