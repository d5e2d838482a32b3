----------------------------- MODULE MCAccounts -----------------------------
(***************************************************************************)
(* Accounts for TLC.  With OneSeed every email has the same candidates, so *)
(* that the third account has to fall back on player_<random>, and one of  *)
(* the fallbacks is a candidate.                                           *)
(***************************************************************************)
EXTENDS Accounts, TLC

CONSTANTS aSeed, aFallback

\* The try 0 is the seed itself.
Numbered(seed) == [n \in 0 .. Attempts - 1 |-> <<seed, n>>]

MCNames == ({aSeed} \X (0 .. Attempts - 1)) \cup {<<aFallback, 0>>}

MCFallbacks == {<<aSeed, 1>>, <<aFallback, 0>>}

OneSeed == [e \in Emails |-> Numbered(aSeed)]

OneCliName == [e \in Emails |-> <<aSeed, 0>>]
=============================================================================
