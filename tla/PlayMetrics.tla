---------------------------- MODULE PlayMetrics -----------------------------
(***************************************************************************)
(* Frame counts of running emulators: useEmulatorMetrics counts the frames *)
(* of a page and publishes them every few seconds and when it unmounts,    *)
(* publishMetricsEvent sends them by beacon or else by fetch, and          *)
(* MetricsStore adds them to a rollup per ROM and to a global one, whose   *)
(* keys expire.  One time bucket is modelled; rates and memory are left    *)
(* out.                                                                    *)
(*                                                                         *)
(* PublishZero, SampleKeeps and ExpireAllButGlobal are slips of the        *)
(* operators they stand before; no action uses them.                       *)
(***************************************************************************)
EXTENDS Integers, FiniteSets

CONSTANTS
  Players, PlayedRoms,
  Nobody,
  MaxFrames,   \* bound: frames drawn
  MaxSamples,  \* bound: samples published
  Ttl          \* ticks a rollup key lives after it was written

\* The rollup that is no ROM's.
Global == "global"

ASSUME MetricsAssumption ==
  /\ MaxFrames \in Nat /\ MaxSamples \in Nat /\ Ttl \in Nat \ {0}
  /\ Global \notin PlayedRoms

VARIABLES
  playing,   \* per player: the ROM its effect runs for, the frames counted, hidden or not
  net,       \* samples on their way, with their number
  sent,      \* samples published
  rollup,    \* per ROM: samples in its key
  global,    \* samples in the global key
  ttl,       \* ticks each key has left
  drawn,     \* history: frames drawn
  blank,     \* history: samples of no frame, which count as one
  ingested   \* history: all that was ever added to the rollups

metricsVars == <<playing, net, sent, rollup, global, ttl, drawn, blank, ingested>>

PlayRec == [rom : PlayedRoms \cup {Nobody}, frames : 0 .. MaxFrames, hidden : BOOLEAN]
Resting == [rom |-> Nobody, frames |-> 0, hidden |-> FALSE]

MetricsInit ==
  /\ playing = [p \in Players |-> Resting]
  /\ net = {} /\ sent = 0
  /\ rollup = [r \in PlayedRoms |-> 0] /\ global = 0
  /\ ttl = [k \in PlayedRoms \cup {Global} |-> 0]
  /\ drawn = 0 /\ blank = 0 /\ ingested = 0

Running(p) == playing[p].rom # Nobody
rolled == <<rollup, global, ttl, ingested>>

StartMetrics(p, r) ==
  /\ ~Running(p)
  /\ playing' = [playing EXCEPT ![p] = [Resting EXCEPT !.rom = r]]
  /\ UNCHANGED <<net, sent, rolled, drawn, blank>>

Frame(p) ==
  /\ Running(p) /\ ~playing[p].hidden /\ drawn < MaxFrames
  /\ playing' = [playing EXCEPT ![p].frames = @ + 1]
  /\ drawn' = drawn + 1
  /\ UNCHANGED <<net, sent, rolled, blank>>

\* The frames counted before a pause stay in the count and go with the next
\* sample, whose interval begins after the pause.
Visibility(p) ==
  /\ Running(p)
  /\ playing' = [playing EXCEPT ![p].hidden = ~@]
  /\ UNCHANGED <<net, sent, rolled, drawn, blank>>

PublishZero(p) ==
  /\ Running(p) /\ sent < MaxSamples /\ sent' = sent + 1
  /\ net' = net \cup {[id |-> sent', rom |-> playing[p].rom, samples |-> playing[p].frames]}
  /\ UNCHANGED <<rolled, drawn, blank>>

\* publishMetricsEvent: a queued beacon ends it, else fetch; either may be lost.
Publish(p) ==
  LET f == playing[p].frames
  IN /\ Running(p) /\ sent < MaxSamples /\ sent' = sent + 1
     /\ blank' = IF f = 0 THEN blank + 1 ELSE blank
     /\ \/ net' = net \cup {[id |-> sent', rom |-> playing[p].rom, samples |-> IF f = 0 THEN 1 ELSE f]}
        \/ UNCHANGED net
     /\ UNCHANGED <<rolled, drawn>>

SampleKeeps(p) ==
  /\ ~playing[p].hidden /\ Publish(p)
  /\ UNCHANGED playing

\* The interval, which runs while the page is visible.
Sample(p) ==
  /\ ~playing[p].hidden /\ Publish(p)
  /\ playing' = [playing EXCEPT ![p].frames = 0]

\* The effect's cleanup publishes what is left, visible or not.
StopMetrics(p) ==
  /\ Publish(p)
  /\ playing' = [playing EXCEPT ![p] = Resting]

ExpireAllButGlobal(r) == ttl' = [ttl EXCEPT ![r] = Ttl, ![Global] = IF global = 0 THEN Ttl ELSE @]

\* The two EXPIRE of the transaction.
Refresh(r) == ttl' = [ttl EXCEPT ![r] = Ttl, ![Global] = Ttl]

\* One MULTI of recordEmulatorPerformance; when it fails nobody retries.
Ingest(m) ==
  /\ m \in net /\ net' = net \ {m}
  /\ \/ /\ rollup' = [rollup EXCEPT ![m.rom] = @ + m.samples]
        /\ global' = global + m.samples
        /\ ingested' = ingested + m.samples
        /\ Refresh(m.rom)
     \/ UNCHANGED rolled
  /\ UNCHANGED <<playing, sent, drawn, blank>>

Tick ==
  /\ \E k \in DOMAIN ttl : ttl[k] > 0
  /\ ttl' = [k \in DOMAIN ttl |-> IF ttl[k] > 0 THEN ttl[k] - 1 ELSE 0]
  /\ rollup' = [r \in PlayedRoms |-> IF ttl[r] > 1 THEN rollup[r] ELSE 0]
  /\ global' = IF ttl[Global] > 1 THEN global ELSE 0
  /\ UNCHANGED <<playing, net, sent, drawn, blank, ingested>>

MetricsNext ==
  \/ \E p \in Players :
       \/ \E r \in PlayedRoms : StartMetrics(p, r)
       \/ Frame(p) \/ Visibility(p) \/ Sample(p) \/ StopMetrics(p)
  \/ \E m \in net : Ingest(m)
  \/ Tick

MetricsSpec == MetricsInit /\ [][MetricsNext]_metricsVars

-----------------------------------------------------------------------------
Most == MaxFrames + MaxSamples

MetricsTypeOK ==
  /\ playing \in [Players -> PlayRec]
  /\ net \subseteq [id : 1 .. sent, rom : PlayedRoms, samples : 1 .. Most]
  /\ sent \in 0 .. MaxSamples
  /\ rollup \in [PlayedRoms -> 0 .. Most] /\ global \in 0 .. Most
  /\ ttl \in [PlayedRoms \cup {Global} -> 0 .. Ttl]
  /\ drawn \in 0 .. MaxFrames /\ blank \in 0 .. sent /\ ingested \in 0 .. Most

\* The samples in the keys of the ROMs, each numbered within its key.
RomSamples == {x \in PlayedRoms \X (1 .. Most) : x[2] <= rollup[x[1]]}

(***************************************************************************)
(* No frame is counted twice: all the samples ever added are at most the   *)
(* frames drawn and one for each sample without a frame, over hidden       *)
(* pages, pages that unmount, lost beacons and fetches in their place.     *)
(***************************************************************************)
CountsAtMostDrawn == ingested <= drawn + blank

(***************************************************************************)
(* The global rollup covers those of the ROMs: no key of a ROM outlives    *)
(* it, since every sample renews the global key too.                       *)
(***************************************************************************)
GlobalCoversRoms == global >= Cardinality(RomSamples)
=============================================================================
