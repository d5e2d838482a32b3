---------------------------- MODULE SaveRegister ----------------------------
(***************************************************************************)
(* What the save states of a game promise its player: every slot is an     *)
(* atomic register.  A save takes effect at one instant between its call   *)
(* and its answer, a save that fails may or may not have taken effect, and *)
(* what a load returns was in a slot of that game at such an instant.      *)
(***************************************************************************)
CONSTANTS Calls, Games, Slots, Saves, Empty, Any

VARIABLES
  reg,   \* the save each slot of each game holds, or Empty
  op     \* per call: what was asked, and the save given or found

Free == [st |-> "free", game |-> Any, slot |-> Any, val |-> Empty]

Init == /\ reg = [g \in Games |-> [s \in Slots |-> Empty]]
        /\ op = [c \in Calls |-> Free]

Answer(c, st, v) == op' = [op EXCEPT ![c].st = st, ![c].val = v]

\* A save names its slot; a load names one too, or Any for the latest save.
Call(c) ==
  /\ op[c] = Free
  /\ \E g \in Games, s \in Slots \cup {Any}, st \in {"saving", "loading"} :
       op' = [op EXCEPT ![c] = [Free EXCEPT !.st = st, !.game = g, !.slot = s]]
  /\ UNCHANGED reg

\* The save takes effect, and the answer says so or is a failure.
TakeEffect(c) ==
  /\ op[c].st = "saving" /\ op[c].slot \in Slots
  /\ \E v \in Saves :
       /\ reg' = [reg EXCEPT ![op[c].game][op[c].slot] = v]
       /\ Answer(c, "saved", v) \/ Answer(c, "failed", Empty)

\* Of one slot what it holds; of a game what one of its slots holds.
Held(c) == {reg[op[c].game][s] : s \in IF op[c].slot = Any THEN Slots ELSE {op[c].slot}}

Find(c) ==
  /\ op[c].st = "loading"
  /\ \E v \in Held(c) : Answer(c, "found", v) /\ (v = Empty => Held(c) = {Empty})
  /\ UNCHANGED reg

\* One call fails, or a crash fails several at once.
Fail ==
  /\ \E C \in SUBSET {c \in Calls : op[c].st \in {"saving", "loading", "found"}} :
       op' = [c \in Calls |-> IF c \in C THEN [op[c] EXCEPT !.st = "failed", !.val = Empty]
                              ELSE op[c]]
  /\ UNCHANGED reg

Return(c) == op' = [op EXCEPT ![c] = Free] /\ UNCHANGED reg

Next == Fail \/ \E c \in Calls : Call(c) \/ TakeEffect(c) \/ Find(c) \/ Return(c)

Spec == Init /\ [][Next]_<<reg, op>>
=============================================================================
