------------------------------ MODULE Replica ------------------------------
(***************************************************************************)
(* What federation promises about a direct message and the copy of it      *)
(* another instance keeps: the copy only ever shows a text its author gave *)
(* the message, it goes only when its author deleted the message, and once *)
(* it is gone it stays gone.  DmDelivery.tla implements this.              *)
(***************************************************************************)
EXTENDS Naturals

VARIABLES
  text,   \* the message at its home: its state and the number of its last edit
  shown   \* the copy: not seen yet, held at some version, or gone

Absent == [at |-> "none", ver |-> 0]
Gone   == [at |-> "gone", ver |-> 0]
Held(v) == [at |-> "held", ver |-> v]

Init ==
  /\ text = [state |-> "none", ver |-> 0]
  /\ shown = Absent

\* The author writes, edits or deletes the message.
Write ==
  /\ \/ text.state = "none" /\ text' = [text EXCEPT !.state = "live"]
     \/ text.state = "live" /\ text' = [text EXCEPT !.ver = @ + 1]
     \/ text.state = "live" /\ text' = [text EXCEPT !.state = "deleted"]
  /\ UNCHANGED shown

\* The copy takes a version the message has had.
Show ==
  /\ text.state # "none"
  /\ shown # Gone
  /\ \E v \in 0 .. text.ver : shown' = Held(v)
  /\ UNCHANGED text

\* The other instance learns of the deletion, whether it had a copy or not.
Remove ==
  /\ text.state = "deleted"
  /\ shown' = Gone
  /\ UNCHANGED text

Next == Write \/ Show \/ Remove

Spec == Init /\ [][Next]_<<text, shown>>
=============================================================================
