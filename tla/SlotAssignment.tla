---------------------------- MODULE SlotAssignment ----------------------------
(***************************************************************************)
(* What the prefilter editor promises about its slots, whatever their    *)
(* filters hold: each slot is bound to a distinct vertical; a slot can be *)
(* added with a vertical no slot holds, removed (the later slots move up) *)
(* or rebound to a vertical no slot holds.                                 *)
(***************************************************************************)
EXTENDS Sequences, SequencesExt

CONSTANT Verticals

VARIABLE assigned     \* the vertical of each slot, in slot order

Free == Verticals \ ToSet(assigned)

AddSlot == \E v \in Free : assigned' = Append(assigned, v)

RemoveSlot(i) == assigned' = RemoveAt(assigned, i)

Rebind(i) == \E v \in Free : assigned' = [assigned EXCEPT ![i] = v]

Init == assigned = <<>>

Next ==
  \/ AddSlot
  \/ \E i \in DOMAIN assigned : RemoveSlot(i) \/ Rebind(i)

Spec == Init /\ [][Next]_assigned
=============================================================================
