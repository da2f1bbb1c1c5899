------------------------------ MODULE DurableLog ------------------------------
(***************************************************************************)
(* What the delivery pipeline promises about the operations it accepts: an *)
(* operation is accepted at most once, accepted operations become durable  *)
(* one after another in the order in which they were accepted, none is     *)
(* skipped, undone or made durable twice, and each becomes durable in the  *)
(* end.                                                                    *)
(***************************************************************************)
EXTENDS Naturals, Sequences

CONSTANT Ops   \* the operations callers may hand over

VARIABLES
  accepted,   \* the operations accepted so far, in order
  durable     \* how many of them are durable: a prefix

vars == <<accepted, durable>>

Init == accepted = <<>> /\ durable = 0

Accept(o) ==
  /\ \A i \in 1..Len(accepted) : accepted[i] # o
  /\ accepted' = Append(accepted, o)
  /\ UNCHANGED durable

MakeDurable ==
  /\ durable < Len(accepted)
  /\ durable' = durable + 1
  /\ UNCHANGED accepted

Next == (\E o \in Ops : Accept(o)) \/ MakeDurable

Safety == Init /\ [][Next]_vars

Spec == Safety /\ WF_vars(MakeDurable)
=============================================================================
