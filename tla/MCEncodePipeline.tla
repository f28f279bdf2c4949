-------------------------- MODULE MCEncodePipeline --------------------------
(* Instances of EncodePipeline for TLC: encoders A and B with one or two   *)
(* slots, the local worker L with one, packages p and q.                   *)
EXTENDS EncodePipeline, TLC

CONSTANTS A, B, L, a1, a2, b1, l1

\* The encoder of each slot, in the order the slots are named for.
MCOwner == [t \in Threads |->
    CASE t \in {a1, a2} -> A [] t = b1 -> B [] t = l1 -> L]

\* No channel restricts where the packages may be encoded.
AnyPolicy == [p \in Packages |-> {}]

=============================================================================
