------------------------------ MODULE MCPSort ------------------------------
(* Input files for the runs of PSort. *)
EXTENDS PSort

(* Every pattern of two frequencies, with and without INT_MAX among them.  *)
AllInputs == [Rec -> {0, 1}] \cup [Rec -> {1, IntMax}]

(* Six records: the first child's come first, come last, alternate with    *)
(* the second child's, and are all equal.                                  *)
SomeInputs == {[r \in Rec |-> r],
               [r \in Rec |-> (r + 3) % 6],
               [r \in Rec |-> 2 * (r % 3) + (r \div 3)],
               [r \in Rec |-> 0]}
=============================================================================
