---------------------------- MODULE OrderedMerge ----------------------------
(***************************************************************************)
(* What a3/psort promises its caller, without processes or pipes: the      *)
(* records of the input leave in non-decreasing order of frequency, each   *)
(* at most once, and the only other thing that may happen to a record is   *)
(* that a sorting process dies and takes with it what it had not sent.     *)
(***************************************************************************)
EXTENDS Integers, Sequences

CONSTANTS Rec,      \* the records of the input file, by position
          Inputs    \* the input files: functions from Rec to frequencies

VARIABLES freq,       \* the frequency of every record
          remaining,  \* the records that can still be written
          written     \* the records written to the output file, in order

vars == <<freq, remaining, written>>

TypeOK == /\ freq \in Inputs
          /\ remaining \in SUBSET Rec
          /\ written \in Seq(Rec)

Init == /\ freq \in Inputs
        /\ remaining = Rec
        /\ written = <<>>

(* The next record written is one that no remaining record precedes. *)
Emit(r) == /\ r \in remaining
           /\ \A s \in remaining : freq[r] <= freq[s]
           /\ written' = Append(written, r)
           /\ remaining' = remaining \ {r}
           /\ UNCHANGED freq

(* A sorting process dies: records it had not sent never arrive. *)
Lose == /\ \E S \in SUBSET remaining : remaining' = remaining \ S
        /\ UNCHANGED <<freq, written>>

Next == Lose \/ \E r \in Rec : Emit(r)

Spec == Init /\ [][Next]_vars
=============================================================================
