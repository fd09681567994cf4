----------------------------- MODULE LineStream -----------------------------
(***************************************************************************)
(* What lab10/bufserver promises: however the bytes of a client arrive,    *)
(* the lines of its stream are printed one after the other, whole, in      *)
(* order and without their network newlines.                               *)
(***************************************************************************)
EXTENDS Integers, Sequences, FiniteSets

CONSTANTS Client,   \* the clients
          Inputs    \* the streams they may send: functions from Client

CR == "CR"
LF == "LF"

VARIABLES stream,   \* the bytes of every client
          printed   \* the lines printed for every client

vars == <<stream, printed>>

(* The positions at which the lines of a stream end. *)
LineEnds(s) == {k \in 2..Len(s) : s[k - 1] = CR /\ s[k] = LF}

(* The end of the m-th line, where line 0 ends at position 0. *)
LineEnd(s, m) == IF m = 0 THEN 0
                 ELSE CHOOSE k \in LineEnds(s) :
                        Cardinality({e \in LineEnds(s) : e <= k}) = m

LineAt(s, m) == SubSeq(s, LineEnd(s, m - 1) + 1, LineEnd(s, m) - 2)

Init == /\ stream \in Inputs
        /\ printed = [c \in Client |-> <<>>]

PrintNext(c) ==
  LET m == Len(printed[c]) + 1
  IN /\ m <= Cardinality(LineEnds(stream[c]))
     /\ printed' = [printed EXCEPT ![c] = Append(@, LineAt(stream[c], m))]
     /\ UNCHANGED stream

Next == \E c \in Client : PrintNext(c)

Spec == Init /\ [][Next]_vars
=============================================================================
