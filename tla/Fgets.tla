-------------------------------- MODULE Fgets --------------------------------
(***************************************************************************)
(* What the loops over fgets in a3/mkwords.c and lab8/validate.c make of a *)
(* file.  fgets reads a line, or what fits of it into size - 1 bytes, and  *)
(* the loop takes off the last byte that was read, newline or not: a line  *)
(* that does not fit comes in pieces, and each loses its last character.   *)
(***************************************************************************)
EXTENDS Integers, Sequences, SequencesExt

Newline == "\n"

AtMost(s, n) == SubSeq(s, 1, IF Len(s) < n THEN Len(s) ELSE n)

(* A line is its characters with the newline. *)
Pieces(lines, size) ==
  LET room == size - 1
      Piece(s, k) == AtMost(SubSeq(s, (k - 1) * room + 1, Len(s)), room)
      Words(s) == [k \in 1..((Len(s) + room - 1) \div room) |-> Front(Piece(s, k))]
  IN FlattenSeq([l \in DOMAIN lines |-> Words(lines[l])])
=============================================================================
