--------------------------- MODULE EvasiveHangman ---------------------------
(***************************************************************************)
(* The game of a2 as its player may understand it: there is no secret      *)
(* word.  After every guess the remaining words are divided by the places  *)
(* at which the letter occurs in them, and a largest class stays.          *)
(***************************************************************************)
EXTENDS Integers, FiniteSets

CONSTANTS Letter,       \* what may be guessed
          Vocabulary,   \* all words: functions from 1..len to letters
          MaxGuesses    \* the largest number of misses a player may choose

VARIABLES words,        \* the words of the dictionary
          candidates,   \* the words that are still possible
          board,        \* what is uncovered, with dashes for the rest
          guessed,      \* the letters guessed in this round
          left          \* the misses that remain

vars == <<words, candidates, board, guessed, left>>

Dash == "-"

Signature(w, l) == [k \in DOMAIN w |-> IF w[k] = l THEN l ELSE Dash]

(* The words of S divided by the places at which l occurs in them. *)
Classes(S, l) == {{v \in S : Signature(v, l) = Signature(w, l)} : w \in S}

Largest(l) == {c \in Classes(candidates, l) :
                 \A d \in Classes(candidates, l) : Cardinality(d) <= Cardinality(c)}

Over == left = 0 \/ \A k \in DOMAIN board : board[k] # Dash

(* Before the first round the board is empty, which counts as over. *)
Init == /\ words \in SUBSET Vocabulary
        /\ candidates = {} /\ board = <<>> /\ guessed = {} /\ left = 0

(* A round begins with a length for which there are words ...              *)
Begin == /\ Over
         /\ \E w \in words :
              /\ candidates' = {v \in words : DOMAIN v = DOMAIN w}
              /\ board' = [k \in DOMAIN w |-> Dash]
         /\ guessed' = {}
         /\ left' = 0
         /\ UNCHANGED words

(* ... and a number of misses. *)
Choose == /\ board # <<>> /\ guessed = {} /\ left = 0
          /\ left' \in 1..MaxGuesses
          /\ UNCHANGED <<words, candidates, board, guessed>>

Answer(l) ==
  /\ ~Over
  /\ l \notin guessed
  /\ guessed' = guessed \cup {l}
  /\ \E class \in Largest(l) :
       LET sig == Signature(CHOOSE w \in class : TRUE, l)
       IN /\ candidates' = class
          /\ board' = [k \in DOMAIN board |-> IF sig[k] = l THEN l ELSE board[k]]
          /\ left' = IF \E k \in DOMAIN sig : sig[k] = l THEN left ELSE left - 1
  /\ UNCHANGED words

Next == Begin \/ Choose \/ \E l \in Letter : Answer(l)

Spec == Init /\ [][Next]_vars
=============================================================================
