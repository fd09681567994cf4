------------------------------ MODULE Hangman ------------------------------
(***************************************************************************)
(* The word game as its players understand it (a4): the letters of a       *)
(* secret word are uncovered one letter at a time, every other guess costs *)
(* one of MaxGuesses tries, and a new word is drawn only when the word is  *)
(* uncovered or no try is left.                                            *)
(***************************************************************************)
EXTENDS Integers, Sequences

CONSTANTS Words,       \* the dictionary: a set of sequences of letters
          MaxGuesses   \* MAX_GUESSES

VARIABLES secret,   \* the word to guess
          shown,    \* the letters of it that are uncovered
          left      \* the tries that remain

vars == <<secret, shown, left>>

LettersOf(w) == {w[k] : k \in DOMAIN w}

Over == left = 0 \/ shown = LettersOf(secret)

Init == /\ secret \in Words
        /\ shown = {}
        /\ left = MaxGuesses

Uncover(l) == /\ ~Over
              /\ l \in LettersOf(secret) \ shown
              /\ shown' = shown \cup {l}
              /\ UNCHANGED <<secret, left>>

Miss == /\ ~Over
        /\ left' = left - 1
        /\ UNCHANGED <<secret, shown>>

Restart == /\ Over
           /\ secret' \in Words
           /\ shown' = {}
           /\ left' = MaxGuesses

Next == Miss \/ Restart \/ \E l \in LettersOf(secret) : Uncover(l)

Spec == Init /\ [][Next]_vars
=============================================================================
