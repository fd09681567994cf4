----------------------------- MODULE MCWordGame -----------------------------
(* The dictionary for the run of WordGame: short words with repeated        *)
(* letters, and the longest kind of word in a4/dictionary.txt, nine         *)
(* letters, here all different.  There is one more letter that is not in a  *)
(* word than there are guesses.                                             *)
EXTENDS WordGame

Letters == {"a", "b", "c", "d", "e", "f", "g", "h", "i", "v", "w", "x", "y", "z"}
Dictionary == {<<"a", "b", "a">>, <<"c">>,
               <<"a", "b", "c", "d", "e", "f", "g", "h", "i">>}
=============================================================================
