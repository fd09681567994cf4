----------------------------- MODULE MCExercises -----------------------------
(* Values for the run of Exercises.  The last name does not fit a chunk,   *)
(* and with some others it does not fit a line.                            *)
EXTENDS Exercises

TypedNames == {<<"a">>, <<"a", "b">>, <<"a", "b", "c">>}
=============================================================================
