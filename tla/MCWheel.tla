------------------------------ MODULE MCWheel -------------------------------
(* Dictionaries for the run of Wheel: every choice of at least five of      *)
(* eight words of two letters over a, b and c, in the order of the alphabet,*)
(* and two lists with words of one and of three letters.                    *)
EXTENDS Wheel

Letters == {"a", "b", "c"}
TwoLetters == << <<"a", "a">>, <<"a", "b">>, <<"a", "c">>,
                 <<"b", "a">>, <<"b", "b">>, <<"b", "c">>,
                 <<"c", "a">>, <<"c", "b">> >>

Lists == {SelectSeq(TwoLetters, LAMBDA w : w \in S) :
             S \in {T \in SUBSET ToSet(TwoLetters) : Cardinality(T) >= 5}}
           \cup {<< <<"a">>, <<"b">>, <<"a", "b", "a">>, <<"c", "c", "c">>,
                    <<"a", "b", "b">>, <<"a", "b", "c">>, <<"b", "b", "b">> >>,
                 << <<"a", "b", "c">>, <<"b", "a", "c">>, <<"a", "c", "b">>,
                    <<"c", "b", "a">>, <<"a", "a", "c">> >>}
=============================================================================
