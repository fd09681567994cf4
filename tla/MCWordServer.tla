---------------------------- MODULE MCWordServer ----------------------------
(* Values for the runs of WordServer. *)
EXTENDS WordServer

Letters == {"a", "b"}
Chars == Letters \cup {"-"}
Dictionary == {<<"a">>, <<"b", "a">>}

(* With reads of 5 bytes, two of these lines sent at once leave an LF to   *)
(* the next read.                                                          *)
OneLine == {<<"a", CR, LF>>}

(* Parts of lines, and a line that only just fits: after an LF it does not.*)
Pieces == OneLine \cup {<<"b">>, <<CR>>, <<LF>>, <<"a", "b", "-", CR, LF>>}
=============================================================================
