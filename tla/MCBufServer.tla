---------------------------- MODULE MCBufServer -----------------------------
(* Streams for the run of BufServer, whose buffer holds four bytes: every   *)
(* stream of four bytes, some longer ones with lines that fit, do not fit,  *)
(* are empty, or hold a single \r or \n.  The second client sends a line.   *)
EXTENDS BufServer

Clients == {"c1", "c2"}

Longer == {<<Text, CR, LF, Text, CR, LF>>,
           <<CR, LF, CR, LF, CR, LF>>,
           <<Text, CR, LF, Text, Text, Text, CR, LF>>,
           <<LF, CR, LF, CR, CR, LF>>}

Streams == {[c \in Clients |-> IF c = "c1" THEN s ELSE <<Text, CR, LF>>] :
              s \in [1..4 -> Byte] \cup Longer}
=============================================================================
