----------------------------- MODULE BufServer ------------------------------
(***************************************************************************)
(* lab10/bufserver.c and its client lab10/randclient.c: the server takes   *)
(* one connection at a time, reads what has arrived into a buffer of       *)
(* BUFSIZE bytes, and prints every line that ends in \r\n.  The client     *)
(* writes its stream in pieces that have nothing to do with the lines, and *)
(* TCP joins and splits the pieces once more: a read may return any number *)
(* of the bytes that were written.                                         *)
(*                                                                         *)
(* buf is indexed from 0, as in the code.  A stream holds no '\0'.         *)
(***************************************************************************)
EXTENDS Integers, Sequences, FiniteSets

CONSTANTS
  Client,               \* the clients that connect, once each
  Inputs,               \* what they send: functions from Client to streams
  BUFSIZE,
  MINCHARS, MAXCHARS,   \* the sizes of the pieces of randclient
  MaxQuits              \* bound: clients that end early

CR == "CR"
LF == "LF"
NUL == "NUL"
Text == "x"             \* any other byte
Byte == {CR, LF, Text}

Index == 0..(BUFSIZE - 1)
NoClient == "no client"

ASSUME BufAssumption == /\ BUFSIZE \in Nat \ {0, 1}
                        /\ MINCHARS \in Nat \ {0}
                        /\ MAXCHARS \in Nat /\ MINCHARS <= MAXCHARS
                        /\ MaxQuits \in Nat
                        /\ Inputs \subseteq [Client -> Seq(Byte)]
                        /\ NoClient \notin Client

VARIABLES
  stream,           \* what every client is going to send
  current_byte,     \* how much of it the client has written
  peer,             \* how every client is
  queue,            \* connections that wait to be accepted
  pc,               \* the server: "accept", "read" or "scan"
  fd,               \* the client that is served
  taken,            \* how many of its bytes were read
  buf, inbuf, room, after,
  printed,          \* the lines printed for every client
  served,           \* the clients whose connection the server has closed
  quits             \* clients that ended early, for the bound

clients == <<stream, current_byte, peer, quits>>
buffer == <<buf, inbuf, room, after>>
vars == <<clients, queue, pc, fd, taken, buffer, printed, served>>

EmptyBuf == [k \in Index |-> NUL]

Init == /\ stream \in Inputs
        /\ current_byte = [c \in Client |-> 0]
        /\ peer = [c \in Client |-> "away"]
        /\ queue = <<>>
        /\ pc = "accept" /\ fd = NoClient /\ taken = 0
        /\ buf = EmptyBuf /\ inbuf = 0 /\ room = BUFSIZE /\ after = 0
        /\ printed = [c \in Client |-> <<>>]
        /\ served = {}
        /\ quits = 0

-----------------------------------------------------------------------------
(* The clients. *)

Connect(c) == /\ peer[c] = "away"
              /\ peer' = [peer EXCEPT ![c] = "writing"]
              /\ queue' = Append(queue, c)
              /\ UNCHANGED <<stream, current_byte, quits, pc, fd, taken, buffer,
                             printed, served>>

bytes_left(c) == Len(stream[c]) - current_byte[c]

(* A piece of random size, or what is left.  A connection that the server  *)
(* has closed takes the bytes, or answers with a SIGPIPE.                  *)
WritePiece(c) ==
  /\ peer[c] = "writing"
  /\ bytes_left(c) > 0
  /\ \/ /\ \E size \in MINCHARS..MAXCHARS :
             current_byte' = [current_byte EXCEPT ![c] =
                IF size > bytes_left(c) THEN Len(stream[c]) ELSE @ + size]
        /\ UNCHANGED peer
     \/ /\ c \in served
        /\ peer' = [peer EXCEPT ![c] = "closed"]
        /\ UNCHANGED current_byte
  /\ UNCHANGED <<stream, quits, queue, pc, fd, taken, buffer, printed, served>>

CloseClient(c) == /\ peer[c] = "writing"
                  /\ bytes_left(c) = 0
                  /\ peer' = [peer EXCEPT ![c] = "closed"]
                  /\ UNCHANGED <<stream, current_byte, quits, queue, pc, fd,
                                 taken, buffer, printed, served>>

(* The client is interrupted; its connection is closed or reset. *)
Quit(c) == /\ peer[c] = "writing"
           /\ quits < MaxQuits
           /\ quits' = quits + 1
           /\ \E how \in {"closed", "reset"} : peer' = [peer EXCEPT ![c] = how]
           /\ UNCHANGED <<stream, current_byte, queue, pc, fd, taken, buffer,
                          printed, served>>

-----------------------------------------------------------------------------
(* The server. *)

(* accept fails for a connection that was reset while it waited.           *)
Accept ==
  /\ pc = "accept"
  /\ queue # <<>>
  /\ queue' = Tail(queue)
  /\ \/ /\ fd' = Head(queue)
        /\ pc' = "read"
        /\ taken' = 0
        /\ buf' = EmptyBuf /\ inbuf' = 0 /\ room' = BUFSIZE /\ after' = 0
        /\ UNCHANGED served
     \/ /\ peer[Head(queue)] = "reset"
        /\ served' = served \cup {Head(queue)}
        /\ UNCHANGED <<pc, fd, taken, buffer>>
  /\ UNCHANGED <<clients, printed>>

(* Bytes that were written and not read. *)
Arrived == current_byte[fd] - taken

Read ==
  /\ pc = "read"
  /\ peer[fd] # "reset"
  /\ \E nbytes \in 1..room :
       /\ nbytes <= Arrived
       /\ buf' = [k \in Index |-> IF k \in after..(after + nbytes - 1)
                                  THEN stream[fd][taken + k - after + 1]
                                  ELSE buf[k]]
       /\ inbuf' = inbuf + nbytes
       /\ taken' = taken + nbytes
  /\ pc' = "scan"
  /\ UNCHANGED <<clients, queue, fd, room, after, printed, served>>

(* Mutant: the loop of main goes on after a read of 0 bytes. *)
ReadEnds_Negative == peer[fd] = "reset"

(* read returns 0 because the client has closed or because there is no     *)
(* room for a byte, or -1 because the connection was reset.                *)
ReadEnds == \/ peer[fd] = "reset"
            \/ room = 0
            \/ peer[fd] = "closed" /\ Arrived = 0

Close == /\ pc = "read"
         /\ ReadEnds
         /\ served' = served \cup {fd}
         /\ pc' = "accept"
         /\ fd' = NoClient
         /\ UNCHANGED <<clients, queue, taken, buffer, printed>>

(* The first of the k for which P holds, plus 2; -1 if there is none. *)
PastFirst(S) == IF S = {} THEN -1
                ELSE 2 + (CHOOSE k \in S : \A l \in S : k <= l)

(* Mutant: the loop runs one byte too far, into what was there before. *)
find_network_newline_Far(m) ==
  PastFirst({k \in Index : /\ k < m /\ k + 1 < BUFSIZE
                           /\ buf[k] = CR /\ buf[k + 1] = LF})

(* find_network_newline(buf, m) *)
find_network_newline(m) ==
  PastFirst({k \in Index : k < m - 1 /\ buf[k] = CR /\ buf[k + 1] = LF})

(* What printf("%s", b) prints. *)
CString(b) ==
  LET len == CHOOSE l \in Index : b[l] = NUL /\ \A k \in 0..(l - 1) : b[k] # NUL
  IN [k \in 1..len |-> b[k - 1]]

(* Step 5 of the loop. *)
NextRead == /\ after' = inbuf'
            /\ room' = BUFSIZE - inbuf'
            /\ pc' = "read"

(* Steps 3 and 4, with the line's end at where. *)
TakeLine(where) ==
  LET ended == [buf EXCEPT ![where - 2] = NUL]
  IN /\ printed' = [printed EXCEPT ![fd] = Append(@, CString(ended))]
     /\ buf' = [k \in Index |-> IF k < inbuf - where THEN ended[k + where]
                                                     ELSE ended[k]]
     /\ inbuf' = inbuf - where

(* Mutant: if instead of while. *)
PrintLine_Once == /\ pc = "scan"
                  /\ find_network_newline(inbuf) > 0
                  /\ TakeLine(find_network_newline(inbuf))
                  /\ NextRead
                  /\ UNCHANGED <<clients, queue, fd, taken, served>>

PrintLine == /\ pc = "scan"
             /\ find_network_newline(inbuf) > 0
             /\ TakeLine(find_network_newline(inbuf))
             /\ UNCHANGED <<clients, queue, pc, fd, taken, room, after, served>>

(* Mutant: room is not brought up to date. *)
EndScan_RoomKept == /\ pc = "scan"
                    /\ find_network_newline(inbuf) <= 0
                    /\ after' = inbuf
                    /\ pc' = "read"
                    /\ UNCHANGED <<clients, queue, fd, taken, buf, inbuf, room,
                                   printed, served>>

EndScan == /\ pc = "scan"
           /\ find_network_newline(inbuf) <= 0
           /\ UNCHANGED <<buf, inbuf>>
           /\ NextRead
           /\ UNCHANGED <<clients, queue, fd, taken, printed, served>>

Server == Accept \/ Read \/ Close \/ PrintLine \/ EndScan

Send(c) == Connect(c) \/ WritePiece(c) \/ CloseClient(c)

Next == Server \/ \E c \in Client : Send(c) \/ Quit(c)

Spec == Init /\ [][Next]_vars

(* randclient waits for nothing, and the server only for its clients. *)
FairSpec == Spec /\ WF_vars(Server) /\ \A c \in Client : WF_vars(Send(c))

-----------------------------------------------------------------------------
BufTypeOK ==
  /\ stream \in Inputs
  /\ current_byte \in [Client -> Nat]
  /\ \A c \in Client : current_byte[c] <= Len(stream[c])
  /\ peer \in [Client -> {"away", "writing", "closed", "reset"}]
  /\ queue \in Seq(Client)
  /\ pc \in {"accept", "read", "scan"}
  /\ fd \in IF pc = "accept" THEN {NoClient} ELSE Client
  /\ taken \in Nat
  /\ buf \in [Index -> Byte \cup {NUL}]
  /\ inbuf \in 0..BUFSIZE /\ room \in 0..BUFSIZE /\ after \in 0..BUFSIZE
  /\ printed \in [Client -> Seq(Seq(Byte))]
  /\ served \in SUBSET Client
  /\ quits \in 0..MaxQuits

(* The server prints the lines of every stream, whole and in order, for    *)
(* every way the bytes are cut into writes and reads (bufserver.c:42-82).  *)
Lines == INSTANCE LineStream
FramingSpec == Lines!Spec

Sent(c) == SubSeq(stream[c], 1, current_byte[c])

(* The next line, or what there is of it, does not fit in the buffer. *)
TooLong(c) ==
  LET start == Lines!LineEnd(stream[c], Len(printed[c]))
  IN /\ Len(stream[c]) >= start + BUFSIZE
     /\ \A e \in Lines!LineEnds(stream[c]) : e \notin (start + 1)..(start + BUFSIZE)

(* No line is left behind: the server never waits for bytes while it holds *)
(* a whole line (bufserver.c:55-58), and when it closes a connection it    *)
(* has printed every line that was sent, unless the connection was reset   *)
(* or the next line is longer than the buffer (bufserver.c:42, 81-85).     *)
NoLineLeftBehind ==
  /\ pc = "read" => find_network_newline(inbuf) = -1
  /\ \A c \in served :
       \/ peer[c] = "reset"
       \/ Len(printed[c]) = Cardinality(Lines!LineEnds(Sent(c)))
       \/ TooLong(c)

(* The server gets to everyone: no connection, whatever it sent and        *)
(* however it ended, keeps the server from the next one.                   *)
EveryoneServed == \A c \in Client : peer[c] = "writing" ~> c \in served
=============================================================================
