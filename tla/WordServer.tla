----------------------------- MODULE WordServer -----------------------------
(***************************************************************************)
(* a4/wordsrv.c: one process that serves the word game to its clients with *)
(* select.  A client is named by its descriptor in the server; a struct    *)
(* client lives as long as its descriptor, so it has the same name.        *)
(*                                                                         *)
(* The server is single-threaded, but every write may find that the peer   *)
(* has gone, and then calls disconnect, which writes to the others, and so *)
(* on.  todo is the call stack of a handler: the steps it still has to     *)
(* take, the innermost call first.  Clients send, close and reset between  *)
(* any two steps.                                                          *)
(***************************************************************************)
EXTENDS WordGame, SequencesExt

CONSTANTS
  Fd,            \* descriptors clients may get, 1 .. the number of clients
  MAX_QUEUE,     \* the length of the listen queue
  MAX_WORD, MAX_NAME, \* bytes that read_input takes from a player, a newcomer
  Char,          \* the characters that clients type
  Messages,      \* bound: the pieces in which the clients of a run send
  MaxConnects,   \* bound: connections in a behaviour
  MaxSends,      \* bound: messages clients send
  MaxDrops,      \* bound: connections clients close or reset
  MaxStalls      \* bound: times a client stops reading

NoFd == 0        \* NULL
Start == -1      \* a loop that begins at game->head when its turn comes

CR == "\r"
LF == "\n"
Byte == Char \cup {CR, LF}

ASSUME FdAssumption == /\ Fd \subseteq Nat \ {0} /\ IsFiniteSet(Fd)
                      /\ {MAX_QUEUE, MaxConnects, MaxSends, MaxDrops, MaxStalls}
                           \subseteq Nat
ASSUME ByteAssumption == /\ {MAX_WORD, MAX_NAME} \subseteq Nat \ {0}
                        /\ Letter \subseteq Char /\ {CR, LF} \cap Char = {}
                        /\ Messages \subseteq Seq(Byte) \ {<<>>}

VARIABLES
  head, new_players,      \* the two linked lists, as sequences
  turn,                   \* has_next_turn
  name,                   \* each client's name; empty before it has one
  allset,                 \* the clients' descriptors that select watches
  todo,                   \* the handler that is running
  rset,                   \* descriptors of this round of select still to see
  stale,                  \* the next field left in a freed struct client
  srv,                    \* how the server process is
  sock, backlog,          \* sockets as the server finds them
  inbox,                  \* the bytes that have arrived and are not read
  knows_turn, knows_game, \* players told since the turn or the board changed
  connects, sends, drops, stalls  \* counters for the bounds

lists == <<head, new_players, turn, name, allset>>
control == <<todo, rset, stale, srv>>
net == <<sock, inbox, backlog>>
told == <<knows_turn, knows_game>>
bounds == <<connects, sends, drops, stalls>>
vars == <<game, lists, control, net, told, bounds>>

Init == /\ InitGame
        /\ head = <<>> /\ new_players = <<>> /\ turn = NoFd
        /\ name = [f \in Fd |-> <<>>] /\ allset = {}
        /\ todo = <<>> /\ rset = {}
        /\ stale = [f \in Fd |-> NoFd]
        /\ srv = "up"
        /\ sock = [f \in Fd |-> "free"]
        /\ inbox = [f \in Fd |-> <<>>]
        /\ backlog = 0
        /\ knows_turn = {} /\ knows_game = {}
        /\ connects = 0 /\ sends = 0 /\ drops = 0 /\ stalls = 0

-----------------------------------------------------------------------------
(* The clients and the network. *)

Connect == /\ connects < MaxConnects
           /\ backlog < MAX_QUEUE
           /\ backlog < Cardinality({f \in Fd : sock[f] = "free"})
           /\ connects' = connects + 1
           /\ backlog' = backlog + 1
           /\ UNCHANGED <<game, lists, control, sock, inbox, told, sends, drops,
                          stalls>>

(* A client sends a line, a part of one, or several; the network may cut   *)
(* and join them.                                                          *)
Send(f, m) == /\ sock[f] \in {"open", "full"}
              /\ sends < MaxSends
              /\ sends' = sends + 1
              /\ inbox' = [inbox EXCEPT ![f] = @ \o m]
              /\ UNCHANGED <<game, lists, control, sock, backlog, told,
                             connects, drops, stalls>>

(* eof: the peer has closed; a write may still succeed, or meet the RST    *)
(* that an earlier one provoked and raise SIGPIPE.  reset: a RST came      *)
(* first; reads and writes return -1.  A peer that closes before it has    *)
(* read all that was sent to it always sends a RST.                        *)
Drop(f) == /\ sock[f] \in {"open", "full"}
           /\ drops < MaxDrops
           /\ drops' = drops + 1
           /\ \E s \in {"eof", "reset"} :
                /\ sock[f] = "full" => s = "reset"
                /\ sock' = [sock EXCEPT ![f] = s]
           /\ UNCHANGED <<game, lists, control, inbox, backlog, told,
                          connects, sends, stalls>>

(* The peer stops reading, and the buffers between it and the server fill  *)
(* up: the server's next write to it will block.                           *)
Stall(f) == /\ sock[f] = "open"
            /\ stalls < MaxStalls
            /\ stalls' = stalls + 1
            /\ sock' = [sock EXCEPT ![f] = "full"]
            /\ UNCHANGED <<game, lists, control, inbox, backlog, told,
                           connects, sends, drops>>

Resume(f) == /\ sock[f] = "full"
             /\ sock' = [sock EXCEPT ![f] = "open"]
             /\ UNCHANGED <<game, lists, control, inbox, backlog, told, bounds>>

-----------------------------------------------------------------------------
(* Helpers of the server's steps. *)

First(q) == IF q = <<>> THEN NoFd ELSE q[1]

Position(q, f) == CHOOSE k \in DOMAIN q : q[k] = f

(* p->next for a node of the list q. *)
Next_in(q, f) == First(SubSeq(q, 1 + Position(q, f), Len(q)))

(* The list q after remove_player has unlinked the node f, if it is there. *)
Without(q, f) == IF f \in ToSet(q) THEN RemoveAt(q, Position(q, f)) ELSE q

Task(op, f) == [op |-> op, fd |-> f]
Text == Task("text", Start)        \* broadcast of a message
Status == Task("status", Start)    \* broadcast of status_message
AnnounceTurn == Task("announce_turn", NoFd)
NewGame == <<Text, Task("init_game", NoFd), Status, AnnounceTurn>>

(* curr = curr->next in the loop op, after curr was disconnected. *)
GoOn == [text |-> "next_text", status |-> "next_status",
         tell_others |-> "next_tell_others", tell_losers |-> "next_tell_losers"]

(* The rest of a list loop whose next node is f. *)
Loop(op, f) == IF f = NoFd THEN <<>> ELSE <<Task(op, f)>>

(* The running step is replaced by the steps ts. *)
Continue(ts) == todo' = ts \o Tail(todo)

(* The outcomes of write; on a full socket it blocks.                      *)
CanWrite(f) == sock[f] \in {"open", "eof"}
WriteFails(f) == sock[f] \in {"free", "reset"}
Gone(f) == sock[f] \in {"eof", "reset"}

(* The process ends, or stays in a loop for ever. *)
Die(how) == /\ srv' = how
            /\ UNCHANGED <<game, lists, todo, rset, stale, net, told, bounds>>

BrokenPipe(f) == sock[f] = "eof" /\ Die("killed")

(* Mutant: remove_player does not close the descriptor. *)
Closed_Not(f) == UNCHANGED <<allset, sock, inbox>>

(* advance_turn, called while the player with the turn is in the list. *)
Successor == LET s == Next_in(head, turn) IN IF s = NoFd THEN head[1] ELSE s

Closed(f) == /\ allset' = allset \ {f}
             /\ sock' = [sock EXCEPT ![f] = "free"]
             /\ inbox' = [inbox EXCEPT ![f] = <<>>]

-----------------------------------------------------------------------------
(* main's loop: select, then accept, then every descriptor in order. *)

Ready == {f \in allset : inbox[f] # <<>> \/ Gone(f)}

Select ==
  /\ todo = <<>> /\ rset = {}
  /\ Ready # {} \/ backlog > 0
  /\ rset' = Ready
  /\ todo' = IF backlog > 0 THEN <<Task("accept", NoFd)>> ELSE <<>>
  /\ stale' = [f \in Fd |-> NoFd]
  /\ UNCHANGED <<game, lists, srv, net, told, bounds>>

(* Mutant: the descriptor of the listening socket is taken for a client's. *)
LowestFree_Listen == NoFd

(* The kernel hands out the lowest free descriptor. *)
LowestFree == CHOOSE f \in Fd : /\ sock[f] = "free"
                                /\ \A g \in Fd : sock[g] = "free" => f <= g

(* Mutant: the new descriptor is not watched until it has a name. *)
Watched_Not(f) == allset

Watched(f) == allset \cup {f}

(* Mutant: has_next_turn, when NULL, is set on connecting, not on joining. *)
TurnOnAccept_First == IF turn = NoFd THEN LowestFree ELSE turn

(* accept and add_player to new_players leave has_next_turn alone. *)
TurnOnAccept == turn

Accept ==
  /\ Head(todo).op = "accept"
  /\ backlog' = backlog - 1
  /\ sock' = [sock EXCEPT ![LowestFree] = "open"]
  /\ name' = [name EXCEPT ![LowestFree] = <<>>]
  /\ allset' = Watched(LowestFree)
  /\ new_players' = <<LowestFree>> \o new_players
  /\ turn' = TurnOnAccept
  /\ Continue(<<Task("greet", LowestFree)>>)
  /\ UNCHANGED <<game, head, rset, stale, srv, inbox, told, bounds>>

(* The first write to the client: it cannot meet an RST that an earlier    *)
(* write provoked.                                                         *)
Greet(f) ==
  /\ Head(todo) = Task("greet", f)
  /\ \/ /\ CanWrite(f)
        /\ Continue(<<>>)
        /\ UNCHANGED <<game, lists, rset, stale, srv, net, told, bounds>>
     \/ /\ WriteFails(f)
        /\ new_players' = Without(new_players, f)
        /\ Closed(f)
        /\ Continue(<<>>)
        /\ UNCHANGED <<game, head, turn, name, rset, stale, srv, backlog,
                       told, bounds>>

(* The scan of the descriptors has come to f. *)
Scanning(f) == /\ todo = <<>>
               /\ f \in rset
               /\ \A g \in rset : f <= g
               /\ rset' = rset \ {f}

(* f was closed by the handler of a smaller descriptor. *)
ScanGone(f) == /\ Scanning(f)
               /\ f \notin allset
               /\ UNCHANGED <<game, lists, todo, stale, srv, net, told, bounds>>

(* What read_input has in its buffer when it has read all it can: the bytes*)
(* that have arrived, up to the size it is called with.                    *)
Size(f) == IF f \in ToSet(head) THEN MAX_WORD ELSE MAX_NAME
Taken(f) == IF Len(inbox[f]) < Size(f) THEN Len(inbox[f]) ELSE Size(f)
Received(f) == SubSeq(inbox[f], 1, Taken(f))

(* strstr(buff, "\r\n") # NULL *)
HasNewline(q) == \E k \in 1..(Len(q) - 1) : q[k] = CR /\ q[k + 1] = LF

(* read_input returns: the last two bytes it has read are cut off, wherever*)
(* the newline was, and what is beyond its buffer is left for later.       *)
Returns(f, m) == /\ HasNewline(Received(f))
                 /\ m = SubSeq(inbox[f], 1, Taken(f) - 2)

ReadLine(f, m) ==
  /\ Scanning(f)
  /\ Returns(f, m)
  /\ inbox' = [inbox EXCEPT ![f] = SubSeq(@, Taken(f) + 1, Len(@))]

(* read_input returns -2. *)
ReadEOF(f) ==
  /\ Scanning(f)
  /\ f \in allset /\ inbox[f] = <<>> /\ sock[f] = "eof"
  /\ \/ /\ f \in ToSet(head)
        /\ todo' = <<Task("disconnect", f)>>
        /\ UNCHANGED <<game, lists, stale, srv, net, told, bounds>>
     \/ /\ f \in ToSet(new_players)
        /\ new_players' = Without(new_players, f)
        /\ Closed(f)
        /\ UNCHANGED <<game, head, turn, name, todo, stale, srv, backlog,
                       told, bounds>>

(* The buffer is full, and there is no newline in it.  *)
Overlong(f) == Len(inbox[f]) >= Size(f) /\ ~HasNewline(Received(f))

(* read_input does not return: the first read fails and it exits, or its   *)
(* loop reads 0 or -1 bytes, or has no room left, for ever.  While the     *)
(* peer may still send the newline, the server blocks in read: no action   *)
(* of this section is enabled.                                             *)
ReadDies(f) ==
  /\ todo = <<>> /\ f \in rset /\ \A g \in rset : f <= g
  /\ f \in allset
  /\ \/ inbox[f] = <<>> /\ sock[f] = "reset" /\ Die("exited")
     \/ /\ inbox[f] # <<>> /\ ~HasNewline(Received(f))
        /\ Gone(f) \/ Overlong(f)
        /\ Die("hung")

-----------------------------------------------------------------------------
(* The handlers of a line. *)

(* Mutant: no status. *)
GuessTasks_NoStatus == <<Text, AnnounceTurn, Task("check_over", NoFd)>>

GuessTasks == <<Text, Status, AnnounceTurn, Task("check_over", NoFd)>>

HasTurn(f) == f = turn

(* strlen is 1, and islower. *)
IsLetter(m) == \E l \in Letter : m = <<l>>

GuessRight(f, l) ==
  /\ ReadLine(f, <<l>>)
  /\ f \in ToSet(head) /\ HasTurn(f)
  /\ RightGuess(l)
  /\ todo' = IF Complete(guess')
             THEN <<Text, Task("tell_winner", f)>> \o NewGame
             ELSE GuessTasks
  /\ knows_game' = {}
  /\ UNCHANGED <<lists, stale, srv, sock, backlog, knows_turn, bounds>>

GuessWrong(f, l) ==
  /\ ReadLine(f, <<l>>)
  /\ f \in ToSet(head) /\ HasTurn(f)
  /\ CanWrite(f)
  /\ WrongGuess(l)
  /\ turn' = Successor
  /\ knows_turn' = IF turn' = turn THEN knows_turn ELSE {}
  /\ knows_game' = {}
  /\ todo' = GuessTasks
  /\ UNCHANGED <<head, new_players, name, allset, stale, srv, sock, backlog,
                 bounds>>

GuessInvalid(f, m) ==
  /\ ReadLine(f, m)
  /\ f \in ToSet(head) /\ HasTurn(f)
  /\ ~IsLetter(m)
  /\ CanWrite(f)
  /\ todo' = <<Status, AnnounceTurn, Task("check_over", NoFd)>>
  /\ UNCHANGED <<game, lists, stale, srv, sock, backlog, told, bounds>>

OutOfTurn(f, m) ==
  /\ ReadLine(f, m)
  /\ f \in ToSet(head) /\ ~HasTurn(f)
  /\ CanWrite(f)
  /\ todo' = <<Task("check_over", NoFd)>>
  /\ UNCHANGED <<game, lists, stale, srv, sock, backlog, told, bounds>>

(* The answer to a wrong, invalid or untimely line cannot be written. *)
AnswerFails(f, m) ==
  /\ f \in ToSet(head)
  /\ ~(HasTurn(f) /\ IsLetter(m) /\ Found(m[1]))
  /\ \/ /\ ReadLine(f, m)
        /\ WriteFails(f)
        /\ todo' = <<Task("disconnect", f)>>
        /\ UNCHANGED <<game, lists, stale, srv, sock, backlog, told, bounds>>
     \/ /\ todo = <<>> /\ f \in rset /\ \A g \in rset : f <= g
        /\ Returns(f, m)
        /\ BrokenPipe(f)

NameTaken(m) == \E c \in ToSet(head) : name[c] = m

(* Mutant: the first player to join does not get the turn. *)
TurnOnJoin_Not(f) == turn

TurnOnJoin(f) == IF turn = NoFd THEN f ELSE turn

(* A newcomer's first line is its name.  It joins even if the name is      *)
(* taken: INVALID_MSG is written, and the break leaves only the inner loop.*)
Join(f, m) ==
  /\ ReadLine(f, m)
  /\ f \in ToSet(new_players)
  /\ NameTaken(m) => CanWrite(f)
  /\ name' = [name EXCEPT ![f] = m]
  /\ turn' = TurnOnJoin(f)
  /\ knows_turn' = IF turn' = turn THEN knows_turn ELSE {}
  /\ new_players' = Without(new_players, f)
  /\ head' = <<f>> \o head
  /\ todo' = <<Text, Task("join_status", f)>>
  /\ UNCHANGED <<game, allset, stale, srv, sock, backlog, knows_game, bounds>>

(* INVALID_MSG cannot be written: the client is freed, and looking for its *)
(* predecessor in new_players runs off the end of the list.                *)
JoinFails(f, m) ==
  /\ todo = <<>> /\ f \in rset /\ \A g \in rset : f <= g
  /\ Returns(f, m)
  /\ f \in ToSet(new_players)
  /\ NameTaken(m)
  /\ \/ WriteFails(f) /\ Die("crashed")
     \/ BrokenPipe(f)

-----------------------------------------------------------------------------
(* The functions the handlers call, step by step. *)

Running(op) == todo # <<>> /\ Head(todo).op = op

(* The node at which a loop stands. *)
Current == IF Head(todo).fd = Start THEN First(head) ELSE Head(todo).fd

(* curr->next after curr was freed by disconnect: the old value, or an     *)
(* invalid address if the allocator has used the memory.                   *)
UseAfterFree ==
  \E op \in {"text", "status", "tell_others", "tell_losers"} :
    /\ Running(GoOn[op])
    /\ \/ /\ Continue(Loop(op, stale[Head(todo).fd]))
          /\ UNCHANGED <<game, lists, rset, stale, srv, net, told, bounds>>
       \/ Die("crashed")

LoopEnds(op) == /\ Running(op)
                /\ Current = NoFd
                /\ Continue(<<>>)
                /\ UNCHANGED <<game, lists, rset, stale, srv, net, told, bounds>>

(* One round of a loop that writes to the node it stands at. *)
LoopWriteOk(op) ==
  /\ Running(op) /\ Current # NoFd
  /\ CanWrite(Current)
  /\ Continue(Loop(op, Next_in(head, Current)))
  /\ UNCHANGED <<game, lists, rset, stale, srv, net, bounds>>

LoopWriteFails(op) ==
  /\ Running(op) /\ Current # NoFd
  /\ \/ /\ WriteFails(Current)
        /\ Continue(<<Task("disconnect", Current), Task(GoOn[op], Current)>>)
        /\ UNCHANGED <<game, lists, rset, stale, srv, net, told, bounds>>
     \/ BrokenPipe(Current)

Broadcast ==
  \E op \in {"text", "status"} :
    \/ LoopEnds(op)
    \/ /\ LoopWriteOk(op)
       /\ knows_game' = IF op = "status" THEN knows_game \cup {Current}
                                         ELSE knows_game
       /\ UNCHANGED knows_turn
    \/ LoopWriteFails(op)

(* The write to the player whose turn it is. *)
Announce ==
  /\ Running("announce_turn")
  /\ \/ turn = NoFd /\ Die("crashed")
     \/ /\ turn # NoFd
        /\ CanWrite(turn)
        /\ knows_turn' = knows_turn \cup {turn}
        /\ Continue(<<Task("tell_others", Start)>>)
        /\ UNCHANGED <<game, lists, rset, stale, srv, net, knows_game, bounds>>
     \/ /\ turn # NoFd
        /\ WriteFails(turn)
        /\ Continue(<<Task("disconnect", turn), Task("tell_others", Start)>>)
        /\ UNCHANGED <<game, lists, rset, stale, srv, net, told, bounds>>
     \/ turn # NoFd /\ BrokenPipe(turn)

(* Mutant: the player is skipped without going on to the next node. *)
SkipTurn_Stays(op) == /\ Running(op)
                      /\ Current = turn /\ turn # NoFd
                      /\ UNCHANGED vars

(* Skip the player whose turn it is in the loops of announce_turn and      *)
(* announce_winner.                                                        *)
SkipTurn(op) == /\ Running(op)
                /\ Current = turn /\ turn # NoFd
                /\ Continue(Loop(op, Next_in(head, Current)))
                /\ UNCHANGED <<game, lists, rset, stale, srv, net, told, bounds>>

(* The message names has_next_turn: a null pointer is dereferenced.        *)
TellOthers ==
  \/ /\ Running("tell_others") /\ Head(todo).fd = Start /\ turn = NoFd
     /\ Die("crashed")
  \/ /\ ~(Head(todo).fd = Start /\ turn = NoFd)
     /\ \/ LoopEnds("tell_others")
        \/ SkipTurn("tell_others")
        \/ Current # turn /\ LoopWriteFails("tell_others")
        \/ /\ Current # turn /\ LoopWriteOk("tell_others")
           /\ knows_turn' = knows_turn \cup {Current}
           /\ UNCHANGED knows_game

(* announce_winner's write to the winner, whose node may be freed.         *)
TellWinner ==
  LET w == Head(todo).fd IN
  /\ Running("tell_winner")
  /\ \/ /\ CanWrite(w)
        /\ Continue(<<Task("tell_losers", Start)>>)
        /\ UNCHANGED <<game, lists, rset, stale, srv, net, told, bounds>>
     \/ /\ WriteFails(w)
        /\ Continue(<<Task("disconnect", w), Task("tell_losers", Start)>>)
        /\ UNCHANGED <<game, lists, rset, stale, srv, net, told, bounds>>
     \/ BrokenPipe(w)
     \/ w \notin ToSet(head) /\ Die("crashed")

TellLosers ==
  \/ LoopEnds("tell_losers")
  \/ SkipTurn("tell_losers")
  \/ Current # turn /\ LoopWriteOk("tell_losers") /\ UNCHANGED told
  \/ Current # turn /\ LoopWriteFails("tell_losers")

(* Mutant: has_next_turn is left alone. *)
TurnWithout_Kept(f) == turn

(* has_next_turn after disconnect, where that does not crash: NULL, as     *)
(* advance_turn makes it, if f had the turn and was the last player.       *)
TurnWithout(f) == IF f = turn THEN NoFd ELSE turn

(* disconnect dereferences has_next_turn; advance_turn, called with NULL   *)
(* there, dereferences it too unless the list is empty.                    *)
Disconnect ==
  LET f == Head(todo).fd
      rest == Without(head, f)
      crashes == turn = NoFd \/ (f = turn /\ rest # <<>>)
  IN /\ Running("disconnect")
     /\ \/ crashes /\ Die("crashed")
        \/ /\ ~crashes
           /\ turn' = TurnWithout(f)
           /\ head' = rest
           /\ IF f \in ToSet(head)
              THEN /\ Closed(f)
                   /\ stale' = [stale EXCEPT ![f] = Next_in(head, f)]
              ELSE UNCHANGED <<allset, sock, inbox, stale>>
           /\ knows_turn' = knows_turn \ {f}
           /\ knows_game' = knows_game \ {f}
           /\ Continue(IF rest = <<>> THEN <<>> ELSE <<Text, AnnounceTurn>>)
           /\ UNCHANGED <<game, new_players, name, rset, srv, backlog, bounds>>

StartGame == /\ Running("init_game")
             /\ init_game
             /\ knows_game' = {}
             /\ Continue(<<>>)
             /\ UNCHANGED <<lists, rset, stale, srv, net, knows_turn, bounds>>

(* Mutant: the game ends while one guess is left. *)
NoGuessLeft_Early == guesses_left <= 1

NoGuessLeft == guesses_left <= 0

CheckOver == /\ Running("check_over")
             /\ Continue(IF NoGuessLeft THEN <<Text>> \o NewGame ELSE <<>>)
             /\ UNCHANGED <<game, lists, rset, stale, srv, net, told, bounds>>

(* The status for the client that joined, which may have been disconnected *)
(* by the broadcast before it: its descriptor is closed, its node freed.   *)
JoinStatus ==
  LET f == Head(todo).fd IN
  /\ Running("join_status")
  /\ \/ /\ CanWrite(f)
        /\ knows_game' = knows_game \cup {f}
        /\ Continue(<<AnnounceTurn>>)
        /\ UNCHANGED <<game, lists, rset, stale, srv, net, knows_turn, bounds>>
     \/ /\ WriteFails(f)
        /\ Continue(<<Task("disconnect", f)>>)
        /\ UNCHANGED <<game, lists, rset, stale, srv, net, told, bounds>>
     \/ BrokenPipe(f)
     \/ f \notin ToSet(head) /\ Die("crashed")

-----------------------------------------------------------------------------
Handle(f) == \/ ScanGone(f) \/ ReadEOF(f) \/ ReadDies(f)
             \/ \E l \in Letter : GuessRight(f, l) \/ GuessWrong(f, l)
             \/ LET m == SubSeq(inbox[f], 1, Taken(f) - 2)
                IN \/ GuessInvalid(f, m) \/ OutOfTurn(f, m)
                   \/ AnswerFails(f, m)
                   \/ Join(f, m) \/ JoinFails(f, m)

Call == \/ Announce \/ TellOthers \/ TellWinner \/ TellLosers \/ Broadcast
        \/ UseAfterFree \/ Disconnect \/ StartGame \/ CheckOver \/ JoinStatus

Server == /\ srv = "up"
          /\ \/ Select
             \/ todo # <<>> /\ (Accept \/ Call \/ \E f \in Fd : Greet(f))
             \/ \E f \in Fd : Handle(f)

Clients == /\ srv = "up"
           /\ \/ Connect
              \/ \E f \in Fd : \/ Drop(f) \/ Stall(f) \/ Resume(f)
                            \/ \E m \in Messages : Send(f, m)

Next == Server \/ Clients

Spec == Init /\ [][Next]_vars
FairSpec == Spec /\ WF_vars(Server)

-----------------------------------------------------------------------------
Op == {"accept", "greet", "text", "status", "announce_turn", "tell_others",
       "tell_winner", "tell_losers", "disconnect", "init_game", "check_over",
       "join_status", "next_text", "next_status", "next_tell_others",
       "next_tell_losers"}

ServerTypeOK ==
  /\ head \in Seq(Fd) /\ new_players \in Seq(Fd)
  /\ turn \in Fd \cup {NoFd}
  /\ name \in [Fd -> Seq(Byte)] /\ allset \in SUBSET Fd
  /\ todo \in Seq([op : Op, fd : Fd \cup {NoFd, Start}])
  /\ rset \in SUBSET Fd
  /\ stale \in [Fd -> Fd \cup {NoFd}]
  /\ srv \in {"up", "crashed", "killed", "exited", "hung"}
  /\ sock \in [Fd -> {"free", "open", "full", "eof", "reset"}]
  /\ inbox \in [Fd -> Seq(Byte)]
  /\ backlog \in 0..MAX_QUEUE
  /\ knows_turn \in SUBSET Fd /\ knows_game \in SUBSET Fd
  /\ connects \in 0..MaxConnects /\ sends \in 0..MaxSends
  /\ drops \in 0..MaxDrops /\ stalls \in 0..MaxStalls

(* Between two handlers. *)
Idle == srv = "up" /\ todo = <<>>

(* Every connected socket is in exactly one of the two lists and allset    *)
(* with it: no descriptor is leaked by the error paths, none is served     *)
(* after it was closed, none is in both lists (wordsrv.c:204-222, 297,     *)
(* 449-464).                                                               *)
NoLeak ==
  srv = "up" => /\ {f \in Fd : sock[f] # "free"} = allset
                /\ allset = ToSet(head) \cup ToSet(new_players)
                /\ IsInjective(head \o new_players)

(* Whenever the server goes back to its sockets, somebody has the turn as  *)
(* soon as somebody plays, and it is a player who is still there           *)
(* (wordsrv.c:119-129, 166-174, 453-455).                                  *)
TurnHeld ==
  Idle => IF head = <<>> THEN turn = NoFd ELSE turn \in ToSet(head)

(* The comment at wordsrv.c:266-271: until they have entered a name, new   *)
(* players have no turn and receive no message of the game.                *)
NamelessDoNotPlay ==
  srv = "up" => \A f \in ToSet(new_players) :
                  f # turn /\ f \notin knows_turn \cup knows_game

(* Whatever happened meanwhile, when the server goes back to its sockets   *)
(* every player has been sent the board as it is and whose turn it is, and *)
(* nobody has been disconnected unnoticed on the way (wordsrv.c:366-388).  *)
EveryoneInformed ==
  Idle => \A f \in ToSet(head) : f \in knows_turn /\ f \in knows_game

(* As long as nobody leaves, and no read finds its buffer full and no      *)
(* newline in it, the server stays up, whatever the players send and in    *)
(* whatever order they join, with an empty list of players, a taken name   *)
(* or an old game over: no handler then meets a NULL has_next_turn or a    *)
(* closed descriptor (wordsrv.c:62, 70, 124, 138, 148, 167).  Lines that   *)
(* fit may fill the buffer in that way when a read leaves a part of them.  *)
StaysUp ==
  srv # "up" => drops > 0 \/ \E f \in Fd : Overlong(f)

(* The client the running step, or the answer to the next line, goes to.   *)
WritesTo == CASE todo # <<>> /\ Head(todo).op \in {"text", "status",
                     "tell_others", "tell_losers"} -> Current
              [] todo # <<>> /\ Head(todo).op = "announce_turn" -> turn
              [] todo # <<>> -> Head(todo).fd
              [] rset # {} -> Min(rset)
              [] OTHER -> NoFd

(* One client that does not read stops the whole server.                   *)
WaitsForReader == WritesTo \in Fd /\ sock[WritesTo] = "full"

(* The server is in read_input and waits for the newline of what f, or the *)
(* last read, has left there.                                              *)
WaitsForNewline(f) ==
  /\ todo = <<>> /\ f \in rset \cap allset /\ \A g \in rset : f <= g
  /\ inbox[f] # <<>> /\ ~HasNewline(Received(f)) /\ ~Gone(f)

Waits == WaitsForReader \/ \E f \in Fd : WaitsForNewline(f)

(* Unless one client keeps it waiting for ever - for the rest of a line,   *)
(* also where read_input itself has cut it off, or in write - the server   *)
(* reads every line that has reached it, or has ended: there is no client  *)
(* of whom a whole line stays unread from some moment on (wordsrv.c:49,    *)
(* 137, 148).                                                              *)
LinesAreRead ==
  \A f \in Fd :
    []<>~Waits => []<>(~HasNewline(Received(f)) \/ srv # "up")

(* Handlers end, unless a client that does not read keeps them waiting for *)
(* ever: the calls between disconnect, broadcast and announce_turn, nested *)
(* as clients vanish during each other's goodbyes, do not go round for     *)
(* ever (wordsrv.c:47-59, 66-84, 160-180).                                 *)
HandlersEnd ==
  []<>~WaitsForReader => []<>(todo = <<>> \/ srv # "up")

(* The comment at wordsrv.c:166: if the current player drops the           *)
(* connection, the turn moves on to the next player.                       *)
TurnMovesOn ==
  Running("disconnect") /\ Head(todo).fd = turn /\ Without(head, turn) # <<>>
    => srv # "crashed"

(* The comment at wordsrv.c:157-159: if a read or a write has failed, the  *)
(* client has dropped the connection and is disconnected - the server does *)
(* not end.                                                                *)
ClientsCannotEndServer == srv \notin {"exited", "killed"}

(* The comment at wordsrv.c:132-135: read_input returns -2 when it reads 0 *)
(* bytes because the client has disconnected; it does not read for ever.   *)
ReadEndsAtEOF ==
  srv = "hung" => \A f \in rset : (\A g \in rset : f <= g) => sock[f] # "eof"

(* The comment at wordsrv.c:436: a name that already exists is rejected.   *)
NamesDiffer ==
  \A f, g \in ToSet(head) : f # g => name[f] # name[g]
=============================================================================
