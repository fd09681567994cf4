----------------------------- MODULE ChatServer -----------------------------
(***************************************************************************)
(* lab11/chat_server.c: a chat room on one thread.  The array usernames    *)
(* has MAX_CONNECTIONS slots of a descriptor and a name; the first thing a *)
(* client sends is its name, which main reads right after accept, and all  *)
(* that it sends later is echoed to every slot.                            *)
(*                                                                         *)
(* A client is its descriptor in the server.  What it writes is a number   *)
(* of messages: their text, and the names, play no part.  One read takes   *)
(* up to BUF_SIZE bytes, and one echo carries what it took, cut to the     *)
(* buffer at line 75; here a read takes one message or several, and an     *)
(* echo counts as one.  The client of lab11 is known only by what reaches  *)
(* the server.                                                             *)
(***************************************************************************)
EXTENDS Integers, FiniteSets

CONSTANTS
  MAX_CONNECTIONS,
  MAX_BACKLOG,
  Fd,            \* the descriptors clients may get
  MaxConnects,   \* bound: connections in a behaviour
  MaxSends,      \* bound: messages clients send, names included
  MaxDrops,      \* bound: connections clients close or reset
  MaxStalls      \* bound: times a client stops reading

ASSUME ChatAssumption ==
  /\ Fd \subseteq Nat \ {0} /\ IsFiniteSet(Fd)
  /\ MAX_CONNECTIONS \in Nat \ {0}
  /\ {MAX_BACKLOG, MaxConnects, MaxSends, MaxDrops, MaxStalls} \subseteq Nat

Slot == 0..(MAX_CONNECTIONS - 1)
NoFd == -1

VARIABLES
  sock_fd, named,       \* usernames: the descriptor, and username # NULL
  all_fds, ind,         \* of main
  listen_fds,           \* what select found ready
  client_fd,            \* the client that was accepted last
  pc, index, i,         \* where the server is, and its loops
  srv,                  \* how the server process is
  sock, inbox, backlog, \* sockets as the server finds them
  said, joined, heard,  \* messages echoed, at joining, and received
  connects, sends, drops, stalls

room == <<sock_fd, named, all_fds, ind>>
control == <<listen_fds, client_fd, pc, index, i, srv>>
net == <<sock, inbox, backlog>>
talk == <<said, joined, heard>>
bounds == <<connects, sends, drops, stalls>>
vars == <<room, control, net, talk, bounds>>

Init == /\ sock_fd = [k \in Slot |-> NoFd]
        /\ named = [k \in Slot |-> FALSE]
        /\ all_fds = {} /\ ind = 0
        /\ listen_fds = {} /\ client_fd = NoFd
        /\ pc = "select" /\ index = 0 /\ i = 0
        /\ srv = "up"
        /\ sock = [f \in Fd |-> "free"]
        /\ inbox = [f \in Fd |-> 0]
        /\ backlog = 0
        /\ said = 0
        /\ joined = [f \in Fd |-> 0] /\ heard = [f \in Fd |-> 0]
        /\ connects = 0 /\ sends = 0 /\ drops = 0 /\ stalls = 0

-----------------------------------------------------------------------------
(* The clients and the network. *)

Connect == /\ connects < MaxConnects
           /\ backlog < MAX_BACKLOG
           /\ backlog < Cardinality({f \in Fd : sock[f] = "free"})
           /\ connects' = connects + 1
           /\ backlog' = backlog + 1
           /\ UNCHANGED <<room, control, sock, inbox, talk, sends, drops,
                          stalls>>

Send(f) == /\ sock[f] \in {"open", "full"}
           /\ sends < MaxSends
           /\ sends' = sends + 1
           /\ inbox' = [inbox EXCEPT ![f] = @ + 1]
           /\ UNCHANGED <<room, control, sock, backlog, talk, connects, drops,
                          stalls>>

(* eof: the peer has closed; a write succeeds, or raises SIGPIPE if an     *)
(* earlier one provoked a RST.  reset: reads and writes return -1.  A peer *)
(* that closes before it has read all that was sent to it sends a RST.     *)
Drop(f) == /\ sock[f] \in {"open", "full"}
           /\ drops < MaxDrops
           /\ drops' = drops + 1
           /\ \E s \in {"eof", "reset"} :
                /\ sock[f] = "full" => s = "reset"
                /\ sock' = [sock EXCEPT ![f] = s]
           /\ UNCHANGED <<room, control, inbox, backlog, talk, connects, sends,
                          stalls>>

(* The peer stops reading, and the buffers between it and the server fill  *)
(* up: the server's next write to it will block.                           *)
Stall(f) == /\ sock[f] = "open"
            /\ stalls < MaxStalls
            /\ stalls' = stalls + 1
            /\ sock' = [sock EXCEPT ![f] = "full"]
            /\ UNCHANGED <<room, control, inbox, backlog, talk, connects, sends,
                           drops>>

Resume(f) == /\ sock[f] = "full"
             /\ sock' = [sock EXCEPT ![f] = "open"]
             /\ UNCHANGED <<room, control, inbox, backlog, talk, bounds>>

-----------------------------------------------------------------------------
(* The process ends: exit(1), a signal, or an access outside its arrays or *)
(* of uninitialised bytes, after which nothing is modelled.                *)
Die(how) == /\ srv' = how
            /\ UNCHANGED <<room, listen_fds, client_fd, pc, index, i, net, talk,
                           bounds>>

Ready == {f \in all_fds : inbox[f] > 0 \/ sock[f] \in {"eof", "reset"}}

(* select with a closed descriptor returns -1. *)
Select ==
  /\ pc = "select"
  /\ \/ \E f \in all_fds : sock[f] = "free" /\ Die("exited")
     \/ /\ \A f \in all_fds : sock[f] # "free"
        /\ Ready # {} \/ backlog > 0
        /\ listen_fds' = Ready
        /\ pc' = IF backlog > 0 THEN "accept" ELSE "slots"
        /\ index' = 0
        /\ UNCHANGED <<room, client_fd, i, srv, net, talk, bounds>>

FreeSlots == {k \in Slot : sock_fd[k] = NoFd}
FirstOf(S) == CHOOSE k \in S : \A l \in S : k <= l

(* The kernel hands out the lowest free descriptor. *)
LowestFree == FirstOf({f \in Fd : sock[f] = "free"})

(* Mutant: the descriptor is not put into all_fds. *)
Watched_Not(f) == all_fds

Watched(f) == all_fds \cup {f}

(* Mutant: the search for a free slot begins at the second one. *)
AcceptSlot_Second == FirstOf(IF FreeSlots = {0} THEN {0} ELSE FreeSlots \ {0})

AcceptSlot == FirstOf(FreeSlots)

(* accept_connection; without a free slot it returns -1, and main goes on  *)
(* with that as a descriptor.                                              *)
Accept ==
  /\ pc = "accept"
  /\ \/ FreeSlots = {} /\ Die("wild")
     \/ /\ FreeSlots # {}
        /\ backlog' = backlog - 1
        /\ sock' = [sock EXCEPT ![LowestFree] = "open"]
        /\ client_fd' = LowestFree
        /\ sock_fd' = [sock_fd EXCEPT ![AcceptSlot] = LowestFree]
        /\ named' = [named EXCEPT ![AcceptSlot] = FALSE]
        /\ all_fds' = Watched(LowestFree)
        /\ joined' = [joined EXCEPT ![LowestFree] = said]
        /\ heard' = [heard EXCEPT ![LowestFree] = 0]
        /\ pc' = "name"
        /\ UNCHANGED <<ind, listen_fds, index, i, srv, inbox, said, bounds>>

(* A read takes one message or several that have arrived. *)
TakeFrom(f) == \E k \in 1..inbox[f] : inbox' = [inbox EXCEPT ![f] = @ - k]

(* The name is read, and the descriptor and the name are put into slot     *)
(* ind; read blocks until the new client sends something or leaves.        *)
ReadName ==
  /\ pc = "name"
  /\ \/ /\ inbox[client_fd] > 0 /\ sock[client_fd] # "reset"
        /\ ind < MAX_CONNECTIONS
        /\ TakeFrom(client_fd)
        /\ named' = [named EXCEPT ![ind] = TRUE]
        /\ sock_fd' = [sock_fd EXCEPT ![ind] = client_fd]
        /\ ind' = ind + 1
        /\ pc' = "slots"
        /\ UNCHANGED <<all_fds, listen_fds, client_fd, index, i, srv, sock,
                       backlog, talk, bounds>>
     \/ inbox[client_fd] > 0 /\ ind = MAX_CONNECTIONS /\ Die("wild")
     \/ inbox[client_fd] = 0 /\ sock[client_fd] = "eof" /\ Die("exited")
     \/ sock[client_fd] = "reset" /\ Die("wild")

(* The slots main still has to look at in this round. *)
SlotsToRead == {k \in Slot : k >= index /\ sock_fd[k] \in listen_fds}

EndRound == /\ pc = "slots"
            /\ SlotsToRead = {}
            /\ pc' = "select"
            /\ UNCHANGED <<room, listen_fds, client_fd, index, i, srv, net, talk,
                           bounds>>

(* The scan has come to slot k. *)
Scanning(k) == /\ pc = "slots"
               /\ k \in SlotsToRead
               /\ \A l \in SlotsToRead : k <= l

(* read_from up to its loop.  A username that is NULL is copied before     *)
(* anything else; a read that fails is taken for data.                     *)
ReadFrom(k) ==
  LET f == sock_fd[k]
  IN /\ Scanning(k)
     /\ \/ ~named[k] /\ Die("crashed")
        \/ named[k] /\ sock[f] = "reset" /\ Die("wild")
        \/ /\ named[k] /\ sock[f] # "reset" /\ inbox[f] > 0
           /\ TakeFrom(f)
           /\ said' = said + 1
           /\ pc' = "echo" /\ i' = 0 /\ index' = k + 1
           /\ UNCHANGED <<room, listen_fds, client_fd, srv, sock, backlog,
                          joined, heard, bounds>>

(* Mutant: the descriptor stays in all_fds. *)
Unwatched_Not(f) == all_fds

Unwatched(f) == all_fds \ {f}

(* read_from returns the descriptor, because read returned 0.              *)
Leave(k) ==
  LET f == sock_fd[k]
  IN /\ Scanning(k)
     /\ named[k] /\ sock[f] = "eof" /\ inbox[f] = 0
     /\ all_fds' = Unwatched(f)
     /\ sock' = [sock EXCEPT ![f] = "free"]
     /\ sock_fd' = [sock_fd EXCEPT ![k] = NoFd]
     /\ named' = [named EXCEPT ![k] = FALSE]
     /\ index' = k + 1
     /\ UNCHANGED <<ind, listen_fds, client_fd, pc, i, srv, inbox, backlog,
                    talk, bounds>>

(* Mutant: the loop ends at the first free slot. *)
Listeners_UpToHole == {k \in Slot : k >= i /\ \A l \in 0..k : sock_fd[l] # NoFd}

(* The slots that still have to get the message. *)
Listeners == {k \in Slot : k >= i /\ sock_fd[k] # NoFd}

(* One round of the loop that echoes the message; write blocks while the   *)
(* client does not read.                                                   *)
Echo ==
  /\ pc = "echo"
  /\ Listeners # {}
  /\ LET k == FirstOf(Listeners)
         f == sock_fd[k]
     IN \/ /\ sock[f] \in {"open", "eof"}
           /\ heard' = [heard EXCEPT ![f] = @ + 1]
           /\ i' = k + 1
           /\ UNCHANGED <<room, listen_fds, client_fd, pc, index, srv, net, said,
                          joined, bounds>>
        \/ sock[f] = "reset" /\ Die("exited")
        \/ sock[f] = "eof" /\ Die("killed")

EndEcho == /\ pc = "echo"
           /\ Listeners = {}
           /\ pc' = "slots"
           /\ UNCHANGED <<room, listen_fds, client_fd, index, i, srv, net, talk,
                          bounds>>

Server == /\ srv = "up"
          /\ \/ Select \/ Accept \/ ReadName \/ Echo \/ EndEcho \/ EndRound
             \/ \E k \in Slot : ReadFrom(k) \/ Leave(k)

Clients == /\ srv = "up"
           /\ \/ Connect
              \/ \E f \in Fd : Send(f) \/ Drop(f) \/ Stall(f) \/ Resume(f)

Next == Server \/ Clients

Spec == Init /\ [][Next]_vars
FairSpec == Spec /\ WF_vars(Server)

-----------------------------------------------------------------------------
ChatTypeOK ==
  /\ sock_fd \in [Slot -> Fd \cup {NoFd}]
  /\ named \in [Slot -> BOOLEAN]
  /\ all_fds \in SUBSET Fd
  /\ ind \in 0..MAX_CONNECTIONS
  /\ listen_fds \in SUBSET Fd
  /\ client_fd \in Fd \cup {NoFd}
  /\ pc \in {"select", "accept", "name", "slots", "echo"}
  /\ index \in 0..MAX_CONNECTIONS /\ i \in 0..MAX_CONNECTIONS
  /\ srv \in {"up", "exited", "killed", "crashed", "wild"}
  /\ sock \in [Fd -> {"free", "open", "full", "eof", "reset"}]
  /\ inbox \in [Fd -> Nat] /\ backlog \in 0..MAX_BACKLOG
  /\ said \in Nat /\ joined \in [Fd -> Nat] /\ heard \in [Fd -> Nat]
  /\ connects \in 0..MaxConnects /\ sends \in 0..MaxSends
  /\ drops \in 0..MaxDrops /\ stalls \in 0..MaxStalls

InRoom == {f \in Fd : sock[f] # "free"}
SlotsOf(f) == {k \in Slot : sock_fd[k] = f}

(* Whenever the server goes back to select, the three records it keeps of  *)
(* its clients agree: exactly the open descriptors are watched, and each   *)
(* has one slot with a name; a slot without one is a second slot of a      *)
(* client, left by accept_connection (chat_server.c:48-49, 157, 169-173,   *)
(* 184-190).                                                               *)
RoomAgrees ==
  srv = "up" /\ pc = "select" =>
    /\ all_fds = InRoom
    /\ \A f \in InRoom : Cardinality({k \in SlotsOf(f) : named[k]}) = 1

(* Nobody misses a message: between two rounds everyone in the room has    *)
(* received all that was said since it came, once for every slot it has    *)
(* had since (chat_server.c:77-85).                                        *)
EveryoneHears ==
  srv = "up" /\ pc = "select" =>
    \A f \in InRoom : heard[f] = Cardinality(SlotsOf(f)) * (said - joined[f])

(* As long as nobody leaves and no more than MAX_CONNECTIONS clients come, *)
(* the server stays up: no message finds a slot without a name, no write   *)
(* fails, and no client is put beyond the slots (chat_server.c:36, 62, 66, *)
(* 80, 163, 169).                                                          *)
StaysUp == srv # "up" => drops > 0 \/ connects > MAX_CONNECTIONS

(* The server is in read for a name, or in write for a client that does    *)
(* not read.                                                               *)
Waits ==
  \/ pc = "name" /\ inbox[client_fd] = 0 /\ sock[client_fd] \in {"open", "full"}
  \/ pc = "echo" /\ Listeners # {} /\ sock[sock_fd[FirstOf(Listeners)]] = "full"

(* Unless one client keeps it waiting for ever - one that sends no name,   *)
(* or one that stops reading - the server reads what the clients in the    *)
(* room have sent, or has ended (chat_server.c:66, 80, 163).               *)
MessagesAreRead ==
  \A f \in Fd :
    []<>~Waits => (f \in InRoom /\ inbox[f] > 0 ~> inbox[f] = 0 \/ srv # "up")

(* The comment at chat_server.c:54-55: read_from reads a message from a    *)
(* client and echoes it back; it never works on a slot that has no name.   *)
MessagesAreEchoed == srv # "crashed"
=============================================================================
