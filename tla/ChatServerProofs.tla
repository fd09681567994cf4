-------------------------- MODULE ChatServerProofs --------------------------
(***************************************************************************)
(* Proofs about ChatServer, for any number of slots, descriptors,          *)
(* connections, messages and departures.                                   *)
(***************************************************************************)
EXTENDS ChatServer, LeastElements, FiniteSetTheorems, TLAPS

(* The first element of a set of slots or descriptors. *)
LEMMA FirstOfType ==
  ASSUME NEW S \in SUBSET Nat, S # {}
  PROVE  FirstOf(S) \in S /\ \A l \in S : FirstOf(S) <= l
BY LeastElement DEF FirstOf

-----------------------------------------------------------------------------
(* The inductive invariant, IInv.                                          *)

FreeFds == {f \in Fd : sock[f] = "free"}

(* There is a descriptor for every connection that waits, and Accept only  *)
(* runs if one does.                                                       *)
BacklogInv == /\ backlog <= Cardinality(FreeFds)
              /\ pc = "accept" => backlog >= 1

(* A slot with a name lies before ind and holds a descriptor in use, each  *)
(* another one.                                                            *)
NamedInv ==
  \A k \in Slot : named[k] =>
    /\ k < ind
    /\ sock_fd[k] \in InRoom
    /\ \A l \in Slot : named[l] /\ sock_fd[l] = sock_fd[k] => l = k

(* Everyone in the room has such a slot, but the client whose name is      *)
(* being read, which has none.                                             *)
Newcomer(f) == pc = "name" /\ f = client_fd
HasName(f) == \E k \in Slot : named[k] /\ sock_fd[k] = f
RoomInv ==
  /\ all_fds = InRoom
  /\ pc = "name" => client_fd \in InRoom
  /\ \A f \in InRoom : HasName(f) <=> ~Newcomer(f)

IInv == ChatTypeOK /\ BacklogInv /\ NamedInv /\ RoomInv

-----------------------------------------------------------------------------
(* Facts about single definitions. *)

LEMMA BoundsType == /\ MAX_CONNECTIONS \in Nat /\ MAX_BACKLOG \in Nat
                    /\ MaxConnects \in Nat /\ MaxSends \in Nat /\ MaxDrops \in Nat
                    /\ MaxStalls \in Nat
BY ChatAssumption

LEMMA SlotType ==
  /\ Slot \subseteq Nat
  /\ \A k \in Slot : k + 1 \in 0..MAX_CONNECTIONS
  /\ \A k \in Nat : k < MAX_CONNECTIONS => k \in Slot
  /\ NoFd \notin Fd
BY ChatAssumption DEF Slot, NoFd

(* A slot is free if Accept runs at all, and so is a descriptor. *)
LEMMA AcceptSlotType ==
  ASSUME FreeSlots # {}
  PROVE  AcceptSlot \in Slot /\ sock_fd[AcceptSlot] = NoFd
<1>1. FreeSlots \in SUBSET Nat
  BY SlotType DEF FreeSlots
<1>2. AcceptSlot \in FreeSlots
  BY <1>1, FirstOfType DEF AcceptSlot
<1> QED
  BY <1>2 DEF FreeSlots

LEMMA FreeFdsFinite == IsFiniteSet(FreeFds) /\ Cardinality(FreeFds) \in Nat
<1>1. IsFiniteSet(FreeFds)
  BY ChatAssumption, FS_Subset DEF FreeFds
<1> QED
  BY <1>1, FS_CardinalityType

LEMMA LowestFreeType ==
  ASSUME ChatTypeOK, BacklogInv, pc = "accept"
  PROVE  LowestFree \in Fd /\ sock[LowestFree] = "free"
<1>1. FreeFds # {}
  BY FreeFdsFinite, FS_EmptySet DEF BacklogInv, ChatTypeOK
<1>2. LowestFree \in FreeFds
  BY <1>1, ChatAssumption, FirstOfType DEF LowestFree, FreeFds
<1> QED
  BY <1>2 DEF FreeFds

(* What read leaves is a number of messages. *)
LEMMA TakeFromType ==
  ASSUME ChatTypeOK, NEW f \in Fd, TakeFrom(f)
  PROVE  inbox' \in [Fd -> Nat]
BY DEF ChatTypeOK, TakeFrom

(* Backlog and descriptors, when neither grows scarcer than it was. *)
LEMMA BacklogKept ==
  ASSUME BacklogInv, ChatTypeOK, backlog' = backlog, pc' = pc \/ pc' # "accept",
         \A f \in Fd : sock[f] = "free" => sock'[f] = "free"
  PROVE  BacklogInv'
<1>1. FreeFds \in SUBSET FreeFds' /\ IsFiniteSet(FreeFds')
  BY ChatAssumption, FS_Subset DEF FreeFds
<1>2. Cardinality(FreeFds) <= Cardinality(FreeFds') /\ Cardinality(FreeFds') \in Nat
  BY <1>1, FS_Subset, FS_CardinalityType
<1> QED
  BY <1>2, FreeFdsFinite DEF BacklogInv, ChatTypeOK

(* Nothing that IInv speaks about changes but the end of the process, the  *)
(* network, and the progress of loops.                                     *)
LEMMA RoomKept ==
  ASSUME ChatTypeOK, NamedInv, RoomInv,
         UNCHANGED <<sock_fd, named, all_fds, ind, client_fd>>,
         pc' = "name" <=> pc = "name", InRoom' = InRoom
  PROVE  NamedInv' /\ RoomInv'
BY DEF NamedInv, RoomInv, HasName, Newcomer

(* The process ends. *)
LEMMA DieIInv ==
  ASSUME IInv, NEW how \in {"exited", "killed", "crashed", "wild"}, Die(how)
  PROVE  IInv'
<1>1. ChatTypeOK'
  BY DEF IInv, ChatTypeOK, Die, room, net, talk, bounds
<1>2. BacklogInv'
  BY DEF IInv, BacklogInv, FreeFds, Die, net
<1>3. NamedInv' /\ RoomInv'
  BY DEF IInv, NamedInv, RoomInv, HasName, Newcomer, InRoom, Die, room, net
<1> QED
  BY <1>1, <1>2, <1>3 DEF IInv

-----------------------------------------------------------------------------
(* The steps of the clients. *)

LEMMA ClientsIInv ==
  ASSUME IInv, Clients
  PROVE  IInv'
<1> USE DEF IInv
<1>1. CASE Connect
  <2>1. ChatTypeOK'
    <3>1. connects' \in 0..MaxConnects /\ backlog' \in 0..MAX_BACKLOG
      BY <1>1, BoundsType DEF ChatTypeOK, Connect
    <3> QED
      BY <1>1, <3>1 DEF ChatTypeOK, Connect, room, control, talk
  <2>2. BacklogInv'
    BY <1>1, FreeFdsFinite DEF BacklogInv, ChatTypeOK, Connect, FreeFds, control
  <2>3. NamedInv' /\ RoomInv'
    BY <1>1, RoomKept DEF Connect, room, control, InRoom
  <2> QED
    BY <2>1, <2>2, <2>3
<1>2. ASSUME NEW f \in Fd, Send(f) PROVE IInv'
  <2>1. ChatTypeOK'
    <3>1. sends' \in 0..MaxSends
      BY <1>2, BoundsType DEF ChatTypeOK, Send
    <3>2. inbox' \in [Fd -> Nat]
      BY <1>2 DEF ChatTypeOK, Send
    <3> QED
      BY <1>2, <3>1, <3>2 DEF ChatTypeOK, Send, room, control, talk
  <2>2. BacklogInv'
    BY <1>2, BacklogKept DEF Send, control
  <2>3. NamedInv' /\ RoomInv'
    BY <1>2, RoomKept DEF Send, room, control, InRoom
  <2> QED
    BY <2>1, <2>2, <2>3
<1>3. ASSUME NEW f \in Fd, Drop(f) PROVE IInv'
  <2>1. ChatTypeOK'
    <3>1. sock' \in [Fd -> {"free", "open", "full", "eof", "reset"}]
      BY <1>3 DEF ChatTypeOK, Drop
    <3>2. drops' \in 0..MaxDrops
      BY <1>3, BoundsType DEF ChatTypeOK, Drop
    <3> QED
      BY <1>3, <3>1, <3>2 DEF ChatTypeOK, Drop, room, control, talk
  <2>2. BacklogInv'
    BY <1>3, BacklogKept DEF Drop, control, ChatTypeOK
  <2>3. InRoom' = InRoom
    BY <1>3 DEF Drop, InRoom, ChatTypeOK
  <2>4. NamedInv' /\ RoomInv'
    BY <1>3, <2>3, RoomKept DEF Drop, room, control
  <2> QED
    BY <2>1, <2>2, <2>4
<1>4. ASSUME NEW f \in Fd, Stall(f) \/ Resume(f) PROVE IInv'
  <2>1. PICK s \in {"open", "full"} : sock' = [sock EXCEPT ![f] = s]
    BY <1>4 DEF Stall, Resume
  <2>2. sock[f] # "free" /\ sock' \in [Fd -> {"free", "open", "full", "eof", "reset"}]
    BY <1>4, <2>1 DEF ChatTypeOK, Stall, Resume
  <2>3. ChatTypeOK'
    <3>1. stalls' \in 0..MaxStalls
      BY <1>4, BoundsType DEF ChatTypeOK, Stall, Resume, bounds
    <3> QED
      BY <1>4, <2>2, <3>1 DEF ChatTypeOK, Stall, Resume, room, control, talk, bounds
  <2>4. BacklogInv'
    BY <1>4, <2>1, <2>2, BacklogKept DEF Stall, Resume, control, ChatTypeOK
  <2>5. InRoom' = InRoom
    BY <2>1, <2>2 DEF InRoom, ChatTypeOK
  <2>6. NamedInv' /\ RoomInv'
    BY <1>4, <2>5, RoomKept DEF Stall, Resume, room, control
  <2> QED
    BY <2>3, <2>4, <2>6
<1> QED
  BY <1>1, <1>2, <1>3, <1>4 DEF Clients

-----------------------------------------------------------------------------
(* The steps of the server. *)

LEMMA SelectIInv ==
  ASSUME IInv, Select
  PROVE  IInv'
<1>1. CASE Die("exited")
  BY <1>1, DieIInv
<1>2. CASE ~Die("exited")
  <2>1. ChatTypeOK'
    <3>1. index' \in 0..MAX_CONNECTIONS /\ pc' \in {"accept", "slots"}
      BY <1>2, BoundsType DEF Select
    <3>2. listen_fds' \in SUBSET Fd
      BY <1>2 DEF IInv, ChatTypeOK, Select, Ready
    <3>3. UNCHANGED <<room, client_fd, i, srv, net, talk, bounds>>
      BY <1>2 DEF Select
    <3> QED
      BY <3>1, <3>2, <3>3 DEF IInv, ChatTypeOK, room, net, talk, bounds
  <2>2. BacklogInv'
    <3>1. /\ UNCHANGED <<sock, backlog>>
          /\ pc' = "accept" => backlog > 0
      BY <1>2 DEF Select, net
    <3>2. FreeFds' = FreeFds /\ backlog \in Nat
      BY <3>1, BoundsType DEF FreeFds, IInv, ChatTypeOK
    <3> QED
      BY <3>1, <3>2 DEF IInv, BacklogInv
  <2>3. NamedInv' /\ RoomInv'
    BY <1>2, RoomKept DEF IInv, Select, room, net, InRoom
  <2> QED
    BY <2>1, <2>2, <2>3 DEF IInv
<1> QED
  BY <1>1, <1>2

LEMMA AcceptIInv ==
  ASSUME IInv, Accept
  PROVE  IInv'
<1>1. CASE Die("wild")
  BY <1>1, DieIInv
<1>2. CASE ~Die("wild")
  <2> DEFINE f == LowestFree
             a == AcceptSlot
  <2>1. /\ f \in Fd /\ sock[f] = "free"
        /\ a \in Slot /\ sock_fd[a] = NoFd
    BY <1>2, LowestFreeType, AcceptSlotType DEF IInv, Accept
  <2>2. /\ sock' = [sock EXCEPT ![f] = "open"]
        /\ backlog' = backlog - 1
        /\ client_fd' = f /\ pc' = "name" /\ pc = "accept"
        /\ sock_fd' = [sock_fd EXCEPT ![a] = f]
        /\ named' = [named EXCEPT ![a] = FALSE]
        /\ all_fds' = all_fds \cup {f}
        /\ UNCHANGED ind
    BY <1>2 DEF Accept, Watched
  <2> HIDE DEF f, a
  <2>3. ~named[a]
    BY <2>1, SlotType DEF IInv, NamedInv, InRoom
  <2>4. ChatTypeOK'
    <3>1. backlog' \in 0..MAX_BACKLOG
      BY <2>2, ChatAssumption DEF IInv, ChatTypeOK, BacklogInv
    <3> QED
      BY <1>2, <2>1, <2>2, <3>1
         DEF IInv, ChatTypeOK, Accept, f, bounds
  <2>5. BacklogInv'
    <3>1. FreeFds' = FreeFds \ {f}
      BY <2>1, <2>2 DEF FreeFds, IInv, ChatTypeOK
    <3>2. f \in FreeFds
      BY <2>1 DEF FreeFds
    <3>3. Cardinality(FreeFds') = Cardinality(FreeFds) - 1
      BY <3>1, <3>2, FreeFdsFinite, FS_RemoveElement
    <3> QED
      BY <2>2, <3>3, FreeFdsFinite DEF BacklogInv, IInv, ChatTypeOK
  <2>6. InRoom' = InRoom \cup {f} /\ f \notin InRoom
    BY <2>1, <2>2 DEF InRoom, IInv, ChatTypeOK
  <2>7. \A k \in Slot : named'[k] <=> named[k] /\ k # a
    BY <2>1, <2>2, <2>3 DEF IInv, ChatTypeOK
  <2>8. \A k \in Slot : k # a => sock_fd'[k] = sock_fd[k]
    BY <2>2 DEF IInv, ChatTypeOK
  <2>9. NamedInv'
    BY <2>2, <2>6, <2>7, <2>8 DEF NamedInv, IInv
  <2>10. RoomInv'
    BY <2>2, <2>3, <2>6, <2>7, <2>8 DEF RoomInv, NamedInv, IInv, HasName, Newcomer
  <2> QED
    BY <2>4, <2>5, <2>9, <2>10 DEF IInv
<1> QED
  BY <1>1, <1>2

LEMMA ReadNameIInv ==
  ASSUME IInv, ReadName
  PROVE  IInv'
<1>1. CASE Die("wild") \/ Die("exited")
  BY <1>1, DieIInv
<1>2. CASE ~(Die("wild") \/ Die("exited"))
  <2>1. /\ pc = "name" /\ pc' = "slots"
        /\ ind < MAX_CONNECTIONS /\ ind' = ind + 1
        /\ TakeFrom(client_fd)
        /\ named' = [named EXCEPT ![ind] = TRUE]
        /\ sock_fd' = [sock_fd EXCEPT ![ind] = client_fd]
        /\ UNCHANGED <<all_fds, sock, backlog>>
    BY <1>2 DEF ReadName
  <2>2. client_fd \in InRoom /\ client_fd \in Fd /\ ind \in Slot
    BY <2>1, SlotType, BoundsType DEF IInv, RoomInv, InRoom, ChatTypeOK
  <2>3. ChatTypeOK'
    <3>1. inbox' \in [Fd -> Nat]
      BY <2>1, <2>2, TakeFromType DEF IInv
    <3>2. ind' \in 0..MAX_CONNECTIONS
      BY <2>1, BoundsType DEF IInv, ChatTypeOK
    <3> QED
      BY <1>2, <2>1, <2>2, <3>1, <3>2 DEF IInv, ChatTypeOK, ReadName, talk, bounds
  <2>4. BacklogInv'
    BY <2>1, BacklogKept DEF IInv
  <2>5. InRoom' = InRoom
    BY <2>1 DEF InRoom
  <2>6. \A k \in Slot : /\ named'[k] <=> named[k] \/ k = ind
                        /\ sock_fd'[k] = IF k = ind THEN client_fd ELSE sock_fd[k]
                        /\ named[k] => k # ind
    BY <2>1 DEF IInv, ChatTypeOK, NamedInv
  <2>7. \A k \in Slot : named[k] => sock_fd[k] # client_fd
    BY <2>1, <2>2 DEF IInv, RoomInv, HasName, Newcomer
  <2>8. NamedInv'
    <3> SUFFICES ASSUME NEW k \in Slot, named'[k]
                 PROVE  /\ k < ind' /\ sock_fd'[k] \in InRoom'
                        /\ \A l \in Slot : named'[l] /\ sock_fd'[l] = sock_fd'[k]
                                             => l = k
      BY DEF NamedInv
    <3>1. k < ind'
      BY <2>1, <2>6, SlotType DEF IInv, NamedInv, ChatTypeOK
    <3>2. sock_fd'[k] \in InRoom'
      BY <2>2, <2>5, <2>6 DEF IInv, NamedInv
    <3>3. \A l \in Slot : named'[l] /\ sock_fd'[l] = sock_fd'[k] => l = k
      BY <2>6, <2>7 DEF IInv, NamedInv
    <3> QED
      BY <3>1, <3>2, <3>3
  <2>9. RoomInv'
    BY <2>1, <2>2, <2>5, <2>6 DEF IInv, RoomInv, HasName, Newcomer
  <2> QED
    BY <2>3, <2>4, <2>8, <2>9 DEF IInv
<1> QED
  BY <1>1, <1>2

(* A message is read, or the server ends over it. *)
LEMMA ReadFromIInv ==
  ASSUME IInv, NEW k \in Slot, ReadFrom(k)
  PROVE  IInv'
<1>1. CASE Die("wild") \/ Die("crashed")
  BY <1>1, DieIInv
<1>2. CASE ~(Die("wild") \/ Die("crashed"))
  <2>1. /\ named[k] /\ TakeFrom(sock_fd[k]) /\ pc = "slots" /\ pc' = "echo"
        /\ said' = said + 1 /\ i' = 0 /\ index' = k + 1
        /\ UNCHANGED <<room, client_fd, sock, backlog>>
    BY <1>2 DEF ReadFrom, Scanning
  <2>2. sock_fd[k] \in Fd
    BY <2>1 DEF IInv, NamedInv, InRoom
  <2>3. ChatTypeOK'
    <3>1. inbox' \in [Fd -> Nat]
      BY <2>1, <2>2, TakeFromType DEF IInv
    <3>2. i' \in 0..MAX_CONNECTIONS /\ index' \in 0..MAX_CONNECTIONS
      BY <2>1, SlotType, BoundsType
    <3> QED
      BY <1>2, <2>1, <3>1, <3>2 DEF IInv, ChatTypeOK, ReadFrom, room, bounds
  <2>4. BacklogInv'
    BY <2>1, BacklogKept DEF IInv
  <2>5. NamedInv' /\ RoomInv'
    BY <2>1, RoomKept DEF IInv, InRoom, room
  <2> QED
    BY <2>3, <2>4, <2>5 DEF IInv
<1> QED
  BY <1>1, <1>2

LEMMA LeaveIInv ==
  ASSUME IInv, NEW k \in Slot, Leave(k)
  PROVE  IInv'
<1> DEFINE f == sock_fd[k]
<1>1. /\ named[k] /\ pc = "slots"
      /\ all_fds' = all_fds \ {f}
      /\ sock' = [sock EXCEPT ![f] = "free"]
      /\ sock_fd' = [sock_fd EXCEPT ![k] = NoFd]
      /\ named' = [named EXCEPT ![k] = FALSE]
      /\ index' = k + 1
      /\ UNCHANGED <<pc, ind, client_fd, backlog>>
  BY DEF Leave, Scanning, Unwatched
<1>2. f \in InRoom /\ f \in Fd
  BY <1>1 DEF IInv, NamedInv, InRoom
<1>3. \A l \in Slot : named[l] /\ sock_fd[l] = f => l = k
  BY <1>1 DEF IInv, NamedInv
<1> HIDE DEF f
<1>4. ChatTypeOK'
  <2>1. index' \in 0..MAX_CONNECTIONS
    BY <1>1, SlotType
  <2> QED
    BY <1>1, <1>2, <2>1 DEF IInv, ChatTypeOK, Leave, talk, bounds
<1>5. BacklogInv'
  BY <1>1, BacklogKept DEF IInv, ChatTypeOK
<1>6. InRoom' = InRoom \ {f}
  BY <1>1, <1>2 DEF InRoom, IInv, ChatTypeOK
<1>7. \A l \in Slot : /\ named'[l] <=> named[l] /\ l # k
                      /\ l # k => sock_fd'[l] = sock_fd[l]
  BY <1>1 DEF IInv, ChatTypeOK
<1>8. NamedInv'
  BY <1>1, <1>3, <1>6, <1>7 DEF IInv, NamedInv
<1>9. RoomInv'
  <2>1. \A g \in InRoom' : \E l \in Slot : named'[l] /\ sock_fd'[l] = g
    <3> TAKE g \in InRoom'
    <3>1. PICK l \in Slot : named[l] /\ sock_fd[l] = g
      BY <1>1, <1>6 DEF IInv, RoomInv, HasName, Newcomer
    <3>2. l # k
      BY <1>6, <3>1 DEF f
    <3> QED
      BY <1>7, <3>1, <3>2
  <2> QED
    BY <1>1, <1>6, <2>1 DEF IInv, RoomInv, HasName, Newcomer
<1> QED
  BY <1>4, <1>5, <1>8, <1>9 DEF IInv

(* One client gets the message, or the server ends over it. *)
LEMMA EchoIInv ==
  ASSUME IInv, Echo
  PROVE  IInv'
<1>1. CASE Die("exited") \/ Die("killed")
  BY <1>1, DieIInv
<1>2. CASE ~(Die("exited") \/ Die("killed"))
  <2> DEFINE k == FirstOf(Listeners)
  <2>1. k \in Slot /\ sock_fd[k] # NoFd
    <3>1. Listeners \in SUBSET Nat /\ Listeners # {}
      BY SlotType DEF Listeners, Echo
    <3>2. k \in Listeners
      BY <3>1, FirstOfType
    <3> QED
      BY <3>2 DEF Listeners
  <2>2. /\ heard' = [heard EXCEPT ![sock_fd[k]] = @ + 1]
        /\ i' = k + 1
        /\ UNCHANGED <<room, client_fd, pc, index, srv, net>>
    BY <1>2 DEF Echo
  <2> HIDE DEF k
  <2>3. ChatTypeOK'
    <3>1. i' \in 0..MAX_CONNECTIONS
      BY <2>1, <2>2, SlotType
    <3>2. heard' \in [Fd -> Nat]
      <4>1. sock_fd[k] \in Fd
        BY <2>1 DEF IInv, ChatTypeOK
      <4> QED
        BY <2>2, <4>1 DEF IInv, ChatTypeOK
    <3> QED
      BY <1>2, <2>2, <3>1, <3>2 DEF IInv, ChatTypeOK, Echo, room, net, bounds
  <2>4. BacklogInv'
    BY <2>2, BacklogKept DEF IInv, net
  <2>5. NamedInv' /\ RoomInv'
    BY <2>2, RoomKept DEF IInv, InRoom, room, net
  <2> QED
    BY <2>3, <2>4, <2>5 DEF IInv
<1> QED
  BY <1>1, <1>2

(* The ends of the two loops. *)
LEMMA LoopEndsIInv ==
  ASSUME IInv, EndRound \/ EndEcho
  PROVE  IInv'
<1>1. /\ pc' \in {"select", "slots"} /\ pc # "name"
      /\ UNCHANGED <<room, listen_fds, client_fd, index, i, srv, net, talk, bounds>>
  BY DEF EndRound, EndEcho
<1>2. ChatTypeOK'
  BY <1>1 DEF IInv, ChatTypeOK, room, net, talk, bounds
<1>3. BacklogInv'
  BY <1>1, BacklogKept DEF IInv, net
<1>4. NamedInv' /\ RoomInv'
  BY <1>1, RoomKept DEF IInv, InRoom, room, net
<1> QED
  BY <1>2, <1>3, <1>4 DEF IInv

-----------------------------------------------------------------------------
(* The theorems. *)

LEMMA InitIInv == Init => IInv
<1> SUFFICES ASSUME Init PROVE IInv
  OBVIOUS
<1>1. ChatTypeOK
  BY BoundsType DEF Init, ChatTypeOK
<1>2. BacklogInv
  BY FreeFdsFinite DEF Init, BacklogInv
<1>3. NamedInv /\ RoomInv
  BY DEF Init, NamedInv, RoomInv, InRoom
<1> QED
  BY <1>1, <1>2, <1>3 DEF IInv

LEMMA NextIInv == IInv /\ [Next]_vars => IInv'
<1> SUFFICES ASSUME IInv, [Next]_vars PROVE IInv'
  OBVIOUS
<1>1. CASE Server
  BY <1>1, SelectIInv, AcceptIInv, ReadNameIInv, ReadFromIInv, LeaveIInv,
     EchoIInv, LoopEndsIInv DEF Server
<1>2. CASE Clients
  BY <1>2, ClientsIInv
<1>3. CASE UNCHANGED vars
  BY <1>3 DEF vars, room, control, net, talk, bounds, IInv, ChatTypeOK,
     BacklogInv, FreeFds, NamedInv, RoomInv, HasName, Newcomer, InRoom
<1> QED
  BY <1>1, <1>2, <1>3 DEF Next

THEOREM Invariant == Spec => []IInv
<1>1. Init => IInv
  BY InitIInv
<1>2. IInv /\ [Next]_vars => IInv'
  BY NextIInv
<1> QED
  BY <1>1, <1>2, PTL DEF Spec

(* Every variable keeps its type; in particular every descriptor that the  *)
(* server keeps is one that accept has returned, or -1                     *)
(* (chat_server.c:26-91, 147-190).                                         *)
THEOREM TypeCorrect == Spec => []ChatTypeOK
<1>1. IInv => ChatTypeOK
  BY DEF IInv
<1> QED
  BY <1>1, Invariant, PTL

(* RoomAgrees, with any number of slots and clients: between two rounds    *)
(* the descriptor set, the open sockets and the slots with a name agree    *)
(* (chat_server.c:157, 169-173, 184-190).                                  *)
THEOREM RoomCorrect == Spec => []RoomAgrees
<1>1. IInv => RoomAgrees
  <2> SUFFICES ASSUME IInv, srv = "up", pc = "select", NEW f \in InRoom
               PROVE  Cardinality({k \in SlotsOf(f) : named[k]}) = 1
    BY DEF RoomAgrees, IInv, RoomInv
  <2>1. PICK k \in Slot : named[k] /\ sock_fd[k] = f
    BY DEF IInv, RoomInv, HasName, Newcomer
  <2>2. {l \in SlotsOf(f) : named[l]} = {k}
    BY <2>1 DEF IInv, NamedInv, SlotsOf
  <2> QED
    BY <2>2, FS_Singleton
<1> QED
  BY <1>1, Invariant, PTL

-----------------------------------------------------------------------------
(* The server stays up.  As long as nobody leaves, the slots fill up in    *)
(* order: the slot that accept_connection chooses is slot ind, so that     *)
(* every slot in use has a name when its client speaks, and every client   *)
(* that has come has its slot.                                             *)

Naming == IF pc = "name" THEN 1 ELSE 0

QuietInv ==
  drops = 0 =>
    /\ \A f \in Fd : sock[f] \in {"free", "open", "full"}
    /\ pc = "name" => ind < MAX_CONNECTIONS
    /\ connects = ind + Naming + backlog
    /\ \A k \in Slot : /\ named[k] <=> k < ind
                       /\ sock_fd[k] # NoFd <=> k < ind + Naming

QInv == IInv /\ QuietInv /\ StaysUp

(* Without departures the first free slot is slot ind. *)
LEMMA AcceptSlotQuiet ==
  ASSUME IInv, QuietInv, drops = 0, pc = "accept"
  PROVE  /\ FreeSlots = {} => connects > MAX_CONNECTIONS
         /\ FreeSlots # {} => AcceptSlot = ind /\ ind < MAX_CONNECTIONS
<1>1. /\ \A k \in Slot : sock_fd[k] # NoFd <=> k < ind
      /\ connects = ind + backlog /\ backlog >= 1
      /\ ind \in Nat /\ backlog \in Nat
  BY BoundsType DEF IInv, ChatTypeOK, BacklogInv, QuietInv, Naming
<1>2. ASSUME FreeSlots = {} PROVE connects > MAX_CONNECTIONS
  <2>1. MAX_CONNECTIONS - 1 \in Slot
    BY ChatAssumption DEF Slot
  <2>2. MAX_CONNECTIONS - 1 < ind
    BY <1>1, <1>2, <2>1 DEF FreeSlots
  <2> QED
    BY <1>1, <2>2, BoundsType
<1>3. ASSUME FreeSlots # {} PROVE AcceptSlot = ind /\ ind < MAX_CONNECTIONS
  <2>1. ind \in FreeSlots /\ ind < MAX_CONNECTIONS
    BY <1>1, <1>3, BoundsType DEF FreeSlots, Slot
  <2>2. FreeSlots \in SUBSET Nat
    BY SlotType DEF FreeSlots
  <2>3. AcceptSlot \in FreeSlots /\ \A l \in FreeSlots : AcceptSlot <= l
    BY <2>1, <2>2, FirstOfType DEF AcceptSlot
  <2>4. ~(AcceptSlot < ind)
    BY <1>1, <2>3 DEF FreeSlots
  <2> QED
    BY <1>1, <2>1, <2>2, <2>3, <2>4
<1> QED
  BY <1>2, <1>3

(* Steps that change neither slots nor counters. *)
LEMMA QuietKept ==
  ASSUME QuietInv, UNCHANGED <<sock_fd, named, ind, backlog, connects, drops>>,
         pc' = "name" <=> pc = "name", sock' = sock
  PROVE  QuietInv'
BY DEF QuietInv, Naming

LEMMA NextQuiet == QInv /\ [Next]_vars => QuietInv'
<1> SUFFICES ASSUME QInv, [Next]_vars, drops' = 0, drops = 0
             PROVE  QuietInv'
  <2>1. ASSUME [Next]_vars, drops \in Nat PROVE drops' = 0 => drops = 0
    BY <2>1 DEF Next, Server, Clients, Connect, Send, Drop, Stall, Resume, Select,
       Accept, ReadName, ReadFrom, Leave, Echo, EndEcho, EndRound, Die, vars, bounds
  <2> QED
    BY <2>1, BoundsType DEF QuietInv, QInv, IInv, ChatTypeOK
<1> USE DEF QInv
<1>1. CASE Connect
  BY <1>1 DEF QuietInv, Naming, Connect, room, control, IInv, ChatTypeOK
<1>2. CASE \E f \in Fd : Send(f)
  BY <1>2, QuietKept DEF Send, room, control
<1>3. CASE \E f \in Fd : Drop(f)
  BY <1>3 DEF Drop, IInv, ChatTypeOK
<1>4. CASE \E how \in {"exited", "killed", "crashed", "wild"} : Die(how)
  BY <1>4, QuietKept DEF Die, room, net, bounds
<1>5. CASE Select /\ ~Die("exited")
  BY <1>5, QuietKept DEF Select, room, net, bounds
<1>6. CASE Accept /\ ~Die("wild")
  <2>1. AcceptSlot = ind /\ ind < MAX_CONNECTIONS /\ ind \in Slot
    BY <1>6, AcceptSlotQuiet, AcceptSlotType DEF Accept
  <2>2. LowestFree \in Fd
    BY <1>6, LowestFreeType DEF Accept, IInv
  <2>3. /\ sock' = [sock EXCEPT ![LowestFree] = "open"]
        /\ backlog' = backlog - 1
        /\ pc' = "name" /\ pc = "accept"
        /\ sock_fd' = [sock_fd EXCEPT ![ind] = LowestFree]
        /\ named' = [named EXCEPT ![ind] = FALSE]
        /\ UNCHANGED <<ind, connects>>
    BY <1>6, <2>1 DEF Accept, bounds
  <2>4. ind \in Nat /\ backlog \in Nat
    BY BoundsType DEF IInv, ChatTypeOK
  <2>5. \A f \in Fd : sock'[f] \in {"free", "open", "full"}
    BY <2>3 DEF QuietInv, IInv, ChatTypeOK
  <2>6. connects' = ind' + Naming' + backlog'
    BY <2>3, <2>4 DEF QuietInv, Naming
  <2>7. ASSUME NEW k \in Slot
        PROVE  /\ named'[k] <=> k < ind'
               /\ sock_fd'[k] # NoFd <=> k < ind' + Naming'
    <3>1. CASE k = ind
      BY <2>1, <2>2, <2>3, <2>4, <3>1, SlotType DEF IInv, ChatTypeOK, Naming
    <3>2. CASE k # ind
      BY <2>3, <2>4, <3>2, SlotType DEF IInv, ChatTypeOK, QuietInv, Naming
    <3> QED
      BY <3>1, <3>2
  <2> QED
    BY <2>1, <2>3, <2>5, <2>6, <2>7 DEF QuietInv
<1>7. CASE ReadName /\ ~Die("wild") /\ ~Die("exited")
  <2>1. /\ pc = "name" /\ pc' = "slots"
        /\ named' = [named EXCEPT ![ind] = TRUE]
        /\ sock_fd' = [sock_fd EXCEPT ![ind] = client_fd]
        /\ ind' = ind + 1
        /\ UNCHANGED <<sock, backlog, connects>>
    BY <1>7 DEF ReadName, bounds
  <2>2. client_fd \in Fd /\ ind \in Nat /\ backlog \in Nat
    BY <2>1, BoundsType DEF IInv, RoomInv, InRoom, ChatTypeOK
  <2>3. ASSUME NEW k \in Slot
        PROVE  /\ named'[k] <=> k < ind'
               /\ sock_fd'[k] # NoFd <=> k < ind' + Naming'
    <3>1. CASE k = ind
      BY <2>1, <2>2, <3>1, SlotType DEF IInv, ChatTypeOK, Naming
    <3>2. CASE k # ind
      BY <2>1, <2>2, <3>2, SlotType DEF IInv, ChatTypeOK, QuietInv, Naming
    <3> QED
      BY <3>1, <3>2
  <2>4. connects' = ind' + Naming' + backlog'
    BY <2>1, <2>2 DEF QuietInv, Naming
  <2> QED
    BY <2>1, <2>3, <2>4 DEF QuietInv
<1>8. CASE \E k \in Slot : ReadFrom(k) /\ ~Die("wild") /\ ~Die("crashed")
  BY <1>8, QuietKept DEF ReadFrom, Scanning, room, bounds
<1>9. ASSUME NEW k \in Slot, Leave(k) PROVE FALSE
  BY <1>9 DEF Leave, Scanning, IInv, NamedInv, InRoom, QuietInv
<1>10. CASE Echo /\ ~Die("exited") /\ ~Die("killed")
  BY <1>10, QuietKept DEF Echo, room, net, bounds
<1>11. CASE EndEcho \/ EndRound
  BY <1>11, QuietKept DEF EndEcho, EndRound, room, net, bounds
<1>12. CASE UNCHANGED vars
  BY <1>12, QuietKept DEF vars, room, control, net, bounds
<1>13. CASE \E f \in Fd : Stall(f) \/ Resume(f)
  <2>1. /\ UNCHANGED <<room, control, backlog, connects>>
        /\ \A f \in Fd : sock'[f] \in {"free", "open", "full"}
    BY <1>13 DEF Stall, Resume, QuietInv, bounds, IInv, ChatTypeOK
  <2> QED
    BY <2>1 DEF QuietInv, Naming, room, control
<1> QED
  BY <1>1, <1>2, <1>3, <1>4, <1>5, <1>6, <1>7, <1>8, <1>9, <1>10, <1>11, <1>12, <1>13
     DEF Next, Server, Clients

LEMMA NextStaysUp == QInv /\ [Next]_vars => StaysUp'
<1> SUFFICES ASSUME QInv, [Next]_vars, srv' # "up", srv = "up",
                    drops = 0, UNCHANGED bounds
             PROVE  connects > MAX_CONNECTIONS
  <2>1. ASSUME [Next]_vars, IInv
        PROVE  /\ srv' # srv => UNCHANGED bounds /\ srv = "up"
               /\ drops' >= drops /\ connects' >= connects
               /\ drops' \in Nat /\ connects' \in Nat
    BY <2>1, BoundsType
       DEF IInv, ChatTypeOK, Next, Server, Clients, Connect, Send, Drop, Stall,
       Resume, Select, Accept, ReadName, ReadFrom, Leave, Echo, EndEcho, EndRound, Die, vars,
       bounds, control
  <2> QED
    BY <2>1, BoundsType DEF StaysUp, QInv, IInv, ChatTypeOK, bounds
<1> USE DEF QInv
<1>1. \A f \in Fd : sock[f] \in {"free", "open", "full"}
  BY DEF QuietInv
<1>2. \A f \in InRoom : sock[f] \in {"open", "full"}
  BY <1>1 DEF InRoom
<1>3. ~Select
  BY DEF Select, IInv, RoomInv, InRoom
<1>4. ~ReadName
  BY <1>2, BoundsType DEF ReadName, IInv, RoomInv, QuietInv, ChatTypeOK
<1>5. ASSUME NEW k \in Slot PROVE ~ReadFrom(k)
  <2>1. SUFFICES ASSUME ReadFrom(k) PROVE FALSE
    OBVIOUS
  <2>2. sock_fd[k] # NoFd /\ pc = "slots"
    BY <2>1, SlotType DEF ReadFrom, Scanning, SlotsToRead, IInv, ChatTypeOK
  <2>3. named[k]
    BY <2>2, SlotType, BoundsType DEF QuietInv, Naming, IInv, ChatTypeOK
  <2>4. sock[sock_fd[k]] \in {"open", "full"}
    BY <2>3, <1>2 DEF IInv, NamedInv
  <2> QED
    BY <2>1, <2>3, <2>4 DEF ReadFrom
<1>6. ~Echo
  <2>1. SUFFICES ASSUME Echo PROVE FALSE
    OBVIOUS
  <2> DEFINE k == FirstOf(Listeners)
  <2>2. k \in Listeners
    BY <2>1, SlotType, FirstOfType DEF Listeners, Echo
  <2>3. sock_fd[k] \in Fd
    BY <2>2 DEF Listeners, IInv, ChatTypeOK
  <2> QED
    BY <2>1, <2>3, <1>1 DEF Echo
<1>7. ~Clients /\ ~(\E k \in Slot : Leave(k)) /\ ~EndRound /\ ~EndEcho
      /\ ~UNCHANGED vars
  BY DEF Clients, Connect, Send, Drop, Stall, Resume, Leave, EndRound, EndEcho, vars, control
<1>8. Accept /\ FreeSlots = {}
  BY <1>3, <1>4, <1>5, <1>6, <1>7 DEF Next, Server, Accept
<1> QED
  BY <1>8, AcceptSlotQuiet DEF Accept

(* StaysUp, with any number of slots and clients: as long as nobody leaves *)
(* and no more clients come than there are slots, nothing ends the server  *)
(* (chat_server.c:36, 62, 66, 80, 163, 169).                               *)
THEOREM ServerStaysUp == Spec => []StaysUp
<1>1. Init => QInv
  BY InitIInv, BoundsType, SlotType
     DEF QInv, QuietInv, Naming, StaysUp, Init
<1>2. QInv /\ [Next]_vars => QInv'
  BY NextIInv, NextQuiet, NextStaysUp DEF QInv
<1>3. QInv => StaysUp
  BY DEF QInv
<1> QED
  BY <1>1, <1>2, <1>3, PTL DEF Spec

-----------------------------------------------------------------------------
(* Everyone hears.  A client may have a second slot, left behind by        *)
(* accept_connection, which never gets a name.  It lies before the slot    *)
(* with the name, so that the scan would come to it first and the server   *)
(* would end; no client leaves it behind, and what was counted for it is   *)
(* never handed on to the next client with the same descriptor.            *)

(* Slots fill up from the beginning; the newcomer's may be slot ind.       *)
FilledInv ==
  \A k \in Slot : sock_fd[k] # NoFd =>
    /\ sock_fd[k] \in InRoom
    /\ k < ind \/ (Newcomer(sock_fd[k]) /\ k <= ind)
    /\ ~named[k] => \/ Newcomer(sock_fd[k])
                    \/ \E l \in Slot : k < l /\ named[l] /\ sock_fd[l] = sock_fd[k]

(* A slot the scan has passed had nothing to say, or has a name.           *)
ScanInv ==
  /\ pc \in {"accept", "name"} => index = 0
  /\ pc = "accept" => listen_fds \subseteq InRoom
  /\ pc = "name" => client_fd \notin listen_fds
  /\ pc \in {"slots", "echo"} =>
       \A k \in Slot : k < index /\ sock_fd[k] \in listen_fds => named[k]

(* In the middle of a message those slots have got it that the loop has    *)
(* passed.                                                                 *)
Echoing == IF pc = "echo" THEN 1 ELSE 0
SlotsBefore(f, m) == {k \in SlotsOf(f) : k < m}
HeardInv ==
  /\ pc = "name" => joined[client_fd] = said
  /\ \A f \in InRoom :
       /\ joined[f] <= said - Echoing
       /\ heard[f] = Cardinality(SlotsOf(f)) * (said - Echoing - joined[f])
                       + Echoing * Cardinality(SlotsBefore(f, i))

HearInv == FilledInv /\ ScanInv /\ HeardInv

LEMMA SlotsFinite ==
  ASSUME NEW S \in SUBSET Slot
  PROVE  IsFiniteSet(S) /\ Cardinality(S) \in Nat
<1>1. IsFiniteSet(Slot)
  BY ChatAssumption, FS_Interval DEF Slot
<1> QED
  BY <1>1, FS_Subset, FS_CardinalityType

(* What one more message to n slots comes to. *)
LEMMA OneMessageMore ==
  ASSUME NEW n \in Nat, NEW m \in Int
  PROVE  n * (m - 1) + n = n * m
OBVIOUS

LEMMA SlotsOfFinite ==
  ASSUME NEW f, NEW m
  PROVE  /\ IsFiniteSet(SlotsOf(f)) /\ Cardinality(SlotsOf(f)) \in Nat
         /\ IsFiniteSet(SlotsBefore(f, m)) /\ Cardinality(SlotsBefore(f, m)) \in Nat
BY SlotsFinite DEF SlotsOf, SlotsBefore

(* Steps that leave the slots and the counts alone. *)
LEMMA HearKept ==
  ASSUME HearInv, InRoom' = InRoom,
         UNCHANGED <<sock_fd, named, ind, listen_fds, client_fd, pc, index, i,
                     said, joined, heard>>
  PROVE  HearInv'
BY DEF HearInv, FilledInv, ScanInv, HeardInv, Newcomer, Echoing, SlotsOf,
       SlotsBefore

(* Between two messages, what HeardInv says. *)
LEMMA HeardBetween ==
  ASSUME ChatTypeOK, HeardInv, pc # "echo", NEW f \in InRoom
  PROVE  /\ joined[f] <= said
         /\ heard[f] = Cardinality(SlotsOf(f)) * (said - joined[f])
<1>1. /\ f \in Fd /\ said \in Nat /\ joined[f] \in Nat
      /\ Cardinality(SlotsOf(f)) \in Nat /\ Cardinality(SlotsBefore(f, i)) \in Nat
  BY SlotsOfFinite DEF InRoom, ChatTypeOK
<1>2. Echoing = 0
  BY DEF Echoing
<1>3. /\ joined[f] <= said - 0
      /\ heard[f] = Cardinality(SlotsOf(f)) * (said - 0 - joined[f])
                      + 0 * Cardinality(SlotsBefore(f, i))
  BY <1>2 DEF HeardInv
<1>4. said - 0 = said /\ 0 * Cardinality(SlotsBefore(f, i)) = 0
  BY <1>1
<1>5. Cardinality(SlotsOf(f)) * (said - joined[f]) \in Int
  BY <1>1
<1> QED
  BY <1>1, <1>3, <1>4, <1>5

(* And what suffices for it. *)
LEMMA BetweenHeard ==
  ASSUME ChatTypeOK', pc' # "echo", pc' = "name" => joined'[client_fd'] = said',
         \A f \in InRoom' :
           /\ joined'[f] <= said'
           /\ heard'[f] = Cardinality(SlotsOf(f)') * (said' - joined'[f])
  PROVE  HeardInv'
<1>1. Echoing' = 0
  BY DEF Echoing
<1>2. ASSUME NEW f \in InRoom'
      PROVE  /\ joined'[f] <= said' - Echoing'
             /\ heard'[f] = Cardinality(SlotsOf(f)') * (said' - Echoing' - joined'[f])
                              + Echoing' * Cardinality(SlotsBefore(f, i)')
  <2> DEFINE n == Cardinality(SlotsOf(f)')
             m == Cardinality(SlotsBefore(f, i)')
  <2>1. f \in Fd /\ said' \in Nat /\ joined'[f] \in Nat
    BY DEF InRoom, ChatTypeOK
  <2>2. n \in Nat /\ m \in Nat
    <3>1. SlotsOf(f)' \in SUBSET Slot /\ SlotsBefore(f, i)' \in SUBSET Slot
      BY DEF SlotsOf, SlotsBefore
    <3> QED
      BY <3>1, SlotsFinite
  <2>3. joined'[f] <= said' /\ heard'[f] = n * (said' - joined'[f])
    BY <1>2
  <2> HIDE DEF n, m
  <2>4. said' - 0 - joined'[f] = said' - joined'[f] /\ 0 * m = 0
    BY <2>1, <2>2
  <2>5. ASSUME NEW z \in Int PROVE n * z + 0 = n * z
    BY <2>2
  <2>6. n * (said' - joined'[f]) + 0 = n * (said' - joined'[f])
    BY <2>1, <2>5
  <2>7. heard'[f] = n * (said' - 0 - joined'[f]) + 0 * m
    BY <2>3, <2>4, <2>6
  <2> QED
    BY <1>1, <2>1, <2>3, <2>7 DEF n, m
<1> QED
  BY <1>2 DEF HeardInv

LEMMA InitHear == Init => HearInv
<1> SUFFICES ASSUME Init PROVE HearInv
  OBVIOUS
<1>1. InRoom = {}
  BY DEF Init, InRoom
<1> QED
  BY <1>1 DEF Init, HearInv, FilledInv, ScanInv, HeardInv

LEMMA DieHear ==
  ASSUME HearInv, NEW how, Die(how)
  PROVE  HearInv'
BY HearKept DEF Die, room, net, talk, InRoom

LEMMA ClientsHear ==
  ASSUME IInv, HearInv, Clients
  PROVE  HearInv'
<1>1. CASE Connect
  BY <1>1, HearKept DEF Connect, room, control, talk, InRoom
<1>2. CASE \E f \in Fd : Send(f)
  BY <1>2, HearKept DEF Send, room, control, talk, InRoom
<1>3. ASSUME NEW f \in Fd, Drop(f) PROVE HearInv'
  <2>1. InRoom' = InRoom
    BY <1>3 DEF Drop, InRoom, IInv, ChatTypeOK
  <2> QED
    BY <1>3, <2>1, HearKept DEF Drop, room, control, talk
<1>4. ASSUME NEW f \in Fd, Stall(f) \/ Resume(f) PROVE HearInv'
  <2>1. InRoom' = InRoom
    BY <1>4 DEF Stall, Resume, InRoom, IInv, ChatTypeOK
  <2> QED
    BY <1>4, <2>1, HearKept DEF Stall, Resume, room, control, talk
<1> QED
  BY <1>1, <1>2, <1>3, <1>4 DEF Clients

LEMMA SelectHear ==
  ASSUME IInv, HearInv, Select
  PROVE  HearInv'
<1>1. CASE Die("exited")
  BY <1>1, DieHear
<1>2. CASE ~Die("exited")
  <2>1. /\ pc = "select" /\ pc' \in {"accept", "slots"} /\ index' = 0
        /\ listen_fds' = Ready
        /\ UNCHANGED <<room, client_fd, i, net, talk>>
    BY <1>2 DEF Select
  <2>2. InRoom' = InRoom /\ \A f : SlotsOf(f)' = SlotsOf(f)
    BY <2>1 DEF InRoom, SlotsOf, net, room
  <2>3. FilledInv'
    BY <2>1, <2>2 DEF HearInv, FilledInv, Newcomer, room
  <2>4. ScanInv'
    <3>1. listen_fds' \subseteq InRoom'
      BY <2>1, <2>2 DEF IInv, RoomInv, Ready
    <3>2. \A k \in Slot : ~(k < index')
      BY <2>1, SlotType
    <3> QED
      BY <2>1, <3>1, <3>2 DEF ScanInv
  <2>5. HeardInv'
    <3>1. ChatTypeOK'
      BY SelectIInv DEF IInv
    <3>2. \A f \in InRoom' :
            /\ joined'[f] <= said'
            /\ heard'[f] = Cardinality(SlotsOf(f)') * (said' - joined'[f])
      BY <2>1, <2>2, HeardBetween DEF HearInv, IInv, talk
    <3> QED
      BY <2>1, <3>1, <3>2, BetweenHeard
  <2> QED
    BY <2>3, <2>4, <2>5 DEF HearInv
<1> QED
  BY <1>1, <1>2

LEMMA AcceptHear ==
  ASSUME IInv, HearInv, Accept
  PROVE  HearInv'
<1>1. CASE Die("wild")
  BY <1>1, DieHear
<1>2. CASE ~Die("wild")
  <2> DEFINE f == LowestFree
             a == AcceptSlot
  <2>1. /\ f \in Fd /\ sock[f] = "free"
        /\ a \in Slot /\ sock_fd[a] = NoFd
    BY <1>2, LowestFreeType, AcceptSlotType DEF IInv, Accept
  <2>2. /\ sock' = [sock EXCEPT ![f] = "open"]
        /\ client_fd' = f /\ pc' = "name" /\ pc = "accept"
        /\ sock_fd' = [sock_fd EXCEPT ![a] = f]
        /\ named' = [named EXCEPT ![a] = FALSE]
        /\ joined' = [joined EXCEPT ![f] = said]
        /\ heard' = [heard EXCEPT ![f] = 0]
        /\ UNCHANGED <<ind, listen_fds, index, i, said>>
    BY <1>2 DEF Accept
  <2>3. a <= ind
    <3>1. CASE ind < MAX_CONNECTIONS
      <4>1. ind \in FreeSlots
        <5>1. ind \in Slot /\ ~(ind < ind)
          BY <3>1, SlotType, BoundsType DEF IInv, ChatTypeOK
        <5> QED
          BY <2>2, <5>1 DEF HearInv, FilledInv, Newcomer, FreeSlots
      <4>2. FreeSlots \in SUBSET Nat
        BY SlotType DEF FreeSlots
      <4> QED
        BY <4>1, <4>2, FirstOfType DEF AcceptSlot
    <3>2. CASE ind = MAX_CONNECTIONS
      BY <2>1, <3>2, ChatAssumption DEF Slot
    <3> QED
      BY <3>1, <3>2, BoundsType DEF IInv, ChatTypeOK
  <2> HIDE DEF f, a
  <2>4. /\ InRoom' = InRoom \cup {f} /\ f \notin InRoom
        /\ \A k \in Slot : sock_fd[k] # f /\ f # NoFd
        /\ ~named[a]
    <3>1. InRoom' = InRoom \cup {f} /\ f \notin InRoom
      BY <2>1, <2>2 DEF InRoom, IInv, ChatTypeOK
    <3>2. f # NoFd
      BY <2>1, SlotType
    <3> QED
      BY <2>1, <3>1, <3>2, SlotType DEF HearInv, FilledInv, IInv, NamedInv, InRoom
  <2>5. \A k \in Slot : /\ sock_fd'[k] = IF k = a THEN f ELSE sock_fd[k]
                        /\ named'[k] <=> named[k]
    BY <2>1, <2>2, <2>4 DEF IInv, ChatTypeOK
  <2>6. FilledInv'
    <3> SUFFICES ASSUME NEW k \in Slot, sock_fd'[k] # NoFd
                 PROVE  /\ sock_fd'[k] \in InRoom'
                        /\ k < ind' \/ (Newcomer(sock_fd[k])' /\ k <= ind')
                        /\ ~named'[k] =>
                             \/ Newcomer(sock_fd[k])'
                             \/ \E l \in Slot : k < l /\ named'[l] /\ sock_fd'[l] = sock_fd'[k]
      BY DEF FilledInv
    <3>1. CASE k = a
      BY <2>2, <2>3, <2>4, <2>5, <3>1 DEF Newcomer
    <3>2. CASE k # a
      <4>1. sock_fd'[k] = sock_fd[k] /\ sock_fd[k] # NoFd
        BY <2>5, <3>2
      <4>2. /\ sock_fd[k] \in InRoom /\ k < ind
            /\ ~named[k] => \E l \in Slot : k < l /\ named[l] /\ sock_fd[l] = sock_fd[k]
        BY <2>2, <4>1 DEF HearInv, FilledInv, Newcomer
      <4>3. ~named'[k] => \E l \in Slot : k < l /\ named'[l] /\ sock_fd'[l] = sock_fd'[k]
        BY <2>4, <2>5, <4>1, <4>2
      <4> QED
        BY <2>2, <2>4, <4>1, <4>2, <4>3
    <3> QED
      BY <3>1, <3>2
  <2>7. ScanInv'
    BY <2>2, <2>4 DEF HearInv, ScanInv
  <2>8. HeardInv'
    <3>1. ChatTypeOK'
      BY AcceptIInv DEF IInv
    <3>2. \A g \in InRoom : SlotsOf(g)' = SlotsOf(g)
      BY <2>1, <2>4, <2>5, SlotType DEF SlotsOf, InRoom
    <3>3. joined'[f] = said /\ heard'[f] = 0
      BY <2>1, <2>2 DEF IInv, ChatTypeOK
    <3>4. \A g \in InRoom : joined'[g] = joined[g] /\ heard'[g] = heard[g]
      BY <2>2, <2>4 DEF IInv, ChatTypeOK, InRoom
    <3>5. ASSUME NEW g \in InRoom'
          PROVE  /\ joined'[g] <= said'
                 /\ heard'[g] = Cardinality(SlotsOf(g)') * (said' - joined'[g])
      <4>1. CASE g = f
        <5>1. SlotsOf(g)' \in SUBSET Slot
          BY DEF SlotsOf
        <5>2. Cardinality(SlotsOf(g)') \in Nat /\ said \in Nat /\ said - said = 0
          BY <5>1, SlotsFinite DEF IInv, ChatTypeOK
        <5>3. Cardinality(SlotsOf(g)') * 0 = 0
          BY <5>2
        <5>4. said' = said /\ joined'[g] = said /\ heard'[g] = 0
          BY <2>2, <3>3, <4>1
        <5>5. said' - joined'[g] = 0 /\ joined'[g] <= said'
          BY <5>2, <5>4
        <5> QED
          BY <4>1, <5>3, <5>4, <5>5
      <4>2. CASE g \in InRoom
        BY <2>2, <3>2, <3>4, <4>2, HeardBetween DEF HearInv, IInv
      <4> QED
        BY <2>4, <4>1, <4>2
    <3> QED
      BY <2>2, <3>1, <3>3, <3>5, BetweenHeard
  <2> QED
    BY <2>6, <2>7, <2>8 DEF HearInv
<1> QED
  BY <1>1, <1>2

LEMMA ReadNameHear ==
  ASSUME IInv, HearInv, ReadName
  PROVE  HearInv'
<1>1. CASE Die("wild") \/ Die("exited")
  BY <1>1, DieHear
<1>2. CASE ~(Die("wild") \/ Die("exited"))
  <2> DEFINE c == client_fd
  <2>1. /\ pc = "name" /\ pc' = "slots"
        /\ ind < MAX_CONNECTIONS /\ ind' = ind + 1
        /\ named' = [named EXCEPT ![ind] = TRUE]
        /\ sock_fd' = [sock_fd EXCEPT ![ind] = c]
        /\ UNCHANGED <<sock, listen_fds, client_fd, index, i, said, joined, heard>>
    BY <1>2 DEF ReadName, talk
  <2>2. c \in InRoom /\ c \in Fd /\ c # NoFd /\ ind \in Slot /\ ind \in Nat
    BY <2>1, SlotType, BoundsType DEF IInv, RoomInv, InRoom, ChatTypeOK
  <2>3. InRoom' = InRoom
    BY <2>1 DEF InRoom
  <2>4. \A k \in Slot : /\ sock_fd'[k] = IF k = ind THEN c ELSE sock_fd[k]
                        /\ named'[k] <=> named[k] \/ k = ind
                        /\ sock_fd[k] # NoFd /\ sock_fd[k] # c => k < ind
    BY <2>1 DEF IInv, ChatTypeOK, HearInv, FilledInv, Newcomer
  <2>5. sock_fd[ind] \in {NoFd, c}
    BY <2>2, <2>4
  <2>6. FilledInv'
    <3> SUFFICES ASSUME NEW k \in Slot, sock_fd'[k] # NoFd
                 PROVE  /\ sock_fd'[k] \in InRoom' /\ k < ind'
                        /\ ~named'[k] => \E l \in Slot : /\ k < l /\ named'[l]
                                                         /\ sock_fd'[l] = sock_fd'[k]
      BY DEF FilledInv
    <3>1. CASE k = ind
      BY <2>1, <2>2, <2>3, <2>4, <3>1
    <3>2. CASE k # ind
      <4>1. sock_fd'[k] = sock_fd[k] /\ sock_fd[k] # NoFd /\ k \in Nat
        BY <2>4, <3>2, SlotType
      <4>2. /\ sock_fd[k] \in InRoom /\ k <= ind
            /\ ~named[k] =>
                 \/ sock_fd[k] = c
                 \/ \E l \in Slot : k < l /\ named[l] /\ sock_fd[l] = sock_fd[k]
        BY <2>1, <2>2, <4>1 DEF HearInv, FilledInv, Newcomer
      <4>3. k < ind /\ k < ind'
        BY <2>1, <2>2, <3>2, <4>1, <4>2
      <4>4. ASSUME ~named'[k]
            PROVE  \E l \in Slot : k < l /\ named'[l] /\ sock_fd'[l] = sock_fd'[k]
        <5>1. CASE sock_fd[k] = c
          BY <2>2, <2>4, <4>1, <4>3, <5>1
        <5>2. CASE sock_fd[k] # c
          <6>1. PICK l \in Slot : k < l /\ named[l] /\ sock_fd[l] = sock_fd[k]
            BY <2>4, <4>2, <4>4, <5>2
          <6>2. l # ind
            BY <2>5, <4>1, <5>2, <6>1
          <6> QED
            BY <2>4, <4>1, <6>1, <6>2
        <5> QED
          BY <5>1, <5>2
      <4> QED
        BY <2>3, <4>1, <4>2, <4>3, <4>4
    <3> QED
      BY <3>1, <3>2
  <2>7. ScanInv'
    <3>1. index' = 0 /\ pc' = "slots"
      BY <2>1 DEF HearInv, ScanInv
    <3>2. \A k \in Slot : ~(k < index')
      BY <3>1, SlotType
    <3> QED
      BY <3>1, <3>2 DEF ScanInv
  <2>8. HeardInv'
    <3>1. ChatTypeOK'
      BY ReadNameIInv DEF IInv
    <3>2. \A g \in InRoom : joined[g] <= said
                            /\ heard[g] = Cardinality(SlotsOf(g)) * (said - joined[g])
      BY <2>1, HeardBetween DEF HearInv, IInv
    <3>3. ASSUME NEW g \in InRoom
          PROVE  heard[g] = Cardinality(SlotsOf(g)') * (said - joined[g])
      <4>1. CASE g = c
        <5>1. said - joined[g] = 0
          BY <2>1, <4>1 DEF HearInv, HeardInv, IInv, ChatTypeOK
        <5>2. SlotsOf(g) \in SUBSET Slot /\ SlotsOf(g)' \in SUBSET Slot
          BY DEF SlotsOf
        <5>3. /\ Cardinality(SlotsOf(g)) * 0 = 0
              /\ Cardinality(SlotsOf(g)') * 0 = 0
          BY <5>2, SlotsFinite
        <5> QED
          BY <3>2, <5>1, <5>3
      <4>2. CASE g # c
        <5>1. g # NoFd
          BY SlotType DEF InRoom
        <5>2. SlotsOf(g)' = SlotsOf(g)
          BY <2>4, <2>5, <4>2, <5>1 DEF SlotsOf
        <5> QED
          BY <3>2, <5>2
      <4> QED
        BY <4>1, <4>2
    <3>4. \A g \in InRoom' :
            /\ joined'[g] <= said'
            /\ heard'[g] = Cardinality(SlotsOf(g)') * (said' - joined'[g])
      BY <2>1, <2>3, <3>2, <3>3
    <3> QED
      BY <2>1, <3>1, <3>4, BetweenHeard
  <2> QED
    BY <2>6, <2>7, <2>8 DEF HearInv
<1> QED
  BY <1>1, <1>2

(* The scan goes on behind slot k, where a message was or someone left.    *)
LEMMA ScanGoesOn ==
  ASSUME ChatTypeOK, ScanInv, NEW k \in Slot, Scanning(k), named[k]
  PROVE  \A l \in Slot : l <= k /\ sock_fd[l] \in listen_fds => named[l]
<1> SUFFICES ASSUME NEW l \in Slot, l <= k, sock_fd[l] \in listen_fds
             PROVE  named[l]
  OBVIOUS
<1>1. k \in Nat /\ l \in Nat /\ index \in Nat /\ pc = "slots"
  BY SlotType, BoundsType DEF ChatTypeOK, Scanning
<1>2. CASE l < index
  BY <1>1, <1>2 DEF ScanInv
<1>3. CASE l >= index
  <2>1. l \in SlotsToRead
    BY <1>1, <1>3 DEF SlotsToRead
  <2>2. k <= l
    BY <2>1 DEF Scanning
  <2> QED
    BY <1>1, <2>2
<1> QED
  BY <1>1, <1>2, <1>3

LEMMA ReadFromHear ==
  ASSUME IInv, HearInv, NEW k \in Slot, ReadFrom(k)
  PROVE  HearInv'
<1>1. CASE Die("wild") \/ Die("crashed")
  BY <1>1, DieHear
<1>2. CASE ~(Die("wild") \/ Die("crashed"))
  <2>1. /\ named[k] /\ Scanning(k) /\ pc = "slots" /\ pc' = "echo"
        /\ said' = said + 1 /\ i' = 0 /\ index' = k + 1
        /\ UNCHANGED <<sock_fd, named, ind, listen_fds, client_fd, sock, joined, heard>>
    BY <1>2 DEF ReadFrom, Scanning, room
  <2>2. InRoom' = InRoom /\ \A f : SlotsOf(f)' = SlotsOf(f)
    BY <2>1 DEF InRoom, SlotsOf
  <2>3. FilledInv'
    BY <2>1, <2>2 DEF HearInv, FilledInv, Newcomer
  <2>4. ScanInv'
    <3>1. \A l \in Slot : l <= k /\ sock_fd[l] \in listen_fds => named[l]
      BY <2>1, ScanGoesOn DEF HearInv, IInv
    <3>2. \A l \in Slot : l < index' => l <= k
      BY <2>1, SlotType
    <3> QED
      BY <2>1, <3>1, <3>2 DEF ScanInv
  <2>5. HeardInv'
    <3>1. Echoing' = 1 /\ said' - 1 = said
      <4>1. said \in Nat
        BY DEF IInv, ChatTypeOK
      <4>2. said' - 1 = said
        BY <2>1, <4>1
      <4> QED
        BY <2>1, <4>2 DEF Echoing
    <3>2. ASSUME NEW g PROVE SlotsBefore(g, i)' = {}
      <4>1. \A l \in Slot : ~(l < 0)
        BY SlotType
      <4> QED
        BY <2>1, <4>1 DEF SlotsBefore, SlotsOf
    <3>3. ASSUME NEW g \in InRoom
          PROVE  /\ joined'[g] <= said' - Echoing'
                 /\ heard'[g] = Cardinality(SlotsOf(g)') * (said' - Echoing' - joined'[g])
                                  + Echoing' * Cardinality(SlotsBefore(g, i)')
      <4>1. joined[g] <= said /\ heard[g] = Cardinality(SlotsOf(g)) * (said - joined[g])
        BY <2>1, HeardBetween DEF HearInv, IInv
      <4>2. heard[g] \in Nat
        BY DEF InRoom, IInv, ChatTypeOK
      <4>3. Cardinality(SlotsBefore(g, i)') = 0
        BY <3>2, FS_EmptySet
      <4>4. heard[g] + 1 * 0 = heard[g]
        BY <4>2
      <4> QED
        BY <2>1, <2>2, <3>1, <4>1, <4>3, <4>4
    <3> QED
      BY <2>1, <2>2, <3>3 DEF HeardInv
  <2> QED
    BY <2>3, <2>4, <2>5 DEF HearInv
<1> QED
  BY <1>1, <1>2

LEMMA LeaveHear ==
  ASSUME IInv, HearInv, NEW k \in Slot, Leave(k)
  PROVE  HearInv'
<1> DEFINE f == sock_fd[k]
<1>1. /\ named[k] /\ pc = "slots" /\ Scanning(k) /\ f \in listen_fds
      /\ sock' = [sock EXCEPT ![f] = "free"]
      /\ sock_fd' = [sock_fd EXCEPT ![k] = NoFd]
      /\ named' = [named EXCEPT ![k] = FALSE]
      /\ index' = k + 1
      /\ UNCHANGED <<pc, ind, client_fd, listen_fds, i, said, joined, heard>>
  BY DEF Leave, Scanning, SlotsToRead, talk
<1>2. f \in InRoom /\ f \in Fd /\ f # NoFd
  BY <1>1, SlotType DEF IInv, NamedInv, InRoom
<1>3. \A l \in Slot : l <= k /\ sock_fd[l] \in listen_fds => named[l]
  BY <1>1, ScanGoesOn DEF HearInv, IInv
<1>4. \A l \in Slot : named[l] /\ sock_fd[l] = f => l = k
  BY <1>1 DEF IInv, NamedInv
<1>5. \A l \in Slot : sock_fd[l] = f => l = k
  <2> SUFFICES ASSUME NEW l \in Slot, sock_fd[l] = f, ~named[l] PROVE FALSE
    BY <1>4
  <2>1. PICK m \in Slot : l < m /\ named[m] /\ sock_fd[m] = f
    BY <1>1, <1>2 DEF HearInv, FilledInv, Newcomer
  <2>2. l <= k
    BY <1>4, <2>1, SlotType
  <2> QED
    BY <1>1, <1>3, <2>2
<1>6. InRoom' = InRoom \ {f}
  BY <1>1, <1>2 DEF InRoom, IInv, ChatTypeOK
<1> HIDE DEF f
<1>7. \A l \in Slot : /\ named'[l] <=> named[l] /\ l # k
                      /\ sock_fd'[l] = IF l = k THEN NoFd ELSE sock_fd[l]
  BY <1>1 DEF IInv, ChatTypeOK
<1>8. FilledInv'
  <2> SUFFICES ASSUME NEW l \in Slot, sock_fd'[l] # NoFd
               PROVE  /\ sock_fd'[l] \in InRoom' /\ l < ind'
                      /\ ~named'[l] => \E m \in Slot : /\ l < m /\ named'[m]
                                                       /\ sock_fd'[m] = sock_fd'[l]
    BY DEF FilledInv
  <2>1. l # k /\ sock_fd'[l] = sock_fd[l] /\ sock_fd[l] # f
    BY <1>5, <1>7
  <2>2. /\ sock_fd[l] \in InRoom /\ l < ind
        /\ ~named[l] => \E m \in Slot : l < m /\ named[m] /\ sock_fd[m] = sock_fd[l]
    BY <1>1, <2>1 DEF HearInv, FilledInv, Newcomer
  <2>3. ASSUME ~named'[l]
        PROVE  \E m \in Slot : l < m /\ named'[m] /\ sock_fd'[m] = sock_fd'[l]
    <3>1. PICK m \in Slot : l < m /\ named[m] /\ sock_fd[m] = sock_fd[l]
      BY <1>7, <2>1, <2>2, <2>3
    <3>2. m # k
      BY <2>1, <3>1 DEF f
    <3> QED
      BY <1>7, <2>1, <3>1, <3>2
  <2> QED
    BY <1>1, <1>6, <2>1, <2>2, <2>3
<1>9. ScanInv'
  <2>1. \A l \in Slot : l < index' /\ sock_fd'[l] \in listen_fds => named'[l]
    <3>1. NoFd \notin listen_fds
      BY SlotType DEF IInv, ChatTypeOK
    <3>2. \A l \in Slot : l < index' => l <= k
      BY <1>1, SlotType
    <3> QED
      BY <1>3, <1>7, <3>1, <3>2
  <2> QED
    BY <1>1, <2>1 DEF ScanInv
<1>10. HeardInv'
  <2>1. ChatTypeOK'
    BY LeaveIInv DEF IInv
  <2>2. \A g \in InRoom' : SlotsOf(g)' = SlotsOf(g)
    <3> TAKE g \in InRoom'
    <3>1. g # f /\ g # NoFd
      BY <1>6, SlotType DEF InRoom
    <3> QED
      BY <1>7, <3>1 DEF SlotsOf, f
  <2>3. \A g \in InRoom' :
            /\ joined'[g] <= said'
            /\ heard'[g] = Cardinality(SlotsOf(g)') * (said' - joined'[g])
    BY <1>1, <1>6, <2>2, HeardBetween DEF HearInv, IInv
  <2> QED
    BY <1>1, <2>1, <2>3, BetweenHeard
<1> QED
  BY <1>8, <1>9, <1>10 DEF HearInv

LEMMA EchoHear ==
  ASSUME IInv, HearInv, Echo
  PROVE  HearInv'
<1>1. CASE Die("exited") \/ Die("killed")
  BY <1>1, DieHear
<1>2. CASE ~(Die("exited") \/ Die("killed"))
  <2>1. PICK k : k = FirstOf(Listeners)
    OBVIOUS
  <2>2. k \in Listeners /\ \A l \in Listeners : k <= l
    BY <1>2, <2>1, SlotType, FirstOfType DEF Listeners, Echo
  <2>3. PICK f : f = sock_fd[k]
    OBVIOUS
  <2>4. /\ heard' = [heard EXCEPT ![f] = @ + 1]
        /\ i' = k + 1 /\ pc = "echo"
        /\ UNCHANGED <<sock_fd, named, ind, listen_fds, client_fd, pc, index, sock,
                       said, joined>>
    BY <1>2, <2>1, <2>3 DEF Echo, room, net
  <2>5. k \in Slot /\ k \in Nat /\ k >= i /\ f \in InRoom /\ f \in Fd /\ i \in Nat
    BY <2>2, <2>3, SlotType, BoundsType
       DEF Listeners, HearInv, FilledInv, InRoom, IInv, ChatTypeOK
  <2>6. InRoom' = InRoom /\ \A g : SlotsOf(g)' = SlotsOf(g)
    BY <2>4 DEF InRoom, SlotsOf
  <2>7. FilledInv' /\ ScanInv'
    BY <2>4, <2>6 DEF HearInv, FilledInv, ScanInv, Newcomer
  <2>8. ASSUME NEW g \in InRoom
        PROVE  SlotsBefore(g, i)' = IF g = f THEN SlotsBefore(g, i) \cup {k}
                                             ELSE SlotsBefore(g, i)
    <3>1. SlotsBefore(g, i)' = {l \in Slot : sock_fd[l] = g /\ l < k + 1}
      BY <2>4 DEF SlotsBefore, SlotsOf
    <3>2. \A l \in Slot : sock_fd[l] = g /\ l < k + 1 <=> sock_fd[l] = g /\ (l < i \/ l = k)
      <4> SUFFICES ASSUME NEW l \in Slot, sock_fd[l] = g
                   PROVE  l < k + 1 <=> l < i \/ l = k
        OBVIOUS
      <4>1. l \in Nat /\ g # NoFd
        BY SlotType DEF InRoom
      <4>2. l >= i => k <= l
        BY <2>2, <4>1 DEF Listeners
      <4> QED
        BY <2>5, <4>1, <4>2
    <3> QED
      BY <2>3, <2>5, <3>1, <3>2 DEF SlotsBefore, SlotsOf
  <2>9. HeardInv'
    <3>1. Echoing' = 1 /\ Echoing = 1
      BY <2>4 DEF Echoing
    <3>2. ASSUME NEW g \in InRoom
          PROVE  /\ joined'[g] <= said' - Echoing'
                 /\ heard'[g] = Cardinality(SlotsOf(g)') * (said' - Echoing' - joined'[g])
                                  + Echoing' * Cardinality(SlotsBefore(g, i)')
      <4> DEFINE x == Cardinality(SlotsOf(g)) * (said - 1 - joined[g])
                 b == Cardinality(SlotsBefore(g, i))
                 c == Cardinality(SlotsBefore(g, i)')
      <4>1. joined[g] <= said - 1 /\ heard[g] = x + 1 * b
        BY <3>1 DEF HearInv, HeardInv
      <4>2. x \in Int /\ b \in Nat
        <5>1. said \in Nat /\ joined[g] \in Nat
          BY DEF InRoom, IInv, ChatTypeOK
        <5> QED
          BY <5>1, SlotsOfFinite
      <4>3. CASE g = f
        <5>1. k \notin SlotsBefore(g, i)
          BY <2>5 DEF SlotsBefore
        <5>2. c = b + 1
          BY <2>8, <4>3, <5>1, SlotsOfFinite, FS_AddElement
        <5>3. heard'[g] = heard[g] + 1
          BY <2>4, <2>5, <4>3 DEF IInv, ChatTypeOK
        <5>4. heard'[g] = x + 1 * c
          <6> HIDE DEF x, b, c
          <6> QED
            BY <4>1, <4>2, <5>2, <5>3
        <5> QED
          BY <2>4, <2>6, <3>1, <4>1, <5>4
      <4>4. CASE g # f
        <5>1. c = b /\ heard'[g] = heard[g]
          BY <2>4, <2>5, <2>8, <4>4 DEF IInv, ChatTypeOK, InRoom
        <5> QED
          BY <2>4, <2>6, <3>1, <4>1, <5>1
      <4> QED
        BY <4>3, <4>4
    <3> QED
      BY <2>4, <2>6, <3>2 DEF HeardInv
  <2> QED
    BY <2>7, <2>9 DEF HearInv
<1> QED
  BY <1>1, <1>2

(* The loop is through: every slot of every client has got the message.    *)
LEMMA EndEchoHear ==
  ASSUME IInv, HearInv, EndEcho
  PROVE  HearInv'
<1>1. /\ pc = "echo" /\ pc' = "slots" /\ Listeners = {}
      /\ UNCHANGED <<sock_fd, named, ind, listen_fds, client_fd, index, i, sock, said,
                     joined, heard>>
  BY DEF EndEcho, room, net, talk
<1>2. InRoom' = InRoom /\ \A g : SlotsOf(g)' = SlotsOf(g)
  BY <1>1 DEF InRoom, SlotsOf
<1>3. FilledInv' /\ ScanInv'
  BY <1>1, <1>2 DEF HearInv, FilledInv, ScanInv, Newcomer
<1>4. HeardInv'
  <2>1. ChatTypeOK'
    BY LoopEndsIInv DEF IInv
  <2>2. Echoing = 1
    BY <1>1 DEF Echoing
  <2>3. ASSUME NEW g \in InRoom
        PROVE  /\ joined[g] <= said
               /\ heard[g] = Cardinality(SlotsOf(g)) * (said - joined[g])
    <3> DEFINE n == Cardinality(SlotsOf(g))
               m == said - joined[g]
    <3>1. SlotsBefore(g, i) = SlotsOf(g)
      <4>1. \A l \in SlotsOf(g) : l < i
        <5> TAKE l \in SlotsOf(g)
        <5>1. l \in Slot /\ l \in Nat /\ sock_fd[l] # NoFd /\ i \in Nat
          BY SlotType, BoundsType DEF SlotsOf, InRoom, IInv, ChatTypeOK
        <5> QED
          BY <1>1, <5>1 DEF Listeners
      <4> QED
        BY <4>1 DEF SlotsBefore
    <3>2. joined[g] <= said - 1 /\ heard[g] = n * (said - 1 - joined[g]) + 1 * n
      BY <2>2, <3>1 DEF HearInv, HeardInv
    <3>3. n \in Nat /\ m \in Int /\ said \in Nat /\ joined[g] \in Nat
          /\ said - 1 - joined[g] = m - 1
      BY SlotsOfFinite DEF InRoom, IInv, ChatTypeOK
    <3>4. joined[g] <= said /\ 1 * n = n
      BY <3>2, <3>3
    <3>5. heard[g] = n * m
      BY <3>2, <3>3, <3>4, OneMessageMore
    <3> QED
      BY <3>4, <3>5
  <2> QED
    BY <1>1, <1>2, <2>1, <2>3, BetweenHeard
<1> QED
  BY <1>3, <1>4 DEF HearInv

LEMMA EndRoundHear ==
  ASSUME IInv, HearInv, EndRound
  PROVE  HearInv'
<1>1. /\ pc = "slots" /\ pc' = "select"
      /\ UNCHANGED <<sock_fd, named, ind, listen_fds, client_fd, index, i, sock, said,
                     joined, heard>>
  BY DEF EndRound, room, net, talk
<1>2. InRoom' = InRoom
  BY <1>1 DEF InRoom
<1> QED
  BY <1>1, <1>2
     DEF HearInv, FilledInv, ScanInv, HeardInv, Newcomer, Echoing, SlotsOf, SlotsBefore

LEMMA NextHear == IInv /\ HearInv /\ [Next]_vars => HearInv'
<1> SUFFICES ASSUME IInv, HearInv, [Next]_vars PROVE HearInv'
  OBVIOUS
<1>1. CASE Server
  BY <1>1, SelectHear, AcceptHear, ReadNameHear, ReadFromHear, LeaveHear,
     EchoHear, EndEchoHear, EndRoundHear DEF Server
<1>2. CASE Clients
  BY <1>2, ClientsHear
<1>3. CASE UNCHANGED vars
  BY <1>3, HearKept DEF vars, room, control, net, talk, InRoom
<1> QED
  BY <1>1, <1>2, <1>3 DEF Next

(* EveryoneHears, with any number of slots, clients and messages: between  *)
(* two rounds everyone in the room has received every message since it     *)
(* came, once for each of its slots, whoever came and left in between      *)
(* (chat_server.c:48-49, 77-85, 169-190).                                  *)
THEOREM RoomHears == Spec => []EveryoneHears
<1>1. Init => IInv /\ HearInv
  BY InitIInv, InitHear
<1>2. (IInv /\ HearInv) /\ [Next]_vars => (IInv /\ HearInv)'
  BY NextIInv, NextHear
<1>3. IInv /\ HearInv => EveryoneHears
  BY HeardBetween DEF IInv, HearInv, EveryoneHears
<1> QED
  BY <1>1, <1>2, <1>3, PTL DEF Spec
=============================================================================
