-------------------------- MODULE WordServerProofs --------------------------
(***************************************************************************)
(* Proofs about WordServer, for every set of descriptors, every length of  *)
(* the listen queue and every number of connections, messages, departures  *)
(* and stalls.                                                             *)
(***************************************************************************)
EXTENDS WordServer, WordGameProofs, LeastElements, SequenceTheorems

-----------------------------------------------------------------------------
(* The linked lists. *)

(* A node of the list stands somewhere in it. *)
LEMMA PositionType ==
  ASSUME NEW S, NEW q \in Seq(S), NEW f \in ToSet(q)
  PROVE  Position(q, f) \in 1..Len(q) /\ q[Position(q, f)] = f
<1>1. \E k \in DOMAIN q : q[k] = f
  BY DEF ToSet
<1>2. DOMAIN q = 1..Len(q)
  OBVIOUS
<1> QED
  BY <1>1, <1>2 DEF Position

LEMMA FirstType ==
  ASSUME NEW S, NEW q \in Seq(S)
  PROVE  /\ q = <<>> => First(q) = NoFd
         /\ q # <<>> => First(q) \in ToSet(q)
<1>1. q # <<>> => 1 \in DOMAIN q
  OBVIOUS
<1> QED
  BY <1>1 DEF First, ToSet

LEMMA NextInType ==
  ASSUME NEW S, NEW q \in Seq(S), NEW f \in ToSet(q)
  PROVE  Next_in(q, f) \in ToSet(q) \cup {NoFd}
<1> DEFINE k == Position(q, f)
           rest == SubSeq(q, 1 + k, Len(q))
<1>1. k \in 1..Len(q) /\ Len(q) \in Nat
  BY PositionType
<1> HIDE DEF k
<1>2. /\ rest \in Seq(S)
      /\ \A m \in 1..Len(rest) : rest[m] = q[k + m] /\ k + m \in 1..Len(q)
  BY <1>1
<1>3. rest # <<>> => rest[1] \in ToSet(q)
  <2>1. rest # <<>> => 1 \in 1..Len(rest)
    BY <1>2
  <2>2. rest # <<>> => rest[1] = q[k + 1] /\ k + 1 \in 1..Len(q)
    BY <1>2, <2>1
  <2>3. DOMAIN q = 1..Len(q)
    OBVIOUS
  <2> QED
    BY <2>2, <2>3 DEF ToSet
<1> QED
  BY <1>3 DEF Next_in, First, k

(* Without the node f, the others keep their order. *)
LEMMA WithoutNodes ==
  ASSUME NEW S, NEW q \in Seq(S), NEW f \in ToSet(q)
  PROVE  LET k == Position(q, f)
             r == Without(q, f)
         IN  /\ r \in Seq(S) /\ Len(r) = Len(q) - 1
             /\ \A m \in 1..Len(r) : r[m] = IF m < k THEN q[m] ELSE q[m + 1]
<1> DEFINE k == Position(q, f)
           r == Without(q, f)
           a == SubSeq(q, 1, k - 1)
           b == SubSeq(q, k + 1, Len(q))
<1>1. k \in 1..Len(q) /\ q[k] = f /\ Len(q) \in Nat
  BY PositionType
<1>2. r = a \o b
  BY DEF Without, RemoveAt
<1> HIDE DEF k, r
<1>3. /\ a \in Seq(S) /\ Len(a) = k - 1
      /\ \A m \in 1..(k - 1) : a[m] = q[m]
  BY <1>1
<1>4. /\ b \in Seq(S) /\ Len(b) = Len(q) - k
      /\ \A m \in 1..(Len(q) - k) : b[m] = q[k + m]
  BY <1>1
<1> HIDE DEF a, b
<1>5. /\ a \o b \in Seq(S) /\ Len(a \o b) = Len(a) + Len(b)
      /\ \A m \in 1..(Len(a) + Len(b)) :
           (a \o b)[m] = IF m <= Len(a) THEN a[m] ELSE b[m - Len(a)]
  BY <1>3, <1>4, ConcatProperties
<1>6. \A m \in 1..(Len(q) - 1) : m >= k => /\ m - (k - 1) \in 1..(Len(q) - k)
                                           /\ k + (m - (k - 1)) = m + 1
  BY <1>1
<1>7. ASSUME NEW m \in 1..Len(r)
      PROVE  r[m] = IF m < k THEN q[m] ELSE q[m + 1]
  <2>1. m \in 1..(Len(q) - 1)
    BY <1>1, <1>2, <1>3, <1>4, <1>5
  <2>2. r[m] = IF m <= k - 1 THEN a[m] ELSE b[m - (k - 1)]
    BY <1>1, <1>2, <1>3, <1>4, <1>5, <2>1
  <2>3. CASE m < k
    BY <1>1, <1>3, <2>1, <2>2, <2>3
  <2>4. CASE m >= k
    BY <1>1, <1>4, <1>6, <2>1, <2>2, <2>4
  <2> QED
    BY <1>1, <2>1, <2>3, <2>4
<1>8. r \in Seq(S)
  BY <1>2, <1>5
<1>9. Len(r) = Len(q) - 1
  <2>1. Len(r) = (k - 1) + (Len(q) - k)
    BY <1>2, <1>3, <1>4, <1>5
  <2>2. k \in Nat /\ Len(q) \in Nat
    BY <1>1
  <2> QED
    BY <2>1, <2>2
<1> QED
  BY <1>7, <1>8, <1>9 DEF k, r

LEMMA WithoutType ==
  ASSUME NEW S, NEW q \in Seq(S), IsInjective(q), NEW f
  PROVE  /\ Without(q, f) \in Seq(S)
         /\ IsInjective(Without(q, f))
         /\ ToSet(Without(q, f)) = ToSet(q) \ {f}
         /\ Without(q, f) = <<>> <=> ToSet(q) \subseteq {f}
<1>1. CASE f \notin ToSet(q)
  <2>1. ToSet(q) \subseteq {f} => q = <<>>
    <3>1. q # <<>> => First(q) \in ToSet(q)
      BY FirstType
    <3> QED
      BY <1>1, <3>1
  <2>2. q = <<>> => ToSet(q) = {}
    BY DEF ToSet
  <2> QED
    BY <1>1, <2>1, <2>2 DEF Without
<1>2. CASE f \in ToSet(q)
  <2> DEFINE k == Position(q, f)
             r == Without(q, f)
  <2>1. k \in 1..Len(q) /\ q[k] = f /\ Len(q) \in Nat
    BY <1>2, PositionType
  <2>3. /\ r \in Seq(S) /\ Len(r) = Len(q) - 1
        /\ \A m \in 1..Len(r) : r[m] = IF m < k THEN q[m] ELSE q[m + 1]
    BY <1>2, WithoutNodes
  <2> HIDE DEF k, r
  <2>4. \A m \in 1..Len(q) : m # k => q[m] # f
    BY <2>1 DEF IsInjective
  <2>5. ToSet(r) = ToSet(q) \ {f}
    <3>1. ASSUME NEW m \in 1..Len(r) PROVE r[m] \in ToSet(q) \ {f}
      BY <2>1, <2>3, <2>4 DEF ToSet
    <3>2. ASSUME NEW m \in 1..Len(q), q[m] # f PROVE q[m] \in ToSet(r)
      <4>1. CASE m < k
        <5>1. m \in 1..Len(r) /\ r[m] = q[m]
          BY <2>1, <2>3, <4>1
        <5> QED
          BY <2>3, <5>1 DEF ToSet
      <4>2. CASE m > k
        <5>1. m - 1 \in 1..Len(r) /\ r[m - 1] = q[m]
          BY <2>1, <2>3, <4>2
        <5> QED
          BY <2>3, <5>1 DEF ToSet
      <4> QED
        BY <2>1, <3>2, <4>1, <4>2
    <3>3. DOMAIN r = 1..Len(r) /\ DOMAIN q = 1..Len(q)
      BY <2>3
    <3> QED
      BY <3>1, <3>2, <3>3 DEF ToSet
  <2>6. IsInjective(r)
    <3> SUFFICES ASSUME NEW a \in 1..Len(r), NEW b \in 1..Len(r), r[a] = r[b]
                 PROVE  a = b
      BY <2>3 DEF IsInjective
    <3>1. \A x, y \in 1..Len(q) : q[x] = q[y] => x = y
      BY DEF IsInjective
    <3> DEFINE aa == IF a < k THEN a ELSE a + 1
               bb == IF b < k THEN b ELSE b + 1
    <3>2. /\ aa \in 1..Len(q) /\ bb \in 1..Len(q)
          /\ r[a] = q[aa] /\ r[b] = q[bb]
      BY <2>1, <2>3
    <3>3. aa = bb
      BY <3>1, <3>2
    <3> QED
      BY <2>1, <3>3
  <2>7. r = <<>> <=> ToSet(r) = {}
    <3>1. r # <<>> => First(r) \in ToSet(r)
      BY <2>3, FirstType
    <3>2. r = <<>> => ToSet(r) = {}
      BY DEF ToSet
    <3> QED
      BY <3>1, <3>2
  <2> QED
    BY <2>3, <2>5, <2>6, <2>7 DEF r
<1> QED
  BY <1>1, <1>2

(* A new node goes in front. *)
LEMMA InFrontType ==
  ASSUME NEW S, NEW q \in Seq(S), IsInjective(q), NEW f \in S, f \notin ToSet(q)
  PROVE  /\ <<f>> \o q \in Seq(S) /\ <<f>> \o q # <<>>
         /\ IsInjective(<<f>> \o q)
         /\ ToSet(<<f>> \o q) = ToSet(q) \cup {f}
<1> DEFINE r == <<f>> \o q
<1>1. /\ r \in Seq(S) /\ Len(r) = Len(q) + 1 /\ Len(q) \in Nat
      /\ r[1] = f /\ \A k \in 2..Len(r) : r[k] = q[k - 1] /\ k - 1 \in 1..Len(q)
  OBVIOUS
<1>2. \A k \in 1..Len(q) : r[k + 1] = q[k] /\ k + 1 \in 1..Len(r)
  BY <1>1
<1> HIDE DEF r
<1>3. /\ DOMAIN r = 1..Len(r) /\ DOMAIN q = 1..Len(q) /\ 1 \in 1..Len(r)
      /\ \A k \in 1..Len(r) : k = 1 \/ k \in 2..Len(r)
  BY <1>1
<1>4. ToSet(r) = ToSet(q) \cup {f}
  <2>1. ASSUME NEW k \in 1..Len(r) PROVE r[k] \in ToSet(q) \cup {f}
    BY <1>1, <1>3 DEF ToSet
  <2>2. ASSUME NEW k \in 1..Len(q) PROVE q[k] \in ToSet(r)
    BY <1>2, <1>3 DEF ToSet
  <2>3. f \in ToSet(r)
    BY <1>1, <1>3 DEF ToSet
  <2> QED
    BY <1>3, <2>1, <2>2, <2>3 DEF ToSet
<1>5. IsInjective(r)
  <2> SUFFICES ASSUME NEW a \in 1..Len(r), NEW b \in 1..Len(r), r[a] = r[b]
               PROVE  a = b
    BY <1>3 DEF IsInjective
  <2>1. \A k \in 1..Len(q) : q[k] # f
    BY <1>3 DEF ToSet
  <2>2. CASE a = 1 \/ b = 1
    BY <1>1, <1>3, <2>1, <2>2
  <2>3. CASE a # 1 /\ b # 1
    <3>1. a \in 2..Len(r) /\ b \in 2..Len(r)
      BY <1>3, <2>3
    <3>2. q[a - 1] = q[b - 1] /\ a - 1 \in 1..Len(q) /\ b - 1 \in 1..Len(q)
      BY <1>1, <3>1
    <3>3. a - 1 = b - 1
      BY <1>3, <3>2 DEF IsInjective
    <3> QED
      BY <3>1, <3>3
  <2> QED
    BY <2>2, <2>3
<1>6. r # <<>>
  BY <1>1
<1> QED
  BY <1>1, <1>4, <1>5, <1>6 DEF r

(* The next of the node at p is the one at p + 1. *)
LEMMA NextAt ==
  ASSUME NEW S, NEW q \in Seq(S), IsInjective(q), NEW p \in 1..Len(q)
  PROVE  /\ q[p] \in ToSet(q) /\ Position(q, q[p]) = p
         /\ Next_in(q, q[p]) = IF p < Len(q) THEN q[p + 1] ELSE NoFd
<1>1. DOMAIN q = 1..Len(q) /\ Len(q) \in Nat
  OBVIOUS
<1>2. q[p] \in ToSet(q)
  BY <1>1 DEF ToSet
<1>3. Position(q, q[p]) = p
  BY <1>1, <1>2, PositionType DEF IsInjective
<1>4. PICK rest : rest = SubSeq(q, 1 + p, Len(q))
  OBVIOUS
<1>5. Next_in(q, q[p]) = First(rest)
  BY <1>3, <1>4 DEF Next_in
<1>6. p \in Nat /\ Len(q) \in Nat /\ 1 <= p /\ p <= Len(q)
  OBVIOUS
<1>7. rest \in Seq(S) /\ \A m \in 1..Len(rest) : rest[m] = q[p + m]
  BY <1>1, <1>4, <1>6
<1>8. CASE p < Len(q)
  <2>1. Len(rest) = Len(q) - (1 + p) + 1
    BY <1>4, <1>6, <1>8
  <2>2. 1 \in 1..Len(rest)
    BY <1>6, <1>8, <2>1
  <2>3. rest # <<>> /\ rest[1] = q[p + 1]
    BY <1>7, <2>2
  <2>4. Next_in(q, q[p]) = q[p + 1]
    BY <1>5, <2>3 DEF First
  <2> QED
    BY <1>2, <1>3, <1>8, <2>4
<1>9. CASE ~(p < Len(q))
  <2>1. p = Len(q)
    BY <1>6, <1>9
  <2>2. rest = SubSeq(q, 1 + Len(q), Len(q))
    BY <1>4, <2>1
  <2>3. rest = <<>>
    BY <1>6, <2>2
  <2> QED
    BY <1>2, <1>3, <1>5, <1>9, <2>3 DEF First
<1> QED
  BY <1>8, <1>9

(* Unlinking f makes its next the next of the node before it. *)
LEMMA NextWithout ==
  ASSUME NEW S, NEW q \in Seq(S), IsInjective(q), NEW f \in ToSet(q),
         NEW x \in ToSet(q), x # f, NoFd \notin S
  PROVE  Next_in(Without(q, f), x) =
           IF Next_in(q, x) = f THEN Next_in(q, f) ELSE Next_in(q, x)
<1>1. PICK k : k = Position(q, f)
  OBVIOUS
<1>2. PICK r : r = Without(q, f)
  OBVIOUS
<1>3. PICK p : p = Position(q, x)
  OBVIOUS
<1>4. /\ k \in 1..Len(q) /\ q[k] = f /\ p \in 1..Len(q) /\ q[p] = x
      /\ Len(q) \in Nat /\ p # k
  BY <1>1, <1>3, PositionType
<1>5. /\ r \in Seq(S) /\ Len(r) = Len(q) - 1
      /\ \A m \in 1..Len(r) : r[m] = IF m < k THEN q[m] ELSE q[m + 1]
  BY <1>1, <1>2, WithoutNodes
<1>6. IsInjective(r)
  BY <1>2, WithoutType
<1>7. /\ Next_in(q, x) = IF p < Len(q) THEN q[p + 1] ELSE NoFd
      /\ Next_in(q, f) = IF k < Len(q) THEN q[k + 1] ELSE NoFd
  BY <1>4, NextAt
<1>8. ASSUME NEW m \in 1..Len(r), r[m] = x
      PROVE  Next_in(r, x) = IF m < Len(r) THEN r[m + 1] ELSE NoFd
  BY <1>5, <1>6, <1>8, NextAt
<1>9. \A a, b \in 1..Len(q) : q[a] = q[b] => a = b
  BY DEF IsInjective
<1>10. CASE p < k
  <2>1. p \in 1..Len(r) /\ r[p] = x
    BY <1>4, <1>5, <1>10
  <2>2. Next_in(r, x) = IF p < Len(r) THEN r[p + 1] ELSE NoFd
    BY <1>8, <2>1
  <2>3. CASE p + 1 = k
    <3>1. Next_in(q, x) = f
      BY <1>4, <1>7, <2>3
    <3>2. p < Len(r) => r[p + 1] = q[k + 1]
      BY <1>4, <1>5, <2>3
    <3>3. p < Len(r) <=> k < Len(q)
      BY <1>4, <1>5, <2>3
    <3> QED
      BY <1>2, <1>7, <2>2, <3>1, <3>2, <3>3
  <2>4. CASE p + 1 # k
    <3>1. p < Len(r) /\ p < Len(q) /\ p + 1 < k /\ p + 1 \in 1..Len(q)
          /\ p + 1 \in 1..Len(r)
      BY <1>4, <1>5, <1>10, <2>4
    <3>2. r[p + 1] = q[p + 1] /\ q[p + 1] # f
      BY <1>4, <1>5, <1>9, <2>4, <3>1
    <3> QED
      BY <1>2, <1>7, <2>2, <3>1, <3>2
  <2> QED
    BY <2>3, <2>4
<1>11. CASE p > k
  <2>1. p - 1 \in 1..Len(r) /\ ~(p - 1 < k) /\ (p - 1) + 1 = p
    BY <1>4, <1>5, <1>11
  <2>2. r[p - 1] = x
    BY <1>4, <1>5, <2>1
  <2>3. Next_in(r, x) = IF p - 1 < Len(r) THEN r[p] ELSE NoFd
    BY <1>8, <2>1, <2>2
  <2>4. CASE p < Len(q)
    <3>1. p \in 1..Len(r) /\ ~(p < k) /\ p - 1 < Len(r) /\ p + 1 \in 1..Len(q)
      BY <1>4, <1>5, <1>11, <2>4
    <3>2. r[p] = q[p + 1]
      BY <1>5, <3>1
    <3>3. q[p + 1] # f
      BY <1>4, <1>9, <1>11, <3>1
    <3> QED
      BY <1>2, <1>7, <2>3, <2>4, <3>1, <3>2, <3>3
  <2>5. CASE ~(p < Len(q))
    <3>1. ~(p - 1 < Len(r))
      BY <1>4, <1>5, <2>5
    <3>2. f # NoFd
      BY <1>4
    <3>3. Next_in(q, x) = NoFd /\ Next_in(r, x) = NoFd
      BY <1>7, <2>3, <2>5, <3>1
    <3> QED
      BY <1>2, <3>2, <3>3
  <2> QED
    BY <2>4, <2>5
<1> QED
  BY <1>4, <1>10, <1>11

(* The members of a list of descriptors are descriptors, and NULL and the  *)
(* start of a loop are none.                                               *)
LEMMA MembersType ==
  ASSUME NEW q \in Seq(Fd)
  PROVE  /\ ToSet(q) \subseteq Fd /\ NoFd \notin ToSet(q) /\ Start \notin ToSet(q)
         /\ NoFd \notin Fd /\ Start \notin Fd
<1>1. NoFd \notin Fd /\ Start \notin Fd
  BY FdAssumption DEF NoFd, Start
<1>2. \A k \in DOMAIN q : q[k] \in Fd
  OBVIOUS
<1> QED
  BY <1>1, <1>2 DEF ToSet

-----------------------------------------------------------------------------
(* The inductive invariant. *)

Free == {f \in Fd : sock[f] = "free"}

(* The two lists are disjoint, no client is in one twice, and they hold    *)
(* exactly the clients that select watches, whose sockets are connected.   *)
ListsInv ==
  /\ IsInjective(head) /\ IsInjective(new_players)
  /\ ToSet(head) \cap ToSet(new_players) = {}
  /\ allset = ToSet(head) \cup ToSet(new_players)
  /\ \A f \in Fd : sock[f] # "free" <=> f \in ToSet(head) \cup ToSet(new_players)

(* In the middle of a handler, too, the turn is with a player of the list. *)
TurnInv == IF head = <<>> THEN turn = NoFd ELSE turn \in ToSet(head)

(* Every connection that waits will find a descriptor. *)
BacklogInv == backlog <= Cardinality(Free)

ToldInv == knows_turn \subseteq ToSet(head) /\ knows_game \subseteq ToSet(head)

(* As long as nobody leaves no peer is gone, and the server ends only over *)
(* a full buffer.                                                          *)
CalmInv ==
  drops = 0 => /\ \A f \in Fd : sock[f] \in {"free", "open", "full"}
               /\ srv # "up" => \E f \in Fd : Overlong(f)

(* The freed node a loop may go on to is never one of new_players: it has  *)
(* joined, or is gone, and accept comes only after the old values.         *)
StaleInv == \A f \in Fd : stale[f] \notin ToSet(new_players)

Broken == {"disconnect", "next_text", "next_status", "next_tell_others",
           "next_tell_losers"}
OfClient == Broken \cup {"tell_winner", "join_status"}
Playing == Op \ {"accept", "greet"}
StepType == [op : Op, fd : Fd \cup {NoFd, Start}]

(* What is known of a step while it waits to be taken. *)
StepOK(t) ==
  /\ t \in StepType /\ t.op \in Playing
  /\ t.op \in OfClient => t.fd \in Fd
  /\ t.fd \notin ToSet(new_players)
  /\ drops = 0 => /\ t.op \notin Broken
                  /\ t.fd \in Fd => sock[t.fd] # "free"
                  /\ head # <<>>

AllOK == \A k \in 1..Len(todo) : StepOK(todo[k])

Accepting == /\ todo = <<Task("accept", NoFd)>>
             /\ backlog > 0
             /\ \A f \in Fd : stale[f] = NoFd

Greeting == \E f \in ToSet(new_players) : todo = <<Task("greet", f)>>

StepsInv == Accepting \/ Greeting \/ AllOK

(* The steps that may start a new game. *)
Final == {"check_over", "init_game"}

OneFinal(q) == \A j, k \in 1..Len(q) :
                 q[j].op \in Final /\ q[k].op \in Final => j = k
Has(q, ops) == \E k \in 1..Len(q) : q[k].op \in ops

(* A game that is over will be replaced before the server goes back to its *)
(* sockets, and no other is.                                               *)
FinalInv == /\ OneFinal(todo)
            /\ guesses_left <= 0 => Has(todo, Final)
            /\ Complete(guess) => Has(todo, {"init_game"})
            /\ Has(todo, {"init_game"}) => Over

ServerInv == /\ ServerTypeOK /\ ListsInv /\ TurnInv /\ BacklogInv /\ ToldInv
             /\ CalmInv /\ StaleInv /\ StepsInv /\ FinalInv

-----------------------------------------------------------------------------
(* Sequences of steps. *)

(* What a step may leave to be done instead of itself. *)
Fresh(ts) == ts \in Seq(StepType) /\ \A k \in 1..Len(ts) : StepOK(ts[k])

LEMMA FreshNone == Fresh(<<>>)
  BY DEF Fresh

LEMMA FreshOne ==
  ASSUME NEW STATE a, StepOK(a)
  PROVE  /\ Fresh(<<a>>)
         /\ a.op \notin Final => ~Has(<<a>>, Final)
<1>1. a \in StepType
  BY DEF StepOK
<1>2. <<a>> \in Seq(StepType) /\ Len(<<a>>) = 1 /\ <<a>>[1] = a
  BY <1>1
<1> QED
  BY <1>2 DEF Fresh, Has

LEMMA FreshTwo ==
  ASSUME NEW STATE a, NEW STATE b, StepOK(a), StepOK(b)
  PROVE  /\ Fresh(<<a, b>>)
         /\ a.op \notin Final /\ b.op \notin Final => ~Has(<<a, b>>, Final)
<1>1. a \in StepType /\ b \in StepType
  BY DEF StepOK
<1>2. /\ <<a, b>> \in Seq(StepType) /\ Len(<<a, b>>) = 2
      /\ <<a, b>>[1] = a /\ <<a, b>>[2] = b
  BY <1>1
<1>3. \A k \in 1..2 : k = 1 \/ k = 2
  OBVIOUS
<1> QED
  BY <1>2, <1>3 DEF Fresh, Has

(* The steps ts come before what was left. *)
LEMMA Replaced ==
  ASSUME NEW S, NEW q \in Seq(S), q # <<>>, NEW ts \in Seq(S),
         NEW r, r = ts \o Tail(q)
  PROVE  /\ r \in Seq(S)
         /\ \A k \in 1..Len(ts) : k \in 1..Len(r) /\ r[k] = ts[k]
         /\ \A m \in 2..Len(q) : /\ Len(ts) + m - 1 \in 1..Len(r)
                                 /\ r[Len(ts) + m - 1] = q[m]
         /\ \A k \in 1..Len(r) : \/ k \in 1..Len(ts)
                                 \/ /\ k > Len(ts)
                                    /\ k - Len(ts) + 1 \in 2..Len(q)
                                    /\ r[k] = q[k - Len(ts) + 1]
<1>1. /\ Tail(q) \in Seq(S) /\ Len(Tail(q)) = Len(q) - 1
      /\ \A m \in 1..(Len(q) - 1) : Tail(q)[m] = q[m + 1]
  OBVIOUS
<1>2. Len(q) \in Nat /\ Len(ts) \in Nat /\ Len(q) > 0
  OBVIOUS
<1>3. /\ r \in Seq(S) /\ Len(r) = Len(ts) + (Len(q) - 1)
      /\ \A k \in 1..Len(r) :
           r[k] = IF k <= Len(ts) THEN ts[k] ELSE Tail(q)[k - Len(ts)]
  <2>1. /\ Len(r) = Len(ts) + Len(Tail(q))
        /\ \A k \in 1..(Len(ts) + Len(Tail(q))) :
             r[k] = IF k <= Len(ts) THEN ts[k] ELSE Tail(q)[k - Len(ts)]
    BY <1>1, ConcatProperties
  <2>2. r \in Seq(S)
    BY <1>1
  <2> QED
    BY <1>1, <2>1, <2>2
<1>4. ASSUME NEW k \in 1..Len(ts) PROVE k \in 1..Len(r) /\ r[k] = ts[k]
  BY <1>2, <1>3
<1>5. ASSUME NEW m \in 2..Len(q)
      PROVE  Len(ts) + m - 1 \in 1..Len(r) /\ r[Len(ts) + m - 1] = q[m]
  <2>1. /\ Len(ts) + m - 1 \in 1..Len(r) /\ Len(ts) + m - 1 > Len(ts)
        /\ (Len(ts) + m - 1) - Len(ts) = m - 1
        /\ m - 1 \in 1..(Len(q) - 1) /\ (m - 1) + 1 = m
    BY <1>2, <1>3
  <2>2. r[Len(ts) + m - 1] = Tail(q)[m - 1]
    BY <1>2, <1>3, <2>1
  <2> QED
    BY <1>1, <2>1, <2>2
<1>6. ASSUME NEW k \in 1..Len(r), k \notin 1..Len(ts)
      PROVE  /\ k > Len(ts) /\ k - Len(ts) + 1 \in 2..Len(q)
             /\ r[k] = q[k - Len(ts) + 1]
  <2>1. k > Len(ts) /\ k - Len(ts) \in 1..(Len(q) - 1)
    BY <1>2, <1>3, <1>6
  <2>2. r[k] = Tail(q)[k - Len(ts)]
    BY <1>2, <1>3, <2>1
  <2>3. k - Len(ts) + 1 \in 2..Len(q)
    BY <1>2, <2>1
  <2> QED
    BY <1>1, <2>1, <2>2, <2>3
<1> QED
  BY <1>3, <1>4, <1>5, <1>6

(* A step that is not final, replaced by such steps, leaves the final one. *)
LEMMA FinalKept ==
  ASSUME NEW q \in Seq(StepType), q # <<>>, q[1].op \notin Final, OneFinal(q),
         NEW ts \in Seq(StepType), ~Has(ts, Final), NEW r, r = ts \o Tail(q)
  PROVE  /\ OneFinal(r)
         /\ \A ops \in SUBSET Final : Has(r, ops) <=> Has(q, ops)
<1> DEFINE n == Len(ts)
<1>1. /\ n \in Nat /\ Len(q) \in Nat
      /\ \A k \in 1..n : r[k] = ts[k] /\ ts[k].op \notin Final
      /\ \A m \in 2..Len(q) : n + m - 1 \in 1..Len(r) /\ r[n + m - 1] = q[m]
      /\ \A k \in 1..Len(r) : \/ k \in 1..n
                              \/ /\ k > n /\ k - n + 1 \in 2..Len(q)
                                 /\ r[k] = q[k - n + 1]
  BY Replaced DEF Has
<1>2. Len(r) \in Nat
  BY Replaced
<1> HIDE DEF n
<1>3. \A k \in 1..Len(r) : r[k].op \in Final =>
        k > n /\ k - n + 1 \in 1..Len(q) /\ r[k] = q[k - n + 1]
  BY <1>1
<1>4. OneFinal(r)
  <2> SUFFICES ASSUME NEW j \in 1..Len(r), NEW k \in 1..Len(r),
                      r[j].op \in Final, r[k].op \in Final
               PROVE  j = k
    BY DEF OneFinal
  <2>1. j - n + 1 = k - n + 1
    BY <1>3 DEF OneFinal
  <2> QED
    BY <1>1, <1>2, <2>1
<1>5. ASSUME NEW ops \in SUBSET Final PROVE Has(r, ops) <=> Has(q, ops)
  <2>1. Has(r, ops) => Has(q, ops)
    BY <1>3 DEF Has
  <2>2. Has(q, ops) => Has(r, ops)
    <3> SUFFICES ASSUME NEW m \in 1..Len(q), q[m].op \in ops PROVE Has(r, ops)
      BY DEF Has
    <3>1. m \in 2..Len(q)
      BY <1>1
    <3> QED
      BY <1>1, <3>1 DEF Has
  <2> QED
    BY <2>1, <2>2
<1> QED
  BY <1>4, <1>5

(* A final step is replaced: what is final then is in its replacement.     *)
LEMMA FinalTaken ==
  ASSUME NEW q \in Seq(StepType), q # <<>>, q[1].op \in Final, OneFinal(q),
         NEW ts \in Seq(StepType), OneFinal(ts), NEW r, r = ts \o Tail(q)
  PROVE  /\ OneFinal(r)
         /\ \A ops \in SUBSET Final : Has(r, ops) <=> Has(ts, ops)
<1> DEFINE n == Len(ts)
<1>1. /\ n \in Nat /\ Len(q) \in Nat
      /\ \A k \in 1..n : k \in 1..Len(r) /\ r[k] = ts[k]
      /\ \A k \in 1..Len(r) : \/ k \in 1..n
                              \/ /\ k - n + 1 \in 2..Len(q)
                                 /\ r[k] = q[k - n + 1]
  BY Replaced
<1> HIDE DEF n
<1>2. \A m \in 2..Len(q) : q[m].op \notin Final
  BY <1>1 DEF OneFinal
<1>3. \A k \in 1..Len(r) : r[k].op \in Final => k \in 1..n
  BY <1>1, <1>2
<1> QED
  BY <1>1, <1>3 DEF OneFinal, Has, n

-----------------------------------------------------------------------------
(* What most of the steps have in common. *)

(* The turn is a player's or nobody's; a client that is connected and not  *)
(* among new_players is a player.                                          *)
LEMMA Members ==
  ASSUME ServerInv
  PROVE  /\ ToSet(head) \subseteq Fd /\ ToSet(new_players) \subseteq Fd
         /\ turn \in Fd \cup {NoFd} /\ (turn # NoFd => turn \in ToSet(head))
         /\ todo \in Seq(StepType)
         /\ NoFd \notin Fd /\ Start \notin Fd
         /\ allset = ToSet(head) \cup ToSet(new_players)
         /\ \A f \in Fd : sock[f] # "free" /\ f \notin ToSet(new_players)
                            => f \in ToSet(head)
<1>1. head \in Seq(Fd) /\ new_players \in Seq(Fd) /\ todo \in Seq(StepType)
  BY DEF ServerInv, ServerTypeOK, StepType
<1>2. /\ ToSet(head) \subseteq Fd /\ ToSet(new_players) \subseteq Fd
      /\ NoFd \notin Fd /\ Start \notin Fd
  BY <1>1, MembersType
<1> QED
  BY <1>1, <1>2 DEF ServerInv, TurnInv, ListsInv

(* The lists and the steps stay, no socket is closed or opened.            *)
LEMMA Frame ==
  ASSUME ServerInv, UNCHANGED <<game, lists, todo, stale, told>>,
         \A f \in Fd : sock'[f] = "free" <=> sock[f] = "free",
         drops' = 0 => drops = 0, backlog > 0 => backlog' > 0
  PROVE  /\ ListsInv' /\ TurnInv' /\ ToldInv' /\ StaleInv' /\ StepsInv'
         /\ FinalInv' /\ Free' = Free
<1>1. /\ head' = head /\ new_players' = new_players /\ turn' = turn
      /\ allset' = allset /\ todo' = todo /\ stale' = stale
      /\ knows_turn' = knows_turn /\ knows_game' = knows_game
  BY DEF lists, told
<1>2. ListsInv'
  BY <1>1 DEF ServerInv, ListsInv
<1>3. TurnInv' /\ ToldInv' /\ StaleInv'
  BY <1>1 DEF ServerInv, TurnInv, ToldInv, StaleInv
<1>4. StepsInv'
  <2>1. CASE Accepting
    BY <1>1, <2>1 DEF Accepting, StepsInv
  <2>2. CASE Greeting
    BY <1>1, <2>2 DEF Greeting, StepsInv
  <2>3. CASE AllOK
    <3>1. ASSUME NEW t, StepOK(t) PROVE StepOK(t)'
      BY <1>1, <3>1 DEF StepOK
    <3> QED
      BY <1>1, <2>3, <3>1 DEF AllOK, StepsInv
  <2> QED
    BY <2>1, <2>2, <2>3 DEF ServerInv, StepsInv
<1>5. FinalInv'
  BY <1>1 DEF ServerInv, FinalInv, OneFinal, Has, Over, Complete, game
<1>6. Free' = Free
  BY DEF Free
<1> QED
  BY <1>2, <1>3, <1>4, <1>5, <1>6

(* A buffer is full as long as its bytes and the list of players stay.     *)
LEMMA OverlongKept ==
  ASSUME inbox' = inbox, head' = head
  PROVE  \A f \in Fd : Overlong(f)' <=> Overlong(f)
  BY DEF Overlong, Received, Taken, Size, HasNewline

(* The process ends, or hangs.  *)
LEMMA DieInv ==
  ASSUME ServerInv, NEW how \in {"crashed", "killed", "exited", "hung"}, Die(how),
         drops = 0 => \E f \in Fd : Overlong(f)
  PROVE  ServerInv'
<1>1. /\ srv' = how
      /\ UNCHANGED <<game, lists, todo, rset, stale, net, told, bounds>>
  BY DEF Die
<1>2. /\ sock' = sock /\ inbox' = inbox /\ backlog' = backlog /\ drops' = drops
      /\ connects' = connects /\ sends' = sends /\ stalls' = stalls
      /\ UNCHANGED <<game, lists, todo, stale, told>> /\ head' = head
  BY <1>1 DEF net, bounds, lists
<1>3. /\ ListsInv' /\ TurnInv' /\ ToldInv' /\ StaleInv' /\ StepsInv'
      /\ FinalInv' /\ Free' = Free
  BY <1>2, Frame
<1>4. BacklogInv'
  BY <1>2, <1>3 DEF ServerInv, BacklogInv
<1>5. CalmInv'
  BY <1>2, OverlongKept DEF ServerInv, CalmInv
<1>6. ServerTypeOK'
  BY <1>1, <1>2 DEF ServerInv, ServerTypeOK, lists, told
<1> QED
  BY <1>3, <1>4, <1>5, <1>6 DEF ServerInv

(* What is left of a handler is the rest of the call stack.                *)
LEMMA CallSteps ==
  ASSUME ServerInv, AllOK, todo # <<>>,
         \E ts : Fresh(ts)' /\ Continue(ts),
         \A t : StepOK(t) => StepOK(t)'
  PROVE  AllOK' /\ todo' \in Seq(StepType)
<1>1. PICK ts : Fresh(ts)' /\ Continue(ts)
  OBVIOUS
<1>2. /\ ts \in Seq(StepType) /\ \A k \in 1..Len(ts) : StepOK(ts[k])'
      /\ todo' = ts \o Tail(todo)
  BY <1>1 DEF Fresh, Continue, StepType
<1>3. todo \in Seq(StepType)
  BY Members
<1>4. /\ todo' \in Seq(StepType)
      /\ \A k \in 1..Len(ts) : todo'[k] = ts[k]
      /\ \A k \in 1..Len(todo') : \/ k \in 1..Len(ts)
                                  \/ \E m \in 2..Len(todo) : todo'[k] = todo[m]
  BY <1>2, <1>3, Replaced
<1>5. ASSUME NEW k \in 1..Len(todo'), NEW t, t = todo'[k] PROVE StepOK(t)'
  <2>1. CASE k \in 1..Len(ts)
    BY <1>2, <1>4, <1>5, <2>1
  <2>2. CASE \E m \in 2..Len(todo) : todo'[k] = todo[m]
    <3>1. PICK m \in 2..Len(todo) : todo'[k] = todo[m]
      BY <2>2
    <3>2. m \in 1..Len(todo)
      BY <1>3
    <3>3. StepOK(todo[m])
      BY <3>2 DEF AllOK
    <3>4. t = todo[m]
      BY <1>5, <3>1
    <3>5. StepOK(t)
      BY <3>3, <3>4
    <3> QED
      BY <3>5
  <2> QED
    BY <1>4, <2>1, <2>2
<1>6. \A k \in 1..Len(todo') : \E t : t = todo'[k] /\ StepOK(t)'
  BY <1>5
<1> QED
  BY <1>4, <1>6 DEF AllOK

(* A step of a handler that only writes and goes on. *)
LEMMA CallStep ==
  ASSUME ServerInv, AllOK, todo # <<>>, todo[1].op \notin Final,
         \E ts : Fresh(ts) /\ ~Has(ts, Final) /\ Continue(ts),
         UNCHANGED <<game, lists, rset, stale, srv, net, bounds>>,
         knows_turn' \subseteq knows_turn \cup ToSet(head),
         knows_game' \subseteq knows_game \cup ToSet(head)
  PROVE  ServerInv'
<1>1. /\ sock' = sock /\ inbox' = inbox /\ backlog' = backlog /\ drops' = drops
      /\ connects' = connects /\ sends' = sends /\ stalls' = stalls
      /\ head' = head /\ new_players' = new_players /\ turn' = turn
      /\ name' = name /\ allset' = allset
      /\ rset' = rset /\ stale' = stale /\ srv' = srv
  BY DEF net, bounds, lists
<1>2. \A t : StepOK(t) <=> StepOK(t)'
  BY <1>1 DEF StepOK
<1>3. PICK ts : Fresh(ts) /\ ~Has(ts, Final) /\ Continue(ts)
  OBVIOUS
<1>4. Fresh(ts)'
  BY <1>2, <1>3 DEF Fresh
<1>5. AllOK' /\ todo' \in Seq(StepType)
  BY <1>2, <1>3, <1>4, CallSteps
<1>6. FinalInv'
  <2>1. todo \in Seq(StepType) /\ todo' = ts \o Tail(todo) /\ ts \in Seq(StepType)
    BY <1>3, Members DEF Continue, Fresh
  <2>2. OneFinal(todo)
    BY DEF ServerInv, FinalInv
  <2>3. PICK q : q = todo
    OBVIOUS
  <2>4. PICK r : r = todo'
    OBVIOUS
  <2>5. /\ OneFinal(r)
        /\ \A ops \in SUBSET Final : Has(r, ops) <=> Has(q, ops)
    BY <1>3, <2>1, <2>2, <2>3, <2>4, FinalKept
  <2>6. {"init_game"} \in SUBSET Final /\ Final \in SUBSET Final
    BY DEF Final
  <2>7. /\ Has(todo, Final) <=> Has(q, Final)
        /\ Has(todo, {"init_game"}) <=> Has(q, {"init_game"})
    BY <2>3
  <2>8. /\ OneFinal(todo)' <=> OneFinal(r)
        /\ Has(todo, Final)' <=> Has(r, Final)
        /\ Has(todo, {"init_game"})' <=> Has(r, {"init_game"})
    BY <2>4 DEF OneFinal, Has
  <2>9. /\ guesses_left' = guesses_left /\ (Complete(guess)' <=> Complete(guess))
        /\ (Over' <=> Over)
    BY DEF game, Over, Complete
  <2> QED
    BY <2>5, <2>6, <2>7, <2>8, <2>9 DEF ServerInv, FinalInv
<1>7. ListsInv' /\ TurnInv' /\ StaleInv'
  BY <1>1 DEF ServerInv, ListsInv, TurnInv, StaleInv
<1>8. ToldInv' /\ knows_turn' \subseteq Fd /\ knows_game' \subseteq Fd
  BY <1>1, Members DEF ServerInv, ToldInv
<1>9. CalmInv' /\ BacklogInv'
  BY <1>1, OverlongKept DEF ServerInv, CalmInv, BacklogInv, Free
<1>10. ServerTypeOK'
  BY <1>1, <1>5, <1>8 DEF ServerInv, ServerTypeOK, StepType
<1> QED
  BY <1>5, <1>6, <1>7, <1>8, <1>9, <1>10 DEF ServerInv, StepsInv

-----------------------------------------------------------------------------
(* The clients and the network. *)

LEMMA FreeType ==
  ASSUME ServerInv
  PROVE  /\ Free \subseteq Fd /\ IsFiniteSet(Free) /\ Cardinality(Free) \in Nat
         /\ backlog \in Nat /\ MAX_QUEUE \in Nat
<1>1. Free \subseteq Fd /\ IsFiniteSet(Fd)
  BY FdAssumption DEF Free
<1>2. IsFiniteSet(Free)
  BY <1>1, FS_Subset
<1> QED
  BY <1>1, <1>2, FS_CardinalityType, FdAssumption DEF ServerInv, ServerTypeOK

(* A step that leaves the number of free descriptors and, or lets the      *)
(* former grow, keeps a descriptor for everybody who waits.                *)
LEMMA BacklogKept ==
  ASSUME ServerInv, Free \subseteq Free', Free' \subseteq Fd, backlog' = backlog
  PROVE  BacklogInv'
<1>1. IsFiniteSet(Free')
  BY FdAssumption, FS_Subset
<1>2. Cardinality(Free) <= Cardinality(Free') /\ Cardinality(Free') \in Nat
  BY <1>1, FS_Subset, FS_CardinalityType
<1> QED
  BY <1>2, FreeType DEF ServerInv, BacklogInv

LEMMA ConnectInv ==
  ASSUME ServerInv, srv = "up", Connect
  PROVE  ServerInv'
<1>1. /\ backlog' = backlog + 1 /\ backlog < MAX_QUEUE
      /\ backlog < Cardinality(Free)
      /\ connects' = connects + 1 /\ connects < MaxConnects
      /\ UNCHANGED <<game, lists, control, sock, inbox, told, sends, drops, stalls>>
  BY DEF Connect, Free
<1>2. UNCHANGED <<game, lists, todo, stale, told>> /\ rset' = rset /\ srv' = srv
  BY <1>1 DEF control
<1>3. /\ ListsInv' /\ TurnInv' /\ ToldInv' /\ StaleInv' /\ StepsInv'
      /\ FinalInv' /\ Free' = Free
  <2>1. backlog > 0 => backlog' > 0
    BY <1>1, FreeType
  <2> QED
    BY <1>1, <1>2, <2>1, Frame
<1>4. BacklogInv'
  BY <1>1, <1>3, FreeType DEF BacklogInv
<1>5. CalmInv'
  BY <1>1, <1>2 DEF ServerInv, CalmInv
<1>6. connects' \in 0..MaxConnects /\ backlog' \in 0..MAX_QUEUE
  BY <1>1, FreeType, FdAssumption DEF ServerInv, ServerTypeOK
<1>7. ServerTypeOK'
  BY <1>1, <1>2, <1>6 DEF ServerInv, ServerTypeOK, lists, told
<1> QED
  BY <1>3, <1>4, <1>5, <1>7 DEF ServerInv

LEMMA SendInv ==
  ASSUME ServerInv, srv = "up", NEW f \in Fd, NEW m \in Messages, Send(f, m)
  PROVE  ServerInv'
<1>1. /\ sends' = sends + 1 /\ sends < MaxSends
      /\ UNCHANGED <<game, lists, control, sock, backlog, told, connects, drops,
                     stalls>>
  BY DEF Send
<1>2. UNCHANGED <<game, lists, todo, stale, told>> /\ rset' = rset /\ srv' = srv
  BY <1>1 DEF control
<1>3. inbox' \in [Fd -> Seq(Byte)]
  <2>1. inbox \in [Fd -> Seq(Byte)] /\ m \in Seq(Byte)
    BY ByteAssumption DEF ServerInv, ServerTypeOK
  <2>2. inbox[f] \o m \in Seq(Byte)
    BY <2>1
  <2> QED
    BY <2>1, <2>2 DEF Send
<1>4. /\ ListsInv' /\ TurnInv' /\ ToldInv' /\ StaleInv' /\ StepsInv'
      /\ FinalInv' /\ Free' = Free
  BY <1>1, <1>2, Frame
<1>5. BacklogInv'
  BY <1>1, <1>4 DEF ServerInv, BacklogInv
<1>6. CalmInv'
  BY <1>1, <1>2 DEF ServerInv, CalmInv
<1>7. sends' \in 0..MaxSends
  BY <1>1, FdAssumption DEF ServerInv, ServerTypeOK
<1>8. ServerTypeOK'
  BY <1>1, <1>2, <1>3, <1>7 DEF ServerInv, ServerTypeOK, lists, told
<1> QED
  BY <1>4, <1>5, <1>6, <1>8 DEF ServerInv

(* Drop, Stall and Resume change the state of a connected socket. *)
LEMMA SocketInv ==
  ASSUME ServerInv, srv = "up", NEW f \in Fd, sock[f] # "free",
         NEW s \in {"open", "full", "eof", "reset"},
         sock' = [sock EXCEPT ![f] = s],
         drops' = 0 => drops = 0 /\ s \in {"open", "full"},
         drops' \in 0..MaxDrops, stalls' \in 0..MaxStalls,
         UNCHANGED <<game, lists, control, inbox, backlog, told, connects, sends>>
  PROVE  ServerInv'
<1>1. UNCHANGED <<game, lists, todo, stale, told>> /\ rset' = rset /\ srv' = srv
  BY DEF control
<1>2. /\ sock \in [Fd -> {"free", "open", "full", "eof", "reset"}]
      /\ \A g \in Fd : sock'[g] = IF g = f THEN s ELSE sock[g]
  BY DEF ServerInv, ServerTypeOK
<1>3. \A g \in Fd : sock'[g] = "free" <=> sock[g] = "free"
  BY <1>2
<1>4. /\ ListsInv' /\ TurnInv' /\ ToldInv' /\ StaleInv' /\ StepsInv'
      /\ FinalInv' /\ Free' = Free
  BY <1>1, <1>3, Frame
<1>5. BacklogInv'
  BY <1>4 DEF ServerInv, BacklogInv
<1>6. CalmInv'
  BY <1>1, <1>2 DEF ServerInv, CalmInv
<1>7. sock' \in [Fd -> {"free", "open", "full", "eof", "reset"}]
  BY <1>2
<1>8. ServerTypeOK'
  BY <1>1, <1>7 DEF ServerInv, ServerTypeOK, lists, told
<1> QED
  BY <1>4, <1>5, <1>6, <1>8 DEF ServerInv

LEMMA ClientsInv ==
  ASSUME ServerInv, Clients
  PROVE  ServerInv'
<1>1. /\ drops \in 0..MaxDrops /\ stalls \in 0..MaxStalls
      /\ MaxDrops \in Nat /\ MaxStalls \in Nat /\ srv = "up"
  BY FdAssumption DEF ServerInv, ServerTypeOK, Clients
<1>2. ASSUME NEW f \in Fd, Drop(f) PROVE ServerInv'
  <2>1. PICK s \in {"eof", "reset"} : sock' = [sock EXCEPT ![f] = s]
    BY <1>2 DEF Drop
  <2>2. /\ sock[f] # "free" /\ drops' = drops + 1 /\ drops < MaxDrops
        /\ UNCHANGED <<game, lists, control, inbox, backlog, told, connects,
                       sends, stalls>>
    BY <1>2 DEF Drop
  <2>3. drops' \in 0..MaxDrops /\ drops' # 0 /\ stalls' \in 0..MaxStalls
    BY <1>1, <2>2
  <2> QED
    BY <1>1, <2>1, <2>2, <2>3, SocketInv
<1>3. ASSUME NEW f \in Fd, Stall(f) PROVE ServerInv'
  <2>1. /\ sock[f] # "free" /\ stalls' = stalls + 1 /\ stalls < MaxStalls
        /\ sock' = [sock EXCEPT ![f] = "full"]
        /\ UNCHANGED <<game, lists, control, inbox, backlog, told, connects,
                       sends, drops>>
    BY <1>3 DEF Stall
  <2>2. drops' \in 0..MaxDrops /\ stalls' \in 0..MaxStalls
    BY <1>1, <2>1
  <2> QED
    BY <1>1, <2>1, <2>2, SocketInv
<1>4. ASSUME NEW f \in Fd, Resume(f) PROVE ServerInv'
  <2>1. /\ sock[f] # "free"
        /\ sock' = [sock EXCEPT ![f] = "open"]
        /\ UNCHANGED <<game, lists, control, inbox, backlog, told, bounds>>
    BY <1>4 DEF Resume
  <2>2. /\ drops' \in 0..MaxDrops /\ stalls' \in 0..MaxStalls
        /\ UNCHANGED <<connects, sends, drops>>
    BY <1>1, <2>1 DEF bounds
  <2> QED
    BY <1>1, <2>1, <2>2, SocketInv
<1> QED
  BY <1>1, <1>2, <1>3, <1>4, ConnectInv, SendInv DEF Clients

-----------------------------------------------------------------------------
(* The loop of main. *)

InboxType == [Fd -> Seq(Byte)]

(* No game is over unless a new one is under way. *)
LEMMA GameGoesOn ==
  ASSUME ServerInv, ~Has(todo, Final)
  PROVE  ~Over
<1>1. ~Has(todo, {"init_game"})
  BY DEF Has, Final
<1> QED
  BY <1>1 DEF ServerInv, FinalInv, Over

LEMMA IdleNoFinal ==
  ASSUME todo = <<>>
  PROVE  ~Has(todo, Final)
  BY DEF Has

(* The same game goes on. *)
LEMMA SameGame ==
  ASSUME ServerInv, ~Has(todo, Final), UNCHANGED game,
         OneFinal(todo'), ~Has(todo', {"init_game"})
  PROVE  FinalInv'
<1>1. ~Over
  BY GameGoesOn
<1>2. /\ guesses_left' = guesses_left /\ guess' = guess
      /\ (Complete(guess)' <=> Complete(guess))
  BY DEF game, Complete
<1>3. OneFinal(todo)' /\ ~Has(todo, {"init_game"})'
  BY DEF OneFinal, Has
<1> QED
  BY <1>1, <1>2, <1>3 DEF FinalInv, Over

LEMMA NoSteps == Fresh(<<>>) /\ OneFinal(<<>>) /\ ~Has(<<>>, {"init_game"})
  BY FreshNone DEF OneFinal, Has

(* A handler that leaves the lists alone has started or ended. *)
LEMMA HandlerStep ==
  ASSUME ServerInv, srv = "up", \E ts : todo' = ts /\ Fresh(ts),
         UNCHANGED <<head, new_players, name, allset, stale, srv, sock, backlog,
                     bounds>>,
         rset' \subseteq Fd, inbox' \in InboxType, TurnInv', ToldInv', FinalInv'
  PROVE  ServerInv'
<1>1. /\ drops' = drops /\ connects' = connects /\ sends' = sends
      /\ stalls' = stalls
  BY DEF bounds
<1>2. PICK ts : todo' = ts /\ Fresh(ts)
  OBVIOUS
<1>3. \A t : StepOK(t) <=> StepOK(t)'
  BY <1>1 DEF StepOK
<1>4. \A k \in 1..Len(todo') : \E t : t = todo'[k] /\ StepOK(t)'
  BY <1>2, <1>3 DEF Fresh
<1>5. AllOK'
  BY <1>4 DEF AllOK
<1>6. ListsInv' /\ StaleInv'
  BY DEF ServerInv, ListsInv, StaleInv
<1>7. CalmInv' /\ BacklogInv'
  BY <1>1 DEF ServerInv, CalmInv, BacklogInv, Free
<1>8. /\ turn' \in Fd \cup {NoFd} /\ knows_turn' \subseteq Fd
      /\ knows_game' \subseteq Fd
  BY Members DEF TurnInv, ToldInv
<1>9. ServerTypeOK'
  BY <1>1, <1>2, <1>8 DEF ServerInv, ServerTypeOK, Fresh, StepType, InboxType
<1> QED
  BY <1>5, <1>6, <1>7, <1>9 DEF ServerInv, StepsInv

LEMMA SelectInv ==
  ASSUME ServerInv, srv = "up", Select
  PROVE  ServerInv'
<1>1. /\ todo = <<>> /\ rset' = Ready
      /\ todo' = IF backlog > 0 THEN <<Task("accept", NoFd)>> ELSE <<>>
      /\ stale' = [f \in Fd |-> NoFd]
      /\ UNCHANGED <<game, lists, srv, net, told, bounds>>
  BY DEF Select
<1>2. /\ sock' = sock /\ inbox' = inbox /\ backlog' = backlog /\ drops' = drops
      /\ connects' = connects /\ sends' = sends /\ stalls' = stalls
      /\ head' = head /\ new_players' = new_players /\ turn' = turn
      /\ name' = name /\ allset' = allset /\ srv' = srv
      /\ knows_turn' = knows_turn /\ knows_game' = knows_game
  BY <1>1 DEF net, bounds, lists, told
<1>3. Ready \subseteq Fd
  BY Members DEF Ready
<1>4. Task("accept", NoFd) \in StepType /\ Task("accept", NoFd).op \notin Final
  BY DEF Task, StepType, Op, Final
<1>5. todo' \in Seq(StepType) /\ OneFinal(todo') /\ ~Has(todo', {"init_game"})
  BY <1>1, <1>4 DEF OneFinal, Has, Final
<1>6. FinalInv'
  BY <1>1, <1>5, IdleNoFinal, SameGame
<1>7. StepsInv'
  <2>1. CASE backlog > 0
    BY <1>1, <1>2, <2>1 DEF Accepting, StepsInv
  <2>2. CASE ~(backlog > 0)
    BY <1>1, <2>2 DEF AllOK, StepsInv
  <2> QED
    BY <2>1, <2>2
<1>8. ListsInv' /\ TurnInv' /\ ToldInv'
  BY <1>2 DEF ServerInv, ListsInv, TurnInv, ToldInv
<1>9. StaleInv'
  BY <1>1, <1>2, Members DEF StaleInv
<1>10. CalmInv' /\ BacklogInv'
  BY <1>2 DEF ServerInv, CalmInv, BacklogInv, Free
<1>11. stale' \in [Fd -> Fd \cup {NoFd}]
  BY <1>1
<1>12. ServerTypeOK'
  BY <1>1, <1>2, <1>3, <1>5, <1>11 DEF ServerInv, ServerTypeOK, StepType
<1> QED
  BY <1>6, <1>7, <1>8, <1>9, <1>10, <1>12 DEF ServerInv

(* The head of the steps. *)
LEMMA HeadOp ==
  ASSUME ServerInv, todo # <<>>
  PROVE  /\ Head(todo) = todo[1] /\ 1 \in 1..Len(todo) /\ todo[1] \in StepType
         /\ todo[1].op = "accept" => Accepting
         /\ todo[1].op = "greet" => Greeting
         /\ todo[1].op \in Playing => AllOK /\ StepOK(todo[1])
<1>1. todo \in Seq(StepType)
  BY Members
<1>2. Head(todo) = todo[1] /\ 1 \in 1..Len(todo) /\ todo[1] \in StepType
  BY <1>1
<1>3. CASE Accepting
  BY <1>2, <1>3 DEF Accepting, Task, Playing
<1>4. CASE Greeting
  BY <1>2, <1>4 DEF Greeting, Task, Playing
<1>5. CASE AllOK
  BY <1>2, <1>5 DEF AllOK, StepOK, Playing
<1> QED
  BY <1>2, <1>3, <1>4, <1>5 DEF ServerInv, StepsInv

(* There is a descriptor for the connection that is accepted. *)
LEMMA LowestFreeType ==
  ASSUME ServerInv, backlog > 0
  PROVE  LowestFree \in Free
<1>1. Free # {}
  <2>1. Cardinality(Free) > 0
    BY FreeType DEF ServerInv, BacklogInv
  <2> QED
    BY <2>1, FS_EmptySet
<1>2. Free \in SUBSET Nat
  BY FreeType, FdAssumption
<1>3. \E m \in Free : \A l \in Free : m <= l
  BY <1>1, <1>2, LeastElement
<1> QED
  BY <1>3 DEF LowestFree, Free

LEMMA AcceptInv ==
  ASSUME ServerInv, srv = "up", todo # <<>>, Accept
  PROVE  ServerInv'
<1>1. PICK f : f = LowestFree
  OBVIOUS
<1>2. /\ Head(todo).op = "accept" /\ backlog' = backlog - 1
      /\ sock' = [sock EXCEPT ![f] = "open"]
      /\ name' = [name EXCEPT ![f] = <<>>]
      /\ allset' = allset \cup {f}
      /\ new_players' = <<f>> \o new_players
      /\ turn' = turn /\ todo' = <<Task("greet", f)>> \o Tail(todo)
      /\ UNCHANGED <<game, head, rset, stale, srv, inbox, told, bounds>>
  BY <1>1 DEF Accept, TurnOnAccept, Watched, Continue
<1>3. Accepting
  BY <1>2, HeadOp
<1>4. f \in Fd /\ sock[f] = "free"
  BY <1>1, <1>3, LowestFreeType DEF Accepting, Free
<1>5. todo' = <<Task("greet", f)>>
  <2>1. Tail(todo) = <<>>
    BY <1>3 DEF Accepting
  <2>2. <<Task("greet", f)>> \o <<>> = <<Task("greet", f)>>
    OBVIOUS
  <2> QED
    BY <1>2, <2>1, <2>2
<1>6. f \notin ToSet(head) /\ f \notin ToSet(new_players)
  BY <1>4 DEF ServerInv, ListsInv
<1>7. /\ new_players' \in Seq(Fd) /\ IsInjective(new_players')
      /\ ToSet(new_players') = ToSet(new_players) \cup {f}
  BY <1>2, <1>4, <1>6, InFrontType DEF ServerInv, ServerTypeOK, ListsInv
<1>8. /\ drops' = drops /\ connects' = connects /\ sends' = sends
      /\ stalls' = stalls /\ knows_turn' = knows_turn /\ knows_game' = knows_game
  BY <1>2 DEF bounds, told
<1>9. /\ sock \in [Fd -> {"free", "open", "full", "eof", "reset"}]
      /\ \A g \in Fd : sock'[g] = IF g = f THEN "open" ELSE sock[g]
  BY <1>2 DEF ServerInv, ServerTypeOK
<1>10. ListsInv'
  BY <1>2, <1>4, <1>6, <1>7, <1>9 DEF ServerInv, ListsInv
<1>11. TurnInv' /\ ToldInv'
  BY <1>2, <1>8 DEF ServerInv, TurnInv, ToldInv
<1>12. BacklogInv'
  <2>1. Free' = Free \ {f}
    BY <1>4, <1>9 DEF Free
  <2>2. Cardinality(Free') = Cardinality(Free) - 1
    <3>1. f \in Free
      BY <1>4 DEF Free
    <3>2. Cardinality(Free \ {f}) = Cardinality(Free) - 1
      BY <3>1, FreeType, FS_RemoveElement
    <3> QED
      BY <2>1, <3>2
  <2> QED
    BY <1>2, <2>2, FreeType DEF ServerInv, BacklogInv
<1>13. CalmInv'
  BY <1>2, <1>8, <1>9 DEF ServerInv, CalmInv
<1>14. StaleInv'
  <2>1. NoFd \notin Fd
    BY Members
  <2> QED
    BY <1>2, <1>3, <1>7, <1>4, <2>1, Members DEF StaleInv, Accepting
<1>15. StepsInv'
  BY <1>5, <1>7 DEF Greeting, StepsInv
<1>16. Task("greet", f) \in StepType /\ Task("greet", f).op \notin Final
  BY <1>4 DEF Task, StepType, Op, Final
<1>17. /\ todo' \in Seq(StepType) /\ OneFinal(todo')
       /\ ~Has(todo', {"init_game"})
  BY <1>5, <1>16 DEF OneFinal, Has, Final
<1>18. FinalInv'
  <2>1. ~Has(todo, Final)
    BY <1>3 DEF Accepting, Has, Task, Final
  <2> QED
    BY <1>2, <1>17, <2>1, SameGame
<1>19. ServerTypeOK'
  <2>1. backlog' \in 0..MAX_QUEUE
    BY <1>2, <1>3, FreeType DEF Accepting, ServerInv, ServerTypeOK
  <2>2. /\ sock' \in [Fd -> {"free", "open", "full", "eof", "reset"}]
        /\ name' \in [Fd -> Seq(Byte)] /\ allset' \in SUBSET Fd
    BY <1>2, <1>4 DEF ServerInv, ServerTypeOK
  <2> QED
    BY <1>2, <1>7, <1>8, <1>17, <2>1, <2>2 DEF ServerInv, ServerTypeOK, StepType
<1> QED
  BY <1>10, <1>11, <1>12, <1>13, <1>14, <1>15, <1>18, <1>19 DEF ServerInv

(* A newcomer that has gone is taken out of new_players, and its socket is *)
(* closed.                                                                 *)
LEMMA NewcomerGone ==
  ASSUME ServerInv, srv = "up", ~Has(todo, Final), todo' = <<>>,
         NEW f \in ToSet(new_players),
         new_players' = Without(new_players, f), Closed(f), rset' \subseteq Fd,
         UNCHANGED <<game, head, turn, name, stale, srv, backlog, told, bounds>>
  PROVE  ServerInv'
<1>1. f \in Fd /\ f \notin ToSet(head)
  BY Members DEF ServerInv, ListsInv
<1>2. /\ new_players' \in Seq(Fd) /\ IsInjective(new_players')
      /\ ToSet(new_players') = ToSet(new_players) \ {f}
  BY WithoutType DEF ServerInv, ServerTypeOK, ListsInv
<1>3. /\ drops' = drops /\ connects' = connects /\ sends' = sends
      /\ stalls' = stalls /\ knows_turn' = knows_turn /\ knows_game' = knows_game
  BY DEF bounds, told
<1>4. /\ sock \in [Fd -> {"free", "open", "full", "eof", "reset"}]
      /\ sock' = [sock EXCEPT ![f] = "free"]
      /\ \A g \in Fd : sock'[g] = IF g = f THEN "free" ELSE sock[g]
      /\ allset' = allset \ {f}
  BY DEF ServerInv, ServerTypeOK, Closed
<1>5. ListsInv'
  BY <1>1, <1>2, <1>4 DEF ServerInv, ListsInv
<1>6. TurnInv' /\ ToldInv' /\ StaleInv'
  BY <1>2, <1>3 DEF ServerInv, TurnInv, ToldInv, StaleInv
<1>7. CalmInv'
  BY <1>3, <1>4 DEF ServerInv, CalmInv
<1>8. BacklogInv'
  <2>1. Free \subseteq Free' /\ Free' \subseteq Fd
    BY <1>4 DEF Free
  <2> QED
    BY <2>1, BacklogKept
<1>9. StepsInv'
  BY DEF AllOK, StepsInv
<1>10. FinalInv'
  BY NoSteps, SameGame
<1>11. ServerTypeOK'
  <2>1. sock' \in [Fd -> {"free", "open", "full", "eof", "reset"}]
    BY <1>4 DEF ServerInv, ServerTypeOK
  <2>2. inbox' \in [Fd -> Seq(Byte)] /\ allset' \in SUBSET Fd
    <3>1. inbox \in [Fd -> Seq(Byte)] /\ allset \in SUBSET Fd /\ <<>> \in Seq(Byte)
      BY DEF ServerInv, ServerTypeOK
    <3> QED
      BY <1>4, <3>1 DEF Closed
  <2> QED
    BY <1>2, <1>3, <2>1, <2>2 DEF ServerInv, ServerTypeOK
<1> QED
  BY <1>5, <1>6, <1>7, <1>8, <1>9, <1>10, <1>11 DEF ServerInv

(* Nothing of the lists, the turn or the game changes. *)
LEMMA PlainStep ==
  ASSUME ServerInv, srv = "up", ~Has(todo, Final),
         \E ts : /\ todo' = ts /\ Fresh(ts)
                 /\ OneFinal(ts) /\ ~Has(ts, {"init_game"}),
         UNCHANGED <<game, lists, stale, srv, sock, backlog, told, bounds>>,
         rset' \subseteq Fd, inbox' \in InboxType
  PROVE  ServerInv'
<1>1. PICK ts : /\ todo' = ts /\ Fresh(ts)
                /\ OneFinal(ts) /\ ~Has(ts, {"init_game"})
  OBVIOUS
<1>2. OneFinal(todo') /\ ~Has(todo', {"init_game"})
  BY <1>1
<1>3. FinalInv'
  BY <1>2, SameGame
<1>4. /\ head' = head /\ new_players' = new_players /\ turn' = turn
      /\ name' = name /\ allset' = allset /\ knows_turn' = knows_turn /\ knows_game' = knows_game
  BY DEF lists, told
<1>5. TurnInv' /\ ToldInv'
  BY <1>4 DEF ServerInv, TurnInv, ToldInv
<1> QED
  BY <1>1, <1>3, <1>4, <1>5, HandlerStep

LEMMA GreetInv ==
  ASSUME ServerInv, srv = "up", todo # <<>>, NEW f \in Fd, Greet(f)
  PROVE  ServerInv'
<1>1. /\ Head(todo) = Task("greet", f) /\ todo' = <<>> \o Tail(todo)
  BY DEF Greet, Continue
<1>2. Greeting
  BY <1>1, HeadOp DEF Task
<1>3. f \in ToSet(new_players) /\ todo = <<Task("greet", f)>>
  BY <1>1, <1>2 DEF Greeting, Task
<1>4. todo' = <<>>
  <2>1. Tail(todo) = <<>>
    BY <1>3
  <2>2. <<>> \o <<>> = <<>>
    OBVIOUS
  <2> QED
    BY <1>1, <2>1, <2>2
<1>5. ~Has(todo, Final)
  BY <1>3 DEF Has, Task, Final
<1>6. rset \subseteq Fd /\ inbox \in InboxType
  BY DEF ServerInv, ServerTypeOK, InboxType
<1>7. CASE UNCHANGED <<game, lists, rset, stale, srv, net, told, bounds>>
  <2>1. /\ rset' = rset /\ inbox' = inbox
        /\ UNCHANGED <<game, lists, stale, srv, sock, backlog, told, bounds>>
    BY <1>7 DEF net
  <2> QED
    BY <1>4, <1>5, <1>6, <2>1, NoSteps, PlainStep
<1>8. CASE /\ new_players' = Without(new_players, f)
           /\ Closed(f)
           /\ UNCHANGED <<game, head, turn, name, rset, stale, srv, backlog,
                          told, bounds>>
  BY <1>3, <1>4, <1>5, <1>6, <1>8, NewcomerGone
<1> QED
  BY <1>7, <1>8 DEF Greet

(* What the scan of the descriptors does before any handler. *)
LEMMA ScanFrame ==
  ASSUME ServerInv, NEW f \in Fd, Scanning(f)
  PROVE  todo = <<>> /\ ~Has(todo, Final) /\ rset' \subseteq Fd
  BY IdleNoFinal DEF Scanning, ServerInv, ServerTypeOK

LEMMA ScanGoneInv ==
  ASSUME ServerInv, srv = "up", NEW f \in Fd, ScanGone(f)
  PROVE  ServerInv'
<1>1. /\ Scanning(f) /\ todo' = todo /\ inbox' = inbox
      /\ UNCHANGED <<game, lists, stale, srv, sock, backlog, told, bounds>>
  BY DEF ScanGone, net
<1>2. todo' = <<>> /\ inbox' \in InboxType
  BY <1>1, ScanFrame DEF ServerInv, ServerTypeOK, InboxType
<1> QED
  BY <1>1, <1>2, ScanFrame, NoSteps, PlainStep

(* The steps that concern all the players. *)
LEMMA BoardSteps ==
  ASSUME ServerInv, drops = 0 => head # <<>>
  PROVE  /\ StepOK(Text) /\ StepOK(Status) /\ StepOK(AnnounceTurn)
         /\ StepOK(Task("init_game", NoFd)) /\ StepOK(Task("check_over", NoFd))
<1>1. /\ NoFd \notin Fd /\ Start \notin Fd
      /\ NoFd \notin ToSet(new_players) /\ Start \notin ToSet(new_players)
  BY Members
<1>2. StepOK(Text) /\ StepOK(Status)
  BY <1>1 DEF StepOK, Text, Status, Task, StepType, Op, Playing, OfClient, Broken
<1>3. /\ StepOK(AnnounceTurn) /\ StepOK(Task("init_game", NoFd))
      /\ StepOK(Task("check_over", NoFd))
  BY <1>1 DEF StepOK, AnnounceTurn, Task, StepType, Op, Playing, OfClient, Broken
<1> QED
  BY <1>2, <1>3

(* The steps that concern one player. *)
LEMMA StepsOK ==
  ASSUME ServerInv, NEW f \in ToSet(head)
  PROVE  /\ StepOK(Text) /\ StepOK(Status) /\ StepOK(AnnounceTurn)
         /\ StepOK(Task("check_over", NoFd)) /\ StepOK(Task("tell_winner", f))
         /\ drops # 0 => StepOK(Task("disconnect", f))
         /\ head # <<>>
<1>1. /\ f \in Fd /\ f \notin ToSet(new_players) /\ sock[f] # "free"
      /\ head # <<>>
  <2>1. head # <<>>
    BY DEF ToSet
  <2> QED
    BY <2>1, Members DEF ServerInv, ListsInv
<1>2. StepOK(Task("tell_winner", f))
  BY <1>1 DEF StepOK, Task, StepType, Op, Playing, OfClient, Broken
<1>3. drops # 0 => StepOK(Task("disconnect", f))
  BY <1>1 DEF StepOK, Task, StepType, Op, Playing, OfClient, Broken
<1> QED
  BY <1>1, <1>2, <1>3, BoardSteps

(* As long as nobody leaves, no peer has gone. *)
LEMMA GoneDropped ==
  ASSUME ServerInv, NEW f \in Fd, sock[f] \in {"eof", "reset"}
  PROVE  drops # 0
  BY DEF ServerInv, CalmInv

LEMMA ReadEOFInv ==
  ASSUME ServerInv, srv = "up", NEW f \in Fd, ReadEOF(f)
  PROVE  ServerInv'
<1>1. /\ Scanning(f) /\ sock[f] = "eof" /\ f \in allset
      /\ todo = <<>> /\ ~Has(todo, Final) /\ rset' \subseteq Fd
  BY ScanFrame DEF ReadEOF
<1>2. CASE /\ f \in ToSet(head)
           /\ todo' = <<Task("disconnect", f)>>
           /\ UNCHANGED <<game, lists, stale, srv, net, told, bounds>>
  <2>1. /\ inbox' \in InboxType
        /\ UNCHANGED <<game, lists, stale, srv, sock, backlog, told, bounds>>
    BY <1>2 DEF net, ServerInv, ServerTypeOK, InboxType
  <2>2. StepOK(Task("disconnect", f))
    BY <1>1, <1>2, StepsOK, GoneDropped
  <2>3. Task("disconnect", f).op \notin Final
    BY DEF Task, Final
  <2>4. /\ Fresh(<<Task("disconnect", f)>>)
        /\ ~Has(<<Task("disconnect", f)>>, Final)
    BY <2>2, <2>3, FreshOne
  <2>5. /\ OneFinal(<<Task("disconnect", f)>>)
        /\ ~Has(<<Task("disconnect", f)>>, {"init_game"})
    BY <2>4 DEF OneFinal, Has, Final
  <2> QED
    BY <1>1, <1>2, <2>1, <2>4, <2>5, PlainStep
<1>3. CASE /\ f \in ToSet(new_players)
           /\ new_players' = Without(new_players, f)
           /\ Closed(f)
           /\ UNCHANGED <<game, head, turn, name, todo, stale, srv, backlog,
                          told, bounds>>
  BY <1>1, <1>3, NewcomerGone
<1> QED
  BY <1>2, <1>3 DEF ReadEOF

LEMMA ReadDiesInv ==
  ASSUME ServerInv, srv = "up", NEW f \in Fd, ReadDies(f)
  PROVE  ServerInv'
<1>1. CASE sock[f] = "reset" /\ Die("exited")
  BY <1>1, GoneDropped, DieInv
<1>2. CASE Gone(f) /\ Die("hung")
  BY <1>2, GoneDropped, DieInv DEF Gone
<1>3. CASE Overlong(f) /\ Die("hung")
  BY <1>3, DieInv
<1> QED
  BY <1>1, <1>2, <1>3 DEF ReadDies

(* A peer that writes may meet has gone. *)
LEMMA BrokenPipeInv ==
  ASSUME ServerInv, NEW f \in Fd, BrokenPipe(f)
  PROVE  ServerInv'
  BY GoneDropped, DieInv DEF BrokenPipe

-----------------------------------------------------------------------------
(* The handlers of a line. *)

LEMMA OperationNames ==
  /\ Text.op = "text" /\ Status.op = "status" /\ AnnounceTurn.op = "announce_turn"
  /\ \A op, f : Task(op, f).op = op /\ Task(op, f).fd = f
  BY DEF Text, Status, AnnounceTurn, Task

LEMMA GuessTasksOK ==
  ASSUME ServerInv, NEW f \in ToSet(head)
  PROVE  /\ Fresh(GuessTasks) /\ OneFinal(GuessTasks)
         /\ Has(GuessTasks, Final) /\ ~Has(GuessTasks, {"init_game"})
<1> DEFINE a == Text  b == Status  c == AnnounceTurn  d == Task("check_over", NoFd)
<1>1. StepOK(a) /\ StepOK(b) /\ StepOK(c) /\ StepOK(d)
  BY StepsOK
<1>2. /\ a.op \notin Final /\ b.op \notin Final /\ c.op \notin Final
      /\ d.op \in Final /\ d.op # "init_game"
      /\ a.op # "init_game" /\ b.op # "init_game" /\ c.op # "init_game"
  BY OperationNames DEF Final
<1>3. /\ a \in StepType /\ b \in StepType /\ c \in StepType /\ d \in StepType
  BY <1>1 DEF StepOK
<1>4. GuessTasks = <<a, b, c, d>>
  BY DEF GuessTasks
<1> HIDE DEF a, b, c, d
<1>5. /\ GuessTasks \in Seq(StepType) /\ Len(GuessTasks) = 4
      /\ GuessTasks[1] = a /\ GuessTasks[2] = b /\ GuessTasks[3] = c
      /\ GuessTasks[4] = d
  BY <1>3, <1>4
<1>6. \A k \in 1..4 : k = 1 \/ k = 2 \/ k = 3 \/ k = 4
  OBVIOUS
<1>7. Fresh(GuessTasks)
  BY <1>1, <1>5, <1>6 DEF Fresh
<1>8. \A k \in 1..4 : GuessTasks[k].op \in Final => k = 4
  BY <1>2, <1>5, <1>6
<1>9. OneFinal(GuessTasks)
  BY <1>5, <1>8 DEF OneFinal
<1> QED
  BY <1>2, <1>5, <1>6, <1>7, <1>9 DEF Has

LEMMA InvalidTasksOK ==
  ASSUME ServerInv, NEW f \in ToSet(head)
  PROVE  LET ts == <<Status, AnnounceTurn, Task("check_over", NoFd)>>
         IN  Fresh(ts) /\ OneFinal(ts) /\ ~Has(ts, {"init_game"})
<1> DEFINE b == Status  c == AnnounceTurn  d == Task("check_over", NoFd)
           ts == <<b, c, d>>
<1>1. StepOK(b) /\ StepOK(c) /\ StepOK(d)
  BY StepsOK
<1>2. /\ b.op \notin Final /\ c.op \notin Final
      /\ d.op # "init_game" /\ b.op # "init_game" /\ c.op # "init_game"
  BY OperationNames DEF Final
<1>3. b \in StepType /\ c \in StepType /\ d \in StepType
  BY <1>1 DEF StepOK
<1> HIDE DEF b, c, d
<1>4. /\ ts \in Seq(StepType) /\ Len(ts) = 3
      /\ ts[1] = b /\ ts[2] = c /\ ts[3] = d
  BY <1>3
<1> HIDE DEF ts
<1>5. \A k \in 1..3 : k = 1 \/ k = 2 \/ k = 3
  OBVIOUS
<1>6. Fresh(ts)
  BY <1>1, <1>4, <1>5 DEF Fresh
<1>7. \A k \in 1..3 : ts[k].op \in Final => k = 3
  BY <1>2, <1>4, <1>5
<1>8. OneFinal(ts)
  BY <1>4, <1>7 DEF OneFinal
<1>9. ~Has(ts, {"init_game"})
  BY <1>2, <1>4, <1>5 DEF Has
<1> QED
  BY <1>6, <1>8, <1>9 DEF ts, b, c, d

(* The new game after a last guess: what the steps before it are. *)
LEMMA NewGameOK ==
  ASSUME ServerInv, drops = 0 => head # <<>>,
         NEW pre, pre \in Seq(StepType), ~Has(pre, Final),
         \A k \in 1..Len(pre) : StepOK(pre[k])
  PROVE  /\ Fresh(pre \o NewGame) /\ OneFinal(pre \o NewGame)
         /\ Has(pre \o NewGame, Final) /\ Has(pre \o NewGame, {"init_game"})
<1> DEFINE a == Text  b == Task("init_game", NoFd)  c == Status  d == AnnounceTurn
           q == pre \o NewGame
           n == Len(pre)
<1>1. StepOK(a) /\ StepOK(b) /\ StepOK(c) /\ StepOK(d)
  BY BoardSteps
<1>2. /\ a.op \notin Final /\ c.op \notin Final /\ d.op \notin Final
      /\ b.op = "init_game" /\ "init_game" \in Final
  BY OperationNames DEF Final
<1>3. /\ a \in StepType /\ b \in StepType /\ c \in StepType /\ d \in StepType
  BY <1>1 DEF StepOK
<1>4. NewGame = <<a, b, c, d>>
  BY DEF NewGame
<1> HIDE DEF a, b, c, d
<1>5. /\ NewGame \in Seq(StepType) /\ Len(NewGame) = 4
      /\ NewGame[1] = a /\ NewGame[2] = b /\ NewGame[3] = c /\ NewGame[4] = d
  BY <1>3, <1>4
<1>6. \A k \in 1..4 : k = 1 \/ k = 2 \/ k = 3 \/ k = 4
  OBVIOUS
<1>7. /\ q \in Seq(StepType) /\ Len(q) = n + 4 /\ n \in Nat
      /\ \A k \in 1..(n + 4) : q[k] = IF k <= n THEN pre[k] ELSE NewGame[k - n]
  <2>1. q \in Seq(StepType)
    BY <1>5
  <2>2. n \in Nat
    OBVIOUS
  <2>3. /\ Len(q) = n + Len(NewGame)
        /\ \A k \in 1..(n + Len(NewGame)) :
             q[k] = IF k <= n THEN pre[k] ELSE NewGame[k - n]
    BY <1>5, ConcatProperties
  <2> QED
    BY <1>5, <2>1, <2>2, <2>3
<1> HIDE DEF q
<1>8. \A k \in 1..n : pre[k].op \notin Final /\ StepOK(pre[k])
  BY DEF Has
<1> HIDE DEF n
<1>9. ASSUME NEW k \in 1..Len(q)
      PROVE  StepOK(q[k]) /\ (q[k].op \in Final => k = n + 2)
  <2>1. CASE k <= n
    BY <1>7, <1>8, <2>1
  <2>2. CASE ~(k <= n)
    <3>1. k - n \in 1..4 /\ q[k] = NewGame[k - n]
      BY <1>7, <2>2
    <3>2. StepOK(NewGame[k - n]) /\ (NewGame[k - n].op \in Final => k - n = 2)
      BY <1>1, <1>2, <1>5, <1>6, <3>1
    <3> QED
      BY <1>7, <3>1, <3>2
  <2> QED
    BY <2>1, <2>2
<1>10. n + 2 \in 1..Len(q) /\ q[n + 2].op = "init_game"
  <2>1. /\ n + 2 \in 1..(n + 4) /\ ~(n + 2 <= n) /\ (n + 2) - n = 2
    BY <1>7
  <2>2. q[n + 2] = NewGame[2]
    BY <1>7, <2>1
  <2> QED
    BY <1>2, <1>5, <1>7, <2>1, <2>2
<1>11. Fresh(q)
  BY <1>7, <1>9 DEF Fresh
<1>12. OneFinal(q)
  BY <1>9 DEF OneFinal
<1> QED
  BY <1>2, <1>10, <1>11, <1>12 DEF Has, q

(* A line that read_input returns is within what has arrived. *)
LEMMA LineType ==
  ASSUME ServerInv, NEW f \in Fd, NEW m, Returns(f, m)
  PROVE  /\ m \in Seq(Byte) /\ Taken(f) \in 2..Len(inbox[f])
         /\ SubSeq(inbox[f], Taken(f) + 1, Len(inbox[f])) \in Seq(Byte)
<1>1. PICK q \in Seq(Byte) : q = inbox[f]
  BY DEF ServerInv, ServerTypeOK
<1>2. PICK t : t = Taken(f)
  OBVIOUS
<1>3. t \in 0..Len(q) /\ Len(q) \in Nat
  <2>1. Size(f) \in Nat \ {0}
    BY ByteAssumption DEF Size
  <2> QED
    BY <1>1, <1>2, <2>1 DEF Taken
<1>4. Len(Received(f)) = t
  <2>1. Received(f) = SubSeq(q, 1, t)
    BY <1>1, <1>2 DEF Received
  <2> QED
    BY <1>3, <2>1
<1>5. t \in 2..Len(q)
  <2>1. PICK k \in 1..(t - 1) : TRUE
    BY <1>4 DEF Returns, HasNewline
  <2> QED
    BY <1>3, <2>1
<1>6. SubSeq(q, 1, t - 2) \in Seq(Byte) /\ SubSeq(q, t + 1, Len(q)) \in Seq(Byte)
  BY <1>3, <1>5, SubSeqProperties
<1> QED
  BY <1>1, <1>2, <1>5, <1>6 DEF Returns

(* What the handlers of a player's line have in common. *)
LEMMA LineFrame ==
  ASSUME ServerInv, NEW f \in Fd, NEW m, ReadLine(f, m)
  PROVE  /\ todo = <<>> /\ ~Has(todo, Final) /\ ~Over
         /\ rset' \subseteq Fd /\ inbox' \in InboxType
<1>1. /\ Scanning(f) /\ Returns(f, m)
      /\ inbox' = [inbox EXCEPT ![f] = SubSeq(@, Taken(f) + 1, Len(@))]
  BY DEF ReadLine
<1>2. todo = <<>> /\ ~Has(todo, Final) /\ rset' \subseteq Fd
  BY <1>1, ScanFrame
<1>3. inbox' \in InboxType
  <2>1. SubSeq(inbox[f], Taken(f) + 1, Len(inbox[f])) \in Seq(Byte)
    BY <1>1, LineType
  <2> QED
    BY <1>1, <2>1 DEF ServerInv, ServerTypeOK, InboxType
<1> QED
  BY <1>2, <1>3, GameGoesOn

LEMMA GuessInvalidInv ==
  ASSUME ServerInv, srv = "up", NEW f \in Fd, NEW m, GuessInvalid(f, m)
  PROVE  ServerInv'
<1>1. /\ ReadLine(f, m) /\ f \in ToSet(head)
      /\ todo' = <<Status, AnnounceTurn, Task("check_over", NoFd)>>
      /\ UNCHANGED <<game, lists, stale, srv, sock, backlog, told, bounds>>
  BY DEF GuessInvalid
<1> QED
  BY <1>1, LineFrame, InvalidTasksOK, PlainStep

LEMMA OutOfTurnInv ==
  ASSUME ServerInv, srv = "up", NEW f \in Fd, NEW m, OutOfTurn(f, m)
  PROVE  ServerInv'
<1> DEFINE t == Task("check_over", NoFd)
<1>1. /\ ReadLine(f, m) /\ f \in ToSet(head) /\ todo' = <<t>>
      /\ UNCHANGED <<game, lists, stale, srv, sock, backlog, told, bounds>>
  BY DEF OutOfTurn
<1>2. StepOK(t) /\ t.op # "init_game"
  BY <1>1, StepsOK, OperationNames
<1> HIDE DEF t
<1>3. Fresh(<<t>>)
  BY <1>2, FreshOne
<1>4. OneFinal(<<t>>) /\ ~Has(<<t>>, {"init_game"})
  BY <1>2 DEF OneFinal, Has
<1> QED
  BY <1>1, <1>3, <1>4, LineFrame, PlainStep

LEMMA AnswerFailsInv ==
  ASSUME ServerInv, srv = "up", NEW f \in Fd, NEW m, AnswerFails(f, m)
  PROVE  ServerInv'
<1> DEFINE t == Task("disconnect", f)
<1>1. CASE /\ ReadLine(f, m)
           /\ WriteFails(f)
           /\ todo' = <<t>>
           /\ UNCHANGED <<game, lists, stale, srv, sock, backlog, told, bounds>>
  <2>1. f \in ToSet(head) /\ sock[f] # "free"
    BY DEF AnswerFails, ServerInv, ListsInv
  <2>2. StepOK(t)
    BY <1>1, <2>1, StepsOK, GoneDropped DEF WriteFails
  <2>3. t.op \notin Final /\ t.op # "init_game"
    BY OperationNames DEF Final
  <2> HIDE DEF t
  <2>4. Fresh(<<t>>)
    BY <2>2, FreshOne
  <2>5. OneFinal(<<t>>) /\ ~Has(<<t>>, {"init_game"})
    BY <2>3 DEF OneFinal, Has
  <2> QED
    BY <1>1, <2>4, <2>5, LineFrame, PlainStep
<1>2. CASE BrokenPipe(f)
  BY <1>2, BrokenPipeInv
<1> QED
  BY <1>1, <1>2 DEF AnswerFails

LEMMA GuessRightInv ==
  ASSUME ServerInv, srv = "up", NEW f \in Fd, NEW l \in Letter, GuessRight(f, l)
  PROVE  ServerInv' /\ GameNext
<1>1. /\ ReadLine(f, <<l>>) /\ f \in ToSet(head) /\ RightGuess(l)
      /\ todo' = IF Complete(guess')
                 THEN <<Text, Task("tell_winner", f)>> \o NewGame
                 ELSE GuessTasks
      /\ knows_game' = {}
      /\ UNCHANGED <<lists, stale, srv, sock, backlog, knows_turn, bounds>>
  BY DEF GuessRight
<1>2. ~Over /\ rset' \subseteq Fd /\ inbox' \in InboxType
  BY <1>1, LineFrame
<1>3. GameNext
  BY <1>1, <1>2 DEF GameNext, Guess
<1>4. guesses_left' = guesses_left /\ ~(guesses_left <= 0)
  BY <1>1, <1>2 DEF RightGuess, Over
<1>5. /\ \E ts : todo' = ts /\ Fresh(ts)
      /\ FinalInv'
  <2>1. CASE Complete(guess')
    <3> DEFINE pre == <<Text, Task("tell_winner", f)>>
    <3>1. StepOK(Text) /\ StepOK(Task("tell_winner", f))
      BY <1>1, StepsOK
    <3>2. Text.op \notin Final /\ Task("tell_winner", f).op \notin Final
      BY OperationNames DEF Final
    <3>3. Fresh(pre) /\ ~Has(pre, Final)
      BY <3>1, <3>2, FreshTwo
    <3>4. PICK p : p = pre
      OBVIOUS
    <3> HIDE DEF pre
    <3>5. /\ Fresh(p \o NewGame) /\ OneFinal(p \o NewGame)
          /\ Has(p \o NewGame, Final) /\ Has(p \o NewGame, {"init_game"})
      BY <1>1, <3>3, <3>4, StepsOK, NewGameOK DEF Fresh
    <3>6. todo' = p \o NewGame
      BY <1>1, <2>1, <3>4 DEF pre
    <3>7. /\ OneFinal(todo') /\ Has(todo', Final) /\ Has(todo', {"init_game"})
      BY <3>5, <3>6
    <3>8. FinalInv'
      BY <2>1, <3>7 DEF FinalInv, OneFinal, Has, Over, Complete
    <3> QED
      BY <3>5, <3>6, <3>8
  <2>2. CASE ~Complete(guess')
    <3>1. /\ Fresh(GuessTasks) /\ OneFinal(GuessTasks)
          /\ Has(GuessTasks, Final) /\ ~Has(GuessTasks, {"init_game"})
      BY <1>1, GuessTasksOK
    <3>2. todo' = GuessTasks
      BY <1>1, <2>2
    <3>3. OneFinal(todo') /\ Has(todo', Final) /\ ~Has(todo', {"init_game"})
      BY <3>1, <3>2
    <3>4. FinalInv'
      BY <1>4, <2>2, <3>3 DEF FinalInv, OneFinal, Has, Over, Complete
    <3> QED
      BY <3>1, <3>2, <3>4
  <2> QED
    BY <2>1, <2>2
<1>6. TurnInv' /\ ToldInv'
  BY <1>1 DEF ServerInv, TurnInv, ToldInv, lists
<1>7. /\ head' = head /\ new_players' = new_players /\ name' = name
      /\ allset' = allset
  BY <1>1 DEF lists
<1> QED
  BY <1>1, <1>2, <1>3, <1>5, <1>6, <1>7, HandlerStep

(* The next player is a player. *)
LEMMA SuccessorType ==
  ASSUME ServerInv, turn \in ToSet(head)
  PROVE  Successor \in ToSet(head)
<1>1. head \in Seq(Fd) /\ head # <<>>
  BY DEF ServerInv, ServerTypeOK, ToSet
<1>2. head[1] \in ToSet(head)
  BY <1>1, FirstType DEF First
<1>3. Next_in(head, turn) \in ToSet(head) \cup {NoFd}
  BY <1>1, NextInType
<1> QED
  BY <1>2, <1>3 DEF Successor

LEMMA GuessWrongInv ==
  ASSUME ServerInv, srv = "up", NEW f \in Fd, NEW l \in Letter, GuessWrong(f, l)
  PROVE  ServerInv' /\ GameNext
<1>1. /\ ReadLine(f, <<l>>) /\ f \in ToSet(head) /\ f = turn /\ WrongGuess(l)
      /\ turn' = Successor /\ todo' = GuessTasks
      /\ knows_turn' = (IF turn' = turn THEN knows_turn ELSE {})
      /\ knows_game' = {}
      /\ UNCHANGED <<head, new_players, name, allset, stale, srv, sock, backlog,
                     bounds>>
  BY DEF GuessWrong, HasTurn
<1>2. ~Over /\ rset' \subseteq Fd /\ inbox' \in InboxType
  BY <1>1, LineFrame
<1>3. GameNext
  BY <1>1, <1>2 DEF GameNext, Guess
<1>4. /\ Fresh(GuessTasks) /\ OneFinal(GuessTasks)
      /\ Has(GuessTasks, Final) /\ ~Has(GuessTasks, {"init_game"})
  BY <1>1, GuessTasksOK
<1>5. FinalInv'
  <2>1. OneFinal(todo') /\ Has(todo', Final) /\ ~Has(todo', {"init_game"})
    BY <1>1, <1>4
  <2>2. ~Complete(guess')
    BY <1>1, <1>2 DEF WrongGuess, Over
  <2> QED
    BY <2>1, <2>2 DEF FinalInv, OneFinal, Has, Complete
<1>6. TurnInv'
  <2>1. head # <<>>
    BY <1>1 DEF ToSet
  <2> QED
    BY <1>1, <2>1, SuccessorType DEF TurnInv
<1>7. ToldInv'
  BY <1>1 DEF ServerInv, ToldInv
<1> QED
  BY <1>1, <1>2, <1>3, <1>4, <1>5, <1>6, <1>7, HandlerStep

LEMMA JoinInv ==
  ASSUME ServerInv, srv = "up", NEW f \in Fd, NEW m, Join(f, m)
  PROVE  ServerInv'
<1>1. /\ ReadLine(f, m) /\ f \in ToSet(new_players)
      /\ name' = [name EXCEPT ![f] = m]
      /\ turn' = (IF turn = NoFd THEN f ELSE turn)
      /\ knows_turn' = (IF turn' = turn THEN knows_turn ELSE {})
      /\ new_players' = Without(new_players, f)
      /\ head' = <<f>> \o head
      /\ todo' = <<Text, Task("join_status", f)>>
      /\ UNCHANGED <<game, allset, stale, srv, sock, backlog, knows_game, bounds>>
  BY DEF Join, TurnOnJoin
<1>2. /\ todo = <<>> /\ ~Has(todo, Final)
      /\ rset' \subseteq Fd /\ inbox' \in InboxType
  BY <1>1, LineFrame
<1>3. f \notin ToSet(head) /\ sock[f] # "free"
  BY <1>1 DEF ServerInv, ListsInv
<1>4. /\ new_players' \in Seq(Fd) /\ IsInjective(new_players')
      /\ ToSet(new_players') = ToSet(new_players) \ {f}
  BY <1>1, WithoutType DEF ServerInv, ServerTypeOK, ListsInv
<1>5. /\ head' \in Seq(Fd) /\ head' # <<>> /\ IsInjective(head')
      /\ ToSet(head') = ToSet(head) \cup {f}
  BY <1>1, <1>3, InFrontType DEF ServerInv, ServerTypeOK, ListsInv
<1>6. drops' = drops /\ connects' = connects /\ sends' = sends /\ stalls' = stalls
  BY <1>1 DEF bounds
<1>7. ListsInv'
  BY <1>1, <1>3, <1>4, <1>5 DEF ServerInv, ListsInv
<1>8. TurnInv'
  BY <1>1, <1>5, Members DEF TurnInv
<1>9. ToldInv'
  BY <1>1, <1>5 DEF ServerInv, ToldInv
<1>10. CalmInv' /\ BacklogInv'
  BY <1>1, <1>6 DEF ServerInv, CalmInv, BacklogInv, Free
<1>11. StaleInv'
  BY <1>1, <1>4 DEF ServerInv, StaleInv
<1>12. StepOK(Text)' /\ StepOK(Task("join_status", f))'
  <2>1. /\ Text.op = "text" /\ Text.fd = Start
        /\ Task("join_status", f).op = "join_status"
        /\ Task("join_status", f).fd = f
        /\ Text \in StepType /\ Task("join_status", f) \in StepType
    BY DEF Text, Task, StepType, Op
  <2>2. Start \notin ToSet(new_players)' /\ Start \notin Fd
    BY <1>4, Members
  <2>3. StepOK(Text)'
    BY <1>5, <2>1, <2>2 DEF StepOK, Text, Task, Playing, Op, OfClient, Broken
  <2>4. f \notin ToSet(new_players)' /\ sock'[f] # "free"
    BY <1>1, <1>3, <1>4
  <2>5. StepOK(Task("join_status", f))'
    BY <1>5, <2>1, <2>4 DEF StepOK, Task, Playing, Op, OfClient, Broken
  <2> QED
    BY <2>3, <2>5
<1>13. PICK a, b : a = Text /\ b = Task("join_status", f)
  OBVIOUS
<1>14. /\ todo' = <<a, b>> /\ StepOK(a)' /\ StepOK(b)'
       /\ a \in StepType /\ b \in StepType /\ a.op \notin Final /\ b.op \notin Final
  <2>1. /\ StepOK(a)' /\ StepOK(b)'
    BY <1>12, <1>13 DEF Text, Task
  <2>2. a.op \notin Final /\ b.op \notin Final
    BY <1>13, OperationNames DEF Final
  <2> QED
    BY <1>1, <1>13, <2>1, <2>2 DEF StepOK, StepType
<1>15. /\ todo' \in Seq(StepType) /\ Len(todo') = 2
       /\ todo'[1] = a /\ todo'[2] = b /\ \A k \in 1..2 : k = 1 \/ k = 2
  BY <1>14
<1>16. \A k \in 1..Len(todo') : \E t : t = todo'[k] /\ StepOK(t)'
  BY <1>14, <1>15
<1>17. AllOK'
  BY <1>16 DEF AllOK
<1>18. FinalInv'
  <2>1. \A k \in 1..Len(todo') : todo'[k].op \notin Final
    BY <1>14, <1>15
  <2>2. OneFinal(todo') /\ ~Has(todo', {"init_game"})
    BY <2>1 DEF OneFinal, Has, Final
  <2> QED
    BY <1>1, <1>2, <2>2, SameGame
<1>19. ServerTypeOK'
  <2>1. name' \in [Fd -> Seq(Byte)]
    BY <1>1, LineType DEF ReadLine, ServerInv, ServerTypeOK
  <2>2. knows_turn' \subseteq Fd
    BY <1>1 DEF ServerInv, ServerTypeOK
  <2>3. turn' \in Fd \cup {NoFd}
    BY <1>1, Members
  <2> QED
    BY <1>1, <1>2, <1>4, <1>5, <1>6, <1>15, <2>1, <2>2, <2>3
    DEF ServerInv, ServerTypeOK, StepType, InboxType
<1> QED
  BY <1>7, <1>8, <1>9, <1>10, <1>11, <1>17, <1>18, <1>19 DEF ServerInv, StepsInv

LEMMA JoinFailsInv ==
  ASSUME ServerInv, srv = "up", NEW f \in Fd, NEW m, JoinFails(f, m)
  PROVE  ServerInv'
<1>1. CASE WriteFails(f) /\ Die("crashed")
  <2>1. sock[f] # "free"
    BY DEF JoinFails, ServerInv, ListsInv
  <2> QED
    BY <1>1, <2>1, GoneDropped, DieInv DEF WriteFails
<1>2. CASE BrokenPipe(f)
  BY <1>2, BrokenPipeInv
<1> QED
  BY <1>1, <1>2 DEF JoinFails

-----------------------------------------------------------------------------
(* The functions the handlers call. *)

(* The step that is running. *)
LEMMA RunningOK ==
  ASSUME ServerInv, todo # <<>>, NEW op \in Playing, Running(op)
  PROVE  /\ AllOK /\ StepOK(todo[1]) /\ Head(todo) = todo[1] /\ todo[1].op = op
         /\ drops = 0 => head # <<>> /\ turn \in ToSet(head)
<1>1. Head(todo) = todo[1] /\ todo[1].op = op
  BY HeadOp DEF Running
<1>2. AllOK /\ StepOK(todo[1])
  BY <1>1, HeadOp
<1> QED
  BY <1>1, <1>2 DEF StepOK, ServerInv, TurnInv

(* The node a loop stands at. *)
LEMMA CurrentType ==
  ASSUME ServerInv, StepOK(todo[1]), Head(todo) = todo[1]
  PROVE  /\ Current \in Fd \cup {NoFd} /\ Current \notin ToSet(new_players)
         /\ Current # NoFd /\ sock[Current] # "free" => Current \in ToSet(head)
         /\ drops = 0 /\ Current # NoFd => Current \in ToSet(head)
<1>1. todo[1].fd \in Fd \cup {NoFd, Start} /\ todo[1].fd \notin ToSet(new_players)
  BY DEF StepOK, StepType
<1>2. CASE todo[1].fd = Start
  <2>1. Current = First(head)
    BY <1>2 DEF Current
  <2>2. First(head) \in ToSet(head) \cup {NoFd}
    BY FirstType DEF ServerInv, ServerTypeOK
  <2>3. ToSet(head) \cap ToSet(new_players) = {}
    BY DEF ServerInv, ListsInv
  <2> QED
    BY <2>1, <2>2, <2>3, Members
<1>3. CASE todo[1].fd # Start
  <2>1. Current = todo[1].fd
    BY <1>3 DEF Current
  <2>2. drops = 0 /\ Current \in Fd => sock[Current] # "free"
    BY <2>1 DEF StepOK
  <2> QED
    BY <1>1, <1>3, <2>1, <2>2, Members
<1> QED
  BY <1>2, <1>3

Loops == {"text", "status", "tell_others", "tell_losers"}

(* The rest of a loop whose next node is a player, or that has none. *)
LEMMA LoopOK ==
  ASSUME ServerInv, NEW op \in Loops, NEW STATE f, f \in ToSet(head) \cup {NoFd}
  PROVE  Fresh(Loop(op, f)) /\ ~Has(Loop(op, f), Final)
<1>1. CASE f = NoFd
  BY <1>1, FreshNone DEF Loop, Has
<1>2. CASE f # NoFd
  <2>1. /\ f \in Fd /\ f \notin ToSet(new_players) /\ sock[f] # "free"
        /\ head # <<>>
    <3>1. head # <<>>
      BY <1>2 DEF ToSet
    <3> QED
      BY <1>2, <3>1, Members DEF ServerInv, ListsInv
  <2>2. StepOK(Task(op, f)) /\ Task(op, f).op \notin Final
    BY <2>1 DEF StepOK, Task, StepType, Op, Playing, OfClient, Broken, Loops, Final
  <2> QED
    BY <1>2, <2>2, FreshOne DEF Loop
<1> QED
  BY <1>1, <1>2

(* A client that has gone is disconnected, and the handler goes on with u. *)
LEMMA FailsOK ==
  ASSUME ServerInv, NEW STATE f, f \in Fd, f \notin ToSet(new_players), drops # 0,
         NEW STATE u, StepOK(u), u.op \notin Final
  PROVE  /\ Fresh(<<Task("disconnect", f), u>>)
         /\ ~Has(<<Task("disconnect", f), u>>, Final)
<1>1. /\ StepOK(Task("disconnect", f)) /\ Task("disconnect", f).op \notin Final
  BY DEF StepOK, Task, StepType, Op, Playing, OfClient, Broken, Final
<1> QED
  BY <1>1, FreshTwo

(* A step of a handler that changes nothing but the steps to come. *)
LEMMA CallOnly ==
  ASSUME ServerInv, AllOK, todo # <<>>, todo[1].op \notin Final,
         \E ts : Fresh(ts) /\ ~Has(ts, Final) /\ Continue(ts),
         UNCHANGED <<game, lists, rset, stale, srv, net, told, bounds>>
  PROVE  ServerInv'
<1>1. /\ UNCHANGED <<game, lists, rset, stale, srv, net, bounds>>
      /\ knows_turn' = knows_turn /\ knows_game' = knows_game
  BY DEF told
<1> QED
  BY <1>1, CallStep

LEMMA NothingLeft ==
  ASSUME Continue(<<>>)
  PROVE  \E ts : Fresh(ts) /\ ~Has(ts, Final) /\ Continue(ts)
<1>1. Fresh(<<>>) /\ ~Has(<<>>, Final)
  BY FreshNone DEF Has
<1> QED
  BY <1>1

LEMMA LoopEndsInv ==
  ASSUME ServerInv, todo # <<>>, NEW op \in Loops, LoopEnds(op)
  PROVE  ServerInv'
<1>1. op \in Playing /\ op \notin Final
  BY DEF Loops, Playing, Op, Final
<1>2. /\ Running(op) /\ Continue(<<>>)
      /\ UNCHANGED <<game, lists, rset, stale, srv, net, told, bounds>>
  BY DEF LoopEnds
<1>3. AllOK /\ todo[1].op \notin Final
  BY <1>1, <1>2, RunningOK
<1> QED
  BY <1>2, <1>3, NothingLeft, CallOnly

LEMMA LoopWriteOkInv ==
  ASSUME ServerInv, todo # <<>>, NEW op \in Loops, LoopWriteOk(op),
         knows_turn' \subseteq knows_turn \cup {Current},
         knows_game' \subseteq knows_game \cup {Current}
  PROVE  ServerInv'
<1>1. op \in Playing /\ op \notin Final
  BY DEF Loops, Playing, Op, Final
<1>2. /\ Running(op) /\ Current # NoFd /\ CanWrite(Current)
      /\ Continue(Loop(op, Next_in(head, Current)))
      /\ UNCHANGED <<game, lists, rset, stale, srv, net, bounds>>
  BY DEF LoopWriteOk
<1>3. AllOK /\ todo[1].op \notin Final /\ StepOK(todo[1]) /\ Head(todo) = todo[1]
  BY <1>1, <1>2, RunningOK
<1>4. Current \in ToSet(head)
  BY <1>2, <1>3, CurrentType DEF CanWrite
<1>5. Next_in(head, Current) \in ToSet(head) \cup {NoFd}
  <2>1. PICK f : f = Current
    OBVIOUS
  <2> QED
    BY <1>4, <2>1, NextInType DEF ServerInv, ServerTypeOK
<1>6. \E ts : Fresh(ts) /\ ~Has(ts, Final) /\ Continue(ts)
  BY <1>2, <1>5, LoopOK
<1> QED
  BY <1>2, <1>3, <1>4, <1>6, CallStep

LEMMA LoopWriteFailsInv ==
  ASSUME ServerInv, todo # <<>>, NEW op \in Loops, LoopWriteFails(op)
  PROVE  ServerInv'
<1>1. op \in Playing /\ op \notin Final
  BY DEF Loops, Playing, Op, Final
<1>2. Running(op) /\ Current # NoFd
  BY DEF LoopWriteFails
<1>3. AllOK /\ todo[1].op \notin Final /\ StepOK(todo[1]) /\ Head(todo) = todo[1]
  BY <1>1, <1>2, RunningOK
<1>4. /\ Current \in Fd /\ Current \notin ToSet(new_players)
      /\ drops = 0 => Current \in ToSet(head)
  BY <1>2, <1>3, CurrentType
<1>5. CASE /\ WriteFails(Current)
           /\ Continue(<<Task("disconnect", Current), Task(GoOn[op], Current)>>)
           /\ UNCHANGED <<game, lists, rset, stale, srv, net, told, bounds>>
  <2> DEFINE u == Task(GoOn[op], Current)
  <2>1. drops # 0
    BY <1>4, <1>5, GoneDropped DEF WriteFails, ServerInv, ListsInv
  <2>2. GoOn[op] \in Broken /\ GoOn[op] \notin Final
    BY DEF GoOn, Loops, Broken, Final
  <2>3. StepOK(u) /\ u.op \notin Final
    BY <1>4, <2>1, <2>2 DEF StepOK, Task, StepType, Op, Playing, OfClient, Broken
  <2> HIDE DEF u
  <2>4. /\ Fresh(<<Task("disconnect", Current), u>>)
        /\ ~Has(<<Task("disconnect", Current), u>>, Final)
    BY <1>4, <2>1, <2>3, FailsOK
  <2>5. \E ts : Fresh(ts) /\ ~Has(ts, Final) /\ Continue(ts)
    BY <1>5, <2>4 DEF u
  <2> QED
    BY <1>3, <1>5, <2>5, CallOnly
<1>6. CASE BrokenPipe(Current)
  BY <1>4, <1>6, GoneDropped, DieInv DEF BrokenPipe
<1> QED
  BY <1>5, <1>6 DEF LoopWriteFails

LEMMA BroadcastInv ==
  ASSUME ServerInv, todo # <<>>, Broadcast
  PROVE  ServerInv'
<1>1. PICK op \in {"text", "status"} :
        \/ LoopEnds(op)
        \/ /\ LoopWriteOk(op)
           /\ knows_game' = IF op = "status" THEN knows_game \cup {Current}
                                             ELSE knows_game
           /\ UNCHANGED knows_turn
        \/ LoopWriteFails(op)
  BY DEF Broadcast
<1>2. op \in Loops
  BY DEF Loops
<1> QED
  BY <1>1, <1>2, LoopEndsInv, LoopWriteOkInv, LoopWriteFailsInv

LEMMA SkipTurnInv ==
  ASSUME ServerInv, todo # <<>>, NEW op \in Loops, SkipTurn(op)
  PROVE  ServerInv'
<1>1. op \in Playing /\ op \notin Final
  BY DEF Loops, Playing, Op, Final
<1>2. /\ Running(op) /\ Current = turn /\ turn # NoFd
      /\ Continue(Loop(op, Next_in(head, Current)))
      /\ UNCHANGED <<game, lists, rset, stale, srv, net, told, bounds>>
  BY DEF SkipTurn
<1>3. AllOK /\ todo[1].op \notin Final
  BY <1>1, <1>2, RunningOK
<1>4. Next_in(head, Current) \in ToSet(head) \cup {NoFd}
  <2>1. PICK f : f = Current
    OBVIOUS
  <2>2. f \in ToSet(head)
    BY <1>2, <2>1, Members
  <2> QED
    BY <2>1, <2>2, NextInType DEF ServerInv, ServerTypeOK
<1>5. \E ts : Fresh(ts) /\ ~Has(ts, Final) /\ Continue(ts)
  BY <1>2, <1>4, LoopOK
<1> QED
  BY <1>2, <1>3, <1>5, CallOnly

LEMMA UseAfterFreeInv ==
  ASSUME ServerInv, todo # <<>>, UseAfterFree
  PROVE  ServerInv'
<1>1. PICK op \in Loops :
        /\ Running(GoOn[op])
        /\ \/ /\ Continue(Loop(op, stale[Head(todo).fd]))
              /\ UNCHANGED <<game, lists, rset, stale, srv, net, told, bounds>>
           \/ Die("crashed")
  BY DEF UseAfterFree, Loops
<1>2. GoOn[op] \in Broken /\ GoOn[op] \in Playing /\ GoOn[op] \notin Final
  BY DEF GoOn, Loops, Broken, Playing, Op, Final
<1>3. /\ AllOK /\ StepOK(todo[1]) /\ Head(todo) = todo[1]
      /\ todo[1].op = GoOn[op]
  BY <1>1, <1>2, RunningOK
<1>4. drops # 0 /\ Head(todo).fd \in Fd
  BY <1>2, <1>3 DEF StepOK, OfClient
<1>5. CASE /\ Continue(Loop(op, stale[Head(todo).fd]))
           /\ UNCHANGED <<game, lists, rset, stale, srv, net, told, bounds>>
  <2>1. PICK s : s = stale[Head(todo).fd]
    OBVIOUS
  <2>2. s \in Fd \cup {NoFd} /\ s \notin ToSet(new_players)
    BY <1>4, <2>1 DEF ServerInv, ServerTypeOK, StaleInv
  <2>3. Fresh(Loop(op, s)) /\ ~Has(Loop(op, s), Final)
    <3>1. CASE s = NoFd
      BY <3>1, FreshNone DEF Loop, Has
    <3>2. CASE s # NoFd
      <4>1. StepOK(Task(op, s)) /\ Task(op, s).op \notin Final
        BY <1>4, <2>2, <3>2
        DEF StepOK, Task, StepType, Op, Playing, OfClient, Broken, Loops, Final
      <4> QED
        BY <3>2, <4>1, FreshOne DEF Loop
    <3> QED
      BY <3>1, <3>2
  <2>4. \E ts : Fresh(ts) /\ ~Has(ts, Final) /\ Continue(ts)
    BY <1>5, <2>1, <2>3
  <2>5. todo[1].op \notin Final
    BY <1>2, <1>3
  <2> QED
    BY <1>3, <1>5, <2>4, <2>5, CallOnly
<1>6. CASE Die("crashed")
  BY <1>4, <1>6, DieInv
<1> QED
  BY <1>1, <1>5, <1>6

(* announce_turn and announce_winner go on with a loop over all players. *)
LEMMA StartOK ==
  ASSUME ServerInv, NEW op \in Loops, drops = 0 => head # <<>>
  PROVE  /\ StepOK(Task(op, Start)) /\ Task(op, Start).op \notin Final
<1>1. Start \notin Fd /\ Start \notin ToSet(new_players)
  BY Members
<1> QED
  BY <1>1 DEF StepOK, Task, StepType, Op, Playing, OfClient, Broken, Loops, Final

LEMMA AnnounceInv ==
  ASSUME ServerInv, todo # <<>>, Announce
  PROVE  ServerInv'
<1> DEFINE u == Task("tell_others", Start)
<1>1. "announce_turn" \in Playing /\ "announce_turn" \notin Final
      /\ "tell_others" \in Loops
  BY DEF Playing, Op, Final, Loops
<1>2. Running("announce_turn")
  BY DEF Announce
<1>3. /\ AllOK /\ todo[1].op \notin Final
      /\ drops = 0 => head # <<>> /\ turn \in ToSet(head)
  BY <1>1, <1>2, RunningOK
<1>4. StepOK(u) /\ u.op \notin Final
  BY <1>1, <1>3, StartOK
<1> HIDE DEF u
<1>5. CASE turn = NoFd /\ Die("crashed")
  BY <1>3, <1>5, Members, DieInv
<1>6. CASE /\ turn # NoFd
           /\ CanWrite(turn)
           /\ knows_turn' = knows_turn \cup {turn}
           /\ Continue(<<u>>)
           /\ UNCHANGED <<game, lists, rset, stale, srv, net, knows_game, bounds>>
  <2>1. turn \in ToSet(head)
    BY <1>6, Members
  <2>2. Fresh(<<u>>) /\ ~Has(<<u>>, Final)
    BY <1>4, FreshOne
  <2>3. \E ts : Fresh(ts) /\ ~Has(ts, Final) /\ Continue(ts)
    BY <1>6, <2>2
  <2> QED
    BY <1>3, <1>6, <2>1, <2>3, CallStep
<1>7. CASE /\ turn # NoFd
           /\ WriteFails(turn)
           /\ Continue(<<Task("disconnect", turn), u>>)
           /\ UNCHANGED <<game, lists, rset, stale, srv, net, told, bounds>>
  <2>1. /\ turn \in Fd /\ turn \notin ToSet(new_players) /\ sock[turn] # "free"
    BY <1>7, Members DEF ServerInv, ListsInv
  <2>2. drops # 0
    BY <1>7, <2>1, GoneDropped DEF WriteFails
  <2>3. /\ Fresh(<<Task("disconnect", turn), u>>)
        /\ ~Has(<<Task("disconnect", turn), u>>, Final)
    BY <1>4, <2>1, <2>2, FailsOK
  <2>4. \E ts : Fresh(ts) /\ ~Has(ts, Final) /\ Continue(ts)
    BY <1>7, <2>3
  <2> QED
    BY <1>3, <1>7, <2>4, CallOnly
<1>8. CASE turn # NoFd /\ BrokenPipe(turn)
  BY <1>8, Members, GoneDropped, DieInv DEF BrokenPipe
<1> QED
  BY <1>5, <1>6, <1>7, <1>8 DEF Announce, u

LEMMA TellOthersInv ==
  ASSUME ServerInv, todo # <<>>, TellOthers
  PROVE  ServerInv'
<1>1. "tell_others" \in Loops /\ "tell_others" \in Playing
  BY DEF Loops, Playing, Op
<1>2. CASE Running("tell_others") /\ turn = NoFd /\ Die("crashed")
  <2>1. drops # 0
    BY <1>1, <1>2, RunningOK, Members
  <2> QED
    BY <1>2, <2>1, DieInv
<1>3. CASE LoopEnds("tell_others")
  BY <1>1, <1>3, LoopEndsInv
<1>4. CASE SkipTurn("tell_others")
  BY <1>1, <1>4, SkipTurnInv
<1>5. CASE LoopWriteFails("tell_others")
  BY <1>1, <1>5, LoopWriteFailsInv
<1>6. CASE /\ LoopWriteOk("tell_others")
           /\ knows_turn' = knows_turn \cup {Current}
           /\ UNCHANGED knows_game
  BY <1>1, <1>6, LoopWriteOkInv
<1> QED
  BY <1>2, <1>3, <1>4, <1>5, <1>6 DEF TellOthers

LEMMA TellWinnerInv ==
  ASSUME ServerInv, todo # <<>>, TellWinner
  PROVE  ServerInv'
<1> DEFINE u == Task("tell_losers", Start)
           w == Head(todo).fd
<1>1. /\ "tell_winner" \in Playing /\ "tell_winner" \notin Final
      /\ "tell_losers" \in Loops /\ "tell_winner" \in OfClient
  BY DEF Playing, Op, Final, Loops, OfClient
<1>2. Running("tell_winner")
  BY DEF TellWinner
<1>3. /\ AllOK /\ todo[1].op \notin Final /\ StepOK(todo[1]) /\ w = todo[1].fd
      /\ todo[1].op = "tell_winner" /\ (drops = 0 => head # <<>>)
  BY <1>1, <1>2, RunningOK
<1>4. StepOK(u) /\ u.op \notin Final
  BY <1>1, <1>3, StartOK
<1>5. /\ w \in Fd /\ w \notin ToSet(new_players)
      /\ drops = 0 => w \in ToSet(head) /\ sock[w] # "free"
  BY <1>1, <1>3, Members DEF StepOK
<1> HIDE DEF u, w
<1>6. CASE /\ CanWrite(w)
           /\ Continue(<<u>>)
           /\ UNCHANGED <<game, lists, rset, stale, srv, net, told, bounds>>
  <2>1. Fresh(<<u>>) /\ ~Has(<<u>>, Final)
    BY <1>4, FreshOne
  <2>2. \E ts : Fresh(ts) /\ ~Has(ts, Final) /\ Continue(ts)
    BY <1>6, <2>1
  <2> QED
    BY <1>3, <1>6, <2>2, CallOnly
<1>7. CASE /\ WriteFails(w)
           /\ Continue(<<Task("disconnect", w), u>>)
           /\ UNCHANGED <<game, lists, rset, stale, srv, net, told, bounds>>
  <2>1. drops # 0
    BY <1>5, <1>7, GoneDropped DEF WriteFails
  <2>2. /\ Fresh(<<Task("disconnect", w), u>>)
        /\ ~Has(<<Task("disconnect", w), u>>, Final)
    BY <1>4, <1>5, <2>1, FailsOK
  <2>3. \E ts : Fresh(ts) /\ ~Has(ts, Final) /\ Continue(ts)
    BY <1>7, <2>2
  <2> QED
    BY <1>3, <1>7, <2>3, CallOnly
<1>8. CASE BrokenPipe(w)
  BY <1>5, <1>8, GoneDropped, DieInv DEF BrokenPipe
<1>9. CASE w \notin ToSet(head) /\ Die("crashed")
  BY <1>5, <1>9, DieInv
<1> QED
  BY <1>6, <1>7, <1>8, <1>9 DEF TellWinner, u, w

LEMMA TellLosersInv ==
  ASSUME ServerInv, todo # <<>>, TellLosers
  PROVE  ServerInv'
<1>1. "tell_losers" \in Loops
  BY DEF Loops
<1>2. CASE LoopWriteOk("tell_losers") /\ UNCHANGED told
  <2>1. knows_turn' = knows_turn /\ knows_game' = knows_game
    BY <1>2 DEF told
  <2> QED
    BY <1>1, <1>2, <2>1, LoopWriteOkInv
<1> QED
  BY <1>1, <1>2, LoopEndsInv, SkipTurnInv, LoopWriteFailsInv DEF TellLosers

LEMMA JoinStatusInv ==
  ASSUME ServerInv, todo # <<>>, JoinStatus
  PROVE  ServerInv'
<1> DEFINE f == Head(todo).fd
<1>1. /\ "join_status" \in Playing /\ "join_status" \notin Final
      /\ "join_status" \in OfClient
  BY DEF Playing, Op, Final, OfClient
<1>2. Running("join_status")
  BY DEF JoinStatus
<1>3. /\ AllOK /\ todo[1].op \notin Final /\ StepOK(todo[1]) /\ f = todo[1].fd
      /\ todo[1].op = "join_status" /\ (drops = 0 => head # <<>>)
  BY <1>1, <1>2, RunningOK
<1>4. /\ f \in Fd /\ f \notin ToSet(new_players)
      /\ drops = 0 => f \in ToSet(head) /\ sock[f] # "free"
      /\ sock[f] # "free" => f \in ToSet(head)
  BY <1>1, <1>3, Members DEF StepOK
<1> HIDE DEF f
<1>5. CASE /\ CanWrite(f)
           /\ knows_game' = knows_game \cup {f}
           /\ Continue(<<AnnounceTurn>>)
           /\ UNCHANGED <<game, lists, rset, stale, srv, net, knows_turn, bounds>>
  <2>1. f \in ToSet(head)
    BY <1>4, <1>5 DEF CanWrite
  <2>2. PICK x : x = f
    OBVIOUS
  <2>3. StepOK(AnnounceTurn) /\ AnnounceTurn.op \notin Final
    BY <2>1, <2>2, StepsOK, OperationNames DEF Final
  <2>4. Fresh(<<AnnounceTurn>>) /\ ~Has(<<AnnounceTurn>>, Final)
    BY <2>3, FreshOne
  <2>5. \E ts : Fresh(ts) /\ ~Has(ts, Final) /\ Continue(ts)
    BY <1>5, <2>4
  <2> QED
    BY <1>3, <1>5, <2>1, <2>5, CallStep
<1>6. CASE /\ WriteFails(f)
           /\ Continue(<<Task("disconnect", f)>>)
           /\ UNCHANGED <<game, lists, rset, stale, srv, net, told, bounds>>
  <2>1. drops # 0
    BY <1>4, <1>6, GoneDropped DEF WriteFails
  <2>2. StepOK(Task("disconnect", f)) /\ Task("disconnect", f).op \notin Final
    BY <1>4, <2>1 DEF StepOK, Task, StepType, Op, Playing, OfClient, Broken, Final
  <2>3. /\ Fresh(<<Task("disconnect", f)>>)
        /\ ~Has(<<Task("disconnect", f)>>, Final)
    BY <2>2, FreshOne
  <2>4. \E ts : Fresh(ts) /\ ~Has(ts, Final) /\ Continue(ts)
    BY <1>6, <2>3
  <2> QED
    BY <1>3, <1>6, <2>4, CallOnly
<1>7. CASE BrokenPipe(f)
  BY <1>4, <1>7, GoneDropped, DieInv DEF BrokenPipe
<1>8. CASE f \notin ToSet(head) /\ Die("crashed")
  BY <1>4, <1>8, DieInv
<1> QED
  BY <1>5, <1>6, <1>7, <1>8 DEF JoinStatus, f

(* A call that is not final, after which the game is the same. *)
LEMMA CallFinal ==
  ASSUME ServerInv, todo # <<>>, todo[1].op \notin Final, UNCHANGED game,
         NEW ts \in Seq(StepType), ~Has(ts, Final), Continue(ts)
  PROVE  FinalInv'
<1>1. todo \in Seq(StepType) /\ todo' = ts \o Tail(todo)
  BY Members DEF Continue
<1>2. PICK q, r : q = todo /\ r = todo'
  OBVIOUS
<1>3. OneFinal(q) /\ q \in Seq(StepType) /\ q # <<>> /\ q[1].op \notin Final
  BY <1>1, <1>2 DEF ServerInv, FinalInv
<1>4. /\ OneFinal(r)
      /\ \A ops \in SUBSET Final : Has(r, ops) <=> Has(q, ops)
  BY <1>1, <1>2, <1>3, FinalKept
<1>5. {"init_game"} \in SUBSET Final /\ Final \in SUBSET Final
  BY DEF Final
<1>6. /\ Has(todo, Final) <=> Has(q, Final)
      /\ Has(todo, {"init_game"}) <=> Has(q, {"init_game"})
  BY <1>2
<1>7. /\ OneFinal(todo)' <=> OneFinal(r)
      /\ Has(todo, Final)' <=> Has(r, Final)
      /\ Has(todo, {"init_game"})' <=> Has(r, {"init_game"})
  BY <1>2 DEF OneFinal, Has
<1>8. /\ guesses_left' = guesses_left /\ (Complete(guess)' <=> Complete(guess))
      /\ (Over' <=> Over)
  BY DEF game, Over, Complete
<1> QED
  BY <1>4, <1>5, <1>6, <1>7, <1>8 DEF ServerInv, FinalInv

LEMMA DisconnectInv ==
  ASSUME ServerInv, todo # <<>>, srv = "up", Disconnect
  PROVE  ServerInv'
<1>1. "disconnect" \in Playing /\ "disconnect" \notin Final
      /\ "disconnect" \in Broken /\ "disconnect" \in OfClient
  BY DEF Playing, Op, Final, Broken, OfClient
<1>2. Running("disconnect")
  BY DEF Disconnect
<1>3. /\ AllOK /\ StepOK(todo[1]) /\ Head(todo) = todo[1]
      /\ todo[1].op = "disconnect"
  BY <1>1, <1>2, RunningOK
<1>4. PICK f : f = Head(todo).fd
  OBVIOUS
<1>5. f \in Fd /\ drops # 0 /\ f \notin ToSet(new_players)
  BY <1>1, <1>3, <1>4 DEF StepOK
<1> DEFINE rest == Without(head, f)
           crashes == turn = NoFd \/ (f = turn /\ rest # <<>>)
<1>6. CASE Die("crashed")
  BY <1>5, <1>6, DieInv
<1>7. CASE /\ ~crashes
           /\ turn' = (IF f = turn THEN NoFd ELSE turn)
           /\ head' = rest
           /\ IF f \in ToSet(head)
              THEN /\ Closed(f)
                   /\ stale' = [stale EXCEPT ![f] = Next_in(head, f)]
              ELSE UNCHANGED <<allset, sock, inbox, stale>>
           /\ knows_turn' = knows_turn \ {f}
           /\ knows_game' = knows_game \ {f}
           /\ Continue(IF rest = <<>> THEN <<>> ELSE <<Text, AnnounceTurn>>)
           /\ UNCHANGED <<game, new_players, name, rset, srv, backlog, bounds>>
  <2>1. /\ head' \in Seq(Fd) /\ IsInjective(head')
        /\ ToSet(head') = ToSet(head) \ {f}
        /\ (head' = <<>> <=> ToSet(head) \subseteq {f})
    BY <1>7, WithoutType DEF ServerInv, ServerTypeOK, ListsInv
  <2>2. /\ drops' = drops /\ connects' = connects /\ sends' = sends
        /\ stalls' = stalls
    BY <1>7 DEF bounds
  <2>3. \A g \in Fd : sock'[g] = IF g = f /\ f \in ToSet(head) THEN "free"
                                                             ELSE sock[g]
    BY <1>5, <1>7 DEF Closed, ServerInv, ServerTypeOK
  <2>4. ListsInv'
    <3>1. allset' = ToSet(head') \cup ToSet(new_players')
      BY <1>5, <1>7, <2>1, Members DEF Closed
    <3> QED
      BY <1>5, <1>7, <2>1, <2>3, <3>1 DEF ServerInv, ListsInv
  <2>5. TurnInv'
    <3>1. turn \in ToSet(head) /\ turn # NoFd
      BY <1>7, Members
    <3>2. CASE f = turn
      BY <1>7, <3>1, <3>2 DEF TurnInv
    <3>3. CASE f # turn
      <4>1. turn \in ToSet(head')
        BY <2>1, <3>1, <3>3
      <4>2. head' # <<>>
        BY <2>1, <3>1, <3>3
      <4> QED
        BY <1>7, <3>3, <4>1, <4>2 DEF TurnInv
    <3> QED
      BY <3>2, <3>3
  <2>6. ToldInv'
    BY <1>7, <2>1 DEF ServerInv, ToldInv
  <2>7. BacklogInv'
    <3>1. Free \subseteq Free' /\ Free' \subseteq Fd
      BY <2>3 DEF Free
    <3> QED
      BY <1>7, <3>1, BacklogKept
  <2>8. CalmInv'
    BY <1>5, <2>2 DEF CalmInv
  <2>9. StaleInv' /\ stale' \in [Fd -> Fd \cup {NoFd}]
    <3>1. CASE f \in ToSet(head)
      <4>1. Next_in(head, f) \in ToSet(head) \cup {NoFd}
        BY <3>1, NextInType DEF ServerInv, ServerTypeOK
      <4>2. /\ Next_in(head, f) \notin ToSet(new_players)
            /\ Next_in(head, f) \in Fd \cup {NoFd}
        BY <4>1, Members DEF ServerInv, ListsInv
      <4> QED
        BY <1>5, <1>7, <3>1, <4>2 DEF ServerInv, StaleInv, ServerTypeOK
    <3>2. CASE f \notin ToSet(head)
      BY <1>7, <3>2 DEF ServerInv, StaleInv, ServerTypeOK
    <3> QED
      BY <3>1, <3>2
  <2>10. ASSUME NEW t, StepOK(t) PROVE StepOK(t)'
    BY <1>5, <1>7, <2>2, <2>10 DEF StepOK
  <2>11. PICK ts : ts = IF rest = <<>> THEN <<>> ELSE <<Text, AnnounceTurn>>
    OBVIOUS
  <2>12. Fresh(ts) /\ ~Has(ts, Final)
    <3>1. CASE rest = <<>>
      BY <2>11, <3>1, FreshNone DEF Has
    <3>2. CASE rest # <<>>
      <4>1. PICK g \in ToSet(head) : TRUE
        BY <1>7, <2>1, <3>2
      <4>2. StepOK(Text) /\ StepOK(AnnounceTurn)
        BY <4>1, StepsOK
      <4>3. Text.op \notin Final /\ AnnounceTurn.op \notin Final
        BY OperationNames DEF Final
      <4> QED
        BY <2>11, <3>2, <4>2, <4>3, FreshTwo
    <3> QED
      BY <3>1, <3>2
  <2>13. Continue(ts)
    BY <1>7, <2>11
  <2>14. Fresh(ts)'
    BY <2>10, <2>12 DEF Fresh
  <2>15. AllOK' /\ todo' \in Seq(StepType)
    BY <1>3, <2>10, <2>13, <2>14, CallSteps
  <2>16. FinalInv'
    BY <1>1, <1>3, <1>7, <2>12, <2>13, CallFinal DEF Fresh
  <2>17. ServerTypeOK'
    <3>1. /\ sock' \in [Fd -> {"free", "open", "full", "eof", "reset"}]
          /\ inbox' \in [Fd -> Seq(Byte)] /\ allset' \in SUBSET Fd
      <4>1. CASE f \in ToSet(head)
        <5>1. /\ inbox \in [Fd -> Seq(Byte)] /\ allset \in SUBSET Fd
              /\ <<>> \in Seq(Byte)
              /\ sock \in [Fd -> {"free", "open", "full", "eof", "reset"}]
          BY DEF ServerInv, ServerTypeOK
        <5>2. Closed(f)
          BY <1>7, <4>1
        <5> QED
          BY <5>1, <5>2 DEF Closed
      <4>2. CASE f \notin ToSet(head)
        BY <1>7, <4>2 DEF ServerInv, ServerTypeOK
      <4> QED
        BY <4>1, <4>2
    <3>2. /\ turn' \in Fd \cup {NoFd}
          /\ knows_turn' \subseteq Fd /\ knows_game' \subseteq Fd
      BY <1>7, Members DEF ServerInv, ServerTypeOK
    <3> QED
      BY <1>7, <2>1, <2>2, <2>9, <2>15, <3>1, <3>2
      DEF ServerInv, ServerTypeOK, StepType
  <2> QED
    BY <2>4, <2>5, <2>6, <2>7, <2>8, <2>9, <2>15, <2>16, <2>17
    DEF ServerInv, StepsInv
<1> QED
  BY <1>4, <1>6, <1>7 DEF Disconnect, TurnWithout

(* A final step is taken: what the game and the steps to come are then. *)
LEMMA FinalStep ==
  ASSUME ServerInv, AllOK, todo # <<>>, todo[1].op \in Final,
         NEW ts, Fresh(ts), Continue(ts), FinalInv',
         UNCHANGED <<lists, rset, stale, srv, net, bounds>>,
         knows_turn' = knows_turn, knows_game' \subseteq knows_game
  PROVE  ServerInv'
<1>1. /\ sock' = sock /\ inbox' = inbox /\ backlog' = backlog /\ drops' = drops
      /\ connects' = connects /\ sends' = sends /\ stalls' = stalls
      /\ head' = head /\ new_players' = new_players /\ turn' = turn
      /\ name' = name /\ allset' = allset
      /\ rset' = rset /\ stale' = stale /\ srv' = srv
  BY DEF net, bounds, lists
<1>2. \A t : StepOK(t) <=> StepOK(t)'
  BY <1>1 DEF StepOK
<1>3. Fresh(ts)'
  BY <1>2 DEF Fresh
<1>4. AllOK' /\ todo' \in Seq(StepType)
  BY <1>2, <1>3, CallSteps
<1>5. ListsInv' /\ TurnInv' /\ StaleInv' /\ ToldInv'
  BY <1>1 DEF ServerInv, ListsInv, TurnInv, StaleInv, ToldInv
<1>6. CalmInv' /\ BacklogInv'
  BY <1>1, OverlongKept DEF ServerInv, CalmInv, BacklogInv, Free
<1>7. knows_turn' \subseteq Fd /\ knows_game' \subseteq Fd
  BY DEF ServerInv, ServerTypeOK
<1>8. ServerTypeOK'
  BY <1>1, <1>4, <1>7 DEF ServerInv, ServerTypeOK, StepType
<1> QED
  BY <1>4, <1>5, <1>6, <1>8 DEF ServerInv, StepsInv

(* What is final in the steps to come, when the running step is final. *)
LEMMA FinalSteps ==
  ASSUME ServerInv, todo # <<>>, todo[1].op \in Final,
         NEW ts \in Seq(StepType), OneFinal(ts), Continue(ts)
  PROVE  /\ OneFinal(todo')
         /\ Has(todo', Final) <=> Has(ts, Final)
         /\ Has(todo', {"init_game"}) <=> Has(ts, {"init_game"})
<1>1. todo \in Seq(StepType) /\ todo' = ts \o Tail(todo)
  BY Members DEF Continue
<1>2. PICK q, r : q = todo /\ r = todo'
  OBVIOUS
<1>3. OneFinal(q) /\ q \in Seq(StepType) /\ q # <<>> /\ q[1].op \in Final
  BY <1>1, <1>2 DEF ServerInv, FinalInv
<1>4. /\ OneFinal(r)
      /\ \A ops \in SUBSET Final : Has(r, ops) <=> Has(ts, ops)
  BY <1>1, <1>2, <1>3, FinalTaken
<1>5. {"init_game"} \in SUBSET Final /\ Final \in SUBSET Final
  BY DEF Final
<1> QED
  BY <1>2, <1>4, <1>5

LEMMA StartGameInv ==
  ASSUME ServerInv, todo # <<>>, StartGame
  PROVE  ServerInv' /\ GameNext
<1>1. /\ Running("init_game") /\ init_game /\ knows_game' = {} /\ Continue(<<>>)
      /\ UNCHANGED <<lists, rset, stale, srv, net, knows_turn, bounds>>
  BY DEF StartGame
<1>2. "init_game" \in Playing /\ "init_game" \in Final
  BY DEF Playing, Op, Final
<1>3. AllOK /\ todo[1].op = "init_game" /\ 1 \in 1..Len(todo)
  BY <1>1, <1>2, RunningOK, HeadOp
<1>4. Over
  <2>1. Has(todo, {"init_game"})
    BY <1>3 DEF Has
  <2> QED
    BY <2>1 DEF ServerInv, FinalInv
<1>5. GameNext
  BY <1>1, <1>4 DEF GameNext
<1>6. FinalInv'
  <2>1. OneFinal(todo') /\ ~Has(todo', Final) /\ ~Has(todo', {"init_game"})
    <3>1. /\ <<>> \in Seq(StepType) /\ OneFinal(<<>>)
          /\ ~Has(<<>>, Final) /\ ~Has(<<>>, {"init_game"})
      BY DEF OneFinal, Has
    <3> QED
      BY <1>1, <1>2, <1>3, <3>1, FinalSteps
  <2>2. ~(guesses_left' <= 0)
    BY <1>1, GameAssumption DEF init_game
  <2>3. ~Complete(guess)'
    BY <1>1, DashedType DEF init_game, Complete
  <2> QED
    BY <2>1, <2>2, <2>3 DEF FinalInv, OneFinal, Has, Complete
<1> QED
  BY <1>1, <1>2, <1>3, <1>5, <1>6, FreshNone, FinalStep

LEMMA CheckOverInv ==
  ASSUME ServerInv, todo # <<>>, CheckOver
  PROVE  ServerInv'
<1>1. /\ Running("check_over")
      /\ Continue(IF guesses_left <= 0 THEN <<Text>> \o NewGame ELSE <<>>)
      /\ UNCHANGED <<game, lists, rset, stale, srv, net, told, bounds>>
  BY DEF CheckOver, NoGuessLeft
<1>2. "check_over" \in Playing /\ "check_over" \in Final
  BY DEF Playing, Op, Final
<1>3. AllOK /\ StepOK(todo[1]) /\ todo[1].op = "check_over" /\ 1 \in 1..Len(todo)
  BY <1>1, <1>2, RunningOK, HeadOp
<1>4. ~Complete(guess)
  <2>2. SUFFICES ASSUME Has(todo, {"init_game"}) PROVE FALSE
    BY DEF ServerInv, FinalInv
  <2>3. PICK k \in 1..Len(todo) : todo[k].op = "init_game"
    BY <2>2 DEF Has
  <2>4. k = 1
    BY <1>2, <1>3, <2>3 DEF ServerInv, FinalInv, OneFinal, Final
  <2> QED
    BY <1>3, <2>3, <2>4
<1>5. /\ UNCHANGED <<lists, rset, stale, srv, net, bounds>>
      /\ knows_turn' = knows_turn /\ knows_game' = knows_game
      /\ guesses_left' = guesses_left /\ guess' = guess
  BY <1>1 DEF told, game
<1>6. CASE guesses_left <= 0
  <2> DEFINE pre == <<Text>>
  <2>1. drops = 0 => head # <<>>
    BY <1>3 DEF StepOK
  <2>2. StepOK(Text)
    BY <2>1, BoardSteps
  <2>3. Text.op \notin Final
    BY OperationNames DEF Final
  <2>4. Fresh(pre) /\ ~Has(pre, Final)
    BY <2>2, <2>3, FreshOne
  <2>5. PICK p : p = pre
    OBVIOUS
  <2> HIDE DEF pre
  <2>6. /\ Fresh(p \o NewGame) /\ OneFinal(p \o NewGame)
        /\ Has(p \o NewGame, Final) /\ Has(p \o NewGame, {"init_game"})
    BY <2>1, <2>4, <2>5, NewGameOK DEF Fresh
  <2>7. PICK ts : ts = p \o NewGame
    OBVIOUS
  <2>8. Continue(ts)
    BY <1>1, <1>6, <2>5, <2>7 DEF pre
  <2>9. OneFinal(todo') /\ Has(todo', Final) /\ Has(todo', {"init_game"})
    BY <1>2, <1>3, <2>6, <2>7, <2>8, FinalSteps DEF Fresh
  <2>10. FinalInv'
    BY <1>5, <1>6, <2>9 DEF FinalInv, OneFinal, Has, Over, Complete
  <2> QED
    BY <1>2, <1>3, <1>5, <2>6, <2>7, <2>8, <2>10, FinalStep
<1>7. CASE ~(guesses_left <= 0)
  <2>1. Continue(<<>>)
    BY <1>1, <1>7
  <2>2. OneFinal(todo') /\ ~Has(todo', Final) /\ ~Has(todo', {"init_game"})
    <3>1. /\ <<>> \in Seq(StepType) /\ OneFinal(<<>>)
          /\ ~Has(<<>>, Final) /\ ~Has(<<>>, {"init_game"})
      BY DEF OneFinal, Has
    <3> QED
      BY <1>2, <1>3, <2>1, <3>1, FinalSteps
  <2>3. FinalInv'
    BY <1>4, <1>5, <1>7, <2>2 DEF FinalInv, OneFinal, Has, Over, Complete
  <2> QED
    BY <1>2, <1>3, <1>5, <2>1, <2>3, FreshNone, FinalStep
<1> QED
  BY <1>6, <1>7

-----------------------------------------------------------------------------
(* Every step of the server and of its clients. *)

LEMMA InitServerInv == Init => ServerInv
<1> SUFFICES ASSUME Init PROVE ServerInv
  OBVIOUS
<1>1. /\ head = <<>> /\ new_players = <<>> /\ turn = NoFd /\ todo = <<>>
      /\ rset = {} /\ stale = [f \in Fd |-> NoFd] /\ srv = "up"
      /\ sock = [f \in Fd |-> "free"] /\ inbox = [f \in Fd |-> <<>>]
      /\ name = [f \in Fd |-> <<>>] /\ allset = {}
      /\ backlog = 0 /\ knows_turn = {} /\ knows_game = {}
      /\ connects = 0 /\ sends = 0 /\ drops = 0 /\ stalls = 0
      /\ InitGame
  BY DEF Init
<1>2. ToSet(<<>>) = {} /\ IsInjective(<<>>)
  BY DEF ToSet, IsInjective
<1>3. ListsInv /\ TurnInv /\ ToldInv
  BY <1>1, <1>2 DEF ListsInv, TurnInv, ToldInv
<1>4. CalmInv /\ StaleInv
  BY <1>1, <1>2 DEF CalmInv, StaleInv
<1>5. StepsInv
  BY <1>1 DEF StepsInv, AllOK
<1>6. BacklogInv
  <2>1. Free \subseteq Fd /\ IsFiniteSet(Fd)
    BY FdAssumption DEF Free
  <2>2. Cardinality(Free) \in Nat
    BY <2>1, FS_Subset, FS_CardinalityType
  <2> QED
    BY <1>1, <2>2 DEF BacklogInv
<1>7. FinalInv
  <2>1. ~(guesses_left <= 0)
    BY <1>1, GameAssumption DEF InitGame
  <2>2. ~Complete(guess)
    BY <1>1, DashedType DEF InitGame
  <2>3. OneFinal(<<>>) /\ ~Has(<<>>, {"init_game"})
    BY NoSteps
  <2> QED
    BY <1>1, <2>1, <2>2, <2>3 DEF FinalInv
<1>8. ServerTypeOK
  BY <1>1, FdAssumption DEF ServerTypeOK
<1> QED
  BY <1>3, <1>4, <1>5, <1>6, <1>7, <1>8 DEF ServerInv

(* The game changes only as WordGame allows: a guess is counted while the  *)
(* game is not over, and a new game starts only when it is.                *)
LEMMA HandleInv ==
  ASSUME ServerInv, srv = "up", NEW f \in Fd, Handle(f)
  PROVE  ServerInv' /\ [GameNext]_game
<1>1. CASE ScanGone(f)
  BY <1>1, ScanGoneInv DEF ScanGone
<1>2. CASE ReadEOF(f)
  BY <1>2, ReadEOFInv DEF ReadEOF
<1>3. CASE ReadDies(f)
  BY <1>3, ReadDiesInv DEF ReadDies, Die
<1>4. ASSUME NEW l \in Letter, GuessRight(f, l) \/ GuessWrong(f, l)
      PROVE  ServerInv' /\ GameNext
  BY <1>4, GuessRightInv, GuessWrongInv
<1>5. ASSUME NEW m,
             \/ GuessInvalid(f, m) \/ OutOfTurn(f, m) \/ AnswerFails(f, m)
             \/ Join(f, m) \/ JoinFails(f, m)
      PROVE  ServerInv' /\ UNCHANGED game
  <2>1. CASE GuessInvalid(f, m)
    BY <2>1, GuessInvalidInv DEF GuessInvalid
  <2>2. CASE OutOfTurn(f, m)
    BY <2>2, OutOfTurnInv DEF OutOfTurn
  <2>3. CASE AnswerFails(f, m)
    BY <2>3, AnswerFailsInv DEF AnswerFails, BrokenPipe, Die
  <2>4. CASE Join(f, m)
    BY <2>4, JoinInv DEF Join
  <2>5. CASE JoinFails(f, m)
    BY <2>5, JoinFailsInv DEF JoinFails, BrokenPipe, Die
  <2> QED
    BY <1>5, <2>1, <2>2, <2>3, <2>4, <2>5
<1> QED
  BY <1>1, <1>2, <1>3, <1>4, <1>5 DEF Handle

LEMMA CallInv ==
  ASSUME ServerInv, srv = "up", todo # <<>>, Call
  PROVE  ServerInv' /\ [GameNext]_game
<1>1. CASE Announce
  BY <1>1, AnnounceInv DEF Announce, BrokenPipe, Die
<1>2. CASE TellOthers
  BY <1>2, TellOthersInv
     DEF TellOthers, LoopEnds, SkipTurn, LoopWriteOk, LoopWriteFails, BrokenPipe, Die
<1>3. CASE TellWinner
  BY <1>3, TellWinnerInv DEF TellWinner, BrokenPipe, Die
<1>4. CASE TellLosers
  BY <1>4, TellLosersInv
     DEF TellLosers, LoopEnds, SkipTurn, LoopWriteOk, LoopWriteFails, BrokenPipe, Die
<1>5. CASE Broadcast
  BY <1>5, BroadcastInv
     DEF Broadcast, LoopEnds, LoopWriteOk, LoopWriteFails, BrokenPipe, Die
<1>6. CASE UseAfterFree
  BY <1>6, UseAfterFreeInv DEF UseAfterFree, Die
<1>7. CASE Disconnect
  BY <1>7, DisconnectInv DEF Disconnect, Die
<1>8. CASE StartGame
  BY <1>8, StartGameInv
<1>9. CASE CheckOver
  BY <1>9, CheckOverInv DEF CheckOver
<1>10. CASE JoinStatus
  BY <1>10, JoinStatusInv DEF JoinStatus, BrokenPipe, Die
<1> QED
  BY <1>1, <1>2, <1>3, <1>4, <1>5, <1>6, <1>7, <1>8, <1>9, <1>10 DEF Call

LEMMA NextServerInv == ServerInv /\ [Next]_vars => ServerInv' /\ [GameNext]_game
<1> SUFFICES ASSUME ServerInv, [Next]_vars PROVE ServerInv' /\ [GameNext]_game
  OBVIOUS
<1>1. CASE Clients
  <2>1. UNCHANGED game
    BY <1>1 DEF Clients, Connect, Drop, Stall, Resume, Send
  <2> QED
    BY <1>1, <2>1, ClientsInv
<1>2. CASE Server
  <2>1. srv = "up"
    BY <1>2 DEF Server
  <2>2. CASE Select
    BY <2>1, <2>2, SelectInv DEF Select
  <2>3. CASE todo # <<>> /\ Accept
    BY <2>1, <2>3, AcceptInv DEF Accept
  <2>4. CASE todo # <<>> /\ Call
    BY <2>1, <2>4, CallInv
  <2>5. ASSUME todo # <<>>, NEW f \in Fd, Greet(f)
        PROVE  ServerInv' /\ UNCHANGED game
    BY <2>1, <2>5, GreetInv DEF Greet
  <2>6. ASSUME NEW f \in Fd, Handle(f) PROVE ServerInv' /\ [GameNext]_game
    BY <2>1, <2>6, HandleInv
  <2> QED
    BY <1>2, <2>2, <2>3, <2>4, <2>5, <2>6 DEF Server
<1>3. CASE UNCHANGED vars
  <2>1. /\ UNCHANGED <<game, lists, todo, stale, told>>
        /\ rset' = rset /\ srv' = srv /\ sock' = sock /\ inbox' = inbox
        /\ backlog' = backlog /\ connects' = connects /\ sends' = sends
        /\ drops' = drops /\ stalls' = stalls
    BY <1>3 DEF vars, control, net, bounds
  <2>2. /\ ListsInv' /\ TurnInv' /\ ToldInv' /\ StaleInv' /\ StepsInv'
        /\ FinalInv' /\ Free' = Free
    BY <2>1, Frame
  <2>3. CalmInv' /\ BacklogInv'
    BY <2>1, <2>2, OverlongKept DEF ServerInv, CalmInv, BacklogInv, lists
  <2>4. ServerTypeOK'
    BY <2>1 DEF ServerInv, ServerTypeOK, lists, told
  <2> QED
    BY <2>1, <2>2, <2>3, <2>4 DEF ServerInv
<1> QED
  BY <1>1, <1>2, <1>3 DEF Next

THEOREM ServerInvariant == Spec => []ServerInv
  BY InitServerInv, NextServerInv, PTL DEF Spec

-----------------------------------------------------------------------------
(* The properties. *)

(* ServerTypeOK, for any number of clients. *)
THEOREM ServerTypeCorrect == Spec => []ServerTypeOK
<1>1. ServerInv => ServerTypeOK
  BY DEF ServerInv
<1> QED
  BY <1>1, ServerInvariant, PTL

(* NoLeak, for any number of clients that come, go, stall and send: while  *)
(* the server is up the connected sockets are those of its two lists and of*)
(* allset, and nobody is in both lists or twice in one (wordsrv.c:204-222, *)
(* 297, 449-464).                                                          *)
THEOREM SocketsCorrect == Spec => []NoLeak
<1>1. ServerInv => NoLeak
  <2> SUFFICES ASSUME ServerInv PROVE NoLeak
    OBVIOUS
  <2>1. {f \in Fd : sock[f] # "free"} = allset
    BY Members DEF ServerInv, ListsInv
  <2>2. allset = ToSet(head) \cup ToSet(new_players)
    BY DEF ServerInv, ListsInv
  <2>3. IsInjective(head \o new_players)
    <3> DEFINE q == head \o new_players
               n == Len(head)
    <3>1. head \in Seq(Fd) /\ new_players \in Seq(Fd)
      BY DEF ServerInv, ServerTypeOK
    <3>2. /\ q \in Seq(Fd) /\ Len(q) = n + Len(new_players)
          /\ n \in Nat /\ Len(new_players) \in Nat
          /\ \A k \in 1..(n + Len(new_players)) :
               q[k] = IF k <= n THEN head[k] ELSE new_players[k - n]
      <4>1. q \in Seq(Fd) /\ n \in Nat /\ Len(new_players) \in Nat
        BY <3>1
      <4>2. /\ Len(q) = n + Len(new_players)
            /\ \A k \in 1..(n + Len(new_players)) :
                 q[k] = IF k <= n THEN head[k] ELSE new_players[k - n]
        BY <3>1, ConcatProperties
      <4> QED
        BY <4>1, <4>2
    <3>3. /\ DOMAIN head = 1..n /\ DOMAIN new_players = 1..Len(new_players)
          /\ DOMAIN q = 1..(n + Len(new_players))
      BY <3>1, <3>2
    <3> HIDE DEF q, n
    <3>4. /\ \A j, k \in 1..n : head[j] = head[k] => j = k
          /\ \A j, k \in 1..Len(new_players) :
               new_players[j] = new_players[k] => j = k
          /\ \A j \in 1..n, k \in 1..Len(new_players) : head[j] # new_players[k]
      BY <3>3 DEF ServerInv, ListsInv, IsInjective, ToSet
    <3>5. ASSUME NEW k \in 1..(n + Len(new_players)), ~(k <= n)
          PROVE  k - n \in 1..Len(new_players)
      BY <3>2, <3>5
    <3>6. ASSUME NEW j \in 1..(n + Len(new_players)),
                 NEW k \in 1..(n + Len(new_players)), q[j] = q[k]
          PROVE  j = k
      <4>1. CASE j <= n /\ k <= n
        BY <3>2, <3>4, <3>6, <4>1
      <4>2. CASE j <= n /\ ~(k <= n)
        BY <3>2, <3>4, <3>5, <3>6, <4>2
      <4>3. CASE ~(j <= n) /\ k <= n
        BY <3>2, <3>4, <3>5, <3>6, <4>3
      <4>4. CASE ~(j <= n) /\ ~(k <= n)
        <5>1. j - n = k - n
          BY <3>2, <3>4, <3>5, <3>6, <4>4
        <5> QED
          BY <3>2, <5>1
      <4> QED
        BY <4>1, <4>2, <4>3, <4>4
    <3> QED
      BY <3>3, <3>6 DEF IsInjective, q
  <2> QED
    BY <2>1, <2>2, <2>3 DEF NoLeak
<1> QED
  BY <1>1, ServerInvariant, PTL

(* TurnHeld, for any number of players: whoever leaves, joins or guesses,  *)
(* the turn is with a player who is there (wordsrv.c:119-129, 166-174,     *)
(* 453-455).                                                               *)
THEOREM TurnCorrect == Spec => []TurnHeld
<1>1. ServerInv => TurnHeld
  BY DEF ServerInv, TurnInv, TurnHeld
<1> QED
  BY <1>1, ServerInvariant, PTL

(* NamelessDoNotPlay, for any number of newcomers: they have no turn and   *)
(* are told nothing of the game (wordsrv.c:266-271).                       *)
THEOREM NewcomersCorrect == Spec => []NamelessDoNotPlay
<1>1. ServerInv => NamelessDoNotPlay
  <2> SUFFICES ASSUME ServerInv, NEW f \in ToSet(new_players)
               PROVE  f # turn /\ f \notin knows_turn \cup knows_game
    BY DEF NamelessDoNotPlay
  <2>1. f \notin ToSet(head) /\ f \in Fd
    BY Members DEF ServerInv, ListsInv
  <2> QED
    BY <2>1, Members DEF ServerInv, ToldInv
<1> QED
  BY <1>1, ServerInvariant, PTL

(* StaysUp, for any number of players, names and guesses, cut and joined   *)
(* in any way on the network: as long as nobody leaves and no read finds   *)
(* its buffer full without a newline in it - by a line that is too long,   *)
(* or by one that follows what a read has left - no handler ends the       *)
(* server (wordsrv.c:62, 70, 124, 138, 148, 167).  It may still wait: for  *)
(* a newline, or for a client that does not read.                          *)
THEOREM ServerSurvives == Spec => []StaysUp
<1>1. ServerInv => StaysUp
  <2> SUFFICES ASSUME ServerInv, srv # "up", ~(drops > 0)
               PROVE  \E f \in Fd : Overlong(f)
    BY DEF StaysUp
  <2>1. drops = 0
    BY FdAssumption DEF ServerInv, ServerTypeOK
  <2> QED
    BY <2>1 DEF ServerInv, CalmInv
<1> QED
  BY <1>1, ServerInvariant, PTL

(* The composed server plays Hangman: between its sockets, its call stack  *)
(* and the clients that leave in the middle of a handler, no guess is      *)
(* taken after the game is over and no game is replaced before it is       *)
(* (wordsrv.c:318-400, gameplay.c:46-78).                                  *)
THEOREM ServerPlaysHangman == Spec => HangmanSpec
<1>1. Init => InitGame
  BY DEF Init
<1>2. Spec => [][GameNext]_game
  BY ServerInvariant, NextServerInv, PTL DEF Spec
<1> QED
  BY <1>1, <1>2, GameIsHangman, PTL DEF Spec

-----------------------------------------------------------------------------
(* Everybody is told. *)

(* The next field of a node, in the list or freed. *)
Ptr(x) == IF x \in ToSet(head) THEN Next_in(head, x) ELSE stale[x]

(* The nodes a loop comes to that goes on from node c: those in every set  *)
(* that has c and the next of each of its nodes.                           *)
Reach(c, f) == \A S \in SUBSET Fd :
                 c \in S /\ (\A x \in S : Ptr(x) \in S \cup {NoFd}) => f \in S

(* The loop of step t will come to f. *)
WillCome(t, f) == t.fd = Start \/ (t.fd \in Fd /\ Reach(t.fd, f))

(* f will be told whose turn it is by t or what t calls. *)
TellsTurn(t, f) ==
  \/ t.op \in {"announce_turn", "join_status", "disconnect"}
  \/ t.op \in {"tell_others", "next_tell_others"} /\ f # turn /\ WillCome(t, f)

(* f will be sent the board by t, or is what t disconnects. *)
TellsGame(t, f) ==
  \/ t.op \in {"status", "next_status"} /\ WillCome(t, f)
  \/ t.op \in {"join_status", "disconnect"} /\ t.fd = f

TurnTold == \A f \in ToSet(head) :
              f \in knows_turn \/ \E k \in 1..Len(todo) : TellsTurn(todo[k], f)
GameTold == \A f \in ToSet(head) :
              f \in knows_game \/ \E k \in 1..Len(todo) : TellsGame(todo[k], f)

(* A new game is shown after it has been started. *)
BoardFollows(q) == \A k \in 1..Len(q) : q[k].op = "init_game" =>
              \E m \in 1..Len(q) : k < m /\ q[m] = Status

(* The node whose old next field a loop goes on with has been freed by     *)
(* then.                                                                   *)
Nexts == {"next_text", "next_status", "next_tell_others", "next_tell_losers"}
Freed(q) == \A k \in 1..Len(q) : q[k].op \in Nexts =>
              \/ q[k].fd \notin ToSet(head)
              \/ \E j \in 1..Len(q) : j < k /\ q[j] = Task("disconnect", q[k].fd)

InformInv == TurnTold /\ GameTold /\ BoardFollows(todo) /\ Freed(todo)

LEMMA PtrType ==
  ASSUME ServerInv, NEW x \in Fd
  PROVE  Ptr(x) \in Fd \cup {NoFd}
<1>1. CASE x \in ToSet(head)
  <2>1. Next_in(head, x) \in ToSet(head) \cup {NoFd}
    BY <1>1, NextInType DEF ServerInv, ServerTypeOK
  <2> QED
    BY <1>1, <2>1, Members DEF Ptr
<1>2. CASE x \notin ToSet(head)
  BY <1>2 DEF Ptr, ServerInv, ServerTypeOK
<1> QED
  BY <1>1, <1>2

(* A loop that stands at another node comes to f from the next one. *)
LEMMA ReachNext ==
  ASSUME ServerInv, NEW c \in Fd, NEW f, Reach(c, f), c # f
  PROVE  \E n \in Fd : Ptr(c) = n /\ Reach(n, f)
<1>1. Ptr(c) \in Fd
  <2> SUFFICES ASSUME Ptr(c) = NoFd PROVE FALSE
    BY PtrType
  <2>1. f \in {c}
    BY DEF Reach
  <2> QED
    BY <2>1
<1>2. PICK n \in Fd : n = Ptr(c)
  BY <1>1
<1>3. ASSUME NEW S \in SUBSET Fd, n \in S, \A x \in S : Ptr(x) \in S \cup {NoFd}
      PROVE  f \in S
  <2>1. \A x \in S \cup {c} : Ptr(x) \in (S \cup {c}) \cup {NoFd}
    BY <1>2, <1>3
  <2>2. S \cup {c} \in SUBSET Fd
    OBVIOUS
  <2>3. f \in S \cup {c}
    <3> PICK T : T = S \cup {c}
      OBVIOUS
    <3> QED
      BY <2>1, <2>2 DEF Reach
  <2> QED
    BY <2>3
<1>4. Reach(n, f)
  BY <1>3 DEF Reach
<1> QED
  BY <1>2, <1>4

(* A loop that begins at the head of the list comes to every player. *)
LEMMA ReachAll ==
  ASSUME ServerInv, NEW f \in ToSet(head)
  PROVE  First(head) \in Fd /\ Reach(First(head), f)
<1>1. /\ head \in Seq(Fd) /\ IsInjective(head) /\ Len(head) \in Nat
      /\ DOMAIN head = 1..Len(head)
  BY DEF ServerInv, ServerTypeOK, ListsInv
<1>2. PICK m \in 1..Len(head) : head[m] = f
  BY <1>1 DEF ToSet
<1>3. First(head) = head[1] /\ head[1] \in Fd
  BY <1>1, <1>2 DEF First
<1>4. ASSUME NEW S \in SUBSET Fd, head[1] \in S,
             \A x \in S : Ptr(x) \in S \cup {NoFd}
      PROVE  f \in S
  <2> DEFINE B == {k \in 1..Len(head) : head[k] \notin S}
  <2> SUFFICES ASSUME B # {} PROVE FALSE
    BY <1>2
  <2>1. B \in SUBSET Nat
    OBVIOUS
  <2>2. \E b \in B : \A l \in B : b <= l
    <3> HIDE DEF B
    <3> QED
      BY <2>1, LeastElement
  <2>3. PICK b \in B : \A l \in B : b <= l
    BY <2>2
  <2>4. b \in 1..Len(head) /\ head[b] \notin S /\ b # 1
    BY <1>4
  <2>5. b - 1 \in 1..Len(head) /\ b - 1 < Len(head) /\ (b - 1) + 1 = b
    BY <1>1, <2>4
  <2>6. head[b - 1] \in S
    <3>1. b - 1 \notin B
      BY <2>3, <2>4
    <3> QED
      BY <2>5, <3>1
  <2>7. head[b - 1] \in ToSet(head) /\ Next_in(head, head[b - 1]) = head[b]
    <3> PICK p : p = b - 1
      OBVIOUS
    <3> QED
      BY <1>1, <2>5, NextAt
  <2>8. head[b] \in S \cup {NoFd}
    BY <1>4, <2>6, <2>7 DEF Ptr
  <2>9. head[b] \in Fd /\ NoFd \notin Fd
    BY <1>1, <2>4, Members
  <2> QED
    BY <2>4, <2>8, <2>9
<1> QED
  BY <1>3, <1>4 DEF Reach

(* From the node a loop stands at it will come to f. *)
LEMMA WillComeFromCurrent ==
  ASSUME ServerInv, NEW f \in ToSet(head), WillCome(Head(todo), f)
  PROVE  Current \in Fd /\ Reach(Current, f)
<1>1. CASE Head(todo).fd = Start
  BY <1>1, ReachAll DEF Current
<1>2. CASE Head(todo).fd # Start
  BY <1>2 DEF Current, WillCome
<1> QED
  BY <1>1, <1>2

(* The list and the freed nodes stay. *)
LEMMA SameWay ==
  ASSUME head' = head, stale' = stale, NEW t, NEW f
  PROVE  WillCome(t, f)' <=> WillCome(t, f)
  BY DEF WillCome, Reach, Ptr

(* When a node is unlinked, its next field stays what it was, and the node *)
(* before it gets it: the loops still come to all the others.              *)
LEMMA ReachWithout ==
  ASSUME ServerInv, NEW g \in Fd, head' = Without(head, g),
         stale' = IF g \in ToSet(head) THEN [stale EXCEPT ![g] = Next_in(head, g)]
                                       ELSE stale,
         NEW c, NEW f, f # g, Reach(c, f)
  PROVE  Reach(c, f)'
<1>1. CASE g \notin ToSet(head)
  <2>1. head' = head /\ stale' = stale
    BY <1>1 DEF Without
  <2> QED
    BY <2>1 DEF Reach, Ptr
<1>2. CASE g \in ToSet(head)
  <2>1. /\ head \in Seq(Fd) /\ IsInjective(head) /\ NoFd \notin Fd
        /\ stale \in [Fd -> Fd \cup {NoFd}]
    BY Members DEF ServerInv, ServerTypeOK, ListsInv
  <2>2. ToSet(head') = ToSet(head) \ {g}
    BY <2>1, WithoutType
  <2>3. ASSUME NEW x \in Fd
        PROVE  Ptr(x)' = IF x \in ToSet(head) \ {g} /\ Ptr(x) = g
                         THEN Ptr(g) ELSE Ptr(x)
    <3>1. CASE x \in ToSet(head) \ {g}
      <4>1. Ptr(x)' = Next_in(head', x)
        BY <2>2, <3>1 DEF Ptr
      <4>2. Next_in(Without(head, g), x) =
              IF Next_in(head, x) = g THEN Next_in(head, g) ELSE Next_in(head, x)
        BY <1>2, <2>1, <3>1, NextWithout
      <4> QED
        BY <1>2, <3>1, <4>1, <4>2 DEF Ptr
    <3>2. CASE x \notin ToSet(head) \ {g}
      <4>1. Ptr(x)' = stale'[x]
        BY <2>2, <3>2 DEF Ptr
      <4>2. CASE x = g
        BY <1>2, <2>1, <4>1, <4>2 DEF Ptr
      <4>3. CASE x # g
        BY <1>2, <2>1, <3>2, <4>1, <4>3 DEF Ptr
      <4> QED
        BY <3>2, <4>2, <4>3
    <3> QED
      BY <3>1, <3>2
  <2>4. ASSUME NEW S \in SUBSET Fd, c \in S,
               \A x \in S : Ptr(x)' \in S \cup {NoFd}
        PROVE  f \in S
    <3> DEFINE T == S \cup {y \in {g} : \E x \in S : Ptr(x) = g}
    <3>1. T \in SUBSET Fd /\ c \in T
      BY <2>4
    <3>2. ASSUME NEW x \in S PROVE Ptr(x) \in T \cup {NoFd}
      <4>1. CASE Ptr(x) = g
        BY <4>1
      <4>2. CASE Ptr(x) # g
        BY <2>3, <2>4, <4>2
      <4> QED
        BY <4>1, <4>2
    <3>3. ASSUME NEW x \in S, Ptr(x) = g PROVE Ptr(g) \in T \cup {NoFd}
      <4>1. CASE x \in ToSet(head) \ {g}
        BY <2>3, <2>4, <3>3, <4>1
      <4>2. CASE x \notin ToSet(head) \ {g}
        <5>1. Ptr(x)' = g
          BY <2>3, <3>3, <4>2
        <5>2. g \in S
          BY <2>1, <2>4, <5>1
        <5> QED
          BY <3>2, <5>2
      <4> QED
        BY <4>1, <4>2
    <3>4. \A x \in T : Ptr(x) \in T \cup {NoFd}
      BY <3>2, <3>3
    <3> HIDE DEF T
    <3>5. f \in T
      BY <3>1, <3>4 DEF Reach
    <3> QED
      BY <3>5 DEF T
  <2>5. \A S \in SUBSET Fd :
          c \in S /\ (\A x \in S : Ptr(x)' \in S \cup {NoFd}) => f \in S
    BY <2>4
  <2> QED
    BY <2>5 DEF Reach
<1> QED
  BY <1>1, <1>2

LEMMA BoardFollowsKept ==
  ASSUME NEW q \in Seq(StepType), q # <<>>, NEW ts \in Seq(StepType),
         NEW r, r = ts \o Tail(q), BoardFollows(q), BoardFollows(ts)
  PROVE  BoardFollows(r)
<1> SUFFICES ASSUME NEW k \in 1..Len(r), r[k].op = "init_game"
             PROVE  \E m \in 1..Len(r) : k < m /\ r[m] = Status
  BY DEF BoardFollows
<1>1. Len(ts) \in Nat /\ Len(q) \in Nat
  OBVIOUS
<1>2. CASE k \in 1..Len(ts)
  <2>1. r[k] = ts[k]
    BY <1>2, Replaced
  <2>2. PICK m \in 1..Len(ts) : k < m /\ ts[m] = Status
    BY <1>2, <2>1 DEF BoardFollows
  <2>3. m \in 1..Len(r) /\ r[m] = Status
    BY <2>2, Replaced
  <2> QED
    BY <2>2, <2>3
<1>3. CASE k \notin 1..Len(ts)
  <2>1. /\ k > Len(ts) /\ k - Len(ts) + 1 \in 2..Len(q)
        /\ r[k] = q[k - Len(ts) + 1]
    BY <1>3, Replaced
  <2>2. PICK i : i = k - Len(ts) + 1
    OBVIOUS
  <2>3. i \in 1..Len(q) /\ i >= 2 /\ q[i].op = "init_game"
    BY <2>1, <2>2
  <2>4. PICK m \in 1..Len(q) : i < m /\ q[m] = Status
    BY <2>3 DEF BoardFollows
  <2>5. m \in 2..Len(q) /\ Len(ts) + m - 1 > k
    BY <1>1, <2>2, <2>3, <2>4
  <2>6. Len(ts) + m - 1 \in 1..Len(r) /\ r[Len(ts) + m - 1] = Status
    BY <2>4, <2>5, Replaced
  <2> QED
    BY <2>5, <2>6
<1> QED
  BY <1>2, <1>3

LEMMA FreedKept ==
  ASSUME NEW q \in Seq(StepType), q # <<>>, NEW ts \in Seq(StepType),
         NEW r, r = ts \o Tail(q), Freed(q), Freed(ts)',
         ToSet(head') \subseteq ToSet(head),
         q[1].op = "disconnect" => q[1].fd \notin ToSet(head')
  PROVE  Freed(r)'
<1> SUFFICES ASSUME NEW k \in 1..Len(r), r[k].op \in Nexts
             PROVE  \/ r[k].fd \notin ToSet(head')
                    \/ \E j \in 1..Len(r) :
                         j < k /\ r[j] = Task("disconnect", r[k].fd)
  BY DEF Freed
<1>1. Len(ts) \in Nat /\ Len(q) \in Nat
  OBVIOUS
<1>2. CASE k \in 1..Len(ts)
  <2>1. r[k] = ts[k]
    BY <1>2, Replaced
  <2>2. CASE ts[k].fd \notin ToSet(head')
    BY <2>1, <2>2
  <2>3. CASE \E j \in 1..Len(ts) : j < k /\ ts[j] = Task("disconnect", ts[k].fd)
    <3>1. PICK j \in 1..Len(ts) : j < k /\ ts[j] = Task("disconnect", ts[k].fd)
      BY <2>3
    <3>2. j \in 1..Len(r) /\ r[j] = ts[j]
      BY Replaced
    <3> QED
      BY <2>1, <3>1, <3>2
  <2> QED
    BY <1>2, <2>1, <2>2, <2>3 DEF Freed
<1>3. CASE k \notin 1..Len(ts)
  <2>1. /\ k > Len(ts) /\ k - Len(ts) + 1 \in 2..Len(q)
        /\ r[k] = q[k - Len(ts) + 1]
    BY <1>3, Replaced
  <2>2. PICK i : i = k - Len(ts) + 1
    OBVIOUS
  <2>3. i \in 1..Len(q) /\ i >= 2 /\ r[k] = q[i]
    BY <2>1, <2>2
  <2>4. CASE q[i].fd \notin ToSet(head)
    BY <2>3, <2>4
  <2>5. CASE \E j \in 1..Len(q) : j < i /\ q[j] = Task("disconnect", q[i].fd)
    <3>1. PICK j \in 1..Len(q) : j < i /\ q[j] = Task("disconnect", q[i].fd)
      BY <2>5
    <3>2. CASE j = 1
      <4>1. q[1].op = "disconnect" /\ q[1].fd = q[i].fd
        BY <3>1, <3>2 DEF Task
      <4> QED
        BY <2>3, <4>1
    <3>3. CASE j # 1
      <4>1. j \in 2..Len(q) /\ Len(ts) + j - 1 < k
        BY <1>1, <2>2, <2>3, <3>1, <3>3
      <4>2. Len(ts) + j - 1 \in 1..Len(r) /\ r[Len(ts) + j - 1] = q[j]
        BY <4>1, Replaced
      <4> QED
        BY <2>3, <3>1, <4>1, <4>2
    <3> QED
      BY <3>2, <3>3
  <2> QED
    BY <2>3, <2>4, <2>5 DEF Freed
<1> QED
  BY <1>2, <1>3

TurnComing(f) == \E k \in 1..Len(todo) : TellsTurn(todo[k], f)
GameComing(f) == \E k \in 1..Len(todo) : TellsGame(todo[k], f)

(* A step of a handler: who would have been told by it is told, or will be *)
(* by what it leaves to be done.                                           *)
LEMMA InformedStep ==
  ASSUME ServerInv, InformInv, todo # <<>>,
         NEW ts \in Seq(StepType), Continue(ts),
         ToSet(head') \subseteq ToSet(head),
         \A f \in ToSet(head') :
           /\ f \in knows_turn => f \in knows_turn'
           /\ f \in knows_game => f \in knows_game' \/ GameComing(f)'
           /\ TellsTurn(todo[1], f) =>
                f \in knows_turn' \/ \E k \in 1..Len(ts) : TellsTurn(ts[k], f)'
           /\ TellsGame(todo[1], f) =>
                f \in knows_game' \/ \E k \in 1..Len(ts) : TellsGame(ts[k], f)'
           /\ \A t \in StepType : TellsTurn(t, f) => TellsTurn(t, f)'
           /\ \A t \in StepType : TellsGame(t, f) => TellsGame(t, f)',
         BoardFollows(ts), Freed(ts)',
         todo[1].op = "disconnect" => todo[1].fd \notin ToSet(head')
  PROVE  InformInv'
<1>1. PICK q, r : q = todo /\ r = todo'
  OBVIOUS
<1>2. q \in Seq(StepType) /\ q # <<>> /\ r = ts \o Tail(q)
  BY <1>1, Members DEF Continue
<1>3. /\ \A k \in 1..Len(ts) : k \in 1..Len(r) /\ r[k] = ts[k]
      /\ \A m \in 2..Len(q) : \E i \in 1..Len(r) : r[i] = q[m]
  <2>1. /\ \A k \in 1..Len(ts) : k \in 1..Len(r) /\ r[k] = ts[k]
        /\ \A m \in 2..Len(q) : /\ Len(ts) + m - 1 \in 1..Len(r)
                                /\ r[Len(ts) + m - 1] = q[m]
    BY <1>2, Replaced
  <2> QED
    BY <2>1
<1>4. BoardFollows(r)
  BY <1>1, <1>2, BoardFollowsKept DEF InformInv
<1>5. Freed(r)'
  BY <1>1, <1>2, FreedKept DEF InformInv
<1>6. ASSUME NEW f \in ToSet(head'), f \notin knows_turn' PROVE TurnComing(f)'
  <2> SUFFICES ASSUME f \notin knows_turn PROVE TurnComing(f)'
    BY <1>6
  <2>1. f \in ToSet(head)
    BY <1>6
  <2>2. PICK k \in 1..Len(q) : TellsTurn(q[k], f)
    BY <1>1, <2>1 DEF InformInv, TurnTold
  <2>3. CASE k = 1
    <3>1. TellsTurn(todo[1], f)
      BY <1>1, <2>2, <2>3
    <3>2. PICK i \in 1..Len(ts) : TellsTurn(ts[i], f)'
      BY <1>6, <3>1
    <3>3. i \in 1..Len(r) /\ r[i] = ts[i]
      BY <1>3
    <3> QED
      BY <1>1, <3>2, <3>3 DEF TurnComing
  <2>4. CASE k # 1
    <3>1. k \in 2..Len(q) /\ q[k] \in StepType
      BY <1>2, <2>4
    <3>2. PICK i \in 1..Len(r) : r[i] = q[k]
      BY <1>3, <3>1
    <3>3. TellsTurn(q[k], f)'
      BY <1>6, <2>2, <3>1
    <3> QED
      BY <1>1, <3>2, <3>3 DEF TurnComing
  <2> QED
    BY <2>3, <2>4
<1>7. ASSUME NEW f \in ToSet(head'), f \notin knows_game' PROVE GameComing(f)'
  <2> SUFFICES ASSUME f \notin knows_game PROVE GameComing(f)'
    BY <1>7
  <2>1. f \in ToSet(head)
    BY <1>7
  <2>2. PICK k \in 1..Len(q) : TellsGame(q[k], f)
    BY <1>1, <2>1 DEF InformInv, GameTold
  <2>3. CASE k = 1
    <3>1. TellsGame(todo[1], f)
      BY <1>1, <2>2, <2>3
    <3>2. PICK i \in 1..Len(ts) : TellsGame(ts[i], f)'
      BY <1>7, <3>1
    <3>3. i \in 1..Len(r) /\ r[i] = ts[i]
      BY <1>3
    <3> QED
      BY <1>1, <3>2, <3>3 DEF GameComing
  <2>4. CASE k # 1
    <3>1. k \in 2..Len(q) /\ q[k] \in StepType
      BY <1>2, <2>4
    <3>2. PICK i \in 1..Len(r) : r[i] = q[k]
      BY <1>3, <3>1
    <3>3. TellsGame(q[k], f)'
      BY <1>7, <2>2, <3>1
    <3> QED
      BY <1>1, <3>2, <3>3 DEF GameComing
  <2> QED
    BY <2>3, <2>4
<1>8. TurnTold' /\ GameTold'
  BY <1>6, <1>7 DEF TurnTold, GameTold, TurnComing, GameComing
<1>9. BoardFollows(todo)' /\ Freed(todo)'
  BY <1>1, <1>4, <1>5 DEF BoardFollows, Freed
<1> QED
  BY <1>8, <1>9 DEF InformInv

(* Such a step that leaves the players and the turn alone.                 *)
LEMMA InformedCall ==
  ASSUME ServerInv, InformInv, todo # <<>>, todo[1].op # "disconnect",
         head' = head, stale' = stale, turn' = turn,
         knows_turn \subseteq knows_turn', knows_game \subseteq knows_game',
         NEW ts \in Seq(StepType), Continue(ts), BoardFollows(ts), Freed(ts),
         \A f \in ToSet(head) :
           /\ TellsTurn(todo[1], f) =>
                f \in knows_turn' \/ \E k \in 1..Len(ts) : TellsTurn(ts[k], f)
           /\ TellsGame(todo[1], f) =>
                f \in knows_game' \/ \E k \in 1..Len(ts) : TellsGame(ts[k], f)
  PROVE  InformInv'
<1>1. ASSUME NEW t, NEW f
      PROVE  /\ TellsTurn(t, f)' <=> TellsTurn(t, f)
             /\ TellsGame(t, f)' <=> TellsGame(t, f)
  BY SameWay DEF TellsTurn, TellsGame
<1>2. Freed(ts)'
  BY DEF Freed
<1>3. \A f \in ToSet(head') :
           /\ f \in knows_turn => f \in knows_turn'
           /\ f \in knows_game => f \in knows_game' \/ GameComing(f)'
           /\ TellsTurn(todo[1], f) =>
                f \in knows_turn' \/ \E k \in 1..Len(ts) : TellsTurn(ts[k], f)'
           /\ TellsGame(todo[1], f) =>
                f \in knows_game' \/ \E k \in 1..Len(ts) : TellsGame(ts[k], f)'
           /\ \A t \in StepType : TellsTurn(t, f) => TellsTurn(t, f)'
           /\ \A t \in StepType : TellsGame(t, f) => TellsGame(t, f)'
  BY <1>1
<1> QED
  BY <1>2, <1>3, InformedStep

(* A loop that has written to one player goes on to those who still are to *)
(* be told.                                                                *)
LEMMA LoopGoesOn ==
  ASSUME ServerInv, Current \in ToSet(head), NEW f \in ToSet(head), f # Current,
         WillCome(Head(todo), f)
  PROVE  Next_in(head, Current) \in Fd /\ Reach(Next_in(head, Current), f)
<1>1. PICK c : c = Current
  OBVIOUS
<1>2. c \in Fd /\ Reach(c, f)
  BY <1>1, WillComeFromCurrent
<1>3. PICK n \in Fd : Ptr(c) = n /\ Reach(n, f)
  BY <1>1, <1>2, ReachNext
<1>4. n = Next_in(head, Current)
  BY <1>1, <1>3 DEF Ptr
<1> QED
  BY <1>3, <1>4

(* The rest of a loop. *)
LEMMA LoopSteps ==
  ASSUME NEW op \in Loops, NEW n \in Fd \cup {NoFd}, NEW ts, ts = Loop(op, n)
  PROVE  /\ ts \in Seq(StepType) /\ BoardFollows(ts) /\ Freed(ts)
         /\ n \in Fd => 1 \in 1..Len(ts) /\ ts[1] = Task(op, n)
<1>1. Task(op, n) \in StepType /\ NoFd \notin Fd
  BY FdAssumption DEF Task, StepType, Op, Loops, NoFd
<1>2. Task(op, n).op = op /\ op # "init_game" /\ op \notin Nexts
  BY DEF Task, Loops, Nexts
<1>3. CASE n = NoFd
  BY <1>1, <1>3 DEF Loop, BoardFollows, Freed
<1>4. CASE n # NoFd
  <2>1. PICK t : t = Task(op, n)
    OBVIOUS
  <2>2. ts = <<t>>
    BY <1>4, <2>1 DEF Loop
  <2>3. ts \in Seq(StepType) /\ Len(ts) = 1 /\ ts[1] = t
    BY <1>1, <2>1, <2>2
  <2>4. BoardFollows(ts) /\ Freed(ts)
    BY <1>2, <2>1, <2>3 DEF BoardFollows, Freed
  <2> QED
    BY <2>1, <2>3, <2>4
<1> QED
  BY <1>3, <1>4

(* A client is disconnected before the step u. *)
LEMMA DisconnectFirst ==
  ASSUME NEW c \in Fd, NEW u \in StepType, u.op # "init_game",
         u.op \in Nexts => u.fd = c, NEW ts, ts = <<Task("disconnect", c), u>>
  PROVE  /\ ts \in Seq(StepType) /\ BoardFollows(ts) /\ Freed(ts)
         /\ 1 \in 1..Len(ts) /\ ts[1] = Task("disconnect", c)
         /\ 2 \in 1..Len(ts) /\ ts[2] = u
<1>1. PICK t : t = Task("disconnect", c)
  OBVIOUS
<1>2. t \in StepType /\ t.op = "disconnect" /\ t.op \notin Nexts
  BY <1>1 DEF Task, StepType, Op, Nexts
<1>3. ts \in Seq(StepType) /\ Len(ts) = 2 /\ ts[1] = t /\ ts[2] = u
  BY <1>1, <1>2
<1>4. \A k \in 1..2 : k = 1 \/ k = 2
  OBVIOUS
<1>5. BoardFollows(ts)
  BY <1>2, <1>3, <1>4 DEF BoardFollows
<1>6. Freed(ts)
  BY <1>1, <1>2, <1>3, <1>4 DEF Freed
<1> QED
  BY <1>1, <1>3, <1>5, <1>6

(* One step, or none, that is neither a new game nor the rest of a loop    *)
(* whose node was freed.                                                   *)
LEMMA OneStep ==
  ASSUME NEW t \in StepType, t.op # "init_game", t.op \notin Nexts,
         NEW ts, ts = <<t>>
  PROVE  /\ ts \in Seq(StepType) /\ BoardFollows(ts) /\ Freed(ts)
         /\ 1 \in 1..Len(ts) /\ ts[1] = t
<1>1. ts \in Seq(StepType) /\ Len(ts) = 1 /\ ts[1] = t
  OBVIOUS
<1> QED
  BY <1>1 DEF BoardFollows, Freed

LEMMA NoStep == /\ <<>> \in Seq(StepType) /\ BoardFollows(<<>>) /\ Freed(<<>>)
  BY DEF BoardFollows, Freed

(* What the steps of the calls leave alone. *)
LEMMA CallFrame ==
  ASSUME UNCHANGED <<game, lists, rset, stale, srv, net, bounds>>
  PROVE  head' = head /\ stale' = stale /\ turn' = turn
  BY DEF lists

LEMMA DieInformed ==
  ASSUME InformInv, UNCHANGED <<lists, todo, stale, told>>
  PROVE  InformInv'
<1>1. /\ head' = head /\ stale' = stale /\ turn' = turn /\ todo' = todo
      /\ knows_turn' = knows_turn /\ knows_game' = knows_game
  BY DEF lists, told
<1>2. ASSUME NEW t, NEW f
      PROVE  /\ TellsTurn(t, f)' <=> TellsTurn(t, f)
             /\ TellsGame(t, f)' <=> TellsGame(t, f)
  BY <1>1, SameWay DEF TellsTurn, TellsGame
<1>3. PICK q : q = todo
  OBVIOUS
<1>4. \A f \in ToSet(head) :
        /\ f \in knows_turn \/ \E k \in 1..Len(q) : TellsTurn(q[k], f)
        /\ f \in knows_game \/ \E k \in 1..Len(q) : TellsGame(q[k], f)
  BY <1>3 DEF InformInv, TurnTold, GameTold
<1>5. \A f \in ToSet(head) :
        /\ f \in knows_turn' \/ \E k \in 1..Len(q) : TellsTurn(q[k], f)'
        /\ f \in knows_game' \/ \E k \in 1..Len(q) : TellsGame(q[k], f)'
  BY <1>1, <1>2, <1>4
<1>6. TurnTold' /\ GameTold'
  BY <1>1, <1>3, <1>5 DEF TurnTold, GameTold
<1>7. BoardFollows(todo)' /\ Freed(todo)'
  BY <1>1 DEF InformInv, BoardFollows, Freed
<1> QED
  BY <1>6, <1>7 DEF InformInv

LEMMA LoopEndsInformed ==
  ASSUME ServerInv, InformInv, todo # <<>>, NEW op \in Loops, LoopEnds(op)
  PROVE  InformInv'
<1>1. /\ Running(op) /\ Current = NoFd /\ Continue(<<>>)
      /\ UNCHANGED <<game, lists, rset, stale, srv, net, told, bounds>>
  BY DEF LoopEnds
<1>2. /\ op \in Playing /\ op \notin {"disconnect", "announce_turn", "join_status"}
  BY DEF Loops, Playing, Op
<1>3. Head(todo) = todo[1] /\ todo[1].op = op
  BY <1>1, <1>2, RunningOK
<1>4. head' = head /\ stale' = stale /\ turn' = turn
      /\ knows_turn' = knows_turn /\ knows_game' = knows_game
  BY <1>1, CallFrame DEF told, lists
<1>5. \A f \in ToSet(head) : ~WillCome(todo[1], f)
  <2>1. NoFd \notin Fd
    BY Members
  <2> QED
    BY <1>1, <1>3, <2>1, WillComeFromCurrent
<1>6. \A f \in ToSet(head) : ~TellsTurn(todo[1], f) /\ ~TellsGame(todo[1], f)
  BY <1>2, <1>3, <1>5 DEF TellsTurn, TellsGame
<1> QED
  BY <1>1, <1>2, <1>3, <1>4, <1>6, NoStep, InformedCall

LEMMA LoopOkInformed ==
  ASSUME ServerInv, InformInv, todo # <<>>, NEW op \in Loops, LoopWriteOk(op),
         knows_turn \subseteq knows_turn', knows_game \subseteq knows_game',
         op = "tell_others" => Current \in knows_turn',
         op = "status" => Current \in knows_game'
  PROVE  InformInv'
<1>1. /\ Running(op) /\ Current # NoFd /\ CanWrite(Current)
      /\ Continue(Loop(op, Next_in(head, Current)))
      /\ UNCHANGED <<game, lists, rset, stale, srv, net, bounds>>
  BY DEF LoopWriteOk
<1>2. /\ op \in Playing /\ op \notin {"disconnect", "announce_turn", "join_status",
                                     "next_status", "next_tell_others"}
  BY DEF Loops, Playing, Op
<1>3. Head(todo) = todo[1] /\ todo[1].op = op /\ StepOK(todo[1])
  BY <1>1, <1>2, RunningOK
<1>4. Current \in ToSet(head)
  BY <1>1, <1>3, CurrentType DEF CanWrite
<1>5. PICK n \in Fd \cup {NoFd} : n = Next_in(head, Current)
  <2> PICK c : c = Current
    OBVIOUS
  <2>1. Next_in(head, c) \in ToSet(head) \cup {NoFd}
    BY <1>4, NextInType DEF ServerInv, ServerTypeOK
  <2> QED
    BY <2>1, Members
<1>6. PICK ts : ts = Loop(op, n)
  OBVIOUS
<1>7. /\ Continue(ts) /\ ts \in Seq(StepType) /\ BoardFollows(ts) /\ Freed(ts)
      /\ n \in Fd => 1 \in 1..Len(ts) /\ ts[1] = Task(op, n)
  <2>1. Continue(ts)
    BY <1>1, <1>5, <1>6
  <2> QED
    BY <1>6, <2>1, LoopSteps
<1>8. ASSUME NEW f \in ToSet(head), f # Current, WillCome(todo[1], f)
      PROVE  1 \in 1..Len(ts) /\ ts[1].op = op /\ WillCome(ts[1], f)
  <2>1. n \in Fd /\ Reach(n, f)
    BY <1>3, <1>4, <1>5, <1>8, LoopGoesOn
  <2> QED
    BY <1>7, <2>1 DEF WillCome, Task
<1>9. ASSUME NEW f \in ToSet(head), TellsTurn(todo[1], f)
      PROVE  f \in knows_turn' \/ \E k \in 1..Len(ts) : TellsTurn(ts[k], f)
  <2>1. op = "tell_others" /\ f # turn /\ WillCome(todo[1], f)
    BY <1>2, <1>3, <1>9 DEF TellsTurn
  <2> QED
    BY <1>8, <2>1 DEF TellsTurn
<1>10. ASSUME NEW f \in ToSet(head), TellsGame(todo[1], f)
       PROVE  f \in knows_game' \/ \E k \in 1..Len(ts) : TellsGame(ts[k], f)
  <2>1. op = "status" /\ WillCome(todo[1], f)
    BY <1>2, <1>3, <1>10 DEF TellsGame
  <2> QED
    BY <1>8, <2>1 DEF TellsGame
<1>11. head' = head /\ stale' = stale /\ turn' = turn /\ todo[1].op # "disconnect"
  BY <1>1, <1>2, <1>3, CallFrame
<1> QED
  BY <1>7, <1>9, <1>10, <1>11, InformedCall

LEMMA LoopFailsInformed ==
  ASSUME ServerInv, InformInv, todo # <<>>, NEW op \in Loops, LoopWriteFails(op)
  PROVE  InformInv'
<1>1. Running(op) /\ Current # NoFd
  BY DEF LoopWriteFails
<1>2. /\ op \in Playing /\ op \notin {"disconnect", "announce_turn", "join_status",
                                     "next_status", "next_tell_others"}
  BY DEF Loops, Playing, Op
<1>3. Head(todo) = todo[1] /\ todo[1].op = op /\ StepOK(todo[1])
  BY <1>1, <1>2, RunningOK
<1>4. PICK c \in Fd : c = Current
  BY <1>1, <1>3, CurrentType
<1>5. CASE /\ Continue(<<Task("disconnect", Current), Task(GoOn[op], Current)>>)
           /\ UNCHANGED <<game, lists, rset, stale, srv, net, told, bounds>>
  <2>1. PICK u : u = Task(GoOn[op], c)
    OBVIOUS
  <2>2. /\ u \in StepType /\ u.op # "init_game" /\ u.fd = c
        /\ op = "status" => u.op = "next_status"
    <3>1. /\ GoOn[op] \in Op /\ GoOn[op] # "init_game"
          /\ op = "status" => GoOn[op] = "next_status"
      BY DEF GoOn, Loops, Op
    <3> QED
      BY <2>1, <3>1 DEF Task, StepType
  <2>3. PICK ts : ts = <<Task("disconnect", c), u>>
    OBVIOUS
  <2>4. Continue(ts)
    BY <1>4, <1>5, <2>1, <2>3
  <2>5. /\ ts \in Seq(StepType) /\ BoardFollows(ts) /\ Freed(ts)
        /\ 1 \in 1..Len(ts) /\ ts[1] = Task("disconnect", c)
        /\ 2 \in 1..Len(ts) /\ ts[2] = u
    BY <2>2, <2>3, DisconnectFirst
  <2>6. \A f : TellsTurn(ts[1], f)
    BY <2>5 DEF TellsTurn, Task
  <2>7. ASSUME NEW f \in ToSet(head), TellsGame(todo[1], f)
        PROVE  \E k \in 1..Len(ts) : TellsGame(ts[k], f)
    <3>1. op = "status" /\ WillCome(todo[1], f)
      BY <1>2, <1>3, <2>7 DEF TellsGame
    <3>2. Reach(c, f)
      BY <1>3, <1>4, <3>1, WillComeFromCurrent
    <3>3. TellsGame(ts[2], f)
      BY <2>2, <2>5, <3>1, <3>2 DEF TellsGame, WillCome
    <3> QED
      BY <2>5, <3>3
  <2>8. /\ head' = head /\ stale' = stale /\ turn' = turn
        /\ knows_turn' = knows_turn /\ knows_game' = knows_game
        /\ todo[1].op # "disconnect"
    BY <1>2, <1>3, <1>5 DEF told, lists
  <2> QED
    BY <2>4, <2>5, <2>6, <2>7, <2>8, InformedCall
<1>6. CASE BrokenPipe(Current)
  BY <1>6, DieInformed DEF BrokenPipe, Die
<1> QED
  BY <1>5, <1>6 DEF LoopWriteFails

LEMMA SkipTurnInformed ==
  ASSUME ServerInv, InformInv, todo # <<>>, NEW op \in {"tell_others", "tell_losers"},
         SkipTurn(op)
  PROVE  InformInv'
<1>1. /\ Running(op) /\ Current = turn /\ turn # NoFd
      /\ Continue(Loop(op, Next_in(head, Current)))
      /\ UNCHANGED <<game, lists, rset, stale, srv, net, told, bounds>>
  BY DEF SkipTurn
<1>2. /\ op \in Playing /\ op \in Loops
      /\ op \notin {"disconnect", "announce_turn", "join_status",
                    "next_status", "status", "next_tell_others"}
  BY DEF Loops, Playing, Op
<1>3. Head(todo) = todo[1] /\ todo[1].op = op
  BY <1>1, <1>2, RunningOK
<1>4. Current \in ToSet(head)
  BY <1>1, Members
<1>5. PICK n \in Fd \cup {NoFd} : n = Next_in(head, Current)
  <2> PICK c : c = Current
    OBVIOUS
  <2>1. Next_in(head, c) \in ToSet(head) \cup {NoFd}
    BY <1>4, NextInType DEF ServerInv, ServerTypeOK
  <2> QED
    BY <2>1, Members
<1>6. PICK ts : ts = Loop(op, n)
  OBVIOUS
<1>7. /\ Continue(ts) /\ ts \in Seq(StepType) /\ BoardFollows(ts) /\ Freed(ts)
      /\ n \in Fd => 1 \in 1..Len(ts) /\ ts[1] = Task(op, n)
  <2>1. Continue(ts)
    BY <1>1, <1>5, <1>6
  <2> QED
    BY <1>2, <1>6, <2>1, LoopSteps
<1>8. ASSUME NEW f \in ToSet(head), TellsTurn(todo[1], f)
      PROVE  \E k \in 1..Len(ts) : TellsTurn(ts[k], f)
  <2>1. op = "tell_others" /\ f # turn /\ WillCome(todo[1], f)
    BY <1>2, <1>3, <1>8 DEF TellsTurn
  <2>2. n \in Fd /\ Reach(n, f)
    BY <1>1, <1>3, <1>4, <1>5, <2>1, LoopGoesOn
  <2>3. TellsTurn(ts[1], f)
    BY <1>7, <2>1, <2>2 DEF TellsTurn, WillCome, Task
  <2> QED
    BY <1>7, <2>2, <2>3
<1>9. \A f \in ToSet(head) : ~TellsGame(todo[1], f)
  BY <1>2, <1>3 DEF TellsGame
<1>10. /\ head' = head /\ stale' = stale /\ turn' = turn
       /\ knows_turn' = knows_turn /\ knows_game' = knows_game
       /\ todo[1].op # "disconnect"
  BY <1>1, <1>2, <1>3 DEF told, lists
<1> QED
  BY <1>7, <1>8, <1>9, <1>10, InformedCall

LEMMA BroadcastInformed ==
  ASSUME ServerInv, InformInv, todo # <<>>, Broadcast
  PROVE  InformInv'
<1>1. PICK op \in {"text", "status"} :
        \/ LoopEnds(op)
        \/ /\ LoopWriteOk(op)
           /\ knows_game' = IF op = "status" THEN knows_game \cup {Current}
                                             ELSE knows_game
           /\ UNCHANGED knows_turn
        \/ LoopWriteFails(op)
  BY DEF Broadcast
<1>2. op \in Loops /\ op # "tell_others"
  BY DEF Loops
<1> QED
  BY <1>1, <1>2, LoopEndsInformed, LoopOkInformed, LoopFailsInformed

LEMMA TellOthersInformed ==
  ASSUME ServerInv, InformInv, todo # <<>>, TellOthers
  PROVE  InformInv'
<1>1. "tell_others" \in Loops
  BY DEF Loops
<1>2. CASE Die("crashed")
  BY <1>2, DieInformed DEF Die
<1>3. CASE LoopWriteOk("tell_others") /\ knows_turn' = knows_turn \cup {Current}
           /\ UNCHANGED knows_game
  BY <1>1, <1>3, LoopOkInformed
<1> QED
  BY <1>1, <1>2, <1>3, LoopEndsInformed, SkipTurnInformed, LoopFailsInformed
     DEF TellOthers

LEMMA TellLosersInformed ==
  ASSUME ServerInv, InformInv, todo # <<>>, TellLosers
  PROVE  InformInv'
<1>1. "tell_losers" \in Loops
  BY DEF Loops
<1>2. CASE LoopWriteOk("tell_losers") /\ UNCHANGED told
  BY <1>1, <1>2, LoopOkInformed DEF told
<1> QED
  BY <1>1, <1>2, LoopEndsInformed, SkipTurnInformed, LoopFailsInformed
     DEF TellLosers

(* The loop goes on where it would have without the disconnection: its     *)
(* node has been freed, and kept its next field.                           *)
LEMMA UseAfterFreeInformed ==
  ASSUME ServerInv, InformInv, todo # <<>>, UseAfterFree
  PROVE  InformInv'
<1>1. PICK op \in Loops :
        /\ Running(GoOn[op])
        /\ \/ /\ Continue(Loop(op, stale[Head(todo).fd]))
              /\ UNCHANGED <<game, lists, rset, stale, srv, net, told, bounds>>
           \/ Die("crashed")
  BY DEF UseAfterFree, Loops
<1>2. /\ GoOn[op] \in OfClient /\ GoOn[op] \in Playing /\ GoOn[op] \in Nexts
      /\ GoOn[op] \notin {"disconnect", "announce_turn", "join_status",
                          "status", "tell_others"}
      /\ GoOn[op] = "next_status" => op = "status"
      /\ GoOn[op] = "next_tell_others" => op = "tell_others"
  BY DEF GoOn, Loops, OfClient, Broken, Playing, Op, Nexts
<1>3. /\ StepOK(todo[1]) /\ Head(todo) = todo[1] /\ todo[1].op = GoOn[op]
  BY <1>1, <1>2, RunningOK
<1>4. PICK c \in Fd : c = todo[1].fd
  BY <1>2, <1>3 DEF StepOK
<1>5. c \notin ToSet(head)
  <2>1. 1 \in 1..Len(todo) /\ Len(todo) \in Nat
    BY HeadOp, Members
  <2>2. \A j \in 1..Len(todo) : ~(j < 1)
    OBVIOUS
  <2> QED
    BY <1>2, <1>3, <1>4, <2>1, <2>2 DEF InformInv, Freed
<1>6. CASE /\ Continue(Loop(op, stale[Head(todo).fd]))
           /\ UNCHANGED <<game, lists, rset, stale, srv, net, told, bounds>>
  <2>1. PICK n \in Fd \cup {NoFd} : n = stale[c]
    BY DEF ServerInv, ServerTypeOK
  <2>2. Ptr(c) = n
    BY <1>5, <2>1 DEF Ptr
  <2>3. PICK ts : ts = Loop(op, n)
    OBVIOUS
  <2>4. /\ Continue(ts) /\ ts \in Seq(StepType) /\ BoardFollows(ts) /\ Freed(ts)
        /\ n \in Fd => 1 \in 1..Len(ts) /\ ts[1] = Task(op, n)
    <3>1. Continue(ts)
      BY <1>3, <1>4, <1>6, <2>1, <2>3
    <3> QED
      BY <2>3, <3>1, LoopSteps
  <2>5. ASSUME NEW f \in ToSet(head), WillCome(todo[1], f)
        PROVE  1 \in 1..Len(ts) /\ ts[1].op = op /\ WillCome(ts[1], f)
    <3>1. Reach(c, f) /\ c # f
      BY <1>4, <1>5, <2>5, Members DEF WillCome
    <3>2. n \in Fd /\ Reach(n, f)
      BY <2>2, <3>1, ReachNext
    <3> QED
      BY <2>4, <3>2 DEF WillCome, Task
  <2>6. ASSUME NEW f \in ToSet(head), TellsTurn(todo[1], f)
        PROVE  \E k \in 1..Len(ts) : TellsTurn(ts[k], f)
    <3>1. op = "tell_others" /\ f # turn /\ WillCome(todo[1], f)
      BY <1>2, <1>3, <2>6 DEF TellsTurn
    <3> QED
      BY <2>5, <3>1 DEF TellsTurn
  <2>7. ASSUME NEW f \in ToSet(head), TellsGame(todo[1], f)
        PROVE  \E k \in 1..Len(ts) : TellsGame(ts[k], f)
    <3>1. op = "status" /\ WillCome(todo[1], f)
      BY <1>2, <1>3, <2>7 DEF TellsGame
    <3> QED
      BY <2>5, <3>1 DEF TellsGame
  <2>8. /\ head' = head /\ stale' = stale /\ turn' = turn
        /\ knows_turn' = knows_turn /\ knows_game' = knows_game
        /\ todo[1].op # "disconnect"
    BY <1>2, <1>3, <1>6 DEF told, lists
  <2> QED
    BY <2>4, <2>6, <2>7, <2>8, InformedCall
<1>7. CASE Die("crashed")
  BY <1>7, DieInformed DEF Die
<1> QED
  BY <1>1, <1>6, <1>7

LEMMA AnnounceInformed ==
  ASSUME ServerInv, InformInv, todo # <<>>, Announce
  PROVE  InformInv'
<1>1. Running("announce_turn") /\ "announce_turn" \in Playing
  BY DEF Announce, Playing, Op
<1>2. Head(todo) = todo[1] /\ todo[1].op = "announce_turn"
  BY <1>1, RunningOK
<1>3. \A f : ~TellsGame(todo[1], f)
  BY <1>2 DEF TellsGame
<1>4. PICK u : u = Task("tell_others", Start)
  OBVIOUS
<1>5. /\ u \in StepType /\ u.op = "tell_others" /\ u.fd = Start
      /\ u.op # "init_game" /\ u.op \notin Nexts
  BY <1>4 DEF Task, StepType, Op, Nexts
<1>6. CASE turn = NoFd /\ Die("crashed")
  BY <1>6, DieInformed DEF Die
<1>7. CASE /\ turn # NoFd
           /\ knows_turn' = knows_turn \cup {turn}
           /\ Continue(<<u>>)
           /\ UNCHANGED <<game, lists, rset, stale, srv, net, knows_game, bounds>>
  <2>1. PICK ts : ts = <<u>>
    OBVIOUS
  <2>2. /\ Continue(ts) /\ ts \in Seq(StepType) /\ BoardFollows(ts) /\ Freed(ts)
        /\ 1 \in 1..Len(ts) /\ ts[1] = u
    BY <1>5, <1>7, <2>1, OneStep
  <2>3. \A f : f # turn => TellsTurn(ts[1], f)
    BY <1>5, <2>2 DEF TellsTurn, WillCome
  <2>4. \A f : f \in knows_turn' \/ \E k \in 1..Len(ts) : TellsTurn(ts[k], f)
    BY <1>7, <2>2, <2>3
  <2>5. /\ head' = head /\ stale' = stale /\ turn' = turn
        /\ knows_turn \subseteq knows_turn' /\ knows_game' = knows_game
        /\ todo[1].op # "disconnect"
    BY <1>2, <1>7 DEF lists
  <2> QED
    BY <1>3, <2>2, <2>4, <2>5, InformedCall
<1>8. CASE /\ turn # NoFd
           /\ Continue(<<Task("disconnect", turn), u>>)
           /\ UNCHANGED <<game, lists, rset, stale, srv, net, told, bounds>>
  <2>1. PICK c \in Fd : c = turn
    BY <1>8, Members
  <2>2. PICK ts : ts = <<Task("disconnect", c), u>>
    OBVIOUS
  <2>3. /\ Continue(ts) /\ ts \in Seq(StepType) /\ BoardFollows(ts) /\ Freed(ts)
        /\ 1 \in 1..Len(ts) /\ ts[1] = Task("disconnect", c)
    BY <1>5, <1>8, <2>1, <2>2, DisconnectFirst
  <2>4. \A f : TellsTurn(ts[1], f)
    BY <2>3 DEF TellsTurn, Task
  <2>5. /\ head' = head /\ stale' = stale /\ turn' = turn
        /\ knows_turn' = knows_turn /\ knows_game' = knows_game
        /\ todo[1].op # "disconnect"
    BY <1>2, <1>8 DEF lists, told
  <2> QED
    BY <1>3, <2>3, <2>4, <2>5, InformedCall
<1>9. CASE turn # NoFd /\ BrokenPipe(turn)
  BY <1>9, DieInformed DEF BrokenPipe, Die
<1> QED
  BY <1>4, <1>6, <1>7, <1>8, <1>9 DEF Announce

LEMMA TellWinnerInformed ==
  ASSUME ServerInv, InformInv, todo # <<>>, TellWinner
  PROVE  InformInv'
<1>1. /\ Running("tell_winner") /\ "tell_winner" \in Playing
      /\ "tell_winner" \in OfClient
  BY DEF TellWinner, Playing, Op, OfClient
<1>2. Head(todo) = todo[1] /\ todo[1].op = "tell_winner" /\ StepOK(todo[1])
  BY <1>1, RunningOK
<1>3. PICK w \in Fd : w = Head(todo).fd
  BY <1>1, <1>2 DEF StepOK
<1>4. \A f : ~TellsTurn(todo[1], f) /\ ~TellsGame(todo[1], f)
  BY <1>2 DEF TellsGame, TellsTurn
<1>5. PICK u : u = Task("tell_losers", Start)
  OBVIOUS
<1>6. u \in StepType /\ u.op # "init_game" /\ u.op \notin Nexts
  BY <1>5 DEF Task, StepType, Op, Nexts
<1>7. ASSUME UNCHANGED <<game, lists, rset, stale, srv, net, told, bounds>>,
             Continue(<<u>>) \/ Continue(<<Task("disconnect", w), u>>)
      PROVE  InformInv'
  <2>1. PICK ts : Continue(ts) /\ (ts = <<u>> \/ ts = <<Task("disconnect", w), u>>)
    BY <1>7
  <2>2. ts \in Seq(StepType) /\ BoardFollows(ts) /\ Freed(ts)
    BY <1>6, <2>1, OneStep, DisconnectFirst
  <2>3. /\ head' = head /\ stale' = stale /\ turn' = turn
        /\ knows_turn' = knows_turn /\ knows_game' = knows_game
        /\ todo[1].op # "disconnect"
    BY <1>2, <1>7 DEF lists, told
  <2> QED
    BY <1>4, <2>1, <2>2, <2>3, InformedCall
<1>8. CASE BrokenPipe(w) \/ Die("crashed")
  BY <1>8, DieInformed DEF BrokenPipe, Die
<1> QED
  BY <1>3, <1>5, <1>7, <1>8 DEF TellWinner

LEMMA JoinStatusInformed ==
  ASSUME ServerInv, InformInv, todo # <<>>, JoinStatus
  PROVE  InformInv'
<1>1. /\ Running("join_status") /\ "join_status" \in Playing
      /\ "join_status" \in OfClient
  BY DEF JoinStatus, Playing, Op, OfClient
<1>2. Head(todo) = todo[1] /\ todo[1].op = "join_status" /\ StepOK(todo[1])
  BY <1>1, RunningOK
<1>3. PICK c \in Fd : c = Head(todo).fd
  BY <1>1, <1>2 DEF StepOK
<1>4. \A f : TellsGame(todo[1], f) => f = c
  BY <1>2, <1>3 DEF TellsGame
<1>5. CASE /\ knows_game' = knows_game \cup {c}
           /\ Continue(<<AnnounceTurn>>)
           /\ UNCHANGED <<game, lists, rset, stale, srv, net, knows_turn, bounds>>
  <2>1. PICK u : u = AnnounceTurn
    OBVIOUS
  <2>2. /\ u \in StepType /\ u.op = "announce_turn"
        /\ u.op # "init_game" /\ u.op \notin Nexts
    BY <2>1 DEF AnnounceTurn, Task, StepType, Op, Nexts
  <2>3. PICK ts : ts = <<u>>
    OBVIOUS
  <2>4. /\ Continue(ts) /\ ts \in Seq(StepType) /\ BoardFollows(ts) /\ Freed(ts)
        /\ 1 \in 1..Len(ts) /\ ts[1] = u
    BY <1>5, <2>1, <2>2, <2>3, OneStep
  <2>5. \A f : \E k \in 1..Len(ts) : TellsTurn(ts[k], f)
    BY <2>2, <2>4 DEF TellsTurn
  <2>6. /\ head' = head /\ stale' = stale /\ turn' = turn
        /\ knows_turn' = knows_turn /\ knows_game \subseteq knows_game'
        /\ c \in knows_game' /\ todo[1].op # "disconnect"
    BY <1>2, <1>5 DEF lists
  <2> QED
    BY <1>4, <2>4, <2>5, <2>6, InformedCall
<1>6. CASE /\ Continue(<<Task("disconnect", c)>>)
           /\ UNCHANGED <<game, lists, rset, stale, srv, net, told, bounds>>
  <2>1. PICK u : u = Task("disconnect", c)
    OBVIOUS
  <2>2. /\ u \in StepType /\ u.op = "disconnect" /\ u.fd = c
        /\ u.op # "init_game" /\ u.op \notin Nexts
    BY <2>1 DEF Task, StepType, Op, Nexts
  <2>3. PICK ts : ts = <<u>>
    OBVIOUS
  <2>4. /\ Continue(ts) /\ ts \in Seq(StepType) /\ BoardFollows(ts) /\ Freed(ts)
        /\ 1 \in 1..Len(ts) /\ ts[1] = u
    BY <1>6, <2>1, <2>2, <2>3, OneStep
  <2>5. TellsGame(ts[1], c) /\ \A f : TellsTurn(ts[1], f)
    BY <2>2, <2>4 DEF TellsTurn, TellsGame
  <2>6. /\ head' = head /\ stale' = stale /\ turn' = turn
        /\ knows_turn' = knows_turn /\ knows_game' = knows_game
        /\ todo[1].op # "disconnect"
    BY <1>2, <1>6 DEF lists, told
  <2> QED
    BY <1>4, <2>4, <2>5, <2>6, InformedCall
<1>7. CASE BrokenPipe(c) \/ Die("crashed")
  BY <1>7, DieInformed DEF BrokenPipe, Die
<1> QED
  BY <1>3, <1>5, <1>6, <1>7 DEF JoinStatus

(* Every new game is shown, and everybody told whose turn it is.           *)
LEMMA NewGameFollows ==
  ASSUME NEW pre \in Seq(StepType),
         \A k \in 1..Len(pre) : pre[k].op # "init_game" /\ pre[k].op \notin Nexts,
         NEW ts, ts = pre \o NewGame
  PROVE  /\ ts \in Seq(StepType) /\ BoardFollows(ts) /\ Freed(ts)
         /\ \E k \in 1..Len(ts) : ts[k] = Status
<1> DEFINE a == Text  b == Task("init_game", NoFd)  c == Status  d == AnnounceTurn
           n == Len(pre)
<1>1. /\ a \in StepType /\ b \in StepType /\ c \in StepType /\ d \in StepType
      /\ a.op = "text" /\ c.op = "status" /\ d.op = "announce_turn"
      /\ b.op = "init_game"
  BY DEF Text, Status, AnnounceTurn, Task, StepType, Op
<1>2. NewGame = <<a, b, c, d>>
  BY DEF NewGame
<1> HIDE DEF a, b, d
<1>3. /\ NewGame \in Seq(StepType) /\ Len(NewGame) = 4
      /\ NewGame[1] = a /\ NewGame[2] = b /\ NewGame[3] = c /\ NewGame[4] = d
  BY <1>1, <1>2
<1>4. n \in Nat
  OBVIOUS
<1>5. /\ Len(ts) = n + 4
      /\ \A k \in 1..(n + 4) : ts[k] = IF k <= n THEN pre[k] ELSE NewGame[k - n]
  <2>1. /\ Len(ts) = n + Len(NewGame)
        /\ \A k \in 1..(n + Len(NewGame)) :
             ts[k] = IF k <= n THEN pre[k] ELSE NewGame[k - n]
    BY <1>3, ConcatProperties
  <2> QED
    BY <1>3, <2>1
<1>6. ts \in Seq(StepType)
  BY <1>3
<1> HIDE DEF n
<1>7. n + 3 \in 1..Len(ts) /\ ts[n + 3] = Status
  <2>1. n + 3 \in 1..(n + 4) /\ ~(n + 3 <= n) /\ (n + 3) - n = 3
    BY <1>4
  <2> QED
    BY <1>3, <1>5, <2>1
<1>8. ASSUME NEW k \in 1..Len(ts)
      PROVE  /\ ts[k].op \notin Nexts
             /\ ts[k].op = "init_game" => k < n + 3
  <2>1. CASE k <= n
    <3>1. k \in 1..n
      BY <1>4, <2>1
    <3> QED
      BY <1>5, <2>1, <3>1 DEF n
  <2>2. CASE ~(k <= n)
    <3>1. k - n \in 1..4 /\ k = n + (k - n)
      BY <1>4, <1>5, <2>2
    <3>2. ts[k] = NewGame[k - n]
      BY <1>5, <2>2
    <3>3. PICK i \in 1..4 : i = k - n /\ k = n + i /\ ts[k] = NewGame[i]
      BY <3>1, <3>2
    <3>4. i = 1 \/ i = 2 \/ i = 3 \/ i = 4
      OBVIOUS
    <3>5. NewGame[i].op \notin Nexts
      BY <1>1, <1>3, <3>4 DEF Nexts
    <3>6. NewGame[i].op = "init_game" => i = 2
      BY <1>1, <1>3, <3>4
    <3> QED
      BY <1>4, <3>3, <3>5, <3>6
  <2> QED
    BY <2>1, <2>2
<1>9. BoardFollows(ts)
  BY <1>7, <1>8 DEF BoardFollows
<1>10. Freed(ts)
  BY <1>8 DEF Freed
<1> QED
  BY <1>6, <1>7, <1>9, <1>10

LEMMA CheckOverInformed ==
  ASSUME ServerInv, InformInv, todo # <<>>, CheckOver
  PROVE  InformInv'
<1>1. /\ Running("check_over") /\ "check_over" \in Playing
      /\ UNCHANGED <<game, lists, rset, stale, srv, net, told, bounds>>
  BY DEF CheckOver, Playing, Op
<1>2. Head(todo) = todo[1] /\ todo[1].op = "check_over"
  BY <1>1, RunningOK
<1>3. \A f : ~TellsTurn(todo[1], f) /\ ~TellsGame(todo[1], f)
  BY <1>2 DEF TellsGame, TellsTurn
<1>4. PICK ts : Continue(ts) /\ (ts = <<Text>> \o NewGame \/ ts = <<>>)
  BY DEF CheckOver
<1>5. ts \in Seq(StepType) /\ BoardFollows(ts) /\ Freed(ts)
  <2>1. PICK t : t = Text
    OBVIOUS
  <2>2. t \in StepType /\ t.op # "init_game" /\ t.op \notin Nexts
    BY <2>1 DEF Text, Task, StepType, Op, Nexts
  <2>3. PICK pre : pre = <<t>>
    OBVIOUS
  <2>4. /\ pre \in Seq(StepType)
        /\ \A k \in 1..Len(pre) : pre[k].op # "init_game" /\ pre[k].op \notin Nexts
    BY <2>2, <2>3
  <2> QED
    BY <1>4, <2>1, <2>3, <2>4, NewGameFollows, NoStep
<1>6. /\ head' = head /\ stale' = stale /\ turn' = turn
      /\ knows_turn' = knows_turn /\ knows_game' = knows_game
      /\ todo[1].op # "disconnect"
  BY <1>1, <1>2 DEF lists, told
<1> QED
  BY <1>3, <1>4, <1>5, <1>6, InformedCall

LEMMA StartGameInformed ==
  ASSUME ServerInv, InformInv, todo # <<>>, StartGame
  PROVE  InformInv'
<1>1. /\ Running("init_game") /\ "init_game" \in Playing /\ Continue(<<>>)
      /\ head' = head /\ stale' = stale /\ turn' = turn /\ knows_turn' = knows_turn
  BY DEF StartGame, Playing, Op, lists
<1>2. Head(todo) = todo[1] /\ todo[1].op = "init_game"
  BY <1>1, RunningOK
<1>3. \A f : ~TellsTurn(todo[1], f) /\ ~TellsGame(todo[1], f)
  BY <1>2 DEF TellsGame, TellsTurn
<1>4. ASSUME NEW t, NEW f
      PROVE  /\ TellsTurn(t, f)' <=> TellsTurn(t, f)
             /\ TellsGame(t, f)' <=> TellsGame(t, f)
  BY <1>1, SameWay DEF TellsTurn, TellsGame
<1>5. PICK q, r : q = todo /\ r = todo'
  OBVIOUS
<1>6. q \in Seq(StepType) /\ q # <<>> /\ <<>> \in Seq(StepType) /\ r = <<>> \o Tail(q)
  BY <1>1, <1>5, Members DEF Continue
<1>7. PICK m \in 1..Len(q) : 1 < m /\ q[m] = Status
  <2>1. 1 \in 1..Len(q)
    BY <1>6
  <2> QED
    BY <1>2, <1>5, <2>1 DEF InformInv, BoardFollows
<1>8. \E i \in 1..Len(r) : r[i] = Status
  <2>1. m \in 2..Len(q)
    BY <1>7
  <2>2. Len(<<>>) + m - 1 \in 1..Len(r) /\ r[Len(<<>>) + m - 1] = q[m]
    BY <1>6, <2>1, Replaced
  <2> QED
    BY <1>7, <2>2
<1>9. \A f : GameComing(f)'
  <2>1. ASSUME NEW f PROVE TellsGame(Status, f)
    BY DEF TellsGame, Status, Task, WillCome
  <2>2. PICK i \in 1..Len(r) : r[i] = Status
    BY <1>8
  <2>3. \A f : TellsGame(r[i], f)
    BY <2>1, <2>2
  <2>4. \A f : TellsGame(r[i], f)'
    BY <1>4, <2>3
  <2> QED
    BY <1>5, <2>2, <2>4 DEF GameComing
<1>10. Freed(<<>>)'
  BY DEF Freed
<1>11. \A f \in ToSet(head') :
           /\ f \in knows_turn => f \in knows_turn'
           /\ f \in knows_game => f \in knows_game' \/ GameComing(f)'
           /\ TellsTurn(todo[1], f) =>
                f \in knows_turn' \/ \E k \in 1..Len(<<>>) : TellsTurn(<<>>[k], f)'
           /\ TellsGame(todo[1], f) =>
                f \in knows_game' \/ \E k \in 1..Len(<<>>) : TellsGame(<<>>[k], f)'
           /\ \A t \in StepType : TellsTurn(t, f) => TellsTurn(t, f)'
           /\ \A t \in StepType : TellsGame(t, f) => TellsGame(t, f)'
  BY <1>1, <1>3, <1>4, <1>9
<1>12. ToSet(head') \subseteq ToSet(head) /\ todo[1].op # "disconnect"
  BY <1>1, <1>2
<1> QED
  BY <1>1, <1>6, <1>10, <1>11, <1>12, NoStep, InformedStep

(* disconnect tells everybody who is left whose turn it is.                *)
LEMMA DisconnectInformed ==
  ASSUME ServerInv, InformInv, todo # <<>>, Disconnect
  PROVE  InformInv'
<1>1. /\ Running("disconnect") /\ "disconnect" \in Playing
      /\ "disconnect" \in OfClient
  BY DEF Disconnect, Playing, Op, OfClient, Broken
<1>2. Head(todo) = todo[1] /\ todo[1].op = "disconnect" /\ StepOK(todo[1])
  BY <1>1, RunningOK
<1>3. PICK g \in Fd : g = Head(todo).fd
  BY <1>1, <1>2 DEF StepOK
<1> DEFINE rest == Without(head, g)
           crashes == turn = NoFd \/ (g = turn /\ rest # <<>>)
<1>4. CASE Die("crashed")
  BY <1>4, DieInformed DEF Die
<1>5. CASE /\ ~crashes
           /\ turn' = (IF g = turn THEN NoFd ELSE turn)
           /\ head' = rest
           /\ IF g \in ToSet(head)
              THEN /\ Closed(g)
                   /\ stale' = [stale EXCEPT ![g] = Next_in(head, g)]
              ELSE UNCHANGED <<allset, sock, inbox, stale>>
           /\ knows_turn' = knows_turn \ {g}
           /\ knows_game' = knows_game \ {g}
           /\ Continue(IF rest = <<>> THEN <<>> ELSE <<Text, AnnounceTurn>>)
           /\ UNCHANGED <<game, new_players, name, rset, srv, backlog, bounds>>
  <2>1. ToSet(head') = ToSet(head) \ {g} /\ (head' = <<>> <=> ToSet(head) \subseteq {g})
    BY <1>5, WithoutType DEF ServerInv, ServerTypeOK, ListsInv
  <2>2. stale' = IF g \in ToSet(head) THEN [stale EXCEPT ![g] = Next_in(head, g)]
                                      ELSE stale
    BY <1>5
  <2>3. ASSUME NEW f \in ToSet(head')
        PROVE  f \in ToSet(head) /\ f # g /\ head' # <<>> /\ turn' = turn
    <3>1. f \in ToSet(head) /\ f # g
      BY <2>1
    <3>2. head' # <<>>
      BY <2>1, <3>1
    <3> QED
      BY <1>5, <3>1, <3>2
  <2>4. ASSUME NEW t, NEW f \in ToSet(head')
        PROVE  WillCome(t, f) => WillCome(t, f)'
    BY <1>5, <2>2, <2>3, ReachWithout DEF WillCome
  <2>5. ASSUME NEW f \in ToSet(head'), NEW t
        PROVE  /\ TellsTurn(t, f) => TellsTurn(t, f)'
               /\ TellsGame(t, f) => TellsGame(t, f)'
    BY <2>3, <2>4 DEF TellsTurn, TellsGame
  <2>6. PICK ts : ts = IF rest = <<>> THEN <<>> ELSE <<Text, AnnounceTurn>>
    OBVIOUS
  <2>7. Continue(ts)
    BY <1>5, <2>6
  <2>8. /\ ts \in Seq(StepType) /\ BoardFollows(ts) /\ Freed(ts)'
        /\ head' # <<>> => \E k \in 1..Len(ts) : ts[k] = AnnounceTurn
    <3>1. CASE rest = <<>>
      BY <1>5, <2>6, <3>1, NoStep DEF Freed
    <3>2. CASE rest # <<>>
      <4>1. PICK a, b : a = Text /\ b = AnnounceTurn
        OBVIOUS
      <4>2. /\ a \in StepType /\ a.op = "text"
            /\ b \in StepType /\ b.op = "announce_turn"
        BY <4>1 DEF Text, AnnounceTurn, Task, StepType, Op
      <4>3. ts = <<a, b>>
        BY <2>6, <3>2, <4>1
      <4>4. ts \in Seq(StepType) /\ Len(ts) = 2 /\ ts[1] = a /\ ts[2] = b
        BY <4>2, <4>3
      <4>5. \A k \in 1..2 : k = 1 \/ k = 2
        OBVIOUS
      <4>6. \A k \in 1..Len(ts) : ts[k].op # "init_game" /\ ts[k].op \notin Nexts
        BY <4>2, <4>4, <4>5 DEF Nexts
      <4> QED
        BY <4>1, <4>4, <4>6 DEF BoardFollows, Freed
    <3> QED
      BY <3>1, <3>2
  <2>9. ASSUME NEW f \in ToSet(head')
        PROVE  \E k \in 1..Len(ts) : TellsTurn(ts[k], f)'
    <3>1. PICK k \in 1..Len(ts) : ts[k] = AnnounceTurn
      BY <2>3, <2>8
    <3>2. ts[k].op = "announce_turn"
      BY <3>1 DEF AnnounceTurn, Task
    <3> QED
      BY <3>2 DEF TellsTurn
  <2>10. \A f \in ToSet(head') : ~TellsGame(todo[1], f)
    BY <1>2, <1>3, <2>3 DEF TellsGame
  <2>11. \A f \in ToSet(head') :
           /\ f \in knows_turn => f \in knows_turn'
           /\ f \in knows_game => f \in knows_game' \/ GameComing(f)'
           /\ TellsTurn(todo[1], f) =>
                f \in knows_turn' \/ \E k \in 1..Len(ts) : TellsTurn(ts[k], f)'
           /\ TellsGame(todo[1], f) =>
                f \in knows_game' \/ \E k \in 1..Len(ts) : TellsGame(ts[k], f)'
           /\ \A t \in StepType : TellsTurn(t, f) => TellsTurn(t, f)'
           /\ \A t \in StepType : TellsGame(t, f) => TellsGame(t, f)'
    BY <1>5, <2>3, <2>5, <2>9, <2>10
  <2>12. ToSet(head') \subseteq ToSet(head) /\ todo[1].fd \notin ToSet(head')
    BY <1>2, <1>3, <2>1
  <2> QED
    BY <2>7, <2>8, <2>11, <2>12, InformedStep
<1> QED
  BY <1>3, <1>4, <1>5 DEF Disconnect, TurnWithout

(* Between two handlers everybody has been told. *)
AllTold == \A f \in ToSet(head) : f \in knows_turn /\ f \in knows_game

LEMMA IdleTold ==
  ASSUME InformInv,
         \A k \in 1..Len(todo) : todo[k].op \in {"accept", "greet"}
  PROVE  AllTold
  BY DEF AllTold, InformInv, TurnTold, GameTold, TellsTurn, TellsGame

(* A handler begins: what it changes it will tell.                         *)
LEMMA HandlerInformed ==
  ASSUME AllTold, NEW ts, todo' = ts, head' = head,
         knows_turn' = knows_turn \/ \E k \in 1..Len(ts) : ts[k] = AnnounceTurn,
         knows_game' = knows_game \/ \E k \in 1..Len(ts) : ts[k] = Status,
         BoardFollows(ts), Freed(ts)
  PROVE  InformInv'
<1>1. TurnTold'
  <2>1. CASE knows_turn' = knows_turn
    BY <2>1 DEF TurnTold, AllTold
  <2>2. CASE \E k \in 1..Len(ts) : ts[k] = AnnounceTurn
    <3>1. PICK k \in 1..Len(ts) : ts[k] = AnnounceTurn
      BY <2>2
    <3>2. ts[k].op = "announce_turn"
      BY <3>1 DEF AnnounceTurn, Task
    <3>3. \A f : TellsTurn(ts[k], f)'
      BY <3>2 DEF TellsTurn
    <3> QED
      BY <3>3 DEF TurnTold
  <2> QED
    BY <2>1, <2>2
<1>2. GameTold'
  <2>1. CASE knows_game' = knows_game
    BY <2>1 DEF GameTold, AllTold
  <2>2. CASE \E k \in 1..Len(ts) : ts[k] = Status
    <3>1. PICK k \in 1..Len(ts) : ts[k] = Status
      BY <2>2
    <3>2. ts[k].op = "status" /\ ts[k].fd = Start
      BY <3>1 DEF Status, Task
    <3>3. \A f : TellsGame(ts[k], f)'
      BY <3>2 DEF TellsGame, WillCome
    <3> QED
      BY <3>3 DEF GameTold
  <2> QED
    BY <2>1, <2>2
<1>3. BoardFollows(todo)' /\ Freed(todo)'
  BY DEF BoardFollows, Freed
<1> QED
  BY <1>1, <1>2, <1>3 DEF InformInv

(* Such a handler that starts with at most one step. *)
LEMMA QuietInformed ==
  ASSUME AllTold, head' = head, knows_turn' = knows_turn, knows_game' = knows_game,
         \/ todo' = <<>>
         \/ \E op, f : todo' = <<Task(op, f)>> /\ op # "init_game" /\ op \notin Nexts
  PROVE  InformInv'
<1>1. CASE todo' = <<>>
  <2>1. PICK ts : ts = <<>>
    OBVIOUS
  <2>2. BoardFollows(ts) /\ Freed(ts) /\ todo' = ts
    BY <1>1, <2>1, NoStep
  <2> QED
    BY <2>2, HandlerInformed
<1>2. ASSUME NEW op, NEW f, todo' = <<Task(op, f)>>, op # "init_game", op \notin Nexts
      PROVE  InformInv'
  <2>1. PICK t : t = Task(op, f)
    OBVIOUS
  <2>2. t.op = op
    BY <2>1 DEF Task
  <2>3. PICK ts : ts = <<t>>
    OBVIOUS
  <2>4. Len(ts) = 1 /\ ts[1] = t
    BY <2>3
  <2>5. BoardFollows(ts) /\ Freed(ts) /\ todo' = ts
    BY <1>2, <2>1, <2>2, <2>3, <2>4 DEF BoardFollows, Freed
  <2> QED
    BY <2>5, HandlerInformed
<1> QED
  BY <1>1, <1>2

LEMMA SelectInformed ==
  ASSUME InformInv, Select
  PROVE  InformInv'
<1>1. todo = <<>> /\ AllTold
  BY IdleTold DEF Select
<1>2. /\ head' = head /\ knows_turn' = knows_turn /\ knows_game' = knows_game
      /\ todo' = <<>> \/ todo' = <<Task("accept", NoFd)>>
  BY DEF Select, lists, told
<1>3. "accept" # "init_game" /\ "accept" \notin Nexts
  BY DEF Nexts
<1> QED
  BY <1>1, <1>2, <1>3, QuietInformed

LEMMA AcceptInformed ==
  ASSUME ServerInv, InformInv, todo # <<>>, Accept
  PROVE  InformInv'
<1>1. todo = <<Task("accept", NoFd)>>
  BY HeadOp DEF Accept, Accepting
<1>2. AllTold
  BY <1>1, IdleTold DEF Task
<1>3. PICK t : t = Task("greet", LowestFree)
  OBVIOUS
<1>4. todo' = <<t>>
  <2>1. todo' = <<t>> \o Tail(todo)
    BY <1>3 DEF Accept, Continue
  <2>2. Tail(todo) = <<>>
    BY <1>1
  <2>3. <<t>> \o <<>> = <<t>>
    OBVIOUS
  <2> QED
    BY <2>1, <2>2, <2>3
<1>5. "greet" # "init_game" /\ "greet" \notin Nexts
  BY DEF Nexts
<1>6. head' = head /\ knows_turn' = knows_turn /\ knows_game' = knows_game
  BY DEF Accept, told
<1> QED
  BY <1>2, <1>3, <1>4, <1>5, <1>6, QuietInformed

LEMMA GreetInformed ==
  ASSUME ServerInv, InformInv, todo # <<>>, NEW f \in Fd, Greet(f)
  PROVE  InformInv'
<1>1. Head(todo) = Task("greet", f) /\ todo' = <<>> \o Tail(todo)
  BY DEF Greet, Continue
<1>2. Greeting
  BY <1>1, HeadOp DEF Task
<1>3. PICK g : todo = <<Task("greet", g)>>
  BY <1>2 DEF Greeting
<1>4. AllTold
  BY <1>3, IdleTold DEF Task
<1>5. todo' = <<>>
  <2>1. Tail(todo) = <<>>
    BY <1>3
  <2>2. <<>> \o <<>> = <<>>
    OBVIOUS
  <2> QED
    BY <1>1, <2>1, <2>2
<1>6. head' = head /\ knows_turn' = knows_turn /\ knows_game' = knows_game
  BY DEF Greet, lists, told
<1> QED
  BY <1>4, <1>5, <1>6, QuietInformed

(* The steps after a guess. *)
LEMMA GuessTasksInform ==
  /\ BoardFollows(GuessTasks) /\ Freed(GuessTasks)
  /\ \E k \in 1..Len(GuessTasks) : GuessTasks[k] = Status
  /\ \E k \in 1..Len(GuessTasks) : GuessTasks[k] = AnnounceTurn
<1> DEFINE a == Text  b == Status  c == AnnounceTurn  d == Task("check_over", NoFd)
<1>1. /\ a.op = "text" /\ b.op = "status" /\ c.op = "announce_turn"
      /\ d.op = "check_over"
  BY DEF Text, Status, AnnounceTurn, Task
<1>2. GuessTasks = <<a, b, c, d>>
  BY DEF GuessTasks
<1>3. b = Status /\ c = AnnounceTurn
  OBVIOUS
<1> HIDE DEF a, b, c, d
<1>4. /\ Len(GuessTasks) = 4
      /\ GuessTasks[1] = a /\ GuessTasks[2] = b /\ GuessTasks[3] = c
      /\ GuessTasks[4] = d
  BY <1>2
<1>5. \A k \in 1..4 : k = 1 \/ k = 2 \/ k = 3 \/ k = 4
  OBVIOUS
<1>6. \A k \in 1..Len(GuessTasks) :
        GuessTasks[k].op # "init_game" /\ GuessTasks[k].op \notin Nexts
  BY <1>1, <1>4, <1>5 DEF Nexts
<1>7. BoardFollows(GuessTasks) /\ Freed(GuessTasks)
  BY <1>6 DEF BoardFollows, Freed
<1>8. 2 \in 1..Len(GuessTasks) /\ 3 \in 1..Len(GuessTasks)
  BY <1>4
<1> QED
  BY <1>3, <1>4, <1>7, <1>8

LEMMA GuessRightInformed ==
  ASSUME ServerInv, InformInv, NEW f \in Fd, NEW l, GuessRight(f, l)
  PROVE  InformInv'
<1>1. ReadLine(f, <<l>>) /\ f \in ToSet(head)
  BY DEF GuessRight
<1>2. AllTold
  BY <1>1, LineFrame, IdleTold
<1>3. PICK t : t = Task("tell_winner", f)
  OBVIOUS
<1>4. PICK ts : /\ todo' = ts
                /\ ts = <<Text, t>> \o NewGame \/ ts = GuessTasks
  BY <1>3 DEF GuessRight
<1>5. /\ BoardFollows(ts) /\ Freed(ts)
      /\ \E k \in 1..Len(ts) : ts[k] = Status
  <2>1. CASE ts = GuessTasks
    BY <2>1, GuessTasksInform
  <2>2. CASE ts = <<Text, t>> \o NewGame
    <3>1. PICK a : a = Text
      OBVIOUS
    <3>2. /\ a \in StepType /\ a.op = "text"
          /\ t \in StepType /\ t.op = "tell_winner"
      BY <1>3, <3>1 DEF Text, Task, StepType, Op
    <3>3. PICK pre : pre = <<a, t>>
      OBVIOUS
    <3>4. pre \in Seq(StepType) /\ Len(pre) = 2 /\ pre[1] = a /\ pre[2] = t
      BY <3>2, <3>3
    <3>5. \A k \in 1..2 : k = 1 \/ k = 2
      OBVIOUS
    <3>6. \A k \in 1..Len(pre) : pre[k].op # "init_game" /\ pre[k].op \notin Nexts
      BY <3>2, <3>4, <3>5 DEF Nexts
    <3> QED
      BY <2>2, <3>1, <3>3, <3>4, <3>6, NewGameFollows
  <2> QED
    BY <1>4, <2>1, <2>2
<1>6. head' = head /\ knows_turn' = knows_turn
  BY DEF GuessRight, lists
<1> QED
  BY <1>2, <1>4, <1>5, <1>6, HandlerInformed

LEMMA GuessWrongInformed ==
  ASSUME ServerInv, InformInv, NEW f \in Fd, NEW l, GuessWrong(f, l)
  PROVE  InformInv'
<1>1. ReadLine(f, <<l>>) /\ todo' = GuessTasks /\ head' = head
  BY DEF GuessWrong
<1>2. AllTold
  BY <1>1, LineFrame, IdleTold
<1>3. PICK ts : ts = GuessTasks
  OBVIOUS
<1>4. /\ todo' = ts /\ BoardFollows(ts) /\ Freed(ts)
      /\ \E k \in 1..Len(ts) : ts[k] = Status
      /\ \E k \in 1..Len(ts) : ts[k] = AnnounceTurn
  BY <1>1, <1>3, GuessTasksInform
<1> QED
  BY <1>1, <1>2, <1>4, HandlerInformed

LEMMA GuessInvalidInformed ==
  ASSUME ServerInv, InformInv, NEW f \in Fd, NEW m, GuessInvalid(f, m)
  PROVE  InformInv'
<1> DEFINE a == Status  b == AnnounceTurn  c == Task("check_over", NoFd)
<1>1. /\ ReadLine(f, m) /\ todo' = <<a, b, c>>
      /\ head' = head /\ knows_turn' = knows_turn /\ knows_game' = knows_game
  BY DEF GuessInvalid, lists, told
<1>2. AllTold
  BY <1>1, LineFrame, IdleTold
<1>3. a.op = "status" /\ b.op = "announce_turn" /\ c.op = "check_over"
  BY DEF Status, AnnounceTurn, Task
<1> HIDE DEF a, b, c
<1>4. PICK ts : ts = <<a, b, c>>
  OBVIOUS
<1>5. Len(ts) = 3 /\ ts[1] = a /\ ts[2] = b /\ ts[3] = c
  BY <1>4
<1>6. \A k \in 1..3 : k = 1 \/ k = 2 \/ k = 3
  OBVIOUS
<1>7. \A k \in 1..Len(ts) : ts[k].op # "init_game" /\ ts[k].op \notin Nexts
  BY <1>3, <1>5, <1>6 DEF Nexts
<1>8. BoardFollows(ts) /\ Freed(ts)
  BY <1>7 DEF BoardFollows, Freed
<1> QED
  BY <1>1, <1>2, <1>4, <1>8, HandlerInformed

(* A newcomer is in front of the players who have been told, and will be   *)
(* told itself; if the turn becomes its own, everybody will.               *)
LEMMA JoinInformed ==
  ASSUME ServerInv, InformInv, NEW f \in Fd, NEW m, Join(f, m)
  PROVE  InformInv'
<1> DEFINE a == Text  b == Task("join_status", f)
<1>1. /\ ReadLine(f, m) /\ f \in ToSet(new_players) /\ head' = <<f>> \o head
      /\ knows_game' = knows_game /\ todo' = <<a, b>>
  BY DEF Join
<1>2. AllTold
  BY <1>1, LineFrame, IdleTold
<1>3. a.op = "text" /\ b.op = "join_status" /\ b.fd = f
  BY DEF Text, Task
<1> HIDE DEF a, b
<1>4. PICK ts : ts = <<a, b>>
  OBVIOUS
<1>5. Len(ts) = 2 /\ ts[1] = a /\ ts[2] = b
  BY <1>4
<1>6. \A k \in 1..2 : k = 1 \/ k = 2
  OBVIOUS
<1>7. \A k \in 1..Len(ts) : ts[k].op # "init_game" /\ ts[k].op \notin Nexts
  BY <1>3, <1>5, <1>6 DEF Nexts
<1>8. BoardFollows(todo)' /\ Freed(todo)'
  BY <1>1, <1>4, <1>7 DEF BoardFollows, Freed
<1>9. 2 \in 1..Len(ts) /\ ts[2].op = "join_status" /\ ts[2].fd = f
  BY <1>3, <1>5
<1>10. TurnTold'
  <2>1. \A g : TellsTurn(ts[2], g)'
    BY <1>9 DEF TellsTurn
  <2> QED
    BY <1>1, <1>4, <1>9, <2>1 DEF TurnTold
<1>11. ToSet(head') = ToSet(head) \cup {f}
  BY <1>1, InFrontType DEF ServerInv, ServerTypeOK, ListsInv
<1>12. GameTold'
  <2>1. TellsGame(ts[2], f)'
    BY <1>9 DEF TellsGame
  <2>2. \A g \in ToSet(head') : g \in knows_game' \/ g = f
    BY <1>1, <1>2, <1>11 DEF AllTold
  <2> QED
    BY <1>1, <1>4, <1>9, <2>1, <2>2 DEF GameTold
<1> QED
  BY <1>8, <1>10, <1>12 DEF InformInv

LEMMA HandleInformed ==
  ASSUME ServerInv, InformInv, NEW f \in Fd, Handle(f)
  PROVE  InformInv'
<1>1. /\ "disconnect" # "init_game" /\ "disconnect" \notin Nexts
      /\ "check_over" # "init_game" /\ "check_over" \notin Nexts
  BY DEF Nexts
<1>2. CASE ScanGone(f)
  <2>1. /\ AllTold /\ todo' = <<>> /\ head' = head
        /\ knows_turn' = knows_turn /\ knows_game' = knows_game
    BY <1>2, IdleTold DEF ScanGone, Scanning, lists, told
  <2> QED
    BY <2>1, QuietInformed
<1>3. CASE ReadEOF(f)
  <2>1. AllTold /\ todo = <<>>
    BY <1>3, IdleTold DEF ReadEOF, Scanning
  <2>2. /\ todo' = <<>> \/ todo' = <<Task("disconnect", f)>>
        /\ head' = head /\ knows_turn' = knows_turn /\ knows_game' = knows_game
    BY <1>3, <2>1 DEF ReadEOF, lists, told
  <2> QED
    BY <1>1, <2>1, <2>2, QuietInformed
<1>4. CASE ReadDies(f) \/ \E m : JoinFails(f, m)
  BY <1>4, DieInformed DEF ReadDies, JoinFails, BrokenPipe, Die
<1>5. ASSUME NEW m, OutOfTurn(f, m) PROVE InformInv'
  <2>1. /\ ReadLine(f, m) /\ todo' = <<Task("check_over", NoFd)>> /\ head' = head
        /\ knows_turn' = knows_turn /\ knows_game' = knows_game
    BY <1>5 DEF OutOfTurn, lists, told
  <2>2. AllTold
    BY <2>1, LineFrame, IdleTold
  <2> QED
    BY <1>1, <2>1, <2>2, QuietInformed
<1>6. ASSUME NEW m, AnswerFails(f, m) PROVE InformInv'
  <2>1. CASE BrokenPipe(f)
    BY <2>1, DieInformed DEF BrokenPipe, Die
  <2>2. CASE /\ ReadLine(f, m)
             /\ todo' = <<Task("disconnect", f)>>
             /\ UNCHANGED <<game, lists, stale, srv, sock, backlog, told, bounds>>
    <3>1. head' = head /\ knows_turn' = knows_turn /\ knows_game' = knows_game
      BY <2>2 DEF lists, told
    <3>2. AllTold
      BY <2>2, LineFrame, IdleTold
    <3> QED
      BY <1>1, <2>2, <3>1, <3>2, QuietInformed
  <2> QED
    BY <1>6, <2>1, <2>2 DEF AnswerFails
<1> QED
  BY <1>2, <1>3, <1>4, <1>5, <1>6, GuessRightInformed, GuessWrongInformed,
     GuessInvalidInformed, JoinInformed DEF Handle

LEMMA NextInformed == ServerInv /\ InformInv /\ [Next]_vars => InformInv'
<1> SUFFICES ASSUME ServerInv, InformInv, [Next]_vars PROVE InformInv'
  OBVIOUS
<1>1. CASE Clients \/ UNCHANGED vars
  <2>1. UNCHANGED <<lists, todo, stale, told>>
    BY <1>1 DEF Clients, Connect, Drop, Stall, Resume, Send, control, vars
  <2> QED
    BY <2>1, DieInformed
<1>2. CASE Server
  <2>1. CASE Select
    BY <2>1, SelectInformed
  <2>2. CASE todo # <<>> /\ Accept
    BY <2>2, AcceptInformed
  <2>3. CASE todo # <<>> /\ Call
    BY <2>3, AnnounceInformed, TellOthersInformed, TellWinnerInformed,
       TellLosersInformed, BroadcastInformed, UseAfterFreeInformed,
       DisconnectInformed, StartGameInformed, CheckOverInformed,
       JoinStatusInformed DEF Call
  <2>4. ASSUME todo # <<>>, NEW f \in Fd, Greet(f) PROVE InformInv'
    BY <2>4, GreetInformed
  <2>5. ASSUME NEW f \in Fd, Handle(f) PROVE InformInv'
    BY <2>5, HandleInformed
  <2> QED
    BY <1>2, <2>1, <2>2, <2>3, <2>4, <2>5 DEF Server
<1> QED
  BY <1>1, <1>2 DEF Next

LEMMA InitInformed == Init => InformInv
<1> SUFFICES ASSUME Init PROVE InformInv
  OBVIOUS
<1>1. head = <<>> /\ todo = <<>>
  BY DEF Init
<1>2. ToSet(head) = {}
  BY <1>1 DEF ToSet
<1> QED
  BY <1>1, <1>2 DEF InformInv, TurnTold, GameTold, BoardFollows, Freed

(* EveryoneInformed, for any number of players who leave in the middle of  *)
(* each other's broadcasts: whenever the server goes back to its sockets,  *)
(* whoever is left has been sent the board as it is and told whose turn it *)
(* is (wordsrv.c:366-388), through every loop that goes on from a node     *)
(* that was freed under it.                                                *)
THEOREM PlayersInformed == Spec => []EveryoneInformed
<1>1. InformInv => EveryoneInformed
  <2>1. InformInv /\ Idle => AllTold
    BY IdleTold DEF Idle
  <2> QED
    BY <2>1 DEF EveryoneInformed, AllTold
<1>2. ServerInv /\ InformInv /\ [Next]_vars => InformInv'
  BY NextInformed
<1> QED
  BY <1>1, <1>2, InitInformed, ServerInvariant, PTL DEF Spec

(* StatusFits in the server: as long as every word's longest status fits   *)
(* into MAX_MSG, status_message never runs over it, whoever guesses and    *)
(* however often the game is started again.                                *)
THEOREM ServerStatusFits ==
  ASSUME \A w \in Words : LongestStatus(w) <= MAX_MSG
  PROVE  Spec => []StatusFits
<1>1. Init => InitGame
  BY DEF Init
<1>2. Spec => [][GameNext]_game
  BY ServerInvariant, NextServerInv, PTL DEF Spec
<1>3. GameSpec => []StatusFits
  BY StatusAlwaysFits
<1> QED
  BY <1>1, <1>2, <1>3, PTL DEF Spec, GameSpec
=============================================================================
