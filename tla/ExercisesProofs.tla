--------------------------- MODULE ExercisesProofs ---------------------------
(***************************************************************************)
(* Proofs about the programs of the labs, for every number of rounds,      *)
(* processes and faults, every set of names and every password file whose  *)
(* lines fit: the report of time_reads and the verdict of checkpasswd are  *)
(* true, and what the programs of lab7 print does not depend on the        *)
(* schedule.  And, for inputs of any length, the tools compute what is     *)
(* asked of them; fibonacci as far as its numbers are ints.                *)
(***************************************************************************)
EXTENDS Exercises, LeastElements, SequenceTheorems

-----------------------------------------------------------------------------
(* A step of the shell is a step of one program, and of no other. *)
LEMMA OneProgram ==
  ASSUME [Next]_vars
  PROVE  /\ [ForkNext]_forkVars /\ [PassNext]_passVars
         /\ [TimeNext]_timeVars /\ [ToolStart]_toolVars
<1>1. CASE UNCHANGED vars
  BY <1>1 DEF vars
<1>2. CASE Start
  BY <1>2 DEF Start, ForkNext, PassNext, TimeNext
<1>3. CASE \E p \in Pid : Lab7(p)
  BY <1>3 DEF Lab7, ForkNext
<1>4. CASE Lab8Parent \/ Lab8Child \/ Faults
  BY <1>4 DEF Lab8Parent, Lab8Child, Faults, PassNext
<1>5. CASE Lab9Alarm \/ Lab9
  BY <1>5 DEF Lab9Alarm, Lab9, TimeNext
<1> QED
  BY <1>1, <1>2, <1>3, <1>4, <1>5 DEF Next

-----------------------------------------------------------------------------
(* time_reads.  A number has been printed and not counted only between the *)
(* two steps, or if the alarm came there; what the handler saw is what     *)
(* there still is, since it ends the process.                              *)
TimeInv ==
  /\ loop \in {"none", "reading", "printing", "counting", "ended"}
  /\ num_reads \in Nat /\ printed \in Nat
  /\ loop = "counting" => printed = num_reads + 1
  /\ loop \in {"none", "reading", "printing"} => printed = num_reads
  /\ loop = "ended" => printed \in {num_reads, num_reads + 1}
  /\ loop # "ended" => reports = {}
  /\ reports \subseteq {num_reads}

LEMMA TimeInitInv == TimeInit => TimeInv
BY DEF TimeInit, TimeInv

LEMMA TimeStepInv == TimeInv /\ [TimeNext]_timeVars => TimeInv'
<1> SUFFICES ASSUME TimeInv, [TimeNext]_timeVars PROVE TimeInv'
  OBVIOUS
<1> USE DEF TimeInv
<1>1. CASE UNCHANGED timeVars
  BY <1>1 DEF timeVars
<1>2. CASE TimeStart
  BY <1>2 DEF TimeStart
<1>3. CASE ReadNumber
  BY <1>3 DEF ReadNumber
<1>4. CASE PrintNumber
  BY <1>4 DEF PrintNumber
<1>5. CASE CountRead
  BY <1>5 DEF CountRead
<1>6. CASE handler
  BY <1>6 DEF handler, AfterReport
<1> QED
  BY <1>1, <1>2, <1>3, <1>4, <1>5, <1>6 DEF TimeNext

(* Whenever the alarm comes, and however many rounds there have been, the  *)
(* count that the handler reports is that of the numbers printed or one    *)
(* less, and nothing is printed after it (time_reads.c:20-23, 66-78).      *)
THEOREM ReportCounts == Spec => []CountReported
<1>1. Init => TimeInv
  BY TimeInitInv DEF Init
<1>2. TimeInv /\ [Next]_vars => TimeInv'
  BY OneProgram, TimeStepInv
<1>3. TimeInv => CountReported
  BY DEF TimeInv, CountReported
<1> QED
  BY <1>1, <1>2, <1>3, PTL DEF Spec

-----------------------------------------------------------------------------
(* Flattening is the loop that joins one sequence after the other. *)
LEMMA FlattenLoop ==
  ASSUME NEW W, NEW q \in Seq(Seq(W)), Len(q) # 0
  PROVE  \E f \in [1..Len(q) -> Seq(W)] :
           /\ f[1] = q[1] /\ \A k \in 2..Len(q) : f[k] = f[k - 1] \o q[k]
           /\ FlattenSeq(q) = f[Len(q)]
<1> DEFINE n == Len(q)
           X == Seq(W)
           F == [k \in 2..n |-> [s \in X |-> s \o q[k]]]
           Body(g) == [k \in 1..n |-> IF k = 1 THEN q[k] ELSE g[k - 1] \o q[k]]
           c == CHOOSE g : g = Body(g)
<1>1. n \in Nat \ {0} /\ q[1] \in X /\ F \in [2..n -> [X -> X]]
  <2>1. n \in Nat \ {0} /\ \A k \in 1..n : q[k] \in X
    OBVIOUS
  <2> HIDE DEF n
  <2>2. 1 \in 1..n /\ \A k \in 2..n : k \in 1..n
    BY <2>1
  <2>3. ASSUME NEW k \in 2..n, NEW s \in X PROVE s \o q[k] \in X
    <3>1. q[k] \in Seq(W)
      BY <2>1, <2>2
    <3> QED
      BY <3>1, ConcatProperties
  <2> HIDE DEF X
  <2> QED
    BY <2>1, <2>2, <2>3
<1>2. PICK f \in [1..n -> X] : IsLoopFrom1(f, q[1], n, F) /\ OnlyLoopFrom1(f, n)
  <2> HIDE DEF F, n, X
  <2> QED
    BY <1>1, LoopIsFrom1
<1>3. f[1] = q[1] /\ \A k \in 2..n : f[k] = f[k - 1] \o q[k]
  <2> HIDE DEF X, n
  <2>1. \A k \in 2..n : k - 1 \in 1..n /\ f[k - 1] \in X
    BY <1>1
  <2> QED
    BY <1>2, <2>1 DEF IsLoopFrom1
<1>4. f = Body(f)
  <2> HIDE DEF n, X
  <2>1. \A k \in 1..n : k = 1 \/ k \in 2..n
    BY <1>1
  <2> QED
    BY <1>1, <1>3, <2>1
<1>5. c = Body(c)
  <2> HIDE DEF Body
  <2> QED
    BY <1>4
<1>6. c[1] = q[1] /\ \A k \in 2..n : c[k] = c[k - 1] \o q[k]
  <2> HIDE DEF c, n
  <2>1. 1 \in 1..n /\ \A k \in 2..n : k \in 1..n /\ k # 1
    BY <1>1
  <2>2. c[1] = q[1]
    BY <1>5, <2>1
  <2>3. ASSUME NEW k \in 2..n PROVE c[k] = c[k - 1] \o q[k]
    BY <1>5, <2>1
  <2> QED
    BY <2>2, <2>3
<1>7. c[n] = f[n]
  <2> HIDE DEF c, n
  <2>1. n \in 1..n
    BY <1>1
  <2>2. c[1] = f[1] /\ \A k \in 2..n : c[k - 1] = f[k - 1] => c[k] = f[k]
    BY <1>3, <1>6
  <2> HIDE DEF F, X
  <2>3. \A k \in 1..n : c[k] = f[k]
    BY <1>2, <2>2 DEF OnlyLoopFrom1
  <2> QED
    BY <2>1, <2>3
<1>8. FlattenSeq(q) = c[n]
  BY DEF FlattenSeq
<1> QED
  BY <1>3, <1>7, <1>8

(* Sequences of one element flatten to the elements. *)
LEMMA FlattenOnes ==
  ASSUME NEW W, NEW n \in Nat \ {0}, NEW w \in [1..n -> W]
  PROVE  FlattenSeq([l \in 1..n |-> <<w[l]>>]) = w
<1> DEFINE q == [l \in 1..n |-> <<w[l]>>]
<1>1. q \in Seq(Seq(W)) /\ Len(q) = n
  <2>1. \A l \in 1..n : <<w[l]>> \in Seq(W)
    OBVIOUS
  <2> QED
    BY <2>1
<1>2. \A l \in 1..n : /\ q[l] \in Seq(W) /\ Len(q[l]) = 1 /\ q[l][1] = w[l]
  OBVIOUS
<1> HIDE DEF q
<1>3. PICK f \in [1..n -> Seq(W)] :
        /\ f[1] = q[1] /\ \A k \in 2..n : f[k] = f[k - 1] \o q[k]
        /\ FlattenSeq(q) = f[n]
  BY <1>1, FlattenLoop
<1> DEFINE Done(k) == k # 0 => Len(f[k]) = k /\ \A j \in 1..k : f[k][j] = w[j]
           B == {k \in 0..n : Done(k)}
<1>4. n \in B
  <2>1. B \in SUBSET (0..n) /\ 0 \in B
    OBVIOUS
  <2>2. ASSUME NEW k \in 1..n, k - 1 \in B PROVE k \in B
    <3>1. k \in 0..n /\ Done(k - 1)
      BY <2>2
    <3>2. CASE k = 1
      <4>1. Len(f[1]) = 1 /\ f[1][1] = w[1]
        BY <1>2, <1>3
      <4> QED
        BY <3>1, <3>2, <4>1
    <3>3. CASE k # 1
      <4>1. k \in 2..n /\ k - 1 \in 1..n /\ k - 1 # 0
        BY <3>3
      <4>2. f[k - 1] \in Seq(W) /\ q[k] \in Seq(W) /\ Len(q[k]) = 1 /\ q[k][1] = w[k]
        BY <1>2, <4>1
      <4>3. Len(f[k - 1]) = k - 1 /\ \A j \in 1..(k - 1) : f[k - 1][j] = w[j]
        BY <3>1, <4>1
      <4>4. f[k] = f[k - 1] \o q[k]
        BY <1>3, <4>1
      <4>5. /\ Len(f[k]) = k - 1 + 1
            /\ \A j \in 1..(k - 1 + 1) :
                 f[k][j] = IF j <= k - 1 THEN f[k - 1][j] ELSE q[k][j - (k - 1)]
        <5>1. PICK a, b : a = f[k - 1] /\ b = q[k]
          OBVIOUS
        <5>2. a \in Seq(W) /\ b \in Seq(W) /\ Len(a) = k - 1 /\ Len(b) = 1
          BY <4>2, <4>3, <5>1
        <5>3. PICK c : c = a \o b
          OBVIOUS
        <5>4. /\ Len(c) = k - 1 + 1
              /\ \A j \in 1..(k - 1 + 1) : c[j] = IF j <= k - 1 THEN a[j] ELSE b[j - (k - 1)]
          <6>1. /\ Len(a \o b) = Len(a) + Len(b)
                /\ \A j \in 1..(Len(a) + Len(b)) :
                     (a \o b)[j] = IF j <= Len(a) THEN a[j] ELSE b[j - Len(a)]
            BY <5>2, ConcatProperties
          <6> QED
            BY <5>2, <5>3, <6>1
        <5> QED
          BY <4>4, <5>1, <5>3, <5>4
      <4>6. Len(f[k]) = k
        BY <4>5
      <4>7. ASSUME NEW j \in 1..k PROVE f[k][j] = w[j]
        <5>1. CASE j = k
          <6>1. j \in 1..(k - 1 + 1) /\ ~(j <= k - 1) /\ j - (k - 1) = 1
            BY <5>1
          <6> QED
            BY <4>2, <4>5, <5>1, <6>1
        <5>2. CASE j # k
          <6>1. j \in 1..(k - 1 + 1) /\ j \in 1..(k - 1) /\ j <= k - 1
            BY <5>2
          <6> QED
            BY <4>3, <4>5, <6>1
        <5> QED
          BY <5>1, <5>2
      <4> QED
        BY <3>1, <4>6, <4>7
    <3> QED
      BY <3>2, <3>3
  <2> HIDE DEF B
  <2>3. \A k \in 0..n : k \in B
    BY <2>1, <2>2, AllRounds
  <2> QED
    BY <2>3
<1>5. f[n] \in Seq(W) /\ Len(f[n]) = n /\ \A j \in 1..n : f[n][j] = w[j]
  BY <1>4
<1>6. f[n] = [j \in 1..n |-> f[n][j]]
  BY <1>5
<1>7. w = [j \in 1..n |-> w[j]]
  OBVIOUS
<1>8. f[n] = w
  BY <1>5, <1>6, <1>7
<1> QED
  BY <1>3, <1>8 DEF q

(* A buffer that holds the line is filled once. *)
LEMMA FilledOnce ==
  ASSUME NEW room \in Nat, NEW l \in 1..room
  PROVE  (l + room - 1) \div room = 1
<1> DEFINE x == l + room - 1
<1>1. room > 0 /\ x \in Nat /\ room <= x /\ x < room + room
  OBVIOUS
<1> QED
  BY <1>1

(* A line that fits comes in one piece, without its last character. *)
LEMMA PiecesWhole ==
  ASSUME NEW S, NEW lines \in Seq(Seq(S)), NEW size \in Nat,
         \A l \in 1..Len(lines) : Len(lines[l]) # 0 /\ Len(lines[l]) < size
  PROVE  Pieces(lines, size) = [l \in DOMAIN lines |-> Front(lines[l])]
<1> DEFINE room == size - 1
           Piece(s, k) == AtMost(SubSeq(s, (k - 1) * room + 1, Len(s)), room)
           Words(s) == [k \in 1..((Len(s) + room - 1) \div room) |-> Front(Piece(s, k))]
           n == Len(lines)
<1>1. n \in Nat /\ DOMAIN lines = 1..n
  OBVIOUS
<1> HIDE DEF n, room
<1> SUFFICES FlattenSeq([l \in 1..n |-> Words(lines[l])])
               = [l \in 1..n |-> Front(lines[l])]
  BY <1>1 DEF Pieces, room
<1>2. ASSUME NEW l \in 1..n
      PROVE  Words(lines[l]) = <<Front(lines[l])>> /\ Front(lines[l]) \in Seq(S)
  <2> DEFINE s == lines[l]
  <2>1. s \in Seq(S) /\ Len(s) \in Nat /\ Len(s) # 0 /\ Len(s) < size
    BY DEF n
  <2> HIDE DEF s
  <2>2. room \in Nat /\ Len(s) \in 1..room
    BY <2>1 DEF room
  <2>3. (Len(s) + room - 1) \div room = 1
    BY <2>2, FilledOnce
  <2>4. SubSeq(s, 1, Len(s)) = s
    BY <2>1, SubSeqFull
  <2>5. AtMost(s, room) = s
    <3>1. (IF Len(s) < room THEN Len(s) ELSE room) = Len(s)
      BY <2>2
    <3> QED
      BY <2>4, <3>1 DEF AtMost
  <2>6. (1 - 1) * room + 1 = 1
    BY <2>2
  <2>7. Piece(s, 1) = s
    BY <2>4, <2>5, <2>6
  <2> HIDE DEF Piece
  <2>8. Words(s) = [k \in 1..1 |-> Front(Piece(s, k))]
    BY <2>3
  <2>9. Words(s) = <<Front(s)>>
    <3>1. \A k \in 1..1 : Front(Piece(s, k)) = Front(s)
      BY <2>7
    <3> HIDE DEF Words
    <3>2. Words(s) = [k \in 1..1 |-> Front(s)]
      BY <2>8, <3>1
    <3> QED
      BY <3>2
  <2>10. Front(s) \in Seq(S)
    <3>1. Len(s) - 1 \in 0..Len(s) /\ \A k \in 1..(Len(s) - 1) : s[k] \in S
      BY <2>1
    <3> QED
      BY <2>1, <3>1, SubSeqProperties DEF Front
  <2> QED
    BY <2>9, <2>10 DEF s
<1> HIDE DEF Words
<1> DEFINE w == [l \in 1..n |-> Front(lines[l])]
<1>3. CASE n = 0
  <2>1. \A l \in 1..n : FALSE
    BY <1>3
  <2> DEFINE q == [l \in 1..n |-> Words(lines[l])]
  <2>2. q = w
    BY <2>1
  <2>3. Len(q) = 0
    BY <1>3
  <2> HIDE DEF q, w
  <2>4. FlattenSeq(q) = q
    BY <2>3 DEF FlattenSeq
  <2> QED
    BY <2>2, <2>4 DEF q, w
<1>4. CASE n # 0
  <2>1. w \in [1..n -> Seq(S)]
    BY <1>2
  <2>2. [l \in 1..n |-> Words(lines[l])] = [l \in 1..n |-> <<w[l]>>]
    BY <1>2
  <2>3. FlattenSeq([l \in 1..n |-> <<w[l]>>]) = w
    <3> HIDE DEF w
    <3> QED
      BY <1>1, <1>4, <2>1, FlattenOnes
  <2> QED
    BY <2>2, <2>3
<1> QED
  BY <1>3, <1>4

-----------------------------------------------------------------------------
(* The password file. *)

(* A user, a colon and a password. *)
LEMMA JoinedIs ==
  ASSUME NEW u \in Seq(Char), NEW p \in Seq(Char)
  PROVE  LET z == u \o <<Colon>> \o p
         IN /\ z \in Seq(Char \cup {Colon})
            /\ Len(z) = Len(u) + 1 + Len(p)
            /\ \A k \in 1..Len(u) : z[k] = u[k]
            /\ z[Len(u) + 1] = Colon
            /\ \A k \in 1..Len(p) : z[Len(u) + 1 + k] = p[k]
<1> DEFINE S == Char \cup {Colon}
           c == <<Colon>>
           z == u \o c \o p
<1>1. u \in Seq(S) /\ c \in Seq(S) /\ p \in Seq(S) /\ Len(c) = 1 /\ c[1] = Colon
  OBVIOUS
<1> HIDE DEF S, c
<1>2. /\ u \o c \in Seq(S) /\ Len(u \o c) = Len(u) + 1
      /\ \A k \in 1..(Len(u) + 1) :
           (u \o c)[k] = IF k <= Len(u) THEN u[k] ELSE c[k - Len(u)]
  <2>1. /\ u \o c \in Seq(S) /\ Len(u \o c) = Len(u) + Len(c)
        /\ \A k \in 1..(Len(u) + Len(c)) :
             (u \o c)[k] = IF k <= Len(u) THEN u[k] ELSE c[k - Len(u)]
    BY <1>1, ConcatProperties
  <2> QED
    BY <1>1, <2>1
<1>3. PICK y : y = u \o c
  OBVIOUS
<1>4. /\ z \in Seq(S) /\ Len(z) = Len(y) + Len(p)
      /\ \A k \in 1..(Len(y) + Len(p)) :
           z[k] = IF k <= Len(y) THEN y[k] ELSE p[k - Len(y)]
  BY <1>1, <1>2, <1>3, ConcatProperties
<1> HIDE DEF z
<1>5. Len(u) \in Nat /\ Len(p) \in Nat /\ Len(y) = Len(u) + 1
  BY <1>2, <1>3
<1>6. Len(z) = Len(u) + 1 + Len(p)
  BY <1>4, <1>5
<1>7. ASSUME NEW k \in 1..Len(u) PROVE z[k] = u[k]
  <2>1. k \in 1..(Len(y) + Len(p)) /\ k <= Len(y) /\ k \in 1..(Len(u) + 1) /\ k <= Len(u)
    BY <1>5
  <2> QED
    BY <1>2, <1>3, <1>4, <2>1
<1>8. z[Len(u) + 1] = Colon
  <2>1. PICK k : k = Len(u) + 1
    OBVIOUS
  <2>2. /\ k \in 1..(Len(y) + Len(p)) /\ k <= Len(y) /\ k \in 1..(Len(u) + 1)
        /\ ~(k <= Len(u)) /\ k - Len(u) = 1
    BY <1>5, <2>1
  <2> QED
    BY <1>1, <1>2, <1>3, <1>4, <2>1, <2>2
<1>9. ASSUME NEW k \in 1..Len(p) PROVE z[Len(u) + 1 + k] = p[k]
  <2>1. PICK h : h = Len(u) + 1 + k
    OBVIOUS
  <2>2. h \in 1..(Len(y) + Len(p)) /\ ~(h <= Len(y)) /\ h - Len(y) = k
    BY <1>5, <2>1
  <2> QED
    BY <1>4, <2>1, <2>2
<1> QED
  BY <1>4, <1>6, <1>7, <1>8, <1>9 DEF S, z, c

(* One sequence is a prefix of another one. *)
LEMMA PrefixIs ==
  ASSUME NEW S, NEW s \in Seq(S), NEW t \in Seq(S)
  PROVE  IsPrefix(s, t) <=> Len(s) <= Len(t) /\ \A k \in 1..Len(s) : s[k] = t[k]
<1>1. SubSeq(s, 1, Len(s)) = s
  BY SubSeqFull
<1>2. CASE Len(s) <= Len(t)
  <2> DEFINE q == SubSeq(t, 1, Len(s))
  <2>1. q \in Seq(S) /\ Len(q) = Len(s) /\ \A k \in 1..Len(s) : q[k] = t[k]
    <3>1. /\ 1 \in 1..(Len(t) + 1) /\ Len(s) \in 0..Len(t) /\ Len(s) \in Nat
          /\ \A k \in 1..Len(s) : t[k] \in S
      BY <1>2
    <3> QED
      BY <1>2, <3>1, SubSeqProperties
  <2> HIDE DEF q
  <2>2. s = q <=> \A k \in 1..Len(s) : s[k] = q[k]
    <3>1. ASSUME \A k \in 1..Len(s) : s[k] = q[k] PROVE s = q
      BY <2>1, <3>1, SeqEqual
    <3> QED
      BY <3>1
  <2> QED
    BY <1>1, <1>2, <2>1, <2>2 DEF IsPrefix, q
<1>3. CASE ~(Len(s) <= Len(t))
  BY <1>3 DEF IsPrefix
<1> QED
  BY <1>2, <1>3

(* Users have no colon.  A line of the file, and what a line of a user     *)
(* begins with.                                                            *)
User == Seq(Char \ {Colon})
Password == Seq(Char)
LineOf(u, p) == u \o <<Colon>> \o p
Begin(c) == c \o <<Colon>>

(* A user without colon and a password are known from what they are joined *)
(* to, and the user by the part up to the colon.                           *)
LEMMA JoinedOnce ==
  ASSUME NEW u \in User, NEW p \in Password, NEW c \in User, NEW w \in Password
  PROVE  /\ IsPrefix(Begin(c), LineOf(u, p)) <=> u = c
         /\ LineOf(u, p) = LineOf(c, w) <=> u = c /\ p = w
<1> USE DEF User, Password
<1> DEFINE S == Char \cup {Colon}
           z == u \o <<Colon>> \o p
           x == c \o <<Colon>> \o w
           y == c \o <<Colon>>
<1>1. u \in Seq(Char) /\ c \in Seq(Char)
  OBVIOUS
<1>2. /\ z \in Seq(S) /\ Len(z) = Len(u) + 1 + Len(p)
      /\ \A k \in 1..Len(u) : z[k] = u[k]
      /\ z[Len(u) + 1] = Colon
      /\ \A k \in 1..Len(p) : z[Len(u) + 1 + k] = p[k]
  BY <1>1, JoinedIs
<1>3. /\ x \in Seq(S) /\ Len(x) = Len(c) + 1 + Len(w)
      /\ \A k \in 1..Len(c) : x[k] = c[k]
      /\ x[Len(c) + 1] = Colon
      /\ \A k \in 1..Len(w) : x[Len(c) + 1 + k] = w[k]
  BY <1>1, JoinedIs
<1>4. /\ y \in Seq(S) /\ Len(y) = Len(c) + 1
      /\ \A k \in 1..Len(c) : y[k] = c[k]
      /\ y[Len(c) + 1] = Colon
  BY <1>1
<1> HIDE DEF S, x, y, z
<1>5. /\ Len(u) \in Nat /\ Len(c) \in Nat /\ Len(p) \in Nat /\ Len(w) \in Nat
      /\ \A k \in 1..Len(u) : u[k] # Colon
      /\ \A k \in 1..Len(c) : c[k] # Colon
  OBVIOUS
<1>6. ASSUME \A k \in 1..(Len(c) + 1) : z[k] = IF k = Len(c) + 1 THEN Colon ELSE c[k],
             Len(c) + 1 <= Len(z)
      PROVE  u = c
  <2>1. ~(Len(c) < Len(u))
    <3> SUFFICES ASSUME Len(c) < Len(u) PROVE FALSE
      OBVIOUS
    <3>1. Len(c) + 1 \in 1..Len(u) /\ Len(c) + 1 \in 1..(Len(c) + 1)
      BY <1>5
    <3> QED
      BY <1>2, <1>5, <1>6, <3>1
  <2>2. ~(Len(u) < Len(c))
    <3> SUFFICES ASSUME Len(u) < Len(c) PROVE FALSE
      OBVIOUS
    <3>1. Len(u) + 1 \in 1..Len(c) /\ Len(u) + 1 \in 1..(Len(c) + 1) /\ Len(u) + 1 # Len(c) + 1
      BY <1>5
    <3> QED
      BY <1>2, <1>5, <1>6, <3>1
  <2>3. Len(u) = Len(c)
    BY <1>5, <2>1, <2>2
  <2>4. ASSUME NEW k \in 1..Len(u) PROVE u[k] = c[k]
    <3>1. k \in 1..(Len(c) + 1) /\ k # Len(c) + 1
      BY <1>5, <2>3
    <3> QED
      BY <1>2, <1>6, <3>1
  <2> QED
    BY <2>3, <2>4, SeqEqual
<1>7. IsPrefix(y, z) => u = c
  <2> SUFFICES ASSUME IsPrefix(y, z) PROVE u = c
    OBVIOUS
  <2>1. Len(y) <= Len(z) /\ \A k \in 1..Len(y) : y[k] = z[k]
    <3>1. y \in Seq(S) /\ z \in Seq(S)
      BY <1>2, <1>4
    <3>2. ASSUME NEW a \in Seq(S), NEW b \in Seq(S), IsPrefix(a, b)
          PROVE  Len(a) <= Len(b) /\ \A k \in 1..Len(a) : a[k] = b[k]
      BY <3>2, PrefixIs
    <3> QED
      BY <3>1, <3>2
  <2>2. ASSUME NEW k \in 1..(Len(c) + 1)
        PROVE  z[k] = IF k = Len(c) + 1 THEN Colon ELSE c[k]
    <3>1. k \in 1..Len(y) /\ (k = Len(c) + 1 \/ k \in 1..Len(c))
      BY <1>4, <1>5
    <3>2. y[k] = z[k]
      BY <2>1, <3>1
    <3> QED
      BY <1>4, <3>1, <3>2
  <2>3. Len(c) + 1 <= Len(z)
    BY <1>4, <2>1
  <2> QED
    BY <1>6, <2>2, <2>3
<1>8. u = c => IsPrefix(y, z)
  <2> SUFFICES ASSUME u = c PROVE IsPrefix(y, z)
    OBVIOUS
  <2>1. Len(y) <= Len(z)
    BY <1>2, <1>4, <1>5
  <2>2. \A k \in 1..Len(y) : k = Len(c) + 1 \/ k \in 1..Len(c)
    BY <1>4, <1>5
  <2> QED
    BY <1>2, <1>4, <2>1, <2>2, PrefixIs
<1>9. z = x => u = c /\ p = w
  <2> SUFFICES ASSUME z = x PROVE u = c /\ p = w
    OBVIOUS
  <2>1. u = c
    <3>1. \A k \in 1..(Len(c) + 1) : k = Len(c) + 1 \/ (k \in 1..Len(c) /\ k # Len(c) + 1)
      BY <1>5
    <3>2. Len(c) + 1 <= Len(z)
      BY <1>3, <1>5
    <3> QED
      BY <1>3, <1>6, <3>1, <3>2
  <2>2. Len(p) = Len(w) /\ \A k \in 1..Len(p) : p[k] = w[k]
    BY <1>2, <1>3, <1>5, <2>1
  <2> QED
    BY <2>1, <2>2, SeqEqual
<1>10. z = LineOf(u, p) /\ x = LineOf(c, w) /\ y = Begin(c)
  BY DEF x, y, z, LineOf, Begin
<1>11. (IsPrefix(y, z) <=> u = c) /\ (z = x <=> u = c /\ p = w)
  <2>1. u = c /\ p = w => z = x
    BY DEF x, z
  <2> QED
    BY <1>7, <1>8, <1>9, <2>1
<1> QED
  BY <1>10, <1>11

(* What fgets makes of a file whose lines fit. *)
LEMMA LinesAre ==
  ASSUME passfile \in Seq(Entry), LinesFit
  PROVE  /\ DOMAIN Lines = DOMAIN passfile /\ Len(Lines) = Len(passfile)
         /\ \A l \in DOMAIN passfile :
              Lines[l] = passfile[l].user \o <<Colon>> \o passfile[l].pw
<1> DEFINE S == Char \cup {Colon, Newline}
           t == [l \in DOMAIN passfile |-> Text(passfile[l])]
           Joined(e) == e.user \o <<Colon>> \o e.pw
<1>1. ASSUME NEW e \in Entry
      PROVE  /\ Text(e) \in Seq(S) /\ Len(Text(e)) # 0
             /\ Front(Text(e)) = Joined(e)
  <2>1. PICK z : z = Joined(e)
    OBVIOUS
  <2>2. z \in Seq(Char \cup {Colon})
    <3>1. e.user \in Seq(Char) /\ e.pw \in Seq(Char)
      <4>1. e.user \in Seq(Char \ {Colon}) /\ e.pw \in Seq(Char)
        BY PasswordAssumption DEF Entry
      <4> QED
        BY <4>1
    <3> QED
      BY <2>1, <3>1, JoinedIs
  <2>3. z \in Seq(S) /\ Newline \in S /\ <<Newline>> \in Seq(S)
    BY <2>2
  <2> HIDE DEF S
  <2>4. PICK y : y = z \o <<Newline>>
    OBVIOUS
  <2>5. /\ y \in Seq(S) /\ Len(y) = Len(z) + 1
        /\ \A k \in 1..Len(z) : y[k] = z[k]
    BY <2>3, <2>4
  <2>6. Front(y) = z
    <3>1. Len(y) - 1 = Len(z) /\ Len(z) \in Nat
      BY <2>3, <2>5
    <3>2. /\ 1 \in Int /\ Len(z) \in Int /\ \A k \in 1..Len(z) : y[k] \in S
          /\ \A k \in 1..Len(z) : 1 + k - 1 = k
      BY <2>3, <2>5
    <3>3. PICK f : f = SubSeq(y, 1, Len(z))
      OBVIOUS
    <3>4. f \in Seq(S) /\ Len(f) = Len(z) /\ \A k \in 1..Len(z) : f[k] = y[k]
      <4>1. /\ f \in Seq(S)
            /\ Len(f) = IF 1 <= Len(z) THEN Len(z) - 1 + 1 ELSE 0
            /\ \A k \in 1..(Len(z) - 1 + 1) : f[k] = y[1 + k - 1]
        BY <3>2, <3>3, SubSeqProperties
      <4> QED
        BY <3>1, <4>1
    <3>5. f = z
      BY <2>3, <2>5, <3>4, SeqEqual
    <3> QED
      BY <3>1, <3>3, <3>5 DEF Front
  <2>7. Text(e) = y
    BY <2>1, <2>4 DEF Text
  <2>8. Len(z) \in Nat
    BY <2>3
  <2> HIDE DEF Joined
  <2>9. Len(y) # 0
    BY <2>5, <2>8
  <2>10. Front(Text(e)) = Joined(e)
    BY <2>1, <2>6, <2>7
  <2> QED
    BY <2>5, <2>7, <2>9, <2>10
<1> HIDE DEF S, Joined
<1>2. /\ t \in Seq(Seq(S)) /\ DOMAIN t = DOMAIN passfile /\ Len(t) = Len(passfile)
      /\ \A l \in DOMAIN passfile : t[l] = Text(passfile[l]) /\ passfile[l] \in Entry
  <2>1. \A l \in DOMAIN passfile : passfile[l] \in Entry /\ Text(passfile[l]) \in Seq(S)
    BY <1>1
  <2>2. DOMAIN passfile = 1..Len(passfile) /\ Len(passfile) \in Nat
    OBVIOUS
  <2>3. \A l \in DOMAIN passfile : t[l] = Text(passfile[l])
    OBVIOUS
  <2>4. t \in [DOMAIN passfile -> Seq(S)] /\ DOMAIN t = DOMAIN passfile
    BY <2>1
  <2> HIDE DEF t
  <2>5. t \in [1..Len(passfile) -> Seq(S)]
    BY <2>2, <2>4
  <2>6. t \in Seq(Seq(S)) /\ Len(t) = Len(passfile)
    BY <2>2, <2>5
  <2> QED
    BY <2>1, <2>3, <2>4, <2>6
<1> HIDE DEF t
<1>3. \A l \in 1..Len(t) : Len(t[l]) # 0 /\ Len(t[l]) < MAXLINE - 1
  <2> SUFFICES ASSUME NEW l \in 1..Len(t)
               PROVE  Len(t[l]) # 0 /\ Len(t[l]) < MAXLINE - 1
    OBVIOUS
  <2>1. l \in DOMAIN passfile
    BY <1>2
  <2>2. Len(t[l]) # 0 /\ Len(t[l]) <= MAXLINE - 2 /\ Len(t[l]) \in Nat
    BY <1>1, <1>2, <2>1 DEF LinesFit
  <2> QED
    BY <2>2, PasswordAssumption
<1>4. MAXLINE - 1 \in Nat
  BY PasswordAssumption
<1>5. Lines = [l \in DOMAIN t |-> Front(t[l])]
  <2>1. Lines = Pieces(t, MAXLINE - 1)
    BY DEF Lines, t
  <2> QED
    BY <1>2, <1>3, <1>4, <2>1, PiecesWhole
<1>6. Len(Lines) = Len(passfile)
  BY <1>2, <1>5
<1>7. \A l \in DOMAIN passfile : Lines[l] = Joined(passfile[l])
  BY <1>1, <1>2, <1>5
<1> QED
  BY <1>2, <1>5, <1>6, <1>7 DEF Joined

(* What a line says to validate, if the lines fit. *)
LEMMA LineSays ==
  ASSUME passfile \in Seq(Entry), LinesFit, NEW l \in DOMAIN passfile,
         userid \in Seq(Char \ {Colon}), password \in Seq(Char)
  PROVE  /\ SameUser(Lines[l]) <=> passfile[l].user = userid
         /\ Lines[l] = Wanted <=> passfile[l].user = userid /\ passfile[l].pw = password
<1>1. PICK u \in User, p \in Password :
        u = passfile[l].user /\ p = passfile[l].pw
  <2>1. passfile[l] \in Entry
    OBVIOUS
  <2> QED
    BY <2>1, PasswordAssumption DEF Entry, User, Password
<1>2. Lines[l] = LineOf(u, p)
  BY <1>1, LinesAre DEF LineOf
<1>3. /\ IsPrefix(Begin(userid), LineOf(u, p)) <=> u = userid
      /\ LineOf(u, p) = LineOf(userid, password) <=> u = userid /\ p = password
  <2>1. userid \in User /\ password \in Password
    BY DEF User, Password
  <2> QED
    BY <2>1, JoinedOnce
<1>4. /\ SameUser(Lines[l]) <=> IsPrefix(Begin(userid), Lines[l])
      /\ Wanted = LineOf(userid, password)
  BY DEF SameUser, Wanted, Begin, LineOf
<1> QED
  BY <1>1, <1>2, <1>3, <1>4

-----------------------------------------------------------------------------
(* checkpasswd and validate. *)

PassTypes ==
  /\ check \in {"none", "write_id", "write_pw", "close", "wait", "ended"}
  /\ child \in {"none", "dup2", "exec", "read_id", "read_pw", "open", "scan", "ended"}
  /\ check = "none" <=> child = "none"
  /\ check # "none" => typed \in Ids \X Passwords /\ passfile \in Seq(Entry)
  /\ readable \in BOOLEAN /\ passfaults \in Nat

(* The parent stays a writer of the pipe until it has written both chunks, *)
(* unless it fails.                                                        *)
Writing ==
  /\ check \in {"write_id", "write_pw", "close"} => "check" \in writers
  /\ check = "ended" /\ child # "ended" => passfaults > 0

(* The parent may have written m chunks. *)
Sent(m) == \/ check = "ended"
           \/ check = "write_id" /\ m = 0
           \/ check = "write_pw" /\ m = 1
           \/ check \in {"close", "wait"} /\ m = 2

(* What the child has read is what has been sent, less what is in the pipe.*)
Received ==
  LET c1 == Chunk(typed[1])
      c2 == Chunk(typed[2])
  IN /\ child = "none" => pipe = <<>>
     /\ child \in {"dup2", "exec", "read_id"} =>
          \/ Sent(0) /\ pipe = <<>>
          \/ Sent(1) /\ pipe = <<c1>>
          \/ Sent(2) /\ pipe = <<c1, c2>>
     /\ child = "read_pw" =>
          /\ userid = c1
          /\ \/ Sent(1) /\ pipe = <<>>
             \/ Sent(2) /\ pipe = <<c2>>
     /\ child \in {"open", "scan"} => userid = c1 /\ password = c2

(* Line k of the file is the first one of user id, or the k - 1 lines      *)
(* before it are not about id.                                             *)
NotBefore(k, id) == \A j \in 1..(k - 1) : passfile[j].user # id
First(k, id) == k \in DOMAIN passfile /\ passfile[k].user = id /\ NotBefore(k, id)

(* validate only answers for a file it could read.  If the lines fit, the  *)
(* scan has passed over lines of other users only, and it ends with what   *)
(* the first line of the user says.                                        *)
Scanned ==
  LET c1 == Chunk(typed[1])
      c2 == Chunk(typed[2])
  IN /\ child = "scan" => readable
     /\ child \in {"none", "dup2", "exec"} => ~executed
     /\ executed /\ status \in {"0", "2", "3"} => readable
     /\ LinesFit =>
          /\ child = "scan" => line \in 1..(Len(passfile) + 1) /\ NotBefore(line, c1)
          /\ executed /\ status = "0" =>
               \E k \in DOMAIN passfile : First(k, c1) /\ passfile[k].pw = c2
          /\ executed /\ status = "2" =>
               \E k \in DOMAIN passfile : First(k, c1) /\ passfile[k].pw # c2
          /\ executed /\ status = "3" => NotBefore(Len(passfile) + 1, c1)

(* The exit status, and the verdict that checkpasswd makes of it. *)
Judged ==
  /\ child # "ended" => status = "none"
  /\ child = "ended" => status \in {"killed", "0", "1", "2", "3"}
  /\ status = "killed" => passfaults > 0
  /\ status = "1" => ~readable \/ passfaults > 0
  /\ check # "ended" => verdict = "none"
  /\ check = "ended" => \/ verdict = "none" /\ passfaults > 0
                        \/ child = "ended" /\ verdict = Verdict

PassInv == PassTypes /\ Writing /\ Received /\ Scanned /\ Judged

LEMMA PassInitInv == PassInit => PassInv
<1> SUFFICES ASSUME PassInit PROVE PassInv
  OBVIOUS
<1> USE DEF PassInit, file
<1>1. PassTypes /\ Writing
  BY DEF PassTypes, Writing
<1>2. Received /\ Scanned /\ Judged
  BY DEF Received, Sent, Scanned, Judged
<1> QED
  BY <1>1, <1>2 DEF PassInv

(* A step that does not concern the file and the child. *)
LEMMA ScannedStays ==
  ASSUME Scanned,
         UNCHANGED <<typed, passfile, readable, child, executed, status, line>>
  PROVE  Scanned'
BY DEF Scanned, LinesFit, First, NotBefore, Chunk

LEMMA PassStartInv ==
  ASSUME PassInv, PassStart
  PROVE  PassInv'
<1> USE DEF PassInv, PassStart
<1>1. passfile' \in Seq(Entry)
  BY DEF SeqOf, PasswordAssumption
<1>2. PassTypes' /\ Writing'
  BY <1>1 DEF PassTypes, Writing
<1>3. child = "none" /\ pipe' = <<>>
  BY DEF PassTypes, Received
<1>4. Received'
  BY <1>3 DEF Received, Sent
<1>5. Scanned'
  BY <1>3 DEF Scanned, LinesFit
<1>6. Judged'
  BY <1>3 DEF Judged
<1> QED
  BY <1>2, <1>4, <1>5, <1>6

LEMMA TwoChunks ==
  ASSUME NEW c, NEW d
  PROVE  Append(<<c>>, d) = <<c, d>>
<1>1. <<c>> \in Seq({c, d}) /\ Len(<<c>>) = 1 /\ <<c>>[1] = c
  OBVIOUS
<1>2. PICK q : q = Append(<<c>>, d)
  OBVIOUS
<1>3. q \in Seq({c, d}) /\ Len(q) = 2 /\ q[1] = c /\ q[2] = d
  BY <1>1, <1>2, AppendProperties
<1>4. q = <<c, d>>
  BY <1>3
<1> QED
  BY <1>2, <1>4

LEMMA WriteInv ==
  ASSUME PassInv, Write
  PROVE  PassInv'
<1> USE DEF PassInv, Write, file
<1> DEFINE c1 == Chunk(typed[1])
           c2 == Chunk(typed[2])
<1>1. PassTypes' /\ Writing' /\ Judged'
  BY DEF PassTypes, Writing, Judged
<1>2. Scanned'
  BY ScannedStays
<1>3. /\ Append(<<>>, c1) = <<c1>> /\ Append(<<>>, c2) = <<c2>>
      /\ Append(<<c1>>, c2) = <<c1, c2>>
  <2>1. Append(<<>>, c1) = <<c1>>
    OBVIOUS
  <2>2. Append(<<>>, c2) = <<c2>>
    OBVIOUS
  <2> QED
    BY <2>1, <2>2, TwoChunks
<1>4. typed' = typed /\ UNCHANGED <<child, userid, password>>
  OBVIOUS
<1>5. CASE check = "write_id"
  <2>1. pipe' = Append(pipe, c1) /\ check' = "write_pw"
    BY <1>5
  <2>2. Sent(0) /\ ~Sent(1) /\ ~Sent(2) /\ Sent(1)'
    BY <1>5, <2>1 DEF Sent
  <2>3. Received'
    BY <1>3, <1>4, <2>1, <2>2 DEF Received, PassTypes
  <2> QED
    BY <1>1, <1>2, <2>3
<1>6. CASE check = "write_pw"
  <2>1. pipe' = Append(pipe, c2) /\ check' = "close"
    BY <1>6
  <2>2. Sent(1) /\ ~Sent(0) /\ ~Sent(2) /\ Sent(2)'
    BY <1>6, <2>1 DEF Sent
  <2>3. Received'
    BY <1>3, <1>4, <2>1, <2>2 DEF Received, PassTypes
  <2> QED
    BY <1>1, <1>2, <2>3
<1> QED
  BY <1>5, <1>6

LEMMA CloseBothInv ==
  ASSUME PassInv, CloseBoth
  PROVE  PassInv'
<1> USE DEF PassInv, CloseBoth, file
<1>1. PassTypes' /\ Writing' /\ Judged'
  BY DEF PassTypes, Writing, Judged
<1>2. Scanned'
  BY ScannedStays
<1>3. Received'
  BY DEF Received, Sent, PassTypes
<1> QED
  BY <1>1, <1>2, <1>3

LEMMA WaitForChildInv ==
  ASSUME PassInv, WaitForChild
  PROVE  PassInv'
<1> USE DEF PassInv, WaitForChild, file
<1>1. PassTypes' /\ Writing'
  BY DEF PassTypes, Writing
<1>2. Judged'
  BY DEF Judged, Verdict
<1>3. Scanned'
  BY ScannedStays
<1>4. Received'
  BY DEF Received
<1> QED
  BY <1>1, <1>2, <1>3, <1>4

LEMMA Dup2Inv ==
  ASSUME PassInv, Dup2
  PROVE  PassInv'
<1> USE DEF PassInv, Dup2, ChildKeeps, file
<1>1. PassTypes' /\ Writing' /\ Judged'
  BY DEF PassTypes, Writing, Judged, Verdict
<1>2. Scanned'
  BY DEF Scanned, LinesFit, First, NotBefore, Judged
<1>3. Received'
  BY DEF Received, Sent
<1> QED
  BY <1>1, <1>2, <1>3

LEMMA ExecInv ==
  ASSUME PassInv, Exec
  PROVE  PassInv'
<1> USE DEF PassInv, Exec, file
<1>1. PassTypes' /\ Writing' /\ Judged'
  BY DEF PassTypes, Writing, Judged, Verdict
<1>2. Scanned'
  BY DEF Scanned, LinesFit, Judged
<1>3. Received'
  BY DEF Received, Sent
<1> QED
  BY <1>1, <1>2, <1>3

LEMMA ReadInv ==
  ASSUME PassInv, Read
  PROVE  PassInv'
<1> USE DEF PassInv, ChildEnds, file
<1> DEFINE c1 == Chunk(typed[1])
           c2 == Chunk(typed[2])
<1>1. /\ UNCHANGED <<typed, passfile, readable, check, verdict, executed, line, passfaults>>
      /\ child \in {"read_id", "read_pw"}
  BY DEF Read
<1>2. CASE child = "read_id" /\ pipe # <<>>
  <2>1. /\ userid' = Head(pipe) /\ pipe' = Tail(pipe) /\ child' = "read_pw"
        /\ UNCHANGED <<password, status, writers>>
    BY <1>2 DEF Read
  <2>2. PassTypes' /\ Writing' /\ Judged'
    BY <1>1, <1>2, <2>1 DEF PassTypes, Writing, Judged
  <2>3. Scanned'
    BY <1>1, <1>2, <2>1 DEF Scanned, LinesFit, Judged
  <2>4. \/ Sent(1) /\ pipe = <<c1>>
        \/ Sent(2) /\ pipe = <<c1, c2>>
    BY <1>2 DEF Received
  <2>5. Head(<<c1>>) = c1 /\ Tail(<<c1>>) = <<>>
    OBVIOUS
  <2>6. Head(<<c1, c2>>) = c1 /\ Tail(<<c1, c2>>) = <<c2>>
    OBVIOUS
  <2>7. CASE Sent(1) /\ pipe = <<c1>>
    <3>1. userid' = c1 /\ pipe' = <<>>
      BY <2>1, <2>5, <2>7
    <3> QED
      BY <1>1, <2>1, <2>2, <2>3, <2>7, <3>1 DEF Received, Sent
  <2>8. CASE Sent(2) /\ pipe = <<c1, c2>>
    <3>1. userid' = c1 /\ pipe' = <<c2>>
      BY <2>1, <2>6, <2>8
    <3> QED
      BY <1>1, <2>1, <2>2, <2>3, <2>8, <3>1 DEF Received, Sent
  <2> QED
    BY <2>4, <2>7, <2>8
<1>3. CASE child = "read_pw" /\ pipe # <<>>
  <2>1. /\ password' = Head(pipe) /\ pipe' = Tail(pipe) /\ child' = "open"
        /\ UNCHANGED <<userid, status, writers>>
    BY <1>3 DEF Read
  <2>2. PassTypes' /\ Writing' /\ Judged'
    BY <1>1, <1>3, <2>1 DEF PassTypes, Writing, Judged
  <2>3. Scanned'
    BY <1>1, <1>3, <2>1 DEF Scanned, LinesFit, Judged
  <2>4. userid = c1 /\ pipe = <<c2>>
    BY <1>3 DEF Received
  <2>5. Head(<<c2>>) = c2
    OBVIOUS
  <2>6. Received'
    BY <1>1, <2>1, <2>4, <2>5 DEF Received
  <2> QED
    BY <2>2, <2>3, <2>6
<1>4. CASE pipe = <<>>
  <2>1. /\ writers = {} /\ child' = "ended" /\ status' = "1"
        /\ UNCHANGED <<pipe, userid, password>> /\ writers' = writers \ {"child"}
    BY <1>4 DEF Read
  <2>2. check \notin {"none", "write_id", "write_pw", "close"}
    BY <1>1, <2>1 DEF PassTypes, Writing
  <2>3. check # "wait"
    <3>1. <<c1, c2>> # <<>> /\ <<c2>> # <<>>
      OBVIOUS
    <3> QED
      BY <1>1, <1>4, <3>1 DEF Received, Sent
  <2>4. passfaults > 0
    BY <1>1, <2>2, <2>3 DEF PassTypes, Writing
  <2>5. PassTypes' /\ Writing' /\ Judged'
    BY <1>1, <2>1, <2>2, <2>3, <2>4 DEF PassTypes, Writing, Judged
  <2>6. Scanned'
    BY <1>1, <2>1 DEF Scanned, LinesFit
  <2>7. Received'
    BY <2>1 DEF Received
  <2> QED
    BY <2>5, <2>6, <2>7
<1> QED
  BY <1>1, <1>2, <1>3, <1>4

LEMMA OpenInv ==
  ASSUME PassInv, Open
  PROVE  PassInv'
<1> USE DEF PassInv, Open, ChildEnds, file
<1>1. PassTypes' /\ Writing' /\ Judged'
  BY DEF PassTypes, Writing, Judged, Verdict
<1>2. passfile \in Seq(Entry)
  BY DEF PassTypes
<1>3. Scanned'
  BY <1>2 DEF Scanned, LinesFit, NotBefore, Judged
<1>4. Received'
  BY DEF Received
<1> QED
  BY <1>1, <1>3, <1>4

(* What arrives of a name is made of the characters of the name. *)
LEMMA ChunkType ==
  ASSUME NEW S, NEW s \in Seq(S)
  PROVE  Chunk(s) \in Seq(S)
<1> DEFINE m == IF Len(s) < MAX_PASSWORD THEN Len(s) ELSE MAX_PASSWORD
<1>1. m \in Int /\ \A k \in 1..m : s[k] \in S
  BY PasswordAssumption
<1> HIDE DEF m
<1>2. Chunk(s) = SubSeq(s, 1, m)
  BY DEF Chunk, m
<1> QED
  BY <1>1, <1>2, SubSeqProperties

LEMMA ScanInv ==
  ASSUME PassInv, Scan
  PROVE  PassInv'
<1> USE DEF PassInv, ChildEnds, file
<1> DEFINE c1 == Chunk(typed[1])
           c2 == Chunk(typed[2])
<1>1. /\ UNCHANGED <<typed, passfile, readable, check, verdict, executed, pipe,
                     userid, password, passfaults>>
      /\ child = "scan"
  BY DEF Scan
<1>2. /\ passfile \in Seq(Entry) /\ readable
      /\ userid = c1 /\ password = c2
      /\ c1 \in Seq(Char \ {Colon}) /\ c2 \in Seq(Char)
  <2>1. typed[1] \in Seq(Char \ {Colon}) /\ typed[2] \in Seq(Char)
    BY <1>1, PasswordAssumption DEF PassTypes
  <2> QED
    BY <1>1, <2>1, ChunkType DEF PassTypes, Scanned, Received
<1>3. \/ child' = "scan" /\ UNCHANGED <<status, writers>>
      \/ /\ child' = "ended" /\ status' \in {"0", "2", "3"}
         /\ writers' = writers \ {"child"}
  BY <1>1 DEF Scan
<1>4. PassTypes' /\ Writing' /\ Judged' /\ Received'
  BY <1>1, <1>3 DEF PassTypes, Writing, Judged, Received
<1>5. (c1)' = c1 /\ (c2)' = c2
  BY <1>1
<1>6. status = "none"
  BY <1>1 DEF Judged
<1>7. ASSUME LinesFit
      PROVE  /\ child' = "scan" =>
                  line' \in 1..(Len(passfile) + 1) /\ NotBefore(line', c1)
             /\ status' = "0" =>
                  \E k \in DOMAIN passfile : First(k, c1) /\ passfile[k].pw = c2
             /\ status' = "2" =>
                  \E k \in DOMAIN passfile : First(k, c1) /\ passfile[k].pw # c2
             /\ status' = "3" => NotBefore(Len(passfile) + 1, c1)
  <2>1. Len(Lines) = Len(passfile) /\ line \in 1..(Len(passfile) + 1) /\ NotBefore(line, c1)
    BY <1>1, <1>2, <1>7, LinesAre DEF Scanned
  <2>2. CASE line > Len(passfile)
    <3>1. child' = "ended" /\ status' = "3" /\ line = Len(passfile) + 1
      BY <1>1, <1>2, <2>1, <2>2 DEF Scan
    <3> QED
      BY <2>1, <3>1
  <2>3. CASE ~(line > Len(passfile))
    <3> DEFINE e == passfile[line]
    <3>1. line \in DOMAIN passfile /\ ~(line > Len(Lines))
      BY <1>2, <2>1, <2>3
    <3>2. /\ SameUser(Lines[line]) <=> e.user = c1
          /\ Lines[line] = Wanted <=> e.user = c1 /\ e.pw = c2
      BY <1>2, <1>7, <3>1, LineSays
    <3> HIDE DEF e
    <3>3. \/ child' = "ended" /\ status' = "0" /\ Lines[line] = Wanted
          \/ /\ child' = "ended" /\ status' = "2"
             /\ Lines[line] # Wanted /\ SameUser(Lines[line])
          \/ /\ child' = "scan" /\ status' = status /\ line' = line + 1
             /\ ~SameUser(Lines[line])
      BY <1>1, <3>1 DEF Scan
    <3>4. CASE child' = "scan"
      <4>1. e.user # c1 /\ line' = line + 1 /\ status' = "none"
        BY <1>6, <3>2, <3>3, <3>4
      <4>2. NotBefore(line + 1, c1) /\ line + 1 \in 1..(Len(passfile) + 1)
        BY <1>2, <2>1, <3>1, <4>1 DEF NotBefore, e
      <4> QED
        BY <4>1, <4>2
    <3>5. CASE child' = "ended"
      <4>1. /\ e.user = c1
            /\ (status' = "0" /\ e.pw = c2) \/ (status' = "2" /\ e.pw # c2)
        BY <3>2, <3>3, <3>5
      <4>2. First(line, c1)
        BY <2>1, <3>1, <4>1 DEF First, e
      <4> QED
        BY <3>1, <3>5, <4>1, <4>2 DEF e
    <3> QED
      BY <1>3, <3>4, <3>5
  <2> QED
    BY <2>2, <2>3
<1>8. Scanned'
  <2>1. LinesFit' = LinesFit
    BY <1>1 DEF LinesFit
  <2>2. /\ \A k : NotBefore(k, c1)' = NotBefore(k, c1)
        /\ \A k : First(k, c1)' = First(k, c1)
    BY <1>1 DEF NotBefore, First
  <2>3. NotBefore(line, c1)' = NotBefore(line', c1)
    BY <1>1 DEF NotBefore
  <2> QED
    BY <1>1, <1>2, <1>3, <1>5, <1>7, <2>1, <2>2, <2>3 DEF Scanned
<1> QED
  BY <1>4, <1>8

LEMMA PassFaultInv ==
  ASSUME PassInv, PassFault
  PROVE  PassInv'
<1> USE DEF PassInv, file
<1>1. /\ UNCHANGED <<typed, passfile, readable, verdict, executed, pipe, userid,
                     password, line>>
      /\ passfaults \in Nat /\ passfaults' = passfaults + 1
  BY DEF PassFault, PassTypes
<1>2. CASE CheckFault
  <2>1. PassTypes' /\ Writing' /\ Judged'
    BY <1>1, <1>2 DEF CheckFault, PassTypes, Writing, Judged
  <2>2. Scanned'
    BY <1>1, <1>2, ScannedStays DEF CheckFault
  <2>3. Received'
    BY <1>1, <1>2 DEF CheckFault, Received, Sent
  <2> QED
    BY <2>1, <2>2, <2>3
<1>3. CASE ChildFault
  <2>1. /\ child # "none" /\ child' = "ended" /\ UNCHANGED check
        /\ child # "ended"
        /\ writers' = writers \ {"child"}
        /\ \/ status' = "killed"
           \/ status' = "1"
           \/ status' = "0" /\ child = "exec"
    BY <1>3 DEF ChildFault, ChildEnds
  <2>2. PassTypes' /\ Writing' /\ Judged'
    BY <1>1, <2>1 DEF PassTypes, Writing, Judged
  <2>3. Scanned'
    BY <1>1, <2>1 DEF Scanned, LinesFit
  <2>4. Received'
    BY <2>1 DEF Received
  <2> QED
    BY <2>2, <2>3, <2>4
<1> QED
  BY <1>2, <1>3 DEF PassFault

LEMMA PassStepInv == PassInv /\ [PassNext]_passVars => PassInv'
<1> SUFFICES ASSUME PassInv, [PassNext]_passVars PROVE PassInv'
  OBVIOUS
<1>1. CASE UNCHANGED passVars
  <2>1. UNCHANGED <<typed, passfile, readable, check, verdict, child, status, executed, pipe,
                    writers, userid, password, line, passfaults>>
    BY <1>1 DEF passVars, file
  <2>2. PassTypes' /\ Writing' /\ Judged'
    BY <2>1 DEF PassInv, PassTypes, Writing, Judged, Verdict
  <2>3. Scanned' /\ Received'
    BY <2>1, ScannedStays DEF PassInv, Received, Sent
  <2> QED
    BY <2>2, <2>3 DEF PassInv
<1>2. CASE PassStart
  BY <1>2, PassStartInv
<1>3. CASE Checkpasswd
  BY <1>3, WriteInv, CloseBothInv, WaitForChildInv DEF Checkpasswd
<1>4. CASE Validate
  BY <1>4, Dup2Inv, ExecInv, ReadInv, OpenInv, ScanInv DEF Validate
<1>5. CASE PassFault
  BY <1>5, PassFaultInv
<1> QED
  BY <1>1, <1>2, <1>3, <1>4, <1>5 DEF PassNext

-----------------------------------------------------------------------------
(* What the invariant says of the verdict. *)

(* A name that fits arrives whole. *)
LEMMA WholeChunk ==
  ASSUME NEW s \in Seq(Char), Fits(s)
  PROVE  Chunk(s) = s
<1>1. Len(s) \in Nat /\ Chunk(s) = SubSeq(s, 1, Len(s))
  BY PasswordAssumption DEF Fits, Chunk
<1> QED
  BY <1>1

(* Answer goes by the first line of the user. *)
LEMMA AnswerOfFirst ==
  ASSUME passfile \in Seq(Entry), NEW id, NEW pw, NEW k, First(k, id)
  PROVE  Answer(id, pw) = IF passfile[k].pw = pw THEN "SUCCESS" ELSE "INVALID"
<1> DEFINE mine == {j \in DOMAIN passfile : passfile[j].user = id}
<1>1. k \in mine /\ mine \subseteq Nat
  BY DEF First
<1>2. \A j \in mine : k <= j
  BY DEF First, NotBefore
<1>3. Min(mine) = k
  BY <1>1, <1>2 DEF Min
<1> QED
  BY <1>1, <1>3 DEF Answer

LEMMA AnswerOfNone ==
  ASSUME passfile \in Seq(Entry), NEW id, NEW pw, NotBefore(Len(passfile) + 1, id)
  PROVE  Answer(id, pw) = "NO_USER"
<1>1. {j \in DOMAIN passfile : passfile[j].user = id} = {}
  BY DEF NotBefore
<1> QED
  BY <1>1 DEF Answer

LEMMA VerdictFollows == PassInv => VerdictTrue
<1> SUFFICES ASSUME PassInv, check = "ended" PROVE VerdictTrue
  BY DEF VerdictTrue
<1> USE DEF PassInv
<1>1. passfile \in Seq(Entry) /\ typed[1] \in Seq(Char) /\ typed[2] \in Seq(Char)
  <2>1. passfile \in Seq(Entry) /\ typed[1] \in Seq(Char \ {Colon}) /\ typed[2] \in Seq(Char)
    BY PasswordAssumption DEF PassTypes
  <2> QED
    BY <2>1
<1>2. \/ verdict = "none" /\ passfaults > 0
      \/ child = "ended" /\ verdict = Verdict
  BY DEF Judged
<1>3. verdict = "none" => passfaults > 0
  BY <1>2 DEF Judged, Verdict
<1>4. verdict = "ERROR" => ~readable \/ passfaults > 0
  BY <1>2 DEF Judged, Verdict
<1>5. ASSUME executed, verdict \in {"SUCCESS", "INVALID", "NO_USER"},
             Fits(typed[1]), Fits(typed[2]), LinesFit
      PROVE  readable /\ verdict = Answer(typed[1], typed[2])
  <2>1. Chunk(typed[1]) = typed[1] /\ Chunk(typed[2]) = typed[2]
    BY <1>1, <1>5, WholeChunk
  <2>2. verdict = Verdict
    BY <1>2, <1>5
  <2>3. CASE status = "0"
    <3>1. PICK k \in DOMAIN passfile : First(k, typed[1]) /\ passfile[k].pw = typed[2]
      BY <1>5, <2>1, <2>3 DEF Scanned
    <3> QED
      BY <1>1, <1>5, <2>2, <2>3, <3>1, AnswerOfFirst DEF Scanned, Verdict
  <2>4. CASE status = "2"
    <3>1. PICK k \in DOMAIN passfile : First(k, typed[1]) /\ passfile[k].pw # typed[2]
      BY <1>5, <2>1, <2>4 DEF Scanned
    <3> QED
      BY <1>1, <1>5, <2>2, <2>4, <3>1, AnswerOfFirst DEF Scanned, Verdict
  <2>5. CASE status = "3"
    <3>1. readable /\ NotBefore(Len(passfile) + 1, typed[1])
      BY <1>5, <2>1, <2>5 DEF Scanned
    <3> QED
      BY <1>1, <2>2, <2>5, <3>1, AnswerOfNone DEF Verdict
  <2> QED
    BY <1>5, <2>2, <2>3, <2>4, <2>5 DEF Verdict
<1> QED
  BY <1>3, <1>4, <1>5 DEF VerdictTrue

(* For every password file whose lines fit the buffer of fgets, every pair *)
(* of typed names that fit a chunk, every schedule of the two processes    *)
(* and every fault: SUCCESS, INVALID and NO_USER are what the file says;   *)
(* and for every file an error or silence has a cause (checkpasswd.c:      *)
(* 39-67, validate.c:12-22, 68-86).                                        *)
THEOREM VerdictIsTrue == Spec => []VerdictTrue
<1>1. Init => PassInv
  BY PassInitInv DEF Init
<1>2. PassInv /\ [Next]_vars => PassInv'
  BY OneProgram, PassStepInv
<1> QED
  BY <1>1, <1>2, VerdictFollows, PTL DEF Spec

-----------------------------------------------------------------------------
(* The recursion of strip_q_marks is a loop over the characters. *)
LEMMA StripLoop ==
  ASSUME NEW S, NEW s \in Seq(S)
  PROVE  \E f \in [0..Len(s) -> Nat] :
           /\ f[0] = 0
           /\ \A k \in 1..Len(s) : f[k] = IF s[k] = QuestionMark THEN f[k - 1] ELSE k
           /\ strip_q_marks(s) = [str |-> SubSeq(s, 1, f[Len(s)]),
                                  removed |-> Len(s) - f[Len(s)]]
<1> DEFINE n == Len(s)
           Body(g) == [k \in 0..n |-> IF k > 0 /\ s[k] = QuestionMark THEN g[k - 1] ELSE k]
           c == CHOOSE g : g = Body(g)
           X == Nat
           e == 0
           F == [k \in 1..n |-> [m \in Nat |-> IF s[k] = QuestionMark THEN m ELSE k]]
<1>1. n \in Nat /\ e \in X /\ F \in [1..n -> [X -> X]]
  OBVIOUS
<1>2. PICK f \in [0..n -> X] : IsLoop(f, e, n, F) /\ OnlyLoop(f, n)
  <2> HIDE DEF F, n, X, e
  <2> QED
    BY <1>1, LoopIs
<1>3. f[0] = 0 /\ \A k \in 1..n : f[k] = IF s[k] = QuestionMark THEN f[k - 1] ELSE k
  <2>1. \A k \in 1..n : k - 1 \in 0..n /\ f[k - 1] \in Nat
    OBVIOUS
  <2> QED
    BY <1>2, <2>1 DEF IsLoop
<1>4. f = Body(f)
  BY <1>3
<1>5. c = Body(c)
  <2> HIDE DEF Body
  <2> QED
    BY <1>4
<1>6. c[n] = f[n]
  <2>1. c[0] = f[0]
    BY <1>3, <1>5
  <2>2. \A k \in 1..n : c[k - 1] = f[k - 1] => c[k] = f[k]
    BY <1>3, <1>5
  <2> HIDE DEF c, Body, n
  <2> QED
    BY <1>1, <1>2, <2>1, <2>2 DEF OnlyLoop
<1>7. strip_q_marks(s) = [str |-> SubSeq(s, 1, c[n]), removed |-> n - c[n]]
  BY DEF strip_q_marks
<1> QED
  BY <1>3, <1>6, <1>7

(* What is left is the string up to the last character that stays. *)
LEMMA StripCorrect ==
  ASSUME NEW S, NEW s \in Seq(S)
  PROVE  StripAsDescribed(s)
<1> DEFINE n == Len(s)
<1>1. PICK f \in [0..n -> Nat] :
        /\ f[0] = 0
        /\ \A k \in 1..n : f[k] = IF s[k] = QuestionMark THEN f[k - 1] ELSE k
        /\ strip_q_marks(s) = [str |-> SubSeq(s, 1, f[n]), removed |-> n - f[n]]
  BY StripLoop
<1> DEFINE Kept(k) == /\ f[k] <= k
                      /\ f[k] > 0 => s[f[k]] # QuestionMark
                      /\ \A j \in (f[k] + 1)..k : s[j] = QuestionMark
           B == {k \in 0..n : Kept(k)}
<1>2. n \in Nat
  OBVIOUS
<1>3. Kept(n)
  <2>1. B \in SUBSET (0..n) /\ 0 \in B
    BY <1>1
  <2>2. ASSUME NEW k \in 1..n, k - 1 \in B PROVE k \in B
    <3>1. k \in 0..n /\ k - 1 \in 0..n /\ Kept(k - 1)
      BY <2>2
    <3>2. CASE s[k] = QuestionMark
      <4>1. f[k] = f[k - 1]
        BY <1>1, <3>2
      <4>2. \A j \in (f[k] + 1)..k : j \in (f[k - 1] + 1)..(k - 1) \/ j = k
        BY <4>1, <3>1
      <4>3. Kept(k)
        BY <3>1, <3>2, <4>1, <4>2
      <4> QED
        BY <3>1, <4>3
    <3>3. CASE s[k] # QuestionMark
      <4>1. f[k] = k
        BY <1>1, <3>3
      <4> QED
        BY <3>1, <3>3, <4>1
    <3> QED
      BY <3>2, <3>3
  <2> HIDE DEF B
  <2>3. \A k \in 0..n : k \in B
    BY <1>2, <2>1, <2>2, AllRounds
  <2> QED
    BY <1>2, <2>3 DEF B
<1> DEFINE m == f[n]
           r == strip_q_marks(s)
<1>4. m \in 0..n
  BY <1>2, <1>3
<1>5. r.str = SubSeq(s, 1, m) /\ r.removed = n - m
  BY <1>1
<1>6. /\ SubSeq(s, 1, m) \in Seq(S) /\ Len(SubSeq(s, 1, m)) = m
      /\ \A k \in 1..m : SubSeq(s, 1, m)[k] = s[k]
  <2> HIDE DEF m
  <2> QED
    BY <1>4, SubSeqProperties
<1>7. s = r.str \o [k \in 1..r.removed |-> QuestionMark]
  <2> DEFINE a == SubSeq(s, 1, m)
             q == [k \in 1..(n - m) |-> QuestionMark]
             T == S \cup {QuestionMark}
  <2>1. q \in Seq(T) /\ Len(q) = n - m /\ \A k \in 1..(n - m) : q[k] = QuestionMark
    BY <1>2, <1>4
  <2>2. a \in Seq(T) /\ s \in Seq(T) /\ Len(a) = m
    BY <1>6
  <2> HIDE DEF q, a, T
  <2>3. PICK z : z = a \o q
    OBVIOUS
  <2>4. z \in Seq(T) /\ Len(z) = n
    BY <1>4, <2>1, <2>2, <2>3, ConcatProperties
  <2>5. ASSUME NEW k \in 1..n PROVE z[k] = s[k]
    <3>1. z[k] = IF k <= m THEN a[k] ELSE q[k - m]
      BY <1>4, <2>1, <2>2, <2>3, ConcatProperties
    <3>2. CASE k <= m
      BY <1>4, <1>6, <3>1, <3>2 DEF a
    <3>3. CASE k > m
      <4>1. s[k] = QuestionMark
        BY <1>3, <1>4, <3>3
      <4>2. k - m \in 1..(n - m)
        BY <1>2, <1>4, <3>3
      <4>3. q[k - m] = QuestionMark
        BY <2>1, <4>2
      <4> QED
        BY <1>2, <1>4, <3>1, <3>3, <4>1, <4>3
    <3> QED
      BY <1>4, <3>2, <3>3
  <2>6. z = s
    BY <2>2, <2>4, <2>5, SeqEqual
  <2> QED
    BY <1>5, <2>3, <2>6 DEF a, q
<1>8. r.str # <<>> => Last(r.str) # QuestionMark
  <2>1. ASSUME m = 0 PROVE SubSeq(s, 1, m) = <<>>
    BY <2>1, <1>6
  <2>2. ASSUME m > 0 PROVE SubSeq(s, 1, m)[m] # QuestionMark
    BY <2>2, <1>3, <1>4, <1>6
  <2> QED
    BY <1>4, <1>5, <1>6, <2>1, <2>2 DEF Last
<1> QED
  BY <1>7, <1>8 DEF StripAsDescribed

-----------------------------------------------------------------------------
(* What AtMost leaves of a sequence. *)
LEMMA AtMostIs ==
  ASSUME NEW S, NEW s \in Seq(S), NEW m \in Nat
  PROVE  /\ AtMost(s, m) \in Seq(S)
         /\ Len(AtMost(s, m)) = IF Len(s) < m THEN Len(s) ELSE m
         /\ \A k \in 1..Len(AtMost(s, m)) : AtMost(s, m)[k] = s[k]
<1> DEFINE l == IF Len(s) < m THEN Len(s) ELSE m
<1>1. l \in Nat /\ l <= Len(s)
  OBVIOUS
<1> HIDE DEF l
<1>2. \A k \in 1..l : s[k] \in S
  BY <1>1
<1>3. /\ SubSeq(s, 1, l) \in Seq(S) /\ Len(SubSeq(s, 1, l)) = l
      /\ \A k \in 1..l : SubSeq(s, 1, l)[k] = s[k]
  BY <1>1, <1>2, SubSeqProperties
<1>4. AtMost(s, m) = SubSeq(s, 1, l)
  BY DEF AtMost, l
<1> QED
  BY <1>3, <1>4 DEF l

(* truncate.c:5-13, for every string and length. *)
LEMMA TruncateCorrect ==
  ASSUME NEW S, NEW s \in Seq(S), NEW amt \in Nat
  PROVE  TruncateAsDescribed(s, amt)
<1> DEFINE t == AtMost(s, amt)
<1>1. /\ t \in Seq(S) /\ Len(t) = IF Len(s) < amt THEN Len(s) ELSE amt
      /\ \A k \in 1..Len(t) : t[k] = s[k]
  BY AtMostIs
<1>2. /\ truncate(s, amt).str = t
      /\ truncate(s, amt).removed = IF Len(s) <= amt THEN 0 ELSE Len(s) - amt
  BY DEF truncate
<1> HIDE DEF t
<1>3. Len(s) \in Nat /\ Len(t) \in Nat /\ Len(t) <= Len(s)
  BY <1>1
<1>4. IsPrefix(t, s)
  <2>1. /\ SubSeq(t, 1, Len(t)) \in Seq(S) /\ Len(SubSeq(t, 1, Len(t))) = Len(t)
        /\ \A k \in 1..Len(t) : SubSeq(t, 1, Len(t))[k] = t[k]
    BY <1>1, <1>3, SubSeqProperties
  <2>2. /\ SubSeq(s, 1, Len(t)) \in Seq(S) /\ Len(SubSeq(s, 1, Len(t))) = Len(t)
        /\ \A k \in 1..Len(t) : SubSeq(s, 1, Len(t))[k] = s[k]
    BY <1>1, <1>3, SubSeqProperties
  <2>3. SubSeq(t, 1, Len(t)) = SubSeq(s, 1, Len(t))
    BY <1>1, <2>1, <2>2, SeqEqual
  <2> QED
    BY <1>3, <2>3 DEF IsPrefix
<1> QED
  BY <1>1, <1>2, <1>3, <1>4 DEF TruncateAsDescribed

(* Cutting the parts is cutting the whole. *)
LEMMA CutParts ==
  ASSUME NEW S, NEW a \in Seq(S), NEW b \in Seq(S), NEW m \in Nat
  PROVE  /\ AtMost(a, m) \o AtMost(b, m - Len(AtMost(a, m))) = AtMost(a \o b, m)
         /\ Len(AtMost(a \o b, m)) <= m
<1>1. PICK x : x = AtMost(a, m)
  OBVIOUS
<1>2. /\ x \in Seq(S) /\ Len(x) = IF Len(a) < m THEN Len(a) ELSE m
      /\ \A k \in 1..Len(x) : x[k] = a[k]
  BY <1>1, AtMostIs
<1>3. Len(a) \in Nat /\ Len(b) \in Nat /\ Len(x) \in Nat /\ m - Len(x) \in Nat
  BY <1>2
<1>4. PICK y : y = AtMost(b, m - Len(x))
  OBVIOUS
<1>5. /\ y \in Seq(S) /\ Len(y) = IF Len(b) < m - Len(x) THEN Len(b) ELSE m - Len(x)
      /\ \A k \in 1..Len(y) : y[k] = b[k]
  BY <1>3, <1>4, AtMostIs
<1>6. PICK w : w = a \o b
  OBVIOUS
<1>7. /\ w \in Seq(S) /\ Len(w) = Len(a) + Len(b)
      /\ \A k \in 1..(Len(a) + Len(b)) : w[k] = IF k <= Len(a) THEN a[k] ELSE b[k - Len(a)]
  BY <1>6, ConcatProperties
<1>8. PICK z : z = AtMost(w, m)
  OBVIOUS
<1>9. /\ z \in Seq(S) /\ Len(z) = IF Len(w) < m THEN Len(w) ELSE m
      /\ \A k \in 1..Len(z) : z[k] = w[k]
  BY <1>7, <1>8, AtMostIs
<1>10. PICK v : v = x \o y
  OBVIOUS
<1>11. /\ v \in Seq(S) /\ Len(v) = Len(x) + Len(y)
       /\ \A k \in 1..(Len(x) + Len(y)) : v[k] = IF k <= Len(x) THEN x[k] ELSE y[k - Len(x)]
  <2>1. x \in Seq(S) /\ y \in Seq(S)
    BY <1>2, <1>5
  <2> QED
    BY <2>1, <1>10, ConcatProperties
<1>12. /\ Len(x) = IF Len(a) < m THEN Len(a) ELSE m
       /\ Len(y) = IF Len(b) < m - Len(x) THEN Len(b) ELSE m - Len(x)
       /\ Len(w) = Len(a) + Len(b)
       /\ Len(z) = IF Len(w) < m THEN Len(w) ELSE m
       /\ Len(v) = Len(x) + Len(y)
  BY <1>2, <1>5, <1>7, <1>9, <1>11
<1>13. /\ Len(v) = Len(z) /\ Len(z) <= m
       /\ Len(y) \in Nat /\ Len(v) \in Nat /\ Len(z) \in Nat /\ Len(w) \in Nat
  <2>1. /\ Len(y) \in Nat /\ Len(w) \in Nat /\ Len(z) \in Nat /\ Len(v) \in Nat
    BY <1>5, <1>7, <1>9, <1>11
  <2>2. CASE Len(a) < m
    <3>1. Len(x) = Len(a)
      BY <1>12, <2>2
    <3>2. CASE Len(b) < m - Len(x)
      BY <1>3, <1>12, <2>1, <2>2, <3>1, <3>2
    <3>3. CASE ~(Len(b) < m - Len(x))
      BY <1>3, <1>12, <2>1, <2>2, <3>1, <3>3
    <3> QED
      BY <3>2, <3>3
  <2>3. CASE ~(Len(a) < m)
    <3>1. Len(x) = m
      BY <1>12, <2>3
    <3>2. Len(y) = 0
      BY <1>3, <1>12, <2>1, <3>1
    <3> QED
      BY <1>3, <1>12, <2>1, <2>3, <3>1, <3>2
  <2> QED
    BY <2>1, <2>2, <2>3
<1>14. ASSUME NEW k \in 1..Len(v) PROVE v[k] = z[k]
  <2>0. k \in Nat /\ k >= 1 /\ k <= Len(x) + Len(y)
    <3>1. Len(v) = Len(x) + Len(y) /\ Len(v) \in Nat
      BY <1>11, <1>13
    <3> QED
      BY <3>1
  <2>1. z[k] = IF k <= Len(a) THEN a[k] ELSE b[k - Len(a)]
    <3>1. k \in 1..Len(z) /\ Len(z) \in Nat
      BY <1>13
    <3>2. Len(z) <= Len(w) /\ Len(w) = Len(a) + Len(b)
      BY <1>12, <1>13
    <3>3. k \in 1..(Len(a) + Len(b))
      BY <1>3, <3>1, <3>2
    <3> QED
      BY <1>7, <1>9, <3>1, <3>3
  <2>2. v[k] = IF k <= Len(x) THEN x[k] ELSE y[k - Len(x)]
    BY <1>11
  <2>3. CASE k <= Len(x)
    <3>1. k \in 1..Len(x) /\ k <= Len(a)
      BY <1>3, <1>12, <2>0, <2>3
    <3> QED
      BY <1>2, <2>1, <2>2, <2>3, <3>1
  <2>4. CASE ~(k <= Len(x))
    <3>1. k - Len(x) \in 1..Len(y)
      BY <1>3, <1>13, <2>0, <2>4
    <3>2. Len(a) < m
      <4> SUFFICES ASSUME ~(Len(a) < m) PROVE FALSE
        OBVIOUS
      <4>1. Len(x) = m
        BY <1>12
      <4>2. Len(y) = 0
        BY <1>3, <1>12, <4>1
      <4> QED
        BY <3>1, <4>2
    <3>3. Len(x) = Len(a)
      BY <1>12, <3>2
    <3> QED
      BY <1>5, <2>1, <2>2, <2>4, <3>1, <3>3
  <2> QED
    BY <2>3, <2>4
<1>15. v = z
  <2>1. v \in Seq(S) /\ z \in Seq(S)
    BY <1>9, <1>11
  <2> QED
    BY <2>1, <1>13, <1>14, SeqEqual
<1> QED
  BY <1>1, <1>4, <1>6, <1>8, <1>10, <1>13, <1>15

(* The three copies together cut the greeting once (greeting.c:42-45). *)
LEMMA GreetingCorrect ==
  ASSUME NEW S, NEW message \in Seq(S), NEW name \in Seq(S), Space \in S, NEW size \in Nat \ {0}
  PROVE  GreetingAsDescribed(message, name, size)
<1> DEFINE m == size - 1
<1>1. m \in Nat
  OBVIOUS
<1> HIDE DEF m
<1>2. PICK space : space = <<Space>>
  OBVIOUS
<1>3. space \in Seq(S) /\ message \o space \in Seq(S)
  BY <1>2
<1>4. AtMost(message, m) \o AtMost(space, m - Len(AtMost(message, m)))
        = AtMost(message \o space, m)
  BY <1>1, <1>3, CutParts
<1>5. AtMost(message \o space, m) \o AtMost(name, m - Len(AtMost(message \o space, m)))
        = AtMost(message \o space \o name, m)
  <2>1. PICK both \in Seq(S) : both = message \o space
    BY <1>3
  <2>2. AtMost(both, m) \o AtMost(name, m - Len(AtMost(both, m))) = AtMost(both \o name, m)
    BY <1>1, CutParts
  <2> QED
    BY <2>1, <2>2
<1>6. \A s \in Seq(S) : \A t : strncat(s, t, size) = s \o AtMost(t, m - Len(s))
  <2> TAKE s \in Seq(S)
  <2> TAKE t
  <2>1. Len(s) \in Nat /\ size \in Nat
    OBVIOUS
  <2>2. size - Len(s) - 1 = m - Len(s)
    BY <2>1 DEF m
  <2>3. AtMost(t, size - Len(s) - 1) = AtMost(t, m - Len(s))
    BY <2>2
  <2> QED
    BY <2>3 DEF strncat
<1>7. AtMost(message, m) \in Seq(S) /\ AtMost(message \o space, m) \in Seq(S)
  BY <1>1, <1>3, AtMostIs
<1>8. strncat(AtMost(message, m), space, size) = AtMost(message \o space, m)
  BY <1>6, <1>4, <1>7
<1>9. strncat(AtMost(message \o space, m), name, size) = AtMost(message \o space \o name, m)
  BY <1>6, <1>5, <1>7
<1> QED
  BY <1>2, <1>8, <1>9 DEF GreetingAsDescribed, greeting, m

-----------------------------------------------------------------------------
(* One round of split_array. *)
SplitRound(s, k, r) ==
  IF (k - 1) % 2 = 0 THEN <<Append(r[1], s[k]), r[2]>> ELSE <<r[1], Append(r[2], s[k])>>

(* The recursion of split_array is a loop over the elements. *)
LEMMA SplitLoop ==
  ASSUME NEW S, NEW s \in Seq(S)
  PROVE  \E f \in [0..Len(s) -> Seq(S) \X Seq(S)] :
           /\ f[0] = <<<<>>, <<>>>>
           /\ \A k \in 1..Len(s) : f[k] = SplitRound(s, k, f[k - 1])
           /\ split_array(s) = f[Len(s)]
<1> DEFINE n == Len(s)
           X == Seq(S) \X Seq(S)
           e == <<<<>>, <<>>>>
           F == [k \in 1..n |-> [r \in X |-> SplitRound(s, k, r)]]
           Body(g) == [k \in 0..n |-> IF k = 0 THEN e ELSE SplitRound(s, k, g[k - 1])]
           c == CHOOSE g : g = Body(g)
<1>1. n \in Nat /\ e \in X /\ F \in [1..n -> [X -> X]]
  <2>1. n \in Nat /\ e \in X
    <3> DEFINE z == <<>>
    <3>1. z \in Seq(S)
      OBVIOUS
    <3> HIDE DEF z
    <3>2. <<z, z>> \in X
      BY <3>1
    <3> QED
      BY <3>2 DEF z
  <2>2. ASSUME NEW k \in 1..n, NEW r \in X PROVE SplitRound(s, k, r) \in X
    <3>1. s[k] \in S /\ r[1] \in Seq(S) /\ r[2] \in Seq(S)
      OBVIOUS
    <3>2. Append(r[1], s[k]) \in Seq(S) /\ Append(r[2], s[k]) \in Seq(S)
      BY <3>1
    <3> QED
      BY <3>1, <3>2 DEF SplitRound
  <2> QED
    BY <2>1, <2>2
<1>2. PICK f \in [0..n -> X] : IsLoop(f, e, n, F) /\ OnlyLoop(f, n)
  <2> HIDE DEF F, n, X, e
  <2> QED
    BY <1>1, LoopIs
<1>3. f[0] = e /\ \A k \in 1..n : f[k] = SplitRound(s, k, f[k - 1])
  <2> HIDE DEF X, e
  <2>1. \A k \in 1..n : k - 1 \in 0..n /\ f[k - 1] \in X
    OBVIOUS
  <2> QED
    BY <1>2, <2>1 DEF IsLoop
<1>4. f = Body(f)
  <2> HIDE DEF n, X
  <2> QED
    BY <1>1, <1>3
<1>5. c = Body(c)
  <2> HIDE DEF Body
  <2> QED
    BY <1>4
<1>6. c[0] = e /\ \A k \in 1..n : c[k] = SplitRound(s, k, c[k - 1])
  <2> HIDE DEF c, n, e
  <2>1. \A k \in 1..n : k \in 0..n /\ k # 0
    BY <1>1
  <2>2. 0 \in 0..n
    BY <1>1
  <2>3. c[0] = e
    BY <1>5, <2>2
  <2>4. ASSUME NEW k \in 1..n PROVE c[k] = SplitRound(s, k, c[k - 1])
    BY <1>5, <2>1
  <2> QED
    BY <2>3, <2>4
<1>7. c[n] = f[n]
  <2> HIDE DEF c, n, e
  <2>1. n \in 0..n
    BY <1>1
  <2> QED
    BY <1>2, <1>3, <1>6, <2>1 DEF OnlyLoop
<1>8. split_array(s) = c[n]
  BY DEF split_array, SplitRound
<1> QED
  BY <1>3, <1>7, <1>8

(* After k elements the arrays hold those at even and at odd indices. *)
LEMMA SplitCorrect ==
  ASSUME NEW S, NEW s \in Seq(S)
  PROVE  SplitAsDescribed(s)
<1> DEFINE n == Len(s)
<1>1. PICK f \in [0..n -> Seq(S) \X Seq(S)] :
        /\ f[0] = <<<<>>, <<>>>>
        /\ \A k \in 1..n : f[k] = SplitRound(s, k, f[k - 1])
        /\ split_array(s) = f[n]
  BY SplitLoop
<1> DEFINE Done(k) == /\ Len(f[k][1]) = (k + 1) \div 2 /\ Len(f[k][2]) = k \div 2
                      /\ \A j \in 1..((k + 1) \div 2) : f[k][1][j] = s[2 * j - 1]
                      /\ \A j \in 1..(k \div 2) : f[k][2][j] = s[2 * j]
           B == {k \in 0..n : Done(k)}
<1>2. n \in Nat
  OBVIOUS
<1>3. Done(n)
  <2>1. B \in SUBSET (0..n) /\ 0 \in B
    BY <1>1
  <2>2. ASSUME NEW k \in 1..n, k - 1 \in B PROVE k \in B
    <3>1. k \in 0..n /\ k - 1 \in 0..n /\ Done(k - 1)
      BY <2>2
    <3> DEFINE p == f[k - 1][1]
               q == f[k - 1][2]
    <3>2. p \in Seq(S) /\ q \in Seq(S)
      BY <3>1
    <3>r. f[k] = SplitRound(s, k, f[k - 1])
      BY <1>1
    <3>3. /\ Len(p) = k \div 2 /\ Len(q) = (k - 1) \div 2
          /\ \A j \in 1..(k \div 2) : p[j] = s[2 * j - 1]
          /\ \A j \in 1..((k - 1) \div 2) : q[j] = s[2 * j]
      BY <3>1, <3>2
    <3>4. s[k] \in S
      OBVIOUS
    <3>5. CASE (k - 1) % 2 = 0
      <4>1. f[k][1] = Append(p, s[k]) /\ f[k][2] = q
        BY <3>r, <3>5 DEF SplitRound
      <4>2. /\ (k + 1) \div 2 = (k \div 2) + 1 /\ k \div 2 = (k - 1) \div 2
            /\ 2 * ((k \div 2) + 1) - 1 = k /\ k \div 2 \in Nat
        BY <3>5
      <4>3. /\ Len(Append(p, s[k])) = (k \div 2) + 1
            /\ \A j \in 1..(k \div 2) : Append(p, s[k])[j] = p[j]
            /\ Append(p, s[k])[(k \div 2) + 1] = s[k]
        BY <3>2, <3>3, <3>4, AppendProperties
      <4>4. ASSUME NEW j \in 1..((k + 1) \div 2) PROVE f[k][1][j] = s[2 * j - 1]
        <5>1. CASE j = (k \div 2) + 1
          BY <4>1, <4>2, <4>3, <5>1
        <5>2. CASE j # (k \div 2) + 1
          <6>1. j \in 1..(k \div 2)
            BY <4>2, <5>2
          <6> QED
            BY <3>3, <4>1, <4>3, <6>1
        <5> QED
          BY <5>1, <5>2
      <4>5. Done(k)
        BY <3>3, <4>1, <4>2, <4>3, <4>4
      <4> QED
        BY <3>1, <4>5
    <3>6. CASE (k - 1) % 2 # 0
      <4>1. f[k][1] = p /\ f[k][2] = Append(q, s[k])
        BY <3>r, <3>6 DEF SplitRound
      <4>2. /\ (k + 1) \div 2 = k \div 2 /\ k \div 2 = ((k - 1) \div 2) + 1
            /\ 2 * (((k - 1) \div 2) + 1) = k /\ (k - 1) \div 2 \in Nat
        BY <3>6
      <4>3. /\ Len(Append(q, s[k])) = ((k - 1) \div 2) + 1
            /\ \A j \in 1..((k - 1) \div 2) : Append(q, s[k])[j] = q[j]
            /\ Append(q, s[k])[((k - 1) \div 2) + 1] = s[k]
        BY <3>2, <3>3, <3>4, AppendProperties
      <4>4. ASSUME NEW j \in 1..(k \div 2) PROVE f[k][2][j] = s[2 * j]
        <5>1. CASE j = ((k - 1) \div 2) + 1
          BY <4>1, <4>2, <4>3, <5>1
        <5>2. CASE j # ((k - 1) \div 2) + 1
          <6>1. j \in 1..((k - 1) \div 2)
            BY <4>2, <5>2
          <6> QED
            BY <3>3, <4>1, <4>3, <6>1
        <5> QED
          BY <5>1, <5>2
      <4>5. Done(k)
        BY <3>3, <4>1, <4>2, <4>3, <4>4
      <4> QED
        BY <3>1, <4>5
    <3> QED
      BY <3>5, <3>6
  <2> HIDE DEF B
  <2>3. \A k \in 0..n : k \in B
    BY <1>2, <2>1, <2>2, AllRounds
  <2> QED
    BY <1>2, <2>3 DEF B
<1> DEFINE p == split_array(s)[1]
           q == split_array(s)[2]
<1>4. p \in Seq(S) /\ q \in Seq(S)
  BY <1>1, <1>2
<1>5. /\ Len(p) = (n + 1) \div 2 /\ Len(q) = n \div 2
      /\ \A j \in 1..Len(p) : p[j] = s[2 * j - 1]
      /\ \A j \in 1..Len(q) : q[j] = s[2 * j]
  <2> HIDE DEF n
  <2>1. p = f[n][1] /\ q = f[n][2]
    BY <1>1
  <2> HIDE DEF p, q
  <2>2. Len(p) = (n + 1) \div 2 /\ Len(q) = n \div 2
    BY <1>3, <2>1
  <2>3. ASSUME NEW j \in 1..Len(p) PROVE p[j] = s[2 * j - 1]
    BY <1>3, <2>1, <2>2
  <2>4. ASSUME NEW j \in 1..Len(q) PROVE q[j] = s[2 * j]
    BY <1>3, <2>1, <2>2
  <2> QED
    BY <2>2, <2>3, <2>4
<1>6. p = [k \in 1..Len(p) |-> s[2 * k - 1]] /\ q = [k \in 1..Len(q) |-> s[2 * k]]
  <2> HIDE DEF n, p, q
  <2>1. p = [k \in 1..Len(p) |-> p[k]] /\ q = [k \in 1..Len(q) |-> q[k]]
    BY <1>4
  <2>2. p = [k \in 1..Len(p) |-> s[2 * k - 1]]
    BY <1>5, <2>1
  <2>3. q = [k \in 1..Len(q) |-> s[2 * k]]
    BY <1>5, <2>1
  <2> QED
    BY <2>2, <2>3
<1>7. /\ ((n + 1) \div 2) + (n \div 2) = n
      /\ (n + 1) \div 2 = (n % 2) + (n \div 2)
      /\ (n + 1 - 1) \div 2 = n \div 2
  <2> HIDE DEF n
  <2> QED
    BY <1>2
<1> QED
  <2> HIDE DEF n, p, q
  <2>1. (n + 1) \div 2 = size_of_even(n) /\ n \div 2 = size_of_odd(n)
    BY <1>7 DEF size_of_even, size_of_odd
  <2> QED
    BY <1>5, <1>6, <1>7, <2>1 DEF SplitAsDescribed, n, p, q

-----------------------------------------------------------------------------
(* One round of fibonacci. *)
FibRound(r) == <<r[2], wrap(r[1] + r[2])>>

(* An int stays one, and an int is what it wraps to. *)
LEMMA WrapIs ==
  ASSUME NEW n \in Int
  PROVE  wrap(n) \in INT /\ (n \in INT => wrap(n) = n)
<1> DEFINE w == 2 * (INT_MAX + 1)
           m == n + INT_MAX + 1
<1>1. INT_MAX \in Nat /\ w \in Nat \ {0} /\ m \in Int
  BY ToolAssumption
<1>2. m % w \in 0..(w - 1)
  <2> HIDE DEF w, m
  <2> QED
    BY <1>1
<1>3. n \in INT => m % w = m
  <2> SUFFICES ASSUME n \in INT PROVE m % w = m
    OBVIOUS
  <2>1. m \in 0..(w - 1)
    BY <1>1 DEF INT
  <2> HIDE DEF w, m
  <2> QED
    BY <1>1, <2>1
<1>4. PICK r \in Int : r = m % w
  BY <1>2
<1>5. wrap(n) = r - INT_MAX - 1
  BY <1>4 DEF wrap
<1>6. w - 1 = INT_MAX + INT_MAX + 1
  BY <1>1
<1>7. r - INT_MAX - 1 \in INT
  <2>1. r \in 0..(INT_MAX + INT_MAX + 1)
    BY <1>2, <1>4, <1>6
  <2> QED
    BY <1>1, <2>1 DEF INT
<1>8. n \in INT => r - INT_MAX - 1 = n
  <2> SUFFICES ASSUME n \in INT PROVE r - INT_MAX - 1 = n
    OBVIOUS
  <2>1. r = n + INT_MAX + 1
    BY <1>3, <1>4
  <2> QED
    BY <1>1, <2>1
<1> QED
  BY <1>5, <1>7, <1>8

(* The recursion of fibonacci is a loop over the two last numbers. *)
LEMMA FibLoop ==
  ASSUME NEW count \in Nat
  PROVE  \E t \in [1..(count + 1) -> INT \X INT] :
           /\ t[1] = <<0, 1>>
           /\ \A k \in 2..(count + 1) : t[k] = FibRound(t[k - 1])
           /\ fib(count) = [k \in 1..count |-> t[k][1]]
<1> DEFINE n == count
           X == INT \X INT
           e == <<0, 1>>
           F == [k \in 1..n |-> [r \in X |-> FibRound(r)]]
           Body(g) == [k \in 1..(n + 1) |-> IF k = 1 THEN e ELSE FibRound(g[k - 1])]
           c == CHOOSE g : g = Body(g)
<1>1. n \in Nat /\ e \in X /\ F \in [1..n -> [X -> X]]
  <2>1. ASSUME NEW r \in X PROVE FibRound(r) \in X
    <3>1. r[1] + r[2] \in Int /\ r[2] \in INT
      BY ToolAssumption DEF INT
    <3> QED
      BY <3>1, WrapIs DEF FibRound
  <2>2. n \in Nat /\ e \in X
    BY ToolAssumption DEF INT
  <2> HIDE DEF n, e, X
  <2> QED
    BY <2>1, <2>2
<1>2. PICK f \in [0..n -> X] : IsLoop(f, e, n, F) /\ OnlyLoop(f, n)
  <2> HIDE DEF F, n, X, e
  <2> QED
    BY <1>1, LoopIs
<1>3. f[0] = e /\ \A k \in 1..n : f[k] = FibRound(f[k - 1])
  <2> HIDE DEF X, e
  <2>1. \A k \in 1..n : k - 1 \in 0..n /\ f[k - 1] \in X
    OBVIOUS
  <2> QED
    BY <1>2, <2>1 DEF IsLoop
<1> DEFINE t == [k \in 1..(n + 1) |-> f[k - 1]]
<1>4. t = Body(t)
  <2> HIDE DEF n, X, e
  <2>1. ASSUME NEW k \in 1..(n + 1)
        PROVE  f[k - 1] = IF k = 1 THEN e ELSE FibRound(t[k - 1])
    <3>1. CASE k = 1
      BY <1>3, <3>1
    <3>2. CASE k # 1
      <4>1. k - 1 \in 1..n /\ k - 1 \in 1..(n + 1)
        BY <1>1, <3>2
      <4>2. t[k - 1] = f[k - 1 - 1]
        BY <4>1
      <4> QED
        BY <1>3, <3>2, <4>1, <4>2
    <3> QED
      BY <3>1, <3>2
  <2> QED
    BY <2>1
<1>5. c = Body(c)
  <2> HIDE DEF Body, t
  <2> QED
    BY <1>4
<1> DEFINE d == [k \in 0..n |-> c[k + 1]]
<1>6. d[0] = e /\ \A k \in 1..n : d[k] = FibRound(d[k - 1])
  <2> HIDE DEF c, n, e
  <2>1. 0 \in 0..n /\ 1 \in 1..(n + 1)
    BY <1>1
  <2>2. c[1] = e
    BY <1>5, <2>1
  <2>3. ASSUME NEW k \in 1..n PROVE d[k] = FibRound(d[k - 1])
    <3>1. PICK m \in 1..(n + 1) : m = k + 1
      BY <1>1
    <3>2. m # 1 /\ m - 1 = k /\ k \in 0..n /\ k - 1 \in 0..n /\ k - 1 + 1 = k
      BY <1>1, <3>1
    <3>3. c[m] = FibRound(c[m - 1])
      BY <1>5, <3>2
    <3>4. d[k] = c[m] /\ d[k - 1] = c[k]
      BY <3>1, <3>2
    <3> QED
      BY <3>2, <3>3, <3>4
  <2>4. d[0] = c[1]
    BY <2>1
  <2> HIDE DEF d
  <2> QED
    BY <2>2, <2>3, <2>4
<1>7. \A k \in 0..n : d[k] = f[k]
  <2> HIDE DEF d, n, e
  <2> QED
    BY <1>2, <1>3, <1>6 DEF OnlyLoop
<1>8. \A k \in 1..(n + 1) : c[k] = t[k]
  <2> HIDE DEF c, n
  <2> TAKE k \in 1..(n + 1)
  <2>1. k - 1 \in 0..n /\ k - 1 + 1 = k
    BY <1>1
  <2>2. c[k] = d[k - 1]
    BY <2>1
  <2> QED
    BY <1>7, <2>1, <2>2
<1>9. fib(count) = [k \in 1..count |-> c[k][1]]
  BY DEF fib, FibRound
<1>10. fib(count) = [k \in 1..count |-> t[k][1]]
  <2> HIDE DEF c, t
  <2>1. \A k \in 1..count : k \in 1..(n + 1)
    OBVIOUS
  <2> QED
    BY <1>8, <1>9, <2>1
<1>11. /\ t \in [1..(n + 1) -> X] /\ t[1] = e
       /\ \A k \in 2..(n + 1) : t[k] = FibRound(t[k - 1])
  <2> HIDE DEF n, X, e
  <2>1. \A k \in 1..(n + 1) : k - 1 \in 0..n
    BY <1>1
  <2>2. t \in [1..(n + 1) -> X]
    BY <2>1
  <2>3. 1 \in 1..(n + 1) /\ \A k \in 2..(n + 1) : k \in 1..(n + 1) /\ k # 1
    BY <1>1
  <2> HIDE DEF t
  <2> QED
    BY <1>4, <2>2, <2>3
<1> QED
  <2> HIDE DEF t
  <2> QED
    BY <1>10, <1>11

(* Each number is the sum of the two before it, if that is an int          *)
(* (fibonacci.c:4-15).                                                     *)
LEMMA FibCorrect ==
  ASSUME NEW count \in Nat
  PROVE  FibAsDescribed(count)
<1>1. PICK t \in [1..(count + 1) -> INT \X INT] :
        /\ t[1] = <<0, 1>>
        /\ \A k \in 2..(count + 1) : t[k] = FibRound(t[k - 1])
        /\ fib(count) = [k \in 1..count |-> t[k][1]]
  BY FibLoop
<1>2. PICK f : f = fib(count)
  OBVIOUS
<1>3. \A k \in 1..count : f[k] = t[k][1]
  BY <1>1, <1>2
<1>4. count >= 1 => f[1] = 0
  BY <1>1, <1>3
<1>5. count >= 2 => f[2] = 1
  <2> SUFFICES ASSUME count >= 2 PROVE f[2] = 1
    OBVIOUS
  <2>1. 2 \in 1..count /\ 2 \in 2..(count + 1) /\ 2 - 1 = 1
    OBVIOUS
  <2>2. t[2] = FibRound(<<0, 1>>)
    BY <1>1, <2>1
  <2> QED
    BY <1>3, <2>1, <2>2 DEF FibRound
<1>6. ASSUME NEW k \in 3..count, f[k - 2] + f[k - 1] \in INT
      PROVE  f[k] = f[k - 2] + f[k - 1]
  <2>1. /\ k \in 2..(count + 1) /\ k - 1 \in 2..(count + 1)
        /\ k \in 1..count /\ k - 1 \in 1..count /\ k - 2 \in 1..count
        /\ k - 1 - 1 = k - 2
    BY <1>6
  <2>2. t[k][1] = t[k - 1][2]
    BY <1>1, <2>1 DEF FibRound
  <2>3. t[k - 1] = <<t[k - 2][2], wrap(t[k - 2][1] + t[k - 2][2])>>
    BY <1>1, <2>1 DEF FibRound
  <2>4. f[k - 1] = t[k - 2][2] /\ f[k - 2] = t[k - 2][1]
    BY <1>3, <2>1, <2>3
  <2>5. f[k] = wrap(f[k - 2] + f[k - 1])
    BY <1>3, <2>1, <2>2, <2>3, <2>4
  <2>6. f[k - 2] + f[k - 1] \in Int
    BY <1>6, ToolAssumption DEF INT
  <2> QED
    BY <1>6, <2>5, <2>6, WrapIs
<1> QED
  BY <1>2, <1>4, <1>5, <1>6 DEF FibAsDescribed

-----------------------------------------------------------------------------
(* One round of update_state, and what all of them make of a cell. *)
UpdateRound(temp, k, s) ==
  [s EXCEPT ![k] = IF neighbour(temp, s, k - 1) = neighbour(temp, s, k + 1)
                   THEN Dead ELSE Alive]
NextCell(temp, k) == IF k \in {1, Len(temp)} THEN temp[k]
                     ELSE IF temp[k - 1] = temp[k + 1] THEN Dead ELSE Alive

(* Writing cell k in place leaves temp, from which the rest is computed. *)
LEMMA UpdateState ==
  ASSUME NEW C, NEW temp \in Seq(C), Dead \in C, Alive \in C
  PROVE  update_state(temp) = [k \in 1..Len(temp) |-> NextCell(temp, k)]
<1> DEFINE n == Len(temp)
           X == [1..n -> C]
           e == temp
           Inner(k, s) == IF k \in {1, n} THEN s ELSE UpdateRound(temp, k, s)
           F == [k \in 1..n |-> [s \in X |-> Inner(k, s)]]
           Body(g) == [k \in 0..n |-> IF k \in {0, 1, n}
                                      THEN IF k = 0 THEN temp ELSE g[k - 1]
                                      ELSE UpdateRound(temp, k, g[k - 1])]
           c == CHOOSE g : g = Body(g)
<1>1. n \in Nat /\ e \in X /\ F \in [1..n -> [X -> X]]
  <2>1. n \in Nat /\ e \in X
    OBVIOUS
  <2>2. ASSUME NEW k \in 1..n, NEW s \in X PROVE Inner(k, s) \in X
    <3> HIDE DEF n
    <3> QED
      BY DEF UpdateRound
  <2> HIDE DEF n, X, e, Inner
  <2> QED
    BY <2>1, <2>2
<1>2. PICK f \in [0..n -> X] : IsLoop(f, e, n, F) /\ OnlyLoop(f, n)
  <2> HIDE DEF F, n, X, e
  <2> QED
    BY <1>1, LoopIs
<1>3. f[0] = e /\ \A k \in 1..n : f[k] = Inner(k, f[k - 1])
  <2> HIDE DEF X, e, Inner, n
  <2>1. \A k \in 1..n : k - 1 \in 0..n /\ f[k - 1] \in X
    BY <1>1
  <2> QED
    BY <1>2, <2>1 DEF IsLoop
<1>4. f = Body(f)
  <2> HIDE DEF n, X
  <2> QED
    BY <1>1, <1>3
<1>5. c = Body(c)
  <2> HIDE DEF Body
  <2> QED
    BY <1>4
<1>6. c[0] = e /\ \A k \in 1..n : c[k] = Inner(k, c[k - 1])
  <2> HIDE DEF c, n
  <2>1. 0 \in 0..n /\ \A k \in 1..n : k \in 0..n /\ k # 0
    BY <1>1
  <2>2. c[0] = e
    BY <1>5, <2>1
  <2>3. ASSUME NEW k \in 1..n PROVE c[k] = Inner(k, c[k - 1])
    BY <1>5, <2>1
  <2> QED
    BY <2>2, <2>3
<1>7. c[n] = f[n]
  <2> HIDE DEF c, n, e, Inner
  <2>1. n \in 0..n
    BY <1>1
  <2> QED
    BY <1>2, <1>3, <1>6, <2>1 DEF OnlyLoop
<1>8. update_state(temp) = c[n]
  BY DEF update_state, UpdateRound
<1> DEFINE Upto(k) == \A j \in 1..n : f[k][j] = IF j <= k THEN NextCell(temp, j) ELSE temp[j]
           B == {k \in 0..n : Upto(k)}
<1>9. Upto(n)
  <2> HIDE DEF n
  <2>1. B \in SUBSET (0..n) /\ 0 \in B
    BY <1>1, <1>3
  <2>2. ASSUME NEW k \in 1..n, k - 1 \in B PROVE k \in B
    <3>1. k \in 0..n /\ k - 1 \in 0..n /\ Upto(k - 1)
      BY <1>1, <2>2
    <3>2. ASSUME NEW j \in 1..n
          PROVE  f[k][j] = IF j <= k THEN NextCell(temp, j) ELSE temp[j]
      <4>1. f[k - 1] \in X
        BY <3>1
      <4>2. f[k] = Inner(k, f[k - 1])
        BY <1>3
      <4>3. j # k => f[k][j] = f[k - 1][j]
        BY <4>1, <4>2 DEF UpdateRound
      <4>4. j = k => f[k][j] = NextCell(temp, j)
        <5>1. CASE k \in {1, n}
          <6>1. f[k] = f[k - 1]
            BY <4>2, <5>1
          <6>2. f[k - 1][k] = temp[k]
            BY <3>1
          <6> QED
            BY <5>1, <6>1, <6>2 DEF NextCell, n
        <5>2. CASE k \notin {1, n}
          <6>1. f[k] = UpdateRound(temp, k, f[k - 1])
            BY <4>2, <5>2
          <6>2. f[k][k] = IF temp[k - 1] = temp[k + 1] THEN Dead ELSE Alive
            BY <4>1, <6>1 DEF UpdateRound, neighbour
          <6> QED
            BY <5>2, <6>2 DEF NextCell, n
        <5> QED
          BY <5>1, <5>2
      <4>5. j # k => (j <= k <=> j <= k - 1)
        BY <1>1
      <4> QED
        BY <1>1, <3>1, <4>3, <4>4, <4>5
    <3> QED
      BY <3>1, <3>2
  <2> HIDE DEF B
  <2>3. \A k \in 0..n : k \in B
    BY <1>1, <2>1, <2>2, AllRounds
  <2> QED
    BY <1>1, <2>3 DEF B
<1> QED
  <2> HIDE DEF n
  <2>1. f[n] \in X
    BY <1>1
  <2>2. f[n] = [k \in 1..n |-> f[n][k]]
    BY <2>1
  <2>3. \A k \in 1..n : f[n][k] = NextCell(temp, k)
    BY <1>1, <1>9
  <2>4. f[n] = [k \in 1..n |-> NextCell(temp, k)]
    BY <2>2, <2>3
  <2> QED
    BY <1>7, <1>8, <2>4 DEF n

(* The states have the length of the initial one, and each is made from the *)
(* one before.                                                              *)
LEMMA LifeLoop ==
  ASSUME NEW C, NEW initial \in Seq(C), NEW num_states \in Nat, Dead \in C, Alive \in C
  PROVE  /\ \A k \in 1..num_states : /\ life(initial, num_states)[k] \in Seq(C)
                                     /\ Len(life(initial, num_states)[k]) = Len(initial)
         /\ \A k \in 1..(num_states - 1) :
              life(initial, num_states)[k + 1] = update_state(life(initial, num_states)[k])
<1> DEFINE n == num_states + 1
           X == {t \in Seq(C) : Len(t) = Len(initial)}
           F == [k \in 2..n |-> [t \in X |-> update_state(t)]]
           Body(g) == [k \in 1..n |-> IF k = 1 THEN initial ELSE update_state(g[k - 1])]
           c == CHOOSE g : g = Body(g)
<1>1. n \in Nat \ {0} /\ initial \in X /\ F \in [2..n -> [X -> X]]
  <2>1. ASSUME NEW t \in X PROVE update_state(t) \in X
    <3> DEFINE u == [k \in 1..Len(t) |-> NextCell(t, k)]
    <3>1. update_state(t) = u
      BY UpdateState
    <3>2. t \in Seq(C) /\ Len(t) \in Nat /\ Len(t) = Len(initial)
      OBVIOUS
    <3>3. \A k \in 1..Len(t) : NextCell(t, k) \in C
      BY <3>2 DEF NextCell
    <3>4. u \in Seq(C) /\ Len(u) = Len(t)
      BY <3>2, <3>3
    <3> QED
      BY <3>1, <3>2, <3>4
  <2> HIDE DEF X
  <2>2. F \in [2..n -> [X -> X]]
    BY <2>1
  <2>3. initial \in X
    BY DEF X
  <2> QED
    BY <2>2, <2>3
<1>2. PICK f \in [1..n -> X] : IsLoopFrom1(f, initial, n, F) /\ OnlyLoopFrom1(f, n)
  <2> HIDE DEF F, n, X
  <2> QED
    BY <1>1, LoopIsFrom1
<1>3. f[1] = initial /\ \A k \in 2..n : f[k] = update_state(f[k - 1])
  <2> HIDE DEF X
  <2>1. \A k \in 2..n : k - 1 \in 1..n /\ f[k - 1] \in X
    OBVIOUS
  <2> QED
    BY <1>2, <2>1 DEF IsLoopFrom1
<1>4. f = Body(f)
  <2> HIDE DEF n, X
  <2>1. \A k \in 1..n : k = 1 \/ k \in 2..n
    BY <1>1
  <2> QED
    BY <1>1, <1>3, <2>1
<1>5. c = Body(c)
  <2> HIDE DEF Body
  <2> QED
    BY <1>4
<1>6. c[1] = initial /\ \A k \in 2..n : c[k] = update_state(c[k - 1])
  <2> HIDE DEF c, n
  <2>1. 1 \in 1..n /\ \A k \in 2..n : k \in 1..n /\ k # 1
    BY <1>1
  <2>2. c[1] = initial
    BY <1>5, <2>1
  <2>3. ASSUME NEW k \in 2..n PROVE c[k] = update_state(c[k - 1])
    BY <1>5, <2>1
  <2> QED
    BY <2>2, <2>3
<1>7. \A k \in 1..n : c[k] = f[k]
  <2> HIDE DEF c, n
  <2> QED
    BY <1>2, <1>3, <1>6 DEF OnlyLoopFrom1
<1>8. life(initial, num_states) = [k \in 1..num_states |-> c[k]]
  BY DEF life
<1>9. \A k \in 1..num_states : life(initial, num_states)[k] = f[k]
  <2> HIDE DEF c
  <2>1. \A k \in 1..num_states : k \in 1..n
    OBVIOUS
  <2> QED
    BY <1>7, <1>8, <2>1
<1> DEFINE r == life(initial, num_states)
<1> HIDE DEF r
<1>10. ASSUME NEW k \in 1..num_states PROVE r[k] \in X
  <2>1. k \in 1..n
    OBVIOUS
  <2> HIDE DEF X, n
  <2> QED
    BY <1>9, <2>1 DEF r
<1>11. ASSUME NEW k \in 1..(num_states - 1) PROVE r[k + 1] = update_state(r[k])
  <2>1. k \in 1..num_states /\ k + 1 \in 1..num_states /\ k + 1 \in 2..n /\ k + 1 - 1 = k
    OBVIOUS
  <2>2. f[k + 1] = update_state(f[k])
    BY <1>3, <2>1
  <2> QED
    BY <1>9, <2>1, <2>2 DEF r
<1> QED
  BY <1>10, <1>11 DEF r

(* Each state follows from the one before by the rule of life_helpers.c. *)
LEMMA LifeCorrect ==
  ASSUME NEW C, NEW initial \in Seq(C), NEW n \in Nat, Dead \in C, Alive \in C
  PROVE  LifeAsDescribed(initial, n)
<1> DEFINE r == life(initial, n)
<1>1. /\ \A k \in 1..n : r[k] \in Seq(C) /\ Len(r[k]) = Len(initial)
      /\ \A k \in 1..(n - 1) : r[k + 1] = update_state(r[k])
  BY LifeLoop
<1> HIDE DEF r
<1>2. ASSUME NEW k \in 1..(n - 1), NEW d \in 1..Len(initial)
      PROVE  r[k + 1][d] = IF d \in {1, Len(initial)} THEN r[k][d]
                           ELSE IF r[k][d - 1] # r[k][d + 1] THEN Alive ELSE Dead
  <2> DEFINE t == r[k]
  <2>1. k \in 1..n
    OBVIOUS
  <2>2. t \in Seq(C) /\ Len(t) = Len(initial) /\ r[k + 1] = update_state(t)
    BY <1>1, <2>1
  <2> HIDE DEF t
  <2>3. update_state(t) = [j \in 1..Len(t) |-> NextCell(t, j)]
    BY <2>2, UpdateState
  <2>4. r[k + 1][d] = NextCell(t, d)
    BY <2>2, <2>3
  <2>5. NextCell(t, d) = IF d \in {1, Len(initial)} THEN t[d]
                         ELSE IF t[d - 1] # t[d + 1] THEN Alive ELSE Dead
    BY <2>2 DEF NextCell
  <2> QED
    BY <2>4, <2>5 DEF t
<1> QED
  BY <1>2 DEF LifeAsDescribed, r

-----------------------------------------------------------------------------
(* One round of trim. *)
TrimRound(trace, s, e, k, r) ==
  LET on == r.signal /\ trace[k] # e
  IN IF trace[k] = s THEN [signal |-> TRUE, lines |-> r.lines]
     ELSE [signal |-> on, lines |-> IF on THEN Append(r.lines, k) ELSE r.lines]

(* The recursion of trim is a loop over the lines of the trace. *)
LEMMA TrimLoop ==
  ASSUME NEW S, NEW trace \in Seq(S), NEW s, NEW e
  PROVE  \E f \in [0..Len(trace) -> [signal : BOOLEAN, lines : Seq(Nat)]] :
           /\ f[0] = [signal |-> FALSE, lines |-> <<>>]
           /\ \A k \in 1..Len(trace) : f[k] = TrimRound(trace, s, e, k, f[k - 1])
           /\ trim(trace, s, e) = f[Len(trace)].lines
<1> DEFINE n == Len(trace)
           X == [signal : BOOLEAN, lines : Seq(Nat)]
           a == [signal |-> FALSE, lines |-> <<>>]
           F == [k \in 1..n |-> [r \in X |-> TrimRound(trace, s, e, k, r)]]
           Body(g) == [k \in 0..n |-> IF k = 0 THEN a
                                      ELSE TrimRound(trace, s, e, k, g[k - 1])]
           c == CHOOSE g : g = Body(g)
<1>1. n \in Nat /\ a \in X /\ F \in [1..n -> [X -> X]]
  <2>1. n \in Nat /\ a \in X
    OBVIOUS
  <2>2. ASSUME NEW k \in 1..n, NEW r \in X PROVE TrimRound(trace, s, e, k, r) \in X
    <3>1. k \in Nat /\ r.lines \in Seq(Nat) /\ r.signal \in BOOLEAN
      OBVIOUS
    <3>2. Append(r.lines, k) \in Seq(Nat)
      BY <3>1
    <3>3. (r.signal /\ trace[k] # e) \in BOOLEAN
      OBVIOUS
    <3> QED
      BY <3>1, <3>2, <3>3 DEF TrimRound
  <2> HIDE DEF n, a, X
  <2> QED
    BY <2>1, <2>2
<1>2. PICK f \in [0..n -> X] : IsLoop(f, a, n, F) /\ OnlyLoop(f, n)
  <2> HIDE DEF F, n, X, a
  <2> QED
    BY <1>1, LoopIs
<1>3. f[0] = a /\ \A k \in 1..n : f[k] = TrimRound(trace, s, e, k, f[k - 1])
  <2> HIDE DEF X, a
  <2>1. \A k \in 1..n : k - 1 \in 0..n /\ f[k - 1] \in X
    OBVIOUS
  <2> QED
    BY <1>2, <2>1 DEF IsLoop
<1>4. f = Body(f)
  <2> HIDE DEF n, X, a
  <2> QED
    BY <1>1, <1>3
<1>5. c = Body(c)
  <2> HIDE DEF Body
  <2> QED
    BY <1>4
<1>6. c[0] = a /\ \A k \in 1..n : c[k] = TrimRound(trace, s, e, k, c[k - 1])
  <2> HIDE DEF c, n, a
  <2>1. 0 \in 0..n /\ \A k \in 1..n : k \in 0..n /\ k # 0
    BY <1>1
  <2>2. c[0] = a
    BY <1>5, <2>1
  <2>3. ASSUME NEW k \in 1..n PROVE c[k] = TrimRound(trace, s, e, k, c[k - 1])
    BY <1>5, <2>1
  <2> QED
    BY <2>2, <2>3
<1>7. c[n] = f[n]
  <2> HIDE DEF c, n, a
  <2>1. n \in 0..n
    BY <1>1
  <2> QED
    BY <1>2, <1>3, <1>6, <2>1 DEF OnlyLoop
<1>8. trim(trace, s, e) = c[n].lines
  BY DEF trim, TrimRound
<1> QED
  BY <1>3, <1>7, <1>8

(* signal is on exactly between the markers, and the lines come in order. *)
LEMMA TrimCorrect ==
  ASSUME NEW S, NEW trace \in Seq(S), NEW s, NEW e
  PROVE  TrimAsDescribed(trace, s, e)
<1> DEFINE n == Len(trace)
           On(k) == \E j \in 1..(k - 1) : /\ trace[j] = s
                                          /\ \A h \in (j + 1)..(k - 1) : trace[h] # e
           Between(k) == trace[k] \notin {s, e} /\ On(k)
<1>1. PICK f \in [0..n -> [signal : BOOLEAN, lines : Seq(Nat)]] :
        /\ f[0] = [signal |-> FALSE, lines |-> <<>>]
        /\ \A k \in 1..n : f[k] = TrimRound(trace, s, e, k, f[k - 1])
        /\ trim(trace, s, e) = f[n].lines
  BY TrimLoop
<1>2. n \in Nat
  OBVIOUS
<1> DEFINE r(k) == f[k].lines
           Done(k) == /\ f[k].signal <=> On(k + 1)
                      /\ \A x \in 1..Len(r(k)) : r(k)[x] \in 1..k /\ Between(r(k)[x])
                      /\ \A j \in 1..k : Between(j) => \E x \in 1..Len(r(k)) : r(k)[x] = j
                      /\ \A x, j \in 1..Len(r(k)) : x < j => r(k)[x] < r(k)[j]
           B == {k \in 0..n : Done(k)}
<1> HIDE DEF n
<1>3. ASSUME NEW k \in 1..n
      PROVE  On(k + 1) <=> trace[k] = s \/ (trace[k] # e /\ On(k))
  <2>1. k \in Nat /\ k >= 1 /\ k + 1 - 1 = k
    BY <1>2
  <2>2. CASE trace[k] = s
    <3>1. k \in 1..(k + 1 - 1) /\ \A h \in (k + 1)..(k + 1 - 1) : trace[h] # e
      BY <2>1
    <3>2. On(k + 1)
      BY <3>1, <2>2
    <3> HIDE DEF On
    <3> QED
      BY <3>2, <2>2
  <2>3. ASSUME trace[k] # s, On(k + 1) PROVE trace[k] # e /\ On(k)
    <3>1. PICK j \in 1..k : trace[j] = s /\ \A h \in (j + 1)..k : trace[h] # e
      BY <2>1, <2>3
    <3>2. j # k /\ j \in 1..(k - 1) /\ k \in (j + 1)..k
      BY <2>1, <2>3, <3>1
    <3>3. \A h \in (j + 1)..(k - 1) : trace[h] # e
      BY <2>1, <3>1
    <3> QED
      BY <3>1, <3>2, <3>3
  <2>4. ASSUME trace[k] # e, On(k) PROVE On(k + 1)
    <3>1. PICK j \in 1..(k - 1) : trace[j] = s /\ \A h \in (j + 1)..(k - 1) : trace[h] # e
      BY <2>4
    <3>2. j \in 1..(k + 1 - 1)
      BY <2>1
    <3>3. \A h \in (j + 1)..(k + 1 - 1) : trace[h] # e
      <4> TAKE h \in (j + 1)..(k + 1 - 1)
      <4>1. h = k \/ h \in (j + 1)..(k - 1)
        BY <2>1
      <4> QED
        BY <2>4, <3>1, <4>1
    <3> QED
      BY <3>1, <3>2, <3>3
  <2> HIDE DEF On
  <2> QED
    BY <2>2, <2>3, <2>4
<1>4. Done(n)
  <2>1. B \in SUBSET (0..n) /\ 0 \in B
    <3>1. 0 \in 0..n
      BY <1>2
    <3>2. ~On(0 + 1)
      OBVIOUS
    <3>3. f[0].signal = FALSE /\ f[0].lines = <<>>
      BY <1>1
    <3>4. Len(r(0)) = 0
      BY <3>3
    <3> HIDE DEF On, Between
    <3>5. Done(0)
      BY <3>2, <3>3, <3>4
    <3> QED
      BY <3>1, <3>5
  <2>2. ASSUME NEW k \in 1..n, k - 1 \in B PROVE k \in B
    <3>1. k \in 0..n /\ k - 1 \in 0..n /\ Done(k - 1) /\ k - 1 + 1 = k /\ k \in Nat
      BY <1>2, <2>2
    <3> DEFINE q == f[k - 1].lines
               on == f[k - 1].signal /\ trace[k] # e
    <3>2. q \in Seq(Nat) /\ Len(q) \in Nat /\ f[k - 1].signal \in BOOLEAN
      BY <3>1
    <3>3. f[k] = TrimRound(trace, s, e, k, f[k - 1])
      BY <1>1
    <3>4. /\ f[k - 1].signal <=> On(k)
          /\ \A x \in 1..Len(q) : q[x] \in 1..(k - 1) /\ Between(q[x])
          /\ \A j \in 1..(k - 1) : Between(j) => \E x \in 1..Len(q) : q[x] = j
          /\ \A x, j \in 1..Len(q) : x < j => q[x] < q[j]
      <4> HIDE DEF On
      <4> QED
        BY <3>1
    <3>5. f[k].signal <=> On(k + 1)
      <4> HIDE DEF On
      <4> QED
        BY <1>3, <3>3, <3>4 DEF TrimRound
    <3>6. CASE Between(k)
      <4>1. trace[k] # s /\ on
        <5> HIDE DEF On
        <5> QED
          BY <3>4, <3>6
      <4>2. r(k) = Append(q, k)
        BY <3>3, <4>1 DEF TrimRound
      <4> DEFINE l == r(k)
      <4> HIDE DEF l, q, Between
      <4>3. Len(l) = Len(q) + 1 /\ l[Len(q) + 1] = k /\ \A x \in 1..Len(q) : l[x] = q[x]
        <5>1. l = Append(q, k)
          BY <4>2 DEF l
        <5> QED
          BY <3>1, <3>2, <5>1, AppendProperties
      <4>4. \A x \in 1..Len(l) : x = Len(q) + 1 \/ x \in 1..Len(q)
        BY <3>2, <4>3
      <4>5. \A x \in 1..Len(l) : l[x] \in 1..k /\ Between(l[x])
        <5> TAKE x \in 1..Len(l)
        <5>1. CASE x = Len(q) + 1
          BY <3>1, <3>6, <4>3, <5>1
        <5>2. CASE x \in 1..Len(q)
          <6>1. l[x] = q[x] /\ q[x] \in 1..(k - 1) /\ Between(q[x])
            BY <3>4, <4>3, <5>2
          <6> QED
            BY <3>1, <6>1
        <5> QED
          BY <4>4, <5>1, <5>2
      <4>6. ASSUME NEW j \in 1..k, Between(j) PROVE \E x \in 1..Len(l) : l[x] = j
        <5>1. CASE j = k
          <6>1. Len(q) + 1 \in 1..Len(l)
            BY <3>2, <4>3
          <6> QED
            BY <4>3, <5>1, <6>1
        <5>2. CASE j # k
          <6>1. j \in 1..(k - 1)
            BY <3>1, <5>2
          <6>2. PICK x \in 1..Len(q) : q[x] = j
            BY <3>4, <4>6, <6>1
          <6>3. x \in 1..Len(l)
            BY <3>2, <4>3
          <6> QED
            BY <4>3, <6>2, <6>3
        <5> QED
          BY <5>1, <5>2
      <4>7. ASSUME NEW x \in 1..Len(l), NEW j \in 1..Len(l), x < j PROVE l[x] < l[j]
        <5>1. x \in 1..Len(q)
          BY <3>2, <4>3, <4>7
        <5>2. l[x] = q[x] /\ q[x] \in 1..(k - 1)
          BY <3>4, <4>3, <5>1
        <5>3. CASE j = Len(q) + 1
          BY <3>1, <4>3, <5>2, <5>3
        <5>4. CASE j \in 1..Len(q)
          BY <3>4, <4>3, <4>7, <5>1, <5>2, <5>4
        <5> QED
          BY <4>4, <5>3, <5>4
      <4> HIDE DEF On
      <4> QED
        BY <3>1, <3>5, <4>5, <4>6, <4>7 DEF l
    <3>7. CASE ~Between(k)
      <4>1. trace[k] = s \/ ~on
        <5> HIDE DEF On
        <5> QED
          BY <3>4, <3>7
      <4>2. r(k) = q
        BY <3>3, <4>1 DEF TrimRound
      <4> HIDE DEF Between
      <4>3. \A x \in 1..Len(q) : q[x] \in 1..k /\ Between(q[x])
        BY <3>1, <3>4
      <4>4. ASSUME NEW j \in 1..k, Between(j) PROVE \E x \in 1..Len(q) : q[x] = j
        <5>1. j \in 1..(k - 1)
          BY <3>1, <3>7, <4>4
        <5> QED
          BY <3>4, <4>4, <5>1
      <4> HIDE DEF q, On
      <4>5. Done(k)
        BY <3>4, <3>5, <4>2, <4>3, <4>4
      <4> QED
        BY <3>1, <4>5
    <3> HIDE DEF On, Between
    <3> QED
      BY <3>6, <3>7
  <2> HIDE DEF B
  <2>3. \A k \in 0..n : k \in B
    BY <1>2, <2>1, <2>2, AllRounds
  <2>4. n \in B
    BY <1>2, <2>3
  <2> HIDE DEF Done
  <2> QED
    BY <2>4 DEF B
<1> DEFINE t == trim(trace, s, e)
<1>5. t = r(n) /\ t \in Seq(Nat)
  BY <1>1, <1>2
<1> HIDE DEF t
<1>6. /\ \A x \in 1..Len(t) : t[x] \in 1..n /\ Between(t[x])
      /\ \A j \in 1..n : Between(j) => \E x \in 1..Len(t) : t[x] = j
      /\ \A x, j \in 1..Len(t) : x < j => t[x] < t[j]
  <2> HIDE DEF Between, On
  <2> QED
    BY <1>4, <1>5
<1>7. DOMAIN t = 1..Len(t) /\ DOMAIN trace = 1..n
  BY <1>5 DEF n
<1>8. ToSet(t) = {k \in DOMAIN trace : Between(k)}
  <2> HIDE DEF Between
  <2> QED
    BY <1>6, <1>7 DEF ToSet
<1>9. \A x, j \in DOMAIN t : x < j => t[x] < t[j]
  BY <1>6, <1>7
<1> QED
  BY <1>8, <1>9 DEF TrimAsDescribed, t

-----------------------------------------------------------------------------
LineTypes == {"I", "M", "L", "S"}
TraceLines == [type : LineTypes, addr : Nat]
Counts == [{"I", "M", "L", "S", "Globals", "Heap", "Stack"} -> Nat]

(* One round of trcount. *)
TrcountRound(l, r0) ==
  LET up(r, c) == IF c \in DOMAIN r THEN [r EXCEPT ![c] = @ + 1] ELSE r
      r == up(r0, l.type)
  IN IF l.type = "I" THEN r ELSE up(r, Region(l.addr))

(* The lines up to k that refer to data in a region. *)
DataIn(trace, k, A) == {j \in 1..k : trace[j].type # "I" /\ trace[j].addr \in A}

(* The regions of trcount.c:50-56 do not overlap. *)
LEMMA RegionIs ==
  ASSUME NEW a \in Nat
  PROVE  /\ Region(a) \in {"Globals", "Heap", "Stack", "none"}
         /\ Region(a) = "Globals" <=> a \in GLOBALS
         /\ Region(a) = "Heap" <=> a \in HEAP
         /\ Region(a) = "Stack" <=> a \in STACK
<1>1. /\ a \in GLOBALS => a \notin HEAP /\ a \notin STACK
      /\ a \in HEAP => a \notin STACK
  BY DEF GLOBALS, HEAP, STACK, STACK_START
<1> QED
  BY <1>1 DEF Region

(* What one line adds to each of the counters. *)
LEMMA TrcountCounts ==
  ASSUME NEW l \in TraceLines, NEW r \in Counts
  PROVE  LET q == TrcountRound(l, r)
             d == l.type # "I"
         IN /\ q \in Counts
            /\ q["I"] + q["M"] + q["L"] + q["S"] = r["I"] + r["M"] + r["L"] + r["S"] + 1
            /\ q["I"] = r["I"] + (IF d THEN 0 ELSE 1)
            /\ q["Globals"] = r["Globals"] + (IF d /\ l.addr \in GLOBALS THEN 1 ELSE 0)
            /\ q["Heap"] = r["Heap"] + (IF d /\ l.addr \in HEAP THEN 1 ELSE 0)
            /\ q["Stack"] = r["Stack"] + (IF d /\ l.addr \in STACK THEN 1 ELSE 0)
<1> DEFINE t == l.type
           p == [r EXCEPT ![t] = @ + 1]
           g == Region(l.addr)
           q == TrcountRound(l, r)
<1>1. /\ t \in LineTypes /\ l.addr \in Nat
      /\ DOMAIN r = {"I", "M", "L", "S", "Globals", "Heap", "Stack"}
  BY DEF TraceLines, Counts
<1>2. /\ g \in {"Globals", "Heap", "Stack", "none"}
      /\ g = "Globals" <=> l.addr \in GLOBALS
      /\ g = "Heap" <=> l.addr \in HEAP
      /\ g = "Stack" <=> l.addr \in STACK
  BY <1>1, RegionIs
<1> HIDE DEF g
<1>3. /\ p \in Counts /\ DOMAIN p = DOMAIN r
      /\ p["I"] + p["M"] + p["L"] + p["S"] = r["I"] + r["M"] + r["L"] + r["S"] + 1
      /\ p["I"] = r["I"] + (IF t # "I" THEN 0 ELSE 1)
      /\ p["Globals"] = r["Globals"] /\ p["Heap"] = r["Heap"] /\ p["Stack"] = r["Stack"]
  <2> HIDE DEF t
  <2>1. \A c \in DOMAIN r : r[c] \in Nat
    BY <1>1 DEF Counts
  <2>2. t = "I" \/ t = "M" \/ t = "L" \/ t = "S"
    BY <1>1 DEF LineTypes
  <2>3. p \in Counts /\ DOMAIN p = DOMAIN r
    BY <1>1, <2>1, <2>2 DEF Counts
  <2>4. \A c \in DOMAIN r : p[c] = IF c = t THEN r[c] + 1 ELSE r[c]
    OBVIOUS
  <2> HIDE DEF p
  <2> QED
    BY <1>1, <2>1, <2>2, <2>3, <2>4
<1>4. q = IF t = "I" \/ g = "none" THEN p ELSE [p EXCEPT ![g] = @ + 1]
  <2>1. t \in DOMAIN r
    BY <1>1 DEF LineTypes
  <2>2. g \in DOMAIN p <=> g # "none"
    BY <1>1, <1>2, <1>3
  <2> HIDE DEF p
  <2>3. TrcountRound(l, r) = IF t = "I" THEN p
                             ELSE IF g \in DOMAIN p THEN [p EXCEPT ![g] = @ + 1] ELSE p
    BY <2>1 DEF TrcountRound, p, g
  <2> QED
    BY <2>2, <2>3
<1> HIDE DEF q, p, t
<1>5. \A c \in DOMAIN r : p[c] \in Nat /\ r[c] \in Nat
  BY <1>1, <1>3 DEF Counts
<1>6. q \in Counts
  BY <1>1, <1>2, <1>3, <1>4, <1>5 DEF Counts
<1>7. \A c \in DOMAIN r : q[c] = IF t # "I" /\ c = g THEN p[c] + 1 ELSE p[c]
  BY <1>1, <1>2, <1>3, <1>4
<1>8. q["I"] = p["I"] /\ q["M"] = p["M"] /\ q["L"] = p["L"] /\ q["S"] = p["S"]
  BY <1>1, <1>2, <1>7
<1>9. /\ q["Globals"] = p["Globals"] + (IF t # "I" /\ l.addr \in GLOBALS THEN 1 ELSE 0)
      /\ q["Heap"] = p["Heap"] + (IF t # "I" /\ l.addr \in HEAP THEN 1 ELSE 0)
  BY <1>1, <1>2, <1>5, <1>7
<1>10. q["Stack"] = p["Stack"] + (IF t # "I" /\ l.addr \in STACK THEN 1 ELSE 0)
  BY <1>1, <1>2, <1>5, <1>7
<1> QED
  BY <1>3, <1>6, <1>8, <1>9, <1>10 DEF q, t

(* The recursion of trcount is a loop over the lines of the trace. *)
LEMMA TrcountLoop ==
  ASSUME NEW trace \in Seq(TraceLines)
  PROVE  \E f \in [0..Len(trace) -> Counts] :
           /\ f[0] = NoCounts
           /\ \A k \in 1..Len(trace) : f[k] = TrcountRound(trace[k], f[k - 1])
           /\ trcount(trace) = f[Len(trace)]
<1> DEFINE n == Len(trace)
           X == Counts
           a == NoCounts
           F == [k \in 1..n |-> [r \in X |-> TrcountRound(trace[k], r)]]
           Body(g) == [k \in 0..n |-> IF k = 0 THEN a ELSE TrcountRound(trace[k], g[k - 1])]
           c == CHOOSE g : g = Body(g)
<1>1. n \in Nat /\ a \in X /\ F \in [1..n -> [X -> X]]
  <2>1. n \in Nat /\ a \in X
    BY DEF NoCounts, Counts
  <2>2. ASSUME NEW k \in 1..n, NEW r \in X PROVE TrcountRound(trace[k], r) \in X
    <3>1. trace[k] \in TraceLines
      OBVIOUS
    <3> QED
      BY <3>1, TrcountCounts
  <2> HIDE DEF n, a, X
  <2> QED
    BY <2>1, <2>2
<1>2. PICK f \in [0..n -> X] : IsLoop(f, a, n, F) /\ OnlyLoop(f, n)
  <2> HIDE DEF F, n, X, a
  <2> QED
    BY <1>1, LoopIs
<1>3. f[0] = a /\ \A k \in 1..n : f[k] = TrcountRound(trace[k], f[k - 1])
  <2> HIDE DEF X, a
  <2>1. \A k \in 1..n : k - 1 \in 0..n /\ f[k - 1] \in X
    OBVIOUS
  <2> QED
    BY <1>2, <2>1 DEF IsLoop
<1>4. f = Body(f)
  <2> HIDE DEF n, X, a
  <2> QED
    BY <1>1, <1>3
<1>5. c = Body(c)
  <2> HIDE DEF Body
  <2> QED
    BY <1>4
<1>6. c[0] = a /\ \A k \in 1..n : c[k] = TrcountRound(trace[k], c[k - 1])
  <2> HIDE DEF c, n, a
  <2>1. 0 \in 0..n /\ \A k \in 1..n : k \in 0..n /\ k # 0
    BY <1>1
  <2>2. c[0] = a
    BY <1>5, <2>1
  <2>3. ASSUME NEW k \in 1..n PROVE c[k] = TrcountRound(trace[k], c[k - 1])
    BY <1>5, <2>1
  <2> QED
    BY <2>2, <2>3
<1>7. c[n] = f[n]
  <2> HIDE DEF c, n, a
  <2>1. n \in 0..n
    BY <1>1
  <2> QED
    BY <1>2, <1>3, <1>6, <2>1 DEF OnlyLoop
<1>8. trcount(trace) = c[n]
  BY DEF trcount, TrcountRound
<1> QED
  BY <1>3, <1>7, <1>8

(* One line more is at most one reference more. *)
LEMMA OneMoreLine ==
  ASSUME NEW trace, NEW A, NEW k \in Nat \ {0},
         IsFiniteSet(DataIn(trace, k - 1, A))
  PROVE  /\ IsFiniteSet(DataIn(trace, k, A))
         /\ Cardinality(DataIn(trace, k, A))
              = Cardinality(DataIn(trace, k - 1, A))
                  + (IF trace[k].type # "I" /\ trace[k].addr \in A THEN 1 ELSE 0)
<1> DEFINE D == DataIn(trace, k - 1, A)
           E == DataIn(trace, k, A)
<1>1. \A j : j \in 1..k <=> j = k \/ j \in 1..(k - 1)
  OBVIOUS
<1>2. k \notin D
  BY DEF DataIn
<1>3. Cardinality(D) \in Nat
  BY FS_CardinalityType
<1>4. CASE trace[k].type # "I" /\ trace[k].addr \in A
  <2>1. E = D \cup {k}
    BY <1>1, <1>4 DEF DataIn
  <2>2. IsFiniteSet(D \cup {k}) /\ Cardinality(D \cup {k}) = Cardinality(D) + 1
    <3>1. IsFiniteSet(D)
      OBVIOUS
    <3> HIDE DEF D
    <3> QED
      BY <1>2, <3>1, FS_AddElement
  <2> HIDE DEF D, E
  <2> QED
    BY <1>4, <2>1, <2>2 DEF D, E
<1>5. CASE ~(trace[k].type # "I" /\ trace[k].addr \in A)
  <2>1. E = D
    BY <1>1, <1>5 DEF DataIn
  <2> QED
    BY <1>3, <1>5, <2>1
<1> QED
  BY <1>4, <1>5

(* The counters are the numbers of lines they stand for. *)
LEMMA TrcountCorrect ==
  ASSUME NEW trace \in Seq(TraceLines)
  PROVE  TrcountAsDescribed(trace)
<1> DEFINE n == Len(trace)
<1>1. PICK f \in [0..n -> Counts] :
        /\ f[0] = NoCounts
        /\ \A k \in 1..n : f[k] = TrcountRound(trace[k], f[k - 1])
        /\ trcount(trace) = f[n]
  BY TrcountLoop
<1>2. n \in Nat /\ \A k \in 1..n : trace[k] \in TraceLines
  OBVIOUS
<1> DEFINE Done(k) ==
             /\ f[k]["I"] + f[k]["M"] + f[k]["L"] + f[k]["S"] = k
             /\ IsFiniteSet(DataIn(trace, k, GLOBALS)) /\ IsFiniteSet(DataIn(trace, k, HEAP))
             /\ IsFiniteSet(DataIn(trace, k, STACK))
             /\ f[k]["Globals"] = Cardinality(DataIn(trace, k, GLOBALS))
             /\ f[k]["Heap"] = Cardinality(DataIn(trace, k, HEAP))
             /\ f[k]["Stack"] = Cardinality(DataIn(trace, k, STACK))
           B == {k \in 0..n : Done(k)}
<1> HIDE DEF n
<1>3. n \in B
  <2>1. B \in SUBSET (0..n) /\ 0 \in B
    <3>1. /\ DataIn(trace, 0, GLOBALS) = {} /\ DataIn(trace, 0, HEAP) = {}
          /\ DataIn(trace, 0, STACK) = {}
      BY DEF DataIn
    <3>2. IsFiniteSet({}) /\ Cardinality({}) = 0
      BY FS_EmptySet
    <3>3. \A c \in {"I", "M", "L", "S", "Globals", "Heap", "Stack"} : f[0][c] = 0
      BY <1>1 DEF NoCounts
    <3>4. /\ f[0]["I"] = 0 /\ f[0]["M"] = 0 /\ f[0]["L"] = 0 /\ f[0]["S"] = 0
          /\ f[0]["Globals"] = 0 /\ f[0]["Heap"] = 0 /\ f[0]["Stack"] = 0
      BY <3>3
    <3>5. f[0]["I"] + f[0]["M"] + f[0]["L"] + f[0]["S"] = 0
      BY <3>4
    <3>6. /\ IsFiniteSet(DataIn(trace, 0, GLOBALS)) /\ IsFiniteSet(DataIn(trace, 0, HEAP))
          /\ IsFiniteSet(DataIn(trace, 0, STACK))
          /\ f[0]["Stack"] = Cardinality(DataIn(trace, 0, STACK))
          /\ f[0]["Globals"] = Cardinality(DataIn(trace, 0, GLOBALS))
          /\ f[0]["Heap"] = Cardinality(DataIn(trace, 0, HEAP))
      BY <3>1, <3>2, <3>4, Zenon
    <3>7. Done(0)
      BY <3>5, <3>6
    <3> HIDE DEF Done
    <3> QED
      BY <1>2, <3>7
  <2>2. ASSUME NEW k \in 1..n, k - 1 \in B PROVE k \in B
    <3>1. k \in 0..n /\ k - 1 \in 0..n /\ k \in Nat \ {0} /\ Done(k - 1)
      BY <1>2, <2>2
    <3> DEFINE r == f[k - 1]
               q == f[k]
               d == trace[k].type # "I"
               G == IF d /\ trace[k].addr \in GLOBALS THEN 1 ELSE 0
               H == IF d /\ trace[k].addr \in HEAP THEN 1 ELSE 0
               K == IF d /\ trace[k].addr \in STACK THEN 1 ELSE 0
    <3>2. r \in Counts /\ q = TrcountRound(trace[k], r) /\ trace[k] \in TraceLines
      BY <1>1, <1>2, <3>1
    <3>3. /\ q \in Counts
          /\ q["I"] + q["M"] + q["L"] + q["S"] = r["I"] + r["M"] + r["L"] + r["S"] + 1
          /\ q["I"] = r["I"] + (IF d THEN 0 ELSE 1)
          /\ q["Globals"] = r["Globals"] + G
          /\ q["Heap"] = r["Heap"] + H
          /\ q["Stack"] = r["Stack"] + K
      BY <3>2, TrcountCounts
    <3>4. /\ IsFiniteSet(DataIn(trace, k, GLOBALS))
          /\ Cardinality(DataIn(trace, k, GLOBALS))
               = Cardinality(DataIn(trace, k - 1, GLOBALS)) + G
      BY <3>1, OneMoreLine
    <3>5. /\ IsFiniteSet(DataIn(trace, k, HEAP))
          /\ Cardinality(DataIn(trace, k, HEAP))
               = Cardinality(DataIn(trace, k - 1, HEAP)) + H
      BY <3>1, OneMoreLine
    <3>6. /\ r["I"] + r["M"] + r["L"] + r["S"] = k - 1
          /\ r["Globals"] = Cardinality(DataIn(trace, k - 1, GLOBALS))
          /\ r["Heap"] = Cardinality(DataIn(trace, k - 1, HEAP))
          /\ r["Stack"] = Cardinality(DataIn(trace, k - 1, STACK))
      BY <3>1
    <3>7. q["I"] + q["M"] + q["L"] + q["S"] = k
      BY <3>1, <3>3, <3>6
    <3>8. /\ IsFiniteSet(DataIn(trace, k, STACK))
          /\ Cardinality(DataIn(trace, k, STACK))
               = Cardinality(DataIn(trace, k - 1, STACK)) + K
      BY <3>1, OneMoreLine
    <3>9. q["Globals"] = Cardinality(DataIn(trace, k, GLOBALS))
          /\ q["Heap"] = Cardinality(DataIn(trace, k, HEAP))
          /\ q["Stack"] = Cardinality(DataIn(trace, k, STACK))
      <4> HIDE DEF r, q, G, H, K
      <4> QED
        BY <3>3, <3>4, <3>5, <3>6, <3>8
    <3>10. Done(k)
      BY <3>4, <3>5, <3>7, <3>8, <3>9
    <3> HIDE DEF Done
    <3> QED
      BY <3>1, <3>10
  <2> HIDE DEF B
  <2>3. \A k \in 0..n : k \in B
    BY <1>2, <2>1, <2>2, AllRounds
  <2> QED
    BY <1>2, <2>3
<1>4. Done(n)
  <2> HIDE DEF Done
  <2> QED
    BY <1>3
<1>5. DOMAIN trace = 1..n
  BY DEF n
<1>6. \A A : DataIn(trace, n, A)
               = {k \in DOMAIN trace : trace[k].type # "I" /\ trace[k].addr \in A}
  BY <1>5 DEF DataIn
<1> QED
  BY <1>1, <1>4, <1>6 DEF TrcountAsDescribed, n

-----------------------------------------------------------------------------
(* One record for each line that fits (mkwords.c:20-24, 72-81). *)
LEMMA MkwordsCorrect ==
  ASSUME NEW S, NEW lines \in Seq(Seq(S)), NEW size \in Nat,
         \A l \in 1..Len(lines) : Len(lines[l]) # 0
  PROVE  MkwordsAsDescribed(lines, size)
<1> SUFFICES ASSUME \A l \in DOMAIN lines : Len(lines[l]) < size
             PROVE  mkwords(lines, size) = [l \in DOMAIN lines |-> Front(lines[l])]
  BY DEF MkwordsAsDescribed
<1>1. \A l \in 1..Len(lines) : Len(lines[l]) # 0 /\ Len(lines[l]) < size
  OBVIOUS
<1> QED
  BY <1>1, PiecesWhole DEF mkwords

-----------------------------------------------------------------------------
(* The inputs that the shell gives are in the domains of the lemmas above. *)

(* The bounded sequences are sequences. *)
LEMMA ShortIsSeq ==
  ASSUME NEW S, NEW m \in Nat, NEW s \in SeqOf(S, m)
  PROVE  s \in Seq(S)
BY DEF SeqOf

(* Each tool on each of its inputs. *)
LEMMA StartsAsDescribed ==
  ASSUME ToolStart
  PROVE  AsDescribed'
<1> USE ToolAssumption DEF Short, Length
<1>1. CASE tool' = "strip" /\ input' \in Short({QuestionMark, "a"}) \X {0}
  <2>1. PICK s \in Short({QuestionMark, "a"}) : input'[1] = s
    BY <1>1
  <2>2. StripAsDescribed(s)
    BY ShortIsSeq, StripCorrect
  <2> QED
    BY <1>1, <2>1, <2>2 DEF AsDescribed
<1>2. CASE tool' = "truncate" /\ input' \in Short({"a", "b"}) \X Length
  <2>1. PICK s \in Short({"a", "b"}), n \in Length : input'[1] = s /\ input'[2] = n
    BY <1>2
  <2>2. TruncateAsDescribed(s, n)
    BY ShortIsSeq, TruncateCorrect
  <2> QED
    BY <1>2, <2>1, <2>2 DEF AsDescribed
<1>3. CASE tool' = "greeting" /\ input' \in Short({"a"}) \X Short({"b"}) \X (1..(2 * MaxLength))
  <2>1. PICK s \in Short({"a"}), t \in Short({"b"}), n \in 1..(2 * MaxLength) :
          input'[1] = s /\ input'[2] = t /\ input'[3] = n
    BY <1>3
  <2> DEFINE S == {"a", "b", Space}
  <2>2. s \in Seq(S) /\ t \in Seq(S)
    <3>1. s \in Seq({"a"}) /\ t \in Seq({"b"})
      BY ShortIsSeq
    <3> QED
      BY <3>1
  <2>3. Space \in S /\ n \in Nat \ {0}
    OBVIOUS
  <2> HIDE DEF S
  <2>4. GreetingAsDescribed(s, t, n)
    BY <2>2, <2>3, GreetingCorrect
  <2> QED
    BY <1>3, <2>1, <2>4 DEF AsDescribed
<1>4. CASE tool' = "split_array" /\ input' \in {[k \in 1..n |-> k] : n \in Length} \X {0}
  <2>1. PICK n \in Length : input'[1] = [k \in 1..n |-> k]
    BY <1>4
  <2> DEFINE s == [k \in 1..n |-> k]
  <2>2. s \in Seq(Nat)
    OBVIOUS
  <2> HIDE DEF s
  <2>3. SplitAsDescribed(s)
    BY <2>2, SplitCorrect
  <2> QED
    BY <1>4, <2>1, <2>3 DEF AsDescribed, s
<1>5. CASE tool' = "fibonacci" /\ input' \in Length \X {0}
  <2>1. PICK n \in Length : input'[1] = n
    BY <1>5
  <2>2. FibAsDescribed(n)
    BY FibCorrect
  <2> QED
    BY <1>5, <2>1, <2>2 DEF AsDescribed
<1>6. CASE tool' = "life" /\ input' \in Short({Dead, Alive}) \X Length
  <2>1. PICK s \in Short({Dead, Alive}), n \in Length : input'[1] = s /\ input'[2] = n
    BY <1>6
  <2> DEFINE C == {Dead, Alive}
  <2>2. Dead \in C /\ Alive \in C /\ s \in Seq(C) /\ n \in Nat
    BY ShortIsSeq
  <2> HIDE DEF C
  <2>3. LifeAsDescribed(s, n)
    BY <2>2, LifeCorrect
  <2> QED
    BY <1>6, <2>1, <2>3 DEF AsDescribed
<1>7. CASE tool' = "trim" /\ input' \in Short(1..3) \X (1..3) \X (1..3)
  <2>1. PICK s \in Short(1..3), m \in 1..3, e \in 1..3 :
          input'[1] = s /\ input'[2] = m /\ input'[3] = e
    BY <1>7
  <2>2. TrimAsDescribed(s, m, e)
    BY ShortIsSeq, TrimCorrect
  <2> QED
    BY <1>7, <2>1, <2>2 DEF AsDescribed
<1>8. CASE /\ tool' = "trcount"
           /\ input' \in SeqOf([type : {"I", "M", "L", "S"},
                                addr : {3, 4, 7, 8, 64, 129, STACK_START}], 2) \X {0}
  <2> DEFINE A == [type : {"I", "M", "L", "S"}, addr : {3, 4, 7, 8, 64, 129, STACK_START}]
  <2>1. PICK s \in SeqOf(A, 2) : input'[1] = s
    BY <1>8
  <2>2. A \subseteq TraceLines
    BY DEF TraceLines, LineTypes, STACK_START
  <2> HIDE DEF A
  <2>3. s \in Seq(TraceLines)
    <3>1. s \in Seq(A)
      BY ShortIsSeq
    <3> QED
      BY <2>2, <3>1
  <2>4. TrcountAsDescribed(s)
    BY <2>3, TrcountCorrect
  <2> QED
    BY <1>8, <2>1, <2>4 DEF AsDescribed
<1>9. CASE /\ tool' = "mkwords"
           /\ input' \in SeqOf({Append(w, Newline) : w \in Short({"a"})}, 2) \X (2..MaxLength)
  <2> DEFINE A == {Append(w, Newline) : w \in Short({"a"})}
             S == {"a", Newline}
  <2>1. PICK s \in SeqOf(A, 2), n \in 2..MaxLength : input'[1] = s /\ input'[2] = n
    BY <1>9
  <2>2. ASSUME NEW l \in A PROVE l \in Seq(S) /\ Len(l) # 0
    <3>1. PICK w \in Short({"a"}) : l = Append(w, Newline)
      OBVIOUS
    <3>2. w \in Seq({"a"})
      BY ShortIsSeq
    <3>3. w \in Seq(S) /\ Newline \in S
      BY <3>2
    <3> QED
      BY <3>1, <3>3, AppendProperties
  <2> HIDE DEF A, S
  <2>3. s \in Seq(A) /\ n \in Nat
    BY ShortIsSeq
  <2>4. s \in Seq(Seq(S)) /\ \A l \in 1..Len(s) : Len(s[l]) # 0
    BY <2>2, <2>3
  <2>5. MkwordsAsDescribed(s, n)
    BY <2>3, <2>4, MkwordsCorrect
  <2> QED
    BY <1>9, <2>1, <2>5 DEF AsDescribed
<1> QED
  BY <1>1, <1>2, <1>3, <1>4, <1>5, <1>6, <1>7, <1>8, <1>9 DEF ToolStart

(* Whatever the shell gives a tool, for every MaxLength, the tool computes *)
(* what the comment above its code asks for (strip.c:5-20, truncate.c:     *)
(* 5-13, greeting.c:6-30, split_array.c:4-10, fibonacci.c:4-15,            *)
(* life_helpers.c:12-15, trim.c:5-8, trcount.c:5-11, mkwords.c:20-24).     *)
(* The lemmas above it say so for sequences over any set.                  *)
THEOREM ToolsCorrect == Spec => []AsDescribed
<1>1. Init => AsDescribed
  BY DEF Init, ToolInit, AsDescribed
<1>2. AsDescribed /\ [Next]_vars => AsDescribed'
  <2> SUFFICES ASSUME AsDescribed, [Next]_vars PROVE AsDescribed'
    OBVIOUS
  <2>1. CASE UNCHANGED toolVars
    BY <2>1 DEF toolVars, AsDescribed
  <2>2. CASE ToolStart
    BY <2>2, StartsAsDescribed
  <2> QED
    BY <2>1, <2>2, OneProgram
<1> QED
  BY <1>1, <1>2, PTL DEF Spec

-----------------------------------------------------------------------------
(* lab7.  A program has not been started, or it has, and the processes     *)
(* made so far are the numbers up to made + 1.                             *)

Line == [who : Pid, from : 0..MaxProcs, no : Nat \cup {"A", "B", "C", "D", "E"}]

Untouched ==
  /\ parent = [p \in Pid |-> Outside] /\ at = [p \in Pid |-> "none"]
  /\ i = [p \in Pid |-> 0] /\ out = [p \in Pid |-> <<>>]
  /\ made = 0 /\ screen = <<>> /\ forkfaults = 0

ForkTypes ==
  /\ program \in {"none", "simplefork", "forkloop", "parentcreates", "childcreates"}
  /\ iterations \in 0..MaxProcs /\ tty \in BOOLEAN
  /\ parent \in [Pid -> 0..MaxProcs] /\ i \in [Pid -> Nat] /\ out \in [Pid -> Seq(Line)]
  /\ at \in [Pid -> {"none", "A", "B", "C", "D", "E", "loop", "print", "wait", "exit",
                     "ended", "reaped"}]
  /\ parent[Root] = Outside
  /\ made \in Nat /\ forkfaults \in Nat /\ screen \in Seq(Line)
  /\ program = "none" => Untouched
  /\ program # "none" => Needs(program, iterations) <= MaxProcs

(* parentcreates: the last child is on its way while Root waits, and what  *)
(* is on the screen and in its buffer are the lines of the children made.  *)
ParentInv ==
  /\ made <= iterations /\ out[Root] = <<>>
  /\ \A p \in Pid : at[p] = "none" <=> p > made + 1
  /\ \A c \in 2..(made + 1) : parent[c] = Root
  /\ \A c \in 2..made : at[c] = "reaped"
  /\ \/ /\ at[Root] \in {"loop", "exit", "ended"}
        /\ made > 0 => at[made + 1] = "reaped"
        /\ at[Root] = "loop" => i[Root] = made
        /\ screen = RootLines(made)
     \/ /\ at[Root] = "wait" /\ made > 0 /\ i[Root] = made - 1 /\ i[made + 1] = made - 1
        /\ at[made + 1] \in {"print", "exit", "ended"}
        /\ tty \/ at[made + 1] # "exit" => out[made + 1] = <<>>
        /\ screen \o out[made + 1]
             = RootLines(IF at[made + 1] = "print" THEN made - 1 ELSE made)

(* childcreates: a chain in which everyone but the last waits, until the   *)
(* last has ended; then the chain ends from its end.                       *)
Deepest(m, d) == FlattenSeq([k \in 1..d |-> LastLines(m + 1 - k)])

ChildChain ==
  /\ made <= iterations
  /\ \A p \in Pid : at[p] = "none" <=> p > made + 1
  /\ \A p \in 1..made : /\ parent[p + 1] = p
                        /\ at[p] \in {"wait", "exit", "ended", "reaped"}
                        /\ at[p] = "wait" <=> at[p + 1] # "reaped"
  /\ at[made + 1] \in {"print", "loop", "wait", "exit", "ended", "reaped"}
  /\ at[made + 1] = "loop" => i[made + 1] = made
  /\ at[made + 1] = "print" => made > 0 /\ i[made + 1] = made - 1

HeldBy(p) == IF Ended(p) THEN <<>>
             ELSE LastLines(IF at[p] = "print" THEN p - 2 ELSE p - 1)
HaveEnded(d) == /\ \A p \in 1..(made + 1) : Ended(p) <=> p > made + 1 - d
                /\ screen = Deepest(made, d)

ChildLines ==
  /\ tty => /\ \A p \in Pid : out[p] = <<>>
            /\ screen = LastLines(IF at[made + 1] = "print" THEN made - 1 ELSE made)
  /\ ~tty => /\ \A p \in 1..(made + 1) : out[p] = HeldBy(p)
             /\ \E d \in 0..(made + 1) : HaveEnded(d)

ChildInv == ChildChain /\ ChildLines

(* forkloop: the times that a process at x with i = j, and the processes   *)
(* it will become, still print line m - 1; how many processes it becomes.  *)
Becomes(m, x, j) == CASE x = "loop" /\ j < m -> Doubled[m - j]
                      [] x = "print" /\ j < m -> Doubled[m - 1 - j]
                      [] OTHER -> 0
Family(n, x, j) == IF x = "none" THEN 0
                   ELSE IF x \in {"loop", "print"} /\ j < n THEN Becomes(n, x, j)
                   ELSE 1

(* The sum of a function: the units of which it consists. *)
Units(f) == {z \in Pid \X Nat : z[2] \in 1..f[z[1]]}
Sums(f, n) == IsFiniteSet(Units(f)) /\ Cardinality(Units(f)) = n

LoopPlaces ==
  /\ made < MaxProcs
  /\ \A p \in Pid : at[p] = "none" <=> p > made + 1
  /\ \A p \in 1..(made + 1) : /\ at[p] \in {"loop", "print", "exit", "ended"}
                              /\ i[p] <= iterations
                              /\ at[p] = "print" => i[p] < iterations
LoopFamilies ==
  Sums([p \in Pid |-> Family(iterations, at[p], i[p])], Doubled[iterations])
LoopScreen(m) == \E n \in Nat : /\ Sums([p \in Pid |-> Becomes(m, at[p], i[p])], n)
                                /\ Printed(m - 1) + n = Doubled[m]
Holds(p, k) == Occurrences(out[p], k) = IF k < i[p] \/ at[p] = "exit" THEN 1 ELSE 0
LoopBuffers(k) == /\ Printed(k) = Cardinality({p \in Pid : at[p] = "ended"})
                  /\ \A p \in 1..(made + 1) : at[p] # "ended" => Holds(p, k)

LoopInv ==
  /\ LoopPlaces /\ LoopFamilies
  /\ tty => (\A p \in Pid : out[p] = <<>>) /\ \A m \in 1..iterations : LoopScreen(m)
  /\ ~tty => \A k \in 0..(iterations - 1) : LoopBuffers(k)

(* simplefork: what process p has still to print at x when m were made,    *)
(* and the times that a letter is printed by then or will be.              *)
Letters == {"A", "B", "C", "D", "E"}
ToGo(p, x, m) == CASE x = "A" -> {"A"}
                   [] x = "B" -> {"B"} \cup (IF m = 0 THEN {}
                                        ELSE {IF p = Root THEN "D" ELSE "C", "E"})
                   [] x \in {"C", "D"} -> {x, "E"}
                   [] x = "E" -> {"E"}
                   [] OTHER -> {}
ToCome(p, x, m, l) == IF l \in ToGo(p, x, m) THEN 1 ELSE 0
SimpleTotal(t, x, m, l) == CASE l = "A" -> IF t THEN 1 ELSE m + 1
                             [] l = "B" -> IF x \in {"A", "loop"} THEN 0 ELSE m + 1
                             [] l \in {"C", "D"} -> m
                             [] l = "E" -> 2 * m

SimplePlaces ==
  /\ made \in {0, 1} /\ i[Root] = 0 /\ iterations = 1
  /\ at[Root] \in {"A", "loop", "B", "D", "E", "exit", "ended"}
  /\ at[Root] \in {"A", "loop"} => made = 0 /\ (~tty => screen = <<>>)
  /\ at[Root] \in {"D", "E"} => made = 1
  /\ IF made = 0 THEN at[2] = "none" /\ out[2] = <<>>
                 ELSE at[2] \in {"B", "C", "E", "exit", "ended"}
  /\ \A p \in Pid : p > 2 => at[p] = "none"
  /\ tty => out[Root] = <<>> /\ out[2] = <<>>
  /\ \A p \in {Root, 2} : at[p] = "ended" => out[p] = <<>>
SimpleCount(l) ==
  Printed(l) + (Occurrences(out[Root], l) + ToCome(Root, at[Root], made, l))
             + (Occurrences(out[2], l) + ToCome(2, at[2], made, l))
    = SimpleTotal(tty, at[Root], made, l)
SimpleInv == SimplePlaces /\ \A l \in Letters : SimpleCount(l)

ForkInv ==
  /\ ForkTypes
  /\ program = "parentcreates" => ParentInv
  /\ program = "childcreates" => ChildInv
  /\ program = "forkloop" /\ forkfaults = 0 => LoopInv
  /\ program = "simplefork" => SimpleInv

(* Doubled is 2^k. *)
LEMMA DoubledIs ==
  /\ Doubled[0] = 1
  /\ \A k \in 1..MaxProcs : Doubled[k] = 2 * Doubled[k - 1]
  /\ \A k \in 0..MaxProcs : Doubled[k] \in Nat \ {0}
<1> DEFINE n == MaxProcs
           X == Nat \ {0}
           F == [k \in 1..n |-> [m \in X |-> 2 * m]]
           Body(g) == [k \in 0..n |-> IF k = 0 THEN 1 ELSE 2 * g[k - 1]]
           c == CHOOSE g : g = Body(g)
<1>1. n \in Nat /\ 1 \in X /\ F \in [1..n -> [X -> X]]
  BY ForkAssumption
<1>2. PICK f \in [0..n -> X] : IsLoop(f, 1, n, F) /\ OnlyLoop(f, n)
  <2> HIDE DEF F, n, X
  <2> QED
    BY <1>1, LoopIs
<1>3. f[0] = 1 /\ \A k \in 1..n : f[k] = 2 * f[k - 1]
  <2> HIDE DEF X, n
  <2>1. \A k \in 1..n : k - 1 \in 0..n /\ f[k - 1] \in X
    BY <1>1
  <2> QED
    BY <1>2, <2>1 DEF IsLoop
<1>4. f = Body(f)
  <2> HIDE DEF n, X
  <2> QED
    BY <1>1, <1>3
<1>5. c = Body(c)
  <2> HIDE DEF Body
  <2> QED
    BY <1>4
<1>6. Doubled = c
  BY DEF Doubled
<1>7. Doubled = Body(Doubled)
  <2> HIDE DEF Body, c
  <2> QED
    BY <1>5, <1>6
<1>8. Doubled[0] = 1 /\ \A k \in 1..n : Doubled[k] = 2 * Doubled[k - 1]
  <2> HIDE DEF n, c
  <2>1. 0 \in 0..n /\ \A k \in 1..n : k \in 0..n /\ k # 0
    BY <1>1
  <2>2. Doubled[0] = 1
    BY <1>7, <2>1
  <2>3. ASSUME NEW k \in 1..n PROVE Doubled[k] = 2 * Doubled[k - 1]
    BY <1>7, <2>1
  <2> QED
    BY <2>2, <2>3
<1>9. \A k \in 0..n : Doubled[k] = f[k]
  <2> HIDE DEF n, c
  <2>1. Doubled[0] = f[0]
    BY <1>3, <1>8
  <2>2. \A k \in 1..n : Doubled[k - 1] = f[k - 1] => Doubled[k] = f[k]
    BY <1>3, <1>8
  <2> HIDE DEF F, X
  <2> QED
    BY <1>2, <2>1, <2>2 DEF OnlyLoop
<1> QED
  <2> HIDE DEF c
  <2> QED
    BY <1>2, <1>8, <1>9

(* Lines are counted as they are added. *)
LEMMA OccurrencesEmpty ==
  ASSUME NEW k
  PROVE  Occurrences(<<>>, k) = 0
<1>1. {j \in DOMAIN <<>> : <<>>[j].no = k} = {}
  OBVIOUS
<1> QED
  BY <1>1, FS_EmptySet DEF Occurrences

(* How often line k was printed is a number. *)
LEMMA OccurrencesNat ==
  ASSUME NEW S, NEW s \in Seq(S), NEW k
  PROVE  /\ IsFiniteSet({j \in DOMAIN s : s[j].no = k})
         /\ Occurrences(s, k) \in Nat
<1> DEFINE D == {j \in DOMAIN s : s[j].no = k}
<1>1. D \subseteq 1..Len(s) /\ IsFiniteSet(1..Len(s))
  BY FS_Interval
<1>2. IsFiniteSet(D)
  BY <1>1, FS_Subset
<1> QED
  BY <1>2, FS_CardinalityType DEF Occurrences

(* One line more. *)
LEMMA OccurrencesAppend ==
  ASSUME NEW S, NEW s \in Seq(S), NEW l \in S, NEW k
  PROVE  Occurrences(Append(s, l), k) = Occurrences(s, k) + (IF l.no = k THEN 1 ELSE 0)
<1> DEFINE D == {j \in DOMAIN s : s[j].no = k}
           t == Append(s, l)
           E == {j \in DOMAIN t : t[j].no = k}
           n == Len(s)
<1>1. t \in Seq(S) /\ Len(t) = n + 1 /\ t[n + 1] = l /\ \A j \in 1..n : t[j] = s[j]
  BY AppendProperties
<1>2. DOMAIN s = 1..n /\ DOMAIN t = 1..(n + 1) /\ n \in Nat
  BY <1>1
<1>3. IsFiniteSet(D) /\ Cardinality(D) \in Nat
  BY OccurrencesNat, FS_CardinalityType
<1> HIDE DEF t
<1>4. \A j : j \in 1..(n + 1) <=> j \in 1..n \/ j = n + 1
  BY <1>2
<1>5. E = IF l.no = k THEN D \cup {n + 1} ELSE D
  <2> HIDE DEF n
  <2> QED
    BY <1>1, <1>2, <1>4
<1>6. n + 1 \notin D
  BY <1>2
<1> HIDE DEF D, E
<1>7. Cardinality(D \cup {n + 1}) = Cardinality(D) + 1
  BY <1>3, <1>6, FS_AddElement
<1>8. Cardinality(E) = Cardinality(D) + (IF l.no = k THEN 1 ELSE 0)
  <2>1. CASE l.no = k
    BY <1>5, <1>7, <2>1
  <2>2. CASE l.no # k
    BY <1>5, <1>3, <2>2
  <2> QED
    BY <2>1, <2>2
<1> QED
  BY <1>8 DEF Occurrences, D, E, t

(* A buffer that is written to the screen brings its lines. *)
LEMMA OccurrencesConcat ==
  ASSUME NEW S, NEW s \in Seq(S), NEW t \in Seq(S), NEW k
  PROVE  Occurrences(s \o t, k) = Occurrences(s, k) + Occurrences(t, k)
<1> DEFINE D == {j \in DOMAIN s : s[j].no = k}
           E == {j \in DOMAIN t : t[j].no = k}
           n == Len(s)
           m == Len(t)
           u == s \o t
           F == {j \in DOMAIN u : u[j].no = k}
           H == {j \in F : j > n}
           f == [j \in E |-> j + n]
<1>1. /\ u \in Seq(S) /\ Len(u) = n + m
      /\ \A j \in 1..(n + m) : u[j] = IF j <= n THEN s[j] ELSE t[j - n]
  BY ConcatProperties
<1>2. /\ DOMAIN s = 1..n /\ DOMAIN t = 1..m /\ DOMAIN u = 1..(n + m)
      /\ n \in Nat /\ m \in Nat
  BY <1>1
<1>3. IsFiniteSet(D) /\ IsFiniteSet(E)
  BY OccurrencesNat
<1> HIDE DEF u, n, m
<1>4. F = D \cup H /\ D \cap H = {}
  <2>1. \A j : j \in 1..n <=> j \in 1..(n + m) /\ j <= n
    BY <1>2
  <2>2. \A j \in 1..n : u[j] = s[j]
    BY <1>1, <2>1
  <2>3. \A j \in F : j <= n \/ j > n
    BY <1>2
  <2> QED
    BY <1>2, <2>1, <2>2, <2>3
<1>5. ExistsBijection(E, H)
  <2>1. ASSUME NEW j \in E PROVE f[j] \in H
    <3>1. j \in 1..m /\ t[j].no = k
      BY <1>2
    <3>2. j + n \in 1..(n + m) /\ j + n > n /\ j + n - n = j /\ ~(j + n <= n)
      BY <1>2, <3>1
    <3>3. u[j + n] = t[j]
      <4>1. PICK h \in 1..(n + m) : h = j + n
        BY <3>2
      <4>2. h - n = j /\ ~(h <= n)
        BY <1>2, <3>1, <4>1
      <4>3. u[h] = IF h <= n THEN s[h] ELSE t[h - n]
        BY <1>1
      <4> QED
        BY <4>1, <4>2, <4>3
    <3> QED
      BY <1>2, <3>1, <3>2, <3>3
  <2>2. ASSUME NEW j \in E, NEW l \in E, f[j] = f[l] PROVE j = l
    <3>1. j \in Nat /\ l \in Nat /\ j + n = l + n
      BY <1>2, <2>2
    <3> QED
      BY <1>2, <3>1
  <2>3. ASSUME NEW h \in H PROVE \E j \in E : f[j] = h
    <3>1. h \in 1..(n + m) /\ h > n /\ u[h].no = k
      BY <1>2
    <3>2. h - n \in 1..m /\ h - n + n = h /\ ~(h <= n)
      BY <1>2, <3>1
    <3>3. u[h] = t[h - n]
      BY <1>1, <3>1, <3>2
    <3>4. h - n \in E
      BY <1>2, <3>1, <3>2, <3>3
    <3> QED
      BY <3>2, <3>4
  <2> HIDE DEF E, H
  <2>4. f \in [E -> H]
    BY <2>1
  <2>5. f \in Bijection(E, H)
    <3> HIDE DEF f
    <3> QED
      BY <2>2, <2>3, <2>4 DEF Bijection, Injection, Surjection, IsInjective
  <2> QED
    BY <2>5 DEF ExistsBijection
<1>6. IsFiniteSet(H) /\ Cardinality(H) = Cardinality(E)
  <2> HIDE DEF E, H
  <2> QED
    BY <1>3, <1>5, FS_Bijection
<1>7. Cardinality(F) = Cardinality(D) + Cardinality(H)
  <2> HIDE DEF D, H, F
  <2>1. Cardinality(D \cup H) = Cardinality(D) + Cardinality(H) - Cardinality(D \cap H)
    BY <1>3, <1>6, FS_Union
  <2>2. Cardinality(D \cap H) = 0
    BY <1>4, FS_EmptySet
  <2>3. Cardinality(D) \in Nat /\ Cardinality(H) \in Nat
    BY <1>3, <1>6, FS_CardinalityType
  <2> QED
    BY <1>4, <2>1, <2>2, <2>3
<1> QED
  BY <1>6, <1>7 DEF Occurrences, u

-----------------------------------------------------------------------------
(* Changing one summand changes the sum by the difference. *)

(* The units of one process are as many as its number. *)
LEMMA Column ==
  ASSUME NEW p, NEW k \in Nat
  PROVE  IsFiniteSet({p} \X (1..k)) /\ Cardinality({p} \X (1..k)) = k
<1> DEFINE C == {p} \X (1..k)
           I == 1..k
           f == [j \in I |-> <<p, j>>]
<1>1. IsFiniteSet(I) /\ Cardinality(I) = k
  BY FS_Interval
<1>2. f \in Bijection(I, C)
  <2>1. f \in [I -> C] /\ (\A j \in C : \E l \in I : f[l] = j) /\ \A j, l \in I : f[j] = f[l] => j = l
    OBVIOUS
  <2> HIDE DEF f, I, C
  <2> QED
    BY <2>1 DEF Bijection, Injection, Surjection, IsInjective
<1>3. ExistsBijection(I, C)
  BY <1>2 DEF ExistsBijection
<1> HIDE DEF I, C
<1>4. IsFiniteSet(C) /\ Cardinality(C) = k
  BY <1>1, <1>3, FS_Bijection
<1> QED
  BY <1>4 DEF C

(* A function that is 0 everywhere has the sum 0. *)
LEMMA SumZero == Sums([p \in Pid |-> 0], 0)
<1>1. Units([p \in Pid |-> 0]) = {}
  BY DEF Units
<1> QED
  BY <1>1, FS_EmptySet DEF Sums

(* What the change of one value does to the sum. *)
LEMMA SumExcept ==
  ASSUME NEW f \in [Pid -> Nat], NEW n \in Nat, Sums(f, n), NEW p \in Pid, NEW a \in Nat
  PROVE  \E m \in Nat : m + f[p] = n + a /\ Sums([f EXCEPT ![p] = a], m)
<1> DEFINE U == Units(f)
           G == {z \in U : z[1] # p}
           C(k) == {p} \X (1..k)
           g == [f EXCEPT ![p] = a]
           V == Units(g)
<1>1. IsFiniteSet(U) /\ Cardinality(U) = n /\ f[p] \in Nat
  BY DEF Sums
<1>2. U = G \cup C(f[p]) /\ G \cap C(f[p]) = {}
  BY DEF Units
<1>3. V = G \cup C(a) /\ G \cap C(a) = {}
  BY DEF Units
<1>4. IsFiniteSet(G) /\ Cardinality(G) \in Nat
  <2>1. G \in SUBSET U
    OBVIOUS
  <2> HIDE DEF U, G
  <2> QED
    BY <1>1, <2>1, FS_Subset, FS_CardinalityType
<1>5. \A k \in Nat : IsFiniteSet(C(k)) /\ Cardinality(C(k)) = k
  BY Column
<1> HIDE DEF C, G, U, V
<1>6. ASSUME NEW k \in Nat, G \cap C(k) = {}
      PROVE  IsFiniteSet(G \cup C(k)) /\ Cardinality(G \cup C(k)) = Cardinality(G) + k
  <2>1. IsFiniteSet(C(k)) /\ Cardinality(C(k)) = k
    BY <1>5
  <2>2. IsFiniteSet(G \cup C(k))
        /\ Cardinality(G \cup C(k)) = Cardinality(G) + Cardinality(C(k)) - Cardinality(G \cap C(k))
    BY <1>4, <2>1, FS_Union
  <2>3. Cardinality(G \cap C(k)) = 0
    BY <1>6, FS_EmptySet
  <2> QED
    BY <1>4, <2>1, <2>2, <2>3
<1>7. n = Cardinality(G) + f[p]
  BY <1>1, <1>2, <1>6
<1>8. IsFiniteSet(V) /\ Cardinality(V) = Cardinality(G) + a
  BY <1>3, <1>6
<1> DEFINE m == Cardinality(G) + a
<1>9. m \in Nat /\ m + f[p] = n + a
  BY <1>1, <1>4, <1>7
<1>10. Sums(g, m)
  BY <1>8 DEF Sums, V
<1> QED
  BY <1>9, <1>10

(* No parts have no elements. *)
LEMMA FlattenNone ==
  ASSUME NEW q, Len(q) = 0
  PROVE  FlattenSeq(q) = q
BY DEF FlattenSeq

(* One sequence more. *)
LEMMA FlattenMore ==
  ASSUME NEW W, NEW q \in Seq(Seq(W)), NEW r \in Seq(W)
  PROVE  /\ FlattenSeq(q) \in Seq(W)
         /\ FlattenSeq(Append(q, r)) = FlattenSeq(q) \o r
<1> DEFINE n == Len(q)
           p == Append(q, r)
<1>1. /\ n \in Nat /\ p \in Seq(Seq(W)) /\ Len(p) = n + 1
      /\ p[n + 1] = r /\ \A k \in 1..n : p[k] = q[k]
  BY AppendProperties
<1>2. Len(p) # 0
  BY <1>1
<1> HIDE DEF p
<1>3. PICK g \in [1..Len(p) -> Seq(W)] :
        /\ g[1] = p[1] /\ \A k \in 2..Len(p) : g[k] = g[k - 1] \o p[k]
        /\ FlattenSeq(p) = g[Len(p)]
  BY <1>1, <1>2, FlattenLoop
<1>4. CASE n = 0
  <2>1. q = <<>>
    BY <1>4
  <2>2. FlattenSeq(q) = <<>>
    BY <1>4, <2>1, FlattenNone
  <2>3. FlattenSeq(p) = r
    BY <1>1, <1>3, <1>4
  <2>4. <<>> \o r = r /\ <<>> \in Seq(W)
    BY ConcatEmptySeq
  <2> QED
    BY <2>2, <2>3, <2>4 DEF p
<1>5. CASE n # 0
  <2>1. PICK f \in [1..n -> Seq(W)] :
          /\ f[1] = q[1] /\ \A k \in 2..n : f[k] = f[k - 1] \o q[k]
          /\ FlattenSeq(q) = f[n]
    BY <1>5, FlattenLoop
  <2> DEFINE B == {k \in 0..n : k # 0 => f[k] = g[k]}
  <2> HIDE DEF n
  <2>2. B \in SUBSET (0..n) /\ 0 \in B
    BY <1>1
  <2>3. ASSUME NEW k \in 1..n, k - 1 \in B PROVE k \in B
    <3>1. k \in 0..n /\ p[k] = q[k]
      BY <1>1
    <3>2. CASE k = 1
      BY <1>3, <2>1, <3>1, <3>2
    <3>3. CASE k # 1
      <4>1. k \in 2..n /\ k \in 2..Len(p) /\ k - 1 # 0
        BY <1>1, <3>3
      <4>2. f[k - 1] = g[k - 1]
        BY <2>3, <4>1
      <4> QED
        BY <1>3, <2>1, <3>1, <4>1, <4>2
    <3> QED
      BY <3>2, <3>3
  <2> HIDE DEF B
  <2>4. \A k \in 0..n : k \in B
    BY <1>1, <2>2, <2>3, AllRounds
  <2>5. f[n] = g[n]
    BY <1>1, <1>5, <2>4 DEF B
  <2>6. n + 1 \in 2..Len(p) /\ n + 1 - 1 = n /\ n \in 1..n
    BY <1>1, <1>5
  <2>7. g[n + 1] = g[n] \o r
    <3>1. PICK l \in 2..Len(p) : l = n + 1
      BY <2>6
    <3>2. g[l] = g[l - 1] \o p[l]
      BY <1>3
    <3> QED
      BY <1>1, <2>6, <3>1, <3>2
  <2> QED
    BY <1>1, <1>3, <2>1, <2>5, <2>6, <2>7 DEF p
<1> QED
  BY <1>4, <1>5

(* The lines of the children of Root grow at their end. *)
LEMMA RootLinesAre ==
  ASSUME NEW m \in 0..(MaxProcs - 1)
  PROVE  /\ RootLines(m) \in Seq(Line) /\ Len(RootLines(m)) = m
         /\ m = 0 => RootLines(m) = <<>>
         /\ m > 0 => Append(RootLines(m - 1), FromRoot(m)) = RootLines(m)
<1>1. \A k \in 1..m : FromRoot(k) \in Line
  BY ForkAssumption DEF FromRoot, Line, Pid, Root
<1>2. m \in Nat
  BY ForkAssumption
<1>3. RootLines(m) \in Seq(Line) /\ Len(RootLines(m)) = m
  BY <1>1, <1>2 DEF RootLines
<1>4. m = 0 => RootLines(m) = <<>>
  BY <1>3
<1>5. ASSUME m > 0 PROVE Append(RootLines(m - 1), FromRoot(m)) = RootLines(m)
  <2> DEFINE a == RootLines(m - 1)
             b == FromRoot(m)
  <2>1. /\ a \in Seq(Line) /\ Len(a) = m - 1 /\ b \in Line
        /\ \A k \in 1..(m - 1) : a[k] = FromRoot(k)
    BY <1>1, <1>2, <1>5 DEF RootLines
  <2>2. \A k \in 1..m : RootLines(m)[k] = FromRoot(k)
    BY DEF RootLines
  <2> HIDE DEF a, b
  <2>3. /\ Append(a, b) \in Seq(Line) /\ Len(Append(a, b)) = Len(a) + 1
        /\ \A k \in 1..Len(a) : Append(a, b)[k] = a[k]
        /\ Append(a, b)[Len(a) + 1] = b
    BY <2>1, AppendProperties
  <2>4. \A k \in 1..m : Append(a, b)[k] = FromRoot(k)
    <3> TAKE k \in 1..m
    <3>1. CASE k = m
      BY <1>2, <2>1, <2>3, <3>1 DEF b
    <3>2. CASE k # m
      <4>1. k \in 1..(m - 1)
        BY <1>2, <3>2
      <4> QED
        BY <2>1, <2>3, <4>1
    <3> QED
      BY <3>1, <3>2
  <2>5. Len(Append(a, b)) = m
    BY <1>2, <2>1, <2>3
  <2>6. Append(a, b) = RootLines(m)
    BY <1>3, <2>2, <2>3, <2>4, <2>5, SeqEqual
  <2> QED
    BY <2>6 DEF a, b
<1> QED
  BY <1>3, <1>4, <1>5

(* So do the lines of the children each made by the last. *)
LEMMA LastLinesAre ==
  ASSUME NEW m \in 0..(MaxProcs - 1)
  PROVE  /\ LastLines(m) \in Seq(Line) /\ Len(LastLines(m)) = m
         /\ m = 0 => LastLines(m) = <<>>
         /\ m > 0 => Append(LastLines(m - 1), FromLast(m)) = LastLines(m)
<1>1. \A k \in 1..m : FromLast(k) \in Line
  BY ForkAssumption DEF FromLast, Line, Pid
<1>2. m \in Nat
  BY ForkAssumption
<1>3. LastLines(m) \in Seq(Line) /\ Len(LastLines(m)) = m
  BY <1>1, <1>2 DEF LastLines
<1>4. m = 0 => LastLines(m) = <<>>
  BY <1>3
<1>5. ASSUME m > 0 PROVE Append(LastLines(m - 1), FromLast(m)) = LastLines(m)
  <2> DEFINE a == LastLines(m - 1)
             b == FromLast(m)
  <2>1. /\ a \in Seq(Line) /\ Len(a) = m - 1 /\ b \in Line
        /\ \A k \in 1..(m - 1) : a[k] = FromLast(k)
    BY <1>1, <1>2, <1>5 DEF LastLines
  <2>2. \A k \in 1..m : LastLines(m)[k] = FromLast(k)
    BY DEF LastLines
  <2> HIDE DEF a, b
  <2>3. /\ Append(a, b) \in Seq(Line) /\ Len(Append(a, b)) = Len(a) + 1
        /\ \A k \in 1..Len(a) : Append(a, b)[k] = a[k]
        /\ Append(a, b)[Len(a) + 1] = b
    BY <2>1, AppendProperties
  <2>4. \A k \in 1..m : Append(a, b)[k] = FromLast(k)
    <3> TAKE k \in 1..m
    <3>1. CASE k = m
      BY <1>2, <2>1, <2>3, <3>1 DEF b
    <3>2. CASE k # m
      <4>1. k \in 1..(m - 1)
        BY <1>2, <3>2
      <4> QED
        BY <2>1, <2>3, <4>1
    <3> QED
      BY <3>1, <3>2
  <2>5. Len(Append(a, b)) = m
    BY <1>2, <2>1, <2>3
  <2>6. Append(a, b) = LastLines(m)
    BY <1>3, <2>2, <2>3, <2>4, <2>5, SeqEqual
  <2> QED
    BY <2>6 DEF a, b
<1> QED
  BY <1>3, <1>4, <1>5

(* The buffers of the deepest processes, one after the other. *)
LEMMA DeepestIs ==
  ASSUME NEW m \in 0..(MaxProcs - 1), NEW d \in 0..m
  PROVE  /\ Deepest(m, 0) = <<>>
         /\ Deepest(m, d) \in Seq(Line)
         /\ Deepest(m, d + 1) = Deepest(m, d) \o LastLines(m - d)
<1>1. m \in Nat /\ d \in Nat
  BY ForkAssumption
<1> DEFINE q(e) == [k \in 1..e |-> LastLines(m + 1 - k)]
<1>2. Deepest(m, 0) = <<>>
  <2>1. Len(q(0)) = 0 /\ q(0) = <<>>
    OBVIOUS
  <2> HIDE DEF q
  <2>2. FlattenSeq(q(0)) = <<>>
    BY <2>1, FlattenNone
  <2> QED
    BY <2>2 DEF Deepest, q
<1>3. ASSUME NEW k \in 1..(d + 1) PROVE LastLines(m + 1 - k) \in Seq(Line)
  <2>1. m + 1 - k \in 0..(MaxProcs - 1)
    BY <1>1, ForkAssumption
  <2> QED
    BY <2>1, LastLinesAre
<1>4. /\ q(d) \in Seq(Seq(Line)) /\ Len(q(d)) = d
      /\ q(d + 1) \in Seq(Seq(Line)) /\ Len(q(d + 1)) = d + 1
  BY <1>1, <1>3
<1>5. LastLines(m - d) \in Seq(Line)
  <2>1. m - d \in 0..(MaxProcs - 1)
    BY <1>1, ForkAssumption
  <2> QED
    BY <2>1, LastLinesAre
<1>6. q(d + 1) = Append(q(d), LastLines(m - d))
  <2> DEFINE a == q(d)
             b == LastLines(m - d)
             c == q(d + 1)
  <2>1. \A k \in 1..d : c[k] = a[k]
    BY <1>1
  <2>2. c[d + 1] = b
    <3>1. d + 1 \in 1..(d + 1) /\ m + 1 - (d + 1) = m - d
      BY <1>1
    <3> QED
      BY <3>1
  <2>3. /\ a \in Seq(Seq(Line)) /\ Len(a) = d /\ b \in Seq(Line)
        /\ c \in Seq(Seq(Line)) /\ Len(c) = d + 1
    BY <1>4, <1>5
  <2> HIDE DEF a, b, c
  <2>4. /\ Append(a, b) \in Seq(Seq(Line)) /\ Len(Append(a, b)) = d + 1
        /\ \A k \in 1..d : Append(a, b)[k] = a[k]
        /\ Append(a, b)[d + 1] = b
    BY <2>3, AppendProperties
  <2>5. \A k \in 1..(d + 1) : Append(a, b)[k] = c[k]
    <3> TAKE k \in 1..(d + 1)
    <3>1. k = d + 1 \/ k \in 1..d
      BY <1>1
    <3> QED
      BY <2>1, <2>2, <2>4, <3>1
  <2>6. c = Append(a, b)
    BY <2>3, <2>4, <2>5, SeqEqual
  <2> QED
    BY <2>6 DEF a, b, c
<1>7. /\ FlattenSeq(q(d)) \in Seq(Line)
      /\ FlattenSeq(q(d + 1)) = FlattenSeq(q(d)) \o LastLines(m - d)
  <2> HIDE DEF q
  <2> QED
    BY <1>4, <1>5, <1>6, FlattenMore
<1> QED
  BY <1>2, <1>7 DEF Deepest

(* A process takes steps only after the start, and the program stays. *)
LEMMA Running ==
  ASSUME ForkTypes, NEW p \in Pid, ForkStep(p)
  PROVE  /\ program # "none" /\ at[p] \notin {"none", "ended", "reaped"}
         /\ UNCHANGED <<program, iterations, tty>>
<1>1. at[p] \notin {"none", "ended", "reaped"} /\ UNCHANGED <<program, iterations, tty>>
  BY DEF ForkStep, Fork, ForkFails, LoopDone, PrintLine, Wait, Exit
<1> QED
  BY <1>1 DEF ForkTypes, Untouched

(* There is room for Root and a child. *)
LEMMA RootIsPid == Root \in Pid /\ 2 \in Pid /\ MaxProcs \in Nat /\ MaxProcs > 1
BY ForkAssumption DEF Root, Pid

(* Where a process may be. *)
At == {"none", "A", "B", "C", "D", "E", "loop", "print", "wait", "exit", "ended", "reaped"}

(* A program that starts keeps the types. *)
LEMMA ForkTypesStart ==
  ASSUME ForkTypes, ForkStart
  PROVE  ForkTypes'
<1>1. PICK pr \in {"simplefork", "forkloop", "parentcreates", "childcreates"}, n \in 0..MaxProcs :
        /\ Needs(pr, n) <= MaxProcs /\ program' = pr /\ iterations' = n
        /\ at' = [at EXCEPT ![Root] = IF pr = "simplefork" THEN "A" ELSE "loop"]
  BY DEF ForkStart
<1>2. at' \in [Pid -> At]
  BY <1>1 DEF ForkTypes, At
<1>3. tty' \in BOOLEAN /\ UNCHANGED <<parent, i, out, made, screen, forkfaults>>
  BY DEF ForkStart
<1>4. Needs(program', iterations') <= MaxProcs /\ program' # "none"
  BY <1>1
<1> QED
  BY <1>1, <1>2, <1>3, <1>4 DEF ForkTypes, At

(* The line that a process prints. *)
ItsLine(p) == [who |-> p, from |-> getppid(p),
               no |-> IF program = "simplefork" THEN at[p] ELSE i[p]]

(* What a process prints is a line. *)
LEMMA ItsLineIsLine ==
  ASSUME ForkTypes, NEW p \in Pid,
         program = "simplefork" => at[p] \in {"A", "B", "C", "D", "E"}
  PROVE  ItsLine(p) \in Line
<1>1. getppid(p) \in 0..MaxProcs
  BY RootIsPid DEF getppid, ForkTypes, Outside
<1>2. i[p] \in Nat
  BY DEF ForkTypes
<1> QED
  BY <1>1, <1>2 DEF ItsLine, Line

(* So does every step of a process. *)
LEMMA ForkTypesStep ==
  ASSUME ForkTypes, NEW p \in Pid, ForkStep(p),
         program = "simplefork" => at[p] # "print"
  PROVE  ForkTypes'
<1>1. /\ program # "none" /\ at[p] \notin {"none", "ended", "reaped"}
      /\ UNCHANGED <<program, iterations, tty>>
  BY Running
<1>2. Needs(program, iterations)' = Needs(program, iterations)
  BY <1>1 DEF Needs
<1>a. /\ parent \in [Pid -> 0..MaxProcs] /\ i \in [Pid -> Nat]
      /\ out \in [Pid -> Seq(Line)]
      /\ at \in [Pid -> At] /\ parent[Root] = Outside
      /\ made \in Nat /\ forkfaults \in Nat /\ screen \in Seq(Line)
  BY DEF ForkTypes, At
<1>3. SUFFICES /\ parent' \in [Pid -> 0..MaxProcs] /\ i' \in [Pid -> Nat] /\ out' \in [Pid -> Seq(Line)]
               /\ at' \in [Pid -> At] /\ parent'[Root] = Outside
               /\ made' \in Nat /\ forkfaults' \in Nat /\ screen' \in Seq(Line)
  BY <1>1, <1>2 DEF ForkTypes, At
<1>4. CASE Fork(p)
  <2> DEFINE c == made + 2
  <2>1. p \in 0..MaxProcs /\ c # Root
    BY <1>a, RootIsPid DEF Pid, Root
  <2>2. ParentAfterFork \in At /\ ChildAfterFork \in At
    BY DEF ParentAfterFork, ChildAfterFork, At
  <2>3. /\ parent' = [parent EXCEPT ![c] = p] /\ made' = made + 1
        /\ at' = [at EXCEPT ![p] = ParentAfterFork, ![c] = ChildAfterFork]
        /\ i' = [i EXCEPT ![c] = i[p]] /\ out' = [out EXCEPT ![c] = out[p]]
        /\ UNCHANGED <<screen, forkfaults>>
    BY <1>4 DEF Fork, Inherited
  <2> HIDE DEF c
  <2>4. parent' \in [Pid -> 0..MaxProcs] /\ parent'[Root] = Outside
    BY <1>a, <2>1, <2>3, RootIsPid
  <2>5. at' \in [Pid -> At]
    BY <1>a, <2>2, <2>3
  <2>6. i' \in [Pid -> Nat] /\ out' \in [Pid -> Seq(Line)]
    <3>1. i[p] \in Nat /\ out[p] \in Seq(Line)
      BY <1>a
    <3>2. i' \in [Pid -> Nat]
      BY <1>a, <2>3, <3>1
    <3>3. out' \in [Pid -> Seq(Line)]
      BY <1>a, <2>3, <3>1
    <3> QED
      BY <3>2, <3>3
  <2>7. made' \in Nat /\ forkfaults' \in Nat /\ screen' \in Seq(Line)
    BY <1>a, <2>3
  <2> QED
    BY <2>4, <2>5, <2>6, <2>7
<1>5. CASE ForkFails(p)
  BY <1>a, <1>5 DEF ForkFails, At
<1>6. CASE LoopDone(p)
  BY <1>a, <1>6 DEF LoopDone, At
<1>7. CASE PrintLine(p)
  <2> DEFINE l == ItsLine(p)
  <2>1. program = "simplefork" => at[p] \in {"A", "B", "C", "D", "E"}
    BY <1>7 DEF PrintLine
  <2>2. l \in Line
    BY <2>1, ItsLineIsLine
  <2>3. /\ IF tty THEN screen' = Append(screen, l) /\ out' = out
                  ELSE out' = [out EXCEPT ![p] = Append(@, l)] /\ screen' = screen
        /\ at' = [at EXCEPT ![p] = AfterPrint(p)] /\ CountOn(p, AfterPrint(p))
        /\ UNCHANGED <<parent, made, forkfaults>>
    BY <1>7 DEF PrintLine, ItsLine
  <2> HIDE DEF l
  <2>4. AfterPrint(p) \in At
    BY DEF AfterPrint, At
  <2>5. at' \in [Pid -> At]
    BY <1>a, <2>3, <2>4
  <2>6. i' \in [Pid -> Nat]
    BY <1>a, <2>3 DEF CountOn
  <2>7. out[p] \in Seq(Line)
    BY <1>a
  <2>8. Append(screen, l) \in Seq(Line) /\ Append(out[p], l) \in Seq(Line)
    BY <1>a, <2>2, <2>7, AppendProperties
  <2>9. screen' \in Seq(Line) /\ out' \in [Pid -> Seq(Line)]
    BY <1>a, <2>3, <2>8
  <2> QED
    BY <1>a, <2>3, <2>5, <2>6, <2>9
<1>8. CASE Wait(p)
  <2>1. PICK to \in {"loop", "exit"} :
          /\ \/ at' = [at EXCEPT ![p] = to]
             \/ \E c \in Zombies(p) : at' = [at EXCEPT ![p] = to, ![c] = "reaped"]
          /\ CountOn(p, to)
          /\ UNCHANGED <<parent, out, made, screen, forkfaults>>
    BY <1>8 DEF Wait
  <2>2. at' \in [Pid -> At]
    BY <1>a, <2>1 DEF At
  <2>3. i' \in [Pid -> Nat]
    BY <1>a, <2>1 DEF CountOn
  <2> QED
    BY <1>a, <2>1, <2>2, <2>3
<1>9. CASE Exit(p)
  <2>1. at' \in [Pid -> At]
    BY <1>a, <1>9 DEF Exit, At
  <2>2. out[p] \in Seq(Line) /\ <<>> \in Seq(Line)
    BY <1>a
  <2>3. screen \o out[p] \in Seq(Line)
    BY <1>a, <2>2, ConcatProperties
  <2>4. screen' \in Seq(Line) /\ out' \in [Pid -> Seq(Line)]
    BY <1>a, <1>9, <2>2, <2>3 DEF Exit
  <2> QED
    BY <1>a, <1>9, <2>1, <2>4 DEF Exit
<1> QED
  BY <1>4, <1>5, <1>6, <1>7, <1>8, <1>9 DEF ForkStep

(* What the variables of a process are. *)
LEMMA ForkTyped ==
  ASSUME ForkTypes
  PROVE  /\ DOMAIN at = Pid /\ DOMAIN i = Pid /\ DOMAIN out = Pid /\ DOMAIN parent = Pid
         /\ \A p \in Pid : out[p] \in Seq(Line) /\ i[p] \in Nat
         /\ screen \in Seq(Line) /\ made \in Nat /\ iterations \in 0..MaxProcs
         /\ parent[Root] = Outside /\ tty \in BOOLEAN
BY DEF ForkTypes

(* parentcreates starts with no child and no line. *)
LEMMA ParentStart ==
  ASSUME ForkTypes, ForkStart, program' = "parentcreates"
  PROVE  ParentInv'
<1>1. /\ at' = [at EXCEPT ![Root] = "loop"] /\ iterations' \in Nat
      /\ UNCHANGED <<parent, i, out, made, screen, forkfaults>> /\ program = "none"
  BY RootIsPid DEF ForkStart
<1>2. /\ at = [p \in Pid |-> "none"] /\ i = [p \in Pid |-> 0]
      /\ out = [p \in Pid |-> <<>>]
      /\ made = 0 /\ screen = <<>>
  BY <1>1 DEF ForkTypes, Untouched
<1>3. \A p \in Pid : at'[p] = IF p = Root THEN "loop" ELSE "none"
  BY <1>1, <1>2, RootIsPid
<1>4. \A p \in Pid : at'[p] = "none" <=> p > 1
  BY <1>3 DEF Pid, Root
<1>5. RootLines(0) = <<>>
  BY RootLinesAre, RootIsPid
<1>6. /\ out'[Root] = <<>> /\ i'[Root] = 0 /\ at'[Root] = "loop"
      /\ made' = 0 /\ screen' = RootLines(0)
  BY <1>1, <1>2, <1>3, <1>5, RootIsPid
<1>7. (made + 1)' = 1
  BY <1>6
<1> QED
  BY <1>1, <1>4, <1>6, <1>7 DEF ParentInv, RootLines, FromRoot, Root

(* Who can be where in parentcreates. *)
LEMMA ParentPlaces ==
  ASSUME ForkTypes, ParentInv, program = "parentcreates", NEW p \in Pid,
         at[p] \notin {"none", "ended", "reaped"}
  PROVE  /\ p = Root \/ (p = made + 1 /\ p # Root /\ at[Root] = "wait"
                          /\ at[p] \in {"print", "exit"})
         /\ p = Root => at[p] \in {"loop", "wait", "exit"}
         /\ made \in Nat /\ made + 1 \in Pid
<1>1. made \in Nat /\ p \in 1..(made + 1)
  <2>1. made \in Nat /\ p <= made + 1
    BY DEF ForkTypes, ParentInv, Pid
  <2> QED
    BY <2>1 DEF Pid
<1>2. p = Root \/ p \in 2..made \/ p = made + 1
  BY <1>1 DEF Root
<1>3. p \notin 2..made
  BY DEF ParentInv
<1>4. made + 1 \in Pid
  <2>1. made <= iterations /\ iterations \in Nat /\ iterations + 1 <= MaxProcs
    BY DEF ParentInv, ForkTypes, Needs
  <2> QED
    BY <1>1, <2>1, RootIsPid DEF Pid
<1>5. CASE p # Root
  <2>1. p = made + 1 /\ made > 0
    BY <1>1, <1>2, <1>3, <1>5 DEF Root
  <2> QED
    BY <1>1, <1>4, <1>5, <2>1 DEF ParentInv
<1>6. CASE p = Root
  BY <1>1, <1>4, <1>6 DEF ParentInv
<1> QED
  BY <1>5, <1>6

(* What a process does when it goes to another place, and no more. *)
LEMMA ParentFork ==
  ASSUME ForkTypes, ParentInv, program = "parentcreates", NEW p \in Pid, Fork(p)
  PROVE  ParentInv'
<1> DEFINE m == made + 1
           c == m + 1
<1>1. /\ at[p] = "loop" /\ i[p] < iterations /\ p = Root /\ made \in Nat
  BY ParentPlaces DEF Fork
<1>2. /\ screen = RootLines(made) /\ i[Root] = made
      /\ \A q \in 2..made : at[q] = "reaped" /\ (made > 0 => at[made + 1] = "reaped")
  BY <1>1 DEF ParentInv
<1>3. m \in Nat /\ m > 0 /\ m - 1 = made /\ m <= iterations /\ c \in Pid /\ c # Root
  <2>1. iterations \in Nat /\ iterations + 1 <= MaxProcs
    BY DEF ForkTypes, Needs
  <2> QED
    BY <1>1, <1>2, <2>1, RootIsPid DEF Pid, Root
<1>4. /\ parent' = [parent EXCEPT ![c] = Root] /\ made' = m
      /\ at' = [at EXCEPT ![Root] = "wait", ![c] = "print"]
      /\ i' = [i EXCEPT ![c] = made] /\ out' = [out EXCEPT ![c] = out[Root]]
      /\ screen' = screen /\ iterations' = iterations
  <2>1. c = made + 2 /\ ParentAfterFork = "wait" /\ ChildAfterFork = "print"
    BY <1>1 DEF ParentAfterFork, ChildAfterFork
  <2> HIDE DEF c, m
  <2>2. made' = m
    BY DEF Fork, m
  <2> QED
    BY <1>1, <1>2, <2>1, <2>2 DEF Fork, Inherited
<1>5. out[Root] = <<>> /\ (\A q \in Pid : at[q] = "none" <=> q > m)
      /\ \A q \in 2..m : parent[q] = Root
  BY DEF ParentInv
<1> HIDE DEF m
<1>6. out'[Root] = <<>> /\ out'[c] = <<>> /\ at'[Root] = "wait" /\ at'[c] = "print"
      /\ i'[Root] = made /\ i'[c] = made
  BY <1>2, <1>3, <1>4, <1>5, ForkTyped, RootIsPid
<1>7. \A q \in Pid : at'[q] = "none" <=> q > m + 1
  <2> TAKE q \in Pid
  <2>1. q \in Nat /\ Root \in Nat /\ Root <= m
    BY <1>3 DEF Pid, Root
  <2>2. CASE q = c
    BY <1>3, <1>6, <2>1, <2>2
  <2>3. CASE q = Root
    BY <1>3, <1>6, <2>1, <2>3
  <2>4. CASE q # c /\ q # Root
    BY <1>3, <1>4, <1>5, <2>1, <2>4, ForkTyped
  <2> QED
    BY <2>2, <2>3, <2>4
<1>8. \A q \in 2..(m + 1) : parent'[q] = Root
  BY <1>3, <1>4, <1>5, ForkTyped DEF Pid
<1>9. \A q \in 2..m : at'[q] = "reaped"
  <2> TAKE q \in 2..m
  <2>a. q \in Nat /\ q > 1 /\ q <= m /\ m \in Nat /\ m + 1 \in Pid
    BY <1>3
  <2>1. q \in Pid /\ q # c /\ q # Root
    BY <2>a, RootIsPid DEF Pid, Root
  <2>2. at'[q] = at[q]
    BY <1>4, <2>1, ForkTyped
  <2>3. q \in 2..made \/ (q = made + 1 /\ made > 0)
    BY <1>1, <1>3
  <2> QED
    BY <1>2, <1>1, <2>2, <2>3 DEF ParentInv
<1>10. screen' \o out'[c] = RootLines(m - 1)
  BY <1>2, <1>3, <1>4, <1>6, ForkTyped, ConcatEmptySeq
<1> QED
  <2>1. /\ (made <= iterations)' /\ (RootLines(made - 1))' = RootLines(m - 1)
        /\ RootLines(made)' = RootLines(m)
    BY <1>3, <1>4 DEF RootLines, FromRoot
  <2> QED
    BY <1>3, <1>4, <1>6, <1>7, <1>8, <1>9, <1>10, <2>1 DEF ParentInv

(* Root leaves the loop. *)
LEMMA ParentLeaves ==
  ASSUME ForkTypes, ParentInv, program = "parentcreates", NEW p \in Pid,
         ForkFails(p) \/ LoopDone(p)
  PROVE  ParentInv'
<1>1. at[p] = "loop" /\ p = Root
  BY ParentPlaces DEF ForkFails, LoopDone
<1>2. /\ at' = [at EXCEPT ![Root] = "exit"]
      /\ UNCHANGED <<program, iterations, tty, parent, i, out, made, screen>>
  BY <1>1 DEF ForkFails, LoopDone
<1>3. \A q \in Pid : at'[q] = IF q = Root THEN "exit" ELSE at[q]
  BY <1>2, ForkTyped
<1>a. made \in Nat /\ made + 1 \in Pid
  BY <1>1, ParentPlaces
<1>4. (made > 0 => made + 1 # Root) /\ \A q \in 2..made : q # Root
  <2>1. \A x \in Nat : x > 0 => x + 1 # 1
    OBVIOUS
  <2>2. \A x : \A q \in 2..x : q # 1
    OBVIOUS
  <2> QED
    BY <1>a, <2>1, <2>2 DEF Root
<1>6. screen = RootLines(made) /\ (made > 0 => at[made + 1] = "reaped")
  BY <1>1 DEF ParentInv
<1>b. \A q \in 2..made : at[q] = "reaped" /\ q \in Pid
  <2>1. \A q \in 2..made : at[q] = "reaped"
    BY DEF ParentInv
  <2>2. \A q \in 2..made : q \in Pid
    BY <1>a, RootIsPid DEF Pid
  <2> QED
    BY <2>1, <2>2
<1>7. /\ at'[Root] = "exit" /\ (made > 0 => at'[made + 1] = "reaped")
      /\ \A q \in 2..made : at'[q] = "reaped"
  BY <1>a, <1>b, <1>3, <1>4, <1>6, RootIsPid
<1>8. \A q \in Pid : at'[q] = "none" <=> q > made + 1
  BY <1>1, <1>3 DEF ParentInv
<1>9. screen' = RootLines(made)' 
  BY <1>2, <1>6 DEF RootLines, FromRoot
<1> QED
  BY <1>2, <1>7, <1>8, <1>9 DEF ParentInv

(* The child prints its line; its parent waits for it. *)
LEMMA ParentPrint ==
  ASSUME ForkTypes, ParentInv, program = "parentcreates", NEW p \in Pid, PrintLine(p)
  PROVE  ParentInv'
<1> DEFINE m == made
           l == ItsLine(p)
<1>1. /\ at[p] = "print" /\ p = m + 1 /\ p # Root
      /\ m \in Nat /\ at[Root] = "wait" /\ m + 1 \in Pid
  <2>1. at[p] \notin {"none", "ended", "reaped", "loop", "wait", "exit"}
    BY DEF PrintLine
  <2> QED
    BY <2>1, ParentPlaces
<1>2. /\ at' = [at EXCEPT ![p] = "exit"]
      /\ IF tty THEN screen' = Append(screen, l) /\ out' = out
                ELSE out' = [out EXCEPT ![p] = Append(@, l)] /\ screen' = screen
      /\ i' = i
      /\ UNCHANGED <<program, iterations, tty, parent, made>>
  <2>1. AfterPrint(p) = "exit"
    <3>1. at[p] \notin {"A", "B", "C", "D"}
      BY <1>1
    <3> QED
      BY <3>1, Zenon DEF AfterPrint
  <2>2. i' = i
    <3>1. i' = [i EXCEPT ![p] = @] /\ i \in [Pid -> Nat]
      BY <2>1 DEF PrintLine, CountOn, ForkTypes
    <3> QED
      BY <3>1
  <2> QED
    BY <2>1, <2>2 DEF PrintLine, ItsLine
<1>3. /\ m > 0 /\ i[Root] = m - 1 /\ i[p] = m - 1
      /\ out[p] = <<>> /\ screen \o out[p] = RootLines(m - 1)
      /\ m <= iterations /\ out[Root] = <<>>
  BY <1>1 DEF ParentInv
<1>4. /\ \A q \in Pid : at[q] = "none" <=> q > m + 1
      /\ \A q \in 2..(m + 1) : parent[q] = Root
      /\ \A q \in 2..m : at[q] = "reaped"
  BY DEF ParentInv
<1>5. l = FromRoot(m)
  <2>1. p \in 2..(m + 1)
    BY <1>1, <1>3
  <2>2. parent[p] = Root
    BY <1>4, <2>1
  <2>3. getppid(p) = Root
    BY <1>1, <2>2 DEF getppid, Ended, Root, Outside
  <2>4. l = [who |-> p, from |-> Root, no |-> i[p]]
    BY <2>3 DEF ItsLine
  <2>5. i[p] = m - 1 /\ p = m + 1
    BY <1>1, <1>3
  <2> QED
    BY <2>4, <2>5 DEF FromRoot
<1>6. l \in Line /\ m \in 0..(MaxProcs - 1) /\ screen \in Seq(Line)
  <2>1. l \in Line /\ screen \in Seq(Line)
    BY ItsLineIsLine, ForkTyped
  <2>2. m \in 0..(MaxProcs - 1)
    BY <1>1, RootIsPid DEF Pid
  <2> QED
    BY <2>1, <2>2
<1> HIDE DEF m, l
<1>7. screen = RootLines(m - 1) /\ Append(screen, l) = RootLines(m)
  BY <1>3, <1>5, <1>6, RootLinesAre, ConcatEmptySeq
<1>8. /\ out'[Root] = <<>> /\ at'[Root] = "wait" /\ at'[p] = "exit"
      /\ \A q \in Pid : at'[q] = IF q = p THEN "exit" ELSE at[q]
  BY <1>1, <1>2, <1>3, ForkTyped, RootIsPid
<1>9. (tty => out'[p] = <<>>) /\ screen' \o out'[p] = RootLines(m)
  <2>1. CASE tty
    <3>1. screen' = RootLines(m) /\ out'[p] = <<>> /\ screen' \in Seq(Line)
      BY <1>2, <1>3, <1>6, <1>7, <2>1, RootLinesAre
    <3> QED
      BY <3>1, ConcatEmptySeq
  <2>2. CASE ~tty
    <3>1. screen' = screen /\ out'[p] = Append(<<>>, l)
      BY <1>2, <1>3, <2>2, ForkTyped
    <3>2. screen \o Append(<<>>, l) = Append(screen, l)
      BY <1>6
    <3> QED
      BY <1>7, <2>2, <3>1, <3>2
  <2> QED
    BY <2>1, <2>2
<1>10. \A q \in Pid : at'[q] = "none" <=> q > m + 1
  <2>1. at[p] # "none" /\ p \in Pid
    BY <1>1
  <2> QED
    BY <1>4, <1>8, <2>1
<1>11. \A q \in 2..m : at'[q] = "reaped"
  <2> TAKE q \in 2..m
  <2>1. q \in Nat /\ q <= m /\ m \in Nat /\ m + 1 \in Pid /\ q > 1
    BY <1>1
  <2>2. q \in Pid /\ q # p
    BY <1>1, <2>1, RootIsPid DEF Pid
  <2> QED
    BY <1>4, <1>8, <2>2
<1>12. m' = m /\ RootLines(m)' = RootLines(m)
  BY <1>2 DEF m, RootLines, FromRoot
<1> QED
  <2>1. /\ made' = m /\ i' = i /\ parent' = parent
        /\ iterations' = iterations /\ tty' = tty
    BY <1>2 DEF m
  <2>2. /\ at'[m + 1] = "exit" /\ i[m + 1] = m - 1 /\ (tty => out'[m + 1] = <<>>)
        /\ screen' \o out'[m + 1] = RootLines(m)
    BY <1>1, <1>3, <1>8, <1>9
  <2>3. RootLines(made)' = RootLines(m)
    BY <2>1 DEF RootLines, FromRoot
  <2> QED
    BY <1>3, <1>4, <1>8, <1>10, <1>11, <2>1, <2>2, <2>3 DEF ParentInv

(* Root has waited: the child has ended and is reaped. *)
LEMMA ParentWait ==
  ASSUME ForkTypes, ParentInv, program = "parentcreates", NEW p \in Pid, Wait(p)
  PROVE  ParentInv'
<1> DEFINE m == made
           c == m + 1
<1>1. at[p] = "wait" /\ p = Root /\ m \in Nat /\ c \in Pid
  <2>1. at[p] \notin {"none", "ended", "reaped", "loop", "print", "exit"}
    BY DEF Wait
  <2> QED
    BY <2>1, ParentPlaces DEF Wait
<1>2. /\ m > 0 /\ i[Root] = m - 1 /\ i[c] = m - 1
      /\ at[c] \in {"print", "exit", "ended"}
      /\ at[c] # "exit" => out[c] = <<>>
      /\ screen \o out[c] = RootLines(IF at[c] = "print" THEN m - 1 ELSE m)
      /\ m <= iterations /\ out[Root] = <<>>
  BY <1>1 DEF ParentInv
<1>3. /\ \A q \in Pid : at[q] = "none" <=> q > m + 1
      /\ \A q \in 2..(m + 1) : parent[q] = Root
      /\ \A q \in 2..m : at[q] = "reaped"
  BY DEF ParentInv
<1>4. c # Root /\ c \in 2..(m + 1)
  BY <1>1, <1>2 DEF Root
<1>5. c \in Children(p)
  BY <1>1, <1>2, <1>3, <1>4 DEF Children
<1>6. Zombies(p) \subseteq {c}
  <2> SUFFICES ASSUME NEW z \in Zombies(p)
               PROVE  z = c
    OBVIOUS
  <2>1. z \in Pid /\ at[z] = "ended" /\ parent[z] = Root
    BY <1>1 DEF Zombies, Children
  <2>2. z # Root
    BY <1>1, <2>1
  <2>3. z \in Nat /\ z >= 1 /\ z <= m + 1 /\ z # 1
    BY <1>1, <1>3, <2>1, <2>2 DEF Pid, Root
  <2>4. z \in 2..m \/ z = c
    BY <1>1, <2>3
  <2> QED
    BY <1>3, <2>1, <2>4
<1>7. Zombies(p) # {}
  BY <1>5 DEF Wait, WaitReturns
<1>8. Zombies(p) = {c} /\ at[c] = "ended"
  BY <1>6, <1>7 DEF Zombies
<1> HIDE DEF c, m
<1>9. /\ at' = [at EXCEPT ![Root] = "loop", ![c] = "reaped"]
      /\ i' = [i EXCEPT ![Root] = @ + 1]
      /\ UNCHANGED <<program, iterations, tty, parent, out, made, screen>>
  <2>1. CountOn(Root, "loop")
    BY <1>1 DEF Wait
  <2>2. i' = [i EXCEPT ![Root] = @ + 1]
    BY <2>1 DEF CountOn
  <2> QED
    BY <1>1, <1>8, <2>2 DEF Wait
<1>10. /\ at'[Root] = "loop" /\ at'[c] = "reaped" /\ i'[Root] = m
       /\ \A q \in Pid : q # Root /\ q # c => at'[q] = at[q]
  BY <1>1, <1>2, <1>4, <1>9, ForkTyped, RootIsPid
<1>11. \A q \in Pid : at'[q] = "none" <=> q > m + 1
  <2> TAKE q \in Pid
  <2>1. at[Root] # "none" /\ at[c] # "none"
    BY <1>1, <1>8
  <2>2. CASE q # Root /\ q # c
    BY <1>3, <1>10, <2>2
  <2>3. CASE q = Root
    BY <1>3, <1>10, <2>1, <2>3
  <2>4. CASE q = c
    BY <1>3, <1>10, <2>1, <2>4
  <2> QED
    BY <2>2, <2>3, <2>4
<1>12. \A q \in 2..m : at'[q] = "reaped"
  <2> TAKE q \in 2..m
  <2>1. q \in Nat /\ q <= m /\ m \in Nat /\ m + 1 \in Pid /\ q > 1
    BY <1>1 DEF c
  <2>2. q \in Pid /\ q # c /\ q # Root
    BY <2>1, RootIsPid DEF Pid, Root, c
  <2> QED
    BY <1>3, <1>10, <2>2
<1>13. screen = RootLines(m)
  BY <1>2, <1>8, ForkTyped, ConcatEmptySeq
<1> QED
  <2>1. /\ made' = m /\ screen' = screen /\ out' = out /\ parent' = parent
        /\ iterations' = iterations /\ at'[m + 1] = "reaped"
    BY <1>9, <1>10 DEF m, c
  <2>2. RootLines(made)' = RootLines(m)
    BY <2>1 DEF RootLines, FromRoot
  <2> QED
    BY <1>2, <1>3, <1>10, <1>11, <1>12, <1>13, <2>1, <2>2 DEF ParentInv

(* The child ends and its buffer is written out, or Root ends. *)
LEMMA ParentExit ==
  ASSUME ForkTypes, ParentInv, program = "parentcreates", NEW p \in Pid, Exit(p)
  PROVE  ParentInv'
<1> DEFINE m == made
<1>1. at[p] = "exit" /\ p \in {Root, m + 1} /\ m \in Nat /\ m + 1 \in Pid
      /\ (p # Root => at[Root] = "wait")
  BY ParentPlaces DEF Exit
<1>2. /\ \A q \in Pid : at[q] = "none" <=> q > m + 1
      /\ \A q \in 2..(m + 1) : parent[q] = Root
      /\ \A q \in 2..m : at[q] = "reaped"
      /\ m <= iterations /\ out[Root] = <<>>
  BY DEF ParentInv
<1>3. /\ at' = [at EXCEPT ![p] = "ended"] /\ screen' = screen \o out[p]
      /\ out' = [out EXCEPT ![p] = <<>>] /\ made' = m
      /\ UNCHANGED <<program, iterations, tty, parent, i>>
  BY DEF Exit
<1>4. \A q \in 2..m : at'[q] = "reaped"
  <2> TAKE q \in 2..m
  <2>1. q \in Nat /\ q <= m /\ m \in Nat /\ m + 1 \in Pid /\ q > 1
    BY <1>1
  <2>2. q \in Pid /\ q # m + 1 /\ q # Root
    BY <2>1, RootIsPid DEF Pid, Root
  <2> QED
    BY <1>1, <1>2, <1>3, <2>2, ForkTyped
<1>5. \A q \in Pid : at'[q] = "none" <=> q > m + 1
  <2>1. at[p] # "none"
    BY <1>1
  <2>2. \A q \in Pid : at'[q] = IF q = p THEN "ended" ELSE at[q]
    BY <1>3, ForkTyped
  <2> QED
    BY <1>2, <2>1, <2>2
<1>6. RootLines(made)' = RootLines(m)
  BY <1>3 DEF RootLines, FromRoot
<1> HIDE DEF m
<1>7. CASE p = Root
  <2>1. screen = RootLines(m) /\ (m > 0 => at[m + 1] = "reaped")
    BY <1>1, <1>7 DEF ParentInv, m
  <2>2. screen' = RootLines(m)
    BY <1>2, <1>3, <1>7, <2>1, ForkTyped, ConcatEmptySeq
  <2>3. m > 0 => at'[m + 1] = "reaped"
    BY <1>1, <1>3, <1>7, <2>1, ForkTyped
  <2>4. at'[Root] = "ended" /\ out'[Root] = <<>>
    BY <1>1, <1>3, <1>7, ForkTyped, RootIsPid
  <2> QED
    BY <1>2, <1>3, <1>4, <1>5, <1>6, <2>2, <2>3, <2>4 DEF ParentInv
<1>8. CASE p # Root
  <2>1. p = m + 1 /\ at[Root] = "wait"
    BY <1>1, <1>8
  <2>2. /\ m > 0 /\ i[Root] = m - 1 /\ i[p] = m - 1
        /\ screen \o out[p] = RootLines(m)
    BY <1>1, <2>1 DEF ParentInv, m
  <2>3. /\ at'[Root] = "wait" /\ at'[p] = "ended" /\ out'[p] = <<>> /\ out'[Root] = <<>>
    BY <1>1, <1>2, <1>3, <1>8, <2>1, ForkTyped, RootIsPid
  <2>4. screen' \o out'[p] = RootLines(m)
    <3>1. screen' = RootLines(m)
      BY <1>3, <2>2
    <3>2. m \in 0..(MaxProcs - 1)
      BY <1>1, RootIsPid DEF Pid
    <3>3. RootLines(m) \in Seq(Line)
      BY <3>2, RootLinesAre
    <3> QED
      BY <2>3, <3>1, <3>3, ConcatEmptySeq
  <2>5. /\ at'[m + 1] = "ended" /\ out'[m + 1] = <<>> /\ i[m + 1] = m - 1
        /\ screen' \o out'[m + 1] = RootLines(m)
    BY <2>1, <2>2, <2>3, <2>4
  <2>6. i' = i /\ made' = m /\ parent' = parent /\ iterations' = iterations
    BY <1>3
  <2> QED
    BY <1>2, <1>4, <1>5, <1>6, <2>1, <2>2, <2>3, <2>5, <2>6 DEF ParentInv
<1> QED
  BY <1>7, <1>8

(* Every step of parentcreates keeps the order of its children. *)
LEMMA ParentStep ==
  ASSUME ForkTypes, ParentInv, program = "parentcreates", NEW p \in Pid, ForkStep(p)
  PROVE  ParentInv'
BY ParentFork, ParentLeaves, ParentPrint, ParentWait, ParentExit DEF ForkStep

(* When all have ended, the lines are those of the children in order. *)
LEMMA ParentOutput ==
  ASSUME ForkTypes, ParentInv, AllEnded
  PROVE  ParentCreatesOutput
<1>1. at[Root] # "wait" /\ at[Root] # "none"
  BY RootIsPid, ForkTyped DEF AllEnded, Ended, ParentInv, Root
<1> QED
  BY <1>1 DEF ParentInv, ParentCreatesOutput

(* childcreates starts with a chain of one. *)
LEMMA ChildStart ==
  ASSUME ForkTypes, ForkStart, program' = "childcreates"
  PROVE  ChildInv'
<1>1. /\ at' = [at EXCEPT ![Root] = "loop"] /\ iterations' \in Nat
      /\ UNCHANGED <<parent, i, out, made, screen, forkfaults>> /\ program = "none"
  BY RootIsPid DEF ForkStart
<1>2. /\ at = [p \in Pid |-> "none"] /\ i = [p \in Pid |-> 0]
      /\ out = [p \in Pid |-> <<>>]
      /\ made = 0 /\ screen = <<>>
  BY <1>1 DEF ForkTypes, Untouched
<1>3. \A p \in Pid : at'[p] = IF p = Root THEN "loop" ELSE "none"
  BY <1>1, <1>2, RootIsPid
<1>4. \A p \in Pid : at'[p] = "none" <=> p > 1
  BY <1>3 DEF Pid, Root
<1>5. LastLines(0) = <<>> /\ Deepest(0, 0) = <<>>
  <2>1. 0 \in 0..(MaxProcs - 1) /\ 0 \in 0..0
    BY RootIsPid
  <2> QED
    BY <2>1, LastLinesAre, DeepestIs
<1>6. /\ \A p \in Pid : out'[p] = <<>>
      /\ i'[1] = 0 /\ at'[1] = "loop" /\ made' = 0 /\ screen' = <<>>
  BY <1>1, <1>2, <1>3, RootIsPid DEF Root
<1>7. (made + 1)' = 1
  BY <1>6
<1>8. ChildChain'
  BY <1>1, <1>4, <1>6, <1>7 DEF ChildChain
<1>9. ChildLines'
  <2>1. \A p \in 1..1 : p = 1
    OBVIOUS
  <2>2. \A p \in 1..1 : out'[p] = <<>> /\ at'[p] = "loop" /\ p - 1 = 0
    BY <1>6, <2>1, RootIsPid DEF Root
  <2>3. LastLines(made)' = <<>> /\ LastLines(0)' = <<>> /\ Deepest(made, 0)' = <<>>
    BY <1>5, <1>6 DEF LastLines, FromLast, Deepest
  <2>4. tty' => \A p \in Pid : out'[p] = <<>>
    BY <1>6
  <2>5. screen' = LastLines(IF at[made + 1] = "print" THEN made - 1 ELSE made)'
    BY <1>6, <1>7, <2>3
  <2>6. \A p \in 1..1 : out'[p] = HeldBy(p)'
    BY <2>2, <2>3 DEF HeldBy, Ended
  <2>7. HaveEnded(0)'
    BY <1>6, <1>7, <2>1, <2>2, <2>3 DEF HaveEnded, Ended
  <2>8. \E d \in 0..1 : HaveEnded(d)'
    BY <2>7
  <2> QED
    BY <1>7, <2>4, <2>5, <2>6, <2>8 DEF ChildLines
<1> QED
  BY <1>8, <1>9 DEF ChildInv

(* The numbers of the processes made, and who is still in its loop. *)
LEMMA ChildPlaces ==
  ASSUME ForkTypes, ChildChain, program = "childcreates"
  PROVE  /\ made \in Nat /\ made \in 0..(MaxProcs - 1) /\ made + 1 \in Pid
         /\ \A p \in 1..(made + 1) : p \in Pid
         /\ \A p \in Pid : /\ at[p] # "none" => p \in 1..(made + 1)
                           /\ at[p] \in {"loop", "print"} => p = made + 1
                           /\ p \in 1..made \/ p = made + 1 \/ p > made + 1
<1>1. /\ made \in Nat /\ iterations \in Nat
      /\ iterations + 1 <= MaxProcs /\ made <= iterations
  BY DEF ForkTypes, ChildChain, Needs
<1>2. /\ made \in 0..(MaxProcs - 1) /\ made + 1 \in Pid
      /\ \A p \in 1..(made + 1) : p \in Pid
  BY <1>1, RootIsPid DEF Pid
<1>3. \A p \in Pid : p \in 1..made \/ p = made + 1 \/ p > made + 1
  BY <1>1 DEF Pid
<1>4. ASSUME NEW p \in Pid, at[p] # "none"
      PROVE  p \in 1..(made + 1)
  <2>1. ~(p > made + 1) /\ p \in Nat /\ p >= 1
    BY <1>4 DEF ChildChain, Pid
  <2> QED
    BY <1>1, <2>1
<1>5. ASSUME NEW p \in Pid, at[p] \in {"loop", "print"}
      PROVE  p = made + 1
  <2>1. p \notin 1..made
    BY <1>5 DEF ChildChain
  <2>2. p \in 1..(made + 1)
    BY <1>4, <1>5
  <2> QED
    BY <1>1, <2>1, <2>2
<1> QED
  BY <1>1, <1>2, <1>3, <1>4, <1>5

(* A process of the chain goes to another place. *)
LEMMA ChainMove ==
  ASSUME ForkTypes, ChildChain, program = "childcreates",
         UNCHANGED <<parent, made, iterations>>, i' \in [Pid -> Nat],
         NEW p \in Pid, NEW x \in {"loop", "wait", "exit", "ended"},
         at[p] \notin {"none", "reaped"}, at' = [at EXCEPT ![p] = x],
         p # made + 1 => at[p] # "wait" /\ x \in {"exit", "ended"},
         x = "loop" => i'[p] = made,
         \A q \in Pid : q # p => i'[q] = i[q]
  PROVE  ChildChain'
<1> DEFINE m == made
           c == m + 1
<1>1. /\ m \in Nat /\ c \in Pid /\ \A q \in 1..c : q \in Pid
      /\ p \in 1..c
  BY ChildPlaces
<1>2. \A q \in Pid : at'[q] = IF q = p THEN x ELSE at[q]
  BY ForkTyped
<1>3. \A q \in Pid : /\ at'[q] = "none" <=> at[q] = "none"
                     /\ at'[q] = "reaped" <=> at[q] = "reaped"
  BY <1>2
<1>4. \A q \in 1..m : q \in Pid /\ q + 1 \in Pid /\ q # c
  BY <1>1
<1>5. /\ m <= iterations
      /\ \A q \in Pid : at[q] = "none" <=> q > c
      /\ \A q \in 1..m : parent[q + 1] = q
  BY DEF ChildChain
<1>6. \A q \in 1..m : /\ at[q] \in {"wait", "exit", "ended", "reaped"}
                      /\ at[q] = "wait" <=> at[q + 1] # "reaped"
  BY DEF ChildChain
<1>7. \A q \in 1..m : /\ at'[q] \in {"wait", "exit", "ended", "reaped"}
                      /\ at'[q] = "wait" <=> at'[q + 1] # "reaped"
  <2> TAKE q \in 1..m
  <2>1. at'[q + 1] = "reaped" <=> at[q + 1] = "reaped"
    BY <1>3, <1>4
  <2>2. /\ at'[q] \in {"wait", "exit", "ended", "reaped"}
        /\ (at'[q] = "wait" <=> at[q] = "wait")
    BY <1>2, <1>4, <1>6
  <2> QED
    BY <1>6, <2>1, <2>2
<1>8. at'[c] \in {"print", "loop", "wait", "exit", "ended", "reaped"}
  <2>1. at[c] \in {"print", "loop", "wait", "exit", "ended", "reaped"}
    BY DEF ChildChain
  <2> QED
    BY <1>1, <1>2, <2>1
<1>9. at'[c] = "loop" => i'[c] = m
  <2>1. at[c] = "loop" => i[c] = m
    BY DEF ChildChain
  <2> QED
    BY <1>1, <1>2, <2>1
<1>10. at'[c] = "print" => m > 0 /\ i'[c] = m - 1
  <2>1. at[c] = "print" => m > 0 /\ i[c] = m - 1
    BY DEF ChildChain
  <2> QED
    BY <1>1, <1>2, <2>1
<1>11. \A q \in Pid : at'[q] = "none" <=> q > c
  BY <1>3, <1>5
<1>12. made' = m /\ iterations' = iterations /\ parent' = parent
  OBVIOUS
<1> HIDE DEF m
<1> QED
  BY <1>5, <1>7, <1>8, <1>9, <1>10, <1>11, <1>12 DEF ChildChain

(* The screen and who has ended, put together again after a step. *)
LEMMA EndedNext ==
  ASSUME NEW m \in Nat, NEW d \in Nat, made' = m,
         \A p \in 1..(m + 1) : at'[p] \in {"ended", "reaped"} <=> p > m + 1 - d,
         screen' = Deepest(m, d)
  PROVE  HaveEnded(d)'
<1>1. Deepest(made, d)' = Deepest(m, d)
  BY DEF Deepest, LastLines, FromLast
<1>2. \A p \in 1..(m + 1) : Ended(p)' <=> p > m + 1 - d
  BY DEF Ended
<1> QED
  BY <1>1, <1>2 DEF HaveEnded

(* No line is printed and nothing written out. *)
LEMMA LinesStay ==
  ASSUME ForkTypes, ChildChain, ChildLines, program = "childcreates",
         UNCHANGED <<tty, out, made, screen>>,
         \A q \in Pid : /\ at'[q] \in {"ended", "reaped"} <=> at[q] \in {"ended", "reaped"}
                        /\ at'[q] = "print" <=> at[q] = "print"
  PROVE  ChildLines'
<1> DEFINE m == made
           c == m + 1
<1>1. c \in Pid /\ \A q \in 1..c : q \in Pid
  BY ChildPlaces
<1>2. /\ tty => /\ \A p \in Pid : out[p] = <<>>
                /\ screen = LastLines(IF at[c] = "print" THEN m - 1 ELSE m)
      /\ ~tty => /\ \A p \in 1..c : out[p] = HeldBy(p)
                 /\ \E d \in 0..c : HaveEnded(d)
  BY DEF ChildLines
<1>3. \A p \in 1..c : HeldBy(p)' = HeldBy(p)
  <2> TAKE p \in 1..c
  <2>1. (Ended(p))' = Ended(p) /\ (at'[p] = "print") = (at[p] = "print")
    BY <1>1 DEF Ended
  <2> QED
    BY <2>1 DEF HeldBy, LastLines, FromLast
<1>4. ASSUME NEW d \in 0..c, HaveEnded(d)
      PROVE  HaveEnded(d)'
  <2> DEFINE E(p) == at[p] \in {"ended", "reaped"}
             F(p) == at'[p] \in {"ended", "reaped"}
  <2>1. \A p \in 1..c : F(p) <=> E(p)
    BY <1>1
  <2>2. (\A p \in 1..c : E(p) <=> p > c - d) /\ screen = Deepest(m, d)
    <3>1. made \in Nat
      BY ForkTyped
    <3>2. \A p \in 1..(made + 1) : Ended(p) <=> p > made + 1 - d
      BY <1>4, <3>1 DEF HaveEnded
    <3>3. screen = Deepest(made, d)
      BY <1>4 DEF HaveEnded
    <3> QED
      BY <3>1, <3>2, <3>3 DEF Ended
  <2>3. screen' = screen /\ made' = m /\ m \in Nat /\ d \in Nat
    BY ForkTyped
  <2> HIDE DEF E, F, m
  <2>4. \A p \in 1..c : F(p) <=> p > c - d
    BY <2>1, <2>2
  <2> USE DEF F
  <2> QED
    BY <2>2, <2>3, <2>4, EndedNext
<1>5. tty' = tty /\ out' = out /\ made' = m /\ screen' = screen
  OBVIOUS
<1>6. (LastLines(IF at[made + 1] = "print" THEN made - 1 ELSE made))'
        = LastLines(IF at[c] = "print" THEN m - 1 ELSE m)
  BY <1>1, <1>5 DEF LastLines, FromLast
<1>7. ~tty' => \A p \in 1..c : out'[p] = HeldBy(p)'
  BY <1>2, <1>3, <1>5
<1>8. ~tty' => \E d \in 0..c : HaveEnded(d)'
  BY <1>2, <1>4, <1>5
<1> HIDE DEF m
<1> QED
  BY <1>2, <1>5, <1>6, <1>7, <1>8 DEF ChildLines

(* What a process of the chain holds after a step. *)
LEMMA HeldNext ==
  ASSUME NEW p
  PROVE  HeldBy(p)' = IF at'[p] \in {"ended", "reaped"} THEN <<>>
                      ELSE LastLines(IF at'[p] = "print" THEN p - 2 ELSE p - 1)
BY DEF HeldBy, Ended, LastLines, FromLast

(* The last process of the chain forks the next one. *)
LEMMA ChildFork ==
  ASSUME ForkTypes, ChildInv, program = "childcreates", NEW p \in Pid, Fork(p)
  PROVE  ChildInv'
<1> DEFINE m == made
           n == m + 1
           c == m + 2
<1>1. /\ at[p] = "loop" /\ i[p] < iterations /\ p = n /\ m \in Nat /\ i[n] = m
      /\ m \in 0..(MaxProcs - 1) /\ n \in Pid
      /\ \A q \in 1..n : q \in Pid
  BY ChildPlaces DEF Fork, ChildInv, ChildChain
<1>2. /\ n \in Nat /\ n <= iterations /\ c \in Pid
      /\ c # n /\ c = n + 1 /\ n \in 0..(MaxProcs - 1)
      /\ n - 1 = m /\ c - 2 = n - 1 /\ c - 1 = n
  <2>1. iterations \in Nat /\ iterations + 1 <= MaxProcs
    BY DEF ForkTypes, Needs
  <2> QED
    BY <1>1, <2>1, RootIsPid DEF Pid
<1>3. /\ parent' = [parent EXCEPT ![c] = n] /\ made' = n
      /\ at' = [at EXCEPT ![n] = "wait", ![c] = "print"]
      /\ i' = [i EXCEPT ![c] = m] /\ out' = [out EXCEPT ![c] = out[n]]
      /\ screen' = screen /\ iterations' = iterations /\ tty' = tty
  <2>1. c = made + 2 /\ ParentAfterFork = "wait" /\ ChildAfterFork = "print"
    BY DEF ParentAfterFork, ChildAfterFork
  <2>2. made' = n
    BY DEF Fork
  <2> HIDE DEF c, n
  <2> QED
    BY <1>1, <2>1, <2>2 DEF Fork, Inherited
<1>4. /\ m <= iterations
      /\ \A q \in Pid : at[q] = "none" <=> q > n
      /\ \A q \in 1..m : /\ parent[q + 1] = q
                         /\ at[q] \in {"wait", "exit", "ended", "reaped"}
                         /\ at[q] = "wait" <=> at[q + 1] # "reaped"
  BY DEF ChildInv, ChildChain
<1>5. /\ tty => /\ \A q \in Pid : out[q] = <<>>
                /\ screen = LastLines(m)
      /\ ~tty => /\ \A q \in 1..n : out[q] = HeldBy(q)
                 /\ \E d \in 0..n : HaveEnded(d)
  BY <1>1 DEF ChildInv, ChildLines
<1>6. \A q \in Pid : /\ at'[q] = IF q = c THEN "print" ELSE IF q = n THEN "wait" ELSE at[q]
                     /\ parent'[q] = IF q = c THEN n ELSE parent[q]
                     /\ i'[q] = IF q = c THEN m ELSE i[q]
                     /\ out'[q] = IF q = c THEN out[n] ELSE out[q]
  BY <1>1, <1>2, <1>3, ForkTyped
<1>7. \A q \in 1..m : q \in Pid /\ q + 1 \in Pid /\ q # c /\ q # n /\ q + 1 # c /\ q \in 1..n
  <2> TAKE q \in 1..m
  <2>1. q \in 1..n /\ q + 1 \in 1..n
    BY <1>1
  <2>2. \A x \in 1..n : x # m + 2
    BY <1>1
  <2>3. q # m + 1
    BY <1>1
  <2> QED
    BY <1>1, <2>1, <2>2, <2>3
<1> HIDE DEF m, n, c
<1>8. \A q \in Pid : at'[q] = "none" <=> q > n + 1
  <2> TAKE q \in Pid
  <2>1. q \in Nat /\ n \in Nat /\ c = n + 1
    BY <1>2 DEF Pid
  <2>2. at[n] # "none"
    BY <1>1
  <2>3. at'[q] = "none" <=> (at[q] = "none" /\ q # c)
    BY <1>6, <2>2
  <2> QED
    BY <1>4, <2>1, <2>3
<1>9. \A q \in 1..n : q \in 1..m \/ q = n
  BY <1>1, <1>2
<1>10. \A q \in 1..n : /\ parent'[q + 1] = q
                       /\ at'[q] \in {"wait", "exit", "ended", "reaped"}
                       /\ at'[q] = "wait" <=> at'[q + 1] # "reaped"
  <2> TAKE q \in 1..n
  <2>1. CASE q \in 1..m
    <3>1. parent'[q + 1] = parent[q + 1] /\ at'[q] = at[q]
      BY <1>6, <1>7, <2>1
    <3>2. at'[q + 1] = "reaped" <=> at[q + 1] = "reaped"
      BY <1>1, <1>6, <1>7, <2>1
    <3> QED
      BY <1>4, <2>1, <3>1, <3>2
  <2>2. CASE q = n
    BY <1>1, <1>2, <1>6, <2>2
  <2> QED
    BY <1>9, <2>1, <2>2
<1>11. at'[c] = "print" /\ i'[c] = n - 1 /\ n > 0
  BY <1>1, <1>2, <1>6
<1>12. ChildChain'
  <2>1. at'[n + 1] = "print" /\ i'[n + 1] = n - 1
    BY <1>2, <1>11
  <2> QED
    BY <1>2, <1>3, <1>8, <1>10, <1>11, <2>1 DEF ChildChain
<1>13. tty' => /\ \A q \in Pid : out'[q] = <<>>
               /\ screen' = LastLines(n - 1)
  BY <1>1, <1>2, <1>3, <1>5, <1>6
<1>14. ASSUME ~tty, NEW q \in 1..(n + 1)
       PROVE  out'[q] = HeldBy(q)'
  <2>1. HeldBy(n) = LastLines(n - 1) /\ n \in 1..n
    BY <1>1, <1>2 DEF HeldBy, Ended
  <2>2. out[n] = LastLines(n - 1)
    BY <1>5, <1>14, <2>1
  <2>3. q \in 1..m \/ q = n \/ q = c
    BY <1>1, <1>2
  <2>4. CASE q \in 1..m
    <3>1. out'[q] = out[q] /\ at'[q] = at[q]
      BY <1>6, <1>7, <2>4
    <3>2. HeldBy(q)' = HeldBy(q)
      BY <3>1, HeldNext DEF HeldBy, Ended
    <3> QED
      BY <1>5, <1>7, <1>14, <2>4, <3>1, <3>2
  <2>5. CASE q = n
    <3>1. at'[q] = "wait" /\ out'[q] = out[n]
      BY <1>1, <1>2, <1>6, <2>5
    <3>2. HeldBy(q)' = LastLines(n - 1)
      BY <2>5, <3>1, HeldNext
    <3> QED
      BY <2>2, <3>1, <3>2
  <2>6. CASE q = c
    <3>1. at'[q] = "print" /\ out'[q] = out[n] /\ q - 2 = n - 1
      BY <1>1, <1>2, <1>6, <2>6
    <3>2. HeldBy(q)' = LastLines(n - 1)
      BY <3>1, HeldNext
    <3> QED
      BY <2>2, <3>1, <3>2
  <2> QED
    BY <2>3, <2>4, <2>5, <2>6
<1>15. ASSUME ~tty
       PROVE  HaveEnded(0)'
  <2>1. PICK d \in 0..n : HaveEnded(d)
    BY <1>5, <1>15
  <2>2. (\A q \in 1..n : Ended(q) <=> q > n - d) /\ screen = Deepest(m, d)
    BY <1>2, <2>1 DEF HaveEnded, m, n
  <2>3. ~Ended(n) /\ n \in 1..n
    BY <1>1, <1>2 DEF Ended
  <2>4. d = 0
    <3>1. ~(n > n - d)
      BY <2>2, <2>3
    <3> QED
      BY <1>2, <3>1
  <2>5. screen' = Deepest(n, 0)
    <3>1. 0 \in 0..m /\ 0 \in 0..n
      BY <1>1, <1>2
    <3> QED
      BY <1>1, <1>2, <1>3, <2>2, <2>4, <3>1, DeepestIs
  <2>6. \A q \in 1..n : at[q] \notin {"ended", "reaped"}
    BY <1>2, <2>2, <2>4 DEF Ended
  <2>7. \A q \in 1..(n + 1) : q \in 1..n \/ q = c
    BY <1>2
  <2>8. \A q \in 1..(n + 1) : at'[q] \in {"ended", "reaped"} <=> q > n + 1 - 0
    <3> TAKE q \in 1..(n + 1)
    <3>1. at'[q] \notin {"ended", "reaped"}
      BY <1>1, <1>2, <1>6, <2>6, <2>7
    <3>2. ~(q > n + 1 - 0)
      BY <1>2
    <3> QED
      BY <3>1, <3>2
  <2> QED
    BY <1>2, <1>3, <2>5, <2>8, EndedNext
<1>16. ChildLines'
  <2>1. ~tty' => \E d \in 0..(n + 1) : HaveEnded(d)'
    <3>1. 0 \in 0..(n + 1)
      BY <1>2
    <3> QED
      BY <1>3, <1>15, <3>1
  <2>2. (LastLines(IF at[made + 1] = "print" THEN made - 1 ELSE made))' = LastLines(n - 1)
    <3>1. (at[made + 1])' = "print"
      BY <1>2, <1>3, <1>11
    <3> QED
      BY <1>3, <3>1 DEF LastLines, FromLast
  <2> QED
    BY <1>3, <1>13, <1>14, <2>1, <2>2 DEF ChildLines
<1> QED
  BY <1>12, <1>16 DEF ChildInv

(* The last process leaves its loop. *)
LEMMA ChildLeaves ==
  ASSUME ForkTypes, ChildInv, program = "childcreates", NEW p \in Pid,
         ForkFails(p) \/ LoopDone(p)
  PROVE  ChildInv'
<1>1. PICK x \in {"wait", "exit"} : at' = [at EXCEPT ![p] = x]
  BY DEF ForkFails, LoopDone
<1>2. /\ at[p] = "loop"
      /\ UNCHANGED <<program, iterations, tty, parent, i, out, made, screen>>
  BY DEF ForkFails, LoopDone
<1>3. ChildChain /\ ChildLines /\ i' \in [Pid -> Nat]
  BY <1>2 DEF ChildInv, ForkTypes
<1>4. p = made + 1
  BY <1>2, <1>3, ChildPlaces
<1>5. ChildChain'
  <2>1. /\ at[p] \notin {"none", "reaped"} /\ x \in {"loop", "wait", "exit", "ended"}
        /\ x # "loop"
    BY <1>1, <1>2
  <2>2. \A q \in Pid : q # p => i'[q] = i[q]
    BY <1>2
  <2> QED
    BY <1>1, <1>2, <1>3, <1>4, <2>1, <2>2, ChainMove
<1>6. ChildLines'
  <2>1. \A q \in Pid : at'[q] = IF q = p THEN x ELSE at[q]
    BY <1>1, ForkTyped
  <2>2. \A q \in Pid : /\ at'[q] \in {"ended", "reaped"} <=> at[q] \in {"ended", "reaped"}
                       /\ at'[q] = "print" <=> at[q] = "print"
    BY <1>1, <1>2, <2>1
  <2> QED
    BY <1>2, <1>3, <2>2, LinesStay
<1> QED
  BY <1>5, <1>6 DEF ChildInv

(* The last process prints its line. *)
LEMMA ChildPrint ==
  ASSUME ForkTypes, ChildInv, program = "childcreates", NEW p \in Pid, PrintLine(p)
  PROVE  ChildInv'
<1> DEFINE m == made
           c == m + 1
           l == ItsLine(p)
<1>1. at[p] \in {"print", "wait", "exit", "loop", "ended", "reaped"}
  <2>1. at[p] # "none"
    BY DEF PrintLine
  <2>2. p \in 1..made \/ p = made + 1
    BY <2>1, ChildPlaces DEF ChildInv
  <2>3. \A q \in 1..made : at[q] \in {"wait", "exit", "ended", "reaped"}
    BY DEF ChildInv, ChildChain
  <2>4. at[made + 1] \in {"print", "loop", "wait", "exit", "ended", "reaped"}
    BY DEF ChildInv, ChildChain
  <2> QED
    BY <2>2, <2>3, <2>4
<1>2. /\ at[p] = "print" /\ p = c /\ m \in Nat /\ m \in 0..(MaxProcs - 1)
      /\ \A q \in 1..c : q \in Pid
  <2>1. at[p] = "print"
    BY <1>1 DEF PrintLine
  <2> QED
    BY <2>1, ChildPlaces DEF ChildInv
<1>3. m > 0 /\ i[p] = m - 1 /\ c \in Nat /\ c - 2 = m - 1 /\ c - 1 = m
  BY <1>2 DEF ChildInv, ChildChain
<1>4. /\ at' = [at EXCEPT ![p] = "loop"]
      /\ IF tty THEN screen' = Append(screen, l) /\ out' = out
                ELSE out' = [out EXCEPT ![p] = Append(@, l)] /\ screen' = screen
      /\ i' = [i EXCEPT ![p] = @ + 1]
      /\ UNCHANGED <<program, iterations, tty, parent, made>>
  <2>1. AfterPrint(p) = "loop"
    BY <1>2 DEF AfterPrint
  <2>2. i' = [i EXCEPT ![p] = @ + 1]
    BY <2>1 DEF PrintLine, CountOn
  <2> QED
    BY <2>1, <2>2 DEF PrintLine, ItsLine
<1>5. l = FromLast(m)
  <2>1. m \in 1..m /\ m \in Pid
    BY <1>2, <1>3
  <2>2. parent[p] = m /\ (at[m] = "wait" <=> at[p] # "reaped")
    BY <1>2, <2>1 DEF ChildInv, ChildChain
  <2>3. getppid(p) = m
    BY <1>2, <1>3, <2>2 DEF getppid, Ended, Outside
  <2>4. l = [who |-> p, from |-> m, no |-> i[p]]
    BY <2>3 DEF ItsLine
  <2> QED
    BY <1>2, <1>3, <2>4 DEF FromLast
<1>6. l \in Line /\ m - 1 \in 0..(MaxProcs - 1)
  <2>1. l \in Line
    BY ItsLineIsLine
  <2>2. m - 1 \in 0..(MaxProcs - 1)
    BY <1>2, <1>3, RootIsPid
  <2> QED
    BY <2>1, <2>2
<1>7. /\ tty => /\ \A q \in Pid : out[q] = <<>>
                /\ screen = LastLines(m - 1)
      /\ ~tty => /\ \A q \in 1..c : out[q] = HeldBy(q)
                 /\ \E d \in 0..c : HaveEnded(d)
  BY <1>2 DEF ChildInv, ChildLines
<1>8. ChildChain'
  <2>1. ChildChain /\ i' \in [Pid -> Nat]
    BY <1>4 DEF ChildInv, ForkTypes
  <2>2. i'[p] = made /\ \A q \in Pid : q # p => i'[q] = i[q]
    <3>1. i'[p] = i[p] + 1
      BY <1>4, ForkTyped
    <3>2. i'[p] = made
      BY <1>2, <1>3, <3>1
    <3>3. \A q \in Pid : q # p => i'[q] = i[q]
      BY <1>4, ForkTyped
    <3> QED
      BY <3>2, <3>3
  <2>3. "loop" \in {"loop", "wait", "exit", "ended"} /\ at[p] \notin {"none", "reaped"}
    BY <1>2
  <2> QED
    BY <1>2, <1>4, <2>1, <2>2, <2>3, ChainMove
<1> HIDE DEF m, l, c
<1>9. Append(LastLines(m - 1), l) = LastLines(m)
  BY <1>2, <1>3, <1>5, LastLinesAre
<1>10. \A q \in Pid : at'[q] = IF q = p THEN "loop" ELSE at[q]
  BY <1>4, ForkTyped
<1>11. tty' => (\A q \in Pid : out'[q] = <<>>) /\ screen' = LastLines(m)
  BY <1>4, <1>7, <1>9
<1>12. ASSUME ~tty, NEW q \in 1..c
       PROVE  out'[q] = HeldBy(q)'
  <2>1. q \in Pid /\ out[q] = HeldBy(q)
    BY <1>2, <1>7, <1>12
  <2>2. CASE q = p
    <3>1. out[q] = LastLines(m - 1)
      BY <1>2, <1>3, <2>1, <2>2 DEF HeldBy, Ended
    <3>2. out'[q] = LastLines(m)
      BY <1>4, <1>9, <1>12, <2>1, <2>2, <3>1, ForkTyped
    <3>3. at'[q] = "loop" /\ q - 1 = m
      BY <1>2, <1>3, <1>10, <2>2
    <3>4. HeldBy(q)' = LastLines(m)
      BY <3>3, HeldNext
    <3> QED
      BY <3>2, <3>4
  <2>3. CASE q # p
    <3>1. out'[q] = out[q] /\ at'[q] = at[q]
      BY <1>4, <1>10, <1>12, <2>1, <2>3, ForkTyped
    <3>2. HeldBy(q)' = HeldBy(q)
      BY <3>1, HeldNext DEF HeldBy, Ended
    <3> QED
      BY <2>1, <3>1, <3>2
  <2> QED
    BY <2>2, <2>3
<1>13. ASSUME ~tty
       PROVE  \E d \in 0..c : HaveEnded(d)'
  <2>1. PICK d \in 0..c : HaveEnded(d)
    BY <1>7, <1>13
  <2>2. (\A q \in 1..c : Ended(q) <=> q > c - d) /\ screen = Deepest(m, d)
    BY <1>2, <1>3, <2>1 DEF HaveEnded, m, c
  <2>3. \A q \in 1..c : at'[q] \in {"ended", "reaped"} <=> Ended(q)
    BY <1>2, <1>10 DEF Ended
  <2>4. c = m + 1 /\ made' = m /\ screen' = screen /\ d \in Nat
    BY <1>3, <1>4, <1>13 DEF c, m
  <2>a. \A q \in 1..c : at'[q] \in {"ended", "reaped"} <=> q > c - d
    <3> TAKE q \in 1..c
    <3>1. (at'[q] \in {"ended", "reaped"} <=> Ended(q)) /\ (Ended(q) <=> q > c - d)
      BY <2>2, <2>3
    <3> QED
      BY <3>1
  <2>5. \A q \in 1..(m + 1) : at'[q] \in {"ended", "reaped"} <=> q > m + 1 - d
    BY <1>3, <2>a DEF c
  <2> QED
    BY <1>2, <2>2, <2>4, <2>5, EndedNext
<1>14. ChildLines'
  <2>1. c = m + 1 /\ made' = m /\ tty' = tty /\ at'[m + 1] = "loop"
    BY <1>2, <1>4, <1>10 DEF c, m
  <2>2. (LastLines(IF at[made + 1] = "print" THEN made - 1 ELSE made))' = LastLines(m)
    <3>1. (at[made + 1])' = "loop"
      BY <2>1
    <3> QED
      BY <2>1, <3>1 DEF LastLines, FromLast
  <2> QED
    BY <1>11, <1>12, <1>13, <2>1, <2>2 DEF ChildLines
<1> QED
  BY <1>8, <1>14 DEF ChildInv

(* The last process has no child to wait for, another one reaps its child. *)
LEMMA ChildWait ==
  ASSUME ForkTypes, ChildInv, program = "childcreates", NEW p \in Pid, Wait(p)
  PROVE  ChildInv'
<1> DEFINE m == made
           c == m + 1
<1>1. ChildChain /\ ChildLines
  BY DEF ChildInv
<1>2. /\ at[p] = "wait" /\ WaitReturns(p) /\ m \in Nat
      /\ (\A q \in 1..c : q \in Pid) /\ p \in 1..c
  BY <1>1, ChildPlaces DEF Wait
<1>3. i' = i /\ UNCHANGED <<program, iterations, tty, parent, out, made, screen>>
  <2>1. i' = [i EXCEPT ![p] = @] /\ i \in [Pid -> Nat]
    BY DEF Wait, CountOn, ForkTypes
  <2>2. i' = i
    BY <2>1
  <2> QED
    BY <2>2 DEF Wait
<1>4. \/ Zombies(p) = {} /\ at' = [at EXCEPT ![p] = "exit"]
      \/ \E z \in Zombies(p) : at' = [at EXCEPT ![p] = "exit", ![z] = "reaped"]
  BY DEF Wait
<1>5. /\ m <= iterations
      /\ \A q \in Pid : at[q] = "none" <=> q > c
      /\ \A q \in 1..m : /\ parent[q + 1] = q
                         /\ at[q] \in {"wait", "exit", "ended", "reaped"}
                         /\ at[q] = "wait" <=> at[q + 1] # "reaped"
      /\ at[c] \in {"print", "loop", "wait", "exit", "ended", "reaped"}
      /\ at[c] = "loop" => i[c] = m
      /\ at[c] = "print" => m > 0 /\ i[c] = m - 1
  BY <1>1 DEF ChildChain
<1>6. \A q \in 1..m : q \in Pid /\ q + 1 \in 1..c /\ q + 1 \in Pid
  BY <1>2
<1>7. ASSUME p \in 1..m
      PROVE  p + 1 \in Children(p)
  <2>1. at[p + 1] # "reaped" /\ parent[p + 1] = p /\ p + 1 \in Pid
    BY <1>2, <1>5, <1>6, <1>7
  <2>2. p + 1 \in Nat /\ p + 1 <= c
    BY <1>2, <1>7
  <2>3. ~(p + 1 > c)
    BY <1>2, <2>2
  <2>4. at[p + 1] # "none"
    BY <1>5, <2>1, <2>3
  <2> QED
    BY <2>1, <2>4 DEF Children
<1>8. CASE Zombies(p) = {}
  <2>1. p \notin 1..m
    BY <1>2, <1>7, <1>8 DEF WaitReturns
  <2>2. p = c
    BY <1>2, <2>1
  <2>3. at' = [at EXCEPT ![p] = "exit"]
    BY <1>4, <1>8
  <2>4. ChildChain'
    <3>1. /\ at[p] \notin {"none", "reaped"} /\ "exit" \in {"loop", "wait", "exit", "ended"}
          /\ "exit" # "loop"
      BY <1>2
    <3>2. i' \in [Pid -> Nat] /\ \A q \in Pid : q # p => i'[q] = i[q]
      BY <1>3 DEF ForkTypes
    <3> QED
      BY <1>1, <1>3, <2>2, <2>3, <3>1, <3>2, ChainMove
  <2>5. \A q \in Pid : at'[q] = IF q = p THEN "exit" ELSE at[q]
    BY <2>3, ForkTyped
  <2>6. \A q \in Pid : /\ at'[q] \in {"ended", "reaped"} <=> at[q] \in {"ended", "reaped"}
                       /\ at'[q] = "print" <=> at[q] = "print"
    BY <1>2, <2>5
  <2> QED
    BY <1>1, <1>3, <2>4, <2>6, LinesStay DEF ChildInv
<1>9. ASSUME NEW z \in Zombies(p), at' = [at EXCEPT ![p] = "exit", ![z] = "reaped"]
      PROVE  ChildInv'
  <2>1. z \in Pid /\ at[z] = "ended" /\ parent[z] = p
    BY DEF Zombies, Children
  <2>2. z # Root
    <3>1. p # Outside /\ parent[Root] = Outside
      BY ForkTyped DEF Pid, Outside
    <3> QED
      BY <2>1, <3>1
  <2>3. z \in 2..c
    <3>1. z \in 1..c
      BY <1>1, <2>1, ChildPlaces
    <3> QED
      BY <1>2, <2>2, <3>1 DEF Root
  <2>4. z = p + 1 /\ p \in 1..m
    <3>1. PICK y \in 1..m : z = y + 1
      <4>1. z - 1 \in 1..m /\ z = (z - 1) + 1
        BY <1>2, <2>3
      <4> QED
        BY <4>1
    <3>2. parent[z] = y
      BY <1>5, <3>1
    <3> QED
      BY <2>1, <3>1, <3>2
  <2>5. \A q \in Pid : at'[q] = IF q = z THEN "reaped" ELSE IF q = p THEN "exit" ELSE at[q]
    BY <1>9, <2>1, ForkTyped
  <2>6. p # z
    BY <1>2, <2>1
  <2>7. \A q \in Pid : /\ at'[q] = "none" <=> at[q] = "none"
                       /\ at'[q] = "print" <=> at[q] = "print"
                       /\ at'[q] = "loop" <=> at[q] = "loop"
                       /\ at'[q] \in {"ended", "reaped"} <=> at[q] \in {"ended", "reaped"}
    BY <1>2, <2>1, <2>5, <2>6
  <2>8. \A q \in 1..m : /\ at'[q] \in {"wait", "exit", "ended", "reaped"}
                        /\ at'[q] = "wait" <=> at'[q + 1] # "reaped"
    <3> TAKE q \in 1..m
    <3>1. q \in Pid /\ q + 1 \in Pid
      BY <1>6
    <3>2. at'[q] \in {"wait", "exit", "ended", "reaped"}
      BY <1>5, <2>5, <3>1
    <3>3. CASE q = p
      BY <2>4, <2>5, <2>6, <3>1, <3>3
    <3>4. CASE q = z
      <4>1. at[q + 1] = "reaped"
        BY <1>5, <2>1, <3>4
      <4>2. q + 1 # p /\ at'[q] = "reaped"
        BY <1>2, <2>5, <3>1, <3>4, <4>1
      <4>3. at'[q + 1] = "reaped"
        BY <2>5, <3>1, <4>1, <4>2
      <4> QED
        BY <4>2, <4>3
    <3>5. CASE q # p /\ q # z
      <4>1. at'[q] = at[q] /\ q + 1 # z
        <5>1. q + 1 # p + 1
          BY <1>2, <3>5
        <5> QED
          BY <2>4, <2>5, <3>1, <3>5, <5>1
      <4>2. at'[q + 1] = "reaped" <=> at[q + 1] = "reaped"
        BY <1>2, <2>5, <3>1, <4>1
      <4> QED
        BY <1>5, <4>1, <4>2
    <3> QED
      BY <3>2, <3>3, <3>4, <3>5
  <2>9. c \in Pid /\ at'[c] \in {"print", "loop", "wait", "exit", "ended", "reaped"}
        /\ (at'[c] = "loop" => i'[c] = m)
        /\ (at'[c] = "print" => m > 0 /\ i'[c] = m - 1)
    <3>1. c \in Pid
      BY <1>2
    <3>2. at'[c] \in {"print", "loop", "wait", "exit", "ended", "reaped"}
      BY <1>5, <2>5, <3>1
    <3> QED
      BY <1>3, <1>5, <2>7, <3>1, <3>2
  <2>10. \A q \in Pid : at'[q] = "none" <=> q > c
    BY <1>5, <2>7
  <2>11. made' = m /\ parent' = parent /\ iterations' = iterations
    BY <1>3
  <2>12. ChildLines'
    BY <1>1, <1>3, <2>7, LinesStay
  <2> HIDE DEF m
  <2>13. ChildChain'
    BY <1>5, <2>8, <2>9, <2>10, <2>11 DEF ChildChain
  <2> QED
    BY <2>12, <2>13 DEF ChildInv
<1> QED
  BY <1>4, <1>8, <1>9

(* A process of the chain ends: all of those after it have. *)
LEMMA ChildExit ==
  ASSUME ForkTypes, ChildInv, program = "childcreates", NEW p \in Pid, Exit(p)
  PROVE  ChildInv'
<1> DEFINE m == made
           c == m + 1
<1>1. ChildChain /\ ChildLines
  BY DEF ChildInv
<1>2. /\ at[p] = "exit" /\ m \in Nat /\ m \in 0..(MaxProcs - 1)
      /\ (\A q \in 1..c : q \in Pid) /\ p \in 1..c
  BY <1>1, ChildPlaces DEF Exit
<1>3. /\ at' = [at EXCEPT ![p] = "ended"] /\ screen' = screen \o out[p]
      /\ out' = [out EXCEPT ![p] = <<>>]
      /\ UNCHANGED <<program, iterations, tty, parent, i, made>>
  BY DEF Exit
<1>4. \A q \in Pid : /\ at'[q] = IF q = p THEN "ended" ELSE at[q]
                     /\ out'[q] = IF q = p THEN <<>> ELSE out[q]
  BY <1>3, ForkTyped
<1>5. ChildChain'
  <2>1. at[p] \notin {"none", "reaped"} /\ "ended" \in {"loop", "wait", "exit", "ended"}
    BY <1>2
  <2>2. i' \in [Pid -> Nat] /\ \A q \in Pid : q # p => i'[q] = i[q]
    BY <1>3 DEF ForkTypes
  <2> QED
    BY <1>1, <1>2, <1>3, <2>1, <2>2, ChainMove
<1>6. tty => (\A q \in Pid : out[q] = <<>>) /\ screen = LastLines(IF at[c] = "print" THEN m - 1 ELSE m)
  BY <1>1 DEF ChildLines
<1>7. ~tty => (\A q \in 1..c : out[q] = HeldBy(q)) /\ \E d \in 0..c : HaveEnded(d)
  BY <1>1 DEF ChildLines
<1>8. ASSUME tty
      PROVE  /\ \A q \in Pid : out'[q] = <<>>
             /\ screen' = LastLines(IF at'[c] = "print" THEN m - 1 ELSE m)
  <2>1. screen' = screen
    BY <1>3, <1>6, <1>8, ForkTyped, ConcatEmptySeq
  <2>2. at'[c] = "print" <=> at[c] = "print"
    <3>1. c \in Pid
      BY <1>2
    <3> QED
      BY <1>2, <1>4, <3>1
  <2> QED
    BY <1>4, <1>6, <1>8, <2>1, <2>2
<1>9. ASSUME ~tty, NEW q \in 1..c
      PROVE  out'[q] = HeldBy(q)'
  <2>1. q \in Pid /\ out[q] = HeldBy(q)
    BY <1>2, <1>7, <1>9
  <2>2. CASE q = p
    BY <1>4, <2>1, <2>2, HeldNext
  <2>3. CASE q # p
    <3>1. out'[q] = out[q] /\ at'[q] = at[q]
      BY <1>4, <2>1, <2>3
    <3>2. HeldBy(q)' = HeldBy(q)
      BY <3>1, HeldNext DEF HeldBy, Ended
    <3> QED
      BY <2>1, <3>1, <3>2
  <2> QED
    BY <2>2, <2>3
<1>10. ASSUME ~tty
       PROVE  \E d \in 0..c : HaveEnded(d)'
  <2>1. PICK d \in 0..c : HaveEnded(d)
    BY <1>7, <1>10
  <2> DEFINE E(q) == at[q] \in {"ended", "reaped"}
  <2>2. (\A q \in 1..c : E(q) <=> q > c - d) /\ screen = Deepest(m, d)
    <3>1. \A q \in 1..(made + 1) : Ended(q) <=> q > made + 1 - d
      BY <1>2, <2>1 DEF HaveEnded
    <3>2. screen = Deepest(made, d)
      BY <2>1 DEF HaveEnded
    <3> QED
      BY <1>2, <3>1, <3>2 DEF Ended
  <2>3. ~E(p) /\ c \in Nat /\ d \in Nat /\ d <= c /\ p \in Nat /\ p >= 1 /\ p <= c
    BY <1>2
  <2>4. p # c => E(p + 1) /\ p + 1 \in 1..c
    <3>1. p # c => p \in 1..m /\ p + 1 \in 1..c
      BY <1>2
    <3>2. p \in 1..m => at[p + 1] = "reaped"
      BY <1>1, <1>2 DEF ChildChain
    <3> QED
      BY <3>1, <3>2
  <2> HIDE DEF E, m
  <2>5. p = c - d
    <3>1. ~(p > c - d)
      BY <1>2, <2>2, <2>3
    <3>2. p # c => p + 1 > c - d
      BY <2>2, <2>4
    <3> QED
      BY <2>3, <3>1, <3>2
  <2>6. d \in 0..m /\ d + 1 \in 0..c /\ m - d = p - 1 /\ d + 1 \in Nat
    BY <1>2, <2>3, <2>5
  <2>7. screen' = Deepest(m, d + 1)
    <3>1. out[p] = LastLines(p - 1)
      BY <1>2, <1>7, <1>10 DEF HeldBy, Ended
    <3>2. screen' = Deepest(m, d) \o LastLines(m - d)
      BY <1>3, <2>2, <2>6, <3>1
    <3> QED
      BY <1>2, <2>6, <3>2, DeepestIs
  <2>8. \A q \in 1..c : at'[q] \in {"ended", "reaped"} <=> q > c - (d + 1)
    <3> TAKE q \in 1..c
    <3>1. at'[q] \in {"ended", "reaped"} <=> (q = p \/ E(q))
      BY <1>2, <1>4 DEF E
    <3>2. E(q) <=> q > c - d
      BY <2>2
    <3>3. (q = p \/ q > c - d) <=> q > c - (d + 1)
      BY <2>3, <2>5
    <3> QED
      BY <3>1, <3>2, <3>3
  <2>9. made' = m
    BY <1>3 DEF m
  <2>10. HaveEnded(d + 1)'
    BY <1>2, <2>6, <2>7, <2>8, <2>9, EndedNext
  <2> QED
    BY <2>6, <2>10
<1>11. ChildLines'
  <2>1. (LastLines(IF at[made + 1] = "print" THEN made - 1 ELSE made))'
          = LastLines(IF at'[c] = "print" THEN m - 1 ELSE m)
    BY <1>3 DEF LastLines, FromLast
  <2>2. made' = m /\ tty' = tty
    BY <1>3
  <2> HIDE DEF m
  <2> QED
    BY <1>8, <1>9, <1>10, <2>1, <2>2 DEF ChildLines
<1> QED
  BY <1>5, <1>11 DEF ChildInv

(* What childcreates has printed when all have ended. *)
LEMMA ChildOutput ==
  ASSUME ForkTypes, ChildInv, program = "childcreates", AllEnded
  PROVE  ChildCreatesOutput
<1> DEFINE m == made
           c == m + 1
<1>1. ChildChain /\ ChildLines
  BY DEF ChildInv
<1>2. m \in Nat /\ m \in 0..(MaxProcs - 1) /\ \A q \in 1..c : q \in Pid
  BY <1>1, ChildPlaces
<1>3. \A q \in 1..c : at[q] # "none" /\ Ended(q)
  <2> TAKE q \in 1..c
  <2>1. q \in Pid /\ ~(q > c)
    BY <1>2
  <2> QED
    BY <1>1, <2>1 DEF AllEnded, ChildChain
<1>4. CASE tty
  <2>1. at[c] # "print"
    BY <1>2, <1>3 DEF Ended
  <2> QED
    BY <1>1, <1>4, <2>1 DEF ChildLines, ChildCreatesOutput
<1>5. CASE ~tty
  <2>1. PICK d \in 0..c : HaveEnded(d)
    BY <1>1, <1>5 DEF ChildLines
  <2>2. \A q \in 1..(made + 1) : Ended(q) <=> q > made + 1 - d
    BY <1>2, <2>1 DEF HaveEnded
  <2>3. screen = Deepest(m, d)
    BY <2>1 DEF HaveEnded
  <2>4. d = m + 1
    <3>1. 1 \in 1..c
      BY <1>2
    <3>2. 1 > m + 1 - d
      BY <1>3, <2>2, <3>1
    <3> QED
      BY <1>2, <3>2
  <2>5. screen = Deepest(m, m) \o LastLines(m - m)
    <3>1. m \in 0..m
      BY <1>2
    <3>2. Deepest(m, m + 1) = Deepest(m, m) \o LastLines(m - m)
      BY <1>2, <3>1, DeepestIs
    <3> QED
      BY <2>3, <2>4, <3>2
  <2>6. LastLines(m - m) = <<>> /\ m \in 0..m /\ 0 \in 0..(MaxProcs - 1) /\ m - m = 0
    BY <1>2, LastLinesAre, RootIsPid
  <2>7. Deepest(m, m) \in Seq(Line)
    BY <1>2, <2>6, DeepestIs
  <2>8. screen = Deepest(m, m)
    BY <2>5, <2>6, <2>7, ConcatEmptySeq
  <2> QED
    BY <1>5, <2>8 DEF ChildCreatesOutput, Deepest
<1> QED
  BY <1>4, <1>5

(* The parts of the invariant after a step. *)
LEMMA FamiliesNext ==
  ASSUME NEW n, iterations' = n,
         Sums([p \in Pid |-> Family(n, at'[p], i'[p])], Doubled[n])
  PROVE  LoopFamilies'
BY DEF LoopFamilies, Sums, Units, Family, Becomes, Doubled

(* What has to be shown of the lines on a terminal after a step. *)
LEMMA ScreenNext ==
  ASSUME NEW m, NEW n \in Nat, Sums([p \in Pid |-> Becomes(m, at'[p], i'[p])], n),
         Occurrences(screen', m - 1) + n = Doubled[m]
  PROVE  LoopScreen(m)'
<1>1. (Printed(m - 1))' = Occurrences(screen', m - 1)
  BY DEF Printed, Occurrences
<1>2. (Doubled[m])' = Doubled[m]
  BY DEF Doubled
<1>3. (Sums([p \in Pid |-> Becomes(m, at[p], i[p])], n))'
  BY DEF Sums, Units, Becomes, Doubled
<1> QED
  BY <1>1, <1>2, <1>3 DEF LoopScreen

(* And of the lines in the buffers. *)
LEMMA BuffersNext ==
  ASSUME NEW k, NEW m, made' = m,
         Occurrences(screen', k) = Cardinality({p \in Pid : at'[p] = "ended"}),
         \A p \in 1..(m + 1) : at'[p] # "ended" =>
           Occurrences(out'[p], k) = IF k < i'[p] \/ at'[p] = "exit" THEN 1 ELSE 0
  PROVE  LoopBuffers(k)'
<1>1. (Printed(k))' = Occurrences(screen', k)
  BY DEF Printed, Occurrences
<1>2. \A p : (Holds(p, k))' <=> Occurrences(out'[p], k) = IF k < i'[p] \/ at'[p] = "exit" THEN 1 ELSE 0
  BY DEF Holds, Occurrences
<1> QED
  BY <1>1, <1>2 DEF LoopBuffers

(* These are numbers. *)
LEMMA BecomesNat ==
  ASSUME NEW m \in 0..MaxProcs, NEW x, NEW j \in Nat
  PROVE  Becomes(m, x, j) \in Nat /\ Family(m, x, j) \in Nat
<1>1. j < m => m - j \in 0..MaxProcs /\ m - 1 - j \in 0..MaxProcs
  BY RootIsPid
<1>2. j < m => Doubled[m - j] \in Nat /\ Doubled[m - 1 - j] \in Nat
  BY <1>1, DoubledIs
<1>3. Becomes(m, x, j) \in Nat
  BY <1>2 DEF Becomes
<1> QED
  BY <1>3 DEF Family

(* A sum when one of its terms changes, and when one is divided. *)
LEMMA SumMove ==
  ASSUME NEW f \in [Pid -> Nat], NEW g \in [Pid -> Nat], NEW n \in Nat, Sums(f, n), NEW p \in Pid,
         \A q \in Pid : q # p => g[q] = f[q]
  PROVE  \E m \in Nat : m + f[p] = n + g[p] /\ Sums(g, m)
<1>1. g[p] \in Nat
  OBVIOUS
<1>2. [f EXCEPT ![p] = g[p]] = g
  OBVIOUS
<1> QED
  BY <1>1, <1>2, SumExcept

(* A value that is shared with a process that had 0 keeps the sum. *)
LEMMA SumSplit ==
  ASSUME NEW f \in [Pid -> Nat], NEW g \in [Pid -> Nat], NEW n \in Nat, Sums(f, n),
         NEW p \in Pid, NEW c \in Pid, p # c, f[c] = 0, f[p] = g[p] + g[c],
         \A q \in Pid : q # p /\ q # c => g[q] = f[q]
  PROVE  Sums(g, n)
<1> DEFINE h == [f EXCEPT ![p] = g[p]]
<1>1. h \in [Pid -> Nat] /\ h[c] = f[c] /\ h[p] = g[p]
  OBVIOUS
<1>2. \A q \in Pid : q # c => g[q] = h[q]
  OBVIOUS
<1>3. \A q \in Pid : q # p => h[q] = f[q]
  OBVIOUS
<1> HIDE DEF h
<1>4. PICK m \in Nat : m + f[p] = n + h[p] /\ Sums(h, m)
  BY <1>1, <1>3, SumMove
<1>5. PICK k \in Nat : k + h[c] = m + g[c] /\ Sums(g, k)
  BY <1>1, <1>2, <1>4, SumMove
<1>6. k = n
  <2>1. f[p] \in Nat /\ g[p] \in Nat /\ g[c] \in Nat /\ h[c] = 0
    BY <1>1
  <2> QED
    BY <1>1, <1>4, <1>5, <2>1
<1> QED
  BY <1>5, <1>6

(* One unit for each member of a set. *)
LEMMA Row ==
  ASSUME NEW S, IsFiniteSet(S)
  PROVE  IsFiniteSet(S \X {1}) /\ Cardinality(S \X {1}) = Cardinality(S)
<1> DEFINE V == S \X {1}
           f == [q \in S |-> <<q, 1>>]
<1>1. f \in [S -> V] /\ (\A v \in V : \E q \in S : f[q] = v) /\ \A a, b \in S : f[a] = f[b] => a = b
  OBVIOUS
<1> HIDE DEF f, V
<1>2. f \in Bijection(S, V)
  BY <1>1 DEF Bijection, Injection, Surjection, IsInjective
<1>3. ExistsBijection(S, V)
  BY <1>2 DEF ExistsBijection
<1>4. IsFiniteSet(V) /\ Cardinality(V) = Cardinality(S)
  BY <1>3, FS_Bijection
<1> QED
  BY <1>4 DEF V

(* The processes made so far and the one that a fork makes. *)
LEMMA LoopWhere ==
  ASSUME ForkTypes, LoopPlaces, program = "forkloop"
  PROVE  /\ made \in Nat /\ iterations \in 0..MaxProcs
         /\ \A p \in Pid : at[p] # "none" => p \in 1..(made + 1)
         /\ \A p \in 1..(made + 1) : p \in Pid /\ at[p] \in {"loop", "print", "exit", "ended"}
<1>1. made \in Nat /\ iterations \in 0..MaxProcs
  BY ForkTyped
<1>2. \A p \in Pid : at[p] # "none" => p \in 1..(made + 1)
  BY <1>1 DEF LoopPlaces, Pid
<1>3. \A p \in 1..(made + 1) : p \in Pid
  BY <1>1, RootIsPid DEF LoopPlaces, Pid
<1> QED
  BY <1>1, <1>2, <1>3 DEF LoopPlaces

(* There is room for the child: a process in the loop is half of what it   *)
(* becomes.                                                                *)
LEMMA LoopRoom ==
  ASSUME ForkTypes, LoopPlaces, LoopFamilies, program = "forkloop", NEW p \in Pid,
         at[p] = "loop", i[p] < iterations
  PROVE  made + 2 \in Pid /\ made + 2 # p /\ at[made + 2] = "none"
<1> DEFINE F == [q \in Pid |-> Family(iterations, at[q], i[q])]
           n == Doubled[iterations]
           A == {q \in Pid : at[q] # "none"}
           V == A \X {1}
           z == <<p, 2>>
<1>1. made \in Nat /\ iterations \in 0..MaxProcs /\ p \in 1..(made + 1)
  BY LoopWhere
<1>2. n \in Nat /\ n <= MaxProcs
  BY <1>1, DoubledIs DEF ForkTypes, Needs
<1>3. \A q \in A : Family(iterations, at[q], i[q]) \in Nat \ {0}
  <2> TAKE q \in A
  <2>1. i[q] \in Nat
    BY ForkTyped
  <2>2. i[q] < iterations => iterations - i[q] \in 0..MaxProcs /\ iterations - 1 - i[q] \in 0..MaxProcs
    BY <1>1, <2>1, RootIsPid
  <2>3. i[q] < iterations => Doubled[iterations - i[q]] \in Nat \ {0} /\ Doubled[iterations - 1 - i[q]] \in Nat \ {0}
    BY <2>2, DoubledIs
  <2> QED
    BY <2>3 DEF Family, Becomes
<1>4. F[p] \in Nat /\ F[p] >= 2
  <2>1. /\ i[p] \in Nat /\ iterations - i[p] \in 1..MaxProcs
        /\ iterations - i[p] - 1 \in 0..MaxProcs
    BY <1>1, ForkTyped, RootIsPid
  <2>2. F[p] = Doubled[iterations - i[p]]
    BY DEF Family, Becomes
  <2>3. /\ Doubled[iterations - i[p]] = 2 * Doubled[iterations - i[p] - 1]
        /\ Doubled[iterations - i[p] - 1] \in Nat \ {0}
    BY <2>1, DoubledIs
  <2> QED
    BY <2>2, <2>3
<1>5. V \subseteq Units(F) /\ z \in Units(F) /\ z \notin V
  <2>1. \A q \in A : F[q] \in Nat \ {0} /\ 1 \in 1..F[q]
    BY <1>3
  <2>2. 2 \in 1..F[p]
    BY <1>4
  <2> HIDE DEF F
  <2>3. V \subseteq Units(F)
    BY <2>1 DEF Units
  <2>4. z \in Units(F)
    BY <2>2 DEF Units
  <2> QED
    BY <2>3, <2>4
<1>6. IsFiniteSet(Units(F)) /\ Cardinality(Units(F)) = n
  BY DEF LoopFamilies, Sums
<1>7. IsFiniteSet(V) /\ Cardinality(V) \in Nat /\ Cardinality(V) + 1 <= n
  <2> HIDE DEF F, V, n, z
  <2>1. IsFiniteSet(V) /\ Cardinality(V) \in Nat
    BY <1>5, <1>6, FS_Subset, FS_CardinalityType
  <2>2. IsFiniteSet(V \cup {z}) /\ Cardinality(V \cup {z}) = Cardinality(V) + 1
    BY <1>5, <2>1, FS_AddElement
  <2>3. V \cup {z} \subseteq Units(F)
    BY <1>5
  <2> QED
    BY <1>6, <2>1, <2>2, <2>3, FS_Subset
<1>a. \A k \in Nat : Cardinality(1..k) = k
  BY FS_Interval
<1>8. IsFiniteSet(A) /\ Cardinality(A) = Cardinality(V)
  <2>1. IsFiniteSet(Pid) /\ A \subseteq Pid
    BY RootIsPid, FS_Interval DEF Pid
  <2>2. IsFiniteSet(A)
    BY <2>1, FS_Subset
  <2> QED
    BY <2>2, Row
<1>9. A = 1..(made + 1) /\ Cardinality(A) = made + 1
  <2>1. A = 1..(made + 1)
    <3>1. \A q \in Pid : at[q] # "none" => q \in 1..(made + 1)
      BY LoopWhere
    <3>2. \A q \in 1..(made + 1) : q \in Pid /\ at[q] # "none"
      BY LoopWhere
    <3> QED
      BY <3>1, <3>2
  <2>2. Cardinality(1..(made + 1)) = made + 1
    <3>1. made + 1 \in Nat
      BY <1>1
    <3> QED
      BY <1>a, <3>1
  <2> HIDE DEF A
  <2> QED
    BY <2>1, <2>2
<1>11. made + 2 <= MaxProcs
  <2> HIDE DEF V, n, A
  <2> QED
    BY <1>1, <1>2, <1>7, <1>8, <1>9, RootIsPid
<1>12. made + 2 \in Pid /\ made + 2 # p /\ made + 2 > made + 1
  BY <1>1, <1>11, RootIsPid DEF Pid
<1> QED
  BY <1>12 DEF LoopPlaces

(* The sum of one value. *)
LEMMA SumOne ==
  ASSUME NEW g \in [Pid -> Nat], NEW p \in Pid, \A q \in Pid : q # p => g[q] = 0
  PROVE  Sums(g, g[p])
<1> DEFINE zero == [q \in Pid |-> 0]
<1>1. zero \in [Pid -> Nat] /\ zero[p] = 0 /\ \A q \in Pid : q # p => g[q] = zero[q]
  OBVIOUS
<1>2. Sums(zero, 0)
  BY SumZero
<1> HIDE DEF zero
<1>3. PICK m \in Nat : m + zero[p] = 0 + g[p] /\ Sums(g, m)
  BY <1>1, <1>2, SumMove
<1>4. g[p] \in Nat
  OBVIOUS
<1>5. m = g[p]
  BY <1>1, <1>3, <1>4
<1> QED
  BY <1>3, <1>5

(* forkloop starts with one process that becomes all of them. *)
LEMMA LoopStart ==
  ASSUME ForkTypes, ForkStart, program' = "forkloop"
  PROVE  LoopInv'
<1>1. /\ at' = [at EXCEPT ![Root] = "loop"] /\ iterations' \in 0..MaxProcs
      /\ UNCHANGED <<parent, i, out, made, screen, forkfaults>> /\ program = "none"
  BY RootIsPid DEF ForkStart
<1> DEFINE n == iterations'
           zero == [p \in Pid |-> 0]
<1>2. /\ at = [p \in Pid |-> "none"] /\ i = [p \in Pid |-> 0]
      /\ out = [p \in Pid |-> <<>>]
      /\ made = 0 /\ screen = <<>>
  BY <1>1 DEF ForkTypes, Untouched
<1>3. /\ \A p \in Pid : at'[p] = (IF p = Root THEN "loop" ELSE "none") /\ i'[p] = 0 /\ out'[p] = <<>>
      /\ made' = 0 /\ screen' = <<>>
  BY <1>1, <1>2, RootIsPid
<1>4. n \in 0..MaxProcs
  BY <1>1
<1> HIDE DEF n
<1>5. LoopPlaces'
  <2>1. \A p \in Pid : at'[p] = "none" <=> p > 1
    BY <1>3 DEF Pid, Root
  <2>2. \A p \in 1..1 : p = 1
    OBVIOUS
  <2>3. \A p \in 1..1 : at'[p] = "loop" /\ i'[p] <= n
    BY <1>3, <1>4, <2>2, RootIsPid DEF Root
  <2>4. (made + 1)' = 1
    BY <1>3
  <2>5. (made < MaxProcs)'
    BY <1>3, RootIsPid
  <2> QED
    BY <2>1, <2>3, <2>4, <2>5 DEF LoopPlaces, n
<1>6. LoopFamilies'
  <2> DEFINE g == [p \in Pid |-> Family(n, at'[p], i'[p])]
  <2>1. g \in [Pid -> Nat]
    BY <1>3, <1>4, BecomesNat
  <2>2. \A q \in Pid : q # Root => g[q] = 0
    BY <1>3 DEF Family
  <2>3. g[Root] = Doubled[n]
    <3>1. g[Root] = Family(n, "loop", 0)
      BY <1>3, RootIsPid
    <3>2. CASE n = 0
      BY <3>1, <3>2, DoubledIs DEF Family
    <3>3. CASE n # 0
      <4>1. 0 < n /\ n - 0 = n
        BY <1>4, <3>3
      <4> QED
        BY <3>1, <4>1 DEF Family, Becomes
    <3> QED
      BY <3>2, <3>3
  <2>4. Sums(g, g[Root])
    <3> HIDE DEF g
    <3> QED
      BY <2>1, <2>2, RootIsPid, SumOne
  <2>5. Sums([p \in Pid |-> Family(n, at'[p], i'[p])], Doubled[n])
    BY <2>3, <2>4
  <2> QED
    BY <2>5, FamiliesNext DEF n
<1>7. ASSUME NEW m \in 1..n
      PROVE  LoopScreen(m)'
  <2> DEFINE g == [p \in Pid |-> Becomes(m, at'[p], i'[p])]
  <2>1. m \in 0..MaxProcs /\ 0 < m /\ m - 0 = m
    BY <1>4, RootIsPid
  <2>2. g \in [Pid -> Nat]
    BY <1>3, <2>1, BecomesNat
  <2>3. \A q \in Pid : q # Root => g[q] = 0
    BY <1>3 DEF Becomes
  <2>4. g[Root] = Doubled[m]
    BY <1>3, <2>1, RootIsPid DEF Becomes
  <2>5. Sums(g, g[Root])
    <3> HIDE DEF g
    <3> QED
      BY <2>2, <2>3, RootIsPid, SumOne
  <2>6. Sums([p \in Pid |-> Becomes(m, at'[p], i'[p])], Doubled[m])
    BY <2>4, <2>5
  <2>7. Occurrences(screen', m - 1) = 0 /\ Doubled[m] \in Nat
    BY <1>3, <2>1, OccurrencesEmpty, DoubledIs
  <2>8. Occurrences(screen', m - 1) + Doubled[m] = Doubled[m]
    BY <2>7
  <2> QED
    BY <2>6, <2>7, <2>8, ScreenNext
<1>8. ASSUME NEW k \in 0..(n - 1)
      PROVE  LoopBuffers(k)'
  <2>1. {p \in Pid : at'[p] = "ended"} = {}
    BY <1>3
  <2>2. Occurrences(screen', k) = Cardinality({p \in Pid : at'[p] = "ended"})
    BY <1>3, <2>1, OccurrencesEmpty, FS_EmptySet
  <2>3. \A p \in 1..(0 + 1) : p = Root
    BY DEF Root
  <2>4. \A p \in 1..(0 + 1) : at'[p] # "ended" =>
           Occurrences(out'[p], k) = IF k < i'[p] \/ at'[p] = "exit" THEN 1 ELSE 0
    BY <1>3, <1>4, <2>3, OccurrencesEmpty, RootIsPid
  <2> QED
    BY <1>3, <2>2, <2>4, BuffersNext
<1> QED
  BY <1>3, <1>5, <1>6, <1>7, <1>8 DEF LoopInv, n

(* A process goes to x, and what it becomes is still as many.              *)
LEMMA LoopMove ==
  ASSUME ForkTypes, LoopPlaces, LoopFamilies, program = "forkloop",
         NEW p \in Pid, at[p] # "none", NEW x \in {"loop", "exit", "ended"}, NEW j \in 0..iterations,
         at' = [at EXCEPT ![p] = x], i' = [i EXCEPT ![p] = j],
         made' = made, iterations' = iterations,
         Family(iterations, x, j) = Family(iterations, at[p], i[p])
  PROVE  LoopPlaces' /\ LoopFamilies'
<1>1. \A q \in Pid : /\ at'[q] = IF q = p THEN x ELSE at[q]
                     /\ i'[q] = (IF q = p THEN j ELSE i[q]) /\ i'[q] \in Nat
  BY ForkTyped
<1>2. LoopPlaces'
  <2>1. \A q \in Pid : at'[q] = "none" <=> q > made + 1
    BY <1>1 DEF LoopPlaces
  <2>2. \A q \in 1..(made + 1) : /\ at[q] \in {"loop", "print", "exit", "ended"}
                                 /\ i[q] <= iterations
                                 /\ (at[q] = "print" => i[q] < iterations)
    BY DEF LoopPlaces
  <2>3. j <= iterations
    BY LoopWhere
  <2>4. \A q \in 1..(made + 1) : /\ at'[q] \in {"loop", "print", "exit", "ended"}
                                 /\ i'[q] <= iterations
                                 /\ (at'[q] = "print" => i'[q] < iterations)
    <3> TAKE q \in 1..(made + 1)
    <3>0. q \in Pid
      BY LoopWhere
    <3>1. CASE q = p
      BY <1>1, <2>3, <3>1
    <3>2. CASE q # p
      <4>1. at'[q] = at[q] /\ i'[q] = i[q]
        BY <1>1, <3>0, <3>2
      <4> QED
        BY <2>2, <4>1
    <3> QED
      BY <3>1, <3>2
  <2>5. made < MaxProcs
    BY DEF LoopPlaces
  <2> QED
    BY <2>1, <2>4, <2>5 DEF LoopPlaces
<1>3. LoopFamilies'
  <2> DEFINE f == [q \in Pid |-> Family(iterations, at[q], i[q])]
             g == [q \in Pid |-> Family(iterations, at'[q], i'[q])]
  <2>1. f \in [Pid -> Nat] /\ g \in [Pid -> Nat]
    BY <1>1, BecomesNat, ForkTyped
  <2>2. f = g
    <3>1. \A q \in Pid : Family(iterations, at[q], i[q]) = Family(iterations, at'[q], i'[q])
      BY <1>1
    <3> QED
      BY <3>1
  <2>3. Sums(g, Doubled[iterations])
    BY <2>2 DEF LoopFamilies
  <2> QED
    BY <2>3, FamiliesNext
<1> QED
  BY <1>2, <1>3

(* A step of one process that prints what it no longer will. *)
LEMMA ScreenMove ==
  ASSUME ForkTypes, NEW m \in 1..iterations, LoopScreen(m), NEW p \in Pid,
         \A q \in Pid : q # p => at'[q] = at[q] /\ i'[q] = i[q], i'[p] \in Nat,
         Occurrences(screen', m - 1) \in Nat,
         Occurrences(screen', m - 1) + Becomes(m, at'[p], i'[p])
           = Occurrences(screen, m - 1) + Becomes(m, at[p], i[p])
  PROVE  LoopScreen(m)'
<1> DEFINE f == [q \in Pid |-> Becomes(m, at[q], i[q])]
           g == [q \in Pid |-> Becomes(m, at'[q], i'[q])]
<1>1. m \in 0..MaxProcs
  BY ForkTyped, RootIsPid
<1>2. f \in [Pid -> Nat]
  BY <1>1, BecomesNat, ForkTyped
<1>3. g \in [Pid -> Nat]
  <2>1. \A q \in Pid : i'[q] \in Nat
    BY ForkTyped
  <2> QED
    BY <1>1, <2>1, BecomesNat
<1>4. PICK n \in Nat : Sums(f, n) /\ Printed(m - 1) + n = Doubled[m]
  BY DEF LoopScreen
<1>5. f[p] = Becomes(m, at[p], i[p]) /\ g[p] = Becomes(m, at'[p], i'[p])
      /\ \A q \in Pid : q # p => g[q] = f[q]
  OBVIOUS
<1> HIDE DEF f, g
<1>6. PICK k \in Nat : k + f[p] = n + g[p] /\ Sums(g, k)
  BY <1>2, <1>3, <1>4, <1>5, SumMove
<1>7. Occurrences(screen', m - 1) + k = Doubled[m]
  <2>1. /\ Occurrences(screen, m - 1) \in Nat
        /\ Printed(m - 1) = Occurrences(screen, m - 1)
    BY ForkTyped, OccurrencesNat DEF Printed
  <2>2. f[p] \in Nat /\ g[p] \in Nat /\ Doubled[m] \in Nat
    BY <1>1, <1>2, <1>3, DoubledIs
  <2> QED
    BY <1>4, <1>5, <1>6, <2>1, <2>2
<1> QED
  BY <1>6, <1>7, ScreenNext DEF g

(* A fork divides what its process becomes. *)
LEMMA BecomesSplit ==
  ASSUME NEW m \in 0..MaxProcs, NEW j \in Nat
  PROVE  Becomes(m, "loop", j) = Becomes(m, "print", j) + Becomes(m, "print", j)
<1>1. CASE j < m
  <2>1. m - j \in 1..MaxProcs /\ m - 1 - j \in 0..MaxProcs /\ m - 1 - j = m - j - 1
    BY <1>1, RootIsPid
  <2>2. Doubled[m - j] = 2 * Doubled[m - 1 - j] /\ Doubled[m - 1 - j] \in Nat
    BY <2>1, DoubledIs
  <2>3. /\ Becomes(m, "loop", j) = Doubled[m - j]
        /\ Becomes(m, "print", j) = Doubled[m - 1 - j]
    BY <1>1 DEF Becomes
  <2> QED
    BY <2>2, <2>3
<1>2. CASE ~(j < m)
  BY <1>2 DEF Becomes
<1> QED
  BY <1>1, <1>2

(* A fork shares what is still to come between the parent and the child. *)
LEMMA LoopFork ==
  ASSUME ForkTypes, LoopInv, program = "forkloop", NEW p \in Pid, Fork(p)
  PROVE  LoopInv'
<1> DEFINE m == made
           n == m + 1
           c == m + 2
           j == i[p]
<1>1. at[p] = "loop" /\ j < iterations /\ LoopPlaces /\ LoopFamilies
  BY DEF Fork, LoopInv
<1>2. /\ m \in Nat /\ iterations \in 0..MaxProcs /\ c \in Pid
      /\ c # p /\ at[c] = "none" /\ p \in 1..n
      /\ j \in Nat
  BY <1>1, LoopWhere, LoopRoom, ForkTyped
<1>3. /\ made' = n /\ at' = [at EXCEPT ![p] = "print", ![c] = "print"]
      /\ i' = [i EXCEPT ![c] = j] /\ out' = [out EXCEPT ![c] = out[p]]
      /\ UNCHANGED <<program, iterations, tty, screen, forkfaults>>
  <2>1. ParentAfterFork = "print" /\ ChildAfterFork = "print"
    BY DEF ParentAfterFork, ChildAfterFork
  <2>2. made' = n
    BY DEF Fork
  <2> HIDE DEF n
  <2> QED
    BY <2>1, <2>2 DEF Fork, Inherited
<1>4. \A q \in Pid : /\ at'[q] = IF q = c \/ q = p THEN "print" ELSE at[q]
                     /\ i'[q] = (IF q = c THEN j ELSE i[q]) /\ i'[q] \in Nat
                     /\ out'[q] = IF q = c THEN out[p] ELSE out[q]
  BY <1>2, <1>3, ForkTyped
<1>5. /\ \A q \in Pid : at[q] = "none" <=> q > n
      /\ \A q \in 1..n : /\ at[q] \in {"loop", "print", "exit", "ended"}
                         /\ i[q] <= iterations /\ (at[q] = "print" => i[q] < iterations)
  BY <1>1 DEF LoopPlaces
<1>6. \A q \in 1..(n + 1) : (q = c \/ q \in 1..n) /\ q \in Pid
  <2> TAKE q \in 1..(n + 1)
  <2>1. q \in Nat /\ q >= 1 /\ q <= m + 2 /\ m \in Nat /\ m + 2 <= MaxProcs
    BY <1>2, RootIsPid DEF Pid
  <2> QED
    BY <2>1, RootIsPid DEF Pid
<1>7. at'[p] = "print" /\ at'[c] = "print" /\ i'[p] = j /\ i'[c] = j
  BY <1>2, <1>4
<1>a. c = n + 1 /\ n \in Nat
  BY <1>2
<1> HIDE DEF c, n, m, j
<1>8. LoopPlaces'
  <2>1. \A q \in Pid : at'[q] = "none" <=> q > n + 1
    <3> TAKE q \in Pid
    <3>1. at'[q] = "none" <=> (at[q] = "none" /\ q # c)
      BY <1>1, <1>4
    <3>2. q \in Nat
      BY DEF Pid
    <3> QED
      BY <1>5, <1>a, <3>1, <3>2
  <2>2. \A q \in 1..(n + 1) : /\ at'[q] \in {"loop", "print", "exit", "ended"}
                              /\ i'[q] <= iterations
                              /\ (at'[q] = "print" => i'[q] < iterations)
    <3> TAKE q \in 1..(n + 1)
    <3>1. CASE q = c \/ q = p
      <4>1. at'[q] = "print" /\ i'[q] = j
        BY <1>7, <3>1
      <4> QED
        BY <1>1, <1>2, <4>1
    <3>2. CASE q # c /\ q # p
      BY <1>4, <1>5, <1>6, <3>2
    <3> QED
      BY <3>1, <3>2
  <2>3. n < MaxProcs
    BY <1>2, <1>a, RootIsPid DEF Pid
  <2> QED
    BY <1>3, <2>1, <2>2, <2>3 DEF LoopPlaces
<1>9. LoopFamilies'
  <2> DEFINE f == [q \in Pid |-> Family(iterations, at[q], i[q])]
             g == [q \in Pid |-> Family(iterations, at'[q], i'[q])]
  <2>1. f \in [Pid -> Nat] /\ g \in [Pid -> Nat]
    BY <1>2, <1>4, BecomesNat, ForkTyped
  <2>2. f[c] = 0
    BY <1>2 DEF Family
  <2>3. /\ f[p] = Becomes(iterations, "loop", j)
        /\ g[p] = Becomes(iterations, "print", j)
        /\ g[c] = Becomes(iterations, "print", j)
    BY <1>1, <1>2, <1>7 DEF Family, j
  <2>4. f[p] = g[p] + g[c]
    BY <1>2, <2>3, BecomesSplit
  <2>5. \A q \in Pid : q # p /\ q # c => g[q] = f[q]
    BY <1>4
  <2>6. Doubled[iterations] \in Nat /\ Sums(f, Doubled[iterations])
    BY <1>1, <1>2, DoubledIs DEF LoopFamilies
  <2>7. Sums(g, Doubled[iterations])
    <3> HIDE DEF f, g
    <3> QED
      BY <1>2, <2>1, <2>2, <2>4, <2>5, <2>6, SumSplit
  <2> QED
    BY <1>3, <2>7, FamiliesNext
<1>10. ASSUME NEW x \in 1..iterations, LoopScreen(x)
       PROVE  LoopScreen(x)'
  <2> DEFINE f == [q \in Pid |-> Becomes(x, at[q], i[q])]
             g == [q \in Pid |-> Becomes(x, at'[q], i'[q])]
  <2>1. x \in 0..MaxProcs
    BY <1>2, RootIsPid
  <2>2. f \in [Pid -> Nat]
    BY <2>1, BecomesNat, ForkTyped
  <2>3. g \in [Pid -> Nat]
    BY <1>4, <2>1, BecomesNat
  <2>4. f[c] = 0
    BY <1>2 DEF Becomes
  <2>5. /\ f[p] = Becomes(x, "loop", j)
        /\ g[p] = Becomes(x, "print", j) /\ g[c] = Becomes(x, "print", j)
    BY <1>1, <1>2, <1>7 DEF j
  <2>6. f[p] = g[p] + g[c]
    BY <1>2, <2>1, <2>5, BecomesSplit
  <2>7. \A q \in Pid : q # p /\ q # c => g[q] = f[q]
    BY <1>4
  <2>8. PICK k \in Nat : Sums(f, k) /\ Printed(x - 1) + k = Doubled[x]
    BY <1>10 DEF LoopScreen
  <2>9. Sums(g, k)
    <3> HIDE DEF f, g
    <3> QED
      BY <1>2, <2>2, <2>3, <2>4, <2>6, <2>7, <2>8, SumSplit
  <2>10. Occurrences(screen', x - 1) + k = Doubled[x]
    BY <1>3, <2>8 DEF Printed
  <2> QED
    BY <2>9, <2>10, ScreenNext
<1>11. ASSUME NEW k \in 0..(iterations - 1), LoopBuffers(k)
       PROVE  LoopBuffers(k)'
  <2>1. {q \in Pid : at'[q] = "ended"} = {q \in Pid : at[q] = "ended"}
    BY <1>1, <1>2, <1>4
  <2>2. Occurrences(screen', k) = Cardinality({q \in Pid : at'[q] = "ended"})
    BY <1>3, <1>11, <2>1 DEF LoopBuffers, Printed
  <2>3. \A q \in 1..n : at[q] # "ended" =>
          Occurrences(out[q], k) = IF k < i[q] \/ at[q] = "exit" THEN 1 ELSE 0
    BY <1>11 DEF LoopBuffers, Holds, n, m
  <2>4. \A q \in 1..(n + 1) : at'[q] # "ended" =>
          Occurrences(out'[q], k) = IF k < i'[q] \/ at'[q] = "exit" THEN 1 ELSE 0
    <3>1. Occurrences(out[p], k) = IF k < j THEN 1 ELSE 0
      BY <1>1, <1>2, <2>3 DEF j
    <3> TAKE q \in 1..(n + 1)
    <3>2. CASE q = c \/ q = p
      <4>1. at'[q] = "print" /\ i'[q] = j /\ out'[q] = out[p]
        BY <1>2, <1>4, <1>7, <3>2
      <4> QED
        BY <3>1, <4>1
    <3>3. CASE q # c /\ q # p
      BY <1>4, <1>6, <2>3, <3>3
    <3> QED
      BY <3>2, <3>3
  <2> QED
    BY <1>3, <2>2, <2>4, BuffersNext
<1>12. tty => \A q \in Pid : out'[q] = <<>>
  BY <1>4 DEF LoopInv
<1> QED
  BY <1>3, <1>8, <1>9, <1>10, <1>11, <1>12 DEF LoopInv

(* Process p goes on with j times round the loop behind it. *)
LEMMA LoopPrint ==
  ASSUME ForkTypes, LoopInv, program = "forkloop", NEW p \in Pid, PrintLine(p)
  PROVE  LoopInv'
<1> DEFINE j == i[p]
           l == ItsLine(p)
<1>1. LoopPlaces /\ LoopFamilies
  BY DEF LoopInv
<1>2. at[p] = "print" /\ p \in 1..(made + 1) /\ j < iterations
  <2>1. at[p] \in {"print", "A", "B", "C", "D", "E"}
    BY DEF PrintLine
  <2>2. p \in 1..(made + 1)
    BY <1>1, <2>1, LoopWhere
  <2> QED
    BY <1>1, <2>1, <2>2 DEF LoopPlaces
<1>3. iterations \in 0..MaxProcs /\ j \in Nat /\ made \in Nat
  BY ForkTyped
<1>4. /\ at' = [at EXCEPT ![p] = "loop"]
      /\ IF tty THEN screen' = Append(screen, l) /\ out' = out
                ELSE out' = [out EXCEPT ![p] = Append(@, l)] /\ screen' = screen
      /\ i' = [i EXCEPT ![p] = j + 1]
      /\ UNCHANGED <<program, iterations, tty, parent, made>>
  <2>1. AfterPrint(p) = "loop"
    BY <1>2 DEF AfterPrint
  <2>2. i' = [i EXCEPT ![p] = @ + 1]
    BY <2>1 DEF PrintLine, CountOn
  <2> QED
    BY <2>1, <2>2 DEF PrintLine, ItsLine
<1>5. l \in Line /\ l.no = j
  BY ItsLineIsLine DEF ItsLine
<1> HIDE DEF j, l
<1>6. \A q \in Pid : /\ at'[q] = IF q = p THEN "loop" ELSE at[q]
                     /\ i'[q] = IF q = p THEN j + 1 ELSE i[q]
  BY <1>4, ForkTyped
<1>7. LoopPlaces' /\ LoopFamilies'
  <2>1. Family(iterations, "loop", j + 1) = Family(iterations, "print", j)
    <3>1. Family(iterations, "print", j) = Doubled[iterations - 1 - j]
      BY <1>2 DEF Family, Becomes
    <3>2. CASE j + 1 < iterations
      <4>1. iterations - (j + 1) = iterations - 1 - j
        BY <1>3
      <4> QED
        BY <3>1, <3>2, <4>1 DEF Family, Becomes
    <3>3. CASE ~(j + 1 < iterations)
      <4>1. iterations - 1 - j = 0
        BY <1>2, <1>3, <3>3
      <4> QED
        BY <3>1, <3>3, <4>1, DoubledIs DEF Family
    <3> QED
      BY <3>2, <3>3
  <2>2. /\ j + 1 \in 0..iterations /\ "loop" \in {"loop", "exit", "ended"}
        /\ at[p] # "none"
    BY <1>2, <1>3
  <2>3. Family(iterations, "loop", j + 1) = Family(iterations, at[p], i[p])
    BY <1>2, <2>1 DEF j
  <2> QED
    BY <1>1, <1>4, <2>2, <2>3, LoopMove
<1>8. ASSUME tty, NEW m \in 1..iterations, LoopScreen(m)
      PROVE  LoopScreen(m)'
  <2>1. m \in Nat /\ m > 0 /\ m <= MaxProcs
    BY <1>3, RootIsPid
  <2>2. Occurrences(screen', m - 1) = Occurrences(screen, m - 1) + (IF j = m - 1 THEN 1 ELSE 0)
        /\ Occurrences(screen, m - 1) \in Nat
    <3>1. screen' = Append(screen, l) /\ screen \in Seq(Line)
      BY <1>4, <1>8, ForkTyped
    <3>2. Occurrences(Append(screen, l), m - 1) = Occurrences(screen, m - 1) + (IF l.no = m - 1 THEN 1 ELSE 0)
      BY <1>5, <3>1, OccurrencesAppend
    <3> QED
      BY <1>5, <3>1, <3>2, OccurrencesNat
  <2>3. (IF j = m - 1 THEN 1 ELSE 0) + Becomes(m, "loop", j + 1) = Becomes(m, "print", j)
        /\ Becomes(m, "loop", j + 1) \in Nat
    <3>1. m \in 0..MaxProcs /\ j + 1 \in Nat
      BY <1>3, <2>1, RootIsPid
    <3>2. Becomes(m, "loop", j + 1) \in Nat
      BY <3>1, BecomesNat
    <3>3. CASE j = m - 1
      <4>1. Becomes(m, "loop", j + 1) = 0 /\ m - 1 - j = 0 /\ j < m
        <5>1. ~(j + 1 < m) /\ m - 1 - j = 0 /\ j < m
          BY <1>3, <2>1, <3>3
        <5> QED
          BY <5>1 DEF Becomes
      <4>2. Becomes(m, "print", j) = 1
        BY <4>1, DoubledIs DEF Becomes
      <4> QED
        BY <3>3, <4>1, <4>2
    <3>4. CASE j # m - 1
      <4>1. CASE j < m
        <5>1. j + 1 < m /\ m - (j + 1) = m - 1 - j
          BY <1>3, <2>1, <3>4, <4>1
        <5>2. Becomes(m, "loop", j + 1) = Becomes(m, "print", j)
          BY <4>1, <5>1 DEF Becomes
        <5> QED
          BY <3>2, <3>4, <5>2
      <4>2. CASE ~(j < m)
        <5>1. ~(j + 1 < m)
          BY <1>3, <2>1, <4>2
        <5>2. Becomes(m, "loop", j + 1) = 0 /\ Becomes(m, "print", j) = 0
          BY <4>2, <5>1 DEF Becomes
        <5> QED
          BY <3>4, <5>2
      <4> QED
        BY <4>1, <4>2
    <3> QED
      BY <3>2, <3>3, <3>4
  <2>4. at'[p] = "loop" /\ i'[p] = j + 1 /\ i'[p] \in Nat /\ at[p] = "print" /\ i[p] = j
    BY <1>2, <1>3, <1>6 DEF j
  <2>5. Occurrences(screen', m - 1) + Becomes(m, at'[p], i'[p])
          = Occurrences(screen, m - 1) + Becomes(m, at[p], i[p])
    BY <2>2, <2>3, <2>4
  <2>6. Occurrences(screen', m - 1) \in Nat
    BY <2>2
  <2> QED
    BY <1>6, <1>8, <2>4, <2>5, <2>6, ScreenMove
<1>9. ASSUME ~tty, NEW k \in 0..(iterations - 1), LoopBuffers(k)
      PROVE  LoopBuffers(k)'
  <2>1. {q \in Pid : at'[q] = "ended"} = {q \in Pid : at[q] = "ended"}
    BY <1>2, <1>6
  <2>2. Occurrences(screen', k) = Cardinality({q \in Pid : at'[q] = "ended"})
    BY <1>4, <1>9, <2>1 DEF LoopBuffers, Printed
  <2>3. \A q \in 1..(made + 1) : at[q] # "ended" =>
          Occurrences(out[q], k) = IF k < i[q] \/ at[q] = "exit" THEN 1 ELSE 0
    BY <1>9 DEF LoopBuffers, Holds
  <2>4. \A q \in 1..(made + 1) : at'[q] # "ended" =>
          Occurrences(out'[q], k) = IF k < i'[q] \/ at'[q] = "exit" THEN 1 ELSE 0
    <3> TAKE q \in 1..(made + 1)
    <3>0. q \in Pid
      BY <1>1, LoopWhere
    <3>1. CASE q = p
      <4>1. out'[p] = Append(out[p], l) /\ out[p] \in Seq(Line)
        BY <1>4, <1>9, ForkTyped
      <4>2. Occurrences(out'[p], k) = Occurrences(out[p], k) + (IF j = k THEN 1 ELSE 0)
        BY <1>5, <4>1, OccurrencesAppend
      <4>3. Occurrences(out[p], k) = IF k < j THEN 1 ELSE 0
        BY <1>2, <2>3 DEF j
      <4>4. at'[p] = "loop" /\ i'[p] = j + 1
        BY <1>6
      <4>5. (IF k < j THEN 1 ELSE 0) + (IF j = k THEN 1 ELSE 0) = IF k < j + 1 THEN 1 ELSE 0
        BY <1>3
      <4> QED
        BY <3>1, <4>2, <4>3, <4>4, <4>5
    <3>2. CASE q # p
      <4>1. out'[q] = out[q] /\ at'[q] = at[q] /\ i'[q] = i[q]
        BY <1>4, <1>6, <1>9, <3>0, <3>2, ForkTyped
      <4> QED
        BY <2>3, <4>1
    <3> QED
      BY <3>1, <3>2
  <2> QED
    BY <1>4, <2>2, <2>4, BuffersNext
<1>10. tty => \A q \in Pid : out'[q] = <<>>
  BY <1>4 DEF LoopInv
<1> QED
  BY <1>4, <1>7, <1>8, <1>9, <1>10 DEF LoopInv

(* A process that leaves the loop has printed its share. *)
LEMMA LoopLeaves ==
  ASSUME ForkTypes, LoopInv, program = "forkloop", NEW p \in Pid, LoopDone(p)
  PROVE  LoopInv'
<1> DEFINE j == i[p]
<1>1. LoopPlaces /\ LoopFamilies
  BY DEF LoopInv
<1>2. at[p] = "loop" /\ p \in 1..(made + 1) /\ j = iterations
  <2>1. at[p] = "loop" /\ j >= iterations
    BY DEF LoopDone
  <2>2. p \in 1..(made + 1)
    BY <1>1, <2>1, LoopWhere
  <2>3. j <= iterations /\ iterations \in Nat /\ j \in Nat
    BY <1>1, <2>2, ForkTyped DEF LoopPlaces
  <2> QED
    BY <2>1, <2>2, <2>3
<1>3. iterations \in 0..MaxProcs /\ j \in Nat /\ made \in Nat
  BY ForkTyped
<1>4. /\ at' = [at EXCEPT ![p] = "exit"] /\ i' = [i EXCEPT ![p] = j]
      /\ UNCHANGED <<program, iterations, tty, parent, i, out, made, screen>>
  <2>1. [i EXCEPT ![p] = j] = i
    BY DEF ForkTypes
  <2> HIDE DEF j
  <2> QED
    BY <2>1 DEF LoopDone
<1> HIDE DEF j
<1>5. \A q \in Pid : at'[q] = IF q = p THEN "exit" ELSE at[q]
  BY <1>4, ForkTyped
<1>6. LoopPlaces' /\ LoopFamilies'
  <2>1. Family(iterations, "exit", j) = Family(iterations, at[p], i[p])
    BY <1>2, <1>3 DEF Family, j
  <2>2. j \in 0..iterations /\ "exit" \in {"loop", "exit", "ended"} /\ at[p] # "none"
    BY <1>2, <1>3
  <2> QED
    BY <1>1, <1>4, <2>1, <2>2, LoopMove
<1>7. ASSUME NEW m \in 1..iterations, LoopScreen(m)
      PROVE  LoopScreen(m)'
  <2>1. ~(j < m) /\ m \in Nat
    BY <1>2, <1>3
  <2>2. Becomes(m, at'[p], i'[p]) = 0 /\ Becomes(m, at[p], i[p]) = 0
    BY <1>2, <1>4, <1>5, <2>1 DEF Becomes, j
  <2>3. Occurrences(screen', m - 1) \in Nat /\ i'[p] \in Nat
    BY <1>4, ForkTyped, OccurrencesNat
  <2> QED
    BY <1>4, <1>5, <1>7, <2>2, <2>3, ScreenMove
<1>8. ASSUME NEW k \in 0..(iterations - 1), LoopBuffers(k)
      PROVE  LoopBuffers(k)'
  <2>1. {q \in Pid : at'[q] = "ended"} = {q \in Pid : at[q] = "ended"}
    BY <1>2, <1>5
  <2>2. Occurrences(screen', k) = Cardinality({q \in Pid : at'[q] = "ended"})
    BY <1>4, <1>8, <2>1 DEF LoopBuffers, Printed
  <2>3. \A q \in 1..(made + 1) : at[q] # "ended" =>
          Occurrences(out[q], k) = IF k < i[q] \/ at[q] = "exit" THEN 1 ELSE 0
    BY <1>8 DEF LoopBuffers, Holds
  <2>4. \A q \in 1..(made + 1) : at'[q] # "ended" =>
          Occurrences(out'[q], k) = IF k < i'[q] \/ at'[q] = "exit" THEN 1 ELSE 0
    <3> TAKE q \in 1..(made + 1)
    <3>0. q \in Pid
      BY <1>1, LoopWhere
    <3>1. CASE q = p
      <4>1. k < j
        BY <1>2, <1>3
      <4>2. Occurrences(out[p], k) = 1
        BY <1>2, <2>3, <4>1 DEF j
      <4>3. at'[p] = "exit"
        BY <1>5
      <4> QED
        BY <1>4, <3>1, <4>2, <4>3
    <3>2. CASE q # p
      <4>1. at'[q] = at[q]
        BY <1>5, <3>0, <3>2
      <4> QED
        BY <1>4, <2>3, <4>1
    <3> QED
      BY <3>1, <3>2
  <2> QED
    BY <1>4, <2>2, <2>4, BuffersNext
<1> QED
  BY <1>4, <1>6, <1>7, <1>8 DEF LoopInv

(* A process that ends writes each line that it holds once. *)
LEMMA LoopExit ==
  ASSUME ForkTypes, LoopInv, program = "forkloop", NEW p \in Pid, Exit(p)
  PROVE  LoopInv'
<1> DEFINE j == i[p]
<1>1. LoopPlaces /\ LoopFamilies
  BY DEF LoopInv
<1>2. at[p] = "exit" /\ p \in 1..(made + 1) /\ j <= iterations
  <2>1. at[p] = "exit"
    BY DEF Exit
  <2>2. p \in 1..(made + 1)
    BY <1>1, <2>1, LoopWhere
  <2> QED
    BY <1>1, <2>1, <2>2 DEF LoopPlaces
<1>3. iterations \in 0..MaxProcs /\ j \in Nat /\ made \in Nat
  BY ForkTyped
<1>4. /\ at' = [at EXCEPT ![p] = "ended"] /\ i' = [i EXCEPT ![p] = j]
      /\ screen' = screen \o out[p] /\ out' = [out EXCEPT ![p] = <<>>]
      /\ UNCHANGED <<program, iterations, tty, parent, i, made>>
  <2>1. [i EXCEPT ![p] = j] = i
    BY DEF ForkTypes
  <2> HIDE DEF j
  <2> QED
    BY <2>1 DEF Exit
<1> HIDE DEF j
<1>5. \A q \in Pid : /\ at'[q] = IF q = p THEN "ended" ELSE at[q]
                     /\ out'[q] = IF q = p THEN <<>> ELSE out[q]
  BY <1>4, ForkTyped
<1>6. LoopPlaces' /\ LoopFamilies'
  <2>1. Family(iterations, "ended", j) = Family(iterations, at[p], i[p])
    BY <1>2, <1>3 DEF Family, j
  <2>2. j \in 0..iterations /\ "ended" \in {"loop", "exit", "ended"} /\ at[p] # "none"
    BY <1>2, <1>3
  <2> QED
    BY <1>1, <1>4, <2>1, <2>2, LoopMove
<1>7. ASSUME tty, NEW m \in 1..iterations, LoopScreen(m)
      PROVE  LoopScreen(m)'
  <2>1. screen' = screen
    BY <1>4, <1>7, ForkTyped, ConcatEmptySeq DEF LoopInv
  <2>2. Becomes(m, at'[p], i'[p]) = 0 /\ Becomes(m, at[p], i[p]) = 0
    BY <1>2, <1>5 DEF Becomes
  <2>3. Occurrences(screen', m - 1) \in Nat /\ i'[p] \in Nat
    BY <1>4, <2>1, ForkTyped, OccurrencesNat
  <2> QED
    BY <1>4, <1>5, <1>7, <2>1, <2>2, <2>3, ScreenMove
<1>8. ASSUME ~tty, NEW k \in 0..(iterations - 1), LoopBuffers(k)
      PROVE  LoopBuffers(k)'
  <2> DEFINE E == {q \in Pid : at[q] = "ended"}
  <2>1. {q \in Pid : at'[q] = "ended"} = E \cup {p}
    BY <1>5
  <2>2. IsFiniteSet(E) /\ p \notin E
    <3>1. IsFiniteSet(Pid) /\ E \subseteq Pid
      BY RootIsPid, FS_Interval DEF Pid
    <3>2. IsFiniteSet(E)
      BY <3>1, FS_Subset
    <3> QED
      BY <1>2, <3>2
  <2>3. Cardinality(E \cup {p}) = Cardinality(E) + 1
    <3> HIDE DEF E
    <3> QED
      BY <2>2, FS_AddElement
  <2>4. Occurrences(screen, k) = Cardinality(E)
    BY <1>8 DEF LoopBuffers, Printed
  <2>5. \A q \in 1..(made + 1) : at[q] # "ended" =>
          Occurrences(out[q], k) = IF k < i[q] \/ at[q] = "exit" THEN 1 ELSE 0
    BY <1>8 DEF LoopBuffers, Holds
  <2>6. Occurrences(out[p], k) = 1
    BY <1>2, <2>5
  <2>7. Occurrences(screen', k) = Cardinality({q \in Pid : at'[q] = "ended"})
    <3>1. Occurrences(screen \o out[p], k) = Occurrences(screen, k) + Occurrences(out[p], k)
      BY ForkTyped, OccurrencesConcat
    <3> HIDE DEF E
    <3> QED
      BY <1>4, <2>1, <2>3, <2>4, <2>6, <3>1
  <2>8. \A q \in 1..(made + 1) : at'[q] # "ended" =>
          Occurrences(out'[q], k) = IF k < i'[q] \/ at'[q] = "exit" THEN 1 ELSE 0
    <3> TAKE q \in 1..(made + 1)
    <3>0. q \in Pid
      BY <1>1, LoopWhere
    <3>1. CASE q = p
      BY <1>5, <3>1
    <3>2. CASE q # p
      <4>1. at'[q] = at[q] /\ out'[q] = out[q]
        BY <1>5, <3>0, <3>2
      <4> QED
        BY <1>4, <2>5, <4>1
    <3> QED
      BY <3>1, <3>2
  <2> QED
    BY <1>4, <2>7, <2>8, BuffersNext
<1>9. tty => \A q \in Pid : out'[q] = <<>>
  BY <1>5 DEF LoopInv
<1> QED
  BY <1>4, <1>6, <1>7, <1>8, <1>9 DEF LoopInv

(* Every step of forkloop keeps the sums. *)
LEMMA LoopStep ==
  ASSUME ForkTypes, LoopInv, program = "forkloop", NEW p \in Pid, ForkStep(p),
         forkfaults' = 0
  PROVE  LoopInv'
<1>1. ~ForkFails(p)
  BY DEF ForkFails, ForkTypes
<1>2. ~Wait(p)
  <2>1. at[p] = "wait" => p \in 1..(made + 1) /\ at[p] \in {"loop", "print", "exit", "ended"}
    BY LoopWhere DEF LoopInv
  <2> QED
    BY <2>1 DEF Wait
<1> QED
  BY <1>1, <1>2, LoopFork, LoopPrint, LoopLeaves, LoopExit DEF ForkStep

(* What forkloop has printed when all have ended. *)
LEMMA LoopOutput ==
  ASSUME ForkTypes, LoopInv, program = "forkloop", AllEnded, NEW k \in 0..(iterations - 1)
  PROVE  Printed(k) = Doubled[IF tty THEN k + 1 ELSE iterations]
<1>1. /\ iterations \in 0..MaxProcs /\ k \in Nat
      /\ k + 1 \in 1..iterations /\ (k + 1) - 1 = k
  BY ForkTyped
<1>2. \A p \in Pid : at[p] \in {"none", "ended"}
  <2> TAKE p \in Pid
  <2>1. at[p] # "none" => at[p] \in {"loop", "print", "exit", "ended"}
    BY LoopWhere DEF LoopInv
  <2> QED
    BY <2>1 DEF AllEnded, Ended
<1>3. CASE tty
  <2>1. PICK n \in Nat : /\ Sums([p \in Pid |-> Becomes(k + 1, at[p], i[p])], n)
                         /\ Printed((k + 1) - 1) + n = Doubled[k + 1]
    BY <1>1, <1>3 DEF LoopInv, LoopScreen
  <2>2. [p \in Pid |-> Becomes(k + 1, at[p], i[p])] = [p \in Pid |-> 0]
    BY <1>2 DEF Becomes
  <2>3. n = 0
    BY <2>1, <2>2, SumZero DEF Sums
  <2>4. Printed(k) \in Nat
    BY ForkTyped, OccurrencesNat DEF Printed
  <2> QED
    BY <1>1, <1>3, <2>1, <2>3, <2>4
<1>4. CASE ~tty
  <2> DEFINE E == {p \in Pid : at[p] = "ended"}
             f == [p \in Pid |-> Family(iterations, at[p], i[p])]
  <2>1. Printed(k) = Cardinality(E)
    BY <1>4 DEF LoopInv, LoopBuffers
  <2>2. Cardinality(Units(f)) = Doubled[iterations]
    BY DEF LoopInv, LoopFamilies, Sums
  <2>3. Units(f) = E \X {1}
    <3>1. \A p \in Pid : f[p] = IF p \in E THEN 1 ELSE 0
      BY <1>2 DEF Family
    <3>2. \A z \in 1..1 : z = 1
      OBVIOUS
    <3>3. \A z \in 1..0 : FALSE
      OBVIOUS
    <3>4. E \subseteq Pid
      OBVIOUS
    <3> HIDE DEF E, f
    <3> QED
      BY <3>1, <3>2, <3>3, <3>4 DEF Units
  <2>4. IsFiniteSet(E)
    <3>1. IsFiniteSet(Pid) /\ E \subseteq Pid
      BY RootIsPid, FS_Interval DEF Pid
    <3> QED
      BY <3>1, FS_Subset
  <2>5. Cardinality(E \X {1}) = Cardinality(E)
    <3> HIDE DEF E
    <3> QED
      BY <2>4, Row
  <2> HIDE DEF E, f
  <2> QED
    BY <1>4, <2>1, <2>2, <2>3, <2>5
<1> QED
  BY <1>3, <1>4

(* The count after a step. *)
LEMMA CountNext ==
  ASSUME NEW l,
         Occurrences(screen', l) + (Occurrences(out'[Root], l) + ToCome(Root, at'[Root], made', l))
             + (Occurrences(out'[2], l) + ToCome(2, at'[2], made', l))
           = SimpleTotal(tty', at'[Root], made', l)
  PROVE  SimpleCount(l)'
BY DEF SimpleCount, Printed, Occurrences, ToCome, ToGo, SimpleTotal, Root

(* It prints a letter once more or not at all. *)
LEMMA ToComeNat ==
  ASSUME NEW p, NEW x, NEW m, NEW l
  PROVE  ToCome(p, x, m, l) \in Nat
BY DEF ToCome

(* simplefork starts with A to come. *)
LEMMA SimpleStart ==
  ASSUME ForkTypes, ForkStart, program' = "simplefork"
  PROVE  SimpleInv'
<1>1. /\ at' = [at EXCEPT ![Root] = "A"] /\ iterations' = 1 /\ tty' \in BOOLEAN
      /\ UNCHANGED <<parent, i, out, made, screen, forkfaults>> /\ program = "none"
  BY RootIsPid DEF ForkStart
<1>2. /\ at = [p \in Pid |-> "none"] /\ i = [p \in Pid |-> 0]
      /\ out = [p \in Pid |-> <<>>]
      /\ made = 0 /\ screen = <<>>
  BY <1>1 DEF ForkTypes, Untouched
<1>3. /\ \A p \in Pid : at'[p] = (IF p = Root THEN "A" ELSE "none") /\ i'[p] = 0 /\ out'[p] = <<>>
      /\ made' = 0 /\ screen' = <<>>
  BY <1>1, <1>2, RootIsPid
<1>4. /\ at'[Root] = "A" /\ at'[2] = "none" /\ i'[Root] = 0
      /\ out'[Root] = <<>> /\ out'[2] = <<>>
      /\ \A p \in Pid : p > 2 => at'[p] = "none"
  BY <1>3, RootIsPid DEF Root, Pid
<1>5. SimplePlaces'
  BY <1>1, <1>3, <1>4 DEF SimplePlaces, Root
<1>6. ASSUME NEW l \in Letters
      PROVE  SimpleCount(l)'
  <2>1. /\ Occurrences(screen', l) = 0 /\ Occurrences(out'[Root], l) = 0
        /\ Occurrences(out'[2], l) = 0
    BY <1>3, <1>4, OccurrencesEmpty
  <2>2. 0 + (0 + ToCome(Root, "A", 0, l)) + (0 + ToCome(2, "none", 0, l)) = SimpleTotal(tty', "A", 0, l)
    <3>1. /\ ToCome(2, "none", 0, l) = 0
          /\ ToCome(Root, "A", 0, l) = IF l = "A" THEN 1 ELSE 0
      BY DEF ToCome, ToGo
    <3>2. SimpleTotal(tty', "A", 0, l) = IF l = "A" THEN 1 ELSE 0
      BY <1>1 DEF SimpleTotal, Letters
    <3> QED
      BY <3>1, <3>2
  <2> QED
    BY <1>3, <1>4, <2>1, <2>2, CountNext
<1> QED
  BY <1>5, <1>6 DEF SimpleInv, Letters

(* Who is where in simplefork. *)
LEMMA SimpleWhere ==
  ASSUME ForkTypes, SimplePlaces, NEW p \in Pid, at[p] # "none"
  PROVE  /\ p = Root \/ (p = 2 /\ p # Root /\ made = 1)
         /\ p = Root => at[p] \in {"A", "loop", "B", "D", "E", "exit", "ended"}
         /\ p # Root => at[p] \in {"B", "C", "E", "exit", "ended"}
<1>1. p \in Nat /\ ~(p > 2) /\ p >= 1
  BY DEF SimplePlaces, Pid
<1>2. p = Root \/ p = 2
  BY <1>1 DEF Root
<1> QED
  BY <1>2 DEF SimplePlaces, Root

(* The numbers that are counted. *)
LEMMA SimpleNat ==
  ASSUME ForkTypes, NEW l
  PROVE  /\ Occurrences(screen, l) \in Nat /\ Occurrences(out[Root], l) \in Nat
         /\ Occurrences(out[2], l) \in Nat
BY ForkTyped, OccurrencesNat, RootIsPid

(* Root forks. *)
LEMMA SimpleFork ==
  ASSUME ForkTypes, SimpleInv, program = "simplefork", NEW p \in Pid, Fork(p)
  PROVE  SimpleInv'
<1>1. SimplePlaces /\ at[p] = "loop"
  BY DEF Fork, SimpleInv
<1>2. p = Root
  BY <1>1, SimpleWhere
<1>3. /\ made = 0 /\ at[2] = "none" /\ out[2] = <<>>
      /\ (~tty => screen = <<>>) /\ i[Root] = 0 /\ iterations = 1
  BY <1>1, <1>2 DEF SimplePlaces
<1>4. /\ at' = [at EXCEPT ![Root] = "B", ![2] = "B"] /\ i' = [i EXCEPT ![2] = i[Root]]
      /\ out' = [out EXCEPT ![2] = out[Root]] /\ made' = 1
      /\ UNCHANGED <<program, iterations, tty, screen, forkfaults>>
  <2>1. ParentAfterFork = "B" /\ ChildAfterFork = "B"
    BY DEF ParentAfterFork, ChildAfterFork
  <2>2. made + 2 = 2 /\ made + 1 = 1
    BY <1>3
  <2> QED
    BY <1>2, <2>1, <2>2 DEF Fork, Inherited
<1>5. /\ at'[Root] = "B" /\ at'[2] = "B"
      /\ out'[Root] = out[Root] /\ out'[2] = out[Root]
      /\ i'[Root] = 0
      /\ \A q \in Pid : q > 2 => at'[q] = at[q]
  BY <1>3, <1>4, ForkTyped, RootIsPid DEF Root, Pid
<1>6. SimplePlaces'
  <2>1. tty => out[Root] = <<>>
    BY <1>1 DEF SimplePlaces
  <2>2. \A q \in Pid : q > 2 => at[q] = "none"
    BY <1>1 DEF SimplePlaces
  <2>3. /\ ~(at'[Root] \in {"A", "loop", "D", "E", "ended"}) /\ at'[2] # "ended"
        /\ made' # 0
    BY <1>4, <1>5
  <2>4. \A q \in Pid : q > 2 => at'[q] = "none"
    BY <1>5, <2>2
  <2>5. tty' => out'[Root] = <<>> /\ out'[2] = <<>>
    BY <1>4, <1>5, <2>1
  <2>6. \A q \in {Root, 2} : at'[q] = "ended" => out'[q] = <<>>
    BY <2>3
  <2>7. made' \in {0, 1} /\ i'[Root] = 0 /\ iterations' = 1
    BY <1>3, <1>4, <1>5
  <2> QED
    BY <1>5, <2>3, <2>4, <2>5, <2>6, <2>7 DEF SimplePlaces, Root
<1>7. ASSUME NEW l \in Letters
      PROVE  SimpleCount(l)'
  <2> DEFINE a == Occurrences(screen, l)
             b == Occurrences(out[Root], l)
  <2>1. a \in Nat /\ b \in Nat
    BY SimpleNat
  <2>2. a + b = SimpleTotal(tty, "loop", 0, l)
    <3>1. a + (b + ToCome(Root, "loop", 0, l)) + (Occurrences(<<>>, l) + ToCome(2, "none", 0, l))
            = SimpleTotal(tty, "loop", 0, l)
      BY <1>1, <1>2, <1>3, Zenon DEF SimpleInv, SimpleCount, Printed
    <3>2. /\ ToCome(Root, "loop", 0, l) = 0 /\ ToCome(2, "none", 0, l) = 0
          /\ Occurrences(<<>>, l) = 0
      BY OccurrencesEmpty DEF ToCome, ToGo
    <3> HIDE DEF a, b
    <3> QED
      BY <2>1, <3>1, <3>2
  <2>3. l = "A" => (tty => b = 0) /\ (~tty => a = 0)
    <3>1. tty => out[Root] = <<>>
      BY <1>1 DEF SimplePlaces
    <3> QED
      BY <1>3, <3>1, OccurrencesEmpty
  <2>4. a + (b + ToCome(Root, "B", 1, l)) + (b + ToCome(2, "B", 1, l)) = SimpleTotal(tty, "B", 1, l)
    <3> HIDE DEF a, b
    <3>1. ToCome(Root, "B", 1, l) = IF l \in {"B", "D", "E"} THEN 1 ELSE 0
      BY DEF ToCome, ToGo, Root
    <3>2. ToCome(2, "B", 1, l) = IF l \in {"B", "C", "E"} THEN 1 ELSE 0
      BY DEF ToCome, ToGo, Root
    <3>3. CASE l = "A"
      <4>1. a + b = 1 /\ SimpleTotal(tty, "B", 1, l) = IF tty THEN 1 ELSE 2
        BY <2>2, <3>3 DEF SimpleTotal
      <4>2. ToCome(Root, "B", 1, l) = 0 /\ ToCome(2, "B", 1, l) = 0
        BY <3>1, <3>2, <3>3
      <4> QED
        BY <2>1, <2>3, <3>3, <4>1, <4>2
    <3>4. CASE l # "A"
      <4>1. a + b = 0
        BY <2>2, <3>4 DEF SimpleTotal, Letters
      <4>2. a = 0 /\ b = 0
        BY <2>1, <4>1
      <4>3. ToCome(Root, "B", 1, l) + ToCome(2, "B", 1, l) = SimpleTotal(tty, "B", 1, l)
        BY <3>1, <3>2, <3>4 DEF SimpleTotal, Letters
      <4> QED
        BY <4>2, <4>3, ToComeNat
    <3> QED
      BY <3>3, <3>4
  <2> HIDE DEF a, b
  <2>5. /\ Occurrences(screen', l) = a /\ Occurrences(out'[Root], l) = b
        /\ Occurrences(out'[2], l) = b
    BY <1>4, <1>5 DEF a, b
  <2> QED
    BY <1>4, <1>5, <2>4, <2>5, CountNext
<1> QED
  BY <1>6, <1>7 DEF SimpleInv, Letters

(* Root goes on alone. *)
LEMMA SimpleForkFails ==
  ASSUME ForkTypes, SimpleInv, program = "simplefork", NEW p \in Pid, ForkFails(p)
  PROVE  SimpleInv'
<1>1. SimplePlaces /\ at[p] = "loop"
  BY DEF ForkFails, SimpleInv
<1>2. p = Root
  BY <1>1, SimpleWhere
<1>3. made = 0 /\ at[2] = "none"
  BY <1>1, <1>2 DEF SimplePlaces
<1>4. /\ at' = [at EXCEPT ![Root] = "B"]
      /\ UNCHANGED <<program, iterations, tty, parent, i, out, made, screen>>
  BY <1>2 DEF ForkFails
<1>5. /\ at'[Root] = "B" /\ at'[2] = "none" /\ \A q \in Pid : q > 2 => at'[q] = at[q]
  BY <1>3, <1>4, ForkTyped, RootIsPid DEF Root, Pid
<1>6. SimplePlaces'
  BY <1>1, <1>3, <1>4, <1>5 DEF SimplePlaces, Root
<1>7. ASSUME NEW l \in Letters
      PROVE  SimpleCount(l)'
  <2> DEFINE a == Occurrences(screen, l)
             b == Occurrences(out[Root], l)
             c == Occurrences(out[2], l)
  <2>1. a \in Nat /\ b \in Nat /\ c \in Nat
    BY SimpleNat
  <2>2. a + (b + ToCome(Root, "loop", 0, l)) + (c + ToCome(2, "none", 0, l))
          = SimpleTotal(tty, "loop", 0, l)
    BY <1>1, <1>2, <1>3, Zenon DEF SimpleInv, SimpleCount, Printed
  <2> HIDE DEF a, b, c
  <2>3. ToCome(Root, "loop", 0, l) = 0 /\ ToCome(2, "none", 0, l) = 0
        /\ ToCome(Root, "B", 0, l) = IF l = "B" THEN 1 ELSE 0
    BY DEF ToCome, ToGo
  <2>4. SimpleTotal(tty, "B", 0, l) = SimpleTotal(tty, "loop", 0, l) + IF l = "B" THEN 1 ELSE 0
    BY DEF SimpleTotal, Letters
  <2>5. a + (b + ToCome(Root, "B", 0, l)) + (c + ToCome(2, "none", 0, l)) = SimpleTotal(tty, "B", 0, l)
    BY <2>1, <2>2, <2>3, <2>4
  <2>6. /\ Occurrences(screen', l) = a /\ Occurrences(out'[Root], l) = b
        /\ Occurrences(out'[2], l) = c
    BY <1>4 DEF a, b, c
  <2> QED
    BY <1>3, <1>4, <1>5, <2>5, <2>6, CountNext
<1> QED
  BY <1>6, <1>7 DEF SimpleInv, Letters

(* A line printed is one line less to come. *)
LEMMA ToComeLess ==
  ASSUME NEW p, NEW x \in Letters, NEW m, NEW l, NEW y,
         y = CASE x = "A" -> "loop"
               [] x = "B" -> IF m = 0 THEN "exit" ELSE IF p = Root THEN "D" ELSE "C"
               [] x \in {"C", "D"} -> "E"
               [] x = "E" -> "exit"
  PROVE  ToCome(p, x, m, l) = ToCome(p, y, m, l) + IF x = l THEN 1 ELSE 0
<1>1. CASE x = "A"
  BY <1>1 DEF ToCome, ToGo
<1>2. CASE x = "B" /\ m = 0
  BY <1>2 DEF ToCome, ToGo
<1>3. CASE x = "B" /\ m # 0
  BY <1>3 DEF ToCome, ToGo
<1>4. CASE x \in {"C", "D"}
  BY <1>4 DEF ToCome, ToGo
<1>5. CASE x = "E"
  BY <1>5 DEF ToCome, ToGo
<1> QED
  BY <1>1, <1>2, <1>3, <1>4, <1>5 DEF Letters

(* What is printed no longer is to come. *)
LEMMA SimplePrint ==
  ASSUME ForkTypes, SimpleInv, program = "simplefork", NEW p \in Pid, PrintLine(p)
  PROVE  SimpleInv'
<1> DEFINE x == at[p]
           y == AfterPrint(p)
           l == ItsLine(p)
<1>1. SimplePlaces
  BY DEF SimpleInv
<1>2. /\ x \in Letters
      /\ p = Root \/ (p = 2 /\ p # Root /\ made = 1)
      /\ p = Root => x \in {"A", "B", "D", "E"}
      /\ p # Root => x \in {"B", "C", "E"}
  <2>1. x \in {"print", "A", "B", "C", "D", "E"}
    BY DEF PrintLine
  <2> QED
    BY <1>1, <2>1, SimpleWhere DEF Letters
<1>3. y = CASE x = "A" -> "loop"
            [] x = "B" -> IF made = 0 THEN "exit" ELSE IF p = Root THEN "D" ELSE "C"
            [] x \in {"C", "D"} -> "E"
            [] x = "E" -> "exit"
  BY <1>2 DEF AfterPrint, Letters
<1>4. /\ IF tty THEN screen' = Append(screen, l) /\ out' = out
                ELSE out' = [out EXCEPT ![p] = Append(@, l)] /\ screen' = screen
      /\ at' = [at EXCEPT ![p] = y] /\ i' = i
      /\ UNCHANGED <<program, iterations, tty, parent, made>>
  <2>1. i' = [i EXCEPT ![p] = @] /\ i \in [Pid -> Nat]
    BY DEF PrintLine, CountOn, ForkTypes
  <2>2. i' = i
    BY <2>1
  <2> HIDE DEF y
  <2> QED
    BY <2>2 DEF PrintLine, ItsLine, y
<1>5. l \in Line /\ l.no = x
  BY <1>2, ItsLineIsLine DEF ItsLine, Letters
<1> HIDE DEF y, l
<1>6. \A q \in Pid : /\ at'[q] = IF q = p THEN y ELSE at[q]
                     /\ out'[q] = IF q = p /\ ~tty THEN Append(out[p], l) ELSE out[q]
  BY <1>4, ForkTyped
<1>7. y \notin {"none", "ended", "A", "B"} /\ y \in {"loop", "C", "D", "E", "exit"}
  BY <1>2, <1>3 DEF Letters
<1>8. SimplePlaces'
  <2>1. /\ made \in {0, 1} /\ i[Root] = 0 /\ iterations = 1
        /\ at[Root] \in {"A", "loop", "B", "D", "E", "exit", "ended"}
        /\ at[Root] \in {"A", "loop"} => made = 0 /\ (~tty => screen = <<>>)
        /\ at[Root] \in {"D", "E"} => made = 1
        /\ made = 0 => at[2] = "none" /\ out[2] = <<>>
        /\ made # 0 => at[2] \in {"B", "C", "E", "exit", "ended"}
        /\ \A q \in Pid : q > 2 => at[q] = "none"
        /\ tty => out[Root] = <<>> /\ out[2] = <<>>
        /\ \A q \in {Root, 2} : at[q] = "ended" => out[q] = <<>>
    BY <1>1 DEF SimplePlaces
  <2>2. \A q \in Pid : q > 2 => at'[q] = "none"
    <3>1. ~(p > 2)
      BY <1>2 DEF Root
    <3> QED
      BY <1>6, <2>1, <3>1
  <2>3. tty' => out'[Root] = <<>> /\ out'[2] = <<>>
    BY <1>4, <1>6, <2>1, RootIsPid
  <2>4. \A q \in {Root, 2} : at'[q] = "ended" => out'[q] = <<>>
    <3> TAKE q \in {Root, 2}
    <3>1. CASE q = p
      BY <1>6, <1>7, <3>1
    <3>2. CASE q # p
      BY <1>6, <2>1, <3>2, RootIsPid
    <3> QED
      BY <3>1, <3>2
  <2>5. CASE p = Root
    <3>1. at'[Root] = y /\ at'[2] = at[2] /\ out'[2] = out[2]
      BY <1>6, <2>5, RootIsPid DEF Root
    <3>2. at'[Root] \in {"loop", "D", "E", "exit"}
      BY <1>2, <1>3, <2>5, <3>1
    <3>3. at'[Root] = "loop" => made = 0 /\ (~tty => screen' = <<>>)
      BY <1>2, <1>3, <1>4, <2>1, <2>5, <3>1
    <3>4. at'[Root] \in {"D", "E"} => made = 1
      BY <1>2, <1>3, <2>1, <2>5, <3>1
    <3> QED
      BY <1>4, <2>1, <2>2, <2>3, <2>4, <3>1, <3>2, <3>3, <3>4 DEF SimplePlaces
  <2>6. CASE p # Root
    <3>1. p = 2 /\ made = 1 /\ at'[Root] = at[Root] /\ at'[2] = y
      BY <1>2, <1>6, <2>6, RootIsPid
    <3>2. y \in {"C", "E", "exit"}
      BY <1>2, <1>3, <2>6
    <3>3. at[Root] \notin {"A", "loop"}
      BY <2>1, <3>1
    <3> QED
      BY <1>4, <2>1, <2>2, <2>3, <2>4, <3>1, <3>2, <3>3 DEF SimplePlaces
  <2> QED
    BY <2>5, <2>6
<1>9. ASSUME NEW k \in Letters
      PROVE  SimpleCount(k)'
  <2> DEFINE a == Occurrences(screen, k)
             b == Occurrences(out[Root], k)
             c == Occurrences(out[2], k)
             d == IF x = k THEN 1 ELSE 0
  <2>1. a \in Nat /\ b \in Nat /\ c \in Nat
    BY SimpleNat
  <2>2. a + (b + ToCome(Root, at[Root], made, k)) + (c + ToCome(2, at[2], made, k))
          = SimpleTotal(tty, at[Root], made, k)
    BY Zenon DEF SimpleInv, SimpleCount, Printed
  <2>3. ToCome(p, x, made, k) = ToCome(p, y, made, k) + d
    BY <1>2, <1>3, ToComeLess
  <2>4. /\ Occurrences(Append(screen, l), k) = a + d
        /\ Occurrences(Append(out[p], l), k) = Occurrences(out[p], k) + d
    BY <1>5, ForkTyped, OccurrencesAppend
  <2>5. made' = made /\ tty' = tty
    BY <1>4
  <2>6. SimpleTotal(tty, at'[Root], made, k) = SimpleTotal(tty, at[Root], made, k)
    <3>1. at'[Root] \in {"A", "loop"} <=> at[Root] \in {"A", "loop"}
      BY <1>2, <1>3, <1>6, RootIsPid
    <3> QED
      BY <3>1 DEF SimpleTotal
  <2>7. d \in {0, 1}
    OBVIOUS
  <2>8. CASE p = Root
    <3>1. at'[Root] = y /\ at'[2] = at[2] /\ x = at[Root]
      BY <1>6, <2>8, RootIsPid DEF Root
    <3>2. CASE tty
      <4>1. /\ Occurrences(screen', k) = a + d /\ Occurrences(out'[Root], k) = b
            /\ Occurrences(out'[2], k) = c
        BY <1>4, <2>4, <3>2
      <4> HIDE DEF a, b, c, d, x
      <4>2. (a + d) + (b + ToCome(Root, y, made, k)) + (c + ToCome(2, at[2], made, k))
              = SimpleTotal(tty, at[Root], made, k)
        BY <2>1, <2>2, <2>3, <2>7, <2>8, <3>1, ToComeNat
      <4> QED
        BY <2>5, <2>6, <3>1, <4>1, <4>2, CountNext
    <3>3. CASE ~tty
      <4>1. /\ Occurrences(screen', k) = a /\ Occurrences(out'[Root], k) = b + d
            /\ Occurrences(out'[2], k) = c
        BY <1>4, <1>6, <2>4, <2>8, <3>3, RootIsPid DEF Root
      <4> HIDE DEF a, b, c, d, x
      <4>2. a + ((b + d) + ToCome(Root, y, made, k)) + (c + ToCome(2, at[2], made, k))
              = SimpleTotal(tty, at[Root], made, k)
        BY <2>1, <2>2, <2>3, <2>7, <2>8, <3>1, ToComeNat
      <4> QED
        BY <2>5, <2>6, <3>1, <4>1, <4>2, CountNext
    <3> QED
      BY <3>2, <3>3
  <2>9. CASE p # Root
    <3>1. p = 2 /\ at'[Root] = at[Root] /\ at'[2] = y /\ x = at[2]
      BY <1>2, <1>6, <2>9, RootIsPid
    <3>2. CASE tty
      <4>1. /\ Occurrences(screen', k) = a + d /\ Occurrences(out'[Root], k) = b
            /\ Occurrences(out'[2], k) = c
        BY <1>4, <2>4, <3>2
      <4> HIDE DEF a, b, c, d, x
      <4>2. (a + d) + (b + ToCome(Root, at[Root], made, k)) + (c + ToCome(2, y, made, k))
              = SimpleTotal(tty, at[Root], made, k)
        BY <2>1, <2>2, <2>3, <2>7, <3>1, ToComeNat
      <4> QED
        BY <2>5, <2>6, <3>1, <4>1, <4>2, CountNext
    <3>3. CASE ~tty
      <4>1. /\ Occurrences(screen', k) = a /\ Occurrences(out'[Root], k) = b
            /\ Occurrences(out'[2], k) = c + d
        BY <1>4, <1>6, <2>4, <2>9, <3>1, <3>3, RootIsPid
      <4> HIDE DEF a, b, c, d, x
      <4>2. a + (b + ToCome(Root, at[Root], made, k)) + ((c + d) + ToCome(2, y, made, k))
              = SimpleTotal(tty, at[Root], made, k)
        BY <2>1, <2>2, <2>3, <2>7, <3>1, ToComeNat
      <4> QED
        BY <2>5, <2>6, <3>1, <4>1, <4>2, CountNext
    <3> QED
      BY <3>2, <3>3
  <2> QED
    BY <2>8, <2>9
<1> QED
  BY <1>8, <1>9 DEF SimpleInv, Letters

(* A process ends and what is in its buffer comes out. *)
LEMMA SimpleExit ==
  ASSUME ForkTypes, SimpleInv, program = "simplefork", NEW p \in Pid, Exit(p)
  PROVE  SimpleInv'
<1>1. SimplePlaces /\ at[p] = "exit"
  BY DEF Exit, SimpleInv
<1>2. p = Root \/ (p = 2 /\ p # Root /\ made = 1)
  BY <1>1, SimpleWhere
<1>3. /\ at' = [at EXCEPT ![p] = "ended"] /\ screen' = screen \o out[p]
      /\ out' = [out EXCEPT ![p] = <<>>]
      /\ UNCHANGED <<program, iterations, tty, parent, i, made>>
  BY DEF Exit
<1>4. \A q \in Pid : /\ at'[q] = IF q = p THEN "ended" ELSE at[q]
                     /\ out'[q] = IF q = p THEN <<>> ELSE out[q]
  BY <1>3, ForkTyped
<1>5. SimplePlaces'
  <2>1. /\ made \in {0, 1} /\ i[Root] = 0 /\ iterations = 1
        /\ at[Root] \in {"A", "loop", "B", "D", "E", "exit", "ended"}
        /\ at[Root] \in {"A", "loop"} => made = 0
        /\ at[Root] \in {"D", "E"} => made = 1
        /\ made = 0 => at[2] = "none" /\ out[2] = <<>>
        /\ made # 0 => at[2] \in {"B", "C", "E", "exit", "ended"}
        /\ \A q \in Pid : q > 2 => at[q] = "none"
        /\ tty => out[Root] = <<>> /\ out[2] = <<>>
        /\ \A q \in {Root, 2} : at[q] = "ended" => out[q] = <<>>
    BY <1>1 DEF SimplePlaces
  <2>2. \A q \in Pid : q > 2 => at'[q] = "none"
    <3>1. ~(p > 2)
      BY <1>2 DEF Root
    <3> QED
      BY <1>4, <2>1, <3>1
  <2>3. tty' => out'[Root] = <<>> /\ out'[2] = <<>>
    BY <1>3, <1>4, <2>1, RootIsPid
  <2>4. \A q \in {Root, 2} : at'[q] = "ended" => out'[q] = <<>>
    BY <1>4, <2>1, RootIsPid
  <2>5. CASE p = Root
    <3>1. at'[Root] = "ended" /\ at'[2] = at[2] /\ out'[2] = out[2]
      BY <1>4, <2>5, RootIsPid DEF Root
    <3> QED
      BY <1>3, <2>1, <2>2, <2>3, <2>4, <3>1 DEF SimplePlaces
  <2>6. CASE p # Root
    <3>1. p = 2 /\ made = 1 /\ at'[Root] = at[Root] /\ at'[2] = "ended"
      BY <1>2, <1>4, <2>6, RootIsPid
    <3>2. at[Root] \notin {"A", "loop"}
      BY <2>1, <3>1
    <3> QED
      BY <1>3, <2>1, <2>2, <2>3, <2>4, <3>1, <3>2 DEF SimplePlaces
  <2> QED
    BY <2>5, <2>6
<1>6. ASSUME NEW k \in Letters
      PROVE  SimpleCount(k)'
  <2> DEFINE a == Occurrences(screen, k)
             b == Occurrences(out[Root], k)
             c == Occurrences(out[2], k)
  <2>1. a \in Nat /\ b \in Nat /\ c \in Nat
    BY SimpleNat
  <2>2. a + (b + ToCome(Root, at[Root], made, k)) + (c + ToCome(2, at[2], made, k))
          = SimpleTotal(tty, at[Root], made, k)
    BY Zenon DEF SimpleInv, SimpleCount, Printed
  <2>3. \A q : ToCome(q, "exit", made, k) = 0 /\ ToCome(q, "ended", made, k) = 0
    BY DEF ToCome, ToGo
  <2>4. /\ Occurrences(screen', k) = a + Occurrences(out[p], k)
        /\ Occurrences(out'[p], k) = 0
    BY <1>3, <1>4, ForkTyped, OccurrencesConcat, OccurrencesEmpty
  <2>5. made' = made /\ tty' = tty
    BY <1>3
  <2>6. SimpleTotal(tty, at'[Root], made, k) = SimpleTotal(tty, at[Root], made, k)
    <3>1. at'[Root] \in {"A", "loop"} <=> at[Root] \in {"A", "loop"}
      BY <1>1, <1>4, RootIsPid
    <3> QED
      BY <3>1 DEF SimpleTotal
  <2>7. CASE p = Root
    <3>1. at'[Root] = "ended" /\ at'[2] = at[2] /\ at[Root] = "exit" /\ out'[2] = out[2]
      BY <1>1, <1>4, <2>7, RootIsPid DEF Root
    <3>2. /\ Occurrences(screen', k) = a + b /\ Occurrences(out'[Root], k) = 0
          /\ Occurrences(out'[2], k) = c
      BY <2>4, <2>7, <3>1
    <3> HIDE DEF a, b, c
    <3>3. (a + b) + (0 + ToCome(Root, "ended", made, k)) + (c + ToCome(2, at[2], made, k))
            = SimpleTotal(tty, at[Root], made, k)
      BY <2>1, <2>2, <2>3, <3>1, ToComeNat
    <3> QED
      BY <2>5, <2>6, <3>1, <3>2, <3>3, CountNext
  <2>8. CASE p # Root
    <3>1. /\ p = 2 /\ at'[Root] = at[Root] /\ at'[2] = "ended"
          /\ at[2] = "exit" /\ out'[Root] = out[Root]
      BY <1>1, <1>2, <1>4, <2>8, RootIsPid
    <3>2. /\ Occurrences(screen', k) = a + c /\ Occurrences(out'[Root], k) = b
          /\ Occurrences(out'[2], k) = 0
      BY <2>4, <3>1
    <3> HIDE DEF a, b, c
    <3>3. (a + c) + (b + ToCome(Root, at[Root], made, k)) + (0 + ToCome(2, "ended", made, k))
            = SimpleTotal(tty, at[Root], made, k)
      BY <2>1, <2>2, <2>3, <3>1, ToComeNat
    <3> QED
      BY <2>5, <2>6, <3>1, <3>2, <3>3, CountNext
  <2> QED
    BY <2>7, <2>8
<1> QED
  BY <1>5, <1>6 DEF SimpleInv, Letters

(* Every step of simplefork keeps the counts. *)
LEMMA SimpleStep ==
  ASSUME ForkTypes, SimpleInv, program = "simplefork", NEW p \in Pid, ForkStep(p)
  PROVE  SimpleInv' /\ at[p] # "print"
<1>1. SimplePlaces
  BY DEF SimpleInv
<1>2. at[p] \notin {"none", "ended", "reaped"}
  BY DEF ForkStep, Fork, ForkFails, LoopDone, PrintLine, Wait, Exit
<1>3. at[p] \notin {"print", "wait"}
  BY <1>1, <1>2, SimpleWhere
<1>4. ~Wait(p)
  BY <1>3 DEF Wait
<1>5. ~LoopDone(p)
  <2>1. at[p] = "loop" => p = Root
    BY <1>1, SimpleWhere
  <2>2. i[Root] = 0 /\ iterations = 1
    BY <1>1 DEF SimplePlaces
  <2> QED
    BY <2>1, <2>2 DEF LoopDone
<1>6. SimpleInv'
  BY <1>4, <1>5, SimpleFork, SimpleForkFails, SimplePrint, SimpleExit DEF ForkStep
<1> QED
  BY <1>3, <1>6

(* What simplefork has printed when both have ended. *)
LEMMA SimpleOutput ==
  ASSUME ForkTypes, SimpleInv, program = "simplefork", AllEnded
  PROVE  SimpleForkOutput
<1>1. SimplePlaces
  BY DEF SimpleInv
<1>2. /\ at[Root] = "ended" /\ out[Root] = <<>>
      /\ out[2] = <<>> /\ at[2] \in {"none", "ended"}
  <2>1. at[Root] = "ended"
    BY <1>1, RootIsPid DEF AllEnded, Ended, SimplePlaces
  <2>2. at[2] \in {"none", "ended"}
    BY <1>1, RootIsPid DEF AllEnded, Ended, SimplePlaces
  <2>3. at[2] = "none" => out[2] = <<>>
    BY <1>1 DEF SimplePlaces
  <2> QED
    BY <1>1, <2>1, <2>2, <2>3 DEF SimplePlaces
<1>3. ASSUME NEW l \in Letters
      PROVE  Printed(l) = SimpleTotal(tty, "ended", made, l)
  <2>1. Printed(l) + (Occurrences(<<>>, l) + ToCome(Root, "ended", made, l))
          + (Occurrences(<<>>, l) + ToCome(2, at[2], made, l)) = SimpleTotal(tty, "ended", made, l)
    BY <1>2, Zenon DEF SimpleInv, SimpleCount
  <2>2. /\ ToCome(Root, "ended", made, l) = 0 /\ ToCome(2, at[2], made, l) = 0
        /\ Occurrences(<<>>, l) = 0
    BY <1>2, OccurrencesEmpty DEF ToCome, ToGo
  <2>3. Printed(l) \in Nat
    BY SimpleNat DEF Printed
  <2> QED
    BY <2>1, <2>2, <2>3
<1>4. Letters = {"A", "B", "C", "D", "E"}
  BY DEF Letters
<1>5. /\ Printed("A") = SimpleTotal(tty, "ended", made, "A")
      /\ Printed("B") = SimpleTotal(tty, "ended", made, "B")
      /\ Printed("C") = SimpleTotal(tty, "ended", made, "C")
      /\ Printed("D") = SimpleTotal(tty, "ended", made, "D")
      /\ Printed("E") = SimpleTotal(tty, "ended", made, "E")
  BY <1>3, <1>4
<1> QED
  BY <1>5 DEF SimpleForkOutput, SimpleTotal

(* Every step of childcreates keeps the chain and its lines. *)
LEMMA ChildStep ==
  ASSUME ForkTypes, ChildInv, program = "childcreates", NEW p \in Pid, ForkStep(p)
  PROVE  ChildInv'
BY ChildFork, ChildLeaves, ChildPrint, ChildWait, ChildExit DEF ForkStep

(* The four programs together. *)
LEMMA ForkInitInv == ForkInit => ForkInv
<1> SUFFICES ASSUME ForkInit PROVE ForkInv
  OBVIOUS
<1>1. program = "none" /\ iterations = 0 /\ tty = FALSE /\ Untouched
  BY DEF ForkInit, Untouched
<1>2. ForkTypes
  <2>1. MaxProcs \in Nat
    BY ForkAssumption
  <2>2. \A p \in Pid : Outside \in 0..MaxProcs /\ parent[p] = Outside
    BY <1>1, <2>1 DEF Untouched, Outside
  <2>3. parent \in [Pid -> 0..MaxProcs] /\ parent[Root] = Outside
    <3>1. parent = [p \in Pid |-> Outside] /\ Root \in Pid
      BY <1>1, ForkAssumption DEF Untouched, Root, Pid
    <3> QED
      BY <2>2, <3>1
  <2>4. /\ i \in [Pid -> Nat] /\ out \in [Pid -> Seq(Line)] /\ screen \in Seq(Line)
        /\ at \in [Pid -> {"none", "A", "B", "C", "D", "E", "loop", "print", "wait", "exit",
                           "ended", "reaped"}]
        /\ made \in Nat /\ forkfaults \in Nat
    BY <1>1 DEF Untouched
  <2>5. iterations \in 0..MaxProcs
    BY <1>1, <2>1
  <2> QED
    BY <1>1, <2>3, <2>4, <2>5 DEF ForkTypes
<1> QED
  BY <1>1, <1>2 DEF ForkInv

(* A step of another program of the shell changes nothing here. *)
LEMMA ForkSame == ForkInv /\ UNCHANGED forkVars => ForkInv'
<1> SUFFICES ASSUME ForkInv, UNCHANGED forkVars PROVE ForkInv'
  OBVIOUS
<1> USE DEF forkVars
<1>1. ForkTypes'
  BY DEF ForkInv, ForkTypes, Untouched, Needs, Doubled
<1>2. (program = "parentcreates" => ParentInv)'
  BY DEF ForkInv, ParentInv, RootLines, FromRoot
<1>3. (program = "childcreates" => ChildInv)'
  <2>1. ChildChain => ChildChain'
    BY DEF ChildChain
  <2>2. ChildLines => ChildLines'
    BY DEF ChildLines, HeldBy, HaveEnded, Ended, LastLines, FromLast, Deepest
  <2> QED
    BY <2>1, <2>2 DEF ForkInv, ChildInv
<1>4. (program = "forkloop" /\ forkfaults = 0 => LoopInv)'
  <2>1. LoopPlaces => LoopPlaces'
    BY DEF LoopPlaces
  <2>2. LoopFamilies => LoopFamilies'
    BY DEF LoopFamilies, Sums, Units, Family, Becomes, Doubled
  <2>3. \A m : LoopScreen(m) => LoopScreen(m)'
    BY DEF LoopScreen, Sums, Units, Becomes, Printed, Occurrences, Doubled
  <2>4. \A k : LoopBuffers(k) => LoopBuffers(k)'
    BY DEF LoopBuffers, Holds, Printed, Occurrences
  <2> QED
    BY <2>1, <2>2, <2>3, <2>4 DEF ForkInv, LoopInv
<1>5. (program = "simplefork" => SimpleInv)'
  <2>1. SimplePlaces => SimplePlaces'
    BY DEF SimplePlaces
  <2>2. \A l : SimpleCount(l) => SimpleCount(l)'
    BY DEF SimpleCount, Printed, Occurrences, ToCome, ToGo, SimpleTotal
  <2> QED
    BY <2>1, <2>2 DEF ForkInv, SimpleInv, Letters
<1> QED
  BY <1>1, <1>2, <1>3, <1>4, <1>5 DEF ForkInv

(* The inductive invariant of the four programs. *)
LEMMA ForkNextInv == ForkInv /\ [ForkNext]_forkVars => ForkInv'
<1> SUFFICES ASSUME ForkInv, [ForkNext]_forkVars PROVE ForkInv'
  OBVIOUS
<1>1. CASE UNCHANGED forkVars
  BY <1>1, ForkSame
<1>2. CASE ForkStart
  <2>1. ForkTypes'
    BY <1>2, ForkTypesStart DEF ForkInv
  <2> QED
    BY <1>2, <2>1, ParentStart, ChildStart, LoopStart, SimpleStart DEF ForkInv
<1>3. ASSUME NEW p \in Pid, ForkStep(p)
      PROVE  ForkInv'
  <2>1. ForkTypes /\ program # "none" /\ program' = program
    BY <1>3, Running DEF ForkInv
  <2>2. program = "simplefork" => SimpleInv' /\ at[p] # "print"
    BY <1>3, SimpleStep DEF ForkInv
  <2>3. ForkTypes'
    BY <1>3, <2>1, <2>2, ForkTypesStep
  <2>4. forkfaults' = 0 => forkfaults = 0
    <3>1. forkfaults' = forkfaults \/ forkfaults' = forkfaults + 1
      BY <1>3 DEF ForkStep, Fork, ForkFails, LoopDone, PrintLine, Wait, Exit
    <3>2. forkfaults \in Nat
      BY <2>1 DEF ForkTypes
    <3> QED
      BY <3>1, <3>2
  <2>5. program = "parentcreates" => ParentInv'
    BY <1>3, <2>1, ParentStep DEF ForkInv
  <2>6. program = "childcreates" => ChildInv'
    BY <1>3, <2>1, ChildStep DEF ForkInv
  <2>7. program = "forkloop" /\ forkfaults' = 0 => LoopInv'
    BY <1>3, <2>1, <2>4, LoopStep DEF ForkInv
  <2> QED
    BY <2>1, <2>2, <2>3, <2>5, <2>6, <2>7 DEF ForkInv
<1> QED
  BY <1>1, <1>2, <1>3 DEF ForkNext

(* When all have ended, what is on the screen follows. *)
LEMMA OutputFollows == ForkInv => OutputDetermined
<1> SUFFICES ASSUME ForkInv, AllEnded PROVE OutputDetermined
  BY DEF OutputDetermined
<1>1. ForkTypes /\ program # "none"
  BY DEF ForkInv, AllEnded
<1>2. program \in {"simplefork", "forkloop", "parentcreates", "childcreates"}
  BY <1>1 DEF ForkTypes
<1>3. CASE program = "parentcreates"
  BY <1>1, <1>3, ParentOutput DEF ForkInv, OutputDetermined
<1>4. CASE program = "childcreates"
  BY <1>1, <1>4, ChildOutput DEF ForkInv, OutputDetermined
<1>5. CASE program = "forkloop"
  <2>1. ForkLoopOutput
    BY <1>1, <1>5, LoopOutput DEF ForkInv, ForkLoopOutput
  <2> QED
    BY <1>5, <2>1 DEF OutputDetermined
<1>6. CASE program = "simplefork"
  BY <1>1, <1>6, SimpleOutput DEF ForkInv, OutputDetermined
<1> QED
  BY <1>2, <1>3, <1>4, <1>5, <1>6

(* lab7: when every process of a program has ended, what is on the screen  *)
(* does not depend on how they were scheduled.  parentcreates.c prints its *)
(* children in order; childcreates.c those of the chain in order, and into *)
(* a pipe each process writes the lines it inherited and its own, the last *)
(* one first; simplefork.c each letter as often as its fork left processes *)
(* to print it; forkloop.c, if no fork fails, line k 2^(k + 1) times on a  *)
(* terminal and 2^iterations times into a pipe.                            *)
THEOREM OutputIsDetermined == Spec => []OutputDetermined
<1>1. Init => ForkInv
  BY ForkInitInv DEF Init
<1>2. ForkInv /\ [Next]_vars => ForkInv'
  BY OneProgram, ForkNextInv
<1> QED
  BY <1>1, <1>2, OutputFollows, PTL DEF Spec
=============================================================================
