-------------------------- MODULE BufServerProofs ---------------------------
(***************************************************************************)
(* Proofs about BufServer, for every set of clients, every stream, every   *)
(* size of the buffer and every way the bytes are cut into pieces.         *)
(***************************************************************************)
EXTENDS BufServer, LeastElements, FiniteSetTheorems, TLAPS

Ends(s) == Lines!LineEnds(s)
UpTo(s, p) == {e \in Ends(s) : e <= p}

(* Line ends in the first m bytes of the buffer. *)
Found(m) == {k \in Index : k < m - 1 /\ buf[k] = CR /\ buf[k + 1] = LF}

(* What precedes the buffer in the stream of the client that is served. *)
Past == taken - inbuf

-----------------------------------------------------------------------------
(* The inductive invariant, IInv. *)

(* The variables read uses are up to date, and no line is waiting, when    *)
(* the server reads.                                                       *)
ReadInv == pc = "read" => /\ after = inbuf /\ room = BUFSIZE - inbuf
                          /\ Found(inbuf) = {}

(* The buffer holds the last bytes taken from the stream, and begins where *)
(* the last line printed ends.                                             *)
BufferInv ==
  pc # "accept" =>
    /\ inbuf <= taken /\ taken <= current_byte[fd]
    /\ \A k \in Index : k < inbuf => buf[k] = stream[fd][Past + k + 1]
    /\ Past = 0 \/ Past \in Ends(stream[fd])
    /\ Cardinality(UpTo(stream[fd], Past)) = Len(printed[fd])

(* A client is away, then waits in the queue, once, then is served, then   *)
(* done with; lines are only printed for the one that is served.           *)
TurnInv ==
  /\ \A c \in Client : peer[c] = "away" =>
       c # fd /\ c \notin served /\ printed[c] = <<>>
  /\ \A k \in DOMAIN queue :
       /\ queue[k] # fd /\ queue[k] \notin served
       /\ peer[queue[k]] # "away" /\ printed[queue[k]] = <<>>
       /\ \A l \in DOMAIN queue : queue[l] = queue[k] => l = k
  /\ fd \notin served

(* A client that has been served got all its lines, but for the excuses    *)
(* of NoLineLeftBehind, and nothing more can come from it.                 *)
DoneInv ==
  \A c \in served :
    \/ peer[c] = "reset"
    \/ TooLong(c)
    \/ peer[c] = "closed" /\ Len(printed[c]) = Cardinality(Ends(Sent(c)))

IInv == BufTypeOK /\ ReadInv /\ BufferInv /\ TurnInv /\ DoneInv

-----------------------------------------------------------------------------
(* Positions in a stream. *)

LEMMA EndsType ==
  ASSUME NEW s \in Seq(Byte)
  PROVE  /\ Ends(s) \subseteq 2..Len(s) /\ IsFiniteSet(Ends(s))
         /\ \A e \in Ends(s) : s[e - 1] = CR /\ s[e] = LF
         /\ \A p : IsFiniteSet(UpTo(s, p)) /\ Cardinality(UpTo(s, p)) \in Nat
<1>1. Ends(s) \subseteq 2..Len(s) /\ \A e \in Ends(s) : s[e - 1] = CR /\ s[e] = LF
  BY DEF Ends, Lines!LineEnds, Lines!CR, Lines!LF, CR, LF
<1>2. IsFiniteSet(2..Len(s))
  BY FS_Interval
<1>3. IsFiniteSet(Ends(s))
  BY <1>1, <1>2, FS_Subset
<1>4. ASSUME NEW p PROVE IsFiniteSet(UpTo(s, p)) /\ Cardinality(UpTo(s, p)) \in Nat
  <2>1. IsFiniteSet(UpTo(s, p))
    BY <1>3, FS_Subset DEF UpTo
  <2> QED
    BY <2>1, FS_CardinalityType
<1> QED
  BY <1>1, <1>3, <1>4

(* Two line ends with as many line ends before them are the same. *)
LEMMA RankUnique ==
  ASSUME NEW s \in Seq(Byte), NEW a \in Ends(s), NEW b \in Ends(s),
         Cardinality(UpTo(s, a)) = Cardinality(UpTo(s, b))
  PROVE  a = b
<1>1. a \in Int /\ b \in Int
  BY EndsType
<1>2. ASSUME NEW x \in Ends(s), NEW y \in Ends(s), x < y,
             Cardinality(UpTo(s, x)) = Cardinality(UpTo(s, y))
      PROVE  FALSE
  <2>1. UpTo(s, x) \in SUBSET UpTo(s, y)
    BY <1>2, EndsType DEF UpTo
  <2>2. UpTo(s, x) = UpTo(s, y)
    BY <1>2, <2>1, EndsType, FS_Subset
  <2>3. y \in UpTo(s, y) /\ y \notin UpTo(s, x)
    BY <1>2, EndsType DEF UpTo
  <2> QED
    BY <2>2, <2>3
<1> QED
  BY <1>1, <1>2

(* LineStream counts as this module does. *)
LEMMA SameCardinality == \A S : Lines!Cardinality(S) = Cardinality(S)
BY Zenon DEF Cardinality, Lines!Cardinality

(* LineEnd finds the end of a line, given how many lines end there. *)
LEMMA LineEndIs ==
  ASSUME NEW s \in Seq(Byte), NEW p \in Nat, p = 0 \/ p \in Ends(s)
  PROVE  Lines!LineEnd(s, Cardinality(UpTo(s, p))) = p
<1> DEFINE m == Cardinality(UpTo(s, p))
<1>1. CASE p = 0
  <2>1. UpTo(s, p) = {}
    BY <1>1, EndsType DEF UpTo
  <2> QED
    BY <1>1, <2>1, FS_EmptySet DEF Lines!LineEnd
<1>2. CASE p \in Ends(s)
  <2>1. p \in UpTo(s, p)
    BY <1>2, EndsType DEF UpTo
  <2>2. m # 0
    BY <2>1, EndsType, FS_EmptySet
  <2>3. \A k \in Ends(s) : Cardinality(UpTo(s, k)) = m => k = p
    BY <1>2, RankUnique
  <2>4. Lines!LineEnd(s, m) = CHOOSE k \in Ends(s) : Cardinality(UpTo(s, k)) = m
    <3> HIDE DEF m
    <3> QED
      BY <2>2, SameCardinality, Zenon DEF Lines!LineEnd, Ends, UpTo
  <2> QED
    BY <1>2, <2>3, <2>4
<1> QED
  BY <1>1, <1>2

(* The line end after p, and how many there are up to it. *)
LEMMA NextEnd ==
  ASSUME NEW s \in Seq(Byte), NEW p \in Nat, NEW q \in Ends(s), p < q,
         \A e \in Ends(s) : p < e => q <= e
  PROVE  /\ UpTo(s, q) = UpTo(s, p) \cup {q}
         /\ Cardinality(UpTo(s, q)) = Cardinality(UpTo(s, p)) + 1
         /\ Cardinality(UpTo(s, q)) <= Cardinality(Ends(s))
<1>1. UpTo(s, q) = UpTo(s, p) \cup {q} /\ q \notin UpTo(s, p)
  BY EndsType DEF UpTo
<1>2. Cardinality(UpTo(s, q)) = Cardinality(UpTo(s, p)) + 1
  BY <1>1, EndsType, FS_AddElement
<1>3. Cardinality(UpTo(s, q)) <= Cardinality(Ends(s))
  BY EndsType, FS_Subset DEF UpTo
<1> QED
  BY <1>1, <1>2, <1>3

-----------------------------------------------------------------------------
(* Positions in the buffer. *)

(* PastFirst finds the first of a set, if there is a first. *)
LEMMA PastFirstIs ==
  ASSUME NEW S \in SUBSET Nat
  PROVE  /\ S = {} => PastFirst(S) = -1
         /\ \A k \in S : (\A l \in S : k <= l) => PastFirst(S) = k + 2
<1>1. ASSUME NEW k \in S, \A l \in S : k <= l
      PROVE  PastFirst(S) = k + 2
  <2>1. \A j \in S : (\A l \in S : j <= l) => j = k
    BY <1>1
  <2>2. (CHOOSE j \in S : \A l \in S : j <= l) = k
    BY <1>1, <2>1
  <2>3. PastFirst(S) = 2 + k
    BY <2>2, Zenon DEF PastFirst
  <2> QED
    BY <2>3
<1> QED
  BY <1>1 DEF PastFirst

(* find_network_newline finds the first line end of the buffer. *)
LEMMA NewlineIs ==
  ASSUME BufTypeOK
  PROVE  /\ Found(inbuf) = {} => find_network_newline(inbuf) = -1
         /\ Found(inbuf) # {} =>
              \E k \in Found(inbuf) : /\ \A l \in Found(inbuf) : k <= l
                                      /\ find_network_newline(inbuf) = k + 2
         /\ find_network_newline(inbuf) > 0 <=> Found(inbuf) # {}
<1>1. Found(inbuf) \in SUBSET Nat /\ find_network_newline(inbuf) = PastFirst(Found(inbuf))
  BY BufAssumption DEF Found, Index, find_network_newline
<1>2. Found(inbuf) = {} => find_network_newline(inbuf) = -1
  BY <1>1, PastFirstIs
<1>3. ASSUME Found(inbuf) # {}
      PROVE  \E k \in Found(inbuf) : /\ \A l \in Found(inbuf) : k <= l
                                     /\ find_network_newline(inbuf) = k + 2
  <2>1. PICK k \in Found(inbuf) : \A l \in Found(inbuf) : k <= l
    BY <1>1, <1>3, LeastElement
  <2> QED
    BY <1>1, <2>1, PastFirstIs
<1> QED
  BY <1>1, <1>2, <1>3

(* printf prints what precedes the first NUL. *)
LEMMA CStringIs ==
  ASSUME NEW b, NEW len \in Index, b[len] = NUL, \A k \in 0..(len - 1) : b[k] # NUL
  PROVE  CString(b) = [k \in 1..len |-> b[k - 1]]
<1>1. Index \subseteq Nat
  BY BufAssumption DEF Index
<1>2. ASSUME NEW l \in Index, b[l] = NUL, \A k \in 0..(l - 1) : b[k] # NUL
      PROVE  l = len
  <2>1. ~(l < len) /\ ~(len < l)
    BY <1>1, <1>2
  <2> QED
    BY <1>1, <2>1
<1>3. (CHOOSE l \in Index : b[l] = NUL /\ \A k \in 0..(l - 1) : b[k] # NUL) = len
  BY <1>2
<1> QED
  BY <1>3, Zenon DEF CString

(* What the type of the variables says of the client that is served. *)
LEMMA ServedType ==
  ASSUME BufTypeOK, BufferInv, pc # "accept"
  PROVE  /\ fd \in Client /\ stream[fd] \in Seq(Byte)
         /\ current_byte[fd] \in Nat /\ current_byte[fd] <= Len(stream[fd])
         /\ inbuf \in Nat /\ inbuf <= BUFSIZE /\ taken \in Nat /\ Past \in Nat
         /\ taken = Past + inbuf /\ taken <= Len(stream[fd])
         /\ Len(stream[fd]) \in Nat
<1>1. fd \in Client /\ stream[fd] \in Seq(Byte)
  BY BufAssumption DEF BufTypeOK
<1>2. Len(stream[fd]) \in Nat
  BY <1>1
<1>3. /\ inbuf \in Nat /\ inbuf <= BUFSIZE /\ taken \in Nat
      /\ current_byte[fd] \in Nat /\ current_byte[fd] <= Len(stream[fd])
      /\ inbuf <= taken /\ taken <= current_byte[fd]
  BY <1>1, BufAssumption DEF BufTypeOK, BufferInv
<1> QED
  BY <1>1, <1>2, <1>3 DEF Past

(* A line end of the stream within the buffer is one of the buffer. *)
LEMMA EndInBuffer ==
  ASSUME BufTypeOK, BufferInv, pc # "accept",
         NEW e \in Ends(stream[fd]), Past < e, e <= taken
  PROVE  e - 2 - Past \in Found(inbuf)
<1> DEFINE s == stream[fd]
           k == e - 2 - Past
<1>1. e \in Int /\ e >= 2 /\ s[e - 1] = CR /\ s[e] = LF
  BY ServedType, EndsType
<1>2. e # Past + 1
  <2>1. SUFFICES ASSUME e = Past + 1 PROVE FALSE
    OBVIOUS
  <2>2. Past \in Ends(s) /\ e - 1 = Past
    BY <1>1, <2>1, ServedType DEF BufferInv
  <2>3. s[Past] = LF
    BY <2>2, ServedType, EndsType
  <2> QED
    BY <1>1, <2>2, <2>3 DEF CR, LF
<1>3. k \in Nat /\ k + 1 < inbuf /\ k + 1 \in Index /\ k \in Index
  <2>1. /\ Past \in Nat /\ inbuf \in Nat /\ inbuf <= BUFSIZE /\ BUFSIZE \in Nat
        /\ taken = Past + inbuf /\ e \in Int /\ Past + 1 < e /\ e <= taken
    BY <1>1, <1>2, ServedType, BufAssumption
  <2>2. k \in Nat /\ k + 1 < inbuf
    BY <2>1
  <2> QED
    BY <2>1, <2>2 DEF Index
<1>4. buf[k] = s[Past + k + 1] /\ buf[k + 1] = s[Past + (k + 1) + 1]
  BY <1>3, ServedType DEF BufferInv
<1>5. Past + k + 1 = e - 1 /\ Past + (k + 1) + 1 = e
  BY <1>1, ServedType
<1>6. buf[k] = CR /\ buf[k + 1] = LF
  BY <1>1, <1>4, <1>5
<1> QED
  BY <1>3, <1>6, ServedType DEF Found

(* If the buffer holds no line end, no line ends between its bounds. *)
LEMMA NothingFound ==
  ASSUME BufTypeOK, BufferInv, pc # "accept", Found(inbuf) = {}
  PROVE  UpTo(stream[fd], taken) = UpTo(stream[fd], Past)
<1>1. ASSUME NEW e \in Ends(stream[fd]) PROVE e <= taken <=> e <= Past
  <2>1. ~(Past < e /\ e <= taken)
    BY EndInBuffer
  <2>2. e \in Int
    BY ServedType, EndsType
  <2> QED
    BY <2>1, <2>2, ServedType
<1> QED
  BY <1>1 DEF UpTo

-----------------------------------------------------------------------------
(* PrintLine: the line that is printed is the next one of the stream, and  *)
(* what follows it moves to the beginning of the buffer.                   *)

NewPast == Past + find_network_newline(inbuf)

LEMMA PrintLineFacts ==
  ASSUME BufTypeOK, BufferInv, PrintLine
  PROVE  /\ pc = "scan" /\ UNCHANGED <<clients, queue, pc, fd, taken, room, after, served>>
         /\ NewPast \in Ends(stream[fd]) /\ Past < NewPast
         /\ \A e \in Ends(stream[fd]) : Past < e => NewPast <= e
         /\ printed' = [printed EXCEPT ![fd] =
                          Append(@, SubSeq(stream[fd], Past + 1, NewPast - 2))]
         /\ SubSeq(stream[fd], Past + 1, NewPast - 2) \in Seq(Byte)
         /\ inbuf' \in Nat /\ inbuf' <= inbuf /\ Past' = NewPast
         /\ buf' \in [Index -> Byte \cup {NUL}]
         /\ \A k \in Index : k < inbuf' => buf'[k] = stream[fd][NewPast + k + 1]
<1> DEFINE s == stream[fd]
           where == find_network_newline(inbuf)
           ended == [buf EXCEPT ![where - 2] = NUL]
<1>1. /\ pc = "scan" /\ where > 0
      /\ UNCHANGED <<clients, queue, pc, fd, taken, room, after, served>>
      /\ printed' = [printed EXCEPT ![fd] = Append(@, CString(ended))]
      /\ buf' = [k \in Index |-> IF k < inbuf - where THEN ended[k + where] ELSE ended[k]]
      /\ inbuf' = inbuf - where
  BY DEF PrintLine, TakeLine
<1>2. PICK f \in Found(inbuf) : (\A l \in Found(inbuf) : f <= l) /\ where = f + 2
  BY <1>1, NewlineIs
<1>3. /\ s \in Seq(Byte) /\ Past \in Nat /\ inbuf \in Nat /\ inbuf <= BUFSIZE
      /\ taken = Past + inbuf /\ taken <= Len(s) /\ Len(s) \in Nat
  BY <1>1, ServedType
<1>4. /\ f \in Nat /\ f \in Index /\ f + 1 \in Index /\ f + 1 < inbuf
      /\ buf[f] = CR /\ buf[f + 1] = LF
  BY <1>2, <1>3, BufAssumption DEF Found, Index
<1>5. buf \in [Index -> Byte \cup {NUL}]
  BY DEF BufTypeOK
<1>6. \A k \in Index : k < inbuf => buf[k] = s[Past + k + 1]
  BY <1>1 DEF BufferInv
<1> HIDE DEF where
<1>7. NewPast = Past + f + 2 /\ NewPast \in 2..Len(s) /\ NewPast <= taken
  BY <1>2, <1>3, <1>4 DEF NewPast, where
<1>8. NewPast \in Ends(s)
  <2>1. s[Past + f + 1] = CR /\ s[Past + (f + 1) + 1] = LF
    BY <1>3, <1>4, <1>6
  <2>2. Past + f + 1 = NewPast - 1 /\ Past + (f + 1) + 1 = NewPast
    BY <1>3, <1>4, <1>7
  <2>3. s[NewPast - 1] = CR /\ s[NewPast] = LF
    BY <2>1, <2>2
  <2> QED
    BY <1>7, <2>3 DEF Ends, Lines!LineEnds, Lines!CR, Lines!LF, CR, LF
<1>9. ASSUME NEW e \in Ends(s), Past < e PROVE NewPast <= e
  <2>1. SUFFICES ASSUME e < NewPast PROVE FALSE
    BY <1>3, <1>7, EndsType
  <2>2. e \in Int /\ e <= taken
    BY <1>3, <1>7, <2>1, EndsType
  <2>3. e - 2 - Past \in Found(inbuf)
    BY <1>1, <1>9, <2>2, EndInBuffer
  <2> QED
    BY <1>2, <1>3, <1>4, <1>7, <2>1, <2>2, <2>3
<1>10. CString(ended) = [k \in 1..f |-> ended[k - 1]]
  <2>1. \A k \in 0..(f - 1) : k \in Index /\ k < inbuf /\ Past + k + 1 \in 1..Len(s)
    BY <1>3, <1>4, BufAssumption DEF Index
  <2>2. \A k \in 0..(f - 1) : buf[k] \in Byte
    BY <1>3, <1>6, <2>1
  <2>3. NUL \notin Byte
    BY DEF Byte, NUL, CR, LF, Text
  <2>4. ended[f] = NUL /\ \A k \in 0..(f - 1) : ended[k] # NUL
    BY <1>2, <1>4, <1>5, <2>1, <2>2, <2>3
  <2> QED
    BY <1>4, <2>4, CStringIs
<1>11. CString(ended) = SubSeq(s, Past + 1, NewPast - 2)
  <2>1. \A k \in 1..f : /\ k - 1 \in Index /\ k - 1 < inbuf /\ k - 1 # f
                        /\ Past + (k - 1) + 1 = k + (Past + 1) - 1
    BY <1>3, <1>4, BufAssumption DEF Index
  <2>2. \A k \in 1..f : ended[k - 1] = s[k + (Past + 1) - 1]
    BY <1>2, <1>4, <1>5, <1>6, <2>1
  <2>3. CString(ended) = [k \in 1..f |-> s[k + (Past + 1) - 1]]
    BY <1>10, <2>2
  <2> DEFINE a == Past + 1
             b == NewPast - 2
             t == SubSeq(s, a, b)
  <2>4. a \in Nat /\ b \in Nat /\ a >= 1 /\ b <= Len(s) /\ a - 1 <= b /\ b - a + 1 = f
    BY <1>3, <1>4, <1>7
  <2> HIDE DEF a, b
  <2>5. t \in Seq(Byte) /\ Len(t) = f /\ \A k \in 1..f : t[k] = s[k + a - 1]
    BY <1>3, <1>4, <2>4
  <2>6. t = [k \in 1..f |-> t[k]]
    BY <2>5
  <2>7. t = [k \in 1..f |-> s[k + a - 1]]
    BY <2>5, <2>6
  <2> QED
    BY <2>3, <2>7 DEF a, b
<1>12. SubSeq(s, Past + 1, NewPast - 2) \in Seq(Byte)
  BY <1>3, <1>7
<1>13. /\ inbuf' \in Nat /\ inbuf' <= inbuf /\ inbuf' = inbuf - (f + 2)
       /\ Past' = NewPast
  BY <1>1, <1>2, <1>3, <1>4, <1>7 DEF Past
<1>14. /\ buf' \in [Index -> Byte \cup {NUL}]
       /\ \A k \in Index : k < inbuf' => buf'[k] = s[NewPast + k + 1]
  <2>1. \A k \in Index : k < inbuf' => /\ k + where \in Index /\ k + where < inbuf
                                       /\ k + where # where - 2
                                       /\ Past + (k + where) + 1 = NewPast + k + 1
    BY <1>2, <1>3, <1>4, <1>7, <1>13, BufAssumption DEF Index
  <2>2. ended \in [Index -> Byte \cup {NUL}]
    BY <1>5
  <2>3. buf' \in [Index -> Byte \cup {NUL}]
    BY <1>1, <2>1, <2>2
  <2>4. \A k \in Index : k < inbuf' => buf'[k] = ended[k + where]
    BY <1>1
  <2>5. \A k \in Index : k < inbuf' => ended[k + where] = buf[k + where]
    BY <1>5, <2>1
  <2> QED
    BY <1>6, <2>1, <2>3, <2>4, <2>5
<1>15. printed' = [printed EXCEPT ![fd] = Append(@, SubSeq(s, Past + 1, NewPast - 2))]
  BY <1>1, <1>11
<1>16. Past < NewPast
  BY <1>3, <1>4, <1>7
<1> QED
  BY <1>1, <1>8, <1>9, <1>12, <1>13, <1>14, <1>15, <1>16

(* The line printed is line number Len(printed[fd]) + 1 of the stream. *)
LEMMA PrintLineNext ==
  ASSUME BufTypeOK, BufferInv, PrintLine
  PROVE  Lines!PrintNext(fd)
<1> DEFINE s == stream[fd]
           m == Len(printed[fd]) + 1
<1>1. /\ s \in Seq(Byte) /\ Past \in Nat /\ fd \in Client
      /\ Past = 0 \/ Past \in Ends(s)
      /\ Cardinality(UpTo(s, Past)) = Len(printed[fd])
  BY PrintLineFacts, ServedType DEF BufferInv
<1>2. /\ NewPast \in Ends(s) /\ Past < NewPast /\ NewPast \in Nat
      /\ \A e \in Ends(s) : Past < e => NewPast <= e
  BY <1>1, PrintLineFacts, EndsType
<1>3. /\ Cardinality(UpTo(s, NewPast)) = m
      /\ m <= Cardinality(Ends(s))
  BY <1>1, <1>2, NextEnd
<1>4. Lines!LineEnd(s, m) = NewPast
  BY <1>1, <1>2, <1>3, LineEndIs
<1>5. Lines!LineEnd(s, m - 1) = Past
  <2>1. m - 1 = Cardinality(UpTo(s, Past))
    BY <1>1, EndsType
  <2> QED
    BY <1>1, <2>1, LineEndIs
<1>6. Lines!LineAt(s, m) = SubSeq(s, Past + 1, NewPast - 2)
  BY <1>4, <1>5, Zenon DEF Lines!LineAt
<1>7. m <= Lines!Cardinality(Lines!LineEnds(s))
  BY <1>3, SameCardinality DEF Ends
<1>8. /\ printed' = [printed EXCEPT ![fd] = Append(@, Lines!LineAt(s, m))]
      /\ UNCHANGED stream
  BY <1>6, PrintLineFacts DEF clients
<1> QED
  BY <1>7, <1>8 DEF Lines!PrintNext

-----------------------------------------------------------------------------
(* The steps of the clients. *)

LEMMA ConnectIInv ==
  ASSUME IInv, NEW c \in Client, Connect(c)
  PROVE  IInv'
<1>1. /\ peer[c] = "away" /\ peer' = [peer EXCEPT ![c] = "writing"]
      /\ queue' = Append(queue, c)
      /\ UNCHANGED <<stream, current_byte, quits, pc, fd, taken, buffer, printed, served>>
  BY DEF Connect
<1>2. peer \in [Client -> {"away", "writing", "closed", "reset"}] /\ queue \in Seq(Client)
  BY DEF IInv, BufTypeOK
<1>3. BufTypeOK'
  <2>1. queue' \in Seq(Client)
    BY <1>1, <1>2
  <2> QED
    BY <1>1, <1>2, <2>1 DEF IInv, BufTypeOK, buffer
<1>4. ReadInv' /\ BufferInv'
  BY <1>1 DEF IInv, ReadInv, BufferInv, Found, Past, buffer
<1>5. TurnInv'
  <2>1. /\ DOMAIN queue = 1..Len(queue) /\ DOMAIN queue' = 1..(Len(queue) + 1)
        /\ Len(queue) \in Nat
        /\ \A k \in DOMAIN queue : queue'[k] = queue[k] /\ queue[k] # c
        /\ queue'[Len(queue) + 1] = c
    BY <1>1, <1>2 DEF IInv, TurnInv
  <2>2. \A d \in Client : peer'[d] = IF d = c THEN "writing" ELSE peer[d]
    BY <1>1, <1>2
  <2> QED
    BY <1>1, <1>2, <2>1, <2>2 DEF IInv, TurnInv
<1>6. DoneInv'
  <2>1. \A d \in served : d # c /\ peer'[d] = peer[d]
    BY <1>1, <1>2 DEF IInv, TurnInv
  <2> QED
    BY <1>1, <2>1 DEF IInv, DoneInv, TooLong, Sent
<1> QED
  BY <1>3, <1>4, <1>5, <1>6 DEF IInv

(* A client that is connected writes, closes or quits: its position in the *)
(* stream does not go back, and it does not become away.                   *)
Goes(c) ==
  /\ peer[c] = "writing"
  /\ peer' \in [Client -> {"away", "writing", "closed", "reset"}]
  /\ peer'[c] # "away" /\ \A d \in Client \ {c} : peer'[d] = peer[d]
  /\ current_byte' \in [Client -> Nat]
  /\ current_byte[c] <= current_byte'[c] /\ current_byte'[c] <= Len(stream[c])
  /\ \A d \in Client \ {c} : current_byte'[d] = current_byte[d]
  /\ quits' \in 0..MaxQuits
  /\ UNCHANGED <<stream, queue, pc, fd, taken, buffer, printed, served>>

LEMMA ClientGoes ==
  ASSUME BufTypeOK, NEW c \in Client, WritePiece(c) \/ CloseClient(c) \/ Quit(c)
  PROVE  Goes(c)
<1>1. /\ peer \in [Client -> {"away", "writing", "closed", "reset"}]
      /\ current_byte \in [Client -> Nat] /\ current_byte[c] <= Len(stream[c])
      /\ Len(stream[c]) \in Nat /\ quits \in 0..MaxQuits
  BY BufAssumption DEF BufTypeOK
<1>2. CASE WritePiece(c)
  <2>1. CASE peer' = peer /\ \E size \in MINCHARS..MAXCHARS :
               current_byte' = [current_byte EXCEPT ![c] =
                  IF size > bytes_left(c) THEN Len(stream[c]) ELSE @ + size]
    <3>1. PICK size \in MINCHARS..MAXCHARS :
               current_byte' = [current_byte EXCEPT ![c] =
                  IF size > bytes_left(c) THEN Len(stream[c]) ELSE @ + size]
      BY <2>1
    <3>2. size \in Nat
      BY BufAssumption
    <3>3. current_byte'[c] = IF size > bytes_left(c) THEN Len(stream[c])
                                                     ELSE current_byte[c] + size
      BY <1>1, <3>1
    <3>4. /\ current_byte'[c] \in Nat
          /\ current_byte[c] <= current_byte'[c] /\ current_byte'[c] <= Len(stream[c])
      BY <1>1, <3>2, <3>3 DEF bytes_left
    <3> QED
      BY <1>1, <1>2, <2>1, <3>1, <3>4 DEF WritePiece, Goes
  <2>2. CASE peer' = [peer EXCEPT ![c] = "closed"] /\ UNCHANGED current_byte
    BY <1>1, <1>2, <2>2 DEF WritePiece, Goes
  <2> QED
    BY <1>2, <2>1, <2>2 DEF WritePiece
<1>3. CASE CloseClient(c)
  BY <1>1, <1>3 DEF CloseClient, Goes
<1>4. CASE Quit(c)
  BY <1>1, <1>4, BufAssumption DEF Quit, Goes
<1> QED
  BY <1>2, <1>3, <1>4

LEMMA GoesIInv ==
  ASSUME IInv, NEW c \in Client, Goes(c)
  PROVE  IInv'
<1>1. BufTypeOK'
  BY DEF IInv, BufTypeOK, Goes, buffer
<1>2. ReadInv'
  BY DEF IInv, ReadInv, Found, Goes, buffer
<1>3. BufferInv'
  <2>1. SUFFICES ASSUME pc # "accept" PROVE BufferInv'
    BY DEF BufferInv, Goes
  <2>2. taken <= current_byte'[fd]
    <3>1. /\ fd \in Client /\ taken \in Nat /\ current_byte[fd] \in Nat
          /\ current_byte'[fd] \in Nat /\ taken <= current_byte[fd]
          /\ current_byte[fd] <= current_byte'[fd]
      BY <2>1, ServedType DEF IInv, BufferInv, Goes
    <3> QED
      BY <3>1
  <2> QED
    BY <2>1, <2>2 DEF IInv, BufferInv, Past, Goes, buffer
<1>4. TurnInv'
  <2>1. \A d \in Client : peer'[d] = "away" <=> peer[d] = "away"
    BY DEF Goes
  <2>2. \A k \in DOMAIN queue : queue[k] \in Client
    BY DEF IInv, BufTypeOK
  <2>3. UNCHANGED <<queue, fd, printed, served>>
    BY DEF Goes
  <2> QED
    BY <2>1, <2>2, <2>3 DEF IInv, TurnInv
<1>5. DoneInv'
  <2> SUFFICES ASSUME NEW d \in served
               PROVE  \/ peer'[d] = "reset"
                      \/ TooLong(d)'
                      \/ peer'[d] = "closed" /\ Len(printed[d]) = Cardinality(Ends(Sent(d)'))
    BY DEF DoneInv, Goes
  <2>1. d \in Client /\ (TooLong(d)' <=> TooLong(d))
    BY DEF IInv, BufTypeOK, TooLong, Goes
  <2>2. CASE d = c
    BY <2>1, <2>2 DEF IInv, DoneInv, Goes
  <2>3. CASE d # c
    <3>1. peer'[d] = peer[d] /\ Sent(d)' = Sent(d)
      BY <2>1, <2>3 DEF Goes, Sent
    <3> QED
      BY <2>1, <3>1 DEF IInv, DoneInv
  <2> QED
    BY <2>2, <2>3
<1> QED
  BY <1>1, <1>2, <1>3, <1>4, <1>5 DEF IInv

-----------------------------------------------------------------------------
(* The steps of the server. *)

LEMMA AcceptIInv ==
  ASSUME IInv, Accept
  PROVE  IInv'
<1>1. /\ queue # <<>> /\ queue \in Seq(Client) /\ pc = "accept" /\ fd = NoClient
      /\ queue' = Tail(queue) /\ UNCHANGED <<clients, printed>>
  BY DEF Accept, IInv, BufTypeOK
<1>2. /\ Head(queue) = queue[1] /\ Head(queue) \in Client /\ 1 \in DOMAIN queue
      /\ Tail(queue) \in Seq(Client)
      /\ \A k \in DOMAIN Tail(queue) : /\ k + 1 \in DOMAIN queue /\ k + 1 # 1
                                       /\ Tail(queue)[k] = queue[k + 1]
                                       /\ \A l \in DOMAIN Tail(queue) : k + 1 = l + 1 => k = l
  BY <1>1
<1>3. /\ peer[Head(queue)] # "away" /\ printed[Head(queue)] = <<>>
      /\ Head(queue) \notin served /\ NoClient \notin Client
      /\ \A k \in DOMAIN queue : k # 1 => queue[k] # Head(queue)
  BY <1>2, BufAssumption DEF IInv, TurnInv
<1>4. CASE /\ fd' = Head(queue) /\ pc' = "read" /\ taken' = 0
           /\ buf' = EmptyBuf /\ inbuf' = 0 /\ room' = BUFSIZE /\ after' = 0
           /\ UNCHANGED served
  <2>1. BufTypeOK'
    BY <1>1, <1>2, <1>4, BufAssumption DEF IInv, BufTypeOK, EmptyBuf, clients
  <2>2. ReadInv'
    BY <1>4, BufAssumption DEF ReadInv, Found, Index
  <2>3. BufferInv'
    <3>1. stream[fd'] \in Seq(Byte) /\ current_byte'[fd'] \in Nat
      BY <1>1, <1>2, <1>4, BufAssumption DEF IInv, BufTypeOK, clients
    <3>2. UpTo(stream[fd'], 0) = {}
      BY <3>1, EndsType DEF UpTo
    <3>3. Cardinality(UpTo(stream[fd'], 0)) = 0
      BY <3>2, FS_EmptySet
    <3>4. Past' = 0 /\ stream' = stream /\ printed'[fd'] = <<>>
      BY <1>1, <1>3, <1>4 DEF Past, clients
    <3>5. \A k \in Index : ~(k < inbuf')
      BY <1>4, BufAssumption DEF Index
    <3> QED
      BY <1>4, <3>1, <3>3, <3>4, <3>5 DEF BufferInv
  <2>4. TurnInv'
    BY <1>1, <1>2, <1>3, <1>4 DEF IInv, TurnInv, clients
  <2>5. DoneInv'
    BY <1>1, <1>4 DEF IInv, DoneInv, TooLong, Sent, clients
  <2> QED
    BY <2>1, <2>2, <2>3, <2>4, <2>5 DEF IInv
<1>5. CASE /\ peer[Head(queue)] = "reset" /\ served' = served \cup {Head(queue)}
           /\ UNCHANGED <<pc, fd, taken, buffer>>
  <2>1. BufTypeOK'
    BY <1>1, <1>2, <1>5 DEF IInv, BufTypeOK, clients, buffer
  <2>2. ReadInv' /\ BufferInv'
    BY <1>1, <1>5 DEF ReadInv, BufferInv
  <2>3. TurnInv'
    BY <1>1, <1>2, <1>3, <1>5 DEF IInv, BufTypeOK, TurnInv, clients
  <2>4. DoneInv'
    BY <1>1, <1>5 DEF IInv, DoneInv, TooLong, Sent, clients
  <2> QED
    BY <2>1, <2>2, <2>3, <2>4 DEF IInv
<1> QED
  BY <1>4, <1>5 DEF Accept

LEMMA ReadIInv ==
  ASSUME IInv, Read
  PROVE  IInv'
<1> DEFINE s == stream[fd]
<1>1. PICK nbytes \in 1..room :
        /\ nbytes <= Arrived
        /\ buf' = [k \in Index |-> IF k \in after..(after + nbytes - 1)
                                   THEN stream[fd][taken + k - after + 1] ELSE buf[k]]
        /\ inbuf' = inbuf + nbytes /\ taken' = taken + nbytes
  BY DEF Read
<1>2. /\ pc = "read" /\ pc' = "scan"
      /\ UNCHANGED <<clients, queue, fd, room, after, printed, served>>
  BY DEF Read
<1>3. /\ fd \in Client /\ s \in Seq(Byte) /\ current_byte[fd] \in Nat
      /\ current_byte[fd] <= Len(s) /\ Len(s) \in Nat
      /\ inbuf \in Nat /\ inbuf <= BUFSIZE /\ taken \in Nat /\ Past \in Nat
      /\ taken = Past + inbuf /\ BUFSIZE \in Nat
      /\ after = inbuf /\ room = BUFSIZE - inbuf
  BY <1>2, ServedType, BufAssumption DEF IInv, ReadInv
<1>4. /\ nbytes \in Nat /\ nbytes <= BUFSIZE - inbuf /\ taken + nbytes <= current_byte[fd]
  BY <1>1, <1>3 DEF Arrived
<1>5. Past' = Past /\ inbuf' \in 0..BUFSIZE /\ taken' \in Nat /\ inbuf' <= taken'
  BY <1>1, <1>3, <1>4 DEF Past
<1>6. \A k \in Index : k < inbuf' => buf'[k] = s[Past + k + 1]
  <2> TAKE k \in Index
  <2> HAVE k < inbuf'
  <2>1. k \in Nat
    BY <1>3 DEF Index
  <2>2. CASE k < inbuf
    <3>1. k \notin after..(after + nbytes - 1)
      BY <1>3, <2>1, <2>2
    <3> QED
      BY <1>1, <1>2, <2>2, <3>1 DEF IInv, BufferInv
  <2>3. CASE ~(k < inbuf)
    <3>1. k \in after..(after + nbytes - 1) /\ taken + k - after + 1 = Past + k + 1
      BY <1>1, <1>3, <1>4, <2>1, <2>3
    <3> QED
      BY <1>1, <3>1
  <2> QED
    BY <2>2, <2>3
<1>7. buf' \in [Index -> Byte \cup {NUL}]
  <2>1. ASSUME NEW k \in Index, k \in after..(after + nbytes - 1)
        PROVE  s[taken + k - after + 1] \in Byte
    <3>1. taken + k - after + 1 \in 1..Len(s)
      BY <1>3, <1>4, <2>1 DEF Index
    <3> QED
      BY <1>3, <3>1
  <2>2. buf \in [Index -> Byte \cup {NUL}]
    BY DEF IInv, BufTypeOK
  <2> QED
    BY <1>1, <2>1, <2>2
<1>8. BufTypeOK'
  BY <1>2, <1>3, <1>5, <1>7 DEF IInv, BufTypeOK, clients
<1>9. ReadInv'
  BY <1>2 DEF ReadInv
<1>10. BufferInv'
  BY <1>1, <1>2, <1>4, <1>5, <1>6 DEF IInv, BufferInv, clients
<1>11. TurnInv' /\ DoneInv'
  BY <1>2 DEF IInv, TurnInv, DoneInv, TooLong, Sent, clients
<1> QED
  BY <1>8, <1>9, <1>10, <1>11 DEF IInv

LEMMA PrintLineIInv ==
  ASSUME IInv, PrintLine
  PROVE  IInv'
<1> DEFINE s == stream[fd]
           l == SubSeq(s, Past + 1, NewPast - 2)
<1>1. /\ pc = "scan" /\ UNCHANGED <<clients, queue, pc, fd, taken, room, after, served>>
      /\ printed' = [printed EXCEPT ![fd] = Append(@, l)] /\ l \in Seq(Byte)
      /\ inbuf' \in Nat /\ inbuf' <= inbuf /\ Past' = NewPast
      /\ buf' \in [Index -> Byte \cup {NUL}]
      /\ \A k \in Index : k < inbuf' => buf'[k] = s[NewPast + k + 1]
      /\ NewPast \in Ends(s) /\ Past < NewPast
      /\ \A e \in Ends(s) : Past < e => NewPast <= e
  BY PrintLineFacts DEF IInv
<1> HIDE DEF l
<1>2. /\ fd \in Client /\ s \in Seq(Byte) /\ Past \in Nat
      /\ inbuf \in Nat /\ inbuf <= BUFSIZE /\ taken \in Nat /\ inbuf <= taken
      /\ printed \in [Client -> Seq(Seq(Byte))] /\ BUFSIZE \in Nat
  BY <1>1, ServedType, BufAssumption DEF IInv, BufTypeOK, BufferInv
<1>3. /\ printed' \in [Client -> Seq(Seq(Byte))]
      /\ Len(printed'[fd]) = Len(printed[fd]) + 1
      /\ \A c \in Client : c # fd => printed'[c] = printed[c]
  BY <1>1, <1>2
<1>4. BufTypeOK'
  <2>1. inbuf' \in 0..BUFSIZE
    BY <1>1, <1>2
  <2> QED
    BY <1>1, <1>3, <2>1 DEF IInv, BufTypeOK, clients
<1>5. ReadInv'
  BY <1>1 DEF ReadInv
<1>6. BufferInv'
  <2>1. Cardinality(UpTo(s, NewPast)) = Len(printed'[fd])
    <3>1. Cardinality(UpTo(s, Past)) = Len(printed[fd])
      BY <1>1 DEF IInv, BufferInv
    <3>2. Cardinality(UpTo(s, NewPast)) = Cardinality(UpTo(s, Past)) + 1
      BY <1>1, <1>2, NextEnd
    <3> QED
      BY <1>3, <3>1, <3>2
  <2>2. inbuf' <= taken
    BY <1>1, <1>2
  <2> QED
    BY <1>1, <2>1, <2>2 DEF IInv, BufferInv, clients
<1>7. TurnInv'
  <2>1. \A k \in DOMAIN queue : queue[k] \in Client
    BY DEF IInv, BufTypeOK
  <2> QED
    BY <1>1, <1>3, <2>1 DEF IInv, TurnInv, clients
<1>8. DoneInv'
  <2>1. \A c \in served : c \in Client /\ printed'[c] = printed[c]
    BY <1>3 DEF IInv, BufTypeOK, TurnInv
  <2> QED
    BY <1>1, <2>1 DEF IInv, DoneInv, TooLong, Sent, clients
<1> QED
  BY <1>4, <1>5, <1>6, <1>7, <1>8 DEF IInv

LEMMA EndScanIInv ==
  ASSUME IInv, EndScan
  PROVE  IInv'
<1>1. /\ pc = "scan" /\ pc' = "read" /\ after' = inbuf /\ room' = BUFSIZE - inbuf
      /\ UNCHANGED <<buf, inbuf, clients, queue, fd, taken, printed, served>>
  BY DEF EndScan, NextRead
<1>2. Found(inbuf) = {}
  <2>1. SUFFICES ASSUME Found(inbuf) # {} PROVE FALSE
    OBVIOUS
  <2>2. PICK k \in Found(inbuf) : find_network_newline(inbuf) = k + 2
    BY <2>1, NewlineIs DEF IInv
  <2>3. k \in Nat /\ find_network_newline(inbuf) <= 0
    BY BufAssumption DEF EndScan, Found, Index
  <2> QED
    BY <2>2, <2>3
<1>3. BufTypeOK'
  BY <1>1, BufAssumption DEF IInv, BufTypeOK, clients
<1>4. ReadInv' /\ BufferInv'
  BY <1>1, <1>2 DEF IInv, ReadInv, BufferInv, Found, Past, clients
<1>5. TurnInv' /\ DoneInv'
  BY <1>1 DEF IInv, TurnInv, DoneInv, TooLong, Sent, clients
<1> QED
  BY <1>3, <1>4, <1>5 DEF IInv

(* A buffer that is full and holds no line end is the beginning of a line  *)
(* that is too long.                                                       *)
LEMMA FullIsTooLong ==
  ASSUME IInv, pc = "read", room = 0
  PROVE  TooLong(fd)
<1> DEFINE s == stream[fd]
<1>1. /\ s \in Seq(Byte) /\ Past \in Nat /\ taken = Past + BUFSIZE /\ taken \in Nat
      /\ taken <= Len(s) /\ Found(inbuf) = {} /\ BUFSIZE \in Nat
      /\ Past = 0 \/ Past \in Ends(s)
      /\ Cardinality(UpTo(s, Past)) = Len(printed[fd])
  BY ServedType, BufAssumption DEF IInv, ReadInv, BufferInv
<1>2. Lines!LineEnd(s, Len(printed[fd])) = Past
  BY <1>1, LineEndIs
<1>3. \A e \in Ends(s) : e \notin (Past + 1)..(Past + BUFSIZE)
  <2> TAKE e \in Ends(s)
  <2>1. e \in Int /\ ~(Past < e /\ e <= taken)
    BY <1>1, EndInBuffer, EndsType DEF IInv
  <2> QED
    BY <1>1, <2>1
<1> QED
  BY <1>1, <1>2, <1>3 DEF TooLong, Ends

(* What is sent of a stream has the line ends up to there. *)
LEMMA SentEnds ==
  ASSUME BufTypeOK, NEW c \in Client
  PROVE  Ends(Sent(c)) = UpTo(stream[c], current_byte[c])
<1> DEFINE s == stream[c]
           n == current_byte[c]
<1>1. s \in Seq(Byte) /\ n \in Nat /\ n <= Len(s) /\ Len(s) \in Nat
  BY BufAssumption DEF BufTypeOK
<1>2. Len(Sent(c)) = n /\ \A k \in 1..n : Sent(c)[k] = s[k]
  BY <1>1 DEF Sent
<1>3. \A k \in 2..n : k \in 1..n /\ k - 1 \in 1..n
  BY <1>1
<1> QED
  BY <1>1, <1>2, <1>3 DEF Ends, UpTo, Lines!LineEnds

LEMMA CloseIInv ==
  ASSUME IInv, Close
  PROVE  IInv'
<1>1. /\ pc = "read" /\ pc' = "accept" /\ fd' = NoClient
      /\ served' = served \cup {fd} /\ ReadEnds
      /\ UNCHANGED <<clients, queue, taken, buffer, printed>>
  BY DEF Close
<1>2. fd \in Client /\ NoClient \notin Client
  BY <1>1, BufAssumption DEF IInv, BufTypeOK
<1>3. BufTypeOK' /\ ReadInv' /\ BufferInv'
  BY <1>1, <1>2 DEF IInv, BufTypeOK, ReadInv, BufferInv, clients, buffer
<1>4. TurnInv'
  <2>1. \A k \in DOMAIN queue : queue[k] \in Client
    BY DEF IInv, BufTypeOK
  <2> QED
    BY <1>1, <1>2, <2>1 DEF IInv, BufTypeOK, TurnInv, clients
<1>5. \/ peer[fd] = "reset"
      \/ TooLong(fd)
      \/ peer[fd] = "closed" /\ Len(printed[fd]) = Cardinality(Ends(Sent(fd)))
  <2>1. CASE room = 0
    BY <1>1, <2>1, FullIsTooLong
  <2>2. CASE peer[fd] = "closed" /\ Arrived = 0
    <3>1. taken = current_byte[fd]
      BY <1>1, <2>2, ServedType DEF IInv, Arrived
    <3>2. Ends(Sent(fd)) = UpTo(stream[fd], Past)
      BY <1>1, <1>2, <3>1, SentEnds, NothingFound DEF IInv, ReadInv
    <3> QED
      BY <1>1, <2>2, <3>2 DEF IInv, BufferInv
  <2> QED
    BY <1>1, <2>1, <2>2 DEF ReadEnds
<1>6. DoneInv'
  BY <1>1, <1>5 DEF IInv, DoneInv, TooLong, Sent, clients
<1> QED
  BY <1>3, <1>4, <1>6 DEF IInv

-----------------------------------------------------------------------------
(* The theorems. *)

LEMMA InitIInv == Init => IInv
<1> SUFFICES ASSUME Init PROVE IInv
  OBVIOUS
<1>1. BufTypeOK
  <2>1. \A c \in Client : stream[c] \in Seq(Byte)
    BY BufAssumption DEF Init
  <2> QED
    BY <2>1, BufAssumption DEF Init, BufTypeOK, EmptyBuf
<1>2. ReadInv /\ BufferInv /\ TurnInv /\ DoneInv
  BY BufAssumption DEF Init, ReadInv, BufferInv, TurnInv, DoneInv
<1> QED
  BY <1>1, <1>2 DEF IInv

LEMMA NextIInv == IInv /\ [Next]_vars => IInv'
<1> SUFFICES ASSUME IInv, [Next]_vars PROVE IInv'
  OBVIOUS
<1>1. CASE Server
  BY <1>1, AcceptIInv, ReadIInv, CloseIInv, PrintLineIInv, EndScanIInv DEF Server
<1>2. ASSUME NEW c \in Client, Send(c) \/ Quit(c) PROVE IInv'
  BY <1>2, ConnectIInv, ClientGoes, GoesIInv DEF Send, IInv
<1>3. CASE UNCHANGED vars
  BY <1>3 DEF vars, clients, buffer, IInv, BufTypeOK, ReadInv, Found, BufferInv,
     Past, TurnInv, DoneInv, TooLong, Sent
<1> QED
  BY <1>1, <1>2, <1>3 DEF Next

THEOREM Invariant == Spec => []IInv
<1>1. Init => IInv
  BY InitIInv
<1>2. IInv /\ [Next]_vars => IInv'
  BY NextIInv
<1> QED
  BY <1>1, <1>2, PTL DEF Spec

(* BufTypeOK for every buffer and stream: neither read nor memmove leaves  *)
(* the buffer, and printf finds the end of the line (bufserver.c:42-82).   *)
THEOREM TypeCorrect == Spec => []BufTypeOK
<1>1. IInv => BufTypeOK
  BY DEF IInv
<1> QED
  BY <1>1, Invariant, PTL

(* NoLineLeftBehind for every buffer and stream: the server never waits on *)
(* a whole line, and closes no connection before its lines are printed,    *)
(* unless the line is too long or the connection was reset                 *)
(* (bufserver.c:42, 55-58, 81-85).                                         *)
THEOREM NoLineIsLeft == Spec => []NoLineLeftBehind
<1>1. IInv => NoLineLeftBehind
  <2> SUFFICES ASSUME IInv PROVE NoLineLeftBehind
    OBVIOUS
  <2>1. pc = "read" => find_network_newline(inbuf) = -1
    BY NewlineIs DEF IInv, ReadInv
  <2> QED
    BY <2>1 DEF IInv, DoneInv, NoLineLeftBehind, Ends
<1> QED
  BY <1>1, Invariant, PTL

(* FramingSpec for every buffer and stream: what is printed are the lines  *)
(* of the stream, whole and in order, however it is cut (bufserver.c:      *)
(* 42-82, 95-104).                                                         *)
THEOREM FramingCorrect == Spec => FramingSpec
<1>1. Init => Lines!Init
  BY DEF Init, Lines!Init
<1>2. IInv /\ [Next]_vars => [Lines!Next]_(Lines!vars)
  <2> SUFFICES ASSUME IInv, [Next]_vars PROVE Lines!Next \/ UNCHANGED Lines!vars
    OBVIOUS
  <2>1. CASE PrintLine
    <3>1. fd \in Client
      BY <2>1, PrintLineFacts, ServedType DEF IInv
    <3>2. Lines!PrintNext(fd)
      BY <2>1, PrintLineNext DEF IInv
    <3> QED
      BY <3>1, <3>2 DEF Lines!Next
  <2>2. CASE Accept \/ Read \/ Close \/ EndScan
    BY <2>2 DEF Accept, Read, Close, EndScan, clients, Lines!vars
  <2>3. CASE \E c \in Client : Send(c) \/ Quit(c)
    BY <2>3 DEF Send, Connect, WritePiece, CloseClient, Quit, Lines!vars
  <2>4. CASE UNCHANGED vars
    BY <2>4 DEF vars, clients, Lines!vars
  <2> QED
    BY <2>1, <2>2, <2>3, <2>4 DEF Next, Server
<1> QED
  BY <1>1, <1>2, Invariant, PTL DEF Spec, FramingSpec, Lines!Spec
=============================================================================
