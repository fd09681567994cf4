----------------------------- MODULE PSortProofs -----------------------------
(***************************************************************************)
(* Proofs about PSort, for every number of records, processes and faults,  *)
(* every capacity of the pipes and every set of input files: its types,    *)
(* and that psort is an ordered merge, in which what was written was       *)
(* written once, what is missing is reported, and every step of the        *)
(* program is a step of OrderedMerge or none.                              *)
(***************************************************************************)
EXTENDS PSort, TLAPS, FiniteSetTheorems

-----------------------------------------------------------------------------
(* The division of the file. *)

(* There is at least one child, and no more than there are records. *)
LEMMA NumChildren == n \in Nat \ {0} /\ n <= NumRecs
BY SizesAssumption DEF n

(* What \div and % give for num_recs and n. *)
LEMMA Division ==
  /\ NumRecs \div n \in Nat
  /\ recs_remainder \in 0..(n - 1)
  /\ NumRecs = n * (NumRecs \div n) + recs_remainder
BY NumChildren, SizesAssumption DEF recs_remainder

(* Every child's share lies within the file. *)
LEMMA ShareInFile ==
  ASSUME NEW c \in Child
  PROVE  recs_per_process(c) \in Nat /\ index(c) \in Nat /\ Share(c) \subseteq Rec
<1> DEFINE q == NumRecs \div n
           r == recs_remainder
<1>1. /\ q \in Nat /\ r \in Nat /\ r < n /\ n \in Nat /\ NumRecs \in Nat
      /\ NumRecs = n * q + r
      /\ c \in Nat /\ c < n
  BY Division, NumChildren, SizesAssumption DEF Child
<1> HIDE DEF q, r
<1>2. CASE c < r
  <2>1. recs_per_process(c) = q + 1 /\ index(c) = c * (q + 1)
    BY <1>2 DEF recs_per_process, index, q, r
  <2>2. index(c) + recs_per_process(c) = (c + 1) * (q + 1)
    BY <2>1, <1>1
  <2>3. (c + 1) * (q + 1) <= r * (q + 1)
    BY <1>1, <1>2
  <2>4. r * (q + 1) = r * q + r
    BY <1>1
  <2>5. r * q <= n * q
    BY <1>1
  <2>6. index(c) + recs_per_process(c) <= NumRecs
    BY <1>1, <2>1, <2>2, <2>3, <2>4, <2>5
  <2>7. index(c) \in Nat
    BY <1>1, <2>1
  <2> QED
    BY <1>1, <2>1, <2>6, <2>7 DEF Share, Rec
<1>3. CASE ~(c < r)
  <2>1. recs_per_process(c) = q /\ index(c) = r * (q + 1) + q * (c - r)
    BY <1>3 DEF recs_per_process, index, q, r
  <2>2. r * (q + 1) + q * (c - r) = q * c + r
    BY <1>1
  <2>3. q * (c + 1) <= q * n /\ q * (c + 1) = q * c + q /\ q * n = n * q
    BY <1>1
  <2>4. q * c \in Nat
    BY <1>1
  <2>5. index(c) \in Nat /\ index(c) + recs_per_process(c) <= NumRecs
    BY <1>1, <2>1, <2>2, <2>3, <2>4
  <2> QED
    BY <1>1, <2>1, <2>5 DEF Share, Rec
<1> QED
  BY <1>2, <1>3

-----------------------------------------------------------------------------
(* The inductive invariant, IInv. *)

(* A pipe never delivers more than was written into it, nor is more        *)
(* written than was sorted; what was sorted is in order.                   *)
PipeInv ==
  \A c \in Child :
    /\ got[c] <= sent[c]
    /\ sent[c] <= Len(sorted[c])
    /\ cpc[c] \in {"unborn", "inherited", "load"} => sorted[c] = <<>>
    /\ cpc[c] = "write" => Len(sorted[c]) = recs_per_process(c)
    /\ \A k, l \in 1..Len(sorted[c]) :
         k < l => freq[sorted[c][k]] <= freq[sorted[c][l]]

(* An entry of merge_list is the last record read from its pipe, and no    *)
(* record in the output exceeds it.                                        *)
HeadInv ==
  \A c \in Child : merge_list[c] # NoRec =>
    /\ got[c] >= 1
    /\ merge_list[c] = sorted[c][got[c]]
    /\ \A k \in DOMAIN written : freq[written[k]] <= freq[merge_list[c]]

(* Nothing is written before the merge, and the entry that Refill replaces *)
(* is one that was there.                                                  *)
PhaseInv ==
  /\ ppc \in {"fork", "close_w", "prime"} => written = <<>>
  /\ ppc = "refill" => merge_list[i] # NoRec

MergeInv == TypeOK /\ PipeInv /\ HeadInv /\ PhaseInv /\ OutputSorted

(* The child that Fork creates next does not exist yet. *)
ForkInv == ppc = "fork" => \A c \in Child : c >= i => cpc[c] = "unborn"

IInv == MergeInv /\ ForkInv

-----------------------------------------------------------------------------
(* Facts about single definitions that several steps use. *)

(* A sorted share is a sequence of records of the file, in order. *)
LEMMA SortedShareType ==
  ASSUME NEW c \in Child, NEW s, SortedShare(c, s)
  PROVE  /\ s \in Seq(Rec)
         /\ Len(s) = recs_per_process(c)
         /\ \A k, l \in 1..Len(s) : k < l => freq[s[k]] <= freq[s[l]]
<1>1. recs_per_process(c) \in Nat /\ Share(c) \subseteq Rec
  BY ShareInFile
<1>2. s \in [1..recs_per_process(c) -> Rec]
  BY <1>1 DEF SortedShare
<1>3. s \in Seq(Rec) /\ Len(s) = recs_per_process(c)
  BY <1>1, <1>2
<1> QED
  BY <1>3 DEF SortedShare

(* A loop of main leaves i a child's number and goes where it should. *)
LEMMA AdvanceType ==
  ASSUME i \in Child, NEW next, Advance(next)
  PROVE  i' \in Child /\ ppc' \in {ppc, next}
BY NumChildren DEF Advance, Child

(* The frequencies of a file are integers that INT_MAX bounds. *)
LEMMA FreqBounded ==
  ASSUME freq \in Inputs, NEW r \in Rec
  PROVE  freq[r] \in 0..IntMax
BY InputsAssumption

(* read keeps the pipe's counts and the entry of merge_list in step. *)
LEMMA ReceiveType ==
  ASSUME TypeOK, PipeInv, NEW c \in Child, Receive(c)
  PROVE  /\ got' \in [Child -> Nat]
         /\ merge_list' \in [Child -> Rec \cup {NoRec}]
         /\ num_empty_pipes' \in Nat
         /\ \A d \in Child \ {c} : got'[d] = got[d] /\ merge_list'[d] = merge_list[d]
         /\ got'[c] <= sent[c] /\ got[c] <= got'[c]
         /\ merge_list'[c] # NoRec => /\ got'[c] = got[c] + 1
                                      /\ merge_list'[c] = sorted[c][got'[c]]
<1>1. CASE /\ got[c] < sent[c]
           /\ got' = [got EXCEPT ![c] = @ + 1]
           /\ merge_list' = [merge_list EXCEPT ![c] = sorted[c][got[c] + 1]]
           /\ UNCHANGED num_empty_pipes
  <2>1. got[c] + 1 \in 1..Len(sorted[c])
    BY <1>1 DEF TypeOK, PipeInv
  <2>2. sorted[c][got[c] + 1] \in Rec
    BY <2>1 DEF TypeOK
  <2> QED
    BY <1>1, <2>1, <2>2 DEF TypeOK
<1>2. CASE /\ AtEnd(c)
           /\ merge_list' = [merge_list EXCEPT ![c] = NoRec]
           /\ num_empty_pipes' = num_empty_pipes + 1
           /\ UNCHANGED got
  BY <1>2 DEF TypeOK, AtEnd
<1> QED
  BY <1>1, <1>2 DEF Receive

-----------------------------------------------------------------------------
(* The initial states. *)
LEMMA InitIInv == Init => IInv
<1> SUFFICES ASSUME Init PROVE IInv
  OBVIOUS
<1>1. 0 \in Child
  BY NumChildren DEF Child
<1>2. TypeOK
  BY <1>1, SizesAssumption DEF Init, TypeOK, ParentRunning, Rec, Message
<1>3. PipeInv
  BY DEF Init, PipeInv
<1> QED
  BY <1>2, <1>3 DEF Init, IInv, MergeInv, HeadInv, PhaseInv, ForkInv, OutputSorted

(* A step that touches neither the records nor the loop of the merge keeps *)
(* the invariants about them; only the type invariant is left to prove.    *)
LEMMA QuietStep ==
  ASSUME MergeInv,
         UNCHANGED <<freq, sorted, sent, got, merge_list, written>>,
         \A c \in Child : cpc'[c] # cpc[c] =>
           \/ cpc'[c] \in {"inherited", "load"} /\ sorted[c] = <<>>
           \/ cpc'[c] \in ChildGone \cup {"tidy"},
         ppc' \in {"fork", "close_w", "prime"} =>
           ppc \in {"fork", "close_w", "prime"},
         ppc' # "refill" \/ (ppc = "refill" /\ UNCHANGED i)
  PROVE  PipeInv' /\ HeadInv' /\ PhaseInv' /\ OutputSorted'
<1>1. PipeInv'
  BY DEF MergeInv, PipeInv, ChildGone
<1>2. HeadInv' /\ OutputSorted'
  BY DEF MergeInv, HeadInv, OutputSorted
<1>3. PhaseInv'
  BY DEF MergeInv, PhaseInv
<1> QED
  BY <1>1, <1>2, <1>3

(* The steps of the children. *)
LEMMA ChildSteps ==
  ASSUME MergeInv, NEW c \in Child, ChildStep(c) \/ ChildFault(c)
  PROVE  MergeInv'
<1> USE DEF MergeInv
<1>1. CASE CloseInherited(c)
  <2>1. TypeOK'
    <3>1. j[c] \in Child /\ j[c] < c
      BY <1>1 DEF CloseInherited, TypeOK
    <3>2. j[c] + 1 \in Child
      BY <3>1, NumChildren DEF Child
    <3> QED
      BY <1>1, <3>2 DEF CloseInherited, TypeOK, pvars
  <2> QED
    BY <1>1, <2>1, QuietStep DEF CloseInherited, pvars
<1>2. CASE CloseOwnReadEnd(c)
  <2>1. TypeOK'
    BY <1>2 DEF CloseOwnReadEnd, TypeOK, pvars, ChildRunning
  <2>2. \A d \in Child : cpc'[d] # cpc[d] => cpc'[d] = "load" /\ sorted[d] = <<>>
    BY <1>2 DEF CloseOwnReadEnd, TypeOK, PipeInv
  <2> QED
    BY <1>2, <2>1, <2>2, QuietStep DEF CloseOwnReadEnd, pvars
<1>3. CASE ReadAndSort(c)
  <2>1. PICK s : /\ SortedShare(c, s)
                 /\ sorted' = [sorted EXCEPT ![c] = s]
    BY <1>3 DEF ReadAndSort
  <2>2. /\ s \in Seq(Rec)
        /\ Len(s) = recs_per_process(c)
        /\ \A k, l \in 1..Len(s) : k < l => freq[s[k]] <= freq[s[l]]
    BY <2>1, SortedShareType
  <2>3. cpc[c] = "load" /\ cpc' = [cpc EXCEPT ![c] = "write"]
        /\ UNCHANGED <<freq, pvars, j, pipes, faults>>
    BY <1>3 DEF ReadAndSort
  <2>4. TypeOK'
    BY <2>1, <2>2, <2>3 DEF TypeOK, pvars, pipes, ChildRunning
  <2>5. sorted[c] = <<>> /\ sent[c] = 0 /\ got[c] = 0
    BY <2>3 DEF PipeInv, TypeOK
  <2>6. PipeInv'
    BY <2>1, <2>2, <2>3, <2>5 DEF PipeInv, TypeOK, pipes, pvars
  <2>7. HeadInv'
    BY <2>1, <2>3, <2>5 DEF HeadInv, TypeOK, pipes, pvars
  <2> QED
    BY <2>3, <2>4, <2>6, <2>7 DEF PhaseInv, OutputSorted, pvars
<1>4. CASE Write(c)
  <2>1. TypeOK'
    BY <1>4 DEF Write, TypeOK, pvars, cvars
  <2>2. PipeInv'
    BY <1>4 DEF Write, PipeInv, TypeOK, pvars, cvars
  <2> QED
    BY <1>4, <2>1, <2>2 DEF Write, HeadInv, PhaseInv, OutputSorted, pvars, cvars
<1>5. CASE WriteBrokenPipe(c)
  <2>1. TypeOK'
    BY <1>5 DEF WriteBrokenPipe, CloseAll, TypeOK, pvars, ChildGone
  <2> QED
    BY <1>5, <2>1, QuietStep DEF WriteBrokenPipe, TypeOK, pvars, ChildGone
<1>6. CASE CloseOwnWriteEnd(c)
  <2>1. TypeOK'
    BY <1>6 DEF CloseOwnWriteEnd, TypeOK, pvars, ChildRunning
  <2> QED
    BY <1>6, <2>1, QuietStep DEF CloseOwnWriteEnd, TypeOK, pvars
<1>7. CASE Exit(c)
  <2>1. TypeOK'
    BY <1>7 DEF Exit, CloseAll, TypeOK, pvars, ChildGone
  <2> QED
    BY <1>7, <2>1, QuietStep DEF Exit, TypeOK, pvars, ChildGone
<1>8. CASE ChildFault(c)
  <2>1. TypeOK'
    BY <1>8, SizesAssumption DEF ChildFault, CloseAll, TypeOK, pvars, ChildGone
  <2> QED
    BY <1>8, <2>1, QuietStep DEF ChildFault, TypeOK, pvars, ChildGone
<1> QED
  BY <1>1, <1>2, <1>3, <1>4, <1>5, <1>6, <1>7, <1>8 DEF ChildStep

(* The steps of the parent. *)
LEMMA ParentSteps ==
  ASSUME MergeInv, ForkInv, ParentStep \/ ParentFault
  PROVE  MergeInv'
<1> USE DEF MergeInv
<1>0. i \in Child /\ Parent \in Proc /\ Child \subseteq Proc
  BY NumChildren DEF TypeOK, Parent, Proc, Child
<1>1. CASE Fork
  <2>1. i' \in Child /\ ppc' \in {ppc, "close_w"}
    BY <1>0, <1>1, AdvanceType DEF Fork
  <2>2. TypeOK'
    BY <1>0, <1>1, <2>1 DEF Fork, TypeOK, ParentRunning, ChildRunning
  <2>3. i \in Int /\ i >= i
    BY <1>0, NumChildren DEF Child
  <2>4. sorted[i] = <<>>
    BY <1>0, <1>1, <2>3 DEF Fork, ForkInv, PipeInv
  <2>5. \A c \in Child : cpc'[c] # cpc[c] => cpc'[c] = "inherited" /\ sorted[c] = <<>>
    BY <1>0, <1>1, <2>4 DEF Fork, TypeOK
  <2> QED
    BY <1>1, <2>1, <2>2, <2>5, QuietStep DEF Fork
<1>2. CASE CloseWriteEnd
  <2>1. i' \in Child /\ ppc' \in {ppc, "prime"}
    BY <1>0, <1>2, AdvanceType DEF CloseWriteEnd
  <2>2. TypeOK'
    BY <1>0, <1>2, <2>1 DEF CloseWriteEnd, TypeOK, cvars, ParentRunning
  <2> QED
    BY <1>2, <2>1, <2>2, QuietStep DEF CloseWriteEnd, cvars
<1>3. CASE Prime
  <2>1. i' \in Child /\ ppc' \in {ppc, "merge"} /\ ppc = "prime"
    BY <1>0, <1>3, AdvanceType DEF Prime
  <2>2. written = <<>> /\ written' = <<>>
    BY <1>3, <2>1 DEF Prime, PhaseInv
  <2>3. Receive(i)
    BY <1>3 DEF Prime
  <2>4. TypeOK'
    BY <1>0, <1>3, <2>1, <2>3, ReceiveType DEF Prime, TypeOK, cvars, ParentRunning
  <2>5. PipeInv'
    BY <1>0, <1>3, <2>3, ReceiveType DEF Prime, PipeInv, TypeOK, cvars
  <2>6. HeadInv'
    <3> SUFFICES ASSUME NEW c \in Child, merge_list'[c] # NoRec
                 PROVE  got'[c] >= 1 /\ merge_list'[c] = sorted[c][got'[c]]
      BY <1>3, <2>2 DEF Prime, HeadInv, cvars
    <3>1. CASE c # i
      BY <1>0, <2>3, <3>1, ReceiveType DEF HeadInv
    <3>2. CASE c = i
      <4>1. got'[c] = got[c] + 1 /\ merge_list'[c] = sorted[c][got'[c]]
        BY <1>0, <2>3, <3>2, ReceiveType
      <4> QED
        BY <4>1 DEF TypeOK
    <3> QED
      BY <3>1, <3>2
  <2> QED
    BY <2>1, <2>2, <2>4, <2>5, <2>6 DEF PhaseInv, OutputSorted
<1>4. CASE Refill
  <2>1. Receive(i) /\ merge_list[i] # NoRec /\ UNCHANGED <<freq, sorted, written>>
    BY <1>4 DEF Refill, PhaseInv, cvars
  <2>2. TypeOK'
    <3>1. i' \in Child
      BY <1>4, NumChildren DEF Refill, Child
    <3> QED
      BY <1>0, <1>4, <2>1, <3>1, ReceiveType
      DEF Refill, TypeOK, cvars, ParentRunning
  <2>3. PipeInv'
    BY <1>0, <1>4, <2>1, ReceiveType DEF Refill, PipeInv, TypeOK, cvars
  <2>4. HeadInv'
    <3> SUFFICES ASSUME NEW c \in Child, merge_list'[c] # NoRec
                 PROVE  /\ got'[c] >= 1
                        /\ merge_list'[c] = sorted'[c][got'[c]]
                        /\ \A k \in DOMAIN written' :
                             freq'[written'[k]] <= freq'[merge_list'[c]]
      BY DEF HeadInv
    <3>1. CASE c # i
      BY <1>0, <2>1, <3>1, ReceiveType DEF HeadInv
    <3>2. CASE c = i
      <4>1. /\ got'[c] = got[c] + 1
            /\ merge_list'[c] = sorted[c][got[c] + 1]
            /\ got[c] + 1 <= Len(sorted[c])
        BY <1>0, <2>1, <3>2, ReceiveType DEF PipeInv, TypeOK
      <4>2. /\ got[c] >= 1
            /\ merge_list[c] = sorted[c][got[c]]
            /\ \A k \in DOMAIN written : freq[written[k]] <= freq[merge_list[c]]
        BY <2>1, <3>2 DEF HeadInv
      <4>3. freq[merge_list[c]] <= freq[merge_list'[c]]
        <5>1. /\ got[c] \in 1..Len(sorted[c])
              /\ got[c] + 1 \in 1..Len(sorted[c])
              /\ got[c] < got[c] + 1
          BY <4>1, <4>2 DEF TypeOK
        <5>2. freq[sorted[c][got[c]]] <= freq[sorted[c][got[c] + 1]]
          BY <5>1 DEF PipeInv
        <5> QED
          BY <4>1, <4>2, <5>2
      <4>4. \A k \in DOMAIN written : written[k] \in Rec
        BY DEF TypeOK
      <4>5. \A r \in Rec : freq[r] \in Int
        BY FreqBounded DEF TypeOK
      <4>6. merge_list[c] \in Rec /\ merge_list'[c] \in Rec
        BY <2>1, <2>2, <3>2 DEF TypeOK
      <4>7. \A k \in DOMAIN written : freq[written[k]] <= freq[merge_list'[c]]
        <5> SUFFICES ASSUME NEW k \in DOMAIN written
                     PROVE  freq[written[k]] <= freq[merge_list'[c]]
          OBVIOUS
        <5>1. freq[written[k]] \in Int
          BY <4>4, <4>5
        <5>2. freq[merge_list[c]] \in Int /\ freq[merge_list'[c]] \in Int
          BY <4>5, <4>6
        <5>3. freq[written[k]] <= freq[merge_list[c]]
          BY <4>2
        <5> QED
          BY <4>3, <5>1, <5>2, <5>3
      <4>8. got[c] + 1 >= 1
        BY <4>2 DEF TypeOK
      <4> QED
        BY <2>1, <4>1, <4>7, <4>8
    <3> QED
      BY <3>1, <3>2
  <2> QED
    BY <1>4, <2>1, <2>2, <2>3, <2>4 DEF Refill, PhaseInv, OutputSorted
<1>5. ASSUME NEW c \in Child, Emit(c) PROVE MergeInv'
  <2>1. /\ merge_list[c] \in Rec
        /\ written' = Append(written, merge_list[c])
        /\ UNCHANGED <<freq, sorted, sent, got, cpc, merge_list>>
        /\ ppc' = "refill" /\ i' = c
    BY <1>5 DEF Emit, IsSmallestIndex, Eligible, TypeOK, cvars, pipes
  <2>2. TypeOK'
    BY <1>5, <2>1 DEF Emit, TypeOK, cvars, pipes, ParentRunning
  <2>3. /\ \A r \in Rec : freq[r] \in 0..IntMax
        /\ IntMax \in Nat
        /\ \A k \in DOMAIN written : written[k] \in Rec
    BY FreqBounded, InputsAssumption DEF TypeOK
  <2>4. \A d \in Child : merge_list[d] # NoRec =>
          merge_list[d] \in Rec /\ freq[merge_list[c]] <= freq[merge_list[d]]
    <3> SUFFICES ASSUME NEW d \in Child, merge_list[d] # NoRec
                 PROVE  /\ merge_list[d] \in Rec
                        /\ freq[merge_list[c]] <= freq[merge_list[d]]
      OBVIOUS
    <3>1. merge_list[d] \in Rec
      BY DEF TypeOK
    <3>2. freq[merge_list[c]] \in Int /\ freq[merge_list[d]] \in Int
      BY <2>1, <2>3, <3>1
    <3>3. IsSmallestIndex(c) /\ Eligible(c)
      BY <1>5 DEF Emit, IsSmallestIndex
    <3>4. CASE Eligible(d)
      BY <3>1, <3>2, <3>3, <3>4 DEF IsSmallestIndex
    <3>5. CASE ~Eligible(d)
      BY <2>3, <3>1, <3>2, <3>3, <3>5 DEF Eligible
    <3> QED
      BY <3>4, <3>5
  <2>5. \A k \in DOMAIN written : freq[written[k]] <= freq[merge_list[c]]
    BY <2>1, <1>5 DEF HeadInv, Emit, IsSmallestIndex, Eligible
  <2>6. /\ DOMAIN written' = 1..(Len(written) + 1)
        /\ \A k \in 1..Len(written) : k \in DOMAIN written /\ written'[k] = written[k]
        /\ written'[Len(written) + 1] = merge_list[c]
        /\ Len(written) \in Nat
    BY <2>1 DEF TypeOK
  <2>7. \A k \in DOMAIN written' : freq[written'[k]] <= freq[merge_list[c]]
    BY <2>1, <2>3, <2>5, <2>6
  <2>8. HeadInv'
    <3> SUFFICES ASSUME NEW d \in Child, merge_list[d] # NoRec,
                        NEW k \in DOMAIN written'
                 PROVE  freq[written'[k]] <= freq[merge_list[d]]
      BY <2>1 DEF HeadInv
    <3>1. written'[k] \in Rec
      BY <2>1, <2>3, <2>6
    <3>2. merge_list[d] \in Rec /\ freq[merge_list[c]] <= freq[merge_list[d]]
      BY <2>4
    <3>3. freq[written'[k]] <= freq[merge_list[c]]
      BY <2>1, <2>7
    <3>4. /\ freq[written'[k]] \in Int
          /\ freq[merge_list[c]] \in Int
          /\ freq[merge_list[d]] \in Int
      BY <2>1, <2>3, <3>1, <3>2
    <3> QED
      BY <3>2, <3>3, <3>4
  <2>9. OutputSorted'
    <3> SUFFICES ASSUME NEW k \in DOMAIN written', NEW l \in DOMAIN written', k < l
                 PROVE  freq[written'[k]] <= freq[written'[l]]
      BY <2>1 DEF OutputSorted
    <3>1. CASE l = Len(written) + 1
      BY <2>6, <2>7, <3>1
    <3>2. CASE l # Len(written) + 1
      BY <2>6, <3>2 DEF OutputSorted
    <3> QED
      BY <3>1, <3>2
  <2> QED
    BY <1>5, <2>1, <2>2, <2>8, <2>9
    DEF PipeInv, PhaseInv, Emit, IsSmallestIndex, Eligible
<1>6. CASE EmitWild
  <2>1. TypeOK'
    BY <1>6 DEF EmitWild, CloseAll, TypeOK, cvars, ParentGone
  <2> QED
    BY <1>6, <2>1, QuietStep DEF EmitWild, cvars
<1>7. CASE LeaveMerge
  <2>1. TypeOK'
    BY <1>7 DEF LeaveMerge, TypeOK, cvars, pipes, ParentRunning
  <2> QED
    BY <1>7, <2>1, QuietStep DEF LeaveMerge, cvars, pipes
<1>8. CASE CloseReadEnd
  <2>1. i' \in Child /\ ppc' \in {ppc, "wait"}
    BY <1>0, <1>8, AdvanceType DEF CloseReadEnd
  <2>2. TypeOK'
    BY <1>0, <1>8, <2>1 DEF CloseReadEnd, TypeOK, cvars, ParentRunning
  <2> QED
    BY <1>8, <2>1, <2>2, QuietStep DEF CloseReadEnd, cvars
<1>9. CASE Wait
  <2>1. i' \in Child /\ ppc' \in {ppc, "returned"}
    BY <1>0, <1>9, AdvanceType DEF Wait
  <2>2. reaped' \in SUBSET Child /\ printed' \in SUBSET Message /\ result' \in {0, 1}
    BY <1>9 DEF Wait, TypeOK, Report, Message, ChildGone
  <2>3. TypeOK'
    BY <1>9, <2>1, <2>2 DEF Wait, TypeOK, cvars, pipes, ParentGone
  <2> QED
    BY <1>9, <2>1, <2>3, QuietStep DEF Wait, cvars, pipes
<1>10. CASE ParentFault
  <2>1. TypeOK'
    BY <1>10, SizesAssumption DEF ParentFault, CloseAll, TypeOK, cvars, ParentGone
  <2> QED
    BY <1>10, <2>1, QuietStep DEF ParentFault, cvars
<1> QED
  BY <1>1, <1>2, <1>3, <1>4, <1>5, <1>6, <1>7, <1>8, <1>9, <1>10 DEF ParentStep

(* Fork goes through the children in order, and no child creates another. *)
LEMMA ForkStep == IInv /\ [Next]_vars => ForkInv'
<1> SUFFICES ASSUME IInv, [Next]_vars PROVE ForkInv'
  OBVIOUS
<1> USE DEF IInv, MergeInv
<1>1. i \in Child /\ \A c \in Child : c \in Int
  BY NumChildren DEF TypeOK, Child
<1>2. CASE Fork
  <2>1. ppc' = "fork" => i' = i + 1
    BY <1>2 DEF Fork, Advance
  <2>2. \A c \in Child : c # i => cpc'[c] = cpc[c]
    BY <1>2 DEF Fork, TypeOK
  <2> QED
    BY <1>1, <1>2, <2>1, <2>2 DEF Fork, ForkInv
<1>3. CASE ParentStep /\ ~Fork
  BY <1>3 DEF ParentStep, CloseWriteEnd, Prime, Refill, Emit, EmitWild,
     LeaveMerge, CloseReadEnd, Wait, Advance, ForkInv, cvars
<1>4. CASE ParentFault
  BY <1>4 DEF ParentFault, ForkInv
<1>5. ASSUME NEW c \in Child, ChildStep(c) \/ ChildFault(c)
      PROVE  ForkInv'
  <2>1. UNCHANGED <<ppc, i>> /\ cpc[c] # "unborn"
    BY <1>5 DEF ChildStep, ChildFault, CloseInherited, CloseOwnReadEnd,
       ReadAndSort, Write, WriteBrokenPipe, CloseOwnWriteEnd, Exit,
       ChildRunning, pvars
  <2>2. \A d \in Child : d # c => cpc'[d] = cpc[d]
    BY <1>5 DEF ChildStep, ChildFault, CloseInherited, CloseOwnReadEnd,
       ReadAndSort, Write, WriteBrokenPipe, CloseOwnWriteEnd, Exit, TypeOK, cvars
  <2> QED
    BY <2>1, <2>2 DEF ForkInv
<1>6. CASE UNCHANGED vars
  BY <1>6 DEF vars, ForkInv
<1> QED
  BY <1>2, <1>3, <1>4, <1>5, <1>6 DEF Next, Terminated

(* The strengthening is an invariant. *)
LEMMA NextIInv == IInv /\ [Next]_vars => IInv'
<1> SUFFICES ASSUME IInv, [Next]_vars PROVE MergeInv'
  BY ForkStep DEF IInv
<1>1. CASE ParentStep \/ ParentFault
  BY <1>1, ParentSteps DEF IInv
<1>2. CASE \E c \in Child : ChildStep(c) \/ ChildFault(c)
  BY <1>2, ChildSteps DEF IInv
<1>3. CASE UNCHANGED vars
  BY <1>3 DEF vars, IInv, MergeInv, TypeOK, PipeInv, HeadInv, PhaseInv, OutputSorted
<1> QED
  BY <1>1, <1>2, <1>3 DEF Next, Terminated

LEMMA Invariance == Spec => []IInv
BY InitIInv, NextIInv, PTL DEF Spec

-----------------------------------------------------------------------------
(* The theorems. *)

(* The variables of psort keep their types: loop indices stay within the   *)
(* arrays they index, entries of merge_list are records of the file.       *)
THEOREM TypeCorrect == Spec => []TypeOK
<1>1. IInv => TypeOK
  BY DEF IInv, MergeInv
<1> QED
  BY <1>1, Invariance, PTL

(* The output of psort is sorted by frequency at every moment, for every   *)
(* input file, number of children, schedule and failure of the processes.  *)
THEOREM SortedOutput == Spec => []OutputSorted
<1>1. IInv => OutputSorted
  BY DEF IInv, MergeInv
<1> QED
  BY <1>1, Invariance, PTL
-----------------------------------------------------------------------------
(* The shares partition the file. *)

(* The share of a child ends before that of every later child begins. *)
LEMMA SharesInOrder ==
  ASSUME NEW c \in Child, NEW d \in Child, c < d
  PROVE  index(c) + recs_per_process(c) <= index(d)
<1> DEFINE q == NumRecs \div n
           r == recs_remainder
<1>1. /\ q \in Nat /\ r \in Nat /\ r < n /\ n \in Nat
      /\ c \in Nat /\ c < n /\ d \in Nat /\ d < n
  BY Division, NumChildren DEF Child
<1>2. /\ c < r => recs_per_process(c) = q + 1 /\ index(c) = c * (q + 1)
      /\ ~(c < r) => recs_per_process(c) = q /\ index(c) = r * (q + 1) + q * (c - r)
      /\ d < r => index(d) = d * (q + 1)
      /\ ~(d < r) => index(d) = r * (q + 1) + q * (d - r)
  BY DEF recs_per_process, index
<1> HIDE DEF q, r
<1>3. CASE d < r
  <2>1. (c + 1) * (q + 1) <= d * (q + 1)
    BY <1>1
  <2>2. (c + 1) * (q + 1) = c * (q + 1) + (q + 1)
    BY <1>1
  <2> QED
    BY <1>1, <1>2, <1>3, <2>1, <2>2
<1>4. CASE c < r /\ ~(d < r)
  <2>1. (c + 1) * (q + 1) <= r * (q + 1)
    BY <1>1, <1>4
  <2>2. (c + 1) * (q + 1) = c * (q + 1) + (q + 1)
    BY <1>1
  <2>3. q * (d - r) \in Nat
    BY <1>1, <1>4
  <2>4. c * (q + 1) \in Nat /\ r * (q + 1) \in Nat
    BY <1>1
  <2> QED
    BY <1>1, <1>2, <1>4, <2>1, <2>2, <2>3, <2>4
<1>5. CASE ~(c < r)
  <2>1. q * (c - r) + q = q * (c - r + 1)
    BY <1>1
  <2>2. q * (c - r + 1) <= q * (d - r)
    <3>1. c - r + 1 <= d - r /\ c - r + 1 \in Nat /\ d - r \in Nat
      BY <1>1, <1>5
    <3> HIDE <1>5
    <3> QED
      BY <1>1, <3>1
  <2>3. q * (c - r) \in Nat /\ r * (q + 1) \in Nat
    BY <1>1, <1>5
  <2>4. ~(d < r)
    BY <1>1, <1>5
  <2> QED
    BY <1>1, <1>2, <1>5, <2>1, <2>2, <2>3, <2>4
<1> QED
  BY <1>1, <1>3, <1>4, <1>5

(* No record belongs to two children. *)
LEMMA SharesDisjoint ==
  ASSUME NEW c \in Child, NEW d \in Child, NEW r \in Share(c), r \in Share(d)
  PROVE  c = d
<1>1. c \in Int /\ d \in Int
  BY NumChildren DEF Child
<1>2. /\ recs_per_process(c) \in Nat /\ index(c) \in Nat
      /\ recs_per_process(d) \in Nat /\ index(d) \in Nat
  BY ShareInFile
<1>3. /\ index(c) <= r /\ r <= index(c) + recs_per_process(c) - 1
      /\ index(d) <= r /\ r <= index(d) + recs_per_process(d) - 1
      /\ r \in Int
  BY <1>2 DEF Share
<1>4. ~(c < d)
  BY <1>2, <1>3, SharesInOrder
<1>5. ~(d < c)
  BY <1>2, <1>3, SharesInOrder
<1> QED
  BY <1>1, <1>4, <1>5

(* What \div and % give for a numerator and a positive denominator. *)
LEMMA Quotient ==
  ASSUME NEW a \in Nat, NEW b \in Nat \ {0}
  PROVE  \E k \in Nat : b * k <= a /\ a < b * (k + 1)
<1> DEFINE k == a \div b
           m == a % b
<1>1. k \in Int /\ m \in 0..(b - 1) /\ a = b * k + m
  OBVIOUS
<1> HIDE DEF k, m
<1>2. b * (k + 1) = b * k + b
  BY <1>1
<1>3. k \in Nat
  <2>1. SUFFICES ASSUME k + 1 <= 0 PROVE FALSE
    BY <1>1
  <2>2. b * (k + 1) <= 0
    BY <1>1, <2>1
  <2> QED
    BY <1>1, <1>2, <2>2
<1> QED
  BY <1>1, <1>2, <1>3

(* Every record belongs to a child. *)
LEMMA SharesCover ==
  ASSUME NEW x \in Rec
  PROVE  \E c \in Child : x \in Share(c)
<1> DEFINE q == NumRecs \div n
           r == recs_remainder
<1>1. /\ q \in Nat /\ r \in Nat /\ r < n /\ n \in Nat \ {0}
      /\ NumRecs = n * q + r /\ n <= NumRecs
      /\ x \in Nat /\ x < NumRecs
  BY Division, NumChildren, SizesAssumption DEF Rec
<1>2. \A c \in Child :
        /\ c < r => recs_per_process(c) = q + 1 /\ index(c) = c * (q + 1)
        /\ ~(c < r) => recs_per_process(c) = q /\ index(c) = r * (q + 1) + q * (c - r)
  BY DEF recs_per_process, index
<1> HIDE DEF q, r
<1>3. CASE x < r * (q + 1)
  <2>1. PICK k \in Nat : (q + 1) * k <= x /\ x < (q + 1) * (k + 1)
    <3>1. q + 1 \in Nat \ {0}
      BY <1>1
    <3> QED
      BY <1>1, <3>1, Quotient
  <2>2. k < r
    <3>1. SUFFICES ASSUME r <= k PROVE FALSE
      BY <1>1
    <3>2. r * (q + 1) <= (q + 1) * k
      BY <1>1, <3>1
    <3> QED
      BY <1>1, <1>3, <2>1, <3>2
  <2>3. k \in Child
    BY <1>1, <2>2 DEF Child
  <2>4. (q + 1) * (k + 1) = k * (q + 1) + (q + 1) /\ (q + 1) * k = k * (q + 1)
        /\ k * (q + 1) \in Nat
    BY <1>1
  <2>5. x \in Share(k)
    BY <1>1, <1>2, <2>1, <2>2, <2>3, <2>4 DEF Share
  <2> QED
    BY <2>3, <2>5
<1>4. CASE ~(x < r * (q + 1))
  <2>1. q # 0
    <3>1. SUFFICES ASSUME q = 0 PROVE FALSE
      OBVIOUS
    <3>2. n * q = 0
      BY <1>1, <3>1
    <3> QED
      BY <1>1, <3>2
  <2>2. r * (q + 1) = r * q + r /\ r * q \in Nat
    BY <1>1
  <2>3. x - r * (q + 1) \in Nat
    BY <1>1, <1>4, <2>2
  <2>4. PICK k \in Nat : q * k <= x - r * (q + 1) /\ x - r * (q + 1) < q * (k + 1)
    BY <1>1, <2>1, <2>3, Quotient
  <2>5. q * (k + 1) = q * k + q /\ q * k \in Nat
    BY <1>1
  <2>6. k + r < n
    <3>1. SUFFICES ASSUME n - r <= k PROVE FALSE
      BY <1>1
    <3>2. q * (n - r) <= q * k
      BY <1>1, <3>1
    <3>3. q * (n - r) = n * q - r * q
      BY <1>1
    <3> QED
      BY <1>1, <2>2, <2>4, <3>2, <3>3
  <2>7. r + k \in Child /\ ~(r + k < r) /\ (r + k) - r = k
    BY <1>1, <2>6 DEF Child
  <2>8. recs_per_process(r + k) = q /\ index(r + k) = r * (q + 1) + q * k
    BY <1>2, <2>7
  <2>9. x \in Share(r + k)
    BY <1>1, <2>2, <2>4, <2>5, <2>8 DEF Share
  <2> QED
    BY <2>7, <2>9
<1> QED
  BY <1>3, <1>4

(* What qsort returns is the whole share: as many different records of the *)
(* share as there are records in it.                                       *)
LEMMA SharePermuted ==
  ASSUME NEW c \in Child, NEW s \in [1..recs_per_process(c) -> Share(c)],
         \A k, l \in 1..recs_per_process(c) : k # l => s[k] # s[l],
         NEW r \in Share(c)
  PROVE  \E k \in 1..recs_per_process(c) : s[k] = r
<1> DEFINE Slots == 1..recs_per_process(c)
<1>1. recs_per_process(c) \in Nat /\ index(c) \in Nat
  BY ShareInFile
<1>2. IsFiniteSet(Slots) /\ Cardinality(Slots) = recs_per_process(c)
  BY <1>1, FS_Interval
<1>3. IsFiniteSet(Share(c)) /\ Cardinality(Share(c)) = recs_per_process(c)
  BY <1>1, FS_Interval DEF Share
<1>4. s \in Injection(Slots, Share(c))
  BY DEF Injection, IsInjective
<1>5. s \in Surjection(Slots, Share(c))
  BY <1>2, <1>3, <1>4, FS_Injection
<1> QED
  BY <1>5 DEF Surjection

-----------------------------------------------------------------------------
(* The inductive invariant, Whole: IInv and what follows. *)

(* Fork creates the children in order, and the loops after it find all.    *)
BornInv ==
  /\ ppc = "fork" => \A c \in Child : c < i => cpc[c] # "unborn"
  /\ ppc \notin {"fork", "failed"} => \A c \in Child : cpc[c] # "unborn"

(* A child holds the write end of its pipe until it has written; main      *)
(* holds the read end until it closes it.                                  *)
EndsInv ==
  \A c \in Child :
    /\ cpc[c] \in {"inherited", "load", "write"} => c \in writers[c]
    /\ /\ cpc[c] # "unborn"
       /\ \/ ppc \in {"fork", "close_w", "prime", "merge", "refill"}
          \/ ppc = "close_r" /\ c >= i
       => Parent \in readers[c]

(* What a child has sorted is its share, each record once; a child that    *)
(* ended well has sent it all.                                             *)
Sorted(c) ==
  /\ sorted[c] \in [1..recs_per_process(c) -> Share(c)]
  /\ \A k, l \in 1..recs_per_process(c) : k # l => sorted[c][k] # sorted[c][l]

ShareInv ==
  \A c \in Child :
    /\ sorted[c] # <<>> \/ cpc[c] \in {"write", "tidy", "exit0"} => Sorted(c)
    /\ cpc[c] \in {"tidy", "exit0"} => sent[c] = recs_per_process(c)

(* The output holds exactly the records that were read and have left       *)
(* merge_list again, or are about to.                                      *)
Output == {written[k] : k \in DOMAIN written}

Passed(c, m) == m < got[c] \/ merge_list[c] = NoRec \/ (ppc = "refill" /\ c = i)

OutputInv ==
  ppc # "failed" =>
    /\ \A r \in Output : \E c \in Child : \E m \in 1..got[c] : r = sorted[c][m]
    /\ \A c \in Child : \A m \in 1..got[c] : Passed(c, m) <=> sorted[c][m] \in Output

(* Which pipes have no entry in merge_list before and after the merge.     *)
EntryInv ==
  /\ ppc \in {"fork", "close_w"} =>
       num_empty_pipes = 0 /\ \A c \in Child : merge_list[c] = NoRec
  /\ ppc = "prime" => \A c \in Child : c >= i => merge_list[c] = NoRec
  /\ ppc \in {"close_r", "wait", "returned"} => \A c \in Child : merge_list[c] = NoRec

(* wait has answered once for every child in reaped, and said what it had  *)
(* to say about them.                                                      *)
ReapInv ==
  /\ ppc \in ParentRunning \ {"wait"} => reaped = {}
  /\ ppc = "wait" => Cardinality(reaped) = i
  /\ ppc = "returned" => reaped = Child
  /\ \A c \in reaped : cpc[c] \in ChildGone /\ (printed = {} => cpc[c] = "exit0")

Whole == /\ IInv /\ BornInv /\ EndsInv /\ ShareInv /\ NothingTwice /\ OutputInv
         /\ EntryInv /\ EmptyIsFinal /\ ReapInv /\ WildOnlyAtIntMax

-----------------------------------------------------------------------------
(* What a step leaves alone. *)

(* A child's step touches nothing of the parent's, nothing of the other    *)
(* children's, and a child that has ended takes none.                      *)
LEMMA ChildFrame ==
  ASSUME TypeOK, NEW c \in Child, ChildStep(c) \/ ChildFault(c)
  PROVE  /\ UNCHANGED <<freq, ppc, i, got, merge_list, num_empty_pipes,
                        written, reaped, printed, result>>
         /\ \A d \in Child : d # c =>
              cpc'[d] = cpc[d] /\ sorted'[d] = sorted[d] /\ sent'[d] = sent[d]
         /\ cpc[c] \in ChildRunning /\ cpc'[c] # "unborn"
         /\ cpc[c] = "tidy" => cpc'[c] \in ChildGone /\ UNCHANGED <<sent, sorted>>
BY DEF ChildStep, ChildFault, CloseInherited, CloseOwnReadEnd, ReadAndSort,
   Write, WriteBrokenPipe, CloseOwnWriteEnd, Exit, pvars, cvars, pipes, TypeOK,
   ChildRunning, ChildGone

(* A parent's step touches no child but the one it creates.                *)
LEMMA ParentFrame ==
  ASSUME TypeOK, ParentStep \/ ParentFault
  PROVE  /\ UNCHANGED <<freq, sorted, sent>>
         /\ \A c \in Child : cpc'[c] # cpc[c] =>
              ppc = "fork" /\ c = i /\ cpc'[c] = "inherited"
<1>1. CASE Fork
  BY <1>1 DEF Fork, TypeOK
<1>2. CASE ~Fork
  BY <1>2 DEF ParentStep, ParentFault, CloseWriteEnd, Prime, Refill, Emit,
     EmitWild, LeaveMerge, CloseReadEnd, Wait, cvars, pipes
<1> QED
  BY <1>1, <1>2

(* Loop indices and child numbers are integers. *)
LEMMA ChildInt ==
  /\ n \in Nat \ {0} /\ Parent \notin Child
  /\ \A c \in Child : c \in Nat /\ c < n
BY NumChildren DEF Child, Parent

-----------------------------------------------------------------------------
(* The parts of the invariant, one lemma each. *)

LEMMA BornStep ==
  ASSUME Whole, [Next]_vars
  PROVE  BornInv'
<1> USE DEF Whole, IInv, MergeInv
<1>1. i \in Child /\ \A c \in Child : c \in Nat /\ c < n
  BY ChildInt DEF TypeOK
<1>2. ASSUME NEW c \in Child, ChildStep(c) \/ ChildFault(c) PROVE BornInv'
  BY <1>2, ChildFrame DEF BornInv
<1>3. CASE Fork
  <2>1. \A c \in Child : cpc'[c] = IF c = i THEN "inherited" ELSE cpc[c]
    BY <1>3 DEF Fork, TypeOK
  <2>2. \/ ppc' = "fork" /\ i' = i + 1
        \/ ppc' = "close_w" /\ i + 1 >= n
    BY <1>1, <1>3, ChildInt DEF Fork, Advance
  <2> QED
    BY <1>1, <1>3, <2>1, <2>2, ChildInt DEF Fork, BornInv
<1>4. CASE (ParentStep /\ ~Fork) \/ ParentFault
  <2>1. (ppc # "fork" /\ ppc # "failed") \/ ppc' = "failed"
    BY <1>4 DEF ParentStep, ParentFault, CloseWriteEnd, Prime, Refill, Emit,
       EmitWild, LeaveMerge, CloseReadEnd, Wait, Advance
  <2>2. \A c \in Child : cpc'[c] # cpc[c] => cpc'[c] = "inherited"
    BY <1>4, ParentFrame
  <2> QED
    BY <1>4, <2>1, <2>2 DEF BornInv, ParentStep, CloseWriteEnd, Prime, Refill,
       Emit, EmitWild, LeaveMerge, CloseReadEnd, Wait, Advance
<1>5. CASE UNCHANGED vars
  BY <1>5 DEF vars, BornInv
<1> QED
  BY <1>2, <1>3, <1>4, <1>5 DEF Next, Terminated

LEMMA EndsStep ==
  ASSUME Whole, [Next]_vars
  PROVE  EndsInv'
<1> USE DEF Whole, IInv, MergeInv
<1>1. /\ i \in Child /\ Parent \notin Child
      /\ \A c \in Child : c \in Nat /\ c < n
      /\ writers \in [Child -> SUBSET Proc] /\ readers \in [Child -> SUBSET Proc]
      /\ cpc \in [Child -> ChildRunning \cup ChildGone \cup {"unborn"}]
  BY ChildInt DEF TypeOK
<1>2. ASSUME NEW c \in Child, ChildStep(c) \/ ChildFault(c) PROVE EndsInv'
  <2>1. UNCHANGED <<ppc, i>> /\ cpc[c] # "unborn"
        /\ \A d \in Child : d # c => cpc'[d] = cpc[d]
    BY <1>2, ChildFrame DEF ChildRunning
  <2>2. \A d \in Child : Parent \in readers[d] => Parent \in readers'[d]
    BY <1>1, <1>2 DEF ChildStep, ChildFault, CloseInherited, CloseOwnReadEnd,
       ReadAndSort, Write, WriteBrokenPipe, CloseOwnWriteEnd, Exit, CloseAll, pipes
  <2>3. \A d \in Child : d # c /\ d \in writers[d] => d \in writers'[d]
    BY <1>1, <1>2 DEF ChildStep, ChildFault, CloseInherited, CloseOwnReadEnd,
       ReadAndSort, Write, WriteBrokenPipe, CloseOwnWriteEnd, Exit, CloseAll, pipes
  <2>4. cpc'[c] \in {"inherited", "load", "write"} => c \in writers'[c]
    <3>1. CASE CloseInherited(c)
      <4>1. j[c] < c /\ writers'[c] = writers[c] /\ UNCHANGED cpc
        BY <1>1, <3>1 DEF CloseInherited, cvars
      <4> QED
        BY <3>1, <4>1 DEF EndsInv
    <3>2. CASE CloseOwnReadEnd(c) \/ ReadAndSort(c) \/ Write(c)
      BY <1>1, <3>2 DEF CloseOwnReadEnd, ReadAndSort, Write, EndsInv, pipes, cvars
    <3>3. CASE WriteBrokenPipe(c) \/ CloseOwnWriteEnd(c) \/ Exit(c) \/ ChildFault(c)
      BY <1>1, <3>3 DEF WriteBrokenPipe, CloseOwnWriteEnd, Exit, ChildFault
    <3> QED
      BY <1>2, <3>1, <3>2, <3>3 DEF ChildStep
  <2> QED
    BY <2>1, <2>2, <2>3, <2>4 DEF EndsInv
<1>3. CASE Fork
  <2>1. \A c \in Child : /\ c \in writers[c] => c \in writers'[c]
                         /\ Parent \in readers[c] => Parent \in readers'[c]
    BY <1>1, <1>3 DEF Fork
  <2>2. i \in writers'[i] /\ Parent \in readers'[i]
    BY <1>1, <1>3 DEF Fork
  <2>3. \A c \in Child : c # i => cpc'[c] = cpc[c]
    BY <1>1, <1>3 DEF Fork
  <2>4. ppc = "fork" /\ ppc' \in {"fork", "close_w"}
    BY <1>3 DEF Fork, Advance
  <2> QED
    BY <2>1, <2>2, <2>3, <2>4 DEF EndsInv
<1>4. CASE CloseWriteEnd
  <2>1. \A c \in Child : c \in writers[c] => c \in writers'[c]
    BY <1>1, <1>4 DEF CloseWriteEnd
  <2>2. UNCHANGED <<readers, cpc>> /\ ppc = "close_w" /\ ppc' \in {"close_w", "prime"}
    BY <1>4 DEF CloseWriteEnd, Advance, cvars
  <2> QED
    BY <2>1, <2>2 DEF EndsInv
<1>5. CASE Prime \/ Refill \/ (\E c \in Child : Emit(c)) \/ LeaveMerge \/ Wait
  <2>1. UNCHANGED <<writers, readers, cpc>>
        /\ \/ ppc \in {"prime", "merge", "refill"}
           \/ ppc' \in {"wait", "returned"}
    BY <1>5 DEF Prime, Refill, Emit, LeaveMerge, Wait, Advance, cvars, pipes
  <2> QED
    BY <2>1 DEF EndsInv
<1>6. CASE CloseReadEnd
  <2>1. /\ UNCHANGED <<writers, cpc>> /\ ppc = "close_r"
        /\ ppc' = "wait" \/ (ppc' = "close_r" /\ i' = i + 1)
        /\ \A c \in Child : c # i => readers'[c] = readers[c]
    BY <1>1, <1>6 DEF CloseReadEnd, Advance, cvars
  <2> QED
    BY <1>1, <2>1 DEF EndsInv
<1>7. CASE EmitWild \/ ParentFault
  <2>1. /\ UNCHANGED cpc /\ ppc' \in {"wild", "failed"}
        /\ \A c \in Child : c \in writers[c] => c \in writers'[c]
    BY <1>1, <1>7 DEF EmitWild, ParentFault, CloseAll, cvars
  <2> QED
    BY <2>1 DEF EndsInv
<1>8. CASE UNCHANGED vars
  BY <1>8 DEF vars, EndsInv
<1> QED
  BY <1>2, <1>3, <1>4, <1>5, <1>6, <1>7, <1>8 DEF Next, ParentStep, Terminated

LEMMA ShareStep ==
  ASSUME Whole, [Next]_vars
  PROVE  ShareInv'
<1> USE DEF Whole, IInv, MergeInv
<1>1. /\ sent \in [Child -> Nat] /\ sorted \in [Child -> Seq(Rec)]
      /\ cpc \in [Child -> ChildRunning \cup ChildGone \cup {"unborn"}]
  BY DEF TypeOK
<1>2. ASSUME NEW c \in Child, ChildStep(c) \/ ChildFault(c) PROVE ShareInv'
  <2>1. \A d \in Child : d # c =>
          cpc'[d] = cpc[d] /\ sorted'[d] = sorted[d] /\ sent'[d] = sent[d]
    BY <1>2, ChildFrame
  <2>2. /\ sorted'[c] # <<>> \/ cpc'[c] \in {"write", "tidy", "exit0"} => Sorted(c)'
        /\ cpc'[c] \in {"tidy", "exit0"} => sent'[c] = recs_per_process(c)
    <3>1. CASE ReadAndSort(c)
      BY <1>1, <3>1 DEF ReadAndSort, SortedShare, Sorted
    <3>2. CASE CloseInherited(c) \/ CloseOwnReadEnd(c)
      <4>1. UNCHANGED sorted /\ cpc'[c] \in {"inherited", "load"}
        BY <1>1, <3>2 DEF CloseInherited, CloseOwnReadEnd
      <4> QED
        BY <4>1 DEF ShareInv, Sorted
    <3>3. CASE Write(c)
      <4>1. UNCHANGED <<sorted, cpc>> /\ cpc[c] = "write"
        BY <3>3 DEF Write, cvars
      <4> QED
        BY <4>1 DEF ShareInv, Sorted
    <3>4. CASE CloseOwnWriteEnd(c) \/ Exit(c)
      <4>1. /\ UNCHANGED <<sorted, sent>>
            /\ cpc[c] \in {"write", "tidy"} /\ cpc'[c] \in {"tidy", "exit0"}
            /\ cpc[c] = "write" => sent[c] = recs_per_process(c)
        BY <1>1, <3>4 DEF CloseOwnWriteEnd, Exit
      <4> QED
        BY <4>1 DEF ShareInv, Sorted
    <3>5. CASE WriteBrokenPipe(c) \/ ChildFault(c)
      <4>1. UNCHANGED sorted /\ cpc'[c] \in {"exit1", "signalled"}
        BY <1>1, <3>5 DEF WriteBrokenPipe, ChildFault
      <4> QED
        BY <4>1 DEF ShareInv, Sorted
    <3> QED
      BY <1>2, <3>1, <3>2, <3>3, <3>4, <3>5 DEF ChildStep
  <2> QED
    BY <2>1, <2>2 DEF ShareInv, Sorted
<1>3. CASE ParentStep \/ ParentFault
  <2>1. /\ UNCHANGED <<sorted, sent>>
        /\ \A c \in Child : cpc'[c] # cpc[c] => cpc'[c] = "inherited"
    BY <1>3, ParentFrame
  <2> QED
    BY <2>1 DEF ShareInv, Sorted
<1>4. CASE UNCHANGED vars
  BY <1>4 DEF vars, ShareInv, Sorted
<1> QED
  BY <1>2, <1>3, <1>4 DEF Next, Terminated

(* Different places of the sorted shares hold different records. *)
LEMMA PlacesDiffer ==
  ASSUME TypeOK, ShareInv, NEW c \in Child, NEW d \in Child,
         NEW k \in 1..Len(sorted[c]), NEW m \in 1..Len(sorted[d]),
         sorted[c][k] = sorted[d][m]
  PROVE  c = d /\ k = m
<1>1. /\ sorted[c] \in Seq(Rec) /\ sorted[d] \in Seq(Rec)
      /\ sorted[c] # <<>> /\ sorted[d] # <<>>
  BY DEF TypeOK
<1>2. Sorted(c) /\ Sorted(d)
  BY <1>1 DEF ShareInv
<1>3. recs_per_process(c) \in Nat /\ recs_per_process(d) \in Nat
  BY ShareInFile
<1>4. k \in 1..recs_per_process(c) /\ m \in 1..recs_per_process(d)
  BY <1>1, <1>2, <1>3 DEF Sorted
<1>5. c = d
  BY <1>2, <1>4, SharesDisjoint DEF Sorted
<1> QED
  BY <1>2, <1>4, <1>5 DEF Sorted

(* Appending a record adds just that record to the output. *)
LEMMA OutputAppend ==
  ASSUME written \in Seq(Rec), NEW r \in Rec, written' = Append(written, r)
  PROVE  Output' = Output \cup {r}
<1>1. /\ DOMAIN written = 1..Len(written) /\ Len(written) \in Nat
      /\ DOMAIN written' = 1..(Len(written) + 1)
      /\ \A k \in 1..Len(written) : written'[k] = written[k]
      /\ written'[Len(written) + 1] = r
  OBVIOUS
<1> QED
  BY <1>1 DEF Output

(* The record that Emit writes has not been written before. *)
LEMMA EmitFresh ==
  ASSUME Whole, NEW c \in Child, Emit(c)
  PROVE  /\ merge_list[c] \in Rec /\ merge_list[c] = sorted[c][got[c]]
         /\ got[c] \in 1..got[c] /\ got[c] \in 1..Len(sorted[c])
         /\ merge_list[c] \notin Output
<1>1. ppc = "merge" /\ merge_list[c] # NoRec
  BY DEF Emit, IsSmallestIndex, Eligible
<1>2. /\ merge_list[c] \in Rec /\ merge_list[c] = sorted[c][got[c]]
      /\ got[c] >= 1 /\ got[c] \in Nat
      /\ got[c] <= sent[c] /\ sent[c] <= Len(sorted[c])
      /\ sent[c] \in Nat /\ Len(sorted[c]) \in Nat
  BY <1>1 DEF Whole, IInv, MergeInv, TypeOK, HeadInv, PipeInv
<1>3. got[c] \in 1..got[c] /\ got[c] \in 1..Len(sorted[c])
  BY <1>2
<1>4. ~Passed(c, got[c])
  BY <1>1, <1>2 DEF Passed
<1> QED
  BY <1>1, <1>2, <1>3, <1>4 DEF Whole, OutputInv

LEMMA NothingTwiceStep ==
  ASSUME Whole, [Next]_vars
  PROVE  NothingTwice'
<1>1. ASSUME NEW c \in Child, Emit(c) PROVE NothingTwice'
  <2>1. merge_list[c] \in Rec /\ merge_list[c] \notin Output
    BY <1>1, EmitFresh
  <2>2. /\ written \in Seq(Rec)
        /\ written' = Append(written, merge_list[c])
    BY <1>1 DEF Emit, Whole, IInv, MergeInv, TypeOK
  <2>3. /\ DOMAIN written = 1..Len(written) /\ Len(written) \in Nat
        /\ DOMAIN written' = 1..(Len(written) + 1)
        /\ \A k \in 1..Len(written) : written'[k] = written[k]
        /\ written'[Len(written) + 1] = merge_list[c]
    BY <2>1, <2>2
  <2>4. \A k \in 1..Len(written) : written[k] # merge_list[c]
    BY <2>1, <2>3 DEF Output
  <2> QED
    BY <2>3, <2>4 DEF NothingTwice, Whole
<1>2. CASE UNCHANGED written
  BY <1>2 DEF NothingTwice, Whole
<1>3. ASSUME NEW c \in Child, ChildStep(c) \/ ChildFault(c) PROVE UNCHANGED written
  BY <1>3, ChildFrame DEF Whole, IInv, MergeInv
<1> QED
  BY <1>1, <1>2, <1>3 DEF Next, ParentStep, ParentFault, Fork, CloseWriteEnd,
     Prime, Refill, EmitWild, LeaveMerge, CloseReadEnd, Wait, Terminated, vars

(* Places that have been passed, and the output, stay as they are. *)
LEMMA OutputQuiet ==
  ASSUME Whole, UNCHANGED <<got, merge_list, written>>,
         \A c \in Child : sorted'[c] # sorted[c] => got[c] = 0,
         \/ ppc' = "failed"
         \/ UNCHANGED <<ppc, i>>
         \/ ppc \notin {"refill", "failed"} /\ ppc' # "refill"
  PROVE  OutputInv'
<1>1. CASE ppc' = "failed"
  BY <1>1 DEF OutputInv
<1>2. CASE ppc' # "failed"
  <2>1. ppc # "failed" /\ UNCHANGED Output
    BY <1>2 DEF Output
  <2>2. \A c \in Child : \A m \in 1..got[c] : sorted'[c] = sorted[c]
    <3>1. 1..0 = {}
      OBVIOUS
    <3> QED
      BY <3>1
  <2>3. \A c \in Child, m \in Int : Passed(c, m)' <=> Passed(c, m)
    BY <1>2 DEF Passed
  <2>4. \A c \in Child : \A m \in 1..got[c] : m \in Int
    OBVIOUS
  <2> QED
    BY <2>1, <2>2, <2>3, <2>4 DEF Whole, OutputInv
<1> QED
  BY <1>1, <1>2

LEMMA OutputStep ==
  ASSUME Whole, [Next]_vars
  PROVE  OutputInv'
<1> USE DEF Whole, IInv, MergeInv
<1>0. /\ i \in Child /\ got \in [Child -> Nat]
      /\ \A c \in Child : got[c] <= Len(sorted[c]) /\ Len(sorted[c]) \in Nat
    BY DEF TypeOK, PipeInv
<1>1. ASSUME NEW c \in Child, ChildStep(c) \/ ChildFault(c) PROVE OutputInv'
  <2>1. \A d \in Child : sorted'[d] # sorted[d] => cpc[d] = "load"
    BY <1>1 DEF ChildStep, ChildFault, CloseInherited, CloseOwnReadEnd, ReadAndSort,
       Write, WriteBrokenPipe, CloseOwnWriteEnd, Exit, cvars, TypeOK
  <2>2. \A d \in Child : cpc[d] = "load" => got[d] = 0
    BY <1>0 DEF PipeInv
  <2>3. UNCHANGED <<got, merge_list, written, ppc, i>>
    BY <1>1, ChildFrame
  <2> QED
    BY <2>1, <2>2, <2>3, OutputQuiet
<1>2. CASE Fork \/ CloseWriteEnd \/ EmitWild \/ LeaveMerge \/ CloseReadEnd \/ Wait \/ ParentFault
  <2>1. /\ UNCHANGED <<got, merge_list, written, sorted>>
        /\ \/ ppc' = "failed"
           \/ ppc \notin {"refill", "failed"} /\ ppc' # "refill"
    BY <1>2 DEF Fork, CloseWriteEnd, EmitWild, LeaveMerge, CloseReadEnd, Wait,
       ParentFault, Advance, cvars, pipes
  <2> QED
    BY <2>1, OutputQuiet
<1>3. CASE Prime
  <2>1. /\ ppc = "prime" /\ ppc' \in {"prime", "merge"}
        /\ Receive(i) /\ UNCHANGED <<sorted, written>>
    BY <1>3 DEF Prime, Advance, cvars
  <2>2. written = <<>> /\ Output = {} /\ Output' = {}
    BY <2>1 DEF PhaseInv, Output
  <2>3. \A c \in Child : \A m \in 1..got[c] : m >= got[c] /\ merge_list[c] # NoRec
    <3> SUFFICES ASSUME NEW c \in Child, NEW m \in 1..got[c]
                 PROVE  m >= got[c] /\ merge_list[c] # NoRec
      OBVIOUS
    <3>1. ~Passed(c, m)
      BY <2>1, <2>2 DEF OutputInv
    <3> QED
      BY <1>0, <3>1 DEF Passed
  <2>4. merge_list[i] = NoRec
    BY <1>0, <2>1, ChildInt DEF EntryInv
  <2>5. got[i] = 0
    <3>1. got[i] \in Nat /\ (got[i] # 0 => 1 \in 1..got[i])
      BY <1>0
    <3> QED
      BY <1>0, <2>3, <2>4, <3>1
  <2>6. \A c \in Child : \A m \in 1..got'[c] : m >= got'[c] /\ merge_list'[c] # NoRec
    <3> SUFFICES ASSUME NEW c \in Child, NEW m \in 1..got'[c]
                 PROVE  m >= got'[c] /\ merge_list'[c] # NoRec
      OBVIOUS
    <3>1. CASE c # i
      BY <1>0, <2>1, <2>3, <3>1, ReceiveType
    <3>2. CASE c = i
      <4>1. CASE got[i] < sent[i] /\ got' = [got EXCEPT ![i] = @ + 1]
                 /\ merge_list' = [merge_list EXCEPT ![i] = sorted[i][got[i] + 1]]
        <5>1. sorted[i][1] \in Rec /\ got'[i] = 1 /\ merge_list'[i] = sorted[i][1]
          BY <1>0, <2>5, <4>1 DEF TypeOK, PipeInv
        <5> QED
          BY <3>2, <5>1 DEF Rec, NoRec
      <4>2. CASE UNCHANGED got
        BY <2>5, <3>2, <4>2
      <4> QED
        BY <2>1, <4>1, <4>2 DEF Receive
    <3> QED
      BY <3>1, <3>2
  <2> QED
    <3>1. \A c \in Child : \A m \in 1..got'[c] : ~(m < got'[c])
      <4>1. got' \in [Child -> Nat]
        BY <1>0, <2>1, ReceiveType
      <4> QED
        BY <2>6, <4>1
    <3> QED
      BY <2>1, <2>2, <2>6, <3>1 DEF OutputInv, Passed
<1>4. CASE Refill
  <2>1. /\ ppc = "refill" /\ ppc' = "merge" /\ merge_list[i] # NoRec
        /\ Receive(i) /\ UNCHANGED <<sorted, written>> /\ UNCHANGED Output
    BY <1>4 DEF Refill, PhaseInv, cvars, Output
  <2>2. /\ \A r \in Output : \E c \in Child : \E m \in 1..got[c] : r = sorted[c][m]
        /\ \A c \in Child : \A m \in 1..got[c] :
             Passed(c, m) <=> sorted[c][m] \in Output
    BY <2>1 DEF OutputInv
  <2>3. got' \in [Child -> Nat] /\ \A c \in Child : got[c] <= got'[c]
    BY <1>0, <2>1, ReceiveType
  <2>4. \A r \in Output : \E c \in Child : \E m \in 1..got'[c] : r = sorted[c][m]
    BY <1>0, <2>2, <2>3
  <2>5. \A c \in Child : \A m \in 1..got'[c] :
          Passed(c, m)' <=> sorted[c][m] \in Output
    <3> SUFFICES ASSUME NEW c \in Child, NEW m \in 1..got'[c]
                 PROVE  Passed(c, m)' <=> sorted[c][m] \in Output
      OBVIOUS
    <3>1. CASE c # i
      <4>1. got'[c] = got[c] /\ merge_list'[c] = merge_list[c]
        BY <1>0, <2>1, <3>1, ReceiveType
      <4> QED
        BY <2>1, <2>2, <3>1, <4>1 DEF Passed
    <3>2. CASE c = i /\ m <= got[i]
      <4>1. m \in 1..got[i] /\ Passed(i, m)
        BY <1>0, <2>1, <2>3, <3>2 DEF Passed
      <4>2. got'[i] = got[i] + 1 \/ merge_list'[i] = NoRec
        BY <1>0, <2>1, ReceiveType
      <4> QED
        BY <1>0, <2>2, <3>2, <4>1, <4>2 DEF Passed
    <3>3. CASE c = i /\ ~(m <= got[i])
      <4>1. got'[i] # got[i]
        BY <1>0, <2>3, <3>3
      <4>2. /\ got[i] < sent[i] /\ got' = [got EXCEPT ![i] = @ + 1]
            /\ merge_list' = [merge_list EXCEPT ![i] = sorted[i][got[i] + 1]]
        BY <2>1, <4>1 DEF Receive
      <4>3. m = got[i] + 1 /\ got'[i] = got[i] + 1 /\ m \in 1..Len(sorted[i])
        BY <1>0, <2>3, <3>3, <4>2 DEF TypeOK, PipeInv
      <4>4. sorted[i][m] \in Rec /\ merge_list'[i] = sorted[i][m]
        BY <1>0, <4>2, <4>3 DEF TypeOK
      <4>5. ~Passed(c, m)'
        BY <1>0, <2>1, <3>3, <4>3, <4>4 DEF Passed, Rec, NoRec
      <4>6. sorted[i][m] \notin Output
        <5>1. SUFFICES ASSUME NEW d \in Child, NEW k \in 1..got[d],
                              sorted[i][m] = sorted[d][k]
                       PROVE  FALSE
          BY <2>2
        <5>2. k \in 1..Len(sorted[d])
          BY <1>0
        <5>3. i = d /\ m = k
          BY <1>0, <4>3, <5>1, <5>2, PlacesDiffer
        <5> QED
          BY <1>0, <4>3, <5>3
      <4> QED
        BY <3>3, <4>5, <4>6
    <3> QED
      BY <3>1, <3>2, <3>3
  <2> QED
    BY <2>1, <2>4, <2>5 DEF OutputInv
<1>5. ASSUME NEW c \in Child, Emit(c) PROVE OutputInv'
  <2>1. /\ UNCHANGED <<got, merge_list, sorted>>
        /\ ppc = "merge" /\ ppc' = "refill" /\ i' = c
        /\ written' = Append(written, merge_list[c])
    BY <1>5 DEF Emit, cvars, pipes
  <2>2. /\ merge_list[c] \in Rec /\ merge_list[c] = sorted[c][got[c]]
        /\ got[c] \in 1..got[c] /\ got[c] \in 1..Len(sorted[c])
    BY <1>5, EmitFresh
  <2>3. Output' = Output \cup {sorted[c][got[c]]}
    BY <2>1, <2>2, OutputAppend DEF TypeOK
  <2>4. /\ \A r \in Output : \E d \in Child : \E m \in 1..got[d] : r = sorted[d][m]
        /\ \A d \in Child : \A m \in 1..got[d] :
             Passed(d, m) <=> sorted[d][m] \in Output
    BY <2>1 DEF OutputInv
  <2>5. ASSUME NEW d \in Child, NEW m \in 1..got[d]
        PROVE  Passed(d, m)' <=> sorted[d][m] \in Output'
    <3>1. m \in 1..Len(sorted[d]) /\ m \in Int /\ got[d] \in Nat
      BY <1>0
    <3>2. CASE d = c /\ m = got[c]
      BY <2>1, <2>3, <3>2 DEF Passed
    <3>3. CASE ~(d = c /\ m = got[c])
      <4>1. sorted[d][m] # sorted[c][got[c]]
        BY <2>2, <3>1, <3>3, PlacesDiffer
      <4>2. Passed(d, m)' <=> Passed(d, m)
        <5>1. d = c => m < got[c]
          BY <3>1, <3>3
        <5> QED
          BY <2>1, <5>1 DEF Passed
      <4> QED
        BY <2>3, <2>4, <4>1, <4>2
    <3> QED
      BY <3>2, <3>3
  <2> QED
    BY <2>1, <2>2, <2>3, <2>4, <2>5 DEF OutputInv
<1>6. CASE UNCHANGED vars
  BY <1>6, OutputQuiet DEF vars
<1> QED
  BY <1>1, <1>2, <1>3, <1>4, <1>5, <1>6 DEF Next, ParentStep, Terminated

(* The children are as many as there are. *)
LEMMA ChildrenCounted == IsFiniteSet(Child) /\ Cardinality(Child) = n
<1>1. n - 1 \in Int /\ ~(0 > n - 1) /\ n - 1 - 0 + 1 = n
  BY ChildInt
<1> QED
  BY <1>1, FS_Interval DEF Child

EmptiedSet == {c \in Child : Emptied(c)}

(* read counts a pipe as empty when its child is done and nothing is left. *)
LEMMA ReceiveEmptied ==
  ASSUME Whole, NEW x \in Child, x = i, Receive(x), UNCHANGED <<cpc, sent, sorted>>,
         ppc \in {"prime", "refill"}, ppc' \in {"prime", "merge"},
         ~Emptied(x), Emptied(x)' <=> merge_list'[x] = NoRec,
         \A c \in Child : c # x => (Emptied(c)' <=> Emptied(c))
  PROVE  EmptyIsFinal'
<1> USE DEF Whole, IInv, MergeInv
<1>1. /\ num_empty_pipes \in Nat
      /\ got \in [Child -> Nat] /\ merge_list \in [Child -> Rec \cup {NoRec}]
      /\ cpc \in [Child -> ChildRunning \cup ChildGone \cup {"unborn"}]
  BY DEF TypeOK
<1>2. /\ \A c \in Child : Emptied(c) =>
           cpc[c] \in ChildGone \cup {"tidy"} /\ got[c] = sent[c]
      /\ num_empty_pipes = Cardinality(EmptiedSet)
  BY DEF EmptyIsFinal, EmptiedSet
<1>3. IsFiniteSet(EmptiedSet) /\ x \notin EmptiedSet
  BY ChildrenCounted, FS_Subset DEF EmptiedSet
<1>4. CASE /\ got[x] < sent[x]
           /\ got' = [got EXCEPT ![x] = @ + 1]
           /\ merge_list' = [merge_list EXCEPT ![x] = sorted[x][got[x] + 1]]
           /\ UNCHANGED num_empty_pipes
  <2>1. merge_list'[x] # NoRec
    <3>1. got[x] + 1 \in 1..Len(sorted[x])
      BY <1>1, <1>4 DEF TypeOK, PipeInv
    <3>2. sorted[x][got[x] + 1] \in Rec
      BY <1>1, <3>1 DEF TypeOK
    <3> QED
      BY <1>1, <1>4, <3>2 DEF Rec, NoRec
  <2>2. EmptiedSet' = EmptiedSet
    BY <2>1 DEF EmptiedSet
  <2>3. \A c \in Child : Emptied(c)' => Emptied(c) /\ got'[c] = got[c]
    BY <1>1, <1>4, <2>1
  <2>4. \A c \in Child : Emptied(c)' =>
          cpc'[c] \in ChildGone \cup {"tidy"} /\ got'[c] = sent'[c]
    BY <1>2, <2>3
  <2>5. num_empty_pipes' = Cardinality(EmptiedSet')
    BY <1>2, <1>4, <2>2
  <2> QED
    BY <2>4, <2>5 DEF EmptyIsFinal, EmptiedSet
<1>5. CASE /\ AtEnd(x)
           /\ merge_list' = [merge_list EXCEPT ![x] = NoRec]
           /\ num_empty_pipes' = num_empty_pipes + 1
           /\ UNCHANGED got
  <2>1. merge_list'[x] = NoRec /\ got[x] = sent[x] /\ writers[x] = {}
    BY <1>1, <1>5 DEF AtEnd
  <2>2. cpc[x] \in ChildGone \cup {"tidy"}
    BY <1>1, <2>1 DEF EndsInv, BornInv, ChildRunning
  <2>3. EmptiedSet' = EmptiedSet \cup {x}
    BY <1>1, <2>1 DEF EmptiedSet
  <2>4. Cardinality(EmptiedSet \cup {x}) = num_empty_pipes + 1
    BY <1>2, <1>3, FS_AddElement
  <2>5. \A c \in Child : Emptied(c)' =>
          cpc'[c] \in ChildGone \cup {"tidy"} /\ got'[c] = sent'[c]
    BY <1>2, <1>5, <2>1, <2>2
  <2>6. num_empty_pipes' = Cardinality(EmptiedSet')
    BY <1>5, <2>3, <2>4
  <2> QED
    BY <2>5, <2>6 DEF EmptyIsFinal, EmptiedSet
<1> QED
  BY <1>4, <1>5 DEF Receive

LEMMA EmptyIsFinalStep ==
  ASSUME Whole, [Next]_vars
  PROVE  EmptyIsFinal'
<1> USE DEF Whole, IInv, MergeInv
<1>0. i \in Child /\ \A c \in Child : c \in Nat /\ c < n
  BY ChildInt DEF TypeOK
<1>1. ASSUME NEW c \in Child, ChildStep(c) \/ ChildFault(c) PROVE EmptyIsFinal'
  <2>1. /\ UNCHANGED <<ppc, i, got, merge_list, num_empty_pipes>>
        /\ \A d \in Child : d # c => cpc'[d] = cpc[d] /\ sent'[d] = sent[d]
        /\ cpc[c] \in ChildRunning
        /\ cpc[c] = "tidy" => cpc'[c] \in ChildGone /\ UNCHANGED sent
    BY <1>1, ChildFrame
  <2>2. \A d \in Child : Emptied(d)' <=> Emptied(d)
    BY <2>1 DEF Emptied
  <2>3. \A d \in Child : Emptied(d) => /\ cpc'[d] \in ChildGone \cup {"tidy"}
                                       /\ got[d] = sent'[d]
    BY <2>1 DEF EmptyIsFinal, ChildRunning, ChildGone
  <2>4. {d \in Child : Emptied(d)'} = {d \in Child : Emptied(d)}
    BY <2>2
  <2> QED
    BY <2>1, <2>2, <2>3, <2>4 DEF EmptyIsFinal
<1>2. CASE Fork \/ ParentFault \/ EmitWild
  <2>1. ppc' \in {"fork", "close_w", "failed", "wild"}
    BY <1>2 DEF Fork, ParentFault, EmitWild, Advance
  <2> QED
    BY <2>1 DEF EmptyIsFinal, Emptied
<1>3. CASE CloseWriteEnd
  <2>1. /\ UNCHANGED num_empty_pipes /\ num_empty_pipes = 0
        /\ ppc' = "close_w" \/ (ppc' = "prime" /\ i' = 0)
    BY <1>3 DEF CloseWriteEnd, Advance, EntryInv
  <2>2. ASSUME NEW c \in Child PROVE ~Emptied(c)'
    BY <1>0, <2>1 DEF Emptied
  <2>3. {c \in Child : Emptied(c)'} = {}
    BY <2>2
  <2> QED
    BY <2>1, <2>2, <2>3, FS_EmptySet DEF EmptyIsFinal
<1>4. CASE Prime
  <2>1. /\ ppc = "prime" /\ Receive(i) /\ UNCHANGED <<cpc, sent, sorted>>
        /\ \/ ppc' = "prime" /\ i' = i + 1
           \/ ppc' = "merge" /\ i + 1 >= n
    BY <1>0, <1>4, ChildInt DEF Prime, Advance, cvars
  <2>2. PICK x \in Child : x = i
    BY <1>0
  <2>3. ~Emptied(x)
    BY <1>0, <2>1, <2>2 DEF Emptied
  <2>4. \A c \in Child : c # x => merge_list'[c] = merge_list[c]
    BY <1>0, <2>1, <2>2, ReceiveType
  <2>5. \A c \in Child : c # x => (Emptied(c)' <=> Emptied(c))
    BY <1>0, <2>1, <2>2, <2>4, ChildInt DEF Emptied
  <2>6. Emptied(x)' <=> merge_list'[x] = NoRec
    BY <1>0, <2>1, <2>2 DEF Emptied
  <2> QED
    BY <2>1, <2>2, <2>3, <2>5, <2>6, ReceiveEmptied
<1>5. CASE Refill
  <2>1. /\ ppc = "refill" /\ ppc' = "merge" /\ merge_list[i] # NoRec
        /\ Receive(i) /\ UNCHANGED <<cpc, sent, sorted>>
    BY <1>5 DEF Refill, PhaseInv, cvars
  <2>2. PICK x \in Child : x = i
    BY <1>0
  <2>3. ~Emptied(x) /\ (Emptied(x)' <=> merge_list'[x] = NoRec)
    BY <2>1, <2>2 DEF Emptied
  <2>4. \A c \in Child : c # x => merge_list'[c] = merge_list[c]
    BY <1>0, <2>1, <2>2, ReceiveType
  <2>5. \A c \in Child : c # x => (Emptied(c)' <=> Emptied(c))
    BY <2>1, <2>4 DEF Emptied
  <2> QED
    BY <2>1, <2>2, <2>3, <2>5, ReceiveEmptied
<1>6. CASE (\E c \in Child : Emit(c)) \/ LeaveMerge \/ CloseReadEnd \/ Wait
  <2>1. /\ UNCHANGED <<cpc, sent, got, merge_list, num_empty_pipes>>
        /\ ppc \in {"merge", "refill", "close_r", "wait", "returned"}
        /\ ppc' \in {"merge", "refill", "close_r", "wait", "returned"}
    BY <1>6 DEF Emit, LeaveMerge, CloseReadEnd, Wait, Advance, cvars, pipes
  <2>2. \A c \in Child : Emptied(c)' <=> Emptied(c)
    BY <2>1 DEF Emptied
  <2>3. {c \in Child : Emptied(c)'} = {c \in Child : Emptied(c)}
    BY <2>2
  <2> QED
    BY <2>1, <2>2, <2>3 DEF EmptyIsFinal
<1>7. CASE UNCHANGED vars
  BY <1>7 DEF vars, EmptyIsFinal, Emptied
<1> QED
  BY <1>1, <1>2, <1>3, <1>4, <1>5, <1>6, <1>7 DEF Next, ParentStep, Terminated

(* The merge ends when every pipe has been seen to be empty. *)
LEMMA AllEmptied ==
  ASSUME Whole, ppc = "merge", ~Merging
  PROVE  \A c \in Child : merge_list[c] = NoRec
<1>1. num_empty_pipes = Cardinality(EmptiedSet) /\ num_empty_pipes \in Nat
  BY DEF Whole, IInv, MergeInv, TypeOK, EmptyIsFinal, EmptiedSet
<1>2. IsFiniteSet(Child) /\ Cardinality(Child) = n
  BY ChildrenCounted
<1>3. EmptiedSet \in SUBSET Child
  BY DEF EmptiedSet
<1>4. Cardinality(EmptiedSet) <= n
  BY <1>2, <1>3, FS_Subset
<1>5. Cardinality(EmptiedSet) = n
  BY <1>1, <1>4, ChildInt DEF Merging
<1>6. EmptiedSet = Child
  BY <1>2, <1>3, <1>5, FS_Subset
<1> QED
  BY <1>6 DEF EmptiedSet, Emptied

LEMMA EntryStep ==
  ASSUME Whole, [Next]_vars
  PROVE  EntryInv'
<1> USE DEF Whole, IInv, MergeInv
<1>0. i \in Child /\ \A c \in Child : c \in Nat /\ c < n
  BY ChildInt DEF TypeOK
<1>1. ASSUME NEW c \in Child, ChildStep(c) \/ ChildFault(c) PROVE EntryInv'
  BY <1>1, ChildFrame DEF EntryInv
<1>2. CASE Fork \/ CloseWriteEnd
  BY <1>2 DEF Fork, CloseWriteEnd, Advance, EntryInv
<1>3. CASE Prime
  <2>1. /\ ppc = "prime" /\ Receive(i)
        /\ ppc' = "merge" \/ (ppc' = "prime" /\ i' = i + 1)
    BY <1>3 DEF Prime, Advance
  <2>2. \A c \in Child : c # i => merge_list'[c] = merge_list[c]
    BY <1>0, <2>1, ReceiveType
  <2> QED
    BY <1>0, <2>1, <2>2 DEF EntryInv
<1>4. CASE LeaveMerge
  <2>1. \A c \in Child : merge_list[c] = NoRec
    BY <1>4, AllEmptied DEF LeaveMerge
  <2> QED
    BY <1>4, <2>1 DEF LeaveMerge, EntryInv
<1>5. CASE CloseReadEnd \/ Wait
  <2>1. /\ UNCHANGED merge_list /\ ppc \in {"close_r", "wait"}
        /\ ppc' \in {"close_r", "wait", "returned"}
    BY <1>5 DEF CloseReadEnd, Wait, Advance
  <2> QED
    BY <2>1 DEF EntryInv
<1>6. CASE Refill \/ (\E c \in Child : Emit(c)) \/ EmitWild \/ ParentFault
  <2>1. ppc' \in {"merge", "refill", "wild", "failed"}
    BY <1>6 DEF Refill, Emit, EmitWild, ParentFault
  <2> QED
    BY <2>1 DEF EntryInv
<1>7. CASE UNCHANGED vars
  BY <1>7 DEF vars, EntryInv
<1> QED
  BY <1>1, <1>2, <1>3, <1>4, <1>5, <1>6, <1>7 DEF Next, ParentStep, Terminated

LEMMA ReapStep ==
  ASSUME Whole, [Next]_vars
  PROVE  ReapInv'
<1> USE DEF Whole, IInv, MergeInv
<1>0. /\ i \in Child /\ \A c \in Child : c \in Nat /\ c < n
      /\ reaped \in SUBSET Child
      /\ cpc \in [Child -> ChildRunning \cup ChildGone \cup {"unborn"}]
  BY ChildInt DEF TypeOK
<1>1. ASSUME NEW c \in Child, ChildStep(c) \/ ChildFault(c) PROVE ReapInv'
  <2>1. /\ UNCHANGED <<ppc, i, reaped, printed>> /\ cpc[c] \in ChildRunning
        /\ \A d \in Child : d # c => cpc'[d] = cpc[d]
    BY <1>1, ChildFrame
  <2>2. c \notin reaped
    BY <2>1 DEF ReapInv, ChildRunning, ChildGone
  <2>3. \A d \in reaped : cpc'[d] = cpc[d]
    BY <1>0, <2>1, <2>2
  <2> QED
    BY <2>1, <2>3 DEF ReapInv
<1>2. CASE Fork
  <2>1. UNCHANGED reaped /\ reaped = {} /\ ppc' \in {"fork", "close_w"}
    BY <1>2 DEF Fork, Advance, ReapInv, ParentRunning
  <2> QED
    BY <2>1 DEF ReapInv
<1>3. CASE CloseReadEnd
  <2>1. /\ UNCHANGED <<reaped, cpc, printed>> /\ reaped = {}
        /\ ppc' = "close_r" \/ (ppc' = "wait" /\ i' = 0)
    BY <1>3 DEF CloseReadEnd, Advance, ReapInv, ParentRunning, cvars
  <2> QED
    BY <2>1, FS_EmptySet DEF ReapInv
<1>4. CASE Wait
  <2>1. PICK c \in Child \ reaped :
          /\ cpc[c] \in ChildGone
          /\ reaped' = reaped \cup {c}
          /\ printed' = printed \cup Report(cpc[c])
    BY <1>4 DEF Wait
  <2>2. /\ ppc = "wait" /\ UNCHANGED cpc /\ Cardinality(reaped) = i
        /\ \/ ppc' = "wait" /\ i' = i + 1
           \/ ppc' = "returned" /\ i + 1 >= n
    BY <1>0, <1>4, ChildInt DEF Wait, Advance, ReapInv, cvars
  <2>3. IsFiniteSet(reaped) /\ IsFiniteSet(Child) /\ Cardinality(Child) = n
    BY <1>0, ChildrenCounted, FS_Subset
  <2>4. Cardinality(reaped') = i + 1
    BY <2>1, <2>2, <2>3, FS_AddElement
  <2>5. ppc' = "returned" => reaped' = Child
    <3>1. SUFFICES ASSUME i + 1 >= n PROVE reaped' = Child
      BY <2>2
    <3>2. reaped' \in SUBSET Child /\ Cardinality(reaped') = Cardinality(Child)
      BY <1>0, <2>1, <2>3, <2>4, <3>1, ChildInt
    <3> QED
      BY <2>3, <3>2, FS_Subset
  <2>6. printed' = {} => printed = {} /\ cpc[c] = "exit0"
    BY <2>1 DEF Report, ChildGone
  <2>7. \A d \in reaped' : cpc'[d] \in ChildGone /\ (printed' = {} => cpc'[d] = "exit0")
    BY <2>1, <2>2, <2>6 DEF ReapInv
  <2> QED
    BY <2>2, <2>4, <2>5, <2>7 DEF ReapInv, ParentRunning
<1>5. CASE \/ CloseWriteEnd \/ Prime \/ Refill \/ (\E c \in Child : Emit(c))
           \/ EmitWild \/ LeaveMerge \/ ParentFault
  <2>1. /\ UNCHANGED <<reaped, cpc, printed>>
        /\ \/ ppc' \in {"wild", "failed"}
           \/ /\ ppc \in {"close_w", "prime", "merge", "refill"}
              /\ ppc' \in {"close_w", "prime", "merge", "refill", "close_r"}
    BY <1>5 DEF CloseWriteEnd, Prime, Refill, Emit, EmitWild, LeaveMerge,
       ParentFault, Advance, cvars
  <2> QED
    BY <2>1 DEF ReapInv, ParentRunning
<1>6. CASE UNCHANGED vars
  BY <1>6 DEF vars, ReapInv
<1> QED
  BY <1>1, <1>2, <1>3, <1>4, <1>5, <1>6 DEF Next, ParentStep, Terminated

-----------------------------------------------------------------------------
(* The records that can still be written. *)

LEMMA RemainingByOutput ==
  Remaining = {r \in Rec :
     /\ r \notin Output
     /\ \A c \in Child : r \in Share(c) /\ cpc[c] \in {"exit1", "signalled"}
          => \E k \in 1..sent[c] : sorted[c][k] = r}
BY DEF Remaining, Output

(* No record comes back: what a step does to the children can only lose    *)
(* records.                                                                *)
LEMMA RemainingShrinks ==
  ASSUME Whole, [Next]_vars, Output \subseteq Output'
  PROVE  Remaining' \subseteq Remaining
<1> USE DEF Whole, IInv, MergeInv
<1>1. \A c \in Child : cpc[c] \in {"exit1", "signalled"} =>
        cpc'[c] = cpc[c] /\ sent'[c] = sent[c] /\ sorted'[c] = sorted[c]
  <2>1. ASSUME NEW d \in Child, ChildStep(d) \/ ChildFault(d),
               NEW c \in Child, cpc[c] \in {"exit1", "signalled"}
        PROVE  cpc'[c] = cpc[c] /\ sent'[c] = sent[c] /\ sorted'[c] = sorted[c]
    BY <2>1, ChildFrame DEF ChildRunning
  <2>2. CASE ParentStep \/ ParentFault
    <3>1. /\ UNCHANGED <<sorted, sent>>
          /\ \A c \in Child : cpc'[c] # cpc[c] => ppc = "fork" /\ c = i
      BY <2>2, ParentFrame
    <3>2. ppc = "fork" => cpc[i] = "unborn"
      BY ChildInt DEF ForkInv, TypeOK
    <3> QED
      BY <3>1, <3>2
  <2>3. CASE UNCHANGED vars
    BY <2>3 DEF vars
  <2> QED
    BY <2>1, <2>2, <2>3 DEF Next, Terminated
<1>2. ASSUME NEW r \in Remaining' PROVE r \in Remaining
  <2>1. /\ r \in Rec /\ r \notin Output'
        /\ \A c \in Child : r \in Share(c) /\ cpc'[c] \in {"exit1", "signalled"}
             => \E k \in 1..sent'[c] : sorted'[c][k] = r
    BY <1>2 DEF Remaining, Output
  <2>2. ASSUME NEW c \in Child, r \in Share(c), cpc[c] \in {"exit1", "signalled"}
        PROVE  \E k \in 1..sent[c] : sorted[c][k] = r
    <3>1. cpc'[c] = cpc[c] /\ sent'[c] = sent[c] /\ sorted'[c] = sorted[c]
      BY <1>1, <2>2
    <3> QED
      BY <2>1, <2>2, <3>1
  <2> QED
    BY <2>1, <2>2, RemainingByOutput
<1> QED
  BY <1>2

(* In the merge, a record that can still be written is behind the entry of *)
(* its pipe, which has one: no pipe is given up too early.                 *)
LEMMA RemainingBehindEntry ==
  ASSUME Whole, ppc = "merge", NEW r \in Remaining
  PROVE  \E d \in Child : /\ merge_list[d] # NoRec
                          /\ freq[merge_list[d]] <= freq[r]
<1> USE DEF Whole, IInv, MergeInv
<1>1. /\ r \in Rec /\ r \notin Output
      /\ \A c \in Child : r \in Share(c) /\ cpc[c] \in {"exit1", "signalled"}
           => \E k \in 1..sent[c] : sorted[c][k] = r
  BY RemainingByOutput
<1>2. PICK d \in Child : r \in Share(d)
  BY <1>1, SharesCover
<1>3. /\ got[d] \in Nat /\ sent[d] \in Nat /\ Len(sorted[d]) \in Nat
      /\ got[d] <= sent[d] /\ sent[d] <= Len(sorted[d])
      /\ sorted[d] \in Seq(Rec)
      /\ recs_per_process(d) \in Nat
  BY ShareInFile DEF TypeOK, PipeInv
<1>4. merge_list[d] = NoRec =>
        cpc[d] \in ChildGone \cup {"tidy"} /\ got[d] = sent[d]
  BY DEF EmptyIsFinal, Emptied
<1>5. Sorted(d) => \E k \in 1..recs_per_process(d) : sorted[d][k] = r
  BY <1>2, SharePermuted DEF Sorted
<1>6. Sorted(d) => Len(sorted[d]) = recs_per_process(d)
  BY <1>3 DEF Sorted
<1>7. PICK k \in 1..Len(sorted[d]) :
        sorted[d][k] = r /\ (merge_list[d] = NoRec => k <= sent[d])
  <2>1. CASE cpc[d] \in {"exit1", "signalled"}
    BY <1>1, <1>2, <1>3, <2>1
  <2>2. CASE cpc[d] \notin {"exit1", "signalled"} /\ merge_list[d] = NoRec
    <3>1. cpc[d] \in {"tidy", "exit0"}
      BY <1>4, <2>2 DEF ChildGone
    <3>2. Sorted(d) /\ sent[d] = recs_per_process(d)
      BY <3>1 DEF ShareInv
    <3> QED
      BY <1>3, <1>5, <1>6, <3>2
  <2>3. CASE merge_list[d] # NoRec
    <3>1. got[d] >= 1
      BY <2>3 DEF HeadInv
    <3>2. sorted[d] # <<>>
      BY <1>3, <3>1
    <3>3. Sorted(d)
      BY <3>2 DEF ShareInv
    <3> QED
      BY <1>5, <1>6, <2>3, <3>3
  <2> QED
    BY <2>1, <2>2, <2>3
<1>8. k <= got[d] => ~Passed(d, k)
  BY <1>1, <1>3, <1>7 DEF OutputInv
<1>9. merge_list[d] # NoRec /\ got[d] <= k
  BY <1>3, <1>4, <1>7, <1>8 DEF Passed
<1>10. merge_list[d] = sorted[d][got[d]] /\ got[d] \in 1..Len(sorted[d])
  BY <1>3, <1>9 DEF HeadInv
<1>11. freq[merge_list[d]] <= freq[r]
  <2>1. CASE got[d] = k
    <3>1. freq[r] \in 0..IntMax /\ IntMax \in Nat
      BY <1>1, FreqBounded, InputsAssumption DEF TypeOK
    <3> QED
      BY <1>7, <1>10, <2>1, <3>1
  <2>2. CASE got[d] # k
    <3>1. got[d] < k
      BY <1>3, <1>9, <2>2
    <3> QED
      BY <1>7, <1>10, <3>1 DEF PipeInv
  <2> QED
    BY <2>1, <2>2
<1> QED
  BY <1>9, <1>11

(* The record that Emit writes was one of those. *)
LEMMA EmitRemaining ==
  ASSUME Whole, NEW c \in Child, Emit(c)
  PROVE  merge_list[c] \in Remaining
<1> USE DEF Whole, IInv, MergeInv
<1>1. /\ merge_list[c] \in Rec /\ merge_list[c] = sorted[c][got[c]]
      /\ got[c] \in 1..got[c] /\ got[c] \in 1..Len(sorted[c])
      /\ merge_list[c] \notin Output
  BY EmitFresh
<1>2. sorted[c] # <<>> /\ sorted[c] \in Seq(Rec) /\ recs_per_process(c) \in Nat
  BY <1>1, ShareInFile DEF TypeOK
<1>3. Sorted(c)
  BY <1>2 DEF ShareInv
<1>4. merge_list[c] \in Share(c)
  <2>1. Len(sorted[c]) = recs_per_process(c)
    BY <1>2, <1>3 DEF Sorted
  <2> QED
    BY <1>1, <1>3, <2>1 DEF Sorted
<1>5. got[c] \in 1..sent[c]
  BY <1>1 DEF TypeOK, PipeInv
<1>6. ASSUME NEW d \in Child, merge_list[c] \in Share(d)
      PROVE  \E k \in 1..sent[d] : sorted[d][k] = merge_list[c]
  <2>1. d = c
    BY <1>4, <1>6, SharesDisjoint
  <2> QED
    BY <1>1, <1>5, <2>1
<1> QED
  BY <1>1, <1>6, RemainingByOutput

LEMMA WildStep ==
  ASSUME Whole, [Next]_vars
  PROVE  WildOnlyAtIntMax'
<1> USE DEF Whole, IInv, MergeInv
<1>1. CASE EmitWild
  <2>1. /\ ppc = "merge" /\ \A c \in Child : ~Eligible(c)
        /\ UNCHANGED <<freq, cpc, sent, sorted, written>>
    BY <1>1 DEF EmitWild, cvars
  <2>2. UNCHANGED Remaining
    BY <2>1 DEF Remaining
  <2>3. ASSUME NEW r \in Remaining PROVE freq[r] = IntMax
    <3>1. PICK d \in Child : merge_list[d] # NoRec /\ freq[merge_list[d]] <= freq[r]
      BY <2>1, RemainingBehindEntry
    <3>2. ~(freq[merge_list[d]] < IntMax)
      BY <2>1, <3>1 DEF Eligible
    <3>3. merge_list[d] \in Rec /\ r \in Rec
      BY <3>1 DEF TypeOK, Remaining
    <3>4. freq[merge_list[d]] \in 0..IntMax /\ freq[r] \in 0..IntMax /\ IntMax \in Nat
      BY <3>3, FreqBounded, InputsAssumption DEF TypeOK
    <3> QED
      BY <3>1, <3>2, <3>4
  <2> QED
    BY <2>1, <2>2, <2>3 DEF WildOnlyAtIntMax
<1>2. CASE ~EmitWild /\ ppc' = "wild"
  <2>1. ppc = "wild" /\ UNCHANGED <<freq, written>>
    <3>1. ASSUME NEW c \in Child, ChildStep(c) \/ ChildFault(c)
          PROVE  ppc = "wild" /\ UNCHANGED <<freq, written>>
      BY <1>2, <3>1, ChildFrame
    <3> QED
      BY <1>2, <3>1 DEF Next, ParentStep, ParentFault, Fork, CloseWriteEnd, Prime,
         Refill, Emit, LeaveMerge, CloseReadEnd, Wait, Advance, Terminated, vars
  <2>2. Remaining' \subseteq Remaining
    BY <2>1, RemainingShrinks DEF Output
  <2> QED
    BY <2>1, <2>2 DEF WildOnlyAtIntMax
<1>3. CASE ppc' # "wild"
  BY <1>3 DEF WildOnlyAtIntMax
<1> QED
  BY <1>1, <1>2, <1>3

-----------------------------------------------------------------------------
(* The invariant holds in every state. *)

LEMMA InitWhole == Init => Whole
<1> SUFFICES ASSUME Init PROVE Whole
  OBVIOUS
<1>1. IInv
  BY InitIInv
<1>2. \A c \in Child : c \in Nat
  BY ChildInt
<1>3. BornInv /\ EndsInv /\ ShareInv /\ NothingTwice /\ EntryInv /\ EmptyIsFinal
  BY <1>2 DEF Init, BornInv, EndsInv, ShareInv, NothingTwice, EntryInv,
     EmptyIsFinal, Emptied
<1>4. OutputInv
  BY DEF Init, OutputInv, Output
<1>5. ReapInv /\ WildOnlyAtIntMax
  BY DEF Init, ReapInv, WildOnlyAtIntMax, ParentRunning
<1> QED
  BY <1>1, <1>3, <1>4, <1>5 DEF Whole

LEMMA NextWhole == Whole /\ [Next]_vars => Whole'
<1> SUFFICES ASSUME Whole, [Next]_vars PROVE Whole'
  OBVIOUS
<1>1. IInv'
  BY NextIInv DEF Whole
<1> QED
  BY <1>1, BornStep, EndsStep, ShareStep, NothingTwiceStep, OutputStep, EntryStep,
     EmptyIsFinalStep, ReapStep, WildStep DEF Whole

LEMMA WholeInvariant == Spec => []Whole
BY InitWhole, NextWhole, PTL DEF Spec

-----------------------------------------------------------------------------
(* The theorems. *)

(* psort writes no record twice, for every division of the file.           *)
THEOREM EachRecordOnce == Spec => []NothingTwice
<1>1. Whole => NothingTwice
  BY DEF Whole
<1> QED
  BY <1>1, WholeInvariant, PTL

(* psort takes a pipe for empty only when its child is done and everything *)
(* in the pipe has been read.                                              *)
THEOREM EndOfFileIsFinal == Spec => []EmptyIsFinal
<1>1. Whole => EmptyIsFinal
  BY DEF Whole
<1> QED
  BY <1>1, WholeInvariant, PTL

(* A child of psort meets a broken pipe only when its parent has failed.   *)
THEOREM BrokenPipeMeansOrphan == Spec => []BrokenPipeOnlyForOrphans
<1>1. Whole => BrokenPipeOnlyForOrphans
  <2> SUFFICES ASSUME Whole, NEW c \in Child,
                      cpc[c] = "write", readers[c] = {}
               PROVE  ppc \in {"failed", "wild"}
    BY DEF BrokenPipeOnlyForOrphans
  <2>1. ppc \notin {"fork", "close_w", "prime", "merge", "refill"}
    BY DEF Whole, EndsInv
  <2>2. ppc \notin {"close_r", "wait", "returned"}
    BY DEF Whole, EntryInv, EmptyIsFinal, Emptied, ChildGone
  <2>3. ppc \in ParentRunning \cup ParentGone
    BY DEF Whole, IInv, MergeInv, TypeOK
  <2> QED
    BY <2>1, <2>2, <2>3 DEF ParentRunning, ParentGone
<1> QED
  BY <1>1, WholeInvariant, PTL

(* psort uses merge_list[-1] only when everything that can still be        *)
(* written has the frequency INT_MAX.                                      *)
THEOREM WildNeedsIntMax == Spec => []WildOnlyAtIntMax
<1>1. Whole => WildOnlyAtIntMax
  BY DEF Whole
<1> QED
  BY <1>1, WholeInvariant, PTL

(* If psort returns without a message, every record of the file has been   *)
(* written.                                                                *)
THEOREM NoSilentLoss == Spec => []LossReported
<1>1. Whole => LossReported
  <2> SUFFICES ASSUME Whole, ppc = "returned", printed = {}
               PROVE  ~(Len(written) < NumRecs)
    BY DEF LossReported
  <2> USE DEF Whole, IInv, MergeInv
  <2>1. ASSUME NEW c \in Child
        PROVE  /\ merge_list[c] = NoRec /\ got[c] = recs_per_process(c)
               /\ Sorted(c) /\ sorted[c] \in Seq(Rec)
    <3>1. merge_list[c] = NoRec /\ cpc[c] = "exit0"
      BY DEF ReapInv, EntryInv
    <3>2. Sorted(c) /\ sent[c] = recs_per_process(c)
      BY <3>1 DEF ShareInv
    <3>3. got[c] = sent[c]
      BY <3>1 DEF EmptyIsFinal, Emptied
    <3> QED
      BY <3>1, <3>2, <3>3 DEF TypeOK
  <2>2. Rec \subseteq Output
    <3> SUFFICES ASSUME NEW r \in Rec PROVE r \in Output
      OBVIOUS
    <3>1. PICK c \in Child : r \in Share(c)
      BY SharesCover
    <3>2. PICK k \in 1..recs_per_process(c) : sorted[c][k] = r
      BY <2>1, <3>1, SharePermuted DEF Sorted
    <3>3. k \in 1..got[c] /\ Passed(c, k)
      BY <2>1, <3>2 DEF Passed
    <3> QED
      BY <3>2, <3>3 DEF OutputInv
  <2>3. Len(written) \in Nat /\ DOMAIN written = 1..Len(written)
        /\ written \in [1..Len(written) -> Rec]
    BY DEF TypeOK
  <2>4. written \in Surjection(1..Len(written), Rec)
    BY <2>2, <2>3 DEF Surjection, Output
  <2>5. IsFiniteSet(1..Len(written)) /\ Cardinality(1..Len(written)) = Len(written)
    BY <2>3, FS_Interval
  <2>6. Cardinality(Rec) <= Len(written)
    BY <2>4, <2>5, FS_Surjection
  <2>7. Cardinality(Rec) = NumRecs
    <3>1. NumRecs - 1 \in Int /\ ~(0 > NumRecs - 1) /\ NumRecs - 1 - 0 + 1 = NumRecs
      BY SizesAssumption
    <3> QED
      BY <3>1, FS_Interval DEF Rec
  <2> QED
    BY <2>3, <2>6, <2>7, SizesAssumption
<1> QED
  BY <1>1, WholeInvariant, PTL

(* Every step of psort is a step of the ordered merge or leaves it alone.  *)
LEMMA StepMerges ==
  ASSUME Whole, [Next]_vars
  PROVE  [Merge!Next]_Merge!vars
<1> USE DEF Whole, IInv, MergeInv
<1>1. ASSUME NEW c \in Child, Emit(c) PROVE Merge!Emit(merge_list[c]) /\ merge_list[c] \in Rec
  <2>1. /\ UNCHANGED <<freq, cpc, sent, sorted>> /\ ppc = "merge"
        /\ written' = Append(written, merge_list[c])
        /\ IsSmallestIndex(c)
    BY <1>1 DEF Emit, cvars, pipes
  <2>2. merge_list[c] \in Remaining /\ merge_list[c] \in Rec
    BY <1>1, EmitRemaining DEF Remaining
  <2>3. Output' = Output \cup {merge_list[c]}
    BY <2>1, <2>2, OutputAppend DEF TypeOK
  <2>4. Remaining' = Remaining \ {merge_list[c]}
    <3>1. Remaining' = {r \in Rec :
             /\ r \notin Output'
             /\ \A d \in Child : r \in Share(d) /\ cpc[d] \in {"exit1", "signalled"}
                  => \E k \in 1..sent[d] : sorted[d][k] = r}
      BY <2>1 DEF Remaining, Output
    <3> QED
      BY <2>3, <3>1, RemainingByOutput
  <2>5. ASSUME NEW r \in Remaining PROVE freq[merge_list[c]] <= freq[r]
    <3>1. PICK d \in Child : merge_list[d] # NoRec /\ freq[merge_list[d]] <= freq[r]
      BY <2>1, RemainingBehindEntry
    <3>2. merge_list[d] \in Rec /\ r \in Rec
      BY <3>1 DEF TypeOK, Remaining
    <3>3. /\ freq[merge_list[d]] \in 0..IntMax /\ freq[r] \in 0..IntMax
          /\ freq[merge_list[c]] \in 0..IntMax /\ IntMax \in Nat
      BY <2>2, <3>2, FreqBounded, InputsAssumption DEF TypeOK
    <3>4. CASE Eligible(d)
      BY <2>1, <3>1, <3>3, <3>4 DEF IsSmallestIndex
    <3>5. CASE ~Eligible(d)
      BY <2>1, <3>1, <3>3, <3>5 DEF IsSmallestIndex, Eligible
    <3> QED
      BY <3>4, <3>5
  <2> QED
    BY <2>1, <2>2, <2>4, <2>5 DEF Merge!Emit
<1>2. CASE UNCHANGED <<freq, written>>
  <2>1. Remaining' \subseteq Remaining
    BY <1>2, RemainingShrinks DEF Output
  <2>2. Remaining' = Remaining \ (Remaining \ Remaining')
    BY <2>1
  <2>3. Merge!Lose
    BY <1>2, <2>2 DEF Merge!Lose
  <2> QED
    BY <2>3 DEF Merge!Next
<1>3. UNCHANGED <<freq, written>> \/ \E c \in Child : Emit(c)
  <2>1. ASSUME NEW c \in Child, ChildStep(c) \/ ChildFault(c)
        PROVE  UNCHANGED <<freq, written>>
    BY <2>1, ChildFrame
  <2>2. CASE ParentStep \/ ParentFault
    BY <2>2 DEF ParentStep, ParentFault, Fork, CloseWriteEnd, Prime, Refill,
       EmitWild, LeaveMerge, CloseReadEnd, Wait
  <2>3. CASE UNCHANGED vars
    BY <2>3 DEF vars
  <2> QED
    BY <2>1, <2>2, <2>3 DEF Next, Terminated
<1> QED
  BY <1>1, <1>2, <1>3 DEF Merge!Next

(* psort implements OrderedMerge: whatever the schedule and whichever      *)
(* processes fail, each record written is one that no record still to come *)
(* precedes, and records are lost only with a process that failed.         *)
THEOREM ImplementsMerge == Spec => MergeSpec
<1>1. Init => Merge!Init
  <2> SUFFICES ASSUME Init PROVE Merge!Init
    OBVIOUS
  <2>1. Remaining = Rec
    BY DEF Init, Remaining
  <2> QED
    BY <2>1 DEF Init, Merge!Init
<1>2. Whole /\ [Next]_vars => [Merge!Next]_Merge!vars
  BY StepMerges
<1> QED
  BY <1>1, <1>2, WholeInvariant, PTL DEF Spec, MergeSpec, Merge!Spec
=============================================================================
