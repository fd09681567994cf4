------------------------------- MODULE PSort -------------------------------
(***************************************************************************)
(* a3/psort.c with a3/helper.c: a parallel sort.  The parent forks n       *)
(* children, child c sorts its share of the file and writes it, record by  *)
(* record, into pipe c; the parent merges the n pipes into the output.     *)
(*                                                                         *)
(* A record is its position in the input file, freq its r.freq; words      *)
(* play no part.  Pipe c holds sorted[c][got[c]+1 .. sent[c]]: records are *)
(* shorter than PIPE_BUF, so that reads and writes move whole records.     *)
(* writers[c] and readers[c] are the processes that hold a descriptor of   *)
(* the write or the read end of pipe c: they decide about EOF and SIGPIPE. *)
(***************************************************************************)
EXTENDS Integers, Sequences, FiniteSets

CONSTANTS
  NumRecs,    \* num_recs, file_size / rec_size
  NProcs,     \* the argument of -n
  PipeCap,    \* the number of records a pipe can hold
  IntMax,     \* INT_MAX
  Inputs,     \* the input files: a frequency for every record
  MaxFaults   \* bound: failed system calls and kills in one behaviour

ASSUME SizesAssumption == /\ NumRecs \in Nat \ {0}
                          /\ NProcs \in Nat \ {0}
                          /\ PipeCap \in Nat \ {0}
                          /\ MaxFaults \in Nat

Rec == 0..(NumRecs - 1)

(* mkwords writes no negative frequency: -1 marks an exhausted pipe.       *)
ASSUME InputsAssumption == IntMax \in Nat /\ Inputs \subseteq [Rec -> 0..IntMax]

NoRec == -1     \* merge_list[i].freq == -1: pipe i is exhausted

-----------------------------------------------------------------------------
(* The division of the file between the children. *)

n == IF NProcs >= NumRecs THEN NumRecs ELSE NProcs
Child == 0..(n - 1)
Parent == n
Proc == 0..n

recs_remainder == NumRecs % n

recs_per_process(i) ==
  IF i < recs_remainder THEN (NumRecs \div n) + 1 ELSE NumRecs \div n

(* Mutant: the shares of the second kind start one record short for every *)
(* larger share before them.                                               *)
index_Overlap(i) ==
  IF i < recs_remainder
  THEN i * recs_per_process(i)
  ELSE recs_remainder * recs_per_process(i)
         + recs_per_process(i) * (i - recs_remainder)

index(i) ==
  IF i < recs_remainder
  THEN i * recs_per_process(i)
  ELSE recs_remainder * (recs_per_process(i) + 1)
         + recs_per_process(i) * (i - recs_remainder)

Share(i) == index(i) .. (index(i) + recs_per_process(i) - 1)

-----------------------------------------------------------------------------
VARIABLES
  freq,             \* the input file
  ppc, i,           \* the parent: where it is, and its loop index
  cpc, j,           \* each child: where it is, and its closing loop's index
  writers, readers, \* for every pipe, the processes holding an end of it
  sorted,           \* each child's records after qsort
  sent, got,        \* records written into and read from each pipe
  merge_list, num_empty_pipes,
  written,          \* the output file
  reaped,           \* the children that the parent has waited for
  printed, result,  \* messages of the waiting loop, and the exit status
  faults            \* faults so far (bounded by MaxFaults)

pvars == <<ppc, i, merge_list, num_empty_pipes, written, reaped, printed, result>>
cvars == <<cpc, j, sorted>>
pipes == <<writers, readers, sent, got>>
vars == <<freq, ppc, i, cpc, j, writers, readers, sorted, sent, got,
          merge_list, num_empty_pipes, written, reaped, printed, result, faults>>

ParentRunning == {"fork", "close_w", "prime", "merge", "refill", "close_r", "wait"}
ParentGone == {"returned", "failed", "wild"}
ChildRunning == {"inherited", "load", "write", "tidy"}
ChildGone == {"exit0", "exit1", "signalled"}
Message == {"prematurely", "abnormally"}

Init ==
  /\ freq \in Inputs
  /\ ppc = "fork" /\ i = 0
  /\ cpc = [c \in Child |-> "unborn"]
  /\ j = [c \in Child |-> 0]
  /\ writers = [c \in Child |-> {}]
  /\ readers = [c \in Child |-> {}]
  /\ sorted = [c \in Child |-> <<>>]
  /\ sent = [c \in Child |-> 0]
  /\ got = [c \in Child |-> 0]
  /\ merge_list = [c \in Child |-> NoRec]
  /\ num_empty_pipes = 0
  /\ written = <<>>
  /\ reaped = {}
  /\ printed = {}
  /\ result = 0
  /\ faults = 0

(* The kernel closes every descriptor of a process that ends. *)
CloseAll(p) == /\ writers' = [c \in Child |-> writers[c] \ {p}]
               /\ readers' = [c \in Child |-> readers[c] \ {p}]

-----------------------------------------------------------------------------
(* The children. *)

(* Mutant: the loop runs but closes nothing. *)
CloseInherited_Leaks(c) ==
  /\ cpc[c] = "inherited"
  /\ j[c] < c
  /\ j' = [j EXCEPT ![c] = @ + 1]
  /\ UNCHANGED <<freq, pvars, pipes, cpc, sorted, faults>>

(* One round of the loop that closes both ends of the pipes inherited from *)
(* the parent, pipes 0 .. c-1.                                             *)
CloseInherited(c) ==
  /\ cpc[c] = "inherited"
  /\ j[c] < c
  /\ writers' = [writers EXCEPT ![j[c]] = @ \ {c}]
  /\ readers' = [readers EXCEPT ![j[c]] = @ \ {c}]
  /\ j' = [j EXCEPT ![c] = @ + 1]
  /\ UNCHANGED <<freq, pvars, cpc, sorted, sent, got, faults>>

(* Mutant: the child keeps the read end of its own pipe. *)
CloseOwnReadEnd_Leaks(c) ==
  /\ cpc[c] = "inherited"
  /\ j[c] = c
  /\ cpc' = [cpc EXCEPT ![c] = "load"]
  /\ UNCHANGED <<freq, pvars, j, sorted, pipes, faults>>

(* After the loop: the read end of its own pipe. *)
CloseOwnReadEnd(c) ==
  /\ cpc[c] = "inherited"
  /\ j[c] = c
  /\ readers' = [readers EXCEPT ![c] = @ \ {c}]
  /\ cpc' = [cpc EXCEPT ![c] = "load"]
  /\ UNCHANGED <<freq, pvars, j, sorted, writers, sent, got, faults>>

(* Mutant: no qsort. *)
SortedShare_Unsorted(c, s) ==
  s = [k \in 1..recs_per_process(c) |-> index(c) + k - 1]

(* qsort is not stable: any order of the share that compare_freq allows. *)
SortedShare(c, s) ==
  /\ s \in [1..recs_per_process(c) -> Share(c)]
  /\ \A k, l \in 1..recs_per_process(c) : k # l => s[k] # s[l]
  /\ \A k, l \in 1..recs_per_process(c) : k < l => freq[s[k]] <= freq[s[l]]

ReadAndSort(c) ==
  /\ cpc[c] = "load"
  /\ \E s \in [1..recs_per_process(c) -> Share(c)] :
       /\ SortedShare(c, s)
       /\ sorted' = [sorted EXCEPT ![c] = s]
  /\ cpc' = [cpc EXCEPT ![c] = "write"]
  /\ UNCHANGED <<freq, pvars, j, pipes, faults>>

(* write blocks while the pipe is full. *)
Write(c) ==
  /\ cpc[c] = "write"
  /\ sent[c] < recs_per_process(c)
  /\ readers[c] # {}
  /\ sent[c] - got[c] < PipeCap
  /\ sent' = [sent EXCEPT ![c] = @ + 1]
  /\ UNCHANGED <<freq, pvars, cvars, writers, readers, got, faults>>

(* write into a pipe that nobody can read any more: SIGPIPE, not handled. *)
WriteBrokenPipe(c) ==
  /\ cpc[c] = "write"
  /\ sent[c] < recs_per_process(c)
  /\ readers[c] = {}
  /\ cpc' = [cpc EXCEPT ![c] = "signalled"]
  /\ CloseAll(c)
  /\ UNCHANGED <<freq, pvars, j, sorted, sent, got, faults>>

CloseOwnWriteEnd(c) ==
  /\ cpc[c] = "write"
  /\ sent[c] = recs_per_process(c)
  /\ writers' = [writers EXCEPT ![c] = @ \ {c}]
  /\ cpc' = [cpc EXCEPT ![c] = "tidy"]
  /\ UNCHANGED <<freq, pvars, j, sorted, readers, sent, got, faults>>

(* Fclose, free, exit(0). *)
Exit(c) ==
  /\ cpc[c] = "tidy"
  /\ cpc' = [cpc EXCEPT ![c] = "exit0"]
  /\ CloseAll(c)
  /\ UNCHANGED <<freq, pvars, j, sorted, sent, got, faults>>

(* A system call of the child fails and it exits with status 1, or a       *)
(* signal from outside ends it.                                            *)
ChildFault(c) ==
  /\ cpc[c] \in ChildRunning
  /\ faults < MaxFaults
  /\ faults' = faults + 1
  /\ \E end \in {"exit1", "signalled"} : cpc' = [cpc EXCEPT ![c] = end]
  /\ CloseAll(c)
  /\ UNCHANGED <<freq, pvars, j, sorted, sent, got>>

ChildStep(c) == \/ CloseInherited(c) \/ CloseOwnReadEnd(c) \/ ReadAndSort(c)
                \/ Write(c) \/ WriteBrokenPipe(c) \/ CloseOwnWriteEnd(c)
                \/ Exit(c)

-----------------------------------------------------------------------------
(* The parent. *)

(* Mutant: the loops run while i <= n. *)
Advance_OneMore(next) == IF i < n THEN /\ i' = i + 1
                                      /\ UNCHANGED ppc
                                 ELSE /\ i' = 0
                                      /\ ppc' = next

(* Every loop of main runs i from 0 to n-1: one round, and where the last  *)
(* round leads.                                                            *)
Advance(next) == IF i + 1 < n THEN /\ i' = i + 1
                                   /\ UNCHANGED ppc
                              ELSE /\ i' = 0
                                   /\ ppc' = next

(* pipe(fd[i]) and fork(): child i starts with a copy of every descriptor  *)
(* the parent has.                                                         *)
Fork ==
  /\ ppc = "fork"
  /\ LET new(ends) == [c \in Child |->
           IF c = i THEN {Parent, i}
           ELSE IF Parent \in ends[c] THEN ends[c] \cup {i} ELSE ends[c]]
     IN writers' = new(writers) /\ readers' = new(readers)
  /\ cpc' = [cpc EXCEPT ![i] = "inherited"]
  /\ Advance("close_w")
  /\ UNCHANGED <<freq, j, sorted, sent, got, merge_list, num_empty_pipes,
                 written, reaped, printed, result, faults>>

CloseWriteEnd ==
  /\ ppc = "close_w"
  /\ writers' = [writers EXCEPT ![i] = @ \ {Parent}]
  /\ Advance("prime")
  /\ UNCHANGED <<freq, cvars, readers, sent, got, merge_list,
                 num_empty_pipes, written, reaped, printed, result, faults>>

(* Mutant: an empty pipe is taken for a pipe at its end. *)
AtEnd_NoWait(c) == got[c] = sent[c]

AtEnd(c) == got[c] = sent[c] /\ writers[c] = {}

(* read(fd[c][0], &merge_list[c], rec_size) with what both callers do with *)
(* the answer; it blocks while the pipe is empty and has a writer.         *)
Receive(c) ==
  \/ /\ got[c] < sent[c]
     /\ got' = [got EXCEPT ![c] = @ + 1]
     /\ merge_list' = [merge_list EXCEPT ![c] = sorted[c][got[c] + 1]]
     /\ UNCHANGED num_empty_pipes
  \/ /\ AtEnd(c)
     /\ merge_list' = [merge_list EXCEPT ![c] = NoRec]
     /\ num_empty_pipes' = num_empty_pipes + 1
     /\ UNCHANGED got

Prime ==
  /\ ppc = "prime"
  /\ Receive(i)
  /\ Advance("merge")
  /\ UNCHANGED <<freq, cvars, writers, readers, sent, written, reaped,
                 printed, result, faults>>

(* Mutant: smallest_freq starts one below the largest frequency. *)
Eligible_Low(c) == merge_list[c] # NoRec /\ freq[merge_list[c]] < IntMax - 1

(* Mutant: the merge goes on while more than one pipe has records. *)
Merging_TwoLeft == num_empty_pipes < n - 1

Merging == num_empty_pipes < n

(* The entries that can still beat smallest_freq = INT_MAX. *)
Eligible(c) == merge_list[c] # NoRec /\ freq[merge_list[c]] < IntMax

(* get_smallest_index(merge_list, n) = c; it is -1 if nothing is eligible. *)
IsSmallestIndex(c) ==
  /\ Eligible(c)
  /\ \A d \in Child : Eligible(d) =>
       \/ freq[merge_list[c]] < freq[merge_list[d]]
       \/ freq[merge_list[c]] = freq[merge_list[d]] /\ c <= d

(* fwrite of the smallest entry; the read that replaces it is Refill. *)
Emit(c) ==
  /\ ppc = "merge"
  /\ Merging
  /\ IsSmallestIndex(c)
  /\ written' = Append(written, merge_list[c])
  /\ i' = c
  /\ ppc' = "refill"
  /\ UNCHANGED <<freq, cvars, pipes, merge_list, num_empty_pipes, reaped,
                 printed, result, faults>>

Refill ==
  /\ ppc = "refill"
  /\ Receive(i)
  /\ ppc' = "merge"
  /\ i' = 0
  /\ UNCHANGED <<freq, cvars, writers, readers, sent, written, reaped,
                 printed, result, faults>>

(* get_smallest_index is -1: merge_list[-1] is written and fd[-1] is read, *)
(* which is undefined; nothing the parent does after that is modelled.     *)
EmitWild ==
  /\ ppc = "merge"
  /\ Merging
  /\ \A c \in Child : ~Eligible(c)
  /\ ppc' = "wild"
  /\ CloseAll(Parent)
  /\ UNCHANGED <<freq, cvars, i, sent, got, merge_list, num_empty_pipes,
                 written, reaped, printed, result, faults>>

LeaveMerge ==
  /\ ppc = "merge"
  /\ ~Merging
  /\ ppc' = "close_r"
  /\ UNCHANGED <<freq, cvars, pipes, i, merge_list, num_empty_pipes, written,
                 reaped, printed, result, faults>>

CloseReadEnd ==
  /\ ppc = "close_r"
  /\ readers' = [readers EXCEPT ![i] = @ \ {Parent}]
  /\ Advance("wait")
  /\ UNCHANGED <<freq, cvars, writers, sent, got, merge_list,
                 num_empty_pipes, written, reaped, printed, result, faults>>

(* Mutant: the exit status of a child is not looked at. *)
Report_SignalsOnly(end) == IF end = "signalled" THEN {"abnormally"} ELSE {}

(* The message about a child, by WIFEXITED, WEXITSTATUS and WIFSIGNALED.   *)
Report(end) == CASE end = "exit0" -> {}
                 [] end = "exit1" -> {"prematurely"}
                 [] end = "signalled" -> {"abnormally"}

(* wait(&status) answers for any child that has ended; after n answers     *)
(* main returns result.                                                    *)
Wait ==
  /\ ppc = "wait"
  /\ \E c \in Child \ reaped :
       /\ cpc[c] \in ChildGone
       /\ reaped' = reaped \cup {c}
       /\ printed' = printed \cup Report(cpc[c])
       /\ result' = IF cpc[c] = "signalled" THEN 1 ELSE result
  /\ Advance("returned")
  /\ UNCHANGED <<freq, cvars, pipes, merge_list, num_empty_pipes, written,
                 faults>>

(* A system call of the parent fails: exit(1). *)
ParentFault ==
  /\ ppc \in ParentRunning
  /\ faults < MaxFaults
  /\ faults' = faults + 1
  /\ ppc' = "failed"
  /\ CloseAll(Parent)
  /\ UNCHANGED <<freq, cvars, i, sent, got, merge_list, num_empty_pipes,
                 written, reaped, printed, result>>

ParentStep == \/ Fork \/ CloseWriteEnd \/ Prime \/ Refill
              \/ \E c \in Child : Emit(c)
              \/ EmitWild \/ LeaveMerge \/ CloseReadEnd \/ Wait

-----------------------------------------------------------------------------
(* Everything has ended: the only states without a successor. *)
Terminated == /\ ppc \in ParentGone
              /\ \A c \in Child : cpc[c] \in ChildGone \cup {"unborn"}
              /\ UNCHANGED vars

Next == \/ ParentStep
        \/ ParentFault
        \/ \E c \in Child : ChildStep(c) \/ ChildFault(c)
        \/ Terminated

(* The kernel schedules every process that can run; faults need not occur. *)
Fairness == /\ WF_vars(ParentStep)
            /\ \A c \in Child : WF_vars(ChildStep(c))

Spec == Init /\ [][Next]_vars
FairSpec == Spec /\ Fairness

-----------------------------------------------------------------------------
(* Correctness. *)

TypeOK ==
  /\ freq \in Inputs
  /\ ppc \in ParentRunning \cup ParentGone
  /\ i \in Child
  /\ cpc \in [Child -> ChildRunning \cup ChildGone \cup {"unborn"}]
  /\ j \in [Child -> Child]
  /\ writers \in [Child -> SUBSET Proc]
  /\ readers \in [Child -> SUBSET Proc]
  /\ sorted \in [Child -> Seq(Rec)]
  /\ sent \in [Child -> Nat]
  /\ got \in [Child -> Nat]
  /\ merge_list \in [Child -> Rec \cup {NoRec}]
  /\ num_empty_pipes \in Nat
  /\ written \in Seq(Rec)
  /\ reaped \in SUBSET Child
  /\ printed \in SUBSET Message
  /\ result \in {0, 1}
  /\ faults \in 0..MaxFaults

(* The output file is sorted by frequency at every moment, whatever the    *)
(* order in which the children are scheduled and die (psort.c:161-176).    *)
OutputSorted ==
  \A k, l \in DOMAIN written : k < l => freq[written[k]] <= freq[written[l]]

(* No record is written twice: neither are two children given the same     *)
(* record (psort.c:99-113), nor is a stale entry of merge_list written.    *)
NothingTwice ==
  \A k, l \in DOMAIN written : k # l => written[k] # written[l]

(* The parent has seen end of file on pipe c. *)
Emptied(c) == /\ merge_list[c] = NoRec
              /\ \/ ppc = "prime" /\ c < i
                 \/ ppc \in {"merge", "refill", "close_r", "wait", "returned"}

(* End of file is never taken for granted too early: a pipe counts as      *)
(* empty only when its child will not write again and nothing is left in   *)
(* it, and the counter that ends the merge agrees with the pipes that are  *)
(* at their end (psort.c:155-158, 172-175).                                *)
EmptyIsFinal ==
  /\ \A c \in Child : Emptied(c) => /\ cpc[c] \in ChildGone \cup {"tidy"}
                                    /\ got[c] = sent[c]
  /\ ppc \in {"prime", "merge", "refill", "close_r", "wait", "returned"} =>
       num_empty_pipes = Cardinality({c \in Child : Emptied(c)})

(* A record that is missing from the output when main returns has been     *)
(* reported by a message about its child (psort.c:185-201).                *)
LossReported ==
  ppc = "returned" /\ Len(written) < NumRecs => printed # {}

(* SIGPIPE can only hit a child whose parent is gone: main closes a read   *)
(* end only after the child behind it has written everything.              *)
BrokenPipeOnlyForOrphans ==
  \A c \in Child :
    /\ cpc[c] = "write"
    /\ sent[c] < recs_per_process(c)
    /\ readers[c] = {}
    => ppc \in {"failed", "wild"}

(* The records that may still reach the output: those of a child that did  *)
(* not fail, and of a failed one those it had put in its pipe.             *)
Remaining ==
  {r \in Rec :
     /\ \A k \in DOMAIN written : written[k] # r
     /\ \A c \in Child :
          r \in Share(c) /\ cpc[c] \in {"exit1", "signalled"}
            => \E k \in 1..sent[c] : sorted[c][k] = r}

(* The undefined access to merge_list[-1] happens only when everything     *)
(* left has the largest frequency an int can hold (helper.c:42-45).        *)
WildOnlyAtIntMax ==
  ppc = "wild" => \A r \in Remaining : freq[r] = IntMax

(* get_smallest_index finds an entry while some pipe is not empty, as its  *)
(* comment says (helper.c:37-38) and the merge takes for granted.          *)
SmallestIndexFound ==
  ppc = "merge" /\ Merging => \E c \in Child : IsSmallestIndex(c)

(* psort ends: nobody waits for ever on a pipe that is full, or empty but  *)
(* held open by a process that will never write to it (psort.c:87-94,141). *)
ParentEnds == <>(ppc \in ParentGone)

(* So does every child, even one whose parent died in the middle of the    *)
(* merge and left it writing into a full pipe.                             *)
ChildrenEnd ==
  \A c \in Child : (cpc[c] = "inherited") ~> (cpc[c] \in ChildGone)

(* psort implements the ordered merge: nothing is ever written before a    *)
(* record that precedes it and can still arrive.                           *)
Merge == INSTANCE OrderedMerge WITH remaining <- Remaining
MergeSpec == Merge!Spec
=============================================================================
