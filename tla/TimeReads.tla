------------------------------ MODULE TimeReads ------------------------------
(***************************************************************************)
(* lab9/time_reads.c: a loop that reads and prints numbers from random     *)
(* places of a file, and a handler of SIGALRM that may run between any two *)
(* of its steps, reports how many there were, and ends the process.        *)
(* Which numbers are read plays no part.                                   *)
(***************************************************************************)
EXTENDS Integers

CONSTANT MaxReads   \* bound: rounds of the loop

ASSUME TimeAssumption == MaxReads \in Nat

VARIABLES
  loop,        \* where the loop is; "reading" covers fseek and fread
  num_reads,
  seconds,     \* FALSE if it is 0
  printed,     \* numbers printed
  reports      \* what the handler has printed

timeVars == <<loop, num_reads, seconds, printed, reports>>

TimeInit == /\ loop = "none" /\ num_reads = 0 /\ seconds = FALSE
            /\ printed = 0 /\ reports = {}

(* main up to the loop; setitimer with 0 seconds does not start the timer. *)
TimeStart == /\ loop = "none"
             /\ loop' = "reading"
             /\ seconds' \in BOOLEAN
             /\ UNCHANGED <<num_reads, printed, reports>>

ReadNumber == /\ loop = "reading"
              /\ num_reads < MaxReads
              /\ loop' \in {"printing", "ended"}   \* ended: seek or read failed
              /\ UNCHANGED <<num_reads, seconds, printed, reports>>

PrintNumber == /\ loop = "printing"
               /\ printed' = printed + 1
               /\ loop' = "counting"
               /\ UNCHANGED <<num_reads, seconds, reports>>

CountRead == /\ loop = "counting"
             /\ num_reads' = num_reads + 1
             /\ loop' = "reading"
             /\ UNCHANGED <<seconds, printed, reports>>

(* Mutant: the handler does not exit, and the loop goes on. *)
AfterReport_Loop == loop

AfterReport == "ended"

handler == /\ loop \notin {"none", "ended"} /\ seconds
           /\ reports' = reports \cup {num_reads}
           /\ loop' = AfterReport
           /\ UNCHANGED <<num_reads, seconds, printed>>

TimeNext == TimeStart \/ ReadNumber \/ PrintNumber \/ CountRead \/ handler
TimeSpec == TimeInit /\ [][TimeNext]_timeVars /\ WF_timeVars(handler)

-----------------------------------------------------------------------------
(* At whatever moment the alarm comes, the count that is reported is that  *)
(* of the numbers printed, or one less if it came between the two, and the *)
(* report is the last thing printed (time_reads.c:20-23, 66-78).           *)
CountReported ==
  \A n \in reports : n \in {printed - 1, printed}
=============================================================================
