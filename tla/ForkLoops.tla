------------------------------ MODULE ForkLoops ------------------------------
(***************************************************************************)
(* lab7: simplefork, forkloop, parentcreates and childcreates, four        *)
(* programs that fork and print.  stdout is a buffer inside each process:  *)
(* on a terminal it is written out with every line, otherwise when the     *)
(* process exits, and fork copies what is in it.                           *)
(*                                                                         *)
(* A process is its number, in the order of creation; a line says which    *)
(* process printed it, what getppid answered, and its number (in           *)
(* simplefork its letter).  The layout of a line is left out.              *)
(***************************************************************************)
EXTENDS Integers, Sequences, SequencesExt, FiniteSets

CONSTANTS
  MaxProcs,       \* bound: processes of a program
  MaxForkFaults   \* bound: forks that fail

ASSUME ForkAssumption == MaxProcs \in Nat \ {0, 1} /\ MaxForkFaults \in Nat

Pid == 1..MaxProcs
Root == 1
Outside == 0      \* the shell, or the process that adopts orphans

VARIABLES
  program, iterations, tty,   \* what was started, and stdout is a terminal
  parent, at, i, out,         \* of each process; out is its stdout buffer
  made,                       \* children created so far
  screen,                     \* the lines written out
  forkfaults                  \* counter for the bound

forkVars == <<program, iterations, tty, parent, at, i, out, made, screen,
              forkfaults>>

ForkInit == /\ program = "none" /\ iterations = 0 /\ tty = FALSE
            /\ parent = [p \in Pid |-> Outside]
            /\ at = [p \in Pid |-> "none"]
            /\ i = [p \in Pid |-> 0]
            /\ out = [p \in Pid |-> <<>>]
            /\ made = 0 /\ screen = <<>> /\ forkfaults = 0

(* 2^k, as the recursive function whose steps are known to the proofs. *)
Doubled[k \in 0..MaxProcs] == IF k = 0 THEN 1 ELSE 2 * Doubled[k - 1]

(* The processes a program makes if no fork fails. *)
Needs(pr, n) == IF pr = "forkloop" THEN Doubled[n] ELSE n + 1

ForkStart ==
  /\ program = "none"
  /\ \E pr \in {"simplefork", "forkloop", "parentcreates", "childcreates"} :
     \E n \in 0..MaxProcs :
       /\ Needs(pr, n) <= MaxProcs
       /\ pr = "simplefork" => n = 1
       /\ program' = pr /\ iterations' = n
       /\ at' = [at EXCEPT ![Root] = IF pr = "simplefork" THEN "A" ELSE "loop"]
  /\ tty' \in BOOLEAN
  /\ UNCHANGED <<parent, i, out, made, screen, forkfaults>>

-----------------------------------------------------------------------------
(* Where a process goes on. *)

ChildAfterFork == IF program = "simplefork" THEN "B" ELSE "print"
ParentAfterFork == CASE program = "simplefork" -> "B"
                     [] program = "forkloop" -> "print"
                     [] OTHER -> "wait"

AfterPrint(p) == CASE at[p] = "A" -> "loop"
                   [] at[p] = "B" -> IF made = 0 THEN "exit"
                                     ELSE IF p = Root THEN "D" ELSE "C"
                   [] at[p] \in {"C", "D"} -> "E"
                   [] at[p] = "E" \/ program = "parentcreates" -> "exit"
                   [] OTHER -> "loop"

(* The loop counts on when its body is done: after print in forkloop and   *)
(* in the child of childcreates, after wait in parentcreates.              *)
CountOn(p, to) == i' = [i EXCEPT ![p] = IF to = "loop" /\ program # "simplefork"
                                        THEN @ + 1 ELSE @]

-----------------------------------------------------------------------------
(* The steps of process p. *)

(* fork copies the buffer of stdout with the rest of the process. *)
Inherited(p) == out[p]

Fork(p) ==
  LET c == made + 2 IN
  /\ at[p] = "loop" /\ i[p] < iterations
  /\ made' = made + 1
  /\ parent' = [parent EXCEPT ![c] = p]
  /\ at' = [at EXCEPT ![p] = ParentAfterFork, ![c] = ChildAfterFork]
  /\ i' = [i EXCEPT ![c] = i[p]]
  /\ out' = [out EXCEPT ![c] = Inherited(p)]
  /\ UNCHANGED <<program, iterations, tty, screen, forkfaults>>

ForkFails(p) ==
  /\ at[p] = "loop" /\ i[p] < iterations
  /\ forkfaults < MaxForkFaults
  /\ forkfaults' = forkfaults + 1
  /\ at' = [at EXCEPT ![p] = IF program = "simplefork" THEN "B" ELSE "exit"]
  /\ UNCHANGED <<program, iterations, tty, parent, i, out, made, screen>>

LoopDone(p) ==
  /\ at[p] = "loop" /\ i[p] >= iterations
  /\ at' = [at EXCEPT ![p] = IF program = "childcreates" THEN "wait" ELSE "exit"]
  /\ UNCHANGED <<program, iterations, tty, parent, i, out, made, screen,
                 forkfaults>>

Ended(p) == at[p] \in {"ended", "reaped"}
getppid(p) == IF parent[p] = Outside \/ Ended(parent[p]) THEN Outside ELSE parent[p]

PrintLine(p) ==
  LET line == [who |-> p, from |-> getppid(p),
               no |-> IF program = "simplefork" THEN at[p] ELSE i[p]]
  IN /\ at[p] \in {"print", "A", "B", "C", "D", "E"}
     /\ IF tty THEN screen' = Append(screen, line) /\ out' = out
               ELSE out' = [out EXCEPT ![p] = Append(@, line)] /\ screen' = screen
     /\ at' = [at EXCEPT ![p] = AfterPrint(p)]
     /\ CountOn(p, AfterPrint(p))
     /\ UNCHANGED <<program, iterations, tty, parent, made, forkfaults>>

Children(p) == {c \in Pid : at[c] \notin {"none", "reaped"} /\ parent[c] = p}
Zombies(p) == {c \in Children(p) : at[c] = "ended"}

(* Mutant: wait does not wait. *)
WaitReturns_Always(p) == TRUE

(* Without children wait returns -1 at once, which nobody looks at. *)
WaitReturns(p) == Children(p) = {} \/ Zombies(p) # {}

Wait(p) ==
  LET to == IF program = "parentcreates" THEN "loop" ELSE "exit" IN
  /\ at[p] = "wait"
  /\ WaitReturns(p)
  /\ \/ Zombies(p) = {} /\ at' = [at EXCEPT ![p] = to]
     \/ \E c \in Zombies(p) : at' = [at EXCEPT ![p] = to, ![c] = "reaped"]
  /\ CountOn(p, to)
  /\ UNCHANGED <<program, iterations, tty, parent, out, made, screen, forkfaults>>

(* exit, or return from main: the buffer is written out. *)
Exit(p) == /\ at[p] = "exit"
           /\ at' = [at EXCEPT ![p] = "ended"]
           /\ screen' = screen \o out[p]
           /\ out' = [out EXCEPT ![p] = <<>>]
           /\ UNCHANGED <<program, iterations, tty, parent, i, made, forkfaults>>

ForkStep(p) == \/ Fork(p) \/ ForkFails(p) \/ LoopDone(p) \/ PrintLine(p)
               \/ Wait(p) \/ Exit(p)

ForkNext == ForkStart \/ \E p \in Pid : ForkStep(p)
ForkSpec == ForkInit /\ [][ForkNext]_forkVars
                     /\ \A p \in Pid : WF_forkVars(ForkStep(p))

-----------------------------------------------------------------------------
AllEnded == program # "none" /\ \A p \in Pid : at[p] = "none" \/ Ended(p)

Occurrences(s, k) == Cardinality({j \in DOMAIN s : s[j].no = k})
Printed(k) == Occurrences(screen, k)

(* Line k of parentcreates and of childcreates. *)
FromRoot(k) == [who |-> k + 1, from |-> Root, no |-> k - 1]
FromLast(k) == [who |-> k + 1, from |-> k, no |-> k - 1]
RootLines(n) == [k \in 1..n |-> FromRoot(k)]
LastLines(n) == [k \in 1..n |-> FromLast(k)]

ParentCreatesOutput == screen = RootLines(made)
ChildCreatesOutput ==
  screen = IF tty THEN LastLines(made)
           ELSE FlattenSeq([k \in 1..made |-> LastLines(made + 1 - k)])
ForkLoopOutput ==
  forkfaults = 0 =>
    \A k \in 0..(iterations - 1) :
      Printed(k) = Doubled[IF tty THEN k + 1 ELSE iterations]
SimpleForkOutput ==
  /\ Printed("A") = IF tty THEN 1 ELSE made + 1
  /\ Printed("B") = made + 1
  /\ Printed("C") = made /\ Printed("D") = made
  /\ Printed("E") = 2 * made

(* The waits make the output of parentcreates and childcreates the same in *)
(* every schedule, also when a fork fails: in order of creation, no line   *)
(* from an orphan.  Without waits the number of times a line of forkloop   *)
(* or simplefork appears is still fixed, but the buffer that fork copies   *)
(* makes it another one in a pipe or a file than on a terminal, where      *)
(* childcreates also prints its lines once per descendant, deepest first   *)
(* (forkloop.c:16-23, parentcreates.c:18-28, childcreates.c:16-29).        *)
OutputDetermined ==
  AllEnded =>
    CASE program = "parentcreates" -> ParentCreatesOutput
      [] program = "childcreates" -> ChildCreatesOutput
      [] program = "forkloop" -> ForkLoopOutput
      [] program = "simplefork" -> SimpleForkOutput
=============================================================================
