------------------------------ MODULE Exercises ------------------------------
(***************************************************************************)
(* The programs of the labs and of a1 that end by themselves, side by      *)
(* side: a shell starts one of them, and that one runs.                    *)
(***************************************************************************)
EXTENDS ForkLoops, PasswordCheck, TimeReads, Tools

vars == <<forkVars, passVars, timeVars, toolVars>>

Init == ForkInit /\ PassInit /\ TimeInit /\ ToolInit

(* Nothing has been started yet. *)
Prompt == program = "none" /\ check = "none" /\ loop = "none" /\ tool = "none"

Start == Prompt /\ \/ ForkStart /\ UNCHANGED <<passVars, timeVars, toolVars>>
                   \/ PassStart /\ UNCHANGED <<forkVars, timeVars, toolVars>>
                   \/ TimeStart /\ UNCHANGED <<forkVars, passVars, toolVars>>
                   \/ ToolStart /\ UNCHANGED <<forkVars, passVars, timeVars>>

(* A process of lab7, one of the two of lab8, the alarm of lab9.           *)
Lab7(p) == ForkStep(p) /\ UNCHANGED <<passVars, timeVars, toolVars>>
Lab8Parent == Checkpasswd /\ UNCHANGED <<forkVars, timeVars, toolVars>>
Lab8Child == Validate /\ UNCHANGED <<forkVars, timeVars, toolVars>>
Lab9Alarm == handler /\ UNCHANGED <<forkVars, passVars, toolVars>>
Lab9 == (ReadNumber \/ PrintNumber \/ CountRead)
          /\ UNCHANGED <<forkVars, passVars, toolVars>>
Faults == PassFault /\ UNCHANGED <<forkVars, timeVars, toolVars>>

Next == Start \/ (\E p \in Pid : Lab7(p)) \/ Lab8Parent \/ Lab8Child \/ Faults
          \/ Lab9Alarm \/ Lab9

(* The kernel runs every process that can run; an alarm that is set comes. *)
Spec == /\ Init /\ [][Next]_vars
        /\ \A p \in Pid : WF_vars(Lab7(p))
        /\ WF_vars(Lab8Parent) /\ WF_vars(Lab8Child) /\ WF_vars(Lab9Alarm)

-----------------------------------------------------------------------------
(* What was started ends, whichever fork, system call or process fails on  *)
(* the way: no process waits for ever for a child, or for a pipe that      *)
(* nobody will write to or close (parentcreates.c:27, childcreates.c:29,   *)
(* checkpasswd.c:55, 77, validate.c:29, 48), and time_reads ends if it was *)
(* given a number of seconds.                                              *)
ProgramsEnd ==
  /\ program # "none" ~> AllEnded
  /\ check # "none" ~> check = "ended" /\ child = "ended"
  /\ loop # "none" /\ seconds ~> loop = "ended"
=============================================================================
