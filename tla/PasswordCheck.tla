---------------------------- MODULE PasswordCheck ----------------------------
(***************************************************************************)
(* lab8: checkpasswd writes a user id and a password into a pipe, each as  *)
(* one chunk of MAX_PASSWORD bytes, to a child that runs validate, which   *)
(* looks them up in the password file and answers with its exit status.    *)
(*                                                                         *)
(* A chunk is what is left of a name in it.  Ids have no colon; a line of  *)
(* the file is a user, a colon and a password, and ends in a newline.      *)
(***************************************************************************)
EXTENDS Fgets, FiniteSets

Colon == ":"

CONSTANTS
  MAX_PASSWORD, MAXLINE,
  Char,            \* what a password may be typed of
  Ids, Passwords,  \* sequences of characters
  MaxLines,        \* bound: lines of the password file
  MaxPassFaults    \* bound: system calls that fail, processes that are killed

ASSUME PasswordAssumption ==
  /\ MAX_PASSWORD \in Nat \ {0} /\ MAXLINE \in Nat
  /\ 2 * MAX_PASSWORD < MAXLINE
  /\ {MaxLines, MaxPassFaults} \subseteq Nat
  /\ Ids \subseteq Seq(Char \ {Colon}) /\ Passwords \subseteq Seq(Char)

Entry == [user : Ids, pw : Passwords]

VARIABLES
  typed,              \* the two lines of standard input
  passfile, readable, \* pass.txt, and whether it can be opened
  check, verdict,     \* where checkpasswd is, and what it has printed
  child, status,      \* where the child is, and how it ended
  executed,           \* the child has become validate
  pipe, writers,      \* chunks in the pipe, processes with its write end
  userid, password,   \* of validate
  line,               \* what fgets reads next: its place in Lines
  passfaults          \* counter for the bound

file == <<passfile, readable>>
passVars == <<typed, file, check, verdict, child, status, executed, pipe,
              writers, userid, password, line, passfaults>>

PassInit ==
  /\ typed = <<>> /\ passfile = <<>> /\ readable = FALSE
  /\ check = "none" /\ verdict = "none"
  /\ child = "none" /\ status = "none" /\ executed = FALSE
  /\ pipe = <<>> /\ writers = {}
  /\ userid = <<>> /\ password = <<>> /\ line = 0 /\ passfaults = 0

(* checkpasswd up to fork.                                                 *)
PassStart ==
  /\ check = "none"
  /\ typed' \in Ids \X Passwords
  /\ passfile' \in SeqOf(Entry, MaxLines) /\ readable' \in BOOLEAN
  /\ check' = "write_id" /\ child' = "dup2"
  /\ writers' = {"check", "child"}
  /\ UNCHANGED <<verdict, status, executed, pipe, userid, password, line,
                 passfaults>>

-----------------------------------------------------------------------------
(* The parent.  It still has the read end, so that no write fails because  *)
(* the child has gone, and there is room for both chunks.                  *)

Chunk(s) == SubSeq(s, 1, IF Len(s) < MAX_PASSWORD THEN Len(s) ELSE MAX_PASSWORD)

Write == /\ check \in {"write_id", "write_pw"}
         /\ pipe' = Append(pipe, Chunk(typed[IF check = "write_id" THEN 1 ELSE 2]))
         /\ check' = IF check = "write_id" THEN "write_pw" ELSE "close"
         /\ UNCHANGED <<typed, file, verdict, child, status, executed,
                        writers, userid, password, line, passfaults>>

CloseBoth == /\ check = "close"
             /\ writers' = writers \ {"check"}
             /\ check' = "wait"
             /\ UNCHANGED <<typed, file, verdict, child, status, executed,
                            pipe, userid, password, line, passfaults>>

(* Nothing is printed about a child that a signal has ended.               *)
Verdict == CASE status = "0" -> "SUCCESS"
             [] status = "2" -> "INVALID"
             [] status = "3" -> "NO_USER"
             [] status = "1" -> "ERROR"
             [] OTHER -> "none"

WaitForChild == /\ check = "wait"
                /\ child = "ended"
                /\ verdict' = Verdict
                /\ check' = "ended"
                /\ UNCHANGED <<typed, file, child, status, executed, pipe,
                               writers, userid, password, line, passfaults>>

-----------------------------------------------------------------------------
(* The child. *)

ChildEnds(s) == child' = "ended" /\ status' = s /\ writers' = writers \ {"child"}

(* Mutant: the child keeps the write end of the pipe. *)
ChildKeeps_WriteEnd == writers

(* Before it becomes validate the child closes the pipe, which is now its  *)
(* standard input.                                                         *)
ChildKeeps == writers \ {"child"}

Dup2 == /\ child = "dup2"
        /\ child' = "exec"
        /\ writers' = ChildKeeps
        /\ UNCHANGED <<typed, file, check, verdict, status, executed, pipe,
                       userid, password, line, passfaults>>

Exec == /\ child = "exec"
        /\ child' = "read_id" /\ executed' = TRUE
        /\ UNCHANGED <<typed, file, check, verdict, status, pipe, writers,
                       userid, password, line, passfaults>>

(* A read takes one chunk; it waits for one as long as the pipe has a      *)
(* writer, and then returns 0.                                             *)
Read == /\ child \in {"read_id", "read_pw"}
        /\ \/ /\ pipe # <<>>
              /\ pipe' = Tail(pipe)
              /\ IF child = "read_id"
                 THEN userid' = Head(pipe) /\ child' = "read_pw" /\ UNCHANGED password
                 ELSE password' = Head(pipe) /\ child' = "open" /\ UNCHANGED userid
              /\ UNCHANGED <<status, writers>>
           \/ /\ pipe = <<>> /\ writers = {}
              /\ ChildEnds("1")
              /\ UNCHANGED <<pipe, userid, password>>
        /\ UNCHANGED <<typed, file, check, verdict, executed, line, passfaults>>

Open == /\ child = "open"
        /\ \/ ~readable /\ ChildEnds("1") /\ UNCHANGED line
           \/ /\ readable
              /\ child' = "scan" /\ line' = 1
              /\ UNCHANGED <<status, writers>>
        /\ UNCHANGED <<typed, file, check, verdict, executed, pipe, userid,
                       password, passfaults>>

(* What the loop over the file compares with: the pieces that fgets makes  *)
(* of its lines with a buffer of MAXLINE - 1 bytes.                        *)
Text(e) == e.user \o <<Colon>> \o e.pw \o <<Newline>>
Lines == Pieces([l \in DOMAIN passfile |-> Text(passfile[l])], MAXLINE - 1)

(* MAXLINE has room for both names and the colon, so that strncat cuts     *)
(* nothing.                                                                *)
Wanted == userid \o <<Colon>> \o password

(* Mutant: the comparison of the user leaves out the colon. *)
SameUser_Prefix(p) == IsPrefix(userid, p)

SameUser(p) == IsPrefix(userid \o <<Colon>>, p)

Scan == /\ child = "scan"
        /\ IF line > Len(Lines) THEN ChildEnds("3") /\ UNCHANGED line
           ELSE LET p == Lines[line] IN
                \/ /\ p = Wanted
                   /\ ChildEnds("0") /\ UNCHANGED line
                \/ /\ p # Wanted /\ SameUser(p)
                   /\ ChildEnds("2") /\ UNCHANGED line
                \/ /\ p # Wanted /\ ~SameUser(p)
                   /\ line' = line + 1
                   /\ UNCHANGED <<child, status, writers>>
        /\ UNCHANGED <<typed, file, check, verdict, executed, pipe, userid,
                       password, passfaults>>

-----------------------------------------------------------------------------
(* What goes wrong: a process is killed, a write of the parent fails, or a *)
(* dup2, exec or read of the child.  A child whose exec fails returns 0.   *)

CheckFault == /\ check \notin {"none", "ended"}
              /\ check' = "ended"
              /\ writers' = writers \ {"check"}
              /\ UNCHANGED <<child, status>>

ChildFault == /\ child \notin {"none", "ended"}
              /\ \/ ChildEnds("killed")
                 \/ child \in {"dup2", "read_id", "read_pw"} /\ ChildEnds("1")
                 \/ child = "exec" /\ ChildEnds("0")
              /\ UNCHANGED check

PassFault == /\ passfaults < MaxPassFaults
             /\ passfaults' = passfaults + 1
             /\ CheckFault \/ ChildFault
             /\ UNCHANGED <<typed, file, verdict, executed, pipe, userid,
                            password, line>>

Checkpasswd == Write \/ CloseBoth \/ WaitForChild
Validate == Dup2 \/ Exec \/ Read \/ Open \/ Scan

PassNext == PassStart \/ Checkpasswd \/ Validate \/ PassFault
PassSpec == PassInit /\ [][PassNext]_passVars
                     /\ WF_passVars(Checkpasswd) /\ WF_passVars(Validate)

-----------------------------------------------------------------------------
Fits(s) == Len(s) <= MAX_PASSWORD

(* No line of the file is longer than what fgets reads. *)
LinesFit == \A l \in DOMAIN passfile : Len(Text(passfile[l])) <= MAXLINE - 2

(* What the file says of an id and a password: its first line for the id   *)
(* counts.                                                                 *)
Answer(id, pw) ==
  LET mine == {k \in DOMAIN passfile : passfile[k].user = id}
  IN IF mine = {} THEN "NO_USER"
     ELSE IF passfile[Min(mine)].pw = pw THEN "SUCCESS" ELSE "INVALID"

(* The verdict that comes back through the pipe, the exit status and wait  *)
(* is what the password file says of what was typed, if that fits into the *)
(* chunks, the lines of the file fit into the buffer of fgets, and         *)
(* validate has been executed; ERROR and silence mean that the file or     *)
(* something else has failed (checkpasswd.c:39-67, validate.c:12-22,       *)
(* 68-86).                                                                 *)
VerdictTrue ==
  check = "ended" =>
    /\ verdict = "none" => passfaults > 0
    /\ verdict = "ERROR" => ~readable \/ passfaults > 0
    /\ executed /\ verdict \in {"SUCCESS", "INVALID", "NO_USER"}
         /\ Fits(typed[1]) /\ Fits(typed[2]) /\ LinesFit
         => readable /\ verdict = Answer(typed[1], typed[2])
=============================================================================
