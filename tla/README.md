# Specifications of software-tools

The repository holds C programs of a systems course: four assignments (`a1` to
`a4`) and eleven labs (`lab1` to `lab11`). This directory models the programs
that have behaviour worth checking: a parallel sort over processes and pipes, a
game and the server that plays it over sockets, a line server, a chat server,
a hangman that never commits to a word, the exercises on processes, pipes and
signals, and the small programs that compute one result.

Line numbers below refer to the files under `src/`.

## Inventory

### psort (`a3/psort.c`, `a3/helper.c`)

*State*: the descriptors of n pipes in up to n + 1 processes, the sorted share of
every child, `merge_list`, `num_empty_pipes`, the output, the statuses that
`wait` returns.
*Operations*: fork and close in the parent; close, read and qsort, write,
exit in every child; prime, merge, close and wait in the parent.
*Interaction*: pipes only. End of file depends on who still holds a write end,
SIGPIPE on who still holds a read end.
*Hard*: every interleaving of the children; pipes that fill up; a process that
fails or is killed anywhere; the division of the file when n does not divide it.
*Correct when*: the output is sorted and holds no record twice, what is missing
has been reported, end of file is never seen too early, every process ends, and
the whole is an ordered merge.

### word game (`a4/gameplay.c`, parts of `a4/wordsrv.c`)

*State*: word, `guess`, `letters_guessed`, `guesses_left`.
*Operations*: `init_game`, a right guess, a wrong guess.
*Hard*: which letter is recorded when (the one that completes the word is not), and
the size of the message that `status_message` composes.
*Correct when*: the board is true, each guess makes progress, messages fit, and
players see Hangman.

### word server (`a4/wordsrv.c`, `a4/socket.c`)

*State*: the lists `head` and `new_players`, `has_next_turn`, `allset`, names,
the game, sockets.
*Operations*: `main` with its branches for a new connection, a name, a guess in
and out of turn, end of file; `broadcast`, `announce_turn`, `announce_winner`,
`disconnect`, `advance_turn`, `remove_player`, `new_game`.
*Interaction*: `broadcast` and the announcing functions call `disconnect` when a
write fails, and `disconnect` calls them; clients send and vanish meanwhile.
*Hard*: the recursion between broadcast and disconnect while a list is walked;
`rset` is older than the state; reads that join and cut lines, and block everyone.
*Correct when*: lists, descriptors and turn agree between two handlers, everyone
knows the board and the turn, only the player with the turn plays, and lines are
read.

### buffered line server (`lab10/bufserver.c`, `lab10/randclient.c`)

*State*: `buf`, `inbuf`, `room`, `after` of the server; the position of the client
in its stream.
*Operations*: accept, read, `find_network_newline`, print and memmove, close; the
client connects, writes pieces of random size, closes.
*Hard*: reads end anywhere; old bytes stay behind `inbuf`; a line may be longer
than the buffer; clients end early.
*Correct when*: the lines come out whole and in order whatever the pieces, and
every client is served in the end.

### chat server (`lab11/chat_server.c`)

*State*: `usernames` (slots of a descriptor and a name), `all_fds`, `ind`.
*Operations*: select, `accept_connection` and the read of the name, `read_from`
with its echo, closing a slot.
*Hard*: two functions choose the slot of a new client by different rules;
descriptors are reused; the name is read in a way that blocks, and so does the write of
an echo to a client that does not read.
*Correct when*: slots, descriptor set and sockets agree, nobody in the room misses a
message, and what is sent is read.

### Wheel of Misfortune (`a2/wheel.c`, `a2/family.c`, `a2/reading.c`)

*State*: the word list, families (signature, words, size of their array),
`current_word`, `letters_guessed`, `guesses`.
*Operations*: choose a length, choose the number of guesses, guess, play again.
*Hard*: after many guesses the list is all that remembers the earlier answers;
ties between families; families outgrow their first array.
*Correct when*: the game never contradicts itself, takes a largest family, ends,
and stays inside its arrays.

### password check (`lab8/checkpasswd.c`, `lab8/validate.c`)

*State*: the pipe and who can still write to it, user id and password as they
arrive, the position in the password file, the exit status.
*Operations*: `checkpasswd` forks, writes two chunks of `MAX_PASSWORD` bytes, closes,
waits and prints a verdict; the child moves the pipe to its standard input, becomes
`validate`, reads two chunks, looks the user up line by line and exits.
*Hard*: a parent that dies between its two chunks; names as long as a chunk and
longer; users that begin alike and users with two lines; lines that `fgets` cuts.
*Correct when*: the verdict printed is the one of the file, and both processes end.

### process exercises (`lab7`)

*State*: a tree of processes, what each has in its `stdout` buffer, what reached the
screen. *Operations*: fork, print, wait, exit of `simplefork`, `forkloop`,
`parentcreates`, `childcreates`.
*Hard*: the schedule; orphans; the buffer that fork copies, so that the output in a
pipe differs from the one on a terminal.
*Correct when*: where the program waits its output does not depend on the schedule,
elsewhere the number of times each line appears does not, and all processes end.

### timed reads (`lab9/time_reads.c`)

*State*: `num_reads`, what was printed. *Operations*: the loop, and `handler` at any
moment. *Hard*: the handler reads a count that the loop is about to change.
*Correct when*: the count reported is at most one off, and the program ends.

### functions of their input (`lab3`, `lab4`, `a1`, `a3/mkwords.c`)

`strip_q_marks`, `truncate`, the greeting of `lab4`, `split_array`, `fibonacci`,
`update_state` and `life`, the scans of `trim` and `trcount`, and the words of `mkwords`.
*Hard*: an array overwritten while it is read, an element too many or too few.
*Correct when*: the result is what the comment above the code asks for.

### Not modelled

| part | what it is | why not |
|---|---|---|
| `lab10/readserver.c` | the exercise before `bufserver` | prints what each read returns, keeps nothing between reads |
| `lab11/chat_client.c` | the client of the chat server | line 27 is not C |
| `lab4/compare.c` | one call of `strcmp` | nothing of its own |
| `lab5/bitmap.c`, `bitmap_printer.c` | reads the fields of a file | a layout, no behaviour |
| `lab6/copy.c` | copies characters | its own definition up to the end of its source, undefined beyond (see below) |
| `lab6/overflow.c` | shows an overflow | its effect is the layout of the stack |
| `lab9/write_test_file.c` | writes a hundred random numbers | input of `time_reads` only |
| `lab1`, `lab2` | first exercises | a few statements each |
| `a3/mkwords.c`, in part | random frequencies, failing files | only which word each record gets is modelled |

## Modules

| module | models | with |
|---|---|---|
| `PSort` | psort: processes, pipes, failures | `OrderedMerge`, its abstract specification |
| `MCPSort` | input files for TLC | |
| `WordGame` | the board | `Hangman`, its abstract specification |
| `MCWordGame` | a dictionary for TLC | |
| `WordServer` | the server; EXTENDS `WordGame` and performs its steps | `Hangman` again |
| `MCWordServer` | values for TLC | |
| `BufServer` | line server and its clients | `LineStream`, its abstract specification |
| `MCBufServer` | streams for TLC | |
| `ChatServer` | chat room | |
| `Wheel` | Wheel of Misfortune | `EvasiveHangman`, its abstract specification |
| `MCWheel` | dictionaries for TLC | |
| `ForkLoops` | the process trees of lab7 | |
| `Fgets` | what a loop over `fgets` makes of a file | used by `PasswordCheck` and `Tools` |
| `PasswordCheck` | checkpasswd and validate of lab8 | |
| `TimeReads` | loop and signal handler of lab9 | |
| `Tools` | the functions of lab3, lab4, a1, a3 | what their comments ask for, as definitions |
| `Exercises` | a shell that starts one of the programs of the last four modules | |
| `MCExercises` | names for TLC | |
| `PSortProofs` | theorems about `PSort` | |
| `WordGameProofs`, `WordServerProofs` | theorems about the game and its server | |
| `BufServerProofs`, `ChatServerProofs` | theorems about the other two servers | |
| `WheelProofs` | theorems about `Wheel` | |
| `ExercisesProofs` | theorems about the programs of the labs | |
| `LeastElements` | a set of natural numbers has a least element, and what follows for loops | used by the proofs about the servers, the wheel and the labs |

Operators called `X_Something` next to an operator `X` and marked "Mutant" are
wrong versions of `X`. Nothing uses them; they document which mistake in the code
each property finds.

### PSort

One action per system call or loop round, each of one process: `Fork`,
`CloseWriteEnd`, `Prime`, `Emit`, `Refill`, `LeaveMerge`, `CloseReadEnd`, `Wait` of
the parent; `CloseInherited`, `CloseOwnReadEnd`, `ReadAndSort`, `Write`,
`WriteBrokenPipe`, `CloseOwnWriteEnd`, `Exit` of a child. `writers` and `readers`
hold the processes with an end of each pipe, which is what decides about end of file
and SIGPIPE. A record is its position in the file: the words play no part in
the sort. `qsort` is any sorted order of the share, as it is not stable.
`ChildFault` and `ParentFault` are a failed system call (`exit(1)` in `helper.c`) or a
kill. `EmitWild` is the access to `merge_list[-1]`, possible when all that is left
has the frequency `INT_MAX`; nothing the parent does after it is modelled.
Left out: short reads of the file (its size is checked before), a negative
`-n`, a parent killed by a signal (its exit status is nobody's business here;
`ParentFault` has the same effect on the children).

### WordGame, WordServer

`WordGame` holds the variables of the game and what `main` does to them; the server
performs just these steps, so that `HangmanSpec` holds of both.

A handler of the server is a stack `todo` of calls still to make. Each write is a
step of its own with three outcomes: it succeeds, it fails and `disconnect` is
called on the spot, or it raises SIGPIPE. Between two steps clients connect, send,
close or reset. `stale` keeps the `next` field of a freed node, because the loops
read it after `disconnect`; `UseAfterFree` is the case where it leads to a node
that no longer exists. `srv` says how the process ended: `crashed` (a NULL or freed
pointer), `exited` (`read` returned -1), `killed` (SIGPIPE) or `hung` (the loop of
`read_input` can never end). A descriptor is the lowest free one, so that it is reused.
A call of `accept` that fails ends the program (`a4/socket.c:83-85`); it is taken to succeed.

What a client sends arrives byte by byte in `inbox`, and `read_input` is modelled on
bytes: it takes what has arrived, at most `Size` bytes (`wordsrv.c:137`, `MAX_WORD` from a
player and `MAX_NAME` from a newcomer), it returns when there is a newline anywhere in them,
and it cuts off the last two (line 152). So lines that arrive together are one input,
and what is beyond the buffer is left for the next call. Lines of 12 and 9 bytes leave a
line feed; the server then waits at line 148 for a newline (`WaitsForNewline`), although every
client has sent whole lines. A line of 18 letters that follows fits alone, but after that line
feed it fills the 20 bytes without `\r\n`, and the loop reads 0 bytes for ever (`Overlong`,
`hung`). `StaysUp` and `LinesAreRead` say what is true in spite of this. Bytes that are
NUL, which end the search for the newline, are not modelled, and the terminator written
behind a buffer that is full falls on bytes that are not in use (`inbuf` after `name`).

A client may stop reading (`Stall`): its socket is `full`, and the server's next
write to it is not enabled until the client reads again (`Resume`) or drops the
connection. The whole server stands still meanwhile, in the middle of a broadcast
perhaps; `WritesTo` names the socket it stands at. The number of writes that fit into
a buffer is left to the moment at which the client is said to stall.

### BufServer

The buffer is modelled byte by byte, with the bytes of earlier lines that stay
behind `inbuf`. `Read` takes any number of the bytes that have arrived;
`WritePiece` writes any number between `MINCHARS` and `MAXCHARS`, or what is left.
`Quit` ends a client early, with a FIN or a RST.

### ChatServer

A client writes messages without content. `Accept` and `ReadName` are the two halves
of the accept branch, since the second one blocks. `Die` covers the ends of the process:
`exited`, `killed` (SIGPIPE), `crashed` (NULL), `wild` (outside an array, or
uninitialised bytes). The array's slot `ind` and the first free slot are both kept.
A client may stop reading (`Stall`, `Resume`), and the write of an echo to it (line 80) is
then not enabled: nobody else is served meanwhile (`Waits`). A read takes one message or
several, and the echo of what it took, which the code cuts to its buffer at line 75, counts as
one.
Left out: `read` of the name with exactly 128 bytes, which writes one byte past
`username` (line 164); it is modelled as harmless.

### ForkLoops, PasswordCheck, TimeReads, Tools, Exercises

`ForkLoops` numbers processes in the order of their creation. A process of lab7 is a
program counter, a loop counter and a buffer; `Fork` copies all three, `PrintLine`
goes to the screen or to the buffer (`tty`), whose size is not limited (stdio writes out a buffer
that is full, some 4096 bytes, which no run here reaches but a program with very many
children would), `Exit` writes the buffer out, `Wait` returns
at once if there is no child. `getppid` answers `Outside` once the parent has ended.

`PasswordCheck` has one action per system call of the two processes. `Chunk` is the cut
to `MAX_PASSWORD` bytes. `Lines` is the password file as `fgets` delivers it (`validate.c:78`, at
most `MAXLINE - 2` characters at a time): a line that does not fit comes in pieces, each of
which loses its last character and is compared like a line. The verdict may then be that of a
password that is not in the file, and `VerdictTrue` is about files whose lines fit
(`LinesFit`). The comparison of the user includes the colon (`SameUser`). `PassFault` kills either process or makes a call fail; an `exec`
that fails makes the child return 0, as in the code. Failures before `fork` are left
out, and the last line of the file is taken to end in a newline.

`TimeReads` splits a round of the loop into read, print and count, and `handler` may come
between any two.

`Tools` has no behaviour of its own: each loop is a recursive function of the step
number, each comment a definition `...AsDescribed`, and the initial step chooses a
program and its input. An array that the C code changes in place is a value that the
loop passes on, with the cells changed so far. `fib` adds ints: a sum beyond `INT_MAX` is
undefined in C and wraps around in the model, and `FibAsDescribed` asks for a number to be the sum of
the two before it whenever that sum is an int, which is up to the 47th for 32 bits.

These programs do not interact. `Exercises` is the shell that starts one of them, so
that one run checks them all.

### Wheel

One action per question the program asks. A word is a sequence of letters, a
family a record of signature, words and `max_words`; the order of words and
families is that of the code. Input that is refused is asked for again and
changes nothing, so that it is no step.

## Runs

| run | instance | asks |
|---|---|---|
| `psort_safety` | 4 records, 3 children, pipes of 1 record, 1 fault, every pattern of two frequencies with and without INT_MAX | safety and refinement of psort |
| `psort_liveness` | 6 records, 2 children, pipes of 1 record, 1 fault | parent and children end |
| `wordgame` | 3 words, 14 letters, 4 guesses | board, progress, message size, Hangman |
| `wordserver_safety` | 3 clients, 3 connections, 4 lines, 2 lost connections | lists, turn, broadcasts, staying up, Hangman |
| `wordserver_liveness` | 3 clients, 3 connections, 3 lines, 2 lost connections, 1 client that stops reading, reads of 5 or 6 bytes | liveness: nested handlers, lines joined and cut |
| `wordserver_doc_turn_passes` | 2 clients | violation: see below |
| `wordserver_doc_read_returns` | 2 clients, lines in pieces | violation: see below |
| `bufserver` | buffer of 4 bytes, all streams of 4 bytes and some longer, 2 clients, 1 quit | framing, service |
| `chatserver` | 3 slots, 5 connections, 5 messages, 2 departures, 1 client that stops reading | slots, echo, staying up, liveness |
| `chatserver_doc_echo` | 3 slots, 3 connections | violation: see below |
| `wheel` | 95 dictionaries, words of 1 to 3 letters, 3 misses | the evasive game |
| `exercises` | 4 processes, 1 failing fork; chunks of 2, names of 1 to 3 characters, files of up to 2 lines, `fgets` of 6 characters, 1 failure; 4 reads; inputs of up to 5 elements, ints from -4 to 3 | output, verdict, count, functions, and that all end |

Why the bounds are enough:

- *psort*: 4 records over 3 children give shares of 2, 1 and 1, so that both formulas
  of `index` are used and one child writes more than its pipe holds. With
  `PipeCap = 1` and three records per child in the liveness run a child blocks
  in `write`, which is the case that can deadlock. The inherited descriptors that
  matter for a deadlock need two children.
- *word server*: three clients are needed for one to leave while a broadcast for
  another is under way and a third is still in the list. With two lost connections the
  second client may vanish during the goodbye of the first, so that `disconnect`, `broadcast`
  and `announce_turn` nest and a player is left; three clients need no more, as the last one has
  nobody to tell. `StaysUp` speaks about the behaviours without a departure, which are part of the
  same run. One client that stops reading blocks the server at every write there is; it only
  delays the server's steps, so that it is in the liveness run and not in the other.
  Buffers of 5 and 6 bytes take one line of 3 bytes whole and leave an LF of the second, which is
  the least that shows what the reads of 20 and 30 bytes do. The lines of these runs are
  one guess, so that a full buffer always has a newline; the pieces of
  `wordserver_doc_read_returns` fill it without one, and the theorem about `StaysUp` is about
  any bytes.
- *buffer*: 4 bytes hold an empty line, a line of one or two letters, a line that
  just fits, and overflow with five bytes; `\r\n` falls on every position.
- *chat*: three slots are the smallest number with a hole in the middle; five
  connections fill the array of slots and go past it. One client that stops reading stops
  an echo at each client of the room.
- *wheel*: eight words of two letters give families of every size up to four, with
  ties, growth beyond the first array, and rounds that end both ways.

- *exercises*: four processes are two rounds of `forkloop` and three children of the
  other programs, so that an orphan's child and two children that end in the other
  order occur. Among the names of 1, 2 and 3 characters with a chunk of 2 one fits
  with room, one fits exactly, and one is cut to another one that is in the file. Two
  lines are a user listed twice, or two that begin alike. With 6 bytes for a line and its
  newline, a user and a password that have more than 4 characters together do not fit, and their
  line comes in two pieces. Sums beyond 3 come
  with the sixth number of Fibonacci. Five cells show an update in
  place, which goes wrong from the third cell on; addresses stand at both sides of each
  boundary of a region.

`CHECK_DEADLOCK FALSE` is used where the system may stop: a server waits for clients
that have used up their bound, or has ended, the wheel ends when its player
does, and the programs of `Exercises` end. psort is checked for deadlock: `Terminated` is the only legal end.

### Fairness

- `PSort!Fairness`: weak fairness of the parent and of each child. The kernel
  schedules every process that can run. Faults need not occur.
- `WordServer!FairSpec`, `ChatServer!FairSpec`: weak fairness of the one thread of the
  server. Clients need not do anything, and one that sends no newline or no name, or does not
  read, can stop the server for good: its step is then not enabled, and fairness promises
  nothing. `LinesAreRead`, `HandlersEnd` and `MessagesAreRead` therefore suppose `[]<>~Waits`
  (or `[]<>~WaitsForReader`), that no such wait lasts for ever; they say that nothing else stops it.
- `BufServer!FairSpec`: weak fairness of the server, and of every client, since
  `randclient` waits for nothing between two writes and closes at the end.
- `WordGame!GameSpec` has none, as players need not guess; `GuessesProgress` is a measure
  that falls with every guess.
- `Wheel` needs none: `RoundAdvances` is a measure that falls with every guess.
- `Exercises!Spec`: weak fairness of every process of lab7, of both processes of lab8,
  and of the alarm once the timer is set: the kernel runs what can run. Failures need
  not occur, and neither does a round of lab9's loop.

## What is proved

Each theorem is about every value of the constants; the assumptions are the `ASSUME`s
of the modules and nothing else. `SizesAssumption` and `InputsAssumption` (frequencies
between 0 and `INT_MAX`, as -1 marks an exhausted pipe), `GameAssumption`, `DashAssumption`,
`FdAssumption`, `BufAssumption`, `ChatAssumption`, `WheelAssumption` and those of the four
modules of exercises give the constants
their types, sizes that are positive where the code needs them to be, and a
dictionary of words that are not empty; TLC evaluates all of them on every run.

| theorem | statement |
|---|---|
| `PSortProofs!TypeCorrect`, `SortedOutput`, `ShareInFile` | `[]TypeOK`, `[]OutputSorted`; every share lies within the file |
| `PSortProofs!EachRecordOnce`, `EndOfFileIsFinal`, `BrokenPipeMeansOrphan`, `WildNeedsIntMax`, `NoSilentLoss` | the other invariants of `psort_safety` |
| `PSortProofs!ImplementsMerge` | `Spec => MergeSpec` |
| `WordGameProofs!BoardCorrect`, `ProgressCorrect`, `ImplementsHangman` | `[]BoardIsTrue`, `GuessesProgress`, `GameSpec => HangmanSpec` |
| `WordGameProofs!StatusBounded`, `StatusAlwaysFits` | the status message has at most `LongestStatus(word)` bytes; `[]StatusFits` if no word's longest status exceeds `MAX_MSG` |
| `WordServerProofs!ServerTypeCorrect`, `SocketsCorrect`, `TurnCorrect`, `NewcomersCorrect`, `ServerSurvives` | `[]ServerTypeOK`, `[]NoLeak`, `[]TurnHeld`, `[]NamelessDoNotPlay`, `[]StaysUp` |
| `WordServerProofs!PlayersInformed` | `[]EveryoneInformed` |
| `WordServerProofs!ServerStatusFits` | `[]StatusFits` of the server, as `StatusAlwaysFits` |
| `WordServerProofs!ServerPlaysHangman` | `Spec => HangmanSpec` of the server |
| `BufServerProofs!TypeCorrect`, `NoLineIsLeft`, `FramingCorrect` | `[]BufTypeOK`, `[]NoLineLeftBehind`, `Spec => FramingSpec` |
| `ChatServerProofs!RoomCorrect`, `ServerStaysUp`, `RoomHears` | `[]RoomAgrees`, `[]StaysUp`, `[]EveryoneHears` |
| `WheelProofs!TypeCorrect`, `Consistent`, `Advances`, `ImplementsEvasive` | `[]WheelTypeOK`, `[]NeverContradicts`, `RoundAdvances`, `Spec => EvasiveSpec` |
| `ExercisesProofs!VerdictIsTrue`, `ReportCounts`, `OutputIsDetermined`, `ToolsCorrect` | `[]VerdictTrue`, `[]CountReported`, `[]OutputDetermined`, `[]AsDescribed` |

The abstract specifications are safety properties, and the theorems do not use
fairness.

*The order of psort's output.* The record that is written next is the smallest entry
of `merge_list`; that it is not smaller than the records written before needs to
know that no entry of `merge_list` is, and that in turn needs the shares to be
sorted and the entries to be where the pipe's counter says. The strengthening is
`IInv == MergeInv /\ ForkInv` with
`MergeInv == TypeOK /\ PipeInv /\ HeadInv /\ PhaseInv /\ OutputSorted`:

- `PipeInv`: the parent has read no more from a pipe than was written, no more was
  written than was sorted, a child has no records before it has loaded them, and
  what it has is in order;
- `HeadInv`: an entry of `merge_list` that is not `NoRec` is the record read last from
  its pipe, and no record in the output exceeds it;
- `PhaseInv`: nothing is written before the merge, and the entry that `Refill`
  replaces is a record (so that its successor in the pipe is not smaller);
- `ForkInv`: the child that `Fork` creates next does not exist yet.

*Nothing lost and nothing twice.* `Whole` adds to `IInv` the order in which children are
born (`BornInv`), who holds which end of each pipe (`EndsInv`), that a sorted share is a
permutation of the share (`ShareInv`), that the output is just the records that were read and
are no longer in `merge_list` (`OutputInv`), what an entry says about its pipe (`EntryInv`) and
what `Wait` has counted (`ReapInv`). `EndsInv` is what makes the end of a file mean that a
child wrote all it has or failed; `SharesDisjoint` and `SharesCover` say that the
arithmetic of `index` and `recs_per_process` divides the file, for any number of
records and processes.

*The game.* `IInv == TypeOK /\ BoardInv /\ RecordInv`: the board and the set of letters tell the
same, except that the letter that completes the word is not recorded. `GameIsHangman`, the
lemma about one step, serves the server as well.

*The word server.* A step of a handler runs in a state that other steps have changed, so that
the invariant has to speak about calls that are still waiting.
`ServerInv` joins `ServerTypeOK` with

- `ListsInv`: both lists are without repetition, disjoint, and hold exactly the connected
  sockets, which is also what the readable set of `select` is about;
- `TurnInv`: in the middle of any handler the turn is with one of the players;
- `StepsInv`: what is known about every call on the stack, and that `accept` and the greeting
  of a new client never have others beside them;
- `StaleInv`: the `next` field of a freed node never leads into `new_players`, because a loop
  keeps it for the time of one broadcast, in which nobody is accepted;
- `FinalInv`: at most one `check_over` or `init_game` waits, and when a game is over one does;
- `CalmInv`: as long as no client leaves or resets, no peer is gone, and the server ends
  only for a read that finds its buffer full and no newline in it; from it follows `StaysUp`;
- `BacklogInv` and `ToldInv`: bookkeeping of the listen queue and of who was told.

There is one lemma for each kind of call on the stack; `ServerInv` was also checked by TLC on
the instance of `wordserver_safety` before it was proved.

*Everybody is informed.* A broadcast goes on from a node that may have been freed while it
wrote, so that "the players it has still to visit" is not a part of any list. `Reach(c, f)` says
it without a list: f is in every set of nodes that has c and, with each node, the node its `next`
field leads to, in the list or stale. `InformInv` joins to `ServerInv`

- `TurnTold` and `GameTold`: a player who does not know whose turn it is, or the board, will be
  reached by a loop that waits on the stack, or something on the stack will start one that
  reaches everybody, or the player is about to be disconnected;
- `BoardFollows`: a new game on the stack has a broadcast of the board behind it;
- `Freed`: the node whose old `next` field a loop goes on with has left the list, or leaves it
  before the loop goes on. Without it the loop could follow the stale field of a node that is
  still listed, and miss a player who was inserted behind it.

Removing a node keeps every other node within reach (`NextWithout`), and that is why nobody
is missed by a loop that was in the middle of the list. TLC checked `InformInv` on
the instance of `wordserver_safety` before it was proved.

*The status message.* `StatusFits` is false for long words, as `gameplay.c:9` has a fixed buffer,
so the theorem has a hypothesis about the dictionary: `LongestStatus(w) <= MAX_MSG` for each of its
words, with `LongestStatus(w) == 93 + Len(w) + 2 * (Cardinality(LettersOf(w)) + MAX_GUESSES)`. A word of 9
different letters, the longest of `a4/dictionary.txt`, needs 93 + 9 + 2 * 13 = 128 bytes, just what
there is: the run's dictionary has one, and satisfies the hypothesis. `StatusBounded` has
no hypothesis.

*The line server.* `IInv == BufTypeOK /\ ReadInv /\ BufferInv /\ TurnInv /\ DoneInv`: the buffer holds
the last bytes taken from the stream and begins where the last line that was printed
ends. The bytes of earlier lines that stay behind `inbuf` are not constrained: the proof
shows that `find_network_newline` never looks at them.

*The chat server.* `IInv == ChatTypeOK /\ BacklogInv /\ NamedInv /\ RoomInv`. `StaysUp` needs
`QuietInv` besides: as long as nobody leaves, the slots fill up in order, so that the first free
slot is `ind`. The findings below begin where this ends, with the first departure.
`EveryoneHears` has to hold after departures as well, when a slot may be left behind without a
name. `HearInv == FilledInv /\ ScanInv /\ HeardInv`: the nameless slot of a client lies before its
named one, so that the scan meets it first and the server ends (`FilledInv`); a slot the scan has
passed with something to read has a name (`ScanInv`); and in the middle of a message the slots
before `i` have received it and the others have not (`HeardInv`). TLC checked `HearInv` on the run's
instance.

*The wheel.* `IInv == WheelTypeOK /\ ListInv /\ RoundInv`. The loops that build families are
recursive functions of the number of rounds. What a round keeps holds at the end because a
set of rounds at which it fails would have a least element (`LeastElements!AllRounds`); `LoopExists`
gives the values of such a function. `FamiliesOK` then says that the families partition the list by
signature, and `AnswerNarrows` that the family that is chosen is the set of words that agree
with the board and with the letters said to be absent, which is what `EvasiveHangman` asks.

*The labs.* A step of `Exercises` is a step of one program and leaves the variables of the others
alone (`OneProgram`), so each program has an invariant of its own. `TimeInv` says between which two
steps of the loop `printed` is one ahead of `num_reads`. `PassInv` follows the two chunks from
`checkpasswd` to `validate`: what has been read and what is in the pipe is what the parent may have
sent at that point (`Received`), the lines the scan has passed are of other users (`Scanned`), an exit
status of 1 means an unreadable file or a fault, as a parent that has not failed has sent both
chunks when it leaves the pipe (`Writing`, `Judged`). That a name that fits is not cut
(`WholeChunk`) is where names have to be sequences, of whatever characters. If the lines of the
file fit, `fgets` delivers them as they are (`PiecesWhole`, `LinesAre`), and as an id has no colon a line
that begins with the id and a colon is one of that user, whatever its password holds
(`JoinedOnce`, `LineSays`).

*The tools of the labs.* `AsDescribed` is about functions, so its theorem rests on one lemma for
each tool (`StripCorrect`, `TruncateCorrect`, ..., `MkwordsCorrect`), for sequences of any length over any
set. A recursive function of `Tools` is first shown to be a loop with typed values (`StripLoop`, ...),
from `LeastElements!LoopIs`; then what a round keeps is shown to hold at the end, from `AllRounds`.
What is kept is the loop invariant a reader of the C code would write: in `update_state` the cells up
to `i` are new and the rest are those of `temp`, in `trim` the signal is on just if there is an open start
marker, in `trcount` the counters are the sizes of the sets of lines they count. `AsDescribed` then
holds when a tool starts, whatever `MaxLength` is, and nothing changes it later.

*The process trees of lab7.* `ForkInv` has one conjunct for each program, and each says what is still
to come, not only what was printed.

- `parentcreates` (`ParentInv`): the children take turns, as the parent waits; what is on the screen
  followed by what the last child holds are the lines of the children made.
- `childcreates` (`ChildInv`): a chain in which everyone but the last waits (`ChildChain`). A process
  copies the buffer of the one that made it, so number p holds the lines of the first p - 1
  children (`HeldBy`); the chain ends from its end, and the screen has what the last d processes
  held, the deepest first (`HaveEnded`).
- `forkloop` (`LoopInv`), if no fork fails: a process in the loop with `i = j` will become
  2^(n - j) processes (`Family`), and line k will be printed by those it becomes
  2^(k + 1 - j) times (`Becomes`). The sum over all processes, with what is on the screen, never
  changes: a fork shares a summand between the parent and the child (`LoopFork`), a print moves one to
  the screen (`LoopPrint`). A sum is the cardinality of a set of units (`Sums`), so that the theorems
  about finite sets apply. The sum of `Family` is also why there is always a number left for the
  child (`LoopRoom`). In a pipe each process that is left holds each line it has passed just once
  (`LoopBuffers`).
- `simplefork` (`SimpleInv`): for each letter, the times it is on the screen, in a buffer or still to
  come (`ToCome`) make the total.

Powers of two are `Doubled`, a recursive function, in the model too: the solvers know nothing of
`2^n`. TLC checked `ForkInv` before it was proved, on four and on five processes.

Only model-checked: all liveness (`ParentEnds`, `ChildrenEnd`, `LinesAreRead`, `HandlersEnd`,
`EveryoneServed`, `MessagesAreRead`, `ProgramsEnd`), since fairness is out of reach of the proof
system used here. Every safety property that a passing run checks is stated by a theorem.

## Where the code and its comments disagree

Three runs end in a counterexample to what a comment says; each is a finding in
`PROJECT.json`.

- `a4/wordsrv.c:166` "If the current player drop connection, we should move to the
  next player": `advance_turn` dereferences `has_next_turn`, which has just been
  set to NULL (line 124). Run `wordserver_doc_turn_passes`.
- `a4/wordsrv.c:134` "Return -2 if read 0 byte (the client disconnect)": only for
  the first read; after part of a line the loop goes on with reads of 0 bytes for
  ever. Run `wordserver_doc_read_returns`.
- `lab11/chat_server.c:54` "Read a message from client_index and echo it back to
  them": not for a client that comes after another one has left. Run
  `chatserver_doc_echo`.

Others have no run of their own. The first three are stated in the modules, for whoever
wants to see the counterexample:

- `SmallestIndexFound` (PSort): `helper.c:37-38` promises an index, the code returns -1
  if every frequency left is `INT_MAX`.
- `ClientsCannotEndServer` (WordServer): `wordsrv.c:157-159`; a read that returns -1
  ends the server.
- `NamesDiffer` (WordServer): `wordsrv.c:436`; the `break` at line 445 leaves only the
  inner loop, and the rejected name joins.
- `gameplay.c:9`: the buffer of 128 bytes is enough for words of up to nine letters,
  the longest in the shipped dictionary, and not for longer ones.
- `family.c:14-17`: `init_family` "should be called exactly once"; `generate_families`
  calls it at every guess.

And a few that lie outside what the modules can tell apart:

- `checkpasswd.c:65` prints that "the length of id or pass is too long" for exit
  status 1; such an id is cut to ten bytes (lines 39 and 43) and looked up.
- `checkpasswd.c:81-84`: a child whose `exec` fails prints an error and returns 0, which
  the parent takes for a success. `VerdictTrue` is about the runs in which it succeeds.
- `validate.c:77-79`: of a line of 30 or more characters `fgets` reads the first 30, and the loop
  takes off the last of them as if it were the newline; the rest of the line is taken for
  another one, and both can match what was typed.
- `lab6/copy.c:5` promises what `strncpy` does; the loop at line 20 goes on past the end
  of a source that is shorter than the capacity.

## Plan

Every part of the repository that has a behaviour of its own is modelled, and every safety
property of a passing run is proved. What could be added is the part of the liveness properties
that is within reach of the proof system: that no state is stuck, with the guard of the step
that can be taken stated in place of ENABLED, and that the steps of a program that ends make a
measure smaller.
