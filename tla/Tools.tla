-------------------------------- MODULE Tools --------------------------------
(***************************************************************************)
(* The small programs of lab3, lab4, a1 and a3 that compute a result      *)
(* from their input and keep nothing: each loop as a function of the step, *)
(* next to a definition of what the comment above the code asks for.       *)
(***************************************************************************)
EXTENDS Fgets, FiniteSets

CONSTANTS
  INT_MAX,
  MaxLength          \* bound: the length of inputs

ASSUME ToolAssumption == INT_MAX \in Nat \ {0} /\ MaxLength \in Nat

QuestionMark == "?"
Space == " "

-----------------------------------------------------------------------------
(* lab4/strip.c: the loop stands at character k, from the last down. *)

strip_q_marks(s) ==
  LET kept[k \in 0..Len(s)] ==
        IF k > 0 /\ s[k] = QuestionMark THEN kept[k - 1] ELSE k
      n == kept[Len(s)]
  IN [str |-> SubSeq(s, 1, n), removed |-> Len(s) - n]

(* All trailing question marks have gone, and nothing else.                *)
StripAsDescribed(s) ==
  LET r == strip_q_marks(s) IN
  /\ s = r.str \o [k \in 1..r.removed |-> QuestionMark]
  /\ r.str # <<>> => Last(r.str) # QuestionMark

(* lab4/truncate.c *)
truncate(s, amt) == [str |-> AtMost(s, amt),
                     removed |-> IF Len(s) <= amt THEN 0 ELSE Len(s) - amt]

TruncateAsDescribed(s, amt) ==
  LET r == truncate(s, amt) IN
  /\ IsPrefix(r.str, s) /\ Len(r.str) <= amt
  /\ Len(r.str) + r.removed = Len(s)
  /\ r.removed > 0 => Len(r.str) = amt

(* lab4/greeting.c: strncpy and two strncat into an array of size bytes,   *)
(* each with the room that is left beside the terminator.                  *)
strncat(s, t, size) == s \o AtMost(t, size - Len(s) - 1)
greeting(message, name, size) ==
  strncat(strncat(AtMost(message, size - 1), <<Space>>, size), name, size)

GreetingAsDescribed(message, name, size) ==
  greeting(message, name, size) = AtMost(message \o <<Space>> \o name, size - 1)

-----------------------------------------------------------------------------
(* lab3/split_array.c: the loop over i, with the two arrays as they fill.  *)

split_array(s) ==
  LET split[k \in 0..Len(s)] ==
        IF k = 0 THEN <<<<>>, <<>>>>
        ELSE LET r == split[k - 1] IN
             IF (k - 1) % 2 = 0 THEN <<Append(r[1], s[k]), r[2]>>
                                ELSE <<r[1], Append(r[2], s[k])>>
  IN split[Len(s)]

size_of_even(length) == (length % 2) + (length \div 2)
size_of_odd(length) == length \div 2

(* The arrays hold the elements at even and odd indices, and no more       *)
(* memory is allocated, and no more printed by main, than they need.       *)
SplitAsDescribed(s) ==
  LET r == split_array(s)
      argc == Len(s) + 1
  IN /\ r[1] = [k \in 1..Len(r[1]) |-> s[2 * k - 1]]
     /\ r[2] = [k \in 1..Len(r[2]) |-> s[2 * k]]
     /\ Len(r[1]) + Len(r[2]) = Len(s)
     /\ Len(r[1]) = size_of_even(Len(s)) /\ Len(r[2]) = size_of_odd(Len(s))
     /\ Len(r[1]) = argc \div 2 /\ Len(r[2]) = (argc - 1) \div 2

(* An int: the sum of two of them wraps around. *)
INT == (-INT_MAX - 1)..INT_MAX
wrap(n) == ((n + INT_MAX + 1) % (2 * (INT_MAX + 1))) - INT_MAX - 1

(* lab3/fibonacci.c: t1 and t2 go along. *)
fib(count) ==
  LET t[k \in 1..(count + 1)] ==
        IF k = 1 THEN <<0, 1>> ELSE <<t[k - 1][2], wrap(t[k - 1][1] + t[k - 1][2])>>
  IN [k \in 1..count |-> t[k][1]]

(* Each number is the sum of the two before it if that sum is an int.      *)
FibAsDescribed(count) ==
  LET f == fib(count) IN
  /\ count >= 1 => f[1] = 0
  /\ count >= 2 => f[2] = 1
  /\ \A k \in 3..count : f[k - 2] + f[k - 1] \in INT => f[k] = f[k - 2] + f[k - 1]

-----------------------------------------------------------------------------
(* a1/life_helpers.c *)

Dead == "."
Alive == "X"

(* Mutant: the neighbours are read from the state that is being changed.   *)
neighbour_InPlace(temp, state, k) == state[k]

neighbour(temp, state, k) == temp[k]

update_state(temp) ==
  LET state[k \in 0..Len(temp)] ==
        IF k \in {0, 1, Len(temp)} THEN IF k = 0 THEN temp ELSE state[k - 1]
        ELSE LET s == state[k - 1] IN
             [s EXCEPT ![k] = IF neighbour(temp, s, k - 1) = neighbour(temp, s, k + 1)
                              THEN Dead ELSE Alive]
  IN state[Len(temp)]

(* a1/life.c *)
life(initial, num_states) ==
  LET gen[k \in 1..(num_states + 1)] ==
        IF k = 1 THEN initial ELSE update_state(gen[k - 1])
  IN [k \in 1..num_states |-> gen[k]]

(* An inner cell is alive in the next state if exactly one neighbour is    *)
(* alive in this one; the outer cells never change.                        *)
LifeAsDescribed(initial, n) ==
  \A k \in 1..(n - 1) :
    LET now == life(initial, n)[k]
        next == life(initial, n)[k + 1]
    IN \A c \in 1..Len(initial) :
         next[c] = IF c \in {1, Len(initial)} THEN now[c]
                   ELSE IF now[c - 1] # now[c + 1] THEN Alive ELSE Dead

-----------------------------------------------------------------------------
(* a1/trim.c: the scan of a trace of addresses; signal is on between the   *)
(* markers.  The result is the indices of the lines printed.               *)

trim(trace, start_marker, end_marker) ==
  LET at[k \in 0..Len(trace)] ==
        IF k = 0 THEN [signal |-> FALSE, lines |-> <<>>]
        ELSE LET r == at[k - 1]
                 on == r.signal /\ trace[k] # end_marker
             IN IF trace[k] = start_marker THEN [signal |-> TRUE, lines |-> r.lines]
                ELSE [signal |-> on, lines |-> IF on THEN Append(r.lines, k) ELSE r.lines]
  IN at[Len(trace)].lines

(* Exactly the lines after a start marker with no end marker since, in     *)
(* order.                                                                  *)
TrimAsDescribed(trace, s, e) ==
  LET Between(k) == /\ trace[k] \notin {s, e}
                    /\ \E j \in 1..(k - 1) :
                         /\ trace[j] = s
                         /\ \A h \in (j + 1)..(k - 1) : trace[h] # e
      r == trim(trace, s, e)
  IN /\ ToSet(r) = {k \in DOMAIN trace : Between(k)}
     /\ \A i, j \in DOMAIN r : i < j => r[i] < r[j]

-----------------------------------------------------------------------------
(* a1/trcount.c, with addresses in MiB.  A line is its type and address.   *)

GLOBALS == 4..7
HEAP == 64..128
STACK_START == 65520
STACK == {a \in Nat : a >= STACK_START}

Region(a) == CASE a \in GLOBALS -> "Globals"
               [] a \in HEAP -> "Heap"
               [] a \in STACK -> "Stack"
               [] OTHER -> "none"

NoCounts == [c \in {"I", "M", "L", "S", "Globals", "Heap", "Stack"} |-> 0]

trcount(trace) ==
  LET up(r, c) == IF c \in DOMAIN r THEN [r EXCEPT ![c] = @ + 1] ELSE r
      counts[k \in 0..Len(trace)] ==
        IF k = 0 THEN NoCounts
        ELSE LET l == trace[k]
                 r == up(counts[k - 1], l.type)
             IN IF l.type = "I" THEN r ELSE up(r, Region(l.addr))
  IN counts[Len(trace)]

(* Every line counts once by its type, and a data reference to a known     *)
(* region once by its location.                                            *)
TrcountAsDescribed(trace) ==
  LET r == trcount(trace)
      Data(S) == Cardinality({k \in DOMAIN trace : trace[k].type # "I"
                                                 /\ trace[k].addr \in S})
  IN /\ r["I"] + r["M"] + r["L"] + r["S"] = Len(trace)
     /\ r["Globals"] = Data(GLOBALS) /\ r["Heap"] = Data(HEAP)
     /\ r["Stack"] = Data(STACK)

-----------------------------------------------------------------------------
(* a3/mkwords.c: one record for each piece that fgets reads of the lines.  *)
mkwords(lines, size) == Pieces(lines, size)

(* One record per line, with the word of that line, if every line fits.    *)
MkwordsAsDescribed(lines, size) ==
  (\A l \in DOMAIN lines : Len(lines[l]) < size) =>
    mkwords(lines, size) = [l \in DOMAIN lines |-> Front(lines[l])]

-----------------------------------------------------------------------------
VARIABLES tool, input      \* the program that runs, and its arguments

toolVars == <<tool, input>>

ToolInit == tool = "none" /\ input = <<>>

Short(S) == SeqOf(S, MaxLength)
Length == 0..(MaxLength + 1)

ToolStart ==
  /\ tool = "none"
  /\ \/ tool' = "strip" /\ input' \in Short({QuestionMark, "a"}) \X {0}
     \/ tool' = "truncate" /\ input' \in Short({"a", "b"}) \X Length
     \/ tool' = "greeting" /\ input' \in Short({"a"}) \X Short({"b"}) \X (1..(2 * MaxLength))
     \/ tool' = "split_array" /\ input' \in {[k \in 1..n |-> k] : n \in Length} \X {0}
     \/ tool' = "fibonacci" /\ input' \in Length \X {0}
     \/ tool' = "life" /\ input' \in Short({Dead, Alive}) \X Length
     \/ tool' = "trim" /\ input' \in Short(1..3) \X (1..3) \X (1..3)
     \/ tool' = "trcount" /\ input' \in SeqOf([type : {"I", "M", "L", "S"},
                              addr : {3, 4, 7, 8, 64, 129, STACK_START}], 2) \X {0}
     \/ tool' = "mkwords" /\ input' \in SeqOf({Append(w, Newline) : w \in Short({"a"})}, 2)
                                        \X (2..MaxLength)

(* Every program computes what the comment above it asks for: strip.c:5-20,*)
(* truncate.c:5-13, greeting.c:6-30, split_array.c:4-10, fibonacci.c:4-15, *)
(* life_helpers.c:12-15, trim.c:5-8, trcount.c:5-11, mkwords.c:20-24.      *)
AsDescribed ==
  CASE tool = "strip" -> StripAsDescribed(input[1])
    [] tool = "truncate" -> TruncateAsDescribed(input[1], input[2])
    [] tool = "greeting" -> GreetingAsDescribed(input[1], input[2], input[3])
    [] tool = "split_array" -> SplitAsDescribed(input[1])
    [] tool = "fibonacci" -> FibAsDescribed(input[1])
    [] tool = "life" -> LifeAsDescribed(input[1], input[2])
    [] tool = "trim" -> TrimAsDescribed(input[1], input[2], input[3])
    [] tool = "trcount" -> TrcountAsDescribed(input[1])
    [] tool = "mkwords" -> MkwordsAsDescribed(input[1], input[2])
    [] OTHER -> TRUE
=============================================================================
