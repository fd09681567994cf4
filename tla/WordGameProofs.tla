--------------------------- MODULE WordGameProofs ---------------------------
(***************************************************************************)
(* Proofs about WordGame, for every dictionary, alphabet and number of     *)
(* guesses.                                                                *)
(***************************************************************************)
EXTENDS WordGame, FiniteSetTheorems, TLAPS

Shown == {word[k] : k \in {l \in DOMAIN word : guess[l] # Dash}}

-----------------------------------------------------------------------------
(* The inductive invariant, IInv. *)

(* The board has the places of the word, and a letter that was recorded is *)
(* uncovered wherever it occurs.                                           *)
BoardInv ==
  /\ DOMAIN guess = DOMAIN word
  /\ \A k \in DOMAIN word :
       /\ guess[k] \in {word[k], Dash}
       /\ word[k] \in letters_guessed => guess[k] = word[k]

(* Until the word is complete what is uncovered has been recorded; the     *)
(* letter that completes it has not.                                       *)
RecordInv ==
  IF Complete(guess) THEN \E l \in Letter : Shown \ letters_guessed = {l}
                     ELSE Shown \subseteq letters_guessed

IInv == TypeOK /\ BoardInv /\ RecordInv

-----------------------------------------------------------------------------
(* Facts about the dictionary. *)

(* A word has a letter, a dash is none. *)
LEMMA WordType ==
  ASSUME NEW w \in Words
  PROVE  /\ w \in Seq(Letter) /\ DOMAIN w = 1..Len(w) /\ Len(w) \in Nat \ {0}
         /\ \A k \in DOMAIN w : w[k] \in Letter /\ w[k] # Dash
<1>1. w \in Seq(Letter) /\ w # <<>>
  BY GameAssumption
<1>2. DOMAIN w = 1..Len(w) /\ Len(w) \in Nat \ {0}
  BY <1>1
<1> QED
  BY <1>1, <1>2, DashAssumption

(* A fresh board. *)
LEMMA DashedType ==
  ASSUME NEW w \in Words
  PROVE  /\ Dashed(w) \in Seq(Letter \cup {Dash})
         /\ DOMAIN Dashed(w) = DOMAIN w
         /\ \A k \in DOMAIN w : Dashed(w)[k] = Dash
         /\ ~Complete(Dashed(w))
<1>1. /\ DOMAIN w = 1..Len(w) /\ Len(w) \in Nat \ {0}
  BY WordType
<1>2. Dashed(w) \in [1..Len(w) -> Letter \cup {Dash}]
  BY <1>1 DEF Dashed
<1>3. Dashed(w) \in Seq(Letter \cup {Dash})
  BY <1>1, <1>2
<1>4. 1 \in DOMAIN w
  BY <1>1
<1> QED
  BY <1>3, <1>4 DEF Dashed, Complete

-----------------------------------------------------------------------------
(* A new game. *)

LEMMA FreshIInv ==
  ASSUME word \in Words, guess = Dashed(word), letters_guessed = {},
         guesses_left = MAX_GUESSES
  PROVE  IInv
<1>1. TypeOK
  BY DashedType, GameAssumption DEF TypeOK
<1>2. BoardInv
  BY DashedType DEF BoardInv
<1>3. RecordInv
  BY DashedType DEF RecordInv, Shown
<1> QED
  BY <1>1, <1>2, <1>3 DEF IInv

LEMMA RestartIInv ==
  ASSUME init_game
  PROVE  IInv'
<1>1. TypeOK'
  BY DashedType, GameAssumption DEF TypeOK, init_game
<1>2. BoardInv'
  BY DashedType DEF BoardInv, init_game
<1>3. RecordInv'
  BY DashedType DEF RecordInv, Shown, init_game
<1> QED
  BY <1>1, <1>2, <1>3 DEF IInv

-----------------------------------------------------------------------------
(* A guess, while the game is not over. *)

(* What a right guess does to the board: l is uncovered, and was covered   *)
(* everywhere.                                                             *)
LEMMA RightGuessBoard ==
  ASSUME IInv, ~Over, NEW l \in Letter, RightGuess(l)
  PROVE  /\ word' = word /\ DOMAIN guess' = DOMAIN word
         /\ guess' \in Seq(Letter \cup {Dash})
         /\ \A k \in DOMAIN word :
              guess'[k] = IF word[k] = l THEN l ELSE guess[k]
         /\ \A k \in DOMAIN word : word[k] = l => guess[k] = Dash
         /\ \E k \in DOMAIN word : word[k] = l
         /\ Shown' = Shown \cup {l} /\ l \notin Shown /\ l \notin letters_guessed
<1>1. /\ word \in Words /\ guess \in Seq(Letter \cup {Dash})
      /\ DOMAIN guess = DOMAIN word /\ Shown \subseteq letters_guessed
  BY DEF IInv, TypeOK, BoardInv, RecordInv, Over
<1>2. /\ word' = word /\ l \notin letters_guessed
      /\ guess' = [k \in DOMAIN word |-> IF word[k] = l THEN l ELSE guess[k]]
      /\ \E k \in DOMAIN word : word[k] = l
  BY DEF RightGuess, Found, Uncovered
<1>3. DOMAIN word = 1..Len(word) /\ Len(word) \in Nat
  BY <1>1, WordType
<1>4. \A k \in DOMAIN word : guess[k] \in Letter \cup {Dash}
  BY <1>1
<1>5. guess' \in Seq(Letter \cup {Dash})
  <2>1. guess' \in [1..Len(word) -> Letter \cup {Dash}]
    BY <1>2, <1>3, <1>4
  <2> QED
    BY <1>3, <2>1
<1>6. l # Dash
  BY DashAssumption
<1>7. \A k \in DOMAIN word : word[k] = l => guess[k] = Dash
  BY <1>1, <1>2 DEF Shown, IInv, BoardInv
<1>8. Shown' = Shown \cup {l} /\ l \notin Shown
  BY <1>1, <1>2, <1>6 DEF Shown
<1> QED
  BY <1>2, <1>5, <1>7, <1>8

LEMMA RightGuessIInv ==
  ASSUME IInv, ~Over, NEW l \in Letter, RightGuess(l)
  PROVE  IInv'
<1>1. /\ letters_guessed' = IF Complete(guess') THEN letters_guessed
                                                ELSE letters_guessed \cup {l}
      /\ guesses_left' = guesses_left
  BY DEF RightGuess
<1>2. Shown \subseteq letters_guessed
  BY DEF IInv, RecordInv, Over
<1>3. TypeOK'
  BY <1>1, RightGuessBoard DEF IInv, TypeOK
<1>4. BoardInv'
  BY <1>1, RightGuessBoard DEF IInv, BoardInv
<1>5. RecordInv'
  <2>1. CASE Complete(guess')
    <3>1. Shown' \ letters_guessed' = {l}
      BY <1>1, <1>2, <2>1, RightGuessBoard
    <3> QED
      BY <2>1, <3>1 DEF RecordInv
  <2>2. CASE ~Complete(guess')
    BY <1>1, <1>2, <2>2, RightGuessBoard DEF RecordInv
  <2> QED
    BY <2>1, <2>2
<1> QED
  BY <1>3, <1>4, <1>5 DEF IInv

LEMMA WrongGuessIInv ==
  ASSUME IInv, ~Over, NEW l \in Letter, WrongGuess(l)
  PROVE  IInv'
<1>1. /\ UNCHANGED <<word, guess>>
      /\ letters_guessed' = letters_guessed \cup {l}
      /\ guesses_left' = guesses_left - 1
      /\ ~Found(l)
  BY DEF WrongGuess
<1>2. TypeOK'
  BY <1>1, GameAssumption DEF IInv, TypeOK, Over
<1>3. BoardInv'
  BY <1>1 DEF IInv, BoardInv, Found
<1>4. RecordInv'
  BY <1>1 DEF IInv, RecordInv, Shown, Over
<1> QED
  BY <1>2, <1>3, <1>4 DEF IInv

LEMMA NextIInv == IInv /\ [GameNext]_game => IInv'
<1> SUFFICES ASSUME IInv, [GameNext]_game PROVE IInv'
  OBVIOUS
<1>1. CASE \E l \in Letter : Guess(l)
  BY <1>1, RightGuessIInv, WrongGuessIInv DEF Guess
<1>2. CASE Over /\ init_game
  BY <1>2, RestartIInv
<1>3. CASE UNCHANGED game
  BY <1>3 DEF game, IInv, TypeOK, BoardInv, RecordInv, Shown, Complete
<1> QED
  BY <1>1, <1>2, <1>3 DEF GameNext

THEOREM Invariant == GameSpec => []IInv
<1>1. InitGame => IInv
  BY FreshIInv DEF InitGame
<1>2. IInv /\ [GameNext]_game => IInv'
  BY NextIInv
<1> QED
  BY <1>1, <1>2, PTL DEF GameSpec

-----------------------------------------------------------------------------
(* BoardIsTrue, for every dictionary: the board shows what was guessed,    *)
(* wherever it occurs, and nothing else (wordsrv.c:327-364).               *)
THEOREM BoardCorrect == GameSpec => []BoardIsTrue
<1>1. IInv => BoardIsTrue
  <2> SUFFICES ASSUME IInv PROVE BoardIsTrue
    OBVIOUS
  <2>1. Cardinality(Shown \ letters_guessed) = IF Complete(guess) THEN 1 ELSE 0
    <3>1. CASE Complete(guess)
      BY <3>1, FS_Singleton DEF IInv, RecordInv
    <3>2. CASE ~Complete(guess)
      <4>1. Shown \ letters_guessed = {}
        BY <3>2 DEF IInv, RecordInv
      <4> QED
        BY <3>2, <4>1, FS_EmptySet
    <3> QED
      BY <3>1, <3>2
  <2> QED
    BY <2>1 DEF IInv, BoardInv, BoardIsTrue, Shown
<1> QED
  BY <1>1, Invariant, PTL

(* The measure of GuessesProgress is a number. *)
LEMMA DashesType ==
  ASSUME IInv
  PROVE  /\ IsFiniteSet({k \in DOMAIN guess : guess[k] = Dash})
         /\ Dashes(guess) \in Nat /\ guesses_left \in Nat
<1>1. DOMAIN guess = 1..Len(word) /\ Len(word) \in Nat
  BY WordType DEF IInv, BoardInv, TypeOK
<1>2. IsFiniteSet(DOMAIN guess)
  BY <1>1, FS_Interval
<1>3. IsFiniteSet({k \in DOMAIN guess : guess[k] = Dash})
  BY <1>2, FS_Subset
<1> QED
  BY <1>3, FS_CardinalityType, GameAssumption DEF Dashes, IInv, TypeOK

(* GuessesProgress, for every dictionary: each guess uncovers a place or   *)
(* costs a try, a repeated one too (wordsrv.c:330, 349-361).               *)
THEOREM ProgressCorrect == GameSpec => GuessesProgress
<1> DEFINE A == ~Over => Dashes(guess') + guesses_left' < Dashes(guess) + guesses_left
           D == {k \in DOMAIN guess : guess[k] = Dash}
<1>1. IInv /\ [GameNext]_game => [A]_game
  <2> SUFFICES ASSUME IInv, GameNext, ~Over
               PROVE  Dashes(guess') + guesses_left' < Dashes(guess) + guesses_left
    OBVIOUS
  <2>1. PICK l \in Letter : RightGuess(l) \/ WrongGuess(l)
    BY DEF GameNext, Guess
  <2>2. CASE RightGuess(l)
    <3>1. D' \subseteq D /\ D' # D
      BY <2>2, RightGuessBoard, DashAssumption DEF IInv, BoardInv
    <3>2. Cardinality(D') < Cardinality(D) /\ Cardinality(D') \in Nat
      BY <3>1, DashesType, FS_Subset, FS_CardinalityType
    <3>3. guesses_left' = guesses_left
      BY <2>2 DEF RightGuess
    <3> QED
      BY <3>2, <3>3, DashesType DEF Dashes
  <2>3. CASE WrongGuess(l)
    BY <2>3, DashesType DEF WrongGuess
  <2> QED
    BY <2>1, <2>2, <2>3
<1> QED
  BY <1>1, Invariant, PTL DEF GameSpec, GuessesProgress

(* Every behaviour that starts and goes on as the game does is one of      *)
(* Hangman.                                                                *)
LEMMA GameIsHangman == InitGame /\ [][GameNext]_game => HangmanSpec
<1>1. InitGame => Uncovering!Init
  BY DashedType DEF InitGame, Uncovering!Init
<1>2. IInv /\ [GameNext]_game => [Uncovering!Next]_(Uncovering!vars)
  <2> SUFFICES ASSUME IInv, [GameNext]_game
               PROVE  Uncovering!Next \/ UNCHANGED Uncovering!vars
    OBVIOUS
  <2>1. Over <=> Uncovering!Over
    <3>1. \A k \in DOMAIN word : word[k] # Dash
      BY WordType DEF IInv, TypeOK
    <3>2. Complete(guess) <=> Shown = Uncovering!LettersOf(word)
      BY <3>1 DEF Uncovering!LettersOf, Shown, Complete, IInv, BoardInv, RecordInv
    <3>3. guesses_left <= 0 <=> guesses_left = 0
      BY GameAssumption DEF IInv, TypeOK
    <3> QED
      BY <3>2, <3>3 DEF Over, Uncovering!Over, Shown
  <2>2. ASSUME ~Over, NEW l \in Letter, RightGuess(l) PROVE Uncovering!Next
    <3>1. l \in Uncovering!LettersOf(word) \ Shown
      BY <2>2, RightGuessBoard DEF Uncovering!LettersOf
    <3>2. Uncovering!Uncover(l)
      BY <2>1, <2>2, <3>1, RightGuessBoard DEF Uncovering!Uncover, RightGuess, Shown
    <3> QED
      BY <3>1, <3>2 DEF Uncovering!Next
  <2>3. ASSUME ~Over, NEW l \in Letter, WrongGuess(l) PROVE Uncovering!Next
    BY <2>1, <2>3 DEF WrongGuess, Uncovering!Next, Uncovering!Miss
  <2>4. CASE Over /\ init_game
    <3>1. Shown' = {}
      BY <2>4, DashedType DEF init_game, Shown
    <3> QED
      BY <2>1, <2>4, <3>1 DEF init_game, Uncovering!Next, Uncovering!Restart, Shown
  <2>5. CASE UNCHANGED game
    BY <2>5 DEF game, Uncovering!vars
  <2> QED
    BY <2>2, <2>3, <2>4, <2>5 DEF GameNext, Guess
<1>3. InitGame => IInv
  BY FreshIInv DEF InitGame
<1> QED
  BY <1>1, <1>2, <1>3, NextIInv, PTL DEF HangmanSpec, Uncovering!Spec

(* Players see Hangman, whatever the dictionary: the board implements the  *)
(* game of module Hangman (wordsrv.c:324-388, gameplay.c:46-78).           *)
THEOREM ImplementsHangman == GameSpec => HangmanSpec
  BY GameIsHangman, PTL DEF GameSpec

-----------------------------------------------------------------------------
(* The status message.  A wrong letter that is recorded has cost a try,    *)
(* and one letter of the word is never recorded: what the message lists is *)
(* bounded by the word and by the number of tries.                         *)
LettersOf(w) == {w[k] : k \in DOMAIN w}
CostInv == /\ IsFiniteSet(letters_guessed)
           /\ Cardinality(letters_guessed \ LettersOf(word)) <= MAX_GUESSES - guesses_left

(* The longest status message in a game about the word w. *)
LongestStatus(w) == 93 + Len(w) + 2 * (Cardinality(LettersOf(w)) + MAX_GUESSES)

LEMMA LettersOfFinite ==
  ASSUME NEW w \in Words
  PROVE  IsFiniteSet(LettersOf(w)) /\ Cardinality(LettersOf(w)) \in Nat
<1>1. IsFiniteSet(DOMAIN w)
  <2>1. DOMAIN w = 1..Len(w) /\ Len(w) \in Int /\ 1 \in Int
    BY WordType
  <2>2. IsFiniteSet(1..Len(w))
    BY <2>1, FS_Interval
  <2> QED
    BY <2>1, <2>2
<1>2. w \in Surjection(DOMAIN w, LettersOf(w))
  BY WordType DEF Surjection, LettersOf
<1>3. IsFiniteSet(LettersOf(w))
  BY <1>1, <1>2, FS_Surjection
<1> QED
  BY <1>3, FS_CardinalityType

LEMMA OneMoreElement ==
  ASSUME NEW S, IsFiniteSet(S), NEW x
  PROVE  Cardinality(S \cup {x}) <= Cardinality(S) + 1
<1>1. Cardinality(S) \in Nat
  BY FS_CardinalityType
<1>2. CASE x \in S
  BY <1>1, <1>2, FS_AddElement
<1>3. CASE x \notin S
  <2>1. Cardinality(S \cup {x}) = Cardinality(S) + 1
    BY <1>3, FS_AddElement
  <2> QED
    BY <1>1, <2>1
<1> QED
  BY <1>2, <1>3

LEMMA FreshCost ==
  ASSUME NEW L, L = {}
  PROVE  IsFiniteSet(L) /\ \A S : Cardinality(L \ S) = 0
<1>1. \A S : L \ S = {}
  OBVIOUS
<1> QED
  BY <1>1, FS_EmptySet

LEMMA NextCost == IInv /\ CostInv /\ [GameNext]_game => CostInv'
<1> SUFFICES ASSUME IInv, CostInv, [GameNext]_game PROVE CostInv'
  OBVIOUS
<1> DEFINE W == letters_guessed \ LettersOf(word)
<1>1. IsFiniteSet(W) /\ Cardinality(W) \in Nat
  BY FS_Subset, FS_CardinalityType DEF CostInv
<1>2. guesses_left \in Nat /\ MAX_GUESSES \in Nat
  BY GameAssumption DEF IInv, TypeOK
<1>3. ASSUME NEW l \in Letter, ~Over, RightGuess(l) PROVE CostInv'
  <2>1. /\ word' = word /\ guesses_left' = guesses_left
        /\ letters_guessed' \in {letters_guessed, letters_guessed \cup {l}}
        /\ l \in LettersOf(word)
    BY <1>3 DEF RightGuess, Found, LettersOf
  <2>2. IsFiniteSet(letters_guessed')
    BY <2>1, FS_AddElement DEF CostInv
  <2>3. letters_guessed' \ LettersOf(word)' = letters_guessed \ LettersOf(word)
    BY <2>1 DEF LettersOf
  <2> QED
    BY <2>1, <2>2, <2>3 DEF CostInv
<1>4. ASSUME NEW l \in Letter, ~Over, WrongGuess(l) PROVE CostInv'
  <2>1. /\ word' = word /\ guesses_left' = guesses_left - 1
        /\ letters_guessed' = letters_guessed \cup {l}
        /\ l \in letters_guessed \/ l \notin LettersOf(word)
    BY <1>4 DEF WrongGuess, Found, LettersOf
  <2>2. IsFiniteSet(letters_guessed')
    BY <2>1, FS_AddElement DEF CostInv
  <2>3. LettersOf(word') = LettersOf(word)
    BY <2>1
  <2>4. W' = W \/ W' = W \cup {l}
    BY <2>1, <2>3
  <2>5. Cardinality(W \cup {l}) <= Cardinality(W) + 1
    BY <1>1, OneMoreElement
  <2>6. Cardinality(W') <= Cardinality(W) + 1
    <3>1. CASE W' = W
      <4>1. Cardinality(W) <= Cardinality(W) + 1
        BY <1>1
      <4> QED
        BY <3>1, <4>1
    <3>2. CASE W' = W \cup {l}
      BY <2>5, <3>2
    <3> QED
      BY <2>4, <3>1, <3>2
  <2>7. Cardinality(W') \in Nat
    BY <2>2, FS_Subset, FS_CardinalityType
  <2>8. Cardinality(W) <= MAX_GUESSES - guesses_left
    BY DEF CostInv
  <2>9. Cardinality(W') <= MAX_GUESSES - guesses_left'
    BY <1>1, <1>2, <2>1, <2>6, <2>7, <2>8
  <2> QED
    BY <2>2, <2>9 DEF CostInv
<1>5. CASE Over /\ init_game
  <2>1. letters_guessed' = {} /\ guesses_left' = MAX_GUESSES
    BY <1>5 DEF init_game
  <2>2. IsFiniteSet(letters_guessed') /\ Cardinality(W') = 0
    BY <2>1, FreshCost
  <2> QED
    BY <1>2, <2>1, <2>2 DEF CostInv
<1>6. CASE UNCHANGED game
  BY <1>6 DEF game, CostInv, LettersOf
<1> QED
  BY <1>3, <1>4, <1>5, <1>6 DEF GameNext, Guess

LEMMA CostInvariant == GameSpec => [](IInv /\ CostInv)
<1>1. InitGame => IInv /\ CostInv
  <2> SUFFICES ASSUME InitGame PROVE IInv /\ CostInv
    OBVIOUS
  <2>1. guesses_left = MAX_GUESSES /\ MAX_GUESSES \in Int
    BY GameAssumption DEF InitGame
  <2>2. MAX_GUESSES - guesses_left = 0
    BY <2>1
  <2>3. CostInv
    BY <2>2, FreshCost DEF InitGame, CostInv
  <2> QED
    BY <2>3, FreshIInv DEF InitGame
<1>2. (IInv /\ CostInv) /\ [GameNext]_game => (IInv /\ CostInv)'
  BY NextIInv, NextCost
<1> QED
  BY <1>1, <1>2, PTL DEF GameSpec

LEMMA StatusFacts ==
  ASSUME IInv, CostInv
  PROVE  /\ StatusSize <= LongestStatus(word)
         /\ StatusSize \in Nat /\ LongestStatus(word) \in Nat
<1> DEFINE A == letters_guessed \cap LettersOf(word)
           W == letters_guessed \ LettersOf(word)
<1>1. IsFiniteSet(letters_guessed) /\ IsFiniteSet(LettersOf(word)) /\ word \in Words
  BY LettersOfFinite DEF CostInv, IInv, TypeOK
<1>2. A \subseteq LettersOf(word) /\ A # LettersOf(word)
  <2>1. \E k \in DOMAIN word : word[k] \notin letters_guessed
    <3>1. CASE Complete(guess)
      BY <3>1 DEF IInv, RecordInv, Shown
    <3>2. CASE ~Complete(guess)
      BY <1>1, <3>2, WordType DEF IInv, BoardInv, Complete
    <3> QED
      BY <3>1, <3>2
  <2> QED
    BY <2>1 DEF LettersOf
<1>3. /\ Cardinality(A) < Cardinality(LettersOf(word))
      /\ Cardinality(A) \in Nat /\ Cardinality(LettersOf(word)) \in Nat
  BY <1>1, <1>2, FS_Subset, FS_CardinalityType
<1>4. IsFiniteSet(A) /\ IsFiniteSet(W) /\ Cardinality(W) \in Nat
  BY <1>1, FS_Subset, FS_CardinalityType
<1>5. letters_guessed = A \cup W /\ A \cap W = {}
  OBVIOUS
<1>6. /\ Cardinality(W) <= MAX_GUESSES - guesses_left
      /\ guesses_left \in Nat /\ MAX_GUESSES \in Nat
  BY GameAssumption DEF CostInv, IInv, TypeOK
<1>7. Len(guess) = Len(word) /\ Len(word) \in Nat
  <2>1. guess \in Seq(Letter \cup {Dash}) /\ DOMAIN guess = DOMAIN word
    BY DEF IInv, TypeOK, BoardInv
  <2>2. word \in Seq(Letter)
    BY <1>1, WordType
  <2> QED
    BY <2>1, <2>2
<1> HIDE DEF A, W
<1>8. Cardinality(A \cup W) = Cardinality(A) + Cardinality(W) - Cardinality(A \cap W)
  BY <1>4, FS_Union
<1>9. Cardinality(letters_guessed) = Cardinality(A) + Cardinality(W)
  <2>1. Cardinality(A \cap W) = 0
    BY <1>5, FS_EmptySet
  <2>2. Cardinality(A \cup W) = Cardinality(A) + Cardinality(W)
    BY <1>3, <1>4, <1>8, <2>1
  <2> QED
    BY <1>5, <2>2
<1> QED
  BY <1>3, <1>4, <1>6, <1>7, <1>9 DEF StatusSize, LongestStatus

(* The size of the status message is bounded by the word and the number of *)
(* tries, whatever is guessed: the message lists every letter of the word  *)
(* but one, and at most MAX_GUESSES others (gameplay.c:11-25,              *)
(* wordsrv.c:341-361).                                                     *)
THEOREM StatusBounded == GameSpec => [](StatusSize <= LongestStatus(word))
<1>1. IInv /\ CostInv => StatusSize <= LongestStatus(word)
  BY StatusFacts
<1> QED
  BY <1>1, CostInvariant, PTL

(* StatusFits, for every dictionary whose words leave it the room: with    *)
(* MAX_GUESSES and MAX_MSG as in gameplay.h, all words of 9 letters and    *)
(* less, as those of a4/dictionary.txt are (gameplay.c:8-25,               *)
(* gameplay.h:4-7).                                                        *)
THEOREM StatusAlwaysFits ==
  ASSUME \A w \in Words : LongestStatus(w) <= MAX_MSG
  PROVE  GameSpec => []StatusFits
<1>1. IInv /\ CostInv => StatusFits
  <2> SUFFICES ASSUME IInv, CostInv PROVE StatusFits
    OBVIOUS
  <2>1. LongestStatus(word) <= MAX_MSG /\ MAX_MSG \in Nat
    BY GameAssumption DEF IInv, TypeOK
  <2> QED
    BY <2>1, StatusFacts DEF StatusFits
<1> QED
  BY <1>1, CostInvariant, PTL
=============================================================================
