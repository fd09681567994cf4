------------------------------ MODULE WordGame ------------------------------
(***************************************************************************)
(* The state of the word game of a4: the fields of struct game_state that  *)
(* gameplay.c initialises and the handler of a valid guess in wordsrv.c    *)
(* (lines 324-364) changes.  The server around it is WordServer.           *)
(***************************************************************************)
EXTENDS Integers, Sequences, FiniteSets

CONSTANTS
  Letter,       \* the letters players may guess
  Words,        \* the dictionary: non-empty sequences of letters
  MAX_GUESSES,
  MAX_MSG       \* the size of the buffer status_message fills

ASSUME GameAssumption == /\ Words # {}
                         /\ Words \subseteq Seq(Letter) \ {<<>>}
                         /\ MAX_GUESSES \in Nat \ {0} /\ MAX_MSG \in Nat

Dash == "-"
ASSUME DashAssumption == Dash \notin Letter

VARIABLES word, guess, letters_guessed, guesses_left

game == <<word, guess, letters_guessed, guesses_left>>

-----------------------------------------------------------------------------
(* init_game: a word from the dictionary, all dashes, and fresh counters.  *)
Dashed(w) == [k \in DOMAIN w |-> Dash]

InitGame == /\ word \in Words
            /\ guess = Dashed(word)
            /\ letters_guessed = {}
            /\ guesses_left = MAX_GUESSES

init_game == /\ word' \in Words
             /\ guess' = Dashed(word')
             /\ letters_guessed' = {}
             /\ guesses_left' = MAX_GUESSES

(* The win_indicator of the handler: no dash is left. *)
Complete(g) == \A k \in DOMAIN g : g[k] # Dash

(* Mutant: the comparing loop stops at the first letter that matches. *)
Uncovered_FirstOnly(l) ==
  LET hits == {k \in DOMAIN word : word[k] = l}
  IN [k \in DOMAIN word |->
        IF k \in hits /\ \A m \in hits : k <= m THEN l ELSE guess[k]]

(* The guess array after the letter l was compared with the whole word. *)
Uncovered(l) == [k \in DOMAIN word |-> IF word[k] = l THEN l ELSE guess[k]]

(* The indicator of the handler: l is in the word and is new. *)
Found(l) == l \notin letters_guessed /\ \E k \in DOMAIN word : word[k] = l

(* The letter that completes the word is not entered in letters_guessed:   *)
(* the handler leaves before it gets there.                                *)
RightGuess(l) ==
  /\ Found(l)
  /\ guess' = Uncovered(l)
  /\ letters_guessed' = IF Complete(Uncovered(l)) THEN letters_guessed
                                                  ELSE letters_guessed \cup {l}
  /\ UNCHANGED <<word, guesses_left>>

(* Mutant: only a letter that was guessed before is charged. *)
WrongGuess_Free(l) ==
  /\ ~Found(l)
  /\ guesses_left' = IF l \in letters_guessed THEN guesses_left - 1
                                              ELSE guesses_left
  /\ letters_guessed' = letters_guessed \cup {l}
  /\ UNCHANGED <<word, guess>>

(* A letter that is not in the word, or was guessed before. *)
WrongGuess(l) ==
  /\ ~Found(l)
  /\ guesses_left' = guesses_left - 1
  /\ letters_guessed' = letters_guessed \cup {l}
  /\ UNCHANGED <<word, guess>>

(* Mutants: the game ends one guess late, or one early. *)
Over_Late == guesses_left < 0 \/ Complete(guess)
Over_Early == guesses_left <= 1 \/ Complete(guess)

Over == guesses_left <= 0 \/ Complete(guess)

Guess(l) == ~Over /\ (RightGuess(l) \/ WrongGuess(l))

GameNext == \/ \E l \in Letter : Guess(l)
            \/ Over /\ init_game

GameSpec == InitGame /\ [][GameNext]_game

-----------------------------------------------------------------------------
(* What status_message writes, with the terminating 0: the fixed text and  *)
(* one digit, as MAX_GUESSES is below 10, are 94 characters, every guessed *)
(* letter adds itself and a space.                                         *)
StatusSize == 95 + Len(guess) + 2 * Cardinality(letters_guessed)

-----------------------------------------------------------------------------
TypeOK == /\ word \in Words
          /\ guess \in Seq(Letter \cup {Dash})
          /\ letters_guessed \in SUBSET Letter
          /\ guesses_left \in 0..MAX_GUESSES

(* The board never lies: it shows the letters of the word that were        *)
(* guessed, at every place where they occur, and nothing else; only the    *)
(* letter that completes the word is missing from letters_guessed          *)
(* (wordsrv.c:327-364).                                                    *)
BoardIsTrue ==
  /\ DOMAIN guess = DOMAIN word
  /\ \A k \in DOMAIN word :
       /\ guess[k] \in {word[k], Dash}
       /\ word[k] \in letters_guessed => guess[k] = word[k]
  /\ Cardinality({word[k] : k \in {l \in DOMAIN word : guess[l] # Dash}}
                   \ letters_guessed) = IF Complete(guess) THEN 1 ELSE 0

Dashes(g) == Cardinality({k \in DOMAIN g : g[k] = Dash})

(* Every guess brings the end of the game nearer, a repeated one as well:  *)
(* no sequence of valid guesses goes on for ever (wordsrv.c:330, 349-361). *)
GuessesProgress ==
  [][~Over => Dashes(guess') + guesses_left' < Dashes(guess) + guesses_left]_game

(* The message status_message composes fits its caller's buffer of MAX_MSG *)
(* bytes, as its comment assumes (gameplay.c:8-10).                        *)
StatusFits == StatusSize <= MAX_MSG

(* Players see a game of Hangman: the letter uncovered by the last guess   *)
(* is shown although letters_guessed lacks it.                             *)
Uncovering == INSTANCE Hangman WITH
                secret <- word,
                shown <- {word[k] : k \in {l \in DOMAIN word : guess[l] # Dash}},
                left <- guesses_left,
                MaxGuesses <- MAX_GUESSES
HangmanSpec == Uncovering!Spec
=============================================================================
