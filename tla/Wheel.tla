------------------------------- MODULE Wheel --------------------------------
(***************************************************************************)
(* a2/wheel.c and a2/family.c, Wheel of Misfortune: a hangman that keeps   *)
(* every word that fits what it has said.  A round asks for a length and a *)
(* number of guesses, then divides the word list into families at every    *)
(* guess and goes on with the biggest.                                     *)
(*                                                                         *)
(* Word lists and families keep the order of the code: it decides between  *)
(* families of the same size.  max_words is kept for every family, because *)
(* the code writes num_words + 1 pointers into an array of max_words + 1.  *)
(* An answer that is refused, or a letter that was chosen before, is asked *)
(* for again and changes nothing.                                          *)
(***************************************************************************)
EXTENDS Integers, Sequences, FiniteSets, SequencesExt

CONSTANTS
  Letter,        \* the lowercase letters
  Dictionaries,  \* the word lists read_words may return
  MAX_CHOICE     \* the most guesses a player may choose, 26

Dash == "-"
Vocabulary == UNION {ToSet(d) : d \in Dictionaries}

ASSUME WheelAssumption ==
  /\ MAX_CHOICE \in Nat \ {0}
  /\ Dash \notin Letter
  /\ Dictionaries \subseteq Seq(Seq(Letter) \ {<<>>}) \ {<<>>}
  /\ \A d \in Dictionaries : IsInjective(d)

VARIABLES
  words,                    \* of main
  phase,                    \* "length", "guesses", "play", "again" or "ended"
  word_list, guesses, current_word, letters_guessed, \* of play_round
  biggest_fam,
  the_word                  \* the word that was shown at the end of a round

round == <<word_list, current_word, letters_guessed, biggest_fam>>
vars == <<words, phase, guesses, round, the_word>>

NoFamily == [signature |-> <<>>, word_ptrs |-> <<>>, max_words |-> 0]

Init == /\ words \in Dictionaries
        /\ phase = "length"
        /\ word_list = <<>> /\ guesses = 0
        /\ current_word = <<>> /\ letters_guessed = {}
        /\ biggest_fam = NoFamily
        /\ the_word = <<>>

-----------------------------------------------------------------------------
(* Families. *)

Signature(w, l) == [k \in DOMAIN w |-> IF w[k] = l THEN l ELSE Dash]

(* Mutant: realloc comes one word too late. *)
Full_Late(fam) == Len(fam.word_ptrs) > fam.max_words

Full(fam) == Len(fam.word_ptrs) >= fam.max_words

(* generate_families makes the length of the words the family_increment.   *)
add_word_to_family(fam, w) ==
  [fam EXCEPT !.max_words = IF Full(fam) THEN @ + Len(w) ELSE @,
              !.word_ptrs = Append(@, w)]

new_family(sig) ==
  [signature |-> sig, word_ptrs |-> <<>>, max_words |-> Len(sig)]

(* The first family with the signature sig. *)
find_family(fams, sig) ==
  CHOOSE k \in DOMAIN fams : /\ fams[k].signature = sig
                             /\ \A m \in 1..(k - 1) : fams[m].signature # sig

(* One round of the loop of generate_families; a new family goes last.     *)
Place(fams, w, sig) ==
  IF \E k \in DOMAIN fams : fams[k].signature = sig
  THEN [fams EXCEPT ![find_family(fams, sig)] = add_word_to_family(@, w)]
  ELSE Append(fams, add_word_to_family(new_family(sig), w))

generate_families(list, l) ==
  LET fams[k \in 0..Len(list)] ==
        IF k = 0 THEN <<>>
        ELSE LET before == fams[k - 1]
             IN Place(before, list[k], Signature(list[k], l))
  IN fams[Len(list)]

(* Mutant: the first family is taken. *)
find_biggest_family_First(fams) == fams[1]

(* The first of the families with the most words. *)
find_biggest_family(fams) ==
  LET size(k) == Len(fams[k].word_ptrs)
  IN fams[CHOOSE k \in DOMAIN fams : \A m \in DOMAIN fams :
            size(m) < size(k) \/ (size(m) = size(k) /\ k <= m)]

-----------------------------------------------------------------------------
(* A round. *)

(* The words of list of the length len, in their order. *)
prune_word_list(list, len) ==
  LET kept[k \in 0..Len(list)] ==
        IF k = 0 THEN <<>>
        ELSE IF Len(list[k]) = len THEN Append(kept[k - 1], list[k])
                                   ELSE kept[k - 1]
  IN kept[Len(list)]

(* get_word_list_of_length *)
ChooseLength ==
  /\ phase = "length"
  /\ \E len \in {Len(w) : w \in ToSet(words)} :
       /\ word_list' = prune_word_list(words, len)
       /\ current_word' = [k \in 1..len |-> Dash]
  /\ letters_guessed' = {}
  /\ biggest_fam' = NoFamily
  /\ guesses' = 0
  /\ phase' = "guesses"
  /\ UNCHANGED <<words, the_word>>

ChooseGuesses == /\ phase = "guesses"
                 /\ guesses' \in 1..MAX_CHOICE
                 /\ phase' = "play"
                 /\ UNCHANGED <<words, round, the_word>>

(* Mutant: get_next_guess does not note the letter. *)
Noted_Not(l) == letters_guessed

Noted(l) == letters_guessed \cup {l}

(* Mutant: the search of the signature ends at the first hit. *)
Uncovered_FirstOnly(sig, l) ==
  [k \in DOMAIN current_word |->
     IF sig[k] = l /\ \A m \in 1..(k - 1) : sig[m] # l THEN l
                                                       ELSE current_word[k]]

(* current_word after the search of the signature. *)
Uncovered(sig, l) ==
  [k \in DOMAIN current_word |-> IF sig[k] = l THEN l ELSE current_word[k]]

Found(sig, l) == \E k \in DOMAIN sig : sig[k] = l
Complete(w) == \A k \in DOMAIN w : w[k] # Dash

Guess(l) ==
  /\ phase = "play"
  /\ l \notin letters_guessed
  /\ letters_guessed' = Noted(l)
  /\ LET fam == find_biggest_family(generate_families(word_list, l))
     IN /\ biggest_fam' = fam
        /\ current_word' = Uncovered(fam.signature, l)
        /\ word_list' = fam.word_ptrs
        /\ guesses' = IF Found(fam.signature, l) THEN guesses ELSE guesses - 1
        /\ \/ /\ Found(fam.signature, l) /\ Complete(current_word')
              /\ the_word' = current_word'
              /\ phase' = "again"
           \/ /\ guesses' <= 0
              /\ the_word' \in ToSet(fam.word_ptrs)
              /\ phase' = "again"
           \/ /\ guesses' > 0
              /\ ~(Found(fam.signature, l) /\ Complete(current_word'))
              /\ phase' = "play"
              /\ UNCHANGED the_word
  /\ UNCHANGED words

PlayAgain == /\ phase = "again"
             /\ phase' = "length"
             /\ UNCHANGED <<words, guesses, round, the_word>>

(* The answer is not 'y', or an input ends: main returns, or exit(1). *)
Stop == /\ phase # "ended"
        /\ phase' = "ended"
        /\ UNCHANGED <<words, guesses, round, the_word>>

Next == ChooseLength \/ ChooseGuesses \/ (\E l \in Letter : Guess(l))
          \/ PlayAgain \/ Stop

Spec == Init /\ [][Next]_vars

-----------------------------------------------------------------------------
WheelTypeOK ==
  /\ words \in Dictionaries
  /\ phase \in {"length", "guesses", "play", "again", "ended"}
  /\ ToSet(word_list) \subseteq ToSet(words)
  /\ guesses \in 0..MAX_CHOICE
  /\ current_word \in Seq(Letter \cup {Dash})
  /\ letters_guessed \in SUBSET Letter
  /\ biggest_fam.signature \in Seq(Letter \cup {Dash})
  /\ Len(biggest_fam.word_ptrs) <= biggest_fam.max_words
  /\ the_word \in {<<>>} \cup ToSet(words)

(* Everything said to the player in this round is true of the word w. *)
Fits(w) ==
  /\ Len(w) = Len(current_word)
  /\ \A k \in DOMAIN w :
       current_word[k] = IF w[k] \in letters_guessed THEN w[k] ELSE Dash

(* The wheel never contradicts itself and never gives a word away: at      *)
(* every moment of a round the word list holds just the words of the       *)
(* dictionary that fit all the answers so far, at least one, and the word  *)
(* that is shown in the end is one of them (wheel.c:173-212).              *)
NeverContradicts ==
  phase \in {"play", "again"} =>
    /\ ToSet(word_list) = {w \in ToSet(words) : Fits(w)}
    /\ IsInjective(word_list)
    /\ word_list # <<>>
    /\ phase = "again" => Fits(the_word)

(* What a round may still take: misses, and places to uncover. *)
Remaining == guesses + Cardinality({k \in DOMAIN current_word : current_word[k] = Dash})

(* A round cannot go on for ever: an accepted guess that does not end it    *)
(* costs a miss or uncovers a place, so that a round of words of length n   *)
(* and g misses ends after at most n + g accepted guesses                   *)
(* (wheel.c:173-212).                                                       *)
RoundAdvances ==
  [][phase = "play" /\ phase' = "play" => Remaining' < Remaining]_vars

(* To its player the wheel is an evasive hangman: of the classes of words  *)
(* a guess makes, a largest stays (family.c:110-127, 151-201).             *)
Evasive == INSTANCE EvasiveHangman WITH
             words <- ToSet(words),
             candidates <- ToSet(word_list),
             board <- current_word,
             guessed <- letters_guessed,
             left <- guesses,
             MaxGuesses <- MAX_CHOICE
EvasiveSpec == Evasive!Spec
=============================================================================
