---------------------------- MODULE WheelProofs -----------------------------
(***************************************************************************)
(* Proofs about Wheel, for every alphabet, all dictionaries and every      *)
(* number of misses a player may choose.                                   *)
(***************************************************************************)
EXTENDS Wheel, LeastElements, FiniteSetTheorems, TLAPS

Word == Seq(Letter) \ {<<>>}
Symbol == Letter \cup {Dash}
Family == [signature : Seq(Symbol), word_ptrs : Seq(Word), max_words : Nat]

-----------------------------------------------------------------------------
(* prune_word_list. *)

(* f[k] is what the loop has kept after k rounds. *)
Prunes(list, len, f) ==
  /\ f[0] = <<>>
  /\ \A k \in 1..Len(list) :
       f[k] = IF Len(list[k]) = len THEN Append(f[k - 1], list[k]) ELSE f[k - 1]

LEMMA PruneLoop ==
  ASSUME NEW list \in Seq(Word), NEW len
  PROVE  \E f \in [0..Len(list) -> Seq(Word)] :
           prune_word_list(list, len) = f[Len(list)] /\ Prunes(list, len, f)
<1> DEFINE n == Len(list)
           X == Seq(Word)
           Step(k, q) == IF Len(list[k]) = len THEN Append(q, list[k]) ELSE q
           F == [k \in 1..n |-> [q \in X |-> Step(k, q)]]
           Loop(f) == f = [k \in 0..n |->
                        IF k = 0 THEN <<>>
                        ELSE IF Len(list[k]) = len THEN Append(f[k - 1], list[k])
                                                   ELSE f[k - 1]]
           c == CHOOSE g : Loop(g)
           e == <<>>
           Goes(f) == f[0] = e /\ \A k \in 1..n : f[k] = Step(k, f[k - 1])
<1>1. /\ n \in Nat /\ e \in X
      /\ \A k \in 1..n, q \in X : Step(k, q) \in X
  OBVIOUS
<1>2. \E f \in [0..n -> X] : Goes(f)
  <2> HIDE DEF n, Step, X, e
  <2>1. F \in [1..n -> [X -> X]]
    BY <1>1
  <2>2. \A k \in 1..n, q \in X : F[k][q] = Step(k, q)
    OBVIOUS
  <2> HIDE DEF F
  <2>3. PICK f \in [0..n -> X] : IsLoop(f, e, n, F)
    <3>1. n \in Nat
      BY <1>1
    <3>2. e \in X
      BY <1>1
    <3> QED
      BY <3>1, <3>2, <2>1, LoopExists
  <2>4. ASSUME NEW k \in 1..n PROVE f[k] = Step(k, f[k - 1])
    <3>1. f[k - 1] \in X
      BY <1>1
    <3> QED
      BY <2>2, <2>3, <3>1 DEF IsLoop
  <2> QED
    BY <2>3, <2>4 DEF IsLoop
<1>3. PICK f \in [0..n -> X] : Goes(f)
  <2> HIDE DEF n, X, Goes
  <2> QED
    BY <1>2
<1>4. Loop(f)
  <2>1. ASSUME NEW k \in 1..n
        PROVE  f[k] = IF Len(list[k]) = len THEN Append(f[k - 1], list[k])
                                            ELSE f[k - 1]
    BY <1>3
  <2>2. f[0] = <<>>
    BY <1>3
  <2> HIDE DEF n, X
  <2>3. \A k \in 0..n : k # 0 => k \in 1..n
    BY <1>1
  <2> QED
    BY <2>1, <2>2, <2>3
<1>5. prune_word_list(list, len) = c[n]
  BY DEF prune_word_list
<1>6. Loop(c)
  <2> HIDE DEF Loop
  <2> QED
    BY <1>4
<1>7. Goes(c) /\ c = [k \in 0..n |-> c[k]]
  <2> HIDE DEF c
  <2>1. ASSUME NEW k \in 0..n
        PROVE  c[k] = IF k = 0 THEN <<>> ELSE Step(k, c[k - 1])
    BY <1>6
  <2>2. c = [k \in 0..n |-> c[k]]
    <3> HIDE DEF n
    <3> QED
      BY <1>6
  <2> HIDE DEF n, Step
  <2>3. 0 \in 0..n /\ \A k \in 1..n : k \in 0..n /\ k # 0
    BY <1>1
  <2> QED
    BY <2>1, <2>2, <2>3
<1>8. c \in [0..n -> X]
  <2> DEFINE B == {k \in 0..n : c[k] \in X}
  <2> HIDE DEF n, X, Step, c
  <2>1. B \in SUBSET (0..n) /\ 0 \in B
    BY <1>1, <1>7
  <2>2. ASSUME NEW k \in 1..n, k - 1 \in B PROVE k \in B
    <3>0. n \in Nat
      BY <1>1
    <3>1. k \in 0..n
      BY <3>0
    <3>2. c[k] = Step(k, c[k - 1])
      BY <1>7
    <3>3. c[k - 1] \in X
      BY <2>2
    <3>4. Step(k, c[k - 1]) \in X
      BY <1>1, <3>3
    <3> QED
      BY <3>1, <3>2, <3>4
  <2> HIDE DEF B
  <2>3. \A k \in 0..n : k \in B
    BY <1>1, <2>1, <2>2, AllRounds
  <2> QED
    BY <1>7, <2>3 DEF B
<1> QED
  <2>1. Prunes(list, len, c)
    BY <1>7 DEF Prunes
  <2> HIDE DEF c
  <2> QED
    BY <1>5, <1>8, <2>1

(* A word that is not in a list yet is added at its end. *)
LEMMA AppendNew ==
  ASSUME NEW S, NEW q \in Seq(S), IsInjective(q), NEW w \in S, w \notin ToSet(q)
  PROVE  /\ Append(q, w) \in Seq(S) /\ Append(q, w) # <<>>
         /\ Len(Append(q, w)) = Len(q) + 1
         /\ ToSet(Append(q, w)) = ToSet(q) \cup {w}
         /\ IsInjective(Append(q, w))
<1> DEFINE r == Append(q, w)
<1>1. /\ r \in Seq(S) /\ Len(r) = Len(q) + 1 /\ Len(q) \in Nat
      /\ \A m \in 1..Len(q) : r[m] = q[m]
      /\ r[Len(q) + 1] = w
  OBVIOUS
<1> HIDE DEF r
<1>2. DOMAIN q = 1..Len(q) /\ DOMAIN r = 1..(Len(q) + 1)
  BY <1>1
<1>3. \A m \in DOMAIN r : m \in DOMAIN q \/ m = Len(q) + 1
  BY <1>1, <1>2
<1>4. \A m \in DOMAIN q : m \in DOMAIN r /\ r[m] = q[m] /\ m # Len(q) + 1
  BY <1>1, <1>2
<1>5. Len(q) + 1 \in DOMAIN r
  BY <1>1, <1>2
<1>6. ToSet(r) = ToSet(q) \cup {w}
  BY <1>1, <1>3, <1>4, <1>5 DEF ToSet
<1>7. IsInjective(r)
  <2> SUFFICES ASSUME NEW a \in DOMAIN r, NEW b \in DOMAIN r, r[a] = r[b]
               PROVE  a = b
    BY DEF IsInjective
  <2>1. \A x, y \in DOMAIN q : q[x] = q[y] => x = y
    BY DEF IsInjective
  <2>2. \A m \in DOMAIN q : q[m] # w
    BY DEF ToSet
  <2> QED
    BY <1>1, <1>3, <1>4, <2>1, <2>2
<1>8. r # <<>>
  BY <1>1
<1> QED
  BY <1>1, <1>6, <1>7, <1>8 DEF r

(* The words among the first k of list with the property that P stands for. *)
Among(list, k, P) == {list[m] : m \in {j \in 1..k : j \in P}}

LEMMA AmongNext ==
  ASSUME NEW list, IsInjective(list), NEW k \in 1..Len(list), Len(list) \in Nat,
         DOMAIN list = 1..Len(list), NEW P
  PROVE  /\ Among(list, k, P) = IF k \in P THEN Among(list, k - 1, P) \cup {list[k]}
                                           ELSE Among(list, k - 1, P)
         /\ list[k] \notin Among(list, k - 1, P)
<1>1. \A j \in 1..k : j \in 1..(k - 1) \/ j = k
  OBVIOUS
<1>2. \A j \in 1..(k - 1) : j \in 1..k /\ j # k /\ j \in DOMAIN list
  OBVIOUS
<1>3. k \in 1..k /\ k \in DOMAIN list
  OBVIOUS
<1>4. \A x, y \in DOMAIN list : list[x] = list[y] => x = y
  BY DEF IsInjective
<1> QED
  BY <1>1, <1>2, <1>3, <1>4 DEF Among

LEMMA PruneType ==
  ASSUME NEW list \in Seq(Word), IsInjective(list), NEW len
  PROVE  /\ prune_word_list(list, len) \in Seq(Word)
         /\ IsInjective(prune_word_list(list, len))
         /\ ToSet(prune_word_list(list, len)) = {w \in ToSet(list) : Len(w) = len}
<1> DEFINE n == Len(list)
           P == {j \in 1..n : Len(list[j]) = len}
<1>1. n \in Nat /\ DOMAIN list = 1..n /\ \A k \in 1..n : list[k] \in Word
  OBVIOUS
<1>2. PICK f \in [0..n -> Seq(Word)] :
        prune_word_list(list, len) = f[n] /\ Prunes(list, len, f)
  BY PruneLoop
<1> DEFINE B == {k \in 0..n : IsInjective(f[k]) /\ ToSet(f[k]) = Among(list, k, P)}
<1>3. 0 \in B
  <2>1. IsInjective(<<>>) /\ ToSet(<<>>) = {}
    BY DEF IsInjective, ToSet
  <2>2. Among(list, 0, P) = {}
    BY DEF Among
  <2> HIDE DEF n
  <2>3. 0 \in 0..n
    BY <1>1
  <2>4. f[0] = <<>>
    BY <1>2 DEF Prunes
  <2> QED
    BY <2>1, <2>2, <2>3, <2>4
<1>4. ASSUME NEW k \in 1..n, k - 1 \in B PROVE k \in B
  <2>1. IsInjective(f[k - 1]) /\ ToSet(f[k - 1]) = Among(list, k - 1, P)
    BY <1>4
  <2>2. k \in P <=> Len(list[k]) = len
    OBVIOUS
  <2>3. f[k - 1] \in Seq(Word) /\ list[k] \in Word
    BY <1>1
  <2>4. f[k] = IF Len(list[k]) = len THEN Append(f[k - 1], list[k]) ELSE f[k - 1]
    BY <1>2 DEF Prunes
  <2> HIDE DEF P
  <2>5. /\ Among(list, k, P) = IF k \in P THEN Among(list, k - 1, P) \cup {list[k]}
                                          ELSE Among(list, k - 1, P)
        /\ list[k] \notin Among(list, k - 1, P)
    BY <1>1, AmongNext
  <2>6. CASE k \in P
    <3>1. IsInjective(Append(f[k - 1], list[k]))
      BY <2>1, <2>3, <2>5, AppendNew
    <3>2. ToSet(Append(f[k - 1], list[k])) = ToSet(f[k - 1]) \cup {list[k]}
      BY <2>1, <2>3, <2>5, AppendNew
    <3>3. f[k] = Append(f[k - 1], list[k])
      BY <2>2, <2>4, <2>6
    <3>4. IsInjective(f[k])
      BY <3>1, <3>3
    <3>5. ToSet(f[k]) = Among(list, k, P)
      BY <2>1, <2>5, <2>6, <3>2, <3>3
    <3> QED
      BY <3>4, <3>5
  <2>7. CASE k \notin P
    BY <2>1, <2>2, <2>4, <2>5, <2>7
  <2> QED
    BY <2>6, <2>7
<1>5. n \in B
  <2>1. B \in SUBSET (0..n)
    OBVIOUS
  <2> HIDE DEF B, n
  <2>2. \A k \in 0..n : k \in B
    BY <1>1, <1>3, <1>4, <2>1, AllRounds
  <2> QED
    BY <1>1, <2>2
<1>6. Among(list, n, P) = {w \in ToSet(list) : Len(w) = len}
  BY <1>1 DEF Among, ToSet
<1> QED
  BY <1>1, <1>2, <1>5, <1>6

-----------------------------------------------------------------------------
(* Families. *)

LEMMA SignatureType ==
  ASSUME NEW w \in Word, NEW l \in Letter
  PROVE  /\ Signature(w, l) \in Seq(Symbol)
         /\ Len(Signature(w, l)) = Len(w)
         /\ DOMAIN Signature(w, l) = DOMAIN w
         /\ \A k \in DOMAIN w : Signature(w, l)[k] = IF w[k] = l THEN l ELSE Dash
<1>1. DOMAIN w = 1..Len(w) /\ Len(w) \in Nat
  BY DEF Word
<1>2. Signature(w, l) = [k \in 1..Len(w) |-> IF w[k] = l THEN l ELSE Dash]
  BY <1>1 DEF Signature
<1>3. Signature(w, l) \in [1..Len(w) -> Symbol]
  BY <1>2 DEF Symbol
<1> QED
  BY <1>1, <1>2, <1>3

LEMMA FindFamily ==
  ASSUME NEW fams \in Seq(Family), NEW sig, \E k \in DOMAIN fams : fams[k].signature = sig
  PROVE  /\ find_family(fams, sig) \in DOMAIN fams
         /\ fams[find_family(fams, sig)].signature = sig
<1> DEFINE S == {k \in DOMAIN fams : fams[k].signature = sig}
<1>1. S \in SUBSET Nat /\ S # {}
  OBVIOUS
<1>2. PICK k \in S : \A m \in S : k <= m
  <2> HIDE DEF S
  <2> QED
    BY <1>1, LeastElement
<1>3. /\ k \in DOMAIN fams /\ fams[k].signature = sig
      /\ \A m \in 1..(k - 1) : fams[m].signature # sig
  BY <1>2
<1> QED
  BY <1>3 DEF find_family

LEMMA AddWord ==
  ASSUME NEW fam \in Family, NEW w \in Word, IsInjective(fam.word_ptrs),
         w \notin ToSet(fam.word_ptrs), Len(fam.word_ptrs) <= fam.max_words
  PROVE  LET added == add_word_to_family(fam, w)
         IN /\ added \in Family
            /\ added.signature = fam.signature
            /\ added.word_ptrs # <<>>
            /\ IsInjective(added.word_ptrs)
            /\ ToSet(added.word_ptrs) = ToSet(fam.word_ptrs) \cup {w}
            /\ Len(added.word_ptrs) = Len(fam.word_ptrs) + 1
            /\ Len(added.word_ptrs) <= added.max_words
<1> DEFINE q == fam.word_ptrs
           r == Append(q, w)
           room == IF Full(fam) THEN fam.max_words + Len(w) ELSE fam.max_words
           added == add_word_to_family(fam, w)
<1>1. q \in Seq(Word) /\ fam.max_words \in Nat /\ fam.signature \in Seq(Symbol)
  BY DEF Family
<1>2. Len(w) \in Nat \ {0}
  BY DEF Word
<1>3. /\ r \in Seq(Word) /\ r # <<>> /\ Len(r) = Len(q) + 1
      /\ ToSet(r) = ToSet(q) \cup {w} /\ IsInjective(r)
  <2> HIDE DEF q
  <2>1. IsInjective(q) /\ w \notin ToSet(q)
    BY DEF q
  <2> QED
    BY <1>1, <2>1, AppendNew
<1>4. room \in Nat /\ Len(q) + 1 <= room
  BY <1>1, <1>2 DEF Full
<1>5. added = [fam EXCEPT !.max_words = room, !.word_ptrs = r]
  BY DEF add_word_to_family
<1> HIDE DEF r, room, q, added
<1>6. added \in Family
  BY <1>1, <1>3, <1>4, <1>5 DEF Family
<1>7. added.signature = fam.signature /\ added.word_ptrs = r /\ added.max_words = room
  BY <1>5 DEF Family
<1> QED
  BY <1>3, <1>4, <1>6, <1>7 DEF q, added

(* The rounds of the loop whose word has the signature sig. *)
Alike(list, l, sig) == {j \in 1..Len(list) : Signature(list[j], l) = sig}

(* Of the families after k rounds. *)
FamilyOK(fam, list, l, k) ==
  /\ IsInjective(fam.word_ptrs) /\ fam.word_ptrs # <<>>
  /\ ToSet(fam.word_ptrs) = Among(list, k, Alike(list, l, fam.signature))
  /\ Len(fam.word_ptrs) <= fam.max_words
  /\ Len(fam.word_ptrs) <= k

FamiliesOK(fams, list, l, k) ==
  /\ fams \in Seq(Family)
  /\ \A i \in DOMAIN fams : FamilyOK(fams[i], list, l, k)
  /\ \A m \in 1..k : \E i \in DOMAIN fams : fams[i].signature = Signature(list[m], l)
  /\ \A i, j \in DOMAIN fams : fams[i].signature = fams[j].signature => i = j

LEMMA PlaceOK ==
  ASSUME NEW list \in Seq(Word), IsInjective(list), NEW l \in Letter,
         NEW k \in 1..Len(list), NEW fams, FamiliesOK(fams, list, l, k - 1)
  PROVE  FamiliesOK(Place(fams, list[k], Signature(list[k], l)), list, l, k)
<1> DEFINE w == list[k]
           sig == Signature(w, l)
           new == Place(fams, w, sig)
<1>1. /\ Len(list) \in Nat /\ DOMAIN list = 1..Len(list) /\ k \in Nat
      /\ w \in Word
  OBVIOUS
<1>2. sig \in Seq(Symbol)
  BY <1>1, SignatureType
<1>3. ASSUME NEW s PROVE k \in Alike(list, l, s) <=> s = sig
  BY DEF Alike
<1>4. ASSUME NEW s
      PROVE  /\ Among(list, k, Alike(list, l, s)) =
                  IF s = sig THEN Among(list, k - 1, Alike(list, l, s)) \cup {w}
                             ELSE Among(list, k - 1, Alike(list, l, s))
             /\ w \notin Among(list, k - 1, Alike(list, l, s))
  <2> DEFINE P == Alike(list, l, s)
  <2>1. k \in P <=> s = sig
    BY <1>3
  <2> HIDE DEF P, sig
  <2>2. /\ Among(list, k, P) = IF k \in P THEN Among(list, k - 1, P) \cup {list[k]}
                                          ELSE Among(list, k - 1, P)
        /\ list[k] \notin Among(list, k - 1, P)
    BY <1>1, AmongNext
  <2> QED
    BY <2>1, <2>2 DEF P
<1> HIDE DEF w, sig, new
<1>5. /\ fams \in Seq(Family) /\ Len(fams) \in Nat /\ DOMAIN fams = 1..Len(fams)
      /\ \A i \in DOMAIN fams : fams[i] \in Family /\ FamilyOK(fams[i], list, l, k - 1)
      /\ \A m \in 1..(k - 1) : \E i \in DOMAIN fams :
           fams[i].signature = Signature(list[m], l)
      /\ \A i, j \in DOMAIN fams : fams[i].signature = fams[j].signature => i = j
  BY DEF FamiliesOK
(* A family that does not get the word. *)
<1>6. ASSUME NEW i \in DOMAIN fams, fams[i].signature # sig
      PROVE  FamilyOK(fams[i], list, l, k)
  <2>1. FamilyOK(fams[i], list, l, k - 1) /\ Len(fams[i].word_ptrs) \in Nat
    BY <1>5 DEF Family
  <2>2. Among(list, k, Alike(list, l, fams[i].signature))
          = Among(list, k - 1, Alike(list, l, fams[i].signature))
    BY <1>4, <1>6
  <2> QED
    BY <1>1, <2>1, <2>2 DEF FamilyOK
(* The family that does. *)
<1>7. ASSUME NEW fam \in Family, fam.signature = sig, IsInjective(fam.word_ptrs),
             ToSet(fam.word_ptrs) = Among(list, k - 1, Alike(list, l, sig)),
             Len(fam.word_ptrs) <= fam.max_words, Len(fam.word_ptrs) <= k - 1
      PROVE  /\ add_word_to_family(fam, w) \in Family
             /\ add_word_to_family(fam, w).signature = sig
             /\ FamilyOK(add_word_to_family(fam, w), list, l, k)
  <2> DEFINE added == add_word_to_family(fam, w)
  <2>1. w \notin ToSet(fam.word_ptrs)
    BY <1>4, <1>7
  <2>2. /\ added \in Family
        /\ added.signature = fam.signature
        /\ added.word_ptrs # <<>>
        /\ IsInjective(added.word_ptrs)
        /\ ToSet(added.word_ptrs) = ToSet(fam.word_ptrs) \cup {w}
        /\ Len(added.word_ptrs) = Len(fam.word_ptrs) + 1
        /\ Len(added.word_ptrs) <= added.max_words
    BY <1>1, <1>7, <2>1, AddWord DEF w
  <2>3. Len(fam.word_ptrs) \in Nat
    BY DEF Family
  <2> HIDE DEF added
  <2>4. Len(added.word_ptrs) <= k
    BY <1>1, <1>7, <2>2, <2>3
  <2>5. ToSet(added.word_ptrs) = Among(list, k, Alike(list, l, added.signature))
    BY <1>4, <1>7, <2>2
  <2>6. FamilyOK(added, list, l, k)
    BY <2>2, <2>4, <2>5 DEF FamilyOK
  <2> QED
    BY <1>7, <2>2, <2>6 DEF added
<1>8. CASE \E i \in DOMAIN fams : fams[i].signature = sig
  <2> DEFINE f == find_family(fams, sig)
             added == add_word_to_family(fams[f], w)
  <2>1. f \in DOMAIN fams /\ fams[f].signature = sig
    BY <1>5, <1>8, FindFamily
  <2>2. new = [fams EXCEPT ![f] = added]
    BY <1>8 DEF new, Place
  <2> HIDE DEF f
  <2>3. /\ fams[f] \in Family
        /\ FamilyOK(fams[f], list, l, k - 1)
    BY <1>5, <2>1
  <2>4. added \in Family /\ added.signature = sig /\ FamilyOK(added, list, l, k)
    BY <1>7, <2>1, <2>3 DEF FamilyOK
  <2> HIDE DEF added
  <2>5. /\ new \in Seq(Family) /\ DOMAIN new = DOMAIN fams
        /\ \A i \in DOMAIN fams : new[i] = IF i = f THEN added ELSE fams[i]
    BY <1>5, <2>1, <2>2, <2>4
  <2>6. \A i \in DOMAIN fams : new[i].signature = fams[i].signature
    BY <2>1, <2>4, <2>5
  <2>7. ASSUME NEW i \in DOMAIN fams PROVE FamilyOK(new[i], list, l, k)
    <3>1. CASE i = f
      BY <2>4, <2>5, <3>1
    <3>2. CASE i # f
      BY <1>5, <1>6, <2>1, <2>5, <3>2
    <3> QED
      BY <3>1, <3>2
  <2>8. ASSUME NEW m \in 1..k
        PROVE  \E i \in DOMAIN fams : new[i].signature = Signature(list[m], l)
    <3>1. CASE m = k
      BY <2>1, <2>6, <3>1 DEF sig, w
    <3>2. CASE m # k
      <4>1. m \in 1..(k - 1)
        BY <3>2
      <4> QED
        BY <1>5, <2>6, <4>1
    <3> QED
      BY <3>1, <3>2
  <2>9. \A i, j \in DOMAIN fams : new[i].signature = new[j].signature => i = j
    BY <1>5, <2>6
  <2> QED
    BY <2>5, <2>7, <2>8, <2>9 DEF FamiliesOK, new, w, sig
<1>9. CASE ~\E i \in DOMAIN fams : fams[i].signature = sig
  <2> DEFINE fresh == new_family(sig)
             added == add_word_to_family(fresh, w)
             n == Len(fams) + 1
  <2>1. new = Append(fams, added)
    BY <1>9 DEF new, Place
  <2>2. /\ fresh \in Family /\ fresh.signature = sig /\ fresh.word_ptrs = <<>>
        /\ fresh.max_words \in Nat
    BY <1>2 DEF new_family, Family
  <2>3. IsInjective(<<>>) /\ ToSet(<<>>) = {} /\ Len(<<>>) = 0
    BY DEF IsInjective, ToSet
  <2>4. Among(list, k - 1, Alike(list, l, sig)) = {}
    <3>1. \A m \in 1..(k - 1) : Signature(list[m], l) # sig
      BY <1>5, <1>9
    <3> QED
      BY <3>1 DEF Among, Alike
  <2> HIDE DEF fresh
  <2>5. added \in Family /\ added.signature = sig /\ FamilyOK(added, list, l, k)
    <3>1. /\ IsInjective(fresh.word_ptrs)
          /\ ToSet(fresh.word_ptrs) = Among(list, k - 1, Alike(list, l, sig))
      BY <2>2, <2>3, <2>4
    <3>2. Len(fresh.word_ptrs) <= fresh.max_words /\ Len(fresh.word_ptrs) <= k - 1
      BY <1>1, <2>2, <2>3
    <3> QED
      BY <1>7, <2>2, <3>1, <3>2
  <2> HIDE DEF added
  <2>6. /\ new \in Seq(Family) /\ DOMAIN new = 1..n /\ new[n] = added
        /\ \A i \in DOMAIN fams : new[i] = fams[i]
    BY <1>5, <2>1, <2>5
  <2>7. /\ n \in 1..n /\ \A i \in DOMAIN fams : i \in 1..n /\ i # n
        /\ \A i \in 1..n : i \in DOMAIN fams \/ i = n
    BY <1>5
  <2> HIDE DEF n
  <2>8. ASSUME NEW i \in 1..n PROVE FamilyOK(new[i], list, l, k)
    BY <1>6, <1>9, <2>5, <2>6, <2>7
  <2>9. ASSUME NEW m \in 1..k
        PROVE  \E i \in 1..n : new[i].signature = Signature(list[m], l)
    <3>1. CASE m = k
      BY <2>5, <2>6, <2>7, <3>1 DEF sig, w
    <3>2. CASE m # k
      <4>1. m \in 1..(k - 1)
        BY <3>2
      <4> QED
        BY <1>5, <2>6, <2>7, <4>1
    <3> QED
      BY <3>1, <3>2
  <2>10. \A i, j \in 1..n : new[i].signature = new[j].signature => i = j
    BY <1>5, <1>9, <2>5, <2>6, <2>7
  <2> QED
    BY <2>6, <2>8, <2>9, <2>10 DEF FamiliesOK, new, w, sig
<1> QED
  BY <1>8, <1>9

(* fams[k] is what the loop of generate_families has made in k rounds. *)
Generates(list, l, fams) ==
  /\ fams[0] = <<>>
  /\ \A k \in 1..Len(list) :
       fams[k] = Place(fams[k - 1], list[k], Signature(list[k], l))

LEMMA PlaceType ==
  ASSUME NEW fams \in Seq(Family), NEW w \in Word, NEW sig \in Seq(Symbol)
  PROVE  Place(fams, w, sig) \in Seq(Family)
<1>1. ASSUME NEW fam \in Family PROVE add_word_to_family(fam, w) \in Family
  <2> DEFINE r == Append(fam.word_ptrs, w)
             room == IF Full(fam) THEN fam.max_words + Len(w) ELSE fam.max_words
  <2>1. r \in Seq(Word) /\ room \in Nat
    BY DEF Family, Word
  <2>2. add_word_to_family(fam, w) = [fam EXCEPT !.max_words = room, !.word_ptrs = r]
    BY DEF add_word_to_family
  <2> HIDE DEF r, room
  <2> QED
    BY <2>1, <2>2 DEF Family
<1>2. CASE \E k \in DOMAIN fams : fams[k].signature = sig
  <2> DEFINE f == find_family(fams, sig)
             added == add_word_to_family(fams[f], w)
  <2>1. f \in DOMAIN fams
    BY <1>2, FindFamily
  <2>2. added \in Family
    BY <1>1, <2>1
  <2>3. Place(fams, w, sig) = [fams EXCEPT ![f] = added]
    BY <1>2 DEF Place
  <2> HIDE DEF f, added
  <2> QED
    BY <2>1, <2>2, <2>3
<1>3. CASE ~\E k \in DOMAIN fams : fams[k].signature = sig
  <2>1. new_family(sig) \in Family
    BY DEF new_family, Family
  <2>2. add_word_to_family(new_family(sig), w) \in Family
    BY <1>1, <2>1
  <2>3. Place(fams, w, sig) = Append(fams, add_word_to_family(new_family(sig), w))
    BY <1>3 DEF Place
  <2> HIDE DEF Family
  <2> QED
    BY <2>2, <2>3
<1> QED
  BY <1>2, <1>3

LEMMA GenerateLoop ==
  ASSUME NEW list \in Seq(Word), NEW l \in Letter
  PROVE  \E fams : /\ generate_families(list, l) = fams[Len(list)]
                   /\ Generates(list, l, fams)
<1> DEFINE n == Len(list)
           X == Seq(Family)
           Step(k, q) == Place(q, list[k], Signature(list[k], l))
           F == [k \in 1..n |-> [q \in X |-> Step(k, q)]]
           Loop(f) == f = [k \in 0..n |->
                        IF k = 0 THEN <<>>
                        ELSE LET before == f[k - 1]
                             IN Place(before, list[k], Signature(list[k], l))]
           c == CHOOSE g : Loop(g)
           e == <<>>
           Goes(f) == f[0] = e /\ \A k \in 1..n : f[k] = Step(k, f[k - 1])
<1>1. n \in Nat /\ e \in X
  OBVIOUS
<1>2. ASSUME NEW k \in 1..n, NEW q \in X PROVE Step(k, q) \in X
  <2>1. list[k] \in Word
    OBVIOUS
  <2> QED
    BY <2>1, SignatureType, PlaceType
<1>3. PICK f \in [0..n -> X] : Goes(f)
  <2> HIDE DEF n, Step, X, e
  <2>1. F \in [1..n -> [X -> X]]
    BY <1>2
  <2>2. \A k \in 1..n, q \in X : F[k][q] = Step(k, q)
    OBVIOUS
  <2> HIDE DEF F
  <2>3. PICK f \in [0..n -> X] : IsLoop(f, e, n, F)
    <3>1. n \in Nat
      BY <1>1
    <3>2. e \in X
      BY <1>1
    <3> QED
      BY <3>1, <3>2, <2>1, LoopExists
  <2>4. ASSUME NEW k \in 1..n PROVE f[k] = Step(k, f[k - 1])
    <3>1. f[k - 1] \in X
      BY <1>1
    <3> QED
      BY <2>2, <2>3, <3>1 DEF IsLoop
  <2> QED
    BY <2>3, <2>4 DEF IsLoop
<1>4. Loop(f)
  <2>1. ASSUME NEW k \in 1..n PROVE f[k] = Step(k, f[k - 1])
    BY <1>3
  <2>2. f[0] = <<>>
    BY <1>3
  <2> HIDE DEF n, X
  <2>3. \A k \in 0..n : k # 0 => k \in 1..n
    BY <1>1
  <2> QED
    BY <2>1, <2>2, <2>3
<1>5. generate_families(list, l) = c[n]
  BY DEF generate_families
<1>6. Loop(c)
  <2> HIDE DEF Loop
  <2> QED
    BY <1>4
<1>7. Generates(list, l, c)
  <2> HIDE DEF c
  <2>1. ASSUME NEW k \in 0..n
        PROVE  c[k] = IF k = 0 THEN <<>> ELSE Step(k, c[k - 1])
    BY <1>6
  <2> HIDE DEF n
  <2>2. 0 \in 0..n /\ \A k \in 1..n : k \in 0..n /\ k # 0
    BY <1>1
  <2>3. c[0] = <<>>
    BY <2>1, <2>2
  <2>4. ASSUME NEW k \in 1..n PROVE c[k] = Step(k, c[k - 1])
    BY <2>1, <2>2
  <2> QED
    BY <2>3, <2>4 DEF Generates, n
<1> QED
  <2> HIDE DEF c
  <2> QED
    BY <1>5, <1>7

LEMMA GenerateOK ==
  ASSUME NEW list \in Seq(Word), IsInjective(list), NEW l \in Letter
  PROVE  FamiliesOK(generate_families(list, l), list, l, Len(list))
<1> DEFINE n == Len(list)
<1>1. n \in Nat
  OBVIOUS
<1>2. PICK fams : generate_families(list, l) = fams[n] /\ Generates(list, l, fams)
  BY GenerateLoop
<1> DEFINE B == {k \in 0..n : FamiliesOK(fams[k], list, l, k)}
<1>3. 0 \in B
  <2>1. FamiliesOK(<<>>, list, l, 0)
    BY DEF FamiliesOK
  <2>2. fams[0] = <<>> /\ 0 \in 0..n
    BY <1>2 DEF Generates
  <2> QED
    BY <2>1, <2>2
<1>4. ASSUME NEW k \in 1..n, k - 1 \in B PROVE k \in B
  <2>1. FamiliesOK(fams[k - 1], list, l, k - 1)
    BY <1>4
  <2>2. fams[k] = Place(fams[k - 1], list[k], Signature(list[k], l))
    BY <1>2 DEF Generates
  <2>3. k \in 0..n
    OBVIOUS
  <2> QED
    BY <2>1, <2>2, <2>3, PlaceOK
<1>5. n \in B
  <2>1. B \in SUBSET (0..n)
    OBVIOUS
  <2> HIDE DEF B, n
  <2>2. \A k \in 0..n : k \in B
    BY <1>1, <1>3, <1>4, <2>1, AllRounds
  <2> QED
    BY <1>1, <2>2
<1> QED
  BY <1>2, <1>5

LEMMA BiggestFamily ==
  ASSUME NEW fams \in Seq(Family), fams # <<>>, NEW n \in Nat,
         \A k \in DOMAIN fams : Len(fams[k].word_ptrs) <= n
  PROVE  \E k \in DOMAIN fams :
           /\ find_biggest_family(fams) = fams[k]
           /\ \A m \in DOMAIN fams : Len(fams[m].word_ptrs) <= Len(fams[k].word_ptrs)
<1> DEFINE size(k) == Len(fams[k].word_ptrs)
           Short == {n - size(k) : k \in DOMAIN fams}
<1>1. \A k \in DOMAIN fams : size(k) \in Nat /\ size(k) <= n /\ k \in Nat
  BY DEF Family
<1>2. 1 \in DOMAIN fams
  OBVIOUS
<1> HIDE DEF size
<1>3. PICK s \in Short : \A t \in Short : s <= t
  <2>1. Short \in SUBSET Nat /\ Short # {}
    BY <1>1, <1>2
  <2> HIDE DEF Short
  <2> QED
    BY <2>1, LeastElement
<1>4. PICK b \in DOMAIN fams : s = n - size(b)
  BY <1>3
<1>5. ASSUME NEW m \in DOMAIN fams PROVE size(m) <= size(b)
  <2>1. n - size(b) <= n - size(m)
    BY <1>3, <1>4
  <2> QED
    BY <1>1, <2>1
<1> DEFINE S == {k \in DOMAIN fams : size(k) = size(b)}
<1>6. PICK k \in S : \A m \in S : k <= m
  <2>1. S \in SUBSET Nat /\ S # {}
    BY <1>1
  <2> HIDE DEF S
  <2> QED
    BY <2>1, LeastElement
<1>7. \A m \in DOMAIN fams : size(m) < size(k) \/ (size(m) = size(k) /\ k <= m)
  BY <1>1, <1>5, <1>6
<1> DEFINE Best(j) == /\ j \in DOMAIN fams
                      /\ \A m \in DOMAIN fams :
                           size(m) < size(j) \/ (size(m) = size(j) /\ j <= m)
           c == CHOOSE j : Best(j)
<1>8. find_biggest_family(fams) = fams[c]
  BY DEF find_biggest_family, size
<1>9. Best(c)
  <2>1. Best(k)
    BY <1>6, <1>7
  <2> HIDE DEF Best
  <2> QED
    BY <2>1
<1> HIDE DEF c
<1>10. c \in DOMAIN fams
  BY <1>9
<1>11. ASSUME NEW m \in DOMAIN fams PROVE size(m) <= size(c)
  <2>1. size(m) < size(c) \/ size(m) = size(c)
    BY <1>9
  <2>2. size(m) \in Nat /\ size(c) \in Nat
    BY <1>1, <1>10
  <2> QED
    BY <2>1, <2>2
<1> QED
  BY <1>8, <1>10, <1>11 DEF size

LEMMA WordsCounted ==
  ASSUME NEW S, NEW q \in Seq(S), IsInjective(q)
  PROVE  IsFiniteSet(ToSet(q)) /\ Cardinality(ToSet(q)) = Len(q)
<1>1. Len(q) \in Nat /\ DOMAIN q = 1..Len(q)
  OBVIOUS
<1>2. q \in Bijection(1..Len(q), ToSet(q))
  <2>1. q \in [1..Len(q) -> ToSet(q)]
    BY <1>1 DEF ToSet
  <2>2. \A a, b \in 1..Len(q) : q[a] = q[b] => a = b
    BY <1>1 DEF IsInjective
  <2>3. \A t \in ToSet(q) : \E s \in 1..Len(q) : q[s] = t
    BY <1>1 DEF ToSet
  <2> QED
    BY <2>1, <2>2, <2>3 DEF Bijection, Injection, Surjection, IsInjective
<1>3. ExistsBijection(1..Len(q), ToSet(q))
  BY <1>2 DEF ExistsBijection
<1> QED
  BY <1>1, <1>3, FS_CountingElements, FS_NatBijection

(* The family a guess leads to: a largest class of the words of list. *)
LEMMA ChosenFamily ==
  ASSUME NEW list \in Seq(Word), IsInjective(list), list # <<>>, NEW l \in Letter
  PROVE  LET fam == find_biggest_family(generate_families(list, l))
             Class(sig) == {v \in ToSet(list) : Signature(v, l) = sig}
         IN /\ fam \in Family
            /\ IsInjective(fam.word_ptrs) /\ fam.word_ptrs # <<>>
            /\ ToSet(fam.word_ptrs) = Class(fam.signature)
            /\ Len(fam.word_ptrs) <= fam.max_words
            /\ \E w \in ToSet(list) : fam.signature = Signature(w, l)
            /\ \A w \in ToSet(list) :
                 Cardinality(Class(Signature(w, l))) <= Cardinality(ToSet(fam.word_ptrs))
<1> DEFINE n == Len(list)
           fams == generate_families(list, l)
           fam == find_biggest_family(fams)
           Class(sig) == {v \in ToSet(list) : Signature(v, l) = sig}
<1>1. n \in Nat /\ n >= 1 /\ DOMAIN list = 1..n
  OBVIOUS
<1>2. FamiliesOK(fams, list, l, n)
  BY GenerateOK
<1> HIDE DEF fams
<1>3. /\ fams \in Seq(Family)
      /\ \A i \in DOMAIN fams : fams[i] \in Family /\ FamilyOK(fams[i], list, l, n)
      /\ \A m \in 1..n : \E i \in DOMAIN fams : fams[i].signature = Signature(list[m], l)
  BY <1>2 DEF FamiliesOK
<1>4. ASSUME NEW sig PROVE Among(list, n, Alike(list, l, sig)) = Class(sig)
  BY <1>1 DEF Among, Alike, ToSet
<1> HIDE DEF n, Class
<1>5. fams # <<>>
  <2>1. 1 \in 1..n
    BY <1>1
  <2> QED
    BY <1>3, <2>1
<1>6. \A i \in DOMAIN fams : Len(fams[i].word_ptrs) <= n
  BY <1>3 DEF FamilyOK
<1>7. PICK k \in DOMAIN fams :
        /\ fam = fams[k]
        /\ \A m \in DOMAIN fams : Len(fams[m].word_ptrs) <= Len(fams[k].word_ptrs)
  BY <1>1, <1>3, <1>5, <1>6, BiggestFamily
<1> HIDE DEF fam
<1>8. ASSUME NEW i \in DOMAIN fams
      PROVE  /\ ToSet(fams[i].word_ptrs) = Class(fams[i].signature)
             /\ Cardinality(ToSet(fams[i].word_ptrs)) = Len(fams[i].word_ptrs)
  <2>1. FamilyOK(fams[i], list, l, n) /\ fams[i].word_ptrs \in Seq(Word)
    BY <1>3 DEF Family
  <2>2. ToSet(fams[i].word_ptrs) = Class(fams[i].signature)
    BY <1>4, <2>1 DEF FamilyOK
  <2>3. Cardinality(ToSet(fams[i].word_ptrs)) = Len(fams[i].word_ptrs)
    BY <2>1, WordsCounted DEF FamilyOK
  <2> QED
    BY <2>2, <2>3
<1>9. /\ fam \in Family /\ FamilyOK(fam, list, l, n)
      /\ ToSet(fam.word_ptrs) = Class(fam.signature)
  BY <1>3, <1>7, <1>8
<1>10. \E w \in ToSet(list) : fam.signature = Signature(w, l)
  <2>1. fam.word_ptrs \in Seq(Word) /\ fam.word_ptrs # <<>>
    BY <1>9 DEF FamilyOK, Family
  <2>2. fam.word_ptrs[1] \in ToSet(fam.word_ptrs)
    BY <2>1 DEF ToSet
  <2> QED
    BY <1>9, <2>2 DEF Class
<1>11. ASSUME NEW w \in ToSet(list)
       PROVE  Cardinality(Class(Signature(w, l))) <= Cardinality(ToSet(fam.word_ptrs))
  <2>1. PICK m \in 1..n : w = list[m]
    BY <1>1 DEF ToSet
  <2>2. PICK i \in DOMAIN fams : fams[i].signature = Signature(w, l)
    BY <1>3, <2>1
  <2>3. Cardinality(Class(Signature(w, l))) = Len(fams[i].word_ptrs)
    BY <1>8, <2>2
  <2>4. Cardinality(ToSet(fam.word_ptrs)) = Len(fams[k].word_ptrs)
    BY <1>7, <1>8
  <2> QED
    BY <1>7, <2>3, <2>4
<1> QED
  BY <1>9, <1>10, <1>11 DEF FamilyOK, fam, fams, Class

-----------------------------------------------------------------------------
(* Answers.  Agrees is Fits for a board and a set of letters. *)

Agrees(w, board, L) ==
  /\ Len(w) = Len(board)
  /\ \A k \in DOMAIN w : board[k] = IF w[k] \in L THEN w[k] ELSE Dash

(* The board after the answer sig to the letter l. *)
Answered(board, sig, l) == [k \in DOMAIN board |-> IF sig[k] = l THEN l ELSE board[k]]

(* The words that fit the answers with the new one are those that fitted   *)
(* the old ones and have the signature of the answer.                      *)
LEMMA AnswerNarrows ==
  ASSUME NEW board \in Seq(Symbol), NEW L \in SUBSET Letter,
         NEW l \in Letter, l \notin L, NEW w0 \in Word, Agrees(w0, board, L),
         NEW w \in Word
  PROVE  Agrees(w, Answered(board, Signature(w0, l), l), L \cup {l})
           <=> Agrees(w, board, L) /\ Signature(w, l) = Signature(w0, l)
<1> DEFINE sig == Signature(w0, l)
           new == Answered(board, sig, l)
           n == Len(board)
<1>1. /\ n \in Nat /\ DOMAIN board = 1..n
      /\ DOMAIN w0 = 1..n /\ DOMAIN w = 1..Len(w) /\ Len(w) \in Nat
      /\ \A k \in 1..n : w0[k] \in Letter
      /\ \A k \in DOMAIN w : w[k] \in Letter
  BY DEF Word, Agrees
<1>2. /\ new \in Seq(Symbol) /\ Len(new) = n
      /\ \A k \in 1..n : new[k] = IF sig[k] = l THEN l ELSE board[k]
  <2>1. new = [k \in 1..n |-> IF sig[k] = l THEN l ELSE board[k]]
    BY <1>1 DEF Answered
  <2>2. new \in [1..n -> Symbol]
    BY <1>1, <2>1 DEF Symbol
  <2> QED
    BY <1>1, <2>1, <2>2
<1>3. /\ \A k \in 1..n : sig[k] = IF w0[k] = l THEN l ELSE Dash
      /\ DOMAIN sig = 1..n
  BY <1>1, SignatureType
<1>4. /\ \A k \in DOMAIN w : Signature(w, l)[k] = IF w[k] = l THEN l ELSE Dash
      /\ Signature(w, l) \in Seq(Symbol) /\ Len(Signature(w, l)) = Len(w)
      /\ sig \in Seq(Symbol) /\ Len(sig) = Len(w0)
  BY SignatureType
<1>5. \A k \in 1..n : board[k] # l
  BY <1>1, WheelAssumption DEF Agrees
<1>6. l # Dash /\ \A k \in DOMAIN w : w[k] # Dash
  BY <1>1, WheelAssumption
<1> HIDE DEF sig, new, n
<1>7. ASSUME Agrees(w, board, L), Signature(w, l) = sig
      PROVE  Agrees(w, new, L \cup {l})
  <2>1. Len(w) = n /\ \A k \in 1..n : board[k] = IF w[k] \in L THEN w[k] ELSE Dash
    BY <1>1, <1>7 DEF Agrees, n
  <2>2. \A k \in 1..n : sig[k] = IF w[k] = l THEN l ELSE Dash
    BY <1>1, <1>4, <1>7, <2>1
  <2> QED
    BY <1>1, <1>2, <1>6, <2>1, <2>2 DEF Agrees
<1>8. ASSUME Agrees(w, new, L \cup {l})
      PROVE  Agrees(w, board, L) /\ Signature(w, l) = sig
  <2>1. /\ Len(w) = n
        /\ \A k \in 1..n : new[k] = IF w[k] \in L \cup {l} THEN w[k] ELSE Dash
    BY <1>1, <1>2, <1>8 DEF Agrees
  <2>2. ASSUME NEW k \in 1..n
        PROVE  /\ sig[k] = IF w[k] = l THEN l ELSE Dash
               /\ board[k] = IF w[k] \in L THEN w[k] ELSE Dash
    <3>1. CASE w[k] = l
      <4>1. new[k] = l
        BY <2>1, <3>1
      <4>2. sig[k] = l
        BY <1>2, <1>5, <4>1
      <4>3. w0[k] = l
        BY <1>3, <1>6, <4>2
      <4>4. board[k] = Dash
        BY <1>1, <4>3 DEF Agrees
      <4> QED
        BY <3>1, <4>2, <4>4
    <3>2. CASE w[k] # l
      <4>1. new[k] # l
        BY <1>6, <2>1, <3>2
      <4>2. sig[k] # l
        BY <1>2, <4>1
      <4> QED
        BY <1>2, <1>3, <2>1, <3>2, <4>2
    <3> QED
      BY <3>1, <3>2
  <2>3. Agrees(w, board, L)
    BY <1>1, <2>1, <2>2 DEF Agrees, n
  <2>4. Signature(w, l) = sig
    <3>1. Len(w0) = n
      BY DEF Agrees, n
    <3>2. \A k \in 1..n : Signature(w, l)[k] = sig[k]
      BY <1>1, <1>4, <2>1, <2>2
    <3> QED
      BY <1>4, <2>1, <3>1, <3>2
  <2> QED
    BY <2>3, <2>4
<1> QED
  BY <1>7, <1>8 DEF sig, new

-----------------------------------------------------------------------------
(* The inductive invariant, IInv. *)

(* From the choice of a length to the end of a round the list holds the    *)
(* words that fit the answers.                                             *)
ListInv ==
  phase \in {"guesses", "play", "again"} =>
    /\ word_list \in Seq(Word) /\ IsInjective(word_list) /\ word_list # <<>>
    /\ ToSet(word_list) = {w \in ToSet(words) : Fits(w)}

(* A round begins with nothing said, is not over while it is played, and   *)
(* is over when the next one begins.                                       *)
RoundInv ==
  /\ phase = "guesses" => /\ letters_guessed = {} /\ guesses = 0
                          /\ current_word # <<>>
                          /\ \A k \in DOMAIN current_word : current_word[k] = Dash
  /\ phase = "play" => guesses > 0 /\ ~Complete(current_word)
  /\ phase = "again" => Fits(the_word)
  /\ phase \in {"length", "again"} => guesses = 0 \/ Complete(current_word)

IInv == WheelTypeOK /\ ListInv /\ RoundInv

LEMMA WordsType ==
  ASSUME WheelTypeOK
  PROVE  words \in Seq(Word) /\ IsInjective(words) /\ ToSet(words) \subseteq Word
<1>1. words \in Seq(Word) /\ IsInjective(words)
  BY WheelAssumption DEF WheelTypeOK, Word
<1> QED
  BY <1>1 DEF ToSet

LEMMA FitsAgrees ==
  \A w : Fits(w) <=> Agrees(w, current_word, letters_guessed)
BY DEF Fits, Agrees

LEMMA InitIInv == Init => IInv
<1> SUFFICES ASSUME Init PROVE IInv
  OBVIOUS
<1>1. ToSet(<<>>) = {} /\ <<>> \in Seq(Symbol) /\ Complete(<<>>) /\ Len(<<>>) = 0
  BY DEF ToSet, Complete
<1>2. WheelTypeOK
  BY <1>1, WheelAssumption DEF Init, WheelTypeOK, NoFamily, Symbol
<1> QED
  BY <1>1, <1>2 DEF Init, IInv, ListInv, RoundInv

LEMMA ChooseLengthIInv == IInv /\ ChooseLength => IInv'
<1> SUFFICES ASSUME IInv, ChooseLength PROVE IInv'
  OBVIOUS
<1>1. PICK w0 \in ToSet(words) :
        /\ word_list' = prune_word_list(words, Len(w0))
        /\ current_word' = [k \in 1..Len(w0) |-> Dash]
  BY DEF ChooseLength
<1>2. /\ letters_guessed' = {} /\ guesses' = 0 /\ biggest_fam' = NoFamily
      /\ phase' = "guesses" /\ UNCHANGED <<words, the_word>>
  BY DEF ChooseLength
<1>3. words \in Seq(Word) /\ IsInjective(words) /\ ToSet(words) \subseteq Word
  BY WordsType DEF IInv
<1>4. Len(w0) \in Nat \ {0}
  BY <1>3 DEF Word
<1>5. /\ current_word' \in Seq(Symbol) /\ Len(current_word') = Len(w0)
      /\ current_word' # <<>>
      /\ \A k \in DOMAIN current_word' : current_word'[k] = Dash
  BY <1>1, <1>4 DEF Symbol
<1>6. /\ word_list' \in Seq(Word) /\ IsInjective(word_list')
      /\ ToSet(word_list') = {w \in ToSet(words) : Len(w) = Len(w0)}
  BY <1>1, <1>3, PruneType
<1>7. word_list' # <<>>
  <2>1. ToSet(<<>>) = {}
    BY DEF ToSet
  <2> QED
    BY <1>6, <2>1
<1>8. \A w \in ToSet(words) : Fits(w)' <=> Len(w) = Len(w0)
  <2> SUFFICES ASSUME NEW w \in ToSet(words)
               PROVE  Fits(w)' <=> Len(w) = Len(w0)
    OBVIOUS
  <2>1. DOMAIN w = 1..Len(w) /\ DOMAIN current_word' = 1..Len(w0)
    BY <1>1, <1>3, <1>4 DEF Word
  <2> QED
    BY <1>2, <1>5, <2>1 DEF Fits
<1>9. ToSet(word_list') = {w \in ToSet(words') : Fits(w)'}
  BY <1>2, <1>6, <1>8
<1>10. WheelTypeOK'
  <2>1. NoFamily.signature \in Seq(Symbol)
        /\ Len(NoFamily.word_ptrs) <= NoFamily.max_words
    BY DEF NoFamily
  <2>2. 0 \in 0..MAX_CHOICE
    BY WheelAssumption
  <2> QED
    BY <1>2, <1>5, <1>6, <2>1, <2>2 DEF IInv, WheelTypeOK, Symbol
<1>11. ListInv'
  BY <1>6, <1>7, <1>9 DEF ListInv
<1>12. RoundInv'
  BY <1>2, <1>5 DEF RoundInv
<1> QED
  BY <1>10, <1>11, <1>12 DEF IInv

(* What an accepted guess does: fam is the family that is chosen, w0 one   *)
(* of its words.                                                           *)
LEMMA GuessFacts ==
  ASSUME IInv, NEW l \in Letter, Guess(l)
  PROVE  LET fam == find_biggest_family(generate_families(word_list, l))
             Class(sig) == {v \in ToSet(word_list) : Signature(v, l) = sig}
         IN \E w0 \in ToSet(word_list) :
              /\ Fits(w0)
              /\ fam \in Family /\ Len(fam.word_ptrs) <= fam.max_words
              /\ fam.signature = Signature(w0, l)
              /\ biggest_fam' = fam
              /\ word_list' = fam.word_ptrs
              /\ word_list' \in Seq(Word) /\ IsInjective(word_list')
              /\ word_list' # <<>>
              /\ ToSet(word_list') = Class(fam.signature)
              /\ ToSet(word_list') = {w \in ToSet(words) : Fits(w)'}
              /\ \A w \in ToSet(word_list) :
                   Cardinality(Class(Signature(w, l))) <= Cardinality(ToSet(word_list'))
              /\ current_word' = Answered(current_word, fam.signature, l)
              /\ letters_guessed' = letters_guessed \cup {l}
              /\ l \notin letters_guessed
              /\ UNCHANGED words
<1> DEFINE fam == find_biggest_family(generate_families(word_list, l))
           Class(sig) == {v \in ToSet(word_list) : Signature(v, l) = sig}
<1>1. /\ phase = "play" /\ l \notin letters_guessed
      /\ letters_guessed' = letters_guessed \cup {l}
      /\ biggest_fam' = fam /\ word_list' = fam.word_ptrs
      /\ current_word' = Answered(current_word, fam.signature, l)
      /\ UNCHANGED words
  BY DEF Guess, Noted, Uncovered, Answered
<1>2. /\ word_list \in Seq(Word) /\ IsInjective(word_list) /\ word_list # <<>>
      /\ ToSet(word_list) = {w \in ToSet(words) : Fits(w)}
  BY <1>1 DEF IInv, ListInv
<1>3. /\ fam \in Family
      /\ IsInjective(fam.word_ptrs) /\ fam.word_ptrs # <<>>
      /\ ToSet(fam.word_ptrs) = Class(fam.signature)
      /\ Len(fam.word_ptrs) <= fam.max_words
      /\ \E w \in ToSet(word_list) : fam.signature = Signature(w, l)
      /\ \A w \in ToSet(word_list) :
           Cardinality(Class(Signature(w, l))) <= Cardinality(ToSet(fam.word_ptrs))
  BY <1>2, ChosenFamily
<1> HIDE DEF fam
<1>4. PICK w0 \in ToSet(word_list) : fam.signature = Signature(w0, l)
  BY <1>3
<1>5. ToSet(words) \subseteq Word /\ w0 \in Word /\ Fits(w0)
  BY <1>2, WordsType DEF IInv
<1>6. ASSUME NEW w \in ToSet(words)
      PROVE  Fits(w)' <=> Fits(w) /\ Signature(w, l) = fam.signature
  <2> DEFINE board == current_word
             L == letters_guessed
             new == Answered(board, Signature(w0, l), l)
  <2>1. board \in Seq(Symbol) /\ L \in SUBSET Letter /\ l \notin L
    BY <1>1 DEF IInv, WheelTypeOK, Symbol
  <2>2. Agrees(w0, board, L) /\ w \in Word
    BY <1>5, FitsAgrees
  <2>3. Fits(w)' <=> Agrees(w, new, L \cup {l})
    BY <1>1, <1>4 DEF Fits, Agrees
  <2>4. Fits(w) <=> Agrees(w, board, L)
    BY FitsAgrees
  <2> HIDE DEF board, L
  <2>5. Agrees(w, new, L \cup {l})
          <=> Agrees(w, board, L) /\ Signature(w, l) = Signature(w0, l)
    BY <1>5, <2>1, <2>2, AnswerNarrows
  <2> QED
    BY <1>4, <2>3, <2>4, <2>5
<1>7. ToSet(word_list') = {w \in ToSet(words) : Fits(w)'}
  BY <1>1, <1>2, <1>3, <1>6
<1>8. word_list' \in Seq(Word)
  BY <1>1, <1>3 DEF Family
<1> QED
  BY <1>1, <1>3, <1>4, <1>5, <1>7, <1>8 DEF fam

LEMMA GuessIInv ==
  ASSUME IInv, NEW l \in Letter, Guess(l)
  PROVE  IInv'
<1> DEFINE fam == find_biggest_family(generate_families(word_list, l))
<1>1. PICK w0 \in ToSet(word_list) :
        /\ Fits(w0)
        /\ fam \in Family /\ Len(fam.word_ptrs) <= fam.max_words
        /\ fam.signature = Signature(w0, l)
        /\ biggest_fam' = fam
        /\ word_list' = fam.word_ptrs
        /\ word_list' \in Seq(Word) /\ IsInjective(word_list')
        /\ word_list' # <<>>
        /\ ToSet(word_list') = {v \in ToSet(word_list) : Signature(v, l) = fam.signature}
        /\ ToSet(word_list') = {w \in ToSet(words) : Fits(w)'}
        /\ current_word' = Answered(current_word, fam.signature, l)
        /\ letters_guessed' = letters_guessed \cup {l}
        /\ UNCHANGED words
  BY GuessFacts
<1>2. /\ phase = "play"
      /\ guesses' = IF Found(fam.signature, l) THEN guesses ELSE guesses - 1
      /\ \/ /\ Found(fam.signature, l) /\ Complete(current_word')
            /\ the_word' = current_word'
            /\ phase' = "again"
         \/ /\ guesses' <= 0
            /\ the_word' \in ToSet(fam.word_ptrs)
            /\ phase' = "again"
         \/ /\ guesses' > 0
            /\ ~(Found(fam.signature, l) /\ Complete(current_word'))
            /\ phase' = "play"
            /\ UNCHANGED the_word
  BY DEF Guess, Uncovered, Answered
<1> HIDE DEF fam
<1>3. /\ guesses \in 0..MAX_CHOICE /\ guesses > 0 /\ ~Complete(current_word)
      /\ current_word \in Seq(Symbol) /\ MAX_CHOICE \in Nat
  BY <1>2, WheelAssumption DEF IInv, WheelTypeOK, RoundInv, Symbol
<1>4. guesses' \in 0..MAX_CHOICE
  BY <1>2, <1>3
<1>5. current_word' \in Seq(Symbol)
  <2>1. /\ DOMAIN current_word = 1..Len(current_word)
        /\ \A k \in 1..Len(current_word) : current_word[k] \in Symbol
    BY <1>3
  <2>2. current_word' \in [1..Len(current_word) -> Symbol]
    BY <1>1, <2>1 DEF Answered, Symbol
  <2> QED
    BY <1>3, <2>2
<1>6. w0 \in ToSet(word_list') /\ w0 \in ToSet(words) /\ w0 \in Word /\ Fits(w0)'
  <2>1. w0 \in ToSet(word_list')
    BY <1>1
  <2> QED
    BY <1>1, <2>1, WordsType DEF IInv
(* When the board is complete it is the word.                              *)
<1>7. ASSUME Complete(current_word') PROVE current_word' = w0
  <2>1. /\ w0 \in Seq(Letter) /\ Len(w0) = Len(current_word')
        /\ DOMAIN w0 = 1..Len(w0) /\ DOMAIN current_word' = 1..Len(w0)
    BY <1>5, <1>6 DEF Word, Fits
  <2>2. \A k \in 1..Len(w0) : current_word'[k] = w0[k]
    BY <1>6, <1>7, <2>1 DEF Fits, Complete
  <2> QED
    BY <1>5, <2>1, <2>2
<1>8. the_word' \in {<<>>} \cup ToSet(words')
  BY <1>1, <1>2, <1>6, <1>7 DEF IInv, WheelTypeOK
<1>9. phase' = "again" => Fits(the_word)'
  <2>1. the_word' = w0 => Fits(the_word)'
    BY <1>6 DEF Fits
  <2>2. \A w \in ToSet(word_list') : the_word' = w => Fits(the_word)'
    BY <1>1 DEF Fits
  <2> QED
    BY <1>1, <1>2, <1>7, <2>1, <2>2
<1>10. WheelTypeOK'
  <2>1. ToSet(word_list') \subseteq ToSet(words')
    BY <1>1
  <2>2. letters_guessed' \in SUBSET Letter /\ words' \in Dictionaries
    BY <1>1 DEF IInv, WheelTypeOK
  <2>3. /\ biggest_fam'.signature \in Seq(Symbol)
        /\ Len(biggest_fam'.word_ptrs) <= biggest_fam'.max_words
    BY <1>1 DEF Family
  <2>4. phase' \in {"length", "guesses", "play", "again", "ended"}
    BY <1>2
  <2> QED
    BY <1>4, <1>5, <1>8, <2>1, <2>2, <2>3, <2>4 DEF WheelTypeOK, Symbol
<1>11. ListInv'
  BY <1>1 DEF ListInv
<1>12. RoundInv'
  <2>1. phase' = "play" => guesses' > 0 /\ ~Complete(current_word')
    <3>1. CASE Found(fam.signature, l)
      BY <1>2, <3>1
    <3>2. CASE ~Found(fam.signature, l)
      <4>1. current_word' = current_word
        <5>1. DOMAIN fam.signature = DOMAIN w0 /\ DOMAIN w0 = DOMAIN current_word
          <6>1. Len(w0) = Len(current_word) /\ w0 \in Seq(Letter)
            BY <1>1, <1>6 DEF Fits, Word
          <6>2. DOMAIN fam.signature = DOMAIN w0
            BY <1>1, <1>6, SignatureType
          <6> QED
            BY <1>3, <6>1, <6>2
        <5>2. \A k \in DOMAIN current_word : fam.signature[k] # l
          BY <3>2, <5>1 DEF Found
        <5> QED
          BY <1>1, <1>3, <5>2 DEF Answered
      <4> QED
        BY <1>2, <1>3, <4>1
    <3> QED
      BY <3>1, <3>2
  <2>2. phase' = "again" => guesses' = 0 \/ Complete(current_word')
    BY <1>2, <1>4
  <2> QED
    BY <1>2, <1>9, <2>1, <2>2 DEF RoundInv
<1> QED
  BY <1>10, <1>11, <1>12 DEF IInv

LEMMA NextIInv == IInv /\ [Next]_vars => IInv'
<1> SUFFICES ASSUME IInv, [Next]_vars PROVE IInv'
  OBVIOUS
<1>1. CASE ChooseLength
  BY <1>1, ChooseLengthIInv
<1>2. CASE ChooseGuesses
  <2>1. /\ phase = "guesses" /\ phase' = "play" /\ guesses' \in 1..MAX_CHOICE
        /\ UNCHANGED <<words, word_list, current_word, letters_guessed, biggest_fam,
                       the_word>>
    BY <1>2 DEF ChooseGuesses, round
  <2>2. current_word \in Seq(Symbol)
    BY DEF IInv, WheelTypeOK, Symbol
  <2>3. ~Complete(current_word')
    BY <2>1, <2>2 DEF IInv, RoundInv, Complete
  <2>4. \A w : Fits(w)' <=> Fits(w)
    BY <2>1 DEF Fits
  <2>5. WheelTypeOK'
    BY <2>1, WheelAssumption DEF IInv, WheelTypeOK
  <2>6. ListInv'
    BY <2>1, <2>4 DEF IInv, ListInv
  <2>7. RoundInv'
    BY <2>1, <2>3, WheelAssumption DEF RoundInv
  <2> QED
    BY <2>5, <2>6, <2>7 DEF IInv
<1>3. CASE \E l \in Letter : Guess(l)
  BY <1>3, GuessIInv
<1>4. CASE PlayAgain \/ Stop
  <2>1. /\ (phase' = "length" /\ phase = "again") \/ phase' = "ended"
        /\ UNCHANGED <<words, word_list, current_word, letters_guessed, biggest_fam,
                       the_word, guesses>>
    BY <1>4 DEF PlayAgain, Stop, round
  <2>2. WheelTypeOK'
    BY <2>1 DEF IInv, WheelTypeOK
  <2>3. ListInv'
    BY <2>1 DEF ListInv
  <2>4. RoundInv'
    BY <2>1 DEF IInv, RoundInv, Complete
  <2> QED
    BY <2>2, <2>3, <2>4 DEF IInv
<1>5. CASE UNCHANGED vars
  <2>1. \A w : Fits(w)' <=> Fits(w)
    BY <1>5 DEF vars, round, Fits
  <2> QED
    BY <1>5, <2>1 DEF vars, round, IInv, WheelTypeOK, ListInv, RoundInv, Complete
<1> QED
  BY <1>1, <1>2, <1>3, <1>4, <1>5 DEF Next

THEOREM Invariant == Spec => []IInv
<1>1. Init => IInv
  BY InitIInv
<1>2. IInv /\ [Next]_vars => IInv'
  BY NextIInv
<1> QED
  BY <1>1, <1>2, PTL DEF Spec

(* WheelTypeOK for every dictionary: no family has more words than its     *)
(* array has room for, however it grows (family.c:80-91).                  *)
THEOREM TypeCorrect == Spec => []WheelTypeOK
<1>1. IInv => WheelTypeOK
  BY DEF IInv
<1> QED
  BY <1>1, Invariant, PTL

(* NeverContradicts for every dictionary, and every length of the game:    *)
(* the word list holds just the words that fit all answers, and it is not  *)
(* empty (wheel.c:173-212, family.c:110-201).                              *)
THEOREM Consistent == Spec => []NeverContradicts
<1>1. IInv => NeverContradicts
  BY DEF IInv, ListInv, RoundInv, NeverContradicts
<1> QED
  BY <1>1, Invariant, PTL

-----------------------------------------------------------------------------
Dashes == {k \in DOMAIN current_word : current_word[k] = Dash}

LEMMA DashesType ==
  ASSUME WheelTypeOK
  PROVE  IsFiniteSet(Dashes) /\ Cardinality(Dashes) \in Nat
<1>1. Len(current_word) \in Nat /\ DOMAIN current_word = 1..Len(current_word)
  BY DEF WheelTypeOK
<1>2. IsFiniteSet(1..Len(current_word))
  BY <1>1, FS_Interval
<1>3. Dashes \subseteq 1..Len(current_word)
  BY <1>1 DEF Dashes
<1> QED
  BY <1>2, <1>3, FS_Subset, FS_CardinalityType

(* RoundAdvances for every dictionary: an accepted guess that does not end *)
(* the round costs a miss or uncovers a place (wheel.c:173-212).           *)
THEOREM Advances == Spec => RoundAdvances
<1> DEFINE A == phase = "play" /\ phase' = "play" => Remaining' < Remaining
<1>1. IInv /\ [Next]_vars => [A]_vars
  <2> SUFFICES ASSUME IInv, Next, phase = "play", phase' = "play"
               PROVE  Remaining' < Remaining
    OBVIOUS
  <2>1. PICK l \in Letter : Guess(l)
    BY DEF Next, ChooseLength, ChooseGuesses, PlayAgain, Stop
  <2> DEFINE fam == find_biggest_family(generate_families(word_list, l))
  <2>2. PICK w0 \in ToSet(word_list) :
          /\ Fits(w0) /\ fam.signature = Signature(w0, l)
          /\ current_word' = Answered(current_word, fam.signature, l)
          /\ l \notin letters_guessed
    BY <2>1, GuessFacts
  <2>3. guesses' = IF Found(fam.signature, l) THEN guesses ELSE guesses - 1
    BY <2>1 DEF Guess
  <2> HIDE DEF fam
  <2>4. /\ guesses \in Int /\ DOMAIN current_word = 1..Len(current_word)
        /\ IsFiniteSet(Dashes) /\ Cardinality(Dashes) \in Nat
    BY DashesType DEF IInv, WheelTypeOK
  <2>5. w0 \in Word
    BY WordsType DEF IInv, WheelTypeOK
  <2>6. /\ DOMAIN fam.signature = DOMAIN current_word
        /\ \A k \in DOMAIN current_word :
             fam.signature[k] = l => current_word[k] = Dash
    <3>1. DOMAIN w0 = 1..Len(w0) /\ Len(w0) = Len(current_word)
      BY <2>2, <2>5 DEF Fits, Word
    <3>2. /\ DOMAIN fam.signature = DOMAIN w0
          /\ \A k \in DOMAIN w0 : fam.signature[k] = l => w0[k] = l
      BY <2>2, <2>5, SignatureType, WheelAssumption
    <3> QED
      BY <2>2, <2>4, <3>1, <3>2 DEF Fits
  <2>7. l # Dash
    BY WheelAssumption
  <2>8. /\ DOMAIN current_word' = DOMAIN current_word
        /\ \A k \in DOMAIN current_word :
             current_word'[k] = IF fam.signature[k] = l THEN l ELSE current_word[k]
    BY <2>2 DEF Answered
  <2>9. Dashes' \subseteq Dashes
    BY <2>7, <2>8 DEF Dashes
  <2>10. Cardinality(Dashes') \in Nat /\ Cardinality(Dashes') <= Cardinality(Dashes)
    BY <2>4, <2>9, FS_Subset, FS_CardinalityType
  <2>11. CASE Found(fam.signature, l)
    <3>1. Dashes' # Dashes
      BY <2>6, <2>7, <2>8, <2>11 DEF Dashes, Found
    <3>2. Cardinality(Dashes') < Cardinality(Dashes)
      BY <2>4, <2>9, <2>10, <3>1, FS_Subset, FS_CardinalityType
    <3> QED
      BY <2>3, <2>4, <2>10, <2>11, <3>2 DEF Remaining, Dashes
  <2>12. CASE ~Found(fam.signature, l)
    BY <2>3, <2>4, <2>10, <2>12 DEF Remaining, Dashes
  <2> QED
    BY <2>11, <2>12
<1> QED
  BY <1>1, Invariant, PTL DEF Spec, RoundAdvances

-----------------------------------------------------------------------------
(* EvasiveHangman counts as this module does. *)
LEMMA SameCardinality == \A S : Evasive!Cardinality(S) = Cardinality(S)
BY Zenon DEF Cardinality, Evasive!Cardinality

LEMMA SameSignature == \A w, l : Evasive!Signature(w, l) = Signature(w, l)
BY DEF Signature, Evasive!Signature, Dash, Evasive!Dash

LEMMA SameEnd ==
  ASSUME WheelTypeOK
  PROVE  Evasive!Over <=> guesses = 0 \/ Complete(current_word)
BY DEF Evasive!Over, Complete, Dash, Evasive!Dash

(* A guess is an answer of the evasive hangman. *)
LEMMA GuessAnswers ==
  ASSUME IInv, NEW l \in Letter, Guess(l)
  PROVE  Evasive!Answer(l)
<1> DEFINE fam == find_biggest_family(generate_families(word_list, l))
           Class(sig) == {v \in ToSet(word_list) : Signature(v, l) = sig}
           class == ToSet(word_list')
<1>1. PICK w0 \in ToSet(word_list) :
        /\ fam.signature = Signature(w0, l)
        /\ word_list' \in Seq(Word) /\ word_list' # <<>>
        /\ class = Class(fam.signature)
        /\ \A w \in ToSet(word_list) :
             Cardinality(Class(Signature(w, l))) <= Cardinality(class)
        /\ current_word' = Answered(current_word, fam.signature, l)
        /\ letters_guessed' = letters_guessed \cup {l}
        /\ l \notin letters_guessed
        /\ UNCHANGED words
  BY GuessFacts
<1>2. /\ phase = "play"
      /\ guesses' = IF Found(fam.signature, l) THEN guesses ELSE guesses - 1
  BY DEF Guess
<1> HIDE DEF fam
<1>3. ~Evasive!Over
  BY <1>2, SameEnd DEF IInv, RoundInv, WheelTypeOK
<1>4. class \in Evasive!Largest(l)
  <2>1. Evasive!Classes(ToSet(word_list), l) = {Class(Signature(w, l)) : w \in ToSet(word_list)}
    BY SameSignature DEF Evasive!Classes
  <2>2. class \in Evasive!Classes(ToSet(word_list), l)
    BY <1>1, <2>1
  <2>3. ASSUME NEW d \in Evasive!Classes(ToSet(word_list), l)
        PROVE  Evasive!Cardinality(d) <= Evasive!Cardinality(class)
    <3>1. PICK w \in ToSet(word_list) : d = Class(Signature(w, l))
      BY <2>1
    <3> HIDE DEF Class, class
    <3>2. Cardinality(d) <= Cardinality(class)
      BY <1>1, <3>1
    <3> QED
      BY <3>2, SameCardinality
  <2> QED
    BY <2>2, <2>3 DEF Evasive!Largest
<1>5. Evasive!Signature(CHOOSE w \in class : TRUE, l) = fam.signature
  <2>1. word_list'[1] \in class
    BY <1>1 DEF ToSet
  <2> DEFINE v == CHOOSE w \in class : TRUE
  <2>2. v \in class
    <3> HIDE DEF class
    <3> QED
      BY <2>1
  <2>3. \A w \in class : Signature(w, l) = fam.signature
    BY <1>1
  <2> HIDE DEF v
  <2>4. Signature(v, l) = fam.signature
    BY <2>2, <2>3
  <2> QED
    BY <2>4, SameSignature DEF v
<1> HIDE DEF class
<1>6. /\ current_word' = [k \in DOMAIN current_word |->
                            IF fam.signature[k] = l THEN l ELSE current_word[k]]
      /\ guesses' = IF \E k \in DOMAIN fam.signature : fam.signature[k] = l
                    THEN guesses ELSE guesses - 1
  BY <1>1, <1>2 DEF Answered, Found
<1>7. UNCHANGED ToSet(words)
  BY <1>1
<1> DEFINE Asks(sig) ==
      /\ current_word' = [k \in DOMAIN current_word |->
                            IF sig[k] = l THEN l ELSE current_word[k]]
      /\ guesses' = IF \E k \in DOMAIN sig : sig[k] = l THEN guesses ELSE guesses - 1
<1>8. Asks(Evasive!Signature(CHOOSE w \in class : TRUE, l))
  BY <1>5, <1>6
<1>9. \E c \in Evasive!Largest(l) :
        ToSet(word_list') = c /\ Asks(Evasive!Signature(CHOOSE w \in c : TRUE, l))
  <2> HIDE DEF Asks
  <2> QED
    BY <1>4, <1>8 DEF class
<1> QED
  BY <1>1, <1>3, <1>7, <1>9 DEF Evasive!Answer

LEMMA ChooseLengthBegins ==
  ASSUME IInv, ChooseLength
  PROVE  Evasive!Begin
<1>1. PICK w0 \in ToSet(words) :
        /\ word_list' = prune_word_list(words, Len(w0))
        /\ current_word' = [k \in 1..Len(w0) |-> Dash]
  BY DEF ChooseLength
<1>2. /\ phase = "length"
      /\ letters_guessed' = {} /\ guesses' = 0 /\ UNCHANGED words
  BY DEF ChooseLength
<1>3. words \in Seq(Word) /\ IsInjective(words) /\ ToSet(words) \subseteq Word
  BY WordsType DEF IInv
<1>4. ToSet(word_list') = {w \in ToSet(words) : Len(w) = Len(w0)}
  BY <1>1, <1>3, PruneType
<1>5. \A w \in ToSet(words) : DOMAIN w = 1..Len(w) /\ Len(w) \in Nat
  BY <1>3 DEF Word
<1>6. \A w \in ToSet(words) : DOMAIN w = DOMAIN w0 <=> Len(w) = Len(w0)
  <2> SUFFICES ASSUME NEW w \in ToSet(words)
               PROVE  DOMAIN w = DOMAIN w0 <=> Len(w) = Len(w0)
    OBVIOUS
  <2>1. w \in Seq(Letter) /\ w0 \in Seq(Letter)
    BY <1>3 DEF Word
  <2> QED
    BY <2>1
<1>7. ToSet(word_list') = {w \in ToSet(words) : DOMAIN w = DOMAIN w0}
  BY <1>4, <1>6
<1>8. current_word' = [k \in DOMAIN w0 |-> Evasive!Dash]
  BY <1>1, <1>5 DEF Dash, Evasive!Dash
<1>9. Evasive!Over
  BY <1>2, SameEnd DEF IInv, RoundInv
<1>10. UNCHANGED ToSet(words)
  BY <1>2
<1> QED
  BY <1>2, <1>7, <1>8, <1>9, <1>10 DEF Evasive!Begin

(* EvasiveSpec for every dictionary: whatever the families look like, of   *)
(* the classes a guess makes a largest one stays, and board, misses and    *)
(* words follow from it (family.c:110-127, 151-201, wheel.c:173-212).      *)
THEOREM ImplementsEvasive == Spec => EvasiveSpec
<1>1. Init => Evasive!Init
  <2> SUFFICES ASSUME Init PROVE Evasive!Init
    OBVIOUS
  <2>1. ToSet(<<>>) = {}
    BY DEF ToSet
  <2>2. ToSet(words) \in SUBSET Vocabulary
    BY DEF Init, Vocabulary
  <2> QED
    BY <2>1, <2>2 DEF Init, Evasive!Init
<1>2. IInv /\ [Next]_vars => [Evasive!Next]_(Evasive!vars)
  <2> SUFFICES ASSUME IInv, [Next]_vars
               PROVE  Evasive!Next \/ UNCHANGED Evasive!vars
    OBVIOUS
  <2>1. CASE ChooseLength
    BY <2>1, ChooseLengthBegins DEF Evasive!Next
  <2>2. CASE ChooseGuesses
    <3>1. Evasive!Choose
      BY <2>2 DEF ChooseGuesses, round, Evasive!Choose, IInv, RoundInv
    <3> QED
      BY <3>1 DEF Evasive!Next
  <2>3. CASE \E l \in Letter : Guess(l)
    BY <2>3, GuessAnswers DEF Evasive!Next
  <2>4. CASE PlayAgain \/ Stop \/ UNCHANGED vars
    BY <2>4 DEF PlayAgain, Stop, vars, round, Evasive!vars
  <2> QED
    BY <2>1, <2>2, <2>3, <2>4 DEF Next
<1> QED
  BY <1>1, <1>2, Invariant, PTL DEF Spec, EvasiveSpec, Evasive!Spec
=============================================================================
