-------------------------- MODULE SubsequencesProofs --------------------------
(***************************************************************************)
(* What Kept returns, for every sequence.  The proofs are by induction on  *)
(* the sequence; since the provers do not instantiate the library's        *)
(* induction theorems, which take a predicate, induction is stated here of *)
(* sets and proved from the well-foundedness of the finite subsets.  The   *)
(* modules that prove something about a loop of the code rest on the same  *)
(* lemmas.                                                                 *)
(***************************************************************************)
EXTENDS Subsequences, FiniteSetTheorems, SequenceTheorems, TLAPS

(* A set of natural numbers has a least element.                           *)
LEMMA LeastNatural ==
  ASSUME NEW N \in SUBSET Nat, N # {}
  PROVE  \E m \in N : \A k \in N : m <= k
  <1> DEFINE Up == {1..k : k \in N}
  <1>1. Up \subseteq FiniteSubsetsOf(Nat) /\ Up # {}
    <2>1. \A X \in Up : X \in FiniteSubsetsOf(Nat)
      BY FS_Interval DEF FiniteSubsetsOf
    <2> QED
      BY <2>1
  <1>2. PICK X \in Up : \A Y \in Up : <<Y, X>> \notin StrictSubsetOrdering(Nat)
    <2> HIDE DEF Up
    <2> QED
      BY <1>1, FS_StrictSubsetOrderingWellFounded, WFMin
  <1>3. PICK m \in N : X = 1..m
    BY <1>2
  <1>4. ASSUME NEW k \in N, k < m
        PROVE  FALSE
    <2>1. 1..k \in Up /\ 1..k \subseteq 1..m /\ m \in 1..m /\ m \notin 1..k
      BY <1>4
    <2>2. <<1..k, 1..m>> \in StrictSubsetOrdering(Nat)
      BY <2>1, SMT DEF StrictSubsetOrdering
    <2> QED
      BY <1>2, <1>3, <2>1, <2>2
  <1> QED
    BY <1>3, <1>4

LEMMA SetInduction ==
  ASSUME NEW N \in SUBSET Nat, 0 \in N, \A n \in N : n + 1 \in N
  PROVE  N = Nat
  <1> SUFFICES ASSUME Nat \ N # {}
               PROVE  FALSE
    OBVIOUS
  <1>1. PICK m \in Nat \ N : \A k \in Nat \ N : m <= k
    BY LeastNatural
  <1>2. m # 0 /\ m - 1 \in N
    BY <1>1
  <1> QED
    BY <1>2

(* A loop of so many turns has a run, whatever a turn does.                *)
IsRun(f, X, length, base, turn) ==
  /\ f \in [0..length -> X]
  /\ f[0] = base
  /\ \A n \in 1..length : f[n] = turn[<<f[n - 1], n>>]

LEMMA Loop ==
  ASSUME NEW X, NEW base \in X, NEW turn \in [X \X Nat -> X]
  PROVE  \A length \in Nat : \E f : IsRun(f, X, length, base, turn)
  <1> DEFINE N == {length \in Nat : \E f : IsRun(f, X, length, base, turn)}
  <1>1. 0 \in N
    <2>1. IsRun([n \in 0..0 |-> base], X, 0, base, turn)
      BY DEF IsRun
    <2> QED
      BY <2>1
  <1>2. ASSUME NEW length \in N
        PROVE  length + 1 \in N
    <2>1. PICK f : IsRun(f, X, length, base, turn)
      OBVIOUS
    <2> DEFINE last == turn[<<f[length], length + 1>>]
               g == [n \in 0..length + 1 |-> IF n <= length THEN f[n] ELSE last]
    <2>2. length \in Nat /\ f[length] \in X /\ last \in X
      <3>1. f[length] \in X
        BY <2>1 DEF IsRun
      <3>2. <<f[length], length + 1>> \in X \X Nat
        BY <3>1
      <3> QED
        BY <3>1, <3>2
    <2> HIDE DEF last
    <2>3. g \in [0..length + 1 -> X] /\ g[0] = base
      BY <2>1, <2>2 DEF IsRun
    <2>4. ASSUME NEW n \in 1..length + 1
          PROVE  g[n] = turn[<<g[n - 1], n>>]
      <3>0. n \in 0..length + 1 /\ n - 1 \in 0..length + 1
        BY <2>2
      <3>1. CASE n = length + 1
        <4>1. g[n] = last /\ g[n - 1] = f[length]
          BY <2>2, <3>0, <3>1
        <4> QED
          BY <3>1, <4>1 DEF last
      <3>2. CASE n # length + 1
        <4>1. n \in 1..length /\ g[n] = f[n] /\ g[n - 1] = f[n - 1]
          BY <2>2, <3>0, <3>2
        <4> QED
          BY <2>1, <4>1 DEF IsRun
      <3> QED
        BY <3>1, <3>2
    <2> HIDE DEF g
    <2>5. IsRun(g, X, length + 1, base, turn)
      BY <2>3, <2>4 DEF IsRun
    <2> QED
      BY <2>5
  <1>3. N = Nat
    <2> HIDE DEF N
    <2>1. N \in SUBSET Nat
      BY DEF N
    <2> QED
      BY <1>1, <1>2, <2>1, SetInduction
  <1> QED
    BY <1>3

LEMMA AppendFacts ==
  ASSUME NEW T, NEW seq \in Seq(T), NEW e \in T
  PROVE  /\ Len(seq) \in Nat
         /\ DOMAIN seq = 1..Len(seq)
         /\ Append(seq, e) \in Seq(T)
         /\ Len(Append(seq, e)) = Len(seq) + 1
         /\ DOMAIN Append(seq, e) = 1..Len(seq) + 1
         /\ \A n \in 1..Len(seq) : Append(seq, e)[n] = seq[n]
         /\ Append(seq, e)[Len(seq) + 1] = e
  BY LenProperties, AppendProperties

(* A set that has the empty sequence, and with each of its sequences those *)
(* that are longer by one, has them all.                                   *)
LEMMA SequenceInduction ==
  ASSUME NEW T, NEW G \in SUBSET Seq(T), <<>> \in G,
         \A seq \in G, e \in T : Append(seq, e) \in G
  PROVE  G = Seq(T)
  <1> DEFINE N == {n \in Nat : \A seq \in Seq(T) : Len(seq) = n => seq \in G}
  <1>1. 0 \in N
    BY EmptySeq
  <1>2. ASSUME NEW n \in N
        PROVE  n + 1 \in N
    <2> SUFFICES ASSUME NEW seq \in Seq(T), Len(seq) = n + 1
                 PROVE  seq \in G
      OBVIOUS
    <2>0. seq # <<>>
      BY EmptySeq
    <2>1. PICK t \in Seq(T), e \in T : seq = Append(t, e)
      BY <2>0, SequenceEmptyOrAppend
    <2>2. Len(t) = n
      BY <2>1, AppendFacts
    <2> QED
      BY <2>1, <2>2
  <1>3. N = Nat
    <2> HIDE DEF N
    <2>1. N \in SUBSET Nat
      BY DEF N
    <2> QED
      BY <1>1, <1>2, <2>1, SetInduction
  <1> QED
    BY <1>3, LenProperties

LEMMA SetOfAppend ==
  ASSUME NEW T, NEW seq \in Seq(T), NEW e \in T
  PROVE  SetOf(Append(seq, e)) = SetOf(seq) \union {e}
  <1>1. 1..Len(seq) + 1 = (1..Len(seq)) \union {Len(seq) + 1}
    BY AppendFacts
  <1>2. \A x : x \in SetOf(Append(seq, e)) <=> x \in SetOf(seq) \union {e}
    BY <1>1, AppendFacts DEF SetOf
  <1> QED
    BY <1>2
-----------------------------------------------------------------------------
(* The function that defines Kept exists, and there is one only.           *)

Step(f, seq, S, n) ==
  IF n = 0 THEN <<>>
  ELSE IF seq[n] \in S THEN Append(f[n - 1], seq[n])
  ELSE f[n - 1]

IsKept(f, seq, S) ==
  /\ f = [n \in 0..Len(seq) |-> f[n]]
  /\ \A n \in 0..Len(seq) : f[n] = Step(f, seq, S, n)

LEMMA KeptEquation ==
  ASSUME NEW f, NEW seq, NEW S
  PROVE  IsKept(f, seq, S) <=> f = [n \in 0..Len(seq) |-> Step(f, seq, S, n)]
  BY DEF IsKept

LEMMA KeptStep ==
  ASSUME NEW f, NEW seq, NEW S, Len(seq) \in Nat, IsKept(f, seq, S),
         NEW n \in Nat, n < Len(seq)
  PROVE  f[n + 1] = IF seq[n + 1] \in S THEN Append(f[n], seq[n + 1]) ELSE f[n]
  <1>1. n + 1 \in 0..Len(seq) /\ n + 1 # 0 /\ (n + 1) - 1 = n
    OBVIOUS
  <1>2. f[n + 1] = Step(f, seq, S, n + 1)
    BY <1>1 DEF IsKept
  <1> QED
    BY <1>1, <1>2 DEF Step

(* Places that are the same in two sequences are treated the same.         *)
Extends(longer, seq) ==
  /\ Len(seq) \in Nat /\ Len(longer) \in Nat
  /\ Len(seq) <= Len(longer)
  /\ \A n \in 1..Len(seq) : longer[n] = seq[n]

LEMMA KeptAgree ==
  ASSUME NEW S, NEW seq, NEW longer, Extends(longer, seq),
         NEW f, IsKept(f, seq, S), NEW g, IsKept(g, longer, S)
  PROVE  \A n \in 0..Len(seq) : g[n] = f[n]
  <1> DEFINE N == {n \in Nat : n <= Len(seq) => g[n] = f[n]}
  <1>1. 0 \in N
    <2>1. 0 \in 0..Len(seq) /\ 0 \in 0..Len(longer)
      BY DEF Extends
    <2>2. f[0] = Step(f, seq, S, 0) /\ g[0] = Step(g, longer, S, 0)
      BY <2>1 DEF IsKept
    <2> QED
      BY <2>2 DEF Step
  <1>2. ASSUME NEW n \in N
        PROVE  n + 1 \in N
    <2> SUFFICES ASSUME n + 1 <= Len(seq)
                 PROVE  g[n + 1] = f[n + 1]
      OBVIOUS
    <2>1. n \in Nat /\ n < Len(seq) /\ n < Len(longer) /\ g[n] = f[n]
      BY DEF Extends
    <2>2. longer[n + 1] = seq[n + 1]
      BY <2>1 DEF Extends
    <2>3. f[n + 1] = IF seq[n + 1] \in S THEN Append(f[n], seq[n + 1]) ELSE f[n]
      BY <2>1, KeptStep DEF Extends
    <2>4. g[n + 1] = IF longer[n + 1] \in S THEN Append(g[n], longer[n + 1]) ELSE g[n]
      BY <2>1, KeptStep DEF Extends
    <2> QED
      BY <2>1, <2>2, <2>3, <2>4
  <1>3. N = Nat
    <2> HIDE DEF N
    <2>1. N \in SUBSET Nat
      BY DEF N
    <2> QED
      BY <1>1, <1>2, <2>1, SetInduction
  <1> QED
    BY <1>3 DEF Extends

LEMMA KeptExists ==
  ASSUME NEW T, NEW S
  PROVE  \A seq \in Seq(T) : \E f : IsKept(f, seq, S)
  <1> DEFINE G == {seq \in Seq(T) : \E f : IsKept(f, seq, S)}
  <1>1. <<>> \in G
    <2>1. IsKept([n \in 0..0 |-> <<>>], <<>>, S)
      BY DEF IsKept, Step
    <2> QED
      BY <2>1, EmptySeq
  <1>2. ASSUME NEW seq \in G, NEW e \in T
        PROVE  Append(seq, e) \in G
    <2>1. PICK f : IsKept(f, seq, S)
      OBVIOUS
    <2> DEFINE g == [n \in 0..Len(seq) + 1 |->
                       IF n <= Len(seq) THEN f[n]
                       ELSE IF e \in S THEN Append(f[Len(seq)], e)
                       ELSE f[Len(seq)]]
    <2>2. ASSUME NEW n \in 0..Len(seq) + 1
          PROVE  g[n] = Step(g, Append(seq, e), S, n)
      <3>1. CASE n = Len(seq) + 1
        BY <3>1, AppendFacts DEF Step
      <3>2. CASE n # Len(seq) + 1
        <4>1. n \in 0..Len(seq) /\ g[n] = f[n] /\ (n # 0 => g[n - 1] = f[n - 1])
          BY <3>2, LenProperties
        <4>2. n # 0 => Append(seq, e)[n] = seq[n]
          BY <4>1, AppendFacts
        <4> HIDE DEF g
        <4> QED
          BY <2>1, <4>1, <4>2 DEF IsKept, Step
      <3> QED
        BY <3>1, <3>2
    <2>3. IsKept(g, Append(seq, e), S)
      BY <2>2, AppendFacts DEF IsKept
    <2> QED
      BY <2>3, AppendFacts
  <1>3. G = Seq(T)
    <2> HIDE DEF G
    <2>1. G \in SUBSET Seq(T)
      BY DEF G
    <2> QED
      BY <1>1, <1>2, <2>1, SequenceInduction
  <1> QED
    BY <1>3

LEMMA KeptIsLast ==
  ASSUME NEW T, NEW seq \in Seq(T), NEW S, NEW f, IsKept(f, seq, S)
  PROVE  Kept(seq, S) = f[Len(seq)]
  <1> DEFINE chosen == CHOOSE g : g = [n \in 0..Len(seq) |-> Step(g, seq, S, n)]
  <1>1. Kept(seq, S) = chosen[Len(seq)]
    BY DEF Kept, Step
  <1>2. IsKept(chosen, seq, S)
    BY KeptEquation
  <1> HIDE DEF chosen
  <1>3. Extends(seq, seq) /\ Len(seq) \in 0..Len(seq)
    BY LenProperties DEF Extends
  <1> QED
    BY <1>1, <1>2, <1>3, KeptAgree
-----------------------------------------------------------------------------
(* Kept, element by element.                                               *)
LEMMA KeptEmpty == \A S : Kept(<<>>, S) = <<>>
  <1> TAKE S
  <1>1. IsKept([n \in 0..0 |-> <<>>], <<>>, S)
    BY DEF IsKept, Step
  <1>2. <<>> \in Seq({})
    BY EmptySeq
  <1> QED
    BY <1>1, <1>2, KeptIsLast

LEMMA KeptAppend ==
  ASSUME NEW T, NEW seq \in Seq(T), NEW e \in T, NEW S
  PROVE  Kept(Append(seq, e), S) =
           IF e \in S THEN Append(Kept(seq, S), e) ELSE Kept(seq, S)
  <1> DEFINE longer == Append(seq, e)
  <1>1. /\ Len(seq) \in Nat /\ longer \in Seq(T) /\ Len(longer) = Len(seq) + 1
        /\ longer[Len(seq) + 1] = e
        /\ \A n \in 1..Len(seq) : longer[n] = seq[n]
    BY AppendFacts
  <1> HIDE DEF longer
  <1>2. PICK f : IsKept(f, seq, S)
    BY KeptExists
  <1>3. PICK g : IsKept(g, longer, S)
    BY <1>1, KeptExists
  <1>4. g[Len(seq)] = f[Len(seq)]
    <2>1. Extends(longer, seq) /\ Len(seq) \in 0..Len(seq)
      BY <1>1 DEF Extends
    <2> QED
      BY <1>2, <1>3, <2>1, KeptAgree
  <1>5. Kept(seq, S) = f[Len(seq)] /\ Kept(longer, S) = g[Len(seq) + 1]
    BY <1>1, <1>2, <1>3, KeptIsLast
  <1>6. g[Len(seq) + 1] = IF e \in S THEN Append(g[Len(seq)], e) ELSE g[Len(seq)]
    BY <1>1, <1>3, KeptStep
  <1> QED
    BY <1>4, <1>5, <1>6 DEF longer

LEMMA KeptType ==
  ASSUME NEW T, NEW S
  PROVE  \A seq \in Seq(T) : Kept(seq, S) \in Seq(T)
  <1> DEFINE G == {seq \in Seq(T) : Kept(seq, S) \in Seq(T)}
  <1>1. <<>> \in G
    BY KeptEmpty, EmptySeq
  <1>2. ASSUME NEW seq \in G, NEW e \in T
        PROVE  Append(seq, e) \in G
    <2>1. Append(seq, e) \in Seq(T) /\ Append(Kept(seq, S), e) \in Seq(T)
      BY AppendFacts
    <2> QED
      BY <2>1, KeptAppend
  <1>3. G = Seq(T)
    <2> HIDE DEF G
    <2>1. G \in SUBSET Seq(T)
      BY DEF G
    <2> QED
      BY <1>1, <1>2, <2>1, SequenceInduction
  <1> QED
    BY <1>3

(* Nothing of S is lost and nothing else is left.                          *)
THEOREM KeptElements ==
  ASSUME NEW T, NEW S
  PROVE  \A seq \in Seq(T) : SetOf(Kept(seq, S)) = SetOf(seq) \intersect S
  <1> DEFINE G == {seq \in Seq(T) : SetOf(Kept(seq, S)) = SetOf(seq) \intersect S}
  <1>1. <<>> \in G
    <2>1. SetOf(<<>>) = {}
      BY DEF SetOf
    <2> QED
      BY <2>1, KeptEmpty, EmptySeq
  <1>2. ASSUME NEW seq \in G, NEW e \in T
        PROVE  Append(seq, e) \in G
    <2>1. /\ SetOf(Append(seq, e)) = SetOf(seq) \union {e}
          /\ SetOf(Append(Kept(seq, S), e)) = SetOf(Kept(seq, S)) \union {e}
      BY SetOfAppend, KeptType
    <2>2. Append(seq, e) \in Seq(T)
      BY AppendFacts
    <2>3. SetOf(Kept(seq, S)) = SetOf(seq) \intersect S
      OBVIOUS
    <2>4. SetOf(Kept(Append(seq, e), S)) = SetOf(Append(seq, e)) \intersect S
      <3>1. CASE e \in S
        <4>1. Kept(Append(seq, e), S) = Append(Kept(seq, S), e)
          BY <3>1, KeptAppend
        <4> QED
          BY <2>1, <2>3, <3>1, <4>1
      <3>2. CASE e \notin S
        <4>1. Kept(Append(seq, e), S) = Kept(seq, S)
          BY <3>2, KeptAppend
        <4> QED
          BY <2>1, <2>3, <3>2, <4>1
      <3> QED
        BY <3>1, <3>2
    <2> QED
      BY <2>2, <2>4
  <1>3. G = Seq(T)
    <2> HIDE DEF G
    <2>1. G \in SUBSET Seq(T)
      BY DEF G
    <2> QED
      BY <1>1, <1>2, <2>1, SequenceInduction
  <1> QED
    BY <1>3

(* Filtering twice is filtering once: what is left of S is in the order it *)
(* was in, whatever else was taken out before.                             *)
THEOREM KeptTwice ==
  ASSUME NEW T, NEW S, NEW U
  PROVE  \A seq \in Seq(T) : Kept(Kept(seq, S), U) = Kept(seq, S \intersect U)
  <1> DEFINE G == {seq \in Seq(T) : Kept(Kept(seq, S), U) = Kept(seq, S \intersect U)}
  <1>1. <<>> \in G
    BY KeptEmpty, EmptySeq
  <1>2. ASSUME NEW seq \in G, NEW e \in T
        PROVE  Append(seq, e) \in G
    <2>1. seq \in Seq(T) /\ Append(seq, e) \in Seq(T) /\ Kept(seq, S) \in Seq(T)
      BY AppendFacts, KeptType
    <2>0. Kept(Kept(seq, S), U) = Kept(seq, S \intersect U)
      OBVIOUS
    <2> HIDE DEF G
    <2>2. Kept(Append(Kept(seq, S), e), U) =
            IF e \in U THEN Append(Kept(Kept(seq, S), U), e) ELSE Kept(Kept(seq, S), U)
      BY <2>1, KeptAppend
    <2>3. Kept(Append(seq, e), S \intersect U) =
            IF e \in S \intersect U THEN Append(Kept(seq, S \intersect U), e)
                                    ELSE Kept(seq, S \intersect U)
      BY <2>1, KeptAppend
    <2>4. Kept(Append(seq, e), S) =
            IF e \in S THEN Append(Kept(seq, S), e) ELSE Kept(seq, S)
      BY <2>1, KeptAppend
    <2>5. Kept(Kept(Append(seq, e), S), U) = Kept(Append(seq, e), S \intersect U)
      <3>1. CASE e \in S
        <4>1. Kept(Kept(Append(seq, e), S), U) = Kept(Append(Kept(seq, S), e), U)
          BY <2>4, <3>1
        <4>2. CASE e \in U
          BY <2>0, <2>2, <2>3, <3>1, <4>1, <4>2
        <4>3. CASE e \notin U
          BY <2>0, <2>2, <2>3, <4>1, <4>3
        <4> QED
          BY <4>2, <4>3
      <3>2. CASE e \notin S
        BY <2>0, <2>3, <2>4, <3>2
      <3> QED
        BY <3>1, <3>2
    <2> QED
      BY <2>1, <2>5 DEF G
  <1>3. G = Seq(T)
    <2> HIDE DEF G
    <2>1. G \in SUBSET Seq(T)
      BY DEF G
    <2> QED
      BY <1>1, <1>2, <2>1, SequenceInduction
  <1> QED
    BY <1>3
=============================================================================
