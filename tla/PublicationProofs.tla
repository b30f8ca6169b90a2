-------------------------- MODULE PublicationProofs --------------------------
(***************************************************************************)
(* What the app reads of a payload, for every host and every offer: the    *)
(* loops of hostinfo.rs and payload.rs by induction on their turns, decode *)
(* after encode field by field, and the properties of Publication.         *)
(***************************************************************************)
EXTENDS Publication, SubsequencesProofs

(* Concatenation and cuts, as the proofs below use them.                   *)
LEMMA ConcatFacts ==
  ASSUME NEW T, NEW s \in Seq(T), NEW t \in Seq(T)
  PROVE  /\ s \o t \in Seq(T)
         /\ Len(s) \in Nat /\ Len(t) \in Nat
         /\ Len(s \o t) = Len(s) + Len(t)
         /\ \A i \in 1..Len(s) : (s \o t)[i] = s[i]
         /\ \A i \in 1..Len(t) : (s \o t)[Len(s) + i] = t[i]
  <1>1. Len(s) \in Nat /\ Len(t) \in Nat
    BY LenProperties
  <1>2. /\ s \o t \in Seq(T)
        /\ Len(s \o t) = Len(s) + Len(t)
        /\ \A i \in 1..Len(s) + Len(t) : (s \o t)[i] =
             IF i <= Len(s) THEN s[i] ELSE t[i - Len(s)]
    BY ConcatProperties
  <1>3. ASSUME NEW i \in 1..Len(t)
        PROVE  (s \o t)[Len(s) + i] = t[i]
    <2>1. Len(s) + i \in 1..Len(s) + Len(t) /\ ~(Len(s) + i <= Len(s))
          /\ (Len(s) + i) - Len(s) = i
      BY <1>1
    <2> QED
      BY <1>2, <2>1
  <1>4. ASSUME NEW i \in 1..Len(s)
        PROVE  (s \o t)[i] = s[i]
    <2>1. i \in 1..Len(s) + Len(t) /\ i <= Len(s)
      BY <1>1
    <2> QED
      BY <1>2, <2>1
  <1> QED
    BY <1>1, <1>2, <1>3, <1>4

LEMMA PrefixFacts ==
  ASSUME NEW T, NEW s \in Seq(T), NEW m \in 0..Len(s)
  PROVE  /\ SubSeq(s, 1, m) \in Seq(T)
         /\ Len(SubSeq(s, 1, m)) = m
         /\ DOMAIN SubSeq(s, 1, m) = 1..m
         /\ \A i \in 1..m : SubSeq(s, 1, m)[i] = s[i]
  <1>1. Len(s) \in Nat /\ \A i \in 1..m : s[i] \in T
    BY LenProperties, ElementOfSeq
  <1>2. /\ SubSeq(s, 1, m) \in Seq(T)
        /\ Len(SubSeq(s, 1, m)) = IF 1 <= m THEN m - 1 + 1 ELSE 0
        /\ \A i \in 1..m - 1 + 1 : SubSeq(s, 1, m)[i] = s[1 + i - 1]
    BY <1>1, SubSeqProperties
  <1>3. Len(SubSeq(s, 1, m)) = m
    BY <1>1, <1>2
  <1>4. \A i \in 1..m : i \in 1..m - 1 + 1 /\ 1 + i - 1 = i
    BY <1>1
  <1>5. DOMAIN SubSeq(s, 1, m) = 1..Len(SubSeq(s, 1, m))
    BY <1>2, LenProperties
  <1> QED
    BY <1>2, <1>3, <1>4, <1>5
-----------------------------------------------------------------------------
(* FlattenSeq, which appends the elements one after the other.             *)

FlatTurn(f, seqs, i) == IF i = 1 THEN seqs[i] ELSE f[i - 1] \o seqs[i]

IsFlat(f, seqs) == f = [i \in 1..Len(seqs) |-> FlatTurn(f, seqs, i)]

LEMMA FlatExists ==
  ASSUME NEW T
  PROVE  \A seqs \in Seq(Seq(T)) : \E f : IsFlat(f, seqs)
  <1> DEFINE G == {seqs \in Seq(Seq(T)) : \E f : IsFlat(f, seqs)}
  <1>1. <<>> \in G
    <2>1. IsFlat([i \in 1..0 |-> <<>>], <<>>)
      BY DEF IsFlat
    <2> QED
      BY <2>1, EmptySeq
  <1>2. ASSUME NEW seqs \in G, NEW e \in Seq(T)
        PROVE  Append(seqs, e) \in G
    <2>1. PICK f : IsFlat(f, seqs)
      OBVIOUS
    <2> DEFINE longer == Append(seqs, e)
               len == Len(seqs)
               last == IF len = 0 THEN e ELSE f[len] \o e
               g == [i \in 1..len + 1 |-> IF i = len + 1 THEN last ELSE f[i]]
    <2>2. /\ len \in Nat /\ longer \in Seq(Seq(T)) /\ Len(longer) = len + 1
          /\ longer[len + 1] = e
          /\ \A i \in 1..len : longer[i] = seqs[i]
      BY AppendFacts
    <2>3. \A i \in 1..len : f[i] = FlatTurn(f, seqs, i)
      BY <2>1 DEF IsFlat
    <2> HIDE DEF longer, len, last
    <2>4. ASSUME NEW i \in 1..len + 1
          PROVE  g[i] = FlatTurn(g, longer, i)
      <3>1. CASE i = len + 1
        <4>1. g[i] = last /\ longer[i] = e /\ (len = 0 <=> i = 1) /\ i - 1 = len
          BY <2>2, <3>1
        <4>2. len # 0 => g[i - 1] = f[len]
          BY <2>2, <4>1
        <4> QED
          BY <4>1, <4>2 DEF last, FlatTurn
      <3>2. CASE i # len + 1
        <4>1. i \in 1..len /\ g[i] = f[i] /\ longer[i] = seqs[i]
          BY <2>2, <3>2
        <4>2. i # 1 => i - 1 \in 1..len + 1 /\ i - 1 # len + 1
          BY <2>2, <4>1
        <4>3. i # 1 => g[i - 1] = f[i - 1]
          BY <4>2
        <4> QED
          BY <2>3, <4>1, <4>3 DEF FlatTurn
      <3> QED
        BY <3>1, <3>2
    <2>5. g = [i \in 1..len + 1 |-> g[i]]
      OBVIOUS
    <2> HIDE DEF g
    <2>6. g = [i \in 1..len + 1 |-> FlatTurn(g, longer, i)]
      BY <2>4, <2>5
    <2>7. IsFlat(g, longer)
      BY <2>2, <2>6 DEF IsFlat
    <2> QED
      BY <2>2, <2>7 DEF longer
  <1>3. G = Seq(Seq(T))
    <2> HIDE DEF G
    <2>1. G \in SUBSET Seq(Seq(T))
      BY DEF G
    <2> QED
      BY <1>1, <1>2, <2>1, SequenceInduction
  <1> QED
    BY <1>3

LEMMA FlatIsLast ==
  ASSUME NEW T, NEW seqs \in Seq(Seq(T)), seqs # <<>>
  PROVE  \E f : IsFlat(f, seqs) /\ FlattenSeq(seqs) = f[Len(seqs)]
  <1> DEFINE f == CHOOSE g : g = [i \in 1..Len(seqs) |-> FlatTurn(g, seqs, i)]
  <1>1. Len(seqs) # 0
    BY EmptySeq
  <1>2. FlattenSeq(seqs) = f[Len(seqs)]
    BY <1>1 DEF FlattenSeq, FlatTurn
  <1>3. \E g : g = [i \in 1..Len(seqs) |-> FlatTurn(g, seqs, i)]
    BY FlatExists DEF IsFlat
  <1>4. f = [i \in 1..Len(seqs) |-> FlatTurn(f, seqs, i)]
    BY <1>3
  <1> HIDE DEF f
  <1>5. IsFlat(f, seqs)
    BY <1>4 DEF IsFlat
  <1> QED
    BY <1>2, <1>5

LEMMA FlattenEmpty == FlattenSeq(<<>>) = <<>>
  BY EmptySeq DEF FlattenSeq

LEMMA FlattenAppend ==
  ASSUME NEW T, NEW seqs \in Seq(Seq(T)), NEW e \in Seq(T)
  PROVE  FlattenSeq(Append(seqs, e)) = FlattenSeq(seqs) \o e
  <1> DEFINE longer == Append(seqs, e)
             len == Len(seqs)
  <1>1. /\ len \in Nat /\ longer \in Seq(Seq(T)) /\ Len(longer) = len + 1
        /\ longer[len + 1] = e
        /\ \A i \in 1..len : longer[i] = seqs[i]
    BY AppendFacts
  <1>2. longer # <<>>
    BY AppendProperties
  <1> HIDE DEF longer
  <1>3. PICK g : IsFlat(g, longer) /\ FlattenSeq(longer) = g[len + 1]
    BY <1>1, <1>2, FlatIsLast
  <1>4. \A i \in 1..len + 1 : g[i] = FlatTurn(g, longer, i)
    BY <1>1, <1>3 DEF IsFlat
  <1>5. CASE seqs = <<>>
    <2>1. len = 0
      BY <1>5, EmptySeq
    <2>2. FlattenSeq(longer) = e
      BY <1>1, <1>3, <1>4, <2>1 DEF FlatTurn
    <2>3. FlattenSeq(seqs) = <<>>
      BY <1>5, FlattenEmpty
    <2> QED
      BY <2>2, <2>3, ConcatEmptySeq DEF longer
  <1>6. CASE seqs # <<>>
    <2>1. PICK f : IsFlat(f, seqs) /\ FlattenSeq(seqs) = f[len]
      BY <1>6, FlatIsLast
    <2>2. \A i \in 1..len : f[i] = FlatTurn(f, seqs, i)
      BY <2>1 DEF IsFlat
    <2>3. len > 0
      BY <1>1, <1>6, EmptySeq
    <2> HIDE DEF len
    <2> DEFINE N == {n \in Nat : n + 1 \in 1..len => g[n + 1] = f[n + 1]}
    <2>4. 0 \in N
      <3>1. 1 \in 1..len /\ 1 \in 1..len + 1
        BY <1>1, <2>3
      <3> QED
        BY <1>1, <1>4, <2>2, <3>1 DEF FlatTurn
    <2>5. ASSUME NEW n \in N
          PROVE  n + 1 \in N
      <3> SUFFICES ASSUME (n + 1) + 1 \in 1..len
                   PROVE  g[(n + 1) + 1] = f[(n + 1) + 1]
        OBVIOUS
      <3>1. n + 1 \in 1..len /\ (n + 1) + 1 # 1 /\ ((n + 1) + 1) - 1 = n + 1
            /\ (n + 1) + 1 \in 1..len + 1
        BY <1>1
      <3>2. g[n + 1] = f[n + 1]
        BY <3>1
      <3> QED
        BY <1>1, <1>4, <2>2, <3>1, <3>2 DEF FlatTurn
    <2>6. N = Nat
      <3> HIDE DEF N
      <3>1. N \in SUBSET Nat
        BY DEF N
      <3> QED
        BY <2>4, <2>5, <3>1, SetInduction
    <2>7. g[len] = f[len]
      <3> HIDE DEF N
      <3>1. len - 1 \in Nat /\ (len - 1) + 1 = len /\ len \in 1..len
        BY <1>1, <2>3
      <3>2. len - 1 \in N
        BY <2>6, <3>1
      <3> QED
        BY <3>1, <3>2 DEF N
    <2>8. g[len + 1] = g[len] \o e
      <3>1. len + 1 \in 1..len + 1 /\ len + 1 # 1 /\ (len + 1) - 1 = len
        BY <1>1, <2>3
      <3> QED
        BY <1>1, <1>4, <3>1 DEF FlatTurn
    <2> QED
      BY <1>3, <2>1, <2>7, <2>8 DEF longer
  <1> QED
    BY <1>5, <1>6

LEMMA FlattenType ==
  ASSUME NEW T
  PROVE  \A seqs \in Seq(Seq(T)) : FlattenSeq(seqs) \in Seq(T)
  <1> DEFINE G == {seqs \in Seq(Seq(T)) : FlattenSeq(seqs) \in Seq(T)}
  <1>1. <<>> \in G
    BY FlattenEmpty, EmptySeq
  <1>2. ASSUME NEW seqs \in G, NEW e \in Seq(T)
        PROVE  Append(seqs, e) \in G
    <2>1. Append(seqs, e) \in Seq(Seq(T))
      BY AppendFacts
    <2>2. FlattenSeq(seqs) \o e \in Seq(T)
      BY ConcatProperties
    <2> QED
      BY <2>1, <2>2, FlattenAppend
  <1>3. G = Seq(Seq(T))
    <2> HIDE DEF G
    <2>1. G \in SUBSET Seq(Seq(T))
      BY DEF G
    <2> QED
      BY <1>1, <1>2, <2>1, SequenceInduction
  <1> QED
    BY <1>3
-----------------------------------------------------------------------------
(* The addresses: ranked, without repetitions, and as many as are listed.  *)

Sorted(addrs) ==
  \A i, j \in 1..Len(addrs) : i <= j => Rank(addrs[i]) <= Rank(addrs[j])

LEMMA RankType == \A addr : Rank(addr) \in 1..3
  BY DEF Rank

LEMMA ConcatSorted ==
  ASSUME NEW s \in Seq(IpAddress), Sorted(s), NEW t \in Seq(IpAddress), Sorted(t),
         \A i \in 1..Len(s), j \in 1..Len(t) : Rank(s[i]) <= Rank(t[j])
  PROVE  Sorted(s \o t)
  <1> DEFINE both == s \o t
  <1>1. /\ Len(s) \in Nat /\ Len(t) \in Nat /\ Len(both) = Len(s) + Len(t)
        /\ \A i \in 1..Len(s) : both[i] = s[i]
        /\ \A i \in 1..Len(t) : both[Len(s) + i] = t[i]
    BY ConcatFacts
  <1> HIDE DEF both
  <1>2. ASSUME NEW i \in 1..Len(both), NEW j \in 1..Len(both), i <= j
        PROVE  Rank(both[i]) <= Rank(both[j])
    <2>1. CASE j <= Len(s)
      <3>1. i \in 1..Len(s) /\ j \in 1..Len(s)
        BY <1>1, <1>2, <2>1
      <3> QED
        BY <1>1, <1>2, <3>1 DEF Sorted
    <2>2. CASE i <= Len(s) /\ j > Len(s)
      <3>1. i \in 1..Len(s) /\ j - Len(s) \in 1..Len(t) /\ Len(s) + (j - Len(s)) = j
        BY <1>1, <1>2, <2>2
      <3>2. both[i] = s[i] /\ both[j] = t[j - Len(s)]
        BY <1>1, <3>1
      <3> QED
        BY <3>1, <3>2
    <2>3. CASE i > Len(s)
      <3>1. /\ i - Len(s) \in 1..Len(t) /\ Len(s) + (i - Len(s)) = i
            /\ j - Len(s) \in 1..Len(t) /\ Len(s) + (j - Len(s)) = j
            /\ i - Len(s) <= j - Len(s)
        BY <1>1, <1>2, <2>3
      <3>2. both[i] = t[i - Len(s)] /\ both[j] = t[j - Len(s)]
        BY <1>1, <3>1
      <3> QED
        BY <3>1, <3>2 DEF Sorted
    <2> QED
      BY <1>1, <2>1, <2>2, <2>3
  <1> QED
    BY <1>2 DEF Sorted, both

LEMMA AppendSorted ==
  ASSUME NEW s \in Seq(IpAddress), Sorted(s), NEW e \in IpAddress,
         \A x \in SetOf(s) : Rank(x) <= Rank(e)
  PROVE  Sorted(Append(s, e))
  <1> DEFINE longer == Append(s, e)
  <1>1. /\ Len(s) \in Nat /\ DOMAIN s = 1..Len(s) /\ Len(longer) = Len(s) + 1
        /\ longer[Len(s) + 1] = e
        /\ \A i \in 1..Len(s) : longer[i] = s[i]
    BY AppendFacts
  <1> HIDE DEF longer
  <1>2. ASSUME NEW i \in 1..Len(longer), NEW j \in 1..Len(longer), i <= j
        PROVE  Rank(longer[i]) <= Rank(longer[j])
    <2>1. CASE j <= Len(s)
      <3>1. i \in 1..Len(s) /\ j \in 1..Len(s)
        BY <1>1, <1>2, <2>1
      <3> QED
        BY <1>1, <1>2, <3>1 DEF Sorted
    <2>2. CASE i <= Len(s) /\ j = Len(s) + 1
      <3>1. i \in 1..Len(s)
        BY <1>1, <2>2
      <3>2. longer[i] \in SetOf(s)
        BY <1>1, <3>1 DEF SetOf
      <3> QED
        BY <1>1, <2>2, <3>2
    <2>3. CASE i = Len(s) + 1
      <3>1. j = i
        BY <1>1, <1>2, <2>3
      <3> QED
        BY <3>1, RankType
    <2> QED
      BY <1>1, <2>1, <2>2, <2>3
  <1> QED
    BY <1>2 DEF Sorted, longer

LEMMA SetOfConcat ==
  ASSUME NEW T, NEW s \in Seq(T), NEW t \in Seq(T)
  PROVE  SetOf(s \o t) = SetOf(s) \union SetOf(t)
  <1>1. \A seq : SetOf(seq) = Range(seq)
    BY DEF SetOf, Range
  <1> QED
    BY <1>1, RangeConcatenation

LEMMA KeptFacts ==
  ASSUME NEW T, NEW seq \in Seq(T), NEW S
  PROVE  Kept(seq, S) \in Seq(T) /\ SetOf(Kept(seq, S)) = SetOf(seq) \intersect S
  BY KeptType, KeptElements

LEMMA ElementsOfSeq ==
  ASSUME NEW T, NEW seq \in Seq(T)
  PROVE  /\ SetOf(seq) \subseteq T
         /\ \A i \in 1..Len(seq) : seq[i] \in SetOf(seq)
         /\ \A x \in SetOf(seq) : \E i \in 1..Len(seq) : x = seq[i]
  BY LenProperties, ElementOfSeq DEF SetOf

OfRank(r) == {addr \in IpAddress : Rank(addr) = r}

LEMMA KeptOfRank ==
  ASSUME NEW addrs \in Seq(IpAddress), NEW r
  PROVE  /\ Kept(addrs, OfRank(r)) \in Seq(IpAddress)
         /\ SetOf(Kept(addrs, OfRank(r))) = SetOf(addrs) \intersect OfRank(r)
         /\ \A i \in 1..Len(Kept(addrs, OfRank(r))) : Rank(Kept(addrs, OfRank(r))[i]) = r
  <1> DEFINE kept == Kept(addrs, OfRank(r))
  <1>1. kept \in Seq(IpAddress) /\ SetOf(kept) = SetOf(addrs) \intersect OfRank(r)
    BY KeptFacts
  <1> HIDE DEF kept
  <1>2. \A i \in 1..Len(kept) : kept[i] \in OfRank(r)
    BY <1>1, ElementsOfSeq
  <1>3. \A i \in 1..Len(kept) : Rank(kept[i]) = r
    BY <1>2 DEF OfRank
  <1> QED
    BY <1>1, <1>3 DEF kept

LEMMA RankedFacts ==
  ASSUME NEW addrs \in Seq(IpAddress)
  PROVE  /\ Ranked(addrs) \in Seq(IpAddress)
         /\ Sorted(Ranked(addrs))
         /\ SetOf(Ranked(addrs)) = SetOf(addrs)
  <1> DEFINE one == Kept(addrs, OfRank(1))
             two == Kept(addrs, OfRank(2))
             three == Kept(addrs, OfRank(3))
             fours == one \o two
             all == fours \o three
  <1>1. /\ one \in Seq(IpAddress) /\ SetOf(one) = SetOf(addrs) \intersect OfRank(1)
        /\ \A i \in 1..Len(one) : Rank(one[i]) = 1
    BY KeptOfRank
  <1>2. /\ two \in Seq(IpAddress) /\ SetOf(two) = SetOf(addrs) \intersect OfRank(2)
        /\ \A i \in 1..Len(two) : Rank(two[i]) = 2
    BY KeptOfRank
  <1>3. /\ three \in Seq(IpAddress) /\ SetOf(three) = SetOf(addrs) \intersect OfRank(3)
        /\ \A i \in 1..Len(three) : Rank(three[i]) = 3
    BY KeptOfRank
  <1>4. Ranked(addrs) = all
    BY DEF Ranked, OfRank
  <1> HIDE DEF one, two, three
  <1>5. Sorted(one) /\ Sorted(two) /\ Sorted(three)
    BY <1>1, <1>2, <1>3 DEF Sorted
  <1>6. fours \in Seq(IpAddress) /\ SetOf(fours) = SetOf(one) \union SetOf(two)
    BY <1>1, <1>2, ConcatFacts, SetOfConcat
  <1>7. Sorted(fours)
    BY <1>1, <1>2, <1>5, ConcatSorted
  <1>8. \A i \in 1..Len(fours) : Rank(fours[i]) <= 2
    <2>1. ASSUME NEW i \in 1..Len(fours)
          PROVE  Rank(fours[i]) <= 2
      <3>1. fours[i] \in SetOf(fours)
        BY <1>6, ElementsOfSeq
      <3>2. fours[i] \in OfRank(1) \union OfRank(2)
        BY <1>1, <1>2, <1>6, <3>1
      <3> QED
        BY <3>2 DEF OfRank
    <2> QED
      BY <2>1
  <1> HIDE DEF fours
  <1>9. all \in Seq(IpAddress) /\ SetOf(all) = SetOf(fours) \union SetOf(three)
    BY <1>3, <1>6, ConcatFacts, SetOfConcat
  <1>10. Sorted(all)
    <2>1. \A i \in 1..Len(fours), j \in 1..Len(three) : Rank(fours[i]) <= Rank(three[j])
      <3>1. ASSUME NEW i \in 1..Len(fours), NEW j \in 1..Len(three)
            PROVE  Rank(fours[i]) <= Rank(three[j])
        <4>1. Rank(fours[i]) <= 2 /\ Rank(three[j]) = 3 /\ Rank(fours[i]) \in 1..3
          BY <1>3, <1>8, RankType
        <4> QED
          BY <4>1
      <3> QED
        BY <3>1
    <2> QED
      BY <1>3, <1>5, <1>6, <1>7, <2>1, ConcatSorted
  <1> HIDE DEF all
  <1>11. SetOf(addrs) \subseteq OfRank(1) \union OfRank(2) \union OfRank(3)
    <2>1. SetOf(addrs) \subseteq IpAddress
      BY ElementsOfSeq
    <2>2. \A x \in IpAddress : Rank(x) = 1 \/ Rank(x) = 2 \/ Rank(x) = 3
      BY RankType
    <2> QED
      BY <2>1, <2>2 DEF OfRank
  <1>12. SetOf(all) = SetOf(addrs)
    BY <1>1, <1>2, <1>3, <1>6, <1>9, <1>11
  <1> QED
    BY <1>4, <1>9, <1>10, <1>12

(* Dedup, turn by turn.                                                    *)
DedupTurn(kept, addrs, n) ==
  IF n > 1 /\ addrs[n] = addrs[n - 1] THEN kept ELSE Append(kept, addrs[n])

DedupStep(f, addrs, n) == IF n = 0 THEN <<>> ELSE DedupTurn(f[n - 1], addrs, n)

LEMMA DedupExists ==
  ASSUME NEW T, NEW addrs \in Seq(T)
  PROVE  \E f : f = [n \in 0..Len(addrs) |-> DedupStep(f, addrs, n)]
  <1> DEFINE X == Seq(T)
             turn == [p \in X \X Nat |->
                        IF p[2] \in 1..Len(addrs) THEN DedupTurn(p[1], addrs, p[2]) ELSE p[1]]
  <1>1. Len(addrs) \in Nat /\ \A n \in 1..Len(addrs) : addrs[n] \in T
    BY LenProperties, ElementOfSeq
  <1>2. turn \in [X \X Nat -> X]
    <2>1. ASSUME NEW kept \in X, NEW n \in 1..Len(addrs)
          PROVE  DedupTurn(kept, addrs, n) \in X
      <3>1. addrs[n] \in T
        BY <1>1
      <3>2. Append(kept, addrs[n]) \in X
        BY <3>1, AppendFacts
      <3> QED
        BY <3>2 DEF DedupTurn
    <2> HIDE DEF X
    <2> QED
      BY <2>1
  <1>3. <<>> \in X
    BY EmptySeq
  <1> HIDE DEF turn, X
  <1>4. PICK f : IsRun(f, X, Len(addrs), <<>>, turn)
    BY <1>1, <1>2, <1>3, Loop
  <1>5. f = [n \in 0..Len(addrs) |-> f[n]] /\ f[0] = <<>>
    BY <1>4 DEF IsRun
  <1>6. ASSUME NEW n \in 0..Len(addrs)
        PROVE  f[n] = DedupStep(f, addrs, n)
    <2>1. CASE n = 0
      BY <1>5, <2>1 DEF DedupStep
    <2>2. CASE n # 0
      <3>1. n \in 1..Len(addrs) /\ n \in Nat /\ n - 1 \in 0..Len(addrs)
        BY <1>1, <2>2
      <3>2. f[n - 1] \in X
        BY <1>4, <3>1 DEF IsRun
      <3>3. turn[<<f[n - 1], n>>] = DedupTurn(f[n - 1], addrs, n)
        BY <3>1, <3>2 DEF turn
      <3>4. f[n] = DedupTurn(f[n - 1], addrs, n)
        BY <1>4, <3>1, <3>3 DEF IsRun
      <3> QED
        BY <2>2, <3>4 DEF DedupStep
    <2> QED
      BY <2>1, <2>2
  <1>7. f = [n \in 0..Len(addrs) |-> DedupStep(f, addrs, n)]
    BY <1>5, <1>6
  <1> QED
    BY <1>7

LEMMA DedupTurns ==
  ASSUME NEW T, NEW addrs \in Seq(T)
  PROVE  \E f : /\ f[0] = <<>>
                /\ \A n \in 1..Len(addrs) : f[n] = DedupTurn(f[n - 1], addrs, n)
                /\ Dedup(addrs) = f[Len(addrs)]
  <1> DEFINE f == CHOOSE g : g = [n \in 0..Len(addrs) |-> DedupStep(g, addrs, n)]
  <1>1. Dedup(addrs) = f[Len(addrs)]
    BY DEF Dedup, DedupStep, DedupTurn
  <1>2. f = [n \in 0..Len(addrs) |-> DedupStep(f, addrs, n)]
    BY DedupExists
  <1> HIDE DEF f
  <1>3. Len(addrs) \in Nat
    BY LenProperties
  <1>4. ASSUME NEW n \in 0..Len(addrs)
        PROVE  f[n] = DedupStep(f, addrs, n)
    BY <1>2
  <1>5. f[0] = <<>>
    BY <1>3, <1>4 DEF DedupStep
  <1>6. ASSUME NEW n \in 1..Len(addrs)
        PROVE  f[n] = DedupTurn(f[n - 1], addrs, n)
    BY <1>3, <1>4, n # 0 DEF DedupStep
  <1> QED
    BY <1>1, <1>5, <1>6

LEMMA DedupFacts ==
  ASSUME NEW addrs \in Seq(IpAddress), Sorted(addrs)
  PROVE  /\ Dedup(addrs) \in Seq(IpAddress)
         /\ Sorted(Dedup(addrs))
         /\ SetOf(Dedup(addrs)) = SetOf(addrs)
  <1>1. PICK f : /\ f[0] = <<>>
                 /\ \A n \in 1..Len(addrs) : f[n] = DedupTurn(f[n - 1], addrs, n)
                 /\ Dedup(addrs) = f[Len(addrs)]
    BY DedupTurns
  <1>2. /\ Len(addrs) \in Nat /\ DOMAIN addrs = 1..Len(addrs)
        /\ \A n \in 1..Len(addrs) : addrs[n] \in IpAddress
    BY LenProperties, ElementOfSeq
  <1> DEFINE Seen(n) == {addrs[i] : i \in 1..n}
             Good(n) == /\ f[n] \in Seq(IpAddress)
                        /\ Sorted(f[n])
                        /\ SetOf(f[n]) = Seen(n)
             N == {n \in Nat : n <= Len(addrs) => Good(n)}
  <1>3. 0 \in N
    <2>1. Sorted(<<>>) /\ SetOf(<<>>) = {} /\ <<>> \in Seq(IpAddress)
      BY EmptySeq DEF Sorted, SetOf
    <2>2. Seen(0) = {}
      OBVIOUS
    <2> HIDE DEF Seen
    <2>3. Good(0)
      BY <1>1, <2>1, <2>2
    <2> QED
      BY <2>3
  <1>4. ASSUME NEW n \in N
        PROVE  n + 1 \in N
    <2> SUFFICES ASSUME n + 1 <= Len(addrs)
                 PROVE  Good(n + 1)
      OBVIOUS
    <2>1. /\ n \in Nat /\ n + 1 \in 1..Len(addrs) /\ (n + 1) - 1 = n
          /\ f[n] \in Seq(IpAddress) /\ Sorted(f[n]) /\ SetOf(f[n]) = Seen(n)
      BY <1>2
    <2>2. f[n + 1] = DedupTurn(f[n], addrs, n + 1) /\ addrs[n + 1] \in IpAddress
      BY <1>1, <1>2, <2>1
    <2>3. Seen(n + 1) = Seen(n) \union {addrs[n + 1]}
      <3>1. 1..n + 1 = (1..n) \union {n + 1}
        BY <2>1
      <3> QED
        BY <3>1
    <2>4. CASE n + 1 > 1 /\ addrs[n + 1] = addrs[n]
      <3>1. f[n + 1] = f[n]
        BY <2>1, <2>2, <2>4 DEF DedupTurn
      <3>2. n \in 1..n
        BY <2>1, <2>4
      <3>3. addrs[n + 1] \in Seen(n)
        BY <2>4, <3>2
      <3> QED
        BY <2>1, <2>3, <3>1, <3>3
    <2>5. CASE ~(n + 1 > 1 /\ addrs[n + 1] = addrs[n])
      <3>1. f[n + 1] = Append(f[n], addrs[n + 1])
        BY <2>1, <2>2, <2>5 DEF DedupTurn
      <3>2. \A x \in SetOf(f[n]) : Rank(x) <= Rank(addrs[n + 1])
        <4>1. \A i \in 1..n : i \in 1..Len(addrs) /\ i <= n + 1
          BY <1>2, <2>1
        <4>2. \A i \in 1..n : Rank(addrs[i]) <= Rank(addrs[n + 1])
          BY <2>1, <4>1 DEF Sorted
        <4> QED
          BY <2>1, <4>2
      <3>3. Sorted(f[n + 1])
        BY <2>1, <2>2, <3>1, <3>2, AppendSorted
      <3>4. f[n + 1] \in Seq(IpAddress) /\ SetOf(f[n + 1]) = SetOf(f[n]) \union {addrs[n + 1]}
        <4>1. Append(f[n], addrs[n + 1]) \in Seq(IpAddress)
          BY <2>1, <2>2, AppendFacts
        <4>2. SetOf(Append(f[n], addrs[n + 1])) = SetOf(f[n]) \union {addrs[n + 1]}
          BY <2>1, <2>2, SetOfAppend
        <4> QED
          BY <3>1, <4>1, <4>2
      <3> QED
        BY <2>1, <2>3, <3>3, <3>4
    <2> QED
      BY <2>4, <2>5
  <1>5. N = Nat
    <2> HIDE DEF N
    <2>1. N \in SUBSET Nat
      BY DEF N
    <2> QED
      BY <1>3, <1>4, <2>1, SetInduction
  <1>6. Good(Len(addrs))
    <2> HIDE DEF N, Good
    <2>1. Len(addrs) \in N
      BY <1>2, <1>5
    <2> QED
      BY <1>2, <2>1 DEF N
  <1>7. SetOf(addrs) = Seen(Len(addrs))
    BY <1>2 DEF SetOf
  <1> QED
    BY <1>1, <1>6, <1>7
-----------------------------------------------------------------------------
(* What the caps leave, and what is sent of it.                            *)

LEMMA KeptAll ==
  ASSUME NEW T, NEW S
  PROVE  \A seq \in Seq(T) : SetOf(seq) \subseteq S => Kept(seq, S) = seq
  <1> DEFINE G == {seq \in Seq(T) : SetOf(seq) \subseteq S => Kept(seq, S) = seq}
  <1>1. <<>> \in G
    BY KeptEmpty, EmptySeq
  <1>2. ASSUME NEW seq \in G, NEW e \in T
        PROVE  Append(seq, e) \in G
    <2>1. Append(seq, e) \in Seq(T)
      BY AppendFacts
    <2>2. SetOf(Append(seq, e)) = SetOf(seq) \union {e}
      BY SetOfAppend
    <2>3. Kept(Append(seq, e), S) =
            IF e \in S THEN Append(Kept(seq, S), e) ELSE Kept(seq, S)
      BY KeptAppend
    <2>4. SetOf(seq) \subseteq S => Kept(seq, S) = seq
      OBVIOUS
    <2> QED
      BY <2>1, <2>2, <2>3, <2>4
  <1>3. G = Seq(T)
    <2> HIDE DEF G
    <2>1. G \in SUBSET Seq(T)
      BY DEF G
    <2> QED
      BY <1>1, <1>2, <2>1, SequenceInduction
  <1> QED
    BY <1>3

LEMMA MinOfTwo ==
  ASSUME NEW a \in Nat, NEW b \in Nat
  PROVE  Min({a, b}) = IF a <= b THEN a ELSE b
  BY DEF Min

Begins(part, all) ==
  Len(part) <= Len(all) /\ \A i \in 1..Len(part) : part[i] = all[i]

AtMost(all, most) == SubSeq(all, 1, IF Len(all) <= most THEN Len(all) ELSE most)

LEMMA CutBegins ==
  ASSUME NEW T, NEW all \in Seq(T), NEW most \in Nat \ {0}
  PROVE  /\ AtMost(all, most) \in Seq(T)
         /\ Begins(AtMost(all, most), all)
         /\ Len(all) > 0 => Len(AtMost(all, most)) > 0
  <1> DEFINE m == IF Len(all) <= most THEN Len(all) ELSE most
  <1>1. Len(all) \in Nat
    BY LenProperties
  <1>2. m \in 0..Len(all) /\ (Len(all) > 0 => m > 0)
    BY <1>1
  <1>3. AtMost(all, most) = SubSeq(all, 1, m)
    BY DEF AtMost
  <1> HIDE DEF m
  <1>4. /\ AtMost(all, most) \in Seq(T) /\ Len(AtMost(all, most)) = m
        /\ \A i \in 1..m : AtMost(all, most)[i] = all[i]
    BY <1>2, <1>3, PrefixFacts
  <1> QED
    BY <1>2, <1>4 DEF Begins

Sent(addrs) == SubSeq(addrs, 1, Min({Len(addrs), MaxAddrs}))

LEMMA SentFacts ==
  ASSUME NEW addrs \in Seq(IpAddress)
  PROVE  /\ Sent(addrs) \in Seq(IpAddress) /\ Len(Sent(addrs)) \in 0..MaxAddrs
         /\ Begins(Sent(addrs), addrs)
         /\ Len(addrs) > 0 => Len(Sent(addrs)) > 0
  <1>1. Len(addrs) \in Nat /\ MaxAddrs \in Nat \ {0}
    BY LenProperties, LimitAssumption
  <1>2. Min({Len(addrs), MaxAddrs}) =
          IF Len(addrs) <= MaxAddrs THEN Len(addrs) ELSE MaxAddrs
    BY <1>1, MinOfTwo
  <1>3. Sent(addrs) = AtMost(addrs, MaxAddrs)
    BY <1>2 DEF Sent, AtMost
  <1>4. /\ Sent(addrs) \in Seq(IpAddress) /\ Begins(Sent(addrs), addrs)
        /\ Len(addrs) > 0 => Len(Sent(addrs)) > 0
    BY <1>1, <1>3, CutBegins
  <1>5. Len(Sent(addrs)) \in 0..MaxAddrs
    <2> DEFINE m == IF Len(addrs) <= MaxAddrs THEN Len(addrs) ELSE MaxAddrs
    <2>1. m \in 0..Len(addrs) /\ m \in 0..MaxAddrs
      BY <1>1
    <2>2. Sent(addrs) = SubSeq(addrs, 1, m)
      BY <1>3 DEF AtMost
    <2> HIDE DEF m
    <2> QED
      BY <2>1, <2>2, PrefixFacts
  <1> QED
    BY <1>4, <1>5

(* local_addrs drops what cannot be dialled, sorts and cuts; every cut     *)
(* takes from the end, where the worst addresses are.                      *)
THEOREM BestAreSent ==
  ASSUME NEW interfaces \in Seq(IpAddress)
  PROVE  LET own  == Range(interfaces) \intersect Dialable
             sent == Sent(ParsedAddrs(LocalAddrs(interfaces)))
         IN /\ LocalAddrs(interfaces) \in Seq(IpAddress)
            /\ Range(sent) \subseteq own
            /\ \A addr \in own \ Range(sent), other \in Range(sent) :
                 Rank(other) <= Rank(addr)
            /\ own # {} => Range(sent) # {}
  <1> DEFINE own == Range(interfaces) \intersect Dialable
             dialled == Kept(interfaces, Dialable)
             ranked == Ranked(dialled)
             all == Dedup(ranked)
             listed == LocalAddrs(interfaces)
             sent == Sent(ParsedAddrs(listed))
  <1>0. \A seq : Range(seq) = SetOf(seq)
    BY DEF Range, SetOf
  <1>1. dialled \in Seq(IpAddress) /\ SetOf(dialled) = own
    BY <1>0, KeptFacts
  <1> HIDE DEF dialled
  <1>2. ranked \in Seq(IpAddress) /\ Sorted(ranked) /\ SetOf(ranked) = own
    BY <1>1, RankedFacts
  <1> HIDE DEF ranked
  <1>3. all \in Seq(IpAddress) /\ Sorted(all) /\ SetOf(all) = own
    BY <1>2, DedupFacts
  <1>4. listed = Capped(all)
    BY DEF LocalAddrs, all, ranked, dialled
  <1> HIDE DEF all, own
  <1>5. listed \in Seq(IpAddress) /\ Begins(listed, all) /\ (Len(all) > 0 => Len(listed) > 0)
    <2>1. Len(all) \in Nat /\ MaxListed \in Nat \ {0}
      BY <1>3, LenProperties, ListAssumption
    <2>2. listed = AtMost(all, MaxListed)
      <3>1. (IF Len(all) < MaxListed THEN Len(all) ELSE MaxListed) =
            (IF Len(all) <= MaxListed THEN Len(all) ELSE MaxListed)
        BY <2>1
      <3> QED
        BY <1>4, <3>1 DEF Capped, AtMost
    <2> HIDE DEF listed
    <2>3. all \in Seq(IpAddress) /\ MaxListed \in Nat \ {0}
      BY <1>3, <2>1
    <2> QED
      BY <2>2, <2>3, CutBegins
  <1> HIDE DEF listed
  <1>6. ParsedAddrs(listed) = listed
    BY <1>5, ElementsOfSeq, KeptAll DEF ParsedAddrs
  <1>7. /\ sent \in Seq(IpAddress) /\ Begins(sent, listed)
        /\ Len(listed) > 0 => Len(sent) > 0
    BY <1>5, <1>6, SentFacts
  <1> HIDE DEF sent
  <1>8. /\ Len(sent) \in Nat /\ DOMAIN sent = 1..Len(sent)
        /\ Len(all) \in Nat /\ DOMAIN all = 1..Len(all)
        /\ Len(listed) \in Nat
    BY <1>3, <1>5, <1>7, LenProperties
  <1>9. Len(sent) <= Len(all) /\ \A i \in 1..Len(sent) : sent[i] = all[i]
    BY <1>5, <1>7, <1>8 DEF Begins
  <1>10. SetOf(sent) \subseteq own
    BY <1>3, <1>8, <1>9 DEF SetOf
  <1>11. ASSUME NEW addr \in own \ SetOf(sent), NEW other \in SetOf(sent)
         PROVE  Rank(other) <= Rank(addr)
    <2>1. PICK i \in 1..Len(sent) : other = sent[i]
      BY <1>8 DEF SetOf
    <2>2. PICK j \in 1..Len(all) : addr = all[j]
      BY <1>3, <1>8 DEF SetOf
    <2>3. j > Len(sent)
      <3>1. j <= Len(sent) => j \in 1..Len(sent)
        BY <1>8
      <3>2. j \notin 1..Len(sent)
        BY <1>8, <1>9, <2>2 DEF SetOf
      <3> QED
        BY <1>8, <3>1, <3>2
    <2>4. i \in 1..Len(all) /\ i <= j /\ other = all[i]
      BY <1>8, <1>9, <2>1, <2>3
    <2> QED
      BY <1>3, <2>2, <2>4 DEF Sorted
  <1>12. own # {} => SetOf(sent) # {}
    <2>1. own # {} => Len(all) > 0
      BY <1>3, <1>8 DEF SetOf
    <2>2. Len(sent) > 0 => 1 \in 1..Len(sent)
      BY <1>8
    <2>3. Len(sent) > 0 => SetOf(sent) # {}
      BY <1>8, <2>2 DEF SetOf
    <2> QED
      BY <1>5, <1>7, <2>1, <2>3
  <1> QED
    BY <1>0, <1>5, <1>10, <1>11, <1>12 DEF own, sent, listed
-----------------------------------------------------------------------------
(* The host keys, turn by turn.                                            *)

FingerprintTurn(listed, files, n) ==
  IF files[n] = "ed25519" THEN <<n>> \o listed
  ELSE IF files[n] \in Algorithms THEN Append(listed, n)
  ELSE listed

FingerprintStep(f, files, n) ==
  IF n = 0 THEN <<>> ELSE FingerprintTurn(f[n - 1], files, n)

LEMMA FingerprintTurnType ==
  ASSUME NEW listed \in Seq(Nat), NEW files, NEW n \in Nat
  PROVE  FingerprintTurn(listed, files, n) \in Seq(Nat)
  <1>1. Append(listed, n) \in Seq(Nat)
    BY AppendFacts
  <1>2. <<n>> \in Seq(Nat)
    OBVIOUS
  <1>3. <<n>> \o listed \in Seq(Nat)
    BY <1>2, ConcatFacts
  <1> QED
    BY <1>1, <1>3 DEF FingerprintTurn

LEMMA FingerprintsExist ==
  ASSUME NEW files \in Seq(FileContents)
  PROVE  \E f : f = [n \in 0..Len(files) |-> FingerprintStep(f, files, n)]
  <1> DEFINE X == Seq(Nat)
             turn == [p \in X \X Nat |-> FingerprintTurn(p[1], files, p[2])]
  <1>1. Len(files) \in Nat /\ <<>> \in X
    BY LenProperties, EmptySeq
  <1>2. turn \in [X \X Nat -> X]
    BY FingerprintTurnType
  <1> HIDE DEF turn, X
  <1>3. PICK f : IsRun(f, X, Len(files), <<>>, turn)
    BY <1>1, <1>2, Loop
  <1>4. f = [n \in 0..Len(files) |-> f[n]] /\ f[0] = <<>>
    BY <1>3 DEF IsRun
  <1>5. ASSUME NEW n \in 0..Len(files)
        PROVE  f[n] = FingerprintStep(f, files, n)
    <2>1. CASE n = 0
      BY <1>4, <2>1 DEF FingerprintStep
    <2>2. CASE n # 0
      <3>1. n \in 1..Len(files) /\ n \in Nat /\ n - 1 \in 0..Len(files)
        BY <1>1, <2>2
      <3>2. f[n - 1] \in X
        BY <1>3, <3>1 DEF IsRun
      <3>3. turn[<<f[n - 1], n>>] = FingerprintTurn(f[n - 1], files, n)
        BY <3>1, <3>2 DEF turn
      <3>4. f[n] = FingerprintTurn(f[n - 1], files, n)
        BY <1>3, <3>1, <3>3 DEF IsRun
      <3> QED
        BY <2>2, <3>4 DEF FingerprintStep
    <2> QED
      BY <2>1, <2>2
  <1>6. f = [n \in 0..Len(files) |-> FingerprintStep(f, files, n)]
    BY <1>4, <1>5
  <1> QED
    BY <1>6

LEMMA FingerprintTurns ==
  ASSUME NEW files \in Seq(FileContents)
  PROVE  \E f : /\ f[0] = <<>>
                /\ \A n \in 1..Len(files) : f[n] = FingerprintTurn(f[n - 1], files, n)
                /\ Fingerprints(files) = f[Len(files)]
  <1> DEFINE f == CHOOSE g : g = [n \in 0..Len(files) |-> FingerprintStep(g, files, n)]
  <1>1. Fingerprints(files) = f[Len(files)]
    BY DEF Fingerprints, FingerprintStep, FingerprintTurn
  <1>2. f = [n \in 0..Len(files) |-> FingerprintStep(f, files, n)]
    BY FingerprintsExist
  <1> HIDE DEF f
  <1>3. Len(files) \in Nat
    BY LenProperties
  <1>4. ASSUME NEW n \in 0..Len(files)
        PROVE  f[n] = FingerprintStep(f, files, n)
    BY <1>2
  <1>5. f[0] = <<>>
    BY <1>3, <1>4 DEF FingerprintStep
  <1>6. ASSUME NEW n \in 1..Len(files)
        PROVE  f[n] = FingerprintTurn(f[n - 1], files, n)
    BY <1>3, <1>4, n # 0 DEF FingerprintStep
  <1> QED
    BY <1>1, <1>5, <1>6

KeysOf(files, n) == {i \in 1..n : files[i] \in Algorithms}
Preferred(files, n) == {i \in 1..n : files[i] = "ed25519"}

(* host_key_fingerprints lists every host key, an ed25519 key first.       *)
THEOREM PreferredFirst ==
  ASSUME NEW files \in Seq(FileContents)
  PROVE  /\ Fingerprints(files) \in Seq(Nat)
         /\ Range(Fingerprints(files)) = KeysOf(files, Len(files))
         /\ Preferred(files, Len(files)) # {}
              => Fingerprints(files)[1] \in Preferred(files, Len(files))
  <1>1. PICK f : /\ f[0] = <<>>
                 /\ \A n \in 1..Len(files) : f[n] = FingerprintTurn(f[n - 1], files, n)
                 /\ Fingerprints(files) = f[Len(files)]
    BY FingerprintTurns
  <1>2. Len(files) \in Nat
    BY LenProperties
  <1> DEFINE Good(n) == /\ f[n] \in Seq(Nat)
                        /\ SetOf(f[n]) = KeysOf(files, n)
                        /\ Preferred(files, n) # {} =>
                             Len(f[n]) > 0 /\ f[n][1] \in Preferred(files, n)
             N == {n \in Nat : n <= Len(files) => Good(n)}
  <1>3. 0 \in N
    <2>1. <<>> \in Seq(Nat) /\ SetOf(<<>>) = {}
      BY EmptySeq DEF SetOf
    <2>2. KeysOf(files, 0) = {} /\ Preferred(files, 0) = {}
      BY DEF KeysOf, Preferred
    <2>3. Good(0)
      BY <1>1, <2>1, <2>2
    <2> QED
      BY <2>3
  <1>4. ASSUME NEW n \in N
        PROVE  n + 1 \in N
    <2> SUFFICES ASSUME n + 1 <= Len(files)
                 PROVE  Good(n + 1)
      OBVIOUS
    <2> DEFINE m == n + 1
    <2>1. n \in Nat /\ m \in 1..Len(files) /\ m - 1 = n /\ m \in Nat /\ Good(n)
      BY <1>2
    <2>2. 1..m = (1..n) \union {m}
      BY <2>1
    <2>3. /\ KeysOf(files, m) =
               KeysOf(files, n) \union (IF files[m] \in Algorithms THEN {m} ELSE {})
          /\ Preferred(files, m) =
               Preferred(files, n) \union (IF files[m] = "ed25519" THEN {m} ELSE {})
      BY <2>2 DEF KeysOf, Preferred
    <2> HIDE DEF m, N
    <2>8. f[n] \in Seq(Nat) /\ SetOf(f[n]) = KeysOf(files, n)
      BY <2>1
    <2>4. f[m] = FingerprintTurn(f[n], files, m)
      BY <1>1, <2>1
    <2>5. CASE files[m] = "ed25519"
      <3> DEFINE one == <<m>>
                 both == one \o f[n]
      <3>1. one \in Seq(Nat) /\ Len(one) = 1 /\ one[1] = m /\ SetOf(one) = {m}
        BY <2>1 DEF SetOf
      <3>2. f[m] = both
        BY <2>4, <2>5 DEF FingerprintTurn
      <3> HIDE DEF one
      <3>3. /\ both \in Seq(Nat) /\ Len(both) = Len(one) + Len(f[n]) /\ Len(f[n]) \in Nat
            /\ \A i \in 1..Len(one) : both[i] = one[i]
        BY <2>8, <3>1, ConcatFacts
      <3>4. SetOf(both) = SetOf(one) \union SetOf(f[n])
        BY <2>8, <3>1, SetOfConcat
      <3>5. 1 \in 1..Len(one)
        BY <3>1
      <3> HIDE DEF both
      <3>6. f[m] \in Seq(Nat) /\ Len(f[m]) > 0 /\ f[m][1] = m
        BY <3>1, <3>2, <3>3, <3>5
      <3>7. SetOf(f[m]) = KeysOf(files, m)
        BY <2>3, <2>5, <2>8, <3>1, <3>2, <3>4 DEF Algorithms
      <3>8. m \in Preferred(files, m)
        BY <2>3, <2>5
      <3>9. Good(m)
        BY <3>6, <3>7, <3>8
      <3> QED
        BY <3>9 DEF m
    <2>6. CASE files[m] # "ed25519" /\ files[m] \in Algorithms
      <3>1. f[m] = Append(f[n], m)
        BY <2>4, <2>6 DEF FingerprintTurn
      <3>2. /\ Append(f[n], m) \in Seq(Nat) /\ Len(Append(f[n], m)) = Len(f[n]) + 1
            /\ Len(f[n]) \in Nat
            /\ \A i \in 1..Len(f[n]) : Append(f[n], m)[i] = f[n][i]
        BY <2>1, AppendFacts
      <3>3. SetOf(Append(f[n], m)) = SetOf(f[n]) \union {m}
        BY <2>1, SetOfAppend
      <3>4. Preferred(files, m) = Preferred(files, n)
        BY <2>3, <2>6
      <3>5. Preferred(files, m) # {} => Len(f[m]) > 0 /\ f[m][1] \in Preferred(files, m)
        <4> SUFFICES ASSUME Preferred(files, m) # {}
                     PROVE  Len(f[m]) > 0 /\ f[m][1] \in Preferred(files, m)
          OBVIOUS
        <4>1. Len(f[n]) > 0 /\ f[n][1] \in Preferred(files, n)
          BY <2>1, <3>4
        <4>2. 1 \in 1..Len(f[n])
          BY <3>2, <4>1
        <4>3. f[m][1] = f[n][1] /\ Len(f[m]) > 0
          BY <3>1, <3>2, <4>1, <4>2
        <4> QED
          BY <3>4, <4>1, <4>3
      <3>6. SetOf(f[m]) = KeysOf(files, m)
        BY <2>3, <2>6, <2>8, <3>1, <3>3
      <3>7. f[m] \in Seq(Nat)
        BY <3>1, <3>2
      <3>8. Good(m)
        BY <3>5, <3>6, <3>7
      <3> QED
        BY <3>8 DEF m
    <2>7. CASE files[m] \notin Algorithms
      <3>1. files[m] # "ed25519"
        BY <2>7 DEF Algorithms
      <3>2. f[m] = f[n]
        BY <2>4, <2>7, <3>1 DEF FingerprintTurn
      <3>3. KeysOf(files, m) = KeysOf(files, n) /\ Preferred(files, m) = Preferred(files, n)
        BY <2>3, <2>7, <3>1
      <3> QED
        BY <2>1, <3>2, <3>3
    <2> QED
      BY <2>5, <2>6, <2>7 DEF m
  <1>5. N = Nat
    <2> HIDE DEF N
    <2>1. N \in SUBSET Nat
      BY DEF N
    <2> QED
      BY <1>3, <1>4, <2>1, SetInduction
  <1>6. Good(Len(files))
    <2> HIDE DEF N, Good
    <2>1. Len(files) \in N
      BY <1>2, <1>5
    <2> QED
      BY <1>2, <2>1 DEF N
  <1>7. Range(Fingerprints(files)) = SetOf(Fingerprints(files))
    BY DEF Range, SetOf
  <1> QED
    BY <1>1, <1>6, <1>7
-----------------------------------------------------------------------------
(* Texts: their bytes, and the characters read from them.                  *)

LEMMA CharacterTypes ==
  /\ Narrow \in Seq(Nat) /\ Len(Narrow) = 1 /\ Narrow[1] = 65
  /\ Wide \in Seq(Nat) /\ Len(Wide) = 2 /\ Wide[1] = 195 /\ Wide[2] = 169
  /\ Text \subseteq Seq(Seq(Nat)) /\ <<>> \in Text
  <1>1. /\ Narrow \in Seq(Nat) /\ Len(Narrow) = 1 /\ Narrow[1] = 65
        /\ Wide \in Seq(Nat) /\ Len(Wide) = 2 /\ Wide[1] = 195 /\ Wide[2] = 169
    BY DEF Narrow, Wide
  <1>2. {Narrow, Wide} \subseteq Seq(Nat)
    BY <1>1
  <1>3. Text \subseteq Seq(Seq(Nat))
    BY <1>2, SeqMonotonic DEF Text
  <1> QED
    BY <1>1, <1>3, EmptySeq DEF Text

LEMMA TextBytesType == \A t \in Text : FlattenSeq(t) \in Seq(Nat)
  BY CharacterTypes, FlattenType

(* One character more.                                                     *)
LEMMA TextAppend ==
  ASSUME NEW t \in Text, NEW e \in {Narrow, Wide}
  PROVE  LET all == FlattenSeq(t)
             more == FlattenSeq(Append(t, e))
         IN /\ Append(t, e) \in Text
            /\ all \in Seq(Nat) /\ Len(all) \in Nat /\ DOMAIN all = 1..Len(all)
            /\ more \in Seq(Nat) /\ Len(more) = Len(all) + Len(e)
            /\ DOMAIN more = 1..Len(more)
            /\ \A i \in 1..Len(all) : more[i] = all[i]
            /\ \A i \in 1..Len(e) : more[Len(all) + i] = e[i]
  <1> DEFINE all == FlattenSeq(t)
             more == FlattenSeq(Append(t, e))
  <1>1. t \in Seq({Narrow, Wide}) /\ t \in Seq(Seq(Nat)) /\ e \in Seq(Nat)
    BY CharacterTypes DEF Text
  <1>2. Append(t, e) \in Seq({Narrow, Wide})
    BY <1>1, AppendFacts
  <1>3. all \in Seq(Nat)
    BY TextBytesType
  <1>4. more = all \o e
    BY <1>1, FlattenAppend
  <1> HIDE DEF all, more
  <1>5. /\ all \o e \in Seq(Nat) /\ Len(all) \in Nat /\ Len(all \o e) = Len(all) + Len(e)
        /\ \A i \in 1..Len(all) : (all \o e)[i] = all[i]
        /\ \A i \in 1..Len(e) : (all \o e)[Len(all) + i] = e[i]
    BY <1>1, <1>3, ConcatFacts
  <1>6. DOMAIN all = 1..Len(all) /\ DOMAIN (all \o e) = 1..Len(all \o e)
    BY <1>3, <1>5, LenProperties
  <1> QED
    BY <1>2, <1>3, <1>4, <1>5, <1>6 DEF Text, all, more

(* The bytes of a text are those of a text.                                *)
LEMMA FlatIsValid == \A t \in Text : ValidText(FlattenSeq(t))
  <1> DEFINE G == {t \in Text : ValidText(FlattenSeq(t))}
  <1>1. <<>> \in G
    <2>1. ValidText(<<>>)
      BY DEF ValidText
    <2> QED
      BY <2>1, FlattenEmpty, CharacterTypes
  <1>2. ASSUME NEW t \in G, NEW e \in {Narrow, Wide}
        PROVE  Append(t, e) \in G
    <2> DEFINE all == FlattenSeq(t)
               more == FlattenSeq(Append(t, e))
    <2>1. /\ Append(t, e) \in Text /\ Len(all) \in Nat /\ DOMAIN all = 1..Len(all)
          /\ Len(more) = Len(all) + Len(e)
          /\ DOMAIN more = 1..Len(more)
          /\ \A i \in 1..Len(all) : more[i] = all[i]
          /\ \A i \in 1..Len(e) : more[Len(all) + i] = e[i]
      BY TextAppend
    <2>2. ValidText(all)
      OBVIOUS
    <2> HIDE DEF all, more
    <2>3. ASSUME NEW i \in DOMAIN more
          PROVE  /\ more[i] = Wide[1] => i < Len(more) /\ more[i + 1] = Wide[2]
                 /\ more[i] = Wide[2] => i > 1 /\ more[i - 1] = Wide[1]
      <3>1. CASE i <= Len(all)
        <4>1. i \in 1..Len(all) /\ more[i] = all[i] /\ Len(more) >= Len(all)
          BY <2>1, <3>1, CharacterTypes
        <4>2. all[i] = Wide[1] => i + 1 \in 1..Len(all) /\ all[i + 1] = Wide[2]
          BY <2>1, <2>2, <4>1 DEF ValidText
        <4>3. all[i] = Wide[2] => i - 1 \in 1..Len(all) /\ all[i - 1] = Wide[1]
          BY <2>1, <2>2, <4>1 DEF ValidText
        <4> QED
          BY <2>1, <4>1, <4>2, <4>3
      <3>2. CASE i > Len(all) /\ e = Narrow
        <4>1. i = Len(all) + 1 /\ 1 \in 1..Len(e)
          BY <2>1, <3>2, CharacterTypes
        <4>2. more[i] = Narrow[1]
          BY <2>1, <3>2, <4>1
        <4>3. more[i] # Wide[1] /\ more[i] # Wide[2]
          BY <4>2, CharacterTypes
        <4> QED
          BY <4>3
      <3>3. CASE i > Len(all) /\ e = Wide
        <4>0. Len(e) = 2
          BY <3>3, CharacterTypes, Zenon
        <4>1. (i = Len(all) + 1 \/ i = Len(all) + 2) /\ 1 \in 1..Len(e) /\ 2 \in 1..Len(e)
          BY <2>1, <3>3, <4>0
        <4>2. more[Len(all) + 1] = Wide[1] /\ more[Len(all) + 2] = Wide[2]
          BY <2>1, <3>3, <4>1
        <4>3. CASE i = Len(all) + 1
          <5>1. i < Len(more) /\ i + 1 = Len(all) + 2
            BY <2>1, <3>3, <4>0, <4>3
          <5>2. more[i] = Wide[1] /\ more[i + 1] = Wide[2] /\ Wide[1] # Wide[2]
            BY <4>2, <4>3, <5>1, CharacterTypes
          <5> QED
            BY <5>1, <5>2
        <4>4. CASE i = Len(all) + 2
          <5>1. i > 1 /\ i - 1 = Len(all) + 1
            BY <2>1, <4>4
          <5>2. more[i] = Wide[2] /\ more[i - 1] = Wide[1] /\ Wide[1] # Wide[2]
            BY <4>2, <4>4, <5>1, CharacterTypes
          <5> QED
            BY <5>1, <5>2
        <4> QED
          BY <4>1, <4>3, <4>4
      <3> QED
        BY <2>1, <3>1, <3>2, <3>3
    <2>4. ValidText(more)
      BY <2>3 DEF ValidText
    <2> QED
      BY <2>1, <2>4 DEF more
  <1>3. G = Text
    <2> HIDE DEF G
    <2>1. G \in SUBSET Seq({Narrow, Wide})
      BY DEF G, Text
    <2>2. G = Seq({Narrow, Wide})
      BY <1>1, <1>2, <2>1, SequenceInduction
    <2> QED
      BY <2>2 DEF Text
  <1> QED
    BY <1>3

(* Characters, turn by turn.                                               *)
CharacterTurn(read, field, n) ==
  IF field[n] = Wide[2] THEN read
  ELSE Append(read, IF field[n] = Wide[1] THEN Wide ELSE Narrow)

CharacterStep(f, field, n) ==
  IF n = 0 THEN <<>> ELSE CharacterTurn(f[n - 1], field, n)

IsReading(f, field) ==
  /\ f[0] = <<>>
  /\ \A n \in 1..Len(field) : f[n] = CharacterTurn(f[n - 1], field, n)

LEMMA CharactersExist ==
  ASSUME NEW field \in Seq(Nat)
  PROVE  \E f : f = [n \in 0..Len(field) |-> CharacterStep(f, field, n)]
  <1> DEFINE turn == [p \in Text \X Nat |-> CharacterTurn(p[1], field, p[2])]
  <1>1. Len(field) \in Nat /\ <<>> \in Text
    BY LenProperties, CharacterTypes
  <1>2. turn \in [Text \X Nat -> Text]
    <2>1. ASSUME NEW t \in Text, NEW n \in Nat
          PROVE  CharacterTurn(t, field, n) \in Text
      <3>1. Append(t, Wide) \in Text /\ Append(t, Narrow) \in Text
        BY TextAppend
      <3> QED
        BY <3>1 DEF CharacterTurn
    <2> QED
      BY <2>1
  <1> HIDE DEF turn
  <1>3. PICK f : IsRun(f, Text, Len(field), <<>>, turn)
    BY <1>1, <1>2, Loop
  <1>4. f = [n \in 0..Len(field) |-> f[n]] /\ f[0] = <<>>
    BY <1>3 DEF IsRun
  <1>5. ASSUME NEW n \in 0..Len(field)
        PROVE  f[n] = CharacterStep(f, field, n)
    <2>1. CASE n = 0
      BY <1>4, <2>1 DEF CharacterStep
    <2>2. CASE n # 0
      <3>1. n \in 1..Len(field) /\ n \in Nat /\ n - 1 \in 0..Len(field)
        BY <1>1, <2>2
      <3>2. f[n - 1] \in Text
        BY <1>3, <3>1 DEF IsRun
      <3>3. turn[<<f[n - 1], n>>] = CharacterTurn(f[n - 1], field, n)
        BY <3>1, <3>2 DEF turn
      <3>4. f[n] = CharacterTurn(f[n - 1], field, n)
        BY <1>3, <3>1, <3>3 DEF IsRun
      <3> QED
        BY <2>2, <3>4 DEF CharacterStep
    <2> QED
      BY <2>1, <2>2
  <1>6. f = [n \in 0..Len(field) |-> CharacterStep(f, field, n)]
    BY <1>4, <1>5
  <1> QED
    BY <1>6

LEMMA CharacterTurns ==
  ASSUME NEW field \in Seq(Nat)
  PROVE  \E f : IsReading(f, field) /\ Characters(field) = f[Len(field)]
  <1> DEFINE f == CHOOSE g : g = [n \in 0..Len(field) |-> CharacterStep(g, field, n)]
  <1>1. Characters(field) = f[Len(field)]
    BY DEF Characters, CharacterStep, CharacterTurn
  <1>2. f = [n \in 0..Len(field) |-> CharacterStep(f, field, n)]
    BY CharactersExist
  <1> HIDE DEF f
  <1>3. Len(field) \in Nat
    BY LenProperties
  <1>4. ASSUME NEW n \in 0..Len(field)
        PROVE  f[n] = CharacterStep(f, field, n)
    BY <1>2
  <1>5. f[0] = <<>>
    BY <1>3, <1>4 DEF CharacterStep
  <1>6. ASSUME NEW n \in 1..Len(field)
        PROVE  f[n] = CharacterTurn(f[n - 1], field, n)
    BY <1>3, <1>4, n # 0 DEF CharacterStep
  <1>7. IsReading(f, field)
    BY <1>5, <1>6 DEF IsReading
  <1> QED
    BY <1>1, <1>7

(* A field that begins with the bytes of a text is read as that text first. *)
LEMMA ReadSoFar ==
  ASSUME NEW field \in Seq(Nat), NEW f, IsReading(f, field)
  PROVE  \A t \in Text : Begins(FlattenSeq(t), field) => f[Len(FlattenSeq(t))] = t
  <1> DEFINE G == {t \in Text : Begins(FlattenSeq(t), field) => f[Len(FlattenSeq(t))] = t}
  <1>0. Len(field) \in Nat
    BY LenProperties
  <1>1. <<>> \in G
    <2>1. f[Len(FlattenSeq(<<>>))] = <<>>
      BY FlattenEmpty, EmptySeq DEF IsReading
    <2> QED
      BY <2>1, CharacterTypes
  <1>2. ASSUME NEW t \in G, NEW e \in {Narrow, Wide}
        PROVE  Append(t, e) \in G
    <2> DEFINE all == FlattenSeq(t)
               more == FlattenSeq(Append(t, e))
               len == Len(all)
    <2>1. /\ Append(t, e) \in Text /\ len \in Nat
          /\ Len(more) = len + Len(e)
          /\ \A i \in 1..len : more[i] = all[i]
          /\ \A i \in 1..Len(e) : more[len + i] = e[i]
      BY TextAppend
    <2>2. Begins(all, field) => f[len] = t
      OBVIOUS
    <2> SUFFICES ASSUME Begins(more, field)
                 PROVE  f[Len(more)] = Append(t, e)
      BY <2>1
    <2> HIDE DEF all, more, len, G
    <2>0. Len(more) <= Len(field) /\ \A i \in 1..Len(more) : more[i] = field[i]
      BY DEF Begins
    <2>3. /\ len + Len(e) <= Len(field)
          /\ \A i \in 1..len + Len(e) : field[i] = more[i]
      BY <2>0, <2>1
    <2>4. Len(e) \in {1, 2} /\ 1 \in 1..Len(e)
      <3>1. e = Narrow \/ e = Wide
        OBVIOUS
      <3>2. CASE e = Narrow
        BY <3>2, CharacterTypes
      <3>3. CASE e = Wide
        BY <3>3, CharacterTypes
      <3> QED
        BY <3>1, <3>2, <3>3
    <2>5. f[len] = t
      <3>1. Begins(all, field)
        BY <1>0, <2>1, <2>3, <2>4, SMTT(30) DEF Begins, len
      <3> QED
        BY <2>2, <3>1
    <2>6. /\ len + 1 \in 1..Len(field) /\ len + 1 \in 1..len + Len(e) /\ (len + 1) - 1 = len
      BY <1>0, <2>1, <2>3, <2>4
    <2>7. f[len + 1] = CharacterTurn(t, field, len + 1) /\ field[len + 1] = e[1]
      BY <2>1, <2>3, <2>4, <2>5, <2>6 DEF IsReading
    <2>8. CASE e = Narrow
      <3>1. f[len + 1] = Append(t, Narrow)
        BY <2>7, <2>8, CharacterTypes DEF CharacterTurn
      <3> QED
        BY <2>1, <2>8, <3>1, CharacterTypes
    <2>9. CASE e = Wide
      <3>1. f[len + 1] = Append(t, Wide)
        BY <2>7, <2>9, CharacterTypes DEF CharacterTurn
      <3>2. /\ len + 2 \in 1..Len(field) /\ len + 2 \in 1..len + Len(e)
            /\ (len + 2) - 1 = len + 1 /\ 2 \in 1..Len(e)
        BY <1>0, <2>1, <2>3, <2>9, CharacterTypes
      <3>3. field[len + 2] = Wide[2]
        BY <2>1, <2>3, <2>9, <3>2
      <3>4. f[len + 2] = f[len + 1]
        BY <3>2, <3>3 DEF IsReading, CharacterTurn
      <3> QED
        BY <2>1, <2>9, <3>1, <3>4, CharacterTypes
    <2> QED
      BY <2>8, <2>9
  <1>3. G = Text
    <2> HIDE DEF G
    <2>1. G \in SUBSET Seq({Narrow, Wide})
      BY DEF G, Text
    <2>2. G = Seq({Narrow, Wide})
      BY <1>1, <1>2, <2>1, SequenceInduction
    <2> QED
      BY <2>2 DEF Text
  <1> QED
    BY <1>3

(* from_utf8 gives back what as_bytes made.                                *)
THEOREM CharactersOfBytes ==
  ASSUME NEW t \in Text
  PROVE  ValidText(FlattenSeq(t)) /\ Characters(FlattenSeq(t)) = t
  <1> DEFINE all == FlattenSeq(t)
  <1>1. all \in Seq(Nat) /\ Len(all) \in Nat
    BY TextBytesType, LenProperties
  <1>2. Begins(all, all)
    BY <1>1 DEF Begins
  <1>3. PICK f : IsReading(f, all) /\ Characters(all) = f[Len(all)]
    BY <1>1, CharacterTurns
  <1>4. f[Len(all)] = t
    BY <1>1, <1>2, <1>3, ReadSoFar
  <1> QED
    BY <1>3, <1>4, FlatIsValid

LEMMA MaxIs ==
  ASSUME NEW n \in Nat, NEW S \in SUBSET (0..n), S # {}
  PROVE  Max(S) \in S /\ \A k \in S : k <= Max(S)
  <1> DEFINE below == {n - k : k \in S}
  <1>1. below \in SUBSET Nat /\ below # {}
    <2>1. \A k \in S : n - k \in Nat
      OBVIOUS
    <2> QED
      BY <2>1
  <1>2. PICK m \in below : \A k \in below : m <= k
    <2> HIDE DEF below
    <2> QED
      BY <1>1, LeastNatural
  <1>3. PICK x \in S : m = n - x
    BY <1>2
  <1>4. ASSUME NEW k \in S
        PROVE  x >= k
    <2>1. n - k \in below /\ k \in 0..n /\ x \in 0..n
      OBVIOUS
    <2> HIDE DEF below
    <2>2. m <= n - k
      BY <1>2, <2>1
    <2> QED
      BY <1>3, <2>1, <2>2
  <1>5. \E y \in S : \A k \in S : y >= k
    BY <1>4
  <1>6. Max(S) \in S /\ \A k \in S : Max(S) >= k
    BY <1>5 DEF Max
  <1>7. \A k \in S : k \in 0..n
    OBVIOUS
  <1> QED
    BY <1>6, <1>7

(* truncated_name takes as many characters as fit, and no part of one.     *)
THEOREM NameFits ==
  ASSUME NEW text \in Text, NEW size \in Nat
  PROVE  LET fitting == Fitting(text, size)
         IN /\ fitting \in Text
            /\ IsPrefix(fitting, text)
            /\ Len(FlattenSeq(fitting)) <= size
            /\ Len(fitting) < Len(text) =>
                 Len(FlattenSeq(SubSeq(text, 1, Len(fitting) + 1))) > size
  <1> DEFINE fits == {n \in 0..Len(text) : Len(FlattenSeq(SubSeq(text, 1, n))) <= size}
             most == Max(fits)
             fitting == Fitting(text, size)
  <1>1. text \in Seq({Narrow, Wide}) /\ Len(text) \in Nat
    BY LenProperties DEF Text
  <1>2. \A n \in 0..Len(text) : SubSeq(text, 1, n) \in Text /\ Len(SubSeq(text, 1, n)) = n
    BY <1>1, PrefixFacts DEF Text
  <1>3. 0 \in fits
    <2>1. SubSeq(text, 1, 0) = <<>>
      BY SubSeqEmpty
    <2>2. Len(FlattenSeq(SubSeq(text, 1, 0))) = 0
      BY <2>1, FlattenEmpty, EmptySeq
    <2> QED
      BY <1>1, <2>2
  <1>4. most \in fits /\ \A k \in fits : k <= most
    <2>1. fits \in SUBSET (0..Len(text)) /\ fits # {}
      BY <1>3
    <2> HIDE DEF fits
    <2> QED
      BY <1>1, <2>1, MaxIs
  <1>5. fitting = SubSeq(text, 1, most)
    BY DEF Fitting
  <1>6. most \in 0..Len(text) /\ Len(FlattenSeq(SubSeq(text, 1, most))) <= size
    BY <1>4
  <1> HIDE DEF most, fitting
  <1>7. fitting \in Text /\ Len(fitting) = most
    BY <1>2, <1>5, <1>6
  <1>8. IsPrefix(fitting, text)
    <2>1. fitting \in Seq({Narrow, Wide})
      BY <1>7 DEF Text
    <2>2. SubSeq(fitting, 1, Len(fitting)) = fitting
      BY <2>1, SubSeqFull
    <2> QED
      BY <1>1, <1>5, <1>6, <1>7, <2>2 DEF IsPrefix
  <1>9. ASSUME most < Len(text)
        PROVE  Len(FlattenSeq(SubSeq(text, 1, most + 1))) > size
    <2>1. most + 1 \in 0..Len(text) /\ ~(most + 1 <= most)
      BY <1>1, <1>6, <1>9
    <2>2. most + 1 \notin fits
      <3> HIDE DEF fits
      <3> QED
        BY <1>4, <2>1
    <2>3. Len(FlattenSeq(SubSeq(text, 1, most + 1))) \in Nat
      BY <1>2, <2>1, TextBytesType, LenProperties
    <2> QED
      BY <2>1, <2>2, <2>3
  <1> QED
    BY <1>5, <1>6, <1>7, <1>8, <1>9 DEF fitting

LEMMA TextBytesFacts ==
  ASSUME NEW text \in Text
  PROVE  /\ TextBytes(text) \in Seq(Nat)
         /\ Fits(text) => TextBytes(text) = FlattenSeq(text)
  <1> DEFINE all == FlattenSeq(text)
             most == IF Len(all) <= MaxText THEN Len(all) ELSE MaxText
  <1>1. all \in Seq(Nat) /\ Len(all) \in Nat /\ MaxText \in Nat
    BY TextBytesType, LenProperties, LimitAssumption
  <1>2. TextBytes(text) = SubSeq(all, 1, Min({Len(all), MaxText}))
    BY DEF TextBytes, CutBytes
  <1> HIDE DEF all
  <1>3. Min({Len(all), MaxText}) = most
    BY <1>1, MinOfTwo
  <1>4. most \in 0..Len(all)
    BY <1>1
  <1>5. SubSeq(all, 1, most) \in Seq(Nat)
    <2> HIDE DEF most
    <2> QED
      BY <1>1, <1>4, PrefixFacts
  <1>6. Fits(text) => SubSeq(all, 1, most) = all
    <2>1. Fits(text) => most = Len(all)
      BY DEF Fits, all
    <2> HIDE DEF most
    <2> QED
      BY <1>1, <2>1, SubSeqFull
  <1> QED
    BY <1>2, <1>3, <1>5, <1>6 DEF all
-----------------------------------------------------------------------------
(* Where the fields of an encoded payload are, and what decode makes of as *)
(* many of its bytes as got through.                                       *)

At(part, all, k) ==
  /\ k + Len(part) <= Len(all)
  /\ \A i \in 1..Len(part) : all[k + i] = part[i]

LEMMA AtSelf ==
  ASSUME NEW all \in Seq(Nat)
  PROVE  At(all, all, 0)
  <1>1. Len(all) \in Nat
    BY LenProperties
  <1> QED
    BY <1>1 DEF At

LEMMA AtConcat ==
  ASSUME NEW s \in Seq(Nat), NEW t \in Seq(Nat), NEW all \in Seq(Nat), NEW k \in Nat,
         At(s \o t, all, k)
  PROVE  At(s, all, k) /\ At(t, all, k + Len(s))
  <1> DEFINE both == s \o t
  <1>1. /\ Len(s) \in Nat /\ Len(t) \in Nat /\ Len(both) = Len(s) + Len(t)
        /\ \A i \in 1..Len(s) : both[i] = s[i]
        /\ \A i \in 1..Len(t) : both[Len(s) + i] = t[i]
    BY ConcatFacts
  <1>2. Len(all) \in Nat
    BY LenProperties
  <1>3. k + Len(both) <= Len(all) /\ \A i \in 1..Len(both) : all[k + i] = both[i]
    BY DEF At
  <1> HIDE DEF both
  <1>4. \A i \in 1..Len(s) : i \in 1..Len(both)
    BY <1>1
  <1>5. At(s, all, k)
    BY <1>1, <1>2, <1>3, <1>4, SMTT(30) DEF At
  <1>6. ASSUME NEW i \in 1..Len(t)
        PROVE  all[(k + Len(s)) + i] = t[i]
    <2>1. Len(s) + i \in 1..Len(both) /\ k + (Len(s) + i) = (k + Len(s)) + i
      BY <1>1
    <2> QED
      BY <1>1, <1>3, <2>1
  <1>7. At(t, all, k + Len(s))
    BY <1>1, <1>2, <1>3, <1>6 DEF At
  <1> QED
    BY <1>5, <1>7

(* The addresses' bytes.                                                   *)
Encoded(addrs) == [i \in DOMAIN addrs |-> EncodeAddr(addrs[i])]
AddrBytes(addrs) == FlattenSeq(Encoded(addrs))

LEMMA EncodeAddrFacts ==
  ASSUME NEW addr \in IpAddress
  PROVE  /\ addr[1] \in Families /\ addr = <<addr[1], addr[2]>>
         /\ AddrSize(addr[1]) \in {2, 3}
         /\ EncodeAddr(addr) \in Seq(Nat)
         /\ Len(EncodeAddr(addr)) = AddrSize(addr[1])
         /\ EncodeAddr(addr)[1] = addr[1] /\ EncodeAddr(addr)[2] = addr[2]
  <1>1. PICK family \in {4, 6}, octet \in Nat : addr = <<family, octet>>
    BY DEF IpAddress
  <1>2. addr[1] = family /\ addr[2] = octet
    BY <1>1
  <1> DEFINE pair == <<family, octet>>
  <1>3. pair \in Seq(Nat) /\ Len(pair) = 2 /\ pair[1] = family /\ pair[2] = octet
    OBVIOUS
  <1> HIDE DEF pair
  <1>4. /\ Append(pair, octet) \in Seq(Nat) /\ Len(Append(pair, octet)) = 3
        /\ Append(pair, octet)[1] = family /\ Append(pair, octet)[2] = octet
    <2>0. pair \in Seq(Nat) /\ octet \in Nat
      BY <1>3
    <2>1. /\ Append(pair, octet) \in Seq(Nat) /\ Len(Append(pair, octet)) = Len(pair) + 1
          /\ \A i \in 1..Len(pair) : Append(pair, octet)[i] = pair[i]
      BY <2>0, AppendFacts
    <2>2. 1 \in 1..Len(pair) /\ 2 \in 1..Len(pair)
      BY <1>3
    <2> QED
      BY <1>3, <2>1, <2>2
  <1>5. EncodeAddr(addr) = IF family = 4 THEN pair ELSE Append(pair, octet)
    BY <1>1, <1>2 DEF EncodeAddr, pair
  <1>6. addr[1] \in Families /\ addr = <<addr[1], addr[2]>>
    BY <1>1, <1>2 DEF Families
  <1>7. AddrSize(addr[1]) = IF family = 4 THEN 2 ELSE 3
    BY <1>2 DEF AddrSize
  <1> QED
    BY <1>2, <1>3, <1>4, <1>5, <1>6, <1>7

LEMMA EncodedType ==
  ASSUME NEW addrs \in Seq(IpAddress)
  PROVE  Encoded(addrs) \in Seq(Seq(Nat)) /\ AddrBytes(addrs) \in Seq(Nat)
  <1>1. Len(addrs) \in Nat /\ DOMAIN addrs = 1..Len(addrs)
    BY LenProperties
  <1>2. \A i \in 1..Len(addrs) : EncodeAddr(addrs[i]) \in Seq(Nat)
    BY ElementOfSeq, EncodeAddrFacts
  <1>3. [i \in 1..Len(addrs) |-> EncodeAddr(addrs[i])] \in Seq(Seq(Nat))
    BY <1>1, <1>2, IsASeq
  <1>4. Encoded(addrs) \in Seq(Seq(Nat))
    BY <1>1, <1>3 DEF Encoded
  <1> QED
    BY <1>4, FlattenType DEF AddrBytes

LEMMA AddrBytesAppend ==
  ASSUME NEW addrs \in Seq(IpAddress), NEW e \in IpAddress
  PROVE  AddrBytes(Append(addrs, e)) = AddrBytes(addrs) \o EncodeAddr(e)
  <1> DEFINE longer == Append(addrs, e)
             all == Encoded(longer)
             some == Append(Encoded(addrs), EncodeAddr(e))
             len == Len(addrs)
  <1>1. /\ len \in Nat /\ DOMAIN addrs = 1..len
        /\ longer \in Seq(IpAddress) /\ DOMAIN longer = 1..len + 1
        /\ longer[len + 1] = e
        /\ \A i \in 1..len : longer[i] = addrs[i]
    BY AppendFacts
  <1> HIDE DEF longer
  <1>2. Encoded(addrs) \in Seq(Seq(Nat)) /\ EncodeAddr(e) \in Seq(Nat)
    BY EncodedType, EncodeAddrFacts
  <1>3. DOMAIN Encoded(addrs) = 1..len /\ Len(Encoded(addrs)) = len
    <2>1. DOMAIN Encoded(addrs) = 1..len
      BY <1>1 DEF Encoded
    <2>2. DOMAIN Encoded(addrs) = 1..Len(Encoded(addrs)) /\ Len(Encoded(addrs)) \in Nat
      BY <1>2, LenProperties
    <2> QED
      BY <1>1, <2>1, <2>2
  <1>4. /\ some \in Seq(Seq(Nat)) /\ Len(some) = len + 1
        /\ some[len + 1] = EncodeAddr(e)
        /\ \A i \in 1..len : some[i] = Encoded(addrs)[i]
    <2>1. /\ Append(Encoded(addrs), EncodeAddr(e)) \in Seq(Seq(Nat))
          /\ Len(Append(Encoded(addrs), EncodeAddr(e))) = Len(Encoded(addrs)) + 1
          /\ Append(Encoded(addrs), EncodeAddr(e))[Len(Encoded(addrs)) + 1] = EncodeAddr(e)
          /\ \A i \in 1..Len(Encoded(addrs)) :
               Append(Encoded(addrs), EncodeAddr(e))[i] = Encoded(addrs)[i]
      BY <1>2, AppendFacts
    <2> HIDE DEF len
    <2>2. \A i \in 1..len :
            Append(Encoded(addrs), EncodeAddr(e))[i] = Encoded(addrs)[i]
      BY <1>3, <2>1
    <2>3. Append(Encoded(addrs), EncodeAddr(e))[len + 1] = EncodeAddr(e)
      BY <1>3, <2>1
    <2> QED
      BY <1>3, <2>1, <2>2, <2>3
  <1> HIDE DEF some
  <1>5. all \in Seq(Seq(Nat)) /\ Len(all) = len + 1
    <2>1. all \in Seq(Seq(Nat))
      BY <1>1, EncodedType
    <2>2. DOMAIN all = 1..len + 1
      BY <1>1 DEF Encoded
    <2>3. DOMAIN all = 1..Len(all) /\ Len(all) \in Nat
      BY <2>1, LenProperties
    <2> HIDE DEF all
    <2> QED
      BY <1>1, <2>1, <2>2, <2>3
  <1>6. ASSUME NEW i \in 1..len + 1
        PROVE  all[i] = some[i]
    <2>1. all[i] = EncodeAddr(longer[i])
      BY <1>1 DEF Encoded
    <2>2. CASE i = len + 1
      BY <1>1, <1>4, <2>1, <2>2
    <2>3. CASE i # len + 1
      <3>1. i \in 1..len
        BY <1>1, <2>3
      <3>2. Encoded(addrs)[i] = EncodeAddr(addrs[i])
        BY <1>1, <3>1 DEF Encoded
      <3> QED
        BY <1>1, <1>4, <2>1, <3>1, <3>2
    <2> QED
      BY <2>2, <2>3
  <1> HIDE DEF all
  <1>7. all = some
    BY <1>4, <1>5, <1>6, SeqEqual
  <1>8. FlattenSeq(some) = FlattenSeq(Encoded(addrs)) \o EncodeAddr(e)
    BY <1>2, FlattenAppend DEF some
  <1> QED
    BY <1>7, <1>8 DEF AddrBytes, all, longer

(* The positions of the addresses, turn by turn.                           *)
PositionStep(f, b, n) == IF n = 1 THEN 5 ELSE NextAddr(b, f[n - 1])

LEMMA PositionsExist ==
  ASSUME NEW b
  PROVE  \E f : f = [n \in 1..(MaxAddrs + 1) |-> PositionStep(f, b, n)]
  <1> DEFINE turn == [p \in Nat \X Nat |-> NextAddr(b, p[1])]
  <1>1. MaxAddrs \in Nat \ {0}
    BY LimitAssumption
  <1>2. turn \in [Nat \X Nat -> Nat]
    <2>1. ASSUME NEW at \in Nat
          PROVE  NextAddr(b, at) \in Nat
      BY DEF NextAddr, AddrSize
    <2> QED
      BY <2>1
  <1> HIDE DEF turn
  <1>3. PICK f : IsRun(f, Nat, MaxAddrs, 5, turn)
    BY <1>1, <1>2, Loop
  <1> DEFINE g == [n \in 1..(MaxAddrs + 1) |-> f[n - 1]]
  <1>4. ASSUME NEW n \in 1..(MaxAddrs + 1)
        PROVE  g[n] = PositionStep(g, b, n)
    <2>1. CASE n = 1
      <3>1. g[1] = f[0]
        BY <1>1
      <3> QED
        BY <1>3, <2>1, <3>1 DEF IsRun, PositionStep
    <2>2. CASE n # 1
      <3>1. /\ n - 1 \in 1..MaxAddrs /\ n - 1 \in Nat /\ (n - 1) - 1 \in 0..MaxAddrs
            /\ n - 1 \in 1..(MaxAddrs + 1)
        BY <1>1, <2>2
      <3>2. f[(n - 1) - 1] \in Nat
        BY <1>3, <3>1 DEF IsRun
      <3>3. turn[<<f[(n - 1) - 1], n - 1>>] = NextAddr(b, f[(n - 1) - 1])
        BY <3>1, <3>2 DEF turn
      <3>4. f[n - 1] = NextAddr(b, f[(n - 1) - 1])
        BY <1>3, <3>1, <3>3 DEF IsRun
      <3>5. g[n] = f[n - 1] /\ g[n - 1] = f[(n - 1) - 1]
        BY <3>1
      <3> QED
        BY <2>2, <3>4, <3>5 DEF PositionStep
    <2> QED
      BY <2>1, <2>2
  <1>5. g = [n \in 1..(MaxAddrs + 1) |-> g[n]]
    OBVIOUS
  <1> HIDE DEF g
  <1>6. g = [n \in 1..(MaxAddrs + 1) |-> PositionStep(g, b, n)]
    BY <1>4, <1>5
  <1> QED
    BY <1>6

LEMMA PositionTurns ==
  ASSUME NEW b
  PROVE  /\ AddrPositions(b)[1] = 5
         /\ \A n \in 1..MaxAddrs :
              AddrPositions(b)[n + 1] = NextAddr(b, AddrPositions(b)[n])
  <1> DEFINE f == CHOOSE g : g = [n \in 1..(MaxAddrs + 1) |-> PositionStep(g, b, n)]
  <1>1. AddrPositions(b) = f
    BY DEF AddrPositions, PositionStep
  <1>2. f = [n \in 1..(MaxAddrs + 1) |-> PositionStep(f, b, n)]
    BY PositionsExist
  <1> HIDE DEF f
  <1>3. MaxAddrs \in Nat \ {0}
    BY LimitAssumption
  <1>4. ASSUME NEW n \in 1..(MaxAddrs + 1)
        PROVE  f[n] = PositionStep(f, b, n)
    BY <1>2
  <1>5. f[1] = 5
    BY <1>3, <1>4 DEF PositionStep
  <1>6. ASSUME NEW n \in 1..MaxAddrs
        PROVE  f[n + 1] = NextAddr(b, f[n])
    <2>1. n + 1 \in 1..(MaxAddrs + 1) /\ n + 1 # 1 /\ (n + 1) - 1 = n
      BY <1>3
    <2> QED
      BY <1>4, <2>1 DEF PositionStep
  <1> QED
    BY <1>1, <1>5, <1>6

(* The addresses that follow the fourth byte are read one by one, up to    *)
(* the one that is not whole.                                              *)
AddrsRead(addrs, b) ==
  LET end == 4 + Len(AddrBytes(addrs))
      position == AddrPositions(b)
  IN /\ position[Len(addrs) + 1] = IF end <= Len(b) THEN end + 1 ELSE 0
     /\ end <= Len(b) =>
          \A i \in 1..Len(addrs) : <<b[position[i]], b[position[i] + 1]>> = addrs[i]

LEMMA AddrsAreRead ==
  ASSUME NEW all \in Seq(Nat), NEW b \in Seq(Nat), Begins(b, all), Len(b) >= 4
  PROVE  \A addrs \in Seq(IpAddress) :
           Len(addrs) <= MaxAddrs /\ At(AddrBytes(addrs), all, 4) => AddrsRead(addrs, b)
  <1> DEFINE G == {addrs \in Seq(IpAddress) :
                     Len(addrs) <= MaxAddrs /\ At(AddrBytes(addrs), all, 4)
                       => AddrsRead(addrs, b)}
             position == AddrPositions(b)
  <1>0. /\ Len(all) \in Nat /\ Len(b) \in Nat /\ DOMAIN b = 1..Len(b)
        /\ Len(b) <= Len(all) /\ MaxAddrs \in Nat
        /\ \A i \in 1..Len(b) : b[i] = all[i]
    BY LenProperties, LimitAssumption DEF Begins
  <1>1. <<>> \in G
    <2>1. Len(<<>>) = 0 /\ <<>> \in Seq(IpAddress)
      BY EmptySeq
    <2>2. Encoded(<<>>) = <<>>
      BY DEF Encoded
    <2>3. Len(AddrBytes(<<>>)) = 0
      BY <2>2, FlattenEmpty, EmptySeq DEF AddrBytes
    <2>4. AddrsRead(<<>>, b)
      BY <1>0, <2>1, <2>3, PositionTurns DEF AddrsRead
    <2> QED
      BY <2>1, <2>4
  <1>2. ASSUME NEW addrs \in G, NEW e \in IpAddress
        PROVE  Append(addrs, e) \in G
    <2> DEFINE longer == Append(addrs, e)
               len == Len(addrs)
               some == AddrBytes(addrs)
               code == EncodeAddr(e)
               more == AddrBytes(longer)
               end == 4 + Len(some)
    <2>1. /\ len \in Nat /\ longer \in Seq(IpAddress) /\ Len(longer) = len + 1
          /\ longer[len + 1] = e
          /\ \A i \in 1..len : longer[i] = addrs[i]
      BY AppendFacts
    <2> SUFFICES ASSUME Len(longer) <= MaxAddrs, At(more, all, 4)
                 PROVE  AddrsRead(longer, b)
      BY <2>1
    <2>2. Len(addrs) <= MaxAddrs /\ At(some, all, 4) => AddrsRead(addrs, b)
      OBVIOUS
    <2>3. addrs \in Seq(IpAddress)
      OBVIOUS
    <2>4. /\ e[1] \in Families /\ e = <<e[1], e[2]>> /\ AddrSize(e[1]) \in {2, 3}
          /\ code \in Seq(Nat) /\ Len(code) = AddrSize(e[1])
          /\ code[1] = e[1] /\ code[2] = e[2]
      BY EncodeAddrFacts
    <2>5. some \in Seq(Nat) /\ Len(some) \in Nat
      BY <2>3, EncodedType, LenProperties
    <2>6. more = some \o code
      BY <2>3, AddrBytesAppend
    <2> HIDE DEF G, longer, some, code, more
    <2>15. Len(code) \in Nat /\ Len(code) >= 2
      BY <2>4
    <2>16. end \in Nat
      BY <2>5
    <2>18. Len(all) \in Nat /\ Len(b) \in Nat
      BY <1>0
    <2>7. At(some, all, 4) /\ At(code, all, 4 + Len(some))
      BY <2>4, <2>5, <2>6, AtConcat
    <2>8. Len(more) = Len(some) + Len(code)
      BY <2>4, <2>5, <2>6, ConcatFacts
    <2>9. AddrsRead(addrs, b)
      BY <1>0, <2>1, <2>2, <2>7
    <2> HIDE DEF position, len
    <2>10. /\ position[len + 1] = IF end <= Len(b) THEN end + 1 ELSE 0
           /\ end <= Len(b) =>
                \A i \in 1..len : <<b[position[i]], b[position[i] + 1]>> = addrs[i]
      BY <2>9 DEF AddrsRead, position, len, some
    <2>11. position[(len + 1) + 1] = NextAddr(b, position[len + 1])
      <3>1. len + 1 \in 1..MaxAddrs
        BY <1>0, <2>1
      <3> QED
        BY <3>1, PositionTurns DEF position
    <2>12. end \in Nat /\ end + 1 <= Len(all) /\ end + 2 <= Len(all)
           /\ all[end + 1] = e[1] /\ all[end + 2] = e[2]
      <3>1. end + Len(code) <= Len(all) /\ \A i \in 1..Len(code) : all[end + i] = code[i]
        BY <2>7 DEF At
      <3>2. 1 \in 1..Len(code) /\ 2 \in 1..Len(code)
        BY <2>4
      <3> HIDE DEF end
      <3>3. all[end + 1] = e[1] /\ all[end + 2] = e[2]
        BY <2>4, <3>1, <3>2
      <3>4. end + 1 <= Len(all) /\ end + 2 <= Len(all)
        BY <2>15, <2>16, <2>18, <3>1, SMTT(30)
      <3> QED
        BY <2>16, <3>3, <3>4
    <2>17. 4 + Len(more) = end + Len(code)
      BY <2>4, <2>5, <2>8
    <2> HIDE DEF end
    <2>13. CASE end + 1 <= Len(b)
      <3>0. end <= Len(b) /\ end + 1 \in 1..Len(b)
        BY <1>0, <2>13, <2>16
      <3>1. position[len + 1] = end + 1 /\ end + 1 \in DOMAIN b /\ b[end + 1] = e[1]
        BY <1>0, <2>10, <2>12, <3>0
      <3>2. NextAddr(b, end + 1) = IF end + Len(code) <= Len(b)
                                     THEN end + Len(code) + 1 ELSE 0
        <4>1. (end + 1) + AddrSize(e[1]) - 1 = end + Len(code)
              /\ (end + 1) + AddrSize(e[1]) = end + Len(code) + 1
          BY <2>4, <2>15, <2>16
        <4> QED
          BY <2>4, <3>1, <4>1 DEF NextAddr
      <3>3. ASSUME end + Len(code) <= Len(b)
            PROVE  \A i \in 1..(len + 1) :
                     <<b[position[i]], b[position[i] + 1]>> = longer[i]
        <4>1. end + 2 \in 1..Len(b) /\ (end + 1) + 1 = end + 2
          BY <2>15, <2>16, <2>18, <3>3
        <4>2. b[end + 2] = e[2]
          BY <1>0, <2>12, <4>1
        <4>3. <<b[position[len + 1]], b[position[len + 1] + 1]>> = longer[len + 1]
          BY <2>1, <2>4, <3>1, <4>1, <4>2
        <4>4. ASSUME NEW i \in 1..len
              PROVE  <<b[position[i]], b[position[i] + 1]>> = longer[i]
          <5>1. longer[i] = addrs[i]
            BY <2>1
          <5>2. <<b[position[i]], b[position[i] + 1]>> = addrs[i]
            BY <2>10, <3>0
          <5> QED
            BY <5>1, <5>2
        <4>5. \A i \in 1..(len + 1) : i \in 1..len \/ i = len + 1
          BY <2>1
        <4> QED
          BY <4>3, <4>4, <4>5
      <3> QED
        BY <2>1, <2>11, <2>17, <3>1, <3>2, <3>3 DEF AddrsRead, position, more
    <2>14. CASE ~(end + 1 <= Len(b))
      <3>1. position[len + 1] \notin DOMAIN b
        BY <1>0, <2>10, <2>12, <2>14
      <3>2. NextAddr(b, position[len + 1]) = 0
        BY <3>1 DEF NextAddr
      <3>3. ~(end + Len(code) <= Len(b))
        BY <2>14, <2>15, <2>16, <2>18
      <3> QED
        BY <2>1, <2>11, <2>17, <3>2, <3>3 DEF AddrsRead, position, more
    <2> QED
      BY <2>13, <2>14
  <1>3. G = Seq(IpAddress)
    <2> HIDE DEF G
    <2>1. G \in SUBSET Seq(IpAddress)
      BY DEF G
    <2> QED
      BY <1>1, <1>2, <2>1, SequenceInduction
  <1> QED
    BY <1>3

(* Reader: a field that got through as a whole is read, and no other.      *)
LEMMA FieldRead ==
  ASSUME NEW all \in Seq(Nat), NEW b \in Seq(Nat), Begins(b, all),
         NEW field \in Seq(Nat), NEW k \in Nat, At(Prefixed(field), all, k)
  PROVE  /\ HasField(b, k + 1) <=> k + 1 + Len(field) <= Len(b)
         /\ k + 1 + Len(field) <= Len(b) =>
              /\ Field(b, k + 1) = field
              /\ After(b, k + 1) = k + 1 + Len(field) + 1
  <1> DEFINE len == Len(field)
             one == <<len>>
             whole == one \o field
  <1>1. /\ len \in Nat /\ Len(b) \in Nat /\ Len(all) \in Nat /\ DOMAIN b = 1..Len(b)
        /\ Len(b) <= Len(all) /\ \A i \in 1..Len(b) : b[i] = all[i]
    BY LenProperties DEF Begins
  <1>2. one \in Seq(Nat) /\ Len(one) = 1 /\ one[1] = len
    BY <1>1
  <1>3. At(whole, all, k)
    BY DEF Prefixed
  <1> HIDE DEF one
  <1>4. At(one, all, k) /\ At(field, all, k + Len(one))
    BY <1>2, <1>3, AtConcat
  <1> HIDE DEF whole, len
  <1>5. k + 1 + len <= Len(all) /\ all[k + 1] = len
        /\ \A i \in 1..len : all[k + 1 + i] = field[i]
    <2>1. 1 \in 1..Len(one)
      BY <1>2
    <2>2. all[k + 1] = len
      BY <1>2, <1>4, <2>1 DEF At
    <2>3. (k + 1) + len <= Len(all) /\ \A i \in 1..len : all[(k + 1) + i] = field[i]
      BY <1>2, <1>4 DEF At, len
    <2> QED
      BY <2>2, <2>3
  <1>6. k + 1 <= Len(b) => k + 1 \in DOMAIN b /\ b[k + 1] = len
    BY <1>1, <1>5, SMTT(30)
  <1>7. HasField(b, k + 1) <=> k + 1 + len <= Len(b)
    <2>1. CASE k + 1 <= Len(b)
      BY <1>1, <1>6, <2>1 DEF HasField
    <2>2. CASE ~(k + 1 <= Len(b))
      BY <1>1, <2>2 DEF HasField
    <2> QED
      BY <2>1, <2>2
  <1>8. ASSUME k + 1 + len <= Len(b)
        PROVE  Field(b, k + 1) = field /\ After(b, k + 1) = k + 1 + len + 1
    <2>1. b[k + 1] = len
      BY <1>1, <1>6, <1>8
    <2>2. Field(b, k + 1) = SubSeq(b, k + 1 + 1, k + 1 + len)
      BY <2>1 DEF Field
    <2> DEFINE read == SubSeq(b, k + 1 + 1, k + 1 + len)
    <2>3. /\ k + 1 + 1 \in Int /\ k + 1 + len \in Int
          /\ (k + 1 + len) - (k + 1 + 1) + 1 = len
          /\ \A i \in (k + 1 + 1)..(k + 1 + len) : i \in 1..Len(b)
          /\ ((k + 1 + 1 <= k + 1 + len) <=> len > 0)
      BY <1>1, <1>8
    <2>4. \A i \in (k + 1 + 1)..(k + 1 + len) : b[i] \in Nat
      BY <2>3, ElementOfSeq
    <2>5. /\ read \in Seq(Nat)
          /\ Len(read) = IF k + 1 + 1 <= k + 1 + len
                           THEN (k + 1 + len) - (k + 1 + 1) + 1 ELSE 0
          /\ \A i \in 1..((k + 1 + len) - (k + 1 + 1) + 1) :
               read[i] = b[(k + 1 + 1) + i - 1]
      BY <2>3, <2>4, SubSeqProperties, SMTT(30)
    <2> HIDE DEF read
    <2>6. Len(read) = Len(field)
      BY <1>1, <2>3, <2>5 DEF len
    <2>7. ASSUME NEW i \in 1..len
          PROVE  read[i] = field[i]
      <3>1. /\ (k + 1 + 1) + i - 1 = k + 1 + i
            /\ k + 1 + i \in 1..Len(b)
        BY <1>1, <1>8
      <3>2. i \in 1..((k + 1 + len) - (k + 1 + 1) + 1)
        BY <2>3
      <3>3. read[i] = b[k + 1 + i]
        BY <2>5, <3>1, <3>2
      <3> QED
        BY <1>1, <1>5, <3>1, <3>3
    <2>8. read = field
      BY <2>5, <2>6, <2>7, SeqEqual DEF len
    <2> QED
      BY <2>1, <2>2, <2>8 DEF After, read
  <1> QED
    BY <1>7, <1>8 DEF len

(* The payloads that are encoded, and where their fields end up.           *)
Payloads == [addrs : Seq(IpAddress), name : Text, offline : BOOLEAN,
             user : Text, path : Text, digest : Nat]

Flag(p) == IF p.offline THEN 1 ELSE 0
AddrsEnd(p) == 4 + Len(AddrBytes(Sent(p.addrs)))
NameEnd(p) == AddrsEnd(p) + 1 + Len(NameBytes(p.name))
UserEnd(p) == NameEnd(p) + 1 + Len(TextBytes(p.user))
PathEnd(p) == UserEnd(p) + 2 + Len(TextBytes(p.path))
DigestBytes(p) == IF p.digest = 0 THEN <<0>> ELSE <<Digest, p.digest>>

LEMMA PrefixedFacts ==
  ASSUME NEW field \in Seq(Nat)
  PROVE  /\ Len(field) \in Nat
         /\ Prefixed(field) \in Seq(Nat)
         /\ Len(Prefixed(field)) = 1 + Len(field)
  <1> DEFINE one == <<Len(field)>>
  <1>1. Len(field) \in Nat
    BY LenProperties
  <1>2. one \in Seq(Nat) /\ Len(one) = 1
    BY <1>1
  <1>3. Prefixed(field) = one \o field
    BY DEF Prefixed
  <1> HIDE DEF one
  <1>4. one \o field \in Seq(Nat) /\ Len(one \o field) = Len(one) + Len(field)
    BY <1>2, ConcatFacts
  <1> QED
    BY <1>1, <1>2, <1>3, <1>4

LEMMA FieldTypes ==
  ASSUME NEW p \in Payloads
  PROVE  /\ Sent(p.addrs) \in Seq(IpAddress) /\ Len(Sent(p.addrs)) \in 0..MaxAddrs
         /\ AddrBytes(Sent(p.addrs)) \in Seq(Nat) /\ AddrsEnd(p) \in Nat
         /\ Fitting(p.name, MaxName) \in Text
         /\ NameBytes(p.name) \in Seq(Nat) /\ NameEnd(p) \in Nat
         /\ TextBytes(p.user) \in Seq(Nat) /\ UserEnd(p) \in Nat
         /\ TextBytes(p.path) \in Seq(Nat) /\ PathEnd(p) \in Nat
         /\ DigestBytes(p) \in Seq(Nat) /\ Len(DigestBytes(p)) \in {1, 2}
  <1>1. /\ p.addrs \in Seq(IpAddress) /\ p.name \in Text /\ p.user \in Text
        /\ p.path \in Text /\ p.digest \in Nat
    BY DEF Payloads
  <1>2. Sent(p.addrs) \in Seq(IpAddress) /\ Len(Sent(p.addrs)) \in 0..MaxAddrs
    BY <1>1, SentFacts
  <1>3. AddrBytes(Sent(p.addrs)) \in Seq(Nat)
    BY <1>2, EncodedType
  <1>4. Fitting(p.name, MaxName) \in Text
    BY <1>1, LimitAssumption, NameFits
  <1>5. NameBytes(p.name) \in Seq(Nat)
    BY <1>4, TextBytesType DEF NameBytes
  <1>6. TextBytes(p.user) \in Seq(Nat) /\ TextBytes(p.path) \in Seq(Nat)
    BY <1>1, TextBytesFacts
  <1>7. DigestBytes(p) \in Seq(Nat) /\ Len(DigestBytes(p)) \in {1, 2}
    BY <1>1 DEF DigestBytes, Digest
  <1>8. /\ Len(AddrBytes(Sent(p.addrs))) \in Nat /\ Len(NameBytes(p.name)) \in Nat
        /\ Len(TextBytes(p.user)) \in Nat /\ Len(TextBytes(p.path)) \in Nat
    BY <1>3, <1>5, <1>6, LenProperties
  <1>9. AddrsEnd(p) \in Nat /\ NameEnd(p) \in Nat /\ UserEnd(p) \in Nat /\ PathEnd(p) \in Nat
    BY <1>8 DEF AddrsEnd, NameEnd, UserEnd, PathEnd
  <1> QED
    BY <1>2, <1>3, <1>4, <1>5, <1>6, <1>7, <1>9

LEMMA OfflineLayout ==
  ASSUME NEW p \in Payloads, p.offline
  PROVE  LET tail == EncodeOffline(p)
         IN /\ tail \in Seq(Nat)
            /\ NameEnd(p) + Len(tail) = PathEnd(p) + Len(DigestBytes(p))
            /\ \A all \in Seq(Nat) : At(tail, all, NameEnd(p)) =>
                 /\ At(Prefixed(TextBytes(p.user)), all, NameEnd(p))
                 /\ At(Prefixed(TextBytes(p.path)), all, UserEnd(p) + 1)
                 /\ At(DigestBytes(p), all, PathEnd(p))
  <1> DEFINE user == Prefixed(TextBytes(p.user))
             seed == <<Seed>>
             path == Prefixed(TextBytes(p.path))
             digest == DigestBytes(p)
             first == user \o seed
             second == first \o path
             tail == second \o digest
  <1>1. EncodeOffline(p) = tail
    BY DEF EncodeOffline, DigestBytes
  <1>2. /\ user \in Seq(Nat) /\ Len(user) = 1 + Len(TextBytes(p.user))
        /\ path \in Seq(Nat) /\ Len(path) = 1 + Len(TextBytes(p.path))
        /\ Len(TextBytes(p.user)) \in Nat /\ Len(TextBytes(p.path)) \in Nat
    BY FieldTypes, PrefixedFacts
  <1>3. seed \in Seq(Nat) /\ Len(seed) = 1
    BY DEF Seed
  <1>4. digest \in Seq(Nat) /\ Len(digest) \in Nat /\ NameEnd(p) \in Nat
    BY FieldTypes, LenProperties
  <1> HIDE DEF user, seed, path, digest
  <1>5. first \in Seq(Nat) /\ Len(first) = Len(user) + Len(seed)
    <2>1. user \in Seq(Nat) /\ seed \in Seq(Nat)
      BY <1>2, <1>3
    <2> QED
      BY <2>1, ConcatFacts
  <1>6. second \in Seq(Nat) /\ Len(second) = Len(first) + Len(path)
    <2> HIDE DEF first
    <2> QED
      BY <1>2, <1>5, ConcatFacts
  <1>7. tail \in Seq(Nat) /\ Len(tail) = Len(second) + Len(digest)
    <2> HIDE DEF second
    <2> QED
      BY <1>4, <1>6, ConcatFacts
  <1> HIDE DEF first, second, tail
  <1>8. /\ NameEnd(p) + Len(user) = UserEnd(p)
        /\ NameEnd(p) + Len(first) = UserEnd(p) + 1
        /\ NameEnd(p) + Len(second) = PathEnd(p)
        /\ NameEnd(p) + Len(tail) = PathEnd(p) + Len(digest)
    <2> DEFINE k == NameEnd(p)
               m == Len(TextBytes(p.user))
               n == Len(TextBytes(p.path))
    <2>1. UserEnd(p) = k + 1 + m /\ PathEnd(p) = UserEnd(p) + 2 + n
      BY DEF UserEnd, PathEnd
    <2>2. k \in Nat /\ m \in Nat /\ n \in Nat /\ Len(digest) \in Nat
      BY <1>2, <1>4
    <2>3. /\ Len(user) = 1 + m /\ Len(first) = (1 + m) + 1
          /\ Len(second) = ((1 + m) + 1) + (1 + n)
      BY <1>2, <1>3, <1>5, <1>6
    <2> HIDE DEF k, m, n
    <2>4. Len(tail) = (((1 + m) + 1) + (1 + n)) + Len(digest)
      BY <1>7, <2>3
    <2> QED
      BY <2>1, <2>2, <2>3, <2>4 DEF k
  <1>9. ASSUME NEW all \in Seq(Nat), At(tail, all, NameEnd(p))
        PROVE  /\ At(user, all, NameEnd(p))
               /\ At(path, all, UserEnd(p) + 1)
               /\ At(digest, all, PathEnd(p))
    <2>1. At(second, all, NameEnd(p)) /\ At(digest, all, NameEnd(p) + Len(second))
      BY <1>4, <1>6, <1>9, AtConcat DEF tail
    <2>2. At(first, all, NameEnd(p)) /\ At(path, all, NameEnd(p) + Len(first))
      BY <1>2, <1>4, <1>5, <2>1, AtConcat DEF second
    <2>3. At(user, all, NameEnd(p))
      BY <1>2, <1>3, <1>4, <2>2, AtConcat DEF first
    <2> QED
      BY <1>8, <2>1, <2>2, <2>3
  <1> QED
    BY <1>1, <1>7, <1>8, <1>9 DEF user, path, digest

LEMMA Layout ==
  ASSUME NEW p \in Payloads
  PROVE  LET all == Encode(p)
         IN /\ all \in Seq(Nat)
            /\ EncodeOffline(p) \in Seq(Nat)
            /\ Len(all) = NameEnd(p) + Len(EncodeOffline(p))
            /\ 4 <= Len(all)
            /\ all[1] = Version /\ all[2] = Flag(p) /\ all[4] = Len(Sent(p.addrs))
            /\ At(AddrBytes(Sent(p.addrs)), all, 4)
            /\ At(Prefixed(NameBytes(p.name)), all, AddrsEnd(p))
            /\ At(EncodeOffline(p), all, NameEnd(p))
  <1> DEFINE head == <<Version, Flag(p), Session>>
             count == <<Len(Sent(p.addrs))>>
             addrs == AddrBytes(Sent(p.addrs))
             counted == count \o addrs
             name == Prefixed(NameBytes(p.name))
             tail == EncodeOffline(p)
             first == head \o counted
             second == first \o name
             all == second \o tail
  <1>0. /\ addrs \in Seq(Nat) /\ Len(Sent(p.addrs)) \in Nat
        /\ NameBytes(p.name) \in Seq(Nat)
        /\ AddrsEnd(p) \in Nat /\ NameEnd(p) \in Nat
    BY FieldTypes
  <1>1. Encode(p) = all
    <2>1. EncodeAddrs(p.addrs) = counted
      BY DEF EncodeAddrs, Sent, AddrBytes, Encoded
    <2> QED
      BY <2>1 DEF Encode, Flag
  <1>2. head \in Seq(Nat) /\ Len(head) = 3 /\ head[1] = Version /\ head[2] = Flag(p)
    BY DEF Version, Session, Flag
  <1>3. count \in Seq(Nat) /\ Len(count) = 1 /\ count[1] = Len(Sent(p.addrs))
    BY <1>0
  <1>4. /\ name \in Seq(Nat) /\ Len(name) = 1 + Len(NameBytes(p.name))
        /\ Len(NameBytes(p.name)) \in Nat /\ Len(addrs) \in Nat
    BY <1>0, PrefixedFacts, LenProperties
  <1>5. tail \in Seq(Nat) /\ Len(tail) \in Nat
    <2>1. CASE p.offline
      BY <2>1, OfflineLayout, LenProperties
    <2>2. CASE ~p.offline
      <3>1. tail = <<>>
        BY <2>2 DEF EncodeOffline
      <3> QED
        BY <3>1, EmptySeq
    <2> QED
      BY <2>1, <2>2
  <1> HIDE DEF head, count, addrs, name, tail
  <1>6. counted \in Seq(Nat) /\ Len(counted) = Len(count) + Len(addrs)
    BY <1>0, <1>3, ConcatFacts
  <1>7. first \in Seq(Nat) /\ Len(first) = Len(head) + Len(counted)
    <2> HIDE DEF counted
    <2> QED
      BY <1>2, <1>6, ConcatFacts
  <1>8. second \in Seq(Nat) /\ Len(second) = Len(first) + Len(name)
    <2> HIDE DEF first
    <2> QED
      BY <1>4, <1>7, ConcatFacts
  <1>9. all \in Seq(Nat) /\ Len(all) = Len(second) + Len(tail)
    <2> HIDE DEF second
    <2> QED
      BY <1>5, <1>8, ConcatFacts
  <1> HIDE DEF counted, first, second, all
  <1>10. Len(first) = AddrsEnd(p) /\ Len(second) = NameEnd(p)
    BY <1>0, <1>2, <1>3, <1>4, <1>6, <1>7, <1>8 DEF AddrsEnd, NameEnd, addrs
  <1>11. 0 \in Nat /\ 3 \in Nat /\ 0 + 3 = 3 /\ 3 + 1 = 4
    OBVIOUS
  <1>12. At(second \o tail, all, 0)
    BY <1>9, AtSelf DEF all
  <1>13. At(second, all, 0) /\ At(tail, all, 0 + Len(second))
    BY <1>5, <1>8, <1>9, <1>11, <1>12, AtConcat
  <1>14. At(first, all, 0) /\ At(name, all, 0 + Len(first))
    BY <1>4, <1>7, <1>9, <1>11, <1>13, AtConcat DEF second
  <1>15. At(head, all, 0) /\ At(counted, all, 0 + Len(head))
    BY <1>2, <1>6, <1>9, <1>11, <1>14, AtConcat DEF first
  <1>16. At(counted, all, 3)
    BY <1>2, <1>11, <1>15
  <1>17. At(count, all, 3) /\ At(addrs, all, 3 + Len(count))
    BY <1>0, <1>3, <1>9, <1>11, <1>16, AtConcat DEF counted
  <1>18. all[1] = Version /\ all[2] = Flag(p)
    <2>1. \A i \in 1..Len(head) : all[0 + i] = head[i]
      BY <1>15 DEF At
    <2>2. 1 \in 1..Len(head) /\ 2 \in 1..Len(head)
      BY <1>2
    <2>3. all[0 + 1] = head[1] /\ all[0 + 2] = head[2]
      BY <2>1, <2>2
    <2> QED
      BY <1>2, <2>3
  <1>19. all[4] = Len(Sent(p.addrs))
    <2>1. \A i \in 1..Len(count) : all[3 + i] = count[i]
      BY <1>17 DEF At
    <2>2. 1 \in 1..Len(count)
      BY <1>3
    <2>3. all[3 + 1] = count[1]
      BY <2>1, <2>2
    <2> QED
      BY <1>3, <2>3
  <1>20. 4 <= Len(all)
    BY <1>2, <1>3, <1>4, <1>5, <1>6, <1>7, <1>8, <1>9
  <1>21. 0 + Len(second) = NameEnd(p) /\ 0 + Len(first) = AddrsEnd(p) /\ 3 + Len(count) = 4
    BY <1>0, <1>3, <1>10
  <1> QED
    BY <1>1, <1>5, <1>9, <1>10, <1>13, <1>14, <1>17, <1>18, <1>19, <1>20, <1>21
       DEF addrs, name, tail

LEMMA HeaderRead ==
  ASSUME NEW p \in Payloads, NEW b \in Seq(Nat), Begins(b, Encode(p)), Len(b) >= 4
  PROVE  /\ b[1] = Version /\ b[2] = Flag(p)
         /\ AfterAddrs(b) = IF AddrsEnd(p) <= Len(b) THEN AddrsEnd(p) + 1 ELSE 0
         /\ AddrsEnd(p) <= Len(b) => Addrs(b) = Sent(p.addrs)
  <1> DEFINE all == Encode(p)
             sent == Sent(p.addrs)
             position == AddrPositions(b)
  <1>1. /\ all \in Seq(Nat) /\ all[1] = Version /\ all[2] = Flag(p) /\ all[4] = Len(sent)
        /\ At(AddrBytes(sent), all, 4)
    BY Layout
  <1>2. sent \in Seq(IpAddress) /\ Len(sent) \in 0..MaxAddrs /\ AddrsEnd(p) \in Nat
    BY FieldTypes
  <1>3. AddrsEnd(p) = 4 + Len(AddrBytes(sent)) /\ MaxAddrs \in Nat
    BY LimitAssumption DEF AddrsEnd
  <1> HIDE DEF all, sent
  <1>4. Len(b) \in Nat /\ DOMAIN b = 1..Len(b) /\ \A i \in 1..Len(b) : b[i] = all[i]
    BY LenProperties DEF Begins, all
  <1>5. 1 \in 1..Len(b) /\ 2 \in 1..Len(b) /\ 4 \in 1..Len(b)
    BY <1>4
  <1>6. b[1] = Version /\ b[2] = Flag(p) /\ b[4] = Len(sent)
    BY <1>1, <1>4, <1>5
  <1>7. AddrsRead(sent, b)
    <2>1. Begins(b, all) /\ Len(sent) <= MaxAddrs
      BY <1>2, <1>3 DEF all
    <2> QED
      BY <1>1, <1>2, <2>1, AddrsAreRead
  <1>8. /\ position[Len(sent) + 1] = IF AddrsEnd(p) <= Len(b) THEN AddrsEnd(p) + 1 ELSE 0
        /\ AddrsEnd(p) <= Len(b) =>
             \A i \in 1..Len(sent) : <<b[position[i]], b[position[i] + 1]>> = sent[i]
    BY <1>3, <1>7 DEF AddrsRead
  <1> HIDE DEF position
  <1>9. AfterAddrs(b) = IF AddrsEnd(p) <= Len(b) THEN AddrsEnd(p) + 1 ELSE 0
    <2>1. 4 \in DOMAIN b /\ b[4] <= MaxAddrs
      BY <1>2, <1>3, <1>4, <1>5, <1>6
    <2> QED
      BY <1>6, <1>8, <2>1 DEF AfterAddrs, position
  <1>10. ASSUME AddrsEnd(p) <= Len(b)
         PROVE  Addrs(b) = sent
    <2>1. Addrs(b) = [n \in 1..Len(sent) |-> <<b[position[n]], b[position[n] + 1]>>]
      BY <1>6 DEF Addrs, position
    <2>2. sent = [n \in 1..Len(sent) |-> sent[n]]
      BY <1>2, LenProperties
    <2> QED
      BY <1>8, <1>10, <2>1, <2>2
  <1> QED
    BY <1>6, <1>9, <1>10 DEF sent

LEMMA NameRead ==
  ASSUME NEW p \in Payloads, NEW b \in Seq(Nat), Begins(b, Encode(p))
  PROVE  LET at == AddrsEnd(p) + 1
         IN /\ DecodeText(b, at) <=> NameEnd(p) <= Len(b)
            /\ NameEnd(p) <= Len(b) =>
                 /\ Characters(Field(b, at)) = Fitting(p.name, MaxName)
                 /\ After(b, at) = NameEnd(p) + 1
  <1> DEFINE k == AddrsEnd(p)
             name == NameBytes(p.name)
             fitting == Fitting(p.name, MaxName)
  <1>1. k \in Nat /\ name \in Seq(Nat) /\ fitting \in Text
    BY FieldTypes
  <1>2. Encode(p) \in Seq(Nat) /\ At(Prefixed(name), Encode(p), k)
    BY Layout
  <1>3. NameEnd(p) = k + 1 + Len(name)
    BY DEF NameEnd
  <1>4. ValidText(name) /\ Characters(name) = fitting
    BY <1>1, CharactersOfBytes DEF NameBytes
  <1> HIDE DEF k, name
  <1>5. /\ HasField(b, k + 1) <=> k + 1 + Len(name) <= Len(b)
        /\ k + 1 + Len(name) <= Len(b) =>
             Field(b, k + 1) = name /\ After(b, k + 1) = k + 1 + Len(name) + 1
    BY <1>1, <1>2, FieldRead
  <1> QED
    BY <1>3, <1>4, <1>5 DEF DecodeText, k

Online(p) == [None EXCEPT !.addrs = Sent(p.addrs), !.name = Fitting(p.name, MaxName)]
Offline(p) == [Online(p) EXCEPT !.offline = TRUE,
                                !.user = Characters(TextBytes(p.user)),
                                !.path = Characters(TextBytes(p.path)),
                                !.digest = p.digest]

LEMMA DecodeCases ==
  ASSUME NEW p \in Payloads, NEW b \in Seq(Nat), Begins(b, Encode(p))
  PROVE  /\ ~(NameEnd(p) <= Len(b)) => Decode(b) = None
         /\ NameEnd(p) <= Len(b) =>
              Decode(b) = IF p.offline THEN DecodeOffline(b, NameEnd(p) + 1, Online(p))
                                       ELSE Online(p)
  <1> DEFINE at == AddrsEnd(p) + 1
             online == [None EXCEPT !.addrs = Addrs(b), !.name = Characters(Field(b, AfterAddrs(b)))]
  <1>1. /\ Len(b) \in Nat /\ AddrsEnd(p) \in Nat /\ NameEnd(p) \in Nat
        /\ Len(AddrBytes(Sent(p.addrs))) \in Nat /\ Len(NameBytes(p.name)) \in Nat
    BY FieldTypes, LenProperties
  <1>2. 4 <= AddrsEnd(p) /\ AddrsEnd(p) <= NameEnd(p)
    BY <1>1 DEF AddrsEnd, NameEnd
  <1>3. Decode(b) =
          IF Len(b) < 4 \/ b[1] # Version \/ AfterAddrs(b) = 0 \/ ~DecodeText(b, AfterAddrs(b))
            THEN None
          ELSE IF b[2] = 1 THEN DecodeOffline(b, After(b, AfterAddrs(b)), online)
          ELSE online
    BY DEF Decode
  <1>4. CASE ~(NameEnd(p) <= Len(b))
    <2>1. CASE Len(b) < 4
      BY <1>3, <1>4, <2>1
    <2>2. CASE ~(Len(b) < 4) /\ AddrsEnd(p) <= Len(b)
      <3>1. AfterAddrs(b) = at
        BY <1>1, <2>2, HeaderRead
      <3>2. ~DecodeText(b, at)
        BY <1>4, NameRead
      <3> QED
        BY <1>3, <1>4, <3>1, <3>2
    <2>3. CASE ~(Len(b) < 4) /\ ~(AddrsEnd(p) <= Len(b))
      <3>1. AfterAddrs(b) = 0
        BY <1>1, <2>3, HeaderRead
      <3> QED
        BY <1>3, <1>4, <3>1
    <2> QED
      BY <2>1, <2>2, <2>3
  <1>5. CASE NameEnd(p) <= Len(b)
    <2>1. AddrsEnd(p) <= Len(b) /\ Len(b) >= 4 /\ ~(Len(b) < 4)
      BY <1>1, <1>2, <1>5
    <2>2. b[1] = Version /\ b[2] = Flag(p) /\ AfterAddrs(b) = at /\ Addrs(b) = Sent(p.addrs)
      BY <2>1, HeaderRead
    <2>3. /\ DecodeText(b, at) /\ Characters(Field(b, at)) = Fitting(p.name, MaxName)
          /\ After(b, at) = NameEnd(p) + 1
      BY <1>5, NameRead
    <2>4. at # 0
      BY <1>1
    <2> HIDE DEF at
    <2>5. online = Online(p)
      BY <2>2, <2>3 DEF Online
    <2> HIDE DEF online
    <2>6. b[2] = 1 <=> p.offline
      BY <2>2 DEF Flag
    <2>7. Decode(b) = IF b[2] = 1 THEN DecodeOffline(b, After(b, at), online) ELSE online
      BY <1>3, <2>1, <2>2, <2>3, <2>4
    <2>8. Decode(b) = IF p.offline THEN DecodeOffline(b, NameEnd(p) + 1, Online(p))
                                   ELSE Online(p)
      BY <2>3, <2>5, <2>6, <2>7
    <2> QED
      BY <1>5, <2>8
  <1> QED
    BY <1>4, <1>5

LEMMA OfflineRead ==
  ASSUME NEW p \in Payloads, p.offline, NEW b \in Seq(Nat), Begins(b, Encode(p))
  PROVE  LET d == DecodeOffline(b, NameEnd(p) + 1, Online(p))
         IN /\ Len(b) < Len(Encode(p)) => d = None
            /\ d = None \/ d = Offline(p)
            /\ Len(b) = Len(Encode(p)) /\ Fits(p.user) /\ Fits(p.path) => d = Offline(p)
  <1> DEFINE all == Encode(p)
             userAt == NameEnd(p) + 1
             seedAt == After(b, userAt)
             pathAt == seedAt + 1
             digestAt == After(b, pathAt)
             user == TextBytes(p.user)
             path == TextBytes(p.path)
             digest == DigestBytes(p)
             read == [Online(p) EXCEPT !.offline = TRUE,
                                       !.user = Characters(Field(b, userAt)),
                                       !.path = Characters(Field(b, pathAt)),
                                       !.digest = DigestAt(b, digestAt)]
             whole == /\ DecodeText(b, userAt)
                      /\ seedAt \in DOMAIN b
                      /\ DecodeText(b, pathAt)
                      /\ HasDigest(b, digestAt)
             d == DecodeOffline(b, userAt, Online(p))
  <1>1. d = IF whole THEN read ELSE None
    BY DEF DecodeOffline
  <1>2. /\ user \in Seq(Nat) /\ path \in Seq(Nat)
        /\ digest \in Seq(Nat) /\ Len(digest) \in {1, 2}
        /\ NameEnd(p) \in Nat /\ UserEnd(p) \in Nat /\ PathEnd(p) \in Nat
    BY FieldTypes
  <1>3. /\ all \in Seq(Nat) /\ Len(all) = PathEnd(p) + Len(digest)
        /\ At(Prefixed(user), all, NameEnd(p))
        /\ At(Prefixed(path), all, UserEnd(p) + 1)
        /\ At(digest, all, PathEnd(p))
    BY Layout, OfflineLayout
  <1>4. /\ UserEnd(p) = NameEnd(p) + 1 + Len(user)
        /\ PathEnd(p) = (UserEnd(p) + 1) + 1 + Len(path)
        /\ Len(user) \in Nat /\ Len(path) \in Nat
    <2>1. Len(user) \in Nat /\ Len(path) \in Nat
      BY <1>2, LenProperties
    <2>2. UserEnd(p) = NameEnd(p) + 1 + Len(user) /\ PathEnd(p) = UserEnd(p) + 2 + Len(path)
      BY DEF UserEnd, PathEnd
    <2> QED
      BY <1>2, <2>1, <2>2
  <1>5. /\ HasField(b, userAt) <=> UserEnd(p) <= Len(b)
        /\ UserEnd(p) <= Len(b) => Field(b, userAt) = user /\ seedAt = UserEnd(p) + 1
    <2>1. user \in Seq(Nat) /\ NameEnd(p) \in Nat
      BY <1>2
    <2> DEFINE k == NameEnd(p)
    <2>2. k \in Nat /\ all \in Seq(Nat) /\ At(Prefixed(user), all, k) /\ Begins(b, all)
      BY <1>3, <2>1
    <2> HIDE DEF user, all, k
    <2>3. /\ HasField(b, k + 1) <=> k + 1 + Len(user) <= Len(b)
          /\ k + 1 + Len(user) <= Len(b) =>
               /\ Field(b, k + 1) = user
               /\ After(b, k + 1) = k + 1 + Len(user) + 1
      BY <2>1, <2>2, FieldRead
    <2> QED
      BY <1>4, <2>3 DEF k
  <1>6. /\ HasField(b, UserEnd(p) + 2) <=> PathEnd(p) <= Len(b)
        /\ PathEnd(p) <= Len(b) =>
             Field(b, UserEnd(p) + 2) = path /\ After(b, UserEnd(p) + 2) = PathEnd(p) + 1
    <2>1. path \in Seq(Nat) /\ UserEnd(p) + 1 \in Nat /\ (UserEnd(p) + 1) + 1 = UserEnd(p) + 2
      BY <1>2
    <2>2. all \in Seq(Nat) /\ At(Prefixed(path), all, UserEnd(p) + 1)
      BY <1>3
    <2> HIDE DEF path
    <2>3. /\ HasField(b, (UserEnd(p) + 1) + 1) <=> (UserEnd(p) + 1) + 1 + Len(path) <= Len(b)
          /\ (UserEnd(p) + 1) + 1 + Len(path) <= Len(b) =>
               /\ Field(b, (UserEnd(p) + 1) + 1) = path
               /\ After(b, (UserEnd(p) + 1) + 1) = (UserEnd(p) + 1) + 1 + Len(path) + 1
      BY <2>1, <2>2, FieldRead
    <2> QED
      BY <1>4, <2>1, <2>3
  <1>7. /\ Len(b) \in Nat /\ DOMAIN b = 1..Len(b) /\ Len(b) <= Len(all)
        /\ \A i \in 1..Len(b) : b[i] = all[i]
    BY LenProperties DEF Begins
  <1>8. \A i \in 1..Len(digest) : all[PathEnd(p) + i] = digest[i]
    BY <1>3 DEF At
  <1>9. /\ p.digest \in Nat
        /\ p.digest = 0 => Len(digest) = 1 /\ digest[1] = 0
        /\ p.digest # 0 => Len(digest) = 2 /\ digest[1] = Digest /\ digest[2] = p.digest
    BY DEF DigestBytes, Payloads
  <1> HIDE DEF all, user, path, digest
  <1>16. Len(digest) \in Nat /\ Len(digest) >= 1
    <2>1. CASE p.digest = 0
      BY <1>9, <2>1, SMTT(30)
    <2>2. CASE p.digest # 0
      BY <1>9, <2>2
    <2> QED
      BY <2>1, <2>2
  <1>18. /\ UserEnd(p) \in Nat /\ PathEnd(p) \in Nat /\ Len(path) \in Nat
         /\ Len(all) = PathEnd(p) + Len(digest)
         /\ PathEnd(p) = (UserEnd(p) + 1) + 1 + Len(path)
    BY <1>2, <1>3, <1>4
  <1>17. PathEnd(p) + 1 <= Len(all) /\ UserEnd(p) + 1 <= PathEnd(p)
    BY <1>16, <1>18
  <1>10. PathEnd(p) + 1 \in DOMAIN b => b[PathEnd(p) + 1] = digest[1]
    <2>1. 1 \in 1..Len(digest)
      BY <1>16
    <2> QED
      BY <1>7, <1>8, <2>1
  <1>11. HasDigest(b, PathEnd(p) + 1) <=> Len(b) = Len(all)
    <2>1. CASE p.digest = 0
      <3>1. Len(all) = PathEnd(p) + 1 /\ Len(digest) = 1 /\ digest[1] = 0
        BY <1>3, <1>9, <2>1
      <3>2. PathEnd(p) + 1 \in DOMAIN b <=> Len(b) = Len(all)
        BY <1>2, <1>7, <3>1
      <3> QED
        BY <1>10, <3>1, <3>2 DEF HasDigest
    <2>2. CASE p.digest # 0
      <3>1. Len(all) = PathEnd(p) + 2 /\ Len(digest) = 2 /\ digest[1] = Digest
        BY <1>3, <1>9, <2>2
      <3>2. (PathEnd(p) + 1) + 1 \in DOMAIN b <=> Len(b) = Len(all)
        BY <1>2, <1>7, <3>1
      <3>3. (PathEnd(p) + 1) + 1 \in DOMAIN b => PathEnd(p) + 1 \in DOMAIN b
        BY <1>2, <1>7
      <3>4. Digest # 0
        BY DEF Digest
      <3> QED
        BY <1>10, <3>1, <3>2, <3>3, <3>4 DEF HasDigest
    <2> QED
      BY <2>1, <2>2
  <1>12. Len(b) = Len(all) => DigestAt(b, PathEnd(p) + 1) = p.digest
    <2> SUFFICES ASSUME Len(b) = Len(all)
                 PROVE  DigestAt(b, PathEnd(p) + 1) = p.digest
      OBVIOUS
    <2>1. PathEnd(p) + 1 \in DOMAIN b /\ Len(b) = PathEnd(p) + Len(digest)
      BY <1>7, <1>17, <1>18, SMTT(30)
    <2>2. CASE p.digest = 0
      <3>1. b[PathEnd(p) + 1] = 0
        BY <1>9, <1>10, <2>1, <2>2
      <3> QED
        BY <2>2, <3>1 DEF DigestAt, Digest
    <2>3. CASE p.digest # 0
      <3>1. b[PathEnd(p) + 1] = Digest /\ Len(digest) = 2
        BY <1>9, <1>10, <2>1, <2>3
      <3>2. (PathEnd(p) + 1) + 1 \in 1..Len(b) /\ (PathEnd(p) + 1) + 1 = PathEnd(p) + 2
        BY <1>2, <1>7, <2>1, <3>1, SMTT(30)
      <3>3. 2 \in 1..Len(digest)
        BY <3>1
      <3>4. b[(PathEnd(p) + 1) + 1] = p.digest
        BY <1>7, <1>8, <1>9, <2>3, <3>2, <3>3
      <3> QED
        BY <1>7, <3>1, <3>2, <3>4 DEF DigestAt
    <2> QED
      BY <2>2, <2>3
  <1> HIDE DEF userAt, seedAt, d, read, whole
  <1>13. ASSUME whole
         PROVE  Len(b) = Len(all) /\ read = Offline(p)
    <2>1. UserEnd(p) <= Len(b) /\ Field(b, userAt) = user /\ seedAt = UserEnd(p) + 1
      BY <1>5, <1>13 DEF whole, DecodeText
    <2>2. pathAt = UserEnd(p) + 2
      BY <1>2, <2>1
    <2>3. PathEnd(p) <= Len(b) /\ Field(b, pathAt) = path /\ digestAt = PathEnd(p) + 1
      BY <1>6, <1>13, <2>2 DEF whole, DecodeText
    <2>4. Len(b) = Len(all)
      BY <1>11, <1>13, <2>3 DEF whole
    <2>5. DigestAt(b, digestAt) = p.digest
      BY <1>12, <2>3, <2>4
    <2>6. read = Offline(p)
      BY <2>1, <2>3, <2>5 DEF read, Offline, user, path
    <2> QED
      BY <2>4, <2>6
  <1>14. ASSUME Len(b) = Len(all), Fits(p.user), Fits(p.path)
         PROVE  whole
    <2>1. PathEnd(p) <= Len(b) /\ UserEnd(p) <= Len(b) /\ UserEnd(p) + 1 \in DOMAIN b
      BY <1>2, <1>7, <1>14, <1>17
    <2>2. p.user \in Text /\ p.path \in Text
      BY DEF Payloads
    <2>3. ValidText(user) /\ ValidText(path)
      BY <1>14, <2>2, TextBytesFacts, FlatIsValid DEF user, path
    <2>4. DecodeText(b, userAt) /\ seedAt = UserEnd(p) + 1
      BY <1>5, <2>1, <2>3 DEF DecodeText
    <2>5. pathAt = UserEnd(p) + 2
      BY <1>2, <2>4
    <2>6. DecodeText(b, pathAt) /\ digestAt = PathEnd(p) + 1
      BY <1>6, <2>1, <2>3, <2>5 DEF DecodeText
    <2>7. HasDigest(b, digestAt)
      BY <1>11, <1>14, <2>6
    <2> QED
      BY <2>1, <2>4, <2>6, <2>7 DEF whole
  <1>15. Len(b) < Len(all) => Len(b) # Len(all)
    BY <1>7
  <1> QED
    BY <1>1, <1>13, <1>14, <1>15 DEF d, all, userAt

(* decode of what got through of encode's result.                          *)
Received(p) == IF p.offline THEN Offline(p) ELSE Online(p)

THEOREM DecodeOfEncode ==
  ASSUME NEW p \in Payloads, NEW b \in Seq(Nat), Begins(b, Encode(p))
  PROVE  /\ Len(b) < Len(Encode(p)) => Decode(b) = None
         /\ Decode(b) = None \/ Decode(b) = Received(p)
         /\ Len(b) = Len(Encode(p)) /\ (p.offline => Fits(p.user) /\ Fits(p.path))
              => Decode(b) = Received(p)
  <1>1. /\ Len(b) \in Nat /\ NameEnd(p) \in Nat /\ Len(EncodeOffline(p)) \in Nat
        /\ Len(Encode(p)) = NameEnd(p) + Len(EncodeOffline(p))
    BY FieldTypes, Layout, LenProperties
  <1>2. CASE ~(NameEnd(p) <= Len(b))
    <2>1. Len(b) # Len(Encode(p))
      BY <1>1, <1>2
    <2> QED
      BY <1>2, <2>1, DecodeCases
  <1>3. CASE NameEnd(p) <= Len(b) /\ p.offline
    <2>1. Decode(b) = DecodeOffline(b, NameEnd(p) + 1, Online(p)) /\ Received(p) = Offline(p)
      BY <1>3, DecodeCases DEF Received
    <2> QED
      BY <1>3, <2>1, OfflineRead
  <1>4. CASE NameEnd(p) <= Len(b) /\ ~p.offline
    <2>1. Decode(b) = Online(p) /\ Received(p) = Online(p)
      BY <1>4, DecodeCases DEF Received
    <2>2. EncodeOffline(p) = <<>>
      BY <1>4 DEF EncodeOffline
    <2>3. Len(EncodeOffline(p)) = 0
      BY <2>2, EmptySeq
    <2>4. ~(Len(b) < Len(Encode(p)))
      BY <1>1, <1>4, <2>3
    <2> QED
      BY <2>1, <2>4
  <1> QED
    BY <1>2, <1>3, <1>4
-----------------------------------------------------------------------------
(* The invariant: what the app has read is decode of what got through of   *)
(* encode of the payload that was put together, and what was put out.      *)

Hosts == [interfaces : Seq(IpAddress), listable : BOOLEAN, files : Seq(FileContents)]
Offers == [addrs : Seq(Address), name : Text, offline : BOOLEAN, user : Text,
           path : Text, copy : BOOLEAN, noQr : BOOLEAN]

PubInv ==
  /\ host \in Hosts /\ offer \in Offers /\ cut \in BOOLEAN
  /\ payload = Assembled
  /\ bytes = <<>> => ~cut /\ decoded = Unread
  /\ bytes # <<>> =>
       /\ bytes \in Seq(Nat) /\ Begins(bytes, Encode(payload))
       /\ cut <=> Len(bytes) < Len(Encode(payload))
  /\ PayloadIsShown
  /\ decoded \in {Unread, Decode(bytes)}

LEMMA SeqWithin ==
  ASSUME NEW T, NEW U, NEW seq \in Seq(T), SetOf(seq) \subseteq U
  PROVE  seq \in Seq(U)
  <1>1. Len(seq) \in Nat /\ seq = [i \in 1..Len(seq) |-> seq[i]]
    BY LenProperties
  <1>2. \A i \in 1..Len(seq) : seq[i] \in U
    BY ElementsOfSeq
  <1>3. [i \in 1..Len(seq) |-> seq[i]] \in Seq(U)
    BY <1>1, <1>2, IsASeq
  <1> QED
    BY <1>1, <1>3

LEMMA AssembledType ==
  ASSUME host \in Hosts, offer \in Offers
  PROVE  Assembled \in Payloads
  <1>1. /\ host.interfaces \in Seq(IpAddress) /\ host.files \in Seq(FileContents)
        /\ offer.addrs \in Seq(Address) /\ offer.name \in Text /\ offer.offline \in BOOLEAN
        /\ offer.user \in Text /\ offer.path \in Text
    BY DEF Hosts, Offers
  <1>2. OfferedAddrs \in Seq(Address)
    <2>1. LocalAddrs(host.interfaces) \in Seq(IpAddress)
      BY <1>1, BestAreSent
    <2>2. IpAddress \subseteq Address
      BY DEF Address
    <2>3. LocalAddrs(host.interfaces) \in Seq(Address)
      BY <2>1, <2>2, SeqMonotonic
    <2> QED
      BY <1>1, <2>3 DEF OfferedAddrs
  <1>3. ParsedAddrs(OfferedAddrs) \in Seq(IpAddress)
    <2>1. /\ Kept(OfferedAddrs, IpAddress) \in Seq(Address)
          /\ SetOf(Kept(OfferedAddrs, IpAddress)) \subseteq IpAddress
      BY <1>2, KeptFacts
    <2> QED
      BY <2>1, SeqWithin DEF ParsedAddrs
  <1>4. (IF offer.offline THEN HostKeyDigest(host.files) ELSE 0) \in Nat
    BY ListAssumption DEF HostKeyDigest
  <1> QED
    BY <1>1, <1>3, <1>4 DEF Assembled, Payloads

LEMMA PubInvInit == Init => PubInv
  <1> SUFFICES ASSUME Init
               PROVE  PubInv
    OBVIOUS
  <1>1. PICK bind \in Binds : host = bind.host /\ offer = bind.offer
    BY DEF Init
  <1>2. host \in Hosts /\ offer \in Offers
    BY <1>1, BindAssumption DEF Hosts, Offers
  <1>3. payload = Assembled /\ bytes = <<>> /\ cut = FALSE /\ decoded = Unread
    BY DEF Init
  <1> QED
    BY <1>2, <1>3 DEF PubInv, PayloadIsShown

(* publish_payload encodes, and shows in some way or other.                *)
LEMMA PublishKeeps == PubInv /\ PublishPayload => PubInv'
  <1> SUFFICES ASSUME PubInv, PublishPayload
               PROVE  PubInv'
    OBVIOUS
  <1> DEFINE all == Encode(payload)
  <1>1. host \in Hosts /\ offer \in Offers /\ payload = Assembled /\ cut = FALSE
        /\ decoded = Unread
    BY DEF PubInv, PublishPayload
  <1>2. /\ bytes' = all
        /\ host' = host /\ offer' = offer /\ payload' = payload /\ cut' = cut
        /\ decoded' = decoded /\ terminal' = terminal
    BY DEF PublishPayload
  <1>3. Assembled' = Assembled
    BY <1>2 DEF Assembled, OfferedAddrs
  <1>4. all \in Seq(Nat) /\ Len(all) \in Nat /\ 4 <= Len(all)
    BY <1>1, AssembledType, Layout, LenProperties
  <1>5. all # <<>>
    BY <1>4, EmptySeq
  <1>6. Begins(all, all) /\ ~(Len(all) < Len(all))
    BY <1>4 DEF Begins
  <1>7. PayloadIsShown'
    <2>1. PICK overSsh \in BOOLEAN, tool \in BOOLEAN, tty \in BOOLEAN, fits \in BOOLEAN :
            LET ways == Copied(overSsh, tool, tty)
                copied == ways # {}
            IN shown' = ways \union
                        (IF copied /\ terminal.tmux THEN {"hint"} ELSE {}) \union
                        (IF ~offer.noQr /\ fits THEN {"QR"} ELSE {}) \union
                        (IF NeedsLine(copied, fits) THEN {"line"} ELSE {})
      BY DEF PublishPayload
    <2> DEFINE ways == Copied(overSsh, tool, tty)
    <2>2. shown' = ways \union
                   (IF ways # {} /\ terminal.tmux THEN {"hint"} ELSE {}) \union
                   (IF ~offer.noQr /\ fits THEN {"QR"} ELSE {}) \union
                   (IF NeedsLine(ways # {}, fits) THEN {"line"} ELSE {})
      BY <2>1
    <2>3. ways \subseteq {"tool", "osc52"} /\ (ways # {} => offer.copy)
      BY DEF Copied
    <2> HIDE DEF ways
    (* Without a line, all that was asked for was put out. *)
    <2>4. "line" \notin shown' =>
            /\ offer.copy => ways # {}
            /\ ~offer.noQr => "QR" \in shown'
            /\ offer.copy \/ ~offer.noQr
      BY <2>2 DEF NeedsLine
    <2>5. {"tool", "osc52"} \intersect shown' # {} => offer.copy
      BY <2>2, <2>3
    <2>6. ASSUME Arrived' = {}
          PROVE  /\ offer.copy /\ offer.noQr
                 /\ "osc52" \in shown'
                 /\ terminal.tmux => "hint" \in shown'
      <3>1. {"tool", "QR", "line"} \intersect shown' = {}
        BY <2>6 DEF Arrived
      <3>2. offer.noQr /\ offer.copy /\ ways # {}
        BY <3>1, <2>4, <1>1 DEF Offers
      <3>3. ways = {"osc52"}
        BY <3>1, <3>2, <2>2, <2>3
      <3> QED
        BY <3>2, <3>3, <2>2
    <2> QED
      BY <1>2, <2>5, <2>6 DEF PayloadIsShown
  <1> HIDE DEF all
  <1>8. /\ bytes' # <<>> /\ bytes' \in Seq(Nat) /\ Begins(bytes', Encode(payload)')
        /\ Encode(payload)' = all /\ bytes' = all
    BY <1>2, <1>4, <1>5, <1>6 DEF all
  <1> QED
    BY <1>1, <1>2, <1>3, <1>6, <1>7, <1>8 DEF PubInv

LEMMA CutOfBeginning ==
  ASSUME NEW T, NEW s \in Seq(T), NEW all \in Seq(T), Begins(s, all), NEW n \in 1..Len(s)
  PROVE  /\ SubSeq(s, 1, n) \in Seq(T) /\ SubSeq(s, 1, n) # <<>>
         /\ Len(SubSeq(s, 1, n)) = n
         /\ Begins(SubSeq(s, 1, n), all)
  <1> DEFINE part == SubSeq(s, 1, n)
  <1>1. /\ Len(s) \in Nat /\ Len(all) \in Nat
        /\ Len(s) <= Len(all) /\ \A i \in 1..Len(s) : s[i] = all[i]
    BY LenProperties DEF Begins
  <1>2. n \in 0..Len(s) /\ n > 0 /\ n <= Len(all)
    BY <1>1
  <1>3. part \in Seq(T) /\ Len(part) = n /\ \A i \in 1..n : part[i] = s[i]
    BY <1>2, PrefixFacts
  <1> HIDE DEF part
  <1>4. Begins(part, all)
    BY <1>1, <1>2, <1>3 DEF Begins
  <1>5. part # <<>>
    BY <1>2, <1>3, EmptySeq
  <1> QED
    BY <1>3, <1>4, <1>5 DEF part

LEMMA LoseKeeps == PubInv /\ Lose => PubInv'
  <1> SUFFICES ASSUME PubInv, Lose
               PROVE  PubInv'
    OBVIOUS
  <1> DEFINE all == Encode(payload)
  <1>1. /\ ~cut /\ Len(bytes) > 1
        /\ cut' = TRUE /\ decoded' = Unread
        /\ host' = host /\ offer' = offer /\ payload' = payload /\ shown' = shown
        /\ terminal' = terminal
    BY DEF Lose
  <1>2. PICK n \in 1..(Len(bytes) - 1) : bytes' = SubSeq(bytes, 1, n)
    BY DEF Lose
  <1>3. bytes # <<>>
    BY <1>1, EmptySeq
  <1>4. /\ host \in Hosts /\ offer \in Offers /\ payload = Assembled
        /\ bytes \in Seq(Nat) /\ Begins(bytes, all)
        /\ PayloadIsShown
    BY <1>3 DEF PubInv
  <1>5. all \in Seq(Nat) /\ Len(all) \in Nat /\ Len(bytes) \in Nat
    BY <1>4, AssembledType, Layout, LenProperties
  <1> HIDE DEF all
  <1>6. n \in 1..Len(bytes) /\ n < Len(bytes)
    BY <1>5
  <1>7. /\ SubSeq(bytes, 1, n) \in Seq(Nat) /\ SubSeq(bytes, 1, n) # <<>>
        /\ Len(SubSeq(bytes, 1, n)) = n
        /\ Begins(SubSeq(bytes, 1, n), all)
    BY <1>4, <1>5, <1>6, CutOfBeginning
  <1>8. bytes' \in Seq(Nat) /\ bytes' # <<>> /\ Begins(bytes', all) /\ Len(bytes') = n
    BY <1>2, <1>7
  <1>9. n < Len(all)
    BY <1>4, <1>5, <1>6 DEF Begins
  <1>10. Len(bytes') < Len(all)
    BY <1>8, <1>9
  <1>11. Assembled' = Assembled /\ Encode(payload)' = all
    BY <1>1 DEF Assembled, OfferedAddrs, all
  <1>12. PayloadIsShown'
    BY <1>1, <1>3, <1>4 DEF PayloadIsShown, Arrived
  <1> QED
    BY <1>1, <1>4, <1>8, <1>9, <1>10, <1>11, <1>12 DEF PubInv

LEMMA ReadKeeps == PubInv /\ Read => PubInv'
  <1> SUFFICES ASSUME PubInv, Read
               PROVE  PubInv'
    OBVIOUS
  <1>1. /\ bytes # <<>> /\ decoded' = Decode(bytes)
        /\ host' = host /\ offer' = offer /\ payload' = payload /\ bytes' = bytes
        /\ shown' = shown /\ cut' = cut /\ terminal' = terminal
    BY DEF Read
  <1>2. Assembled' = Assembled /\ Encode(payload)' = Encode(payload)
        /\ Decode(bytes)' = Decode(bytes)
    BY <1>1 DEF Assembled, OfferedAddrs
  <1>3. PayloadIsShown'
    BY <1>1 DEF PubInv, PayloadIsShown, Arrived
  <1> QED
    BY <1>1, <1>2, <1>3 DEF PubInv

LEMMA StutterKeeps == PubInv /\ UNCHANGED vars => PubInv'
  <1> SUFFICES ASSUME PubInv, UNCHANGED vars
               PROVE  PubInv'
    OBVIOUS
  <1>1. /\ host' = host /\ offer' = offer /\ payload' = payload /\ bytes' = bytes
        /\ shown' = shown /\ cut' = cut /\ decoded' = decoded
        /\ terminal' = terminal
    BY DEF vars
  <1>2. Assembled' = Assembled /\ Encode(payload)' = Encode(payload)
        /\ Decode(bytes)' = Decode(bytes)
    BY <1>1 DEF Assembled, OfferedAddrs
  <1>3. PayloadIsShown'
    BY <1>1 DEF PubInv, PayloadIsShown, Arrived
  <1> QED
    BY <1>1, <1>2, <1>3 DEF PubInv

(* Every step keeps the invariant, whoever takes it (main.rs 520-547).     *)
THEOREM PubInvHolds == Spec => []PubInv
  <1>1. PubInv /\ [Next]_vars => PubInv'
    BY PublishKeeps, LoseKeeps, ReadKeeps, StutterKeeps DEF Next
  <1> QED
    BY <1>1, PubInvInit, PTL DEF Spec
-----------------------------------------------------------------------------
(* What the invariant says of a payload that was read.                     *)

LEMMA ReceivedFields ==
  ASSUME NEW p \in Payloads
  PROVE  /\ Received(p).addrs = Sent(p.addrs)
         /\ Received(p).name = Fitting(p.name, MaxName)
         /\ Received(p).offline = p.offline
         /\ Received(p).digest = IF p.offline THEN p.digest ELSE 0
         /\ p.offline => /\ Received(p).user = Characters(TextBytes(p.user))
                         /\ Received(p).path = Characters(TextBytes(p.path))
  <1>1. p.offline \in BOOLEAN
    BY DEF Payloads
  <1>2. CASE p.offline
    BY <1>1, <1>2 DEF Received, Offline, Online, None
  <1>3. CASE ~p.offline
    BY <1>1, <1>3 DEF Received, Online, None
  <1> QED
    BY <1>2, <1>3

LEMMA ReadFacts ==
  ASSUME PubInv, decoded # Unread
  PROVE  /\ payload \in Payloads /\ payload = Assembled
         /\ cut => decoded = None
         /\ decoded = None \/ decoded = Received(payload)
         /\ ~cut /\ (payload.offline => Fits(payload.user) /\ Fits(payload.path))
              => decoded = Received(payload)
  <1>1. payload \in Payloads /\ payload = Assembled
    BY AssembledType DEF PubInv
  <1>2. bytes # <<>> /\ decoded = Decode(bytes) /\ cut \in BOOLEAN
    BY DEF PubInv
  <1>3. /\ bytes \in Seq(Nat) /\ Begins(bytes, Encode(payload))
        /\ cut <=> Len(bytes) < Len(Encode(payload))
    BY <1>2 DEF PubInv
  <1>4. /\ Len(bytes) < Len(Encode(payload)) => Decode(bytes) = None
        /\ Decode(bytes) = None \/ Decode(bytes) = Received(payload)
        /\ Len(bytes) = Len(Encode(payload))
             /\ (payload.offline => Fits(payload.user) /\ Fits(payload.path))
             => Decode(bytes) = Received(payload)
    <2>1. payload \in Payloads /\ bytes \in Seq(Nat) /\ Begins(bytes, Encode(payload))
      BY <1>1, <1>3
    <2> QED
      BY <2>1, DecodeOfEncode
  <1>5. ~cut => Len(bytes) = Len(Encode(payload))
    <2>1. Len(bytes) \in Nat /\ Len(Encode(payload)) \in Nat
      BY <1>1, <1>3, Layout, LenProperties
    <2> QED
      BY <1>3, <2>1 DEF Begins
  <1> QED
    BY <1>1, <1>2, <1>3, <1>4, <1>5

LEMMA TextRead ==
  ASSUME NEW text \in Text, Fits(text)
  PROVE  Characters(TextBytes(text)) = text
  BY TextBytesFacts, CharactersOfBytes

LEMMA InvCutIsRefused == PubInv => CutIsRefused
  BY ReadFacts DEF CutIsRefused

LEMMA InvRoundTrip == PubInv => RoundTrip
  <1> DEFINE p == payload
             limits == p.offline => Fits(p.user) /\ Fits(p.path)
             fitting == Fitting(p.name, MaxName)
  <1> SUFFICES ASSUME PubInv, decoded # Unread, ~cut, limits
               PROVE  /\ decoded.addrs = Sent(p.addrs)
                      /\ IsPrefix(decoded.name, p.name)
                      /\ Len(FlattenSeq(decoded.name)) <= MaxName
                      /\ Len(decoded.name) < Len(p.name) =>
                           Len(FlattenSeq(SubSeq(p.name, 1, Len(decoded.name) + 1))) > MaxName
                      /\ decoded.offline = p.offline
                      /\ p.offline => /\ decoded.user = p.user
                                      /\ decoded.path = p.path
                                      /\ decoded.digest = p.digest
    BY DEF RoundTrip, Sent
  <1>1. p \in Payloads /\ decoded = Received(p)
    BY ReadFacts
  <1> HIDE DEF p
  <1>2. p.name \in Text /\ p.user \in Text /\ p.path \in Text /\ MaxName \in Nat
    BY <1>1, LimitAssumption DEF Payloads
  <1>3. /\ decoded.addrs = Sent(p.addrs) /\ decoded.name = fitting
        /\ decoded.offline = p.offline
        /\ decoded.digest = IF p.offline THEN p.digest ELSE 0
        /\ p.offline => /\ decoded.user = Characters(TextBytes(p.user))
                        /\ decoded.path = Characters(TextBytes(p.path))
    BY <1>1, ReceivedFields
  <1>4. /\ IsPrefix(fitting, p.name) /\ Len(FlattenSeq(fitting)) <= MaxName
        /\ Len(fitting) < Len(p.name) =>
             Len(FlattenSeq(SubSeq(p.name, 1, Len(fitting) + 1))) > MaxName
    BY <1>2, NameFits
  <1>5. p.offline => /\ Characters(TextBytes(p.user)) = p.user
                     /\ Characters(TextBytes(p.path)) = p.path
    BY <1>2, TextRead
  <1> HIDE DEF fitting
  <1> QED
    BY <1>3, <1>4, <1>5

LEMMA InvBestAddressesArrive == PubInv => BestAddressesArrive
  <1> SUFFICES ASSUME PubInv, IsRead, offer.addrs = <<>>
               PROVE  LET arrived == Range(decoded.addrs)
                          own == Range(host.interfaces) \intersect Dialable
                      IN /\ arrived \subseteq own
                         /\ \A addr \in own \ arrived, other \in arrived :
                              Rank(other) <= Rank(addr)
                         /\ own # {} => arrived # {}
    BY DEF BestAddressesArrive
  <1>1. payload \in Payloads /\ payload = Assembled /\ decoded = Received(payload)
    BY ReadFacts DEF IsRead
  <1>2. decoded.addrs = Sent(payload.addrs)
    BY <1>1, ReceivedFields
  <1>3. payload.addrs = ParsedAddrs(LocalAddrs(host.interfaces))
    BY <1>1 DEF Assembled, OfferedAddrs
  <1>4. host.interfaces \in Seq(IpAddress)
    BY DEF PubInv, Hosts
  <1> QED
    BY <1>2, <1>3, <1>4, BestAreSent

LEMMA InvPinsAgree == PubInv => PinsAgree
  <1> SUFFICES ASSUME PubInv
               PROVE  PinsAgree
    OBVIOUS
  <1> DEFINE files == host.files
             keysOf == {n \in DOMAIN files : files[n] = "ed25519"}
  <1>1. files \in Seq(FileContents) /\ Len(files) \in Nat /\ DOMAIN files = 1..Len(files)
    BY LenProperties DEF PubInv, Hosts
  <1>2. keysOf = Preferred(files, Len(files))
    BY <1>1 DEF Preferred
  <1>3. /\ Range(Fingerprints(files)) = KeysOf(files, Len(files))
        /\ keysOf # {} => Fingerprints(files)[1] \in keysOf
    BY <1>1, <1>2, PreferredFirst
  <1>4. IsRead => decoded.digest = IF offer.offline THEN HostKeyDigest(files) ELSE 0
    <2> SUFFICES ASSUME IsRead
                 PROVE  decoded.digest = IF offer.offline THEN HostKeyDigest(files) ELSE 0
      OBVIOUS
    <2>1. payload \in Payloads /\ payload = Assembled /\ decoded = Received(payload)
      BY ReadFacts DEF IsRead
    <2>2. decoded.digest = IF payload.offline THEN payload.digest ELSE 0
      BY <2>1, ReceivedFields
    <2>3. /\ payload.offline = offer.offline
          /\ payload.digest = IF offer.offline THEN HostKeyDigest(files) ELSE 0
      BY <2>1 DEF Assembled
    <2> QED
      BY <2>2, <2>3
  <1>5. HostKeyDigest(files) # 0 =>
          HostKeyDigest(files) \in KeysOf(files, Len(files))
    BY <1>1 DEF HostKeyDigest, KeysOf
  <1>6. Standard \in keysOf => HostKeyDigest(files) = Standard
    BY DEF HostKeyDigest, Algorithms
  <1>7. ASSUME IsRead, decoded.digest # 0, host.listable
        PROVE  decoded.digest \in Range(OfferedKeys)
    <2>1. decoded.digest = HostKeyDigest(files)
      BY <1>4, <1>7
    <2>2. OfferedKeys = Fingerprints(files)
      BY <1>7 DEF OfferedKeys
    <2> QED
      BY <1>3, <1>5, <1>7, <2>1, <2>2
  <1>8. ASSUME OfferedKeys # <<>>, keysOf # {}
        PROVE  OfferedKeys[1] \in keysOf
    <2>1. OfferedKeys = Fingerprints(files)
      BY <1>8 DEF OfferedKeys
    <2> QED
      BY <1>3, <1>8, <2>1
  <1>9. ASSUME IsRead, offer.offline, Standard \in keysOf
        PROVE  decoded.digest = Standard
    BY <1>4, <1>6, <1>9
  <1> QED
    BY <1>7, <1>8, <1>9 DEF PinsAgree
-----------------------------------------------------------------------------
(* Whatever is bound, on whatever host, and wherever it is cut.            *)

(* A payload that was not cut is read as it was sent (payload.rs 91-216).  *)
THEOREM RoundTripHolds == Spec => []RoundTrip
  BY PubInvHolds, InvRoundTrip, PTL

(* A payload cut anywhere is refused (payload.rs 116-216).                 *)
THEOREM CutIsRefusedHolds == Spec => []CutIsRefused
  BY PubInvHolds, InvCutIsRefused, PTL

(* No address left out is better than one that arrives, and one arrives if *)
(* there is one (hostinfo.rs 18-55, payload.rs 66-89).                     *)
THEOREM BestAddressesArriveHolds == Spec => []BestAddressesArrive
  BY PubInvHolds, InvBestAddressesArrive, PTL

(* Both ways of binding pin the same host (hostinfo.rs 57-110).            *)
THEOREM PinsAgreeHolds == Spec => []PinsAgree
  BY PubInvHolds, InvPinsAgree, PTL

(* The operator gets every payload, but for an OSC 52 the terminal dropped *)
(* when nothing else was asked for; in tmux it is told what OSC 52 needs   *)
(* (main.rs 480-529, clip.rs 83-106).                                      *)
THEOREM PayloadIsShownHolds == Spec => []PayloadIsShown
  <1>1. PubInv => PayloadIsShown
    BY DEF PubInv
  <1> QED
    BY <1>1, PubInvHolds, PTL
=============================================================================
