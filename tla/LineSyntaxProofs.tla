---------------------------- MODULE LineSyntaxProofs ----------------------------
(***************************************************************************)
(* What util::device_slug and authkeys::parse_line do to every name and    *)
(* every line.  Their loops are recursive functions; that there is one is  *)
(* proved by induction on its turns (Loop), and so is what it returns.     *)
(***************************************************************************)
EXTENDS LineSyntax, SubsequencesProofs

LEMMA MinIs ==
  ASSUME NEW S \in SUBSET Int, NEW m \in S, \A i \in S : m <= i
  PROVE  Min(S) = m
  <1>1. \E x \in S : \A y \in S : x <= y
    OBVIOUS
  <1>2. Min(S) \in S /\ \A y \in S : Min(S) <= y
    BY <1>1 DEF Min
  <1>3. \A x \in Int : x <= m /\ m <= x => x = m
    OBVIOUS
  <1>4. Min(S) \in Int /\ Min(S) <= m /\ m <= Min(S)
    BY <1>2
  <1> QED
    BY <1>3, <1>4

LEMMA MaxIs ==
  ASSUME NEW S \in SUBSET Int, NEW m \in S, \A i \in S : i <= m
  PROVE  Max(S) = m
  <1>1. \E x \in S : \A y \in S : x >= y
    OBVIOUS
  <1>2. Max(S) \in S /\ \A y \in S : Max(S) >= y
    BY <1>1 DEF Max
  <1>3. \A x \in Int : x <= m /\ m <= x => x = m
    OBVIOUS
  <1>4. Max(S) \in Int /\ Max(S) <= m /\ m <= Max(S)
    BY <1>2
  <1> QED
    BY <1>3, <1>4
-----------------------------------------------------------------------------
(* device_slug.  Every turn leaves a slug that is tidy but for a dash at   *)
(* the end, which Trim takes off.                                          *)

SlugCharacters == {"plain", "dash"}

Tidy(slug) ==
  /\ slug \in Seq(SlugCharacters)
  /\ Len(slug) <= MaxSlug
  /\ slug # <<>> => slug[1] = "plain"
  /\ \A i \in 2..Len(slug) : slug[i] = "dash" => slug[i - 1] = "plain"

Turn(slug, c) == IF Len(slug) >= MaxSlug THEN slug ELSE Push(slug, c)

LEMMA PushType ==
  ASSUME NEW slug \in Seq(SlugCharacters), NEW c \in Characters
  PROVE  Push(slug, c) \in Seq(SlugCharacters)
  <1>1. Append(slug, "plain") \in Seq(SlugCharacters)
        /\ Append(slug, "dash") \in Seq(SlugCharacters)
    BY AppendFacts DEF SlugCharacters
  <1> QED
    BY <1>1 DEF Push

LEMMA TurnIsTidy ==
  ASSUME NEW slug, Tidy(slug), NEW c \in Characters
  PROVE  Tidy(Turn(slug, c))
  <1>1. CASE Turn(slug, c) = slug
    BY <1>1
  <1>2. CASE Len(slug) < MaxSlug /\ Turn(slug, c) = Append(slug, "plain")
    <2> DEFINE longer == Append(slug, "plain")
    <2>1. /\ Len(slug) \in Nat /\ longer \in Seq(SlugCharacters)
          /\ Len(longer) = Len(slug) + 1
          /\ longer[Len(slug) + 1] = "plain"
          /\ \A n \in 1..Len(slug) : longer[n] = slug[n]
      BY AppendFacts DEF Tidy, SlugCharacters
    <2>2. slug = <<>> => Len(slug) = 0
      OBVIOUS
    <2>3. slug # <<>> => Len(slug) >= 1
      BY <2>1, EmptySeq DEF Tidy
    <2>4. MaxSlug \in Nat
      BY SlugAssumption
    <2> HIDE DEF longer
    <2>5. Tidy(longer)
      BY <1>2, <2>1, <2>2, <2>3, <2>4 DEF Tidy
    <2> QED
      BY <1>2, <2>5 DEF longer
  <1>3. CASE /\ Len(slug) < MaxSlug /\ slug # <<>> /\ slug[Len(slug)] # "dash"
             /\ Turn(slug, c) = Append(slug, "dash")
    <2> DEFINE longer == Append(slug, "dash")
    <2>1. /\ Len(slug) \in Nat /\ longer \in Seq(SlugCharacters)
          /\ Len(longer) = Len(slug) + 1
          /\ longer[Len(slug) + 1] = "dash"
          /\ \A n \in 1..Len(slug) : longer[n] = slug[n]
      BY AppendFacts DEF Tidy, SlugCharacters
    <2>3. Len(slug) >= 1 /\ slug[Len(slug)] = "plain"
      BY <1>3, <2>1, EmptySeq DEF Tidy, SlugCharacters
    <2>4. MaxSlug \in Nat
      BY SlugAssumption
    <2> HIDE DEF longer
    <2>5. ASSUME NEW i \in 2..Len(longer), longer[i] = "dash"
          PROVE  longer[i - 1] = "plain"
      <3>1. i - 1 \in 1..Len(slug) /\ (i = Len(slug) + 1 \/ i \in 2..Len(slug))
        BY <2>1
      <3>2. longer[i - 1] = slug[i - 1]
        BY <2>1, <3>1
      <3>3. CASE i = Len(slug) + 1
        <4>1. i - 1 = Len(slug)
          BY <2>1, <3>3
        <4> QED
          BY <2>3, <3>2, <4>1
      <3>4. CASE i \in 2..Len(slug)
        BY <2>1, <2>5, <3>2, <3>4 DEF Tidy
      <3> QED
        BY <3>1, <3>3, <3>4
    <2>6. longer[1] = "plain"
      BY <2>1, <2>3 DEF Tidy
    <2>7. Len(longer) <= MaxSlug
      BY <1>3, <2>1, <2>4
    <2>8. Tidy(longer)
      BY <2>1, <2>5, <2>6, <2>7 DEF Tidy
    <2> QED
      BY <1>3, <2>8 DEF longer
  <1>4. Len(slug) \in Nat /\ MaxSlug \in Nat
    BY SlugAssumption, LenProperties DEF Tidy
  <1> QED
    BY <1>1, <1>2, <1>3, <1>4 DEF Turn, Push

(* Untrimmed(name): the slug before it is trimmed, as DeviceSlug has it.   *)
Untrimmed(name) ==
  LET slug[n \in 0..Len(name)] ==
        IF n = 0 THEN <<>>
        ELSE IF Len(slug[n - 1]) >= MaxSlug THEN slug[n - 1]
        ELSE Push(slug[n - 1], name[n])
  IN slug[Len(name)]

SlugStep(g, name, n) ==
  IF n = 0 THEN <<>>
  ELSE IF Len(g[n - 1]) >= MaxSlug THEN g[n - 1]
  ELSE Push(g[n - 1], name[n])

IsSlugRun(g, name) ==
  /\ g = [n \in 0..Len(name) |-> g[n]]
  /\ \A n \in 0..Len(name) : g[n] = SlugStep(g, name, n)

LEMMA SlugEquation ==
  ASSUME NEW g, NEW name
  PROVE  IsSlugRun(g, name) <=> g = [n \in 0..Len(name) |-> SlugStep(g, name, n)]
  BY DEF IsSlugRun

LEMMA SlugRunStep ==
  ASSUME NEW g, NEW name, Len(name) \in Nat, IsSlugRun(g, name)
  PROVE  g[0] = <<>> /\ \A n \in 1..Len(name) : g[n] = Turn(g[n - 1], name[n])
  <1>1. ASSUME NEW n \in 0..Len(name)
        PROVE  g[n] = SlugStep(g, name, n)
    BY DEF IsSlugRun
  <1>2. g[0] = <<>>
    BY <1>1 DEF SlugStep
  <1>3. ASSUME NEW n \in 1..Len(name)
        PROVE  g[n] = Turn(g[n - 1], name[n])
    BY <1>1, n # 0 DEF SlugStep, Turn
  <1> QED
    BY <1>2, <1>3

LEMMA SlugRunExists ==
  ASSUME NEW name \in Texts
  PROVE  \E g : IsSlugRun(g, name)
  <1> DEFINE X == Seq(SlugCharacters)
             turn == [p \in X \X Nat |->
                        IF p[2] \in 1..Len(name) THEN Turn(p[1], name[p[2]]) ELSE p[1]]
  <1>1. Len(name) \in Nat /\ \A n \in 1..Len(name) : name[n] \in Characters
    BY LenProperties, ElementOfSeq DEF Texts
  <1>2. turn \in [X \X Nat -> X]
    BY <1>1, PushType DEF Turn
  <1>3. <<>> \in X
    BY EmptySeq
  <1> HIDE DEF turn, X
  <1>4. PICK f : IsRun(f, X, Len(name), <<>>, turn)
    BY <1>1, <1>2, <1>3, Loop
  <1>5. f = [n \in 0..Len(name) |-> f[n]] /\ f[0] = <<>>
    BY <1>4 DEF IsRun
  <1>6. ASSUME NEW n \in 0..Len(name)
        PROVE  f[n] = SlugStep(f, name, n)
    <2>1. CASE n = 0
      BY <1>5, <2>1 DEF SlugStep
    <2>2. CASE n # 0
      <3>1. n \in 1..Len(name) /\ n \in Nat /\ n - 1 \in 0..Len(name)
        BY <1>1, <2>2
      <3>2. f[n - 1] \in X
        BY <1>4, <3>1 DEF IsRun
      <3>3. turn[<<f[n - 1], n>>] = Turn(f[n - 1], name[n])
        BY <3>1, <3>2 DEF turn
      <3>4. f[n] = Turn(f[n - 1], name[n])
        BY <1>4, <3>1, <3>3 DEF IsRun
      <3> QED
        BY <2>2, <3>4 DEF SlugStep, Turn
    <2> QED
      BY <2>1, <2>2
  <1> QED
    BY <1>5, <1>6 DEF IsSlugRun

LEMMA UntrimmedIsTidy ==
  ASSUME NEW name \in Texts
  PROVE  Tidy(Untrimmed(name))
  <1> DEFINE chosen == CHOOSE g : g = [n \in 0..Len(name) |-> SlugStep(g, name, n)]
  <1>1. Untrimmed(name) = chosen[Len(name)]
    BY DEF Untrimmed, SlugStep
  <1>2. IsSlugRun(chosen, name)
    BY SlugRunExists, SlugEquation
  <1> HIDE DEF chosen
  <1>3. Len(name) \in Nat /\ \A n \in 1..Len(name) : name[n] \in Characters
    BY LenProperties, ElementOfSeq DEF Texts
  <1> DEFINE N == {n \in Nat : n <= Len(name) => Tidy(chosen[n])}
  <1>4. 0 \in N
    <2>1. Tidy(<<>>)
      BY EmptySeq, SlugAssumption DEF Tidy
    <2> QED
      BY <1>2, <1>3, <2>1, SlugRunStep
  <1>5. ASSUME NEW n \in N
        PROVE  n + 1 \in N
    <2> SUFFICES ASSUME n + 1 <= Len(name)
                 PROVE  Tidy(chosen[n + 1])
      OBVIOUS
    <2>1. n + 1 \in 1..Len(name) /\ (n + 1) - 1 = n /\ Tidy(chosen[n])
      BY <1>3
    <2>2. Tidy(Turn(chosen[n], name[n + 1]))
      BY <1>3, <2>1, TurnIsTidy
    <2>3. chosen[n + 1] = Turn(chosen[n], name[n + 1])
      BY <1>2, <1>3, <2>1, SlugRunStep
    <2> QED
      BY <2>2, <2>3
  <1>6. N = Nat
    <2> HIDE DEF N
    <2>1. N \in SUBSET Nat
      BY DEF N
    <2> QED
      BY <1>4, <1>5, <2>1, SetInduction
  <1> QED
    BY <1>1, <1>3, <1>6

(* A slug as its readers rely on it.                                       *)
IsSlug(slug) ==
  \/ slug = <<"device">>
  \/ /\ slug \in Seq(SlugCharacters)
     /\ Len(slug) \in 1..MaxSlug
     /\ \A i \in DOMAIN slug :
          \/ slug[i] = "plain"
          \/ i \in 2..(Len(slug) - 1) /\ slug[i - 1] = "plain" /\ slug[i + 1] = "plain"

LEMMA TrimIsSlug ==
  ASSUME NEW slug, Tidy(slug)
  PROVE  IsSlug(Trim(slug))
  <1> DEFINE letters == {i \in DOMAIN slug : slug[i] # "dash"}
  <1>1. Len(slug) \in Nat /\ DOMAIN slug = 1..Len(slug) /\ MaxSlug \in Nat
    BY LenProperties, SlugAssumption DEF Tidy
  <1>2. \A i \in 1..Len(slug) : slug[i] \in {"plain", "dash"}
    BY <1>1, ElementOfSeq DEF Tidy, SlugCharacters
  <1>3. CASE letters = {}
    BY <1>3 DEF Trim, IsSlug
  <1>4. CASE letters # {}
    <2>1. slug # <<>> /\ Len(slug) >= 1
      BY <1>1, <1>4, EmptySeq
    <2>2. 1 \in letters
      BY <1>1, <2>1 DEF Tidy
    <2>3. PICK m \in letters : \A i \in letters : i <= m
      <3>1. Len(slug) \in letters \/ Len(slug) - 1 \in letters
        BY <1>1, <1>2, <2>1, <2>2 DEF Tidy
      <3>2. Len(slug) \notin letters => \A i \in letters : i <= Len(slug) - 1
        BY <1>1
      <3> QED
        BY <1>1, <3>1, <3>2
    <2>4. letters \subseteq Int /\ \A i \in letters : 1 <= i
      BY <1>1
    <2> HIDE DEF letters
    <2>5. Min(letters) = 1
      BY <2>2, <2>4, MinIs
    <2>6. Max(letters) = m
      BY <2>3, <2>4, MaxIs
    <2> DEFINE trimmed == SubSeq(slug, 1, m)
    <2>7. Trim(slug) = trimmed
      BY <1>4, <2>5, <2>6 DEF Trim, letters
    <2>8. m \in 1..Len(slug) /\ slug[m] = "plain"
      BY <1>1, <1>2, <2>3 DEF letters
    <2>9. /\ trimmed \in Seq(SlugCharacters)
          /\ Len(trimmed) = m /\ DOMAIN trimmed = 1..m
          /\ \A i \in 1..m : trimmed[i] = slug[i]
      BY <1>1, <2>8, SubSeqProperties DEF Tidy
    <2> HIDE DEF trimmed
    <2>10. ASSUME NEW i \in 1..m, trimmed[i] # "plain"
           PROVE  /\ i \in 2..(m - 1)
                  /\ trimmed[i - 1] = "plain" /\ trimmed[i + 1] = "plain"
      <3>1. slug[i] = "dash" /\ i # m /\ i # 1
        BY <1>1, <1>2, <2>8, <2>9, <2>10, <2>1 DEF Tidy
      <3>2. i \in 2..(m - 1) /\ i - 1 \in 1..m /\ i + 1 \in 1..m
        BY <1>1, <2>8, <3>1
      <3>3. slug[i - 1] = "plain"
        BY <1>1, <2>8, <3>1, <3>2 DEF Tidy
      <3>4. slug[i + 1] # "dash"
        <4>1. i + 1 \in 2..Len(slug) /\ (i + 1) - 1 = i
          BY <1>1, <2>8, <3>2
        <4> QED
          BY <3>1, <4>1 DEF Tidy
      <3> QED
        BY <1>1, <1>2, <2>8, <2>9, <3>2, <3>3, <3>4
    <2>11. m \in 1..MaxSlug
      BY <1>1, <2>8 DEF Tidy
    <2> QED
      BY <2>7, <2>9, <2>10, <2>11 DEF IsSlug
  <1> QED
    BY <1>3, <1>4

(* Every name makes a slug.                                                *)
LEMMA DeviceSlugIsSlug ==
  ASSUME NEW name \in Texts
  PROVE  IsSlug(DeviceSlug(name))
  <1>1. DeviceSlug(name) = Trim(Untrimmed(name))
    BY DEF DeviceSlug, Untrimmed
  <1> QED
    BY <1>1, UntrimmedIsTidy, TrimIsSlug
-----------------------------------------------------------------------------
(* split_whitespace.                                                       *)

FieldStep(f, text, n) ==
  IF n = 0 THEN <<>>
  ELSE LET done == f[n - 1]
       IN IF text[n] = "space" THEN done
          ELSE IF n = 1 \/ text[n - 1] = "space" THEN Append(done, <<text[n]>>)
          ELSE [done EXCEPT ![Len(done)] = Append(@, text[n])]

IsFields(f, text) ==
  /\ f = [n \in 0..Len(text) |-> f[n]]
  /\ \A n \in 0..Len(text) : f[n] = FieldStep(f, text, n)

FieldsSoFar(text) == CHOOSE f : f = [n \in 0..Len(text) |-> FieldStep(f, text, n)]

LEMMA FieldsEquation ==
  ASSUME NEW f, NEW text
  PROVE  IsFields(f, text) <=> f = [n \in 0..Len(text) |-> FieldStep(f, text, n)]
  BY DEF IsFields

LEMMA TextFacts ==
  ASSUME NEW text \in Texts
  PROVE  /\ Len(text) \in Nat /\ DOMAIN text = 1..Len(text)
         /\ \A i \in 1..Len(text) : text[i] \in Characters
  BY LenProperties, ElementOfSeq DEF Texts

LEMMA Singletons == \A c \in Characters : <<c>> \in Texts
  <1> TAKE c \in Characters
  <1>1. <<c>> = Append(<<>>, c) /\ <<>> \in Texts
    BY EmptySeq DEF Texts
  <1> QED
    BY <1>1, AppendFacts DEF Texts

(* A character more in the last field.                                     *)
LastLonger(done, c) == [done EXCEPT ![Len(done)] = Append(@, c)]

LEMMA LastLongerFacts ==
  ASSUME NEW done \in Seq(Texts), NEW c \in Characters
  PROVE  /\ LastLonger(done, c) \in Seq(Texts)
         /\ Len(LastLonger(done, c)) = Len(done)
         /\ \A j \in 1..Len(done) : LastLonger(done, c)[j] =
              IF j = Len(done) THEN Append(done[j], c) ELSE done[j]
  <1>1. Len(done) \in Nat /\ DOMAIN done = 1..Len(done)
    BY LenProperties
  <1>2. CASE Len(done) = 0
    <2>1. LastLonger(done, c) = done
      BY <1>1, <1>2 DEF LastLonger
    <2> QED
      BY <1>1, <1>2, <2>1
  <1>3. CASE Len(done) # 0
    <2> DEFINE longer == Append(done[Len(done)], c)
    <2>1. Len(done) \in 1..Len(done) /\ longer \in Texts
      <3>1. Len(done) \in 1..Len(done)
        BY <1>1, <1>3
      <3>2. done[Len(done)] \in Texts
        BY <3>1, ElementOfSeq
      <3> QED
        BY <3>1, <3>2, AppendFacts DEF Texts
    <2>2. LastLonger(done, c) = [done EXCEPT ![Len(done)] = longer]
      BY DEF LastLonger
    <2>3. \A j : longer = IF j = Len(done) THEN Append(done[j], c) ELSE longer
      OBVIOUS
    <2> HIDE DEF longer
    <2>4. /\ [done EXCEPT ![Len(done)] = longer] \in Seq(Texts)
          /\ Len([done EXCEPT ![Len(done)] = longer]) = Len(done)
          /\ \A j \in 1..Len(done) : [done EXCEPT ![Len(done)] = longer][j] =
               IF j = Len(done) THEN longer ELSE done[j]
      BY <2>1, ExceptSeq
    <2>5. /\ LastLonger(done, c) \in Seq(Texts) /\ Len(LastLonger(done, c)) = Len(done)
          /\ \A j \in 1..Len(done) : LastLonger(done, c)[j] =
               IF j = Len(done) THEN longer ELSE done[j]
      BY <2>2, <2>4
    <2> QED
      BY <2>3, <2>5
  <1> QED
    BY <1>2, <1>3

FieldTurn(done, text, n) ==
  IF text[n] = "space" THEN done
  ELSE IF n = 1 \/ text[n - 1] = "space" THEN Append(done, <<text[n]>>)
  ELSE LastLonger(done, text[n])

LEMMA FieldTurnType ==
  ASSUME NEW text \in Texts, NEW n \in 1..Len(text), NEW done \in Seq(Texts)
  PROVE  FieldTurn(done, text, n) \in Seq(Texts)
  <1>1. text[n] \in Characters /\ <<text[n]>> \in Texts
    BY TextFacts, Singletons
  <1>2. Append(done, <<text[n]>>) \in Seq(Texts)
    BY <1>1, AppendFacts
  <1>3. LastLonger(done, text[n]) \in Seq(Texts)
    BY <1>1, LastLongerFacts
  <1> QED
    BY <1>2, <1>3 DEF FieldTurn

(* The function that defines Fields exists, and its values are fields.     *)
LEMMA FieldsExist ==
  ASSUME NEW text \in Texts
  PROVE  \E f \in [0..Len(text) -> Seq(Texts)] : IsFields(f, text)
  <1> DEFINE X == Seq(Texts)
             turn == [p \in X \X Nat |->
                        IF p[2] \in 1..Len(text) THEN FieldTurn(p[1], text, p[2])
                                                 ELSE p[1]]
  <1>1. turn \in [X \X Nat -> X]
    BY FieldTurnType
  <1>2. <<>> \in X /\ Len(text) \in Nat
    BY EmptySeq, TextFacts
  <1> HIDE DEF turn, X
  <1>3. PICK f : IsRun(f, X, Len(text), <<>>, turn)
    BY <1>1, <1>2, Loop
  <1>4. f = [n \in 0..Len(text) |-> f[n]] /\ f[0] = <<>> /\ f \in [0..Len(text) -> X]
    BY <1>3 DEF IsRun
  <1>5. ASSUME NEW n \in 0..Len(text)
        PROVE  f[n] = FieldStep(f, text, n)
    <2>1. CASE n = 0
      BY <1>4, <2>1 DEF FieldStep
    <2>2. CASE n # 0
      <3>1. n \in 1..Len(text) /\ n \in Nat /\ n - 1 \in 0..Len(text)
        BY <1>2, <2>2
      <3>2. f[n - 1] \in X
        BY <1>4, <3>1
      <3>3. turn[<<f[n - 1], n>>] = FieldTurn(f[n - 1], text, n)
        BY <3>1, <3>2 DEF turn
      <3>4. f[n] = FieldTurn(f[n - 1], text, n)
        BY <1>3, <3>1, <3>3 DEF IsRun
      <3> QED
        BY <2>2, <3>4 DEF FieldStep, FieldTurn, LastLonger
    <2> QED
      BY <2>1, <2>2
  <1>6. IsFields(f, text)
    BY <1>4, <1>5 DEF IsFields
  <1> QED
    BY <1>4, <1>6 DEF X

LEMMA FieldsTurns ==
  ASSUME NEW text \in Texts
  PROVE  /\ Fields(text) = FieldsSoFar(text)[Len(text)]
         /\ FieldsSoFar(text)[0] = <<>>
         /\ \A n \in 1..Len(text) :
              FieldsSoFar(text)[n] = FieldTurn(FieldsSoFar(text)[n - 1], text, n)
  <1> DEFINE f == FieldsSoFar(text)
  <1>1. Fields(text) = f[Len(text)]
    BY DEF Fields, FieldsSoFar, FieldStep
  <1>2. IsFields(f, text)
    BY FieldsExist, FieldsEquation DEF FieldsSoFar
  <1> HIDE DEF f
  <1>3. ASSUME NEW n \in 0..Len(text)
        PROVE  f[n] = FieldStep(f, text, n)
    BY <1>2 DEF IsFields
  <1>4. 0 \in 0..Len(text) /\ Len(text) \in Nat
    BY TextFacts
  <1>5. f[0] = <<>>
    BY <1>3, <1>4 DEF FieldStep
  <1>6. ASSUME NEW n \in 1..Len(text)
        PROVE  f[n] = FieldTurn(f[n - 1], text, n)
    <2>1. n \in 0..Len(text) /\ n # 0
      BY <1>4
    <2> QED
      BY <1>3, <2>1 DEF FieldStep, FieldTurn, LastLonger
  <1> QED
    BY <1>1, <1>5, <1>6 DEF f

LEMMA FieldsSoFarType ==
  ASSUME NEW text \in Texts
  PROVE  \A n \in 0..Len(text) : FieldsSoFar(text)[n] \in Seq(Texts)
  <1> DEFINE N == {n \in Nat : n <= Len(text) => FieldsSoFar(text)[n] \in Seq(Texts)}
  <1>0. Len(text) \in Nat
    BY TextFacts
  <1>1. 0 \in N
    BY FieldsTurns, EmptySeq
  <1>2. ASSUME NEW n \in N
        PROVE  n + 1 \in N
    <2> SUFFICES ASSUME n + 1 <= Len(text)
                 PROVE  FieldsSoFar(text)[n + 1] \in Seq(Texts)
      OBVIOUS
    <2>1. n + 1 \in 1..Len(text) /\ (n + 1) - 1 = n /\ FieldsSoFar(text)[n] \in Seq(Texts)
      BY <1>0
    <2> QED
      BY <2>1, FieldsTurns, FieldTurnType
  <1>3. N = Nat
    <2> HIDE DEF N
    <2>1. N \in SUBSET Nat
      BY DEF N
    <2> QED
      BY <1>1, <1>2, <2>1, SetInduction
  <1> QED
    BY <1>0, <1>3

(* A field has begun where a character is not a space.                     *)
LEMMA FieldHasBegun ==
  ASSUME NEW text \in Texts
  PROVE  \A n \in 1..Len(text) : text[n] # "space" => FieldsSoFar(text)[n] # <<>>
  <1> DEFINE f == FieldsSoFar(text)
             N == {n \in Nat : n \in 1..Len(text) /\ text[n] # "space" => Len(f[n]) > 0}
  <1>0. /\ Len(text) \in Nat
        /\ \A n \in 1..Len(text) : text[n] \in Characters
        /\ \A n \in 0..Len(text) : f[n] \in Seq(Texts)
        /\ \A n \in 1..Len(text) : f[n] = FieldTurn(f[n - 1], text, n)
    BY TextFacts, FieldsSoFarType, FieldsTurns
  <1> HIDE DEF f
  <1>1. 0 \in N
    OBVIOUS
  <1>2. ASSUME NEW n \in N
        PROVE  n + 1 \in N
    <2> SUFFICES ASSUME n + 1 \in 1..Len(text), text[n + 1] # "space"
                 PROVE  Len(f[n + 1]) > 0
      OBVIOUS
    <2>1. /\ (n + 1) - 1 = n /\ f[n] \in Seq(Texts) /\ text[n + 1] \in Characters
          /\ f[n + 1] = FieldTurn(f[n], text, n + 1)
      BY <1>0
    <2>2. CASE n + 1 = 1 \/ text[n] = "space"
      <3>1. f[n + 1] = Append(f[n], <<text[n + 1]>>)
        BY <2>1, <2>2 DEF FieldTurn
      <3> QED
        BY <2>1, <3>1, Singletons, AppendFacts
    <2>3. CASE n + 1 # 1 /\ text[n] # "space"
      <3>1. f[n + 1] = LastLonger(f[n], text[n + 1])
        BY <2>1, <2>3 DEF FieldTurn
      <3>2. Len(f[n + 1]) = Len(f[n])
        BY <2>1, <3>1, LastLongerFacts
      <3>3. Len(f[n]) > 0
        BY <2>3
      <3> QED
        BY <3>2, <3>3
    <2> QED
      BY <2>2, <2>3
  <1>3. N = Nat
    <2> HIDE DEF N
    <2>1. N \in SUBSET Nat
      BY DEF N
    <2> QED
      BY <1>1, <1>2, <2>1, SetInduction
  <1>4. ASSUME NEW n \in 1..Len(text), text[n] # "space"
        PROVE  f[n] # <<>>
    <2>1. n \in N
      BY <1>0, <1>3
    <2> HIDE <1>3
    <2>2. Len(f[n]) > 0
      BY <1>4, <2>1
    <2> QED
      BY <2>2, EmptySeq
  <1> QED
    BY <1>4 DEF f

LEMMA LongerPrefixed ==
  ASSUME NEW K \in Seq(Texts), NEW done \in Seq(Texts), done # <<>>,
         NEW c \in Characters
  PROVE  LastLonger(K \o done, c)
           = K \o LastLonger(done, c)
  <1> DEFINE joined  == K \o done
             longer  == LastLonger(done, c)
             changed == LastLonger(joined, c)
  <1>1. /\ joined \in Seq(Texts) /\ Len(joined) = Len(K) + Len(done)
        /\ \A i \in 1..Len(K) + Len(done) :
             joined[i] = IF i <= Len(K) THEN K[i] ELSE done[i - Len(K)]
    BY ConcatProperties
  <1>2. Len(K) \in Nat /\ Len(done) \in Nat \ {0}
    BY EmptySeq, LenProperties
  <1> HIDE DEF joined
  <1>3. /\ longer \in Seq(Texts) /\ Len(longer) = Len(done)
        /\ \A j \in 1..Len(done) :
             longer[j] = IF j = Len(done) THEN Append(done[j], c) ELSE done[j]
    BY LastLongerFacts
  <1>4. /\ changed \in Seq(Texts) /\ Len(changed) = Len(joined)
        /\ \A j \in 1..Len(joined) :
             changed[j] = IF j = Len(joined) THEN Append(joined[j], c) ELSE joined[j]
    BY <1>1, LastLongerFacts
  <1> HIDE DEF longer, changed
  <1>5. /\ K \o longer \in Seq(Texts) /\ Len(K \o longer) = Len(K) + Len(longer)
        /\ \A i \in 1..Len(K) + Len(longer) :
             (K \o longer)[i] = IF i <= Len(K) THEN K[i] ELSE longer[i - Len(K)]
    BY <1>3, ConcatProperties
  <1>6. ASSUME NEW i \in 1..Len(changed)
        PROVE  changed[i] = (K \o longer)[i]
    <2>1. CASE i <= Len(K)
      BY <1>1, <1>2, <1>3, <1>4, <1>5, <2>1
    <2>2. CASE i > Len(K)
      <3>1. i - Len(K) \in 1..Len(done) /\ i \in 1..Len(K) + Len(done)
        BY <1>1, <1>2, <1>4, <2>2
      <3>2. i = Len(joined) <=> i - Len(K) = Len(done)
        BY <1>1, <1>2, <3>1
      <3>3. joined[i] = done[i - Len(K)] /\ (K \o longer)[i] = longer[i - Len(K)]
        BY <1>1, <1>2, <1>3, <1>5, <2>2, <3>1
      <3>4. longer[i - Len(K)] = IF i - Len(K) = Len(done) THEN Append(done[i - Len(K)], c)
                                 ELSE done[i - Len(K)]
        BY <1>3, <3>1
      <3>5. changed[i] = IF i = Len(joined) THEN Append(joined[i], c) ELSE joined[i]
        BY <1>4
      <3>6. CASE i = Len(joined)
        BY <3>2, <3>3, <3>4, <3>5, <3>6
      <3>7. CASE i # Len(joined)
        BY <3>2, <3>3, <3>4, <3>5, <3>7
      <3> QED
        BY <3>6, <3>7
    <2>3. i <= Len(K) \/ i > Len(K)
      BY <1>1, <1>2, <1>4
    <2> QED
      BY <2>1, <2>2, <2>3
  <1>7. changed = K \o longer
    BY <1>1, <1>3, <1>4, <1>5, <1>6, SeqEqual
  <1> QED
    BY <1>7 DEF joined, longer, changed

(* What a turn appends or lengthens is the last field only, so the turns   *)
(* of a text behind other fields are the turns of the text.                *)
LEMMA FieldTurnPrefixed ==
  ASSUME NEW K \in Seq(Texts), NEW done \in Seq(Texts),
         NEW text \in Texts, NEW n \in 1..Len(text),
         n # 1 /\ text[n - 1] # "space" => done # <<>>,
         NEW longer \in Texts, NEW m \in 2..Len(longer),
         longer[m] = text[n],
         longer[m - 1] = IF n = 1 THEN "space" ELSE text[n - 1]
  PROVE  FieldTurn(K \o done, longer, m) = K \o FieldTurn(done, text, n)
  <1>1. /\ text[n] \in Characters /\ <<text[n]>> \in Texts
        /\ Len(text) \in Nat /\ Len(longer) \in Nat
    BY TextFacts, Singletons
  <1>2. m # 1 /\ (longer[m - 1] = "space" <=> (n = 1 \/ text[n - 1] = "space"))
    BY <1>1
  <1>3. CASE text[n] = "space"
    BY <1>3 DEF FieldTurn
  <1>4. CASE text[n] # "space" /\ longer[m - 1] = "space"
    <2>1. FieldTurn(done, text, n) = Append(done, <<text[n]>>)
      BY <1>2, <1>4 DEF FieldTurn
    <2>2. FieldTurn(K \o done, longer, m) = Append(K \o done, <<text[n]>>)
      BY <1>2, <1>4 DEF FieldTurn
    <2> DEFINE field == <<text[n]>>
    <2>3. field \in Texts
      BY <1>1
    <2> HIDE DEF field
    <2>4. /\ K \o done \in Seq(Texts) /\ <<field>> \in Seq(Texts)
          /\ Append(K \o done, field) = (K \o done) \o <<field>>
          /\ Append(done, field) = done \o <<field>>
      <3>1. K \o done \in Seq(Texts)
        BY ConcatProperties
      <3>2. <<field>> = Append(<<>>, field) /\ <<>> \in Seq(Texts)
        BY EmptySeq
      <3>3. <<field>> \in Seq(Texts)
        BY <2>3, <3>2, AppendFacts
      <3> QED
        BY <2>3, <3>1, <3>3, AppendIsConcat
    <2>5. (K \o done) \o <<field>> = K \o (done \o <<field>>)
      BY <2>4, ConcatAssociative, SMTT(30)
    <2> QED
      BY <2>1, <2>2, <2>4, <2>5 DEF field
  <1>5. CASE text[n] # "space" /\ longer[m - 1] # "space"
    <2>0. PICK c \in Characters : c = text[n] /\ c = longer[m]
      BY <1>1
    <2>1. FieldTurn(done, text, n) = LastLonger(done, c)
      BY <1>2, <1>5, <2>0 DEF FieldTurn
    <2>2. FieldTurn(K \o done, longer, m)
            = LastLonger(K \o done, c)
      BY <1>2, <1>5, <2>0 DEF FieldTurn
    <2>3. done # <<>>
      BY <1>2, <1>5
    <2>4. LastLonger(K \o done, c)
            = K \o LastLonger(done, c)
      BY <2>3, LongerPrefixed
    <2> QED
      BY <2>1, <2>2, <2>4, Zenon
  <1> QED
    BY <1>3, <1>4, <1>5
-----------------------------------------------------------------------------
(* The fields of a line mpx or somebody else wrote.                        *)

LEMMA TextConcat ==
  ASSUME NEW s \in Texts, NEW t \in Texts
  PROVE  /\ s \o t \in Texts
         /\ Len(s \o t) = Len(s) + Len(t)
         /\ \A i \in 1..Len(s) : (s \o t)[i] = s[i]
         /\ \A i \in 1..Len(t) : (s \o t)[Len(s) + i] = t[i]
  <1>1. /\ s \o t \in Texts
        /\ Len(s \o t) = Len(s) + Len(t)
        /\ \A i \in 1..Len(s) + Len(t) :
             (s \o t)[i] = IF i <= Len(s) THEN s[i] ELSE t[i - Len(s)]
    BY ConcatProperties DEF Texts
  <1>2. Len(s) \in Nat /\ Len(t) \in Nat
    BY TextFacts
  <1>3. \A i \in 1..Len(s) : (s \o t)[i] = s[i]
    BY <1>1, <1>2
  <1>4. ASSUME NEW i \in 1..Len(t)
        PROVE  (s \o t)[Len(s) + i] = t[i]
    <2>1. /\ Len(s) + i \in 1..Len(s) + Len(t) /\ ~(Len(s) + i <= Len(s))
          /\ (Len(s) + i) - Len(s) = i
      BY <1>2
    <2> QED
      BY <1>1, <2>1
  <1> QED
    BY <1>1, <1>3, <1>4

LineFields(comment) ==
  <<"key", "space">> \o Key \o (IF comment = <<>> THEN <<>> ELSE <<"space">> \o comment)

KeyFields == << <<"key">>, Key >>

LEMMA FrontFacts ==
  /\ <<"key", "space">> \o Key = <<"key", "space", "plain", "plain">>
  /\ <<"key", "space", "plain", "plain">> \in Texts
  /\ <<"space">> \in Texts
  /\ KeyFields \in Seq(Texts) /\ Len(KeyFields) = 2
  /\ KeyFields[1] = <<"key">> /\ KeyFields[2] = Key
  /\ Key \in Texts /\ Key = Append(<<"plain">>, "plain")
  <1>1. "key" \in Characters /\ "space" \in Characters /\ "plain" \in Characters
    BY DEF Characters
  <1>2. Key \in Texts
    <2>1. Key = Append(<<"plain">>, "plain") /\ <<"plain">> \in Texts
      BY <1>1, Singletons DEF Key
    <2> QED
      BY <1>1, <2>1, AppendFacts DEF Texts
  <1>7. Key = Append(<<"plain">>, "plain")
    BY DEF Key
  <1>3. <<"key", "space", "plain", "plain">> \in Texts
    <2>1. <<"key", "space">> = Append(<<"key">>, "space") /\ <<"key">> \in Texts
      BY <1>1, Singletons
    <2>2. <<"key", "space">> \in Texts
      BY <1>1, <2>1, AppendFacts DEF Texts
    <2>3. <<"key", "space", "plain">> = Append(<<"key", "space">>, "plain")
      OBVIOUS
    <2>4. <<"key", "space", "plain">> \in Texts
      BY <1>1, <2>2, <2>3, AppendFacts DEF Texts
    <2>5. <<"key", "space", "plain", "plain">> = Append(<<"key", "space", "plain">>, "plain")
      OBVIOUS
    <2> QED
      BY <1>1, <2>4, <2>5, AppendFacts DEF Texts
  <1>4. KeyFields \in Seq(Texts)
    <2>1. <<"key">> \in Texts
      BY <1>1, Singletons
    <2> DEFINE field == <<"key">>
    <2>2. field \in Texts
      BY <2>1
    <2>3. KeyFields = <<field, Key>>
      BY DEF KeyFields
    <2> HIDE DEF field
    <2>4. <<field, Key>> \in Seq(Texts)
      BY <1>2, <2>2
    <2> QED
      BY <2>3, <2>4
  <1>5. KeyFields[1] = <<"key">> /\ KeyFields[2] = Key /\ Len(KeyFields) = 2
    BY DEF KeyFields
  <1>6. <<"key", "space">> \o Key = <<"key", "space", "plain", "plain">>
    <2> DEFINE type == <<"key", "space">>
               both == <<"key", "space", "plain", "plain">>
    <2>1. type \in Texts
      <3>1. type = Append(<<"key">>, "space") /\ <<"key">> \in Texts
        BY <1>1, Singletons
      <3> QED
        BY <1>1, <3>1, AppendFacts DEF Texts
    <2>2. type[1] = "key" /\ type[2] = "space" /\ Len(type) = 2
      OBVIOUS
    <2>3. both[1] = "key" /\ both[2] = "space" /\ both[3] = "plain" /\ both[4] = "plain"
          /\ Len(both) = 4 /\ both \in Texts
      BY <1>3
    <2>4. Key[1] = "plain" /\ Key[2] = "plain" /\ Len(Key) = 2
      BY DEF Key
    <2> HIDE DEF type, both
    <2>5. /\ type \o Key \in Texts /\ Len(type \o Key) = 4
          /\ (type \o Key)[1] = "key" /\ (type \o Key)[2] = "space"
          /\ (type \o Key)[2 + 1] = "plain" /\ (type \o Key)[2 + 2] = "plain"
      <3>1. /\ type \o Key \in Texts /\ Len(type \o Key) = Len(type) + Len(Key)
            /\ \A i \in 1..Len(type) : (type \o Key)[i] = type[i]
            /\ \A i \in 1..Len(Key) : (type \o Key)[Len(type) + i] = Key[i]
        BY <1>2, <2>1, TextConcat
      <3>2. 1 \in 1..Len(type) /\ 2 \in 1..Len(type) /\ 1 \in 1..Len(Key)
            /\ 2 \in 1..Len(Key)
        BY <2>2, <2>4
      <3>3. /\ (type \o Key)[1] = type[1] /\ (type \o Key)[2] = type[2]
            /\ (type \o Key)[Len(type) + 1] = Key[1] /\ (type \o Key)[Len(type) + 2] = Key[2]
        BY <3>1, <3>2
      <3> QED
        BY <2>2, <2>4, <3>1, <3>3
    <2>6. \A i \in 1..Len(type \o Key) : (type \o Key)[i] = both[i]
      BY <2>3, <2>5
    <2>7. type \o Key = both
      BY <2>3, <2>5, <2>6, SeqEqual DEF Texts
    <2> QED
      BY <2>7 DEF type, both
  <1> QED
    BY <1>1, <1>2, <1>3, <1>4, <1>5, <1>6, <1>7, Singletons

LEMMA LineFieldsFacts ==
  ASSUME NEW comment \in Texts, NEW line0, line0 = LineFields(comment)
  PROVE  /\ line0 \in Texts
         /\ Len(line0) = IF comment = <<>> THEN 4 ELSE 5 + Len(comment)
         /\ line0[1] = "key" /\ line0[2] = "space"
         /\ line0[3] = "plain" /\ line0[4] = "plain"
         /\ comment # <<>> => line0[5] = "space"
         /\ \A i \in 1..Len(comment) : line0[5 + i] = comment[i]
  <1> DEFINE front == <<"key", "space", "plain", "plain">>
             rest  == IF comment = <<>> THEN <<>> ELSE <<"space">> \o comment
  <1>0. Len(comment) \in Nat /\ (comment = <<>> => Len(comment) = 0)
    BY TextFacts, EmptySeq
  <1>1. line0 = front \o rest
    BY FrontFacts DEF LineFields
  <1>2. /\ front \in Texts /\ Len(front) = 4
        /\ front[1] = "key" /\ front[2] = "space"
        /\ front[3] = "plain" /\ front[4] = "plain"
    BY FrontFacts
  <1> HIDE DEF front
  <1>3. CASE comment = <<>>
    <2>1. rest = <<>>
      BY <1>3
    <2>2. line0 = front
      BY <1>1, <1>2, <2>1, ConcatEmptySeq DEF Texts
    <2> QED
      BY <1>0, <1>2, <1>3, <2>2
  <1>4. CASE comment # <<>>
    <2> DEFINE sep == <<"space">>
    <2>1. sep \in Texts /\ Len(sep) = 1 /\ sep[1] = "space" /\ rest = sep \o comment
      BY <1>4, FrontFacts
    <2> HIDE DEF sep, rest
    <2>2. /\ rest \in Texts /\ Len(rest) = 1 + Len(comment)
          /\ rest[1] = "space"
          /\ \A i \in 1..Len(comment) : rest[1 + i] = comment[i]
      <3>1. /\ sep \o comment \in Texts /\ Len(sep \o comment) = Len(sep) + Len(comment)
            /\ \A i \in 1..Len(sep) : (sep \o comment)[i] = sep[i]
            /\ \A i \in 1..Len(comment) : (sep \o comment)[Len(sep) + i] = comment[i]
        BY <2>1, TextConcat
      <3>2. 1 \in 1..Len(sep)
        BY <2>1
      <3>3. (sep \o comment)[1] = sep[1]
        BY <3>1, <3>2
      <3> QED
        BY <2>1, <3>1, <3>3
    <2>3. /\ line0 \in Texts /\ Len(line0) = 4 + Len(rest)
          /\ \A i \in 1..4 : line0[i] = front[i]
          /\ \A i \in 1..Len(rest) : line0[4 + i] = rest[i]
      <3>1. /\ front \o rest \in Texts /\ Len(front \o rest) = Len(front) + Len(rest)
            /\ \A i \in 1..Len(front) : (front \o rest)[i] = front[i]
            /\ \A i \in 1..Len(rest) : (front \o rest)[Len(front) + i] = rest[i]
        BY <1>2, <2>2, TextConcat
      <3> QED
        BY <1>1, <1>2, <3>1
    <2>4. Len(line0) = 5 + Len(comment)
      BY <1>0, <2>2, <2>3
    <2>5. line0[1] = front[1] /\ line0[2] = front[2] /\ line0[3] = front[3]
          /\ line0[4] = front[4]
      BY <2>3
    <2>6. line0[5] = "space"
      <3>1. 1 \in 1..Len(rest) /\ 4 + 1 = 5
        BY <1>0, <2>2
      <3> QED
        BY <2>2, <2>3, <3>1
    <2>7. ASSUME NEW i \in 1..Len(comment)
          PROVE  line0[5 + i] = comment[i]
      <3>1. 1 + i \in 1..Len(rest) /\ 4 + (1 + i) = 5 + i
        BY <1>0, <2>2
      <3> QED
        BY <2>2, <2>3, <3>1
    <2> QED
      BY <1>2, <1>4, <2>3, <2>4, <2>5, <2>6, <2>7
  <1> QED
    BY <1>3, <1>4

LEMMA PairIsAppend ==
  ASSUME NEW T, NEW a \in T, NEW b \in T
  PROVE  Append(<<a>>, b) = <<a, b>>
  <1>1. <<a>> \in Seq(T) /\ <<a, b>> \in Seq(T)
    OBVIOUS
  <1>2. Len(<<a>>) = 1 /\ <<a>>[1] = a /\ Len(<<a, b>>) = 2
        /\ <<a, b>>[1] = a /\ <<a, b>>[2] = b
    OBVIOUS
  <1> DEFINE one == <<a>>
             two == <<a, b>>
  <1>3. one \in Seq(T) /\ two \in Seq(T) /\ Len(one) = 1 /\ Len(two) = 2
        /\ one[1] = a /\ two[1] = a /\ two[2] = b
    BY <1>1, <1>2
  <1> HIDE DEF one, two
  <1>4. /\ Append(one, b) \in Seq(T) /\ Len(Append(one, b)) = Len(one) + 1
        /\ \A n \in 1..Len(one) : Append(one, b)[n] = one[n]
        /\ Append(one, b)[Len(one) + 1] = b
    BY <1>3, AppendFacts, SMTT(30)
  <1>5. Append(one, b)[1] = a /\ Append(one, b)[2] = b
    BY <1>3, <1>4
  <1>6. ASSUME NEW n \in 1..Len(two)
        PROVE  Append(one, b)[n] = two[n]
    <2>1. n = 1 \/ n = 2
      BY <1>3
    <2> QED
      BY <1>3, <1>5, <2>1, Zenon
  <1>7. Append(one, b) = two
    BY <1>3, <1>4, <1>6, SeqEqual
  <1> QED
    BY <1>7 DEF one, two

LEMMA FrontTurns ==
  ASSUME NEW text \in Texts, Len(text) >= 4,
         text[1] = "key", text[2] = "space", text[3] = "plain", text[4] = "plain"
  PROVE  FieldsSoFar(text)[4] = KeyFields
  <1> DEFINE f == FieldsSoFar(text)
             field == <<"key">>
             half == <<"plain">>
  <1>1. 1 \in 1..Len(text) /\ 2 \in 1..Len(text) /\ 3 \in 1..Len(text) /\ 4 \in 1..Len(text)
    BY TextFacts
  <1>2. /\ f[0] = <<>>
        /\ f[1] = FieldTurn(f[0], text, 1) /\ f[2] = FieldTurn(f[1], text, 2)
        /\ f[3] = FieldTurn(f[2], text, 3) /\ f[4] = FieldTurn(f[3], text, 4)
    <2>1. f[1] = FieldTurn(f[1 - 1], text, 1) /\ f[2] = FieldTurn(f[2 - 1], text, 2)
          /\ f[3] = FieldTurn(f[3 - 1], text, 3) /\ f[4] = FieldTurn(f[4 - 1], text, 4)
      BY <1>1, FieldsTurns
    <2> QED
      BY <2>1, FieldsTurns
  <1> HIDE DEF f
  <1>3. f[1] = <<field>>
    <2>1. FieldTurn(f[0], text, 1) = Append(f[0], <<text[1]>>)
      BY DEF FieldTurn
    <2> QED
      BY <1>2, <2>1
  <1>4. f[2] = <<field>>
    BY <1>2, <1>3 DEF FieldTurn
  <1>5. f[3] = <<field, half>>
    <2>1. FieldTurn(f[2], text, 3) = Append(f[2], <<text[3]>>)
      BY DEF FieldTurn
    <2>2. <<text[3]>> = half
      OBVIOUS
    <2> HIDE DEF field, half
    <2>3. f[3] = Append(<<field>>, half)
      BY <1>2, <1>4, <2>1, <2>2
    <2>4. field \in Texts /\ half \in Texts
      BY Singletons DEF field, half, Characters
    <2>5. Append(<<field>>, half) = <<field, half>>
      BY <2>4, PairIsAppend
    <2> QED
      BY <2>3, <2>5
  <1>6. f[4] = LastLonger(f[3], "plain")
    BY <1>2 DEF FieldTurn
  <1>7. LastLonger(<<field, half>>, "plain") = <<field, Append(half, "plain")>>
    <2> HIDE DEF field, half
    <2> QED
      BY DEF LastLonger
  <1>8. Append(half, "plain") = Key
    BY FrontFacts
  <1> QED
    BY <1>5, <1>6, <1>7, <1>8 DEF KeyFields, f

(* The key type, the key and what the comment has: a comment of spaces has *)
(* none.                                                                   *)
LEMMA FieldsBehindKey ==
  ASSUME NEW comment \in Texts
  PROVE  Fields(LineFields(comment)) = KeyFields \o Fields(comment)
  <1> DEFINE text == LineFields(comment)
             f == FieldsSoFar(text)
             g == FieldsSoFar(comment)
  <1>1. /\ text \in Texts
        /\ Len(text) = IF comment = <<>> THEN 4 ELSE 5 + Len(comment)
        /\ text[1] = "key" /\ text[2] = "space" /\ text[3] = "plain" /\ text[4] = "plain"
        /\ comment # <<>> => text[5] = "space"
        /\ \A i \in 1..Len(comment) : text[5 + i] = comment[i]
    BY LineFieldsFacts
  <1>2. Len(comment) \in Nat /\ (comment = <<>> => Len(comment) = 0)
    BY TextFacts, EmptySeq
  <1> HIDE DEF text
  <1>3. /\ Fields(text) = f[Len(text)] /\ Fields(comment) = g[Len(comment)]
        /\ \A n \in 1..Len(text) : f[n] = FieldTurn(f[n - 1], text, n)
        /\ g[0] = <<>>
        /\ \A n \in 1..Len(comment) : g[n] = FieldTurn(g[n - 1], comment, n)
    BY <1>1, FieldsTurns
  <1>4. f[4] = KeyFields
    <2>1. Len(text) >= 4
      BY <1>1, <1>2
    <2> QED
      BY <1>1, <2>1, FrontTurns
  <1>5. \A n \in 0..Len(comment) : g[n] \in Seq(Texts)
    BY FieldsSoFarType
  <1>6. \A n \in 1..Len(comment) : comment[n] # "space" => g[n] # <<>>
    BY FieldHasBegun
  <1> HIDE DEF f, g
  <1>7. KeyFields \in Seq(Texts) /\ KeyFields \o <<>> = KeyFields
    BY FrontFacts, ConcatEmptySeq
  <1>8. CASE comment = <<>>
    BY <1>1, <1>2, <1>3, <1>4, <1>7, <1>8 DEF text
  <1>9. CASE comment # <<>>
    <2> DEFINE N == {n \in Nat : n <= Len(comment) => f[5 + n] = KeyFields \o g[n]}
    <2>1. 0 \in N
      <3>1. 5 \in 1..Len(text) /\ 5 - 1 = 4 /\ 5 + 0 = 5
        BY <1>1, <1>2, <1>9
      <3>2. f[5] = FieldTurn(f[4], text, 5)
        BY <1>3, <3>1
      <3>3. f[5] = f[4]
        BY <1>1, <1>9, <3>2 DEF FieldTurn
      <3> QED
        BY <1>3, <1>4, <1>7, <3>1, <3>3
    <2>2. ASSUME NEW n \in N
          PROVE  n + 1 \in N
      <3> SUFFICES ASSUME n + 1 <= Len(comment)
                   PROVE  f[5 + (n + 1)] = KeyFields \o g[n + 1]
        OBVIOUS
      <3>1. /\ n \in Nat /\ f[5 + n] = KeyFields \o g[n]
            /\ n + 1 \in 1..Len(comment) /\ (n + 1) - 1 = n /\ n \in 0..Len(comment)
            /\ 5 + (n + 1) \in 2..Len(text) /\ 5 + (n + 1) \in 1..Len(text)
            /\ (5 + (n + 1)) - 1 = 5 + n
        BY <1>1, <1>2, <1>9
      <3> HIDE DEF N
      <3>2. /\ f[5 + (n + 1)] = FieldTurn(f[5 + n], text, 5 + (n + 1))
            /\ g[n + 1] = FieldTurn(g[n], comment, n + 1)
            /\ g[n] \in Seq(Texts)
        BY <1>3, <1>5, <3>1
      <3>3. text[5 + (n + 1)] = comment[n + 1]
        BY <1>1, <3>1
      <3>4. text[5 + n] = IF n + 1 = 1 THEN "space" ELSE comment[n]
        <4>1. CASE n = 0
          BY <1>1, <1>9, <4>1
        <4>2. CASE n # 0
          <5>1. n \in 1..Len(comment)
            BY <1>2, <3>1, <4>2
          <5> QED
            BY <1>1, <4>2, <5>1
        <4> QED
          BY <4>1, <4>2
      <3>5. n + 1 # 1 /\ comment[n] # "space" => g[n] # <<>>
        <4>1. n + 1 # 1 => n \in 1..Len(comment)
          BY <1>2, <3>1
        <4> QED
          BY <1>6, <4>1
      <3>6. FieldTurn(KeyFields \o g[n], text, 5 + (n + 1))
              = KeyFields \o FieldTurn(g[n], comment, n + 1)
        <4>1. PICK k \in 1..Len(comment) : k = n + 1
          BY <3>1
        <4>2. PICK m \in 2..Len(text) : m = 5 + (n + 1)
          BY <3>1
        <4>3. k - 1 = n /\ m - 1 = 5 + n
          BY <3>1, <4>1, <4>2
        <4>4. k # 1 /\ comment[k - 1] # "space" => g[n] # <<>>
          BY <3>5, <4>1, <4>3
        <4>5. text[m] = comment[k]
          BY <3>3, <4>1, <4>2
        <4>6. text[m - 1] = IF k = 1 THEN "space" ELSE comment[k - 1]
          BY <3>4, <4>1, <4>3
        <4>7. FieldTurn(KeyFields \o g[n], text, m) = KeyFields \o FieldTurn(g[n], comment, k)
          BY <1>1, <1>7, <3>2, <4>4, <4>5, <4>6, FieldTurnPrefixed
        <4> QED
          BY <4>1, <4>2, <4>7
      <3> QED
        BY <3>1, <3>2, <3>6
    <2>3. N = Nat
      <3> HIDE DEF N
      <3>1. N \in SUBSET Nat
        BY DEF N
      <3> QED
        BY <2>1, <2>2, <3>1, SetInduction
    <2>4. f[5 + Len(comment)] = KeyFields \o g[Len(comment)]
      <3>1. Len(comment) \in N
        <4> HIDE DEF N
        <4> QED
          BY <1>2, <2>3
      <3> QED
        BY <1>2, <3>1
    <2> QED
      BY <1>1, <1>3, <1>9, <2>4 DEF text
  <1> QED
    BY <1>8, <1>9
-----------------------------------------------------------------------------
(* skip_options.  What sshd takes for options is stated without the walk:  *)
(* a word of characters and quoted strings, and the spaces behind it.  In  *)
(* a string a quote is hidden by the backslash before it, and a backslash  *)
(* hides nothing else; the string ends at the first quote that is not.     *)

IsBody(b) ==
  /\ \A i \in 1..Len(b) : b[i] = "quote" => i > 1 /\ b[i - 1] = "backslash"
  /\ b # <<>> => b[Len(b)] # "backslash"

WordsClosed(G) ==
  /\ <<>> \in G
  /\ \A w \in G, c \in Characters \ {"quote", "backslash", "space"} : Append(w, c) \in G
  /\ \A w \in G, b \in Texts :
       IsBody(b) => w \o <<"quote">> \o b \o <<"quote">> \in G

IsWord(w) == \A G \in SUBSET Texts : WordsClosed(G) => w \in G

IsOptions(options) ==
  \/ options = <<>>
  \/ \E w \in Texts, spaces \in Seq({"space"}) :
       /\ IsWord(w) /\ w # <<>> /\ w[1] # "key"
       /\ spaces # <<>>
       /\ options = w \o spaces

(* There are as many as their rules build.                                 *)
LEMMA OptionsAreBuilt ==
  /\ IsWord(<<>>)
  /\ \A w \in Texts, c \in Characters \ {"quote", "backslash", "space"} :
       IsWord(w) => IsWord(Append(w, c))
  /\ \A w \in Texts, b \in Texts :
       IsWord(w) /\ IsBody(b) => IsWord(w \o <<"quote">> \o b \o <<"quote">>)
  <1>1. IsWord(<<>>)
    BY DEF IsWord, WordsClosed
  <1>2. ASSUME NEW w \in Texts, NEW c \in Characters \ {"quote", "backslash", "space"},
               IsWord(w)
        PROVE  IsWord(Append(w, c))
    BY <1>2, Zenon DEF IsWord, WordsClosed
  <1>3. ASSUME NEW w \in Texts, NEW b \in Texts, IsWord(w), IsBody(b)
        PROVE  IsWord(w \o <<"quote">> \o b \o <<"quote">>)
    BY <1>3, Zenon DEF IsWord, WordsClosed
  <1> QED
    BY <1>1, <1>2, <1>3

(* A part that begins the text, or a string in it, is no more disputed     *)
(* than the text is.                                                       *)
LEMMA DisputedPart ==
  ASSUME NEW part \in Texts, NEW text \in Texts, NEW k \in Nat,
         k + Len(part) <= Len(text),
         \A i \in 1..Len(part) : text[k + i] = part[i],
         k = 0 \/ text[k] = "quote",
         Disputed(part)
  PROVE  Disputed(text)
  <1>1. Len(part) \in Nat /\ Len(text) \in Nat
    BY TextFacts
  <1>2. PICK i \in 1..Len(part), m \in 1..Len(part) :
          /\ 2 * m < i
          /\ part[i] = "quote"
          /\ \A j \in (i - 2 * m)..(i - 1) : part[j] = "backslash"
          /\ i = 2 * m + 1 \/ part[i - 2 * m - 1] # "backslash"
    BY DEF Disputed
  <1>3. /\ i \in Nat /\ m \in Nat /\ i > 0 /\ m > 0
        /\ k + i \in 1..Len(text) /\ m \in 1..Len(text) /\ 2 * m < k + i
    BY <1>1, <1>2
  <1>4. text[k + i] = "quote"
    BY <1>2
  <1>5. ASSUME NEW j \in ((k + i) - 2 * m)..((k + i) - 1)
        PROVE  text[j] = "backslash"
    <2>1. /\ j - k \in (i - 2 * m)..(i - 1) /\ j - k \in 1..Len(part)
          /\ k + (j - k) = j
      BY <1>1, <1>2, <1>3
    <2> QED
      BY <1>2, <2>1
  <1>6. (k + i) = 2 * m + 1 \/ text[(k + i) - 2 * m - 1] # "backslash"
    <2>1. CASE i = 2 * m + 1
      <3>1. (k + i) - 2 * m - 1 = k
        BY <1>3, <2>1
      <3> QED
        BY <1>3, <2>1, <3>1
    <2>2. CASE i # 2 * m + 1
      <3>1. /\ i - 2 * m - 1 \in 1..Len(part)
            /\ k + (i - 2 * m - 1) = (k + i) - 2 * m - 1
        BY <1>1, <1>2, <1>3, <2>2
      <3> QED
        BY <1>2, <2>2, <3>1
    <2> QED
      BY <2>1, <2>2
  <1> QED
    BY <1>3, <1>4, <1>5, <1>6 DEF Disputed

States == [quoted : BOOLEAN, escaped : BOOLEAN]
Clean == [quoted |-> FALSE, escaped |-> FALSE]
Quoted == [quoted |-> TRUE, escaped |-> FALSE]
Hiding == [quoted |-> TRUE, escaped |-> TRUE]

WalkStep(before, c) ==
  IF before.escaped THEN [before EXCEPT !.escaped = FALSE]
  ELSE IF Escapes(before, c) THEN [before EXCEPT !.escaped = TRUE]
  ELSE [before EXCEPT !.quoted = (@ # (c = "quote"))]

LEMMA WalkStepType ==
  ASSUME NEW before \in States, NEW c
  PROVE  WalkStep(before, c) \in States
  <1>1. /\ [before EXCEPT !.escaped = FALSE] \in States
        /\ [before EXCEPT !.escaped = TRUE] \in States
    BY DEF States
  <1>2. [before EXCEPT !.quoted = (@ # (c = "quote"))] \in States
    <2>1. (before.quoted # (c = "quote")) \in BOOLEAN
      OBVIOUS
    <2> QED
      BY <2>1 DEF States
  <1> QED
    BY <1>1, <1>2 DEF WalkStep

LEMMA WalkTable ==
  ASSUME NEW c
  PROVE  /\ c # "quote" => WalkStep(Clean, c) = Clean
         /\ WalkStep(Clean, "quote") = Quoted
         /\ c \notin {"quote", "backslash"} => WalkStep(Quoted, c) = Quoted
         /\ WalkStep(Quoted, "quote") = Clean
         /\ WalkStep(Quoted, "backslash") = Hiding
         /\ WalkStep(Hiding, c) = Quoted
  <1>1. c # "quote" => WalkStep(Clean, c) = Clean
    BY DEF WalkStep, Escapes, Clean
  <1>2. WalkStep(Clean, "quote") = Quoted
    BY DEF WalkStep, Escapes, Clean, Quoted
  <1>3. c \notin {"quote", "backslash"} => WalkStep(Quoted, c) = Quoted
    BY DEF WalkStep, Escapes, Quoted
  <1>4. WalkStep(Quoted, "quote") = Clean
    BY DEF WalkStep, Escapes, Quoted, Clean
  <1>5. WalkStep(Quoted, "backslash") = Hiding
    BY DEF WalkStep, Escapes, Quoted, Hiding
  <1>6. WalkStep(Hiding, c) = Quoted
    BY DEF WalkStep, Escapes, Quoted, Hiding
  <1> QED
    BY <1>1, <1>2, <1>3, <1>4, <1>5, <1>6

WalkAt(at, text, i) == IF i = 1 THEN Clean ELSE WalkStep(at[i - 1], text[i - 1])

IsWalk(at, text) ==
  /\ at = [i \in 1..Len(text) |-> at[i]]
  /\ \A i \in 1..Len(text) : at[i] = WalkAt(at, text, i)

LEMMA WalkEquation ==
  ASSUME NEW at, NEW text
  PROVE  IsWalk(at, text) <=> at = [i \in 1..Len(text) |-> WalkAt(at, text, i)]
  BY DEF IsWalk

LEMMA WalkExists ==
  ASSUME NEW text \in Texts
  PROVE  \E at : IsWalk(at, text)
  <1> DEFINE turn == [p \in States \X Nat |->
                        IF p[2] \in 1..Len(text) THEN WalkStep(p[1], text[p[2]])
                                                 ELSE p[1]]
  <1>1. turn \in [States \X Nat -> States]
    BY WalkStepType
  <1>2. Clean \in States /\ Len(text) \in Nat
    BY TextFacts DEF Clean, States
  <1> HIDE DEF turn
  <1>3. PICK f : IsRun(f, States, Len(text), Clean, turn)
    BY <1>1, <1>2, Loop
  <1> DEFINE at == [i \in 1..Len(text) |-> f[i - 1]]
  <1>4. ASSUME NEW i \in 1..Len(text)
        PROVE  at[i] = WalkAt(at, text, i)
    <2>1. CASE i = 1
      <3>1. at[i] = f[0] /\ f[0] = Clean
        BY <1>3, <2>1 DEF IsRun
      <3> QED
        BY <2>1, <3>1 DEF WalkAt
    <2>2. CASE i # 1
      <3>1. /\ i - 1 \in 1..Len(text) /\ i - 1 \in Nat /\ (i - 1) - 1 \in 0..Len(text)
            /\ at[i] = f[i - 1] /\ at[i - 1] = f[(i - 1) - 1]
        BY <1>2, <2>2
      <3>2. f[(i - 1) - 1] \in States
        BY <1>3, <3>1 DEF IsRun
      <3>3. f[i - 1] = turn[<<f[(i - 1) - 1], i - 1>>]
        BY <1>3, <3>1 DEF IsRun
      <3>4. turn[<<f[(i - 1) - 1], i - 1>>] = WalkStep(f[(i - 1) - 1], text[i - 1])
        BY <3>1, <3>2 DEF turn
      <3> HIDE DEF at
      <3> QED
        BY <2>2, <3>1, <3>3, <3>4 DEF WalkAt
    <2> QED
      BY <2>1, <2>2
  <1>5. at = [i \in 1..Len(text) |-> at[i]]
    OBVIOUS
  <1> HIDE DEF at
  <1>6. IsWalk(at, text)
    BY <1>4, <1>5 DEF IsWalk
  <1> QED
    BY <1>6

LEMMA WalkTurns ==
  ASSUME NEW text \in Texts
  PROVE  /\ Len(text) > 0 => Walk(text)[1] = Clean
         /\ \A i \in 1..Len(text) :
              i + 1 <= Len(text) => Walk(text)[i + 1] = WalkStep(Walk(text)[i], text[i])
  <1> DEFINE at == CHOOSE g : g = [i \in 1..Len(text) |-> WalkAt(g, text, i)]
  <1>1. Walk(text) = at
    BY DEF Walk, WalkAt, WalkStep, Clean
  <1>2. IsWalk(at, text)
    BY WalkExists, WalkEquation
  <1> HIDE DEF at
  <1>3. Len(text) \in Nat
    BY TextFacts
  <1>4. \A i \in 1..Len(text) : at[i] = WalkAt(at, text, i)
    BY <1>2 DEF IsWalk
  <1>5. Len(text) > 0 => at[1] = Clean
    BY <1>3, <1>4 DEF WalkAt
  <1>6. ASSUME NEW i \in 1..Len(text), i + 1 <= Len(text)
        PROVE  at[i + 1] = WalkStep(at[i], text[i])
    <2>1. i + 1 \in 1..Len(text) /\ i + 1 # 1 /\ (i + 1) - 1 = i
      BY <1>3, <1>6
    <2> QED
      BY <1>4, <2>1 DEF WalkAt
  <1> QED
    BY <1>1, <1>5, <1>6

(* part stands in text from place k + 1 on, and something follows it.      *)
Occurs(part, text, k) ==
  /\ k + Len(part) < Len(text)
  /\ \A i \in 1..Len(part) : text[k + i] = part[i]

LEMMA OccursAppend ==
  ASSUME NEW part \in Texts, NEW c \in Characters, NEW text \in Texts, NEW k \in Nat,
         Occurs(Append(part, c), text, k)
  PROVE  /\ Occurs(part, text, k)
         /\ text[k + Len(part) + 1] = c
         /\ Len(Append(part, c)) = Len(part) + 1
         /\ k + Len(part) + 1 \in 1..Len(text)
         /\ k + Len(part) + 2 <= Len(text)
  <1> DEFINE longer == Append(part, c)
  <1>1. /\ Len(part) \in Nat /\ Len(text) \in Nat /\ Len(longer) = Len(part) + 1
        /\ \A n \in 1..Len(part) : longer[n] = part[n]
        /\ longer[Len(part) + 1] = c
    BY AppendFacts, TextFacts DEF Texts
  <1>2. k + Len(longer) < Len(text) /\ \A i \in 1..Len(longer) : text[k + i] = longer[i]
    BY DEF Occurs
  <1> HIDE DEF longer
  <1>3. text[k + (Len(part) + 1)] = c /\ k + (Len(part) + 1) = k + Len(part) + 1
    BY <1>1, <1>2
  <1>4. \A i \in 1..Len(part) : text[k + i] = part[i]
    BY <1>1, <1>2
  <1>5. k + Len(part) + 2 <= Len(text)
    BY <1>1, <1>2
  <1>6. Occurs(part, text, k)
    BY <1>1, <1>4, <1>5 DEF Occurs
  <1> QED
    BY <1>1, <1>3, <1>5, <1>6 DEF longer

(* A body does not end the quotes it is in, and hides its spaces.          *)
BodyWalks(b) ==
  \A text \in Texts, k \in Nat :
    Occurs(b, text, k) /\ Walk(text)[k + 1] = Quoted =>
      /\ Walk(text)[k + Len(b) + 1] = Quoted
      /\ \A i \in 1..Len(b) : Walk(text)[k + i].quoted

LEMMA WalkOn ==
  ASSUME NEW text \in Texts, NEW i \in 1..Len(text), i + 1 <= Len(text)
  PROVE  Walk(text)[i + 1] = WalkStep(Walk(text)[i], text[i])
  BY WalkTurns

(* The backslashes at the end of the first j characters: there are n.      *)
Run(b, j, n) ==
  /\ n <= j
  /\ \A i \in (j - n + 1)..j : b[i] = "backslash"
  /\ n = j \/ b[j - n] # "backslash"

(* The walk takes them in pairs, so it is hiding after an odd number.      *)
Reads(b, at, j) ==
  \/ at = Quoted /\ \E m \in Nat : Run(b, j, 2 * m)
  \/ at = Hiding /\ \E m \in Nat : Run(b, j, 2 * m + 1)

LEMMA RunStep ==
  ASSUME NEW b \in Texts, NEW j \in Nat, j + 1 <= Len(b), NEW n \in Nat, Run(b, j, n)
  PROVE  /\ b[j + 1] = "backslash" => Run(b, j + 1, n + 1)
         /\ b[j + 1] # "backslash" => Run(b, j + 1, 0)
  <1>1. CASE b[j + 1] = "backslash"
    <2>1. n + 1 <= j + 1
      BY DEF Run
    <2>2. ASSUME NEW i \in ((j + 1) - (n + 1) + 1)..(j + 1)
          PROVE  b[i] = "backslash"
      <3>1. i \in (j - n + 1)..j \/ i = j + 1
        OBVIOUS
      <3> QED
        BY <1>1, <3>1 DEF Run
    <2>3. n + 1 = j + 1 \/ b[(j + 1) - (n + 1)] # "backslash"
      <3>1. (j + 1) - (n + 1) = j - n
        OBVIOUS
      <3> QED
        BY <3>1 DEF Run
    <2> QED
      BY <1>1, <2>1, <2>2, <2>3 DEF Run
  <1>2. CASE b[j + 1] # "backslash"
    <2>1. (j + 1) - 0 = j + 1 /\ (j + 1) - 0 + 1 = j + 2 /\ 0 <= j + 1
      OBVIOUS
    <2>2. (j + 2)..(j + 1) = {}
      OBVIOUS
    <2> QED
      BY <1>2, <2>1, <2>2 DEF Run
  <1> QED
    BY <1>1, <1>2

(* A quote in a body that is not disputed is hidden from the walk too.     *)
LEMMA QuoteIsHidden ==
  ASSUME NEW b \in Texts, IsBody(b), ~Disputed(b), NEW j \in Nat, j + 1 <= Len(b),
         b[j + 1] = "quote", NEW at, Reads(b, at, j)
  PROVE  at = Hiding
  <1>1. Len(b) \in Nat /\ j + 1 \in 1..Len(b) /\ (j + 1) - 1 = j
    BY TextFacts
  <1>2. j >= 1 /\ b[j] = "backslash"
    BY <1>1 DEF IsBody
  <1>3. ASSUME NEW m \in Nat, Run(b, j, 2 * m)
        PROVE  FALSE
    <2>1. m # 0
      <3>1. ASSUME m = 0
            PROVE  FALSE
        <4>1. 2 * m = 0 /\ j - 2 * m = j /\ 2 * m # j
          BY <1>2, <3>1
        <4> QED
          BY <1>2, <1>3, <4>1 DEF Run
      <3> QED
        BY <3>1
    <2>2. /\ 2 * m <= j
          /\ \A i \in (j - 2 * m + 1)..j : b[i] = "backslash"
          /\ 2 * m = j \/ b[j - 2 * m] # "backslash"
      BY <1>3 DEF Run
    <2>3. /\ m \in 1..Len(b) /\ 2 * m < j + 1
          /\ (j + 1) - 2 * m = j - 2 * m + 1
          /\ (j + 1) - 2 * m - 1 = j - 2 * m
      BY <1>1, <2>1, <2>2
    <2>4. \A i \in ((j + 1) - 2 * m)..((j + 1) - 1) : b[i] = "backslash"
      BY <1>1, <2>2, <2>3
    <2>5. j + 1 = 2 * m + 1 \/ b[(j + 1) - 2 * m - 1] # "backslash"
      BY <2>2, <2>3
    <2> QED
      BY <1>1, <2>3, <2>4, <2>5 DEF Disputed
  <1> QED
    BY <1>3 DEF Reads

LEMMA ReadsOn ==
  ASSUME NEW b \in Texts, IsBody(b), ~Disputed(b), NEW j \in Nat, j + 1 <= Len(b),
         NEW at, Reads(b, at, j)
  PROVE  Reads(b, WalkStep(at, b[j + 1]), j + 1)
  <1> DEFINE c == b[j + 1]
  <1>1. CASE c = "backslash"
    <2>1. CASE at = Quoted /\ \E m \in Nat : Run(b, j, 2 * m)
      <3>1. PICK m \in Nat : Run(b, j, 2 * m)
        BY <2>1
      <3>2. Run(b, j + 1, 2 * m + 1)
        BY <1>1, <3>1, RunStep
      <3>3. WalkStep(at, c) = Hiding
        BY <1>1, <2>1, WalkTable
      <3> QED
        BY <3>2, <3>3 DEF Reads
    <2>2. CASE at = Hiding /\ \E m \in Nat : Run(b, j, 2 * m + 1)
      <3>1. PICK m \in Nat : Run(b, j, 2 * m + 1)
        BY <2>2
      <3>2. m + 1 \in Nat /\ (2 * m + 1) + 1 = 2 * (m + 1) /\ 2 * m + 1 \in Nat
        OBVIOUS
      <3>3. Run(b, j + 1, (2 * m + 1) + 1)
        BY <1>1, <3>1, <3>2, RunStep
      <3>4. Run(b, j + 1, 2 * (m + 1))
        BY <3>2, <3>3
      <3>5. WalkStep(at, c) = Quoted
        BY <2>2, WalkTable
      <3> QED
        BY <3>2, <3>4, <3>5 DEF Reads
    <2> QED
      BY <2>1, <2>2 DEF Reads
  <1>2. CASE c # "backslash"
    <2>1. Run(b, j + 1, 2 * 0)
      <3>1. PICK n \in Nat : Run(b, j, n)
        BY DEF Reads
      <3>2. 2 * 0 = 0
        OBVIOUS
      <3> QED
        BY <1>2, <3>1, <3>2, RunStep
    <2>2. c = "quote" => at = Hiding
      BY QuoteIsHidden
    <2>3. at \in {Quoted, Hiding}
      BY DEF Reads
    <2>4. WalkStep(at, c) = Quoted
      <3>1. CASE at = Hiding
        BY <3>1, WalkTable
      <3>2. CASE at = Quoted
        <4>1. Quoted # Hiding
          BY DEF Quoted, Hiding
        <4>2. c \notin {"quote", "backslash"}
          BY <1>2, <2>2, <3>2, <4>1
        <4> QED
          BY <3>2, <4>2, WalkTable
      <3> QED
        BY <2>3, <3>1, <3>2
    <2> QED
      BY <2>1, <2>4 DEF Reads
  <1> QED
    BY <1>1, <1>2

LEMMA BodiesWalk ==
  ASSUME NEW b \in Texts, IsBody(b), ~Disputed(b)
  PROVE  BodyWalks(b)
  <1> SUFFICES ASSUME NEW text \in Texts, NEW k \in Nat,
                      Occurs(b, text, k), Walk(text)[k + 1] = Quoted
               PROVE  /\ Walk(text)[k + Len(b) + 1] = Quoted
                      /\ \A i \in 1..Len(b) : Walk(text)[k + i].quoted
    BY DEF BodyWalks
  <1> DEFINE N == {j \in Nat : j <= Len(b) => Reads(b, Walk(text)[k + j + 1], j)}
  <1>0. /\ Len(b) \in Nat /\ Len(text) \in Nat /\ k + Len(b) < Len(text)
        /\ \A i \in 1..Len(b) : text[k + i] = b[i]
    BY TextFacts DEF Occurs
  <1>1. 0 \in N
    <2>1. k + 0 + 1 = k + 1 /\ 2 * 0 = 0 /\ 0 - 0 + 1 = 1 /\ 1..0 = {}
      OBVIOUS
    <2>2. Run(b, 0, 2 * 0)
      BY <2>1 DEF Run
    <2> QED
      BY <2>1, <2>2 DEF Reads
  <1>2. ASSUME NEW j \in N
        PROVE  j + 1 \in N
    <2> SUFFICES ASSUME j + 1 <= Len(b)
                 PROVE  Reads(b, Walk(text)[k + (j + 1) + 1], j + 1)
      OBVIOUS
    <2>1. j \in Nat /\ Reads(b, Walk(text)[k + j + 1], j)
      BY <1>0
    <2>2. /\ k + j + 1 \in 1..Len(text) /\ (k + j + 1) + 1 <= Len(text)
          /\ (k + j + 1) + 1 = k + (j + 1) + 1
          /\ k + (j + 1) = k + j + 1 /\ j + 1 \in 1..Len(b)
      BY <1>0, <2>1
    <2>3. text[k + j + 1] = b[j + 1]
      BY <1>0, <2>2
    <2>4. Walk(text)[k + (j + 1) + 1] = WalkStep(Walk(text)[k + j + 1], b[j + 1])
      BY <2>2, <2>3, WalkOn
    <2> QED
      BY <2>1, <2>4, ReadsOn
  <1>3. \A j \in 0..Len(b) : Reads(b, Walk(text)[k + j + 1], j)
    <2>1. N = Nat
      <3> HIDE DEF N
      <3>1. N \in SUBSET Nat
        BY DEF N
      <3> QED
        BY <1>1, <1>2, <3>1, SetInduction
    <2> SUFFICES ASSUME NEW j \in 0..Len(b)
                 PROVE  Reads(b, Walk(text)[k + j + 1], j)
      OBVIOUS
    <2>2. j \in Nat /\ j <= Len(b)
      BY <1>0
    <2>3. j \in N
      BY <2>1, <2>2
    <2> QED
      BY <2>2, <2>3
  <1> HIDE DEF N
  <1>4. \A i \in 1..Len(b) : Walk(text)[k + i].quoted
    <2> SUFFICES ASSUME NEW i \in 1..Len(b)
                 PROVE  Walk(text)[k + i].quoted
      OBVIOUS
    <2>1. i - 1 \in 0..Len(b) /\ k + (i - 1) + 1 = k + i
      BY <1>0
    <2>2. Reads(b, Walk(text)[k + i], i - 1)
      BY <1>3, <2>1
    <2> QED
      BY <2>2 DEF Reads, Quoted, Hiding
  <1>5. Walk(text)[k + Len(b) + 1] = Quoted
    <2>1. Reads(b, Walk(text)[k + Len(b) + 1], Len(b))
      BY <1>0, <1>3
    <2>2. ASSUME NEW m \in Nat, Run(b, Len(b), 2 * m + 1)
          PROVE  FALSE
      <3>1. /\ Len(b) \in (Len(b) - (2 * m + 1) + 1)..Len(b)
            /\ 2 * m + 1 <= Len(b)
        BY <1>0, <2>2 DEF Run
      <3>2. b[Len(b)] = "backslash"
        BY <2>2, <3>1 DEF Run
      <3>3. b # <<>>
        BY <1>0, <3>1, EmptySeq
      <3> QED
        BY <3>2, <3>3 DEF IsBody
    <2> QED
      BY <2>1, <2>2 DEF Reads
  <1> QED
    BY <1>4, <1>5

(* A word ends outside quotes, and all of its spaces are in quotes.        *)
WordWalks(w) ==
  \A text \in Texts :
    Occurs(w, text, 0) =>
      /\ Walk(text)[Len(w) + 1] = Clean
      /\ \A i \in 1..Len(w) : text[i] = "space" => Walk(text)[i].quoted

LEMMA WordWalksOn ==
  ASSUME NEW w \in Texts, WordWalks(w),
         NEW c \in Characters \ {"quote", "backslash", "space"}
  PROVE  WordWalks(Append(w, c))
  <1> SUFFICES ASSUME NEW text \in Texts, Occurs(Append(w, c), text, 0)
               PROVE  /\ Walk(text)[Len(Append(w, c)) + 1] = Clean
                      /\ \A i \in 1..Len(Append(w, c)) :
                           text[i] = "space" => Walk(text)[i].quoted
    BY DEF WordWalks
  <1>1. /\ Occurs(w, text, 0)
        /\ text[0 + Len(w) + 1] = c
        /\ Len(Append(w, c)) = Len(w) + 1
        /\ 0 + Len(w) + 1 \in 1..Len(text)
        /\ 0 + Len(w) + 2 <= Len(text)
    BY OccursAppend
  <1>2. Len(w) \in Nat /\ 0 + Len(w) + 1 = Len(w) + 1 /\ 0 + Len(w) + 2 = (Len(w) + 1) + 1
    BY TextFacts
  <1>3. /\ Walk(text)[Len(w) + 1] = Clean
        /\ \A i \in 1..Len(w) : text[i] = "space" => Walk(text)[i].quoted
    BY <1>1 DEF WordWalks
  <1>4. Walk(text)[(Len(w) + 1) + 1] = WalkStep(Clean, c)
    BY <1>1, <1>2, <1>3, WalkOn
  <1>5. WalkStep(Clean, c) = Clean
    BY WalkTable
  <1>6. ASSUME NEW i \in 1..Len(Append(w, c)), text[i] = "space"
        PROVE  Walk(text)[i].quoted
    <2>1. i \in 1..Len(w) \/ i = Len(w) + 1
      BY <1>1, <1>2
    <2>2. i # Len(w) + 1
      BY <1>1, <1>2, <1>6
    <2> QED
      BY <1>3, <1>6, <2>1, <2>2
  <1> QED
    BY <1>1, <1>4, <1>5, <1>6

LEMMA WordWalksOnQuoted ==
  ASSUME NEW w \in Texts, WordWalks(w), NEW b \in Texts, IsBody(b), ~Disputed(b)
  PROVE  WordWalks(w \o <<"quote">> \o b \o <<"quote">>)
  <1> DEFINE q == <<"quote">>
             open == w \o q
             body == open \o b
             all == body \o q
  <1>1. q \in Texts /\ Len(q) = 1 /\ q[1] = "quote"
    BY Singletons DEF Characters
  <1> HIDE DEF q
  <1>2. /\ open \in Texts /\ Len(open) = Len(w) + Len(q)
        /\ \A i \in 1..Len(w) : open[i] = w[i]
        /\ \A i \in 1..Len(q) : open[Len(w) + i] = q[i]
    BY <1>1, TextConcat
  <1> HIDE DEF open
  <1>3. /\ body \in Texts /\ Len(body) = Len(open) + Len(b)
        /\ \A i \in 1..Len(open) : body[i] = open[i]
        /\ \A i \in 1..Len(b) : body[Len(open) + i] = b[i]
    BY <1>2, TextConcat
  <1> HIDE DEF body
  <1>4. /\ all \in Texts /\ Len(all) = Len(body) + Len(q)
        /\ \A i \in 1..Len(body) : all[i] = body[i]
        /\ \A i \in 1..Len(q) : all[Len(body) + i] = q[i]
    BY <1>1, <1>3, TextConcat
  <1> HIDE DEF all
  <1>5. Len(w) \in Nat /\ Len(b) \in Nat
    BY TextFacts
  <1>6. Len(open) = Len(w) + 1 /\ Len(body) = Len(w) + 1 + Len(b)
        /\ Len(all) = Len(w) + Len(b) + 2
    BY <1>1, <1>2, <1>3, <1>4, <1>5
  <1> SUFFICES ASSUME NEW text \in Texts, Occurs(all, text, 0)
               PROVE  /\ Walk(text)[Len(all) + 1] = Clean
                      /\ \A i \in 1..Len(all) : text[i] = "space" => Walk(text)[i].quoted
    BY DEF WordWalks, all, body, open, q
  <1>7. Len(text) \in Nat /\ Len(all) < Len(text) /\ \A i \in 1..Len(all) : text[i] = all[i]
    <2>1. 0 + Len(all) < Len(text) /\ \A i \in 1..Len(all) : text[0 + i] = all[i]
      BY DEF Occurs
    <2>2. \A i \in 1..Len(all) : 0 + i = i
      BY <1>5, <1>6
    <2> QED
      BY <1>5, <1>6, <2>1, <2>2, TextFacts
  <1>8. \A i \in 1..Len(w) : text[i] = w[i]
    <2> SUFFICES ASSUME NEW i \in 1..Len(w)
                 PROVE  text[i] = w[i]
      OBVIOUS
    <2>1. i \in 1..Len(open) /\ i \in 1..Len(body) /\ i \in 1..Len(all)
      BY <1>5, <1>6
    <2> QED
      BY <1>2, <1>3, <1>4, <1>7, <2>1
  <1>9. text[Len(w) + 1] = "quote"
    <2>1. Len(w) + 1 \in 1..Len(open) /\ Len(w) + 1 \in 1..Len(body) /\ Len(w) + 1 \in 1..Len(all)
      BY <1>5, <1>6
    <2>2. open[Len(w) + 1] = "quote"
      BY <1>1, <1>2
    <2> QED
      BY <1>3, <1>4, <1>7, <2>1, <2>2
  <1>10. \A i \in 1..Len(b) : text[(Len(w) + 1) + i] = b[i]
    <2> SUFFICES ASSUME NEW i \in 1..Len(b)
                 PROVE  text[(Len(w) + 1) + i] = b[i]
      OBVIOUS
    <2>1. (Len(w) + 1) + i \in 1..Len(body) /\ (Len(w) + 1) + i \in 1..Len(all)
      BY <1>5, <1>6
    <2>2. body[(Len(w) + 1) + i] = b[i]
      BY <1>3, <1>6
    <2> QED
      BY <1>4, <1>7, <2>1, <2>2
  <1>11. text[(Len(w) + 1) + Len(b) + 1] = "quote"
    <2>1. (Len(w) + 1) + Len(b) + 1 \in 1..Len(all) /\ (Len(w) + 1) + Len(b) + 1 = Len(body) + 1
      BY <1>5, <1>6
    <2>2. all[Len(body) + 1] = "quote"
      BY <1>1, <1>4
    <2> QED
      BY <1>7, <2>1, <2>2
  <1>12. /\ Walk(text)[Len(w) + 1] = Clean
         /\ \A i \in 1..Len(w) : text[i] = "space" => Walk(text)[i].quoted
    <2>1. Occurs(w, text, 0)
      <3>1. 0 + Len(w) < Len(text) /\ \A i \in 1..Len(w) : 0 + i = i
        BY <1>5, <1>6, <1>7
      <3> QED
        BY <1>8, <3>1 DEF Occurs
    <2> QED
      BY <2>1 DEF WordWalks
  <1>13. Walk(text)[(Len(w) + 1) + 1] = Quoted
    <2>1. Len(w) + 1 \in 1..Len(text) /\ (Len(w) + 1) + 1 <= Len(text)
      BY <1>5, <1>6, <1>7
    <2>2. Walk(text)[(Len(w) + 1) + 1] = WalkStep(Clean, "quote")
      BY <1>9, <1>12, <2>1, WalkOn
    <2> QED
      BY <2>2, WalkTable
  <1>14. /\ Walk(text)[(Len(w) + 1) + Len(b) + 1] = Quoted
         /\ \A i \in 1..Len(b) : Walk(text)[(Len(w) + 1) + i].quoted
    <2>1. Len(w) + 1 \in Nat /\ (Len(w) + 1) + Len(b) < Len(text)
      BY <1>5, <1>6, <1>7
    <2>2. Occurs(b, text, Len(w) + 1)
      BY <1>10, <2>1 DEF Occurs
    <2>3. BodyWalks(b)
      BY BodiesWalk
    <2> QED
      BY <1>13, <2>1, <2>2, <2>3 DEF BodyWalks
  <1>15. Walk(text)[Len(all) + 1] = Clean
    <2>1. /\ (Len(w) + 1) + Len(b) + 1 \in 1..Len(text)
          /\ ((Len(w) + 1) + Len(b) + 1) + 1 <= Len(text)
          /\ ((Len(w) + 1) + Len(b) + 1) + 1 = Len(all) + 1
      BY <1>5, <1>6, <1>7
    <2>2. Walk(text)[((Len(w) + 1) + Len(b) + 1) + 1] = WalkStep(Quoted, "quote")
      BY <1>11, <1>14, <2>1, WalkOn
    <2> QED
      BY <2>1, <2>2, WalkTable
  <1>16. ASSUME NEW i \in 1..Len(all), text[i] = "space"
         PROVE  Walk(text)[i].quoted
    <2>1. i # Len(w) + 1 /\ i # (Len(w) + 1) + Len(b) + 1
      BY <1>9, <1>11, <1>16
    <2>2. CASE i \in 1..Len(w)
      BY <1>12, <1>16, <2>2
    <2>3. CASE i \notin 1..Len(w)
      <3>1. PICK j \in 1..Len(b) : i = (Len(w) + 1) + j
        <4>1. i - (Len(w) + 1) \in 1..Len(b) /\ i = (Len(w) + 1) + (i - (Len(w) + 1))
          BY <1>5, <1>6, <2>1, <2>3
        <4> QED
          BY <4>1
      <3> QED
        BY <1>14, <3>1
    <2> QED
      BY <2>2, <2>3
  <1> QED
    BY <1>15, <1>16

LEMMA WordsWalk ==
  ASSUME NEW w \in Texts, IsWord(w), ~Disputed(w)
  PROVE  WordWalks(w)
  <1> DEFINE G == {t \in Texts : ~Disputed(t) => WordWalks(t)}
  <1>1. <<>> \in G
    <2>1. <<>> \in Texts /\ Len(<<>>) = 0
      BY EmptySeq DEF Texts
    <2>2. WordWalks(<<>>)
      <3> SUFFICES ASSUME NEW text \in Texts, Occurs(<<>>, text, 0)
                   PROVE  /\ Walk(text)[Len(<<>>) + 1] = Clean
                          /\ \A i \in 1..Len(<<>>) : text[i] = "space" => Walk(text)[i].quoted
        BY DEF WordWalks
      <3>1. Len(text) > 0 /\ Len(<<>>) + 1 = 1
        BY <2>1, TextFacts DEF Occurs
      <3> QED
        BY <2>1, <3>1, WalkTurns
    <2> QED
      BY <2>1, <2>2
  <1>2. ASSUME NEW t \in G, NEW c \in Characters \ {"quote", "backslash", "space"}
        PROVE  Append(t, c) \in G
    <2> DEFINE longer == Append(t, c)
    <2>1. /\ longer \in Texts /\ Len(t) \in Nat /\ Len(longer) = Len(t) + 1
          /\ \A i \in 1..Len(t) : longer[i] = t[i]
      BY AppendFacts, TextFacts DEF Texts
    <2> HIDE DEF longer
    <2>2. Disputed(t) => Disputed(longer)
      <3>1. 0 + Len(t) <= Len(longer) /\ \A i \in 1..Len(t) : longer[0 + i] = t[i]
        BY <2>1
      <3> QED
        BY <2>1, <3>1, DisputedPart
    <2> QED
      BY <2>1, <2>2, WordWalksOn DEF longer
  <1>3. ASSUME NEW t \in G, NEW b \in Texts, IsBody(b)
        PROVE  t \o <<"quote">> \o b \o <<"quote">> \in G
    <2> DEFINE q == <<"quote">>
               open == t \o q
               body == open \o b
               all == body \o q
    <2>1. q \in Texts /\ Len(q) = 1 /\ q[1] = "quote"
      BY Singletons DEF Characters
    <2>2. ~Disputed(t) /\ ~Disputed(b) => WordWalks(t \o q \o b \o q)
      BY <1>3, WordWalksOnQuoted
    <2> HIDE DEF q
    <2>3. /\ open \in Texts /\ Len(open) = Len(t) + Len(q)
          /\ \A i \in 1..Len(t) : open[i] = t[i]
          /\ \A i \in 1..Len(q) : open[Len(t) + i] = q[i]
      BY <2>1, TextConcat
    <2> HIDE DEF open
    <2>4. /\ body \in Texts /\ Len(body) = Len(open) + Len(b)
          /\ \A i \in 1..Len(open) : body[i] = open[i]
          /\ \A i \in 1..Len(b) : body[Len(open) + i] = b[i]
      BY <2>3, TextConcat
    <2> HIDE DEF body
    <2>5. /\ all \in Texts /\ Len(all) = Len(body) + Len(q)
          /\ \A i \in 1..Len(body) : all[i] = body[i]
      BY <2>1, <2>4, TextConcat
    <2> HIDE DEF all
    <2>6. /\ Len(t) \in Nat /\ Len(b) \in Nat /\ Len(open) = Len(t) + 1
          /\ Len(body) = Len(t) + 1 + Len(b) /\ Len(all) = Len(t) + Len(b) + 2
      BY <2>1, <2>3, <2>4, <2>5, TextFacts
    <2>7. Disputed(t) => Disputed(all)
      <3> SUFFICES ASSUME NEW i \in 1..Len(t)
                   PROVE  all[0 + i] = t[i]
        BY <2>5, <2>6, DisputedPart
      <3>1. i \in 1..Len(open) /\ i \in 1..Len(body) /\ 0 + i = i
        BY <2>6
      <3> QED
        BY <2>3, <2>4, <2>5, <3>1
    <2>8. Disputed(b) => Disputed(all)
      <3>1. all[Len(open)] = "quote"
        <4>1. /\ Len(open) \in 1..Len(open) /\ Len(open) \in 1..Len(body)
              /\ Len(open) = Len(t) + 1
          BY <2>6
        <4>2. open[Len(t) + 1] = "quote"
          BY <2>1, <2>3
        <4> QED
          BY <2>4, <2>5, <4>1, <4>2
      <3>2. ASSUME NEW i \in 1..Len(b)
            PROVE  all[Len(open) + i] = b[i]
        <4>1. Len(open) + i \in 1..Len(body)
          BY <2>6
        <4> QED
          BY <2>4, <2>5, <4>1
      <3>3. Len(open) \in Nat /\ Len(open) + Len(b) <= Len(all)
        BY <2>6
      <3> QED
        BY <2>5, <3>1, <3>2, <3>3, DisputedPart
    <2>9. all = t \o q \o b \o q
      BY DEF all, body, open
    <2> QED
      BY <2>2, <2>5, <2>7, <2>8, <2>9 DEF q
  <1>4. WordsClosed(G)
    <2> HIDE DEF G
    <2> QED
      BY <1>1, <1>2, <1>3 DEF WordsClosed
  <1>5. w \in G
    <2> HIDE DEF G
    <2>1. G \in SUBSET Texts
      BY DEF G
    <2> QED
      BY <1>4, <2>1 DEF IsWord
  <1> QED
    BY <1>5

LEMMA StartsWithFacts ==
  ASSUME NEW text \in Texts, NEW c
  PROVE  StartsWith(text, c) <=> Len(text) > 0 /\ text[1] = c
  <1>1. Len(text) \in Nat /\ (text = <<>> <=> Len(text) = 0)
    BY TextFacts, EmptySeq DEF Texts
  <1>2. text # <<>> => Head(text) = text[1]
    OBVIOUS
  <1> QED
    BY <1>1, <1>2 DEF StartsWith

(* What is left of a text from a place on.                                 *)
LEMMA RestOfText ==
  ASSUME NEW text \in Texts, NEW rest \in Texts, NEW k \in Nat,
         Len(text) = k + Len(rest), Len(rest) > 0,
         \A i \in 1..Len(rest) : text[k + i] = rest[i]
  PROVE  SubSeq(text, k + 1, Len(text)) = rest
  <1>1. Len(text) \in Nat /\ Len(rest) \in Nat /\ \A i \in 1..Len(text) : text[i] \in Characters
    BY TextFacts
  <1> DEFINE sub == SubSeq(text, k + 1, Len(text))
  <1>2. /\ sub \in Texts
        /\ Len(sub) = IF k + 1 <= Len(text) THEN Len(text) - (k + 1) + 1 ELSE 0
        /\ \A i \in 1..Len(text) - (k + 1) + 1 : sub[i] = text[(k + 1) + i - 1]
    <2>1. k + 1 \in Int /\ Len(text) \in Int
      BY <1>1
    <2>2. \A i \in (k + 1)..Len(text) : text[i] \in Characters
      BY <1>1
    <2> QED
      BY <2>1, <2>2, SubSeqProperties DEF Texts
  <1> HIDE DEF sub
  <1>3. Len(sub) = Len(rest)
    BY <1>1, <1>2
  <1>4. ASSUME NEW i \in 1..Len(sub)
        PROVE  sub[i] = rest[i]
    <2>1. i \in 1..Len(text) - (k + 1) + 1 /\ (k + 1) + i - 1 = k + i /\ i \in 1..Len(rest)
      BY <1>1, <1>3
    <2> QED
      BY <1>2, <2>1
  <1>5. sub = rest
    BY <1>2, <1>3, <1>4, SeqEqual DEF Texts
  <1> QED
    BY <1>5 DEF sub

(* Whatever the word of the options quotes, the walk stops at its end.     *)
LEMMA SkipOptionsOfLine ==
  ASSUME NEW options \in Texts, IsOptions(options), ~Disputed(options),
         NEW rest \in Texts, StartsWith(rest, "key")
  PROVE  SkipOptions(options \o rest) = rest
  <1>1. Len(rest) \in Nat /\ Len(rest) > 0 /\ rest[1] = "key"
    BY StartsWithFacts, TextFacts
  <1>2. CASE options = <<>>
    <2>1. options \o rest = rest
      BY <1>2, ConcatEmptySeq DEF Texts
    <2> QED
      BY <2>1 DEF SkipOptions
  <1>3. CASE options # <<>>
    <2>1. PICK w \in Texts, spaces \in Seq({"space"}) :
            /\ IsWord(w) /\ w # <<>> /\ w[1] # "key"
            /\ spaces # <<>>
            /\ options = w \o spaces
      BY <1>3 DEF IsOptions
    <2>2. /\ spaces \in Texts /\ Len(spaces) \in Nat /\ Len(spaces) > 0
          /\ Len(w) \in Nat /\ Len(w) > 0
          /\ \A i \in 1..Len(spaces) : spaces[i] = "space"
      <3>1. \A i \in 1..Len(spaces) : spaces[i] \in {"space"}
        BY ElementOfSeq
      <3>2. {"space"} \subseteq Characters
        BY DEF Characters
      <3>3. spaces \in Texts
        BY <3>2, SeqMonotonic DEF Texts
      <3>4. Len(spaces) # 0 /\ Len(w) # 0
        BY <2>1, EmptySeq DEF Texts
      <3> QED
        BY <3>1, <3>3, <3>4, TextFacts
    <2>3. /\ Len(options) = Len(w) + Len(spaces)
          /\ \A i \in 1..Len(w) : options[i] = w[i]
          /\ \A i \in 1..Len(spaces) : options[Len(w) + i] = spaces[i]
      BY <2>1, <2>2, TextConcat
    <2> DEFINE text == options \o rest
    <2>4. /\ text \in Texts /\ Len(text) = Len(options) + Len(rest)
          /\ \A i \in 1..Len(options) : text[i] = options[i]
          /\ \A i \in 1..Len(rest) : text[Len(options) + i] = rest[i]
      BY TextConcat
    <2> HIDE DEF text
    <2>5. ASSUME NEW i \in 1..Len(w)
          PROVE  text[i] = w[i]
      <3>1. i \in 1..Len(options)
        BY <2>2, <2>3
      <3> QED
        BY <2>3, <2>4, <3>1
    <2>6. ASSUME NEW i \in 1..Len(spaces)
          PROVE  text[Len(w) + i] = "space"
      <3>1. Len(w) + i \in 1..Len(options)
        BY <2>2, <2>3
      <3> QED
        BY <2>2, <2>3, <2>4, <3>1
    <2>7. /\ Walk(text)[Len(w) + 1] = Clean
          /\ \A i \in 1..Len(w) : text[i] = "space" => Walk(text)[i].quoted
      <3>1. 0 + Len(w) < Len(text) /\ \A i \in 1..Len(w) : 0 + i = i
        BY <1>1, <2>2, <2>3, <2>4
      <3>2. Occurs(w, text, 0)
        BY <2>5, <3>1 DEF Occurs
      <3>3. WordWalks(w)
        <4>1. 0 + Len(w) <= Len(options) /\ \A i \in 1..Len(w) : options[0 + i] = w[i]
          BY <2>2, <2>3
        <4>2. ~Disputed(w)
          BY <2>1, <4>1, DisputedPart
        <4> QED
          BY <2>1, <4>2, WordsWalk
      <3> QED
        BY <2>4, <3>2, <3>3 DEF WordWalks
    <2> DEFINE at == Walk(text)
               stops == {i \in DOMAIN text :
                           text[i] = "space" /\ ~at[i].quoted /\ ~at[i].escaped}
    <2>8. DOMAIN text = 1..Len(text) /\ Len(text) \in Nat
      BY <2>4, TextFacts
    <2>9. Len(w) + 1 \in stops
      <3>1. Len(w) + 1 \in 1..Len(text) /\ text[Len(w) + 1] = "space"
        BY <1>1, <2>2, <2>3, <2>4, <2>6
      <3> QED
        BY <2>7, <2>8, <3>1 DEF Clean
    <2>10. ASSUME NEW i \in stops
           PROVE  Len(w) + 1 <= i
      <3>1. i \in 1..Len(text) /\ text[i] = "space" /\ ~at[i].quoted
        BY <2>8
      <3>2. i \notin 1..Len(w)
        BY <2>7, <3>1
      <3> QED
        BY <2>2, <2>8, <3>1, <3>2
    <2>11. stops \in SUBSET Int
      BY <2>8
    <2> HIDE DEF stops
    <2>12. stops # {} /\ Min(stops) = Len(w) + 1
      BY <2>9, <2>10, <2>11, MinIs
    <2>13. ~StartsWith(text, "key")
      <3>1. 1 \in 1..Len(w)
        BY <2>2
      <3>2. text[1] # "key"
        BY <2>1, <2>5, <3>1
      <3> QED
        BY <2>4, <3>2, StartsWithFacts
    <2>14. SkipOptions(text) = TrimStart(SubSeq(text, Len(w) + 1, Len(text)))
      BY <2>12, <2>13 DEF SkipOptions, stops
    <2> DEFINE tail == spaces \o rest
    <2>15. /\ tail \in Texts /\ Len(tail) = Len(spaces) + Len(rest)
           /\ \A i \in 1..Len(spaces) : tail[i] = spaces[i]
           /\ \A i \in 1..Len(rest) : tail[Len(spaces) + i] = rest[i]
      BY <2>2, TextConcat
    <2> HIDE DEF tail
    <2>16. SubSeq(text, Len(w) + 1, Len(text)) = tail
      <3>1. Len(text) = Len(w) + Len(tail) /\ Len(tail) > 0
        BY <1>1, <2>2, <2>3, <2>4, <2>15
      <3>2. ASSUME NEW i \in 1..Len(tail)
            PROVE  text[Len(w) + i] = tail[i]
        <4>1. CASE i \in 1..Len(spaces)
          BY <2>2, <2>6, <2>15, <4>1
        <4>2. CASE i \notin 1..Len(spaces)
          <5>1. PICK j \in 1..Len(rest) : i = Len(spaces) + j
            <6>1. i - Len(spaces) \in 1..Len(rest) /\ i = Len(spaces) + (i - Len(spaces))
              BY <1>1, <2>2, <2>15, <4>2
            <6> QED
              BY <6>1
          <5>2. Len(w) + i = Len(options) + j
            BY <1>1, <2>2, <2>3, <5>1
          <5> QED
            BY <2>4, <2>15, <5>1, <5>2
        <4> QED
          BY <4>1, <4>2
      <3> QED
        BY <2>2, <2>4, <2>15, <3>1, <3>2, RestOfText
    <2> DEFINE solid == {i \in DOMAIN tail : tail[i] # "space"}
    <2>17. DOMAIN tail = 1..Len(tail) /\ Len(tail) \in Nat
      BY <2>15, TextFacts
    <2>18. Len(spaces) + 1 \in solid
      <3>1. Len(spaces) + 1 \in 1..Len(tail) /\ 1 \in 1..Len(rest)
        BY <1>1, <2>2, <2>15
      <3>2. tail[Len(spaces) + 1] = "key"
        BY <1>1, <2>15, <3>1
      <3> QED
        BY <2>17, <3>1, <3>2
    <2>19. ASSUME NEW i \in solid
           PROVE  Len(spaces) + 1 <= i
      <3>1. i \in 1..Len(tail) /\ tail[i] # "space"
        BY <2>17
      <3>2. i \notin 1..Len(spaces)
        BY <2>2, <2>15, <3>1
      <3> QED
        BY <2>2, <2>17, <3>1, <3>2
    <2>20. solid \in SUBSET Int
      BY <2>17
    <2> HIDE DEF solid
    <2>21. solid # {} /\ Min(solid) = Len(spaces) + 1
      BY <2>18, <2>19, <2>20, MinIs
    <2>22. TrimStart(tail) = SubSeq(tail, Len(spaces) + 1, Len(tail))
      BY <2>21 DEF TrimStart, solid
    <2>23. SubSeq(tail, Len(spaces) + 1, Len(tail)) = rest
      BY <1>1, <2>2, <2>15, RestOfText
    <2> QED
      BY <2>14, <2>16, <2>22, <2>23 DEF text
  <1> QED
    BY <1>2, <1>3
-----------------------------------------------------------------------------
(* The comment of a line, and the device it names.                         *)

JoinStep(joined, fields, n) ==
  IF n = 2 THEN <<>>
  ELSE IF n = 3 THEN fields[3]
  ELSE joined[n - 1] \o <<"space">> \o fields[n]

Joined(fields) ==
  CHOOSE joined : joined = [n \in 2..Len(fields) |-> JoinStep(joined, fields, n)]

LEMMA CommentIsJoined ==
  ASSUME NEW fields
  PROVE  Comment(fields) = Joined(fields)[Len(fields)]
  BY DEF Comment, Joined, JoinStep

(* Only the fields from the third on count.                                *)
LEMMA SameComment ==
  ASSUME NEW fields, NEW others, Len(fields) \in Nat, Len(others) = Len(fields),
         \A n \in 3..Len(fields) : fields[n] = others[n]
  PROVE  Comment(fields) = Comment(others)
  <1>1. ASSUME NEW joined, NEW n \in 2..Len(fields)
        PROVE  JoinStep(joined, fields, n) = JoinStep(joined, others, n)
    <2>1. CASE n = 2
      BY <2>1 DEF JoinStep
    <2>2. CASE n # 2
      <3>1. n \in 3..Len(fields) /\ (n = 3 => 3 \in 3..Len(fields))
        BY <2>2
      <3> QED
        BY <2>2, <3>1 DEF JoinStep
    <2> QED
      BY <2>1, <2>2
  <1>2. ASSUME NEW joined
        PROVE  [n \in 2..Len(fields) |-> JoinStep(joined, fields, n)]
                 = [n \in 2..Len(others) |-> JoinStep(joined, others, n)]
    BY <1>1
  <1>3. Joined(fields) = Joined(others)
    BY <1>2 DEF Joined
  <1> QED
    BY <1>3, CommentIsJoined

(* The function that defines Comment exists.                               *)
LEMMA JoinExists ==
  ASSUME NEW fields, Len(fields) \in Nat, \A n \in 3..Len(fields) : fields[n] \in Texts
  PROVE  \E joined : joined = [n \in 2..Len(fields) |-> JoinStep(joined, fields, n)]
  <1> DEFINE turn == [p \in Texts \X Nat |->
                        IF p[2] = 1 /\ 3 <= Len(fields) THEN fields[3]
                        ELSE IF p[2] >= 2 /\ p[2] + 2 <= Len(fields)
                          THEN p[1] \o <<"space">> \o fields[p[2] + 2]
                        ELSE p[1]]
  <1>1. ASSUME NEW t \in Texts, NEW k \in Nat
        PROVE  (IF k = 1 /\ 3 <= Len(fields) THEN fields[3]
                ELSE IF k >= 2 /\ k + 2 <= Len(fields) THEN t \o <<"space">> \o fields[k + 2]
                ELSE t) \in Texts
    <2>1. CASE k = 1 /\ 3 <= Len(fields)
      BY <2>1
    <2>2. CASE k >= 2 /\ k + 2 <= Len(fields)
      <3>1. fields[k + 2] \in Texts /\ k # 1
        BY <2>2
      <3>2. t \o <<"space">> \in Texts
        BY Singletons, TextConcat DEF Characters
      <3>3. (t \o <<"space">>) \o fields[k + 2] \in Texts
        BY <3>1, <3>2, TextConcat
      <3> QED
        BY <2>2, <3>1, <3>3
    <2> QED
      BY <2>1, <2>2
  <1>2. turn \in [Texts \X Nat -> Texts]
    BY <1>1
  <1>3. <<>> \in Texts
    BY EmptySeq DEF Texts
  <1> HIDE DEF turn
  <1>4. PICK f : IsRun(f, Texts, Len(fields), <<>>, turn)
    BY <1>2, <1>3, Loop
  <1> DEFINE joined == [n \in 2..Len(fields) |-> f[n - 2]]
  <1>5. ASSUME NEW n \in 2..Len(fields)
        PROVE  joined[n] = JoinStep(joined, fields, n)
    <2>1. CASE n = 2
      <3>1. joined[n] = f[0] /\ f[0] = <<>>
        BY <1>4, <2>1 DEF IsRun
      <3> QED
        BY <2>1, <3>1 DEF JoinStep
    <2>2. CASE n # 2
      <3>1. /\ n - 2 \in 1..Len(fields) /\ n - 2 \in Nat /\ (n - 2) - 1 \in 0..Len(fields)
            /\ n - 1 \in 2..Len(fields)
            /\ joined[n] = f[n - 2] /\ joined[n - 1] = f[(n - 2) - 1]
        BY <2>2
      <3>2. f[(n - 2) - 1] \in Texts
        BY <1>4, <3>1 DEF IsRun
      <3>3. f[n - 2] = turn[<<f[(n - 2) - 1], n - 2>>]
        BY <1>4, <3>1 DEF IsRun
      <3>4. turn[<<f[(n - 2) - 1], n - 2>>] =
              IF n - 2 = 1 /\ 3 <= Len(fields) THEN fields[3]
              ELSE IF n - 2 >= 2 /\ (n - 2) + 2 <= Len(fields)
                THEN f[(n - 2) - 1] \o <<"space">> \o fields[(n - 2) + 2]
              ELSE f[(n - 2) - 1]
        BY <3>1, <3>2 DEF turn
      <3> HIDE DEF joined
      <3>5. CASE n = 3
        BY <3>1, <3>3, <3>4, <3>5 DEF JoinStep
      <3>6. CASE n # 3
        <4>1. n - 2 # 1 /\ n - 2 >= 2 /\ (n - 2) + 2 = n /\ n <= Len(fields)
          BY <2>2, <3>6
        <4>2. f[n - 2] = f[(n - 2) - 1] \o <<"space">> \o fields[n]
          BY <3>3, <3>4, <4>1
        <4> QED
          BY <2>2, <3>1, <3>6, <4>2 DEF JoinStep
      <3> QED
        BY <3>5, <3>6
    <2> QED
      BY <2>1, <2>2
  <1>6. joined = [n \in 2..Len(fields) |-> joined[n]]
    OBVIOUS
  <1> HIDE DEF joined
  <1>7. joined = [n \in 2..Len(fields) |-> JoinStep(joined, fields, n)]
    BY <1>5, <1>6
  <1> QED
    BY <1>7

LEMMA JoinTurns ==
  ASSUME NEW fields, Len(fields) \in Nat, \A n \in 3..Len(fields) : fields[n] \in Texts
  PROVE  \A n \in 2..Len(fields) : Joined(fields)[n] = JoinStep(Joined(fields), fields, n)
  <1> DEFINE joined == Joined(fields)
  <1>1. joined = [n \in 2..Len(fields) |-> JoinStep(joined, fields, n)]
    BY JoinExists DEF Joined
  <1> HIDE DEF joined
  <1>2. \A n \in 2..Len(fields) : joined[n] = JoinStep(joined, fields, n)
    BY <1>1
  <1> QED
    BY <1>2 DEF joined

LEMMA CommentOfNone ==
  ASSUME NEW fields, Len(fields) = 2
  PROVE  Comment(fields) = <<>>
  <1>1. Joined(fields)[2] = JoinStep(Joined(fields), fields, 2)
    BY JoinTurns
  <1> QED
    BY <1>1, CommentIsJoined DEF JoinStep

LEMMA CommentOfOne ==
  ASSUME NEW fields, Len(fields) = 3, fields[3] \in Texts
  PROVE  Comment(fields) = fields[3]
  <1>1. \A n \in 3..Len(fields) : fields[n] \in Texts
    OBVIOUS
  <1>2. Joined(fields)[3] = JoinStep(Joined(fields), fields, 3)
    BY <1>1, JoinTurns
  <1>3. JoinStep(Joined(fields), fields, 3) = fields[3]
    BY DEF JoinStep
  <1>4. Comment(fields) = Joined(fields)[3]
    BY CommentIsJoined
  <1> QED
    BY <1>2, <1>3, <1>4

(* A comment starts as its first field does.                               *)
LEMMA CommentStart ==
  ASSUME NEW fields, Len(fields) \in Nat, Len(fields) >= 3,
         \A n \in 3..Len(fields) : fields[n] \in Texts,
         Len(fields[3]) > 0
  PROVE  /\ Comment(fields) \in Texts
         /\ Len(Comment(fields)) > 0
         /\ Comment(fields)[1] = fields[3][1]
  <1> DEFINE joined == Joined(fields)
             Starts(t) == t \in Texts /\ Len(t) > 0 /\ t[1] = fields[3][1]
             N == {k \in Nat : k + 3 <= Len(fields) => Starts(joined[k + 3])}
  <1>1. \A n \in 2..Len(fields) : joined[n] = JoinStep(joined, fields, n)
    BY JoinTurns
  <1> HIDE DEF joined
  <1>2. 0 \in N
    <2>1. joined[3] = fields[3]
      BY <1>1 DEF JoinStep
    <2> QED
      BY <2>1
  <1>3. ASSUME NEW k \in N
        PROVE  k + 1 \in N
    <2> SUFFICES ASSUME (k + 1) + 3 <= Len(fields)
                 PROVE  Starts(joined[(k + 1) + 3])
      OBVIOUS
    <2>1. /\ Starts(joined[k + 3])
          /\ (k + 1) + 3 \in 2..Len(fields) /\ (k + 1) + 3 \in 3..Len(fields)
          /\ (k + 1) + 3 # 2 /\ (k + 1) + 3 # 3 /\ ((k + 1) + 3) - 1 = k + 3
      OBVIOUS
    <2> DEFINE field == fields[(k + 1) + 3]
               before == joined[k + 3]
    <2>2. joined[(k + 1) + 3] = before \o <<"space">> \o field
      BY <1>1, <2>1 DEF JoinStep
    <2>3. before \in Texts /\ Len(before) > 0 /\ before[1] = fields[3][1] /\ field \in Texts
      BY <2>1
    <2> HIDE DEF before, field, N
    <2> DEFINE sep == <<"space">>
    <2>4. sep \in Texts /\ Len(sep) = 1
      BY Singletons DEF Characters
    <2> HIDE DEF sep
    <2>5. /\ before \o sep \in Texts /\ Len(before \o sep) = Len(before) + Len(sep)
          /\ \A i \in 1..Len(before) : (before \o sep)[i] = before[i]
      BY <2>3, <2>4, TextConcat
    <2> DEFINE front == before \o sep
    <2>6. front \in Texts /\ Len(front) > 0 /\ front[1] = before[1]
      <3>1. Len(before) \in Nat /\ 1 \in 1..Len(before)
        BY <2>3, TextFacts
      <3> QED
        BY <2>4, <2>5, <3>1
    <2> HIDE DEF front
    <2>7. /\ front \o field \in Texts /\ Len(front \o field) = Len(front) + Len(field)
          /\ \A i \in 1..Len(front) : (front \o field)[i] = front[i]
      BY <2>3, <2>6, TextConcat
    <2>8. Len(front) \in Nat /\ Len(field) \in Nat /\ 1 \in 1..Len(front)
      BY <2>3, <2>6, TextFacts
    <2>9. Starts(front \o field)
      BY <2>3, <2>6, <2>7, <2>8
    <2> QED
      BY <2>2, <2>9 DEF front, sep
  <1>4. N = Nat
    <2> HIDE DEF N
    <2>1. N \in SUBSET Nat
      BY DEF N
    <2> QED
      BY <1>2, <1>3, <2>1, SetInduction
  <1>5. Starts(joined[Len(fields)])
    <2>1. Len(fields) - 3 \in N
      <3> HIDE DEF N
      <3> QED
        BY <1>4
    <2>2. (Len(fields) - 3) + 3 = Len(fields)
      OBVIOUS
    <2> HIDE DEF Starts
    <2> QED
      BY <2>1, <2>2
  <1> QED
    BY <1>5, CommentIsJoined DEF joined

(* A text without spaces is one field.                                     *)
LEMMA OneField ==
  ASSUME NEW text \in Texts, Len(text) > 0,
         \A i \in 1..Len(text) : text[i] # "space"
  PROVE  Len(Fields(text)) = 1 /\ Fields(text)[1] = text
  <1> DEFINE f == FieldsSoFar(text)
             Holds(n) == /\ Len(f[n]) = 1 /\ f[n][1] \in Texts /\ Len(f[n][1]) = n
                         /\ \A i \in 1..n : f[n][1][i] = text[i]
             N == {k \in Nat : k + 1 <= Len(text) => Holds(k + 1)}
  <1>1. /\ Len(text) \in Nat
        /\ \A i \in 1..Len(text) : text[i] \in Characters
        /\ \A n \in 0..Len(text) : f[n] \in Seq(Texts)
        /\ f[0] = <<>>
        /\ \A n \in 1..Len(text) : f[n] = FieldTurn(f[n - 1], text, n)
        /\ Fields(text) = f[Len(text)]
    BY TextFacts, FieldsSoFarType, FieldsTurns
  <1> HIDE DEF f
  <1>2. 0 \in N
    <2> DEFINE field == <<text[1]>>
    <2>1. 1 \in 1..Len(text) /\ field \in Texts /\ Len(field) = 1 /\ field[1] = text[1]
      BY <1>1, Singletons
    <2>2. f[1] = Append(<<>>, field)
      <3>1. f[1] = FieldTurn(f[1 - 1], text, 1)
        BY <1>1, <2>1
      <3>2. FieldTurn(f[0], text, 1) = Append(f[0], field)
        BY <2>1 DEF FieldTurn
      <3> QED
        BY <1>1, <3>1, <3>2
    <2> HIDE DEF field
    <2>3. Len(f[1]) = 1 /\ f[1][1] = field
      <3>1. <<>> \in Seq(Texts) /\ Len(<<>>) = 0
        BY EmptySeq
      <3>2. Len(Append(<<>>, field)) = Len(<<>>) + 1
            /\ Append(<<>>, field)[Len(<<>>) + 1] = field
        BY <2>1, <3>1, AppendFacts
      <3> QED
        BY <2>2, <3>1, <3>2
    <2>4. Holds(0 + 1)
      BY <2>1, <2>3
    <2> QED
      BY <2>4
  <1>3. ASSUME NEW k \in N
        PROVE  k + 1 \in N
    <2> SUFFICES ASSUME (k + 1) + 1 <= Len(text)
                 PROVE  Holds((k + 1) + 1)
      OBVIOUS
    <2>1. /\ k \in Nat /\ Holds(k + 1)
          /\ (k + 1) + 1 \in 1..Len(text) /\ k + 1 \in 1..Len(text) /\ k + 1 \in 0..Len(text)
          /\ (k + 1) + 1 # 1 /\ ((k + 1) + 1) - 1 = k + 1
      BY <1>1
    <2> DEFINE done == f[k + 1]
               c == text[(k + 1) + 1]
               field == done[1]
    <2>2. /\ done \in Seq(Texts) /\ Len(done) = 1 /\ field \in Texts /\ Len(field) = k + 1
          /\ \A i \in 1..(k + 1) : field[i] = text[i]
          /\ c \in Characters
      BY <1>1, <2>1
    <2>3. f[(k + 1) + 1] = LastLonger(done, c)
      BY <1>1, <2>1 DEF FieldTurn
    <2> HIDE DEF N
    <2>4. c = text[(k + 1) + 1]
      OBVIOUS
    <2> HIDE DEF done, c
    <2>5. Len(LastLonger(done, c)) = 1 /\ LastLonger(done, c)[1] = Append(field, c)
      <3>1. 1 \in 1..Len(done)
        BY <2>2
      <3>2. LastLonger(done, c)[1] = IF 1 = Len(done) THEN Append(done[1], c) ELSE done[1]
        BY <2>2, <3>1, LastLongerFacts
      <3>3. Len(LastLonger(done, c)) = Len(done)
        BY <2>2, LastLongerFacts
      <3> QED
        BY <2>2, <3>2, <3>3
    <2> HIDE DEF field
    <2>6. /\ Append(field, c) \in Texts /\ Len(Append(field, c)) = (k + 1) + 1
          /\ \A i \in 1..(k + 1) : Append(field, c)[i] = field[i]
          /\ Append(field, c)[(k + 1) + 1] = c
      BY <2>2, AppendFacts DEF Texts
    <2>7. ASSUME NEW i \in 1..((k + 1) + 1)
          PROVE  Append(field, c)[i] = text[i]
      <3>1. i \in 1..(k + 1) \/ i = (k + 1) + 1
        BY <2>1
      <3> QED
        BY <2>2, <2>4, <2>6, <3>1
    <2> QED
      BY <2>3, <2>5, <2>6, <2>7
  <1>4. N = Nat
    <2> HIDE DEF N
    <2>1. N \in SUBSET Nat
      BY DEF N
    <2> QED
      BY <1>2, <1>3, <2>1, SetInduction
  <1>5. Holds(Len(text))
    <2>1. Len(text) - 1 \in N
      <3> HIDE DEF N
      <3> QED
        BY <1>1, <1>4
    <2>2. (Len(text) - 1) + 1 = Len(text)
      BY <1>1
    <2> HIDE DEF Holds
    <2> QED
      BY <2>1, <2>2
  <1>6. f[Len(text)][1] = text
    BY <1>5, SeqEqual DEF Texts
  <1> QED
    BY <1>1, <1>5, <1>6

(* What a comment that does not begin with the marker has for its first    *)
(* field does not either.                                                  *)
Unmarked(comment) ==
  \A i \in 1..Len(comment) :
    comment[i] = "marker" => \E j \in 1..(i - 1) : comment[j] # "space"

LEMMA FirstFieldUnmarked ==
  ASSUME NEW text \in Texts, Unmarked(text), Fields(text) # <<>>
  PROVE  Len(Fields(text)[1]) > 0 /\ Fields(text)[1][1] # "marker"
  <1> DEFINE f == FieldsSoFar(text)
             Spaces(n) == f[n] = <<>> => \A j \in 1..n : text[j] = "space"
             Starts(n) == f[n] # <<>> => Len(f[n][1]) > 0 /\ f[n][1][1] # "marker"
             N == {n \in Nat : n <= Len(text) => Spaces(n) /\ Starts(n)}
  <1>1. /\ Len(text) \in Nat
        /\ \A i \in 1..Len(text) : text[i] \in Characters
        /\ \A n \in 0..Len(text) : f[n] \in Seq(Texts)
        /\ f[0] = <<>>
        /\ \A n \in 1..Len(text) : f[n] = FieldTurn(f[n - 1], text, n)
        /\ Fields(text) = f[Len(text)]
    BY TextFacts, FieldsSoFarType, FieldsTurns
  <1>0. \A n \in 1..Len(text) : text[n] # "space" => f[n] # <<>>
    BY FieldHasBegun
  <1> HIDE DEF f
  <1>2. 0 \in N
    BY <1>1
  <1>3. ASSUME NEW n \in N
        PROVE  n + 1 \in N
    <2> SUFFICES ASSUME n + 1 <= Len(text)
                 PROVE  Spaces(n + 1) /\ Starts(n + 1)
      OBVIOUS
    <2>1. /\ Spaces(n) /\ Starts(n) /\ n \in Nat
          /\ n + 1 \in 1..Len(text) /\ n \in 0..Len(text) /\ (n + 1) - 1 = n
      BY <1>1
    <2> HIDE DEF N
    <2>2. /\ f[n] \in Seq(Texts) /\ text[n + 1] \in Characters
          /\ f[n + 1] = FieldTurn(f[n], text, n + 1)
      BY <1>1, <2>1
    <2>3. CASE text[n + 1] = "space"
      <3>1. f[n + 1] = f[n]
        BY <2>2, <2>3 DEF FieldTurn
      <3>2. Spaces(n + 1)
        <4> SUFFICES ASSUME f[n + 1] = <<>>, NEW j \in 1..n + 1
                     PROVE  text[j] = "space"
          OBVIOUS
        <4>1. j \in 1..n \/ j = n + 1
          BY <2>1
        <4> QED
          BY <2>1, <2>3, <3>1, <4>1
      <3> QED
        BY <2>1, <3>1, <3>2
    <2>4. CASE text[n + 1] # "space"
      <3>1. f[n + 1] # <<>>
        BY <1>0, <2>1, <2>4
      <3>2. CASE f[n] = <<>>
        <4> DEFINE field == <<text[n + 1]>>
        <4>1. n + 1 = 1 \/ text[n] = "space"
          <5>1. n + 1 # 1 => n \in 1..n
            BY <2>1
          <5> QED
            BY <2>1, <3>2, <5>1
        <4>2. f[n + 1] = Append(<<>>, field)
          <5>1. FieldTurn(f[n], text, n + 1) = Append(f[n], field)
            BY <2>1, <2>4, <4>1 DEF FieldTurn
          <5> QED
            BY <2>2, <3>2, <5>1
        <4>3. text[n + 1] # "marker"
          <5>1. \A j \in 1..((n + 1) - 1) : text[j] = "space"
            BY <2>1, <3>2
          <5> QED
            BY <2>1, <5>1 DEF Unmarked
        <4>4. field \in Texts /\ Len(field) = 1 /\ field[1] = text[n + 1]
          BY <2>2, Singletons
        <4> HIDE DEF field
        <4>5. Append(<<>>, field)[1] = field
          <5>1. <<>> \in Seq(Texts) /\ Len(<<>>) = 0
            BY EmptySeq
          <5>2. Append(<<>>, field)[Len(<<>>) + 1] = field
            BY <4>4, <5>1, AppendFacts
          <5> QED
            BY <5>1, <5>2
        <4>6. f[n + 1][1] = field
          BY <4>2, <4>5, Zenon
        <4>7. Len(f[n + 1][1]) > 0 /\ f[n + 1][1][1] # "marker"
          <5>1. Len(field) > 0
            BY <4>4
          <5> QED
            BY <4>3, <4>4, <4>6, <5>1, Zenon
        <4> QED
          BY <3>1, <4>7
      <3>3. CASE f[n] # <<>>
        <4>0. Len(f[n]) \in Nat /\ Len(f[n]) > 0 /\ 1 \in 1..Len(f[n])
          <5>1. Len(f[n]) \in Nat \ {0}
            BY <2>2, <3>3, EmptySeq
          <5> QED
            BY <5>1
        <4> DEFINE done == f[n]
                   first == done[1]
        <4>1. /\ done \in Seq(Texts) /\ 1 \in 1..Len(done) /\ Len(done) \in Nat
              /\ first \in Texts /\ Len(first) > 0 /\ first[1] # "marker"
          <5>1. done[1] \in Texts
            BY <2>2, <4>0, ElementOfSeq
          <5> QED
            BY <2>1, <2>2, <3>3, <4>0, <5>1
        <4>2. f[n + 1] = Append(done, <<text[n + 1]>>) \/ f[n + 1] = LastLonger(done, text[n + 1])
          BY <2>2, <2>4 DEF FieldTurn
        <4> HIDE DEF done
        <4>3. Append(done, <<text[n + 1]>>)[1] = first
          <5>1. <<text[n + 1]>> \in Texts
            BY <2>2, Singletons
          <5> QED
            BY <4>1, <5>1, AppendFacts
        <4>4. LastLonger(done, text[n + 1])[1] \in {first, Append(first, text[n + 1])}
          <5>1. LastLonger(done, text[n + 1])[1] =
                  IF 1 = Len(done) THEN Append(done[1], text[n + 1]) ELSE done[1]
            BY <2>2, <4>1, LastLongerFacts
          <5> QED
            BY <5>1
        <4> HIDE DEF first
        <4>5. /\ Len(Append(first, text[n + 1])) > 0
              /\ Append(first, text[n + 1])[1] = first[1]
          <5>1. Len(first) \in Nat /\ 1 \in 1..Len(first)
            BY <4>1, TextFacts
          <5>2. /\ Len(Append(first, text[n + 1])) = Len(first) + 1
                /\ \A i \in 1..Len(first) : Append(first, text[n + 1])[i] = first[i]
            BY <2>2, <4>1, AppendFacts DEF Texts
          <5> QED
            BY <5>1, <5>2
        <4>6. f[n + 1][1] \in {first, Append(first, text[n + 1])}
          BY <4>2, <4>3, <4>4
        <4>7. Starts(n + 1)
          BY <4>1, <4>5, <4>6
        <4> QED
          BY <3>1, <4>7
      <3> QED
        BY <3>2, <3>3
    <2> QED
      BY <2>3, <2>4
  <1>4. N = Nat
    <2> HIDE DEF N
    <2>1. N \in SUBSET Nat
      BY DEF N
    <2> QED
      BY <1>2, <1>3, <2>1, SetInduction
  <1>5. Starts(Len(text))
    <2>1. Len(text) \in N
      <3> HIDE DEF N
      <3> QED
        BY <1>1, <1>4
    <2> QED
      BY <1>1, <2>1
  <1> QED
    BY <1>1, <1>5
-----------------------------------------------------------------------------
(* The comment mpx writes.                                                 *)

MarkerComment(name) == <<"marker">> \o Id \o <<"colon">> \o DeviceSlug(name)

LEMMA SlugText ==
  ASSUME NEW slug, IsSlug(slug)
  PROVE  /\ slug \in Texts /\ Len(slug) > 0
         /\ \A i \in 1..Len(slug) : slug[i] \notin {"space", "colon"}
  <1>1. CASE slug = <<"device">>
    BY <1>1, Singletons DEF Characters
  <1>2. CASE slug \in Seq(SlugCharacters) /\ Len(slug) \in 1..MaxSlug
    <2>1. SlugCharacters \subseteq Characters
      BY DEF SlugCharacters, Characters
    <2>2. slug \in Texts
      BY <1>2, <2>1, SeqMonotonic DEF Texts
    <2>3. \A i \in 1..Len(slug) : slug[i] \in SlugCharacters
      BY <1>2, ElementOfSeq
    <2>4. Len(slug) > 0
      BY <1>2, SlugAssumption
    <2> QED
      BY <2>2, <2>3, <2>4 DEF SlugCharacters
  <1> QED
    BY <1>1, <1>2 DEF IsSlug

LEMMA MarkerCommentFacts ==
  ASSUME NEW name \in Texts, NEW comment, comment = MarkerComment(name),
         NEW slug, slug = DeviceSlug(name)
  PROVE  /\ comment \in Texts /\ slug \in Texts /\ Len(slug) > 0
         /\ Len(comment) = 3 + Len(slug)
         /\ comment[1] = "marker" /\ comment[2] = "plain" /\ comment[3] = "colon"
         /\ \A i \in 1..Len(slug) : comment[3 + i] = slug[i]
         /\ \A i \in 1..Len(slug) : slug[i] \notin {"space", "colon"}
  <1> DEFINE marker == <<"marker">>
             colon  == <<"colon">>
             two    == marker \o Id
             three  == two \o colon
  <1>1. /\ slug \in Texts /\ Len(slug) > 0 /\ Len(slug) \in Nat
        /\ \A i \in 1..Len(slug) : slug[i] \notin {"space", "colon"}
    BY DeviceSlugIsSlug, SlugText, TextFacts
  <1>2. /\ marker \in Texts /\ Len(marker) = 1 /\ marker[1] = "marker"
        /\ colon \in Texts /\ Len(colon) = 1 /\ colon[1] = "colon"
        /\ Id \in Texts /\ Len(Id) = 1 /\ Id[1] = "plain"
    BY Singletons DEF Characters, Id
  <1>3. comment = three \o slug
    BY DEF MarkerComment
  <1> HIDE DEF marker, colon
  <1>4. /\ two \in Texts /\ Len(two) = Len(marker) + Len(Id)
        /\ \A i \in 1..Len(marker) : two[i] = marker[i]
        /\ \A i \in 1..Len(Id) : two[Len(marker) + i] = Id[i]
    BY <1>2, TextConcat
  <1>5. Len(two) = 2 /\ two[1] = "marker" /\ two[2] = "plain"
    <2>1. 1 \in 1..Len(marker) /\ 1 \in 1..Len(Id)
      BY <1>2
    <2>2. two[1] = marker[1] /\ two[Len(marker) + 1] = Id[1]
      BY <1>4, <2>1
    <2> QED
      BY <1>2, <1>4, <2>2
  <1> HIDE DEF two
  <1>6. /\ three \in Texts /\ Len(three) = Len(two) + Len(colon)
        /\ \A i \in 1..Len(two) : three[i] = two[i]
        /\ \A i \in 1..Len(colon) : three[Len(two) + i] = colon[i]
    BY <1>2, <1>4, TextConcat
  <1>7. Len(three) = 3 /\ three[1] = "marker" /\ three[2] = "plain" /\ three[3] = "colon"
    <2>1. 1 \in 1..Len(two) /\ 2 \in 1..Len(two) /\ 1 \in 1..Len(colon)
      BY <1>2, <1>5
    <2>2. three[1] = two[1] /\ three[2] = two[2] /\ three[Len(two) + 1] = colon[1]
      BY <1>6, <2>1
    <2> QED
      BY <1>2, <1>5, <1>6, <2>2
  <1> HIDE DEF three
  <1>8. /\ three \o slug \in Texts /\ Len(three \o slug) = Len(three) + Len(slug)
        /\ \A i \in 1..Len(three) : (three \o slug)[i] = three[i]
        /\ \A i \in 1..Len(slug) : (three \o slug)[Len(three) + i] = slug[i]
    BY <1>1, <1>6, TextConcat
  <1>9. /\ comment \in Texts /\ Len(comment) = 3 + Len(slug)
        /\ comment[1] = three[1] /\ comment[2] = three[2] /\ comment[3] = three[3]
    <2>1. 1 \in 1..Len(three) /\ 2 \in 1..Len(three) /\ 3 \in 1..Len(three)
      BY <1>7
    <2> QED
      BY <1>3, <1>7, <1>8, <2>1
  <1>10. \A i \in 1..Len(slug) : comment[3 + i] = slug[i]
    BY <1>3, <1>7, <1>8
  <1> QED
    BY <1>1, <1>7, <1>9, <1>10

(* marked_keys finds in it the id and the slug it was written with: no     *)
(* slug has a colon.                                                       *)
LEMMA MarkerIsRead ==
  ASSUME NEW name \in Texts
  PROVE  MarkedKey(MarkerComment(name)) = [id |-> Id, device |-> DeviceSlug(name)]
  <1> DEFINE comment == MarkerComment(name)
             slug == DeviceSlug(name)
             after == Tail(comment)
             colons == {i \in DOMAIN after : after[i] = "colon"}
  <1>1. /\ comment \in Texts /\ slug \in Texts /\ Len(slug) > 0
        /\ Len(comment) = 3 + Len(slug)
        /\ comment[1] = "marker" /\ comment[2] = "plain" /\ comment[3] = "colon"
        /\ \A i \in 1..Len(slug) : comment[3 + i] = slug[i]
        /\ \A i \in 1..Len(slug) : slug[i] \notin {"space", "colon"}
    BY MarkerCommentFacts
  <1> HIDE DEF comment, slug
  <1>2. Len(slug) \in Nat
    BY <1>1, TextFacts
  <1>3. StartsWith(comment, "marker")
    BY <1>1, <1>2, StartsWithFacts
  <1>4. /\ after \in Texts /\ Len(after) = 2 + Len(slug)
        /\ \A i \in 1..Len(after) : after[i] = comment[i + 1]
        /\ DOMAIN after = 1..Len(after)
    <2>1. comment # <<>>
      BY <1>3 DEF StartsWith
    <2>2. /\ after \in Texts /\ Len(after) = Len(comment) - 1
          /\ \A i \in 1..Len(after) : after[i] = comment[i + 1]
      BY <1>1, <2>1, HeadTailProperties DEF Texts
    <2> HIDE DEF after
    <2> QED
      BY <1>1, <1>2, <2>2, TextFacts
  <1> HIDE DEF after
  <1>5. after[1] = "plain" /\ after[2] = "colon"
    <2>1. 1 \in 1..Len(after) /\ 2 \in 1..Len(after) /\ 1 + 1 = 2 /\ 2 + 1 = 3
      BY <1>2, <1>4
    <2> QED
      BY <1>1, <1>4, <2>1
  <1>6. \A i \in 1..Len(slug) : after[2 + i] = slug[i]
    <2> SUFFICES ASSUME NEW i \in 1..Len(slug)
                 PROVE  after[2 + i] = slug[i]
      OBVIOUS
    <2>1. 2 + i \in 1..Len(after) /\ (2 + i) + 1 = 3 + i
      BY <1>2, <1>4
    <2> QED
      BY <1>1, <1>4, <2>1
  <1>7. colons # {} /\ Min(colons) = 2
    <2>1. 2 \in colons
      BY <1>2, <1>4, <1>5
    <2>2. ASSUME NEW i \in colons
          PROVE  2 <= i
      <3>1. i \in 1..Len(after) /\ after[i] = "colon"
        BY <1>4
      <3>2. i # 1
        BY <1>5, <3>1
      <3> QED
        BY <1>2, <1>4, <3>1, <3>2
    <2>3. colons \in SUBSET Int
      BY <1>4
    <2> HIDE DEF colons
    <2> QED
      BY <2>1, <2>2, <2>3, MinIs
  <1>8. SubSeq(after, 2 + 1, Len(after)) = slug
    BY <1>1, <1>2, <1>4, <1>6, RestOfText
  <1>9. SubSeq(after, 1, 2 - 1) = Id
    <2>1. 1 \in 1..Len(after) /\ 2 - 1 = 1
      BY <1>2, <1>4
    <2> DEFINE sub == SubSeq(after, 1, 1)
    <2>2. /\ sub \in Texts /\ Len(sub) = 1 /\ sub[1] = after[1]
      <3>1. \A i \in 1..1 : after[i] \in Characters
        BY <2>1, <1>4, TextFacts
      <3>2. /\ sub \in Seq(Characters) /\ Len(sub) = IF 1 <= 1 THEN 1 - 1 + 1 ELSE 0
            /\ \A i \in 1..1 - 1 + 1 : sub[i] = after[1 + i - 1]
        BY <3>1, SubSeqProperties
      <3>3. 1 \in 1..1 - 1 + 1 /\ 1 + 1 - 1 = 1
        OBVIOUS
      <3> HIDE DEF sub
      <3> QED
        BY <3>2, <3>3 DEF Texts
    <2> HIDE DEF sub
    <2>3. Id \in Texts /\ Len(Id) = 1 /\ Id[1] = "plain"
      BY Singletons DEF Id, Characters
    <2>4. \A i \in 1..Len(sub) : sub[i] = Id[i]
      BY <1>5, <2>2, <2>3
    <2>5. sub = Id
      BY <2>2, <2>3, <2>4, SeqEqual DEF Texts
    <2> QED
      BY <2>1, <2>5 DEF sub
  <1>10. MarkedKey(comment) = [id |-> SubSeq(after, 1, Min(colons) - 1),
                               device |-> SubSeq(after, Min(colons) + 1, Len(after))]
    BY <1>3, <1>7 DEF MarkedKey, after
  <1> HIDE DEF colons
  <1> QED
    BY <1>7, <1>8, <1>9, <1>10 DEF comment, slug
-----------------------------------------------------------------------------
(* parse_line.                                                             *)

LEMMA LineFieldsStart ==
  ASSUME NEW comment \in Texts
  PROVE  LineFields(comment) \in Texts /\ StartsWith(LineFields(comment), "key")
  <1> DEFINE text == LineFields(comment)
  <1>1. /\ text \in Texts /\ text[1] = "key"
        /\ Len(text) = IF comment = <<>> THEN 4 ELSE 5 + Len(comment)
    BY LineFieldsFacts
  <1> HIDE DEF text
  <1>2. Len(text) > 0
    BY <1>1, TextFacts
  <1> QED
    BY <1>1, <1>2, StartsWithFacts DEF text

LEMMA StartOfConcat ==
  ASSUME NEW options \in Texts, NEW rest \in Texts, NEW c, Len(options) > 0
  PROVE  StartsWith(options \o rest, c) <=> StartsWith(options, c)
  <1>1. /\ options \o rest \in Texts /\ Len(options \o rest) = Len(options) + Len(rest)
        /\ \A i \in 1..Len(options) : (options \o rest)[i] = options[i]
    BY TextConcat
  <1>2. Len(options) \in Nat /\ Len(rest) \in Nat
    BY TextFacts
  <1> DEFINE text == options \o rest
  <1>3. text \in Texts /\ Len(text) > 0 /\ text[1] = options[1]
    <2>1. 1 \in 1..Len(options)
      BY <1>2
    <2> QED
      BY <1>1, <1>2, <2>1
  <1> HIDE DEF text
  <1>4. StartsWith(text, c) <=> StartsWith(options, c)
    BY <1>3, StartsWithFacts
  <1> QED
    BY <1>4 DEF text

LEMMA HashedLine ==
  ASSUME NEW options \in Texts, StartsWith(options, "hash"), NEW rest \in Texts
  PROVE  ParseLine(options \o rest) = None
  <1>1. Len(options) > 0
    BY StartsWithFacts
  <1>2. StartsWith(options \o rest, "hash")
    BY <1>1, StartOfConcat
  <1> QED
    BY <1>2 DEF ParseLine

LEMMA KeylessLine ==
  ASSUME NEW text \in Texts, \A i \in DOMAIN text : text[i] # "space"
  PROVE  ParseLine(text) = None
  <1>1. Len(text) \in Nat /\ DOMAIN text = 1..Len(text)
    BY TextFacts
  <1>2. SkipOptions(text) = text
    <2> DEFINE stops == {i \in DOMAIN text : text[i] = "space" /\ ~Walk(text)[i].quoted
                                              /\ ~Walk(text)[i].escaped}
    <2>1. stops = {}
      OBVIOUS
    <2> QED
      BY <2>1 DEF SkipOptions
  <1>3. Len(Fields(text)) < 2
    <2>1. CASE Len(text) = 0
      <3>1. Fields(text) = <<>>
        BY <2>1, FieldsTurns
      <3> QED
        BY <3>1
    <2>2. CASE Len(text) # 0
      <3>1. Len(Fields(text)) = 1
        BY <1>1, <2>2, OneField
      <3> QED
        BY <3>1
    <2> QED
      BY <2>1, <2>2
  <1> QED
    BY <1>2, <1>3 DEF ParseLine

(* The fields behind the key, as the comment is made of them.              *)
LEMMA FieldsOfComment ==
  ASSUME NEW comment \in Texts
  PROVE  /\ Fields(comment) \in Seq(Texts) /\ Len(Fields(comment)) \in Nat
         /\ Len(<<"type", "key">> \o Fields(comment)) = 2 + Len(Fields(comment))
         /\ \A i \in 1..Len(Fields(comment)) :
              (<<"type", "key">> \o Fields(comment))[2 + i] = Fields(comment)[i]
  <1> DEFINE fields == Fields(comment)
             both == <<"type", "key">>
             S == Texts \union {"type", "key"}
  <1>1. fields \in Seq(Texts) /\ Len(fields) \in Nat
    <2>1. fields = FieldsSoFar(comment)[Len(comment)] /\ Len(comment) \in 0..Len(comment)
      BY FieldsTurns, TextFacts
    <2>2. fields \in Seq(Texts)
      BY <2>1, FieldsSoFarType
    <2> QED
      BY <2>2, LenProperties
  <1> HIDE DEF fields
  <1>2. both \in Seq(S) /\ Len(both) = 2
    OBVIOUS
  <1>3. fields \in Seq(S)
    BY <1>1, SeqMonotonic
  <1> HIDE DEF both, S
  <1>4. /\ Len(both \o fields) = Len(both) + Len(fields)
        /\ \A i \in 1..Len(both) + Len(fields) : (both \o fields)[i] =
             IF i <= Len(both) THEN both[i] ELSE fields[i - Len(both)]
    BY <1>2, <1>3, ConcatProperties
  <1>5. ASSUME NEW i \in 1..Len(fields)
        PROVE  (both \o fields)[2 + i] = fields[i]
    <2>1. /\ 2 + i \in 1..Len(both) + Len(fields) /\ ~(2 + i <= Len(both))
          /\ (2 + i) - Len(both) = i
      BY <1>1, <1>2
    <2> QED
      BY <1>4, <2>1
  <1> QED
    BY <1>1, <1>2, <1>4, <1>5 DEF fields, both

(* Whatever its options are, but for the disputed form, and whoever wrote  *)
(* it, a line's key is found, and its comment with it.                     *)
LEMMA ParsedLine ==
  ASSUME NEW options \in Texts, IsOptions(options), ~Disputed(options),
         ~StartsWith(options, "hash"),
         NEW comment \in Texts
  PROVE  ParseLine(options \o LineFields(comment)) =
           [key |-> Key, comment |-> Comment(<<"type", "key">> \o Fields(comment))]
  <1> DEFINE rest == LineFields(comment)
             text == options \o rest
             fields == KeyFields \o Fields(comment)
             others == <<"type", "key">> \o Fields(comment)
  <1>1. rest \in Texts /\ StartsWith(rest, "key")
    BY LineFieldsStart
  <1>2. Fields(rest) = fields
    BY FieldsBehindKey
  <1> HIDE DEF rest
  <1>3. SkipOptions(text) = rest
    BY <1>1, SkipOptionsOfLine
  <1>4. ~StartsWith(text, "hash")
    <2>1. CASE Len(options) > 0
      BY <1>1, <2>1, StartOfConcat
    <2>2. CASE ~(Len(options) > 0)
      <3>1. options = <<>>
        BY <2>2, TextFacts, EmptySeq DEF Texts
      <3>2. text = rest
        BY <1>1, <3>1, ConcatEmptySeq DEF Texts
      <3>3. rest[1] = "key"
        BY <1>1, StartsWithFacts
      <3> QED
        BY <1>1, <3>2, <3>3, StartsWithFacts
    <2> QED
      BY <2>1, <2>2
  <1> HIDE DEF text
  <1>5. /\ Fields(comment) \in Seq(Texts) /\ Len(Fields(comment)) \in Nat
        /\ Len(others) = 2 + Len(Fields(comment))
        /\ \A i \in 1..Len(Fields(comment)) : others[2 + i] = Fields(comment)[i]
    BY FieldsOfComment
  <1> HIDE DEF others
  <1>6. /\ Len(fields) = Len(KeyFields) + Len(Fields(comment))
        /\ \A i \in 1..Len(KeyFields) + Len(Fields(comment)) : fields[i] =
             IF i <= Len(KeyFields) THEN KeyFields[i] ELSE Fields(comment)[i - Len(KeyFields)]
    BY <1>5, FrontFacts, ConcatProperties
  <1> HIDE DEF fields
  <1>7. Len(KeyFields) = 2 /\ KeyFields[2] = Key
    BY FrontFacts
  <1>8. Len(fields) = 2 + Len(Fields(comment)) /\ fields[2] = Key
    BY <1>5, <1>6, <1>7
  <1>9. ASSUME NEW n \in 3..Len(fields)
        PROVE  fields[n] = others[n]
    <2>1. /\ n - 2 \in 1..Len(Fields(comment)) /\ 2 + (n - 2) = n
          /\ n \in 1..Len(KeyFields) + Len(Fields(comment)) /\ ~(n <= Len(KeyFields))
      BY <1>5, <1>7, <1>8
    <2>2. fields[n] = Fields(comment)[n - 2]
      BY <1>6, <1>7, <2>1
    <2>3. others[2 + (n - 2)] = Fields(comment)[n - 2]
      BY <1>5, <2>1
    <2> QED
      BY <2>1, <2>2, <2>3
  <1>10. Comment(fields) = Comment(others)
    <2>1. Len(fields) \in Nat /\ Len(others) = Len(fields)
      BY <1>5, <1>8
    <2> QED
      BY <1>9, <2>1, SameComment
  <1>11. ParseLine(text) = [key |-> fields[2], comment |-> Comment(fields)]
    <2>1. ~(Len(fields) < 2)
      BY <1>5, <1>8
    <2> QED
      BY <1>2, <1>3, <1>4, <2>1 DEF ParseLine
  <1> QED
    BY <1>8, <1>10, <1>11 DEF text, rest, others
-----------------------------------------------------------------------------
(* The lines and their readers.                                            *)

EntryInv ==
  /\ entry \in [by : {"mpx", "user", "nobody"}, name : Texts, options : Texts,
                comment : Texts]
  /\ entry.by = "mpx" => \E e \in Enrollments : e.options = entry.options
  /\ entry.by = "user" =>
       \E o \in Others : o.options = entry.options /\ o.comment = entry.comment
  /\ entry.by = "nobody" => entry.options \in Keyless

LineOf == entry.options \o (IF entry.by = "nobody" THEN <<>> ELSE LineFields(entry.comment))

LineInv ==
  /\ EntryInv
  /\ line # <<>> =>
       /\ line = LineOf
       /\ entry.by = "mpx" => entry.comment = MarkerComment(entry.name)
  /\ parsed # Unread => line # <<>> /\ parsed = ParseLine(line)

LEMMA LineInvInit == Init => LineInv
  <1> SUFFICES ASSUME Init
               PROVE  LineInv
    OBVIOUS
  <1>0. <<>> \in Texts
    BY EmptySeq DEF Texts
  <1>1. EntryInv
    <2>1. CASE \E e \in Enrollments :
                 entry = [by |-> "mpx", name |-> e.name, options |-> e.options,
                          comment |-> <<>>]
      BY <1>0, <2>1, TextAssumption DEF EntryInv
    <2>2. CASE \E o \in Others :
                 entry = [by |-> "user", name |-> <<>>, options |-> o.options,
                          comment |-> o.comment]
      BY <1>0, <2>2, TextAssumption DEF EntryInv
    <2>3. CASE \E text \in Keyless :
                 entry = [by |-> "nobody", name |-> <<>>, options |-> text, comment |-> <<>>]
      BY <1>0, <2>3, TextAssumption DEF EntryInv
    <2> QED
      BY <2>1, <2>2, <2>3 DEF Init
  <1> QED
    BY <1>1 DEF Init, LineInv

LEMMA LineInvWrite ==
  ASSUME LineInv, Write
  PROVE  LineInv'
  <1> DEFINE comment == IF entry.by = "mpx" THEN MarkerComment(entry.name) ELSE entry.comment
  <1>1. /\ entry' = [entry EXCEPT !.comment = comment]
        /\ line' = entry.options \o
                     (IF entry.by = "nobody" THEN <<>> ELSE LineFields(comment))
        /\ line = <<>> /\ parsed' = parsed
    BY Zenon DEF Write, MarkerComment, LineFields
  <1>2. entry.name \in Texts /\ entry.comment \in Texts
    BY DEF LineInv, EntryInv
  <1>3. comment \in Texts
    BY <1>2, MarkerCommentFacts
  <1> HIDE DEF comment
  <1>4. /\ entry' \in [by : {"mpx", "user", "nobody"}, name : Texts, options : Texts,
                       comment : Texts]
        /\ entry'.by = entry.by /\ entry'.name = entry.name
        /\ entry'.options = entry.options /\ entry'.comment = comment
    BY <1>1, <1>3 DEF LineInv, EntryInv
  <1>5. /\ entry.by = "mpx" => comment = MarkerComment(entry.name)
        /\ entry.by # "mpx" => comment = entry.comment
    BY DEF comment
  <1>6. EntryInv'
    BY <1>4, <1>5 DEF LineInv, EntryInv
  <1>7. line' = LineOf'
    BY <1>1, <1>4 DEF LineOf
  <1>8. parsed' = Unread
    BY <1>1 DEF LineInv
  <1> QED
    BY <1>4, <1>5, <1>6, <1>7, <1>8 DEF LineInv

LEMMA LineInvHolds == Spec => []LineInv
  <1>1. LineInv /\ [Next]_vars => LineInv'
    <2> SUFFICES ASSUME LineInv, [Next]_vars
                 PROVE  LineInv'
      OBVIOUS
    <2>1. CASE Write
      BY <2>1, LineInvWrite
    <2>2. CASE Read
      BY <2>2 DEF Read, LineInv, EntryInv, LineOf
    <2>3. CASE UNCHANGED vars
      BY <2>3 DEF vars, LineInv, EntryInv, LineOf
    <2> QED
      BY <2>1, <2>2, <2>3 DEF Next
  <1> QED
    BY <1>1, LineInvInit, PTL DEF Spec

(* Whatever a device is called, its slug is lower case letters and digits  *)
(* with single dashes between them, not empty and not too long             *)
(* (util::device_slug): for every name and every limit.                    *)
THEOREM SlugIsScannableHolds == Spec => []SlugIsScannable
  <1>1. LineInv => SlugIsScannable
    BY DeviceSlugIsSlug DEF LineInv, EntryInv, SlugIsScannable, IsSlug
  <1> QED
    BY <1>1, LineInvHolds, PTL

(* The lines sshd would take: their options are options or the line is     *)
(* disabled, a text without a key is one word or a comment, and nobody but *)
(* mpx begins a comment with the marker.                                   *)
LinesAreWellFormed ==
  /\ \A e \in Enrollments \union Others :
       StartsWith(e.options, "hash") \/ IsOptions(e.options)
  /\ \A o \in Others : Unmarked(o.comment)
  /\ \A text \in Keyless :
       StartsWith(text, "hash") \/ \A i \in DOMAIN text : text[i] # "space"

LEMMA ReadLine ==
  ASSUME LinesAreWellFormed, LineInv, parsed # Unread, ~Disputed(entry.options)
  PROVE  /\ parsed = IF Granted
                       THEN [key |-> Key,
                             comment |-> Comment(<<"type", "key">> \o Fields(entry.comment))]
                       ELSE None
         /\ Granted /\ entry.by = "mpx" => entry.comment = MarkerComment(entry.name)
  <1>1. line = LineOf /\ parsed = ParseLine(LineOf)
        /\ (entry.by = "mpx" => entry.comment = MarkerComment(entry.name))
    BY DEF LineInv
  <1>2. /\ entry.options \in Texts /\ entry.comment \in Texts /\ LineFields(entry.comment) \in Texts
        /\ <<>> \in Texts /\ entry.options \o <<>> = entry.options
    <2>1. entry.options \in Texts /\ entry.comment \in Texts
      BY DEF LineInv, EntryInv
    <2> QED
      BY <2>1, LineFieldsStart, EmptySeq, ConcatEmptySeq DEF Texts
  <1>3. CASE entry.by = "nobody"
    <2>1. LineOf = entry.options
      BY <1>2, <1>3 DEF LineOf
    <2>2. StartsWith(entry.options, "hash") \/ \A i \in DOMAIN entry.options :
            entry.options[i] # "space"
      BY <1>3 DEF LineInv, EntryInv, LinesAreWellFormed
    <2>3. ParseLine(entry.options) = None
      <3>1. CASE StartsWith(entry.options, "hash")
        <4>1. ParseLine(entry.options \o <<>>) = None
          BY <1>2, <3>1, HashedLine
        <4> QED
          BY <1>2, <4>1
      <3>2. CASE \A i \in DOMAIN entry.options : entry.options[i] # "space"
        BY <1>2, <3>2, KeylessLine
      <3> QED
        BY <2>2, <3>1, <3>2
    <2> QED
      BY <1>1, <1>3, <2>1, <2>3 DEF Granted
  <1>4. CASE entry.by # "nobody"
    <2>1. LineOf = entry.options \o LineFields(entry.comment)
      BY <1>4 DEF LineOf
    <2>2. StartsWith(entry.options, "hash") \/ IsOptions(entry.options)
      BY <1>4 DEF LineInv, EntryInv, LinesAreWellFormed
    <2>3. CASE StartsWith(entry.options, "hash")
      <3>1. ParseLine(LineOf) = None
        BY <1>2, <2>1, <2>3, HashedLine
      <3> QED
        BY <1>1, <2>3, <3>1 DEF Granted
    <2>4. CASE ~StartsWith(entry.options, "hash")
      <3>1. ParseLine(LineOf) =
              [key |-> Key, comment |-> Comment(<<"type", "key">> \o Fields(entry.comment))]
        BY <1>2, <2>1, <2>2, <2>4, ParsedLine
      <3> QED
        BY <1>1, <1>4, <2>4, <3>1 DEF Granted
    <2> QED
      BY <2>3, <2>4
  <1> QED
    BY <1>3, <1>4

(* Behind any options that sshd takes, but for a quote behind an even      *)
(* number of backslashes, parse_line finds the key of the line and the     *)
(* comment it was written with, and neither in a line that grants nothing: *)
(* for lines, options and names of any length (authkeys.rs 49-90).         *)
THEOREM KeyIsFoundHolds ==
  ASSUME LinesAreWellFormed
  PROVE  Spec => []KeyIsFound
  <1>1. LineInv => KeyIsFound
    BY ReadLine DEF KeyIsFound
  <1> QED
    BY <1>1, LineInvHolds, PTL

(* Behind the same options, `mpx unbind` lists every enrollment under its  *)
(* id and its device's name, and no line mpx did not write (authkeys.rs    *)
(* 109-127).                                                               *)
THEOREM EnrollmentIsListedHolds ==
  ASSUME LinesAreWellFormed
  PROVE  Spec => []EnrollmentIsListed
  <1>1. ASSUME LineInv, parsed # Unread, Granted, ~Disputed(entry.options)
        PROVE  MarkedKey(parsed.comment) =
                 IF entry.by = "mpx" THEN [id |-> Id, device |-> DeviceSlug(entry.name)]
                                     ELSE NotMarked
    <2> DEFINE comment == entry.comment
               fields == <<"type", "key">> \o Fields(comment)
    <2>1. parsed.comment = Comment(fields)
      BY <1>1, ReadLine
    <2>2. comment \in Texts /\ entry.name \in Texts
      BY <1>1 DEF LineInv, EntryInv
    <2>3. /\ Fields(comment) \in Seq(Texts) /\ Len(Fields(comment)) \in Nat
          /\ Len(fields) = 2 + Len(Fields(comment))
          /\ \A i \in 1..Len(Fields(comment)) : fields[2 + i] = Fields(comment)[i]
      BY <2>2, FieldsOfComment
    <2> HIDE DEF fields
    <2>4. CASE entry.by = "mpx"
      <3>1. comment = MarkerComment(entry.name)
        BY <1>1, <2>4, ReadLine
      <3>2. Len(comment) > 0 /\ \A i \in 1..Len(comment) : comment[i] # "space"
        <4> DEFINE slug == DeviceSlug(entry.name)
        <4>1. /\ slug \in Texts /\ Len(slug) > 0
              /\ Len(comment) = 3 + Len(slug)
              /\ comment[1] = "marker" /\ comment[2] = "plain" /\ comment[3] = "colon"
              /\ \A i \in 1..Len(slug) : comment[3 + i] = slug[i]
              /\ \A i \in 1..Len(slug) : slug[i] \notin {"space", "colon"}
          BY <2>2, <3>1, MarkerCommentFacts
        <4> HIDE DEF comment, slug
        <4>2. Len(slug) \in Nat
          BY <4>1, TextFacts
        <4>3. ASSUME NEW i \in 1..Len(comment)
              PROVE  comment[i] # "space"
          <5>1. CASE i \in {1, 2, 3}
            BY <4>1, <5>1
          <5>2. CASE i \notin {1, 2, 3}
            <6>1. i - 3 \in 1..Len(slug) /\ 3 + (i - 3) = i
              BY <4>1, <4>2, <5>2
            <6>2. comment[3 + (i - 3)] = slug[i - 3]
              BY <4>1, <6>1
            <6> QED
              BY <4>1, <6>1, <6>2
          <5> QED
            BY <5>1, <5>2
        <4> QED
          BY <4>1, <4>2, <4>3
      <3>3. Len(Fields(comment)) = 1 /\ Fields(comment)[1] = comment
        BY <2>2, <3>2, OneField
      <3>4. Len(fields) = 3 /\ fields[3] = comment
        <4>1. fields[2 + 1] = Fields(comment)[1]
          BY <2>3, <3>3
        <4> QED
          BY <2>3, <3>3, <4>1
      <3>5. Comment(fields) = comment
        BY <2>2, <3>4, CommentOfOne
      <3> QED
        BY <2>1, <2>2, <2>4, <3>1, <3>5, MarkerIsRead
    <2>5. CASE entry.by # "mpx"
      <3>1. Unmarked(comment)
        BY <1>1, <2>5 DEF Granted, LineInv, EntryInv, LinesAreWellFormed
      <3>2. ~StartsWith(Comment(fields), "marker")
        <4>1. CASE Fields(comment) = <<>>
          <5>1. Comment(fields) = <<>>
            BY <2>3, <4>1, CommentOfNone
          <5> QED
            BY <5>1 DEF StartsWith
        <4>2. CASE Fields(comment) # <<>>
          <5>1. Len(Fields(comment)[1]) > 0 /\ Fields(comment)[1][1] # "marker"
            BY <2>2, <3>1, <4>2, FirstFieldUnmarked
          <5>2. Len(Fields(comment)) >= 1
            <6>1. Len(Fields(comment)) \in Nat \ {0}
              BY <2>3, <4>2, EmptySeq
            <6> QED
              BY <6>1
          <5>3. \A n \in 3..Len(fields) : fields[n] \in Texts
            <6> SUFFICES ASSUME NEW n \in 3..Len(fields)
                         PROVE  fields[n] \in Texts
              OBVIOUS
            <6>1. n - 2 \in 1..Len(Fields(comment)) /\ 2 + (n - 2) = n
              BY <2>3
            <6>2. fields[2 + (n - 2)] = Fields(comment)[n - 2]
              BY <2>3, <6>1
            <6>3. Fields(comment)[n - 2] \in Texts
              BY <2>3, <6>1, ElementOfSeq
            <6> QED
              BY <6>1, <6>2, <6>3
          <5>4. fields[3] = Fields(comment)[1] /\ Len(fields) \in Nat /\ Len(fields) >= 3
            <6>1. fields[2 + 1] = Fields(comment)[1]
              BY <2>3, <5>2
            <6> QED
              BY <2>3, <5>2, <6>1
          <5>5. Comment(fields) \in Texts /\ Comment(fields)[1] = Fields(comment)[1][1]
            BY <5>1, <5>3, <5>4, CommentStart
          <5> QED
            BY <5>1, <5>5, StartsWithFacts
        <4> QED
          BY <4>1, <4>2
      <3>3. MarkedKey(Comment(fields)) = NotMarked
        BY <3>2 DEF MarkedKey
      <3> QED
        BY <2>1, <2>5, <3>3
    <2> QED
      BY <2>4, <2>5
  <1>2. LineInv => EnrollmentIsListed
    BY <1>1 DEF EnrollmentIsListed
  <1> QED
    BY <1>2, LineInvHolds, PTL
=============================================================================
