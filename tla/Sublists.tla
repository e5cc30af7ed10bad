----------------------------- MODULE Sublists -----------------------------
(***************************************************************************)
(* The elements of a list that lie in a set, in their order: what Rust's   *)
(* Iterator::filter collects.  The lemmas say what it is after one more    *)
(* element, without the first one, and where each chosen element comes     *)
(* from.  They are shown by induction over places, as statements about     *)
(* sets of numbers (SetInduction).                                         *)
(***************************************************************************)
EXTENDS Integers, Sequences, SequenceTheorems, WellFoundedInduction, TLAPS

Chosen(s, S) ==
  LET chosen[n \in 0..Len(s)] ==
        IF n = 0 THEN <<>>
        ELSE IF s[n] \in S THEN Append(chosen[n - 1], s[n]) ELSE chosen[n - 1]
  IN  chosen[Len(s)]

-----------------------------------------------------------------------------
(* Induction over the natural numbers.                                      *)

LessThan == {pair \in Nat \X Nat : pair[1] < pair[2]}

\* The order of the natural numbers has no infinite descent.
LEMMA NoDescent == IsWellFoundedOn(LessThan, Nat)
  BY NatLessThanWellFounded DEF LessThan, OpToRel

\* A set that holds 0 and the successor of each of its numbers holds them all.
LEMMA SetInduction ==
  ASSUME NEW S, 0 \in S, \A n \in Nat : n \in S => n + 1 \in S
  PROVE  Nat \subseteq S
<1>1. SUFFICES ASSUME Nat \ S # {} PROVE FALSE
  OBVIOUS
<1>2. PICK least \in Nat \ S : \A n \in Nat \ S : <<n, least>> \notin LessThan
  <2>1. Nat \ S \subseteq Nat
    OBVIOUS
  <2>2. QED
    BY <1>1, <2>1, NoDescent, WFMin
<1>3. least - 1 \in Nat
  <2>1. least # 0
    OBVIOUS
  <2>2. QED
    BY <2>1
<1>4. least - 1 \notin S
  BY <1>2, <1>3
<1>5. <<least - 1, least>> \in LessThan
  BY <1>3 DEF LessThan
<1>6. QED
  BY <1>2, <1>3, <1>4, <1>5

-----------------------------------------------------------------------------
(* The recursion of Chosen.                                                 *)

\* What one more element makes of those chosen before it.
OneMore(before, x, S) == IF x \in S THEN Append(before, x) ELSE before

ChosenUpTo(f, s, S, last) ==
  f = [n \in 0..last |-> IF n = 0 THEN <<>>
                         ELSE IF s[n] \in S THEN Append(f[n - 1], s[n]) ELSE f[n - 1]]

\* There is a function that does what the recursion says.
LEMMA ChosenExists == \A s, S : \A last \in Nat : \E f : ChosenUpTo(f, s, S, last)
<1> SUFFICES ASSUME NEW s, NEW S PROVE \A last \in Nat : \E f : ChosenUpTo(f, s, S, last)
  OBVIOUS
<1> DEFINE Good == {last \in Nat : \E f : ChosenUpTo(f, s, S, last)}
<1>1. 0 \in Good
  <2>1. ChosenUpTo([n \in 0..0 |-> <<>>], s, S, 0)
    BY DEF ChosenUpTo
  <2>2. QED
    BY <2>1
<1>2. ASSUME NEW last \in Nat, last \in Good PROVE last + 1 \in Good
  <2>1. PICK f : ChosenUpTo(f, s, S, last)
    BY <1>2
  <2> DEFINE g == [n \in 0..(last + 1) |-> IF n <= last THEN f[n] ELSE OneMore(f[last], s[last + 1], S)]
  <2>2. g[0] = <<>>
    BY <2>1 DEF ChosenUpTo
  <2>3. ASSUME NEW n \in 1..(last + 1) PROVE g[n] = OneMore(g[n - 1], s[n], S)
    <3>1. n - 1 \in 0..last /\ g[n - 1] = f[n - 1]
      OBVIOUS
    <3>2. CASE n <= last
      <4>1. g[n] = f[n] /\ n \in 0..last /\ n # 0
        BY <3>2
      <4>2. f[n] = OneMore(f[n - 1], s[n], S)
        BY <2>1, <4>1 DEF ChosenUpTo, OneMore
      <4>3. QED
        BY <3>1, <4>1, <4>2
    <3>3. CASE n = last + 1
      BY <3>1, <3>3
    <3>4. QED
      BY <3>2, <3>3
  <2>4. ChosenUpTo(g, s, S, last + 1)
    <3>1. ASSUME NEW n \in 0..(last + 1)
          PROVE  g[n] = IF n = 0 THEN <<>>
                        ELSE IF s[n] \in S THEN Append(g[n - 1], s[n]) ELSE g[n - 1]
      <4>1. CASE n = 0
        BY <2>2, <4>1
      <4>2. CASE n # 0
        <5>1. n \in 1..(last + 1)
          BY <4>2
        <5>2. g[n] = OneMore(g[n - 1], s[n], S)
          BY <2>3, <5>1
        <5> HIDE DEF g
        <5>3. QED
          BY <4>2, <5>2 DEF OneMore
      <4>3. QED
        BY <4>1, <4>2
    <3>2. g = [n \in 0..(last + 1) |-> g[n]]
      OBVIOUS
    <3> HIDE DEF g
    <3>3. QED
      BY <3>1, <3>2 DEF ChosenUpTo
  <2>5. QED
    BY <2>4
<1>3. Nat \subseteq Good
  <2> HIDE DEF Good
  <2>1. QED
    BY <1>1, <1>2, SetInduction
<1>4. QED
  BY <1>3

\* The function Chosen uses.
ChosenOf(s, S) == CHOOSE f : ChosenUpTo(f, s, S, Len(s))

LEMMA ChosenIs ==
  ASSUME NEW s, NEW S, Len(s) \in Nat
  PROVE  /\ ChosenUpTo(ChosenOf(s, S), s, S, Len(s))
         /\ Chosen(s, S) = ChosenOf(s, S)[Len(s)]
<1>1. ChosenUpTo(ChosenOf(s, S), s, S, Len(s))
  BY ChosenExists DEF ChosenOf
<1>2. Chosen(s, S) = ChosenOf(s, S)[Len(s)]
  BY DEF Chosen, ChosenOf, ChosenUpTo
<1>3. QED
  BY <1>1, <1>2

LEMMA ChosenStart ==
  ASSUME NEW s, NEW S, Len(s) \in Nat
  PROVE  ChosenOf(s, S)[0] = <<>>
  BY ChosenIs DEF ChosenUpTo

LEMMA ChosenNext ==
  ASSUME NEW s, NEW S, Len(s) \in Nat, NEW n \in 1..Len(s)
  PROVE  ChosenOf(s, S)[n] = OneMore(ChosenOf(s, S)[n - 1], s[n], S)
<1>1. n \in 0..Len(s) /\ n # 0
  OBVIOUS
<1>2. PICK f : f = ChosenOf(s, S) /\ ChosenUpTo(f, s, S, Len(s))
  BY ChosenIs
<1>3. f[n] = IF n = 0 THEN <<>>
             ELSE IF s[n] \in S THEN Append(f[n - 1], s[n]) ELSE f[n - 1]
  BY <1>1, <1>2 DEF ChosenUpTo
<1>4. QED
  BY <1>1, <1>2, <1>3 DEF OneMore

\* What is chosen is a list of elements.
LEMMA ChosenType ==
  ASSUME NEW X, NEW s \in Seq(X), NEW S
  PROVE  /\ \A n \in 0..Len(s) : ChosenOf(s, S)[n] \in Seq(X)
         /\ Chosen(s, S) \in Seq(X)
<1> DEFINE Good == {n \in Nat : n <= Len(s) => ChosenOf(s, S)[n] \in Seq(X)}
<1>1. 0 \in Good
  <2>1. Len(s) \in Nat
    OBVIOUS
  <2>2. ChosenOf(s, S)[0] = <<>>
    BY <2>1, ChosenStart
  <2>3. <<>> \in Seq(X)
    BY EmptySeq
  <2>4. ChosenOf(s, S)[0] \in Seq(X)
    BY <2>2, <2>3
  <2>5. QED
    BY <2>4
<1>2. ASSUME NEW n \in Nat, n \in Good PROVE n + 1 \in Good
  <2>1. CASE n + 1 <= Len(s)
    <3>1. n + 1 \in 1..Len(s) /\ (n + 1) - 1 = n
      BY <2>1
    <3>2. ChosenOf(s, S)[n + 1] = OneMore(ChosenOf(s, S)[n], s[n + 1], S)
      BY <3>1, ChosenNext
    <3>3. ChosenOf(s, S)[n] \in Seq(X) /\ s[n + 1] \in X
      BY <1>2, <3>1
    <3>4. ChosenOf(s, S)[n + 1] \in Seq(X)
      BY <3>2, <3>3 DEF OneMore
    <3>5. QED
      BY <3>4
  <2>2. CASE ~ (n + 1 <= Len(s))
    BY <2>2
  <2>3. QED
    BY <2>1, <2>2
<1>3. Nat \subseteq Good
  <2> HIDE DEF Good
  <2>1. QED
    BY <1>1, <1>2, SetInduction
<1>4. ASSUME NEW n \in 0..Len(s) PROVE ChosenOf(s, S)[n] \in Seq(X)
  BY <1>3
<1>5. Chosen(s, S) \in Seq(X)
  BY <1>4, ChosenIs
<1>6. QED
  BY <1>4, <1>5

\* Nothing is chosen of an empty list.
LEMMA ChosenEmpty == \A S : Chosen(<<>>, S) = <<>>
  BY ChosenIs, ChosenStart

-----------------------------------------------------------------------------
(* Lists that begin alike, and one more element at either end.              *)

\* Up to n, two lists agree, and so do the sets on what they hold.
Alike(s, S, t, T, n) ==
  \A k \in 1..n : s[k] = t[k] /\ (s[k] \in S <=> t[k] \in T)

LEMMA ChosenAlike ==
  ASSUME NEW X, NEW Y, NEW s \in Seq(X), NEW t \in Seq(Y), NEW S, NEW T, NEW last \in Nat,
         last <= Len(s), last <= Len(t), Alike(s, S, t, T, last)
  PROVE  ChosenOf(s, S)[last] = ChosenOf(t, T)[last]
<1> DEFINE Good == {n \in Nat : n <= last => ChosenOf(s, S)[n] = ChosenOf(t, T)[n]}
<1>0. Len(s) \in Nat /\ Len(t) \in Nat
  OBVIOUS
<1>1. 0 \in Good
  <2>1. ChosenOf(s, S)[0] = <<>>
    BY <1>0, ChosenStart
  <2>2. ChosenOf(t, T)[0] = <<>>
    BY <1>0, ChosenStart
  <2>3. QED
    BY <2>1, <2>2
<1>2. ASSUME NEW n \in Nat, n \in Good PROVE n + 1 \in Good
  <2>1. SUFFICES ASSUME n + 1 <= last PROVE ChosenOf(s, S)[n + 1] = ChosenOf(t, T)[n + 1]
    OBVIOUS
  <2>2. n + 1 \in 1..Len(s) /\ n + 1 \in 1..Len(t) /\ n + 1 \in 1..last /\ (n + 1) - 1 = n
    BY <1>0, <2>1
  <2>3. ChosenOf(s, S)[n + 1] = OneMore(ChosenOf(s, S)[n], s[n + 1], S)
    BY <1>0, <2>2, ChosenNext
  <2>4. ChosenOf(t, T)[n + 1] = OneMore(ChosenOf(t, T)[n], t[n + 1], T)
    BY <1>0, <2>2, ChosenNext
  <2>5. s[n + 1] = t[n + 1] /\ (s[n + 1] \in S <=> t[n + 1] \in T)
    BY <2>2 DEF Alike
  <2>6. ChosenOf(s, S)[n] = ChosenOf(t, T)[n]
    BY <1>2, <2>1
  <2>7. QED
    BY <2>3, <2>4, <2>5, <2>6 DEF OneMore
<1>3. Nat \subseteq Good
  <2> HIDE DEF Good
  <2>1. QED
    BY <1>1, <1>2, SetInduction
<1>4. QED
  BY <1>3

\* Sets that agree on a list choose the same of it.
LEMMA ChosenSame ==
  ASSUME NEW X, NEW s \in Seq(X), NEW S, NEW T,
         \A k \in 1..Len(s) : s[k] \in S <=> s[k] \in T
  PROVE  Chosen(s, S) = Chosen(s, T)
<1>1. Alike(s, S, s, T, Len(s)) /\ Len(s) \in Nat
  BY DEF Alike
<1>2. ChosenOf(s, S)[Len(s)] = ChosenOf(s, T)[Len(s)]
  BY <1>1, ChosenAlike
<1>3. QED
  BY <1>1, <1>2, ChosenIs

\* One more at the end.
LEMMA ChosenAppend ==
  ASSUME NEW X, NEW s \in Seq(X), NEW x \in X, NEW S
  PROVE  Chosen(Append(s, x), S) = OneMore(Chosen(s, S), x, S)
<1>1. PICK t \in Seq(X) : t = Append(s, x)
  <2>1. Append(s, x) \in Seq(X)
    BY AppendProperties
  <2>2. QED
    BY <2>1
<1>2. /\ Len(s) \in Nat /\ Len(t) = Len(s) + 1 /\ t[Len(s) + 1] = x
      /\ \A k \in 1..Len(s) : t[k] = s[k]
  BY <1>1
<1>3. Alike(t, S, s, S, Len(s))
  BY <1>2 DEF Alike
<1>4. ChosenOf(t, S)[Len(s)] = ChosenOf(s, S)[Len(s)]
  BY <1>2, <1>3, ChosenAlike
<1>5. ChosenOf(t, S)[Len(t)] = OneMore(ChosenOf(t, S)[Len(t) - 1], t[Len(t)], S)
  BY <1>2, ChosenNext
<1>6. Len(t) - 1 = Len(s) /\ t[Len(t)] = x
  BY <1>2
<1>7. Chosen(t, S) = ChosenOf(t, S)[Len(t)] /\ Chosen(s, S) = ChosenOf(s, S)[Len(s)]
  BY <1>2, ChosenIs
<1>8. Chosen(t, S) = OneMore(Chosen(s, S), x, S)
  BY <1>4, <1>5, <1>6, <1>7
<1>9. QED
  BY <1>1, <1>8

\* Behind a list: the same as after its end.
BehindIt(s, t, x, S) == OneMore(s \o t, x, S) = s \o OneMore(t, x, S)

LEMMA OneMoreBehind ==
  ASSUME NEW X, NEW s \in Seq(X), NEW t \in Seq(X), NEW x \in X, NEW S
  PROVE  BehindIt(s, t, x, S)
<1>1. s \o t \in Seq(X) /\ <<x>> \in Seq(X)
  BY ConcatProperties
<1>2. Append(s \o t, x) = (s \o t) \o <<x>>
  BY <1>1, AppendIsConcat
<1>3. Append(t, x) = t \o <<x>>
  BY AppendIsConcat
<1>4. (s \o t) \o <<x>> = s \o (t \o <<x>>)
  BY <1>1, ConcatAssociative
<1>5. Append(s \o t, x) = s \o Append(t, x)
  BY <1>2, <1>3, <1>4
<1>6. QED
  BY <1>5 DEF BehindIt, OneMore

\* Up to the n-th of the rest.
SplitAfter(s, first, rest, S, n) == ChosenOf(s, S)[n + 1] = first \o ChosenOf(rest, S)[n]

\* The first element, and then the rest.
ThenRest(s, first, rest, S) == Chosen(s, S) = first \o Chosen(rest, S)

LEMMA ChosenRest ==
  ASSUME NEW X, NEW s \in Seq(X), NEW rest \in Seq(X), NEW first \in Seq(X), NEW S,
         Len(s) = Len(rest) + 1,
         \A n \in 1..Len(rest) : rest[n] = s[n + 1],
         first = OneMore(<<>>, s[1], S)
  PROVE  ThenRest(s, first, rest, S)
<1> DEFINE Good == {n \in Nat : n <= Len(rest) => SplitAfter(s, first, rest, S, n)}
<1>1. Len(s) \in Nat /\ Len(rest) \in Nat
  OBVIOUS
<1>2. 0 \in Good
  <2>1. ChosenOf(s, S)[1] = OneMore(<<>>, s[1], S)
    <3>1. 1 \in 1..Len(s) /\ 1 - 1 = 0
      BY <1>1
    <3>2. ChosenOf(s, S)[1] = OneMore(ChosenOf(s, S)[1 - 1], s[1], S)
      BY <1>1, <3>1, ChosenNext
    <3>3. ChosenOf(s, S)[0] = <<>>
      BY <1>1, ChosenStart
    <3>4. QED
      BY <3>1, <3>2, <3>3
  <2>2. ChosenOf(rest, S)[0] = <<>>
    BY <1>1, ChosenStart
  <2>3. first \o <<>> = first
    BY ConcatEmptySeq
  <2>4. SplitAfter(s, first, rest, S, 0)
    BY <2>1, <2>2, <2>3 DEF SplitAfter
  <2>5. QED
    BY <2>4
<1>3. ASSUME NEW n \in Nat, n \in Good PROVE n + 1 \in Good
  <2>1. SUFFICES ASSUME n + 1 <= Len(rest) PROVE SplitAfter(s, first, rest, S, n + 1)
    OBVIOUS
  <2>2. ChosenOf(s, S)[n + 1] = first \o ChosenOf(rest, S)[n]
    <3>1. n <= Len(rest)
      BY <1>1, <2>1
    <3>2. QED
      BY <1>3, <3>1 DEF SplitAfter
  <2>3. PICK x \in X : x = rest[n + 1] /\ x = s[(n + 1) + 1]
    <3>1. n + 1 \in 1..Len(rest)
      BY <1>1, <2>1
    <3>2. QED
      BY <3>1
  <2>4. ChosenOf(s, S)[(n + 1) + 1] = OneMore(ChosenOf(s, S)[n + 1], x, S)
    <3>1. (n + 1) + 1 \in 1..Len(s) /\ ((n + 1) + 1) - 1 = n + 1
      BY <1>1, <2>1
    <3>2. ChosenOf(s, S)[(n + 1) + 1] = OneMore(ChosenOf(s, S)[((n + 1) + 1) - 1], s[(n + 1) + 1], S)
      BY <1>1, <3>1, ChosenNext
    <3>3. QED
      BY <2>3, <3>1, <3>2
  <2>5. ChosenOf(rest, S)[n + 1] = OneMore(ChosenOf(rest, S)[n], x, S)
    <3>1. n + 1 \in 1..Len(rest) /\ (n + 1) - 1 = n
      BY <1>1, <2>1
    <3>2. ChosenOf(rest, S)[n + 1] = OneMore(ChosenOf(rest, S)[(n + 1) - 1], rest[n + 1], S)
      BY <1>1, <3>1, ChosenNext
    <3>3. QED
      BY <2>3, <3>1, <3>2
  <2>6. PICK before \in Seq(X) : before = ChosenOf(rest, S)[n]
    <3>1. n \in 0..Len(rest)
      BY <1>1, <2>1
    <3>2. QED
      BY <3>1, ChosenType
  <2>7. BehindIt(first, before, x, S)
    BY OneMoreBehind
  <2>8. QED
    BY <2>2, <2>4, <2>5, <2>6, <2>7 DEF SplitAfter, BehindIt
<1>4. Nat \subseteq Good
  <2> HIDE DEF Good
  <2>1. QED
    BY <1>2, <1>3, SetInduction
<1>5. ChosenOf(s, S)[Len(rest) + 1] = first \o ChosenOf(rest, S)[Len(rest)]
  <2>1. SplitAfter(s, first, rest, S, Len(rest))
    BY <1>1, <1>4
  <2>2. QED
    BY <2>1 DEF SplitAfter
<1>6. Chosen(s, S) = ChosenOf(s, S)[Len(s)] /\ Chosen(rest, S) = ChosenOf(rest, S)[Len(rest)]
  BY <1>1, ChosenIs
<1>7. QED
  BY <1>5, <1>6 DEF ThenRest

\* Of a list that is not empty, the head and the tail.
LEMMA ChosenHead ==
  ASSUME NEW X, NEW s \in Seq(X), s # <<>>, NEW S
  PROVE  /\ Head(s) \in X /\ Tail(s) \in Seq(X)
         /\ Head(s) \notin S => Chosen(s, S) = Chosen(Tail(s), S)
         /\ Head(s) \in S => ThenRest(s, <<Head(s)>>, Tail(s), S)
<1>1. PICK rest \in Seq(X) :
        /\ rest = Tail(s) /\ Len(rest) = Len(s) - 1
        /\ \A n \in 1..Len(rest) : rest[n] = s[n + 1]
  BY HeadTailProperties
<1>2. PICK x \in X : x = Head(s) /\ x = s[1]
  OBVIOUS
<1>3. Len(s) = Len(rest) + 1 /\ \A n \in 1..Len(rest) : rest[n] = s[n + 1]
  BY <1>1
<1>4. CASE x \notin S
  <2>1. <<>> = OneMore(<<>>, s[1], S) /\ <<>> \in Seq(X)
    BY <1>2, <1>4 DEF OneMore
  <2>2. ThenRest(s, <<>>, rest, S)
    BY <1>3, <2>1, ChosenRest
  <2>3. Chosen(rest, S) \in Seq(X)
    BY ChosenType
  <2>4. <<>> \o Chosen(rest, S) = Chosen(rest, S)
    BY <2>3, ConcatEmptySeq
  <2>5. QED
    BY <1>1, <1>2, <1>4, <2>2, <2>4 DEF ThenRest
<1>5. CASE x \in S
  <2>1. <<x>> = OneMore(<<>>, s[1], S) /\ <<x>> \in Seq(X)
    BY <1>2, <1>5 DEF OneMore
  <2>2. ThenRest(s, <<x>>, rest, S)
    BY <1>3, <2>1, ChosenRest
  <2>3. QED
    BY <1>1, <1>2, <1>5, <2>2
<1>6. QED
  BY <1>1, <1>2, <1>4, <1>5
-----------------------------------------------------------------------------
(* Where the chosen elements come from.                                     *)

\* The places, up to n, of the chosen elements: in order, and all of them.
Positions(h, chosen, s, S, n) ==
  /\ h \in [1..Len(chosen) -> 1..n]
  /\ \A j \in 1..Len(chosen) : chosen[j] = s[h[j]] /\ s[h[j]] \in S
  /\ \A i, j \in 1..Len(chosen) : i < j => h[i] < h[j]
  /\ \A k \in 1..n : s[k] \in S => \E j \in 1..Len(chosen) : h[j] = k

LEMMA OnePlaceMore ==
  ASSUME NEW X, NEW s \in Seq(X), NEW S, NEW n \in Nat, n + 1 <= Len(s),
         NEW chosen \in Seq(X), NEW h, Positions(h, chosen, s, S, n)
  PROVE  \E g : Positions(g, OneMore(chosen, s[n + 1], S), s, S, n + 1)
<1>0. Len(s) \in Nat /\ Len(chosen) \in Nat /\ s[n + 1] \in X
  OBVIOUS
<1>1. CASE s[n + 1] \notin S
  <2>1. OneMore(chosen, s[n + 1], S) = chosen
    BY <1>1 DEF OneMore
  <2>2. h \in [1..Len(chosen) -> 1..(n + 1)]
    BY DEF Positions
  <2>3. \A k \in 1..(n + 1) : s[k] \in S => k \in 1..n
    BY <1>1
  <2>4. Positions(h, chosen, s, S, n + 1)
    BY <2>2, <2>3 DEF Positions
  <2>5. QED
    BY <2>1, <2>4
<1>2. CASE s[n + 1] \in S
  <2>1. PICK m \in Nat : m = Len(chosen)
    BY <1>0
  <2>2. PICK more \in Seq(X) :
          /\ more = OneMore(chosen, s[n + 1], S) /\ Len(more) = m + 1
          /\ more[m + 1] = s[n + 1] /\ \A j \in 1..m : more[j] = chosen[j]
    <3>1. PICK x \in X : x = s[n + 1]
      BY <1>0
    <3>2. /\ Append(chosen, x) \in Seq(X) /\ Len(Append(chosen, x)) = m + 1
          /\ Append(chosen, x)[m + 1] = x
          /\ \A j \in 1..m : Append(chosen, x)[j] = chosen[j]
      BY <2>1, AppendProperties
    <3>3. OneMore(chosen, s[n + 1], S) = Append(chosen, x)
      BY <1>2, <3>1 DEF OneMore
    <3>4. QED
      BY <3>1, <3>2, <3>3
  <2> DEFINE g == [j \in 1..(m + 1) |-> IF j = m + 1 THEN n + 1 ELSE h[j]]
  <2>3. /\ g[m + 1] = n + 1
        /\ \A j \in 1..m : g[j] = h[j] /\ h[j] \in 1..n
    BY <2>1 DEF Positions
  <2>4. \A j \in 1..(m + 1) : j = m + 1 \/ j \in 1..m
    OBVIOUS
  <2>5. g \in [1..(m + 1) -> 1..(n + 1)]
    <3>1. ASSUME NEW j \in 1..(m + 1) PROVE (IF j = m + 1 THEN n + 1 ELSE h[j]) \in 1..(n + 1)
      <4>1. CASE j = m + 1
        BY <4>1
      <4>2. CASE j # m + 1
        <5>1. j \in 1..m
          BY <4>2
        <5>2. h[j] \in 1..n
          BY <2>3, <5>1
        <5>3. QED
          BY <4>2, <5>2
      <4>3. QED
        BY <4>1, <4>2
    <3>2. QED
      BY <3>1
  <2> HIDE DEF g
  <2>6. \A j \in 1..(m + 1) : more[j] = s[g[j]] /\ s[g[j]] \in S
    BY <1>2, <2>1, <2>2, <2>3, <2>4 DEF Positions
  <2>7. \A i, j \in 1..(m + 1) : i < j => g[i] < g[j]
    <3>1. ASSUME NEW i \in 1..(m + 1), NEW j \in 1..(m + 1), i < j PROVE g[i] < g[j]
      <4>1. i \in 1..m
        BY <3>1
      <4>2. CASE j = m + 1
        BY <2>3, <4>1, <4>2
      <4>3. CASE j \in 1..m
        BY <2>1, <2>3, <3>1, <4>1, <4>3 DEF Positions
      <4>4. QED
        BY <2>4, <4>2, <4>3
    <3>2. QED
      BY <3>1
  <2>8. \A k \in 1..(n + 1) : s[k] \in S => \E j \in 1..(m + 1) : g[j] = k
    <3>1. ASSUME NEW k \in 1..(n + 1), s[k] \in S PROVE \E j \in 1..(m + 1) : g[j] = k
      <4>1. CASE k = n + 1
        <5>1. m + 1 \in 1..(m + 1)
          OBVIOUS
        <5>2. QED
          BY <2>3, <4>1, <5>1
      <4>2. CASE k \in 1..n
        <5>1. PICK j \in 1..m : h[j] = k
          BY <2>1, <3>1, <4>2 DEF Positions
        <5>2. j \in 1..(m + 1) /\ g[j] = k
          BY <2>3, <5>1
        <5>3. QED
          BY <5>2
      <4>3. QED
        BY <4>1, <4>2
    <3>2. QED
      BY <3>1
  <2>9. Positions(g, more, s, S, n + 1)
    BY <2>2, <2>5, <2>6, <2>7, <2>8 DEF Positions
  <2>10. QED
    BY <2>2, <2>9
<1>3. QED
  BY <1>1, <1>2

LEMMA ChosenPlaces ==
  ASSUME NEW X, NEW s \in Seq(X), NEW S
  PROVE  \E h : Positions(h, Chosen(s, S), s, S, Len(s))
<1> DEFINE Good == {n \in Nat : n <= Len(s) => \E h : Positions(h, ChosenOf(s, S)[n], s, S, n)}
<1>0. Len(s) \in Nat
  OBVIOUS
<1>1. 0 \in Good
  <2>1. ChosenOf(s, S)[0] = <<>>
    BY <1>0, ChosenStart
  <2>2. Positions([j \in 1..0 |-> 0], <<>>, s, S, 0)
    BY DEF Positions
  <2>3. QED
    BY <2>1, <2>2
<1>2. ASSUME NEW n \in Nat, n \in Good PROVE n + 1 \in Good
  <2>1. SUFFICES ASSUME n + 1 <= Len(s) PROVE \E h : Positions(h, ChosenOf(s, S)[n + 1], s, S, n + 1)
    OBVIOUS
  <2>2. PICK h : Positions(h, ChosenOf(s, S)[n], s, S, n)
    BY <1>0, <1>2, <2>1
  <2>3. PICK chosen \in Seq(X) : chosen = ChosenOf(s, S)[n]
    <3>1. n \in 0..Len(s)
      BY <1>0, <2>1
    <3>2. ChosenOf(s, S)[n] \in Seq(X)
      BY <3>1, ChosenType
    <3>3. QED
      BY <3>2
  <2>4. n + 1 \in 1..Len(s) /\ (n + 1) - 1 = n
    BY <1>0, <2>1
  <2>5. ChosenOf(s, S)[n + 1] = OneMore(ChosenOf(s, S)[(n + 1) - 1], s[n + 1], S)
    BY <1>0, <2>4, ChosenNext
  <2>6. ChosenOf(s, S)[n + 1] = OneMore(chosen, s[n + 1], S)
    BY <2>3, <2>4, <2>5
  <2>7. Positions(h, chosen, s, S, n)
    BY <2>2, <2>3
  <2>8. \E g : Positions(g, OneMore(chosen, s[n + 1], S), s, S, n + 1)
    BY <2>1, <2>7, OnePlaceMore
  <2>9. QED
    BY <2>6, <2>8
<1>3. Nat \subseteq Good
  <2> HIDE DEF Good
  <2>1. QED
    BY <1>1, <1>2, SetInduction
<1>4. \E h : Positions(h, ChosenOf(s, S)[Len(s)], s, S, Len(s))
  BY <1>0, <1>3
<1>5. Chosen(s, S) = ChosenOf(s, S)[Len(s)]
  BY <1>0, ChosenIs
<1>6. QED
  BY <1>4, <1>5

\* What is in a list after what is chosen of it: the elements in the set.
LEMMA ChosenElements ==
  ASSUME NEW X, NEW s \in Seq(X), NEW S
  PROVE  /\ \A j \in 1..Len(Chosen(s, S)) :
              \E k \in 1..Len(s) : s[k] \in S /\ Chosen(s, S)[j] = s[k]
         /\ \A k \in 1..Len(s) :
              s[k] \in S => \E j \in 1..Len(Chosen(s, S)) : Chosen(s, S)[j] = s[k]
<1>1. \E h : Positions(h, Chosen(s, S), s, S, Len(s))
  BY ChosenPlaces
<1>2. PICK h : Positions(h, Chosen(s, S), s, S, Len(s))
  BY <1>1
<1>3. QED
  BY <1>2 DEF Positions
-----------------------------------------------------------------------------
(* The end of a list.                                                       *)

EndsIn(t, s, X) == \E before \in Seq(X) : t = before \o s

\* It gets one more with the list, ...
LEMMA EndsInMore ==
  ASSUME NEW X, NEW s \in Seq(X), NEW t, NEW x \in X, EndsIn(t, s, X)
  PROVE  EndsIn(Append(t, x), Append(s, x), X)
<1>1. PICK before \in Seq(X) : t = before \o s
  BY DEF EndsIn
<1>2. BehindIt(before, s, x, {x})
  BY OneMoreBehind
<1>3. Append(before \o s, x) = before \o Append(s, x)
  BY <1>2 DEF BehindIt, OneMore
<1>4. Append(t, x) = before \o Append(s, x)
  BY <1>1, <1>3
<1>5. QED
  BY <1>4 DEF EndsIn

\* ... may lose its first element, ...
LEMMA EndsInLess ==
  ASSUME NEW X, NEW s \in Seq(X), NEW t, NEW x \in X, EndsIn(t, <<x>> \o s, X)
  PROVE  EndsIn(t, s, X)
<1>1. PICK before \in Seq(X) : t = before \o (<<x>> \o s)
  BY DEF EndsIn
<1>2. <<x>> \in Seq(X)
  BY AppendProperties
<1>3. (before \o <<x>>) \o s = before \o (<<x>> \o s)
  BY <1>2, ConcatAssociative
<1>4. before \o <<x>> \in Seq(X)
  BY <1>2, ConcatProperties
<1>5. t = (before \o <<x>>) \o s
  BY <1>1, <1>3
<1>6. QED
  BY <1>4, <1>5 DEF EndsIn

\* ... and is what SubSeq takes from the list.
EndOf(t, s) == s = SubSeq(t, Len(t) - Len(s) + 1, Len(t))

LEMMA EndsInIs ==
  ASSUME NEW X, NEW s \in Seq(X), NEW t \in Seq(X), EndsIn(t, s, X)
  PROVE  EndOf(t, s)
<1>1. PICK before \in Seq(X) : t = before \o s
  BY DEF EndsIn
<1>2. PICK n \in Nat, m \in Nat : n = Len(before) /\ m = Len(s)
  OBVIOUS
<1>3. /\ Len(t) = n + m
      /\ \A i \in 1..(n + m) : t[i] = IF i <= n THEN before[i] ELSE s[i - n]
  BY <1>1, <1>2, ConcatProperties
<1>4. PICK e \in Seq(X) : /\ e = SubSeq(t, n + 1, n + m) /\ Len(e) = m
                          /\ \A i \in 1..m : e[i] = t[n + 1 + i - 1]
  <2>1. \A i \in (n + 1)..(n + m) : t[i] \in X
    BY <1>3, ElementOfSeq
  <2>2. n + 1 \in Int /\ n + m \in Int
    OBVIOUS
  <2>3. /\ SubSeq(t, n + 1, n + m) \in Seq(X)
        /\ Len(SubSeq(t, n + 1, n + m)) = IF n + 1 <= n + m THEN n + m - (n + 1) + 1 ELSE 0
        /\ \A i \in 1..(n + m - (n + 1) + 1) : SubSeq(t, n + 1, n + m)[i] = t[n + 1 + i - 1]
    BY <2>1, <2>2, SubSeqProperties
  <2>4. n + m - (n + 1) + 1 = m /\ (m = 0 <=> ~(n + 1 <= n + m))
    OBVIOUS
  <2>5. QED
    BY <2>3, <2>4
<1>5. \A i \in 1..m : e[i] = s[i]
  <2>1. ASSUME NEW i \in 1..m PROVE e[i] = s[i]
    <3>1. n + 1 + i - 1 = n + i /\ n + i \in 1..(n + m) /\ ~(n + i <= n) /\ (n + i) - n = i
      OBVIOUS
    <3>2. e[i] = t[n + i]
      BY <1>4, <3>1
    <3>3. t[n + i] = s[i]
      BY <1>3, <3>1
    <3>4. QED
      BY <3>2, <3>3
  <2>2. QED
    BY <2>1
<1>6. s = e
  BY <1>2, <1>4, <1>5, SeqEqual
<1>7. Len(t) - Len(s) + 1 = n + 1
  BY <1>2, <1>3
<1>8. QED
  BY <1>3, <1>4, <1>6, <1>7 DEF EndOf
=============================================================================
