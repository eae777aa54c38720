---------------------------- MODULE SelectionProofs -----------------------------
(***************************************************************************)
(* What Select does to the empty sequence, to one that grows at its end, to *)
(* one that shrinks at its front and to a concatenation.  These are facts   *)
(* by induction; the induction is over the least number that is not as it   *)
(* should be.                                                               *)
(***************************************************************************)
EXTENDS Selection, Integers, SequenceTheorems, WellFoundedInduction, TLAPS

LEMMA LessIsWellFounded ==
  \E R : IsWellFoundedOn(R, Nat) /\ \A i, j \in Nat : i < j => <<i, j>> \in R
<1> DEFINE R == OpToRel(<, Nat)
<1>1. IsWellFoundedOn(R, Nat)
  BY NatLessThanWellFounded
<1>2. \A i, j \in Nat : i < j => <<i, j>> \in R
  BY DEF OpToRel
<1> HIDE DEF R
<1> QED BY <1>1, <1>2, Zenon

(* Every set of natural numbers has a least member, if it has any. *)
LEMMA Least ==
  ASSUME NEW T, T \subseteq Nat, T # {}
  PROVE  \E m \in T : \A k \in T : m <= k
<1>1. PICK R : IsWellFoundedOn(R, Nat)
                 /\ \A i, j \in Nat : i < j => <<i, j>> \in R
  BY LessIsWellFounded
<1>2. IsWellFoundedOn(R, Nat)
  BY <1>1
<1>3. \E m \in T : \A k \in T : ~ (<<k, m>> \in R)
  BY <1>2, WFMin
<1>4. PICK m \in T : \A k \in T : ~ (<<k, m>> \in R)
  BY <1>3
<1>5. ASSUME NEW k \in T PROVE m <= k
  <2>1. m \in Nat /\ k \in Nat /\ ~ (<<k, m>> \in R)
    BY <1>4
  <2>2. ~ (k < m)
    BY <1>1, <2>1
  <2> QED BY <2>1, <2>2
<1> QED BY <1>5

(* A set of numbers that has no least member but zero's successors' is all:  *)
(* induction, for a set in place of a predicate.                            *)
LEMMA Induction ==
  ASSUME NEW T, NEW n \in Nat,
         0 \in T, \A i \in 0 .. n - 1 : i \in T => i + 1 \in T
  PROVE  \A i \in 0 .. n : i \in T
<1> DEFINE Rest == {i \in 0 .. n : i \notin T}
<1> SUFFICES ASSUME Rest # {} PROVE FALSE
  OBVIOUS
<1>1. PICK m \in Rest : \A k \in Rest : m <= k
  <2>1. Rest \subseteq Nat
    OBVIOUS
  <2> HIDE DEF Rest
  <2> QED BY <2>1, Least
<1>2. m \in 1 .. n
  BY <1>1
<1>3. m - 1 \in 0 .. n - 1 /\ m - 1 \in T
  BY <1>1, <1>2
<1>4. m \in T
  BY <1>2, <1>3
<1> QED BY <1>1, <1>4

-----------------------------------------------------------------------------
(* Selected is what its recursion says. *)
Step(a, x, S) == IF x \in S THEN Append(a, x) ELSE a

Recursion(f, s, S, n) ==
  /\ f = [i \in 0 .. n |-> f[i]]
  /\ f[0] = << >>
  /\ \A i \in 0 .. n - 1 : f[i + 1] = Step(f[i], s[i + 1], S)

LEMMA RecursionHolds ==
  ASSUME NEW s, NEW S, NEW n \in Nat
  PROVE  \E f : Recursion(f, s, S, n)
<1> DEFINE T == {m \in Nat : \E f : Recursion(f, s, S, m)}
<1>1. 0 \in T
  <2> DEFINE f == [i \in 0 .. 0 |-> << >>]
  <2>1. Recursion(f, s, S, 0)
    BY DEF Recursion
  <2> QED BY <2>1
<1>2. ASSUME NEW m \in 0 .. n - 1, m \in T PROVE m + 1 \in T
  <2>1. PICK g : Recursion(g, s, S, m)
    BY <1>2
  <2> DEFINE f == [i \in 0 .. m + 1 |->
                     IF i = m + 1 THEN Step(g[m], s[m + 1], S) ELSE g[i]]
  <2>2. f = [i \in 0 .. m + 1 |-> f[i]]
    OBVIOUS
  <2>3. f[0] = << >>
    BY <2>1 DEF Recursion
  <2>4. ASSUME NEW i \in 0 .. m PROVE f[i + 1] = Step(f[i], s[i + 1], S)
    <3>1. CASE i = m
      BY <3>1
    <3>2. CASE i # m
      <4>1. i \in 0 .. m - 1 /\ f[i] = g[i] /\ f[i + 1] = g[i + 1]
        BY <3>2
      <4> QED BY <2>1, <4>1 DEF Recursion
    <3> QED BY <3>1, <3>2
  <2>5. m + 1 \in Nat /\ (m + 1) - 1 = m
    OBVIOUS
  <2> HIDE DEF f
  <2>6. Recursion(f, s, S, m + 1)
    BY <2>2, <2>3, <2>4, <2>5 DEF Recursion
  <2> QED BY <2>5, <2>6
<1> HIDE DEF T
<1>3. n \in T
  <2>1. \A i \in 0 .. n : i \in T
    BY <1>1, <1>2, Induction
  <2> QED BY <2>1
<1> QED BY <1>3 DEF T

LEMMA SelectedRecursion ==
  ASSUME NEW S, NEW s, Len(s) \in Nat
  PROVE  Recursion(Selected(s, S), s, S, Len(s))
<1> DEFINE Is(f) ==
      f = [i \in 0 .. Len(s) |->
             IF i = 0 THEN << >>
             ELSE IF s[i] \in S THEN Append(f[i - 1], s[i])
             ELSE f[i - 1]]
<1>1. PICK f : Recursion(f, s, S, Len(s))
  BY RecursionHolds
<1>2. Is(f)
  <2>1. ASSUME NEW i \in 0 .. Len(s)
        PROVE  f[i] = IF i = 0 THEN << >>
                      ELSE IF s[i] \in S THEN Append(f[i - 1], s[i])
                      ELSE f[i - 1]
    <3>1. CASE i = 0
      BY <1>1, <3>1 DEF Recursion
    <3>2. CASE i # 0
      <4>1. i - 1 \in 0 .. Len(s) - 1 /\ (i - 1) + 1 = i
        BY <3>2
      <4> QED BY <1>1, <3>2, <4>1 DEF Recursion, Step
    <3> QED BY <3>1, <3>2
  <2> QED BY <1>1, <2>1 DEF Recursion
<1>3. Selected(s, S) = CHOOSE g : Is(g)
  BY DEF Selected
<1> DEFINE g == Selected(s, S)
<1>4. Is(g)
  BY <1>2, <1>3
<1> HIDE DEF g
<1>5. g = [i \in 0 .. Len(s) |-> g[i]]
  BY <1>4
<1>6. g[0] = << >>
  BY <1>4
<1>7. ASSUME NEW i \in 0 .. Len(s) - 1
      PROVE  g[i + 1] = Step(g[i], s[i + 1], S)
  <2>1. i + 1 \in 0 .. Len(s) /\ i + 1 # 0 /\ (i + 1) - 1 = i
    OBVIOUS
  <2> QED BY <1>4, <2>1 DEF Step
<1>8. Recursion(g, s, S, Len(s))
  BY <1>5, <1>6, <1>7 DEF Recursion
<1> QED BY <1>8 DEF g

(* Two functions of the same recursion agree as far as the sequences do. *)
Agree(s, t, m) == \A i \in 1 .. m : s[i] = t[i]

LEMMA SameRecursion ==
  ASSUME NEW s, NEW t, NEW S, NEW f, NEW g, NEW m \in Nat, NEW n \in Nat,
         Recursion(f, s, S, m), Recursion(g, t, S, n), m <= n,
         Agree(s, t, m)
  PROVE  f[m] = g[m]
<1> DEFINE T == {i \in 0 .. m : f[i] = g[i]}
<1>1. 0 \in T
  BY DEF Recursion
<1>2. ASSUME NEW i \in 0 .. m - 1, i \in T PROVE i + 1 \in T
  <2>1. i \in 0 .. n - 1 /\ i + 1 \in 1 .. m
    OBVIOUS
  <2>2. f[i + 1] = Step(f[i], s[i + 1], S) /\ g[i + 1] = Step(g[i], t[i + 1], S)
    BY <2>1 DEF Recursion
  <2> QED BY <1>2, <2>1, <2>2 DEF Agree
<1> HIDE DEF T
<1>3. \A i \in 0 .. m : i \in T
  BY <1>1, <1>2, Induction
<1>4. m \in T
  BY <1>3
<1> QED BY <1>4 DEF T

(* What is selected of the beginnings of a sequence is a sequence. *)
LEMMA SelectedType ==
  ASSUME NEW A, NEW s \in Seq(A), NEW S
  PROVE  \A i \in 0 .. Len(s) : Selected(s, S)[i] \in Seq(A \cap S)
<1> DEFINE f == Selected(s, S)
<1> DEFINE T == {i \in 0 .. Len(s) : f[i] \in Seq(A \cap S)}
<1>1. Recursion(f, s, S, Len(s)) /\ Len(s) \in Nat
  BY SelectedRecursion
<1> HIDE DEF f
<1>2. 0 \in T
  BY <1>1, EmptySeq DEF Recursion
<1>3. ASSUME NEW i \in 0 .. Len(s) - 1, i \in T PROVE i + 1 \in T
  <2>1. s[i + 1] \in A /\ i + 1 \in 0 .. Len(s)
    BY <1>1
  <2>2. f[i + 1] = Step(f[i], s[i + 1], S)
    BY <1>1 DEF Recursion
  <2>3. f[i] \in Seq(A \cap S)
    BY <1>3
  <2>4. CASE s[i + 1] \in S
    <3>1. Append(f[i], s[i + 1]) \in Seq(A \cap S)
      BY <2>1, <2>3, <2>4, AppendProperties
    <3> QED BY <2>1, <2>2, <2>4, <3>1 DEF Step
  <2>5. CASE s[i + 1] \notin S
    BY <2>1, <2>2, <2>3, <2>5 DEF Step
  <2> QED BY <2>4, <2>5
<1> HIDE DEF T
<1>4. \A i \in 0 .. Len(s) : i \in T
  BY <1>1, <1>2, <1>3, Induction
<1> QED BY <1>4 DEF T, f

-----------------------------------------------------------------------------
(* What is selected are elements of the sequence that are in the set. *)
LEMMA SelectType ==
  ASSUME NEW A, NEW s \in Seq(A), NEW S
  PROVE  Select(s, S) \in Seq(A \cap S)
<1>1. Len(s) \in 0 .. Len(s)
  OBVIOUS
<1> QED BY <1>1, SelectedType DEF Select

LEMMA SelectOfEmpty ==
  ASSUME NEW S
  PROVE  Select(<< >>, S) = << >>
<1>1. Len(<< >>) = 0
  OBVIOUS
<1>2. Recursion(Selected(<< >>, S), << >>, S, 0)
  BY <1>1, SelectedRecursion
<1> QED BY <1>1, <1>2 DEF Select, Recursion

(* An element appended is selected last, if it is in the set. *)
LEMMA SelectOfAppend ==
  ASSUME NEW A, NEW s \in Seq(A), NEW x \in A, NEW S
  PROVE  Select(Append(s, x), S)
           = IF x \in S THEN Append(Select(s, S), x) ELSE Select(s, S)
<1> DEFINE t == Append(s, x)
           n == Len(s)
<1>1. /\ t \in Seq(A) /\ n \in Nat /\ Len(t) = n + 1
      /\ \A i \in 1 .. n : t[i] = s[i]
      /\ t[n + 1] = x
  BY AppendProperties
<1> HIDE DEF t, n
<1>2. Recursion(Selected(t, S), t, S, n + 1)
  BY <1>1, SelectedRecursion
<1>3. Recursion(Selected(s, S), s, S, n)
  BY <1>1, SelectedRecursion DEF n
<1>4. Selected(s, S)[n] = Selected(t, S)[n]
  <2> DEFINE k == n + 1
  <2>1. k \in Nat /\ n \in Nat /\ n <= k
    BY <1>1
  <2>2. Agree(s, t, n)
    BY <1>1 DEF Agree
  <2>3. Recursion(Selected(t, S), t, S, k)
    BY <1>2
  <2> HIDE DEF k
  <2> QED BY <1>3, <2>1, <2>2, <2>3, SameRecursion
<1>5. Selected(t, S)[n + 1] = Step(Selected(t, S)[n], t[n + 1], S)
  <2>1. n \in 0 .. (n + 1) - 1
    BY <1>1
  <2> QED BY <1>2, <2>1 DEF Recursion
<1>6. Select(t, S) = Step(Select(s, S), x, S)
  BY <1>1, <1>4, <1>5 DEF Select, n
<1> QED BY <1>6 DEF Step, t

(* The first element is selected first, if it is in the set, and then what   *)
(* is selected of the rest.                                                  *)
LEMMA SelectOfTail ==
  ASSUME NEW A, NEW s \in Seq(A), s # << >>, NEW S
  PROVE  Select(s, S) = (IF Head(s) \in S THEN <<Head(s)>> ELSE << >>)
                          \o Select(Tail(s), S)
<1> DEFINE t == Tail(s)
           n == Len(s) - 1
           f == Selected(s, S)
           g == Selected(t, S)
           h == IF Head(s) \in S THEN <<Head(s)>> ELSE << >>
           Cat(a, b) == a \o b
           Add(a, x) == Append(a, x)
           T == {i \in 0 .. n : f[i + 1] = Cat(h, g[i])}
<1>1. /\ t \in Seq(A) /\ n \in Nat /\ Len(t) = n /\ Len(s) = n + 1
      /\ \A i \in 1 .. n : t[i] = s[i + 1]
      /\ s[1] = Head(s) /\ Head(s) \in A
  BY HeadTailProperties
<1>2. h \in Seq(A)
  BY <1>1
<1>3. \A i \in 0 .. n : g[i] \in Seq(A)
  <2>1. \A i \in 0 .. n : g[i] \in Seq(A \cap S)
    BY <1>1, SelectedType
  <2>2. ASSUME NEW q \in Seq(A \cap S) PROVE q \in Seq(A)
    BY <2>2, SeqMonotonic
  <2> QED BY <2>1, <2>2
<1>4. Recursion(f, s, S, n + 1) /\ Recursion(g, t, S, n)
  <2>1. Len(s) = n + 1 /\ Len(t) = n /\ n + 1 \in Nat /\ n \in Nat
    BY <1>1
  <2> HIDE DEF t, n
  <2>2. Recursion(f, s, S, Len(s))
    BY <2>1, SelectedRecursion
  <2>3. Recursion(g, t, S, Len(t))
    BY <2>1, SelectedRecursion
  <2> HIDE DEF f, g
  <2> QED BY <2>1, <2>2, <2>3
<1> HIDE DEF t, n, f, g
<1>5. 0 \in T
  <2>1. f[1] = Step(<< >>, s[1], S) /\ g[0] = << >>
    <3>1. 0 \in 0 .. (n + 1) - 1 /\ 0 + 1 = 1
      BY <1>1
    <3>2. f[0 + 1] = Step(f[0], s[0 + 1], S)
      BY <1>4, <3>1 DEF Recursion
    <3>3. f[0] = << >> /\ g[0] = << >>
      BY <1>4 DEF Recursion
    <3> QED BY <3>1, <3>2, <3>3
  <2>2. f[1] = h
    BY <1>1, <2>1 DEF Step
  <2>3. Cat(h, << >>) = h
    BY <1>2, ConcatEmptySeq
  <2>4. 0 \in 0 .. n /\ 0 + 1 = 1
    BY <1>1
  <2> HIDE DEF h, Cat
  <2> QED BY <2>1, <2>2, <2>3, <2>4
<1> HIDE DEF h
<1>6. \A q \in Seq(A), x \in A : Add(Cat(h, q), x) = Cat(h, Add(q, x))
  <2> TAKE q \in Seq(A), x \in A
  <2>1. h \o q \in Seq(A) /\ <<x>> \in Seq(A)
    BY <1>2, ConcatProperties
  <2>2. Append(h \o q, x) = (h \o q) \o <<x>>
    BY <2>1, AppendIsConcat
  <2>3. Append(q, x) = q \o <<x>>
    BY AppendIsConcat
  <2>4. (h \o q) \o <<x>> = h \o (q \o <<x>>)
    BY <1>2, <2>1, ConcatAssociative
  <2> QED BY <2>2, <2>3, <2>4
<1> HIDE DEF Cat, Add
<1>7. ASSUME NEW i \in 0 .. n - 1, i \in T PROVE i + 1 \in T
  <2>1. /\ i \in 0 .. n /\ i + 1 \in 0 .. n /\ i + 1 \in 1 .. n
        /\ i + 1 \in 0 .. (n + 1) - 1
    BY <1>1
  <2>2. f[(i + 1) + 1] = Step(f[i + 1], s[(i + 1) + 1], S)
    BY <1>4, <2>1 DEF Recursion
  <2>3. g[i + 1] = Step(g[i], t[i + 1], S)
    BY <1>4 DEF Recursion
  <2>4. t[i + 1] = s[(i + 1) + 1] /\ t[i + 1] \in A
    BY <1>1, <2>1
  <2>5. f[i + 1] = Cat(h, g[i])
    BY <1>7
  <2>6. CASE t[i + 1] \in S
    <3>1. f[(i + 1) + 1] = Add(f[i + 1], t[i + 1])
      BY <2>2, <2>4, <2>6 DEF Step, Add
    <3>2. g[i + 1] = Add(g[i], t[i + 1])
      BY <2>3, <2>6 DEF Step, Add
    <3>3. Add(Cat(h, g[i]), t[i + 1]) = Cat(h, Add(g[i], t[i + 1]))
      BY <1>3, <1>6, <2>1, <2>4
    <3>4. f[(i + 1) + 1] = Cat(h, g[i + 1])
      BY <2>5, <3>1, <3>2, <3>3
    <3> QED BY <2>1, <3>4
  <2>7. CASE t[i + 1] \notin S
    <3>1. f[(i + 1) + 1] = f[i + 1] /\ g[i + 1] = g[i]
      BY <2>2, <2>3, <2>4, <2>7 DEF Step
    <3>2. f[(i + 1) + 1] = Cat(h, g[i + 1])
      BY <2>5, <3>1
    <3> QED BY <2>1, <3>2
  <2> QED BY <2>6, <2>7
<1> HIDE DEF T
<1>8. \A i \in 0 .. n : i \in T
  BY <1>1, <1>5, <1>7, Induction
<1>9. f[n + 1] = Cat(h, g[n])
  BY <1>1, <1>8 DEF T
<1>10. Select(s, S) = f[n + 1] /\ Select(t, S) = g[n]
  BY <1>1 DEF Select, f, g
<1> QED BY <1>9, <1>10, Zenon DEF h, t, Cat

(* No more is selected than there is. *)
LEMMA SelectLength ==
  ASSUME NEW A, NEW s \in Seq(A), NEW S
  PROVE  Len(Select(s, S)) \in 0 .. Len(s)
<1> DEFINE f == Selected(s, S)
           T == {i \in 0 .. Len(s) : Len(f[i]) \in 0 .. i}
<1>1. Recursion(f, s, S, Len(s)) /\ Len(s) \in Nat
  BY SelectedRecursion
<1>2. \A i \in 0 .. Len(s) : f[i] \in Seq(A \cap S)
  BY SelectedType
<1> HIDE DEF f
<1>3. 0 \in T
  BY <1>1 DEF Recursion
<1>4. ASSUME NEW i \in 0 .. Len(s) - 1, i \in T PROVE i + 1 \in T
  <2>1. f[i + 1] = Step(f[i], s[i + 1], S) /\ i \in 0 .. Len(s)
    BY <1>1 DEF Recursion
  <2>2. f[i] \in Seq(A \cap S)
    BY <1>2, <2>1
  <2>3. f[i + 1] = f[i] \/ f[i + 1] = Append(f[i], s[i + 1])
    BY <2>1 DEF Step
  <2>4. Len(f[i + 1]) \in {Len(f[i]), Len(f[i]) + 1}
    BY <2>2, <2>3
  <2>5. Len(f[i]) \in 0 .. i
    BY <1>4
  <2> QED BY <1>1, <2>4, <2>5
<1> HIDE DEF T
<1>5. \A i \in 0 .. Len(s) : i \in T
  BY <1>1, <1>3, <1>4, Induction
<1> QED BY <1>1, <1>5 DEF T, f, Select

(* If an element of the sequence is in the set, something is selected. *)
LEMMA SelectSome ==
  ASSUME NEW A, NEW s \in Seq(A), NEW S, NEW k \in 1 .. Len(s), s[k] \in S
  PROVE  Select(s, S) # << >>
<1> DEFINE f == Selected(s, S)
           T == {i \in 0 .. Len(s) : i >= k => f[i] # << >>}
<1>1. Recursion(f, s, S, Len(s)) /\ Len(s) \in Nat
  BY SelectedRecursion
<1>2. \A i \in 0 .. Len(s) : f[i] \in Seq(A \cap S)
  BY SelectedType
<1> HIDE DEF f
<1>3. 0 \in T
  BY <1>1
<1>4. ASSUME NEW i \in 0 .. Len(s) - 1, i \in T PROVE i + 1 \in T
  <2>1. i \in 0 .. Len(s) /\ i + 1 \in 0 .. Len(s)
    BY <1>1
  <2>2. f[i + 1] = Step(f[i], s[i + 1], S)
    BY <1>1 DEF Recursion
  <2>3. f[i] \in Seq(A \cap S)
    BY <1>2, <2>1
  <2>4. CASE i >= k
    <3>1. f[i] # << >>
      BY <1>4, <2>4
    <3>2. Append(f[i], s[i + 1]) # << >>
      BY <2>3
    <3> QED BY <2>1, <2>2, <3>1, <3>2 DEF Step
  <2>5. CASE i + 1 = k
    <3>1. f[i + 1] = Append(f[i], s[i + 1])
      BY <2>2, <2>5 DEF Step
    <3>2. Append(f[i], s[i + 1]) # << >>
      BY <2>3
    <3> QED BY <2>1, <3>1, <3>2
  <2>6. CASE i + 1 < k
    BY <2>1, <2>6
  <2> QED BY <2>1, <2>4, <2>5, <2>6
<1> HIDE DEF T
<1>5. \A i \in 0 .. Len(s) : i \in T
  BY <1>1, <1>3, <1>4, Induction
<1> QED BY <1>1, <1>5 DEF T, f, Select

LEMMA SelectTakes ==
  ASSUME NEW A, NEW s \in Seq(A), NEW x \in A, NEW S, x \in S
  PROVE  Select(Append(s, x), S) = Append(Select(s, S), x)
<1>1. \A y \in A : Select(Append(s, y), S)
        = IF y \in S THEN Append(Select(s, S), y) ELSE Select(s, S)
  BY SelectOfAppend, Zenon
<1> QED BY <1>1, Zenon

LEMMA SelectLeaves ==
  ASSUME NEW A, NEW s \in Seq(A), NEW x \in A, NEW S, x \notin S
  PROVE  Select(Append(s, x), S) = Select(s, S)
<1>1. \A y \in A : Select(Append(s, y), S)
        = IF y \in S THEN Append(Select(s, S), y) ELSE Select(s, S)
  BY SelectOfAppend, Zenon
<1> QED BY <1>1, Zenon

LEMMA ConcatsAssociate ==
  \A A : \A s \in Seq(A), t \in Seq(A), u \in Seq(A) :
    (s \o t) \o u = s \o (t \o u)
BY ConcatAssociative

LEMMA AppendToConcat ==
  \A A : \A s \in Seq(A), t \in Seq(A), x \in A :
    Append(s \o t, x) = s \o Append(t, x) /\ s \o t \in Seq(A)
<1> SUFFICES ASSUME NEW A, NEW s \in Seq(A), NEW t \in Seq(A), NEW x \in A
             PROVE  Append(s \o t, x) = s \o Append(t, x) /\ s \o t \in Seq(A)
  OBVIOUS
<1> DEFINE u == <<x>>
<1>1. u \in Seq(A)
  OBVIOUS
<1>2. s \o t \in Seq(A)
  BY ConcatProperties
<1>3. Append(s \o t, x) = (s \o t) \o u /\ Append(t, x) = t \o u
  BY <1>2, AppendIsConcat, Zenon
<1> HIDE DEF u
<1>4. (s \o t) \o u = s \o (t \o u)
  BY <1>1, ConcatsAssociate
<1> QED BY <1>2, <1>3, <1>4, Zenon

(* Of a concatenation is selected what is selected of each. *)
LEMMA SelectOfConcat ==
  ASSUME NEW A, NEW s \in Seq(A), NEW t \in Seq(A), NEW S
  PROVE  Select(s \o t, S) = Select(s, S) \o Select(t, S)
<1> DEFINE n == Len(t)
           P(i) == SubSeq(t, 1, i)
           T == {i \in 0 .. n :
                   Select(s \o P(i), S) = Select(s, S) \o Select(P(i), S)}
<1>1. n \in Nat
  BY LenProperties
<1>2. \A i \in 0 .. n : P(i) \in Seq(A)
  <2> SUFFICES ASSUME NEW i \in 0 .. n PROVE P(i) \in Seq(A)
    OBVIOUS
  <2>1. \A j \in 1 .. i : t[j] \in A
    BY <1>1, ElementOfSeq
  <2>2. 1 \in Int /\ i \in Int
    BY <1>1
  <2> QED BY <2>1, <2>2, SubSeqProperties
<1>3. 0 \in T
  <2>1. P(0) = << >>
    BY SubSeqEmpty
  <2>2. s \o << >> = s
    BY ConcatEmptySeq, Zenon
  <2>3. Select(s, S) \o << >> = Select(s, S)
    <3>1. Select(s, S) \in Seq(A \cap S)
      BY SelectType, Zenon
    <3> QED BY <3>1, ConcatEmptySeq, Zenon
  <2>4. Select(<< >>, S) = << >>
    BY SelectOfEmpty, Zenon
  <2>5. 0 \in 0 .. n
    BY <1>1
  <2>6. Select(s \o P(0), S) = Select(s, S) \o Select(P(0), S)
    BY <2>1, <2>2, <2>3, <2>4, Zenon
  <2> QED BY <2>5, <2>6, Zenon
<1>4. ASSUME NEW i \in 0 .. n - 1, i \in T PROVE i + 1 \in T
  <2> DEFINE p == P(i)
             q == P(i + 1)
             x == t[i + 1]
             a == Select(s, S)
             b == Select(p, S)
  <2>1. i \in 0 .. n /\ i + 1 \in 0 .. n /\ i + 1 \in 1 .. Len(t)
    BY <1>1
  <2>2. p \in Seq(A) /\ x \in A
    BY <1>2, <2>1, ElementOfSeq, Zenon
  <2>3. q = Append(p, x)
    <3>1. 1 \in 1 .. Len(t) /\ i + 1 \in 1 .. Len(t) /\ (i + 1) - 1 = i
      BY <1>1, <2>1
    <3>2. q = SubSeq(t, 1, (i + 1) - 1) \o <<x>>
      BY <3>1, SubSeqRecursiveSecond
    <3>3. Append(p, x) = p \o <<x>>
      BY <2>2, AppendIsConcat, Zenon
    <3> QED BY <3>1, <3>2, <3>3, Zenon
  <2>4. Select(s \o p, S) = a \o b
    BY <1>4, Zenon
  <2> HIDE DEF p, q, x
  <2>5. \A y \in Seq(A), z \in Seq(A) :
          Append(y \o z, x) = y \o Append(z, x) /\ y \o z \in Seq(A)
    BY <2>2, AppendToConcat
  <2>6. s \o q = Append(s \o p, x) /\ s \o p \in Seq(A)
    BY <2>2, <2>3, <2>5
  <2>7. a \in Seq(A) /\ b \in Seq(A)
    <3>1. a \in Seq(A \cap S) /\ b \in Seq(A \cap S)
      BY <2>2, SelectType, Zenon
    <3> HIDE DEF a, b
    <3> QED BY <3>1, SeqMonotonic
  <2>8. CASE x \in S
    <3>1. Select(s \o q, S) = Append(a \o b, x) /\ Select(q, S) = Append(b, x)
      <4>1. Select(Append(s \o p, x), S) = Append(Select(s \o p, S), x)
        BY <2>2, <2>6, <2>8, SelectTakes
      <4>2. Select(Append(p, x), S) = Append(Select(p, S), x)
        BY <2>2, <2>8, SelectTakes
      <4> QED BY <2>3, <2>4, <2>6, <4>1, <4>2, Zenon
    <3> HIDE DEF a, b
    <3>2. Append(a \o b, x) = a \o Append(b, x)
      BY <2>7, <2>5
    <3> QED BY <2>1, <3>1, <3>2, Zenon DEF a, q
  <2>9. CASE x \notin S
    <3>1. Select(s \o q, S) = a \o b /\ Select(q, S) = b
      <4>1. Select(Append(s \o p, x), S) = Select(s \o p, S)
        BY <2>2, <2>6, <2>9, SelectLeaves
      <4>2. Select(Append(p, x), S) = Select(p, S)
        BY <2>2, <2>9, SelectLeaves
      <4> QED BY <2>3, <2>4, <2>6, <4>1, <4>2, Zenon
    <3> QED BY <2>1, <3>1, Zenon DEF a, q
  <2> QED BY <2>8, <2>9
<1>5. n \in T
  <2> HIDE DEF T
  <2>1. \A i \in 0 .. n - 1 : i \in T => i + 1 \in T
    BY <1>4
  <2>2. \A i \in 0 .. n : i \in T
    BY <1>1, <1>3, <2>1, Induction
  <2> QED BY <1>1, <2>2
<1>6. P(n) = t
  BY SubSeqFull, Zenon
<1> QED BY <1>5, <1>6, Zenon

LEMMA SelectOfConcats ==
  \A A, S : \A x \in Seq(A), y \in Seq(A) :
    Select(x \o y, S) = Select(x, S) \o Select(y, S)
BY SelectOfConcat

(* What is not selected may stand anywhere. *)
LEMMA SelectAround ==
  ASSUME NEW A, NEW s \in Seq(A), NEW t \in Seq(A), NEW e \in A, NEW S
  PROVE  e \notin S => Select((s \o <<e>>) \o t, S) = Select(s \o t, S)
<1>1. \A x \in Seq(A), y \in Seq(A) :
        Select(x \o y, S) = Select(x, S) \o Select(y, S)
  BY SelectOfConcats, Zenon
<1>2. s \o <<e>> = Append(s, e) /\ s \o <<e>> \in Seq(A)
  BY AppendIsConcat, AppendProperties
<1>3. /\ Select((s \o <<e>>) \o t, S) = Select(s \o <<e>>, S) \o Select(t, S)
      /\ Select(s \o t, S) = Select(s, S) \o Select(t, S)
  BY <1>1, <1>2, Zenon
<1>4. e \notin S => Select(Append(s, e), S) = Select(s, S)
  BY SelectLeaves
<1> QED BY <1>2, <1>3, <1>4, Zenon
================================================================================
