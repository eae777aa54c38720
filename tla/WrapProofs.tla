------------------------------- MODULE WrapProofs -------------------------------
(***************************************************************************)
(* Theorems about Wrap, for every text, every width and every number of     *)
(* lines: what is wrapped fits, no pointer leaves its string, and nothing    *)
(* but spaces is lost.                                                      *)
(***************************************************************************)
EXTENDS Wrap, SelectionProofs, SequenceTheorems, TLAPS

-----------------------------------------------------------------------------
(* The operators on strings.  What is said of the characters holds for any   *)
(* set of characters: nothing but the newline comes in.                      *)
Puts(A, s, i, e, t, n) ==
  /\ t \in Seq(A) /\ Len(t) = n /\ t[i] = e
  /\ \A j \in 1 .. i - 1 : t[j] = s[j]

LEMMA Inserted ==
  ASSUME NEW A, NEW s \in Seq(A), NEW i \in 1 .. Len(s) + 1, NEW e \in A
  PROVE  Puts(A, s, i, e, InsertAt(s, i, e), Len(s) + 1)
<1> DEFINE front == SubSeq(s, 1, i - 1)
           back == SubSeq(s, i, Len(s))
           head == front \o <<e>>
<1>1. Len(s) \in Nat /\ i - 1 \in Int /\ i \in Int /\ Len(s) \in Int
  BY LenProperties
<1>2. /\ front \in Seq(A) /\ Len(front) = i - 1
      /\ \A j \in 1 .. i - 1 : front[j] = s[j]
  <2>1. \A j \in 1 .. i - 1 : s[j] \in A
    BY <1>1, ElementOfSeq
  <2>2. /\ front \in Seq(A)
        /\ Len(front) = IF 1 <= i - 1 THEN (i - 1) - 1 + 1 ELSE 0
        /\ \A j \in 1 .. (i - 1) - 1 + 1 : front[j] = s[1 + j - 1]
    BY <1>1, <2>1, SubSeqProperties
  <2> HIDE DEF front
  <2>3. \A j \in 1 .. i - 1 : j \in 1 .. (i - 1) - 1 + 1 /\ 1 + j - 1 = j
    BY <1>1
  <2> QED BY <1>1, <2>2, <2>3
<1>3. back \in Seq(A) /\ Len(back) = Len(s) + 1 - i
  <2>1. \A j \in i .. Len(s) : s[j] \in A
    BY <1>1, ElementOfSeq
  <2>2. /\ back \in Seq(A)
        /\ Len(back) = IF i <= Len(s) THEN Len(s) - i + 1 ELSE 0
    BY <1>1, <2>1, SubSeqProperties
  <2> HIDE DEF back
  <2> QED BY <1>1, <2>2
<1> HIDE DEF front, back
<1>4. <<e>> \in Seq(A) /\ Len(<<e>>) = 1 /\ <<e>>[1] = e
  OBVIOUS
<1>5. /\ head \in Seq(A) /\ Len(head) = i
      /\ head[i] = e
      /\ \A j \in 1 .. i - 1 : head[j] = s[j]
  <2>1. /\ head \in Seq(A) /\ Len(head) = Len(front) + Len(<<e>>)
        /\ \A j \in 1 .. Len(front) + Len(<<e>>) :
             head[j] = IF j <= Len(front) THEN front[j]
                       ELSE <<e>>[j - Len(front)]
    BY <1>2, <1>4, ConcatProperties, Zenon
  <2> HIDE DEF head
  <2>2. \A j \in 1 .. i :
          head[j] = IF j <= i - 1 THEN front[j] ELSE <<e>>[j - (i - 1)]
    BY <1>1, <1>2, <1>4, <2>1
  <2>3. head[i] = e
    BY <1>1, <1>4, <2>2
  <2> QED BY <1>1, <1>2, <1>4, <2>1, <2>2, <2>3
<1> HIDE DEF head
<1>6. InsertAt(s, i, e) = head \o back
  BY Zenon DEF InsertAt, head, front, back
<1> DEFINE t == head \o back
<1>7. /\ t \in Seq(A) /\ Len(t) = Len(head) + Len(back)
      /\ \A j \in 1 .. Len(head) + Len(back) :
           t[j] = IF j <= Len(head) THEN head[j] ELSE back[j - Len(head)]
  BY <1>3, <1>5, ConcatProperties, Zenon
<1> HIDE DEF t
<1>8. \A j \in 1 .. i : t[j] = head[j]
  BY <1>1, <1>3, <1>5, <1>7
<1>9. Len(t) = Len(s) + 1
  BY <1>1, <1>3, <1>5, <1>7
<1>10. t[i] = e /\ \A j \in 1 .. i - 1 : t[j] = s[j]
  BY <1>1, <1>5, <1>8
<1> QED BY <1>6, <1>7, <1>9, <1>10, Zenon DEF t, Puts

LEMMA Removed ==
  ASSUME NEW A, NEW s \in Seq(A), NEW i \in 1 .. Len(s)
  PROVE  /\ RemoveAt(s, i) \in Seq(A)
         /\ Len(RemoveAt(s, i)) = Len(s) - 1
         /\ \A j \in 1 .. i - 1 : RemoveAt(s, i)[j] = s[j]
<1> DEFINE front == SubSeq(s, 1, i - 1)
           back == SubSeq(s, i + 1, Len(s))
           t == front \o back
<1>1. /\ Len(s) \in Nat /\ i - 1 \in Int /\ i \in Int /\ Len(s) \in Int
      /\ i + 1 \in Int
  BY LenProperties
<1>2. /\ front \in Seq(A) /\ Len(front) = i - 1
      /\ \A j \in 1 .. i - 1 : front[j] = s[j]
  <2>1. \A j \in 1 .. i - 1 : s[j] \in A
    BY <1>1, ElementOfSeq
  <2>2. /\ front \in Seq(A)
        /\ Len(front) = IF 1 <= i - 1 THEN (i - 1) - 1 + 1 ELSE 0
        /\ \A j \in 1 .. (i - 1) - 1 + 1 : front[j] = s[1 + j - 1]
    BY <1>1, <2>1, SubSeqProperties
  <2> HIDE DEF front
  <2>3. \A j \in 1 .. i - 1 : j \in 1 .. (i - 1) - 1 + 1 /\ 1 + j - 1 = j
    BY <1>1
  <2> QED BY <1>1, <2>2, <2>3
<1>3. back \in Seq(A) /\ Len(back) = Len(s) - i
  <2>1. \A j \in i + 1 .. Len(s) : s[j] \in A
    BY <1>1, ElementOfSeq
  <2>2. /\ back \in Seq(A)
        /\ Len(back) = IF i + 1 <= Len(s) THEN Len(s) - (i + 1) + 1 ELSE 0
    BY <1>1, <2>1, SubSeqProperties
  <2> HIDE DEF back
  <2> QED BY <1>1, <2>2
<1>4. RemoveAt(s, i) = t
  BY Zenon DEF RemoveAt
<1> HIDE DEF front, back
<1>5. /\ t \in Seq(A) /\ Len(t) = Len(front) + Len(back)
      /\ \A j \in 1 .. Len(front) + Len(back) :
           t[j] = IF j <= Len(front) THEN front[j] ELSE back[j - Len(front)]
  BY <1>2, <1>3, ConcatProperties, Zenon
<1> HIDE DEF t
<1>6. Len(t) = Len(s) - 1 /\ \A j \in 1 .. i - 1 : t[j] = s[j]
  BY <1>1, <1>2, <1>3, <1>5
<1> QED BY <1>4, <1>5, <1>6, Zenon

LEMMA Replaced ==
  ASSUME NEW A, NEW s \in Seq(A), NEW i \in 1 .. Len(s), NEW e \in A
  PROVE  Puts(A, s, i, e, ReplaceAt(s, i, e), Len(s))
<1> DEFINE t == [s EXCEPT ![i] = e]
<1>1. Len(s) \in Nat /\ s \in [1 .. Len(s) -> A]
  BY LenProperties
<1>2. /\ t \in [1 .. Len(s) -> A] /\ t[i] = e
      /\ \A j \in 1 .. i - 1 : t[j] = s[j]
  BY <1>1
<1> HIDE DEF t
<1>3. t \in Seq(A) /\ Len(t) = Len(s)
  BY <1>1, <1>2, LenProperties
<1> QED BY <1>2, <1>3, Zenon DEF ReplaceAt, t, Puts

(* The character behind the break may go, the break does not. *)
LEMMA Skipped ==
  ASSUME NEW A, NEW s \in Seq(A), NEW at \in 1 .. Len(s)
  PROVE  /\ SkipSpace(s, at) \in Seq(A)
         /\ Len(SkipSpace(s, at)) \in {Len(s) - 1, Len(s)}
         /\ at <= Len(SkipSpace(s, at))
         /\ \A j \in 1 .. at : SkipSpace(s, at)[j] = s[j]
<1> DEFINE t == SkipSpace(s, at)
<1>1. Len(s) \in Nat
  BY LenProperties
<1>2. CASE at < Len(s) /\ s[at + 1] = Space
  <2>1. t = RemoveAt(s, at + 1)
    BY <1>2, Zenon DEF SkipSpace
  <2>2. at + 1 \in 1 .. Len(s) /\ (at + 1) - 1 = at
    BY <1>1, <1>2
  <2>3. /\ t \in Seq(A) /\ Len(t) = Len(s) - 1
        /\ \A j \in 1 .. (at + 1) - 1 : t[j] = s[j]
    BY <2>1, <2>2, Removed, Zenon
  <2> HIDE DEF t
  <2>4. Len(t) \in {Len(s) - 1, Len(s)} /\ at <= Len(t)
    BY <1>1, <1>2, <2>3
  <2> QED BY <2>2, <2>3, <2>4, Zenon DEF t
<1>3. CASE ~ (at < Len(s) /\ s[at + 1] = Space)
  <2>1. t = s
    BY <1>3, Zenon DEF SkipSpace
  <2>2. at <= Len(s)
    BY <1>1
  <2> QED BY <2>1, <2>2, Zenon
<1> QED BY <1>2, <1>3

(* The scan finds a break behind its start and within the string, or none. *)
LEMMA NextBreakWithin ==
  ASSUME NEW A, buf \in Seq(A), NEW from \in Nat
  PROVE  NextBreak(from) \in {NULL} \cup from .. Len(buf)
<1> DEFINE found == {p \in from .. (Len(buf) - 1) :
                       buf[p + 1] \in {Space, Hyphen}}
           p == Min(found)
<1>1. NextBreak(from) = IF found = {} THEN NULL
                        ELSE IF buf[p + 1] = Hyphen THEN p + 1 ELSE p
  BY DEF NextBreak
<1>2. Len(buf) \in Nat
  BY LenProperties
<1>3. ASSUME found # {} PROVE p \in from .. (Len(buf) - 1)
  <2>1. found \subseteq Nat
    BY <1>2
  <2>2. \E m \in found : \A k \in found : m <= k
    BY <1>3, <2>1, Least, Zenon
  <2>3. p \in found
    BY <2>2 DEF Min
  <2> QED BY <2>3
<1> HIDE DEF found, p
<1> QED BY <1>1, <1>2, <1>3

-----------------------------------------------------------------------------
(* The invariant.  Of the first n characters of b no more than l are without *)
(* a newline among them.                                                     *)
Filled(b, n, l) ==
  \A i \in 1 .. n - l : \E j \in i .. i + l : b[j] = Newline

(* What of a text of t characters has been broken, when n of the c           *)
(* characters there are now lie before remainder: a newline that came in     *)
(* addition has paid for a whole line.                                       *)
Consumed(t, c, n) == t - (c - n)
Paid(t, c, n, l) ==
  /\ c - t >= 1 => Consumed(t, c, n) >= l
  /\ c - t >= 2 => Consumed(t, c, n) >= 2 * l

Chars == 1 .. MaxText \cup {Space, Hyphen, Newline}
Plain == Hyphen \notin ToSet(text)
Working == {"wrap", "spaces", "simple"}

Strings ==
  /\ text \in Seq(Chars) /\ length \in Widths
  /\ buf \in Seq(ToSet(text) \cup {Newline})
  /\ remainder \in 0 .. Len(buf)

Broke ==
  /\ remainder > 0 => buf[remainder] = Newline
  /\ Filled(buf, remainder, length)
  /\ Consumed(Len(text), Len(buf), remainder) >= 0
  /\ Plain => Paid(Len(text), Len(buf), remainder, length)

Scanning ==
  /\ old \in remainder .. Len(buf) /\ old - remainder <= length
  /\ new \in {NULL} \cup remainder .. Len(buf)

WrapInv ==
  /\ pc \in Working \cup {"show", "done", "dangling"}
  /\ Strings
  /\ pc = "wrap" => buf = text /\ remainder = 0 /\ old = 0 /\ new = 0
  /\ pc = "spaces" => Scanning
  /\ pc \in Working => Broke
  /\ pc \in {"show", "done"} => Filled(buf, Len(buf), length)
  /\ pc = "dangling" => Len(text) > 3 * length \/ ~ Plain

(* A line more that is no longer than l. *)
LEMMA FilledGrows ==
  ASSUME NEW b, NEW c, NEW l \in Nat, NEW m \in Nat, NEW n \in Nat,
         m < n, n - m <= l + 1,
         Filled(b, m, l), m > 0 => b[m] = Newline,
         \A j \in 1 .. m : c[j] = b[j], c[n] = Newline
  PROVE  Filled(c, n, l)
<1> SUFFICES ASSUME NEW i \in 1 .. n - l
             PROVE  \E j \in i .. i + l : c[j] = Newline
  BY DEF Filled
<1>1. CASE i + l <= m
  <2>1. i \in 1 .. m - l
    BY <1>1
  <2>2. PICK j \in i .. i + l : b[j] = Newline
    BY <2>1 DEF Filled
  <2>3. j \in 1 .. m
    BY <1>1
  <2> QED BY <2>2, <2>3
<1>2. CASE i + l > m /\ i <= m
  <2>1. m \in i .. i + l /\ m \in 1 .. m /\ m > 0
    BY <1>2
  <2> QED BY <2>1
<1>3. CASE i > m
  <2>1. n \in i .. i + l
    BY <1>3
  <2> QED BY <2>1
<1> QED BY <1>1, <1>2, <1>3

(* The last line, which no newline ends. *)
LEMMA FilledToEnd ==
  ASSUME NEW b, NEW l \in Nat, NEW m \in Nat, NEW n \in Nat,
         m <= n, n - m <= l, Filled(b, m, l), m > 0 => b[m] = Newline
  PROVE  Filled(b, n, l)
<1> SUFFICES ASSUME NEW i \in 1 .. n - l
             PROVE  \E j \in i .. i + l : b[j] = Newline
  BY DEF Filled
<1>1. CASE i + l <= m
  <2>1. i \in 1 .. m - l
    BY <1>1
  <2> QED BY <2>1 DEF Filled
<1>2. CASE i + l > m
  <2>1. m \in i .. i + l /\ m > 0
    BY <1>2
  <2> QED BY <2>1
<1> QED BY <1>1, <1>2

(* The strings as they are before anything is broken. *)
LEMMA Unbroken ==
  ASSUME NEW t \in Seq(Chars), NEW l \in Nat \ {0}
  PROVE  /\ t \in Seq(ToSet(t) \cup {Newline})
         /\ Filled(t, 0, l)
         /\ Consumed(Len(t), Len(t), 0) = 0
         /\ Paid(Len(t), Len(t), 0, l)
<1>1. Len(t) \in Nat /\ t \in [1 .. Len(t) -> Chars]
  BY LenProperties
<1>2. t \in Seq(ToSet(t) \cup {Newline})
  <2> DEFINE A == ToSet(t) \cup {Newline}
  <2>1. t \in [1 .. Len(t) -> A]
    BY <1>1 DEF ToSet
  <2> HIDE DEF A
  <2>2. t \in Seq(A)
    BY <1>1, <2>1
  <2> QED BY <2>2, Zenon DEF A
<1>3. Filled(t, 0, l)
  <2>1. 1 .. 0 - l = {}
    OBVIOUS
  <2> QED BY <2>1 DEF Filled
<1>4. Len(t) - Len(t) = 0 /\ Len(t) - (Len(t) - 0) = 0
  BY <1>1
<1> QED BY <1>2, <1>3, <1>4 DEF Consumed, Paid

LEMMA WidthsArePositive == ASSUME NEW l \in Widths PROVE l \in Nat \ {0}
  BY TextAssumption

LEMMA WrapInit == Init => WrapInv
<1> SUFFICES ASSUME Init PROVE WrapInv
  OBVIOUS
<1>1. text \in Seq(Chars)
  <2>1. PICK n \in 0 .. MaxText :
          \E f \in [1 .. n -> {0, Space, Hyphen, Newline}] :
            text = [i \in 1 .. n |-> IF f[i] = 0 THEN i ELSE f[i]]
    BY Zenon DEF Init
  <2>2. PICK f \in [1 .. n -> {0, Space, Hyphen, Newline}] :
          text = [i \in 1 .. n |-> IF f[i] = 0 THEN i ELSE f[i]]
    BY <2>1
  <2>3. n \in Nat /\ 1 .. n \subseteq 1 .. MaxText
    BY TextAssumption
  <2>4. text \in [1 .. n -> Chars]
    BY <2>2, <2>3 DEF Chars
  <2> HIDE DEF Chars
  <2> QED BY <2>3, <2>4
<1>2. /\ length \in Widths /\ length \in Nat \ {0}
      /\ buf = text /\ remainder = 0 /\ old = 0 /\ new = 0 /\ pc = "wrap"
  BY WidthsArePositive DEF Init
<1>3. Len(text) \in Nat
  BY <1>1, LenProperties
<1>4. Strings
  <2>1. text \in Seq(ToSet(text) \cup {Newline})
    BY <1>1, <1>2, Unbroken, Zenon
  <2>2. 0 \in 0 .. Len(text)
    BY <1>3
  <2> QED BY <1>1, <1>2, <2>1, <2>2, Zenon DEF Strings
<1>5. Broke
  <2>1. /\ Filled(text, 0, length) /\ Consumed(Len(text), Len(text), 0) = 0
        /\ Paid(Len(text), Len(text), 0, length)
    BY <1>1, <1>2, Unbroken, Zenon
  <2> QED BY <1>2, <2>1 DEF Broke
<1> QED BY <1>2, <1>4, <1>5 DEF WrapInv, Working

(* A line is broken off: the newline is in place n of the new string c.      *)
Cuts(c, n) ==
  /\ c \in Seq(ToSet(text) \cup {Newline})
  /\ n \in 1 .. Len(c) /\ c[n] = Newline
  /\ remainder < n /\ n - remainder <= length + 1
  /\ \A j \in 1 .. remainder : c[j] = buf[j]
  /\ \/ Len(c) <= Len(buf)
     \/ Len(c) = Len(buf) + 1 /\ (Plain => n = remainder + length + 1)
  /\ Len(c) - Len(buf) <= n - remainder

LEMMA LineBroken ==
  ASSUME Strings, Broke, NEW c, NEW n, Cuts(c, n),
         text' = text, length' = length, buf' = c, remainder' = n
  PROVE  Strings' /\ Broke'
<1>1. /\ length \in Nat \ {0} /\ Len(buf) \in Nat /\ Len(text) \in Nat
      /\ Len(c) \in Nat /\ remainder \in Nat /\ n \in Nat
  BY WidthsArePositive, LenProperties DEF Strings, Cuts
<1>2. Strings'
  <2>1. n \in 0 .. Len(c)
    BY <1>1 DEF Cuts
  <2>2. c \in Seq(ToSet(text) \cup {Newline})
    BY Zenon DEF Cuts
  <2>3. text \in Seq(Chars) /\ length \in Widths
    BY Zenon DEF Strings
  <2> QED BY <2>1, <2>2, <2>3, Zenon DEF Strings
<1>3. Filled(c, n, length) /\ c[n] = Newline
  <2>1. /\ Filled(buf, remainder, length)
        /\ remainder > 0 => buf[remainder] = Newline
        /\ remainder < n /\ n - remainder <= length + 1
        /\ \A j \in 1 .. remainder : c[j] = buf[j]
        /\ c[n] = Newline
    BY Zenon DEF Broke, Cuts
  <2>2. length \in Nat
    BY <1>1
  <2> QED BY <1>1, <2>1, <2>2, FilledGrows
<1>4. Consumed(Len(text), Len(c), n) >= 0
  <2>1. Len(c) - Len(buf) <= n - remainder
    BY DEF Cuts
  <2>2. Len(text) - (Len(buf) - remainder) >= 0
    BY DEF Broke, Consumed
  <2> QED BY <1>1, <2>1, <2>2 DEF Consumed
<1>5. ASSUME Plain PROVE Paid(Len(text), Len(c), n, length)
  <2> DEFINE t == Len(text)
             p == Len(buf)
             q == Len(c)
  <2>1. /\ t - (p - remainder) >= 0
        /\ p - t >= 1 => t - (p - remainder) >= length
        /\ p - t >= 2 => t - (p - remainder) >= 2 * length
    BY <1>5 DEF Broke, Consumed, Paid
  <2>2. \/ q <= p /\ n > remainder
        \/ q = p + 1 /\ n = remainder + length + 1
    BY <1>5 DEF Cuts
  <2>3. t \in Nat /\ p \in Nat /\ q \in Nat
    BY <1>1
  <2> HIDE DEF t, p, q
  <2>4. /\ q - t >= 1 => t - (q - n) >= length
        /\ q - t >= 2 => t - (q - n) >= 2 * length
    BY <1>1, <2>1, <2>2, <2>3
  <2> QED BY <2>4, Zenon DEF Paid, Consumed, t, q
<1>6. Broke'
  BY <1>3, <1>4, <1>5, Zenon DEF Broke, Plain
<1> QED BY <1>2, <1>6

(* At the full length, with the space behind the break or without it. *)
LEMMA CutsFullLine ==
  ASSUME Strings, Long, NEW n, n = remainder + length + 1, NEW c,
         LET inserted == InsertAt(buf, n, Newline)
         IN  c = inserted \/ c = SkipSpace(inserted, n)
  PROVE  Cuts(c, n)
<1> DEFINE A == ToSet(text) \cup {Newline}
           b == InsertAt(buf, n, Newline)
<1>1. /\ length \in Nat \ {0} /\ Len(buf) \in Nat /\ remainder \in Nat
      /\ buf \in Seq(A) /\ Newline \in A
  BY WidthsArePositive, LenProperties DEF Strings
<1>2. n \in 1 .. Len(buf) /\ n \in 1 .. Len(buf) + 1 /\ remainder < n
  BY <1>1 DEF Long
<1> HIDE DEF A
<1>3. /\ b \in Seq(A) /\ Len(b) = Len(buf) + 1 /\ b[n] = Newline
      /\ \A j \in 1 .. n - 1 : b[j] = buf[j]
  <2>1. buf \in Seq(A) /\ Newline \in A
    BY <1>1
  <2>2. n \in 1 .. Len(buf) + 1
    BY <1>2
  <2>3. Puts(A, buf, n, Newline, InsertAt(buf, n, Newline), Len(buf) + 1)
    BY <2>1, <2>2, Inserted, Zenon
  <2> QED BY <2>3, Zenon DEF Puts
<1> HIDE DEF b
<1>4. /\ c \in Seq(A) /\ Len(c) \in {Len(b) - 1, Len(b)} /\ n <= Len(c)
      /\ \A j \in 1 .. n : c[j] = b[j]
  <2>1. n \in 1 .. Len(b)
    BY <1>1, <1>2, <1>3
  <2>2. CASE c = b
    BY <1>1, <1>2, <1>3, <2>2
  <2>3. CASE c = SkipSpace(b, n)
    BY <1>3, <2>1, <2>3, Skipped, Zenon
  <2> QED BY <2>2, <2>3, Zenon DEF b
<1>5. /\ n \in 1 .. Len(c) /\ c[n] = Newline
      /\ \A j \in 1 .. remainder : c[j] = buf[j]
  <2>1. Len(c) \in Nat /\ n \in 1 .. n
    BY <1>1, <1>2, <1>3, <1>4
  <2>2. \A j \in 1 .. remainder : j \in 1 .. n /\ j \in 1 .. n - 1
    BY <1>1, <1>2
  <2>3. n \in 1 .. Len(c)
    BY <1>2, <1>4, <2>1
  <2> QED BY <1>3, <1>4, <2>1, <2>2, <2>3, Zenon
<1>6. /\ n - remainder <= length + 1 /\ Len(c) - Len(buf) <= n - remainder
      /\ Len(c) <= Len(buf) \/ Len(c) = Len(buf) + 1
  BY <1>1, <1>2, <1>3, <1>4
<1>7. c \in Seq(ToSet(text) \cup {Newline})
  BY <1>4, Zenon DEF A
<1> QED BY <1>2, <1>5, <1>6, <1>7, Zenon DEF Cuts

(* At a break.  Only behind a hyphen does the string grow. *)
LEMMA CutsAtBreak ==
  ASSUME Strings, Scanning, Long, old # remainder
  PROVE  Cuts(Broken, old + 1)
<1> DEFINE A == ToSet(text) \cup {Newline}
           n == old + 1
           b == IF buf[old] = Hyphen THEN InsertAt(buf, n, Newline)
                                     ELSE ReplaceAt(buf, n, Newline)
           c == SkipSpace(b, n)
<1>1. /\ length \in Nat \ {0} /\ Len(buf) \in Nat /\ remainder \in Nat
      /\ buf \in Seq(A) /\ Newline \in A
  BY WidthsArePositive, LenProperties DEF Strings
<1>2. /\ old \in 1 .. Len(buf) /\ n \in 1 .. Len(buf)
      /\ n \in 1 .. Len(buf) + 1
      /\ remainder < n /\ n - remainder <= length + 1 /\ n - remainder > 1
  BY <1>1 DEF Long, Scanning
<1>3. buf[old] = Hyphen => ~ Plain
  <2> SUFFICES ASSUME buf[old] = Hyphen PROVE Hyphen \in ToSet(text)
    BY DEF Plain
  <2>1. buf[old] \in A
    BY <1>1, <1>2, ElementOfSeq
  <2> QED BY <2>1, TextAssumption
<1> HIDE DEF A, n
<1>4. /\ b \in Seq(A) /\ b[n] = Newline
      /\ \A j \in 1 .. n - 1 : b[j] = buf[j]
      /\ Len(b) = IF buf[old] = Hyphen THEN Len(buf) + 1 ELSE Len(buf)
  <2>1. buf \in Seq(A) /\ Newline \in A
    BY <1>1
  <2>2. n \in 1 .. Len(buf) + 1 /\ n \in 1 .. Len(buf)
    BY <1>2
  <2>3. CASE buf[old] = Hyphen
    <3>1. b = InsertAt(buf, n, Newline)
      BY <2>3, Zenon
    <3>2. Puts(A, buf, n, Newline, InsertAt(buf, n, Newline), Len(buf) + 1)
      BY <2>1, <2>2, Inserted, Zenon
    <3> HIDE DEF b
    <3> QED BY <2>3, <3>1, <3>2, Zenon DEF Puts
  <2>4. CASE buf[old] # Hyphen
    <3>1. b = ReplaceAt(buf, n, Newline)
      BY <2>4, Zenon
    <3> HIDE DEF b
    <3>2. Puts(A, buf, n, Newline, ReplaceAt(buf, n, Newline), Len(buf))
      BY <2>1, <2>2, Replaced, Zenon
    <3> QED BY <2>4, <3>1, <3>2, Zenon DEF Puts
  <2> QED BY <2>3, <2>4
<1>5. Broken = c
  BY Zenon DEF Broken, n
<1> HIDE DEF b
<1>6. n \in 1 .. Len(b)
  BY <1>1, <1>2, <1>4
<1>7. /\ c \in Seq(A) /\ Len(c) \in {Len(b) - 1, Len(b)} /\ n <= Len(c)
      /\ \A j \in 1 .. n : c[j] = b[j]
  BY <1>4, <1>6, Skipped, Zenon
<1> HIDE DEF c
<1>8. /\ n \in 1 .. Len(c) /\ c[n] = Newline
      /\ \A j \in 1 .. remainder : c[j] = buf[j]
  <2>1. Len(c) \in Nat /\ n \in 1 .. n
    BY <1>1, <1>2, <1>4, <1>7
  <2>2. \A j \in 1 .. remainder : j \in 1 .. n /\ j \in 1 .. n - 1
    BY <1>1, <1>2
  <2>3. n \in 1 .. Len(c)
    BY <1>2, <1>7, <2>1
  <2> QED BY <1>4, <1>7, <2>1, <2>2, <2>3, Zenon
<1>9. /\ Len(c) - Len(buf) <= n - remainder
      /\ \/ Len(c) <= Len(buf)
         \/ Len(c) = Len(buf) + 1 /\ buf[old] = Hyphen
  BY <1>1, <1>2, <1>4, <1>7
<1>10. c \in Seq(ToSet(text) \cup {Newline})
  BY <1>7, Zenon DEF A
<1>11. Cuts(c, n)
  BY <1>2, <1>3, <1>8, <1>9, <1>10, Zenon DEF Cuts
<1> QED BY <1>5, <1>11, Zenon DEF n

-----------------------------------------------------------------------------
LEMMA ScanKeeps == ASSUME WrapInv, Scan PROVE WrapInv'
<1>1. /\ pc = "spaces" /\ pc' = "spaces" /\ text' = text /\ length' = length
      /\ buf' = buf /\ remainder' = remainder
      /\ old' = new /\ new' = NextBreak(new + 1) /\ Fits
  BY DEF Scan, arguments
<1>2. Strings /\ Scanning /\ Broke
  BY <1>1 DEF WrapInv, Working
<1>3. Strings' /\ Broke'
  BY <1>1, <1>2 DEF Strings, Broke, Plain
<1>4. /\ new \in remainder .. Len(buf) /\ new - remainder <= length
      /\ new + 1 \in Nat /\ Len(buf) \in Nat /\ remainder \in Nat
  BY <1>1, <1>2, LenProperties DEF Fits, Scanning, Strings
<1>5. new' \in {NULL} \cup new + 1 .. Len(buf)
  BY <1>1, <1>2, <1>4, NextBreakWithin, Zenon DEF Strings
<1>6. Scanning'
  BY <1>1, <1>4, <1>5 DEF Scanning
<1> QED BY <1>1, <1>3, <1>6, Zenon DEF WrapInv, Working

LEMMA BreakKeeps == ASSUME WrapInv, BreakAtSpace PROVE WrapInv'
<1> DEFINE n == IF old = remainder THEN remainder + length + 1 ELSE old + 1
<1>1. /\ pc = "spaces" /\ pc' = "spaces" /\ text' = text /\ length' = length
      /\ buf' = Broken /\ remainder' = n /\ old' = n /\ new' = n /\ Long
  BY DEF BreakAtSpace, BreakLine, arguments
<1>2. Strings /\ Scanning /\ Broke
  BY <1>1 DEF WrapInv, Working
<1>3. Cuts(Broken, n)
  <2>1. CASE old = remainder
    <3>1. /\ n = remainder + length + 1
          /\ Broken = InsertAt(buf, n, Newline)
      BY <2>1, Zenon DEF Broken
    <3> HIDE DEF n
    <3> QED BY <1>1, <1>2, <3>1, CutsFullLine, Zenon
  <2>2. CASE old # remainder
    BY <1>1, <1>2, <2>2, CutsAtBreak, Zenon
  <2> QED BY <2>1, <2>2
<1> HIDE DEF n
<1>4. Strings' /\ Broke'
  BY <1>1, <1>2, <1>3, LineBroken, Zenon
<1>5. Scanning'
  <2>1. n \in 1 .. Len(Broken) /\ Len(Broken) \in Nat /\ length \in Nat
    BY <1>2, <1>3, WidthsArePositive, LenProperties DEF Cuts, Strings
  <2>2. n \in n .. Len(Broken) /\ n - n <= length
    BY <2>1
  <2> QED BY <1>1, <2>2 DEF Scanning
<1> QED BY <1>1, <1>4, <1>5, Zenon DEF WrapInv, Working

LEMMA CutKeeps == ASSUME WrapInv, Cut PROVE WrapInv'
<1> DEFINE n == remainder + length + 1
<1>1. /\ pc = "simple" /\ pc' = "simple" /\ text' = text /\ length' = length
      /\ remainder' = n /\ Long
      /\ buf' = SkipSpace(InsertAt(buf, n, Newline), n)
  BY DEF Cut, arguments
<1>2. Strings /\ Broke
  BY <1>1 DEF WrapInv, Working
<1>3. n = remainder + length + 1
  OBVIOUS
<1> HIDE DEF n
<1>4. Cuts(buf', n)
  BY <1>1, <1>2, <1>3, CutsFullLine, Zenon
<1>5. Strings' /\ Broke'
  BY <1>1, <1>2, <1>4, LineBroken, Zenon
<1> QED BY <1>1, <1>5, Zenon DEF WrapInv, Working

(* A loop ends: what is left is the last line, or everything begins anew. *)
LEMMA LoopEnds ==
  ASSUME Strings, Broke, ~ Long
  PROVE  Filled(buf, Len(buf), length)
<1>1. length \in Nat /\ Len(buf) \in Nat /\ remainder \in 0 .. Len(buf)
  BY WidthsArePositive, LenProperties DEF Strings
<1>2. remainder \in Nat /\ remainder <= Len(buf) /\ Len(buf) - remainder <= length
  BY <1>1 DEF Long
<1>3. /\ Filled(buf, remainder, length)
      /\ remainder > 0 => buf[remainder] = Newline
  BY Zenon DEF Broke
<1> QED BY <1>1, <1>2, <1>3, FilledToEnd

LEMMA BeginsAnew ==
  ASSUME Strings, text' = text, length' = length, buf' = text, remainder' = 0
  PROVE  Strings' /\ Broke'
<1>1. /\ text \in Seq(Chars) /\ length \in Nat \ {0} /\ length \in Widths
      /\ Len(text) \in Nat
  BY WidthsArePositive, LenProperties DEF Strings
<1>2. /\ text \in Seq(ToSet(text) \cup {Newline})
      /\ Filled(text, 0, length) /\ Consumed(Len(text), Len(text), 0) = 0
      /\ Paid(Len(text), Len(text), 0, length)
  BY <1>1, Unbroken, Zenon
<1>3. 0 \in 0 .. Len(text) /\ ~ (0 > 0) /\ 0 >= 0
  BY <1>1
<1>4. Strings'
  BY <1>1, <1>2, <1>3, Zenon DEF Strings
<1>5. Broke'
  BY <1>2, <1>3, Zenon DEF Broke
<1> QED BY <1>4, <1>5

(* Without hyphens two insertions have taken two lines. *)
LEMMA DangleKeeps == ASSUME WrapInv, Dangle PROVE WrapInv'
<1>1. /\ pc \in {"spaces", "simple"} /\ pc' = "dangling" /\ text' = text
      /\ length' = length /\ buf' = buf /\ remainder' = remainder
      /\ Long /\ MayMove
  BY DEF Dangle, arguments
<1>2. Strings /\ Broke
  BY <1>1 DEF WrapInv, Working
<1>3. ASSUME Plain PROVE Len(text) > 3 * length
  <2>1. /\ length \in Nat \ {0} /\ Len(buf) \in Nat /\ Len(text) \in Nat
        /\ remainder \in Nat
    BY <1>2, WidthsArePositive, LenProperties DEF Strings
  <2>2. Len(buf) - remainder > length /\ Len(buf) >= Len(text) + 2
    BY <1>1 DEF Long, MayMove, Room
  <2>3. Len(buf) - Len(text) >= 2 =>
          Len(text) - (Len(buf) - remainder) >= 2 * length
    BY <1>2, <1>3, Zenon DEF Broke, Paid, Consumed
  <2> QED BY <2>1, <2>2, <2>3
<1>4. Strings' /\ (pc' = "dangling" => Len(text') > 3 * length' \/ ~ Plain')
  BY <1>1, <1>2, <1>3 DEF Strings, Plain
<1> QED BY <1>1, <1>4, Zenon DEF WrapInv, Working

LEMMA WrapStep == WrapInv /\ [Next]_vars => WrapInv'
<1> SUFFICES ASSUME WrapInv, [Next]_vars PROVE WrapInv'
  OBVIOUS
<1>1. CASE Wrap
  <2>1. /\ pc = "wrap" /\ pc' \in {"simple", "spaces"}
        /\ text' = text /\ length' = length /\ buf' = buf
        /\ remainder' = remainder /\ old' = old /\ new' = new
    BY <1>1 DEF Wrap, arguments
  <2>2. /\ Strings /\ Broke /\ remainder = 0 /\ old = 0 /\ new = 0
    BY <2>1 DEF WrapInv, Working
  <2>3. Strings' /\ Broke'
    BY <2>1, <2>2 DEF Strings, Broke, Plain
  <2>4. Scanning'
    <3>1. Len(buf) \in Nat /\ length \in Nat
      BY <2>2, WidthsArePositive, LenProperties DEF Strings
    <3> QED BY <2>1, <2>2, <3>1 DEF Scanning
  <2> QED BY <2>1, <2>3, <2>4 DEF WrapInv, Working
<1>2. CASE Tried
  <2>1. /\ pc = "spaces" /\ ~ Long /\ text' = text /\ length' = length
    BY <1>2 DEF Tried, arguments
  <2>2. Strings /\ Broke
    BY <2>1 DEF WrapInv, Working
  <2>3. CASE pc' = "show" /\ buf' = buf /\ remainder' = remainder
    <3>1. Filled(buf, Len(buf), length)
      BY <2>1, <2>2, LoopEnds, Zenon
    <3>2. Strings'
      BY <2>1, <2>2, <2>3 DEF Strings
    <3>3. Filled(buf', Len(buf'), length')
      BY <2>1, <2>3, <3>1, Zenon
    <3> QED BY <2>3, <3>2, <3>3 DEF WrapInv, Working
  <2>4. CASE pc' = "simple" /\ buf' = text /\ remainder' = 0
    <3>1. Strings' /\ Broke'
      BY <2>1, <2>2, <2>4, BeginsAnew, Zenon
    <3> QED BY <2>4, <3>1 DEF WrapInv, Working
  <2> QED BY <1>2, <2>3, <2>4, Zenon DEF Tried
<1>3. CASE CutDone
  <2>1. /\ pc = "simple" /\ ~ Long /\ text' = text /\ length' = length
        /\ pc' = "show" /\ buf' = buf /\ remainder' = remainder
    BY <1>3 DEF CutDone, arguments
  <2>2. Strings /\ Broke
    BY <2>1 DEF WrapInv, Working
  <2>3. Filled(buf, Len(buf), length)
    BY <2>1, <2>2, LoopEnds, Zenon
  <2>4. Strings'
    BY <2>1, <2>2 DEF Strings
  <2>5. Filled(buf', Len(buf'), length')
    BY <2>1, <2>3, Zenon
  <2> QED BY <2>1, <2>4, <2>5 DEF WrapInv, Working
<1>4. CASE Show
  <2>1. /\ pc = "show" /\ pc' = "done" /\ text' = text /\ length' = length
        /\ buf' = buf /\ remainder' = remainder
    BY <1>4 DEF Show, arguments
  <2>2. Strings /\ Filled(buf, Len(buf), length)
    BY <2>1 DEF WrapInv
  <2>3. Strings'
    BY <2>1, <2>2 DEF Strings
  <2>4. Filled(buf', Len(buf'), length')
    BY <2>1, <2>2, Zenon
  <2> QED BY <2>1, <2>3, <2>4 DEF WrapInv, Working
<1>5. CASE UNCHANGED vars
  BY <1>5 DEF vars, WrapInv, Strings, Broke, Scanning, Plain
<1> QED BY <1>1, <1>2, <1>3, <1>4, <1>5, ScanKeeps, BreakKeeps, CutKeeps,
           DangleKeeps DEF Next

-----------------------------------------------------------------------------
(* However a text was wrapped, no line of it is wider than the display, for  *)
(* texts, widths and heights of any size (util.c:88, 137).                   *)
THEOREM WrappedLinesFit == Spec => []LinesFit
<1>1. WrapInv => LinesFit
  <2> SUFFICES ASSUME WrapInv, pc \in {"show", "done"}
               PROVE  \A i \in 1 .. (Len(buf) - length) :
                        \E j \in i .. (i + length) : buf[j] = Newline
    BY DEF LinesFit
  <2> QED BY DEF WrapInv, Filled
<1> QED BY <1>1, WrapInit, WrapStep, PTL DEF Spec

(* The locals of the wrapping functions never point outside their string,    *)
(* and the string never moves under them if the text has no hyphen and no    *)
(* more characters than three lines: an insertion that makes it longer has   *)
(* taken a line from the text (util.c:108).                                  *)
THEOREM PointersStayInside == Spec => []PointersSafe
<1>1. WrapInv => PointersSafe
  <2> SUFFICES ASSUME WrapInv PROVE PointersSafe
    OBVIOUS
  <2>1. /\ length \in Nat \ {0} /\ Len(buf) \in Nat
        /\ remainder \in 0 .. Len(buf) /\ Strings
    BY WidthsArePositive, LenProperties DEF WrapInv, Strings
  <2>2. \/ pc # "spaces"
        \/ /\ old \in remainder .. Len(buf)
           /\ new \in {NULL} \cup remainder .. Len(buf)
    BY DEF WrapInv, Scanning
  <2>3. pc = "spaces" /\ Long /\ Fits => new < Len(buf)
    BY <2>1, <2>2 DEF Long, Fits
  <2>4. \A i \in DOMAIN buf : buf[i] \in 1 .. MaxText \cup {Space, Hyphen, Newline}
    <3>1. ASSUME NEW i \in DOMAIN buf PROVE buf[i] \in Chars
      <4>1. i \in 1 .. Len(buf) /\ buf \in Seq(ToSet(text) \cup {Newline})
        BY <2>1, LenProperties DEF Strings
      <4>2. buf[i] \in ToSet(text) \cup {Newline}
        BY <4>1, ElementOfSeq, Zenon
      <4>3. ToSet(text) \subseteq Chars
        BY <2>1, LenProperties DEF Strings, ToSet
      <4> QED BY <4>2, <4>3 DEF Chars
    <3> QED BY <3>1 DEF Chars
  <2>5. pc \in {"wrap", "spaces", "simple", "show", "done", "dangling"}
    BY DEF WrapInv, Working
  <2>6. TypeOK
    BY <2>1, <2>2, <2>3, <2>4, <2>5, Zenon DEF TypeOK
  <2>7. pc = "dangling" => Len(text) > 3 * length \/ Hyphen \in ToSet(text)
    BY Zenon DEF WrapInv, Plain
  <2> QED BY <2>6, <2>7, Zenon DEF PointersSafe
<1> QED BY <1>1, WrapInit, WrapStep, PTL DEF Spec

-----------------------------------------------------------------------------
(* Ink.  A string is what stands before a place, the place, and the rest. *)
LEMMA Parts ==
  ASSUME NEW A, NEW s \in Seq(A), NEW i \in 1 .. Len(s) + 1
  PROVE  /\ SubSeq(s, 1, i - 1) \in Seq(A) /\ SubSeq(s, i, Len(s)) \in Seq(A)
         /\ s = SubSeq(s, 1, i - 1) \o SubSeq(s, i, Len(s))
<1>1. Len(s) \in Nat /\ i - 1 \in Int /\ i \in Int /\ 1 \in Int
  BY LenProperties
<1>2. SubSeq(s, 1, i - 1) \in Seq(A)
  <2>1. \A j \in 1 .. i - 1 : s[j] \in A
    BY <1>1, ElementOfSeq
  <2> QED BY <1>1, <2>1, SubSeqProperties
<1>3. SubSeq(s, i, Len(s)) \in Seq(A)
  <2>1. \A j \in i .. Len(s) : s[j] \in A
    BY <1>1, ElementOfSeq
  <2> QED BY <1>1, <2>1, SubSeqProperties
<1>4. s = SubSeq(s, 1, i - 1) \o SubSeq(s, i, Len(s))
  <2>1. /\ 1 \in 1 .. Len(s) + 1 /\ i - 1 \in 1 - 1 .. Len(s)
        /\ Len(s) \in i - 1 .. Len(s) /\ (i - 1) + 1 = i
    BY <1>1
  <2>2. SubSeq(s, 1, i - 1) \o SubSeq(s, (i - 1) + 1, Len(s))
          = SubSeq(s, 1, Len(s))
    BY <2>1, ConcatAdjacentSubSeq
  <2>3. SubSeq(s, 1, Len(s)) = s
    BY SubSeqFull, Zenon
  <2> QED BY <2>1, <2>2, <2>3, Zenon
<1> QED BY <1>2, <1>3, <1>4

LEMMA InsertedInk ==
  ASSUME NEW A, NEW s \in Seq(A), NEW i \in 1 .. Len(s) + 1, NEW e \in A,
         NEW S, e \notin S
  PROVE  Select(InsertAt(s, i, e), S) = Select(s, S)
<1> DEFINE f == SubSeq(s, 1, i - 1)
           g == SubSeq(s, i, Len(s))
<1>1. f \in Seq(A) /\ g \in Seq(A) /\ s = f \o g
  BY Parts, Zenon
<1>2. InsertAt(s, i, e) = (f \o <<e>>) \o g
  BY Zenon DEF InsertAt
<1> HIDE DEF f, g
<1>3. Select((f \o <<e>>) \o g, S) = Select(f \o g, S)
  BY <1>1, SelectAround
<1> QED BY <1>1, <1>2, <1>3, Zenon

LEMMA RemovedInk ==
  ASSUME NEW A, NEW s \in Seq(A), NEW i \in 1 .. Len(s), NEW S, s[i] \notin S
  PROVE  Select(RemoveAt(s, i), S) = Select(s, S)
<1> DEFINE f == SubSeq(s, 1, i - 1)
           g == SubSeq(s, i, Len(s))
           h == SubSeq(s, i + 1, Len(s))
           e == s[i]
<1>1. f \in Seq(A) /\ s = f \o g
  <2>1. i \in 1 .. Len(s) + 1
    BY LenProperties
  <2> QED BY <2>1, Parts, Zenon
<1>2. h \in Seq(A) /\ e \in A
  <2>1. i + 1 \in 1 .. Len(s) + 1
    BY LenProperties
  <2> QED BY <2>1, Parts, ElementOfSeq, Zenon
<1>3. g = <<e>> \o h
  <2>1. Len(s) \in i .. Len(s)
    BY LenProperties
  <2> QED BY <2>1, SubSeqRecursiveFirst
<1>4. RemoveAt(s, i) = f \o h
  BY Zenon DEF RemoveAt
<1> HIDE DEF f, g, h, e
<1>5. s = (f \o <<e>>) \o h
  <2>1. <<e>> \in Seq(A)
    BY <1>2
  <2>2. (f \o <<e>>) \o h = f \o (<<e>> \o h)
    BY <1>1, <1>2, <2>1, ConcatAssociative
  <2> QED BY <1>1, <1>3, <2>2, Zenon
<1>6. Select((f \o <<e>>) \o h, S) = Select(f \o h, S)
  <2>1. e \notin S
    BY DEF e
  <2> QED BY <1>1, <1>2, <2>1, SelectAround
<1> QED BY <1>4, <1>5, <1>6, Zenon

LEMMA ReplacedInk ==
  ASSUME NEW A, NEW s \in Seq(A), NEW i \in 1 .. Len(s), NEW e \in A,
         NEW S, e \notin S, s[i] \notin S
  PROVE  Select(ReplaceAt(s, i, e), S) = Select(s, S)
<1> DEFINE t == ReplaceAt(s, i, e)
<1>1. Len(s) \in Nat /\ i \in 1 .. Len(s) + 1 /\ i \in Int /\ i + 1 \in Int
  BY LenProperties
<1>2. t \in Seq(A) /\ Len(t) = Len(s) /\ t[i] = e
  <2>1. \A x \in A : Puts(A, s, i, x, ReplaceAt(s, i, x), Len(s))
    BY Replaced, Zenon
  <2>2. Puts(A, s, i, e, t, Len(s))
    BY <2>1, Zenon
  <2> QED BY <2>2, Zenon DEF Puts
<1>3. \A j \in 1 .. Len(s) : j # i => t[j] = s[j]
  <2>1. s \in [1 .. Len(s) -> A]
    BY LenProperties
  <2> QED BY <2>1 DEF ReplaceAt
<1> HIDE DEF t
<1>4. RemoveAt(t, i) = RemoveAt(s, i)
  <2> DEFINE n == Len(s)
  <2>1. SubSeq(t, 1, i - 1) = SubSeq(s, 1, i - 1)
    <3>1. \A j \in 1 .. i - 1 : t[j] = s[j]
      BY <1>1, <1>3
    <3> QED BY <1>1, <3>1
  <2>2. SubSeq(t, i + 1, n) = SubSeq(s, i + 1, n)
    <3>1. \A j \in i + 1 .. n : t[j] = s[j]
      BY <1>1, <1>3
    <3> QED BY <1>1, <3>1
  <2> QED BY <1>2, <2>1, <2>2, Zenon DEF RemoveAt
<1>5. Select(RemoveAt(t, i), S) = Select(t, S)
  <2>1. i \in 1 .. Len(t) /\ t[i] \notin S
    BY <1>2
  <2> QED BY <1>2, <2>1, RemovedInk
<1>6. Select(RemoveAt(s, i), S) = Select(s, S)
  BY RemovedInk
<1> QED BY <1>4, <1>5, <1>6, Zenon DEF t

Inks == Letters \cup {Hyphen}

LEMMA SpacesAreNoInk ==
  ASSUME NEW s
  PROVE  Ink(s) = Select(s, Inks) /\ Space \notin Inks /\ Newline \notin Inks
<1>1. Space \notin Inks /\ Newline \notin Inks
  BY TextAssumption DEF Inks, Letters
<1> QED BY <1>1, Zenon DEF Ink, Inks

(* The space behind a break is no ink. *)
LEMMA SkippedInk ==
  ASSUME NEW A, NEW s \in Seq(A), NEW at \in 1 .. Len(s)
  PROVE  Ink(SkipSpace(s, at)) = Ink(s)
<1>1. CASE at < Len(s) /\ s[at + 1] = Space
  <2>1. SkipSpace(s, at) = RemoveAt(s, at + 1)
    BY <1>1, Zenon DEF SkipSpace
  <2>2. at + 1 \in 1 .. Len(s)
    BY <1>1, LenProperties
  <2>3. s[at + 1] \notin Inks
    BY <1>1, SpacesAreNoInk
  <2>4. Select(RemoveAt(s, at + 1), Inks) = Select(s, Inks)
    BY <2>2, <2>3, RemovedInk
  <2> QED BY <2>1, <2>4, SpacesAreNoInk
<1>2. CASE ~ (at < Len(s) /\ s[at + 1] = Space)
  BY <1>2, Zenon DEF SkipSpace
<1> QED BY <1>1, <1>2

(* A break is behind a hyphen or before a space. *)
Gap(p) == buf[p] = Hyphen \/ buf[p + 1] = Space

Breaks ==
  /\ old # remainder => Gap(old)
  /\ new \notin {NULL, remainder} => Gap(new)

InkInv ==
  /\ WrapInv
  /\ pc = "spaces" => Breaks
  /\ InkKept

LEMMA NextBreakIsGap ==
  ASSUME NEW A, buf \in Seq(A), NEW from \in Nat
  PROVE  NextBreak(from) # NULL => Gap(NextBreak(from))
<1> DEFINE found == {p \in from .. (Len(buf) - 1) :
                       buf[p + 1] \in {Space, Hyphen}}
           p == Min(found)
<1>1. NextBreak(from) = IF found = {} THEN NULL
                        ELSE IF buf[p + 1] = Hyphen THEN p + 1 ELSE p
  BY DEF NextBreak
<1>2. ASSUME found # {}
      PROVE  buf[p + 1] \in {Space, Hyphen} /\ p \in Nat
  <2>1. found \subseteq Nat
    BY LenProperties
  <2>2. \E m \in found : \A k \in found : m <= k
    BY <1>2, <2>1, Least, Zenon
  <2>3. p \in found
    BY <2>2 DEF Min
  <2> QED BY <2>1, <2>3
<1> HIDE DEF found, p
<1> QED BY <1>1, <1>2 DEF Gap

(* No break costs ink: a newline comes in, or takes the place of a space. *)
LEMMA CutInk ==
  ASSUME Strings, Long, NEW n, n = remainder + length + 1
  PROVE  /\ Ink(InsertAt(buf, n, Newline)) = Ink(buf)
         /\ Ink(SkipSpace(InsertAt(buf, n, Newline), n)) = Ink(buf)
<1> DEFINE A == ToSet(text) \cup {Newline}
           b == InsertAt(buf, n, Newline)
<1>1. /\ length \in Nat \ {0} /\ Len(buf) \in Nat /\ remainder \in Nat
      /\ buf \in Seq(A) /\ Newline \in A
  BY WidthsArePositive, LenProperties DEF Strings
<1>2. n \in 1 .. Len(buf) + 1 /\ n \in 1 .. Len(buf)
  BY <1>1 DEF Long
<1> HIDE DEF A
<1>3. b \in Seq(A) /\ Len(b) = Len(buf) + 1
  <2>1. Puts(A, buf, n, Newline, b, Len(buf) + 1)
    BY <1>1, <1>2, Inserted, Zenon
  <2> QED BY <2>1, Zenon DEF Puts
<1>4. Ink(b) = Ink(buf)
  <2>1. Newline \notin Inks
    BY SpacesAreNoInk
  <2>2. Select(b, Inks) = Select(buf, Inks)
    BY <1>1, <1>2, <2>1, InsertedInk
  <2> HIDE DEF b
  <2> QED BY <2>2, SpacesAreNoInk
<1> HIDE DEF b
<1>5. n \in 1 .. Len(b)
  BY <1>1, <1>2, <1>3
<1>6. Ink(SkipSpace(b, n)) = Ink(b)
  BY <1>3, <1>5, SkippedInk, Zenon
<1> QED BY <1>4, <1>6, Zenon DEF b

LEMMA BreakInk ==
  ASSUME Strings, Scanning, Breaks, Long
  PROVE  Ink(Broken) = Ink(buf)
<1> DEFINE A == ToSet(text) \cup {Newline}
           n == old + 1
           b == IF buf[old] = Hyphen THEN InsertAt(buf, n, Newline)
                                     ELSE ReplaceAt(buf, n, Newline)
<1>1. CASE old = remainder
  <2>1. Broken = InsertAt(buf, remainder + length + 1, Newline)
    BY <1>1, Zenon DEF Broken
  <2> QED BY <2>1, CutInk, Zenon
<1>2. CASE old # remainder
  <2>1. /\ Len(buf) \in Nat /\ buf \in Seq(A) /\ Newline \in A
        /\ n \in 1 .. Len(buf) + 1 /\ n \in 1 .. Len(buf)
    <3>1. length \in Nat \ {0} /\ remainder \in Nat /\ Len(buf) \in Nat
      BY WidthsArePositive, LenProperties DEF Strings
    <3> QED BY <3>1 DEF Long, Scanning, Strings
  <2>2. Newline \notin Inks /\ (buf[old] # Hyphen => buf[n] \notin Inks)
    BY <1>2, SpacesAreNoInk DEF Breaks, Gap
  <2>3. Broken = SkipSpace(b, n)
    BY <1>2, Zenon DEF Broken
  <2> HIDE DEF A, n
  <2>4. Puts(A, buf, n, Newline, InsertAt(buf, n, Newline), Len(buf) + 1)
    BY <2>1, Inserted, Zenon
  <2>5. Puts(A, buf, n, Newline, ReplaceAt(buf, n, Newline), Len(buf))
    BY <2>1, Replaced, Zenon
  <2>6. Select(InsertAt(buf, n, Newline), Inks) = Select(buf, Inks)
    BY <2>1, <2>2, InsertedInk
  <2>7. buf[old] # Hyphen
          => Select(ReplaceAt(buf, n, Newline), Inks) = Select(buf, Inks)
    BY <2>1, <2>2, ReplacedInk
  <2>8. /\ b \in Seq(A) /\ Len(b) \in {Len(buf), Len(buf) + 1}
        /\ Select(b, Inks) = Select(buf, Inks)
    <3>1. CASE buf[old] = Hyphen
      <4>1. b = InsertAt(buf, n, Newline)
        BY <3>1, Zenon
      <4> HIDE DEF b
      <4> QED BY <2>4, <2>6, <4>1, Zenon DEF Puts
    <3>2. CASE buf[old] # Hyphen
      <4>1. b = ReplaceAt(buf, n, Newline)
        BY <3>2, Zenon
      <4> HIDE DEF b
      <4> QED BY <2>5, <2>7, <3>2, <4>1, Zenon DEF Puts
    <3> QED BY <3>1, <3>2, Zenon
  <2> HIDE DEF b
  <2>9. n \in 1 .. Len(b)
    BY <2>1, <2>8
  <2>10. Ink(SkipSpace(b, n)) = Ink(b)
    BY <2>8, <2>9, SkippedInk, Zenon
  <2>11. Ink(b) = Ink(buf)
    BY <2>8, SpacesAreNoInk
  <2> QED BY <2>3, <2>10, <2>11, Zenon
<1> QED BY <1>1, <1>2

LEMMA InkInit == Init => InkInv
<1> SUFFICES ASSUME Init PROVE InkInv
  OBVIOUS
<1>1. WrapInv
  BY WrapInit
<1>2. buf = text /\ pc # "spaces"
  BY DEF Init
<1> QED BY <1>1, <1>2 DEF InkInv, InkKept

LEMMA InkStep == InkInv /\ [Next]_vars => InkInv'
<1> SUFFICES ASSUME InkInv, [Next]_vars PROVE InkInv'
  OBVIOUS
<1>1. WrapInv /\ WrapInv'
  BY WrapStep DEF InkInv
<1>2. (pc' = "spaces" => Breaks') /\ InkKept'
  <2>1. CASE Wrap
    <3>1. /\ pc = "wrap" /\ text' = text /\ buf' = buf
          /\ old' = old /\ new' = new /\ remainder' = remainder
      BY <2>1 DEF Wrap, arguments
    <3>2. old = remainder /\ new = remainder
      BY <1>1, <3>1 DEF WrapInv
    <3> QED BY <3>1, <3>2 DEF Breaks, InkInv, InkKept
  <2>2. CASE Scan
    <3>1. /\ pc = "spaces" /\ text' = text /\ buf' = buf /\ Fits
          /\ old' = new /\ new' = NextBreak(new + 1) /\ remainder' = remainder
      BY <2>2 DEF Scan, arguments
    <3>2. Strings /\ Scanning /\ Breaks
      BY <1>1, <3>1 DEF WrapInv, InkInv
    <3>3. new # NULL /\ new + 1 \in Nat
      BY <3>1, <3>2, LenProperties DEF Fits, Scanning, Strings
    <3>4. new' # NULL => Gap(new')
      <4>1. buf \in Seq(ToSet(text) \cup {Newline})
        BY <3>2 DEF Strings
      <4> QED BY <3>1, <3>3, <4>1, NextBreakIsGap, Zenon
    <3> QED BY <3>1, <3>2, <3>3, <3>4 DEF Breaks, Gap, InkInv, InkKept
  <2>3. CASE BreakAtSpace
    <3>1. /\ pc = "spaces" /\ text' = text /\ buf' = Broken /\ Long
          /\ old' = remainder' /\ new' = remainder'
      BY <2>3, Zenon DEF BreakAtSpace, BreakLine, arguments
    <3>2. Strings /\ Scanning /\ Breaks
      BY <1>1, <3>1 DEF WrapInv, InkInv
    <3>3. Ink(Broken) = Ink(buf)
      BY <3>1, <3>2, BreakInk, Zenon
    <3> QED BY <3>1, <3>3 DEF Breaks, InkInv, InkKept
  <2>4. CASE Tried
    <3>1. /\ text' = text /\ pc' # "spaces"
          /\ buf' = buf \/ buf' = text
      BY <2>4 DEF Tried, arguments
    <3> QED BY <3>1 DEF InkInv, InkKept
  <2>5. CASE Cut
    <3> DEFINE n == remainder + length + 1
    <3>1. /\ pc = "simple" /\ pc' = "simple" /\ text' = text /\ Long
          /\ remainder' = n
          /\ buf' = SkipSpace(InsertAt(buf, n, Newline), n)
      BY <2>5 DEF Cut, arguments
    <3>2. Strings
      BY <1>1 DEF WrapInv
    <3>3. n = remainder + length + 1
      OBVIOUS
    <3> HIDE DEF n
    <3>4. Ink(buf') = Ink(buf)
      BY <3>1, <3>2, <3>3, CutInk, Zenon
    <3> QED BY <3>1, <3>4 DEF InkInv, InkKept
  <2>6. CASE CutDone \/ Dangle \/ Show
    <3>1. text' = text /\ buf' = buf /\ pc' # "spaces"
      BY <2>6 DEF CutDone, Dangle, Show, arguments
    <3> QED BY <3>1 DEF InkInv, InkKept
  <2>7. CASE UNCHANGED vars
    BY <2>7 DEF vars, InkInv, InkKept, Breaks, Gap
  <2> QED BY <2>1, <2>2, <2>3, <2>4, <2>5, <2>6, <2>7, Zenon DEF Next
<1> QED BY <1>1, <1>2, Zenon DEF InkInv

-----------------------------------------------------------------------------
(* Words.  The last n characters of t and s are the same. *)
SameEnd(t, n, s) == \A k \in 0 .. n - 1 : t[Len(t) - k] = s[Len(s) - k]

LEMMA SameEndOfConcat ==
  ASSUME NEW A, NEW f \in Seq(A), NEW g \in Seq(A)
  PROVE  SameEnd(f \o g, Len(g), g)
<1>1. /\ Len(f) \in Nat /\ Len(g) \in Nat
      /\ Len(f \o g) = Len(f) + Len(g)
      /\ \A j \in 1 .. Len(f) + Len(g) :
           (f \o g)[j] = IF j <= Len(f) THEN f[j] ELSE g[j - Len(f)]
  BY ConcatProperties, LenProperties
<1> DEFINE t == f \o g
           m == Len(f)
           n == Len(g)
<1>2. /\ m \in Nat /\ n \in Nat /\ Len(t) = m + n
      /\ \A j \in 1 .. m + n : t[j] = IF j <= m THEN f[j] ELSE g[j - m]
  BY <1>1
<1> HIDE DEF t, m, n
<1>3. \A k \in 0 .. n - 1 : t[Len(t) - k] = g[n - k]
  <2> SUFFICES ASSUME NEW k \in 0 .. n - 1
               PROVE  t[Len(t) - k] = g[n - k]
    OBVIOUS
  <2>1. /\ Len(t) - k \in 1 .. m + n /\ ~ (Len(t) - k <= m)
        /\ (Len(t) - k) - m = n - k
    BY <1>2
  <2> QED BY <1>2, <2>1
<1> QED BY <1>3, Zenon DEF SameEnd, t, n

LEMMA SameEndOfRest ==
  ASSUME NEW A, NEW s \in Seq(A), NEW i \in 1 .. Len(s) + 1
  PROVE  /\ Len(SubSeq(s, i, Len(s))) = Len(s) + 1 - i
         /\ SameEnd(SubSeq(s, i, Len(s)), Len(s) + 1 - i, s)
<1> DEFINE n == Len(s)
           g == SubSeq(s, i, n)
<1>1. n \in Nat /\ i \in Int /\ i <= n + 1 /\ i >= 1
  BY LenProperties
<1>2. \A j \in i .. n : s[j] \in A
  BY <1>1, ElementOfSeq
<1>3. /\ Len(g) = IF i <= n THEN n - i + 1 ELSE 0
      /\ \A j \in 1 .. n - i + 1 : g[j] = s[i + j - 1]
  BY <1>1, <1>2, SubSeqProperties
<1> HIDE DEF g, n
<1>4. Len(g) = n + 1 - i
  BY <1>1, <1>3
<1>5. \A k \in 0 .. (n + 1 - i) - 1 : g[Len(g) - k] = s[n - k]
  <2> SUFFICES ASSUME NEW k \in 0 .. (n + 1 - i) - 1
               PROVE  g[Len(g) - k] = s[n - k]
    OBVIOUS
  <2>1. Len(g) - k \in 1 .. n - i + 1 /\ i + (Len(g) - k) - 1 = n - k
    BY <1>1, <1>4
  <2> QED BY <1>3, <2>1
<1> QED BY <1>4, <1>5, Zenon DEF SameEnd, g, n

LEMMA SameEndOfBoth ==
  ASSUME NEW t, NEW s, NEW u, NEW m \in Int, NEW n \in Int, m <= n,
         SameEnd(t, m, s), SameEnd(s, n, u)
  PROVE  SameEnd(t, m, u)
<1>1. \A k \in 0 .. m - 1 : k \in 0 .. n - 1
  OBVIOUS
<1> QED BY <1>1, Zenon DEF SameEnd

(* What stands behind the place of an insertion, a removal, a replacement    *)
(* and a skipped space.                                                      *)
LEMMA InsertedEnd ==
  ASSUME NEW A, NEW s \in Seq(A), NEW i \in 1 .. Len(s) + 1, NEW e \in A
  PROVE  SameEnd(InsertAt(s, i, e), Len(s) + 1 - i, s)
<1> DEFINE f == SubSeq(s, 1, i - 1) \o <<e>>
           g == SubSeq(s, i, Len(s))
<1>1. Len(s) + 1 - i \in Int /\ <<e>> \in Seq(A)
  BY LenProperties
<1>2. f \in Seq(A) /\ g \in Seq(A)
  <2>1. SubSeq(s, 1, i - 1) \in Seq(A) /\ g \in Seq(A)
    BY Parts
  <2> QED BY <1>1, <2>1, ConcatProperties
<1>3. Len(g) = Len(s) + 1 - i /\ SameEnd(g, Len(s) + 1 - i, s)
  BY SameEndOfRest
<1>4. InsertAt(s, i, e) = f \o g
  BY Zenon DEF InsertAt
<1> HIDE DEF f, g
<1>5. SameEnd(f \o g, Len(g), g)
  BY <1>2, SameEndOfConcat, Zenon
<1>6. SameEnd(f \o g, Len(s) + 1 - i, g)
  BY <1>3, <1>5, Zenon
<1>7. SameEnd(f \o g, Len(s) + 1 - i, s)
  BY <1>1, <1>3, <1>6, SameEndOfBoth
<1> QED BY <1>4, <1>7, Zenon

LEMMA RemovedEnd ==
  ASSUME NEW A, NEW s \in Seq(A), NEW i \in 1 .. Len(s)
  PROVE  SameEnd(RemoveAt(s, i), Len(s) - i, s)
<1> DEFINE f == SubSeq(s, 1, i - 1)
           g == SubSeq(s, i + 1, Len(s))
<1>1. /\ i \in 1 .. Len(s) + 1 /\ i + 1 \in 1 .. Len(s) + 1
      /\ Len(s) + 1 - (i + 1) = Len(s) - i /\ Len(s) - i \in Int
  BY LenProperties
<1>2. f \in Seq(A)
  BY <1>1, Parts
<1>3. g \in Seq(A)
  <2>1. \A j \in 1 .. Len(s) + 1 : SubSeq(s, j, Len(s)) \in Seq(A)
    BY Parts
  <2> QED BY <1>1, <2>1
<1>4. Len(g) = Len(s) - i /\ SameEnd(g, Len(s) - i, s)
  <2>1. /\ Len(g) = Len(s) + 1 - (i + 1)
        /\ SameEnd(g, Len(s) + 1 - (i + 1), s)
    BY <1>1, SameEndOfRest
  <2> HIDE DEF g
  <2> QED BY <1>1, <2>1
<1>5. RemoveAt(s, i) = f \o g
  BY Zenon DEF RemoveAt
<1> HIDE DEF f, g
<1>6. SameEnd(f \o g, Len(g), g)
  BY <1>2, <1>3, SameEndOfConcat, Zenon
<1>7. SameEnd(f \o g, Len(s) - i, g)
  BY <1>4, <1>6, Zenon
<1>8. SameEnd(f \o g, Len(s) - i, s)
  BY <1>1, <1>4, <1>7, SameEndOfBoth
<1> QED BY <1>5, <1>8, Zenon

LEMMA ReplacedEnd ==
  ASSUME NEW A, NEW s \in Seq(A), NEW i \in 1 .. Len(s), NEW e \in A
  PROVE  SameEnd(ReplaceAt(s, i, e), Len(s) - i, s)
<1> DEFINE t == ReplaceAt(s, i, e)
<1>1. Len(s) \in Nat /\ s \in [1 .. Len(s) -> A]
  BY LenProperties
<1>2. Len(t) = Len(s)
  <2>1. Puts(A, s, i, e, t, Len(s))
    BY Replaced, Zenon
  <2> QED BY <2>1, Zenon DEF Puts
<1>3. \A j \in i + 1 .. Len(s) : t[j] = s[j]
  BY <1>1 DEF ReplaceAt
<1> HIDE DEF t
<1>4. \A k \in 0 .. (Len(s) - i) - 1 : t[Len(t) - k] = s[Len(s) - k]
  <2>1. \A k \in 0 .. (Len(s) - i) - 1 : Len(s) - k \in i + 1 .. Len(s)
    BY <1>1
  <2> QED BY <1>2, <1>3, <2>1, Zenon
<1> QED BY <1>4, Zenon DEF SameEnd, t

LEMMA SkippedEnd ==
  ASSUME NEW A, NEW s \in Seq(A), NEW at \in 1 .. Len(s)
  PROVE  SameEnd(SkipSpace(s, at), Len(SkipSpace(s, at)) - at, s)
<1> DEFINE t == SkipSpace(s, at)
<1>1. Len(s) \in Nat
  BY LenProperties
<1>2. CASE at < Len(s) /\ s[at + 1] = Space
  <2>1. t = RemoveAt(s, at + 1)
    BY <1>2, Zenon DEF SkipSpace
  <2>2. at + 1 \in 1 .. Len(s)
    BY <1>1, <1>2
  <2>3. Len(RemoveAt(s, at + 1)) = Len(s) - 1
    BY <2>2, Removed, Zenon
  <2>4. SameEnd(RemoveAt(s, at + 1), Len(s) - (at + 1), s)
    BY <2>2, RemovedEnd, Zenon
  <2> HIDE DEF t
  <2>5. Len(t) - at = Len(s) - (at + 1)
    BY <1>1, <2>1, <2>3
  <2> QED BY <2>1, <2>4, <2>5, Zenon DEF t
<1>3. CASE ~ (at < Len(s) /\ s[at + 1] = Space)
  <2>1. t = s
    BY <1>3, Zenon DEF SkipSpace
  <2> QED BY <2>1, Zenon DEF SameEnd
<1> QED BY <1>2, <1>3

(* The invariant.  A letter of the text is the number of its place, and what *)
(* lies behind r is the end of the text as it was.                           *)
Numbered == \A i \in 1 .. Len(text) : text[i] \in Letters => text[i] = i

Rest(b, r) == SameEnd(b, Len(b) - r, text) /\ Len(text) >= Len(b) - r

Splits(b, p) ==
  /\ b[p] = Newline
  /\ b[p - 1] \in Letters /\ b[p + 1] \in Letters
  /\ b[p + 1] = b[p - 1] + 1

FullLine(b, p) ==
  /\ p > length
  /\ \A q \in (p - length + 1) .. (p - 1) : b[q] \notin {Space, Hyphen}

Kept(b) == \A p \in 2 .. Len(b) - 1 : Splits(b, p) => FullLine(b, p)

(* The scan has passed over no break, except in the first place of a line.   *)
NoGap ==
  old = remainder /\ new # remainder =>
    \A q \in remainder + 2 .. (IF new = NULL THEN Len(buf) ELSE new - 1) :
      buf[q] \notin {Space, Hyphen}

WordsInv ==
  /\ InkInv
  /\ Numbered
  /\ pc \in {"wrap", "spaces"} => Rest(buf, remainder)
  /\ pc = "spaces" => NoGap /\ Kept(buf)

LEMMA LetterPlace ==
  ASSUME NEW b, NEW r \in Nat, Len(b) \in Nat, Len(text) \in Nat,
         Numbered, Rest(b, r), NEW j \in r + 1 .. Len(b), b[j] \in Letters
  PROVE  b[j] = j + (Len(text) - Len(b))
<1> DEFINE k == Len(b) - j
           m == Len(text)
           n == Len(b)
<1>1. m \in Nat /\ n \in Nat /\ j \in Nat /\ m >= n - r /\ j <= n /\ j > r
  BY DEF Rest
<1>2. k \in 0 .. (n - r) - 1 /\ n - k = j
  BY <1>1
<1>3. m - k \in 1 .. m /\ m - k = j + (m - n)
  BY <1>1
<1>4. b[n - k] = text[m - k]
  BY <1>2, Zenon DEF Rest, SameEnd
<1>5. text[m - k] \in Letters
  BY <1>2, <1>4, Zenon
<1>6. text[m - k] = m - k
  BY <1>3, <1>5, Zenon DEF Numbered
<1> QED BY <1>2, <1>3, <1>4, <1>6, Zenon

(* Where nothing has been broken no newline is within a word. *)
LEMMA RestIsWhole ==
  ASSUME NEW b, NEW r \in Nat, Len(b) \in Nat, Len(text) \in Nat,
         Numbered, Rest(b, r), NEW p \in r + 2 .. Len(b) - 1
  PROVE  ~ Splits(b, p)
<1> SUFFICES ASSUME Splits(b, p) PROVE FALSE
  OBVIOUS
<1>1. p - 1 \in r + 1 .. Len(b) /\ p + 1 \in r + 1 .. Len(b)
  OBVIOUS
<1>2. \A j \in r + 1 .. Len(b) :
        b[j] \in Letters => b[j] = j + (Len(text) - Len(b))
  BY LetterPlace
<1>3. /\ b[p - 1] = (p - 1) + (Len(text) - Len(b))
      /\ b[p + 1] = (p + 1) + (Len(text) - Len(b))
      /\ b[p + 1] = b[p - 1] + 1
  BY <1>1, <1>2, Zenon DEF Splits
<1> QED BY <1>3

LEMMA NextBreakIsNext ==
  ASSUME NEW A, buf \in Seq(A), NEW from \in Nat,
         NEW q \in from + 1 .. (IF NextBreak(from) = NULL THEN Len(buf)
                                ELSE NextBreak(from) - 1)
  PROVE  buf[q] \notin {Space, Hyphen}
<1> DEFINE found == {p \in from .. (Len(buf) - 1) :
                       buf[p + 1] \in {Space, Hyphen}}
           p == Min(found)
<1>1. NextBreak(from) = IF found = {} THEN NULL
                        ELSE IF buf[p + 1] = Hyphen THEN p + 1 ELSE p
  BY DEF NextBreak
<1>2. Len(buf) \in Nat
  BY LenProperties
<1>3. ASSUME found # {}
      PROVE  p \in from .. (Len(buf) - 1) /\ \A k \in found : p <= k
  <2>1. found \subseteq Nat
    BY <1>2
  <2>2. \E m \in found : \A k \in found : m <= k
    BY <1>3, <2>1, Least, Zenon
  <2>3. p \in found /\ \A k \in found : p <= k
    BY <2>2 DEF Min
  <2> QED BY <2>3
<1>4. q \in from + 1 .. Len(buf) /\ (found # {} => q <= p)
  <2> HIDE DEF found, p
  <2>1. CASE found = {}
    <3>1. NextBreak(from) = NULL
      BY <1>1, <2>1
    <3> QED BY <2>1, <3>1
  <2>2. CASE found # {}
    <3>1. p \in from .. (Len(buf) - 1)
      BY <1>3, <2>2
    <3>2. NextBreak(from) \in {p, p + 1} /\ NextBreak(from) # NULL
      BY <1>1, <2>2, <3>1 DEF NULL
    <3> QED BY <1>2, <3>1, <3>2
  <2> QED BY <2>1, <2>2
<1>5. SUFFICES ASSUME buf[q] \in {Space, Hyphen} PROVE FALSE
  OBVIOUS
<1>6. q - 1 \in from .. (Len(buf) - 1) /\ (q - 1) + 1 = q
  BY <1>2, <1>4
<1>7. q - 1 \in found
  BY <1>5, <1>6
<1>8. p <= q - 1 /\ p \in Nat /\ q <= p
  <2>1. found # {}
    BY <1>7
  <2> HIDE DEF found, p
  <2> QED BY <1>2, <1>3, <1>4, <1>7, <2>1
<1> HIDE DEF found, p
<1> QED BY <1>4, <1>8

(* A line is broken off, with what is before and behind the break kept.      *)
Joins(c, n) ==
  /\ Len(c) \in Nat /\ n \in 1 .. Len(c) /\ n <= Len(buf) /\ remainder < n
  /\ c[n] = Newline
  /\ \A j \in 1 .. n - 1 : c[j] = buf[j]
  /\ SameEnd(c, Len(c) - n, buf)
  /\ Len(c) - Len(buf) <= n - remainder

LEMMA KeptGrows ==
  ASSUME Strings, Numbered, Rest(buf, remainder), Kept(buf),
         NEW c, NEW n, Joins(c, n),
         n < Len(c) /\ Splits(c, n) => FullLine(c, n)
  PROVE  Rest(c, n) /\ Kept(c)
<1>1. /\ length \in Nat \ {0} /\ Len(buf) \in Nat /\ Len(text) \in Nat
      /\ remainder \in Nat /\ Len(c) \in Nat /\ n \in Nat
      /\ n >= 1 /\ n <= Len(c) /\ n <= Len(buf) /\ remainder < n
      /\ Len(c) - Len(buf) <= n - remainder
  BY WidthsArePositive, LenProperties DEF Strings, Joins
<1>2. Rest(c, n)
  <2>1. /\ Len(c) - n <= Len(buf) - remainder
        /\ Len(c) - n \in Int /\ Len(buf) - remainder \in Int
    BY <1>1
  <2>2. SameEnd(c, Len(c) - n, buf) /\ SameEnd(buf, Len(buf) - remainder, text)
    BY Zenon DEF Joins, Rest
  <2>3. SameEnd(c, Len(c) - n, text)
    BY <2>1, <2>2, SameEndOfBoth
  <2>4. Len(text) >= Len(c) - n
    BY <1>1, <2>1 DEF Rest
  <2> QED BY <2>3, <2>4, Zenon DEF Rest
<1>3. Newline \notin Letters
  BY TextAssumption DEF Letters
<1>4. \A j \in 1 .. n - 1 : c[j] = buf[j]
  BY Zenon DEF Joins
<1>5. c[n] = Newline
  BY Zenon DEF Joins
<1>6. ASSUME NEW p \in 2 .. Len(c) - 1, Splits(c, p) PROVE FullLine(c, p)
  <2>1. CASE p >= n + 2
    <3>1. p \in n + 2 .. Len(c) - 1
      BY <1>1, <2>1
    <3>2. ~ Splits(c, p)
      BY <1>1, <1>2, <3>1, RestIsWhole
    <3> QED BY <1>6, <3>2, Zenon
  <2>2. CASE p = n + 1
    <3>1. p - 1 = n
      BY <1>1, <2>2
    <3> QED BY <1>3, <1>5, <1>6, <3>1, Zenon DEF Splits
  <2>3. CASE p = n
    BY <1>1, <1>6, <2>3
  <2>4. CASE p = n - 1
    <3>1. p + 1 = n
      BY <1>1, <2>4
    <3> QED BY <1>3, <1>5, <1>6, <3>1, Zenon DEF Splits
  <2>5. CASE p < n - 1
    <3>1. /\ p \in 2 .. Len(buf) - 1 /\ p \in 1 .. n - 1
          /\ p - 1 \in 1 .. n - 1 /\ p + 1 \in 1 .. n - 1
      BY <1>1, <2>5
    <3>2. Splits(buf, p)
      BY <1>4, <1>6, <3>1, Zenon DEF Splits
    <3>3. FullLine(buf, p)
      BY <3>1, <3>2, Zenon DEF Kept
    <3>4. \A q \in (p - length + 1) .. (p - 1) : q \in 1 .. n - 1
      <4>1. p > length
        BY <3>3 DEF FullLine
      <4> QED BY <1>1, <2>5, <4>1
    <3> QED BY <1>4, <3>3, <3>4, Zenon DEF FullLine
  <2> QED BY <1>1, <2>1, <2>2, <2>3, <2>4, <2>5
<1> QED BY <1>2, <1>6, Zenon DEF Kept

(* At the full length: a word may be split, and it fills the line. *)
LEMMA JoinsFullLine ==
  ASSUME Strings, Scanning, NoGap, Long, ~ Fits, old = remainder
  PROVE  LET n == remainder + length + 1
             c == InsertAt(buf, n, Newline)
         IN  Joins(c, n) /\ FullLine(c, n)
<1> DEFINE A == ToSet(text) \cup {Newline}
           n == remainder + length + 1
           c == InsertAt(buf, n, Newline)
<1>1. /\ length \in Nat \ {0} /\ Len(buf) \in Nat /\ remainder \in Nat
      /\ buf \in Seq(A) /\ Newline \in A
  BY WidthsArePositive, LenProperties DEF Strings
<1>2. /\ n \in 1 .. Len(buf) + 1 /\ n \in 1 .. Len(buf) /\ n <= Len(buf)
      /\ remainder < n /\ n - remainder >= 1 /\ n \in Nat
  BY <1>1 DEF Long
<1>3. \A q \in remainder + 2 .. remainder + length :
        buf[q] \notin {Space, Hyphen}
  <2>1. new # remainder
    BY <1>1 DEF Fits, NULL
  <2>2. \A q \in remainder + 2 .. remainder + length :
          q \in remainder + 2 .. (IF new = NULL THEN Len(buf) ELSE new - 1)
    <3>1. CASE new = NULL
      BY <1>1, <3>1 DEF Long
    <3>2. CASE new # NULL
      <4>1. new \in Nat /\ new - remainder > length
        BY <1>1, <3>2 DEF Fits, Scanning
      <4> QED BY <1>1, <3>2, <4>1
    <3> QED BY <3>1, <3>2
  <2> QED BY <2>1, <2>2, Zenon DEF NoGap
<1>4. /\ n - length + 1 = remainder + 2 /\ n - 1 = remainder + length
      /\ n > length
  BY <1>1
<1> HIDE DEF A
<1>5. Puts(A, buf, n, Newline, c, Len(buf) + 1)
  BY <1>1, <1>2, Inserted, Zenon
<1>6. SameEnd(c, Len(buf) + 1 - n, buf)
  BY <1>1, <1>2, InsertedEnd, Zenon
<1> HIDE DEF n, c
<1>7. /\ Len(c) = Len(buf) + 1 /\ c[n] = Newline
      /\ \A j \in 1 .. n - 1 : c[j] = buf[j]
  BY <1>5, Zenon DEF Puts
<1>8. /\ Len(c) \in Nat /\ n \in 1 .. Len(c) /\ Len(c) - n = Len(buf) + 1 - n
      /\ Len(c) - Len(buf) <= n - remainder
  BY <1>1, <1>2, <1>7
<1>9. Joins(c, n)
  <2>1. SameEnd(c, Len(c) - n, buf)
    BY <1>6, <1>8, Zenon
  <2> QED BY <1>2, <1>7, <1>8, <2>1, Zenon DEF Joins
<1>10. FullLine(c, n)
  <2>1. \A q \in (n - length + 1) .. (n - 1) :
          /\ q \in remainder + 2 .. remainder + length
          /\ q \in 1 .. n - 1
    BY <1>1, <1>4
  <2> QED BY <1>3, <1>4, <1>7, <2>1, Zenon DEF FullLine
<1> QED BY <1>9, <1>10, Zenon DEF c, n

(* At a break: what is before it or behind it is no letter, or they are not  *)
(* neighbours in the text.                                                   *)
LEMMA JoinsAtBreak ==
  ASSUME Strings, Scanning, Breaks, Numbered, Rest(buf, remainder), Long,
         old # remainder
  PROVE  /\ Joins(Broken, old + 1)
         /\ old + 1 < Len(Broken) => ~ Splits(Broken, old + 1)
<1> DEFINE A == ToSet(text) \cup {Newline}
           n == old + 1
           b == IF buf[old] = Hyphen THEN InsertAt(buf, n, Newline)
                                     ELSE ReplaceAt(buf, n, Newline)
           c == SkipSpace(b, n)
           d == Len(text) - Len(buf)
<1>1. /\ length \in Nat \ {0} /\ Len(buf) \in Nat /\ Len(text) \in Nat
      /\ remainder \in Nat /\ buf \in Seq(A) /\ Newline \in A
  BY WidthsArePositive, LenProperties DEF Strings
<1>2. /\ old \in remainder + 1 .. Len(buf) /\ n \in 1 .. Len(buf)
      /\ n \in 1 .. Len(buf) + 1 /\ n \in Nat /\ n <= Len(buf)
      /\ remainder < n /\ n - remainder > 1 /\ n - 1 = old
      /\ old \in 1 .. n - 1
  BY <1>1 DEF Long, Scanning
<1>3. Broken = c
  BY Zenon DEF Broken
<1> HIDE DEF A
<1>4. Puts(A, buf, n, Newline, InsertAt(buf, n, Newline), Len(buf) + 1)
  BY <1>1, <1>2, Inserted, Zenon
<1>5. Puts(A, buf, n, Newline, ReplaceAt(buf, n, Newline), Len(buf))
  BY <1>1, <1>2, Replaced, Zenon
<1>6. SameEnd(InsertAt(buf, n, Newline), Len(buf) + 1 - n, buf)
  BY <1>1, <1>2, InsertedEnd, Zenon
<1>7. SameEnd(ReplaceAt(buf, n, Newline), Len(buf) - n, buf)
  BY <1>1, <1>2, ReplacedEnd, Zenon
<1>8. /\ b \in Seq(A) /\ b[n] = Newline
      /\ \A j \in 1 .. n - 1 : b[j] = buf[j]
      /\ \/ buf[old] = Hyphen /\ Len(b) = Len(buf) + 1
         \/ buf[old] # Hyphen /\ Len(b) = Len(buf)
      /\ SameEnd(b, Len(b) - n, buf)
  <2>1. CASE buf[old] = Hyphen
    <3>1. b = InsertAt(buf, n, Newline)
      BY <2>1, Zenon
    <3> HIDE DEF b, n
    <3>2. /\ b \in Seq(A) /\ b[n] = Newline /\ Len(b) = Len(buf) + 1
          /\ \A j \in 1 .. n - 1 : b[j] = buf[j]
      BY <1>4, <3>1, Zenon DEF Puts
    <3>3. SameEnd(b, Len(b) - n, buf)
      <4>1. Len(b) - n = Len(buf) + 1 - n
        BY <1>1, <1>2, <3>2
      <4>2. SameEnd(b, Len(buf) + 1 - n, buf)
        BY <1>6, <3>1
      <4> QED BY <4>1, <4>2
    <3> QED BY <2>1, <3>2, <3>3, Zenon
  <2>2. CASE buf[old] # Hyphen
    <3>1. b = ReplaceAt(buf, n, Newline)
      BY <2>2, Zenon
    <3> HIDE DEF b, n
    <3> QED BY <1>5, <1>7, <2>2, <3>1, Zenon DEF Puts
  <2> QED BY <2>1, <2>2, Zenon
<1> HIDE DEF b, n
<1>9. n \in 1 .. Len(b)
  BY <1>1, <1>2, <1>8
<1>10. /\ Len(c) \in {Len(b) - 1, Len(b)} /\ n <= Len(c)
       /\ \A j \in 1 .. n : c[j] = b[j]
  BY <1>8, <1>9, Skipped, Zenon
<1>11. SameEnd(c, Len(c) - n, b)
  BY <1>8, <1>9, SkippedEnd, Zenon
<1> HIDE DEF c
<1>12. /\ Len(c) \in Nat /\ n \in 1 .. Len(c)
       /\ Len(c) - n \in Int /\ Len(b) - n \in Int /\ Len(c) - n <= Len(b) - n
       /\ Len(c) - Len(buf) <= n - remainder
       /\ n \in 1 .. n /\ \A j \in 1 .. n - 1 : j \in 1 .. n
  BY <1>1, <1>2, <1>8, <1>10
<1>13. SameEnd(c, Len(c) - n, buf)
  BY <1>8, <1>11, <1>12, SameEndOfBoth
<1>14. \A j \in 1 .. n - 1 : c[j] = buf[j]
  BY <1>8, <1>10, <1>12, Zenon
<1>15. Joins(c, n)
  <2>1. c[n] = Newline
    BY <1>8, <1>10, <1>12, Zenon
  <2> QED BY <1>2, <1>12, <1>13, <1>14, <2>1, Zenon DEF Joins
<1>16. n < Len(c) => ~ Splits(c, n)
  <2> SUFFICES ASSUME n < Len(c), Splits(c, n) PROVE FALSE
    OBVIOUS
  <2>1. c[old] \in Letters /\ c[n + 1] \in Letters /\ c[n + 1] = c[old] + 1
    BY <1>2, Zenon DEF Splits
  <2>2. Hyphen \notin Letters /\ Newline \notin Letters
    BY TextAssumption DEF Letters
  <2>3. buf[old] = c[old]
    BY <1>2, <1>14, Zenon
  <2>4. Len(b) = Len(buf)
    BY <1>8, <2>1, <2>2, <2>3, Zenon
  <2>5. \A j \in remainder + 1 .. Len(buf) :
          buf[j] \in Letters => buf[j] = j + (Len(text) - Len(buf))
    BY <1>1, LetterPlace
  <2>6. c[old] = old + d
    BY <1>2, <2>1, <2>3, <2>5
  <2> DEFINE k == Len(c) - (n + 1)
  <2>7. /\ k \in 0 .. (Len(c) - n) - 1 /\ Len(c) - k = n + 1
        /\ Len(buf) - k \in remainder + 1 .. Len(buf)
        /\ Len(buf) - k \in {n + 1, n + 2}
    <3>1. \A x, y, r \in Nat :
            x \in {y - 1, y} /\ n < x /\ r < n =>
              /\ x - (n + 1) \in 0 .. (x - n) - 1 /\ x - (x - (n + 1)) = n + 1
              /\ y - (x - (n + 1)) \in r + 1 .. y
              /\ y - (x - (n + 1)) \in {n + 1, n + 2}
      BY <1>2
    <3>2. /\ Len(c) \in {Len(buf) - 1, Len(buf)} /\ remainder < n
          /\ Len(c) \in Nat /\ Len(buf) \in Nat /\ remainder \in Nat
      BY <1>1, <1>2, <1>10, <1>12, <2>4
    <3> QED BY <3>1, <3>2, Zenon
  <2>8. c[Len(c) - k] = buf[Len(buf) - k]
    BY <1>13, <2>7, Zenon DEF SameEnd
  <2> HIDE DEF k
  <2>9. c[n + 1] = (Len(buf) - k) + d
    BY <2>1, <2>5, <2>7, <2>8
  <2> QED BY <1>1, <1>2, <2>1, <2>6, <2>7, <2>9
<1> QED BY <1>3, <1>15, <1>16, Zenon DEF n

LEMMA WordsInit == Init => WordsInv
<1> SUFFICES ASSUME Init PROVE WordsInv
  OBVIOUS
<1>1. InkInv
  BY InkInit
<1>2. buf = text /\ remainder = 0 /\ pc = "wrap" /\ Len(text) \in Nat
  <2>1. Strings
    BY <1>1 DEF InkInv, WrapInv
  <2> QED BY <2>1, LenProperties DEF Init, Strings
<1>3. Numbered
  <2>1. PICK n \in 0 .. MaxText :
          \E f \in [1 .. n -> {0, Space, Hyphen, Newline}] :
            text = [i \in 1 .. n |-> IF f[i] = 0 THEN i ELSE f[i]]
    BY Zenon DEF Init
  <2>2. PICK f \in [1 .. n -> {0, Space, Hyphen, Newline}] :
          text = [i \in 1 .. n |-> IF f[i] = 0 THEN i ELSE f[i]]
    BY <2>1
  <2>3. n \in Nat
    OBVIOUS
  <2>4. Len(text) = n
    BY <2>2, <2>3
  <2>5. \A i \in 1 .. n : text[i] = i \/ text[i] \in {Space, Hyphen, Newline}
    BY <2>2
  <2>6. \A i \in 1 .. n : text[i] \in Letters => text[i] = i
    BY <2>5, TextAssumption DEF Letters
  <2> QED BY <2>4, <2>6 DEF Numbered
<1>4. Rest(buf, remainder)
  BY <1>2 DEF Rest, SameEnd
<1> QED BY <1>1, <1>2, <1>3, <1>4 DEF WordsInv

LEMMA WordsStep == WordsInv /\ [Next]_vars => WordsInv'
<1> SUFFICES ASSUME WordsInv, [Next]_vars PROVE WordsInv'
  OBVIOUS
<1>1. InkInv /\ InkInv' /\ WrapInv /\ Numbered
  BY InkStep DEF WordsInv, InkInv
<1>2. Numbered'
  <2>1. text' = text
    BY DEF Next, vars, Wrap, Scan, BreakAtSpace, BreakLine, Tried, Cut, CutDone,
           Dangle, Show, arguments
  <2> QED BY <1>1, <2>1 DEF Numbered
<1>3. /\ pc' \in {"wrap", "spaces"} => Rest(buf, remainder)'
      /\ pc' = "spaces" => NoGap' /\ Kept(buf)'
  <2>1. CASE Wrap
    <3>1. /\ pc = "wrap" /\ text' = text /\ buf' = buf /\ length' = length
          /\ old' = old /\ new' = new /\ remainder' = remainder
      BY <2>1 DEF Wrap, arguments
    <3>2. new = remainder /\ remainder = 0 /\ Rest(buf, remainder) /\ Strings
      BY <1>1, <3>1 DEF WordsInv, WrapInv
    <3>3. Kept(buf)
      <4>1. Len(buf) \in Nat /\ Len(text) \in Nat /\ 0 \in Nat
        BY <3>2, LenProperties DEF Strings
      <4>2. \A p \in 0 + 2 .. Len(buf) - 1 : ~ Splits(buf, p)
        BY <1>1, <3>2, <4>1, RestIsWhole
      <4> QED BY <4>2 DEF Kept
    <3>4. Kept(buf)' /\ Rest(buf, remainder)'
      BY <3>1, <3>2, <3>3 DEF Kept, Splits, FullLine, Rest, SameEnd
    <3> QED BY <3>1, <3>2, <3>4 DEF NoGap
  <2>2. CASE Scan
    <3>1. /\ pc = "spaces" /\ text' = text /\ buf' = buf /\ length' = length
          /\ old' = new /\ new' = NextBreak(new + 1) /\ remainder' = remainder
          /\ Fits
      BY <2>2 DEF Scan, arguments
    <3>2. Rest(buf, remainder) /\ Kept(buf) /\ Strings /\ Scanning
      BY <1>1, <3>1 DEF WordsInv, WrapInv
    <3>3. NoGap'
      <4>1. buf \in Seq(ToSet(text) \cup {Newline}) /\ new \in Nat
            /\ new + 1 \in Nat
        BY <3>1, <3>2, LenProperties DEF Strings, Scanning, Fits
      <4>2. \A q \in (new + 1) + 1 .. (IF NextBreak(new + 1) = NULL
                                       THEN Len(buf)
                                       ELSE NextBreak(new + 1) - 1) :
              buf[q] \notin {Space, Hyphen}
        BY <4>1, NextBreakIsNext
      <4>3. old' = remainder' => (new + 1) + 1 = remainder' + 2
        BY <3>1, <4>1
      <4> QED BY <3>1, <4>2, <4>3 DEF NoGap
    <3>4. Kept(buf)' /\ Rest(buf, remainder)'
      BY <3>1, <3>2 DEF Kept, Splits, FullLine, Rest, SameEnd
    <3> QED BY <3>3, <3>4
  <2>3. CASE BreakAtSpace
    <3> DEFINE n == IF old = remainder THEN remainder + length + 1 ELSE old + 1
    <3>1. /\ pc = "spaces" /\ text' = text /\ buf' = Broken /\ Long /\ ~ Fits
          /\ length' = length /\ remainder' = n
          /\ old' = remainder' /\ new' = remainder'
      BY <2>3, Zenon DEF BreakAtSpace, BreakLine, arguments
    <3>2. /\ Rest(buf, remainder) /\ Kept(buf) /\ NoGap /\ Strings /\ Scanning
          /\ Breaks
      BY <1>1, <3>1 DEF WordsInv, WrapInv, InkInv
    <3>3. Joins(Broken, n) /\ (n < Len(Broken) /\ Splits(Broken, n)
                                 => FullLine(Broken, n))
      <4>1. CASE old = remainder
        <5>1. /\ n = remainder + length + 1
              /\ Broken = InsertAt(buf, remainder + length + 1, Newline)
          BY <4>1, Zenon DEF Broken
        <5> HIDE DEF n
        <5>2. LET m == remainder + length + 1
                  c == InsertAt(buf, m, Newline)
              IN  Joins(c, m) /\ FullLine(c, m)
          BY <3>1, <3>2, <4>1, JoinsFullLine
        <5> QED BY <5>1, <5>2, Zenon
      <4>2. CASE old # remainder
        <5>1. n = old + 1
          BY <4>2
        <5> HIDE DEF n
        <5>2. /\ Joins(Broken, old + 1)
              /\ old + 1 < Len(Broken) => ~ Splits(Broken, old + 1)
          BY <1>1, <3>1, <3>2, <4>2, JoinsAtBreak
        <5> QED BY <5>1, <5>2, Zenon
      <4> QED BY <4>1, <4>2
    <3> HIDE DEF n
    <3>4. Rest(Broken, n) /\ Kept(Broken)
      BY <1>1, <3>2, <3>3, KeptGrows
    <3>5. Kept(buf)' /\ Rest(buf, remainder)'
      BY <3>1, <3>4 DEF Kept, Splits, FullLine, Rest, SameEnd
    <3> QED BY <3>1, <3>5 DEF NoGap
  <2>4. CASE Tried \/ Cut \/ CutDone \/ Dangle \/ Show
    <3>1. pc' \notin {"wrap", "spaces"}
      BY <2>4 DEF Tried, Cut, CutDone, Dangle, Show
    <3> QED BY <3>1
  <2>5. CASE UNCHANGED vars
    <3>1. /\ text' = text /\ buf' = buf /\ length' = length /\ pc' = pc
          /\ old' = old /\ new' = new /\ remainder' = remainder
      BY <2>5 DEF vars, arguments
    <3>2. /\ pc \in {"wrap", "spaces"} => Rest(buf, remainder)
          /\ pc = "spaces" => NoGap /\ Kept(buf)
      BY DEF WordsInv
    <3> QED BY <3>1, <3>2
            DEF NoGap, Kept, Splits, FullLine, Rest, SameEnd
  <2> QED BY <2>1, <2>2, <2>3, <2>4, <2>5, Zenon DEF Next
<1> QED BY <1>1, <1>2, <1>3 DEF WordsInv

(* Wrapping loses no letter and no hyphen and changes the order of none, for *)
(* texts of every length: what a newline overwrites is a space, and so is    *)
(* what is skipped behind it.  While breaking at spaces a word is split only *)
(* if it fills a line that has no break other than in its first place        *)
(* (util.c:108, 165, 169).                                                   *)
THEOREM WrappingKeepsText == Spec => []TextKept
<1>1. WordsInv => TextKept
  <2> SUFFICES ASSUME WordsInv PROVE TextKept
    OBVIOUS
  <2>1. InkKept
    BY DEF WordsInv, InkInv
  <2>2. pc = "spaces" => Kept(buf)
    BY DEF WordsInv
  <2>3. WordsKept
    BY <2>2 DEF WordsKept, Kept, Splits, FullLine, SplitsWord
  <2> QED BY <2>1, <2>3 DEF TextKept
<1> QED BY <1>1, WordsInit, WordsStep, PTL DEF Spec
=================================================================================
