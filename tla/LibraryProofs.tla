----------------------------- MODULE LibraryProofs ----------------------------
(***************************************************************************)
(* Theorems about the two parts below the clients: the configuration file,  *)
(* for any set of client threads (KeyFile), and the list library, for any   *)
(* memory and any data (LinkedList).                                        *)
(*                                                                         *)
(* The file.  Whoever may still read or count holds a reference.  Some      *)
(* threads end without giving theirs back, so the counter is not the number *)
(* of holders, but it is never less (Enough); when it reaches zero nobody   *)
(* holds one, and from then on nobody reads.                                *)
(*                                                                         *)
(* The list.  Its chain can be counted through: there is a function place   *)
(* from the cells to the numbers that next raises by one and prev lowers by *)
(* one (Ordered).  Each exchange of pointers in LL.c comes with the new     *)
(* place function, without induction along the chain.  From it follows what *)
(* each function does to the sequence of the data and to the place of       *)
(* current (Represents), and from that the steps of List.                   *)
(***************************************************************************)
EXTENDS LinkedList, KeyFile, SelectionProofs, SequencesExt, FiniteSetTheorems, TLAPS

-----------------------------------------------------------------------------
(* The configuration file.                                                   *)

Holds == {"waiting", "asking", "reading", "counting"}
Holders == {r \in Readers : pc[r] \in Holds}

Enough == Cardinality(Holders) <= refcount

(* Who closes is alone and does it once. *)
OneCloser ==
  /\ \A r \in Readers : pc[r] = "closing" =>
       open /\ refcount = 0 /\ \A q \in Readers \ {r} : pc[q] = "done"
  /\ ~ open => refcount = 0 /\ \A r \in Readers : pc[r] = "done"

FileInv == TypeOK /\ Enough /\ OneCloser /\ NoReadAfterClose

LEMMA ReadersFinite == IsFiniteSet(Readers) /\ Cardinality(Readers) = Cardinality(Threads) + 1
  BY ThreadsAssumption, FS_AddElement DEF Readers

LEMMA HoldersFinite == IsFiniteSet(Holders) /\ Cardinality(Holders) \in Nat
<1>1. Holders \subseteq Readers
  BY DEF Holders
<1> QED
  BY <1>1, ReadersFinite, FS_Subset, FS_CardinalityType

(* As long as somebody holds a reference the file is open and nobody is      *)
(* about to close it.                                                       *)
LEMMA HolderKeepsOpen ==
  ASSUME FileInv, NEW r \in Holders
  PROVE  refcount >= 1 /\ open /\ \A q \in Readers : pc[q] # "closing"
<1>1. r \in Readers /\ pc[r] \notin {"closing", "done"}
  BY DEF Holders, Holds
<1>2. Cardinality(Holders) # 0
  BY HoldersFinite, FS_EmptySet
<1>3. refcount >= 1
  BY <1>2, HoldersFinite DEF FileInv, Enough, TypeOK
<1>4. open
  BY <1>1 DEF FileInv, OneCloser
<1>5. ASSUME NEW q \in Readers, pc[q] = "closing" PROVE FALSE
  BY <1>3, <1>5 DEF FileInv, OneCloser, TypeOK
<1> QED
  BY <1>3, <1>4, <1>5

LEMMA InitFile == FileInit => FileInv
<1> SUFFICES ASSUME FileInit PROVE FileInv
  OBVIOUS
<1>3. Cardinality(Threads) \in Nat
  BY ThreadsAssumption, FS_CardinalityType
<1>a. refcount \in Nat
  BY <1>3 DEF FileInit
<1>b. pc \in [Readers -> Places]
  BY DEF FileInit, Places
<1>1. TypeOK
  BY <1>a, <1>b DEF FileInit, TypeOK
<1>2. Holders = Readers
  BY DEF FileInit, Holders, Holds
<1>4. Enough
  BY <1>2, <1>3, ReadersFinite DEF Enough, FileInit
<1>5. OneCloser /\ NoReadAfterClose
  BY DEF FileInit, OneCloser, NoReadAfterClose
<1> QED
  BY <1>1, <1>4, <1>5 DEF FileInv

(* Steps of a holder that keeps or drops its reference without counting. *)
LEMMA HolderMoves ==
  ASSUME FileInv, NEW r \in Readers, NEW to \in Holds \cup {"done"}, pc[r] \in Holds,
         pc' = [pc EXCEPT ![r] = to], UNCHANGED <<group, refcount, open>>,
         misread' = misread \/ misread' = (misread \/ ~ open)
  PROVE  FileInv'
<1>1. r \in Holders
  BY DEF Holders
<1>2. open /\ \A q \in Readers : pc[q] # "closing"
  BY <1>1, HolderKeepsOpen
<1>3. ~ misread'
  BY <1>2 DEF FileInv, NoReadAfterClose
<1>4. TypeOK'
  BY <1>3 DEF FileInv, TypeOK, Holds, Places
<1>5. OneCloser'
  BY <1>2 DEF FileInv, TypeOK, OneCloser, Holds
<1>6. Holders' \subseteq Holders
  BY DEF Holders, FileInv, TypeOK
<1>7. Cardinality(Holders') <= Cardinality(Holders) /\ Cardinality(Holders') \in Nat
  BY <1>6, HoldersFinite, FS_Subset, FS_CardinalityType
<1>8. Enough'
  BY <1>7, HoldersFinite DEF FileInv, Enough, TypeOK
<1> QED
  BY <1>3, <1>4, <1>5, <1>8 DEF FileInv, NoReadAfterClose

LEMMA CountingStep ==
  ASSUME FileInv, NEW r \in Readers, DecCount(r)
  PROVE  FileInv'
<1>0. pc \in [Readers -> Places] /\ refcount \in Nat
  BY DEF FileInv, TypeOK
<1>1. r \in Holders
  BY DEF Holders, Holds, DecCount
<1>2. refcount >= 1 /\ open /\ \A q \in Readers : pc[q] # "closing"
  BY <1>1, HolderKeepsOpen
<1>3. refcount' = refcount - 1 /\ refcount' \in Nat /\ UNCHANGED <<group, open, misread>>
      /\ pc' = [pc EXCEPT ![r] = IF refcount' = 0 THEN "closing" ELSE "done"]
  BY <1>0, <1>2 DEF DecCount
<1>4. Holders' = Holders \ {r}
  BY <1>0, <1>3 DEF Holders, Holds
<1>5. Cardinality(Holders') = Cardinality(Holders) - 1 /\ IsFiniteSet(Holders')
  BY <1>1, <1>4, HoldersFinite, FS_RemoveElement
<1>6. Enough'
  BY <1>0, <1>3, <1>5, HoldersFinite DEF FileInv, Enough
<1>7. TypeOK'
  BY <1>0, <1>3 DEF FileInv, TypeOK, Places
<1>8. OneCloser'
  <2>1. CASE refcount' = 0
    <3>1. Holders' = {}
      <4>1. Cardinality(Holders') \in Nat
        BY <1>5, FS_CardinalityType
      <4> QED
        BY <2>1, <1>5, <1>6, <4>1, FS_EmptySet DEF Enough
    <3>2. \A q \in Readers \ {r} : pc'[q] = "done"
      BY <1>0, <1>2, <1>3, <3>1 DEF Holders, Holds, Places
    <3> QED
      BY <1>0, <1>2, <1>3, <2>1, <3>2 DEF OneCloser
  <2>2. CASE refcount' # 0
    BY <1>0, <1>2, <1>3, <2>2 DEF OneCloser
  <2> QED
    BY <2>1, <2>2
<1> QED
  BY <1>3, <1>6, <1>7, <1>8 DEF FileInv, NoReadAfterClose

LEMMA ClosingStep ==
  ASSUME FileInv, NEW r \in Readers, Close(r)
  PROVE  FileInv'
<1>0. pc \in [Readers -> Places] /\ refcount \in Nat /\ misread' = misread
  BY DEF FileInv, TypeOK, Close
<1>1. refcount = 0 /\ \A q \in Readers \ {r} : pc[q] = "done"
  BY DEF FileInv, OneCloser, Close
<1>2. \A q \in Readers : pc'[q] = "done"
  BY <1>0, <1>1 DEF Close
<1>3. TypeOK'
  BY <1>0 DEF FileInv, TypeOK, Close, Places
<1>4. OneCloser'
  BY <1>1, <1>2 DEF OneCloser, Close
<1>5. Holders' = {}
  BY <1>2 DEF Holders, Holds
<1>6. Enough'
  BY <1>1, <1>5, FS_EmptySet DEF Enough, Close
<1> QED
  BY <1>0, <1>3, <1>4, <1>6 DEF FileInv, NoReadAfterClose

LEMMA FileStep == FileInv /\ [FileNext]_file_vars => FileInv'
<1> SUFFICES ASSUME FileInv, [FileNext]_file_vars PROVE FileInv'
  OBVIOUS
<1>1. ASSUME NEW r \in Readers, AskGroup(r) PROVE FileInv'
  <2> DEFINE to == IF group[r] # "absent" THEN "reading"
                   ELSE IF r \in AbsentCounts THEN "counting" ELSE "done"
  <2>1. to \in Holds \cup {"done"} /\ pc[r] \in Holds
    BY <1>1 DEF AskGroup, Holds
  <2> QED
    BY <1>1, <2>1, HolderMoves DEF AskGroup, Reads
<1>2. ASSUME NEW r \in Readers, InitReturns(r) PROVE FileInv'
  <2> DEFINE to == IF group[r] = "good" THEN "counting" ELSE "done"
  <2>1. to \in Holds \cup {"done"} /\ pc[r] \in Holds
    BY <1>2 DEF InitReturns, Holds
  <2> QED
    BY <1>2, <2>1, HolderMoves DEF InitReturns
<1>3. ASSUME NEW r \in Readers, ReadValue(r) PROVE FileInv'
  <2>1. pc' = [pc EXCEPT ![r] = "reading"] /\ "reading" \in Holds /\ pc[r] \in Holds
    BY <1>3 DEF ReadValue, Holds, FileInv, TypeOK
  <2> QED
    BY <1>3, <2>1, HolderMoves DEF ReadValue, Reads
<1>4. ASSUME NEW t \in Threads, Create(t) PROVE FileInv'
  <2>1. t \in Readers /\ "asking" \in Holds /\ pc[t] \in Holds
    BY <1>4 DEF Create, Holds, Readers
  <2> QED
    BY <1>4, <2>1, HolderMoves DEF Create
<1>5. ASSUME NEW r \in Readers, DecCount(r) \/ Close(r) PROVE FileInv'
  BY <1>5, CountingStep, ClosingStep
<1>6. CASE UNCHANGED file_vars
  <2>1. Holders' = Holders
    BY <1>6 DEF Holders, file_vars
  <2>2. TypeOK' /\ OneCloser' /\ NoReadAfterClose'
    BY <1>6 DEF FileInv, TypeOK, OneCloser, NoReadAfterClose, file_vars
  <2>3. Enough'
    BY <1>6, <2>1 DEF FileInv, Enough, file_vars
  <2> QED
    BY <2>2, <2>3 DEF FileInv
<1> QED
  BY <1>1, <1>2, <1>3, <1>4, <1>5, <1>6 DEF FileNext, Advance, Finished

(* No getter of keyfile.c runs on the file after key_file_close, for any     *)
(* number of threads and whatever each finds in the file.                    *)
THEOREM NeverReadAfterClose == FileSpec => []NoReadAfterClose
<1>1. FileInv => NoReadAfterClose
  BY DEF FileInv
<1> QED
  BY <1>1, InitFile, FileStep, PTL DEF FileSpec

(* The file is freed once, when the counter is at zero and every reader has  *)
(* returned from its init.                                                   *)
THEOREM LastReaderCloses == FileSpec => [](TypeOK /\ ClosedByLast)
<1>1. FileInv => TypeOK /\ ClosedByLast
  BY DEF FileInv, OneCloser, ClosedByLast
<1> QED
  BY <1>1, InitFile, FileStep, PTL DEF FileSpec

-----------------------------------------------------------------------------
(* The chain of a list.                                                      *)

(* The structures a list variable may hold, whatever its pointers are. *)
Lists ==
  [next : [Cells -> Cells \cup {None}],
   prev : [Cells -> Cells \cup {None}],
   data : [Cells -> Data \cup {NULL}],
   current : Cells \cup {None},
   used : SUBSET Nodes]

(* The nodes that are allocated, and the two ends. *)
Chain(L) == L.used \cup {"head", "tail"}

(* place counts the cells of the chain from head on. *)
Ordered(L, place) ==
  /\ place \in [Cells -> Int]
  /\ place["head"] = 0 /\ place["tail"] = Cardinality(L.used) + 1
  /\ \A c \in Chain(L) \ {"tail"} :
       /\ L.next[c] \in Chain(L) \ {"head"}
       /\ L.prev[L.next[c]] = c
       /\ place[L.next[c]] = place[c] + 1
  /\ \A c \in Chain(L) \ {"head"} :
       /\ L.prev[c] \in Chain(L) \ {"tail"}
       /\ L.next[L.prev[c]] = c
  /\ \A c \in Chain(L) : place[c] >= 0 /\ place[c] <= Cardinality(L.used) + 1
  /\ \A c, d \in Chain(L) : place[c] = place[d] => c = d
  /\ L.prev["head"] = None /\ L.next["tail"] = None

(* head and tail hold no data; current is in the chain or nowhere. *)
Typed(L) ==
  /\ L \in Lists
  /\ L.data["head"] = NULL /\ L.data["tail"] = NULL
  /\ L.current \in Chain(L) \cup {None}

(* The inductive invariant: the chain can be counted through. *)
Good(L) == Typed(L) /\ \E place : Ordered(L, place)

-----------------------------------------------------------------------------
(* The ends are cells of their own and NULL is none. *)
LEMMA CellNames ==
  /\ Nodes \subseteq Cells /\ "head" \in Cells /\ "tail" \in Cells
  /\ "head" \notin Nodes /\ "tail" \notin Nodes /\ None \notin Cells
  BY NodesAssumption DEF Cells, None

(* No more nodes are in use than there are. *)
LEMMA Counting ==
  ASSUME NEW L \in Lists
  PROVE  /\ IsFiniteSet(L.used) /\ Cardinality(L.used) \in Nat
         /\ Cardinality(L.used) <= Size /\ Size \in Nat
<1>1. L.used \subseteq Nodes
  BY DEF Lists
<1> QED BY <1>1, NodesAssumption, FS_Subset, FS_CardinalityType DEF Size

(* f is what n steps of g make of a. *)
Iterated(f, a, n, g) == f[0] = a /\ \A k \in 1 .. n : f[k] = g[k][f[k - 1]]

(* Such an f exists: what gives a recursive definition its value. *)
LEMMA Iterates ==
  ASSUME NEW X, NEW a \in X, NEW n \in Nat, NEW g \in [1 .. n -> [X -> X]]
  PROVE  \E f \in [0 .. n -> X] : Iterated(f, a, n, g)
<1> DEFINE T == {m \in 0 .. n : \E f \in [0 .. m -> X] : Iterated(f, a, m, g)}
<1>1. 0 \in T
  <2> DEFINE f == [k \in 0 .. 0 |-> a]
  <2>1. f \in [0 .. 0 -> X] /\ Iterated(f, a, 0, g)
    BY DEF Iterated
  <2> HIDE DEF f
  <2>2. 0 \in 0 .. n
    OBVIOUS
  <2> QED BY <2>1, <2>2
<1>2. ASSUME NEW m \in 0 .. n - 1, m \in T PROVE m + 1 \in T
  <2>1. PICK f \in [0 .. m -> X] : Iterated(f, a, m, g)
    BY <1>2
  <2> DEFINE h == [k \in 0 .. m + 1 |-> IF k = m + 1 THEN g[m + 1][f[m]] ELSE f[k]]
  <2>2. h \in [0 .. m + 1 -> X]
    OBVIOUS
  <2>3. h[0] = a
    BY <2>1 DEF Iterated
  <2>4. ASSUME NEW k \in 1 .. m + 1 PROVE h[k] = g[k][h[k - 1]]
    BY <2>1 DEF Iterated
  <2> HIDE DEF h
  <2>5. Iterated(h, a, m + 1, g)
    BY <2>3, <2>4 DEF Iterated
  <2> QED BY <2>2, <2>5
<1>3. n \in T
  <2> HIDE DEF T
  <2>1. \A i \in 0 .. n : i \in T
    BY <1>1, <1>2, Induction
  <2> QED BY <2>1
<1> QED BY <1>3

(* The walk is what its recursion says. *)
Follow(L, c) == IF c \in {"tail", None} THEN None ELSE L.next[c]

LEMMA Walks ==
  ASSUME NEW L \in Lists
  PROVE  /\ Walk(L) \in [0 .. Size + 1 -> Cells \cup {None}]
         /\ Walk(L)[0] = "head"
         /\ \A k \in 1 .. Size + 1 : Walk(L)[k] = Follow(L, Walk(L)[k - 1])
<1> DEFINE X == Cells \cup {None}
           n == Size + 1
           g == [k \in 1 .. n |-> [x \in X |-> Follow(L, x)]]
           Is(f) == f = [k \in 0 .. n |->
                           IF k = 0 THEN "head"
                           ELSE IF f[k - 1] \in {"tail", None} THEN None
                           ELSE L.next[f[k - 1]]]
<1>1. n \in Nat /\ "head" \in X
  BY Counting, CellNames
<1>2. g \in [1 .. n -> [X -> X]]
  BY DEF Lists, Follow
<1>3. PICK f \in [0 .. n -> X] : Iterated(f, "head", n, g)
  <2> HIDE DEF X, n, g
  <2> QED BY <1>1, <1>2, Iterates
<1>a. f[0] = "head"
  BY <1>3 DEF Iterated
<1>4. ASSUME NEW k \in 1 .. n PROVE f[k] = Follow(L, f[k - 1])
  <2>1. f[k - 1] \in X
    BY <1>1
  <2>2. f[k] = g[k][f[k - 1]]
    <3> HIDE DEF g, X, n
    <3> QED BY <1>3 DEF Iterated
  <2> HIDE DEF X, n
  <2> QED BY <2>1, <2>2
<1>5. Is(f)
  <2> HIDE DEF X
  <2> QED BY <1>1, <1>3, <1>a, <1>4 DEF Follow
<1>6. Is(Walk(L))
  <2>1. Walk(L) = CHOOSE h : Is(h)
    BY DEF Walk
  <2> HIDE DEF Is
  <2> QED BY <1>5, <2>1
<1> DEFINE w == Walk(L)
<1> HIDE DEF w
<1>7. Is(w)
  BY <1>6 DEF w
<1>8. w[0] = "head" /\ \A k \in 1 .. n : w[k] = Follow(L, w[k - 1])
  BY <1>1, <1>7 DEF Follow
<1>9. \A k \in 0 .. n : w[k] \in X
  <2> DEFINE T == {k \in 0 .. n : w[k] \in X}
  <2>1. 0 \in T
    BY <1>1, <1>8
  <2>2. ASSUME NEW k \in 0 .. n - 1, k \in T PROVE k + 1 \in T
    <3>1. w[k + 1] = Follow(L, w[k]) /\ k + 1 \in 0 .. n
      BY <1>1, <1>8
    <3> QED BY <2>2, <3>1 DEF Follow, Lists
  <2> HIDE DEF T
  <2>3. \A k \in 0 .. n : k \in T
    BY <1>1, <2>1, <2>2, Induction
  <2> QED BY <2>3 DEF T
<1>10. w \in [0 .. n -> X]
  BY <1>7, <1>9
<1> QED BY <1>8, <1>10 DEF w

(* The k-th cell of the walk is the one whose place is k. *)
LEMMA Reached ==
  ASSUME NEW L \in Lists, NEW place, Ordered(L, place)
  PROVE  /\ \A k \in 0 .. Cardinality(L.used) + 1 :
              Walk(L)[k] \in Chain(L) /\ place[Walk(L)[k]] = k
         /\ \A c \in Chain(L) : Walk(L)[place[c]] = c
         /\ \A k \in 0 .. Size + 1 : k > Cardinality(L.used) + 1 => Walk(L)[k] = None
<1> DEFINE n == Cardinality(L.used)
           w == Walk(L)
           T == {k \in 0 .. n + 1 : w[k] \in Chain(L) /\ place[w[k]] = k}
<1>1. n \in Nat /\ n <= Size /\ Size \in Nat
  BY Counting
<1>2. w[0] = "head" /\ \A k \in 1 .. Size + 1 : w[k] = Follow(L, w[k - 1])
  BY Walks
<1> HIDE DEF w
<1>3. 0 \in T
  BY <1>1, <1>2 DEF Ordered, Chain
<1>4. ASSUME NEW k \in 0 .. n, k \in T PROVE k + 1 \in T
  <2>1. w[k] \in Chain(L) /\ place[w[k]] = k
    BY <1>4
  <2>2. w[k] # "tail"
    BY <1>1, <2>1 DEF Ordered
  <2>3. w[k] # None
    BY <2>1, CellNames DEF Chain, Lists
  <2>4. w[k + 1] = L.next[w[k]]
    BY <1>1, <1>2, <2>2, <2>3 DEF Follow
  <2> QED BY <1>1, <2>1, <2>2, <2>4 DEF Ordered
<1> HIDE DEF T
<1>5. \A k \in 0 .. n + 1 : k \in T
  <2>1. n + 1 \in Nat /\ \A k \in 0 .. (n + 1) - 1 : k \in 0 .. n
    BY <1>1
  <2> QED BY <1>3, <1>4, <2>1, Induction
<1>6. \A k \in 0 .. n + 1 : w[k] \in Chain(L) /\ place[w[k]] = k
  BY <1>5 DEF T
<1>7. ASSUME NEW c \in Chain(L) PROVE w[place[c]] = c
  <2>1. place[c] \in 0 .. n + 1
    BY <1>1, CellNames DEF Ordered, Chain, Lists
  <2> QED BY <1>6, <2>1 DEF Ordered
<1>8. w[n + 1] = "tail"
  BY <1>7 DEF Chain, Ordered
<1> DEFINE U == {k \in 0 .. Size + 1 : k > n + 1 => w[k] = None}
<1>9. ASSUME NEW k \in 0 .. Size, k \in U PROVE k + 1 \in U
  <2>1. w[k + 1] = Follow(L, w[k])
    BY <1>1, <1>2
  <2> QED BY <1>1, <1>8, <1>9, <2>1 DEF Follow
<1>10. 0 \in U
  BY <1>1
<1> HIDE DEF U
<1>11. \A k \in 0 .. Size + 1 : k \in U
  <2>1. Size + 1 \in Nat /\ \A k \in 0 .. (Size + 1) - 1 : k \in 0 .. Size
    BY <1>1
  <2> QED BY <1>9, <1>10, <2>1, Induction
<1>12. \A k \in 0 .. Size + 1 : k > n + 1 => w[k] = None
  BY <1>11 DEF U
<1> QED BY <1>6, <1>7, <1>12 DEF w

(* LL_Length counts the nodes in use. *)
LEMMA LengthCounts ==
  ASSUME NEW L \in Lists, NEW place, Ordered(L, place)
  PROVE  LL_Length(L) = Cardinality(L.used)
<1> DEFINE n == Cardinality(L.used)
           w == Walk(L)
           tails == {k \in 1 .. Size + 1 : w[k] = "tail"}
<1>1. n \in Nat /\ n <= Size /\ Size \in Nat
  BY Counting
<1>2. w[n + 1] = "tail"
  BY Reached DEF Chain, Ordered
<1>3. ASSUME NEW k \in 1 .. Size + 1, w[k] = "tail" PROVE k = n + 1
  <2>1. k <= n + 1
    BY <1>1, <1>3, Reached, CellNames
  <2>2. place[w[k]] = k
    BY <1>1, <2>1, Reached
  <2> QED BY <1>3, <2>2 DEF Ordered
<1> HIDE DEF n, w
<1>4. (CHOOSE k \in 1 .. Size + 1 : w[k] = "tail") = n + 1
  BY <1>1, <1>2, <1>3
<1>5. LL_Length(L) = (CHOOSE k \in 1 .. Size + 1 : w[k] = "tail") - 1
  BY DEF LL_Length, w
<1>6. LL_Length(L) = (n + 1) - 1
  BY <1>4, <1>5
<1> QED BY <1>1, <1>6 DEF n

(* The invariant contains the property that TLC checks. *)
LEMMA GoodIsWellFormed == Good(list) => WellFormed
<1> SUFFICES ASSUME Good(list) PROVE WellFormed
  OBVIOUS
<1> DEFINE L == list
           w == Walk(L)
           chain == {w[k] : k \in 0 .. Size + 1} \ {None}
           n == Cardinality(L.used)
<1>1. PICK place : Ordered(L, place)
  BY DEF Good
<1>2. L \in Lists /\ L.current \in Chain(L) \cup {None}
  BY DEF Good, Typed
<1>3. n \in Nat /\ n <= Size /\ Size \in Nat
  BY <1>2, Counting
<1> HIDE DEF L
<1>4. chain = Chain(L)
  <2>1. ASSUME NEW c \in Chain(L) PROVE c \in chain
    <3>1. place[c] \in 0 .. n + 1 /\ w[place[c]] = c /\ c # None
      BY <1>1, <1>2, <1>3, Reached, CellNames DEF Ordered, Chain, Lists
    <3> QED BY <1>3, <3>1
  <2>2. ASSUME NEW k \in 0 .. Size + 1, w[k] # None PROVE w[k] \in Chain(L)
    BY <1>1, <1>2, <1>3, <2>2, Reached
  <2> QED BY <2>1, <2>2
<1> HIDE DEF chain
<1>5. chain = L.used \cup {"head", "tail"}
  BY <1>4 DEF Chain
<1>6. \A c \in chain \ {"tail"} : L.prev[L.next[c]] = c
  BY <1>1, <1>4 DEF Ordered
<1>7. L.prev["head"] = None /\ L.next["tail"] = None
  BY <1>1 DEF Ordered
<1>8. L.current \in chain \cup {None}
  BY <1>2, <1>4
<1> QED BY <1>5, <1>6, <1>7, <1>8 DEF WellFormed, chain, L

-----------------------------------------------------------------------------
(* What an exchange of pointers does to the order of the chain.              *)

(* Node n comes behind p; the cells behind move up by one place. *)
Room(place, p, n) ==
  [c \in Cells |-> IF c = n THEN place[p] + 1
                   ELSE IF place[c] > place[p] THEN place[c] + 1 ELSE place[c]]

(* The pointers that LL_AddNode and LL_InsertNode set keep the chain whole. *)
LEMMA LinkingIn ==
  ASSUME NEW L \in Lists, NEW M \in Lists, NEW place, Ordered(L, place),
         NEW n \in Nodes \ L.used, NEW p \in Chain(L) \ {"tail"},
         M.used = L.used \cup {n},
         M.next = [L.next EXCEPT ![n] = L.next[p], ![p] = n],
         M.prev = [L.prev EXCEPT ![n] = p, ![L.next[p]] = n]
  PROVE  Ordered(M, Room(place, p, n))
<1> DEFINE q == L.next[p]
           k == Cardinality(L.used)
           room == Room(place, p, n)
<1>1. k \in Nat /\ Cardinality(M.used) = k + 1
  BY Counting, FS_AddElement
<1>2. /\ q \in Chain(L) \ {"head"} /\ L.prev[q] = p /\ place[q] = place[p] + 1
      /\ p # n /\ q # n /\ p # q /\ n # "head" /\ n # "tail"
      /\ n \in Cells /\ p \in Cells /\ q \in Cells
      /\ Chain(L) \subseteq Cells /\ Chain(M) = Chain(L) \cup {n} /\ n \notin Chain(L)
  BY CellNames DEF Ordered, Chain, Lists
<1>3. /\ L.next \in [Cells -> Cells \cup {None}] /\ L.prev \in [Cells -> Cells \cup {None}]
      /\ place \in [Cells -> Int]
  BY DEF Lists, Ordered
<1>4. /\ room \in [Cells -> Int]
      /\ room[n] = place[p] + 1
      /\ \A c \in Chain(L) :
           room[c] = IF place[c] > place[p] THEN place[c] + 1 ELSE place[c]
  BY <1>2, <1>3 DEF Room
<1>5. /\ M.next[n] = q /\ M.next[p] = n /\ M.prev[n] = p /\ M.prev[q] = n
      /\ \A c \in Chain(L) \ {p} : M.next[c] = L.next[c]
      /\ \A c \in Chain(L) \ {q} : M.prev[c] = L.prev[c]
  BY <1>2, <1>3
<1> HIDE DEF room, q, k
<1>6. ASSUME NEW c \in Chain(M) \ {"tail"}
      PROVE  /\ M.next[c] \in Chain(M) \ {"head"}
             /\ M.prev[M.next[c]] = c
             /\ room[M.next[c]] = room[c] + 1
  <2>1. CASE c = n
    BY <2>1, <1>2, <1>3, <1>4, <1>5
  <2>2. CASE c = p
    BY <2>2, <1>2, <1>3, <1>4, <1>5
  <2>3. CASE c # n /\ c # p
    <3>1. c \in Chain(L) \ {"tail"} /\ M.next[c] = L.next[c]
      BY <2>3, <1>2, <1>5
    <3>2. /\ L.next[c] \in Chain(L) \ {"head"} /\ L.prev[L.next[c]] = c
          /\ place[L.next[c]] = place[c] + 1
      BY <3>1 DEF Ordered
    <3>3. L.next[c] # q
      BY <2>3, <1>2, <3>2
    <3>4. place[c] # place[p] /\ place[c] \in Int /\ place[p] \in Int
      BY <2>3, <3>1, <1>2, <1>3 DEF Ordered
    <3> QED BY <3>1, <3>2, <3>3, <3>4, <1>2, <1>4, <1>5
  <2> QED BY <2>1, <2>2, <2>3
<1>7. ASSUME NEW c \in Chain(M) \ {"head"}
      PROVE  M.prev[c] \in Chain(M) \ {"tail"} /\ M.next[M.prev[c]] = c
  <2>1. CASE c = n \/ c = q
    BY <2>1, <1>2, <1>5
  <2>2. CASE c # n /\ c # q
    <3>1. c \in Chain(L) \ {"head"} /\ M.prev[c] = L.prev[c]
      BY <2>2, <1>2, <1>5
    <3>2. L.prev[c] \in Chain(L) \ {"tail"} /\ L.next[L.prev[c]] = c
      BY <3>1 DEF Ordered
    <3>3. L.prev[c] # p
      BY <2>2, <3>2 DEF q
    <3> QED BY <3>1, <3>2, <3>3, <1>2, <1>5
  <2> QED BY <2>1, <2>2
<1>8. ASSUME NEW c \in Chain(M) PROVE room[c] >= 0 /\ room[c] <= k + 2
  <2>1. CASE c = n
    BY <2>1, <1>1, <1>2, <1>3, <1>4 DEF Ordered, k
  <2>2. CASE c # n
    BY <2>2, <1>1, <1>2, <1>3, <1>4 DEF Ordered, k
  <2> QED BY <2>1, <2>2
<1>9. ASSUME NEW c \in Chain(M), NEW d \in Chain(M), room[c] = room[d] PROVE c = d
  <2>1. ASSUME NEW x \in Chain(L) PROVE room[x] # room[n]
    <3>1. place[x] \in Int /\ place[p] \in Int
      BY <1>2, <1>3
    <3> QED BY <1>4, <3>1
  <2>2. ASSUME c \in Chain(L), d \in Chain(L) PROVE c = d
    <3>1. place[c] \in Int /\ place[d] \in Int /\ place[p] \in Int
      BY <1>2, <1>3, <2>2
    <3>2. place[c] = place[d]
      BY <1>4, <1>9, <2>2, <3>1
    <3> QED BY <2>2, <3>2 DEF Ordered
  <2> QED BY <1>2, <1>9, <2>1, <2>2
<1>10. room["head"] = 0 /\ room["tail"] = k + 2
  <2>1. place["head"] = 0 /\ place["tail"] = k + 1 /\ place[p] >= 0 /\ place[p] \in Int
        /\ place[q] <= k + 1 /\ "head" \in Chain(L) /\ "tail" \in Chain(L)
    BY <1>2, <1>3 DEF Ordered, Chain, k
  <2> QED BY <2>1, <1>1, <1>2, <1>4
<1>11. M.prev["head"] = None /\ M.next["tail"] = None
  BY <1>2, <1>5 DEF Ordered, Chain
<1>12. Cardinality(M.used) + 1 = k + 2
  BY <1>1
<1> HIDE DEF Room
<1>13. /\ room["tail"] = Cardinality(M.used) + 1
       /\ \A c \in Chain(M) : room[c] >= 0 /\ room[c] <= Cardinality(M.used) + 1
  BY <1>8, <1>10, <1>12
<1>14. Ordered(M, room)
  BY <1>4, <1>6, <1>7, <1>9, <1>10, <1>11, <1>13 DEF Ordered
<1> QED BY <1>14 DEF room

(* Node n leaves the chain; the cells behind it move down by one place. *)
Gap(place, n) ==
  [c \in Cells |-> IF place[c] > place[n] THEN place[c] - 1 ELSE place[c]]

(* So do those that LL_node_Unlink sets. *)
LEMMA LinkingOut ==
  ASSUME NEW L \in Lists, NEW M \in Lists, NEW place, Ordered(L, place),
         NEW n \in L.used,
         M.used = L.used \ {n},
         M.next = [L.next EXCEPT ![L.prev[n]] = L.next[n], ![n] = None],
         M.prev = [L.prev EXCEPT ![L.next[n]] = L.prev[n], ![n] = None]
  PROVE  Ordered(M, Gap(place, n))
<1> DEFINE p == L.prev[n]
           q == L.next[n]
           k == Cardinality(L.used)
           gap == Gap(place, n)
<1>1. k \in Nat /\ Cardinality(M.used) = k - 1
  BY Counting, FS_RemoveElement
<1>2. /\ n \in Nodes /\ n # "head" /\ n # "tail" /\ n \in Chain(L)
      /\ Chain(L) \subseteq Cells /\ Chain(M) = Chain(L) \ {n}
  BY CellNames DEF Chain, Lists
<1>3. /\ L.next \in [Cells -> Cells \cup {None}] /\ L.prev \in [Cells -> Cells \cup {None}]
      /\ place \in [Cells -> Int]
  BY DEF Lists, Ordered
<1>4. /\ p \in Chain(L) \ {"tail"} /\ q \in Chain(L) \ {"head"}
      /\ L.next[p] = n /\ L.prev[q] = n
      /\ place[q] = place[n] + 1 /\ place[n] = place[p] + 1
  BY <1>2 DEF Ordered
<1>5. p # n /\ q # n /\ p # q
  BY <1>2, <1>3, <1>4
<1>6. /\ gap \in [Cells -> Int]
      /\ \A c \in Chain(L) :
           gap[c] = IF place[c] > place[n] THEN place[c] - 1 ELSE place[c]
  BY <1>2, <1>3 DEF Gap
<1>7. /\ M.next[p] = q /\ M.prev[q] = p
      /\ \A c \in Chain(M) \ {p} : M.next[c] = L.next[c]
      /\ \A c \in Chain(M) \ {q} : M.prev[c] = L.prev[c]
  BY <1>2, <1>3, <1>4, <1>5
<1> HIDE DEF gap, p, q, k
<1>8. ASSUME NEW c \in Chain(M) \ {"tail"}
      PROVE  /\ M.next[c] \in Chain(M) \ {"head"}
             /\ M.prev[M.next[c]] = c
             /\ gap[M.next[c]] = gap[c] + 1
  <2>1. CASE c = p
    BY <2>1, <1>2, <1>3, <1>4, <1>5, <1>6, <1>7
  <2>2. CASE c # p
    <3>1. c \in Chain(L) \ {"tail"} /\ M.next[c] = L.next[c] /\ c # n
      BY <2>2, <1>2, <1>7
    <3>2. /\ L.next[c] \in Chain(L) \ {"head"} /\ L.prev[L.next[c]] = c
          /\ place[L.next[c]] = place[c] + 1
      BY <3>1 DEF Ordered
    <3>3. L.next[c] # n /\ L.next[c] # q
      BY <2>2, <3>1, <3>2, <1>4 DEF p
    <3>4. place[c] # place[n] /\ place[c] \in Int /\ place[n] \in Int
      BY <3>1, <1>2, <1>3 DEF Ordered
    <3>5. L.next[c] \in Chain(M)
      BY <3>2, <3>3, <1>2
    <3>6. place[c] + 1 # place[n]
      BY <3>2, <3>3, <1>2 DEF Ordered
    <3>7. gap[L.next[c]] = gap[c] + 1
      BY <3>1, <3>2, <3>4, <3>6, <1>6
    <3> QED BY <3>1, <3>2, <3>3, <3>5, <3>7, <1>7
  <2> QED BY <2>1, <2>2
<1>9. ASSUME NEW c \in Chain(M) \ {"head"}
      PROVE  M.prev[c] \in Chain(M) \ {"tail"} /\ M.next[M.prev[c]] = c
  <2>1. CASE c = q
    BY <2>1, <1>2, <1>4, <1>5, <1>7
  <2>2. CASE c # q
    <3>1. c \in Chain(L) \ {"head"} /\ M.prev[c] = L.prev[c] /\ c # n
      BY <2>2, <1>2, <1>7
    <3>2. L.prev[c] \in Chain(L) \ {"tail"} /\ L.next[L.prev[c]] = c
      BY <3>1 DEF Ordered
    <3>3. L.prev[c] # n /\ L.prev[c] # p
      BY <2>2, <3>1, <3>2, <1>4 DEF q
    <3> QED BY <3>1, <3>2, <3>3, <1>2, <1>7
  <2> QED BY <2>1, <2>2
<1>10. ASSUME NEW c \in Chain(M) PROVE gap[c] >= 0 /\ gap[c] <= k
  <2>1. c \in Chain(L) /\ c # n /\ place[c] \in Int /\ place[n] \in Int
    BY <1>2, <1>3
  <2>2. place[c] >= 0 /\ place[c] <= k + 1 /\ place[n] >= 0 /\ place[n] <= k
    <3>1. place[q] <= k + 1
      BY <1>4 DEF Ordered, k
    <3> QED BY <2>1, <3>1, <1>1, <1>2, <1>4 DEF Ordered, k
  <2> QED BY <2>1, <2>2, <1>1, <1>6
<1>11. ASSUME NEW c \in Chain(M), NEW d \in Chain(M), gap[c] = gap[d] PROVE c = d
  <2>1. c \in Chain(L) /\ d \in Chain(L) /\ c # n /\ d # n
    BY <1>2
  <2>2. place[c] \in Int /\ place[d] \in Int /\ place[n] \in Int
    BY <2>1, <1>2, <1>3
  <2>3. place[c] # place[n] /\ place[d] # place[n]
    BY <2>1, <1>2 DEF Ordered
  <2>4. place[c] = place[d]
    BY <1>6, <1>11, <2>1, <2>2, <2>3
  <2> QED BY <2>1, <2>4 DEF Ordered
<1>12. gap["head"] = 0 /\ gap["tail"] = k
  <2>1. place["head"] = 0 /\ place["tail"] = k + 1 /\ place[p] >= 0 /\ place[p] \in Int
        /\ place[q] <= k + 1 /\ "head" \in Chain(L) /\ "tail" \in Chain(L)
    BY <1>2, <1>3, <1>4 DEF Ordered, Chain, k
  <2> QED BY <2>1, <1>1, <1>4, <1>6
<1>13. M.prev["head"] = None /\ M.next["tail"] = None
  <2>1. "head" # q /\ "tail" # p /\ "head" \in Chain(M) /\ "tail" \in Chain(M)
    BY <1>2, <1>4 DEF Chain
  <2> QED BY <2>1, <1>7 DEF Ordered
<1>14. Cardinality(M.used) + 1 = k
  BY <1>1
<1> HIDE DEF Gap
<1>15. /\ gap["tail"] = Cardinality(M.used) + 1
       /\ \A c \in Chain(M) : gap[c] >= 0 /\ gap[c] <= Cardinality(M.used) + 1
  BY <1>10, <1>12, <1>14
<1>16. Ordered(M, gap)
  BY <1>6, <1>8, <1>9, <1>11, <1>12, <1>13, <1>15 DEF Ordered
<1> QED BY <1>16 DEF gap

(* Two nodes change places. *)
Exchanged(place, one, two) ==
  [place EXCEPT ![one] = place[two], ![two] = place[one]]

(* And those of LL_SwapNodes, next to each other or not. *)
LEMMA Exchange ==
  ASSUME NEW L \in Lists, NEW place, Ordered(L, place),
         NEW one \in L.used, NEW two \in L.used, one # two
  PROVE  /\ LL_SwapNodes(L, one, two) \in Lists
         /\ LL_SwapNodes(L, one, two).used = L.used
         /\ LL_SwapNodes(L, one, two).data = L.data
         /\ LL_SwapNodes(L, one, two).current = L.current
         /\ Ordered(LL_SwapNodes(L, one, two), Exchanged(place, one, two))
<1> DEFINE M == LL_SwapNodes(L, one, two)
           A == Around(L, one, two)
           p == L.prev[one]
           q == L.next[one]
           u == L.prev[two]
           v == L.next[two]
           new == Exchanged(place, one, two)
<1>1. /\ {one, two, p, q, u, v, "head", "tail"} \subseteq Chain(L)
      /\ p # "tail" /\ u # "tail" /\ q # "head" /\ v # "head"
      /\ one # "head" /\ one # "tail" /\ two # "head" /\ two # "tail"
      /\ L.next[p] = one /\ L.prev[q] = one /\ L.next[u] = two /\ L.prev[v] = two
      /\ place[one] = place[p] + 1 /\ place[q] = place[one] + 1
      /\ place[two] = place[u] + 1 /\ place[v] = place[two] + 1
  BY CellNames DEF Ordered, Chain, Lists
<1>2. Chain(L) \subseteq Cells /\ None \notin Cells
  BY CellNames DEF Chain, Lists
<1>3. /\ L.next \in [Cells -> Cells \cup {None}] /\ L.prev \in [Cells -> Cells \cup {None}]
      /\ place \in [Cells -> Int]
  BY DEF Lists, Ordered
<1>4. p # one /\ q # one /\ p # q /\ u # two /\ v # two /\ u # v
  BY <1>1, <1>2, <1>3
<1>5. /\ A = [L EXCEPT !.next = [L.next EXCEPT ![p] = two, ![u] = one],
                       !.prev = [L.prev EXCEPT ![q] = two, ![v] = one]]
      /\ A \in Lists
  <2>1. p # None /\ q # None /\ u # None /\ v # None
    BY <1>1, <1>2
  <2>2. A = [[[[L EXCEPT !.next[p] = two] EXCEPT !.prev[q] = two]
               EXCEPT !.next[u] = one] EXCEPT !.prev[v] = one]
    BY <2>1 DEF Around, SetNext, SetPrev
  <2>3. {one, two} \subseteq Cells
    BY <1>1, <1>2
  <2> HIDE DEF A, p, q, u, v
  <2> QED BY <2>2, <2>3, <1>3 DEF Lists
<1> HIDE DEF A
<1>6. /\ M = [A EXCEPT
               !.next = [A.next EXCEPT ![one] = IF p = two THEN two ELSE v,
                                       ![two] = IF u = one THEN one ELSE q],
               !.prev = [A.prev EXCEPT ![one] = IF q = two THEN two ELSE u,
                                       ![two] = IF v = one THEN one ELSE p]]
  BY <1>5, <1>1, <1>2 DEF LL_SwapNodes, A, Lists
<1> HIDE DEF M, p, q, u, v
<1> DEFINE nexts == [A.next EXCEPT ![one] = IF p = two THEN two ELSE v,
                                   ![two] = IF u = one THEN one ELSE q]
           prevs == [A.prev EXCEPT ![one] = IF q = two THEN two ELSE u,
                                   ![two] = IF v = one THEN one ELSE p]
<1>7. nexts \in [Cells -> Cells \cup {None}] /\ prevs \in [Cells -> Cells \cup {None}]
  <2>1. \A x \in {p, q, u, v, one, two} : x \in Cells
    BY <1>1, <1>2
  <2>2. /\ (IF p = two THEN two ELSE v) \in Cells /\ (IF u = one THEN one ELSE q) \in Cells
        /\ (IF q = two THEN two ELSE u) \in Cells /\ (IF v = one THEN one ELSE p) \in Cells
    BY <2>1
  <2>3. A.next \in [Cells -> Cells \cup {None}] /\ A.prev \in [Cells -> Cells \cup {None}]
    BY <1>5 DEF Lists
  <2> QED BY <2>2, <2>3
<1>8. M = [A EXCEPT !.next = nexts, !.prev = prevs]
  BY <1>6
<1>9. /\ \A c \in Cells \ {one, two} :
           /\ nexts[c] = IF c = u THEN one ELSE IF c = p THEN two ELSE L.next[c]
           /\ prevs[c] = IF c = v THEN one ELSE IF c = q THEN two ELSE L.prev[c]
      /\ nexts[one] = IF p = two THEN two ELSE v
      /\ nexts[two] = IF u = one THEN one ELSE q
      /\ prevs[one] = IF q = two THEN two ELSE u
      /\ prevs[two] = IF v = one THEN one ELSE p
  <2>1. {p, q, u, v, one, two} \subseteq Cells
    BY <1>1, <1>2
  <2>2. /\ A.next = [L.next EXCEPT ![p] = two, ![u] = one]
        /\ A.prev = [L.prev EXCEPT ![q] = two, ![v] = one]
    BY <1>5 DEF Lists
  <2> QED BY <2>1, <2>2, <1>3
<1> HIDE DEF nexts, prevs
<1>10. /\ M \in Lists /\ M.used = L.used /\ M.data = L.data /\ M.current = L.current
       /\ M.next = nexts /\ M.prev = prevs
  BY <1>5, <1>7, <1>8 DEF Lists
<1>11. Chain(M) = Chain(L)
  BY <1>10 DEF Chain
<1>12. /\ new \in [Cells -> Int] /\ new[one] = place[two] /\ new[two] = place[one]
       /\ \A c \in Chain(L) \ {one, two} : new[c] = place[c]
  BY <1>1, <1>2, <1>3 DEF Exchanged
<1> HIDE DEF new
<1>13. (p = two <=> v = one) /\ (u = one <=> q = two) /\ q # v /\ p # u
  BY <1>1 DEF p, q, u, v
<1>14. ASSUME NEW c \in Chain(L) \ {"tail"}
       PROVE  /\ M.next[c] \in Chain(L) \ {"head"}
              /\ M.prev[M.next[c]] = c
              /\ new[M.next[c]] = new[c] + 1
  <2>1. CASE c = one
    <3>1. CASE p = two
      BY <2>1, <3>1, <1>1, <1>9, <1>10, <1>12, <1>13
    <3>2. CASE p # two
      <4>1. v \notin {one, two} /\ v \in Chain(L) /\ v # "head"
        BY <3>2, <1>1, <1>4, <1>13
      <4> QED BY <2>1, <3>2, <4>1, <1>1, <1>2, <1>9, <1>10, <1>12
    <3> QED BY <3>1, <3>2
  <2>2. CASE c = two
    <3>1. CASE u = one
      BY <2>2, <3>1, <1>1, <1>9, <1>10, <1>12, <1>13
    <3>2. CASE u # one
      <4>1. q \notin {one, two} /\ q \in Chain(L) /\ q # "head" /\ q # v
        BY <3>2, <1>1, <1>4, <1>13
      <4> QED BY <2>2, <3>2, <4>1, <1>1, <1>2, <1>9, <1>10, <1>12
    <3> QED BY <3>1, <3>2
  <2>3. CASE c \notin {one, two}
    <3>1. c \in Cells
      BY <1>2
    <3>2. CASE c = u
      BY <2>3, <3>1, <3>2, <1>1, <1>9, <1>10, <1>12, <1>13
    <3>3. CASE c = p /\ c # u
      BY <2>3, <3>1, <3>3, <1>1, <1>9, <1>10, <1>12, <1>13
    <3>4. CASE c # p /\ c # u
      <4>1. M.next[c] = L.next[c]
        BY <2>3, <3>1, <3>4, <1>9, <1>10
      <4>2. /\ L.next[c] \in Chain(L) \ {"head"} /\ L.prev[L.next[c]] = c
            /\ place[L.next[c]] = place[c] + 1
        BY DEF Ordered
      <4>3. L.next[c] \notin {one, two, q, v}
        BY <2>3, <3>4, <4>2, <1>1 DEF p, u
      <4>4. M.prev[L.next[c]] = c
        BY <4>2, <4>3, <1>2, <1>9, <1>10
      <4>5. new[L.next[c]] = place[c] + 1 /\ new[c] = place[c]
        BY <2>3, <4>2, <4>3, <1>12
      <4> QED BY <4>1, <4>2, <4>4, <4>5
    <3> QED BY <3>2, <3>3, <3>4
  <2> QED BY <2>1, <2>2, <2>3
<1>15. ASSUME NEW c \in Chain(L) \ {"head"}
       PROVE  M.prev[c] \in Chain(L) \ {"tail"} /\ M.next[M.prev[c]] = c
  <2>1. CASE c = one
    <3>1. CASE q = two
      BY <2>1, <3>1, <1>1, <1>9, <1>10, <1>13
    <3>2. CASE q # two
      <4>1. u \notin {one, two} /\ u \in Chain(L) /\ u # "tail"
        BY <3>2, <1>1, <1>4, <1>13
      <4> QED BY <2>1, <3>2, <4>1, <1>1, <1>2, <1>9, <1>10
    <3> QED BY <3>1, <3>2
  <2>2. CASE c = two
    <3>1. CASE v = one
      BY <2>2, <3>1, <1>1, <1>9, <1>10, <1>13
    <3>2. CASE v # one
      <4>1. p \notin {one, two} /\ p \in Chain(L) /\ p # "tail" /\ p # u
        BY <3>2, <1>1, <1>4, <1>13
      <4> QED BY <2>2, <3>2, <4>1, <1>1, <1>2, <1>9, <1>10
    <3> QED BY <3>1, <3>2
  <2>3. CASE c \notin {one, two}
    <3>1. c \in Cells
      BY <1>2
    <3>2. CASE c = v
      BY <2>3, <3>1, <3>2, <1>1, <1>9, <1>10, <1>13
    <3>3. CASE c = q /\ c # v
      BY <2>3, <3>1, <3>3, <1>1, <1>9, <1>10, <1>13
    <3>4. CASE c # q /\ c # v
      <4>1. M.prev[c] = L.prev[c]
        BY <2>3, <3>1, <3>4, <1>9, <1>10
      <4>2. L.prev[c] \in Chain(L) \ {"tail"} /\ L.next[L.prev[c]] = c
        BY DEF Ordered
      <4>3. L.prev[c] \notin {one, two, p, u}
        BY <2>3, <3>4, <4>2, <1>1 DEF q, v
      <4>4. M.next[L.prev[c]] = c
        BY <4>2, <4>3, <1>2, <1>9, <1>10
      <4> QED BY <4>1, <4>2, <4>4
    <3> QED BY <3>2, <3>3, <3>4
  <2> QED BY <2>1, <2>2, <2>3
<1>16. ASSUME NEW c \in Chain(L)
       PROVE  /\ new[c] >= 0 /\ new[c] <= Cardinality(L.used) + 1
              /\ \A d \in Chain(L) : new[c] = new[d] => c = d
  <2>1. \E x \in Chain(L) : new[c] = place[x]
    BY <1>1, <1>12
  <2>2. ASSUME NEW d \in Chain(L), new[c] = new[d] PROVE c = d
    <3>1. \A x, y \in Chain(L) : place[x] = place[y] => x = y
      BY DEF Ordered
    <3> QED BY <2>2, <3>1, <1>1, <1>12
  <2> QED BY <2>1, <2>2 DEF Ordered
<1>17. new["head"] = 0 /\ new["tail"] = Cardinality(L.used) + 1
  BY <1>1, <1>12 DEF Ordered
<1>18. M.prev["head"] = None /\ M.next["tail"] = None
  <2>1. L.prev["head"] = None /\ L.next["tail"] = None
    BY DEF Ordered
  <2>2. "head" \in Cells \ {one, two, q, v} /\ "tail" \in Cells \ {one, two, p, u}
    BY <1>1, <1>2
  <2> QED BY <2>1, <2>2, <1>9, <1>10
<1>19. Ordered(M, new)
  BY <1>10, <1>11, <1>12, <1>14, <1>15, <1>16, <1>17, <1>18 DEF Ordered
<1> QED BY <1>10, <1>19 DEF M, new

-----------------------------------------------------------------------------
(* The data in the order of the chain, and the place of current in it: what  *)
(* module List sees.                                                         *)
Values == Data \cup {NULL}

(* s is the data of the nodes by place. *)
Shows(L, place, s) ==
  /\ s \in Seq(Values) /\ Len(s) = Cardinality(L.used)
  /\ \A c \in L.used : s[place[c]] = L.data[c]

Position(L, place) == IF L.current = None THEN -1 ELSE place[L.current]

(* L is a good list of the items s with current at place i. *)
Represents(L, s, i) ==
  /\ Typed(L)
  /\ \E place : Ordered(L, place) /\ Shows(L, place, s) /\ i = Position(L, place)

(* Nodes are at the places from 1 to the length, one at each. *)
LEMMA NodePlaces ==
  ASSUME NEW L \in Lists, NEW place, Ordered(L, place)
  PROVE  /\ \A c \in L.used : place[c] \in 1 .. Cardinality(L.used)
         /\ \A j \in 1 .. Cardinality(L.used) :
              Walk(L)[j] \in L.used /\ place[Walk(L)[j]] = j
<1> DEFINE n == Cardinality(L.used)
<1>1. n \in Nat
  BY Counting
<1>2. ASSUME NEW c \in L.used PROVE place[c] \in 1 .. n
  <2>1. c \in Chain(L) /\ c # "head" /\ c # "tail" /\ place[c] \in Int
    BY CellNames DEF Chain, Lists, Ordered
  <2>2. place[c] # 0 /\ place[c] # n + 1
    BY <2>1 DEF Ordered, Chain
  <2> QED BY <1>1, <2>1, <2>2 DEF Ordered
<1>3. ASSUME NEW j \in 1 .. n PROVE Walk(L)[j] \in L.used /\ place[Walk(L)[j]] = j
  <2>1. Walk(L)[j] \in Chain(L) /\ place[Walk(L)[j]] = j
    BY <1>1, Reached
  <2> QED BY <1>1, <2>1 DEF Chain, Ordered
<1> QED BY <1>2, <1>3

(* The data of a counted chain are the items that the history variable gets. *)
LEMMA ShownIsItems ==
  ASSUME NEW L, Typed(L), NEW place, Ordered(L, place)
  PROVE  /\ Shows(L, place, ItemsOf(L))
         /\ \A s : Shows(L, place, s) => s = ItemsOf(L)
<1> DEFINE n == Cardinality(L.used)
           w == Walk(L)
<1>1. L \in Lists /\ n \in Nat
  BY Counting DEF Typed
<1>2. ItemsOf(L) = [j \in 1 .. n |-> L.data[w[j]]]
  BY <1>1, LengthCounts DEF ItemsOf
<1>3. \A j \in 1 .. n : w[j] \in L.used /\ place[w[j]] = j
  BY <1>1, NodePlaces
<1>4. \A c \in L.used : place[c] \in 1 .. n /\ w[place[c]] = c
  BY <1>1, NodePlaces, Reached DEF Chain
<1> HIDE DEF w, n
<1>5. \A c \in L.used : L.data[c] \in Values
  BY <1>1, CellNames DEF Lists, Values
<1>6. ItemsOf(L) \in Seq(Values) /\ Len(ItemsOf(L)) = n
  BY <1>1, <1>2, <1>3, <1>5
<1>7. Shows(L, place, ItemsOf(L))
  BY <1>2, <1>4, <1>6 DEF Shows, n
<1>8. ASSUME NEW s, Shows(L, place, s) PROVE s = ItemsOf(L)
  <2>1. s \in Seq(Values) /\ Len(s) = n /\ \A c \in L.used : s[place[c]] = L.data[c]
    BY <1>8 DEF Shows, n
  <2>2. ASSUME NEW j \in 1 .. n PROVE s[j] = ItemsOf(L)[j]
    BY <1>2, <1>3, <2>1
  <2> QED BY <1>6, <2>1, <2>2
<1> QED BY <1>7, <1>8

(* And the place of current is the cursor it gets. *)
LEMMA PlaceIsPosition ==
  ASSUME NEW L, Typed(L), NEW place, Ordered(L, place)
  PROVE  PlaceOf(L) = Position(L, place)
<1> DEFINE n == Cardinality(L.used)
           w == Walk(L)
           c == L.current
<1>1. L \in Lists /\ n \in Nat /\ n <= Size /\ Size \in Nat
  BY Counting DEF Typed
<1>2. CASE c = None
  BY <1>2 DEF PlaceOf, Position
<1>3. CASE c # None
  <2>1. c \in Chain(L)
    BY <1>3 DEF Typed
  <2>2. place[c] \in 0 .. n + 1 /\ w[place[c]] = c
    BY <1>1, <2>1, Reached, CellNames DEF Ordered, Chain, Lists
  <2>3. ASSUME NEW k \in 0 .. Size + 1, w[k] = c PROVE k = place[c]
    <3>1. k <= n + 1
      BY <1>1, <1>3, <2>3, Reached
    <3> QED BY <1>1, <2>3, <3>1, Reached
  <2> HIDE DEF w, c, n
  <2>4. (CHOOSE k \in 0 .. Size + 1 : w[k] = c) = place[c]
    BY <1>1, <2>2, <2>3
  <2>5. PlaceOf(L) = CHOOSE k \in 0 .. Size + 1 : w[k] = c
    BY <1>3 DEF PlaceOf, w, c
  <2>6. Position(L, place) = place[c]
    BY <1>3 DEF Position, c
  <2> QED BY <2>4, <2>5, <2>6
<1> QED BY <1>2, <1>3

(* A list represents the items and the place that it has, and nothing else. *)
LEMMA Representation ==
  ASSUME NEW L
  PROVE  /\ Good(L) => Represents(L, ItemsOf(L), PlaceOf(L))
         /\ \A s, i : Represents(L, s, i) => Good(L) /\ s = ItemsOf(L) /\ i = PlaceOf(L)
<1>1. ASSUME Good(L) PROVE Represents(L, ItemsOf(L), PlaceOf(L))
  <2>1. PICK place : Ordered(L, place)
    BY <1>1 DEF Good
  <2>2. Typed(L)
    BY <1>1 DEF Good
  <2>3. Shows(L, place, ItemsOf(L)) /\ PlaceOf(L) = Position(L, place)
    BY <2>1, <2>2, ShownIsItems, PlaceIsPosition
  <2> QED BY <2>1, <2>2, <2>3 DEF Represents
<1>2. ASSUME NEW s, NEW i, Represents(L, s, i)
      PROVE  Good(L) /\ s = ItemsOf(L) /\ i = PlaceOf(L)
  <2>1. PICK place : Ordered(L, place) /\ Shows(L, place, s) /\ i = Position(L, place)
    BY <1>2 DEF Represents
  <2>2. Typed(L)
    BY <1>2 DEF Represents
  <2>3. s = ItemsOf(L) /\ i = PlaceOf(L)
    BY <2>1, <2>2, ShownIsItems, PlaceIsPosition
  <2> QED BY <2>1, <2>2, <2>3 DEF Good
<1> QED BY <1>1, <1>2

(* What place and length say of the pointers. *)
LEMMA Represented ==
  ASSUME NEW L, NEW s, NEW i, Represents(L, s, i)
  PROVE  /\ s \in Seq(Values) /\ Len(s) \in Nat /\ Len(s) = Cardinality(L.used)
         /\ Len(s) <= Size /\ Size \in Nat /\ i \in -1 .. Len(s) + 1
         /\ i = -1 <=> L.current = None
         /\ i = 0 <=> L.current = "head"
         /\ i = Len(s) + 1 <=> L.current = "tail"
         /\ i \in 1 .. Len(s) <=> L.current \in L.used
         /\ L.current \in Nodes <=> L.current \in L.used
         /\ LL_Get(L) = IF i \in 1 .. Len(s) THEN s[i] ELSE NULL
<1> DEFINE n == Len(s)
           c == L.current
<1>1. PICK place : Ordered(L, place) /\ Shows(L, place, s) /\ i = Position(L, place)
  BY DEF Represents
<1>2. Typed(L) /\ L \in Lists
  BY DEF Represents, Typed
<1>3. /\ s \in Seq(Values) /\ n = Cardinality(L.used) /\ n \in Nat /\ n <= Size
      /\ Size \in Nat /\ \A d \in L.used : s[place[d]] = L.data[d]
  BY <1>1, <1>2, Counting DEF Shows
<1>4. place["head"] = 0 /\ place["tail"] = n + 1 /\ \A d \in L.used : place[d] \in 1 .. n
  BY <1>1, <1>2, <1>3, NodePlaces DEF Ordered
<1>5. c \in L.used \cup {"head", "tail", None} /\ L.used \subseteq Nodes
  BY <1>2 DEF Typed, Chain, Lists
<1>6. L.data["head"] = NULL /\ L.data["tail"] = NULL
  BY <1>2 DEF Typed
<1> HIDE DEF n, c
<1>7. CASE c = None
  <2>1. i = -1 /\ LL_Get(L) = NULL
    BY <1>1, <1>7 DEF Position, LL_Get, c
  <2>2. c # "head" /\ c # "tail" /\ c \notin Nodes
    BY <1>7, CellNames DEF Cells
  <2> QED BY <2>1, <2>2, <1>3, <1>5, <1>7 DEF n, c
<1>8. CASE c = "head" \/ c = "tail"
  <2>1. c # None /\ c \notin Nodes
    BY <1>8, CellNames DEF Cells
  <2>2. i = place[c] /\ LL_Get(L) = NULL
    BY <1>1, <1>6, <1>8, <2>1 DEF Position, LL_Get, c
  <2> QED BY <2>1, <2>2, <1>3, <1>4, <1>5, <1>8 DEF n, c
<1>9. CASE c \in L.used
  <2>1. c # None /\ c \in Nodes /\ c # "head" /\ c # "tail"
    BY <1>5, <1>9, CellNames DEF Cells
  <2>2. i = place[c] /\ LL_Get(L) = L.data[c]
    BY <1>1, <2>1 DEF Position, LL_Get, c
  <2> QED BY <2>1, <2>2, <1>3, <1>4, <1>9 DEF n, c
<1> QED BY <1>5, <1>7, <1>8, <1>9

(* malloc finds a node as long as there are fewer items than nodes. *)
LEMMA RoomLeft ==
  ASSUME NEW L, NEW s, NEW i, Represents(L, s, i)
  PROVE  HasRoom(L) <=> Len(s) < Size
<1>1. L.used \subseteq Nodes /\ Len(s) = Cardinality(L.used) /\ Len(s) <= Size /\ Size \in Nat
  BY Represented DEF Represents, Typed, Lists
<1>2. L.used # Nodes => Cardinality(L.used) # Cardinality(Nodes)
  BY <1>1, NodesAssumption, FS_Subset
<1> QED BY <1>1, <1>2 DEF HasRoom, Size

(* current is moved to a cell of the chain, or nowhere. *)
LEMMA Moved ==
  ASSUME NEW L, NEW place, NEW s, Typed(L), Ordered(L, place), Shows(L, place, s),
         NEW c \in Chain(L) \cup {None}
  PROVE  Represents(At(L, c), s, IF c = None THEN -1 ELSE place[c])
<1> DEFINE M == At(L, c)
<1>1. /\ M.next = L.next /\ M.prev = L.prev /\ M.data = L.data /\ M.used = L.used
      /\ M.current = c /\ M \in Lists
  BY CellNames DEF At, Typed, Lists, Chain
<1> HIDE DEF M
<1>2. Chain(M) = Chain(L)
  BY <1>1 DEF Chain
<1>3. Typed(M)
  BY <1>1, <1>2 DEF Typed
<1>4. Ordered(M, place)
  BY <1>1, <1>2 DEF Ordered
<1>5. Shows(M, place, s)
  BY <1>1 DEF Shows
<1>6. Position(M, place) = IF c = None THEN -1 ELSE place[c]
  BY <1>1 DEF Position
<1> QED BY <1>3, <1>4, <1>5, <1>6 DEF Represents, M

(* LL_PutNode. *)
LEMMA MovedToNode ==
  ASSUME NEW L, NEW s, NEW i, Represents(L, s, i), NEW c \in L.used
  PROVE  \E j \in 1 .. Len(s) : Represents(At(L, c), s, j)
<1>1. PICK place : Ordered(L, place) /\ Shows(L, place, s)
  BY DEF Represents
<1>2. Typed(L) /\ c \in Chain(L) /\ c # None
  BY CellNames DEF Represents, Typed, Lists, Chain
<1>3. place[c] \in 1 .. Len(s)
  BY <1>1, <1>2, NodePlaces DEF Shows, Typed
<1>4. Represents(At(L, c), s, IF c = None THEN -1 ELSE place[c])
  BY <1>1, <1>2, Moved
<1> QED BY <1>2, <1>3, <1>4

(* LL_Rewind and LL_End. *)
LEMMA Rewinds ==
  ASSUME NEW L, NEW s, NEW i, Represents(L, s, i)
  PROVE  /\ Represents(LL_Rewind(L), s, IF s = << >> THEN 0 ELSE 1)
         /\ Represents(LL_End(L), s, IF s = << >> THEN 1 ELSE Len(s))
<1>1. PICK place : Ordered(L, place) /\ Shows(L, place, s)
  BY DEF Represents
<1>2. /\ Typed(L) /\ s \in Seq(Values) /\ Len(s) \in Nat /\ Len(s) = Cardinality(L.used)
      /\ s = << >> <=> Len(s) = 0
  BY Represented, EmptySeq DEF Represents
<1>3. /\ L.next["head"] \in Chain(L) \ {"head", None} /\ place[L.next["head"]] = 1
      /\ L.prev["tail"] \in Chain(L) \ {"tail", None} /\ place[L.prev["tail"]] = Len(s)
      /\ place["head"] = 0 /\ place["tail"] = Len(s) + 1
      /\ "head" \in Chain(L) \ {None} /\ "tail" \in Chain(L) \ {None}
  <2>1. None \notin Chain(L) /\ "head" \in Chain(L) /\ "tail" \in Chain(L)
    BY <1>2, CellNames DEF Chain, Typed, Lists
  <2>2. place \in [Cells -> Int] /\ L.prev["tail"] \in Chain(L) /\ Chain(L) \subseteq Cells
    BY <1>1, <1>2, <2>1, CellNames DEF Ordered, Chain, Typed, Lists
  <2>3. place["tail"] = place[L.prev["tail"]] + 1
    BY <1>1, <2>1 DEF Ordered
  <2> QED BY <1>1, <1>2, <2>1, <2>2, <2>3 DEF Ordered
<1>4. \A c \in Chain(L) : place[c] = 0 => c = "head"
  BY <1>1, <1>3 DEF Ordered
<1>5. \A c \in Chain(L) : place[c] = Len(s) + 1 => c = "tail"
  BY <1>1, <1>3 DEF Ordered
<1>6. \A c \in Chain(L) \ {None} : Represents(At(L, c), s, place[c])
  BY <1>1, <1>2, Moved
<1>7. L.next["head"] = "tail" <=> Len(s) = 0
  BY <1>2, <1>3, <1>5
<1>8. L.prev["tail"] = "head" <=> Len(s) = 0
  BY <1>2, <1>3, <1>4
<1>9. Represents(LL_Rewind(L), s, IF s = << >> THEN 0 ELSE 1)
  BY <1>2, <1>3, <1>6, <1>7 DEF LL_Rewind
<1>10. Represents(LL_End(L), s, IF s = << >> THEN 1 ELSE Len(s))
  BY <1>2, <1>3, <1>6, <1>8 DEF LL_End
<1> QED BY <1>9, <1>10

(* LL_Next goes on unless it stands on the last item. *)
LEMMA StepsForward ==
  ASSUME NEW L, NEW s, NEW i, Represents(L, s, i)
  PROVE  /\ MayNext(L) <=> i # -1 /\ i # Len(s)
         /\ MayNext(L) => Represents(LL_Next(L), s, IF i = Len(s) + 1 THEN -1 ELSE i + 1)
<1> DEFINE c == L.current
<1>1. PICK place : Ordered(L, place) /\ Shows(L, place, s) /\ i = Position(L, place)
  BY DEF Represents
<1>2. /\ Typed(L) /\ Len(s) \in Nat /\ i \in -1 .. Len(s) + 1
      /\ i = -1 <=> c = None
      /\ i = Len(s) + 1 <=> c = "tail"
      /\ Len(s) = Cardinality(L.used)
  BY Represented DEF Represents
<1>3. c \in Chain(L) \cup {None} /\ None \notin Chain(L)
  BY <1>2, CellNames DEF Typed, Chain, Lists
<1>4. CASE c = None
  BY <1>2, <1>4 DEF MayNext
<1>5. CASE c = "tail"
  <2>1. L.next[c] = None /\ None # "tail"
    BY <1>1, <1>5, CellNames DEF Ordered, Cells
  <2>2. Represents(At(L, None), s, -1)
    BY <1>1, <1>2, Moved
  <2> QED BY <1>2, <1>3, <1>5, <2>1, <2>2 DEF MayNext, LL_Next, Chain
<1>6. CASE c # None /\ c # "tail"
  <2>1. i = place[c] /\ c \in Chain(L) \ {"tail"} /\ i <= Len(s)
    BY <1>1, <1>2, <1>3, <1>6 DEF Position
  <2>2. L.next[c] \in Chain(L) /\ place[L.next[c]] = i + 1
    BY <1>1, <2>1 DEF Ordered
  <2>3. L.next[c] = "tail" <=> i + 1 = Len(s) + 1
    BY <1>1, <1>2, <2>2 DEF Ordered, Chain
  <2>4. Represents(At(L, L.next[c]), s, i + 1)
    <3>1. Represents(At(L, L.next[c]), s, IF L.next[c] = None THEN -1 ELSE place[L.next[c]])
      BY <1>1, <1>2, <2>2, Moved
    <3> QED BY <1>3, <2>2, <3>1
  <2>5. MayNext(L) <=> i # Len(s)
    BY <1>2, <1>6, <2>1, <2>3 DEF MayNext
  <2>6. MayNext(L) => LL_Next(L) = At(L, L.next[c])
    BY DEF LL_Next
  <2> QED BY <1>2, <1>6, <2>1, <2>4, <2>5, <2>6
<1> QED BY <1>4, <1>5, <1>6

(* LL_Prev goes back unless it stands on the first. *)
LEMMA StepsBack ==
  ASSUME NEW L, NEW s, NEW i, Represents(L, s, i)
  PROVE  /\ MayPrev(L) <=> i # -1 /\ i # 1
         /\ MayPrev(L) => Represents(LL_Prev(L), s, IF i = 0 THEN -1 ELSE i - 1)
<1> DEFINE c == L.current
<1>1. PICK place : Ordered(L, place) /\ Shows(L, place, s) /\ i = Position(L, place)
  BY DEF Represents
<1>2. /\ Typed(L) /\ Len(s) \in Nat /\ i \in -1 .. Len(s) + 1
      /\ i = -1 <=> c = None
      /\ i = 0 <=> c = "head"
  BY Represented DEF Represents
<1>3. c \in Chain(L) \cup {None} /\ None \notin Chain(L)
  BY <1>2, CellNames DEF Typed, Chain, Lists
<1>4. CASE c = None
  BY <1>2, <1>4 DEF MayPrev
<1>5. CASE c = "head"
  <2>1. L.prev[c] = None /\ None # "head"
    BY <1>1, <1>5, CellNames DEF Ordered, Cells
  <2>2. Represents(At(L, None), s, -1)
    BY <1>1, <1>2, Moved
  <2> QED BY <1>2, <1>3, <1>5, <2>1, <2>2 DEF MayPrev, LL_Prev, Chain
<1>6. CASE c # None /\ c # "head"
  <2>1. i = place[c] /\ c \in Chain(L) \ {"head"} /\ i >= 1
    BY <1>1, <1>2, <1>3, <1>6 DEF Position
  <2>2. L.prev[c] \in Chain(L) /\ place[L.prev[c]] = i - 1
    <3>1. L.prev[c] \in Chain(L) \ {"tail"} /\ L.next[L.prev[c]] = c
      BY <1>1, <2>1 DEF Ordered
    <3>2. place[c] = place[L.prev[c]] + 1
      BY <1>1, <3>1 DEF Ordered
    <3>3. place[L.prev[c]] \in Int
      BY <1>1, <1>2, <3>1, CellNames DEF Ordered, Chain, Typed, Lists
    <3> QED BY <2>1, <3>1, <3>2, <3>3
  <2>3. L.prev[c] = "head" <=> i - 1 = 0
    BY <1>1, <1>2, <2>2 DEF Ordered, Chain
  <2>4. Represents(At(L, L.prev[c]), s, i - 1)
    <3>1. Represents(At(L, L.prev[c]), s, IF L.prev[c] = None THEN -1 ELSE place[L.prev[c]])
      BY <1>1, <1>2, <2>2, Moved
    <3> QED BY <1>3, <2>2, <3>1
  <2>5. MayPrev(L) <=> i # 1
    BY <1>2, <1>6, <2>1, <2>3 DEF MayPrev
  <2>6. MayPrev(L) => LL_Prev(L) = At(L, L.prev[c])
    BY DEF LL_Prev
  <2> QED BY <1>2, <1>6, <2>1, <2>4, <2>5, <2>6
<1> QED BY <1>4, <1>5, <1>6

-----------------------------------------------------------------------------
(* t is s with d at place j, or without what is there.                       *)
Puts(s, j, d, t) ==
  /\ t \in Seq(Values) /\ Len(t) = Len(s) + 1
  /\ \A k \in 1 .. Len(s) + 1 :
       t[k] = IF k < j THEN s[k] ELSE IF k = j THEN d ELSE s[k - 1]

Drops(s, j, t) ==
  /\ t \in Seq(Values) /\ Len(t) = Len(s) - 1
  /\ \A k \in 1 .. Len(s) - 1 : t[k] = IF k < j THEN s[k] ELSE s[k + 1]

(* The elements of a concatenation. *)
LEMMA Concatenated ==
  ASSUME NEW f \in Seq(Values), NEW g \in Seq(Values), NEW m \in Nat, NEW n \in Nat,
         m = Len(f), n = m + Len(g)
  PROVE  /\ f \o g \in Seq(Values) /\ Len(f \o g) = n
         /\ \A k \in 1 .. m : (f \o g)[k] = f[k]
         /\ \A k \in m + 1 .. n : (f \o g)[k] = g[k - m]
<1> DEFINE h == f \o g
<1>1. /\ h \in Seq(Values) /\ Len(h) = Len(f) + Len(g)
      /\ \A k \in 1 .. Len(f) + Len(g) :
           h[k] = IF k <= Len(f) THEN f[k] ELSE g[k - Len(f)]
  BY ConcatProperties, Zenon
<1>2. Len(g) \in Nat
  OBVIOUS
<1> HIDE DEF h
<1>3. /\ h \in Seq(Values) /\ Len(h) = n
      /\ \A k \in 1 .. m : h[k] = f[k]
      /\ \A k \in m + 1 .. n : h[k] = g[k - m]
  BY <1>1, <1>2
<1> QED BY <1>3 DEF h

(* InsertAt and RemoveAt element by element. *)
LEMMA InsertPuts ==
  ASSUME NEW s \in Seq(Values), NEW j \in 1 .. Len(s) + 1, NEW d \in Values
  PROVE  Puts(s, j, d, InsertAt(s, j, d))
<1> DEFINE f == SubSeq(s, 1, j - 1)
           g == SubSeq(s, j, Len(s))
           e == <<d>>
           h == f \o e
           n == Len(s) + 1
<1>1. Len(s) \in Nat /\ j \in Nat /\ j - 1 \in Nat /\ n \in Nat /\ j <= n /\ j >= 1
  OBVIOUS
<1>2. f \in Seq(Values) /\ Len(f) = j - 1 /\ \A k \in 1 .. j - 1 : f[k] = s[k]
  BY <1>1
<1>3. g \in Seq(Values) /\ Len(g) = n - j /\ \A k \in 1 .. n - j : g[k] = s[j + k - 1]
  BY <1>1
<1>4. e \in Seq(Values) /\ Len(e) = 1 /\ e[1] = d
  OBVIOUS
<1>5. InsertAt(s, j, d) = h \o g
  BY Zenon DEF InsertAt
<1> HIDE DEF f, g, e, n
<1>6. /\ h \in Seq(Values) /\ Len(h) = j
      /\ \A k \in 1 .. j - 1 : h[k] = f[k]
      /\ \A k \in (j - 1) + 1 .. j : h[k] = e[k - (j - 1)]
  <2> DEFINE m == j - 1
  <2>1. f \in Seq(Values) /\ e \in Seq(Values) /\ m \in Nat /\ j \in Nat
        /\ m = Len(f) /\ j = m + Len(e)
    BY <1>1, <1>2, <1>4
  <2> HIDE DEF m
  <2>2. /\ f \o e \in Seq(Values) /\ Len(f \o e) = j
        /\ \A k \in 1 .. m : (f \o e)[k] = f[k]
        /\ \A k \in m + 1 .. j : (f \o e)[k] = e[k - m]
    BY <2>1, Concatenated
  <2> QED BY <2>2 DEF m
<1> HIDE DEF h
<1>7. /\ h \o g \in Seq(Values) /\ Len(h \o g) = n
      /\ \A k \in 1 .. j : (h \o g)[k] = h[k]
      /\ \A k \in j + 1 .. n : (h \o g)[k] = g[k - j]
  <2>1. n = j + Len(g)
    BY <1>1, <1>3
  <2> QED BY <1>1, <1>3, <1>6, <2>1, Concatenated
<1> DEFINE t == h \o g
<1>8. /\ t \in Seq(Values) /\ Len(t) = n
      /\ \A k \in 1 .. j : t[k] = h[k]
      /\ \A k \in j + 1 .. n : t[k] = g[k - j]
  BY <1>7
<1> HIDE DEF t
<1>9. ASSUME NEW k \in 1 .. n
      PROVE  t[k] = IF k < j THEN s[k] ELSE IF k = j THEN d ELSE s[k - 1]
  <2>1. CASE k < j
    BY <1>1, <1>2, <1>6, <1>8, <2>1
  <2>2. CASE k = j
    <3>1. k \in 1 .. j /\ k \in (j - 1) + 1 .. j /\ k - (j - 1) = 1
      BY <1>1, <2>2
    <3>2. t[k] = e[1]
      BY <1>6, <1>8, <3>1
    <3> QED BY <1>1, <1>4, <2>2, <3>2
  <2>3. CASE k > j
    <3>1. k - j \in 1 .. n - j /\ j + (k - j) - 1 = k - 1 /\ k \in j + 1 .. n
      BY <1>1, <2>3
    <3> QED BY <1>1, <1>3, <1>8, <2>3, <3>1
  <2> QED BY <1>1, <2>1, <2>2, <2>3
<1>10. Puts(s, j, d, t)
  BY <1>8, <1>9 DEF Puts, n
<1> QED BY <1>5, <1>10 DEF t

LEMMA RemoveDrops ==
  ASSUME NEW s \in Seq(Values), NEW j \in 1 .. Len(s)
  PROVE  Drops(s, j, RemoveAt(s, j))
<1> DEFINE f == SubSeq(s, 1, j - 1)
           g == SubSeq(s, j + 1, Len(s))
           t == f \o g
           n == Len(s) - 1
<1>1. Len(s) \in Nat /\ j \in Nat /\ j - 1 \in Nat /\ n \in Nat /\ j <= n + 1 /\ j >= 1
  OBVIOUS
<1>2. f \in Seq(Values) /\ Len(f) = j - 1 /\ \A k \in 1 .. j - 1 : f[k] = s[k]
  BY <1>1
<1>3. g \in Seq(Values) /\ Len(g) = n + 1 - j /\ \A k \in 1 .. n + 1 - j : g[k] = s[j + k]
  BY <1>1
<1>4. RemoveAt(s, j) = t
  BY Zenon DEF RemoveAt
<1> HIDE DEF f, g, n
<1>5. /\ t \in Seq(Values) /\ Len(t) = n
      /\ \A k \in 1 .. j - 1 : t[k] = f[k]
      /\ \A k \in (j - 1) + 1 .. n : t[k] = g[k - (j - 1)]
  <2> DEFINE m == j - 1
  <2>1. f \in Seq(Values) /\ g \in Seq(Values) /\ m \in Nat /\ n \in Nat
        /\ m = Len(f) /\ n = m + Len(g)
    BY <1>1, <1>2, <1>3
  <2> HIDE DEF m
  <2>2. /\ f \o g \in Seq(Values) /\ Len(f \o g) = n
        /\ \A k \in 1 .. m : (f \o g)[k] = f[k]
        /\ \A k \in m + 1 .. n : (f \o g)[k] = g[k - m]
    BY <2>1, Concatenated
  <2> QED BY <2>2 DEF m
<1> HIDE DEF t
<1>6. ASSUME NEW k \in 1 .. n PROVE t[k] = IF k < j THEN s[k] ELSE s[k + 1]
  <2>1. CASE k < j
    BY <1>1, <1>2, <1>5, <2>1
  <2>2. CASE k >= j
    <3>1. /\ k - (j - 1) \in 1 .. n + 1 - j /\ j + (k - (j - 1)) = k + 1
          /\ k \in (j - 1) + 1 .. n
      BY <1>1, <2>2
    <3> QED BY <1>1, <1>3, <1>5, <2>2, <3>1
  <2> QED BY <1>1, <2>1, <2>2
<1>7. Drops(s, j, t)
  BY <1>5, <1>6 DEF Drops, n
<1> QED BY <1>4, <1>7 DEF t

(* A new node behind p is a new item behind the place of p. *)
LEMMA Links ==
  ASSUME NEW L, NEW s, NEW i, Represents(L, s, i), HasRoom(L), NEW d \in Values,
         NEW place, Ordered(L, place), Shows(L, place, s),
         NEW p \in Chain(L) \ {"tail"}
  PROVE  Represents(Link(L, p, L.next[p], d), InsertAt(s, place[p] + 1, d), place[p] + 1)
<1> DEFINE n == NewNode(L)
           q == L.next[p]
           M == Link(L, p, q, d)
           room == Room(place, p, n)
           j == place[p] + 1
           t == InsertAt(s, j, d)
<1>1. /\ Typed(L) /\ L \in Lists /\ s \in Seq(Values) /\ Len(s) \in Nat
      /\ Len(s) = Cardinality(L.used)
  BY Represented DEF Represents, Typed
<1>2. n \in Nodes \ L.used
  BY <1>1 DEF HasRoom, NewNode, Lists
<1>3. /\ q \in Chain(L) /\ L.prev[q] = p /\ place[q] = place[p] + 1
      /\ place[p] >= 0 /\ place[q] <= Len(s) + 1
      /\ p \in Cells /\ q \in Cells /\ n \in Cells /\ n \notin Chain(L)
      /\ p # None /\ q # None /\ n # None
  BY <1>1, <1>2, CellNames DEF Ordered, Chain, Lists
<1> HIDE DEF n
<1>4. /\ M.next = [L.next EXCEPT ![n] = q, ![p] = n]
      /\ M.prev = [L.prev EXCEPT ![n] = p, ![q] = n]
      /\ M.data = [L.data EXCEPT ![n] = d]
      /\ M.used = L.used \cup {n} /\ M.current = n
      /\ M \in Lists
  <2> DEFINE A == [L EXCEPT !.used = @ \cup {n},
                            !.data[n] = d, !.next[n] = q, !.prev[n] = p]
  <2>1. M = [[[A EXCEPT !.prev[q] = n] EXCEPT !.next[p] = n] EXCEPT !.current = n]
    BY <1>3, Zenon DEF Link, SetNext, SetPrev, At, n
  <2>2. d \in Data \cup {NULL}
    BY DEF Values
  <2> HIDE DEF M, q
  <2> QED BY <1>1, <1>2, <1>3, <2>1, <2>2 DEF Lists
<1> HIDE DEF M
<1>5. Ordered(M, room)
  BY <1>1, <1>2, <1>4, LinkingIn
<1>6. j \in 1 .. Len(s) + 1 /\ place \in [Cells -> Int]
  BY <1>1, <1>3 DEF Ordered
<1>7. Puts(s, j, d, t)
  BY <1>1, <1>6, InsertPuts
<1> HIDE DEF t
<1>8. room[n] = j /\ \A c \in L.used : room[c] = IF place[c] >= j THEN place[c] + 1 ELSE place[c]
  <2>1. \A c \in L.used : c \in Cells /\ c # n
    BY <1>1, <1>2, CellNames DEF Lists
  <2> QED BY <1>3, <1>6, <2>1 DEF Room
<1>9. ASSUME NEW c \in M.used PROVE t[room[c]] = M.data[c]
  <2>1. L.data \in [Cells -> Data \cup {NULL}]
    BY <1>1 DEF Lists
  <2>2. CASE c = n
    BY <2>1, <2>2, <1>3, <1>4, <1>6, <1>7, <1>8 DEF Puts
  <2>3. CASE c \in L.used
    <3>1. c \in Cells /\ c # n /\ place[c] \in 1 .. Len(s) /\ s[place[c]] = L.data[c]
      BY <1>1, <1>2, <2>3, NodePlaces, CellNames DEF Shows, Lists
    <3>2. M.data[c] = L.data[c]
      BY <1>4, <2>1, <3>1
    <3>3. t[room[c]] = s[place[c]]
      BY <1>1, <1>6, <1>7, <1>8, <2>3, <3>1 DEF Puts
    <3> QED BY <3>1, <3>2, <3>3
  <2> QED BY <1>4, <2>2, <2>3
<1>10. Shows(M, room, t)
  <2>1. Cardinality(M.used) = Len(s) + 1
    BY <1>1, <1>2, <1>4, Counting, FS_AddElement
  <2> QED BY <1>7, <1>9, <2>1 DEF Shows, Puts
<1>11. Typed(M)
  <2>1. M.data["head"] = NULL /\ M.data["tail"] = NULL
    BY <1>1, <1>2, <1>4, CellNames DEF Typed, Lists
  <2>2. M.current \in Chain(M)
    BY <1>4 DEF Chain
  <2> QED BY <1>4, <2>1, <2>2 DEF Typed
<1>12. Position(M, room) = j
  BY <1>3, <1>4, <1>8 DEF Position
<1> QED BY <1>5, <1>10, <1>11, <1>12 DEF Represents, M, t

(* LL_AddNode: behind current, or at the end. *)
LEMMA AddsBehind ==
  ASSUME NEW L, NEW s, NEW i, Represents(L, s, i), NEW d \in Values
  PROVE  /\ MayAdd(L) <=> i # -1 /\ Len(s) < Size
         /\ MayAdd(L) =>
              LET j == IF i > Len(s) THEN i ELSE i + 1
              IN Represents(LL_AddNode(L, d), InsertAt(s, j, d), j)
         /\ ~ MayAdd(L) => LL_AddNode(L, d) = L
<1> DEFINE j == IF i > Len(s) THEN i ELSE i + 1
           p == IF L.current = "tail" THEN L.prev["tail"] ELSE L.current
<1>1. /\ Typed(L) /\ Len(s) \in Nat /\ i \in -1 .. Len(s) + 1 /\ (i = -1 <=> L.current = None)
      /\ (i = Len(s) + 1 <=> L.current = "tail")
  BY Represented DEF Represents
<1>2. MayAdd(L) <=> i # -1 /\ Len(s) < Size
  BY <1>1, RoomLeft DEF MayAdd
<1>3. PICK place : Ordered(L, place) /\ Shows(L, place, s) /\ i = Position(L, place)
  BY DEF Represents
<1>4. ASSUME MayAdd(L) PROVE Represents(LL_AddNode(L, d), InsertAt(s, j, d), j)
  <2>1. L.current \in Chain(L) /\ HasRoom(L) /\ L.current # None
    BY <1>1, <1>4 DEF MayAdd, Typed
  <2>2. p \in Chain(L) \ {"tail"} /\ j = place[p] + 1
    <3>1. CASE L.current = "tail"
      <4>1. p \in Chain(L) \ {"tail"} /\ L.next[p] = "tail" /\ i = place["tail"]
        BY <1>3, <2>1, <3>1, CellNames DEF Ordered, Chain, Position
      <4>2. place["tail"] = place[p] + 1
        BY <1>3, <4>1 DEF Ordered
      <4> QED BY <1>1, <3>1, <4>1, <4>2
    <3>2. CASE L.current # "tail"
      BY <1>1, <1>3, <2>1, <3>2 DEF Position
    <3> QED BY <3>1, <3>2
  <2>3. LL_AddNode(L, d) = Link(L, p, L.next[p], d)
    BY <1>4 DEF LL_AddNode
  <2> HIDE DEF p, j
  <2>4. Represents(Link(L, p, L.next[p], d), InsertAt(s, place[p] + 1, d), place[p] + 1)
    BY <1>3, <2>1, <2>2, Links
  <2> QED BY <2>2, <2>3, <2>4
<1>5. ~ MayAdd(L) => LL_AddNode(L, d) = L
  BY DEF LL_AddNode
<1> QED BY <1>2, <1>4, <1>5

(* LL_InsertNode: before current, or at the beginning. *)
LEMMA AddsBefore ==
  ASSUME NEW L, NEW s, NEW i, Represents(L, s, i), NEW d \in Values
  PROVE  /\ MayInsert(L, d) <=> d # NULL /\ i # -1 /\ Len(s) < Size
         /\ MayInsert(L, d) =>
              LET j == IF i = 0 THEN 1 ELSE i
              IN Represents(LL_InsertNode(L, d), InsertAt(s, j, d), j)
         /\ ~ MayInsert(L, d) => LL_InsertNode(L, d) = L
<1> DEFINE j == IF i = 0 THEN 1 ELSE i
           q == IF L.current = "head" THEN L.next["head"] ELSE L.current
           p == L.prev[q]
<1>1. /\ Typed(L) /\ Len(s) \in Nat /\ i \in -1 .. Len(s) + 1 /\ (i = -1 <=> L.current = None)
      /\ (i = 0 <=> L.current = "head")
  BY Represented DEF Represents
<1>2. MayInsert(L, d) <=> d # NULL /\ i # -1 /\ Len(s) < Size
  BY AddsBehind DEF MayInsert
<1>3. PICK place : Ordered(L, place) /\ Shows(L, place, s) /\ i = Position(L, place)
  BY DEF Represents
<1>4. ASSUME MayInsert(L, d) PROVE Represents(LL_InsertNode(L, d), InsertAt(s, j, d), j)
  <2>1. L.current \in Chain(L) /\ HasRoom(L) /\ L.current # None
    BY <1>1, <1>4 DEF MayInsert, MayAdd, Typed
  <2>2. q \in Chain(L) \ {"head"} /\ j = place[q]
    <3>1. CASE L.current = "head"
      BY <1>1, <1>3, <3>1, CellNames DEF Ordered, Chain
    <3>2. CASE L.current # "head"
      BY <1>1, <1>3, <2>1, <3>2 DEF Position
    <3> QED BY <3>1, <3>2
  <2>3. p \in Chain(L) \ {"tail"} /\ L.next[p] = q /\ j = place[p] + 1
    BY <1>3, <2>2 DEF Ordered
  <2>4. LL_InsertNode(L, d) = Link(L, p, q, d)
    BY <1>4 DEF LL_InsertNode
  <2> HIDE DEF p, q, j
  <2>5. Represents(Link(L, p, L.next[p], d), InsertAt(s, place[p] + 1, d), place[p] + 1)
    BY <1>3, <2>1, <2>3, Links
  <2> QED BY <2>3, <2>4, <2>5
<1>5. ~ MayInsert(L, d) => LL_InsertNode(L, d) = L
  BY DEF LL_InsertNode
<1> QED BY <1>2, <1>4, <1>5

(* What unlinking a node leaves of the pointers. *)
LEMMA Unlinked ==
  ASSUME NEW L \in Lists, NEW place, Ordered(L, place), NEW c \in L.used
  PROVE  /\ LL_node_Unlink(L, c) \in Lists
         /\ LL_node_Unlink(L, c).next = [L.next EXCEPT ![L.prev[c]] = L.next[c], ![c] = None]
         /\ LL_node_Unlink(L, c).prev = [L.prev EXCEPT ![L.next[c]] = L.prev[c], ![c] = None]
         /\ LL_node_Unlink(L, c).data = L.data
         /\ LL_node_Unlink(L, c).current = L.current
         /\ LL_node_Unlink(L, c).used = L.used
<1> DEFINE p == L.prev[c]
           q == L.next[c]
           M == LL_node_Unlink(L, c)
<1>1. p \in Cells /\ q \in Cells /\ c \in Cells /\ p # None /\ q # None
  BY CellNames DEF Ordered, Chain, Lists
<1>2. M = [[[[L EXCEPT !.prev[q] = p] EXCEPT !.next[p] = q]
            EXCEPT !.next[c] = None] EXCEPT !.prev[c] = None]
  BY <1>1 DEF LL_node_Unlink, SetNext, SetPrev, Lists
<1> HIDE DEF M, p, q
<1>3. /\ M \in Lists
      /\ M.next = [L.next EXCEPT ![p] = q, ![c] = None]
      /\ M.prev = [L.prev EXCEPT ![q] = p, ![c] = None]
      /\ M.data = L.data /\ M.current = L.current /\ M.used = L.used
  BY <1>1, <1>2 DEF Lists
<1> QED BY <1>3 DEF M, p, q

(* LL_DeleteNode: current goes on to what follows. *)
LEMMA Deletes ==
  ASSUME NEW L, NEW s, NEW i, Represents(L, s, i)
  PROVE  /\ MayDelete(L) <=> i \in 1 .. Len(s)
         /\ MayDelete(L) => Represents(LL_DeleteNode(L), RemoveAt(s, i), i) /\ Deleted(L) = s[i]
         /\ ~ MayDelete(L) => LL_DeleteNode(L) = L /\ Deleted(L) = NULL
<1> DEFINE c == L.current
           q == L.next[c]
           U == LL_node_Unlink(L, c)
           M == At(Free(U, c), q)
           t == RemoveAt(s, i)
<1>1. /\ Typed(L) /\ L \in Lists /\ s \in Seq(Values) /\ Len(s) \in Nat /\ i \in Int
      /\ Len(s) = Cardinality(L.used)
      /\ (i \in 1 .. Len(s) <=> c \in L.used)
      /\ (c \in Nodes <=> c \in L.used)
  <2>1. Typed(L) /\ L \in Lists
    BY DEF Represents, Typed
  <2>2. /\ s \in Seq(Values) /\ Len(s) \in Nat /\ i \in -1 .. Len(s) + 1
        /\ Len(s) = Cardinality(L.used)
        /\ (i \in 1 .. Len(s) <=> c \in L.used)
        /\ (c \in Nodes <=> c \in L.used)
    BY Represented
  <2> QED BY <2>1, <2>2
<1>2. MayDelete(L) <=> i \in 1 .. Len(s)
  BY <1>1 DEF MayDelete
<1>3. PICK place : Ordered(L, place) /\ Shows(L, place, s) /\ i = Position(L, place)
  BY DEF Represents
<1>4. ~ MayDelete(L) => LL_DeleteNode(L) = L /\ Deleted(L) = NULL
  BY DEF LL_DeleteNode, Deleted
<1>5. ASSUME MayDelete(L) PROVE Represents(LL_DeleteNode(L), t, i) /\ Deleted(L) = s[i]
  <2>1. c \in L.used /\ c \in Nodes /\ c # None /\ i \in 1 .. Len(s) /\ c \in Chain(L)
    BY <1>1, <1>2, <1>5, CellNames DEF MayDelete, Chain
  <2>2. i = place[c] /\ s[i] = L.data[c] /\ Deleted(L) = s[i]
    BY <1>3, <1>5, <2>1 DEF Position, Shows, Deleted
  <2>3. q \in Chain(L) \ {"head"} /\ place[q] = i + 1 /\ q # c
    <3>1. c # "tail"
      BY <2>1, CellNames
    <3> QED BY <1>1, <1>3, <2>1, <2>2, <3>1 DEF Ordered
  <2>4. q \in Cells /\ q # None /\ Chain(L) \subseteq Cells
    BY <1>1, <2>3, CellNames DEF Chain, Lists
  <2>5. /\ U \in Lists
        /\ U.next = [L.next EXCEPT ![L.prev[c]] = L.next[c], ![c] = None]
        /\ U.prev = [L.prev EXCEPT ![L.next[c]] = L.prev[c], ![c] = None]
        /\ U.data = L.data /\ U.used = L.used
    BY <1>1, <1>3, <2>1, Unlinked
  <2> HIDE DEF U
  <2>6. /\ M \in Lists /\ M.next = U.next /\ M.prev = U.prev
        /\ M.data = [L.data EXCEPT ![c] = NULL]
        /\ M.used = L.used \ {c} /\ M.current = q
    BY <2>4, <2>5 DEF Free, At, Lists
  <2>7. LL_DeleteNode(L) = M
    BY <1>5 DEF LL_DeleteNode, U
  <2> HIDE DEF M
  <2>8. Ordered(M, Gap(place, c))
    BY <1>1, <1>3, <2>1, <2>5, <2>6, LinkingOut
  <2> DEFINE gap == Gap(place, c)
  <2>9. \A x \in Chain(L) : gap[x] = IF place[x] > i THEN place[x] - 1 ELSE place[x]
    BY <2>2, <2>4 DEF Gap
  <2> HIDE DEF gap
  <2>10. Drops(s, i, t)
    BY <1>1, <2>1, RemoveDrops
  <2> HIDE DEF t, q
  <2>11. ASSUME NEW x \in M.used PROVE t[gap[x]] = M.data[x]
    <3>1. x \in L.used /\ x # c /\ x \in Chain(L) /\ x \in Cells
      BY <1>1, <2>6, <2>4 DEF Chain
    <3>2. place[x] \in 1 .. Len(s) /\ s[place[x]] = L.data[x] /\ place[x] # i
      BY <1>1, <1>3, <2>1, <2>2, <3>1, NodePlaces DEF Ordered, Shows
    <3>3. t[gap[x]] = s[place[x]]
      <4>1. CASE place[x] > i
        BY <1>1, <2>1, <2>9, <2>10, <3>1, <3>2, <4>1 DEF Drops
      <4>2. CASE place[x] < i
        BY <1>1, <2>1, <2>9, <2>10, <3>1, <3>2, <4>2 DEF Drops
      <4> QED BY <1>1, <3>2, <4>1, <4>2
    <3>4. M.data[x] = L.data[x]
      BY <1>1, <2>6, <3>1 DEF Lists
    <3> QED BY <3>2, <3>3, <3>4
  <2>12. Shows(M, gap, t)
    <3>1. IsFiniteSet(L.used)
      BY <1>1, Counting
    <3>2. Cardinality(L.used \ {c}) = Cardinality(L.used) - 1
      BY <2>1, <3>1, FS_RemoveElement
    <3>3. Cardinality(M.used) = Len(s) - 1
      BY <1>1, <2>6, <3>2
    <3> QED BY <2>10, <2>11, <3>3 DEF Shows, Drops
  <2>13. Typed(M)
    <3>1. M.data["head"] = NULL /\ M.data["tail"] = NULL
      BY <1>1, <2>6, CellNames DEF Typed, Lists
    <3>2. M.current \in Chain(M)
      BY <2>3, <2>6 DEF Chain
    <3> QED BY <2>6, <3>1, <3>2 DEF Typed
  <2>14. Position(M, gap) = i
    BY <1>1, <2>3, <2>4, <2>6, <2>9 DEF Position
  <2> QED BY <2>2, <2>7, <2>8, <2>12, <2>13, <2>14 DEF Represents, gap
<1> QED BY <1>2, <1>4, <1>5

(* LL_Put. *)
LEMMA PutsData ==
  ASSUME NEW L, NEW s, NEW i, Represents(L, s, i), L.current \in Nodes, NEW d \in Values
  PROVE  i \in 1 .. Len(s) /\ Represents(LL_Put(L, d), [s EXCEPT ![i] = d], i)
<1> DEFINE c == L.current
           M == LL_Put(L, d)
           t == [s EXCEPT ![i] = d]
<1>1. /\ Typed(L) /\ L \in Lists /\ s \in Seq(Values) /\ Len(s) \in Nat /\ c \in L.used
      /\ i \in 1 .. Len(s) /\ c # None /\ c \in Cells /\ c # "head" /\ c # "tail"
  BY Represented, CellNames DEF Represents, Typed
<1>2. PICK place : Ordered(L, place) /\ Shows(L, place, s) /\ i = Position(L, place)
  BY DEF Represents
<1>3. /\ M \in Lists /\ M.next = L.next /\ M.prev = L.prev /\ M.used = L.used
      /\ M.data = [L.data EXCEPT ![c] = d] /\ M.current = c
  BY <1>1 DEF LL_Put, Lists, Values
<1> HIDE DEF M
<1>4. Chain(M) = Chain(L)
  BY <1>3 DEF Chain
<1>5. Ordered(M, place)
  BY <1>2, <1>3, <1>4 DEF Ordered
<1>6. Typed(M)
  BY <1>1, <1>3, <1>4 DEF Typed, Lists
<1>7. i = place[c] /\ i = Position(M, place)
  BY <1>1, <1>2, <1>3 DEF Position
<1>8. t \in Seq(Values) /\ Len(t) = Len(s)
      /\ \A k \in 1 .. Len(s) : t[k] = IF k = i THEN d ELSE s[k]
  BY <1>1
<1> HIDE DEF t
<1>9. ASSUME NEW x \in M.used PROVE t[place[x]] = M.data[x]
  <2>1. x \in L.used /\ x \in Chain(L) /\ c \in Chain(L) /\ x \in Cells
    BY <1>1, <1>3, CellNames DEF Chain, Lists
  <2>2. place[x] \in 1 .. Len(s) /\ s[place[x]] = L.data[x]
    BY <1>1, <1>2, <2>1, NodePlaces DEF Shows
  <2>3. \A a, b \in Chain(L) : place[a] = place[b] => a = b
    BY <1>2 DEF Ordered
  <2>4. CASE x = c
    BY <1>1, <1>3, <1>7, <1>8, <2>1, <2>4 DEF Lists
  <2>5. CASE x # c
    <3>1. place[x] # i
      BY <1>7, <2>1, <2>3, <2>5
    <3>2. M.data[x] = L.data[x]
      BY <1>1, <1>3, <2>1, <2>5 DEF Lists
    <3> QED BY <1>8, <2>2, <3>1, <3>2
  <2> QED BY <2>4, <2>5
<1>10. Shows(M, place, t)
  BY <1>2, <1>3, <1>8, <1>9 DEF Shows
<1> QED BY <1>1, <1>5, <1>6, <1>7, <1>10 DEF Represents, M, t

-----------------------------------------------------------------------------
(* Step after step forward or back.                                          *)
Placed(s) == {M \in Lists : \E j \in -1 .. Len(s) + 1 : Represents(M, s, j)}

LEMMA PlacedAt ==
  ASSUME NEW L, NEW s, NEW i, Represents(L, s, i)
  PROVE  L \in Placed(s) /\ LL_Next(L) \in Placed(s) /\ LL_Prev(L) \in Placed(s)
<1>1. ASSUME NEW M, NEW j, Represents(M, s, j) PROVE M \in Placed(s)
  <2>1. M \in Lists
    BY <1>1 DEF Represents, Typed
  <2>2. j \in -1 .. Len(s) + 1
    BY <1>1, Represented
  <2> QED BY <1>1, <2>1, <2>2 DEF Placed
<1>2. LL_Next(L) = L \/ \E j : Represents(LL_Next(L), s, j)
  BY StepsForward DEF LL_Next
<1>3. LL_Prev(L) = L \/ \E j : Represents(LL_Prev(L), s, j)
  BY StepsBack DEF LL_Prev
<1> QED BY <1>1, <1>2, <1>3

(* After and Before are what their recursions say. *)
LEMMA Advances ==
  ASSUME NEW L, NEW s, NEW i, Represents(L, s, i)
  PROVE  After(L)[0] = L /\ \A k \in 1 .. Size + 2 : After(L)[k] = LL_Next(After(L)[k - 1])
<1> DEFINE X == Placed(s)
           n == Size + 2
           g == [k \in 1 .. n |-> [x \in X |-> LL_Next(x)]]
           Is(f) == f = [k \in Calls |-> IF k = 0 THEN L ELSE LL_Next(f[k - 1])]
<1>1. n \in Nat /\ L \in X /\ \A x \in X : LL_Next(x) \in X
  <2>1. Size \in Nat
    BY Represented
  <2>2. \A x \in X : LL_Next(x) \in X
    BY PlacedAt DEF Placed
  <2> QED BY <2>1, <2>2, PlacedAt
<1> HIDE DEF X
<1>2. g \in [1 .. n -> [X -> X]]
  BY <1>1
<1>3. PICK f \in [0 .. n -> X] : Iterated(f, L, n, g)
  <2> HIDE DEF n, g
  <2> QED BY <1>1, <1>2, Iterates
<1>4. f[0] = L /\ \A k \in 1 .. n : f[k] = LL_Next(f[k - 1])
  <2>1. \A k \in 1 .. n : k - 1 \in 0 .. n
    BY <1>1
  <2>2. \A k \in 1 .. n : g[k][f[k - 1]] = LL_Next(f[k - 1])
    BY <2>1
  <2> HIDE DEF g, n
  <2> QED BY <1>3, <2>2 DEF Iterated
<1>5. Is(f)
  <2>1. \A k \in 0 .. n : k # 0 => k \in 1 .. n
    BY <1>1
  <2>2. 0 .. n = Calls
    BY DEF Calls
  <2> HIDE DEF n
  <2> QED BY <1>3, <1>4, <2>1, <2>2
<1>6. Is(After(L))
  <2>1. After(L) = CHOOSE h : Is(h)
    BY DEF After
  <2> HIDE DEF Is
  <2> QED BY <1>5, <2>1
<1> DEFINE w == After(L)
<1> HIDE DEF w
<1>7. Is(w)
  BY <1>6 DEF w
<1>8. w[0] = L /\ \A k \in 1 .. n : w[k] = LL_Next(w[k - 1])
  BY <1>1, <1>7 DEF Calls
<1> QED BY <1>8 DEF w

LEMMA Retreats ==
  ASSUME NEW L, NEW s, NEW i, Represents(L, s, i)
  PROVE  Before(L)[0] = L /\ \A k \in 1 .. Size + 2 : Before(L)[k] = LL_Prev(Before(L)[k - 1])
<1> DEFINE X == Placed(s)
           n == Size + 2
           g == [k \in 1 .. n |-> [x \in X |-> LL_Prev(x)]]
           Is(f) == f = [k \in Calls |-> IF k = 0 THEN L ELSE LL_Prev(f[k - 1])]
<1>1. n \in Nat /\ L \in X /\ \A x \in X : LL_Prev(x) \in X
  <2>1. Size \in Nat
    BY Represented
  <2>2. \A x \in X : LL_Prev(x) \in X
    BY PlacedAt DEF Placed
  <2> QED BY <2>1, <2>2, PlacedAt
<1> HIDE DEF X
<1>2. g \in [1 .. n -> [X -> X]]
  BY <1>1
<1>3. PICK f \in [0 .. n -> X] : Iterated(f, L, n, g)
  <2> HIDE DEF n, g
  <2> QED BY <1>1, <1>2, Iterates
<1>4. f[0] = L /\ \A k \in 1 .. n : f[k] = LL_Prev(f[k - 1])
  <2>1. \A k \in 1 .. n : k - 1 \in 0 .. n
    BY <1>1
  <2>2. \A k \in 1 .. n : g[k][f[k - 1]] = LL_Prev(f[k - 1])
    BY <2>1
  <2> HIDE DEF g, n
  <2> QED BY <1>3, <2>2 DEF Iterated
<1>5. Is(f)
  <2>1. \A k \in 0 .. n : k # 0 => k \in 1 .. n
    BY <1>1
  <2>2. 0 .. n = Calls
    BY DEF Calls
  <2> HIDE DEF n
  <2> QED BY <1>3, <1>4, <2>1, <2>2
<1>6. Is(Before(L))
  <2>1. Before(L) = CHOOSE h : Is(h)
    BY DEF Before
  <2> HIDE DEF Is
  <2> QED BY <1>5, <2>1
<1> DEFINE w == Before(L)
<1> HIDE DEF w
<1>7. Is(w)
  BY <1>6 DEF w
<1>8. w[0] = L /\ \A k \in 1 .. n : w[k] = LL_Prev(w[k - 1])
  BY <1>1, <1>7 DEF Calls
<1> QED BY <1>8 DEF w

(* Where k steps lead from i in a list of n items. *)
Ahead(n, i, k) ==
  IF i = -1 THEN -1
  ELSE IF i = n + 1 THEN IF k = 0 THEN i ELSE -1
  ELSE IF i + k <= n THEN i + k ELSE n

Back(i, k) ==
  IF i = -1 THEN -1
  ELSE IF i = 0 THEN IF k = 0 THEN i ELSE -1
  ELSE IF i - k >= 1 THEN i - k ELSE 1

(* They stand where k steps lead. *)
LEMMA AfterPlaces ==
  ASSUME NEW L, NEW s, NEW i, Represents(L, s, i)
  PROVE  \A k \in Calls : Represents(After(L)[k], s, Ahead(Len(s), i, k))
<1> DEFINE w == After(L)
           n == Len(s)
           T == {k \in 0 .. Size + 2 : Represents(w[k], s, Ahead(n, i, k))}
<1>1. Size \in Nat /\ n \in Nat /\ i \in -1 .. n + 1
  BY Represented
<1>2. w[0] = L /\ \A k \in 1 .. Size + 2 : w[k] = LL_Next(w[k - 1])
  BY Advances
<1> HIDE DEF w, n
<1>3. 0 \in T
  <2>1. Ahead(n, i, 0) = i
    BY <1>1 DEF Ahead
  <2> QED BY <1>1, <1>2, <2>1
<1>4. ASSUME NEW k \in 0 .. Size + 1, k \in T PROVE k + 1 \in T
  <2> DEFINE a == Ahead(n, i, k)
             M == w[k]
  <2>1. Represents(M, s, a) /\ w[k + 1] = LL_Next(M) /\ k + 1 \in 0 .. Size + 2
    BY <1>1, <1>2, <1>4
  <2>2. Ahead(n, i, k + 1) = IF a # -1 /\ a # n THEN (IF a = n + 1 THEN -1 ELSE a + 1) ELSE a
    BY <1>1 DEF Ahead
  <2> HIDE DEF a, M
  <2>3. /\ MayNext(M) <=> a # -1 /\ a # n
        /\ MayNext(M) => Represents(LL_Next(M), s, IF a = n + 1 THEN -1 ELSE a + 1)
    BY <2>1, StepsForward DEF n
  <2>4. ~ MayNext(M) => LL_Next(M) = M
    BY DEF LL_Next
  <2>5. Represents(LL_Next(M), s, Ahead(n, i, k + 1))
    BY <2>1, <2>2, <2>3, <2>4
  <2> QED BY <2>1, <2>5
<1> HIDE DEF T
<1>5. \A k \in 0 .. Size + 2 : k \in T
  <2>1. Size + 2 \in Nat /\ \A k \in 0 .. (Size + 2) - 1 : k \in 0 .. Size + 1
    BY <1>1
  <2> QED BY <1>3, <1>4, <2>1, Induction
<1> QED BY <1>5 DEF T, w, n, Calls

LEMMA BeforePlaces ==
  ASSUME NEW L, NEW s, NEW i, Represents(L, s, i)
  PROVE  \A k \in Calls : Represents(Before(L)[k], s, Back(i, k))
<1> DEFINE w == Before(L)
           T == {k \in 0 .. Size + 2 : Represents(w[k], s, Back(i, k))}
<1>1. Size \in Nat /\ Len(s) \in Nat /\ i \in -1 .. Len(s) + 1
  BY Represented
<1>2. w[0] = L /\ \A k \in 1 .. Size + 2 : w[k] = LL_Prev(w[k - 1])
  BY Retreats
<1> HIDE DEF w
<1>3. 0 \in T
  <2>1. Back(i, 0) = i
    BY <1>1 DEF Back
  <2> QED BY <1>1, <1>2, <2>1
<1>4. ASSUME NEW k \in 0 .. Size + 1, k \in T PROVE k + 1 \in T
  <2> DEFINE a == Back(i, k)
             M == w[k]
  <2>1. Represents(M, s, a) /\ w[k + 1] = LL_Prev(M) /\ k + 1 \in 0 .. Size + 2
    BY <1>1, <1>2, <1>4
  <2>2. Back(i, k + 1) = IF a # -1 /\ a # 1 THEN (IF a = 0 THEN -1 ELSE a - 1) ELSE a
    BY <1>1 DEF Back
  <2> HIDE DEF a, M
  <2>3. /\ MayPrev(M) <=> a # -1 /\ a # 1
        /\ MayPrev(M) => Represents(LL_Prev(M), s, IF a = 0 THEN -1 ELSE a - 1)
    BY <2>1, StepsBack
  <2>4. ~ MayPrev(M) => LL_Prev(M) = M
    BY DEF LL_Prev
  <2>5. Represents(LL_Prev(M), s, Back(i, k + 1))
    BY <2>1, <2>2, <2>3, <2>4
  <2> QED BY <2>1, <2>5
<1> HIDE DEF T
<1>5. \A k \in 0 .. Size + 2 : k \in T
  <2>1. Size + 2 \in Nat /\ \A k \in 0 .. (Size + 2) - 1 : k \in 0 .. Size + 1
    BY <1>1
  <2> QED BY <1>3, <1>4, <2>1, Induction
<1> QED BY <1>5 DEF T, w, Calls

-----------------------------------------------------------------------------
(* Where the loops that search stop.                                         *)
LEMMA LeastIsMin ==
  ASSUME NEW K \in SUBSET Nat, K # {}
  PROVE  Min(K) \in K /\ \A k \in K : Min(K) <= k
  BY Least DEF Min

(* Forward from i in a list of n items, of which those at W match, to a. *)
Stopped(n, i, W, a) ==
  /\ i \in {-1, n + 1} => a = -1
  /\ \A j \in W : i # -1 /\ j >= i => a \in W /\ i <= a /\ a <= j
  /\ i \in 0 .. n /\ (\A j \in W : j < i) => a = n /\ n \notin W

(* Enough calls of LL_Next are looked at for the loop to have stopped. *)
LEMMA SearchedAhead ==
  ASSUME NEW n \in Nat, n <= Size, Size \in Nat, NEW i \in -1 .. n + 1,
         NEW W \in SUBSET (1 .. n), NEW K,
         K = {k \in Calls : Ahead(n, i, k) \in W \cup {-1, n}}
  PROVE  Min(K) \in Calls /\ Stopped(n, i, W, Ahead(n, i, Min(K)))
<1> DEFINE m == Min(K)
<1>1. K \in SUBSET Nat /\ K \subseteq Calls
  BY DEF Calls
<1>2. K # {}
  <2>1. n + 1 \in Calls /\ Ahead(n, i, n + 1) \in {-1, n}
    BY DEF Calls, Ahead
  <2> QED BY <2>1
<1>3. m \in K /\ \A k \in K : m <= k
  BY <1>1, <1>2, LeastIsMin, Zenon
<1> HIDE DEF m
<1> DEFINE a == Ahead(n, i, m)
<1>4. m \in Calls /\ m \in 0 .. Size + 2 /\ m \in Nat /\ a \in W \cup {-1, n}
  BY <1>1, <1>3 DEF Calls
<1>5. ASSUME i \in {-1, n + 1} PROVE a = -1
  BY <1>4, <1>5 DEF Ahead
<1>6. ASSUME NEW j \in W, i # -1, j >= i PROVE a \in W /\ i <= a /\ a <= j
  <2>1. j \in 1 .. n /\ i \in 0 .. n
    BY <1>6
  <2>2. Ahead(n, i, j - i) = j /\ j - i \in Calls
    <3>1. j - i \in 0 .. n /\ i + (j - i) = j /\ j <= n
      BY <1>6, <2>1
    <3>2. j - i \in Calls
      BY <3>1 DEF Calls
    <3> QED BY <2>1, <3>1, <3>2 DEF Ahead
  <2>3. m <= j - i
    BY <1>3, <2>2
  <2>4. a = i + m
    BY <1>4, <2>1, <2>3 DEF Ahead
  <2>5. a <= j /\ i <= a /\ a # -1
    BY <1>4, <2>1, <2>3, <2>4
  <2>6. a = n => a = j
    BY <2>1, <2>5
  <2> HIDE DEF a
  <2> QED BY <1>4, <2>5, <2>6
<1>7. ASSUME i \in 0 .. n, \A j \in W : j < i PROVE a = n /\ n \notin W
  <2>1. a \in i .. n
    BY <1>4, <1>7 DEF Ahead
  <2>2. \A j \in i .. n : j \notin W
    BY <1>7
  <2>3. n \in i .. n
    BY <1>7
  <2> HIDE DEF a
  <2> QED BY <1>4, <1>7, <2>1, <2>2, <2>3
<1> HIDE DEF a
<1>8. Stopped(n, i, W, a)
  BY <1>5, <1>6, <1>7 DEF Stopped
<1> QED BY <1>4, <1>8 DEF m, a

(* Back from the end. *)
LEMMA SearchedBack ==
  ASSUME NEW n \in Nat, n <= Size, Size \in Nat, NEW e, e = (IF n = 0 THEN 1 ELSE n),
         NEW W \in SUBSET (1 .. n), NEW K,
         K = {k \in Calls : Back(e, k) \in W \cup {-1, 1}}
  PROVE  /\ Min(K) \in Calls
         /\ \A j \in W : Back(e, Min(K)) \in W /\ j <= Back(e, Min(K))
         /\ W = {} => Back(e, Min(K)) = 1
<1> DEFINE m == Min(K)
<1>1. K \in SUBSET Nat /\ K \subseteq Calls
  BY DEF Calls
<1>2. K # {}
  <2>1. n \in Calls /\ Back(e, n) = 1
    BY DEF Calls, Back
  <2> QED BY <2>1
<1>3. m \in K /\ \A k \in K : m <= k
  BY <1>1, <1>2, LeastIsMin, Zenon
<1> HIDE DEF m
<1> DEFINE a == Back(e, m)
<1>4. m \in Calls /\ m \in 0 .. Size + 2 /\ m \in Nat /\ a \in W \cup {-1, 1} /\ a # -1
  BY <1>1, <1>3 DEF Calls, Back
<1>5. ASSUME NEW j \in W PROVE a \in W /\ j <= a
  <2>1. j \in 1 .. n /\ e = n
    OBVIOUS
  <2>2. Back(e, n - j) = j /\ n - j \in Calls
    BY <2>1 DEF Back, Calls
  <2>3. m <= n - j
    BY <1>3, <2>2
  <2>4. a = n - m
    BY <1>4, <2>1, <2>3 DEF Back
  <2>5. j <= a
    BY <1>4, <2>1, <2>3, <2>4
  <2>6. a = 1 => a = j
    BY <2>1, <2>5
  <2> HIDE DEF a
  <2> QED BY <1>4, <2>5, <2>6
<1>6. W = {} => a = 1
  BY <1>4
<1> QED BY <1>4, <1>5, <1>6 DEF m

(* LL_Find stops at the first match from current on, or at the end. *)
LEMMA Finds ==
  ASSUME NEW L, NEW s, NEW i, Represents(L, s, i), NEW d \in Data,
         NEW W, W = {j \in 1 .. Len(s) : Compare(s[j], d) = 0}
  PROVE  \E a \in -1 .. Len(s) + 1 :
           /\ Represents(LL_Find(L, d), s, a)
           /\ FoundData(L, d) = IF a \in W THEN s[a] ELSE NULL
           /\ Stopped(Len(s), i, W, a)
<1> DEFINE after == After(L)
           n == Len(s)
           K == {k \in Calls : Compare(LL_Get(after[k]), d) = 0 \/ ~ MayNext(after[k])}
           a == Ahead(n, i, Min(K))
           F == LL_Find(L, d)
<1>1. n \in Nat /\ n <= Size /\ Size \in Nat /\ i \in -1 .. n + 1 /\ W \in SUBSET (1 .. n)
  BY Represented
<1>2. Compare(NULL, d) # 0
  BY NodesAssumption DEF Compare, NULL
<1>3. ASSUME NEW M, NEW j, Represents(M, s, j)
      PROVE  /\ Compare(LL_Get(M), d) = 0 <=> j \in W
             /\ MayNext(M) <=> j \notin {-1, n}
             /\ j \in W => LL_Get(M) = s[j]
  <2>1. LL_Get(M) = IF j \in 1 .. n THEN s[j] ELSE NULL
    BY <1>3, Represented
  <2>2. MayNext(M) <=> j # -1 /\ j # n
    BY <1>3, StepsForward
  <2> QED BY <1>2, <2>1, <2>2
<1>4. \A k \in Calls : Represents(after[k], s, Ahead(n, i, k))
  BY AfterPlaces
<1>5. K = {k \in Calls : Ahead(n, i, k) \in W \cup {-1, n}}
  <2> HIDE DEF after, n
  <2> QED BY <1>3, <1>4
<1>6. F = after[Min(K)]
  BY DEF LL_Find
<1> HIDE DEF K, F, after, n
<1>7. Min(K) \in Calls /\ Stopped(n, i, W, a)
  BY <1>1, <1>5, SearchedAhead, Zenon
<1>8. Represents(F, s, a)
  BY <1>4, <1>6, <1>7
<1> HIDE DEF a
<1>9. a \in -1 .. n + 1
  BY <1>8, Represented DEF n
<1>10. FoundData(L, d) = IF a \in W THEN s[a] ELSE NULL
  BY <1>3, <1>8 DEF FoundData, F
<1> QED BY <1>7, <1>8, <1>9, <1>10 DEF F, n

(* LL_Remove takes out the first item that is the pointer itself. *)
LEMMA Removes ==
  ASSUME NEW L, NEW s, NEW i, Represents(L, s, i), NEW d \in Data,
         NEW W, W = {j \in 1 .. Len(s) : s[j] = d}
  PROVE  /\ W = {} => Represents(LL_Remove(L, d), s, Len(s)) /\ Removed(L, d) = NULL
         /\ W # {} => \E a \in W :
              /\ \A j \in W : a <= j
              /\ Represents(LL_Remove(L, d), RemoveAt(s, a), a)
              /\ Removed(L, d) = s[a]
<1> DEFINE R == LL_Rewind(L)
           after == After(R)
           n == Len(s)
           b == IF s = << >> THEN 0 ELSE 1
           K == {k \in Calls : LL_Get(after[k]) = d \/ ~ MayNext(after[k])}
           a == Ahead(n, b, Min(K))
           F == Found(L, d)
<1>1. /\ n \in Nat /\ n <= Size /\ Size \in Nat /\ W \in SUBSET (1 .. n)
      /\ (s = << >> <=> n = 0) /\ s \in Seq(Values)
  BY Represented, EmptySeq
<1>2. Represents(R, s, b)
  BY Rewinds
<1>3. d # NULL
  BY NodesAssumption DEF NULL
<1>4. ASSUME NEW M, NEW j, Represents(M, s, j)
      PROVE  /\ LL_Get(M) = d <=> j \in W
             /\ MayNext(M) <=> j \notin {-1, n}
             /\ j \in W => s[j] = d
  <2>1. LL_Get(M) = IF j \in 1 .. n THEN s[j] ELSE NULL
    BY <1>4, Represented
  <2>2. MayNext(M) <=> j # -1 /\ j # n
    BY <1>4, StepsForward
  <2> QED BY <1>3, <2>1, <2>2
<1> HIDE DEF R
<1>5. \A k \in Calls : Represents(after[k], s, Ahead(n, b, k))
  BY <1>2, AfterPlaces
<1>6. K = {k \in Calls : Ahead(n, b, k) \in W \cup {-1, n}}
  <2> HIDE DEF after, n, b
  <2> QED BY <1>4, <1>5
<1>7. F = after[Min(K)]
  BY DEF Found, R
<1>8. b \in -1 .. n + 1 /\ b \in 0 .. n /\ \A j \in W : j >= b
  BY <1>1
<1> HIDE DEF K, F, after, n, b
<1>9. Min(K) \in Calls /\ Stopped(n, b, W, a)
  BY <1>1, <1>6, <1>8, SearchedAhead, Zenon
<1>10. Represents(F, s, a)
  BY <1>5, <1>7, <1>9
<1> HIDE DEF a
<1>11. /\ LL_Remove(L, d) = IF a \in W THEN LL_DeleteNode(F) ELSE F
       /\ Removed(L, d) = IF a \in W THEN Deleted(F) ELSE NULL
  BY <1>4, <1>10, Zenon DEF LL_Remove, Removed, F
<1>12. ASSUME W = {} PROVE Represents(LL_Remove(L, d), s, n) /\ Removed(L, d) = NULL
  BY <1>8, <1>9, <1>10, <1>11, <1>12 DEF Stopped
<1>13. ASSUME W # {}
       PROVE  /\ a \in W /\ \A j \in W : a <= j
              /\ Represents(LL_Remove(L, d), RemoveAt(s, a), a)
              /\ Removed(L, d) = s[a]
  <2>1. a \in W /\ \A j \in W : a <= j
    BY <1>8, <1>9, <1>13 DEF Stopped
  <2>2. a \in 1 .. Len(s)
    BY <2>1
  <2>3. Represents(LL_DeleteNode(F), RemoveAt(s, a), a) /\ Deleted(F) = s[a]
    BY <1>10, <2>2, Deletes
  <2> QED BY <1>11, <2>1, <2>3
<1> QED BY <1>12, <1>13 DEF n

(* LL_Push and LL_Unshift; without room current has moved all the same. *)
LEMMA Pushes ==
  ASSUME NEW L, NEW s, NEW i, Represents(L, s, i), NEW d \in Values, d # NULL
  PROVE  /\ Len(s) < Size =>
              /\ Represents(LL_Push(L, d), InsertAt(s, Len(s) + 1, d), Len(s) + 1)
              /\ Represents(LL_Unshift(L, d), InsertAt(s, 1, d), 1)
         /\ ~ Len(s) < Size =>
              /\ Represents(LL_Push(L, d), s, IF s = << >> THEN 1 ELSE Len(s))
              /\ Represents(LL_Unshift(L, d), s, IF s = << >> THEN 0 ELSE 1)
<1> DEFINE e == IF s = << >> THEN 1 ELSE Len(s)
           b == IF s = << >> THEN 0 ELSE 1
           E == LL_End(L)
           B == LL_Rewind(L)
           n == Len(s)
<1>1. /\ n \in Nat /\ (s = << >> <=> n = 0)
      /\ (IF e > n THEN e ELSE e + 1) = n + 1 /\ e # -1
      /\ (IF b = 0 THEN 1 ELSE b) = 1 /\ b # -1
  BY Represented, EmptySeq
<1>2. Represents(E, s, e) /\ Represents(B, s, b)
  BY Rewinds
<1>3. LL_Push(L, d) = LL_AddNode(E, d) /\ LL_Unshift(L, d) = LL_InsertNode(B, d)
  BY DEF LL_Push, LL_Unshift
<1> HIDE DEF e, b, E, B, n
<1>4. /\ MayAdd(E) <=> e # -1 /\ n < Size
      /\ MayAdd(E) =>
           Represents(LL_AddNode(E, d), InsertAt(s, IF e > n THEN e ELSE e + 1, d),
                      IF e > n THEN e ELSE e + 1)
      /\ ~ MayAdd(E) => LL_AddNode(E, d) = E
  BY <1>2, AddsBehind DEF n
<1>5. /\ MayInsert(B, d) <=> d # NULL /\ b # -1 /\ n < Size
      /\ MayInsert(B, d) =>
           Represents(LL_InsertNode(B, d), InsertAt(s, IF b = 0 THEN 1 ELSE b, d),
                      IF b = 0 THEN 1 ELSE b)
      /\ ~ MayInsert(B, d) => LL_InsertNode(B, d) = B
  BY <1>2, AddsBefore DEF n
<1>6. n < Size => /\ Represents(LL_Push(L, d), InsertAt(s, n + 1, d), n + 1)
                  /\ Represents(LL_Unshift(L, d), InsertAt(s, 1, d), 1)
  BY <1>1, <1>3, <1>4, <1>5
<1>7. ~ n < Size => /\ Represents(LL_Push(L, d), s, e)
                    /\ Represents(LL_Unshift(L, d), s, b)
  BY <1>2, <1>3, <1>4, <1>5
<1> QED BY <1>6, <1>7 DEF n, e, b

(* LL_Pop and LL_Shift. *)
LEMMA Pops ==
  ASSUME NEW L, NEW s, NEW i, Represents(L, s, i)
  PROVE  /\ s = << >> =>
              /\ Represents(LL_Pop(L), s, 1) /\ Deleted(LL_End(L)) = NULL
              /\ Represents(LL_Shift(L), s, 0) /\ Deleted(LL_Rewind(L)) = NULL
         /\ s # << >> =>
              /\ Represents(LL_Pop(L), RemoveAt(s, Len(s)), Len(s))
              /\ Deleted(LL_End(L)) = s[Len(s)]
              /\ Represents(LL_Shift(L), RemoveAt(s, 1), 1)
              /\ Deleted(LL_Rewind(L)) = s[1]
<1> DEFINE E == LL_End(L)
           B == LL_Rewind(L)
<1>1. Len(s) \in Nat /\ (s = << >> <=> Len(s) = 0)
  BY Represented, EmptySeq
<1>2. Represents(E, s, IF s = << >> THEN 1 ELSE Len(s)) /\ Represents(B, s, IF s = << >> THEN 0 ELSE 1)
  BY Rewinds
<1>3. LL_Pop(L) = LL_DeleteNode(E) /\ LL_Shift(L) = LL_DeleteNode(B)
  BY DEF LL_Pop, LL_Shift
<1> HIDE DEF E, B
<1>4. ASSUME s = << >>
      PROVE  /\ Represents(LL_Pop(L), s, 1) /\ Deleted(E) = NULL
             /\ Represents(LL_Shift(L), s, 0) /\ Deleted(B) = NULL
  <2>1. Represents(E, s, 1) /\ Represents(B, s, 0) /\ 1 \notin 1 .. Len(s) /\ 0 \notin 1 .. Len(s)
    BY <1>1, <1>2, <1>4
  <2> QED BY <1>3, <2>1, Deletes
<1>5. ASSUME s # << >>
      PROVE  /\ Represents(LL_Pop(L), RemoveAt(s, Len(s)), Len(s)) /\ Deleted(E) = s[Len(s)]
             /\ Represents(LL_Shift(L), RemoveAt(s, 1), 1) /\ Deleted(B) = s[1]
  <2>1. /\ Represents(E, s, Len(s)) /\ Represents(B, s, 1)
        /\ Len(s) \in 1 .. Len(s) /\ 1 \in 1 .. Len(s)
    BY <1>1, <1>2, <1>5
  <2> QED BY <1>3, <2>1, Deletes
<1> QED BY <1>4, <1>5 DEF E, B

(* LL_PriorityEnqueue: behind the last item that is not greater. *)
LEMMA Enqueues ==
  ASSUME NEW L, NEW s, NEW i, Represents(L, s, i), NEW d \in Values, d # NULL,
         NEW W, W = {j \in 1 .. Len(s) : s[j] # NULL /\ Compare(d, s[j]) >= 0}
  PROVE  \E a \in 0 .. Len(s) :
           /\ W = {} => a = 0
           /\ W # {} => a \in W /\ \A j \in W : j <= a
           /\ Len(s) < Size =>
                Represents(LL_PriorityEnqueue(L, d), InsertAt(s, a + 1, d), a + 1)
           /\ ~ Len(s) < Size =>
                Represents(LL_PriorityEnqueue(L, d), s,
                           IF a # 0 THEN a ELSE IF s = << >> THEN 0 ELSE 1)
<1> DEFINE E == LL_End(L)
           back == Before(E)
           n == Len(s)
           e == IF n = 0 THEN 1 ELSE n
           Fits(k) == LL_Get(back[k]) # NULL /\ Compare(d, LL_Get(back[k])) >= 0
           K == {k \in Calls : Fits(k) \/ ~ MayPrev(back[k])}
           B == back[Min(K)]
           a == Back(e, Min(K))
           P == LL_PriorityEnqueue(L, d)
<1>1. /\ n \in Nat /\ n <= Size /\ Size \in Nat /\ W \in SUBSET (1 .. n)
      /\ (s = << >> <=> n = 0) /\ s \in Seq(Values)
  BY Represented, EmptySeq
<1>2. Represents(E, s, e)
  BY <1>1, Rewinds
<1>3. P = IF Fits(Min(K)) THEN LL_AddNode(B, d) ELSE LL_Unshift(B, d)
  BY DEF LL_PriorityEnqueue
<1> HIDE DEF E, P, e
<1>4. \A k \in Calls : Represents(back[k], s, Back(e, k))
  BY <1>2, BeforePlaces
<1> HIDE DEF back
<1>5. ASSUME NEW k \in Calls
      PROVE  /\ Fits(k) <=> Back(e, k) \in W
             /\ MayPrev(back[k]) <=> Back(e, k) \notin {-1, 1}
  <2> DEFINE j == Back(e, k)
             M == back[k]
  <2>1. Represents(M, s, j)
    BY <1>4
  <2> HIDE DEF j, M
  <2>2. LL_Get(M) = IF j \in 1 .. n THEN s[j] ELSE NULL
    BY <2>1, Represented
  <2>3. MayPrev(M) <=> j # -1 /\ j # 1
    BY <2>1, StepsBack
  <2>4. LL_Get(M) # NULL /\ Compare(d, LL_Get(M)) >= 0 <=> j \in W
    BY <2>2
  <2> QED BY <2>3, <2>4 DEF j, M
<1> HIDE DEF n, Fits
<1>6. K = {k \in Calls : Back(e, k) \in W \cup {-1, 1}}
  BY <1>5
<1> HIDE DEF K
<1>7. /\ Min(K) \in Calls
      /\ \A j \in W : a \in W /\ j <= a
      /\ W = {} => a = 1
  BY <1>1, <1>6, SearchedBack DEF e
<1>8. Represents(B, s, a) /\ (Fits(Min(K)) <=> a \in W)
  BY <1>4, <1>5, <1>7
<1> HIDE DEF a, B
<1>9. CASE W = {}
  <2>1. P = LL_Unshift(B, d)
    BY <1>3, <1>8, <1>9
  <2>2. n < Size => Represents(P, InsertAt(s, 0 + 1, d), 0 + 1)
    BY <1>8, <2>1, Pushes DEF n
  <2>3. ~ n < Size => Represents(P, s, IF s = << >> THEN 0 ELSE 1)
    BY <1>8, <2>1, Pushes DEF n
  <2>4. 0 \in 0 .. n
    BY <1>1
  <2> QED BY <1>9, <2>2, <2>3, <2>4 DEF P, n
<1>10. CASE W # {}
  <2>1. a \in W /\ \A j \in W : j <= a
    BY <1>7, <1>10
  <2>2. P = LL_AddNode(B, d)
    BY <1>3, <1>8, <2>1
  <2>3. a \in 1 .. n /\ a # -1 /\ ~ a > n /\ a # 0 /\ a \in 0 .. n
    BY <1>1, <2>1
  <2>4. /\ MayAdd(B) <=> n < Size
        /\ MayAdd(B) => Represents(P, InsertAt(s, a + 1, d), a + 1)
        /\ ~ MayAdd(B) => P = B
    <3>1. /\ MayAdd(B) <=> a # -1 /\ n < Size
          /\ MayAdd(B) =>
               Represents(LL_AddNode(B, d), InsertAt(s, IF a > n THEN a ELSE a + 1, d),
                          IF a > n THEN a ELSE a + 1)
          /\ ~ MayAdd(B) => LL_AddNode(B, d) = B
      BY <1>8, AddsBehind DEF n
    <3> QED BY <2>2, <2>3, <3>1
  <2>5. ~ n < Size => Represents(P, s, a)
    BY <1>8, <2>4
  <2> QED BY <1>10, <2>1, <2>3, <2>4, <2>5 DEF P, n
<1> QED BY <1>9, <1>10

-----------------------------------------------------------------------------
(* An empty list, and one of which all nodes are freed.                      *)
LEMMA NewIsEmpty == Represents(LL_new, << >>, 0)
<1> DEFINE L == LL_new
           place == [c \in Cells |-> IF c = "head" THEN 0 ELSE 1]
<1>1. /\ L.next = [c \in Cells |-> IF c = "head" THEN "tail" ELSE None]
      /\ L.prev = [c \in Cells |-> IF c = "tail" THEN "head" ELSE None]
      /\ L.data = [c \in Cells |-> NULL]
      /\ L.current = "head" /\ L.used = {}
      /\ L = [next |-> L.next, prev |-> L.prev, data |-> L.data,
              current |-> L.current, used |-> L.used]
  BY DEF LL_new
<1> HIDE DEF L
<1>2. Chain(L) = {"head", "tail"} /\ Cardinality(L.used) = 0
  BY <1>1, FS_EmptySet DEF Chain
<1>3. L \in Lists
  BY <1>1, CellNames DEF Lists
<1>4. Typed(L)
  BY <1>1, <1>2, <1>3, CellNames DEF Typed
<1>5. /\ place \in [Cells -> Int] /\ place["head"] = 0 /\ place["tail"] = 1
      /\ L.next["head"] = "tail" /\ L.prev["tail"] = "head"
      /\ L.next["tail"] = None /\ L.prev["head"] = None
  BY <1>1, CellNames
<1> HIDE DEF place
<1>6. Ordered(L, place)
  BY <1>2, <1>5 DEF Ordered
<1>7. Shows(L, place, << >>)
  BY <1>1, <1>2 DEF Shows
<1>8. Position(L, place) = 0
  BY <1>1, <1>5, CellNames DEF Position
<1> QED BY <1>4, <1>6, <1>7, <1>8 DEF Represents, L

(* What the loop of LL_Destroy does to one node. *)
Freed(L, c) == Free(LL_node_Unlink(L, c), c)

LEMMA FreedType ==
  ASSUME NEW L \in Lists, NEW c \in Cells
  PROVE  Freed(L, c) \in Lists
<1> DEFINE p == L.prev[c]
           q == L.next[c]
           A == SetPrev(L, q, p)
           B == SetNext(A, p, q)
<1>1. p \in Cells \cup {None} /\ q \in Cells \cup {None}
  BY DEF Lists
<1>2. A \in Lists
  <2> HIDE DEF p, q
  <2> QED BY <1>1 DEF SetPrev, Lists
<1> HIDE DEF A
<1>3. B \in Lists
  <2> HIDE DEF p, q
  <2> QED BY <1>1, <1>2 DEF SetNext, Lists
<1>4. LL_node_Unlink(L, c) = [[B EXCEPT !.next[c] = None] EXCEPT !.prev[c] = None]
  BY DEF LL_node_Unlink, A
<1> HIDE DEF B
<1>5. LL_node_Unlink(L, c) \in Lists
  <2> DEFINE C == [B EXCEPT !.next[c] = None]
  <2> HIDE DEF p, q
  <2>1. C \in Lists
    BY <1>3 DEF Lists
  <2> HIDE DEF C
  <2>2. [C EXCEPT !.prev[c] = None] \in Lists
    BY <2>1 DEF Lists
  <2> QED BY <1>4, <2>2 DEF C
<1> QED BY <1>5 DEF Freed, Free, Lists

(* It leaves a whole chain of the others. *)
LEMMA FreedOne ==
  ASSUME NEW L \in Lists, NEW place, Ordered(L, place), NEW c \in L.used
  PROVE  /\ Freed(L, c).used = L.used \ {c}
         /\ Ordered(Freed(L, c), Gap(place, c))
<1> DEFINE U == LL_node_Unlink(L, c)
           M == Freed(L, c)
<1>1. c \in Cells
  BY CellNames DEF Lists
<1>2. /\ U \in Lists /\ U.used = L.used
      /\ U.next = [L.next EXCEPT ![L.prev[c]] = L.next[c], ![c] = None]
      /\ U.prev = [L.prev EXCEPT ![L.next[c]] = L.prev[c], ![c] = None]
  BY Unlinked
<1> HIDE DEF U
<1>3. M.used = L.used \ {c} /\ M.next = U.next /\ M.prev = U.prev
  BY <1>1, <1>2 DEF Freed, Free, U, Lists
<1>4. M \in Lists
  BY <1>1, FreedType
<1> HIDE DEF M
<1>5. Ordered(M, Gap(place, c))
  BY <1>2, <1>3, <1>4, LinkingOut
<1> QED BY <1>3, <1>5 DEF M

(* The loop is what its recursion says. *)
LEMMA DestroySteps ==
  ASSUME NEW L \in Lists, NEW place, Ordered(L, place)
  PROVE  /\ Without(L)[0] = L
         /\ \A k \in 1 .. LL_Length(L) :
              Without(L)[k] = Freed(Without(L)[k - 1], Walk(L)[k])
<1> DEFINE n == LL_Length(L)
           walk == Walk(L)
           g == [k \in 1 .. n |-> [x \in Lists |-> Freed(x, walk[k])]]
           Is(f) == f = [k \in 0 .. n |->
                           IF k = 0 THEN L
                           ELSE Free(LL_node_Unlink(f[k - 1], walk[k]), walk[k])]
<1>1. n \in Nat /\ \A k \in 1 .. n : walk[k] \in Cells
  <2>1. n = Cardinality(L.used) /\ n \in Nat
    BY LengthCounts, Counting
  <2>2. \A k \in 1 .. n : walk[k] \in L.used
    BY <2>1, NodePlaces
  <2> QED BY <2>1, <2>2, CellNames DEF Lists
<1> HIDE DEF n, walk
<1>2. g \in [1 .. n -> [Lists -> Lists]]
  BY <1>1, FreedType
<1>3. PICK f \in [0 .. n -> Lists] : Iterated(f, L, n, g)
  <2> HIDE DEF g
  <2> QED BY <1>1, <1>2, Iterates
<1>4. f[0] = L /\ \A k \in 1 .. n : f[k] = Freed(f[k - 1], walk[k])
  <2>1. \A k \in 1 .. n : k - 1 \in 0 .. n
    BY <1>1
  <2>2. \A k \in 1 .. n : g[k][f[k - 1]] = Freed(f[k - 1], walk[k])
    BY <2>1
  <2> HIDE DEF g
  <2> QED BY <1>3, <2>2 DEF Iterated
<1>5. Is(f)
  <2>1. \A k \in 0 .. n : k # 0 => k \in 1 .. n
    BY <1>1
  <2> QED BY <1>3, <1>4, <2>1 DEF Freed
<1>6. Is(Without(L))
  <2>1. Without(L) = CHOOSE h : Is(h)
    BY DEF Without, n, walk
  <2> HIDE DEF Is
  <2> QED BY <1>5, <2>1
<1> DEFINE w == Without(L)
<1> HIDE DEF w
<1>7. Is(w)
  BY <1>6 DEF w
<1>8. w[0] = L /\ \A k \in 1 .. n : w[k] = Freed(w[k - 1], walk[k])
  BY <1>1, <1>7 DEF Freed
<1> QED BY <1>8 DEF w, n, walk

(* When LL_Destroy returns every node is free. *)
LEMMA Destroys ==
  ASSUME NEW L, Good(L)
  PROVE  LL_Destroy(L).used = {}
<1>1. PICK place : Ordered(L, place)
  BY DEF Good
<1> DEFINE n == Cardinality(L.used)
           w == Without(L)
           walk == Walk(L)
           T == {k \in 0 .. n : /\ w[k] \in Lists
                                /\ \A c : c \in w[k].used <=> c \in L.used /\ place[c] > k
                                /\ \E p : Ordered(w[k], p)}
<1>2. L \in Lists /\ n \in Nat /\ n = LL_Length(L)
  BY <1>1, Counting, LengthCounts DEF Good, Typed
<1>3. w[0] = L /\ \A k \in 1 .. n : w[k] = Freed(w[k - 1], walk[k])
  BY <1>1, <1>2, DestroySteps
<1>4. /\ \A c \in L.used : place[c] \in 1 .. n
      /\ \A k \in 1 .. n : walk[k] \in L.used /\ place[walk[k]] = k
      /\ \A c, d \in L.used : place[c] = place[d] => c = d
  BY <1>1, <1>2, NodePlaces DEF Ordered, Chain
<1> HIDE DEF n, w, walk
<1>5. 0 \in T
  BY <1>1, <1>2, <1>3, <1>4
<1>6. ASSUME NEW k \in 0 .. n - 1, k \in T PROVE k + 1 \in T
  <2> DEFINE M == w[k]
             c == walk[k + 1]
             N == w[k + 1]
  <2>1. /\ M \in Lists /\ \A x : x \in M.used <=> x \in L.used /\ place[x] > k
        /\ k + 1 \in 1 .. n /\ k + 1 \in 0 .. n /\ k \in Nat
    BY <1>2, <1>6
  <2>2. PICK p : Ordered(M, p)
    BY <1>6
  <2>3. N = Freed(M, c)
    BY <1>3, <2>1
  <2>4. c \in M.used /\ c \in Cells /\ place[c] = k + 1 /\ c \in L.used
    BY <1>2, <1>4, <2>1, CellNames DEF Lists
  <2> HIDE DEF M, N, c
  <2>5. N \in Lists /\ N.used = M.used \ {c} /\ Ordered(N, Gap(p, c))
    BY <2>1, <2>2, <2>3, <2>4, FreedOne, FreedType
  <2>6. ASSUME NEW x PROVE x \in N.used <=> x \in L.used /\ place[x] > k + 1
    <3>1. x \in N.used <=> x \in L.used /\ place[x] > k /\ x # c
      BY <2>1, <2>5
    <3>2. ASSUME x \in L.used PROVE place[x] \in Nat /\ (place[x] = k + 1 <=> x = c)
      BY <1>4, <2>4, <3>2
    <3>3. ASSUME x \in L.used PROVE (place[x] > k /\ x # c <=> place[x] > k + 1)
      BY <2>1, <3>2, <3>3
    <3> QED BY <3>1, <3>3
  <2>7. /\ N \in Lists
        /\ \A x : x \in N.used <=> x \in L.used /\ place[x] > k + 1
        /\ \E q : Ordered(N, q)
    BY <2>5, <2>6
  <2> QED BY <2>1, <2>7 DEF N
<1>7. n \in T
  <2> HIDE DEF T
  <2>1. \A k \in 0 .. n : k \in T
    BY <1>2, <1>5, <1>6, Induction
  <2> QED BY <1>2, <2>1
<1>8. LL_Destroy(L) = w[n]
  BY <1>2 DEF LL_Destroy, w
<1> QED BY <1>2, <1>4, <1>7, <1>8

(* So a list made afterwards starts with all the memory. *)
LEMMA Renews ==
  ASSUME NEW L, Good(L)
  PROVE  [LL_new EXCEPT !.used = LL_Destroy(L).used] = LL_new
<1>1. LL_Destroy(L).used = {}
  BY Destroys
<1> QED BY <1>1 DEF LL_new

-----------------------------------------------------------------------------
(* Nodes that change places.                                                 *)
LEMMA NodeAt ==
  ASSUME NEW L, NEW place, NEW s, Typed(L), Ordered(L, place), Shows(L, place, s),
         NEW c \in L.used
  PROVE  /\ Represents(At(L, c), s, place[c])
         /\ place[c] \in 1 .. Len(s)
         /\ \A t, a : Represents(At(L, c), t, a) => t = s /\ a = place[c]
<1>1. c \in Chain(L) /\ c # None /\ L \in Lists
  BY CellNames DEF Typed, Lists, Chain
<1>2. Represents(At(L, c), s, IF c = None THEN -1 ELSE place[c])
  BY <1>1, Moved
<1>3. Represents(At(L, c), s, place[c])
  BY <1>1, <1>2
<1>4. place[c] \in 1 .. Len(s)
  BY <1>1, NodePlaces DEF Shows
<1>5. ASSUME NEW t, NEW a, Represents(At(L, c), t, a) PROVE t = s /\ a = place[c]
  <2>1. s = ItemsOf(At(L, c)) /\ place[c] = PlaceOf(At(L, c))
    BY <1>3, Representation
  <2>2. t = ItemsOf(At(L, c)) /\ a = PlaceOf(At(L, c))
    BY <1>5, Representation
  <2> QED BY <2>1, <2>2
<1> QED BY <1>3, <1>4, <1>5

(* LL_SwapNodes: two items change places, and current stays on its node. *)
LEMMA Swaps ==
  ASSUME NEW L, NEW s, NEW i, Represents(L, s, i),
         NEW one \in L.used, NEW two \in L.used, NEW a, NEW b,
         Represents(At(L, one), s, a), Represents(At(L, two), s, b)
  PROVE  LET M == LL_SwapNodes(L, one, two)
             t == [s EXCEPT ![a] = s[b], ![b] = s[a]] IN
         /\ a \in 1 .. Len(s) /\ b \in 1 .. Len(s)
         /\ Represents(M, t, IF i = a THEN b ELSE IF i = b THEN a ELSE i)
         /\ M.used = L.used /\ M.data = L.data
         /\ Represents(At(M, one), t, b) /\ Represents(At(M, two), t, a)
<1> DEFINE M == LL_SwapNodes(L, one, two)
           t == [s EXCEPT ![a] = s[b], ![b] = s[a]]
           j == IF i = a THEN b ELSE IF i = b THEN a ELSE i
<1>1. PICK place : Ordered(L, place) /\ Shows(L, place, s) /\ i = Position(L, place)
  BY DEF Represents
<1>2. /\ Typed(L) /\ L \in Lists /\ s \in Seq(Values) /\ Len(s) \in Nat
      /\ Len(s) = Cardinality(L.used)
  <2>1. Typed(L) /\ L \in Lists
    BY DEF Represents, Typed
  <2> QED BY <2>1, Represented
<1>3. a = place[one] /\ b = place[two] /\ a \in 1 .. Len(s) /\ b \in 1 .. Len(s)
  BY <1>1, <1>2, NodeAt
<1>4. CASE one = two
  <2>1. a = b /\ M = L
    BY <1>3, <1>4 DEF LL_SwapNodes
  <2>2. t = s
    <3>1. s \in [1 .. Len(s) -> Values]
      BY <1>2, LenProperties
    <3> QED BY <1>3, <2>1, <3>1
  <2>3. j = i
    BY <2>1
  <2> HIDE DEF M, t, j
  <2>4. Represents(M, t, j) /\ M.used = L.used /\ M.data = L.data
        /\ Represents(At(M, one), t, b) /\ Represents(At(M, two), t, a)
    BY <1>4, <2>1, <2>2, <2>3
  <2> QED BY <1>3, <2>4 DEF M, t, j
<1>5. CASE one # two
  <2> DEFINE new == Exchanged(place, one, two)
  <2>1. /\ M \in Lists /\ M.used = L.used /\ M.data = L.data /\ M.current = L.current
        /\ Ordered(M, new)
    BY <1>1, <1>2, <1>5, Exchange
  <2> HIDE DEF M
  <2>2. one \in Cells /\ two \in Cells /\ L.used \subseteq Cells /\ Chain(L) \subseteq Cells
        /\ Chain(M) = Chain(L) /\ one \in Chain(L) /\ two \in Chain(L)
    BY <1>2, <2>1, CellNames DEF Lists, Chain
  <2>3. \A x \in Cells : new[x] = IF x = one THEN b ELSE IF x = two THEN a ELSE place[x]
    BY <1>1, <1>3, <1>5, <2>2 DEF Exchanged, Ordered
  <2> HIDE DEF new
  <2>4. Typed(M)
    BY <1>2, <2>1, <2>2 DEF Typed
  <2>5. t \in Seq(Values) /\ Len(t) = Len(s)
        /\ \A k \in 1 .. Len(s) :
             t[k] = IF k = b THEN s[a] ELSE IF k = a THEN s[b] ELSE s[k]
    <3>1. s \in [1 .. Len(s) -> Values] /\ s[a] \in Values /\ s[b] \in Values
      BY <1>2, <1>3, LenProperties, ElementOfSeq
    <3> HIDE DEF t
    <3>2. t \in [1 .. Len(s) -> Values]
          /\ \A k \in 1 .. Len(s) :
               t[k] = IF k = b THEN s[a] ELSE IF k = a THEN s[b] ELSE s[k]
      BY <1>3, <3>1 DEF t
    <3>3. t \in Seq(Values) /\ Len(t) = Len(s)
      BY <1>2, <3>2, LenProperties
    <3> QED BY <3>2, <3>3
  <2> HIDE DEF t
  <2>6. ASSUME NEW x \in M.used PROVE t[new[x]] = M.data[x]
    <3>1. x \in L.used /\ x \in Chain(L) /\ x \in Cells
          /\ s[place[x]] = L.data[x] /\ place[x] \in 1 .. Len(s)
          /\ s[a] = L.data[one] /\ s[b] = L.data[two]
      BY <1>1, <1>2, <1>3, <2>1, <2>2, NodePlaces DEF Shows, Chain
    <3>2. \A c, d \in Chain(L) : place[c] = place[d] => c = d
      BY <1>1 DEF Ordered
    <3>3. a # b /\ (x # one => place[x] # a) /\ (x # two => place[x] # b)
      BY <1>3, <1>5, <2>2, <3>1, <3>2
    <3>4. CASE x = one
      BY <1>3, <2>1, <2>3, <2>5, <3>1, <3>4
    <3>5. CASE x = two
      BY <1>3, <1>5, <2>1, <2>3, <2>5, <3>1, <3>3, <3>5
    <3>6. CASE x # one /\ x # two
      BY <2>1, <2>3, <2>5, <3>1, <3>3, <3>6
    <3> QED BY <3>4, <3>5, <3>6
  <2>7. Shows(M, new, t)
    BY <1>2, <2>1, <2>5, <2>6 DEF Shows
  <2>8. Represents(At(M, one), t, b) /\ Represents(At(M, two), t, a)
    <3>1. new[one] = b /\ new[two] = a
      BY <1>5, <2>2, <2>3
    <3> QED BY <2>1, <2>4, <2>7, <3>1, NodeAt
  <2>9. Position(M, new) = j
    <3>1. CASE L.current = None
      <4>1. i = -1
        BY <1>1, <3>1 DEF Position
      <4> QED BY <1>3, <2>1, <3>1, <4>1 DEF Position
    <3>2. CASE L.current # None
      <4>1. L.current \in Chain(L) /\ i = place[L.current] /\ Position(M, new) = new[L.current]
        BY <1>1, <1>2, <2>1, <3>2 DEF Position, Typed
      <4>2. \A c, d \in Chain(L) : place[c] = place[d] => c = d
        BY <1>1 DEF Ordered
      <4>3. (i = a <=> L.current = one) /\ (i = b <=> L.current = two)
        BY <1>3, <2>2, <4>1, <4>2
      <4> QED BY <2>2, <2>3, <4>1, <4>3
    <3> QED BY <3>1, <3>2
  <2>10. Represents(M, t, j)
    BY <2>1, <2>4, <2>7, <2>9 DEF Represents
  <2> QED BY <1>3, <2>1, <2>8, <2>10 DEF M, t
<1> QED BY <1>4, <1>5

(* A node is taken out and put in again at the beginning, or at the end.     *)
Rolled(s) ==
  IF s = << >> THEN s ELSE <<s[Len(s)]>> \o SubSeq(s, 1, Len(s) - 1)
UnRolled(s) == IF s = << >> THEN s ELSE Append(Tail(s), s[1])

(* Roll and unroll element by element. *)
LEMMA RolledItems ==
  ASSUME NEW s \in Seq(Values), s # << >>
  PROVE  /\ Rolled(s) \in Seq(Values) /\ Len(Rolled(s)) = Len(s)
         /\ \A k \in 1 .. Len(s) : Rolled(s)[k] = IF k = 1 THEN s[Len(s)] ELSE s[k - 1]
<1> DEFINE n == Len(s)
           f == <<s[n]>>
           g == SubSeq(s, 1, n - 1)
           t == f \o g
<1>1. n \in Nat /\ n >= 1 /\ n # 0
  BY EmptySeq, LenProperties
<1>2. s[n] \in Values
  BY <1>1, ElementOfSeq
<1>3. f \in Seq(Values) /\ Len(f) = 1 /\ f[1] = s[n]
  BY <1>2
<1>4. g \in Seq(Values) /\ Len(g) = n - 1 /\ \A k \in 1 .. n - 1 : g[k] = s[k]
  <2> DEFINE m == n - 1
  <2>1. m \in Nat /\ \A k \in 1 .. m : s[k] \in Values
    BY <1>1, ElementOfSeq
  <2> HIDE DEF m
  <2>2. /\ SubSeq(s, 1, m) \in Seq(Values)
        /\ Len(SubSeq(s, 1, m)) = IF 1 <= m THEN m - 1 + 1 ELSE 0
        /\ \A k \in 1 .. m - 1 + 1 : SubSeq(s, 1, m)[k] = s[1 + k - 1]
    BY <2>1, SubSeqProperties
  <2>3. /\ SubSeq(s, 1, m) \in Seq(Values) /\ Len(SubSeq(s, 1, m)) = m
        /\ \A k \in 1 .. m : SubSeq(s, 1, m)[k] = s[k]
    BY <2>1, <2>2
  <2> QED BY <2>3 DEF m
<1> HIDE DEF f, g, n
<1>5. /\ t \in Seq(Values) /\ Len(t) = n
      /\ \A k \in 1 .. 1 : t[k] = f[k]
      /\ \A k \in 1 + 1 .. n : t[k] = g[k - 1]
  <2> DEFINE m == 1
  <2>1. m \in Nat /\ n \in Nat /\ m = Len(f) /\ n = m + Len(g)
        /\ f \in Seq(Values) /\ g \in Seq(Values)
    BY <1>1, <1>3, <1>4
  <2> HIDE DEF m, t
  <2>2. /\ f \o g \in Seq(Values) /\ Len(f \o g) = n
        /\ \A k \in 1 .. m : (f \o g)[k] = f[k]
        /\ \A k \in m + 1 .. n : (f \o g)[k] = g[k - m]
    BY <2>1, Concatenated
  <2> QED BY <2>2 DEF m, t
<1>6. Rolled(s) = t
  BY Zenon DEF Rolled, f, g, n
<1> HIDE DEF t
<1>7. ASSUME NEW k \in 1 .. n PROVE t[k] = IF k = 1 THEN s[n] ELSE s[k - 1]
  <2>1. CASE k = 1
    BY <1>3, <1>5, <2>1
  <2>2. CASE k # 1
    <3>1. k \in 1 + 1 .. n /\ k - 1 \in 1 .. n - 1
      BY <1>1, <2>2
    <3> QED BY <1>4, <1>5, <2>2, <3>1
  <2> QED BY <2>1, <2>2
<1> QED BY <1>5, <1>6, <1>7 DEF n

LEMMA UnRolledItems ==
  ASSUME NEW s \in Seq(Values), s # << >>
  PROVE  /\ UnRolled(s) \in Seq(Values) /\ Len(UnRolled(s)) = Len(s)
         /\ \A k \in 1 .. Len(s) : UnRolled(s)[k] = IF k = Len(s) THEN s[1] ELSE s[k + 1]
<1> DEFINE n == Len(s)
           g == Tail(s)
           t == Append(g, s[1])
<1>1. n \in Nat /\ n >= 1 /\ s[1] \in Values
  BY EmptySeq, LenProperties, ElementOfSeq
<1>2. g \in Seq(Values) /\ Len(g) = n - 1 /\ \A k \in 1 .. n - 1 : g[k] = s[k + 1]
  BY HeadTailProperties
<1> HIDE DEF g, n
<1>3. t \in Seq(Values) /\ Len(t) = n /\ t[n] = s[1] /\ \A k \in 1 .. n - 1 : t[k] = g[k]
  BY <1>1, <1>2, AppendProperties
<1>4. UnRolled(s) = t
  BY Zenon DEF UnRolled, g
<1> HIDE DEF t
<1> QED BY <1>1, <1>2, <1>3, <1>4 DEF n

(* The pointers when node c has left the chain and the list is not told.     *)
LEMMA TakenOut ==
  ASSUME NEW L \in Lists, NEW place, Ordered(L, place), NEW c \in L.used
  PROVE  LET V == [LL_node_Unlink(L, c) EXCEPT !.used = L.used \ {c}] IN
         /\ V \in Lists /\ Ordered(V, Gap(place, c))
         /\ V.used = L.used \ {c}
         /\ V.next = LL_node_Unlink(L, c).next /\ V.prev = LL_node_Unlink(L, c).prev
         /\ LL_node_Unlink(L, c) \in Lists
         /\ LL_node_Unlink(L, c).data = L.data /\ LL_node_Unlink(L, c).used = L.used
<1> DEFINE U == LL_node_Unlink(L, c)
           V == [U EXCEPT !.used = L.used \ {c}]
<1>1. /\ U \in Lists /\ U.used = L.used /\ U.data = L.data
      /\ U.next = [L.next EXCEPT ![L.prev[c]] = L.next[c], ![c] = None]
      /\ U.prev = [L.prev EXCEPT ![L.next[c]] = L.prev[c], ![c] = None]
  BY Unlinked
<1> HIDE DEF U
<1>2. V \in Lists /\ V.used = L.used \ {c} /\ V.next = U.next /\ V.prev = U.prev
  BY <1>1 DEF Lists
<1> HIDE DEF V
<1>3. Ordered(V, Gap(place, c))
  BY <1>1, <1>2, LinkingOut
<1> QED BY <1>1, <1>2, <1>3 DEF U, V

(* LL_Roll: the last item becomes the first; current is on the old first. *)
LEMMA Rolls ==
  ASSUME NEW L, NEW s, NEW i, Represents(L, s, i)
  PROVE  Represents(LL_Roll(L), Rolled(s), IF Len(s) < 2 THEN Len(s) ELSE 2)
<1> DEFINE n == Len(s)
           E == LL_End(L)
           c == E.current
           U == LL_node_Unlink(E, c)
           M == LL_Rewind(U)
           q == M.next["head"]
           R == [M EXCEPT !.next["head"] = c, !.prev[q] = c,
                          !.prev[c] = "head", !.next[c] = q]
           t == Rolled(s)
<1>1. n \in Nat /\ (s = << >> <=> n = 0) /\ s \in Seq(Values)
  BY Represented, EmptySeq
<1>2. Represents(E, s, IF s = << >> THEN 1 ELSE n)
  BY Rewinds
<1>3. LL_Roll(L) = IF c = "tail" THEN At(E, "head")
                   ELSE IF E.prev[c] = "head" THEN E ELSE R
  BY Zenon DEF LL_Roll
<1> HIDE DEF E, R
<1>4. CASE n = 0
  <2>1. Represents(E, s, 1) /\ c = "tail"
    BY <1>1, <1>2, <1>4, Represented
  <2>2. PICK place : Ordered(E, place) /\ Shows(E, place, s)
    BY <2>1 DEF Represents
  <2>3. "head" \in Chain(E) /\ "head" # None /\ place["head"] = 0 /\ Typed(E)
    BY <2>1, <2>2, CellNames DEF Chain, Ordered, Represents
  <2>4. Represents(At(E, "head"), s, IF "head" = None THEN -1 ELSE place["head"])
    BY <2>2, <2>3, Moved
  <2>5. t = s
    BY <1>1, <1>4 DEF Rolled
  <2> QED BY <1>3, <1>4, <2>1, <2>3, <2>4, <2>5
<1>5. CASE n # 0
  <2>1. Represents(E, s, n)
    BY <1>1, <1>2, <1>5
  <2>2. PICK place : Ordered(E, place) /\ Shows(E, place, s) /\ n = Position(E, place)
    BY <2>1 DEF Represents
  <2>3. Typed(E) /\ E \in Lists /\ n = Cardinality(E.used)
    <3>1. Typed(E) /\ E \in Lists
      BY <2>1 DEF Represents, Typed
    <3> QED BY <2>1, <3>1, Represented
  <2>4. c \in E.used
    BY <1>1, <1>5, <2>1, Represented
  <2>5. c \in Chain(E) /\ c # None /\ c # "tail" /\ c # "head" /\ place[c] = n
        /\ c \in Cells /\ c \in Nodes /\ Chain(E) \subseteq Cells
    BY <2>2, <2>3, <2>4, CellNames DEF Chain, Position, Lists
  <2>6. \A a, b \in Chain(E) : place[a] = place[b] => a = b
    BY <2>2 DEF Ordered
  <2>7. E.prev[c] = "head" <=> n = 1
    <3>1. E.prev[c] \in Chain(E) /\ place[c] = place[E.prev[c]] + 1
      BY <2>2, <2>5 DEF Ordered
    <3>2. place[E.prev[c]] \in Int /\ place["head"] = 0 /\ "head" \in Chain(E)
      BY <2>2, <2>5, <3>1 DEF Ordered, Chain
    <3> QED BY <1>1, <2>5, <2>6, <3>1, <3>2
  <2>8. t \in Seq(Values) /\ Len(t) = n
        /\ \A k \in 1 .. n : t[k] = IF k = 1 THEN s[n] ELSE s[k - 1]
    BY <1>1, <1>5, RolledItems
  <2>9. CASE n = 1
    <3>1. t = s
      <4>1. \A k \in 1 .. Len(s) : t[k] = s[k]
        BY <2>8, <2>9
      <4> QED BY <1>1, <2>8, <4>1, SeqEqual
    <3> QED BY <1>3, <2>1, <2>5, <2>7, <2>9, <3>1
  <2>10. CASE n # 1
    <3> DEFINE V == [U EXCEPT !.used = E.used \ {c}]
               gap == Gap(place, c)
               new == Room(gap, "head", c)
    <3>1. /\ V \in Lists /\ Ordered(V, gap) /\ V.used = E.used \ {c}
          /\ V.next = U.next /\ V.prev = U.prev
          /\ U \in Lists /\ U.data = E.data /\ U.used = E.used
      BY <2>2, <2>3, <2>4, TakenOut
    <3> HIDE DEF U, V, c, t
    <3>2. /\ M.next = U.next /\ M.prev = U.prev /\ M.data = E.data /\ M.used = E.used
          /\ M \in Lists
          /\ M.current = IF U.next["head"] # "tail" THEN U.next["head"] ELSE "head"
      <4>1. U.next["head"] \in Cells \cup {None}
        BY <3>1, CellNames DEF Lists
      <4>2. U.next["head"] \in Chain(V)
        BY <3>1, CellNames DEF Ordered, Chain
      <4>3. U.next["head"] \in Cells
        BY <3>1, <4>1, <4>2, CellNames DEF Chain, Lists
      <4> QED BY <3>1, <4>3, CellNames DEF LL_Rewind, At, Lists
    <3>3. /\ q = V.next["head"] /\ q \in Chain(V) \ {"head"} /\ gap[q] = 1 /\ q \in Cells
          /\ q \in Chain(E) /\ q # c
      <4>1. q = V.next["head"]
        BY <3>1, <3>2
      <4>2. V.next["head"] \in Chain(V) \ {"head"} /\ gap[V.next["head"]] = 0 + 1
        BY <3>1, CellNames DEF Ordered, Chain
      <4>3. Chain(V) = Chain(E) \ {c}
        BY <2>5, <3>1 DEF Chain
      <4> QED BY <2>5, <4>1, <4>2, <4>3
    <3> HIDE DEF M, gap
    <3>4. \A x \in Cells : gap[x] = IF place[x] > n THEN place[x] - 1 ELSE place[x]
      BY <2>5 DEF gap, Gap
    <3>5. \A x \in Cells : place[x] \in Int
      BY <2>2 DEF Ordered
    <3>6. q # "tail" /\ place[q] = 1
      <4>1. place["tail"] = n + 1 /\ "tail" \in Cells
        BY <2>2, <2>3, CellNames DEF Ordered
      <4>2. gap["tail"] = n
        BY <1>1, <3>4, <4>1
      <4>3. q # "tail"
        BY <2>10, <3>3, <4>2
      <4>4. place[q] \in 1 .. n
        <5>1. q \in E.used
          BY <3>3, <4>3 DEF Chain
        <5> QED BY <2>2, <2>3, <5>1, NodePlaces
      <4> QED BY <3>3, <3>4, <4>3, <4>4
    <3>7. M.current = q
      BY <3>1, <3>2, <3>3, <3>6
    <3> HIDE DEF q
    <3>8. /\ R.next = [V.next EXCEPT ![c] = q, !["head"] = c]
          /\ R.prev = [V.prev EXCEPT ![c] = "head", ![q] = c]
          /\ R.data = E.data /\ R.used = E.used /\ R.current = q
          /\ R \in Lists
      <4>1. R = [[[[M EXCEPT !.next["head"] = c] EXCEPT !.prev[q] = c]
                  EXCEPT !.prev[c] = "head"] EXCEPT !.next[c] = q]
        BY Zenon DEF R, q
      <4>2. c \in Cells /\ "head" \in Cells /\ q \in Cells /\ c # "head"
        BY <2>5, <3>3, CellNames
      <4>3. [V.next EXCEPT !["head"] = c, ![c] = q] = [V.next EXCEPT ![c] = q, !["head"] = c]
        BY <2>5
      <4>4. [V.prev EXCEPT ![q] = c, ![c] = "head"] = [V.prev EXCEPT ![c] = "head", ![q] = c]
        BY <3>3
      <4>5. /\ R.next = [V.next EXCEPT !["head"] = c, ![c] = q]
            /\ R.prev = [V.prev EXCEPT ![q] = c, ![c] = "head"]
            /\ R.data = E.data /\ R.used = E.used /\ R.current = q
            /\ R \in Lists
        <5> HIDE DEF R
        <5> QED BY <3>1, <3>2, <3>7, <4>1, <4>2 DEF Lists
      <4> QED BY <4>3, <4>4, <4>5
    <3>9. Ordered(R, new)
      <4>1. c \in Nodes \ V.used /\ "head" \in Chain(V) \ {"tail"}
            /\ R.used = V.used \cup {c}
        BY <2>4, <2>5, <3>1, <3>8, CellNames DEF Chain
      <4>2. R.next = [V.next EXCEPT ![c] = V.next["head"], !["head"] = c]
            /\ R.prev = [V.prev EXCEPT ![c] = "head", ![V.next["head"]] = c]
        BY <3>3, <3>8
      <4> QED BY <3>1, <3>8, <4>1, <4>2, LinkingIn
    <3>10. \A x \in E.used : new[x] = IF x = c THEN 1 ELSE place[x] + 1
      <4>1. gap["head"] = 0
        BY <3>1 DEF Ordered
      <4>2. ASSUME NEW x \in E.used PROVE x \in Cells /\ place[x] \in 1 .. n
        BY <2>2, <2>3, NodePlaces, CellNames DEF Lists
      <4>3. ASSUME NEW x \in E.used PROVE gap[x] = place[x]
        BY <3>4, <4>2
      <4> QED BY <4>1, <4>2, <4>3 DEF Room
    <3> HIDE DEF new
    <3>11. ASSUME NEW x \in R.used PROVE t[new[x]] = R.data[x]
      <4>1. x \in E.used /\ x \in Chain(E) /\ place[x] \in 1 .. n /\ s[place[x]] = E.data[x]
        BY <2>2, <2>3, <3>8, NodePlaces DEF Shows, Chain
      <4>2. x # c => place[x] # n
        BY <2>5, <2>6, <4>1
      <4>3. CASE x = c
        BY <1>1, <1>5, <2>5, <2>8, <3>8, <3>10, <4>1, <4>3
      <4>4. CASE x # c
        <5>1. new[x] = place[x] + 1 /\ new[x] \in 1 .. n /\ new[x] # 1 /\ new[x] - 1 = place[x]
          BY <3>10, <4>1, <4>2, <4>4
        <5> QED BY <2>8, <3>8, <4>1, <5>1
      <4> QED BY <4>3, <4>4
    <3>12. Shows(R, new, t)
      BY <2>3, <2>8, <3>8, <3>11 DEF Shows
    <3>13. Typed(R)
      <4>1. R.current \in Chain(R)
        BY <3>3, <3>8 DEF Chain
      <4> QED BY <2>3, <3>8, <4>1 DEF Typed
    <3>14. Position(R, new) = 2
      <4>1. q \in E.used
        BY <3>3, <3>6 DEF Chain
      <4>2. new[q] = 2
        BY <3>3, <3>6, <3>10, <4>1
      <4> QED BY <3>3, <3>8, <4>2, CellNames DEF Position
    <3>15. Represents(R, t, 2)
      BY <3>9, <3>12, <3>13, <3>14 DEF Represents
    <3>16. LL_Roll(L) = R
      BY <1>3, <2>5, <2>7, <2>10, Zenon
    <3>17. ~ n < 2
      <4> HIDE DEF n
      <4> QED BY <1>1, <1>5, <2>10
    <3> QED BY <3>15, <3>16, <3>17 DEF t
  <2> QED BY <2>9, <2>10
<1> QED BY <1>4, <1>5

(* LL_UnRoll: the first becomes the last; current is on the old last. *)
LEMMA UnRolls ==
  ASSUME NEW L, NEW s, NEW i, Represents(L, s, i)
  PROVE  Represents(LL_UnRoll(L), UnRolled(s), IF Len(s) < 2 THEN 1 ELSE Len(s) - 1)
<1> DEFINE n == Len(s)
           E == LL_Rewind(L)
           c == E.current
           U == LL_node_Unlink(E, c)
           M == LL_End(U)
           p == M.prev["tail"]
           R == [M EXCEPT !.prev["tail"] = c, !.next[p] = c,
                          !.next[c] = "tail", !.prev[c] = p]
           t == UnRolled(s)
<1>1. n \in Nat /\ (s = << >> <=> n = 0) /\ s \in Seq(Values)
  BY Represented, EmptySeq
<1>2. Represents(E, s, IF s = << >> THEN 0 ELSE 1)
  BY Rewinds
<1>3. LL_UnRoll(L) = IF c = "head" THEN At(E, "tail")
                     ELSE IF E.next[c] = "tail" THEN E ELSE R
  BY Zenon DEF LL_UnRoll
<1> HIDE DEF E, R
<1>4. CASE n = 0
  <2>1. Represents(E, s, 0) /\ c = "head"
    BY <1>1, <1>2, <1>4, Represented
  <2>2. PICK place : Ordered(E, place) /\ Shows(E, place, s)
    BY <2>1 DEF Represents
  <2>3. Typed(E) /\ 0 = Cardinality(E.used)
    BY <1>4, <2>1, <2>2 DEF Represents, Shows
  <2>4. "tail" \in Chain(E) /\ "tail" # None /\ place["tail"] = 1
    BY <2>2, <2>3, CellNames DEF Chain, Ordered
  <2>5. Represents(At(E, "tail"), s, IF "tail" = None THEN -1 ELSE place["tail"])
    BY <2>2, <2>3, <2>4, Moved
  <2>6. t = s
    BY <1>1, <1>4 DEF UnRolled
  <2> QED BY <1>3, <1>4, <2>1, <2>4, <2>5, <2>6
<1>5. CASE n # 0
  <2>1. Represents(E, s, 1)
    BY <1>1, <1>2, <1>5
  <2>2. PICK place : Ordered(E, place) /\ Shows(E, place, s) /\ 1 = Position(E, place)
    BY <2>1 DEF Represents
  <2>3. Typed(E) /\ E \in Lists /\ n = Cardinality(E.used)
    <3>1. Typed(E) /\ E \in Lists
      BY <2>1 DEF Represents, Typed
    <3> QED BY <2>1, <3>1, Represented
  <2>4. c \in E.used
    BY <1>1, <1>5, <2>1, Represented
  <2>5. c \in Chain(E) /\ c # None /\ c # "tail" /\ c # "head" /\ place[c] = 1
        /\ c \in Cells /\ c \in Nodes /\ Chain(E) \subseteq Cells
    BY <2>2, <2>3, <2>4, CellNames DEF Chain, Position, Lists
  <2>6. \A a, b \in Chain(E) : place[a] = place[b] => a = b
    BY <2>2 DEF Ordered
  <2>7. E.next[c] = "tail" <=> n = 1
    <3>1. E.next[c] \in Chain(E) /\ place[E.next[c]] = 2
      BY <2>2, <2>5 DEF Ordered
    <3>2. place["tail"] = n + 1 /\ "tail" \in Chain(E)
      BY <2>2, <2>3 DEF Ordered, Chain
    <3>3. E.next[c] = "tail" <=> 2 = n + 1
      <4> HIDE DEF n, c
      <4> QED BY <2>6, <3>1, <3>2
    <3> HIDE DEF n
    <3> QED BY <1>1, <3>3
  <2>8. t \in Seq(Values) /\ Len(t) = n
        /\ \A k \in 1 .. n : t[k] = IF k = n THEN s[1] ELSE s[k + 1]
    BY <1>1, <1>5, UnRolledItems
  <2>9. CASE n = 1
    <3>1. t = s
      <4>1. \A k \in 1 .. Len(s) : t[k] = s[k]
        BY <2>8, <2>9
      <4> QED BY <1>1, <2>8, <4>1, SeqEqual
    <3> QED BY <1>3, <2>1, <2>5, <2>7, <2>9, <3>1
  <2>10. CASE n # 1
    <3> DEFINE V == [U EXCEPT !.used = E.used \ {c}]
               gap == Gap(place, c)
               new == Room(gap, p, c)
    <3>1. /\ V \in Lists /\ Ordered(V, gap) /\ V.used = E.used \ {c}
          /\ V.next = U.next /\ V.prev = U.prev
          /\ U \in Lists /\ U.data = E.data /\ U.used = E.used
      BY <2>2, <2>3, <2>4, TakenOut
    <3> HIDE DEF U, V, c, t
    <3>2. /\ M.next = U.next /\ M.prev = U.prev /\ M.data = E.data /\ M.used = E.used
          /\ M \in Lists
          /\ M.current = IF U.prev["tail"] # "head" THEN U.prev["tail"] ELSE "tail"
      <4>1. U.prev["tail"] \in Cells \cup {None}
        BY <3>1, CellNames DEF Lists
      <4>2. U.prev["tail"] \in Chain(V)
        BY <3>1, CellNames DEF Ordered, Chain
      <4>3. U.prev["tail"] \in Cells
        BY <3>1, <4>1, <4>2, CellNames DEF Chain, Lists
      <4> QED BY <3>1, <4>3, CellNames DEF LL_End, At, Lists
    <3>3. /\ p = V.prev["tail"] /\ p \in Chain(V) \ {"tail"} /\ V.next[p] = "tail" /\ p \in Cells
          /\ gap["tail"] = gap[p] + 1 /\ p \in Chain(E) /\ p # c
      <4>1. p = V.prev["tail"]
        BY <3>1, <3>2
      <4>2. V.prev["tail"] \in Chain(V) \ {"tail"} /\ V.next[V.prev["tail"]] = "tail"
        BY <3>1, CellNames DEF Ordered, Chain
      <4>3. gap["tail"] = gap[V.prev["tail"]] + 1
        BY <3>1, <4>2 DEF Ordered
      <4>4. Chain(V) = Chain(E) \ {c}
        BY <2>5, <3>1 DEF Chain
      <4> QED BY <2>5, <4>1, <4>2, <4>3, <4>4
    <3> HIDE DEF M, gap
    <3>4. \A x \in Cells : gap[x] = IF place[x] > 1 THEN place[x] - 1 ELSE place[x]
      BY <2>5 DEF gap, Gap
    <3>5. \A x \in Cells : place[x] \in Int
      BY <2>2 DEF Ordered
    <3>6. p # "head" /\ place[p] = n /\ gap[p] = n - 1 /\ p \in E.used
      <4>1. place["tail"] = n + 1 /\ place["head"] = 0 /\ "tail" \in Cells /\ "head" \in Cells
        BY <2>2, <2>3, CellNames DEF Ordered
      <4>2. gap["tail"] = n /\ gap["head"] = 0
        BY <1>1, <1>5, <3>4, <4>1
      <4>3. p # "head"
        <5> HIDE DEF n, p
        <5> QED BY <1>1, <2>10, <3>3, <4>2
      <4>4. p \in E.used
        BY <3>3, <4>3 DEF Chain
      <4>5. place[p] \in 1 .. n /\ place[p] # 1
        BY <2>2, <2>3, <2>5, <2>6, <3>3, <4>4, NodePlaces
      <4>6. gap[p] = place[p] - 1
        BY <3>3, <3>4, <4>5
      <4> QED BY <1>1, <3>3, <4>2, <4>3, <4>4, <4>5, <4>6
    <3>7. M.current = p
      BY <3>1, <3>2, <3>3, <3>6
    <3> HIDE DEF p
    <3>8. /\ R.next = [V.next EXCEPT ![c] = "tail", ![p] = c]
          /\ R.prev = [V.prev EXCEPT ![c] = p, !["tail"] = c]
          /\ R.data = E.data /\ R.used = E.used /\ R.current = p
          /\ R \in Lists
      <4>1. R = [[[[M EXCEPT !.prev["tail"] = c] EXCEPT !.next[p] = c]
                  EXCEPT !.next[c] = "tail"] EXCEPT !.prev[c] = p]
        BY Zenon DEF R, p
      <4>2. c \in Cells /\ "tail" \in Cells /\ p \in Cells /\ c # "tail"
        BY <2>5, <3>3, CellNames
      <4>3. [V.next EXCEPT ![p] = c, ![c] = "tail"] = [V.next EXCEPT ![c] = "tail", ![p] = c]
        BY <3>3
      <4>4. [V.prev EXCEPT !["tail"] = c, ![c] = p] = [V.prev EXCEPT ![c] = p, !["tail"] = c]
        BY <2>5
      <4>5. /\ R.next = [V.next EXCEPT ![p] = c, ![c] = "tail"]
            /\ R.prev = [V.prev EXCEPT !["tail"] = c, ![c] = p]
            /\ R.data = E.data /\ R.used = E.used /\ R.current = p
            /\ R \in Lists
        <5> HIDE DEF R
        <5> QED BY <3>1, <3>2, <3>7, <4>1, <4>2 DEF Lists
      <4> QED BY <4>3, <4>4, <4>5
    <3>9. Ordered(R, new)
      <4>1. c \in Nodes \ V.used /\ p \in Chain(V) \ {"tail"} /\ R.used = V.used \cup {c}
        BY <2>4, <2>5, <3>1, <3>3, <3>8
      <4>2. R.next = [V.next EXCEPT ![c] = V.next[p], ![p] = c]
            /\ R.prev = [V.prev EXCEPT ![c] = p, ![V.next[p]] = c]
        BY <3>3, <3>8
      <4> QED BY <3>1, <3>8, <4>1, <4>2, LinkingIn
    <3>10. \A x \in E.used : new[x] = IF x = c THEN n ELSE place[x] - 1
      <4>1. ASSUME NEW x \in E.used
            PROVE x \in Cells /\ x \in Chain(E) /\ place[x] \in 1 .. n
        BY <2>2, <2>3, NodePlaces, CellNames DEF Lists, Chain
      <4>2. ASSUME NEW x \in E.used, x # c PROVE gap[x] = place[x] - 1 /\ ~ gap[x] > n - 1
        <5>1. place[x] \in 1 .. n /\ place[x] # 1 /\ x \in Cells
          BY <2>5, <2>6, <4>1, <4>2
        <5> QED BY <1>1, <3>4, <5>1
      <4>3. ASSUME NEW x \in E.used PROVE new[x] = IF x = c THEN n ELSE place[x] - 1
        <5>1. new[x] = IF x = c THEN gap[p] + 1
                       ELSE IF gap[x] > gap[p] THEN gap[x] + 1 ELSE gap[x]
          BY <4>1 DEF Room
        <5> HIDE DEF new
        <5> QED BY <1>1, <3>6, <4>2, <5>1
      <4> QED BY <4>3
    <3> HIDE DEF new
    <3>11. ASSUME NEW x \in R.used PROVE t[new[x]] = R.data[x]
      <4>1. x \in E.used /\ x \in Chain(E) /\ place[x] \in 1 .. n /\ s[place[x]] = E.data[x]
        BY <2>2, <2>3, <3>8, NodePlaces DEF Shows, Chain
      <4>2. x # c => place[x] # 1
        BY <2>5, <2>6, <4>1
      <4>3. CASE x = c
        BY <1>1, <1>5, <2>5, <2>8, <3>8, <3>10, <4>1, <4>3
      <4>4. CASE x # c
        <5>1. new[x] = place[x] - 1 /\ new[x] \in 1 .. n /\ new[x] # n /\ new[x] + 1 = place[x]
          BY <1>1, <3>10, <4>1, <4>2, <4>4
        <5> QED BY <2>8, <3>8, <4>1, <5>1
      <4> QED BY <4>3, <4>4
    <3>12. Shows(R, new, t)
      BY <2>3, <2>8, <3>8, <3>11 DEF Shows
    <3>13. Typed(R)
      <4>1. R.current \in Chain(R)
        BY <3>6, <3>8 DEF Chain
      <4> QED BY <2>3, <3>8, <4>1 DEF Typed
    <3>14. Position(R, new) = n - 1
      <4>1. new[p] = n - 1
        BY <3>3, <3>6, <3>10
      <4> QED BY <3>3, <3>8, <4>1, CellNames DEF Position
    <3>15. Represents(R, t, n - 1)
      BY <3>9, <3>12, <3>13, <3>14 DEF Represents
    <3>16. LL_UnRoll(L) = R
      BY <1>3, <2>5, <2>7, <2>10, Zenon
    <3>17. ~ n < 2
      <4> HIDE DEF n
      <4> QED BY <1>1, <1>5, <2>10
    <3> QED BY <3>15, <3>16, <3>17 DEF t
  <2> QED BY <2>9, <2>10
<1> QED BY <1>4, <1>5

-----------------------------------------------------------------------------
(* LL_Sort: what the search for the greatest node finds.                     *)
LEMMA Comparing ==
  ASSUME NEW a \in Values, NEW b \in Values, NEW c \in Values
  PROVE  /\ Compare(a, b) \in Int
         /\ Compare(a, a) <= 0
         /\ Compare(a, b) > 0 => Compare(b, a) <= 0
         /\ Compare(a, b) <= 0 /\ Compare(b, c) <= 0 => Compare(a, c) <= 0
<1>1. a \div 2 \in Int /\ b \div 2 \in Int /\ c \div 2 \in Int
  <2>1. a \in Nat /\ b \in Nat /\ c \in Nat
    BY NodesAssumption DEF Values, NULL
  <2> QED BY <2>1
<1> QED BY <1>1 DEF Compare

(* Moving changes nothing but current. *)
LEMMA OnlyCurrent ==
  ASSUME NEW L, NEW s, NEW i, Represents(L, s, i)
  PROVE  /\ L = At(L, L.current)
         /\ LL_Rewind(L) = At(L, LL_Rewind(L).current)
         /\ \A k \in Calls : After(L)[k] = At(L, After(L)[k].current)
<1> DEFINE w == After(L)
           T == {k \in 0 .. Size + 2 : w[k] = At(L, w[k].current)}
<1>1. L \in Lists /\ Size \in Nat
  <2>1. L \in Lists
    BY DEF Represents, Typed
  <2> QED BY <2>1, Represented
<1>2. L = At(L, L.current)
  BY <1>1 DEF At, Lists
<1>3. ASSUME NEW c PROVE At(L, c).current = c /\ \A d : At(At(L, c), d) = At(L, d)
  BY <1>1 DEF At, Lists
<1>4. LL_Rewind(L) = At(L, LL_Rewind(L).current)
  <2>1. \E c : LL_Rewind(L) = At(L, c)
    BY DEF LL_Rewind
  <2> QED BY <1>3, <2>1
<1>5. w[0] = L /\ \A k \in 1 .. Size + 2 : w[k] = LL_Next(w[k - 1])
  BY Advances
<1> HIDE DEF w
<1>6. 0 \in T
  BY <1>1, <1>2, <1>5
<1>7. ASSUME NEW k \in 0 .. Size + 1, k \in T PROVE k + 1 \in T
  <2> DEFINE M == w[k]
  <2>1. w[k + 1] = LL_Next(M) /\ M = At(L, M.current) /\ k + 1 \in 0 .. Size + 2
    BY <1>1, <1>5, <1>7
  <2> HIDE DEF M
  <2>2. \E c : LL_Next(M) = At(L, c)
    <3>1. LL_Next(M) = M \/ \E d : LL_Next(M) = At(M, d)
      BY DEF LL_Next
    <3>2. ASSUME NEW d PROVE At(M, d) = At(L, d)
      BY <1>3, <2>1
    <3> QED BY <2>1, <3>1, <3>2
  <2>3. LL_Next(M) = At(L, LL_Next(M).current)
    BY <1>3, <2>2
  <2> QED BY <2>1, <2>3
<1> HIDE DEF T
<1>8. \A k \in 0 .. Size + 2 : k \in T
  <2>1. Size + 2 \in Nat /\ \A k \in 0 .. (Size + 2) - 1 : k \in 0 .. Size + 1
    BY <1>1
  <2> QED BY <1>6, <1>7, <2>1, Induction
<1> QED BY <1>2, <1>4, <1>8 DEF T, w, Calls

(* The node that LL_Sort looks at next, after k others.                      *)
Seen(L, k) == After(LL_Rewind(L))[k].current

(* It is the one at the next place. *)
LEMMA SeenPlaces ==
  ASSUME NEW L, NEW s, NEW i, Represents(L, s, i), s # << >>
  PROVE  \A k \in Calls :
           /\ Seen(L, k) \in L.used
           /\ After(LL_Rewind(L))[k] = At(L, Seen(L, k))
           /\ Represents(At(L, Seen(L, k)), s, IF k + 1 <= Len(s) THEN k + 1 ELSE Len(s))
<1> DEFINE R == LL_Rewind(L)
           n == Len(s)
<1>1. n \in Nat /\ n >= 1 /\ Size \in Nat /\ L \in Lists
  <2>1. s \in Seq(Values) /\ n \in Nat /\ Size \in Nat
    BY Represented
  <2>2. n # 0
    BY <2>1, EmptySeq
  <2>3. L \in Lists
    BY DEF Represents, Typed
  <2> HIDE DEF n
  <2> QED BY <2>1, <2>2, <2>3
<1>2. Represents(R, s, 1) /\ R = At(L, R.current)
  BY Rewinds, OnlyCurrent
<1> HIDE DEF R
<1> SUFFICES ASSUME NEW k \in Calls
             PROVE  /\ Seen(L, k) \in L.used
                    /\ After(R)[k] = At(L, Seen(L, k))
                    /\ Represents(At(L, Seen(L, k)), s, IF k + 1 <= n THEN k + 1 ELSE n)
  BY DEF R
<1> DEFINE M == After(R)[k]
           a == IF k + 1 <= n THEN k + 1 ELSE n
<1>3. Ahead(n, 1, k) = a /\ a \in 1 .. n
  <2>1. k \in Nat
    BY <1>1 DEF Calls
  <2> HIDE DEF n
  <2> QED BY <1>1, <2>1 DEF Ahead
<1>4. Represents(M, s, a)
  <2>1. Represents(M, s, Ahead(n, 1, k))
    BY <1>2, AfterPlaces
  <2> QED BY <1>3, <2>1
<1>5. M = At(R, M.current) /\ Seen(L, k) = M.current
  BY <1>2, OnlyCurrent DEF Seen, R
<1> HIDE DEF M, a
<1>6. M = At(L, M.current)
  <2>1. \A c, d : At(At(L, c), d) = At(L, d)
    BY <1>1 DEF At, Lists
  <2> QED BY <1>2, <1>5, <2>1
<1>7. M.current \in M.used
  BY <1>3, <1>4, Represented
<1>8. M.used = L.used
  BY <1>1, <1>6 DEF At, Lists
<1> QED BY <1>4, <1>5, <1>6, <1>7, <1>8 DEF a, M

(* The better of best and the next node. *)
Better(L, k, best) ==
  IF Compare(L.data[Seen(L, k - 1)], L.data[best]) > 0 THEN Seen(L, k - 1) ELSE best

(* The search is what its recursion says. *)
LEMMA BestSteps ==
  ASSUME NEW L, NEW s, NEW i, Represents(L, s, i), NEW last \in L.used
  PROVE  /\ Best(L, last)[0] = last
         /\ \A k \in 1 .. Size + 2 : Best(L, last)[k] = Better(L, k, Best(L, last)[k - 1])
<1> DEFINE X == L.used
           n == Size + 2
           after == After(LL_Rewind(L))
           g == [k \in 1 .. n |-> [x \in X |-> Better(L, k, x)]]
           Is(f) == f = [k \in Calls |->
                          IF k = 0 THEN last
                          ELSE IF Compare(L.data[after[k - 1].current], L.data[f[k - 1]]) > 0
                          THEN after[k - 1].current ELSE f[k - 1]]
<1>1. n \in Nat /\ s # << >>
  <2>1. Size \in Nat /\ Len(s) = Cardinality(L.used) /\ Len(s) \in Nat
    BY Represented
  <2>2. IsFiniteSet(L.used)
    BY Counting DEF Represents, Typed
  <2>3. Cardinality(L.used) # 0
    BY <2>2, FS_EmptySet
  <2> QED BY <2>1, <2>3
<1>2. g \in [1 .. n -> [X -> X]]
  <2>1. \A k \in 1 .. n : k - 1 \in Calls
    BY <1>1 DEF Calls
  <2>2. \A k \in 1 .. n : Seen(L, k - 1) \in X
    BY <1>1, <2>1, SeenPlaces
  <2> HIDE DEF X, n
  <2> QED BY <2>2 DEF Better
<1>3. PICK f \in [0 .. n -> X] : Iterated(f, last, n, g)
  <2> HIDE DEF n, g
  <2> QED BY <1>1, <1>2, Iterates
<1>4. f[0] = last /\ \A k \in 1 .. n : f[k] = Better(L, k, f[k - 1])
  <2>1. \A k \in 1 .. n : k - 1 \in 0 .. n
    BY <1>1
  <2>2. \A k \in 1 .. n : g[k][f[k - 1]] = Better(L, k, f[k - 1])
    BY <2>1
  <2> HIDE DEF g, n
  <2> QED BY <1>3, <2>2 DEF Iterated
<1>5. Is(f)
  <2>1. \A k \in 0 .. n : k # 0 => k \in 1 .. n
    BY <1>1
  <2>2. 0 .. n = Calls
    BY DEF Calls
  <2> HIDE DEF n, X
  <2> QED BY <1>3, <1>4, <2>1, <2>2, Zenon DEF Better, Seen
<1>6. Is(Best(L, last))
  <2>1. Best(L, last) = CHOOSE h : Is(h)
    BY DEF Best
  <2> HIDE DEF Is
  <2> QED BY <1>5, <2>1
<1> DEFINE w == Best(L, last)
<1> HIDE DEF w
<1>7. Is(w)
  BY <1>6 DEF w
<1>8. w[0] = last /\ \A k \in 1 .. n : w[k] = Better(L, k, w[k - 1])
  BY <1>1, <1>7 DEF Calls, Better, Seen
<1> QED BY <1>8 DEF w

(* Of the first m nodes and last, at l, the greatest. *)
LEMMA BestFinds ==
  ASSUME NEW L, NEW s, NEW i, Represents(L, s, i), NEW last \in L.used,
         NEW l, Represents(At(L, last), s, l), NEW m \in 0 .. Len(s)
  PROVE  /\ Best(L, last)[m] \in L.used
         /\ \E b \in (1 .. m) \cup {l} :
              /\ Represents(At(L, Best(L, last)[m]), s, b)
              /\ \A j \in (1 .. m) \cup {l} : Compare(s[j], s[b]) <= 0
<1> DEFINE w == Best(L, last)
           n == Len(s)
           Greatest(k, c, b) ==
             /\ c \in L.used
             /\ b \in (1 .. k) \cup {l}
             /\ Represents(At(L, c), s, b)
             /\ \A j \in (1 .. k) \cup {l} : Compare(s[j], s[b]) <= 0
           T == {k \in 0 .. n : \E b : Greatest(k, w[k], b)}
<1>1. L \in Lists /\ Typed(L) /\ n \in Nat /\ n <= Size /\ Size \in Nat /\ s \in Seq(Values)
  <2>1. L \in Lists /\ Typed(L)
    BY DEF Represents, Typed
  <2> QED BY <2>1, Represented
<1>2. w[0] = last /\ \A k \in 1 .. Size + 2 : w[k] = Better(L, k, w[k - 1])
  BY BestSteps
<1>3. ASSUME NEW c \in L.used, NEW a, Represents(At(L, c), s, a)
      PROVE  a \in 1 .. n /\ L.data[c] = s[a] /\ s[a] \in Values
  <2>1. At(L, c).current = c /\ At(L, c).used = L.used /\ At(L, c).data = L.data
    BY <1>1 DEF At, Lists
  <2>2. c # None
    BY <1>1, CellNames DEF Lists
  <2>3. a \in 1 .. n
    BY <1>3, <2>1, Represented
  <2>4. LL_Get(At(L, c)) = s[a]
    BY <1>3, <2>3, Represented
  <2> QED BY <1>1, <2>1, <2>2, <2>3, <2>4, ElementOfSeq DEF LL_Get
<1>4. l \in 1 .. n
  BY <1>3
<1> HIDE DEF w, n
<1>5. 0 \in T
  <2>1. s[l] \in Values
    BY <1>3
  <2>2. Compare(s[l], s[l]) <= 0
    BY <2>1, Comparing
  <2>3. \A j \in (1 .. 0) \cup {l} : j = l
    OBVIOUS
  <2>4. Greatest(0, w[0], l)
    BY <1>2, <2>2, <2>3
  <2> HIDE DEF Greatest
  <2> QED BY <1>1, <2>4
<1>6. ASSUME NEW k \in 0 .. n - 1, k \in T PROVE k + 1 \in T
  <2> DEFINE c == w[k]
             d == Seen(L, k)
             e == w[k + 1]
  <2>1. PICK b : Greatest(k, c, b)
    BY <1>6
  <2>2. /\ k \in Calls /\ k + 1 \in 1 .. Size + 2 /\ (k + 1) - 1 = k
        /\ k + 1 <= n /\ k + 1 \in 0 .. n /\ n # 0 /\ k \in Nat
    BY <1>1 DEF Calls
  <2>3. d \in L.used /\ Represents(At(L, d), s, k + 1)
    <3>1. s # << >>
      BY <2>2, EmptySeq DEF n
    <3> QED BY <2>2, <3>1, SeenPlaces DEF n
  <2>4. e = IF Compare(L.data[d], L.data[c]) > 0 THEN d ELSE c
    <3>1. w[k + 1] = Better(L, k + 1, w[(k + 1) - 1])
      BY <1>2, <2>2
    <3> QED BY <2>2, <3>1 DEF Better
  <2> HIDE DEF c, d, e
  <2>5. /\ c \in L.used /\ b \in (1 .. k) \cup {l} /\ Represents(At(L, c), s, b)
        /\ \A j \in (1 .. k) \cup {l} : Compare(s[j], s[b]) <= 0
    BY <2>1
  <2>6. /\ L.data[c] = s[b] /\ L.data[d] = s[k + 1] /\ b \in 1 .. n /\ k + 1 \in 1 .. n
    BY <1>3, <2>3, <2>5
  <2>7. \A j \in 1 .. n : s[j] \in Values
    BY <1>1, ElementOfSeq DEF n
  <2>8. \A j \in (1 .. k) \cup {l} : j \in 1 .. n
    BY <1>1, <1>4, <2>2
  <2>9. \A j \in (1 .. k + 1) \cup {l} : j = k + 1 \/ j \in (1 .. k) \cup {l}
    BY <2>2
  <2>10. CASE Compare(s[k + 1], s[b]) > 0
    <3>1. ASSUME NEW j \in (1 .. k + 1) \cup {l} PROVE Compare(s[j], s[k + 1]) <= 0
      <4>1. s[b] \in Values /\ s[k + 1] \in Values
        BY <2>6, <2>7
      <4>2. Compare(s[b], s[k + 1]) <= 0 /\ Compare(s[k + 1], s[k + 1]) <= 0
        BY <2>10, <4>1, Comparing
      <4>3. CASE j \in (1 .. k) \cup {l}
        <5>1. s[j] \in Values /\ Compare(s[j], s[b]) <= 0
          BY <2>5, <2>7, <2>8, <4>3
        <5> QED BY <4>1, <4>2, <5>1, Comparing
      <4> QED BY <2>9, <4>2, <4>3
    <3>2. k + 1 \in (1 .. k + 1) \cup {l}
      BY <2>2
    <3>3. Greatest(k + 1, e, k + 1)
      BY <2>3, <2>4, <2>6, <2>10, <3>1, <3>2
    <3> HIDE DEF Greatest
    <3> QED BY <2>2, <3>3 DEF e
  <2>11. CASE ~ Compare(s[k + 1], s[b]) > 0
    <3>1. s[b] \in Values /\ s[k + 1] \in Values
      BY <2>6, <2>7
    <3>2. Compare(s[k + 1], s[b]) \in Int
      BY <3>1, Comparing
    <3>3. Compare(s[k + 1], s[b]) <= 0
      BY <2>11, <3>2
    <3>4. ASSUME NEW j \in (1 .. k + 1) \cup {l} PROVE Compare(s[j], s[b]) <= 0
      BY <2>5, <2>9, <3>3
    <3>5. b \in (1 .. k + 1) \cup {l}
      BY <2>2, <2>5
    <3>6. Greatest(k + 1, e, b)
      BY <2>4, <2>5, <2>6, <2>11, <3>4, <3>5
    <3> HIDE DEF Greatest
    <3> QED BY <2>2, <3>6 DEF e
  <2> QED BY <2>10, <2>11
<1>7. m \in T
  <2> HIDE DEF T
  <2>1. \A k \in 0 .. n : k \in T
    BY <1>1, <1>5, <1>6, Induction
  <2> QED BY <2>1 DEF n
<1>8. PICK b : Greatest(m, w[m], b)
  BY <1>7
<1> QED BY <1>8 DEF w

(* t is s in another order; behind place m nothing has anything greater      *)
(* before it.                                                                *)
Permutes(s, t) ==
  \E p \in [DOMAIN s -> DOMAIN s] :
    /\ \A k \in DOMAIN s : \E j \in DOMAIN s : p[j] = k
    /\ t = [k \in DOMAIN s |-> s[p[k]]]

Settled(t, m) ==
  \A a \in m + 1 .. Len(t) : \A c \in 1 .. a : Compare(t[c], t[a]) <= 0

(* The loop invariant of LL_Sort: the places behind m are settled. *)
Sorting(s, A, m) ==
  /\ A.list \in Lists /\ A.last \in A.list.used /\ A = [list |-> A.list, last |-> A.last]
  /\ m \in 1 .. Len(s)
  /\ \E t \in Seq(Values) :
       /\ Len(t) = Len(s) /\ Permutes(s, t) /\ Settled(t, m)
       /\ \E j : Represents(A.list, t, j)
       /\ Represents(At(A.list, A.last), t, m)

(* u is t with the elements at a and b exchanged. *)
Crossed(D, t, a, b, u) ==
  \A k \in D : u[k] = t[IF k = a THEN b ELSE IF k = b THEN a ELSE k]

(* Which keeps it a permutation. *)
LEMMA SwapPermutes ==
  ASSUME NEW s, NEW t, NEW D, DOMAIN s = D, Permutes(s, t),
         NEW a \in D, NEW b \in D, NEW u \in [D -> Values], Crossed(D, t, a, b, u)
  PROVE  Permutes(s, u)
<1> DEFINE Other(k) == IF k = a THEN b ELSE IF k = b THEN a ELSE k
<1>1. PICK p \in [D -> D] : /\ \A k \in D : \E j \in D : p[j] = k
                           /\ t = [k \in D |-> s[p[k]]]
  BY Zenon DEF Permutes
<1>2. \A k \in D : u[k] = t[Other(k)] /\ Other(k) \in D /\ Other(Other(k)) = k
  BY DEF Crossed
<1> HIDE DEF Other
<1> DEFINE q == [k \in D |-> p[Other(k)]]
<1>3. q \in [D -> D] /\ \A k \in D : u[k] = s[q[k]]
  BY <1>1, <1>2
<1>4. ASSUME NEW k \in D PROVE \E j \in D : q[j] = k
  <2>1. PICK j \in D : p[j] = k
    BY <1>1
  <2>2. Other(j) \in D /\ q[Other(j)] = k
    BY <1>2, <2>1
  <2> QED BY <2>2
<1> HIDE DEF q
<1>5. u = [k \in D |-> s[q[k]]]
  BY <1>3
<1>6. \E r \in [D -> D] : /\ \A k \in D : \E j \in D : r[j] = k
                         /\ u = [k \in D |-> s[r[k]]]
  BY <1>3, <1>4, <1>5, Zenon
<1> QED BY <1>6, Zenon DEF Permutes

(* A pass settles one more place. *)
LEMMA PassSettles ==
  ASSUME NEW s \in Seq(Values), NEW m \in 1 .. Len(s) - 1, NEW A, Sorting(s, A, m + 1)
  PROVE  Sorting(s, SortPass(A, m), m)
<1> DEFINE L == A.list
           last == A.last
           best == Best(L, last)[m]
           R == After(LL_Rewind(L))[m]
           M == LL_SwapNodes(R, last, best)
           c == M.prev[best]
           B == SortPass(A, m)
<1>1. PICK t \in Seq(Values) :
        /\ Len(t) = Len(s) /\ Permutes(s, t) /\ Settled(t, m + 1)
        /\ \E j : Represents(A.list, t, j)
        /\ Represents(At(A.list, A.last), t, m + 1)
  BY DEF Sorting
<1>2. L \in Lists /\ last \in L.used
  BY DEF Sorting
<1>3. PICK i : Represents(L, t, i)
  BY <1>1
<1>4. /\ Represents(At(L, last), t, m + 1)
      /\ Len(s) \in Nat /\ m \in 1 .. Len(s) /\ m + 1 \in 1 .. Len(s) /\ m \in 0 .. Len(t)
      /\ m \in Calls /\ t # << >>
  <2>1. Len(t) \in Nat /\ Len(t) <= Size /\ Size \in Nat /\ (t = << >> <=> Len(t) = 0)
    BY <1>3, Represented, EmptySeq
  <2>2. Represents(At(L, last), t, m + 1)
    BY <1>1
  <2>3. Len(s) \in Nat /\ m \in 1 .. Len(s) /\ m + 1 \in 1 .. Len(s) /\ m \in 0 .. Len(t)
        /\ m \in 0 .. Size + 2 /\ Len(t) # 0
    BY <1>1, <2>1
  <2> QED BY <2>1, <2>2, <2>3 DEF Calls
<1>5. B = [list |-> M, last |-> c]
  BY Zenon DEF SortPass
<1> HIDE DEF L, last, B
<1>6. /\ best \in L.used
      /\ \E b \in (1 .. m) \cup {m + 1} :
           /\ Represents(At(L, best), t, b)
           /\ \A j \in (1 .. m) \cup {m + 1} : Compare(t[j], t[b]) <= 0
  BY <1>2, <1>3, <1>4, BestFinds
<1> HIDE DEF best
<1>7. PICK b \in 1 .. m + 1 :
        /\ Represents(At(L, best), t, b)
        /\ \A j \in 1 .. m + 1 : Compare(t[j], t[b]) <= 0
  <2>1. (1 .. m) \cup {m + 1} = 1 .. m + 1
    OBVIOUS
  <2> QED BY <1>6, <2>1
<1>8. R = At(L, Seen(L, m)) /\ \E j : Represents(R, t, j)
  BY <1>3, <1>4, SeenPlaces
<1>9. PICK r : Represents(R, t, r)
  BY <1>8
<1> HIDE DEF R
<1>10. R.used = L.used /\ At(R, last) = At(L, last) /\ At(R, best) = At(L, best)
  BY <1>2, <1>8 DEF At, Lists
<1> DEFINE u == [t EXCEPT ![m + 1] = t[b], ![b] = t[m + 1]]
<1>11. /\ \E j : Represents(M, u, j)
       /\ M.used = L.used /\ Represents(At(M, best), u, m + 1)
  <2> DEFINE a == m + 1
  <2>1. Represents(At(R, last), t, a) /\ Represents(At(R, best), t, b)
        /\ last \in R.used /\ best \in R.used
    BY <1>2, <1>4, <1>6, <1>7, <1>10
  <2> HIDE DEF a
  <2>2. LET N == LL_SwapNodes(R, last, best)
            v == [t EXCEPT ![a] = t[b], ![b] = t[a]] IN
        /\ a \in 1 .. Len(t) /\ b \in 1 .. Len(t)
        /\ Represents(N, v, IF r = a THEN b ELSE IF r = b THEN a ELSE r)
        /\ N.used = R.used /\ N.data = R.data
        /\ Represents(At(N, last), v, b) /\ Represents(At(N, best), v, a)
    BY <1>9, <2>1, Swaps
  <2> HIDE DEF M
  <2> QED BY <1>10, <2>2 DEF a, M
<1>12. b \in 1 .. Len(s)
  BY <1>4
<1>13. /\ u \in Seq(Values) /\ Len(u) = Len(s) /\ Permutes(s, u)
       /\ \A k \in 1 .. Len(s) : u[k] = t[IF k = m + 1 THEN b ELSE IF k = b THEN m + 1 ELSE k]
  <2> DEFINE a == m + 1
             D == 1 .. Len(s)
  <2>1. /\ a \in D /\ b \in D /\ DOMAIN s = D /\ t \in [D -> Values]
        /\ t[a] \in Values /\ t[b] \in Values /\ Len(s) \in Nat
    BY <1>1, <1>4, <1>12, LenProperties, ElementOfSeq
  <2> HIDE DEF a, D
  <2>2. u = [t EXCEPT ![a] = t[b], ![b] = t[a]]
    BY DEF a
  <2> HIDE DEF u
  <2>3. /\ u \in [D -> Values]
        /\ \A k \in D : u[k] = t[IF k = a THEN b ELSE IF k = b THEN a ELSE k]
    BY <2>1, <2>2
  <2>4. Permutes(s, u)
    <3>1. Permutes(s, t)
      BY <1>1
    <3>2. Crossed(D, t, a, b, u)
      BY <2>3, Zenon DEF Crossed
    <3> QED BY <2>1, <2>3, <3>1, <3>2, SwapPermutes
  <2>5. u \in Seq(Values) /\ Len(u) = Len(s)
    BY <2>1, <2>3, LenProperties DEF D
  <2> QED BY <2>3, <2>4, <2>5 DEF a, D
<1> HIDE DEF u, M
<1>14. Settled(u, m)
  <2> SUFFICES ASSUME NEW a \in m + 1 .. Len(s), NEW k \in 1 .. a
               PROVE  Compare(u[k], u[a]) <= 0
    BY <1>13 DEF Settled
  <2> DEFINE Other(x) == IF x = m + 1 THEN b ELSE IF x = b THEN m + 1 ELSE x
  <2>1. a \in 1 .. Len(s) /\ k \in 1 .. Len(s) /\ m \in Nat /\ Len(s) \in Nat
    BY <1>4
  <2>2. u[k] = t[Other(k)] /\ u[a] = t[Other(a)]
    BY <1>13, <2>1
  <2>3. CASE a = m + 1
    <3>1. Other(k) \in 1 .. m + 1 /\ Other(a) = b
      BY <2>1, <2>3
    <3> HIDE DEF Other
    <3> QED BY <1>7, <2>2, <3>1
  <2>4. CASE a # m + 1
    <3>1. a \in (m + 1) + 1 .. Len(t) /\ Other(a) = a /\ Other(k) \in 1 .. a
      BY <1>1, <1>4, <2>1, <2>4
    <3> HIDE DEF Other
    <3> QED BY <1>1, <2>2, <3>1 DEF Settled
  <2> QED BY <2>3, <2>4
<1>15. c \in M.used /\ Represents(At(M, c), u, m)
  <2> DEFINE N == At(M, best)
             a == m + 1
  <2>1. Represents(N, u, a) /\ a # -1 /\ a # 1 /\ a # 0 /\ a - 1 = m
    BY <1>11
  <2>2. M \in Lists
    BY <1>11 DEF Represents, Typed
  <2>3. N.current = best /\ N.prev = M.prev /\ At(N, c) = At(M, c)
        /\ At(M, c).used = M.used /\ At(M, c).current = c
    BY <2>2 DEF At, Lists
  <2> HIDE DEF N, a, c
  <2>4. MayPrev(N) /\ Represents(LL_Prev(N), u, m)
    BY <2>1, StepsBack
  <2>5. LL_Prev(N) = At(M, c)
    BY <2>3, <2>4 DEF LL_Prev, c
  <2>6. m \in 1 .. Len(u)
    BY <1>4, <1>13
  <2> QED BY <2>3, <2>4, <2>5, <2>6, Represented
<1>16. B.list = M /\ B.last = c /\ M \in Lists
  BY <1>5, <1>11 DEF Represents, Typed
<1> HIDE DEF c
<1>17. Sorting(s, B, m)
  BY <1>4, <1>5, <1>11, <1>13, <1>14, <1>15, <1>16 DEF Sorting
<1> QED BY <1>17 DEF B

(* After the last pass only the first place is left. *)
LEMMA PassSteps ==
  ASSUME NEW L, NEW s, NEW i, Represents(L, s, i), Len(s) >= 2
  PROVE  /\ LL_Length(L) = Len(s)
         /\ Sorting(s, Passes(L)[Len(s) - 1], 1)
<1> DEFINE n == Len(s)
           X == [list : Lists, last : Nodes]
           E == LL_End(L)
           A == [list |-> E, last |-> E.current]
           To(k, x) == IF SortPass(x, n - k) \in X THEN SortPass(x, n - k) ELSE x
           g == [k \in 1 .. n - 1 |-> [x \in X |-> To(k, x)]]
           Is(f) == f = [k \in 0 .. n - 1 |->
                           IF k = 0 THEN A ELSE SortPass(f[k - 1], n - k)]
<1>1. s \in Seq(Values) /\ n \in Nat /\ n - 1 \in Nat /\ s # << >>
  <2>1. s \in Seq(Values) /\ n \in Nat
    BY Represented
  <2> QED BY <2>1, EmptySeq
<1>2. LL_Length(L) = n
  <2>1. PICK place : Ordered(L, place) /\ Shows(L, place, s)
    BY DEF Represents
  <2> QED BY <2>1, LengthCounts DEF Represents, Typed, Shows
<1>3. Represents(E, s, n)
  BY <1>1, Rewinds
<1> HIDE DEF E
<1>4. Sorting(s, A, n)
  <2>1. E \in Lists /\ E = At(E, E.current)
    BY <1>3, OnlyCurrent DEF Represents, Typed
  <2>2. n \in 1 .. n
    BY <1>1
  <2>3. E.current \in E.used
    BY <1>3, <2>2, Represented
  <2>4. Permutes(s, s)
    <3>1. DOMAIN s = 1 .. n /\ s = [k \in 1 .. n |-> s[k]]
      BY <1>1, LenProperties
    <3> DEFINE p == [k \in 1 .. n |-> k]
    <3>2. /\ p \in [1 .. n -> 1 .. n]
          /\ \A k \in 1 .. n : \E j \in 1 .. n : p[j] = k
          /\ s = [k \in 1 .. n |-> s[p[k]]]
      <4> HIDE DEF n
      <4> QED BY <3>1
    <3> HIDE DEF p
    <3> QED BY <3>1, <3>2 DEF Permutes
  <2>5. Settled(s, n)
    BY <1>1 DEF Settled
  <2>6. Represents(At(A.list, A.last), s, n) /\ Represents(A.list, s, n)
    BY <1>3, <2>1
  <2>7. A.list = E /\ A.last = E.current
    OBVIOUS
  <2> HIDE DEF A
  <2>8. A = [list |-> A.list, last |-> A.last]
    BY DEF A
  <2> QED BY <1>1, <2>1, <2>2, <2>3, <2>4, <2>5, <2>6, <2>7, <2>8 DEF Sorting
<1> HIDE DEF A
<1>5. ASSUME NEW x, NEW m, Sorting(s, x, m) PROVE x \in X
  BY <1>5 DEF Sorting, Lists
<1>6. g \in [1 .. n - 1 -> [X -> X]]
  OBVIOUS
<1>7. PICK f \in [0 .. n - 1 -> X] : Iterated(f, A, n - 1, g)
  <2> DEFINE m == n - 1
  <2>1. m \in Nat /\ A \in X /\ g \in [1 .. m -> [X -> X]]
    BY <1>1, <1>4, <1>5, <1>6
  <2> HIDE DEF X, m, g
  <2>2. \E f \in [0 .. m -> X] : Iterated(f, A, m, g)
    BY <2>1, Iterates
  <2> QED BY <2>2 DEF m
<1>8. ASSUME NEW k \in 1 .. n - 1 PROVE f[k] = To(k, f[k - 1])
  <2>1. k - 1 \in 0 .. n - 1
    BY <1>1
  <2>2. g[k][f[k - 1]] = To(k, f[k - 1])
    <3> HIDE DEF To, X, n
    <3> QED BY <2>1
  <2> HIDE DEF g, n, To
  <2> QED BY <1>7, <2>2 DEF Iterated
<1> DEFINE T == {k \in 0 .. n - 1 : Sorting(s, f[k], n - k)}
<1>9. 0 \in T
  <2>1. f[0] = A
    BY <1>7 DEF Iterated
  <2> QED BY <1>1, <1>4, <2>1
<1>10. ASSUME NEW k \in 0 .. n - 1, k + 1 \in 0 .. n - 1, k \in T
       PROVE  f[k + 1] = SortPass(f[k], n - (k + 1)) /\ k + 1 \in T
  <2> DEFINE m == n - (k + 1)
             x == f[k]
  <2>1. /\ m \in 1 .. n - 1 /\ n - k = m + 1 /\ k + 1 \in 1 .. n - 1 /\ (k + 1) - 1 = k
    BY <1>1, <1>10
  <2>2. Sorting(s, x, m + 1)
    <3>1. Sorting(s, f[k], n - k)
      BY <1>10
    <3> QED BY <2>1, <3>1
  <2>3. f[k + 1] = IF SortPass(x, m) \in X THEN SortPass(x, m) ELSE x
    <3>1. f[k + 1] = To(k + 1, f[(k + 1) - 1])
      BY <1>8, <2>1
    <3> HIDE DEF X
    <3> QED BY <2>1, <3>1
  <2> HIDE DEF m, x, X
  <2>4. Sorting(s, SortPass(x, m), m)
    BY <1>1, <2>1, <2>2, PassSettles DEF n
  <2>5. SortPass(x, m) \in X
    BY <1>5, <2>4
  <2>6. f[k + 1] = SortPass(x, m)
    BY <2>3, <2>5
  <2> QED BY <1>10, <2>4, <2>6 DEF m, x
<1>11. \A k \in 0 .. n - 1 : k \in T
  <2> DEFINE m == n - 1
  <2>1. m \in Nat /\ \A k \in 0 .. m - 1 : k \in T => k + 1 \in T
    <3>1. m \in Nat /\ \A k \in 0 .. m - 1 : k \in 0 .. n - 1 /\ k + 1 \in 0 .. n - 1
      BY <1>1
    <3> HIDE DEF T, m
    <3> QED BY <1>10, <3>1
  <2> HIDE DEF T, m
  <2>2. \A k \in 0 .. m : k \in T
    BY <1>9, <2>1, Induction
  <2> QED BY <2>2 DEF m
<1>12. ASSUME NEW k \in 1 .. n - 1 PROVE f[k] = SortPass(f[k - 1], n - k)
  <2> DEFINE j == k - 1
  <2>1. j \in 0 .. n - 1 /\ j + 1 = k /\ j + 1 \in 0 .. n - 1
    BY <1>1
  <2> HIDE DEF j
  <2>2. f[j + 1] = SortPass(f[j], n - (j + 1))
    <3> HIDE DEF T, n
    <3> QED BY <1>10, <1>11, <2>1
  <2> QED BY <2>1, <2>2 DEF j
<1>13. Is(f)
  <2>1. f[0] = A
    BY <1>7 DEF Iterated
  <2>2. \A k \in 0 .. n - 1 : k # 0 => k \in 1 .. n - 1
    BY <1>1
  <2> HIDE DEF X, n
  <2> QED BY <1>7, <1>12, <2>1, <2>2
<1>14. Is(Passes(L))
  <2>1. Passes(L) = CHOOSE h : Is(h)
    BY <1>2 DEF Passes, A, E
  <2> HIDE DEF Is
  <2> QED BY <1>13, <2>1
<1> DEFINE w == Passes(L)
<1> HIDE DEF w
<1>15. Is(w)
  BY <1>14 DEF w
<1>16. w[0] = A /\ \A k \in 1 .. n - 1 : w[k] = SortPass(w[k - 1], n - k)
  <2>1. 0 \in 0 .. n - 1 /\ \A k \in 1 .. n - 1 : k \in 0 .. n - 1 /\ k # 0
    BY <1>1
  <2> HIDE DEF n
  <2> QED BY <1>15, <2>1, Zenon
<1> DEFINE U == {k \in 0 .. n - 1 : w[k] = f[k]}
<1>17. \A k \in 0 .. n - 1 : k \in U
  <2> DEFINE m == n - 1
  <2>1. 0 \in U
    BY <1>1, <1>7, <1>16 DEF Iterated
  <2>2. ASSUME NEW k \in 0 .. m - 1, k \in U PROVE k + 1 \in U
    <3>1. k + 1 \in 1 .. n - 1 /\ k + 1 \in 0 .. n - 1 /\ (k + 1) - 1 = k
      BY <1>1
    <3>2. w[k + 1] = SortPass(w[k], n - (k + 1)) /\ f[k + 1] = SortPass(f[k], n - (k + 1))
      BY <1>12, <1>16, <3>1
    <3> QED BY <2>2, <3>1, <3>2
  <2>3. m \in Nat
    BY <1>1
  <2> HIDE DEF U, m
  <2>4. \A k \in 0 .. m : k \in U
    BY <2>1, <2>2, <2>3, Induction
  <2> QED BY <2>4 DEF m
<1>18. Sorting(s, w[n - 1], 1)
  <2>1. n - 1 \in 0 .. n - 1 /\ n - (n - 1) = 1
    BY <1>1
  <2>2. w[n - 1] = f[n - 1] /\ Sorting(s, f[n - 1], n - (n - 1))
    BY <1>11, <1>17, <2>1
  <2> QED BY <2>1, <2>2
<1> QED BY <1>2, <1>18 DEF w

(* LL_Sort puts the items in order. *)
LEMMA Sorts ==
  ASSUME NEW L, NEW s, NEW i, Represents(L, s, i)
  PROVE  \E t \in Seq(Values) :
           /\ Len(t) = Len(s) /\ Permutes(s, t)
           /\ \A k \in 1 .. Len(s) - 1 : Compare(t[k], t[k + 1]) <= 0
           /\ Represents(LL_Sort(L), t, 1)
<1> DEFINE n == Len(s)
<1>1. s \in Seq(Values) /\ n \in Nat /\ (s = << >> <=> n = 0)
  BY Represented, EmptySeq
<1>2. CASE n < 2
  <2>1. Represents(LL_End(L), s, 1)
    <3>1. (IF s = << >> THEN 1 ELSE n) = 1
      <4> HIDE DEF n
      <4> QED BY <1>1, <1>2
    <3> QED BY <3>1, Rewinds
  <2>2. LL_Length(L) = n
    <3>1. PICK place : Ordered(L, place) /\ Shows(L, place, s)
      BY DEF Represents
    <3> QED BY <3>1, LengthCounts DEF Represents, Typed, Shows
  <2>3. LL_Sort(L) = LL_End(L)
    BY <1>2, <2>2 DEF LL_Sort
  <2>4. Permutes(s, s)
    <3>1. DOMAIN s = 1 .. n /\ s = [k \in 1 .. n |-> s[k]]
      BY <1>1, LenProperties
    <3> DEFINE p == [k \in 1 .. n |-> k]
    <3>2. /\ p \in [1 .. n -> 1 .. n]
          /\ \A k \in 1 .. n : \E j \in 1 .. n : p[j] = k
          /\ s = [k \in 1 .. n |-> s[p[k]]]
      <4> HIDE DEF n
      <4> QED BY <3>1
    <3> HIDE DEF p
    <3> QED BY <3>1, <3>2 DEF Permutes
  <2>5. \A k \in 1 .. n - 1 : Compare(s[k], s[k + 1]) <= 0
    <3> HIDE DEF n
    <3> QED BY <1>1, <1>2
  <2> QED BY <1>1, <2>1, <2>3, <2>4, <2>5
<1>3. CASE n >= 2
  <2> DEFINE A == Passes(L)[n - 1]
  <2>1. LL_Length(L) = n /\ Sorting(s, A, 1)
    BY <1>3, PassSteps
  <2>2. LL_Sort(L) = LL_Rewind(A.list)
    <3>1. ~ n < 2
      <4> HIDE DEF n
      <4> QED BY <1>1, <1>3
    <3> HIDE DEF n
    <3> QED BY <2>1, <3>1, Zenon DEF LL_Sort
  <2> HIDE DEF A
  <2>3. PICK t \in Seq(Values) :
          /\ Len(t) = Len(s) /\ Permutes(s, t) /\ Settled(t, 1)
          /\ \E j : Represents(A.list, t, j)
    BY <2>1 DEF Sorting
  <2>4. t # << >>
    BY <1>1, <1>3, <2>3
  <2>5. Represents(LL_Sort(L), t, 1)
    BY <2>2, <2>3, <2>4, Rewinds
  <2>6. \A k \in 1 .. n - 1 : Compare(t[k], t[k + 1]) <= 0
    <3>1. \A k \in 1 .. n - 1 : k + 1 \in 1 + 1 .. n /\ k \in 1 .. k + 1
      <4> HIDE DEF n
      <4> QED BY <1>1
    <3> QED BY <2>3, <3>1 DEF Settled
  <2> QED BY <2>3, <2>5, <2>6
<1> QED BY <1>1, <1>2, <1>3

(* LL_Length and LL_GetByIndex. *)
LEMMA Measured ==
  ASSUME NEW L, NEW s, NEW i, Represents(L, s, i)
  PROVE  /\ LL_Length(L) = Len(s)
         /\ \A index \in 0 .. Size :
              LL_GetByIndex(L, index) =
                IF index + 1 \in 1 .. Len(s) THEN s[index + 1] ELSE NULL
<1> DEFINE n == Len(s)
           walk == Walk(L)
<1>1. PICK place : Ordered(L, place) /\ Shows(L, place, s)
  BY DEF Represents
<1>2. L \in Lists /\ n = Cardinality(L.used) /\ n \in Nat /\ n <= Size /\ Size \in Nat
  <2>1. L \in Lists
    BY DEF Represents, Typed
  <2> QED BY <2>1, Represented
<1>3. LL_Length(L) = n
  BY <1>1, <1>2, LengthCounts
<1>4. ASSUME NEW index \in 0 .. Size
      PROVE  LL_GetByIndex(L, index) =
               IF index + 1 \in 1 .. n THEN s[index + 1] ELSE NULL
  <2> DEFINE k == index + 1
             c == walk[k]
  <2>1. k \in 1 .. Size + 1 /\ k \in 0 .. Size + 1
    BY <1>2
  <2>2. LL_GetByIndex(L, index) = IF c \in Nodes THEN L.data[c] ELSE NULL
    BY DEF LL_GetByIndex
  <2> HIDE DEF walk, k
  <2>3. CASE k \in 1 .. n
    <3>1. c \in L.used /\ place[c] = k
      BY <1>1, <1>2, <2>3, NodePlaces DEF walk
    <3>2. c \in Nodes /\ s[k] = L.data[c]
      BY <1>1, <1>2, <3>1 DEF Lists, Shows
    <3> QED BY <2>2, <2>3, <3>2 DEF k
  <2>4. CASE k \notin 1 .. n
    <3>1. k = n + 1 \/ k > n + 1
      BY <1>2, <2>1, <2>4
    <3>2. k = n + 1 => place[c] = n + 1 /\ c \in Chain(L)
      BY <1>1, <1>2, Reached DEF walk
    <3>3. k = n + 1 => c = "tail"
      <4>1. \A d \in L.used : place[d] \in 1 .. n
        BY <1>1, <1>2, NodePlaces
      <4>2. place["head"] = 0
        BY <1>1 DEF Ordered
      <4> HIDE DEF n, c
      <4> QED BY <1>2, <3>2, <4>1, <4>2 DEF Chain
    <3>4. k > n + 1 => c = None
      BY <1>1, <1>2, <2>1, Reached DEF walk
    <3>5. c \notin Nodes
      BY <3>1, <3>3, <3>4, CellNames
    <3> QED BY <2>2, <2>4, <3>5 DEF k
  <2> QED BY <2>3, <2>4
<1> QED BY <1>3, <1>4

-----------------------------------------------------------------------------
(* Every call is a step of module List.                                      *)
Corresponds == Represents(list, items, cursor)

(* A call whose result is known to represent something. *)
LEMMA Calling ==
  ASSUME NEW L, NEW t, NEW j, NEW r, Represents(L, t, j), Call(L, r)
  PROVE  Corresponds' /\ items' = t /\ cursor' = j /\ result' = r
<1>1. list' = L /\ result' = r /\ items' = ItemsOf(L) /\ cursor' = PlaceOf(L)
  BY DEF Call
<1>2. t = ItemsOf(L) /\ j = PlaceOf(L)
  BY Representation
<1> QED BY <1>1, <1>2 DEF Corresponds

(* What that says before a call. *)
LEMMA Now ==
  ASSUME Corresponds
  PROVE  /\ items \in Seq(Values) /\ Len(items) \in Nat /\ DOMAIN items = 1 .. Len(items)
         /\ (items = << >> <=> Len(items) = 0)
         /\ cursor \in -1 .. Len(items) + 1
         /\ (cursor \in DOMAIN items <=> list.current \in list.used)
         /\ (cursor \in DOMAIN items <=> list.current \in Nodes)
         /\ (HasRoom(list) <=> Len(items) < Size)
         /\ Data \subseteq Values /\ NULL \in Values /\ \A d \in Data : d # NULL
<1>1. Represents(list, items, cursor)
  BY DEF Corresponds
<1>2. items \in Seq(Values) /\ Len(items) \in Nat /\ cursor \in -1 .. Len(items) + 1
      /\ (cursor \in 1 .. Len(items) <=> list.current \in list.used)
      /\ (list.current \in Nodes <=> list.current \in list.used)
  BY <1>1, Represented
<1>3. DOMAIN items = 1 .. Len(items) /\ (items = << >> <=> Len(items) = 0)
  BY <1>2, LenProperties, EmptySeq
<1>4. HasRoom(list) <=> Len(items) < Size
  BY <1>1, RoomLeft
<1>5. Data \subseteq Values /\ NULL \in Values /\ \A d \in Data : d # NULL
  BY NodesAssumption DEF Values, NULL
<1> QED BY <1>2, <1>3, <1>4, <1>5

(* LL_Rewind, LL_End, LL_Next, LL_Prev, LL_PutNode. *)
LEMMA MovesCorrespond == Corresponds /\ Moves => Corresponds' /\ Abstract!Step
<1> SUFFICES ASSUME Corresponds, Moves PROVE Corresponds' /\ Abstract!Step
  OBVIOUS
<1> DEFINE s == items
           i == cursor
<1>1. Represents(list, s, i)
  BY DEF Corresponds
<1>2. CASE Call(LL_Rewind(list), 0)
  <2>1. Corresponds' /\ items' = s /\ cursor' = (IF s = << >> THEN 0 ELSE 1) /\ result' = 0
    BY <1>1, <1>2, Rewinds, Calling
  <2>2. Abstract!Rewind
    BY <2>1 DEF Abstract!Rewind, Abstract!Goes, Abstract!FirstPlace
  <2> QED BY <2>1, <2>2 DEF Abstract!Step
<1>3. CASE Call(LL_End(list), 0)
  <2>1. Corresponds' /\ items' = s /\ cursor' = (IF s = << >> THEN 1 ELSE Len(s)) /\ result' = 0
    BY <1>1, <1>3, Rewinds, Calling
  <2>2. Abstract!End
    BY <2>1 DEF Abstract!End, Abstract!Goes, Abstract!LastPlace
  <2> QED BY <2>1, <2>2 DEF Abstract!Step
<1>4. CASE Call(LL_Next(list), Success(MayNext(list)))
  <2>1. CASE MayNext(list)
    <3>1. i # -1 /\ i # Len(s)
          /\ Represents(LL_Next(list), s, IF i = Len(s) + 1 THEN -1 ELSE i + 1)
      BY <1>1, <2>1, StepsForward
    <3>2. Corresponds' /\ items' = s /\ cursor' = (IF i = Len(s) + 1 THEN -1 ELSE i + 1)
          /\ result' = 0
      BY <1>4, <2>1, <3>1, Calling DEF Success
    <3>3. Abstract!Next
      BY <3>1, <3>2 DEF Abstract!Next, Abstract!Goes, Abstract!Forward,
         Abstract!MayForward, Abstract!Nowhere
    <3> QED BY <3>2, <3>3 DEF Abstract!Step
  <2>2. CASE ~ MayNext(list)
    <3>1. LL_Next(list) = list /\ ~ (i # -1 /\ i # Len(s))
      BY <1>1, <2>2, StepsForward DEF LL_Next
    <3>2. Corresponds' /\ items' = s /\ cursor' = i /\ result' = -1
      BY <1>1, <1>4, <2>2, <3>1, Calling DEF Success
    <3>3. Abstract!Next
      BY <3>1, <3>2 DEF Abstract!Next, Abstract!Goes, Abstract!MayForward, Abstract!Nowhere
    <3> QED BY <3>2, <3>3 DEF Abstract!Step
  <2> QED BY <2>1, <2>2
<1>5. CASE Call(LL_Prev(list), Success(MayPrev(list)))
  <2>1. CASE MayPrev(list)
    <3>1. i # -1 /\ i # 1 /\ Represents(LL_Prev(list), s, IF i = 0 THEN -1 ELSE i - 1)
      BY <1>1, <2>1, StepsBack
    <3>2. Corresponds' /\ items' = s /\ cursor' = (IF i = 0 THEN -1 ELSE i - 1) /\ result' = 0
      BY <1>5, <2>1, <3>1, Calling DEF Success
    <3>3. Abstract!Previous
      BY <3>1, <3>2 DEF Abstract!Previous, Abstract!Goes, Abstract!Backward,
         Abstract!MayBackward, Abstract!Nowhere
    <3> QED BY <3>2, <3>3 DEF Abstract!Step
  <2>2. CASE ~ MayPrev(list)
    <3>1. LL_Prev(list) = list /\ ~ (i # -1 /\ i # 1)
      BY <1>1, <2>2, StepsBack DEF LL_Prev
    <3>2. Corresponds' /\ items' = s /\ cursor' = i /\ result' = -1
      BY <1>1, <1>5, <2>2, <3>1, Calling DEF Success
    <3>3. Abstract!Previous
      BY <3>1, <3>2 DEF Abstract!Previous, Abstract!Goes, Abstract!MayBackward,
         Abstract!Nowhere
    <3> QED BY <3>2, <3>3 DEF Abstract!Step
  <2> QED BY <2>1, <2>2
<1>6. CASE \E n \in list.used : Call(At(list, n), 0)
  <2>1. PICK n \in list.used : Call(At(list, n), 0)
    BY <1>6
  <2>2. PICK j \in 1 .. Len(s) : Represents(At(list, n), s, j)
    BY <1>1, MovedToNode
  <2>3. Corresponds' /\ items' = s /\ cursor' = j /\ result' = 0
    BY <2>1, <2>2, Calling
  <2>4. j \in DOMAIN items
    BY Now
  <2>5. Abstract!PutNode(j)
    BY <2>3 DEF Abstract!PutNode, Abstract!Goes
  <2> QED BY <2>3, <2>4, <2>5 DEF Abstract!Step
<1> QED BY <1>2, <1>3, <1>4, <1>5, <1>6 DEF Moves

(* LL_Get, LL_GetFirst ... LL_GetByIndex and LL_Find. *)
LEMMA LooksCorrespond == Corresponds /\ Looks => Corresponds' /\ Abstract!Step
<1> SUFFICES ASSUME Corresponds, Looks PROVE Corresponds' /\ Abstract!Step
  OBVIOUS
<1> DEFINE s == items
           i == cursor
           n == Len(items)
           b == IF s = << >> THEN 0 ELSE 1
           e == IF s = << >> THEN 1 ELSE n
<1>1. Represents(list, s, i)
  BY DEF Corresponds
<1>2. n \in Nat /\ DOMAIN s = 1 .. n /\ (s = << >> <=> n = 0) /\ i \in -1 .. n + 1
  BY Now
<1>3. ASSUME NEW L, NEW t, NEW j, NEW r, Represents(L, t, j), Call(L, r)
      PROVE  Corresponds' /\ items' = t /\ cursor' = j /\ result' = r
  BY <1>3, Calling
<1>4. ASSUME NEW L, NEW j, Represents(L, s, j)
      PROVE  LL_Get(L) = Abstract!Item(j)
  <2>1. LL_Get(L) = IF j \in 1 .. n THEN s[j] ELSE NULL
    BY <1>4, Represented
  <2> QED BY <1>2, <2>1 DEF Abstract!Item, Abstract!NULL, NULL
<1>5. CASE Call(list, LL_Get(list))
  <2>1. Corresponds' /\ items' = s /\ cursor' = i /\ result' = Abstract!Item(i)
    BY <1>1, <1>3, <1>4, <1>5
  <2>2. Abstract!Get
    BY <2>1 DEF Abstract!Get, Abstract!Goes
  <2> QED BY <2>1, <2>2 DEF Abstract!Step
<1>6. CASE Call(LL_Rewind(list), LL_Get(LL_Rewind(list)))
  <2>1. Represents(LL_Rewind(list), s, b)
    BY <1>1, Rewinds
  <2>2. Corresponds' /\ items' = s /\ cursor' = b /\ result' = Abstract!Item(b)
    <3> HIDE DEF b
    <3> QED BY <1>3, <1>4, <1>6, <2>1
  <2>3. Abstract!Item(b) = Abstract!Item(1)
    BY <1>2 DEF Abstract!Item
  <2>4. Abstract!GetFirst
    BY <2>2, <2>3 DEF Abstract!GetFirst, Abstract!Goes, Abstract!FirstPlace
  <2> QED BY <2>2, <2>4 DEF Abstract!Step
<1>7. CASE Call(LL_End(list), LL_Get(LL_End(list)))
  <2>1. Represents(LL_End(list), s, e)
    BY <1>1, Rewinds
  <2>2. Corresponds' /\ items' = s /\ cursor' = e /\ result' = Abstract!Item(e)
    <3> HIDE DEF e
    <3> QED BY <1>3, <1>4, <1>7, <2>1
  <2>3. Abstract!Item(e) = Abstract!Item(n)
    BY <1>2 DEF Abstract!Item
  <2>4. Abstract!GetLast
    BY <2>2, <2>3 DEF Abstract!GetLast, Abstract!Goes, Abstract!LastPlace
  <2> QED BY <2>2, <2>4 DEF Abstract!Step
<1>8. CASE Call(LL_Next(list), IF MayNext(list) THEN LL_Get(LL_Next(list)) ELSE NULL)
  <2>1. CASE MayNext(list)
    <3> DEFINE j == IF i = n + 1 THEN -1 ELSE i + 1
    <3>1. i # -1 /\ i # n /\ Represents(LL_Next(list), s, j)
      BY <1>1, <2>1, StepsForward
    <3> HIDE DEF j
    <3>2. Corresponds' /\ items' = s /\ cursor' = j /\ result' = Abstract!Item(j)
      BY <1>3, <1>4, <1>8, <2>1, <3>1
    <3>3. Abstract!GetNext
      BY <3>1, <3>2 DEF Abstract!GetNext, Abstract!Goes, Abstract!Forward,
         Abstract!MayForward, Abstract!Nowhere, j
    <3> QED BY <3>2, <3>3 DEF Abstract!Step
  <2>2. CASE ~ MayNext(list)
    <3>1. LL_Next(list) = list /\ ~ (i # -1 /\ i # n)
      BY <1>1, <2>2, StepsForward DEF LL_Next
    <3>2. Corresponds' /\ items' = s /\ cursor' = i /\ result' = NULL
      BY <1>1, <1>3, <1>8, <2>2, <3>1
    <3>3. Abstract!GetNext
      BY <3>1, <3>2 DEF Abstract!GetNext, Abstract!Goes, Abstract!MayForward,
         Abstract!Nowhere, Abstract!NULL, NULL
    <3> QED BY <3>2, <3>3 DEF Abstract!Step
  <2> QED BY <2>1, <2>2
<1>9. CASE Call(LL_Prev(list), IF MayPrev(list) THEN LL_Get(LL_Prev(list)) ELSE NULL)
  <2>1. CASE MayPrev(list)
    <3> DEFINE j == IF i = 0 THEN -1 ELSE i - 1
    <3>1. i # -1 /\ i # 1 /\ Represents(LL_Prev(list), s, j)
      BY <1>1, <2>1, StepsBack
    <3> HIDE DEF j
    <3>2. Corresponds' /\ items' = s /\ cursor' = j /\ result' = Abstract!Item(j)
      BY <1>3, <1>4, <1>9, <2>1, <3>1
    <3>3. Abstract!GetPrev
      BY <3>1, <3>2 DEF Abstract!GetPrev, Abstract!Goes, Abstract!Backward,
         Abstract!MayBackward, Abstract!Nowhere, j
    <3> QED BY <3>2, <3>3 DEF Abstract!Step
  <2>2. CASE ~ MayPrev(list)
    <3>1. LL_Prev(list) = list /\ ~ (i # -1 /\ i # 1)
      BY <1>1, <2>2, StepsBack DEF LL_Prev
    <3>2. Corresponds' /\ items' = s /\ cursor' = i /\ result' = NULL
      BY <1>1, <1>3, <1>9, <2>2, <3>1
    <3>3. Abstract!GetPrev
      BY <3>1, <3>2 DEF Abstract!GetPrev, Abstract!Goes, Abstract!MayBackward,
         Abstract!Nowhere, Abstract!NULL, NULL
    <3> QED BY <3>2, <3>3 DEF Abstract!Step
  <2> QED BY <2>1, <2>2
<1>10. CASE Call(list, LL_Length(list))
  <2>1. Corresponds' /\ items' = s /\ cursor' = i /\ result' = n
    BY <1>1, <1>3, <1>10, Measured
  <2>2. Abstract!Length
    BY <2>1 DEF Abstract!Length, Abstract!Goes
  <2> QED BY <2>1, <2>2 DEF Abstract!Step
<1>11. CASE \E index \in 0 .. Size : Call(list, LL_GetByIndex(list, index))
  <2>1. PICK index \in 0 .. Size : Call(list, LL_GetByIndex(list, index))
    BY <1>11
  <2>2. LL_GetByIndex(list, index) = Abstract!Item(index + 1)
    <3>1. LL_GetByIndex(list, index) = IF index + 1 \in 1 .. n THEN s[index + 1] ELSE NULL
      BY <1>1, Measured
    <3> QED BY <1>2, <3>1 DEF Abstract!Item, Abstract!NULL, NULL
  <2>3. Corresponds' /\ items' = s /\ cursor' = i /\ result' = Abstract!Item(index + 1)
    BY <1>1, <1>3, <2>1, <2>2
  <2>4. Abstract!GetByIndex(index)
    BY <2>3 DEF Abstract!GetByIndex, Abstract!Goes
  <2>5. index \in Abstract!Indices
    BY DEF Abstract!Indices
  <2> QED BY <2>3, <2>4, <2>5 DEF Abstract!Step
<1>12. CASE \E d \in Data : Call(LL_Find(list, d), FoundData(list, d))
  <2>1. PICK d \in Data : Call(LL_Find(list, d), FoundData(list, d))
    BY <1>12
  <2> DEFINE W == {j \in 1 .. n : Compare(s[j], d) = 0}
             matches == {j \in DOMAIN s : j >= i /\ Compare(s[j], d) = 0}
  <2>2. PICK a \in -1 .. n + 1 :
          /\ Represents(LL_Find(list, d), s, a)
          /\ FoundData(list, d) = IF a \in W THEN s[a] ELSE NULL
          /\ Stopped(n, i, W, a)
    BY <1>1, Finds
  <2>3. Corresponds' /\ items' = s /\ cursor' = a
        /\ result' = IF a \in W THEN s[a] ELSE NULL
    BY <1>3, <2>1, <2>2
  <2>4. \A j : j \in matches <=> j \in W /\ j >= i
    BY <1>2
  <2>5. W \subseteq 1 .. n
    OBVIOUS
  <2> HIDE DEF W, n
  <2>6. CASE i # -1 /\ matches # {}
    <3>1. PICK j : j \in matches
      BY <2>6
    <3>2. a \in W /\ i <= a /\ \A k \in W : k >= i => a <= k
      BY <2>2, <2>4, <2>6, <3>1 DEF Stopped
    <3>3. a \in matches /\ \A k \in matches : a <= k
      BY <1>2, <2>4, <2>5, <3>2
    <3>4. result' = s[a]
      BY <2>3, <3>2
    <3>5. Abstract!Find(d)
      <4>1. matches = {j_1 \in DOMAIN items : j_1 >= cursor /\ Abstract!Compare(items[j_1], d) = 0}
        BY DEF Abstract!Compare, Compare
      <4> HIDE DEF matches
      <4> QED BY <2>3, <2>6, <3>3, <3>4, <4>1 DEF Abstract!Find, Abstract!Goes, Abstract!Nowhere
    <3> QED BY <2>3, <3>5 DEF Abstract!Step
  <2>7. CASE ~ (i # -1 /\ matches # {})
    <3>1. \A j \in W : i # -1 => ~ (j >= i)
      BY <2>4, <2>7
    <3>2. a = (IF i \in 0 .. n THEN n ELSE -1) /\ a \notin W
      <4>1. CASE i \in {-1, n + 1}
        <5>1. a = -1
          BY <2>2, <4>1 DEF Stopped
        <5> QED BY <1>2, <2>5, <4>1, <5>1
      <4>2. CASE i \in 0 .. n
        <5>1. \A j \in W : j < i
          BY <1>2, <2>5, <3>1, <4>2
        <5> QED BY <2>2, <4>2, <5>1 DEF Stopped
      <4> QED BY <1>2, <4>1, <4>2
    <3>3. Abstract!Find(d)
      <4>1. matches = {j_1 \in DOMAIN items : j_1 >= cursor /\ Abstract!Compare(items[j_1], d) = 0}
        BY DEF Abstract!Compare, Compare
      <4>2. Abstract!Goes(IF i \in 0 .. n THEN n ELSE -1, NULL)
        BY <2>3, <3>2 DEF Abstract!Goes
      <4> HIDE DEF matches
      <4> QED BY <2>7, <4>1, <4>2 DEF Abstract!Find, Abstract!Nowhere, Abstract!NULL, NULL, n
    <3> QED BY <2>3, <3>3 DEF Abstract!Step
  <2> QED BY <2>6, <2>7
<1> QED BY <1>5, <1>6, <1>7, <1>8, <1>9, <1>10, <1>11, <1>12 DEF Looks

(* LL_AddNode, LL_InsertNode, LL_Push, LL_Unshift, LL_PriorityEnqueue, LL_Put. *)
LEMMA AddsCorrespond ==
  ASSUME NEW d \in Data \cup {NULL}
  PROVE  Corresponds /\ Adds(d) => Corresponds' /\ Abstract!Step
<1> SUFFICES ASSUME Corresponds, Adds(d) PROVE Corresponds' /\ Abstract!Step
  OBVIOUS
<1> DEFINE s == items
           i == cursor
           n == Len(items)
           room == n < Size
           b == IF s = << >> THEN 0 ELSE 1
           e == IF s = << >> THEN 1 ELSE n
<1>1. Represents(list, s, i)
  BY DEF Corresponds
<1>2. n \in Nat /\ DOMAIN s = 1 .. n /\ (s = << >> <=> n = 0) /\ i \in -1 .. n + 1
  BY Now
<1>3. (HasRoom(list) <=> room) /\ (Abstract!HasRoom <=> room) /\ d \in Values
      /\ d \in Data \cup {Abstract!NULL} /\ (d # NULL => d \in Data)
  BY Now DEF Abstract!HasRoom, Abstract!NULL, NULL, Values
<1>4. ASSUME NEW L, NEW j, Represents(L, InsertAt(s, j, d), j), Call(L, 0)
      PROVE  Corresponds' /\ Abstract!InsertsAt(j, d)
  BY <1>4, Calling DEF Abstract!InsertsAt, Abstract!InsertAt, InsertAt
<1>5. ASSUME NEW L, NEW j, NEW r, Represents(L, s, j), Call(L, r)
      PROVE  Corresponds' /\ Abstract!Goes(j, r)
  BY <1>5, Calling DEF Abstract!Goes
<1> HIDE DEF room
<1>6. CASE Call(LL_AddNode(list, d), Success(MayAdd(list)))
  <2> DEFINE j == IF i > n THEN i ELSE i + 1
  <2>1. CASE MayAdd(list)
    <3>1. i # -1 /\ room /\ Represents(LL_AddNode(list, d), InsertAt(s, j, d), j)
      BY <1>1, <1>3, <2>1, AddsBehind DEF room
    <3>2. Corresponds' /\ Abstract!InsertsAt(j, d)
      <4>1. Success(MayAdd(list)) = 0
        BY <2>1 DEF Success
      <4> HIDE DEF j
      <4> QED BY <1>4, <1>6, <3>1, <4>1
    <3>3. Abstract!AddNode(d)
      BY <1>3, <3>1, <3>2 DEF Abstract!AddNode, Abstract!Nowhere
    <3> QED BY <1>3, <3>2, <3>3 DEF Abstract!Step
  <2>2. CASE ~ MayAdd(list)
    <3>1. LL_AddNode(list, d) = list /\ ~ (i # -1 /\ room)
      BY <1>1, <1>3, <2>2, AddsBehind DEF room
    <3>2. Corresponds' /\ Abstract!Goes(i, -1)
      <4>1. Success(MayAdd(list)) = -1
        BY <2>2 DEF Success
      <4> QED BY <1>1, <1>5, <1>6, <3>1, <4>1
    <3>3. Abstract!AddNode(d)
      BY <1>3, <3>1, <3>2 DEF Abstract!AddNode, Abstract!Nowhere
    <3> QED BY <1>3, <3>2, <3>3 DEF Abstract!Step
  <2> QED BY <2>1, <2>2
<1>7. CASE Call(LL_InsertNode(list, d), Success(MayInsert(list, d)))
  <2> DEFINE j == IF i = 0 THEN 1 ELSE i
  <2>1. CASE MayInsert(list, d)
    <3>1. d # NULL /\ i # -1 /\ room /\ Represents(LL_InsertNode(list, d), InsertAt(s, j, d), j)
      BY <1>1, <1>3, <2>1, AddsBefore DEF room
    <3>2. Corresponds' /\ Abstract!InsertsAt(j, d)
      <4>1. Success(MayInsert(list, d)) = 0
        BY <2>1 DEF Success
      <4> HIDE DEF j
      <4> QED BY <1>4, <1>7, <3>1, <4>1
    <3>3. Abstract!InsertNode(d)
      BY <1>3, <3>1, <3>2 DEF Abstract!InsertNode, Abstract!Nowhere, Abstract!NULL, NULL
    <3> QED BY <1>3, <3>2, <3>3 DEF Abstract!Step
  <2>2. CASE ~ MayInsert(list, d)
    <3>1. LL_InsertNode(list, d) = list /\ ~ (d # NULL /\ i # -1 /\ room)
      BY <1>1, <1>3, <2>2, AddsBefore DEF room
    <3>2. Corresponds' /\ Abstract!Goes(i, -1)
      <4>1. Success(MayInsert(list, d)) = -1
        BY <2>2 DEF Success
      <4> QED BY <1>1, <1>5, <1>7, <3>1, <4>1
    <3>3. Abstract!InsertNode(d)
      BY <1>3, <3>1, <3>2 DEF Abstract!InsertNode, Abstract!Nowhere, Abstract!NULL, NULL
    <3> QED BY <1>3, <3>2, <3>3 DEF Abstract!Step
  <2> QED BY <2>1, <2>2
<1>8. CASE Call(LL_Push(list, d), Success(d # NULL /\ HasRoom(list)))
  <2>1. CASE d = NULL
    <3>1. LL_Push(list, d) = list /\ Success(d # NULL /\ HasRoom(list)) = -1
      BY <2>1 DEF LL_Push, Success
    <3>2. Corresponds' /\ Abstract!Goes(i, -1)
      BY <1>1, <1>5, <1>8, <3>1
    <3>3. Abstract!Push(d)
      BY <2>1, <3>2 DEF Abstract!Push, Abstract!NULL, NULL
    <3> QED BY <1>3, <3>2, <3>3 DEF Abstract!Step
  <2>2. CASE d # NULL /\ room
    <3>1. Represents(LL_Push(list, d), InsertAt(s, n + 1, d), n + 1)
      BY <1>1, <1>3, <2>2, Pushes DEF room
    <3>2. Success(d # NULL /\ HasRoom(list)) = 0
      BY <1>3, <2>2 DEF Success
    <3>3. Corresponds' /\ Abstract!InsertsAt(n + 1, d)
      BY <1>4, <1>8, <3>1, <3>2
    <3>4. Abstract!Push(d)
      BY <1>3, <2>2, <3>3 DEF Abstract!Push, Abstract!NULL, NULL
    <3> QED BY <1>3, <3>3, <3>4 DEF Abstract!Step
  <2>3. CASE d # NULL /\ ~ room
    <3>1. Represents(LL_Push(list, d), s, e)
      BY <1>1, <1>3, <2>3, Pushes DEF room
    <3>2. Success(d # NULL /\ HasRoom(list)) = -1
      BY <1>3, <2>3 DEF Success
    <3>3. Corresponds' /\ Abstract!Goes(e, -1)
      <4> HIDE DEF e
      <4> QED BY <1>5, <1>8, <3>1, <3>2
    <3>4. Abstract!Push(d)
      BY <1>3, <2>3, <3>3 DEF Abstract!Push, Abstract!LastPlace, Abstract!NULL, NULL
    <3> QED BY <1>3, <3>3, <3>4 DEF Abstract!Step
  <2> QED BY <2>1, <2>2, <2>3
<1>9. CASE Call(LL_Unshift(list, d), Success(d # NULL /\ HasRoom(list)))
  <2>1. CASE d = NULL
    <3>1. LL_Unshift(list, d) = list /\ Success(d # NULL /\ HasRoom(list)) = -1
      BY <2>1 DEF LL_Unshift, Success
    <3>2. Corresponds' /\ Abstract!Goes(i, -1)
      BY <1>1, <1>5, <1>9, <3>1
    <3>3. Abstract!Unshift(d)
      BY <2>1, <3>2 DEF Abstract!Unshift, Abstract!NULL, NULL
    <3> QED BY <1>3, <3>2, <3>3 DEF Abstract!Step
  <2>2. CASE d # NULL /\ room
    <3>1. Represents(LL_Unshift(list, d), InsertAt(s, 1, d), 1)
      BY <1>1, <1>3, <2>2, Pushes DEF room
    <3>2. Success(d # NULL /\ HasRoom(list)) = 0
      BY <1>3, <2>2 DEF Success
    <3>3. Corresponds' /\ Abstract!InsertsAt(1, d)
      BY <1>4, <1>9, <3>1, <3>2
    <3>4. Abstract!Unshift(d)
      BY <1>3, <2>2, <3>3 DEF Abstract!Unshift, Abstract!NULL, NULL
    <3> QED BY <1>3, <3>3, <3>4 DEF Abstract!Step
  <2>3. CASE d # NULL /\ ~ room
    <3>1. Represents(LL_Unshift(list, d), s, b)
      BY <1>1, <1>3, <2>3, Pushes DEF room
    <3>2. Success(d # NULL /\ HasRoom(list)) = -1
      BY <1>3, <2>3 DEF Success
    <3>3. Corresponds' /\ Abstract!Goes(b, -1)
      <4> HIDE DEF b
      <4> QED BY <1>5, <1>9, <3>1, <3>2
    <3>4. Abstract!Unshift(d)
      BY <1>3, <2>3, <3>3 DEF Abstract!Unshift, Abstract!FirstPlace, Abstract!NULL, NULL
    <3> QED BY <1>3, <3>3, <3>4 DEF Abstract!Step
  <2> QED BY <2>1, <2>2, <2>3
<1>10. CASE d # NULL /\ Call(LL_PriorityEnqueue(list, d), 0)
  <2> DEFINE W == {j \in 1 .. n : s[j] # NULL /\ Compare(d, s[j]) >= 0}
             c == IF W = {} THEN 0 ELSE CHOOSE j \in W : \A k \in W : k <= j
  <2>1. PICK a \in 0 .. n :
          /\ W = {} => a = 0
          /\ W # {} => a \in W /\ \A j \in W : j <= a
          /\ room => Represents(LL_PriorityEnqueue(list, d), InsertAt(s, a + 1, d), a + 1)
          /\ ~ room => Represents(LL_PriorityEnqueue(list, d), s,
                                  IF a # 0 THEN a ELSE IF s = << >> THEN 0 ELSE 1)
    BY <1>1, <1>3, <1>10, Enqueues DEF room
  <2>2. W \subseteq 1 .. n
    OBVIOUS
  <2>3. W = {j \in DOMAIN items : items[j] # Abstract!NULL /\ Abstract!Compare(d, items[j]) >= 0}
    BY <1>2 DEF Abstract!Compare, Compare, Abstract!NULL, NULL
  <2> HIDE DEF W
  <2>4. c = a
    <3>1. CASE W = {}
      BY <2>1, <3>1
    <3>2. CASE W # {}
      <4> DEFINE w == CHOOSE j \in W : \A k \in W : k <= j
      <4>1. w \in W /\ \A k \in W : k <= w
        <5>1. \E j \in W : \A k \in W : k <= j
          BY <2>1, <3>2
        <5> QED BY <5>1
      <4>2. a <= w /\ w <= a /\ a \in Int /\ w \in Int
        <5>1. a \in W /\ \A j \in W : j <= a
          BY <2>1, <3>2
        <5> HIDE DEF w
        <5> QED BY <2>2, <4>1, <5>1
      <4>3. c = w
        BY <3>2
      <4> HIDE DEF w, c
      <4> QED BY <4>2, <4>3
    <3> QED BY <3>1, <3>2
  <2>5. CASE room
    <3>1. Corresponds' /\ Abstract!InsertsAt(a + 1, d)
      <4> DEFINE j == a + 1
      <4>1. Represents(LL_PriorityEnqueue(list, d), InsertAt(s, j, d), j)
        BY <2>1, <2>5
      <4> HIDE DEF j
      <4>2. Corresponds' /\ Abstract!InsertsAt(j, d)
        BY <1>4, <1>10, <4>1
      <4> QED BY <4>2 DEF j
    <3>2. Abstract!InsertsAt(c + 1, d)
      BY <2>4, <3>1
    <3>3. Abstract!PriorityEnqueue(d)
      BY <1>3, <2>3, <2>5, <3>2 DEF Abstract!PriorityEnqueue
    <3> QED BY <1>3, <1>10, <3>1, <3>3 DEF Abstract!Step
  <2>6. CASE ~ room
    <3> DEFINE j == IF a = 0 THEN b ELSE a
    <3>1. Represents(LL_PriorityEnqueue(list, d), s, j)
      BY <2>1, <2>6
    <3>2. Corresponds' /\ Abstract!Goes(j, 0)
      <4> HIDE DEF j
      <4> QED BY <1>5, <1>10, <3>1
    <3>3. j = IF c = 0 THEN Abstract!FirstPlace ELSE c
      <4> HIDE DEF c
      <4> QED BY <2>4 DEF Abstract!FirstPlace
    <3>4. Abstract!PriorityEnqueue(d)
      <4> HIDE DEF j
      <4> QED BY <1>3, <2>3, <2>6, <3>2, <3>3 DEF Abstract!PriorityEnqueue
    <3> QED BY <1>3, <1>10, <3>2, <3>4 DEF Abstract!Step
  <2> QED BY <2>5, <2>6
<1>11. CASE d # NULL /\ list.current \in Nodes /\ Call(LL_Put(list, d), 0)
  <2>1. i \in 1 .. n /\ Represents(LL_Put(list, d), [s EXCEPT ![i] = d], i)
    BY <1>1, <1>3, <1>11, PutsData
  <2>2. Corresponds' /\ items' = [s EXCEPT ![i] = d] /\ cursor' = i /\ result' = 0
    BY <1>11, <2>1, Calling
  <2>3. Abstract!OnItem /\ Abstract!Put(d)
    BY <1>2, <2>1, <2>2 DEF Abstract!OnItem, Abstract!Put
  <2> QED BY <1>3, <1>11, <2>2, <2>3 DEF Abstract!Step
<1> QED BY <1>6, <1>7, <1>8, <1>9, <1>10, <1>11 DEF Adds

(* LL_DeleteNode, LL_Pop, LL_Shift, LL_Remove. *)
LEMMA TakesCorrespond == Corresponds /\ Takes => Corresponds' /\ Abstract!Step
<1> SUFFICES ASSUME Corresponds, Takes PROVE Corresponds' /\ Abstract!Step
  OBVIOUS
<1> DEFINE s == items
           i == cursor
           n == Len(items)
<1>1. Represents(list, s, i)
  BY DEF Corresponds
<1>2. n \in Nat /\ DOMAIN s = 1 .. n /\ (s = << >> <=> n = 0)
  BY Now
<1>3. ASSUME NEW L, NEW j, Represents(L, RemoveAt(s, j), j), Call(L, s[j])
      PROVE  Corresponds' /\ Abstract!Deletes(j)
  BY <1>3, Calling DEF Abstract!Deletes, Abstract!RemoveAt, RemoveAt
<1>4. ASSUME NEW L, NEW j, NEW r, Represents(L, s, j), Call(L, r)
      PROVE  Corresponds' /\ Abstract!Goes(j, r)
  BY <1>4, Calling DEF Abstract!Goes
<1>5. CASE Call(LL_DeleteNode(list), Deleted(list))
  <2>1. CASE MayDelete(list)
    <3>1. /\ i \in 1 .. n
          /\ Represents(LL_DeleteNode(list), RemoveAt(s, i), i) /\ Deleted(list) = s[i]
      BY <1>1, <2>1, Deletes
    <3>2. Corresponds' /\ Abstract!Deletes(i)
      BY <1>3, <1>5, <3>1
    <3>3. Abstract!DeleteNode
      BY <1>2, <3>1, <3>2 DEF Abstract!DeleteNode, Abstract!OnItem
    <3> QED BY <3>2, <3>3 DEF Abstract!Step
  <2>2. CASE ~ MayDelete(list)
    <3>1. i \notin 1 .. n /\ LL_DeleteNode(list) = list /\ Deleted(list) = NULL
      BY <1>1, <2>2, Deletes
    <3>2. Corresponds' /\ Abstract!Goes(i, NULL)
      BY <1>1, <1>4, <1>5, <3>1
    <3>3. Abstract!DeleteNode
      BY <1>2, <3>1, <3>2 DEF Abstract!DeleteNode, Abstract!OnItem, Abstract!NULL, NULL
    <3> QED BY <3>2, <3>3 DEF Abstract!Step
  <2> QED BY <2>1, <2>2
<1>6. CASE Call(LL_Pop(list), Deleted(LL_End(list)))
  <2>1. CASE s = << >>
    <3>1. Represents(LL_Pop(list), s, 1) /\ Deleted(LL_End(list)) = NULL
      BY <1>1, <2>1, Pops
    <3>2. Corresponds' /\ Abstract!Goes(1, NULL)
      BY <1>4, <1>6, <3>1
    <3>3. Abstract!Pop
      BY <2>1, <3>2 DEF Abstract!Pop, Abstract!LastPlace, Abstract!NULL, NULL
    <3> QED BY <3>2, <3>3 DEF Abstract!Step
  <2>2. CASE s # << >>
    <3>1. Represents(LL_Pop(list), RemoveAt(s, n), n) /\ Deleted(LL_End(list)) = s[n]
      BY <1>1, <2>2, Pops
    <3>2. Corresponds' /\ Abstract!Deletes(n)
      BY <1>3, <1>6, <3>1
    <3>3. Abstract!Pop
      BY <2>2, <3>2 DEF Abstract!Pop
    <3> QED BY <3>2, <3>3 DEF Abstract!Step
  <2> QED BY <2>1, <2>2
<1>7. CASE Call(LL_Shift(list), Deleted(LL_Rewind(list)))
  <2>1. CASE s = << >>
    <3>1. Represents(LL_Shift(list), s, 0) /\ Deleted(LL_Rewind(list)) = NULL
      BY <1>1, <2>1, Pops
    <3>2. Corresponds' /\ Abstract!Goes(0, NULL)
      BY <1>4, <1>7, <3>1
    <3>3. Abstract!Shift
      BY <2>1, <3>2 DEF Abstract!Shift, Abstract!FirstPlace, Abstract!NULL, NULL
    <3> QED BY <3>2, <3>3 DEF Abstract!Step
  <2>2. CASE s # << >>
    <3>1. Represents(LL_Shift(list), RemoveAt(s, 1), 1) /\ Deleted(LL_Rewind(list)) = s[1]
      BY <1>1, <2>2, Pops
    <3>2. Corresponds' /\ Abstract!Deletes(1)
      BY <1>3, <1>7, <3>1
    <3>3. Abstract!Shift
      BY <2>2, <3>2 DEF Abstract!Shift
    <3> QED BY <3>2, <3>3 DEF Abstract!Step
  <2> QED BY <2>1, <2>2
<1>8. CASE \E d \in Data : Call(LL_Remove(list, d), Removed(list, d))
  <2>1. PICK d \in Data : Call(LL_Remove(list, d), Removed(list, d))
    BY <1>8
  <2> DEFINE W == {j \in 1 .. n : s[j] = d}
  <2>2. W = {j \in DOMAIN items : items[j] = d} /\ W = {j \in 1 .. Len(s) : s[j] = d}
    BY <1>2
  <2> HIDE DEF W
  <2>3. /\ W = {} => Represents(LL_Remove(list, d), s, n) /\ Removed(list, d) = NULL
        /\ W # {} => \E a \in W :
             /\ \A j \in W : a <= j
             /\ Represents(LL_Remove(list, d), RemoveAt(s, a), a)
             /\ Removed(list, d) = s[a]
    BY <1>1, <2>2, Removes
  <2>4. CASE W = {}
    <3>1. Corresponds' /\ Abstract!Goes(n, NULL)
      BY <1>4, <2>1, <2>3, <2>4
    <3>2. Abstract!RemoveItem(d)
      BY <2>2, <2>4, <3>1 DEF Abstract!RemoveItem, Abstract!NULL, NULL
    <3> QED BY <3>1, <3>2 DEF Abstract!Step
  <2>5. CASE W # {}
    <3>1. PICK a \in W :
            /\ \A j \in W : a <= j
            /\ Represents(LL_Remove(list, d), RemoveAt(s, a), a)
            /\ Removed(list, d) = s[a]
      BY <2>3, <2>5
    <3>2. Corresponds' /\ Abstract!Deletes(a)
      BY <1>3, <2>1, <3>1
    <3>3. Abstract!RemoveItem(d)
      BY <2>2, <2>5, <3>1, <3>2 DEF Abstract!RemoveItem
    <3> QED BY <3>2, <3>3 DEF Abstract!Step
  <2> QED BY <2>4, <2>5
<1> QED BY <1>5, <1>6, <1>7, <1>8 DEF Takes

(* LL_Destroy and LL_new. *)
LEMMA RenewCorresponds == Corresponds /\ Renew => Corresponds' /\ Abstract!Step
<1> SUFFICES ASSUME Corresponds, Renew PROVE Corresponds' /\ Abstract!Step
  OBVIOUS
<1>1. Good(list)
  BY Representation DEF Corresponds
<1>2. [LL_new EXCEPT !.used = LL_Destroy(list).used] = LL_new
  BY <1>1, Renews
<1>3. Call(LL_new, 0)
  BY <1>2 DEF Renew
<1>4. Corresponds' /\ items' = << >> /\ cursor' = 0 /\ result' = 0
  BY <1>3, NewIsEmpty, Calling
<1> QED BY <1>4 DEF Abstract!Renew, Abstract!Step

(* LL_Roll, LL_UnRoll, LL_Sort, LL_SwapNodes. *)
LEMMA OrdersCorrespond == Corresponds /\ Orders => Corresponds' /\ Abstract!Step
<1> SUFFICES ASSUME Corresponds, Orders PROVE Corresponds' /\ Abstract!Step
  OBVIOUS
<1> DEFINE s == items
           i == cursor
           n == Len(items)
<1>1. Represents(list, s, i)
  BY DEF Corresponds
<1>2. n \in Nat /\ DOMAIN s = 1 .. n /\ s \in Seq(Values)
  BY Now
<1>3. CASE Call(LL_Roll(list), 0)
  <2>1. Corresponds' /\ items' = Rolled(s) /\ cursor' = (IF n < 2 THEN n ELSE 2) /\ result' = 0
    BY <1>1, <1>3, Rolls, Calling
  <2>2. Abstract!Roll
    BY <2>1 DEF Abstract!Roll, Rolled
  <2> QED BY <2>1, <2>2 DEF Abstract!Step
<1>4. CASE Call(LL_UnRoll(list), 0)
  <2>1. Corresponds' /\ items' = UnRolled(s) /\ cursor' = (IF n < 2 THEN 1 ELSE n - 1)
        /\ result' = 0
    BY <1>1, <1>4, UnRolls, Calling
  <2>2. Abstract!UnRoll
    BY <2>1 DEF Abstract!UnRoll, UnRolled
  <2> QED BY <2>1, <2>2 DEF Abstract!Step
<1>5. CASE Call(LL_Sort(list), 0)
  <2>1. PICK t \in Seq(Values) :
          /\ Len(t) = n /\ Permutes(s, t)
          /\ \A k \in 1 .. n - 1 : Compare(t[k], t[k + 1]) <= 0
          /\ Represents(LL_Sort(list), t, 1)
    BY <1>1, Sorts
  <2>2. Corresponds' /\ items' = t /\ cursor' = 1 /\ result' = 0
    BY <1>5, <2>1, Calling
  <2>3. PICK p \in [DOMAIN s -> DOMAIN s] :
          /\ \A k \in DOMAIN s : \E j \in DOMAIN s : p[j] = k
          /\ t = [k \in DOMAIN s |-> s[p[k]]]
    BY <2>1 DEF Permutes
  <2>4. Abstract!ToSet(p) = DOMAIN s
    BY <2>3 DEF Abstract!ToSet
  <2>5. \A k \in 1 .. n - 1 : Abstract!Compare(t[k], t[k + 1]) <= 0
    BY <2>1 DEF Abstract!Compare, Compare
  <2>6. Abstract!Sort
    BY <2>2, <2>3, <2>4, <2>5 DEF Abstract!Sort
  <2> QED BY <2>2, <2>6 DEF Abstract!Step
<1>6. CASE \E one, two \in list.used : Call(LL_SwapNodes(list, one, two), 0)
  <2>1. PICK one \in list.used, two \in list.used : Call(LL_SwapNodes(list, one, two), 0)
    BY <1>6
  <2>2. PICK a \in 1 .. n : Represents(At(list, one), s, a)
    BY <1>1, MovedToNode
  <2>3. PICK b \in 1 .. n : Represents(At(list, two), s, b)
    BY <1>1, MovedToNode
  <2> DEFINE j == IF i = a THEN b ELSE IF i = b THEN a ELSE i
  <2>4. Represents(LL_SwapNodes(list, one, two), [s EXCEPT ![a] = s[b], ![b] = s[a]], j)
    BY <1>1, <2>2, <2>3, Swaps
  <2>5. Corresponds' /\ items' = [s EXCEPT ![a] = s[b], ![b] = s[a]] /\ cursor' = j /\ result' = 0
    <3> HIDE DEF j
    <3> QED BY <2>1, <2>4, Calling
  <2>6. j = CASE i = a -> b [] i = b -> a [] OTHER -> i
    OBVIOUS
  <2>7. Abstract!SwapNodes(a, b)
    <3> HIDE DEF j
    <3> QED BY <2>5, <2>6 DEF Abstract!SwapNodes, Abstract!Swapped
  <2> QED BY <1>2, <2>5, <2>7 DEF Abstract!Step
<1> QED BY <1>3, <1>4, <1>5, <1>6 DEF Orders

(* All of them. *)
LEMMA StepCorresponds ==
  Corresponds /\ [Next]_vars => Corresponds' /\ [Abstract!Step]_(Abstract!list)
<1> SUFFICES ASSUME Corresponds, [Next]_vars
             PROVE  Corresponds' /\ [Abstract!Step]_(Abstract!list)
  OBVIOUS
<1>1. CASE Moves
  BY <1>1, MovesCorrespond
<1>2. CASE Looks
  BY <1>2, LooksCorrespond
<1>3. CASE \E d \in Data \cup {NULL} : Adds(d)
  BY <1>3, AddsCorrespond
<1>4. CASE Takes
  BY <1>4, TakesCorrespond
<1>5. CASE Renew
  BY <1>5, RenewCorresponds
<1>6. CASE Orders
  BY <1>6, OrdersCorrespond
<1>7. CASE UNCHANGED vars
  BY <1>7 DEF vars, Corresponds, Abstract!list
<1> QED BY <1>1, <1>2, <1>3, <1>4, <1>5, <1>6, <1>7 DEF Next

LEMMA InitCorresponds == Init => Corresponds /\ Abstract!Init
  BY NewIsEmpty DEF Init, Corresponds, Abstract!Init

LEMMA WholeChain == Corresponds => WellFormed
  BY Representation, GoodIsWellFormed DEF Corresponds

(* Whatever the order of calls and however much memory there is, the nodes   *)
(* hold the items in the order of the chain, and current is at the cursor.   *)
THEOREM Correspondence == Spec => []Corresponds
<1>1. Init => Corresponds
  BY InitCorresponds
<1>2. Corresponds /\ [Next]_vars => Corresponds'
  BY StepCorresponds
<1> QED BY <1>1, <1>2, PTL DEF Spec

(* No function of LL.c loses a node or links one twice: the chain from head  *)
(* to tail holds every node that is allocated, and prev is next backwards.   *)
THEOREM ChainIsWhole == Spec => []WellFormed
  BY Correspondence, WholeChain, PTL

(* Each function does and returns what module List says of a sequence with a *)
(* cursor: LL_Sort sorts and keeps every item, LL_PriorityEnqueue finds the  *)
(* right place, a call that fails for want of memory changes no item.        *)
THEOREM ListImplemented == Spec => ImplementsList
<1>1. Init => Abstract!Init
  BY InitCorresponds
<1>2. Corresponds /\ [Next]_vars => [Abstract!Step]_(Abstract!list)
  BY StepCorresponds
<1> QED BY <1>1, <1>2, Correspondence, PTL DEF Spec, ImplementsList, Abstract!Spec
=============================================================================
