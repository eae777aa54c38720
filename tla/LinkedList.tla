------------------------------ MODULE LinkedList ------------------------------
(***************************************************************************)
(* The doubly linked list of src/shared/LL.c: nodes on the heap between the *)
(* two that are part of struct LinkedList, and a current pointer.  One      *)
(* operator per function, from a list to a list; one that returns a value   *)
(* has a second operator for it.  Module List is what it should amount to.  *)
(*                                                                         *)
(* Callers: LL_Put is called with current on an item, LL_PutNode and        *)
(* LL_SwapNodes with items of the list.  A node's data is not freed by      *)
(* anything modelled here.                                                  *)
(***************************************************************************)
EXTENDS Integers, Sequences, FiniteSets, FiniteSetsExt

CONSTANTS
  Nodes,      \* the memory: names of the nodes malloc can return
  Data        \* data pointers; NULL is 0

ASSUME NodesAssumption ==
  /\ IsFiniteSet(Nodes)
  /\ Nodes \cap {"head", "tail", "NULL"} = {}
  /\ Data \subseteq Nat \ {0, 1}

NULL == 0
None == "NULL"                         \* a NULL node pointer
Cells == Nodes \cup {"head", "tail"}
Size == Cardinality(Nodes)

VARIABLES
  list,       \* [next, prev, data: by cell; current; used: allocated nodes]
  result,     \* of the last call
  items,      \* history: the data from head to tail
  cursor      \* history: the place of current in the chain

vars == <<list, result, items, cursor>>

LL_new ==
  [next |-> [c \in Cells |-> IF c = "head" THEN "tail" ELSE None],
   prev |-> [c \in Cells |-> IF c = "tail" THEN "head" ELSE None],
   data |-> [c \in Cells |-> NULL],
   current |-> "head",
   used |-> {}]

(* The callers' compare: the pointers 2k and 2k + 1 are equal, NULL is least. *)
Compare(a, b) == (a \div 2) - (b \div 2)

(* p->next = v and p->prev = v under "if (p)". *)
SetNext(L, p, v) == IF p = None THEN L ELSE [L EXCEPT !.next[p] = v]
SetPrev(L, p, v) == IF p = None THEN L ELSE [L EXCEPT !.prev[p] = v]
At(L, p) == [L EXCEPT !.current = p]

-----------------------------------------------------------------------------
(* Moving and looking. *)
LL_Rewind(L) ==
  At(L, IF L.next["head"] # "tail" THEN L.next["head"] ELSE "head")
LL_End(L) ==
  At(L, IF L.prev["tail"] # "head" THEN L.prev["tail"] ELSE "tail")

MayNext(L) == L.current # None /\ L.next[L.current] # "tail"
LL_Next(L) == IF MayNext(L) THEN At(L, L.next[L.current]) ELSE L

MayPrev(L) == L.current # None /\ L.prev[L.current] # "head"
LL_Prev(L) == IF MayPrev(L) THEN At(L, L.prev[L.current]) ELSE L

LL_Get(L) == IF L.current = None THEN NULL ELSE L.data[L.current]
LL_Put(L, d) == [L EXCEPT !.data[L.current] = d]

(* The list after k calls of LL_Next, or LL_Prev. *)
Calls == 0 .. Size + 2
After(L) ==
  LET after[k \in Calls] == IF k = 0 THEN L ELSE LL_Next(after[k - 1])
  IN after
Before(L) ==
  LET before[k \in Calls] == IF k = 0 THEN L ELSE LL_Prev(before[k - 1])
  IN before

(* The cells from head to tail; LL_Length and LL_GetByIndex walk over them.  *)
Walk(L) ==
  LET cell[k \in 0 .. Size + 1] ==
        IF k = 0 THEN "head"
        ELSE IF cell[k - 1] \in {"tail", None} THEN None
        ELSE L.next[cell[k - 1]]
  IN cell

LL_Length(L) ==
  LET walk == Walk(L) IN (CHOOSE k \in 1 .. Size + 1 : walk[k] = "tail") - 1

LL_GetByIndex(L, index) ==
  LET cell == Walk(L)[index + 1]
  IN  IF cell \in Nodes THEN L.data[cell] ELSE NULL

-----------------------------------------------------------------------------
(* Nodes put in and taken out. *)
HasRoom(L) == L.used # Nodes
NewNode(L) == CHOOSE n \in Nodes : n \notin L.used

(* A node of data d between p and q becomes current. *)
Link(L, p, q, d) ==
  LET n == NewNode(L)
      M == [L EXCEPT !.used = @ \cup {n},
                     !.data[n] = d, !.next[n] = q, !.prev[n] = p]
  IN At(SetNext(SetPrev(M, q, n), p, n), n)

MayAdd(L) == L.current # None /\ HasRoom(L)

LL_AddNode(L, d) ==
  IF ~ MayAdd(L) THEN L
  ELSE LET p == IF L.current = "tail" THEN L.prev["tail"] ELSE L.current
       IN Link(L, p, L.next[p], d)

MayInsert(L, d) == d # NULL /\ MayAdd(L)

LL_InsertNode(L, d) ==
  IF ~ MayInsert(L, d) THEN L
  ELSE LET q == IF L.current = "head" THEN L.next["head"] ELSE L.current
       IN Link(L, L.prev[q], q, d)

LL_node_Unlink(L, n) ==
  LET M == SetNext(SetPrev(L, L.next[n], L.prev[n]), L.prev[n], L.next[n])
  IN [M EXCEPT !.next[n] = None, !.prev[n] = None]

Free(L, n) == [L EXCEPT !.used = @ \ {n}, !.data[n] = NULL]

MayDelete(L) == L.current \in Nodes
LL_DeleteNode(L) ==
  IF MayDelete(L)
  THEN At(Free(LL_node_Unlink(L, L.current), L.current), L.next[L.current])
  ELSE L
Deleted(L) == IF MayDelete(L) THEN L.data[L.current] ELSE NULL

(* LL_Remove rewinds and looks for the pointer itself, LL_Find goes on from  *)
(* current and asks compare.  Where either loop stops: *)
Found(L, d) ==
  LET after == After(LL_Rewind(L))
  IN after[Min({k \in Calls : LL_Get(after[k]) = d \/ ~ MayNext(after[k])})]
LL_Remove(L, d) ==
  IF LL_Get(Found(L, d)) = d THEN LL_DeleteNode(Found(L, d)) ELSE Found(L, d)
Removed(L, d) == IF LL_Get(Found(L, d)) = d THEN Deleted(Found(L, d)) ELSE NULL

LL_Find(L, d) ==
  LET after == After(L)
      Stops(k) == Compare(LL_Get(after[k]), d) = 0 \/ ~ MayNext(after[k])
  IN after[Min({k \in Calls : Stops(k)})]
FoundData(L, d) ==
  IF Compare(LL_Get(LL_Find(L, d)), d) = 0 THEN LL_Get(LL_Find(L, d)) ELSE NULL

(* LL_Destroy unlinks and frees node after node, by the pointer to the next  *)
(* that it has saved.  The list when k nodes are gone: *)
Without(L) ==
  LET walk == Walk(L)
      left[k \in 0 .. LL_Length(L)] ==
        IF k = 0 THEN L
        ELSE Free(LL_node_Unlink(left[k - 1], walk[k]), walk[k])
  IN left

LL_Destroy(L) == Without(L)[LL_Length(L)]

-----------------------------------------------------------------------------
(* Stack and queue. *)
LL_Push(L, d) == IF d = NULL THEN L ELSE LL_AddNode(LL_End(L), d)
LL_Unshift(L, d) == IF d = NULL THEN L ELSE LL_InsertNode(LL_Rewind(L), d)
LL_Pop(L) == LL_DeleteNode(LL_End(L))
LL_Shift(L) == LL_DeleteNode(LL_Rewind(L))

LL_Roll_NoLink(L) ==  \* mutant: the old first node keeps pointing back to head
  LET E == LL_End(L)
      node == E.current
      M == LL_Rewind(LL_node_Unlink(E, node))
      next == M.next["head"]
  IN IF E.current = "tail" THEN At(E, "head")
     ELSE IF E.prev[node] = "head" THEN E
     ELSE [M EXCEPT !.next["head"] = node,
                    !.prev[node] = "head", !.next[node] = next]

LL_Roll(L) ==
  LET E == LL_End(L)
      node == E.current
      M == LL_Rewind(LL_node_Unlink(E, node))
      next == M.next["head"]
  IN IF E.current = "tail" THEN At(E, "head")
     ELSE IF E.prev[node] = "head" THEN E
     ELSE [M EXCEPT !.next["head"] = node, !.prev[next] = node,
                    !.prev[node] = "head", !.next[node] = next]

LL_UnRoll(L) ==
  LET E == LL_Rewind(L)
      node == E.current
      M == LL_End(LL_node_Unlink(E, node))
      prev == M.prev["tail"]
  IN IF E.current = "head" THEN At(E, "tail")
     ELSE IF E.next[node] = "tail" THEN E
     ELSE [M EXCEPT !.prev["tail"] = node, !.next[prev] = node,
                    !.next[node] = "tail", !.prev[node] = prev]

(* From the end backwards to the first node that is not greater; with none   *)
(* to the beginning. *)
LL_PriorityEnqueue(L, d) ==
  LET back == Before(LL_End(L))
      Fits(k) == LL_Get(back[k]) # NULL /\ Compare(d, LL_Get(back[k])) >= 0
      stop == Min({k \in Calls : Fits(k) \/ ~ MayPrev(back[k])})
  IN IF Fits(stop) THEN LL_AddNode(back[stop], d) ELSE LL_Unshift(back[stop], d)

-----------------------------------------------------------------------------
(* Order. *)
(* The pointers of the nodes before and behind the two. *)
Around(L, one, two) ==
  LET M == SetPrev(SetNext(L, L.prev[one], two), L.next[one], two)
  IN  SetPrev(SetNext(M, L.prev[two], one), L.next[two], one)

(* Then their own, put right if the two are next to each other. *)
LL_SwapNodes(L, one, two) ==
  LET M == Around(L, one, two)
  IN IF one = two THEN L
     ELSE [M EXCEPT
       !.next[one] = IF L.prev[one] = two THEN two ELSE L.next[two],
       !.prev[one] = IF L.next[one] = two THEN two ELSE L.prev[two],
       !.next[two] = IF L.prev[two] = one THEN one ELSE L.next[one],
       !.prev[two] = IF L.next[two] = one THEN one ELSE L.prev[one]]

(* The greatest of last and the first k nodes, when LL_Sort has looked at    *)
(* them one after the other.                                                 *)
Best(L, last) ==
  LET after == After(LL_Rewind(L))
      best[k \in Calls] ==
        IF k = 0 THEN last
        ELSE IF Compare(L.data[after[k - 1].current], L.data[best[k - 1]]) > 0
        THEN after[k - 1].current ELSE best[k - 1]
  IN best

(* One pass: the greatest of the first i nodes and last goes to the place of *)
(* last; last becomes its predecessor.                                       *)
SortPass_StopsShort(s, i) ==  \* mutant: the pass leaves out its last node
  LET best == Best(s.list, s.last)[i - 1]
      M == LL_SwapNodes(After(LL_Rewind(s.list))[i], s.last, best)
  IN [list |-> M, last |-> M.prev[best]]

SortPass(s, i) ==
  LET best == Best(s.list, s.last)[i]
      M == LL_SwapNodes(After(LL_Rewind(s.list))[i], s.last, best)
  IN [list |-> M, last |-> M.prev[best]]

Passes(L) ==
  LET n == LL_Length(L)
      sorted[k \in 0 .. n - 1] ==
        IF k = 0 THEN [list |-> LL_End(L), last |-> LL_End(L).current]
        ELSE SortPass(sorted[k - 1], n - k)
  IN sorted

LL_Sort(L) ==
  IF LL_Length(L) < 2 THEN LL_End(L)
  ELSE LL_Rewind(Passes(L)[LL_Length(L) - 1].list)

-----------------------------------------------------------------------------
(* What module List sees of a list. *)
ItemsOf(L) ==
  LET walk == Walk(L) IN [i \in 1 .. LL_Length(L) |-> L.data[walk[i]]]
PlaceOf(L) ==
  LET walk == Walk(L)
  IN  IF L.current = None THEN -1
      ELSE CHOOSE k \in 0 .. Size + 1 : walk[k] = L.current

Call(L, r) ==
  /\ list' = L
  /\ result' = r
  /\ items' = ItemsOf(L)
  /\ cursor' = PlaceOf(L)

Success(ok) == IF ok THEN 0 ELSE -1

Init ==
  /\ list = LL_new
  /\ result = 0
  /\ items = <<>>
  /\ cursor = 0

Moves ==
  \/ Call(LL_Rewind(list), 0) \/ Call(LL_End(list), 0)
  \/ Call(LL_Next(list), Success(MayNext(list)))
  \/ Call(LL_Prev(list), Success(MayPrev(list)))
  \/ \E n \in list.used : Call(At(list, n), 0)

(* LL_Top and LL_Look are LL_GetLast and LL_GetFirst. *)
Looks ==
  \/ Call(list, LL_Get(list))
  \/ Call(LL_Rewind(list), LL_Get(LL_Rewind(list)))
  \/ Call(LL_End(list), LL_Get(LL_End(list)))
  \/ Call(LL_Next(list), IF MayNext(list) THEN LL_Get(LL_Next(list)) ELSE NULL)
  \/ Call(LL_Prev(list), IF MayPrev(list) THEN LL_Get(LL_Prev(list)) ELSE NULL)
  \/ Call(list, LL_Length(list))
  \/ \E index \in 0 .. Size : Call(list, LL_GetByIndex(list, index))
  \/ \E d \in Data : Call(LL_Find(list, d), FoundData(list, d))

Adds(d) ==
  \/ Call(LL_AddNode(list, d), Success(MayAdd(list)))
  \/ Call(LL_InsertNode(list, d), Success(MayInsert(list, d)))
  \/ Call(LL_Push(list, d), Success(d # NULL /\ HasRoom(list)))
  \/ Call(LL_Unshift(list, d), Success(d # NULL /\ HasRoom(list)))
  \/ d # NULL /\ Call(LL_PriorityEnqueue(list, d), 0)
  \/ d # NULL /\ list.current \in Nodes /\ Call(LL_Put(list, d), 0)

Takes ==
  \/ Call(LL_DeleteNode(list), Deleted(list))
  \/ Call(LL_Pop(list), Deleted(LL_End(list)))
  \/ Call(LL_Shift(list), Deleted(LL_Rewind(list)))
  \/ \E d \in Data : Call(LL_Remove(list, d), Removed(list, d))

(* The list is destroyed and another one made in the same memory. *)
Renew == Call([LL_new EXCEPT !.used = LL_Destroy(list).used], 0)

Orders ==
  \/ Call(LL_Roll(list), 0) \/ Call(LL_UnRoll(list), 0)
  \/ Call(LL_Sort(list), 0)
  \/ \E one, two \in list.used : Call(LL_SwapNodes(list, one, two), 0)

Next ==
  \/ Moves \/ Looks
  \/ \E d \in Data \cup {NULL} : Adds(d)
  \/ Takes \/ Renew \/ Orders

Spec == Init /\ [][Next]_vars

-----------------------------------------------------------------------------
(* Properties.                                                               *)

(* The chain from head to tail holds every allocated node, once, and prev    *)
(* is next backwards: no node is lost or linked twice, whatever the order of *)
(* calls.  current is a cell of the chain or NULL.                           *)
WellFormed ==
  LET walk == Walk(list)
      chain == {walk[k] : k \in 0 .. Size + 1} \ {None} IN
  /\ chain = list.used \cup {"head", "tail"}
  /\ \A c \in chain \ {"tail"} : list.prev[list.next[c]] = c
  /\ list.prev["head"] = None /\ list.next["tail"] = None
  /\ list.current \in chain \cup {None}

(* The nodes are the sequence and the cursor of module List, and each        *)
(* function does and returns what is said of it there.                       *)
Abstract == INSTANCE List WITH
  items <- items, cursor <- cursor, result <- result, Capacity <- Size

ImplementsList == Abstract!Spec
=============================================================================
