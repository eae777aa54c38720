--------------------------------- MODULE List ---------------------------------
(***************************************************************************)
(* What the list library (src/shared/LL.c, LL.h) promises its callers: a    *)
(* sequence of data pointers with a cursor.  LinkedList implements it.      *)
(*                                                                         *)
(* The cursor is on an item (1 .. Len(items)), before the first (0), behind *)
(* the last (Len(items) + 1), or nowhere: a step forward from behind the    *)
(* last or backward from before the first reports success and leaves it     *)
(* nowhere, and until it is set again nothing can be done at it.            *)
(***************************************************************************)
EXTENDS Integers, Sequences, SequencesExt

CONSTANTS
  Data,       \* data pointers, from 2; NULL is 0
  Capacity    \* BOUND: items that memory holds

NULL == 0
Nowhere == -1

VARIABLES
  items,
  cursor,
  result      \* of the last call: 0 or -1, a data pointer, or a number

list == <<items, cursor, result>>

(* The callers' compare: the pointers 2k and 2k + 1 are equal, NULL is least. *)
Compare(a, b) == (a \div 2) - (b \div 2)

FirstPlace == IF items = <<>> THEN 0 ELSE 1
LastPlace == IF items = <<>> THEN 1 ELSE Len(items)
OnItem == cursor \in DOMAIN items
Item(i) == IF i \in DOMAIN items THEN items[i] ELSE NULL
HasRoom == Len(items) < Capacity

Init ==
  /\ items = <<>>
  /\ cursor = 0
  /\ result = 0

-----------------------------------------------------------------------------
(* Moving. *)
Goes(position, r) == cursor' = position /\ result' = r /\ UNCHANGED items

Rewind == Goes(FirstPlace, 0)
End == Goes(LastPlace, 0)

Forward(i) == IF i = Len(items) + 1 THEN Nowhere ELSE i + 1
Backward(i) == IF i = 0 THEN Nowhere ELSE i - 1
MayForward(i) == i # Nowhere /\ i # Len(items)
MayBackward(i) == i # Nowhere /\ i # 1

Next ==
  \/ MayForward(cursor) /\ Goes(Forward(cursor), 0)
  \/ ~ MayForward(cursor) /\ Goes(cursor, -1)

Previous ==
  \/ MayBackward(cursor) /\ Goes(Backward(cursor), 0)
  \/ ~ MayBackward(cursor) /\ Goes(cursor, -1)

PutNode(i) == Goes(i, 0)

(* Looking. *)
Get == Goes(cursor, Item(cursor))
GetFirst == Goes(FirstPlace, Item(1))
GetLast == Goes(LastPlace, Item(Len(items)))

GetNext ==
  \/ MayForward(cursor) /\ Goes(Forward(cursor), Item(Forward(cursor)))
  \/ ~ MayForward(cursor) /\ Goes(cursor, NULL)

GetPrev ==
  \/ MayBackward(cursor) /\ Goes(Backward(cursor), Item(Backward(cursor)))
  \/ ~ MayBackward(cursor) /\ Goes(cursor, NULL)

Length == Goes(cursor, Len(items))
GetByIndex(i) == Goes(cursor, Item(i + 1))

(* The first match from the cursor on; or the cursor runs to the end. *)
Find(d) ==
  LET Match(i) == i >= cursor /\ Compare(items[i], d) = 0
      matches == {i \in DOMAIN items : Match(i)}
  IN IF cursor # Nowhere /\ matches # {}
     THEN \E i \in matches :
            /\ \A j \in matches : i <= j
            /\ Goes(i, items[i])
     ELSE Goes(IF cursor \in 0 .. Len(items) THEN Len(items) ELSE Nowhere, NULL)

-----------------------------------------------------------------------------
(* Changing. *)
Put(d) ==
  /\ items' = [items EXCEPT ![cursor] = d]
  /\ result' = 0
  /\ UNCHANGED cursor

InsertsAt(i, d) ==
  /\ items' = InsertAt(items, i, d)
  /\ cursor' = i
  /\ result' = 0

(* Behind the cursor; at the end if that is behind the last. *)
AddNode(d) ==
  IF cursor # Nowhere /\ HasRoom
  THEN InsertsAt(IF cursor > Len(items) THEN cursor ELSE cursor + 1, d)
  ELSE Goes(cursor, -1)

(* Before the cursor; at the beginning if that is before the first. *)
InsertNode(d) ==
  IF d # NULL /\ cursor # Nowhere /\ HasRoom
  THEN InsertsAt(IF cursor = 0 THEN 1 ELSE cursor, d)
  ELSE Goes(cursor, -1)

(* The cursor goes on to the item that follows. *)
Deletes(i) ==
  /\ items' = RemoveAt(items, i)
  /\ cursor' = i
  /\ result' = items[i]

DeleteNode == IF OnItem THEN Deletes(cursor) ELSE Goes(cursor, NULL)

RemoveItem(d) ==
  LET matches == {i \in DOMAIN items : items[i] = d} IN
  IF matches # {}
  THEN \E i \in matches : (\A j \in matches : i <= j) /\ Deletes(i)
  ELSE Goes(Len(items), NULL)

Pop == IF items = <<>> THEN Goes(LastPlace, NULL) ELSE Deletes(Len(items))
Shift == IF items = <<>> THEN Goes(FirstPlace, NULL) ELSE Deletes(1)

(* Without room the cursor has moved all the same. *)
Push(d) ==
  IF d = NULL THEN Goes(cursor, -1)
  ELSE IF HasRoom THEN InsertsAt(Len(items) + 1, d) ELSE Goes(LastPlace, -1)

Unshift(d) ==
  IF d = NULL THEN Goes(cursor, -1)
  ELSE IF HasRoom THEN InsertsAt(1, d) ELSE Goes(FirstPlace, -1)

Renew == items' = <<>> /\ cursor' = 0 /\ result' = 0

(* The last becomes the first, or the first the last. *)
Roll ==
  /\ items' = IF items = <<>> THEN items
              ELSE <<items[Len(items)]>> \o SubSeq(items, 1, Len(items) - 1)
  /\ cursor' = IF Len(items) < 2 THEN Len(items) ELSE 2
  /\ result' = 0

UnRoll ==
  /\ items' = IF items = <<>> THEN items ELSE Append(Tail(items), items[1])
  /\ cursor' = IF Len(items) < 2 THEN 1 ELSE Len(items) - 1
  /\ result' = 0

(* Behind the last item that is not greater.  Success is reported even when  *)
(* there is no room.                                                         *)
PriorityEnqueue(d) ==
  LET before == {i \in DOMAIN items :
                   items[i] # NULL /\ Compare(d, items[i]) >= 0}
      place == IF before = {} THEN 0 ELSE CHOOSE i \in before :
                                            \A j \in before : j <= i
  IN IF HasRoom THEN InsertsAt(place + 1, d)
     ELSE Goes(IF place = 0 THEN FirstPlace ELSE place, 0)

Swapped(i, j) == [items EXCEPT ![i] = items[j], ![j] = items[i]]

SwapNodes(i, j) ==
  /\ items' = Swapped(i, j)
  /\ cursor' = CASE cursor = i -> j [] cursor = j -> i [] OTHER -> cursor
  /\ result' = 0

(* In order, with the cursor on the first item. *)
Sort ==
  /\ cursor' = 1
  /\ result' = 0
  /\ \E p \in [DOMAIN items -> DOMAIN items] :
       /\ ToSet(p) = DOMAIN items
       /\ items' = [i \in DOMAIN items |-> items[p[i]]]
  /\ \A i \in 1 .. Len(items) - 1 : Compare(items'[i], items'[i + 1]) <= 0

-----------------------------------------------------------------------------
Indices == 0 .. Capacity

Step ==
  \/ Rewind \/ End \/ Next \/ Previous
  \/ \E i \in DOMAIN items : PutNode(i)
  \/ Get \/ GetFirst \/ GetLast \/ GetNext \/ GetPrev \/ Length
  \/ \E i \in Indices : GetByIndex(i)
  \/ \E d \in Data : Find(d) \/ (OnItem /\ Put(d))
  \/ \E d \in Data \cup {NULL} :
       AddNode(d) \/ InsertNode(d) \/ Push(d) \/ Unshift(d)
  \/ DeleteNode \/ Pop \/ Shift
  \/ \E d \in Data : RemoveItem(d) \/ PriorityEnqueue(d)
  \/ Renew \/ Roll \/ UnRoll \/ Sort
  \/ \E i, j \in DOMAIN items : SwapNodes(i, j)

Spec == Init /\ [][Step]_list
=============================================================================
