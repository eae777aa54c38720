----------------------------- MODULE BrowserProofs -----------------------------
(***************************************************************************)
(* What holds of Browser for every number of sources, items and checks: the *)
(* types, that freed items are used only when a check and a callback        *)
(* overlap, and that a check or a callback that has the client to itself    *)
(* leaves the right item on the screen and moves to the right one.          *)
(*                                                                         *)
(* The properties are not inductive: a callback that has the client to      *)
(* itself starts from what an overlap has left behind.  What no overlap can *)
(* spoil is that the nodes are gone only until the list is NULL, that every *)
(* item of the list is allocated outside free_emails (free_news), and that  *)
(* the index is in the list once the check has brought it back there.       *)
(***************************************************************************)
EXTENDS Browser, TLAPS

Texts == Items \cup {Blank, Receiving}
Writes == Seq(Widgets \X Texts)
ClientPlaces == {"sleep", "free", "null", "source", "fetch", "total", "clamp",
                 "pick", "draw"}
ServicePlaces == {"idle", "move", "total", "clamp", "pick", "draw"}

(* The types of all variables, what is known of them at some places of the   *)
(* threads, and the range of the index where no move has to be clamped.      *)
TypeInv ==
  /\ client \in {"mail", "rss"}
  /\ list \in Seq(Items) /\ Len(list) <= MaxItems
  /\ current_screen \in -2..MaxItems
  /\ alive \subseteq ToSet(list)
  /\ at \in [Threads -> ClientPlaces \cup ServicePlaces]
  /\ at["client"] \in ClientPlaces
  /\ at["service"] \in ServicePlaces
  /\ tot \in [Threads -> 0..MaxItems]
  /\ writes \in [Threads -> Writes]
  /\ event \in [step : {-1, 0, 1}, from : -1..(MaxItems - 1)]
  /\ source \in 1..(Sources + 1)
  /\ checks \in 0..MaxChecks
  /\ screen \in [Widgets -> Texts]
  /\ at["client"] = "null" => alive = {}
  /\ at["client"] # "sleep" => checks >= 1
  /\ at["client"] = "fetch" => source <= Sources
  /\ at["service"] \notin {"total", "clamp"} =>
       current_screen \in -1..(MaxItems - 1)

LEMMA InitType == Init => TypeInv
<1> SUFFICES ASSUME Init PROVE TypeInv
  OBVIOUS
<1>1. /\ at \in [Threads -> ClientPlaces \cup ServicePlaces]
      /\ at["client"] = "sleep"
      /\ at["service"] = "idle"
  BY DEF Init, Threads, ClientPlaces, ServicePlaces
<1>2. list \in Seq(Items) /\ Len(list) = 0
  BY DEF Init
<1>3. tot \in [Threads -> 0..MaxItems] /\ writes \in [Threads -> Writes]
  BY BrowserAssumption DEF Init, Writes
<1>4. event \in [step : {-1, 0, 1}, from : -1..(MaxItems - 1)]
  BY BrowserAssumption DEF Init, NoEvent
<1>5. screen \in [Widgets -> Texts]
  BY DEF Init, Texts
<1> QED
  BY <1>1, <1>2, <1>3, <1>4, <1>5, BrowserAssumption
     DEF Init, TypeInv, ClientPlaces, ServicePlaces

(* What is written is a list of widgets with texts. *)
LEMMA ShowTypes ==
  /\ \A item \in Items : Show(item) \in Writes
  /\ ShowNothing \in Writes
  /\ ShowReceiving \in Writes
<1> DEFINE W == Widgets \X Texts
<1>1. \A w \in Widgets, x \in Texts : <<w, x>> \in W
  OBVIOUS
<1>2. Blank \in Texts /\ Receiving \in Texts /\ Items \subseteq Texts
  BY DEF Texts
<1>3. {"title", "line1", "line2"} = Widgets
  BY DEF Widgets
<1> HIDE DEF W
<1>4. ASSUME NEW item \in Items PROVE Show(item) \in Seq(W)
  <2>1. /\ <<"title", item>> \in W
        /\ <<"line1", item>> \in W
        /\ <<"line2", item>> \in W
        /\ <<"line1", Blank>> \in W
        /\ <<"line2", Blank>> \in W
    BY <1>1, <1>2, <1>3
  <2>2. (IF item.number \in Tall THEN <<<<"line2", item>>>> ELSE <<>>) \in Seq(W)
    BY <2>1
  <2>3. <<<<"title", item>>, <<"line1", Blank>>, <<"line2", Blank>>,
          <<"line1", item>>>> \in Seq(W)
    BY <2>1
  <2>4. <<<<"title", item>>, <<"line1", item>>,
          <<"line2", IF item.number \in Tall THEN item ELSE Blank>>>> \in Seq(W)
    BY <2>1
  <2> QED
    BY <2>2, <2>3, <2>4 DEF Show
<1>5. ShowNothing \in Seq(W) /\ ShowReceiving \in Seq(W)
  <2>1. /\ <<"title", Blank>> \in W
        /\ <<"line1", Blank>> \in W
        /\ <<"line2", Blank>> \in W
        /\ <<"title", Receiving>> \in W
        /\ <<"line1", Receiving>> \in W
    BY <1>1, <1>2, <1>3
  <2> QED
    BY <2>1 DEF ShowNothing, ShowReceiving
<1> QED
  BY <1>4, <1>5 DEF W, Writes

(* Appending an item, and taking the first write. *)
LEMMA AppendedItem ==
  ASSUME NEW s \in Seq(Items), NEW item \in Items
  PROVE  /\ Append(s, item) \in Seq(Items)
         /\ Len(Append(s, item)) = Len(s) + 1
         /\ ToSet(Append(s, item)) = ToSet(s) \cup {item}
<1>1. /\ Append(s, item) \in Seq(Items)
      /\ Len(Append(s, item)) = Len(s) + 1
      /\ \A i \in 1 .. Len(s) : Append(s, item)[i] = s[i]
      /\ Append(s, item)[Len(s) + 1] = item
  OBVIOUS
<1>2. /\ DOMAIN s = 1 .. Len(s)
      /\ DOMAIN Append(s, item) = 1 .. Len(s) + 1
      /\ 1 .. Len(s) + 1 = 1 .. Len(s) \cup {Len(s) + 1}
  BY <1>1
<1>3. ToSet(Append(s, item)) = ToSet(s) \cup {item}
  BY <1>1, <1>2 DEF ToSet
<1> QED
  BY <1>1, <1>3

LEMMA FirstWritten ==
  ASSUME NEW ws \in Writes, ws # <<>>
  PROVE  /\ Len(ws) \in Nat \ {0}
         /\ Head(ws) = ws[1]
         /\ Head(ws) \in Widgets \X Texts
         /\ Tail(ws) \in Writes
         /\ Len(Tail(ws)) = Len(ws) - 1
         /\ \A i \in 1 .. Len(ws) - 1 : Tail(ws)[i] = ws[i + 1]
<1> DEFINE W == Widgets \X Texts
<1>1. ws \in Seq(W)
  BY DEF Writes
<1> HIDE DEF W
<1>2. /\ Len(ws) \in Nat \ {0}
      /\ Head(ws) = ws[1]
      /\ Head(ws) \in W
      /\ Tail(ws) \in Seq(W)
      /\ Len(Tail(ws)) = Len(ws) - 1
      /\ \A i \in 1 .. Len(ws) - 1 : Tail(ws)[i] = ws[i + 1]
  BY <1>1
<1> QED
  BY <1>2 DEF W, Writes

(* The item the index points to is one of the list. *)
LEMMA ChosenType ==
  ASSUME TypeInv, current_screen + 1 \in DOMAIN list
  PROVE  Chosen \in Items /\ Chosen \in ToSet(list)
BY DEF TypeInv, Chosen, ToSet

LEMMA ClampedRange ==
  ASSUME NEW index \in -2..MaxItems, NEW length \in 0..MaxItems
  PROVE  Clamped(index, length) \in -1..(MaxItems - 1)
BY BrowserAssumption DEF Clamped

-----------------------------------------------------------------------------
(* The types are kept.                                                      *)

LEMMA CrashKeepsTypes == TypeInv /\ Crash => TypeInv'
BY DEF TypeInv, Crash

LEMMA ShowingTypes ==
  ASSUME TypeInv, NEW t \in Threads,
         Total(t) \/ Clamp(t) \/ Pick(t) \/ Draw(t)
  PROVE  TypeInv'
<1>0. t \in {"client", "service"}
  BY DEF Threads
<1>1. CASE Total(t)
  <2>1. CASE Crash
    BY <2>1, CrashKeepsTypes
  <2>2. CASE ~ Crash
    <3>1. /\ at' = [at EXCEPT ![t] = "clamp"] /\ at[t] = "total"
          /\ tot' = [tot EXCEPT ![t] = Len(list)]
          /\ UNCHANGED <<client, list, current_screen, alive, writes, event,
                         source, checks, screen>>
      BY <1>1, <2>2 DEF Total, Thread, Goto, heap
    <3>2. Len(list) \in 0..MaxItems
      BY DEF TypeInv
    <3> QED
      BY <1>0, <3>1, <3>2 DEF TypeInv, ClientPlaces, ServicePlaces, Threads
  <2> QED
    BY <2>1, <2>2
<1>2. CASE Clamp(t)
  <2>1. /\ at' = [at EXCEPT ![t] = "pick"] /\ at[t] = "clamp"
        /\ current_screen' = Clamped(current_screen, tot[t])
        /\ UNCHANGED <<client, list, alive, tot, writes, event, source, checks,
                       screen>>
    BY <1>2 DEF Clamp, Thread, Goto, heap
  <2>2. current_screen' \in -1..(MaxItems - 1)
    BY <2>1, ClampedRange DEF TypeInv
  <2>3. -1..(MaxItems - 1) \subseteq -2..MaxItems
    BY BrowserAssumption
  <2> QED
    BY <1>0, <2>1, <2>2, <2>3 DEF TypeInv, ClientPlaces, ServicePlaces, Threads
<1>3. CASE Pick(t)
  <2>1. CASE Crash
    BY <2>1, CrashKeepsTypes
  <2>2. CASE ~ Crash
    <3> DEFINE found == tot[t] # 0 /\ current_screen + 1 \in DOMAIN list
               ws == IF found THEN Show(Chosen) ELSE ShowNothing
    <3>1. /\ at' = [at EXCEPT ![t] = "draw"] /\ at[t] = "pick"
          /\ writes' = [writes EXCEPT ![t] = ws]
          /\ UNCHANGED <<client, list, current_screen, alive, tot, event,
                         source, checks, screen>>
      BY <1>3, <2>2 DEF Pick, Thread, Goto, heap
    <3>2. ws \in Writes
      BY ChosenType, ShowTypes
    <3> HIDE DEF ws
    <3> QED
      BY <1>0, <3>1, <3>2 DEF TypeInv, ClientPlaces, ServicePlaces, Threads
  <2> QED
    BY <2>1, <2>2
<1>4. CASE Draw(t)
  <2>1. CASE Crash
    BY <2>1, CrashKeepsTypes
  <2>2. CASE ~ Crash
    <3> DEFINE ws == writes[t]
    <3>1. /\ ws # <<>>
          /\ screen' = [screen EXCEPT ![Head(ws)[1]] = Head(ws)[2]]
          /\ writes' = [writes EXCEPT ![t] = Tail(ws)]
          /\ UNCHANGED <<client, list, current_screen, alive, at, tot, event,
                         source, checks>>
      BY <1>4, <2>2 DEF Draw, heap
    <3>2. ws \in Writes
      BY <1>0 DEF TypeInv, Threads
    <3>3. Head(ws)[1] \in Widgets /\ Head(ws)[2] \in Texts /\ Tail(ws) \in Writes
      BY <3>1, <3>2, FirstWritten
    <3> HIDE DEF ws
    <3> QED
      BY <3>1, <3>3 DEF TypeInv
  <2> QED
    BY <2>1, <2>2
<1> QED
  BY <1>1, <1>2, <1>3, <1>4

LEMMA DrawnTypes ==
  ASSUME TypeInv, NEW t \in Threads, NEW next,
         Drawn(t, next),
         \/ t = "client" /\ next = IF source <= Sources THEN "fetch" ELSE "sleep"
         \/ t = "service" /\ next = "idle"
  PROVE  TypeInv'
<1>1. /\ at' = [at EXCEPT ![t] = next] /\ at[t] = "draw"
      /\ tot' = [tot EXCEPT ![t] = 0]
      /\ event' = IF t = "service" THEN NoEvent ELSE event
      /\ UNCHANGED <<client, list, current_screen, alive, writes, source,
                     checks, screen>>
  BY DEF Drawn, Thread, Goto, heap
<1>2. event' \in [step : {-1, 0, 1}, from : -1..(MaxItems - 1)]
  BY <1>1, BrowserAssumption DEF TypeInv, NoEvent
<1>3. tot' \in [Threads -> 0..MaxItems]
  BY <1>1, BrowserAssumption DEF TypeInv
<1>4. CASE t = "client"
  BY <1>1, <1>2, <1>3, <1>4 DEF TypeInv, ClientPlaces, ServicePlaces, Threads
<1>5. CASE t = "service"
  BY <1>1, <1>2, <1>3, <1>5 DEF TypeInv, ClientPlaces, ServicePlaces, Threads
<1> QED
  BY <1>4, <1>5 DEF Threads

LEMMA CheckTypes ==
  ASSUME TypeInv,
         CheckBegins \/ FreeItem \/ FreeNodes \/ ForgetList \/ NextSource
           \/ SourceDone \/ AllFetched
  PROVE  TypeInv'
<1> USE DEF Thread, Goto, heap
<1>1. CASE CheckBegins
  <2>1. checks' \in 0..MaxChecks /\ checks' >= 1
    BY <1>1, BrowserAssumption DEF CheckBegins, TypeInv
  <2>2. 0 \in -1..(MaxItems - 1) /\ 0 \in -2..MaxItems /\ 1 \in 1..(Sources + 1)
    BY BrowserAssumption
  <2> QED
    BY <1>1, <2>1, <2>2
       DEF CheckBegins, TypeInv, ClientPlaces, ServicePlaces, Threads
<1>2. CASE FreeItem
  BY <1>2 DEF FreeItem, TypeInv
<1>3. CASE FreeNodes
  BY <1>3 DEF FreeNodes, TypeInv, ClientPlaces, ServicePlaces, Threads
<1>4. CASE ForgetList
  <2>1. alive' = {} /\ list' = <<>>
    BY <1>4 DEF ForgetList, TypeInv
  <2>2. list' \in Seq(Items) /\ Len(list') <= MaxItems
    BY <2>1, BrowserAssumption
  <2> QED
    BY <1>4, <2>1, <2>2
       DEF ForgetList, TypeInv, ClientPlaces, ServicePlaces, Threads
<1>5. CASE NextSource
  <2>1. writes' \in [Threads -> Writes]
    BY <1>5, ShowTypes DEF NextSource, TypeInv
  <2> QED
    BY <1>5, <2>1
       DEF NextSource, TypeInv, ClientPlaces, ServicePlaces, Threads
<1>6. CASE SourceDone
  <2>1. source' \in 1..(Sources + 1)
    BY <1>6, BrowserAssumption DEF SourceDone, TypeInv
  <2> QED
    BY <1>6, <2>1 DEF SourceDone, TypeInv, ClientPlaces, ServicePlaces, Threads
<1>7. CASE AllFetched
  BY <1>7 DEF AllFetched, TypeInv, ClientPlaces, ServicePlaces, Threads
<1> QED
  BY <1>1, <1>2, <1>3, <1>4, <1>5, <1>6, <1>7

(* The item that Append1 adds. *)
LEMMA FetchedType ==
  ASSUME TypeInv, Append1, ~ Crash
  PROVE  \E item \in Items :
           /\ list' = Append(list, item)
           /\ alive' = alive \cup {item}
           /\ at["client"] = "fetch"
           /\ Len(list) < MaxItems
           /\ UNCHANGED <<client, current_screen, stale, fault, at, tot,
                          writes, event, source, checks, screen, overlap>>
<1> DEFINE item == [check |-> checks, number |-> Len(list) + 1]
<1>1. item \in Items
  <2>1. checks \in 1..MaxChecks
    BY BrowserAssumption DEF TypeInv, Append1, Thread
  <2>2. Len(list) + 1 \in 1..MaxItems
    BY BrowserAssumption DEF TypeInv, Append1
  <2> QED
    BY <2>1, <2>2 DEF Items
<1> QED
  BY <1>1 DEF Append1, Thread

LEMMA AppendTypes ==
  ASSUME TypeInv, Append1
  PROVE  TypeInv'
<1>1. CASE Crash
  BY <1>1, CrashKeepsTypes
<1>2. CASE ~ Crash
  <2>1. PICK item \in Items :
          /\ list' = Append(list, item)
          /\ alive' = alive \cup {item}
          /\ at["client"] = "fetch"
          /\ Len(list) < MaxItems
          /\ UNCHANGED <<client, current_screen, at, tot, writes, event,
                         source, checks, screen>>
    BY <1>2, FetchedType
  <2>2. /\ list' \in Seq(Items)
        /\ Len(list') = Len(list) + 1
        /\ ToSet(list') = ToSet(list) \cup {item}
    BY <2>1, AppendedItem DEF TypeInv
  <2>3. Len(list') <= MaxItems
    BY <2>1, <2>2, BrowserAssumption DEF TypeInv
  <2> QED
    BY <2>1, <2>2, <2>3 DEF TypeInv
<1> QED
  BY <1>1, <1>2

LEMMA CallbackTypes ==
  ASSUME TypeInv, Event \/ Move
  PROVE  TypeInv'
<1> USE DEF Thread, Goto, heap
<1>1. CASE Event
  <2>1. current_screen \in -1..(MaxItems - 1)
    BY <1>1 DEF Event, TypeInv
  <2>2. event' \in [step : {-1, 0, 1}, from : -1..(MaxItems - 1)]
    BY <1>1, <2>1 DEF Event
  <2> QED
    BY <1>1, <2>2 DEF Event, TypeInv, ClientPlaces, ServicePlaces, Threads
<1>2. CASE Move
  <2>1. event.from \in -1..(MaxItems - 1) /\ event.step \in {-1, 0, 1}
    BY DEF TypeInv
  <2>2. current_screen' \in -2..MaxItems
    BY <1>2, <2>1, BrowserAssumption DEF Move
  <2> QED
    BY <1>2, <2>2 DEF Move, TypeInv, ClientPlaces, ServicePlaces, Threads
<1> QED
  BY <1>1, <1>2

(* The actions of Next, one by one. *)
LEMMA Actions ==
  ASSUME [Next]_vars
  PROVE  \/ CheckBegins \/ FreeItem \/ FreeNodes \/ ForgetList \/ NextSource
         \/ Append1 \/ SourceDone \/ AllFetched \/ Event \/ Move
         \/ \E t \in Threads : Total(t) \/ Clamp(t) \/ Pick(t) \/ Draw(t)
         \/ Drawn("client", IF source <= Sources THEN "fetch" ELSE "sleep")
         \/ Drawn("service", "idle")
         \/ UNCHANGED vars
<1>1. "client" \in Threads /\ "service" \in Threads
  BY DEF Threads
<1> QED
  BY <1>1 DEF Next, ClientSteps, ServiceSteps

LEMMA TypeStep == TypeInv /\ [Next]_vars => TypeInv'
<1> SUFFICES ASSUME TypeInv, [Next]_vars PROVE TypeInv'
  OBVIOUS
<1>1. "client" \in Threads /\ "service" \in Threads
  BY DEF Threads
<1>2. CASE UNCHANGED vars
  BY <1>2 DEF TypeInv, vars, heap
<1>3. CASE Drawn("client", IF source <= Sources THEN "fetch" ELSE "sleep")
  BY <1>1, <1>3, DrawnTypes
<1>4. CASE Drawn("service", "idle")
  BY <1>1, <1>4, DrawnTypes
<1> QED
  BY <1>2, <1>3, <1>4, Actions, ShowingTypes, CheckTypes, AppendTypes,
     CallbackTypes

-----------------------------------------------------------------------------
(* What is freed when.                                                      *)

(* list points to freed nodes only until it is set to NULL, and its items    *)
(* are allocated except in between; a thread that has the client to itself   *)
(* writes only texts that are allocated.                                    *)
PendingAlive(t) ==
  \A i \in 1 .. Len(writes[t]) :
    writes[t][i][2] \in Items => writes[t][i][2] \in alive
MemoryInv ==
  /\ stale => at["client"] = "null"
  /\ at["client"] \notin {"free", "null"} => ToSet(list) \subseteq alive
  /\ at["client"] = "draw" => PendingAlive("client")
  /\ ~ overlap =>
       /\ at["client"] = "sleep" \/ at["service"] = "idle"
       /\ at["service"] = "draw" => PendingAlive("service")
  /\ fault => overlap

(* A thread that is not drawing has nothing left to write. *)
NothingLeft == \A t \in Threads : at[t] # "draw" => writes[t] = <<>>

LEMMA NothingLeftStep == TypeInv /\ NothingLeft /\ [Next]_vars => NothingLeft'
<1> SUFFICES ASSUME TypeInv, NothingLeft, [Next]_vars PROVE NothingLeft'
  OBVIOUS
<1> USE DEF Thread, Goto, heap
<1>0. /\ at \in [Threads -> ClientPlaces \cup ServicePlaces]
      /\ DOMAIN writes = Threads
      /\ "client" \in Threads /\ "service" \in Threads
  BY DEF TypeInv, Threads
<1>1. CASE UNCHANGED <<at, writes>>
  BY <1>1 DEF NothingLeft
<1>2. ASSUME UNCHANGED writes, NEW t \in Threads, NEW place,
             at[t] # "draw" \/ writes[t] = <<>>,
             at' = [at EXCEPT ![t] = place]
      PROVE  NothingLeft'
  BY <1>0, <1>2 DEF NothingLeft
<1>3. ASSUME NEW t \in Threads, at'[t] = "draw",
             \A u \in Threads \ {t} : at'[u] = at[u] /\ writes'[u] = writes[u]
      PROVE  NothingLeft'
  BY <1>3 DEF NothingLeft
<1>4. CASE CheckBegins \/ FreeNodes \/ ForgetList \/ SourceDone \/ AllFetched
  <2>1. UNCHANGED writes /\ at["client"] # "draw"
        /\ \E place : at' = [at EXCEPT !["client"] = place]
    BY <1>4 DEF CheckBegins, FreeNodes, ForgetList, SourceDone, AllFetched
  <2> QED
    BY <1>0, <1>2, <2>1
<1>5. CASE Event \/ Move
  <2>1. UNCHANGED writes /\ at["service"] # "draw"
        /\ \E place : at' = [at EXCEPT !["service"] = place]
    BY <1>5 DEF Event, Move
  <2> QED
    BY <1>0, <1>2, <2>1
<1>6. CASE FreeItem \/ Append1 \/ Crash \/ UNCHANGED vars
  <2>1. UNCHANGED <<at, writes>>
    BY <1>6 DEF FreeItem, Append1, Crash, vars
  <2> QED
    BY <1>1, <2>1
<1>7. CASE NextSource
  <2>1. at'["client"] = "draw"
        /\ \A u \in Threads \ {"client"} : at'[u] = at[u] /\ writes'[u] = writes[u]
    BY <1>0, <1>7 DEF NextSource
  <2> QED
    BY <1>0, <1>3, <2>1
<1>8. ASSUME NEW t \in Threads, Total(t) \/ Clamp(t), ~ Crash
      PROVE  NothingLeft'
  <2>1. UNCHANGED writes /\ at[t] # "draw"
        /\ \E place : at' = [at EXCEPT ![t] = place]
    BY <1>8 DEF Total, Clamp
  <2> QED
    BY <1>2, <2>1
<1>9. ASSUME NEW t \in Threads, Pick(t), ~ Crash
      PROVE  NothingLeft'
  <2>1. at'[t] = "draw"
        /\ \A u \in Threads \ {t} : at'[u] = at[u] /\ writes'[u] = writes[u]
    BY <1>0, <1>9 DEF Pick
  <2> QED
    BY <1>3, <2>1
<1>10. ASSUME NEW t \in Threads, Draw(t), ~ Crash
       PROVE  NothingLeft'
  <2>1. at'[t] = "draw"
        /\ \A u \in Threads \ {t} : at'[u] = at[u] /\ writes'[u] = writes[u]
    BY <1>0, <1>10 DEF Draw
  <2> QED
    BY <1>3, <2>1
<1>11. ASSUME NEW t \in Threads, NEW next, Drawn(t, next)
       PROVE  NothingLeft'
  BY <1>0, <1>2, <1>11 DEF Drawn
<1> QED
  BY <1>0, <1>4, <1>5, <1>6, <1>7, <1>8, <1>9, <1>10, <1>11, Actions

LEMMA InitMemory == Init => MemoryInv
BY DEF Init, MemoryInv, ToSet

(* The items among the texts written are the one shown, or none. *)
LEMMA ShownItems ==
  /\ \A item \in Items : \A i \in 1 .. Len(Show(item)) :
       Show(item)[i][2] \in {item, Blank}
  /\ \A i \in 1 .. Len(ShowNothing) : ShowNothing[i][2] = Blank
  /\ \A i \in 1 .. Len(ShowReceiving) : ShowReceiving[i][2] \in {Blank, Receiving}
<1>1. ASSUME NEW item \in Items, NEW i \in 1 .. Len(Show(item))
      PROVE  Show(item)[i][2] \in {item, Blank}
  BY <1>1 DEF Show
<1>2. ASSUME NEW i \in 1 .. Len(ShowNothing) PROVE ShowNothing[i][2] = Blank
  BY <1>2 DEF ShowNothing
<1>3. ASSUME NEW i \in 1 .. Len(ShowReceiving)
      PROVE  ShowReceiving[i][2] \in {Blank, Receiving}
  BY <1>3 DEF ShowReceiving
<1> QED
  BY <1>1, <1>2, <1>3

(* A thread that uses freed memory was not alone: the nodes are gone and the *)
(* items freed only while the check is between free_emails (free_news) and   *)
(* list = NULL, where the client's thread itself uses neither.               *)
LEMMA CrashOverlaps ==
  ASSUME TypeInv, MemoryInv, Crash,
         Append1 \/ \E t \in Threads : Total(t) \/ Pick(t) \/ Draw(t)
  PROVE  overlap
<1> USE DEF Thread
<1>1. fault' /\ UNCHANGED <<list, at, writes, alive>>
  BY DEF Crash
<1>2. ~ Append1
  <2>1. SUFFICES ASSUME Append1 PROVE FALSE
    OBVIOUS
  <2>2. at["client"] = "fetch" /\ ~ fault
    BY <2>1 DEF Append1
  <2>3. ~ stale
    BY <2>2 DEF MemoryInv
  <2>4. fault' = fault
    BY <2>1, <2>3 DEF Append1
  <2> QED
    BY <1>1, <2>2, <2>4
<1>3. ASSUME NEW t \in Threads, Total(t) PROVE overlap
  <2>1. ~ fault /\ at[t] = "total" /\ (stale \/ fault' = fault)
    BY <1>3 DEF Total, heap
  <2>2. stale
    BY <1>1, <2>1
  <2>3. at["client"] = "null"
    BY <2>2 DEF MemoryInv
  <2> QED
    BY <2>1, <2>3 DEF MemoryInv, Threads
<1>4. ASSUME NEW t \in Threads, Pick(t) PROVE overlap
  <2>1. /\ ~ fault /\ at[t] = "pick"
        /\ \/ stale
           \/ current_screen + 1 \in DOMAIN list /\ Chosen \notin alive
           \/ fault' = fault
    BY <1>4 DEF Pick, heap
  <2>2. stale \/ (current_screen + 1 \in DOMAIN list /\ Chosen \notin alive)
    BY <1>1, <2>1
  <2>3. at["client"] \in {"free", "null"}
    BY <2>2, ChosenType DEF MemoryInv
  <2> QED
    BY <2>1, <2>3 DEF MemoryInv, Threads
<1>5. ASSUME NEW t \in Threads, Draw(t) PROVE overlap
  <2>1. /\ ~ fault /\ at[t] = "draw" /\ writes[t] # <<>>
        /\ Head(writes[t])[2] \in Items \ alive \/ fault' = fault
    BY <1>5 DEF Draw, heap
  <2>2. Head(writes[t])[2] \in Items \ alive
    BY <1>1, <2>1
  <2>3. 1 \in 1 .. Len(writes[t]) /\ Head(writes[t]) = writes[t][1]
    <3>1. writes[t] \in Writes
      BY DEF TypeInv
    <3> QED
      BY <2>1, <3>1, FirstWritten
  <2>4. ~ PendingAlive(t)
    BY <2>2, <2>3 DEF PendingAlive
  <2> QED
    BY <2>1, <2>4 DEF MemoryInv, Threads
<1> QED
  BY <1>2, <1>3, <1>4, <1>5

LEMMA MemoryOnCrash ==
  ASSUME TypeInv, MemoryInv, Crash, overlap
  PROVE  MemoryInv'
BY DEF Crash, MemoryInv, PendingAlive

LEMMA MemoryOnShow ==
  ASSUME TypeInv, MemoryInv, NEW t \in Threads, ~ Crash,
         Total(t) \/ Clamp(t) \/ Pick(t) \/ Draw(t)
  PROVE  MemoryInv'
<1>0. t \in {"client", "service"} /\ at \in [Threads -> ClientPlaces \cup ServicePlaces]
  BY DEF Threads, TypeInv
<1>1. UNCHANGED <<list, alive, stale, fault, overlap>>
  BY DEF Total, Clamp, Pick, Draw, heap
<1>2. CASE Total(t) \/ Clamp(t)
  <2>1. /\ UNCHANGED writes
        /\ at[t] \in {"total", "clamp"}
        /\ \/ at' = [at EXCEPT ![t] = "clamp"]
           \/ at' = [at EXCEPT ![t] = "pick"]
    BY <1>2 DEF Total, Clamp, Thread, Goto
  <2> QED
    BY <1>0, <1>1, <2>1 DEF MemoryInv, PendingAlive, Threads
<1>3. CASE Pick(t)
  <2> DEFINE found == tot[t] # 0 /\ current_screen + 1 \in DOMAIN list
             ws == IF found THEN Show(Chosen) ELSE ShowNothing
  <2>1. /\ at' = [at EXCEPT ![t] = "draw"] /\ at[t] = "pick"
        /\ writes' = [writes EXCEPT ![t] = ws]
        /\ found => Chosen \in alive
    BY <1>3 DEF Pick, Thread, Goto
  <2>2. \A i \in 1 .. Len(ws) : ws[i][2] \in Items => ws[i][2] \in alive
    BY <2>1, ChosenType, ShownItems, BrowserAssumption
  <2> HIDE DEF ws
  <2>3. writes'[t] = ws
    BY <1>0, <2>1 DEF TypeInv
  <2>4. PendingAlive(t)'
    BY <1>1, <2>2, <2>3 DEF PendingAlive
  <2>5. \A u \in Threads \ {t} : writes'[u] = writes[u] /\ at'[u] = at[u]
    BY <1>0, <2>1 DEF TypeInv
  <2>6. at'[t] = "draw"
    BY <1>0, <2>1
  <2>7. CASE t = "client"
    BY <1>1, <2>1, <2>4, <2>5, <2>6, <2>7 DEF MemoryInv, PendingAlive, Threads
  <2>8. CASE t = "service"
    BY <1>1, <2>1, <2>4, <2>5, <2>6, <2>8 DEF MemoryInv, PendingAlive, Threads
  <2> QED
    BY <1>0, <2>7, <2>8
<1>4. CASE Draw(t)
  <2>1. /\ writes[t] # <<>>
        /\ writes' = [writes EXCEPT ![t] = Tail(writes[t])]
        /\ at' = at
    BY <1>1, <1>4 DEF Draw
  <2>2. writes[t] \in Writes
    BY DEF TypeInv
  <2>3. /\ writes'[t] = Tail(writes[t])
        /\ \A u \in Threads \ {t} : writes'[u] = writes[u]
    BY <2>1 DEF TypeInv
  <2>4. PendingAlive(t) => PendingAlive(t)'
    BY <1>1, <2>1, <2>2, <2>3, FirstWritten DEF PendingAlive
  <2>5. \A u \in Threads \ {t} : PendingAlive(u) => PendingAlive(u)'
    BY <1>1, <2>3 DEF PendingAlive
  <2>6. (PendingAlive("client") => PendingAlive("client")')
        /\ (PendingAlive("service") => PendingAlive("service")')
    BY <2>4, <2>5 DEF Threads
  <2> QED
    BY <1>1, <2>1, <2>6 DEF MemoryInv
<1> QED
  BY <1>2, <1>3, <1>4

LEMMA MemoryOnDrawn ==
  ASSUME TypeInv, MemoryInv, NEW t \in Threads, NEW next,
         Drawn(t, next),
         \/ t = "client" /\ next \in {"fetch", "sleep"}
         \/ t = "service" /\ next = "idle"
  PROVE  MemoryInv'
<1>1. /\ at' = [at EXCEPT ![t] = next] /\ at[t] = "draw"
      /\ UNCHANGED <<list, alive, stale, fault, writes, overlap>>
      /\ at \in [Threads -> ClientPlaces \cup ServicePlaces]
  BY DEF Drawn, Thread, Goto, heap, TypeInv
<1>2. CASE t = "client"
  BY <1>1, <1>2 DEF MemoryInv, PendingAlive, Threads
<1>3. CASE t = "service"
  BY <1>1, <1>3 DEF MemoryInv, PendingAlive, Threads
<1> QED
  BY <1>2, <1>3 DEF Threads

LEMMA MemoryOnCheck ==
  ASSUME TypeInv, NothingLeft, MemoryInv, ~ Crash,
         CheckBegins \/ FreeItem \/ FreeNodes \/ ForgetList \/ NextSource
           \/ Append1 \/ SourceDone \/ AllFetched
  PROVE  MemoryInv'
<1> USE DEF Thread, Goto, heap
<1>0. at \in [Threads -> ClientPlaces \cup ServicePlaces]
      /\ "client" \in Threads /\ "service" \in Threads
  BY DEF TypeInv, Threads
<1>1. CASE CheckBegins
  BY <1>0, <1>1 DEF CheckBegins, MemoryInv
<1>2. CASE FreeItem
  BY <1>0, <1>2 DEF FreeItem, MemoryInv
<1>3. CASE FreeNodes
  BY <1>0, <1>3 DEF FreeNodes, MemoryInv
<1>4. CASE ForgetList
  <2>1. ToSet(list') = {} /\ UNCHANGED <<fault, overlap>> /\ ~ stale'
        /\ at["client"] = "null" /\ at'["client"] = "source"
        /\ at'["service"] = at["service"]
    BY <1>0, <1>4 DEF ForgetList, ToSet
  <2>2. ~ overlap => at["service"] = "idle"
    BY <2>1 DEF MemoryInv
  <2> QED
    BY <2>1, <2>2 DEF MemoryInv
<1>5. CASE NextSource
  <2>1. at["client"] = "source" /\ at'["client"] = "draw"
        /\ at'["service"] = at["service"]
        /\ UNCHANGED <<list, alive, stale, fault, overlap>>
    BY <1>0, <1>5 DEF NextSource
  <2>2. ~ overlap => at["service"] = "idle"
    BY <2>1 DEF MemoryInv
  <2>3. PendingAlive("client")'
    <3>1. CASE writes' = [writes EXCEPT !["client"] = ShowReceiving]
      <4>1. writes'["client"] = ShowReceiving
        BY <1>0, <3>1 DEF TypeInv
      <4> QED
        BY <4>1, ShownItems, BrowserAssumption DEF PendingAlive
    <3>2. CASE UNCHANGED writes
      <4>1. writes'["client"] = <<>>
        BY <1>0, <2>1, <3>2 DEF NothingLeft
      <4> QED
        BY <4>1 DEF PendingAlive
    <3> QED
      BY <1>5, <3>1, <3>2 DEF NextSource
  <2> QED
    BY <2>1, <2>2, <2>3 DEF MemoryInv
<1>6. CASE Append1
  <2>1. PICK item \in Items :
          /\ list' = Append(list, item)
          /\ alive' = alive \cup {item}
          /\ at["client"] = "fetch"
          /\ UNCHANGED <<stale, fault, at, writes, overlap>>
    BY <1>6, FetchedType
  <2>2. ToSet(list') = ToSet(list) \cup {item}
    BY <2>1, AppendedItem DEF TypeInv
  <2> QED
    BY <2>1, <2>2 DEF MemoryInv, PendingAlive
<1>7. CASE SourceDone \/ AllFetched
  BY <1>0, <1>7 DEF SourceDone, AllFetched, MemoryInv
<1> QED
  BY <1>1, <1>2, <1>3, <1>4, <1>5, <1>6, <1>7

LEMMA MemoryStep ==
  TypeInv /\ NothingLeft /\ MemoryInv /\ [Next]_vars => MemoryInv'
<1> SUFFICES ASSUME TypeInv, NothingLeft, MemoryInv, [Next]_vars
             PROVE  MemoryInv'
  OBVIOUS
<1>1. "client" \in Threads /\ "service" \in Threads
  BY DEF Threads
<1>2. CASE UNCHANGED vars
  BY <1>2 DEF MemoryInv, PendingAlive, vars, heap
<1>3. CASE Event \/ Move
  <2>1. at \in [Threads -> ClientPlaces \cup ServicePlaces]
    BY DEF TypeInv
  <2>2. /\ UNCHANGED <<list, alive, stale, fault, writes>> /\ ~ fault
        /\ at["service"] # "draw"
        /\ \/ at' = [at EXCEPT !["service"] = "move"]
           \/ at' = [at EXCEPT !["service"] = "total"]
    BY <1>3 DEF Event, Move, Thread, Goto, heap
  <2>3. at'["client"] = at["client"] /\ at'["service"] \in {"move", "total"}
    BY <1>1, <2>1, <2>2
  <2>4. ~ overlap' => at["client"] = "sleep"
    <3>1. CASE Event
      BY <3>1 DEF Event
    <3>2. CASE Move
      BY <3>2 DEF Move, MemoryInv, Thread
    <3> QED
      BY <1>3, <3>1, <3>2
  <2> QED
    BY <2>2, <2>3, <2>4 DEF MemoryInv, PendingAlive
<1>4. CASE Crash /\ (Append1 \/ \E t \in Threads : Total(t) \/ Pick(t) \/ Draw(t))
  BY <1>4, CrashOverlaps, MemoryOnCrash
<1>5. CASE Drawn("client", IF source <= Sources THEN "fetch" ELSE "sleep")
  BY <1>1, <1>5, MemoryOnDrawn
<1>6. CASE Drawn("service", "idle")
  BY <1>1, <1>6, MemoryOnDrawn
<1>7. ASSUME NEW t \in Threads, Clamp(t) PROVE ~ Crash
  BY <1>7 DEF Clamp, Crash, Thread, heap
<1>8. CheckBegins \/ FreeItem \/ FreeNodes \/ ForgetList \/ NextSource
        \/ SourceDone \/ AllFetched => ~ Crash
  BY DEF CheckBegins, FreeItem, FreeNodes, ForgetList, NextSource, SourceDone,
     AllFetched, Crash, Thread, heap
<1> QED
  BY <1>2, <1>3, <1>4, <1>5, <1>6, <1>7, <1>8, Actions, MemoryOnShow,
     MemoryOnCheck

SafeInv == TypeInv /\ NothingLeft /\ MemoryInv

LEMMA SafeInvariant == Spec => []SafeInv
<1>1. Init => SafeInv
  <2>1. Init => NothingLeft
    BY DEF Init, NothingLeft
  <2> QED
    BY <2>1, InitType, InitMemory DEF SafeInv
<1>2. SafeInv /\ [Next]_vars => SafeInv'
  BY TypeStep, NothingLeftStep, MemoryStep DEF SafeInv
<1> QED
  BY <1>1, <1>2, PTL DEF Spec

(* The types hold, the index is at most one step outside the list although   *)
(* two threads write it, and freed items or list nodes are used only by a    *)
(* callback that runs during a check: for any number of sources and items.   *)
THEOREM FreedUseNeedsOverlap == Spec => []Safe
<1>1. SafeInv => Safe
  <2>1. ASSUME TypeInv PROVE TypeOK
    <3>1. ToSet(list) \subseteq Items /\ screen \in [Widgets -> Texts]
      BY <2>1 DEF TypeInv, ToSet
    <3> QED
      BY <2>1, <3>1 DEF TypeInv, TypeOK, Texts, ClientPlaces, ServicePlaces
  <2> QED
    BY <2>1 DEF SafeInv, Safe, MemoryInv
<1> QED
  BY <1>1, SafeInvariant, PTL

-----------------------------------------------------------------------------
(* Where the index is.                                                      *)

InList == current_screen \in 0 .. Len(list) - 1

(* The check has brought the index back into the list it has fetched. *)
Checked ==
  \/ at["client"] \in {"sleep", "pick"}
  \/ at["client"] = "draw" /\ source > Sources

(* After that the index is in the list whenever no callback has moved it and *)
(* not clamped it yet.  A callback may still clamp it with the length of a   *)
(* list that is gone: that cannot take an index in the list out of it.       *)
IndexInv ==
  /\ at["client"] \in {"clamp", "pick"} => tot["client"] = Len(list)
  /\ Checked /\ list # <<>> =>
       /\ at["service"] = "clamp" => InList \/ tot["service"] = Len(list)
       /\ at["service"] \notin {"total", "clamp"} => InList
  /\ ~ overlap /\ at["service"] \in {"clamp", "pick"} =>
       tot["service"] = Len(list)

LEMMA InitIndex == Init => IndexInv
BY DEF Init, IndexInv

LEMMA NotEmpty ==
  ASSUME TypeInv
  PROVE  Len(list) \in Nat /\ (list # <<>> <=> Len(list) > 0)
         /\ DOMAIN list = 1 .. Len(list)
BY DEF TypeInv

LEMMA ClampedInList ==
  ASSUME NEW index \in Int, NEW length \in Nat, length > 0
  PROVE  /\ Clamped(index, length) \in 0 .. length - 1
         /\ \A stale_length \in Nat :
              index \in 0 .. length - 1 =>
                Clamped(index, stale_length) \in 0 .. length - 1
BY DEF Clamped

LEMMA IndexOnShow ==
  ASSUME SafeInv, IndexInv, NEW t \in Threads, ~ Crash,
         Total(t) \/ Clamp(t) \/ Pick(t) \/ Draw(t)
  PROVE  IndexInv'
<1>0. /\ t \in {"client", "service"}
      /\ at \in [Threads -> ClientPlaces \cup ServicePlaces]
      /\ tot \in [Threads -> 0..MaxItems]
      /\ Threads = {"client", "service"}
      /\ current_screen \in Int
      /\ Len(list) \in Nat
      /\ list # <<>> => Len(list) > 0
  BY NotEmpty DEF Threads, SafeInv, TypeInv
<1>1. UNCHANGED <<list, source, overlap>>
  BY DEF Total, Clamp, Pick, Draw, heap
<1>2. CASE Total(t)
  <2>1. /\ at' = [at EXCEPT ![t] = "clamp"] /\ at[t] = "total"
        /\ tot' = [tot EXCEPT ![t] = Len(list)]
        /\ UNCHANGED current_screen
    BY <1>2 DEF Total, Thread, Goto
  <2> QED
    BY <1>0, <1>1, <2>1 DEF IndexInv, Checked, InList
<1>3. CASE Clamp(t)
  <2>1. /\ at' = [at EXCEPT ![t] = "pick"] /\ at[t] = "clamp"
        /\ current_screen' = Clamped(current_screen, tot[t])
        /\ UNCHANGED tot
    BY <1>3 DEF Clamp, Thread, Goto
  <2>2. tot[t] \in Nat
    BY <1>0, BrowserAssumption
  <2>3. CASE t = "client"
    <3>1. tot["client"] = Len(list) /\ at["client"] = "clamp"
      BY <2>1, <2>3 DEF IndexInv
    <3>2. list # <<>> => InList'
      BY <1>0, <1>1, <2>1, <2>3, <3>1, ClampedInList DEF InList
    <3> QED
      BY <1>0, <1>1, <2>1, <2>3, <3>1, <3>2 DEF IndexInv
  <2>4. CASE t = "service"
    <3>1. Checked' = Checked
      BY <1>0, <1>1, <2>1, <2>4 DEF Checked
    <3>2. Checked /\ list # <<>> => InList'
      BY <1>0, <1>1, <2>1, <2>2, <2>4, ClampedInList DEF IndexInv, InList
    <3> QED
      BY <1>0, <1>1, <2>1, <2>4, <3>1, <3>2 DEF IndexInv
  <2> QED
    BY <1>0, <2>3, <2>4
<1>4. CASE Pick(t)
  <2>1. /\ at' = [at EXCEPT ![t] = "draw"] /\ at[t] = "pick"
        /\ UNCHANGED <<tot, current_screen>>
    BY <1>4 DEF Pick, Thread, Goto
  <2> QED
    BY <1>0, <1>1, <2>1 DEF IndexInv, Checked, InList
<1>5. CASE Draw(t)
  <2>1. UNCHANGED <<tot, current_screen, at>>
    BY <1>5 DEF Draw
  <2> QED
    BY <1>1, <2>1 DEF IndexInv, Checked, InList
<1> QED
  BY <1>2, <1>3, <1>4, <1>5

LEMMA IndexOnDrawn ==
  ASSUME SafeInv, IndexInv, NEW t \in Threads, NEW next,
         Drawn(t, next),
         \/ t = "client" /\ next = IF source <= Sources THEN "fetch" ELSE "sleep"
         \/ t = "service" /\ next = "idle"
  PROVE  IndexInv'
<1>1. /\ at' = [at EXCEPT ![t] = next] /\ at[t] = "draw"
      /\ tot' = [tot EXCEPT ![t] = 0]
      /\ UNCHANGED <<list, current_screen, source, overlap>>
  BY DEF Drawn, Thread, Goto, heap
<1>2. /\ at \in [Threads -> ClientPlaces \cup ServicePlaces]
      /\ tot \in [Threads -> 0..MaxItems]
      /\ Threads = {"client", "service"}
      /\ source \in Int /\ Sources \in Int
  BY BrowserAssumption DEF SafeInv, TypeInv, Threads
<1>3. CASE t = "client" /\ source <= Sources
  BY <1>1, <1>2, <1>3 DEF IndexInv, Checked, InList
<1>4. CASE t = "client" /\ source > Sources
  BY <1>1, <1>2, <1>4 DEF IndexInv, Checked, InList
<1>5. CASE t = "service"
  BY <1>1, <1>2, <1>5 DEF IndexInv, Checked, InList
<1> QED
  BY <1>2, <1>3, <1>4, <1>5 DEF Threads

LEMMA IndexStep == SafeInv /\ IndexInv /\ [Next]_vars => IndexInv'
<1> SUFFICES ASSUME SafeInv, IndexInv, [Next]_vars PROVE IndexInv'
  OBVIOUS
<1> USE DEF Thread, Goto, heap
<1>0. /\ at \in [Threads -> ClientPlaces \cup ServicePlaces]
      /\ "client" \in Threads /\ "service" \in Threads /\ "client" # "service"
  BY DEF SafeInv, TypeInv, Threads
<1>1. CASE UNCHANGED vars \/ Crash
  <2>1. UNCHANGED <<list, current_screen, at, tot, source, overlap>>
    BY <1>1 DEF vars, Crash
  <2> QED
    BY <2>1 DEF IndexInv, Checked, InList
<1>2. CASE CheckBegins
  <2>1. at'["client"] = "free" /\ at'["service"] = at["service"]
        /\ (~ overlap' => at["service"] = "idle")
    BY <1>0, <1>2 DEF CheckBegins
  <2> QED
    BY <2>1 DEF IndexInv, Checked
<1>3. CASE FreeItem \/ FreeNodes \/ ForgetList \/ SourceDone \/ AllFetched
  <2>1. /\ at'["service"] = at["service"] /\ UNCHANGED overlap
        /\ at["client"] \in {"free", "null", "source", "fetch"}
        /\ at'["client"] \in {"free", "null", "source", "fetch", "total"}
    BY <1>0, <1>3 DEF FreeItem, FreeNodes, ForgetList, SourceDone, AllFetched
  <2>2. ~ overlap => at["service"] = "idle"
    BY <2>1 DEF SafeInv, MemoryInv
  <2> QED
    BY <2>1, <2>2 DEF IndexInv, Checked
<1>4. CASE NextSource
  <2>1. /\ at'["service"] = at["service"] /\ at["client"] = "source"
        /\ at'["client"] = "draw" /\ source <= Sources
        /\ UNCHANGED <<source, overlap>>
    BY <1>0, <1>4 DEF NextSource
  <2>2. ~ overlap => at["service"] = "idle"
    BY <2>1 DEF SafeInv, MemoryInv
  <2>3. ~ (source > Sources)
    BY <2>1, BrowserAssumption DEF SafeInv, TypeInv
  <2> QED
    BY <2>1, <2>2, <2>3 DEF IndexInv, Checked
<1>5. CASE Append1 /\ ~ Crash
  <2>1. at["client"] = "fetch" /\ UNCHANGED <<at, overlap>>
    BY <1>5 DEF Append1
  <2>2. ~ overlap => at["service"] = "idle"
    BY <2>1 DEF SafeInv, MemoryInv
  <2> QED
    BY <2>1, <2>2 DEF IndexInv, Checked
<1>6. CASE Event
  <2>1. /\ at["service"] = "idle" /\ at'["service"] = "move"
        /\ at'["client"] = at["client"]
        /\ UNCHANGED <<list, current_screen, tot, source>>
    BY <1>0, <1>6 DEF Event
  <2> QED
    BY <2>1 DEF IndexInv, Checked, InList
<1>7. CASE Move
  <2>1. /\ at'["service"] = "total" /\ at'["client"] = at["client"]
        /\ UNCHANGED <<list, tot, source>>
    BY <1>0, <1>7 DEF Move
  <2> QED
    BY <2>1 DEF IndexInv, Checked
<1>8. CASE Drawn("client", IF source <= Sources THEN "fetch" ELSE "sleep")
  BY <1>0, <1>8, IndexOnDrawn
<1>9. CASE Drawn("service", "idle")
  BY <1>0, <1>9, IndexOnDrawn
<1> QED
  BY <1>1, <1>2, <1>3, <1>4, <1>5, <1>6, <1>7, <1>8, <1>9, Actions,
     IndexOnShow

-----------------------------------------------------------------------------
(* What the screen will show.                                               *)

(* The widget w of the screen scr shows text once ws has been written: ws    *)
(* writes it there last, or does not touch what is there.                    *)
Settles(scr, ws, w, text) ==
  \/ \E i \in 1 .. Len(ws) :
       ws[i] = <<w, text>> /\ \A j \in i + 1 .. Len(ws) : ws[j][1] # w
  \/ scr[w] = text /\ \A j \in 1 .. Len(ws) : ws[j][1] # w

Line(item, w) == IF w = "line2" /\ item.number \notin Tall THEN Blank ELSE item

(* What update_screen_text (update_screen) queues is the whole item,         *)
(* whatever was on the screen before.                                       *)
LEMMA ShowSettles ==
  ASSUME NEW item \in Items, NEW w \in Widgets, NEW scr,
         client \in {"mail", "rss"}
  PROVE  Settles(scr, Show(item), w, Line(item, w))
<1>1. CASE client = "rss" /\ item.number \in Tall
  <2>1. /\ Len(Show(item)) = 5
        /\ Show(item)[1] = <<"title", item>>
        /\ Show(item)[2] = <<"line1", Blank>>
        /\ Show(item)[3] = <<"line2", Blank>>
        /\ Show(item)[4] = <<"line1", item>>
        /\ Show(item)[5] = <<"line2", item>>
    BY <1>1 DEF Show
  <2>2. CASE w = "title"
    BY <1>1, <2>1, <2>2 DEF Settles, Line
  <2>3. CASE w = "line1"
    BY <1>1, <2>1, <2>3 DEF Settles, Line
  <2>4. CASE w = "line2"
    BY <1>1, <2>1, <2>4 DEF Settles, Line
  <2> QED
    BY <2>2, <2>3, <2>4 DEF Widgets
<1>2. CASE client = "rss" /\ item.number \notin Tall
  <2>1. Show(item) = <<<<"title", item>>, <<"line1", Blank>>,
                       <<"line2", Blank>>, <<"line1", item>>>>
    BY <1>2 DEF Show
  <2>2. CASE w = "title"
    BY <1>2, <2>1, <2>2 DEF Settles, Line
  <2>3. CASE w = "line1"
    BY <1>2, <2>1, <2>3 DEF Settles, Line
  <2>4. CASE w = "line2"
    BY <1>2, <2>1, <2>4 DEF Settles, Line
  <2> QED
    BY <2>2, <2>3, <2>4 DEF Widgets
<1>3. CASE client = "mail"
  <2>1. Show(item) = <<<<"title", item>>, <<"line1", item>>,
                       <<"line2", Line(item, "line2")>>>>
    BY <1>3 DEF Show, Line
  <2>2. Line(item, "title") = item /\ Line(item, "line1") = item
    BY DEF Line
  <2>3. CASE w = "title"
    BY <2>1, <2>2, <2>3 DEF Settles
  <2>4. CASE w = "line1"
    BY <2>1, <2>2, <2>4 DEF Settles
  <2>5. CASE w = "line2"
    BY <2>1, <2>5 DEF Settles
  <2> QED
    BY <2>3, <2>4, <2>5 DEF Widgets
<1> QED
  BY <1>1, <1>2, <1>3

(* Executing one write leaves the others to settle the rest. *)
LEMMA OneWrite ==
  ASSUME NEW ws \in Writes, ws # <<>>, NEW scr \in [Widgets -> Texts],
         NEW w \in Widgets, NEW text, Settles(scr, ws, w, text)
  PROVE  Settles([scr EXCEPT ![Head(ws)[1]] = Head(ws)[2]], Tail(ws), w, text)
<1> DEFINE next == [scr EXCEPT ![Head(ws)[1]] = Head(ws)[2]]
           rest == Tail(ws)
<1>1. /\ Len(ws) \in Nat \ {0}
      /\ Head(ws) = ws[1]
      /\ Len(rest) = Len(ws) - 1
      /\ \A i \in 1 .. Len(ws) - 1 : rest[i] = ws[i + 1]
  BY FirstWritten
<1>2. \A i \in 1 .. Len(rest) : i + 1 \in 1 .. Len(ws) /\ rest[i] = ws[i + 1]
  BY <1>1
<1>3. next[w] = IF w = ws[1][1] THEN ws[1][2] ELSE scr[w]
  BY <1>1
<1> HIDE DEF next, rest
<1>4. CASE scr[w] = text /\ \A j \in 1 .. Len(ws) : ws[j][1] # w
  <2>1. 1 \in 1 .. Len(ws)
    BY <1>1
  <2>2. next[w] = text /\ \A j \in 1 .. Len(rest) : rest[j][1] # w
    BY <1>2, <1>3, <1>4, <2>1
  <2> QED
    BY <2>2 DEF Settles, next, rest
<1>5. ASSUME NEW i \in 1 .. Len(ws), ws[i] = <<w, text>>,
             \A j \in i + 1 .. Len(ws) : ws[j][1] # w
      PROVE  Settles(next, rest, w, text)
  <2>1. CASE i = 1
    <3>1. next[w] = text
      BY <1>3, <1>5, <2>1
    <3>2. \A j \in 1 .. Len(rest) : rest[j][1] # w
      BY <1>1, <1>2, <1>5, <2>1
    <3> QED
      BY <3>1, <3>2 DEF Settles
  <2>2. CASE i # 1
    <3>1. i - 1 \in 1 .. Len(rest) /\ rest[i - 1] = <<w, text>>
      <4>1. i - 1 \in 1 .. Len(rest) /\ (i - 1) + 1 = i
        BY <1>1, <2>2
      <4> QED
        BY <1>2, <1>5, <4>1
    <3>2. ASSUME NEW j \in i .. Len(rest) PROVE rest[j][1] # w
      <4>1. j + 1 \in i + 1 .. Len(ws) /\ j \in 1 .. Len(rest)
        BY <1>1, <2>2
      <4> QED
        BY <1>2, <1>5, <4>1
    <3>3. (i - 1) + 1 = i
      OBVIOUS
    <3> QED
      BY <3>1, <3>2, <3>3 DEF Settles
  <2> QED
    BY <2>1, <2>2
<1> QED
  BY <1>4, <1>5 DEF Settles, next, rest

(* A thread that has the client to itself settles the screen on the item at  *)
(* the index, and that is what the screen has when it is done.               *)
EndsRight(ws) ==
  \A w \in Widgets : Settles(screen, ws, w, Line(Chosen, w))
ScreenInv ==
  ~ overlap /\ list # <<>> =>
    /\ at["client"] = "draw" /\ source > Sources => EndsRight(writes["client"])
    /\ at["service"] = "draw" => EndsRight(writes["service"])
    /\ Idle => EndsRight(<<>>)

LEMMA InitScreen == Init => ScreenInv
BY DEF Init, ScreenInv

(* Nothing is claimed while a thread is neither drawing nor done. *)
LEMMA ScreenFree ==
  ASSUME MemoryInv',
         \/ at'["client"] \in {"free", "null", "source", "fetch", "total",
                               "clamp", "pick"}
         \/ at'["service"] \in {"move", "total", "clamp", "pick"}
         \/ at'["client"] = "draw" /\ ~ (source' > Sources)
  PROVE  ScreenInv'
BY DEF ScreenInv, MemoryInv, Idle

LEMMA ScreenOnPick ==
  ASSUME SafeInv, IndexInv, ScreenInv, SafeInv', NEW t \in Threads, Pick(t),
         ~ Crash
  PROVE  ScreenInv'
<1>1. SUFFICES ASSUME ~ overlap', list' # <<>> PROVE ScreenInv'
  BY DEF ScreenInv
<1> DEFINE found == tot[t] # 0 /\ current_screen + 1 \in DOMAIN list
           ws == IF found THEN Show(Chosen) ELSE ShowNothing
<1>2. /\ at' = [at EXCEPT ![t] = "draw"] /\ at[t] = "pick"
      /\ writes' = [writes EXCEPT ![t] = ws]
      /\ UNCHANGED <<client, list, current_screen, screen, overlap, source>>
  BY DEF Pick, Thread, Goto, heap
<1>3. /\ Threads = {"client", "service"}
      /\ at \in [Threads -> ClientPlaces \cup ServicePlaces]
      /\ writes \in [Threads -> Writes]
  BY DEF SafeInv, TypeInv, Threads
<1>4. at[IF t = "client" THEN "service" ELSE "client"]
        = IF t = "client" THEN "idle" ELSE "sleep"
  BY <1>1, <1>2, <1>3 DEF SafeInv, MemoryInv
<1>5. tot[t] = Len(list) /\ InList
  BY <1>1, <1>2, <1>3, <1>4 DEF IndexInv, Checked
<1>6. found
  BY <1>1, <1>2, <1>5, NotEmpty DEF InList, SafeInv
<1>7. Chosen \in Items /\ client \in {"mail", "rss"}
  BY <1>6, ChosenType DEF SafeInv, TypeInv
<1>8. writes'[t] = Show(Chosen)
  BY <1>2, <1>3, <1>6
<1>9. \A w \in Widgets : Settles(screen, Show(Chosen), w, Line(Chosen, w))
  BY <1>7, ShowSettles
<1>10. EndsRight(writes[t])'
  BY <1>2, <1>8, <1>9 DEF EndsRight, Chosen
<1> HIDE DEF ws, found
<1>11. CASE t = "client"
  <2>1. at'["client"] = "draw" /\ at'["service"] = "idle"
    BY <1>2, <1>3, <1>4, <1>11
  <2> QED
    BY <1>10, <1>11, <2>1 DEF ScreenInv, Idle
<1>12. CASE t = "service"
  <2>1. at'["service"] = "draw" /\ at'["client"] = "sleep"
    BY <1>2, <1>3, <1>4, <1>12
  <2> QED
    BY <1>10, <1>12, <2>1 DEF ScreenInv, Idle
<1> QED
  BY <1>3, <1>11, <1>12

LEMMA ScreenOnDraw ==
  ASSUME SafeInv, ScreenInv, SafeInv', NEW t \in Threads, Draw(t), ~ Crash
  PROVE  ScreenInv'
<1>1. SUFFICES ASSUME ~ overlap', list' # <<>> PROVE ScreenInv'
  BY DEF ScreenInv
<1> DEFINE ws == writes[t]
<1>2. /\ ws # <<>> /\ at[t] = "draw"
      /\ screen' = [screen EXCEPT ![Head(ws)[1]] = Head(ws)[2]]
      /\ writes' = [writes EXCEPT ![t] = Tail(ws)]
      /\ UNCHANGED <<at, list, current_screen, overlap, source>>
  BY DEF Draw, Thread, heap
<1>3. /\ Threads = {"client", "service"}
      /\ writes \in [Threads -> Writes]
      /\ screen \in [Widgets -> Texts]
  BY DEF SafeInv, TypeInv, Threads
<1>4. writes'[t] = Tail(ws) /\ ws \in Writes
  BY <1>2, <1>3
<1> HIDE DEF ws
<1>5. \A w \in Widgets : \A text :
        Settles(screen, ws, w, text) => Settles(screen', Tail(ws), w, text)
  BY <1>2, <1>3, <1>4, OneWrite
<1>6. EndsRight(ws) => EndsRight(writes[t])'
  BY <1>2, <1>4, <1>5 DEF EndsRight, Chosen
<1>7. CASE t = "client"
  BY <1>1, <1>2, <1>6, <1>7 DEF ws, ScreenInv, Idle, SafeInv, MemoryInv
<1>8. CASE t = "service"
  BY <1>1, <1>2, <1>6, <1>8 DEF ws, ScreenInv, Idle, SafeInv, MemoryInv
<1> QED
  BY <1>3, <1>7, <1>8

LEMMA ScreenOnDrawn ==
  ASSUME SafeInv, ScreenInv, SafeInv', NEW t \in Threads, NEW next,
         Drawn(t, next),
         \/ t = "client" /\ next = IF source <= Sources THEN "fetch" ELSE "sleep"
         \/ t = "service" /\ next = "idle"
  PROVE  ScreenInv'
<1>1. SUFFICES ASSUME ~ overlap', list' # <<>> PROVE ScreenInv'
  BY DEF ScreenInv
<1>2. /\ at' = [at EXCEPT ![t] = next] /\ at[t] = "draw"
      /\ writes[t] = <<>>
      /\ UNCHANGED <<list, current_screen, source, overlap, screen, writes>>
      /\ at \in [Threads -> ClientPlaces \cup ServicePlaces]
      /\ source \in Int /\ Sources \in Int
  BY BrowserAssumption DEF Drawn, Thread, Goto, heap, SafeInv, TypeInv
<1>3. EndsRight(<<>>)' = EndsRight(<<>>)
  BY <1>2 DEF EndsRight, Chosen
<1>4. CASE t = "client" /\ source <= Sources
  <2>1. at'["client"] = "fetch"
    BY <1>2, <1>4
  <2> QED
    BY <2>1, ScreenFree DEF SafeInv
<1>5. CASE t = "client" /\ source > Sources
  <2>1. at'["client"] = "sleep" /\ at'["service"] = "idle"
    BY <1>1, <1>2, <1>5 DEF SafeInv, MemoryInv, Threads
  <2>2. EndsRight(<<>>)
    BY <1>1, <1>2, <1>5 DEF ScreenInv
  <2> QED
    BY <1>3, <2>1, <2>2 DEF ScreenInv
<1>6. CASE t = "service"
  <2>1. at'["client"] = "sleep" /\ at'["service"] = "idle"
    BY <1>1, <1>2, <1>6 DEF SafeInv, MemoryInv, Threads
  <2>2. EndsRight(<<>>)
    BY <1>1, <1>2, <1>6 DEF ScreenInv
  <2> QED
    BY <1>3, <2>1, <2>2 DEF ScreenInv
<1> QED
  BY <1>2, <1>4, <1>5, <1>6

LEMMA ScreenStep ==
  SafeInv /\ IndexInv /\ ScreenInv /\ [Next]_vars /\ SafeInv' => ScreenInv'
<1> SUFFICES ASSUME SafeInv, IndexInv, ScreenInv, [Next]_vars, SafeInv'
             PROVE  ScreenInv'
  OBVIOUS
<1> USE DEF Thread, Goto, heap
<1>0. /\ at \in [Threads -> ClientPlaces \cup ServicePlaces]
      /\ "client" \in Threads /\ "service" \in Threads /\ "client" # "service"
      /\ source \in Int /\ Sources \in Int
  BY BrowserAssumption DEF SafeInv, TypeInv, Threads
<1>1. CASE UNCHANGED vars \/ Crash
  <2>1. UNCHANGED <<list, current_screen, at, writes, source, overlap, screen>>
    BY <1>1 DEF vars, Crash
  <2> QED
    BY <2>1 DEF ScreenInv, EndsRight, Chosen, Idle
<1>2. CASE CheckBegins \/ FreeItem \/ FreeNodes \/ ForgetList \/ SourceDone
             \/ AllFetched \/ (Append1 /\ ~ Crash)
  <2>1. at'["client"] \in {"free", "null", "source", "fetch", "total"}
    BY <1>0, <1>2 DEF CheckBegins, FreeItem, FreeNodes, ForgetList, SourceDone,
       AllFetched, Append1
  <2> QED
    BY <2>1, ScreenFree DEF SafeInv
<1>3. CASE NextSource
  <2>1. at'["client"] = "draw" /\ ~ (source' > Sources)
    BY <1>0, <1>3 DEF NextSource
  <2> QED
    BY <2>1, ScreenFree DEF SafeInv
<1>4. CASE Event \/ Move
  <2>1. at'["service"] \in {"move", "total"}
    BY <1>0, <1>4 DEF Event, Move
  <2> QED
    BY <2>1, ScreenFree DEF SafeInv
<1>5. ASSUME NEW t \in Threads, Total(t) \/ Clamp(t), ~ Crash
      PROVE  ScreenInv'
  <2>1. at'[t] \in {"clamp", "pick"}
    BY <1>0, <1>5 DEF Total, Clamp
  <2> QED
    BY <2>1, ScreenFree DEF SafeInv, Threads
<1>6. CASE Drawn("client", IF source <= Sources THEN "fetch" ELSE "sleep")
  BY <1>0, <1>6, ScreenOnDrawn
<1>7. CASE Drawn("service", "idle")
  BY <1>0, <1>7, ScreenOnDrawn
<1> QED
  BY <1>1, <1>2, <1>3, <1>4, <1>5, <1>6, <1>7, Actions, ScreenOnPick,
     ScreenOnDraw

(* The types, what is freed when, and where the index is. *)
LEMMA IndexInvariant == Spec => [](SafeInv /\ IndexInv)
<1>1. IndexInv /\ SafeInv /\ [Next]_vars => IndexInv'
  BY IndexStep
<1> QED
  BY <1>1, InitIndex, SafeInvariant, PTL DEF Spec

(* After a check or a callback that nothing disturbed the screen has the     *)
(* title and the lines of the item at current_screen, in both clients, for   *)
(* any lists and whatever an earlier overlap has left there.                 *)
THEOREM UndisturbedShowsCurrent == Spec => []ShowsCurrent
<1> DEFINE Inv == SafeInv /\ IndexInv /\ ScreenInv
<1>1. Inv => ShowsCurrent
  <2> SUFFICES ASSUME Inv, Idle, ~ fault, ~ overlap, list # <<>>
               PROVE  /\ current_screen + 1 \in DOMAIN list
                      /\ screen = [title |-> Chosen, line1 |-> Chosen,
                                   line2 |-> IF Chosen.number \in Tall
                                               THEN Chosen ELSE Blank]
    BY DEF ShowsCurrent
  <2>1. current_screen + 1 \in DOMAIN list
    BY NotEmpty DEF IndexInv, Checked, Idle, InList, SafeInv
  <2>2. \A w \in Widgets : screen[w] = Line(Chosen, w)
    BY DEF ScreenInv, EndsRight, Settles
  <2>3. /\ screen["title"] = Chosen
        /\ screen["line1"] = Chosen
        /\ screen["line2"] = IF Chosen.number \in Tall THEN Chosen ELSE Blank
    BY <2>2 DEF Line, Widgets
  <2>4. screen \in [{"title", "line1", "line2"} -> Texts]
    BY DEF SafeInv, TypeInv, Widgets
  <2> QED
    BY <2>1, <2>3, <2>4
<1>2. SafeInv /\ IndexInv /\ ScreenInv /\ [Next]_vars /\ SafeInv' => ScreenInv'
  BY ScreenStep
<1> QED
  BY <1>1, <1>2, InitScreen, IndexInvariant, PTL DEF Spec

-----------------------------------------------------------------------------
(* Turning the page.                                                        *)

(* A callback that has the client to itself starts from an index in the      *)
(* list, and clamps with the length of the list it will show.                *)
PageInv ==
  ~ overlap /\ list # <<>> =>
    /\ at["service"] # "idle" =>
         event.from \in 0 .. Len(list) - 1 /\ event.step \in {-1, 1}
    /\ at["service"] \in {"total", "clamp"} =>
         current_screen = event.from + event.step
    /\ at["service"] \in {"pick", "draw"} =>
         current_screen = Clamped(event.from + event.step, Len(list))

LEMMA InitPage == Init => PageInv
BY DEF Init, PageInv

LEMMA PageOnService ==
  ASSUME SafeInv, IndexInv, PageInv, ~ Crash,
         Event \/ Move \/ Total("service") \/ Clamp("service")
           \/ Pick("service") \/ Draw("service") \/ Drawn("service", "idle")
  PROVE  PageInv'
<1> USE DEF Thread, Goto, heap
<1>0. /\ at \in [Threads -> ClientPlaces \cup ServicePlaces]
      /\ "client" \in Threads /\ "service" \in Threads
      /\ current_screen \in Int
  BY DEF SafeInv, TypeInv, Threads
<1>1. CASE Event
  <2>1. /\ at["service"] = "idle" /\ at'["service"] = "move"
        /\ event'.from = current_screen /\ event'.step \in {1, -1}
        /\ UNCHANGED <<list, current_screen>>
    BY <1>0, <1>1 DEF Event
  <2>2. ~ overlap' => at["client"] = "sleep"
    BY <1>1 DEF Event
  <2>3. ~ overlap' /\ list # <<>> => InList
    BY <2>1, <2>2 DEF IndexInv, Checked
  <2> QED
    BY <2>1, <2>3 DEF PageInv, InList
<1>2. CASE Move
  <2>1. /\ at["service"] = "move" /\ at'["service"] = "total"
        /\ current_screen' = event.from + event.step
        /\ UNCHANGED <<list, event, overlap>>
    BY <1>0, <1>2 DEF Move
  <2> QED
    BY <2>1 DEF PageInv
<1>3. CASE Total("service")
  <2>1. /\ at["service"] = "total" /\ at'["service"] = "clamp"
        /\ UNCHANGED <<list, current_screen, event, overlap>>
    BY <1>0, <1>3 DEF Total
  <2> QED
    BY <2>1 DEF PageInv
<1>4. CASE Clamp("service")
  <2>1. /\ at["service"] = "clamp" /\ at'["service"] = "pick"
        /\ current_screen' = Clamped(current_screen, tot["service"])
        /\ UNCHANGED <<list, event, overlap>>
    BY <1>0, <1>4 DEF Clamp
  <2>2. ~ overlap => tot["service"] = Len(list)
    BY <2>1 DEF IndexInv
  <2> QED
    BY <2>1, <2>2 DEF PageInv
<1>5. CASE Pick("service")
  <2>1. /\ at["service"] = "pick" /\ at'["service"] = "draw"
        /\ UNCHANGED <<list, current_screen, event, overlap>>
    BY <1>0, <1>5 DEF Pick
  <2> QED
    BY <2>1 DEF PageInv
<1>6. CASE Draw("service")
  <2>1. UNCHANGED <<at, list, current_screen, event, overlap>>
    BY <1>6 DEF Draw
  <2> QED
    BY <2>1 DEF PageInv
<1>7. CASE Drawn("service", "idle")
  <2>1. at'["service"] = "idle"
    BY <1>0, <1>7 DEF Drawn
  <2> QED
    BY <2>1 DEF PageInv
<1> QED
  BY <1>1, <1>2, <1>3, <1>4, <1>5, <1>6, <1>7

(* While the client's thread works without a callback, the service is idle.  *)
LEMMA PageOnClient ==
  ASSUME SafeInv, SafeInv',
         \/ CheckBegins \/ FreeItem \/ FreeNodes \/ ForgetList \/ NextSource
         \/ Append1 \/ SourceDone \/ AllFetched
         \/ Total("client") \/ Clamp("client") \/ Pick("client")
         \/ Draw("client")
         \/ Drawn("client", IF source <= Sources THEN "fetch" ELSE "sleep"),
         ~ Crash
  PROVE  PageInv'
<1> USE DEF Thread, Goto, heap
<1>0. /\ at \in [Threads -> ClientPlaces \cup ServicePlaces]
      /\ "client" \in Threads /\ "service" \in Threads /\ "client" # "service"
  BY DEF SafeInv, TypeInv, Threads
<1>1. at'["service"] = at["service"]
  BY <1>0 DEF CheckBegins, FreeItem, FreeNodes, ForgetList, NextSource, Append1,
     SourceDone, AllFetched, Total, Clamp, Pick, Draw, Drawn
<1>2. CASE CheckBegins
  <2>1. ~ overlap' => at["service"] = "idle"
    BY <1>2 DEF CheckBegins
  <2> QED
    BY <1>1, <2>1 DEF PageInv
<1>3. CASE ~ CheckBegins
  <2>1. at["client"] # "sleep" /\ UNCHANGED overlap
    BY <1>3 DEF FreeItem, FreeNodes, ForgetList, NextSource, Append1, SourceDone,
       AllFetched, Total, Clamp, Pick, Draw, Drawn
  <2>2. ~ overlap' => at["service"] = "idle"
    BY <2>1 DEF SafeInv, MemoryInv
  <2> QED
    BY <1>1, <2>2 DEF PageInv
<1> QED
  BY <1>2, <1>3

LEMMA PageStep ==
  SafeInv /\ IndexInv /\ PageInv /\ [Next]_vars /\ SafeInv' => PageInv'
<1> SUFFICES ASSUME SafeInv, IndexInv, PageInv, [Next]_vars, SafeInv'
             PROVE  PageInv'
  OBVIOUS
<1>1. CASE UNCHANGED vars \/ Crash
  <2>1. UNCHANGED <<list, current_screen, at, event, overlap>>
    BY <1>1 DEF vars, Crash
  <2> QED
    BY <2>1 DEF PageInv
<1>2. CASE ~ Crash
  <2>1. Threads = {"client", "service"}
    BY DEF Threads
  <2> QED
    BY <1>1, <1>2, <2>1, Actions, PageOnService, PageOnClient
<1> QED
  BY <1>1, <1>2

(* One step from an index in the list is clamped as modular arithmetic would. *)
LEMMA ClampedIsModulo ==
  ASSUME NEW length \in Nat \ {0}, NEW from \in 0 .. length - 1,
         NEW step \in {-1, 1}
  PROVE  Clamped(from + step, length) = (from + step) % length
<1>1. CASE from + step = -1
  <2>1. -1 = length * (-1) + (length - 1)
    OBVIOUS
  <2>2. (-1) % length = length - 1
    BY <2>1
  <2> QED
    BY <1>1, <2>2 DEF Clamped
<1>2. CASE from + step = length
  <2>1. length % length = 0
    OBVIOUS
  <2> QED
    BY <1>2, <2>1 DEF Clamped
<1>3. CASE from + step \in 0 .. length - 1
  <2>1. (from + step) % length = from + step
    BY <1>3
  <2> QED
    BY <1>3, <2>1 DEF Clamped
<1> QED
  BY <1>1, <1>2, <1>3

(* A key or the end of the screen's turn leads to the neighbour of the item  *)
(* the user saw, and from either end of the list to the other, for lists of  *)
(* any length: no earlier overlap leaves an index from which it does not.    *)
THEOREM UndisturbedTurnsPage == Spec => []TurnsPage
<1>1. SafeInv /\ PageInv => TurnsPage
  <2> SUFFICES ASSUME SafeInv, PageInv, at["service"] = "draw", ~ overlap,
                      list # <<>>
               PROVE  current_screen = (event.from + event.step) % Len(list)
    BY DEF TurnsPage
  <2>1. Len(list) \in Nat \ {0}
    BY NotEmpty DEF SafeInv
  <2>2. /\ event.from \in 0 .. Len(list) - 1 /\ event.step \in {-1, 1}
        /\ current_screen = Clamped(event.from + event.step, Len(list))
    BY DEF PageInv
  <2> QED
    BY <2>1, <2>2, ClampedIsModulo
<1>2. SafeInv /\ IndexInv /\ PageInv /\ [Next]_vars /\ SafeInv' => PageInv'
  BY PageStep
<1> QED
  BY <1>1, <1>2, InitPage, IndexInvariant, PTL DEF Spec

===============================================================================
