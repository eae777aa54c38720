------------------------- MODULE ServiceThreadProofs -------------------------
(***************************************************************************)
(* What holds of ServiceThread for every set of clients, every callback     *)
(* table and every bound: the type invariant, the meaning of client_number, *)
(* that a healthy program hands out no dead cookie and uses no freed queue  *)
(* or mutex before it exits, which clients can leave a dead cookie at all,  *)
(* that a command never outruns its screen, and that the exit lets nobody   *)
(* add to the queue.                                                        *)
(*                                                                         *)
(* client_number >= 0 is not inductive: it rests on the counter being the   *)
(* number of counted clients, and that rests on where each client thread    *)
(* stands with respect to the table (Membership).                           *)
(***************************************************************************)
EXTENDS ServiceThread, FiniteSetTheorems, TLAPS

(* A client before its insertion is not in the table, one that has yet to    *)
(* count or remove itself is, and one that lives outside it found g_exit set.*)
Membership ==
  /\ client_data = clients
  /\ \A c \in Clients :
       /\ pc[c] \in {"start", "insert", "uncount"} => c \notin clients
       /\ pc[c] \in {"count", "remove"} => c \in clients
       /\ pc[c] \in {"create", "config", "run", "deinit", "unregister"} =>
            c \in clients \/ g_exit

CountInv == TypeOK /\ Membership /\ CountMatches

LEMMA InitCount == Init => CountInv
<1> SUFFICES ASSUME Init PROVE CountInv
  OBVIOUS
<1>a. call \in CallRecord
  BY DEF Init, NoCall, CallRecord
<1>b. queue \in Seq(Command)
  BY DEF Init
<1>1. TypeOK
  BY <1>a, <1>b DEF Init, TypeOK, Locations, ServiceLocations, Faults
<1>2. Membership
  BY DEF Init, Membership
<1>3. Counted = {}
  BY DEF Init, Counted
<1>4. CountMatches
  BY <1>3, FS_EmptySet DEF CountMatches, Init
<1> QED
  BY <1>1, <1>2, <1>4 DEF CountInv

(* The clients counted are always a finite set. *)
LEMMA CountedFinite == IsFiniteSet(Counted) /\ Cardinality(Counted) \in Nat
<1>1. Counted \subseteq Clients
  BY DEF Counted
<1> QED
  BY <1>1, ClientsAssumption, FS_Subset, FS_CardinalityType

(* Steps that touch neither the table nor a client's place in its life. *)
LEMMA OffRegistry ==
  ASSUME CountInv, UNCHANGED <<registry, pc>>, g_exit => g_exit'
  PROVE  Membership' /\ CountMatches'
<1>1. Membership'
  BY DEF CountInv, Membership, registry
<1>2. Counted' = Counted
  BY DEF Counted, registry
<1>3. CountMatches'
  BY <1>2 DEF CountInv, CountMatches, registry
<1> QED
  BY <1>1, <1>3

(* Steps of one client between places that count the same. *)
LEMMA SameCount ==
  ASSUME CountInv, NEW c \in Clients, NEW from \in Locations, NEW to \in Locations,
         Move(c, from, to), UNCHANGED <<registry, g_exit>>,
         from \notin {"count", "uncount"}, to \notin {"count", "uncount"},
         to \in {"start", "insert"} => from \in {"start", "insert"},
         to = "remove" => from = "remove" \/ (from = "unregister" /\ ~ g_exit),
         to \in {"create", "config", "run", "deinit", "unregister"} =>
           g_exit \/ from \in {"create", "config", "run", "deinit", "unregister"}
  PROVE  Membership' /\ CountMatches'
<1>1. pc[c] = from /\ pc' = [pc EXCEPT ![c] = to] /\ pc \in [Clients -> Locations]
  BY DEF Move, CountInv, TypeOK
<1>2. Membership'
  BY <1>1 DEF CountInv, Membership, registry
<1>3. Counted' = Counted
  BY <1>1 DEF Counted, registry
<1>4. CountMatches'
  BY <1>3 DEF CountInv, CountMatches, registry
<1> QED
  BY <1>2, <1>4

LEMMA RegisterKeeps ==
  ASSUME CountInv, NEW c \in Clients, Register(c)
  PROVE  Membership' /\ CountMatches'
<1>0. pc \in [Clients -> Locations] /\ client_number \in Nat /\ clients \subseteq Clients
  BY DEF CountInv, TypeOK
<1>1. CASE RegisterTest(c)
  <2>1. pc' = [pc EXCEPT ![c] = IF g_exit THEN "create" ELSE "insert"] /\ pc[c] = "start"
        /\ UNCHANGED <<registry, g_exit>>
    BY <1>1 DEF RegisterTest, Move
  <2>2. Membership'
    BY <1>0, <2>1 DEF CountInv, Membership, registry
  <2>3. Counted' = Counted
    BY <1>0, <2>1 DEF Counted, registry
  <2>4. CountMatches'
    BY <2>1, <2>3 DEF CountInv, CountMatches, registry
  <2> QED
    BY <2>2, <2>4
<1>2. CASE RegisterInsert(c)
  <2>1. pc' = [pc EXCEPT ![c] = "count"] /\ pc[c] = "insert"
        /\ clients' = clients \cup {c} /\ client_data' = client_data \cup {c}
        /\ UNCHANGED <<client_number, g_exit>>
    BY <1>2 DEF RegisterInsert, Move
  <2>2. Membership'
    BY <1>0, <2>1 DEF CountInv, Membership
  <2>3. Counted' = Counted
    BY <1>0, <2>1 DEF Counted, CountInv, Membership
  <2>4. CountMatches'
    BY <2>1, <2>3 DEF CountInv, CountMatches
  <2> QED
    BY <2>2, <2>4
<1>3. CASE RegisterCount(c)
  <2>1. pc' = [pc EXCEPT ![c] = "create"] /\ pc[c] = "count"
        /\ client_number' = client_number + 1
        /\ UNCHANGED <<clients, client_data, g_exit>>
    BY <1>3 DEF RegisterCount, Move
  <2>2. Membership'
    BY <1>0, <2>1 DEF CountInv, Membership
  <2>3. Counted' = Counted \cup {c} /\ c \notin Counted
    BY <1>0, <2>1 DEF Counted, CountInv, Membership
  <2>4. Cardinality(Counted') = Cardinality(Counted) + 1
    BY <2>3, CountedFinite, FS_AddElement
  <2>5. CountMatches'
    BY <2>1, <2>4 DEF CountInv, CountMatches
  <2> QED
    BY <2>2, <2>5
<1> QED
  BY <1>1, <1>2, <1>3 DEF Register

LEMMA UnregisterKeeps ==
  ASSUME CountInv, NEW c \in Clients, Unregister(c)
  PROVE  Membership' /\ CountMatches'
<1>0. pc \in [Clients -> Locations] /\ client_number \in Nat /\ clients \subseteq Clients
  BY DEF CountInv, TypeOK
<1>1. CASE UnregisterTest(c)
  <2>1. pc' = [pc EXCEPT ![c] = IF g_exit THEN "gone" ELSE "remove"] /\ pc[c] = "unregister"
        /\ UNCHANGED <<registry, g_exit>>
    BY <1>1 DEF UnregisterTest, Move
  <2>2. Membership'
    BY <1>0, <2>1 DEF CountInv, Membership, registry
  <2>3. Counted' = Counted
    BY <1>0, <2>1 DEF Counted, registry
  <2>4. CountMatches'
    BY <2>1, <2>3 DEF CountInv, CountMatches, registry
  <2> QED
    BY <2>2, <2>4
<1>2. CASE UnregisterRemove(c)
  <2>1. pc' = [pc EXCEPT ![c] = "uncount"] /\ pc[c] = "remove"
        /\ clients' = clients \ {c} /\ client_data' = client_data \ {c}
        /\ UNCHANGED <<client_number, g_exit>>
    BY <1>2 DEF UnregisterRemove, Move
  <2>2. Membership'
    BY <1>0, <2>1 DEF CountInv, Membership
  <2>3. Counted' = Counted
    BY <1>0, <2>1 DEF Counted, CountInv, Membership
  <2>4. CountMatches'
    BY <2>1, <2>3 DEF CountInv, CountMatches
  <2> QED
    BY <2>2, <2>4
<1>3. CASE UnregisterCount(c)
  <2>1. pc' = [pc EXCEPT ![c] = "gone"] /\ pc[c] = "uncount"
        /\ client_number' = client_number - 1
        /\ UNCHANGED <<clients, client_data>> /\ (g_exit => g_exit')
    BY <1>3 DEF UnregisterCount, Move
  <2>2. Membership'
    BY <1>0, <2>1 DEF CountInv, Membership
  <2>3. Counted' = Counted \ {c} /\ c \in Counted
    BY <1>0, <2>1 DEF Counted, CountInv, Membership
  <2>4. Cardinality(Counted') = Cardinality(Counted) - 1
    BY <2>3, CountedFinite, FS_RemoveElement
  <2>5. CountMatches'
    BY <2>1, <2>4 DEF CountInv, CountMatches
  <2> QED
    BY <2>2, <2>5
<1> QED
  BY <1>1, <1>2, <1>3 DEF Unregister

-----------------------------------------------------------------------------
(* The types of what the other steps write. *)

LEMMA RegisterTypes ==
  ASSUME CountInv, CountMatches', NEW c \in Clients, Register(c) \/ Unregister(c)
  PROVE  TypeOK'
<1>0. TypeOK /\ (IsFiniteSet(Counted') => client_number' \in Nat)
  BY FS_CardinalityType DEF CountInv, CountMatches
<1>1. client_number' \in Nat
  <2>1. Counted' \subseteq Clients
    BY DEF Counted
  <2> QED
    BY <1>0, <2>1, ClientsAssumption, FS_Subset
<1>2. CASE RegisterTest(c)
  BY <1>0, <1>1, <1>2 DEF RegisterTest, Move, TypeOK, Locations, registry
<1>3. CASE RegisterInsert(c)
  BY <1>0, <1>1, <1>3 DEF RegisterInsert, Move, TypeOK, Locations
<1>4. CASE RegisterCount(c)
  BY <1>0, <1>1, <1>4 DEF RegisterCount, Move, TypeOK, Locations
<1>5. CASE UnregisterTest(c)
  BY <1>0, <1>1, <1>5 DEF UnregisterTest, Move, TypeOK, Locations, registry
<1>6. CASE UnregisterRemove(c)
  BY <1>0, <1>1, <1>6 DEF UnregisterRemove, Move, TypeOK, Locations
<1>7. CASE UnregisterCount(c)
  BY <1>0, <1>1, <1>7 DEF UnregisterCount, Move, TypeOK, Locations
<1> QED
  BY <1>2, <1>3, <1>4, <1>5, <1>6, <1>7 DEF Register, Unregister

LEMMA RegistrySteps ==
  ASSUME CountInv, NEW c \in Clients, Register(c) \/ Unregister(c)
  PROVE  CountInv'
<1>1. Membership' /\ CountMatches'
  BY RegisterKeeps, UnregisterKeeps
<1> QED
  BY <1>1, RegisterTypes DEF CountInv

(* Crashing, queueing and pushing. *)
LEMMA CommandSteps ==
  ASSUME CountInv, NEW c \in Clients,
         LockFreedMutex(c) \/ Push(c) \/ PushOnFreedQueue(c)
  PROVE  CountInv'
<1>0. TypeOK
  BY DEF CountInv
<1>1. CASE LockFreedMutex(c)
  <2>1. TypeOK'
    BY <1>0, <1>1 DEF LockFreedMutex, Crash, TypeOK, Faults, registry
  <2> QED
    BY <1>1, <2>1, OffRegistry DEF LockFreedMutex, Crash, CountInv, registry
<1>2. CASE Push(c)
  <2>1. armed[c] \in Verbs
    BY <1>0, <1>2 DEF Push, TypeOK
  <2>2. [from |-> c, verb |-> armed[c]] \in Command
    BY <2>1 DEF Command
  <2>3. queue' \in Seq(Command)
    BY <1>0, <1>2, <2>2 DEF Push, TypeOK
  <2>4. TypeOK'
    BY <1>0, <1>2, <2>3 DEF Push, TypeOK, registry
  <2> QED
    BY <1>2, <2>4, OffRegistry DEF Push, CountInv, registry
<1>3. CASE PushOnFreedQueue(c)
  <2>1. TypeOK'
    BY <1>0, <1>3 DEF PushOnFreedQueue, Crash, TypeOK, Faults, registry
  <2> QED
    BY <1>3, <2>1, OffRegistry DEF PushOnFreedQueue, Crash, CountInv, registry
<1> QED
  BY <1>1, <1>2, <1>3

(* The life of a client between registering and leaving. *)
LEMMA LifeSteps ==
  ASSUME CountInv, NEW c \in Clients,
         CreateScreen(c) \/ Draw(c) \/ InitFails(c) \/ ConnectFails(c)
           \/ InitDone(c) \/ LoopExit(c) \/ Deinit(c)
  PROVE  CountInv'
<1>0. TypeOK
  BY DEF CountInv
<1>1. CASE CreateScreen(c)
  <2>1. Move(c, "create", "config") /\ UNCHANGED <<registry, g_exit>>
    BY <1>1 DEF CreateScreen
  <2>2. TypeOK'
    BY <1>0, <1>1 DEF CreateScreen, Arm, Move, TypeOK, Verbs, Locations, registry
  <2>3. Membership' /\ CountMatches'
    BY <2>1, SameCount DEF Locations
  <2> QED
    BY <2>2, <2>3 DEF CountInv
<1>2. CASE Draw(c)
  <2>1. pc' = pc /\ UNCHANGED <<registry, g_exit>>
    BY <1>0, <1>2 DEF Draw, Move, TypeOK
  <2>2. TypeOK'
    BY <1>0, <1>2, <2>1 DEF Draw, Arm, Move, TypeOK, Verbs, registry
  <2> QED
    BY <2>1, <2>2, OffRegistry DEF CountInv
<1>3. CASE InitFails(c)
  <2>1. Move(c, "config", "gone") /\ UNCHANGED <<registry, g_exit>>
    BY <1>3 DEF InitFails
  <2>2. TypeOK'
    BY <1>0, <1>3 DEF InitFails, Move, TypeOK, Locations, registry
  <2>3. Membership' /\ CountMatches'
    BY <2>1, SameCount DEF Locations
  <2> QED
    BY <2>2, <2>3 DEF CountInv
<1>4. CASE ConnectFails(c)
  <2>1. Move(c, "config", "deinit") /\ UNCHANGED <<registry, g_exit>>
    BY <1>4 DEF ConnectFails
  <2>2. TypeOK'
    BY <1>0, <1>4 DEF ConnectFails, Move, TypeOK, Locations, registry
  <2>3. Membership' /\ CountMatches'
    BY <2>1, SameCount DEF Locations
  <2> QED
    BY <2>2, <2>3 DEF CountInv
<1>5. CASE InitDone(c)
  <2>1. Move(c, "config", "run") /\ UNCHANGED <<registry, g_exit>>
    BY <1>5 DEF InitDone
  <2>2. TypeOK'
    BY <1>0, <1>5 DEF InitDone, Move, TypeOK, Locations, registry
  <2>3. Membership' /\ CountMatches'
    BY <2>1, SameCount DEF Locations
  <2> QED
    BY <2>2, <2>3 DEF CountInv
<1>6. CASE LoopExit(c)
  <2>1. Move(c, "run", "unregister") /\ UNCHANGED <<registry, g_exit>>
    BY <1>6 DEF LoopExit
  <2>2. TypeOK'
    BY <1>0, <1>6 DEF LoopExit, Move, TypeOK, Locations, registry
  <2>3. Membership' /\ CountMatches'
    BY <2>1, SameCount DEF Locations
  <2> QED
    BY <2>2, <2>3 DEF CountInv
<1>7. CASE Deinit(c)
  <2>1. Move(c, "deinit", "unregister") /\ UNCHANGED <<registry, g_exit>>
    BY <1>7 DEF Deinit
  <2>2. TypeOK'
    BY <1>0, <1>7 DEF Deinit, Arm, Move, TypeOK, Verbs, Locations, registry
  <2>3. Membership' /\ CountMatches'
    BY <2>1, SameCount DEF Locations
  <2> QED
    BY <2>2, <2>3 DEF CountInv
<1> QED
  BY <1>1, <1>2, <1>3, <1>4, <1>5, <1>6, <1>7

(* The service thread never writes the table of clients. *)
LEMMA ServiceOffRegistry ==
  ASSUME ServiceProgress \/ EndOfLines \/ ServerDies \/ Input \/ CallbackDraw \/ Signal
  PROVE  UNCHANGED <<registry, pc>> /\ (g_exit => g_exit')
<1>1. ServiceProgress => UNCHANGED <<registry, pc, g_exit>>
  BY DEF ServiceProgress, LoopTest, SendCommand, PopTimesOut, NoRequest, LeaveOnExit,
     FreeAll, JoinAll, Lookup, CallbackReturn, CallbackFaults, Crash
<1>2. EndOfLines \/ ServerDies => UNCHANGED <<registry, pc, g_exit>>
  BY DEF EndOfLines, ServerDies, FreeAll
<1>3. Input => UNCHANGED <<registry, pc, g_exit>>
  BY DEF Input, KeyOrIgnore, Listen, MenuEvent, NetRequest
<1>4. CallbackDraw => UNCHANGED <<registry, pc, g_exit>>
  BY DEF CallbackDraw
<1>5. Signal => UNCHANGED <<registry, pc>> /\ g_exit'
  BY DEF Signal
<1> QED
  BY <1>1, <1>2, <1>3, <1>4, <1>5

(* Nobody takes the exit back. *)
LEMMA ExitStays == g_exit /\ [Next]_vars => g_exit'
<1>1. ASSUME NEW c \in Clients, ClientProgress(c) \/ Draw(c) PROVE g_exit => g_exit'
  BY <1>1 DEF ClientProgress, Register, RegisterTest, RegisterInsert, RegisterCount,
     Unregister, UnregisterTest, UnregisterRemove, UnregisterCount,
     LockFreedMutex, Crash, Push, PushOnFreedQueue, CreateScreen, InitFails,
     ConnectFails, InitDone, LoopExit, Deinit, Draw
<1>2. UNCHANGED vars => g_exit' = g_exit
  BY DEF vars
<1> QED
  BY <1>1, <1>2, ServiceOffRegistry DEF Next, Stopped

(* A call about to be made names a client or nobody. *)
LEMMA CallingType ==
  ASSUME call \in CallRecord, NEW kind \in Kinds, NEW c \in Clients \cup {None},
         Calling(kind, c)
  PROVE  call' \in CallRecord
BY DEF Calling, CallRecord

LEMMA LoopTypes ==
  ASSUME TypeOK, ServiceProgress \/ EndOfLines \/ ServerDies
  PROVE  TypeOK'
<1>1. CASE LoopTest
  BY <1>1 DEF LoopTest, TypeOK, ServiceLocations, registry
<1>2. CASE SendCommand
  <2>1. Head(queue) \in Command /\ Tail(queue) \in Seq(Command)
    BY <1>2 DEF SendCommand, TypeOK
  <2>2. Head(queue).from \in Clients
    BY <2>1 DEF Command
  <2>3. lcd_screens' \subseteq Clients
    BY <1>2, <2>2 DEF SendCommand, TypeOK
  <2> QED
    BY <1>2, <2>1, <2>3 DEF SendCommand, TypeOK, ServiceLocations, registry
<1>3. CASE PopTimesOut
  BY <1>3 DEF PopTimesOut, TypeOK, ServiceLocations, registry
<1>4. CASE NoRequest
  BY <1>4 DEF NoRequest, TypeOK, ServiceLocations, registry
<1>5. CASE LeaveOnExit \/ ServerDies
  <2>1. queue' = << >> /\ torn' = TRUE /\ svc' = "join"
    BY <1>5 DEF LeaveOnExit, ServerDies, FreeAll
  <2>2. queue' \in Seq(Command)
    BY <2>1
  <2> QED
    BY <1>5, <2>1, <2>2 DEF LeaveOnExit, ServerDies, FreeAll, TypeOK, ServiceLocations, registry
<1>6. CASE JoinAll
  BY <1>6 DEF JoinAll, TypeOK, ServiceLocations, registry
<1>7. CASE Lookup
  <2>1. FoundCookie(call.kind, call.client) \in Clients \cup {None}
    BY DEF FoundCookie, TypeOK
  <2>2. call' \in CallRecord
    BY <1>7, <2>1 DEF Lookup, TypeOK, CallRecord
  <2> QED
    BY <1>7, <2>2 DEF Lookup, TypeOK, registry
<1>8. CASE CallbackReturn
  <2>1. call' \in CallRecord
    BY <1>8 DEF CallbackReturn, NoCall, CallRecord
  <2> QED
    BY <1>8, <2>1 DEF CallbackReturn, TypeOK, registry
<1>9. CASE CallbackFaults
  BY <1>9 DEF CallbackFaults, Crash, TypeOK, Faults, registry
<1>10. CASE EndOfLines
  BY <1>10 DEF EndOfLines, TypeOK, ServiceLocations, registry
<1> QED
  BY <1>1, <1>2, <1>3, <1>4, <1>5, <1>6, <1>7, <1>8, <1>9, <1>10 DEF ServiceProgress

LEMMA InputTypes ==
  ASSUME TypeOK, Input \/ CallbackDraw \/ Signal
  PROVE  TypeOK'
<1>1. ASSUME NEW kind \in {"key", "ignore"}, KeyOrIgnore(kind) PROVE TypeOK'
  <2>1. call' \in CallRecord
    BY <1>1, CallingType DEF KeyOrIgnore, TypeOK, Kinds
  <2> QED
    BY <1>1, <2>1 DEF KeyOrIgnore, TypeOK, registry
<1>2. ASSUME NEW c \in Clients, Listen(c) PROVE TypeOK'
  <2>1. current' \in Clients \cup {None}
    BY <1>2 DEF Listen
  <2>2. call' \in CallRecord
    BY <1>2, <2>1, CallingType DEF Listen, TypeOK, Kinds
  <2> QED
    BY <1>2, <2>1, <2>2 DEF Listen, TypeOK, registry
<1>3. ASSUME NEW c \in Clients, MenuEvent(c) PROVE TypeOK'
  <2>1. call' \in CallRecord
    BY <1>3, CallingType DEF MenuEvent, TypeOK, Kinds
  <2> QED
    BY <1>3, <2>1 DEF MenuEvent, TypeOK, registry
<1>4. ASSUME NEW c \in Clients, NetRequest(c) PROVE TypeOK'
  <2>1. call' \in CallRecord
    BY <1>4, CallingType DEF NetRequest, TypeOK, Kinds
  <2> QED
    BY <1>4, <2>1 DEF NetRequest, TypeOK, ServiceLocations, registry
<1>5. CASE CallbackDraw
  <2>1. call.cookie \in Clients
    BY <1>5, TableAssumption DEF CallbackDraw
  <2>2. [from |-> call.cookie, verb |-> "draw"] \in Command
    BY <2>1 DEF Command, Verbs
  <2>3. queue' \in Seq(Command)
    BY <1>5, <2>2 DEF CallbackDraw, TypeOK
  <2> QED
    BY <1>5, <2>3 DEF CallbackDraw, TypeOK, registry
<1>6. CASE Signal
  BY <1>6 DEF Signal, TypeOK, registry
<1> QED
  BY <1>1, <1>2, <1>3, <1>4, <1>5, <1>6 DEF Input

LEMMA CountStep == CountInv /\ [Next]_vars => CountInv'
<1> SUFFICES ASSUME CountInv, [Next]_vars PROVE CountInv'
  OBVIOUS
<1>0. TypeOK
  BY DEF CountInv
<1>1. ASSUME NEW c \in Clients, ClientProgress(c) \/ Draw(c) PROVE CountInv'
  BY <1>1, RegistrySteps, CommandSteps, LifeSteps DEF ClientProgress
<1>2. CASE ServiceProgress \/ EndOfLines \/ ServerDies \/ Input \/ CallbackDraw \/ Signal
  <2>1. TypeOK'
    BY <1>0, <1>2, LoopTypes, InputTypes
  <2> QED
    BY <1>2, <2>1, ServiceOffRegistry, OffRegistry DEF CountInv
<1>3. CASE UNCHANGED vars
  <2>1. TypeOK'
    BY <1>0, <1>3 DEF TypeOK, vars, registry
  <2>2. UNCHANGED <<registry, pc>>
    BY <1>3 DEF vars, registry
  <2>3. g_exit' = g_exit
    BY <1>3 DEF vars
  <2> QED
    BY <2>1, <2>2, <2>3, OffRegistry DEF CountInv
<1> QED
  BY <1>1, <1>2, <1>3 DEF Next, Stopped

(* In every reachable state the variables have their types (the counter is   *)
(* never negative), and client_number is the number of clients that are in   *)
(* the table and counted: the program ends itself only when that reaches 0.  *)
THEOREM CountingIsRight == Spec => [](TypeOK /\ CountMatches)
<1>1. CountInv => TypeOK /\ CountMatches
  BY DEF CountInv
<1> QED
  BY <1>1, InitCount, CountStep, PTL DEF Spec

-----------------------------------------------------------------------------
(* The last one out.                                                        *)

(* A client that leaves sets g_exit only if nobody else is counted: a step   *)
(* that sets it and moves a client leaves every client outside the region    *)
(* between counting and uncounting itself.                                  *)
LEMMA LastOneOut ==
  ASSUME CountInv, NEW c \in Clients, UnregisterCount(c), ~ g_exit, g_exit'
  PROVE  \A d \in Clients : pc'[d] \in {"start", "insert", "count", "gone"}
<1>1. client_number = 1 /\ pc[c] = "uncount" /\ pc' = [pc EXCEPT ![c] = "gone"]
  BY DEF UnregisterCount, Move
<1>2. pc \in [Clients -> Locations] /\ c \in Counted
  BY <1>1 DEF CountInv, TypeOK, Counted
<1>3. Cardinality(Counted) = 1
  BY <1>1 DEF CountInv, CountMatches
<1>4. Cardinality(Counted \ {c}) = 0 /\ IsFiniteSet(Counted \ {c})
  BY <1>2, <1>3, CountedFinite, FS_RemoveElement
<1>5. Counted \ {c} = {}
  BY <1>4, FS_EmptySet
<1>6. ASSUME NEW d \in Clients, d # c
      PROVE  pc[d] \in {"start", "insert", "count", "gone"}
  <2>1. d \notin Counted
    BY <1>5, <1>6
  <2>2. pc[d] # "uncount" /\ (pc[d] = "count" \/ d \notin clients)
    BY <2>1 DEF Counted
  <2> QED
    BY <1>2, <2>2 DEF CountInv, Membership, Locations
<1> QED
  BY <1>1, <1>2, <1>6

(* Only a signal or the last client out sets g_exit, and a signal moves      *)
(* nobody: a client that leaves never stops one that is counted.             *)
THEOREM LeavingSparesCounted == Spec => UnregisterSparesCounted
<1> DEFINE P == ~ g_exit /\ g_exit' /\ pc' # pc =>
                  \A c \in Clients : pc'[c] \in {"start", "insert", "count", "gone"}
<1>1. ASSUME CountInv, [Next]_vars PROVE P
  <2>1. ASSUME NEW c \in Clients, Unregister(c) PROVE P
    <3>1. UnregisterTest(c) \/ UnregisterRemove(c) => g_exit' = g_exit
      BY DEF UnregisterTest, UnregisterRemove
    <3> QED
      BY <1>1, <2>1, <3>1, LastOneOut DEF Unregister
  <2>2. ASSUME NEW c \in Clients, ClientProgress(c) \/ Draw(c), ~ Unregister(c)
        PROVE  g_exit' = g_exit
    BY <2>2 DEF ClientProgress, Register, RegisterTest, RegisterInsert, RegisterCount,
       LockFreedMutex, Crash, Push, PushOnFreedQueue, CreateScreen, InitFails,
       ConnectFails, InitDone, LoopExit, Deinit, Draw
  <2>3. ServiceProgress \/ EndOfLines \/ ServerDies \/ Input \/ CallbackDraw \/ Signal
          => pc' = pc
    BY ServiceOffRegistry
  <2>4. UNCHANGED vars => pc' = pc
    BY DEF vars
  <2> QED
    BY <1>1, <2>1, <2>2, <2>3, <2>4 DEF Next, Stopped
<1> QED
  BY <1>1, InitCount, CountStep, PTL DEF Spec, UnregisterSparesCounted

-----------------------------------------------------------------------------
(* Before the exit.                                                         *)

(* While a healthy program runs, every client is between its start and the   *)
(* end of its loop, whoever the service thread points to is registered with  *)
(* a cookie, and nothing has been freed.                                    *)
Running ==
  /\ fault = "none"
  /\ ~ torn
  /\ \A c \in Clients : pc[c] \in {"start", "insert", "count", "create", "config", "run"}
  /\ current \in client_data \cup {None}
  /\ call.stage = "lookup" => call.client \in client_data /\ call.kind # "menu"
  /\ call.stage = "run" => call.cookie \in Clients
RunInv == ~ g_exit => Running

LEMMA InitRuns == Init => RunInv
BY DEF Init, RunInv, Running, NoCall

LEMMA CallingKeepsRunning ==
  ASSUME NEW kind, NEW c \in client_data \cup {None}, kind # "menu",
         Calling(kind, c), call \in CallRecord, Running
  PROVE  /\ call'.stage = "lookup" => call'.client \in client_data /\ call'.kind # "menu"
         /\ call'.stage = "run" => call'.cookie \in Clients
BY DEF Calling, CallRecord, Running

LEMMA ClientsRun ==
  ASSUME CountInv, Running, Healthy, ~ g_exit, NEW c \in Clients,
         ClientProgress(c) \/ Draw(c)
  PROVE  Running'
<1>0. pc \in [Clients -> Locations] /\ call \in CallRecord /\ client_data = clients
  BY DEF CountInv, TypeOK, Membership
<1>1. CASE Register(c)
  BY <1>0, <1>1 DEF Register, RegisterTest, RegisterInsert, RegisterCount, Move, Running,
     registry
<1>2. ~ Unregister(c) /\ ~ LoopExit(c) /\ ~ Deinit(c)
  BY DEF Running, Unregister, UnregisterTest, UnregisterRemove, UnregisterCount,
     LoopExit, Deinit, Move
<1>3. ~ LockFreedMutex(c) /\ ~ PushOnFreedQueue(c)
  BY DEF Running, LockFreedMutex, PushOnFreedQueue
<1>4. ~ InitFails(c) /\ ~ ConnectFails(c)
  BY DEF Healthy, InitFails, ConnectFails
<1>5. CASE Push(c)
  BY <1>5 DEF Push, Running, registry
<1>6. CASE CreateScreen(c)
  BY <1>0, <1>6 DEF CreateScreen, Move, Running, registry
<1>7. CASE InitDone(c)
  BY <1>0, <1>7 DEF InitDone, Move, Running, registry
<1>8. CASE Draw(c)
  BY <1>0, <1>8 DEF Draw, Move, Running, registry
<1> QED
  BY <1>1, <1>2, <1>3, <1>4, <1>5, <1>6, <1>7, <1>8 DEF ClientProgress

LEMMA ServiceRuns ==
  ASSUME CountInv, Running, Healthy, ~ g_exit,
         ServiceProgress \/ EndOfLines \/ ServerDies \/ Input \/ CallbackDraw
  PROVE  Running'
<1>0. call \in CallRecord /\ client_data = clients
  BY DEF CountInv, TypeOK, Membership
<1>1. CASE LoopTest \/ SendCommand \/ PopTimesOut \/ NoRequest \/ JoinAll \/ EndOfLines
  BY <1>1 DEF LoopTest, SendCommand, PopTimesOut, NoRequest, JoinAll, EndOfLines,
     Running, registry
<1>2. ~ LeaveOnExit /\ ~ ServerDies
  BY EnvironmentAssumption DEF LeaveOnExit, ServerDies, Healthy
<1>3. CASE Lookup
  <2>1. FoundCookie(call.kind, call.client) = call.client /\ call.client \in Clients
    BY <1>3 DEF Lookup, Running, FoundCookie, CountInv, TypeOK
  <2>2. call' = [call EXCEPT !.stage = "run", !.cookie = call.client]
    BY <1>3, <2>1 DEF Lookup
  <2>3. call'.stage = "run" /\ call'.cookie \in Clients
    BY <1>0, <2>1, <2>2 DEF CallRecord
  <2> QED
    BY <1>3, <2>3 DEF Lookup, Running, registry
<1>4. CASE CallbackReturn
  BY <1>4 DEF CallbackReturn, NoCall, Running, registry
<1>5. ~ CallbackFaults
  BY ClientsAssumption DEF CallbackFaults, InCallback, Running
<1>6. CASE CallbackDraw
  BY <1>6 DEF CallbackDraw, Running, registry
<1>7. ASSUME NEW kind \in {"key", "ignore"}, KeyOrIgnore(kind) PROVE Running'
  <2>1. Calling(kind, current) /\ current \in client_data \cup {None}
    BY <1>7 DEF KeyOrIgnore, Running
  <2> QED
    BY <1>0, <1>7, <2>1, CallingKeepsRunning DEF KeyOrIgnore, Running, registry
<1>8. ASSUME NEW c \in Clients, Listen(c) PROVE Running'
  <2>1. Calling("listen", current') /\ current' \in client_data \cup {None}
    BY <1>0, <1>8 DEF Listen
  <2> QED
    BY <1>0, <1>8, <2>1, CallingKeepsRunning DEF Listen, Running, registry
<1>9. ASSUME NEW c \in Clients PROVE ~ MenuEvent(c)
  BY DEF MenuEvent, Healthy
<1>10. ASSUME NEW c \in Clients, NetRequest(c) PROVE Running'
  <2> DEFINE d == IF c \in clients THEN c ELSE None
  <2>1. Calling("net", d) /\ d \in client_data \cup {None}
    BY <1>0, <1>10 DEF NetRequest
  <2> QED
    BY <1>0, <1>10, <2>1, CallingKeepsRunning DEF NetRequest, Running, registry
<1> QED
  BY <1>1, <1>2, <1>3, <1>4, <1>5, <1>6, <1>7, <1>8, <1>9, <1>10
     DEF ServiceProgress, Input

LEMMA RunStep == CountInv /\ (Healthy => RunInv) /\ [Next]_vars => (Healthy => RunInv)'
<1> SUFFICES ASSUME CountInv, Healthy => RunInv, [Next]_vars, Healthy', ~ g_exit'
             PROVE  Running'
  BY DEF RunInv
<1>0. Healthy
  BY DEF Healthy
<1>1. ~ g_exit
  BY ExitStays
<1>2. Running
  BY <1>0, <1>1 DEF RunInv
<1>3. ASSUME NEW c \in Clients, ClientProgress(c) \/ Draw(c) PROVE Running'
  BY <1>0, <1>1, <1>2, <1>3, ClientsRun
<1>4. CASE ServiceProgress \/ EndOfLines \/ ServerDies \/ Input \/ CallbackDraw
  BY <1>0, <1>1, <1>2, <1>4, ServiceRuns
<1>5. ~ Signal
  BY DEF Signal
<1>6. CASE UNCHANGED vars
  BY <1>2, <1>6 DEF vars, registry, Running
<1> QED
  BY <1>3, <1>4, <1>5, <1>6 DEF Next, Stopped

(* A program whose modules are configured, whose mpd connects, whose LCDd    *)
(* lives and never reports a menu event uses no freed queue or mutex and no  *)
(* missing or dead cookie as long as nobody has asked it to exit:            *)
(* registration, the unlocked lookups and the queue are safe among any       *)
(* number of clients.                                                       *)
THEOREM HealthyUntilExit == Spec => []NoFaultBeforeExit
<1>1. (Healthy => RunInv) => NoFaultBeforeExit
  BY DEF RunInv, Running, NoFaultBeforeExit
<1>2. Init => (Healthy => RunInv)
  BY InitRuns
<1> QED
  BY <1>1, <1>2, InitCount, CountStep, RunStep, PTL DEF Spec

-----------------------------------------------------------------------------
(* Commands about screens.                                                  *)

(* What Append and Tail do to the commands in a queue. *)
LEMMA Appended ==
  ASSUME NEW q \in Seq(Command), NEW cmd \in Command
  PROVE  /\ Len(Append(q, cmd)) = Len(q) + 1
         /\ \A i \in 1 .. Len(q) : Append(q, cmd)[i] = q[i]
         /\ Append(q, cmd)[Len(q) + 1] = cmd
OBVIOUS

LEMMA Shortened ==
  ASSUME NEW q \in Seq(Command), q # << >>
  PROVE  /\ Len(Tail(q)) = Len(q) - 1
         /\ Len(q) \in Nat \ {0}
         /\ Head(q) = q[1]
         /\ Head(q) \in Command
         /\ \A i \in 1 .. Len(q) - 1 : Tail(q)[i] = q[i + 1]
OBVIOUS

Queued(c, verb) ==
  \E i \in 1 .. Len(queue) : queue[i] = [from |-> c, verb |-> verb]
Shown(c) == c \in lcd_screens \/ Queued(c, "screen_add")
Parted == {"unregister", "remove", "uncount", "gone"}

(* Nothing is queued behind the service thread's loop.  Before that, a       *)
(* client between creating its screen and deleting it has queued the         *)
(* creation before anything else, and whoever has queued the deletion will   *)
(* queue nothing more.                                                      *)
NothingAfterTheLoop ==
  torn => queue = << >> /\ svc \in {"join", "done"} /\ call.stage = "none"
CommandsInOrder(c) ==
  /\ ~ g_exit /\ pc[c] \in {"config", "run", "deinit"} =>
       Shown(c) \/ armed[c] = "screen_add"
  /\ armed[c] \in {"draw", "screen_del"} => Shown(c)
  /\ armed[c] = "draw" => pc[c] \in {"config", "run"}
  /\ armed[c] = "screen_del" => pc[c] \in Parted /\ ~ Queued(c, "screen_del")
  /\ Queued(c, "screen_del") => pc[c] \in Parted
OrphanInv ==
  /\ NothingAfterTheLoop
  /\ ~ torn => \A c \in Clients : CommandsInOrder(c)
  /\ NoOrphanCommand

LEMMA InitOrphan == Init => OrphanInv
<1> SUFFICES ASSUME Init PROVE OrphanInv
  OBVIOUS
<1>1. 1 .. Len(queue) = {}
  BY DEF Init
<1>2. NoOrphanCommand /\ NothingAfterTheLoop
  BY <1>1 DEF Init, NoOrphanCommand, NothingAfterTheLoop
<1>3. ASSUME NEW c \in Clients PROVE CommandsInOrder(c)
  <2>1. armed[c] = None /\ pc[c] = "start"
    BY DEF Init
  <2>2. armed[c] \notin {"draw", "screen_del"}
    BY <2>1, ClientsAssumption DEF Verbs
  <2> QED
    BY <1>1, <2>1, <2>2 DEF CommandsInOrder, Queued
<1> QED
  BY <1>2, <1>3 DEF OrphanInv

(* A command queued at the end by a client whose screen is created, and not  *)
(* yet deleted, in the queue or before it, is not an orphan.                 *)
LEMMA QueueGrows ==
  ASSUME queue \in Seq(Command), NEW c \in Clients, NEW verb \in Verbs,
         queue' = Append(queue, [from |-> c, verb |-> verb]),
         lcd_screens' = lcd_screens, NoOrphanCommand,
         verb # "screen_add" => Shown(c) /\ ~ Queued(c, "screen_del")
  PROVE  /\ NoOrphanCommand'
         /\ \A d \in Clients, v \in Verbs :
              Queued(d, v)' <=> Queued(d, v) \/ (d = c /\ v = verb)
<1> DEFINE cmd == [from |-> c, verb |-> verb]
<1>1. cmd \in Command
  BY DEF Command
<1>2. /\ Len(queue) \in Nat
      /\ Len(queue') = Len(queue) + 1
      /\ \A i \in 1 .. Len(queue) : queue'[i] = queue[i]
      /\ queue'[Len(queue) + 1] = cmd
  BY <1>1, Appended
<1>3. \A d \in Clients, v \in Verbs :
        Queued(d, v)' <=> Queued(d, v) \/ (d = c /\ v = verb)
  <2> SUFFICES ASSUME NEW d \in Clients, NEW v \in Verbs
               PROVE  Queued(d, v)' <=> Queued(d, v) \/ (d = c /\ v = verb)
    OBVIOUS
  <2>1. Queued(d, v) => Queued(d, v)'
    BY <1>2 DEF Queued
  <2>2. d = c /\ v = verb => Queued(d, v)'
    BY <1>2 DEF Queued
  <2>3. Queued(d, v)' => Queued(d, v) \/ (d = c /\ v = verb)
    <3> SUFFICES ASSUME NEW i \in 1 .. Len(queue'),
                        queue'[i] = [from |-> d, verb |-> v]
                 PROVE  Queued(d, v) \/ (d = c /\ v = verb)
      BY DEF Queued
    <3>1. i \in 1 .. Len(queue) \/ i = Len(queue) + 1
      BY <1>2
    <3> QED
      BY <1>2, <3>1 DEF Queued
  <2> QED
    BY <2>1, <2>2, <2>3
<1>4. NoOrphanCommand'
  <2> SUFFICES ASSUME NEW i \in 1 .. Len(queue'), queue'[i].verb # "screen_add"
               PROVE  /\ \/ queue'[i].from \in lcd_screens'
                         \/ \E j \in 1 .. i - 1 :
                              queue'[j] = [from |-> queue'[i].from,
                                           verb |-> "screen_add"]
                      /\ \A j \in 1 .. i - 1 :
                           queue'[j] # [from |-> queue'[i].from,
                                        verb |-> "screen_del"]
    BY DEF NoOrphanCommand
  <2>1. CASE i \in 1 .. Len(queue)
    <3>1. queue'[i] = queue[i] /\ \A j \in 1 .. i - 1 : queue'[j] = queue[j]
      BY <1>2, <2>1
    <3> QED
      BY <2>1, <3>1 DEF NoOrphanCommand
  <2>2. CASE i = Len(queue) + 1
    <3>1. queue'[i] = cmd /\ cmd.from = c /\ verb # "screen_add"
      BY <1>2, <2>2
    <3>2. Shown(c) /\ ~ Queued(c, "screen_del")
      BY <3>1
    <3>3. i - 1 = Len(queue) /\ \A j \in 1 .. i - 1 : queue'[j] = queue[j]
      BY <1>2, <2>2
    <3> QED
      BY <3>1, <3>2, <3>3 DEF Shown, Queued
  <2> QED
    BY <1>2, <2>1, <2>2
<1> QED
  BY <1>3, <1>4

(* The head of the queue is sent: a creation makes the screen, a deletion    *)
(* takes it away, and nothing of that client is queued behind a deletion     *)
(* but perhaps a creation.                                                  *)
LEMMA QueueShrinks ==
  ASSUME TypeOK, NoOrphanCommand, SendCommand
  PROVE  /\ NoOrphanCommand'
         /\ \A c \in Clients :
              /\ Shown(c) /\ ~ Queued(c, "screen_del") => Shown(c)'
              /\ Queued(c, "screen_del")' => Queued(c, "screen_del")
<1> DEFINE cmd == Head(queue)
<1>1. /\ queue \in Seq(Command)
      /\ queue # << >>
      /\ queue' = Tail(queue)
      /\ lcd_screens' = CASE cmd.verb = "screen_add" -> lcd_screens \cup {cmd.from}
                          [] cmd.verb = "screen_del" -> lcd_screens \ {cmd.from}
                          [] OTHER -> lcd_screens
  BY DEF SendCommand, TypeOK
<1>2. /\ Len(queue') = Len(queue) - 1
      /\ Len(queue) \in Nat \ {0}
      /\ cmd = queue[1]
      /\ cmd \in Command
      /\ \A i \in 1 .. Len(queue) - 1 : queue'[i] = queue[i + 1]
  BY <1>1, Shortened
<1> HIDE DEF cmd
<1>3. ASSUME NEW d, NEW v, Queued(d, v), cmd # [from |-> d, verb |-> v]
      PROVE  Queued(d, v)'
  <2>1. PICK i \in 1 .. Len(queue) : queue[i] = [from |-> d, verb |-> v]
    BY <1>3 DEF Queued
  <2>2. i # 1
    BY <1>2, <1>3, <2>1
  <2>3. i - 1 \in 1 .. Len(queue') /\ queue'[i - 1] = queue[i]
    BY <1>2, <2>1, <2>2
  <2> QED
    BY <2>1, <2>3 DEF Queued
<1>4. ASSUME NEW c \in Clients
      PROVE  /\ Shown(c) /\ ~ Queued(c, "screen_del") => Shown(c)'
             /\ Queued(c, "screen_del")' => Queued(c, "screen_del")
  <2>1. ASSUME Queued(c, "screen_del")' PROVE Queued(c, "screen_del")
    <3>1. PICK i \in 1 .. Len(queue') : queue'[i] = [from |-> c, verb |-> "screen_del"]
      BY <2>1 DEF Queued
    <3>2. i + 1 \in 1 .. Len(queue) /\ queue[i + 1] = queue'[i]
      BY <1>2
    <3> QED
      BY <3>1, <3>2 DEF Queued
  <2>2. ASSUME Shown(c), ~ Queued(c, "screen_del") PROVE Shown(c)'
    <3>1. cmd # [from |-> c, verb |-> "screen_del"]
      BY <1>2, <2>2 DEF Queued
    <3>2. CASE c \in lcd_screens
      <4>1. cmd.verb = "screen_del" => cmd.from # c
        BY <1>2, <3>1 DEF Command
      <4>2. c \in lcd_screens'
        BY <1>1, <3>2, <4>1
      <4> QED
        BY <4>2 DEF Shown
    <3>3. CASE Queued(c, "screen_add") /\ cmd # [from |-> c, verb |-> "screen_add"]
      BY <1>3, <3>3 DEF Shown
    <3>4. CASE cmd = [from |-> c, verb |-> "screen_add"]
      <4>1. c \in lcd_screens'
        BY <1>1, <3>4
      <4> QED
        BY <4>1 DEF Shown
    <3> QED
      BY <2>2, <3>2, <3>3, <3>4 DEF Shown
  <2> QED
    BY <2>1, <2>2
<1>5. NoOrphanCommand'
  <2> SUFFICES ASSUME NEW i \in 1 .. Len(queue'), queue'[i].verb # "screen_add"
               PROVE  /\ \/ queue'[i].from \in lcd_screens'
                         \/ \E j \in 1 .. i - 1 :
                              queue'[j] = [from |-> queue'[i].from,
                                           verb |-> "screen_add"]
                      /\ \A j \in 1 .. i - 1 :
                           queue'[j] # [from |-> queue'[i].from,
                                        verb |-> "screen_del"]
    BY DEF NoOrphanCommand
  <2> DEFINE k == i + 1
             c == queue[k].from
  <2>1. k \in 1 .. Len(queue) /\ queue'[i] = queue[k] /\ queue'[i].from = c
    BY <1>2
  <2>2. /\ \/ c \in lcd_screens
           \/ \E j \in 1 .. k - 1 : queue[j] = [from |-> c, verb |-> "screen_add"]
        /\ \A j \in 1 .. k - 1 : queue[j] # [from |-> c, verb |-> "screen_del"]
    BY <2>1 DEF NoOrphanCommand
  <2>3. \A j \in 1 .. i - 1 : j + 1 \in 1 .. k - 1 /\ queue'[j] = queue[j + 1]
    BY <1>2
  <2>4. 1 \in 1 .. k - 1
    OBVIOUS
  <2>5. cmd # [from |-> c, verb |-> "screen_del"]
    BY <1>2, <2>2, <2>4
  <2>6. \A j \in 1 .. i - 1 : queue'[j] # [from |-> c, verb |-> "screen_del"]
    BY <2>2, <2>3
  <2> HIDE DEF c
  <2>7. CASE c \in lcd_screens
    <3>1. cmd.verb = "screen_del" => cmd.from # c
      BY <1>2, <2>5 DEF Command
    <3> QED
      BY <1>1, <2>1, <2>6, <2>7, <3>1
  <2>8. CASE cmd = [from |-> c, verb |-> "screen_add"]
    <3>1. c \in lcd_screens'
      BY <1>1, <2>8
    <3> QED
      BY <2>1, <2>6, <3>1
  <2>9. CASE c \notin lcd_screens /\ cmd # [from |-> c, verb |-> "screen_add"]
    <3>1. PICK j \in 1 .. k - 1 : queue[j] = [from |-> c, verb |-> "screen_add"]
      BY <2>2, <2>9
    <3>2. j - 1 \in 1 .. i - 1 /\ queue'[j - 1] = queue[j]
      BY <1>2, <2>9, <3>1
    <3> QED
      BY <2>1, <2>6, <3>1, <3>2
  <2> QED
    BY <2>7, <2>8, <2>9
<1> QED
  BY <1>4, <1>5

(* A step of one client's thread that queues nothing. *)
LEMMA OneClientSteps ==
  ASSUME OrphanInv, NEW c \in Clients, g_exit => g_exit',
         UNCHANGED <<queue, torn, svc, call, lcd_screens>>,
         \A d \in Clients \ {c} : pc'[d] = pc[d] /\ armed'[d] = armed[d],
         ~ torn => CommandsInOrder(c)'
  PROVE  OrphanInv'
<1>1. NoOrphanCommand' /\ NothingAfterTheLoop'
  BY DEF OrphanInv, NoOrphanCommand, NothingAfterTheLoop
<1>2. ASSUME ~ torn, NEW d \in Clients \ {c} PROVE CommandsInOrder(d)'
  BY <1>2 DEF OrphanInv, CommandsInOrder, Shown, Queued
<1> QED
  BY <1>1, <1>2 DEF OrphanInv

LEMMA OrphanOnMoves ==
  ASSUME CountInv, OrphanInv, NEW c \in Clients,
         Register(c) \/ Unregister(c) \/ LoopExit(c) \/ InitFails(c)
           \/ ConnectFails(c) \/ InitDone(c)
  PROVE  OrphanInv'
<1>0. pc \in [Clients -> Locations] /\ armed \in [Clients -> Verbs \cup {None}]
  BY DEF CountInv, TypeOK
<1>1. PICK from \in Locations, to \in Locations :
        /\ Move(c, from, to)
        /\ to \in {"config", "run", "deinit"} => from \in {"config"}
        /\ from \in Parted => to \in Parted
  <2>1. CASE Register(c)
    BY <2>1 DEF Register, RegisterTest, RegisterInsert, RegisterCount,
       Move, Locations, Parted
  <2>2. CASE Unregister(c)
    BY <2>2 DEF Unregister, UnregisterTest, UnregisterRemove, UnregisterCount,
       Move, Locations, Parted
  <2>3. CASE LoopExit(c)
    BY <2>3 DEF LoopExit,
       Move, Locations, Parted
  <2>4. CASE InitFails(c)
    BY <2>4 DEF InitFails,
       Move, Locations, Parted
  <2>5. CASE ConnectFails(c)
    BY <2>5 DEF ConnectFails,
       Move, Locations, Parted
  <2>6. CASE InitDone(c)
    BY <2>6 DEF InitDone,
       Move, Locations, Parted
  <2> QED
    BY <2>1, <2>2, <2>3, <2>4, <2>5, <2>6
<1>2. /\ UNCHANGED <<armed, queue, torn, svc, call, lcd_screens>>
      /\ g_exit => g_exit'
  <2>1. g_exit => g_exit'
    BY ExitStays DEF ClientProgress, Next
  <2> QED
    BY <2>1 DEF Register, RegisterTest, RegisterInsert, RegisterCount,
       Unregister, UnregisterTest, UnregisterRemove, UnregisterCount, LoopExit,
       InitFails, ConnectFails, InitDone
<1>3. pc' = [pc EXCEPT ![c] = to] /\ pc[c] = from /\ armed[c] = None
  BY <1>1 DEF Move
<1>4. armed[c] \notin Verbs
  BY <1>3, ClientsAssumption
<1>5. ASSUME ~ torn PROVE CommandsInOrder(c)'
  <2>1. CommandsInOrder(c)
    BY <1>5 DEF OrphanInv
  <2>2. pc'[c] = to
    BY <1>0, <1>3
  <2>3. /\ Shown(c)' <=> Shown(c)
        /\ Queued(c, "screen_del")' <=> Queued(c, "screen_del")
    BY <1>2 DEF Shown, Queued
  <2> QED
    BY <1>1, <1>2, <1>3, <1>4, <2>1, <2>2, <2>3 DEF CommandsInOrder, Verbs
<1> QED
  BY <1>0, <1>2, <1>3, <1>5, OneClientSteps

LEMMA OrphanOnArming ==
  ASSUME CountInv, OrphanInv, NEW c \in Clients,
         CreateScreen(c) \/ Draw(c) \/ Deinit(c)
  PROVE  OrphanInv'
<1>0. pc \in [Clients -> Locations] /\ armed \in [Clients -> Verbs \cup {None}]
  BY DEF CountInv, TypeOK
<1>1. UNCHANGED <<g_exit, queue, torn, svc, call, lcd_screens>> /\ armed[c] = None
  BY DEF CreateScreen, Draw, Deinit, Move
<1>2. PICK verb \in Verbs, from \in Locations, to \in Locations :
        /\ armed' = [armed EXCEPT ![c] = IF g_exit THEN None ELSE verb]
        /\ pc[c] = from
        /\ pc' = [pc EXCEPT ![c] = to]
        /\ \/ verb = "screen_add" /\ from = "create" /\ to = "config"
           \/ verb = "draw" /\ from \in {"config", "run"} /\ to = from
           \/ verb = "screen_del" /\ from = "deinit" /\ to = "unregister"
  <2>1. CASE CreateScreen(c)
    BY <2>1 DEF CreateScreen, Move, Arm, Verbs, Locations
  <2>2. CASE Draw(c)
    BY <2>2 DEF Draw, Move, Arm, Verbs, Locations
  <2>3. CASE Deinit(c)
    BY <2>3 DEF Deinit, Move, Arm, Verbs, Locations
  <2> QED
    BY <2>1, <2>2, <2>3
<1>3. ASSUME ~ torn PROVE CommandsInOrder(c)'
  <2>1. CommandsInOrder(c)
    BY <1>3 DEF OrphanInv
  <2>2. pc'[c] = to /\ armed'[c] = IF g_exit THEN None ELSE verb
    BY <1>0, <1>2
  <2>3. /\ Shown(c)' <=> Shown(c)
        /\ Queued(c, "screen_del")' <=> Queued(c, "screen_del")
    BY <1>1 DEF Shown, Queued
  <2>4. None \notin Verbs /\ g_exit' = g_exit
    BY <1>1, ClientsAssumption
  <2>5. pc[c] \notin Parted
    BY <1>2 DEF Parted
  <2>6. ~ Queued(c, "screen_del")
    BY <2>1, <2>5 DEF CommandsInOrder
  <2>7. verb # "screen_add" /\ ~ g_exit => Shown(c)
    BY <1>1, <1>2, <2>1, <2>4 DEF CommandsInOrder, Verbs
  <2> QED
    BY <1>2, <2>2, <2>3, <2>4, <2>6, <2>7 DEF CommandsInOrder, Verbs, Parted
<1> QED
  BY <1>0, <1>1, <1>2, <1>3, OneClientSteps

LEMMA OrphanOnPush ==
  ASSUME CountInv, OrphanInv, NEW c \in Clients, Push(c)
  PROVE  OrphanInv'
<1> DEFINE verb == armed[c]
<1>0. /\ pc \in [Clients -> Locations]
      /\ armed \in [Clients -> Verbs \cup {None}]
      /\ queue \in Seq(Command)
  BY DEF CountInv, TypeOK
<1>1. /\ verb \in Verbs
      /\ ~ torn
      /\ queue' = Append(queue, [from |-> c, verb |-> verb])
      /\ armed' = [armed EXCEPT ![c] = None]
      /\ UNCHANGED <<g_exit, torn, pc, svc, call, lcd_screens>>
  BY <1>0 DEF Push
<1>2. \A d \in Clients : CommandsInOrder(d)
  BY <1>1 DEF OrphanInv
<1>3. verb # "screen_add" => Shown(c) /\ ~ Queued(c, "screen_del")
  BY <1>1, <1>2 DEF CommandsInOrder, Verbs, Parted
<1>4. /\ NoOrphanCommand'
      /\ \A d \in Clients, v \in Verbs :
           Queued(d, v)' <=> Queued(d, v) \/ (d = c /\ v = verb)
  BY <1>0, <1>1, <1>3, QueueGrows DEF OrphanInv
<1>5. ASSUME NEW d \in Clients PROVE CommandsInOrder(d)'
  <2>1. /\ Queued(d, "screen_add")' <=>
             Queued(d, "screen_add") \/ (d = c /\ verb = "screen_add")
        /\ Queued(d, "screen_del")' <=>
             Queued(d, "screen_del") \/ (d = c /\ verb = "screen_del")
    BY <1>4 DEF Verbs
  <2>2. Shown(d)' <=> Shown(d) \/ (d = c /\ verb = "screen_add")
    BY <1>1, <2>1 DEF Shown
  <2>3. armed'[d] = IF d = c THEN None ELSE armed[d]
    BY <1>0, <1>1
  <2>4. None \notin Verbs
    BY ClientsAssumption
  <2>5. CASE d = c
    BY <1>1, <1>2, <2>1, <2>2, <2>3, <2>4, <2>5 DEF CommandsInOrder, Verbs
  <2>6. CASE d # c
    BY <1>1, <1>2, <2>1, <2>2, <2>3, <2>6 DEF CommandsInOrder
  <2> QED
    BY <2>5, <2>6
<1> QED
  BY <1>1, <1>4, <1>5 DEF OrphanInv, NothingAfterTheLoop

LEMMA OrphanOnClients ==
  ASSUME CountInv, OrphanInv, NEW c \in Clients, ClientProgress(c) \/ Draw(c)
  PROVE  OrphanInv'
<1>1. ASSUME LockFreedMutex(c) \/ PushOnFreedQueue(c) PROVE OrphanInv'
  <2>1. UNCHANGED <<g_exit, queue, torn, svc, call, lcd_screens, pc, armed>>
    BY <1>1 DEF LockFreedMutex, PushOnFreedQueue, Crash
  <2>2. ~ torn => CommandsInOrder(c)'
    BY <2>1 DEF OrphanInv, CommandsInOrder, Shown, Queued
  <2> QED
    BY <2>1, <2>2, OneClientSteps
<1> QED
  BY <1>1, OrphanOnMoves, OrphanOnArming, OrphanOnPush DEF ClientProgress

(* A step of the service thread that leaves queue and display alone. *)
LEMMA OrphanFrame ==
  ASSUME OrphanInv, UNCHANGED <<queue, torn, pc, armed, lcd_screens>>,
         g_exit => g_exit', NothingAfterTheLoop'
  PROVE  OrphanInv'
<1>1. NoOrphanCommand'
  BY DEF OrphanInv, NoOrphanCommand
<1>2. ASSUME ~ torn, NEW c \in Clients PROVE CommandsInOrder(c)'
  BY <1>2 DEF OrphanInv, CommandsInOrder, Shown, Queued
<1> QED
  BY <1>1, <1>2 DEF OrphanInv

LEMMA OrphanOnSend ==
  ASSUME CountInv, OrphanInv, SendCommand
  PROVE  OrphanInv'
<1>1. UNCHANGED <<g_exit, torn, pc, armed, call>> /\ ~ torn
  BY DEF SendCommand, At, OrphanInv, NothingAfterTheLoop
<1>2. /\ NoOrphanCommand'
      /\ \A c \in Clients :
           /\ Shown(c) /\ ~ Queued(c, "screen_del") => Shown(c)'
           /\ Queued(c, "screen_del")' => Queued(c, "screen_del")
  BY QueueShrinks DEF CountInv, OrphanInv
<1>3. ASSUME NEW c \in Clients PROVE CommandsInOrder(c)'
  <2>1. CommandsInOrder(c)
    BY <1>1 DEF OrphanInv
  <2> QED
    BY <1>1, <1>2, <2>1 DEF CommandsInOrder, Parted
<1> QED
  BY <1>1, <1>2, <1>3 DEF OrphanInv, NothingAfterTheLoop

LEMMA OrphanOnCallbackDraw ==
  ASSUME CountInv, OrphanInv, CallbackDraw
  PROVE  OrphanInv'
<1> DEFINE c == call.cookie
<1>1. /\ UNCHANGED <<g_exit, torn, pc, armed, call, lcd_screens>>
      /\ ~ torn
      /\ ~ g_exit
      /\ c \in Clients
      /\ pc[c] \in {"config", "run"}
      /\ armed[c] # "screen_add"
      /\ queue' = Append(queue, [from |-> c, verb |-> "draw"])
      /\ queue \in Seq(Command)
  BY TableAssumption
     DEF CallbackDraw, InCallback, OrphanInv, NothingAfterTheLoop, CountInv, TypeOK
<1> HIDE DEF c
<1>2. Shown(c) /\ ~ Queued(c, "screen_del")
  BY <1>1 DEF OrphanInv, CommandsInOrder, Parted
<1>3. /\ NoOrphanCommand'
      /\ \A d \in Clients, v \in Verbs :
           Queued(d, v)' <=> Queued(d, v) \/ (d = c /\ v = "draw")
  BY <1>1, <1>2, QueueGrows DEF OrphanInv, Verbs
<1>4. ASSUME NEW d \in Clients PROVE CommandsInOrder(d)'
  <2>1. \A v \in {"screen_add", "screen_del"} : Queued(d, v)' <=> Queued(d, v)
    BY <1>3 DEF Verbs
  <2>2. Shown(d)' <=> Shown(d)
    BY <1>1, <2>1 DEF Shown
  <2>3. CommandsInOrder(d)
    BY <1>1 DEF OrphanInv
  <2> QED
    BY <1>1, <2>1, <2>2, <2>3 DEF CommandsInOrder
<1> QED
  BY <1>1, <1>3, <1>4 DEF OrphanInv, NothingAfterTheLoop

LEMMA OrphanOnFree ==
  ASSUME OrphanInv, LeaveOnExit \/ ServerDies
  PROVE  OrphanInv'
<1>1. torn' /\ queue' = << >> /\ svc' = "join" /\ call'.stage = "none"
  BY DEF LeaveOnExit, ServerDies, FreeAll, At
<1>2. 1 .. Len(queue') = {}
  BY <1>1
<1> QED
  BY <1>1, <1>2 DEF OrphanInv, NothingAfterTheLoop, NoOrphanCommand

LEMMA OrphanOnService ==
  ASSUME CountInv, OrphanInv,
         ServiceProgress \/ EndOfLines \/ ServerDies \/ Input \/ CallbackDraw
           \/ Signal
  PROVE  OrphanInv'
<1>0. UNCHANGED pc /\ (g_exit => g_exit')
  BY ServiceOffRegistry
<1>1. CASE LoopTest \/ PopTimesOut \/ NoRequest \/ EndOfLines
  <2>1. UNCHANGED <<queue, torn, armed, lcd_screens>> /\ ~ torn
    BY <1>1 DEF LoopTest, PopTimesOut, NoRequest, EndOfLines, At, OrphanInv,
       NothingAfterTheLoop
  <2> QED
    BY <1>0, <2>1, OrphanFrame DEF NothingAfterTheLoop
<1>2. CASE JoinAll \/ CallbackFaults \/ Signal
  <2>1. UNCHANGED <<queue, torn, armed, lcd_screens, call>> /\ svc' \in {svc, "done"}
    BY <1>2 DEF JoinAll, CallbackFaults, Crash, Signal
  <2> QED
    BY <1>0, <2>1, OrphanFrame DEF OrphanInv, NothingAfterTheLoop
<1>3. CASE Lookup \/ CallbackReturn
  <2>1. UNCHANGED <<queue, torn, armed, lcd_screens>> /\ ~ torn
    BY <1>3 DEF Lookup, CallbackReturn, InCallback, OrphanInv, NothingAfterTheLoop
  <2> QED
    BY <1>0, <2>1, OrphanFrame DEF NothingAfterTheLoop
<1>4. CASE Input
  <2>1. UNCHANGED <<queue, torn, armed, lcd_screens>> /\ ~ torn
    BY <1>4 DEF Input, KeyOrIgnore, Listen, MenuEvent, NetRequest, Reading, At,
       OrphanInv, NothingAfterTheLoop
  <2> QED
    BY <1>0, <2>1, OrphanFrame DEF NothingAfterTheLoop
<1> QED
  BY <1>1, <1>2, <1>3, <1>4, OrphanOnSend, OrphanOnCallbackDraw, OrphanOnFree
     DEF ServiceProgress

LEMMA OrphanStep == CountInv /\ OrphanInv /\ [Next]_vars => OrphanInv'
<1> SUFFICES ASSUME CountInv, OrphanInv, [Next]_vars PROVE OrphanInv'
  OBVIOUS
<1>1. CASE UNCHANGED vars
  <2>1. UNCHANGED <<queue, torn, pc, armed, lcd_screens, g_exit, svc, call>>
    BY <1>1 DEF vars
  <2> QED
    BY <2>1, OrphanFrame DEF OrphanInv, NothingAfterTheLoop
<1> QED
  BY <1>1, OrphanOnClients, OrphanOnService DEF Next, Stopped

(* LCDd is never sent a command about a screen it does not have yet or no    *)
(* longer has, whichever clients draw from their own threads while the       *)
(* service thread's callbacks draw for them, and whenever the exit comes:    *)
(* service_thread_command's test and push are two steps, but a client that   *)
(* was refused the creation of its screen is refused everything after it.    *)
THEOREM NoCommandIsOrphaned == Spec => []NoOrphanCommand
<1>1. OrphanInv => NoOrphanCommand
  BY DEF OrphanInv
<1> QED
  BY <1>1, InitCount, CountStep, InitOrphan, OrphanStep, PTL DEF Spec

-----------------------------------------------------------------------------
(* Dead cookies.                                                            *)

(* Until the exit only init and connect make a client leave; a dead cookie   *)
(* is that of a thread that has returned.                                   *)
LeftEarly ==
  ~ g_exit => \A c \in Clients :
    pc[c] \in {"deinit", "unregister", "remove", "uncount", "gone"} =>
      c \in BadConfig \cup MayFailConnect
CookieInv ==
  /\ LeftEarly
  /\ fault = "dead_cookie" => call.cookie \in Clients /\ pc[call.cookie] = "gone"

LEMMA LeavingClient ==
  ASSUME CountInv, LeftEarly, ~ g_exit, NEW c \in Clients,
         ClientProgress(c) \/ Draw(c)
  PROVE  LeftEarly'
<1> DEFINE Leaving == {"deinit", "unregister", "remove", "uncount", "gone"}
<1>0. pc \in [Clients -> Locations]
  BY DEF CountInv, TypeOK
<1>1. CASE Register(c)
  BY <1>0, <1>1 DEF LeftEarly, Register, RegisterTest, RegisterInsert,
     RegisterCount, Move
<1>2. CASE Unregister(c)
  <2>1. pc[c] \in Leaving /\ \A d \in Clients \ {c} : pc'[d] = pc[d]
    BY <1>0, <1>2 DEF Unregister, UnregisterTest, UnregisterRemove,
       UnregisterCount, Move
  <2> QED
    BY <2>1 DEF LeftEarly
<1>3. CASE LockFreedMutex(c) \/ Push(c) \/ PushOnFreedQueue(c)
  BY <1>3 DEF LeftEarly, LockFreedMutex, Push, PushOnFreedQueue, Crash
<1>4. CASE CreateScreen(c) \/ InitDone(c) \/ Draw(c)
  BY <1>0, <1>4 DEF LeftEarly, CreateScreen, InitDone, Draw, Move
<1>5. CASE InitFails(c) \/ ConnectFails(c)
  <2>1. c \in BadConfig \cup MayFailConnect
        /\ \A d \in Clients \ {c} : pc'[d] = pc[d]
    BY <1>0, <1>5 DEF InitFails, ConnectFails, Move
  <2> QED
    BY <2>1 DEF LeftEarly
<1>6. ~ LoopExit(c)
  BY DEF LoopExit
<1>7. CASE Deinit(c)
  <2>1. pc[c] \in Leaving /\ \A d \in Clients \ {c} : pc'[d] = pc[d]
    BY <1>0, <1>7 DEF Deinit, Move
  <2> QED
    BY <2>1 DEF LeftEarly
<1> QED
  BY <1>1, <1>2, <1>3, <1>4, <1>5, <1>6, <1>7 DEF ClientProgress

(* Only a callback meets a dead cookie, and nothing moves after that. *)
LEMMA DeadCookieStays ==
  ASSUME CountInv, CookieInv, [Next]_vars, fault' = "dead_cookie"
  PROVE  call'.cookie \in Clients /\ pc'[call'.cookie] = "gone"
<1>1. CASE fault = "dead_cookie"
  <2>1. ~ \E c \in Clients : ClientProgress(c) \/ Draw(c)
    BY <1>1 DEF ClientProgress, Register, RegisterTest, RegisterInsert, RegisterCount,
       Unregister, UnregisterTest, UnregisterRemove, UnregisterCount,
       LockFreedMutex, Push, PushOnFreedQueue, CreateScreen, InitFails,
       ConnectFails, InitDone, LoopExit, Deinit, Draw, Move
  <2>2. ~ (ServiceProgress \/ EndOfLines \/ ServerDies \/ CallbackDraw \/ Signal)
    BY <1>1 DEF ServiceProgress, LoopTest, SendCommand, PopTimesOut, NoRequest,
       LeaveOnExit, JoinAll, Lookup, CallbackReturn, CallbackFaults, EndOfLines,
       ServerDies, CallbackDraw, InCallback, Signal, At
  <2>3. ~ Input
    BY <1>1 DEF Input, KeyOrIgnore, Listen, MenuEvent, NetRequest, Reading, At
  <2>4. UNCHANGED <<pc, call>>
    BY <2>1, <2>2, <2>3 DEF Next, Stopped, vars
  <2> QED
    BY <1>1, <2>4 DEF CookieInv
<1>2. CASE fault # "dead_cookie"
  <2>1. ASSUME NEW c \in Clients, ClientProgress(c) \/ Draw(c) PROVE FALSE
    BY <1>2, <2>1 DEF ClientProgress, Register, RegisterTest, RegisterInsert,
       RegisterCount, Unregister, UnregisterTest, UnregisterRemove, UnregisterCount,
       LockFreedMutex, Crash, Push, PushOnFreedQueue, CreateScreen, InitFails,
       ConnectFails, InitDone, LoopExit, Deinit, Draw
  <2>2. EndOfLines \/ ServerDies \/ CallbackDraw \/ Signal => fault' = fault
    BY DEF EndOfLines, ServerDies, FreeAll, CallbackDraw, Signal
  <2>3. Input => fault' = fault
    BY DEF Input, KeyOrIgnore, Listen, MenuEvent, NetRequest
  <2>4. ServiceProgress => fault' = fault \/ CallbackFaults
    BY DEF ServiceProgress, LoopTest, SendCommand, PopTimesOut, NoRequest,
       LeaveOnExit, FreeAll, JoinAll, Lookup, CallbackReturn
  <2>5. UNCHANGED vars => fault' = fault
    BY DEF vars
  <2>6. CallbackFaults
    BY <1>2, <2>1, <2>2, <2>3, <2>4, <2>5 DEF Next, Stopped
  <2>7. call.cookie \in Clients \cup {None}
    BY DEF CountInv, TypeOK, CallRecord
  <2> QED
    BY <2>6, <2>7 DEF CallbackFaults, Crash
<1> QED
  BY <1>1, <1>2

LEMMA CookieStep == CountInv /\ CookieInv /\ [Next]_vars => CookieInv'
<1> SUFFICES ASSUME CountInv, CookieInv, [Next]_vars PROVE CookieInv'
  OBVIOUS
<1>1. LeftEarly'
  <2>1. CASE g_exit
    BY <2>1, ExitStays DEF LeftEarly
  <2>2. CASE ~ g_exit /\ \E c \in Clients : ClientProgress(c) \/ Draw(c)
    BY <2>2, LeavingClient DEF CookieInv
  <2>3. CASE ~ g_exit /\ UNCHANGED pc
    BY <2>3 DEF CookieInv, LeftEarly
  <2>4. UNCHANGED vars => UNCHANGED pc
    BY DEF vars
  <2> QED
    BY <2>1, <2>2, <2>3, <2>4, ServiceOffRegistry DEF Next, Stopped
<1> QED
  BY <1>1, DeadCookieStays DEF CookieInv

(* As long as nobody has asked the program to exit, the only clients whose   *)
(* stack frame the service thread can hand out after their thread returned   *)
(* are those whose init or connect failed (mail, rss; mpd).                  *)
THEOREM DeadCookiesHaveCauses == Spec => []DeadCookieCause
<1>1. Init => CookieInv
  BY DEF Init, CookieInv, LeftEarly
<1>2. CookieInv => DeadCookieCause
  BY DEF CookieInv, LeftEarly, DeadCookieCause
<1> QED
  BY <1>1, <1>2, InitCount, CountStep, CookieStep, PTL DEF Spec

-----------------------------------------------------------------------------
(* Commands after the exit.                                                 *)

Backlog == Len(queue) + Cardinality(InFlight)

LEMMA InFlightFinite ==
  /\ IsFiniteSet(InFlight) /\ Cardinality(InFlight) \in Nat
  /\ IsFiniteSet(InFlight)' /\ Cardinality(InFlight)' \in Nat
<1>1. InFlight \subseteq Clients /\ InFlight' \subseteq Clients
  BY DEF InFlight
<1> QED
  BY <1>1, ClientsAssumption, FS_Subset, FS_CardinalityType

(* A client's thread moves a command from its hands to the queue, and takes  *)
(* up no other once the exit has begun.                                     *)
LEMMA ClientsAddNothing ==
  ASSUME TypeOK, g_exit, NEW c \in Clients, ClientProgress(c) \/ Draw(c)
  PROVE  Backlog' <= Backlog
<1>0. queue \in Seq(Command) /\ Len(queue) \in Nat
      /\ armed \in [Clients -> Verbs \cup {None}]
  BY DEF TypeOK
<1>1. CASE Push(c)
  <2>1. armed[c] # None /\ armed' = [armed EXCEPT ![c] = None]
        /\ queue' = Append(queue, [from |-> c, verb |-> armed[c]])
    BY <1>1 DEF Push
  <2>2. [from |-> c, verb |-> armed[c]] \in Command
    BY <1>0, <2>1 DEF Command
  <2>3. Len(queue') = Len(queue) + 1
    BY <1>0, <2>1, <2>2, Appended
  <2>4. c \in InFlight /\ InFlight' = InFlight \ {c}
    BY <1>0, <2>1 DEF InFlight
  <2>5. Cardinality(InFlight') = Cardinality(InFlight) - 1
    BY <2>4, InFlightFinite, FS_RemoveElement
  <2> QED
    BY <1>0, <2>3, <2>5, InFlightFinite DEF Backlog
<1>2. CASE CreateScreen(c) \/ Deinit(c)
  <2>1. queue' = queue /\ armed[c] = None /\ armed' = [armed EXCEPT ![c] = None]
    BY <1>2 DEF CreateScreen, Deinit, Arm, Move
  <2>2. InFlight' = InFlight
    BY <1>0, <2>1 DEF InFlight
  <2> QED
    BY <1>0, <2>1, <2>2, InFlightFinite DEF Backlog
<1>3. ~ Draw(c)
  BY DEF Draw
<1>4. CASE UNCHANGED <<queue, armed>>
  BY <1>0, <1>4, InFlightFinite DEF Backlog, InFlight
<1>5. Push(c) \/ CreateScreen(c) \/ Deinit(c) \/ UNCHANGED <<queue, armed>>
  BY <1>3 DEF ClientProgress, Register, RegisterTest, RegisterInsert, RegisterCount,
     Unregister, UnregisterTest, UnregisterRemove, UnregisterCount, LockFreedMutex,
     Crash, PushOnFreedQueue, InitFails, ConnectFails, InitDone, LoopExit
<1> QED
  BY <1>1, <1>2, <1>4, <1>5

LEMMA ServiceAddsNothing ==
  ASSUME TypeOK, g_exit,
         ServiceProgress \/ EndOfLines \/ ServerDies \/ Input \/ CallbackDraw
           \/ Signal \/ UNCHANGED vars
  PROVE  Backlog' <= Backlog
<1>0. queue \in Seq(Command) /\ Len(queue) \in Nat
  BY DEF TypeOK
<1>1. UNCHANGED armed => InFlight' = InFlight
  BY DEF InFlight
<1>2. CASE SendCommand
  <2>1. UNCHANGED armed /\ queue # << >> /\ queue' = Tail(queue)
    BY <1>2 DEF SendCommand
  <2>2. Len(queue') = Len(queue) - 1
    BY <1>0, <2>1, Shortened
  <2> QED
    BY <1>0, <1>1, <2>1, <2>2, InFlightFinite DEF Backlog
<1>3. CASE LeaveOnExit \/ ServerDies
  <2>1. UNCHANGED armed /\ Len(queue') = 0
    BY <1>3 DEF LeaveOnExit, ServerDies, FreeAll
  <2> QED
    BY <1>0, <1>1, <2>1, InFlightFinite DEF Backlog
<1>4. ~ CallbackDraw
  BY DEF CallbackDraw
<1>5. CASE UNCHANGED <<queue, armed>>
  BY <1>0, <1>1, <1>5, InFlightFinite DEF Backlog
<1>6. Input => UNCHANGED <<queue, armed>>
  BY DEF Input, KeyOrIgnore, Listen, MenuEvent, NetRequest
<1>7. ServiceProgress \/ EndOfLines \/ Signal \/ UNCHANGED vars
        => SendCommand \/ LeaveOnExit \/ UNCHANGED <<queue, armed>>
  BY DEF ServiceProgress, LoopTest, PopTimesOut, NoRequest, JoinAll, Lookup,
     CallbackReturn, CallbackFaults, Crash, EndOfLines, Signal, vars
<1> QED
  BY <1>2, <1>3, <1>4, <1>5, <1>6, <1>7

(* After the exit flag is set, the commands queued and those on their way to *)
(* the queue together only become fewer, for any number of clients and any   *)
(* bound on the queue.                                                      *)
THEOREM ExitDrains == Spec => ExitStopsProducers
<1> DEFINE P == g_exit => Len(queue') + Cardinality(InFlight')
                            <= Len(queue) + Cardinality(InFlight)
<1>1. ASSUME CountInv, [Next]_vars PROVE P
  BY <1>1, ClientsAddNothing, ServiceAddsNothing
     DEF CountInv, Next, Stopped, Backlog
<1> QED
  BY <1>1, InitCount, CountStep, PTL DEF Spec, ExitStopsProducers

=============================================================================
