------------------------------ MODULE ServiceThread ------------------------------
(***************************************************************************)
(* The core of lcd-stuff (src/src/servicethread.c, and main() around it):   *)
(* one service thread owns the connection to LCDd; every client module      *)
(* (mail, rss, weather, mpd, mplayer) runs in a thread of its own,          *)
(* registers a callback table and a cookie, queues commands and leaves.     *)
(*                                                                         *)
(* The cookie is the address of a local variable of the client's thread     *)
(* function: it is valid until that thread has returned.  The two hash      *)
(* tables hold at most five entries, so no insertion resizes them; the      *)
(* unlocked lookups of client_data are modelled as atomic reads.            *)
(***************************************************************************)
EXTENDS Naturals, Sequences, FiniteSets

CONSTANTS
  Clients,         \* the modules that have a group in the configuration
  None,            \* NULL
  Handles,         \* Handles[c]: the callbacks that are not NULL in c's table
  Drawing,         \* the clients whose callbacks queue commands
  BadConfig,       \* the clients (mail, rss) whose init returns false
  MayFailConnect,  \* the clients (mpd) that leave if they cannot connect
  Events,          \* the kinds of lines and requests that arrive
  ServerMayDie,    \* may a read or a keep-alive fail?
  MaxQueue         \* BOUND: queued commands beyond which no client starts one

Kinds == {"key", "listen", "ignore", "menu", "net"}
Verbs == {"screen_add", "draw", "screen_del"}

ASSUME ClientsAssumption ==
  /\ IsFiniteSet(Clients)
  /\ None \notin Clients \cup Verbs
ASSUME TableAssumption ==
  /\ Handles \in [Clients -> SUBSET Kinds]
  /\ Drawing \subseteq Clients
  /\ BadConfig \subseteq Clients
  /\ MayFailConnect \subseteq Clients
  /\ Drawing \cap MayFailConnect = {}
ASSUME EnvironmentAssumption ==
  /\ Events \subseteq Kinds
  /\ ServerMayDie \in BOOLEAN
  /\ MaxQueue \in Nat \ {0}

VARIABLES
  g_exit,         \* the flag every loop tests
  clients,        \* names in service_thread->clients
  client_data,    \* names in service_thread->client_data
  client_number,  \* the atomic counter
  current,        \* service_thread->current
  queue,          \* command_queue: records of Command
  torn,           \* queue, tables and mutex have been freed
  pc,             \* where each client thread is
  armed,          \* command a client formatted after it saw g_exit unset
  svc,            \* where the service thread (the main thread) is
  call,           \* the callback the service thread is about to make or in
  lcd_screens,    \* the screens LCDd has, by client
  fault           \* the first use of memory that is not there

registry == <<clients, client_data, client_number>>
vars == <<g_exit, clients, client_data, client_number, current, queue, torn,
          pc, armed, svc, call, lcd_screens, fault>>

Command == [from : Clients, verb : Verbs]
Locations == {"start", "insert", "count", "create", "config", "run",
              "deinit", "unregister", "remove", "uncount", "gone"}
ServiceLocations == {"top", "pop", "replies", "input", "net", "join", "done"}
Faults == {"none", "freed_queue", "freed_mutex", "null_cookie", "dead_cookie"}

CallRecord == [stage : {"none", "lookup", "run"}, kind : Kinds \cup {"none"},
               client : Clients \cup {None}, cookie : Clients \cup {None}]
NoCall == [stage |-> "none", kind |-> "none", client |-> None, cookie |-> None]

-----------------------------------------------------------------------------
Init ==
  /\ g_exit = FALSE
  /\ clients = {}
  /\ client_data = {}
  /\ client_number = 0
  /\ current = None
  /\ queue = << >>
  /\ torn = FALSE
  /\ pc = [c \in Clients |-> "start"]
  /\ armed = [c \in Clients |-> None]
  /\ svc = "top"
  /\ call = NoCall
  /\ lcd_screens = {}
  /\ fault = "none"

(* The client c, with no command half queued, goes from one place to another. *)
Move(c, from, to) ==
  /\ fault = "none"
  /\ armed[c] = None
  /\ pc[c] = from
  /\ pc' = [pc EXCEPT ![c] = to]

(* A client touches freed memory: the program stops there. *)
Crash(what) ==
  /\ fault' = what
  /\ UNCHANGED <<g_exit, registry, current, queue, torn, pc, armed, svc,
                 call, lcd_screens>>

-----------------------------------------------------------------------------
(* service_thread_register_client: test, locked insertion, atomic increment. *)
RegisterTest(c) ==
  /\ Move(c, "start", IF g_exit THEN "create" ELSE "insert")
  /\ UNCHANGED <<g_exit, registry, current, queue, torn, armed, svc, call,
                 lcd_screens, fault>>

RegisterInsert_NoCookie(c) ==  \* mutant: the second table is forgotten
  /\ ~ torn
  /\ Move(c, "insert", "count")
  /\ clients' = clients \cup {c}
  /\ UNCHANGED <<g_exit, client_data, client_number, current, queue, torn,
                 armed, svc, call, lcd_screens, fault>>

RegisterInsert(c) ==
  /\ ~ torn
  /\ Move(c, "insert", "count")
  /\ clients' = clients \cup {c}
  /\ client_data' = client_data \cup {c}
  /\ UNCHANGED <<g_exit, client_number, current, queue, torn, armed, svc,
                 call, lcd_screens, fault>>

RegisterCount(c) ==
  /\ Move(c, "count", "create")
  /\ client_number' = client_number + 1
  /\ UNCHANGED <<g_exit, clients, client_data, current, queue, torn, armed,
                 svc, call, lcd_screens, fault>>

(* service_thread_unregister_client: a no-op once g_exit is set.  The last   *)
(* client out makes the whole program leave.                                *)
UnregisterTest(c) ==
  /\ Move(c, "unregister", IF g_exit THEN "gone" ELSE "remove")
  /\ UNCHANGED <<g_exit, registry, current, queue, torn, armed, svc, call,
                 lcd_screens, fault>>

UnregisterRemove_NoCount(c) ==  \* mutant: returns before the decrement
  /\ ~ torn
  /\ Move(c, "remove", "gone")
  /\ clients' = clients \ {c}
  /\ client_data' = client_data \ {c}
  /\ UNCHANGED <<g_exit, client_number, current, queue, torn, armed, svc,
                 call, lcd_screens, fault>>

UnregisterRemove(c) ==
  /\ ~ torn
  /\ Move(c, "remove", "uncount")
  /\ clients' = clients \ {c}
  /\ client_data' = client_data \ {c}
  /\ UNCHANGED <<g_exit, client_number, current, queue, torn, armed, svc,
                 call, lcd_screens, fault>>

UnregisterCount_OneEarly(c) ==  \* mutant: off by one in the test for zero
  /\ Move(c, "uncount", "gone")
  /\ client_number' = client_number - 1
  /\ g_exit' = (g_exit \/ client_number <= 2)
  /\ UNCHANGED <<clients, client_data, current, queue, torn, armed, svc,
                 call, lcd_screens, fault>>

UnregisterCount(c) ==
  /\ Move(c, "uncount", "gone")
  /\ client_number' = client_number - 1
  /\ g_exit' = (g_exit \/ client_number = 1)
  /\ UNCHANGED <<clients, client_data, current, queue, torn, armed, svc,
                 call, lcd_screens, fault>>

(* The two of them that lock the mutex after it has been freed. *)
LockFreedMutex(c) ==
  /\ torn
  /\ fault = "none"
  /\ pc[c] \in {"insert", "remove"}
  /\ Crash("freed_mutex")

-----------------------------------------------------------------------------
(* service_thread_command, called by a client thread.  The test of g_exit    *)
(* and the push are two steps; a command that finds g_exit set is dropped.   *)
InFlight == {c \in Clients : armed[c] # None}
Room == Len(queue) + Cardinality(InFlight) < MaxQueue

Arm_NoTest(c, verb) ==  \* mutant: g_exit is not tested
  /\ Room
  /\ armed' = [armed EXCEPT ![c] = verb]

Arm(c, verb) ==
  /\ g_exit \/ Room
  /\ armed' = [armed EXCEPT ![c] = IF g_exit THEN None ELSE verb]

Push_Front(c) ==  \* mutant: pushed at the wrong end
  /\ fault = "none"
  /\ armed[c] # None
  /\ ~ torn
  /\ queue' = <<[from |-> c, verb |-> armed[c]]>> \o queue
  /\ armed' = [armed EXCEPT ![c] = None]
  /\ UNCHANGED <<g_exit, registry, current, torn, pc, svc, call,
                 lcd_screens, fault>>

Push(c) ==
  /\ fault = "none"
  /\ armed[c] # None
  /\ ~ torn
  /\ queue' = Append(queue, [from |-> c, verb |-> armed[c]])
  /\ armed' = [armed EXCEPT ![c] = None]
  /\ UNCHANGED <<g_exit, registry, current, torn, pc, svc, call,
                 lcd_screens, fault>>

PushOnFreedQueue(c) ==
  /\ fault = "none"
  /\ armed[c] # None
  /\ torn
  /\ Crash("freed_queue")

-----------------------------------------------------------------------------
(* A client thread: <module>_init, the loop of <module>_run, and its exits.  *)
CreateScreen(c) ==
  /\ Move(c, "create", "config")
  /\ Arm(c, "screen_add")
  /\ UNCHANGED <<g_exit, registry, current, queue, torn, svc, call,
                 lcd_screens, fault>>

Draw(c) ==
  /\ ~ g_exit
  /\ \E at \in {"config", "run"} : Move(c, at, at)
  /\ Arm(c, "draw")
  /\ UNCHANGED <<g_exit, registry, current, queue, torn, svc, call,
                 lcd_screens, fault>>

(* mail_init and rss_init return false when nothing is configured, and the   *)
(* thread function returns at once: nobody unregisters the client.           *)
InitFails(c) ==
  /\ c \in BadConfig
  /\ Move(c, "config", "gone")
  /\ UNCHANGED <<g_exit, registry, current, queue, torn, armed, svc, call,
                 lcd_screens, fault>>

ConnectFails(c) ==
  /\ c \in MayFailConnect
  /\ Move(c, "config", "deinit")
  /\ UNCHANGED <<g_exit, registry, current, queue, torn, armed, svc, call,
                 lcd_screens, fault>>

InitDone(c) ==
  /\ c \notin BadConfig
  /\ Move(c, "config", "run")
  /\ UNCHANGED <<g_exit, registry, current, queue, torn, armed, svc, call,
                 lcd_screens, fault>>

LoopExit_AnyTime(c) ==  \* mutant: a loop that ends by itself
  /\ Move(c, "run", "unregister")
  /\ UNCHANGED <<g_exit, registry, current, queue, torn, armed, svc, call,
                 lcd_screens, fault>>

LoopExit(c) ==
  /\ g_exit
  /\ Move(c, "run", "unregister")
  /\ UNCHANGED <<g_exit, registry, current, queue, torn, armed, svc, call,
                 lcd_screens, fault>>

Deinit(c) ==
  /\ Move(c, "deinit", "unregister")
  /\ Arm(c, "screen_del")
  /\ UNCHANGED <<g_exit, registry, current, queue, torn, svc, call,
                 lcd_screens, fault>>

-----------------------------------------------------------------------------
(* The service thread: the loop of service_thread_run.                       *)
At(place) ==
  /\ fault = "none"
  /\ call.stage = "none"
  /\ svc = place

LoopTest_Always ==  \* mutant: the loop does not test g_exit
  /\ At("top")
  /\ svc' = "pop"
  /\ UNCHANGED <<g_exit, registry, current, queue, torn, pc, armed, call,
                 lcd_screens, fault>>

LoopTest ==
  /\ At("top")
  /\ ~ g_exit
  /\ svc' = "pop"
  /\ UNCHANGED <<g_exit, registry, current, queue, torn, pc, armed, call,
                 lcd_screens, fault>>

(* The head of the queue goes to LCDd, which executes it. *)
SendCommand ==
  /\ At("pop")
  /\ queue # << >>
  /\ LET cmd == Head(queue) IN
       lcd_screens' = CASE cmd.verb = "screen_add" -> lcd_screens \cup {cmd.from}
                        [] cmd.verb = "screen_del" -> lcd_screens \ {cmd.from}
                        [] OTHER -> lcd_screens
  /\ queue' = Tail(queue)
  /\ svc' = "replies"
  /\ UNCHANGED <<g_exit, registry, current, torn, pc, armed, call, fault>>

PopTimesOut_Busy ==  \* mutant: may report a timeout with commands queued
  /\ At("pop")
  /\ svc' = "input"
  /\ UNCHANGED <<g_exit, registry, current, queue, torn, pc, armed, call,
                 lcd_screens, fault>>

PopTimesOut ==
  /\ At("pop")
  /\ queue = << >>
  /\ svc' = "input"
  /\ UNCHANGED <<g_exit, registry, current, queue, torn, pc, armed, call,
                 lcd_screens, fault>>

EndOfLines ==
  /\ At("replies") \/ At("input")
  /\ svc' = "net"
  /\ UNCHANGED <<g_exit, registry, current, queue, torn, pc, armed, call,
                 lcd_screens, fault>>

(* Behind the loop: queue, table of clients and mutex are freed. *)
FreeAll ==
  /\ torn' = TRUE
  /\ queue' = << >>
  /\ svc' = "join"
  /\ UNCHANGED <<g_exit, registry, current, pc, armed, call, lcd_screens, fault>>

LeaveOnExit == At("top") /\ g_exit /\ FreeAll

(* A failed keep-alive or read breaks the loop and leaves g_exit as it is. *)
ServerDies == At("input") /\ ServerMayDie /\ FreeAll

(* main() joins the client threads and returns. *)
JoinAll ==
  /\ At("join")
  /\ \A c \in Clients : pc[c] = "gone"
  /\ svc' = "done"
  /\ UNCHANGED <<g_exit, registry, current, queue, torn, pc, armed, call,
                 lcd_screens, fault>>

-----------------------------------------------------------------------------
(* lcd_process_response.  LCDd sends listen and ignore for the screens it    *)
(* has; a client is called if its table has the callback.                    *)
Reading == At("replies") \/ At("input")
Calling(kind, c) ==
  call' = IF c # None /\ kind \in Handles[c]
            THEN [stage |-> "lookup", kind |-> kind, client |-> c, cookie |-> None]
            ELSE call

KeyOrIgnore(kind) ==
  /\ kind \in Events \cap {"key", "ignore"}
  /\ Reading
  /\ Calling(kind, current)
  /\ UNCHANGED <<g_exit, registry, current, queue, torn, pc, armed, svc,
                 lcd_screens, fault>>

Listen(c) ==
  /\ "listen" \in Events
  /\ Reading
  /\ c \in lcd_screens
  /\ current' = IF c \in clients THEN c ELSE None
  /\ Calling("listen", current')
  /\ UNCHANGED <<g_exit, registry, queue, torn, pc, armed, svc, lcd_screens,
                 fault>>

(* Menu items are made by the init that made the screen. *)
MenuEvent(c) ==
  /\ "menu" \in Events
  /\ Reading
  /\ c \in lcd_screens
  /\ Calling("menu", IF c \in clients THEN c ELSE None)
  /\ UNCHANGED <<g_exit, registry, current, queue, torn, pc, armed, svc,
                 lcd_screens, fault>>

(* check_for_net_input: at most one request of the remote each iteration. *)
NetRequest(c) ==
  /\ "net" \in Events
  /\ At("net")
  /\ Calling("net", IF c \in clients THEN c ELSE None)
  /\ svc' = "top"
  /\ UNCHANGED <<g_exit, registry, current, queue, torn, pc, armed,
                 lcd_screens, fault>>

NoRequest ==
  /\ At("net")
  /\ svc' = "top"
  /\ UNCHANGED <<g_exit, registry, current, queue, torn, pc, armed, call,
                 lcd_screens, fault>>

-----------------------------------------------------------------------------
(* The cookie is looked up without the mutex, after the client has been      *)
(* found.  The menu branch looks it up by the address of the client's table  *)
(* where the key is the name, and finds nothing.                             *)
FoundCookie(kind, c) ==
  IF kind # "menu" /\ c \in client_data THEN c ELSE None

Lookup ==
  /\ fault = "none"
  /\ call.stage = "lookup"
  /\ call' = [call EXCEPT !.stage = "run",
                          !.cookie = FoundCookie(call.kind, call.client)]
  /\ UNCHANGED <<g_exit, registry, current, queue, torn, pc, armed, svc,
                 lcd_screens, fault>>

InCallback ==
  /\ fault = "none"
  /\ call.stage = "run"

(* A callback that draws does so on the screen its client has created. *)
CallbackDraw ==
  /\ InCallback
  /\ ~ g_exit
  /\ call.cookie \in Drawing
  /\ pc[call.cookie] \in {"config", "run"}
  /\ armed[call.cookie] # "screen_add"
  /\ Room
  /\ queue' = Append(queue, [from |-> call.cookie, verb |-> "draw"])
  /\ UNCHANGED <<g_exit, registry, current, torn, pc, armed, svc, call,
                 lcd_screens, fault>>

(* Menu and net callbacks return early for arguments that are not theirs. *)
CallbackReturn ==
  /\ InCallback
  /\ call.cookie # None \/ call.kind \in {"menu", "net"}
  /\ call' = NoCall
  /\ UNCHANGED <<g_exit, registry, current, queue, torn, pc, armed, svc,
                 lcd_screens, fault>>

CallbackFaults ==
  /\ InCallback
  /\ \/ call.cookie = None /\ Crash("null_cookie")
     \/ call.cookie # None /\ pc[call.cookie] = "gone" /\ Crash("dead_cookie")

-----------------------------------------------------------------------------
(* SIGTERM or SIGINT. *)
Signal ==
  /\ fault = "none"
  /\ svc # "done"
  /\ ~ g_exit
  /\ g_exit' = TRUE
  /\ UNCHANGED <<registry, current, queue, torn, pc, armed, svc, call,
                 lcd_screens, fault>>

(* The program has returned from main() or has crashed. *)
Stopped ==
  /\ svc = "done" \/ fault # "none"
  /\ UNCHANGED vars

Register(c) == RegisterTest(c) \/ RegisterInsert(c) \/ RegisterCount(c)
Unregister(c) == UnregisterTest(c) \/ UnregisterRemove(c) \/ UnregisterCount(c)

(* What a client thread does without being asked, drawing apart. *)
ClientProgress(c) ==
  \/ Register(c) \/ Unregister(c) \/ LockFreedMutex(c)
  \/ Push(c) \/ PushOnFreedQueue(c)
  \/ CreateScreen(c) \/ InitFails(c) \/ ConnectFails(c) \/ InitDone(c)
  \/ LoopExit(c) \/ Deinit(c)

ServiceProgress ==
  \/ LoopTest \/ SendCommand \/ PopTimesOut \/ NoRequest \/ LeaveOnExit \/ JoinAll
  \/ Lookup \/ CallbackReturn \/ CallbackFaults

Input ==
  \/ \E kind \in {"key", "ignore"} : KeyOrIgnore(kind)
  \/ \E c \in Clients : Listen(c) \/ MenuEvent(c) \/ NetRequest(c)

Next ==
  \/ \E c \in Clients : ClientProgress(c) \/ Draw(c)
  \/ ServiceProgress
  \/ EndOfLines
  \/ ServerDies
  \/ Input
  \/ CallbackDraw
  \/ Signal
  \/ Stopped

Spec == Init /\ [][Next]_vars

(* Threads are scheduled, callbacks return, and LCDd does not keep a line    *)
(* ready at every single read.                                              *)
Fairness ==
  /\ \A c \in Clients : WF_vars(ClientProgress(c))
  /\ WF_vars(ServiceProgress)
  /\ SF_vars(EndOfLines)

FairSpec == Spec /\ Fairness

-----------------------------------------------------------------------------
(* Properties.                                                               *)

(* Every variable keeps its type; in particular client_number, decremented   *)
(* by threads that counted themselves, never goes below zero.                *)
TypeOK ==
  /\ g_exit \in BOOLEAN
  /\ clients \subseteq Clients
  /\ client_data \subseteq Clients
  /\ client_number \in Nat
  /\ current \in Clients \cup {None}
  /\ queue \in Seq(Command)
  /\ torn \in BOOLEAN
  /\ pc \in [Clients -> Locations]
  /\ armed \in [Clients -> Verbs \cup {None}]
  /\ svc \in ServiceLocations
  /\ call \in CallRecord
  /\ lcd_screens \subseteq Clients
  /\ fault \in Faults

(* client_number (an atomic, changed outside the mutex) is the number of     *)
(* clients in the table, those aside that have inserted and not yet counted  *)
(* themselves or have removed themselves and are still counted.              *)
Counted == {c \in Clients : (c \in clients /\ pc[c] # "count") \/ pc[c] = "uncount"}
CountMatches == client_number = Cardinality(Counted)

(* In a program whose modules are all configured, whose mpd can connect and  *)
(* whose LCDd lives and sends no menu event, no callback is handed a cookie  *)
(* that is gone and no thread uses the queue or the mutex after its end      *)
(* while the program is running: whatever goes wrong here goes wrong at exit.*)
Healthy ==
  BadConfig = {} /\ MayFailConnect = {} /\ "menu" \notin Events /\ ~ ServerMayDie
NoFaultBeforeExit == Healthy /\ ~ g_exit => fault = "none"

(* LCDd is never sent a command about a screen it does not have: commands of *)
(* one client arrive in the order queued, behind its screen_add and before   *)
(* its screen_del, also when callbacks queue commands for it meanwhile.      *)
NoOrphanCommand ==
  \A i \in 1 .. Len(queue) : queue[i].verb # "screen_add" =>
    LET mine(verb) == [from |-> queue[i].from, verb |-> verb] IN
    /\ \/ queue[i].from \in lcd_screens
       \/ \E j \in 1 .. i - 1 : queue[j] = mine("screen_add")
    /\ \A j \in 1 .. i - 1 : queue[j] # mine("screen_del")

(* Outside shutdown a callback is handed the stack frame of a thread that    *)
(* has returned only for a client that left on its own: init or connect      *)
(* failed, and nobody told the service thread in time.                       *)
DeadCookieCause ==
  fault = "dead_cookie" /\ ~ g_exit =>
    call.cookie \in BadConfig \cup MayFailConnect

(* A client that leaves ends the program (the last one does) only if every   *)
(* other one has left or has not counted itself yet: it never stops a client *)
(* that is counted.                                                          *)
UnregisterSparesCounted ==
  [][~ g_exit /\ g_exit' /\ pc' # pc =>
       \A c \in Clients : pc'[c] \in {"start", "insert", "count", "gone"}]_vars

(* Once g_exit is set no thread starts a command: the queue grows only by    *)
(* commands that were already past the test.                                 *)
ExitStopsProducers ==
  [][g_exit => Len(queue') + Cardinality(InFlight')
                 <= Len(queue) + Cardinality(InFlight)]_vars

(* After SIGTERM, or after the last client has left, main() returns (or the  *)
(* program has crashed on the way).                                          *)
Crashed == fault # "none"
ShutdownCompletes == g_exit ~> (svc = "done" \/ Crashed)

(* The screen of a client that has reached its loop appears on the display,  *)
(* unless the program is leaving.                                            *)
ScreenAppears ==
  \A c \in Clients :
    pc[c] = "run" ~> (c \in lcd_screens \/ g_exit \/ torn \/ Crashed)

-----------------------------------------------------------------------------
(* Statements of the documentation that the code does not keep.              *)

(* README: selecting a station from the LCDd menu plays it, for which the    *)
(* menu callback needs the cookie of the client that registered it.          *)
MenuGetsCookie == call.kind = "menu" /\ call.stage = "run" => call.cookie = call.client

(* ChangeLog "core: join threads": main() joins the threads and returns      *)
(* when the service thread's loop has ended.                                 *)
JoinReturns == svc = "join" ~> (svc = "done" \/ Crashed)
=============================================================================
