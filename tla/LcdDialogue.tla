------------------------------ MODULE LcdDialogue ------------------------------
(***************************************************************************)
(* The dialogue with LCDd over one TCP connection: the handshake in main()  *)
(* (src/src/main.c), then send_command_succ, check_for_input and the        *)
(* keep-alive of service_thread_run (src/src/servicethread.c), on the reads *)
(* and writes of src/shared/sockets.c.                                      *)
(*                                                                         *)
(* LCDd answers each command with one line, "success" or "huh?", hello with *)
(* a line that describes the display, and sends event lines (key, listen,   *)
(* ignore, menuevent) when it likes; the end of a line may arrive after its *)
(* beginning.  The socket does not block: a read that finds nothing returns *)
(* 0, and so does one at the end of the stream; a line that has begun is    *)
(* waited for.  After sending, the service thread looks at most Attempts    *)
(* times for the answer and then takes the command for done; the answer     *)
(* comes in later, in front of somebody else's.  main() leaves the answer   *)
(* to client_set unread, so the first answer is late.                       *)
(*                                                                         *)
(* g_exit stays unset here (ServiceThread has the exit); an event line runs *)
(* a callback, which ServiceThread models, and is otherwise skipped.        *)
(***************************************************************************)
EXTENDS Naturals, Sequences, Selection

CONSTANTS
  Attempts,     \* reads for one answer (10 in the code)
  NoopPeriod,   \* idle rounds between two keep-alives (30 in the code)
  MaxCommands,  \* BOUND: commands the clients queue
  MaxWire,      \* BOUND: what the socket buffers hold, in commands
  MaxInbox,     \* BOUND: unread lines beyond which LCDd sends no event
  LcddMayDie

ASSUME DialogueAssumption ==
  /\ Attempts \in Nat \ {0}
  /\ NoopPeriod \in Nat
  /\ MaxCommands \in Nat
  /\ MaxWire \in Nat \ {0}
  /\ MaxInbox \in Nat
  /\ LcddMayDie \in BOOLEAN

VARIABLES
  queue,     \* command_queue: numbers of commands
  submitted, \* commands queued so far
  wire,      \* commands sent that LCDd has not executed
  executed,  \* the last command of the queue that LCDd has executed
  inbox,     \* lines LCDd has sent that are unread
  torn,      \* the last of them has arrived in part only
  conn,      \* the connection, as the service thread's socket sees it
  phase,     \* where service_thread_run is
  cmd,       \* the command whose answer is awaited
  reads,     \* loopcount of send_command_succ
  count,     \* idle rounds since the last keep-alive
  refused    \* has LCDd answered "huh?", or has it a display of one line?

received == <<inbox, torn>>
vars == <<queue, submitted, wire, executed, inbox, torn, conn, phase,
          cmd, reads, count, refused>>

(* Commands of the queue are numbered from 1; hello, client_set and noop     *)
(* are 0.                                                                    *)
Housekeeping == 0
Answers == {"success", "huh?", "event"}
Greetings == {"connect", "flat", "huh?"}
Lines == Answers \cup Greetings \cup {"cut"}   \* cut: an event without words
Over == {"ended", "exit", "crash"}
Phases == {"hello", "loop", "await", "input"} \cup Over

(* up; closed by LCDd; closed and written to since; reset. *)
Connections == {"up", "fin", "written", "reset"}

Init ==
  /\ queue = << >>
  /\ submitted = 0
  /\ wire = <<Housekeeping>>
  /\ executed = 0
  /\ inbox = << >>
  /\ torn = FALSE
  /\ conn = "up"
  /\ phase = "hello"
  /\ cmd = Housekeeping
  /\ reads = 0
  /\ count = 0
  /\ refused = FALSE

-----------------------------------------------------------------------------
(* sock_recv_string: a line. *)
ReadWhole(line) ==
  /\ Len(inbox) > (IF torn THEN 1 ELSE 0)
  /\ line = Head(inbox)
  /\ inbox' = Tail(inbox)
  /\ UNCHANGED torn

ReadPart_Early(line) ==  \* mutant: no more bytes yet is taken for the end
  /\ Len(inbox) = 1 /\ torn
  /\ line \in Lines
  /\ inbox' = << >>
  /\ torn' = FALSE

(* At the end of the stream it returns the part of a line that it has,       *)
(* without a terminator: what the buffer held before is read with it, and    *)
(* the words of an event that are not there are uninitialised pointers.      *)
ReadPart(line) ==
  /\ Len(inbox) = 1 /\ torn
  /\ conn \in {"fin", "written"}
  /\ line \in Lines
  /\ inbox' = << >>
  /\ torn' = FALSE

ReadLine(line) == ReadWhole(line) \/ ReadPart(line)

(* It fails; a part of a line is lost. *)
ReadFails ==
  /\ conn = "reset"
  /\ inbox = << >> \/ (Len(inbox) = 1 /\ torn)
  /\ inbox' = << >>
  /\ torn' = FALSE

-----------------------------------------------------------------------------
(* communication_init has sent hello.  It waits for a line as long as reads  *)
(* return 0, at the end of the stream for ever.  Then client_set is sent,    *)
(* its result ignored.                                                       *)
ClientSet ==
  /\ phase' = "loop"
  /\ wire' = IF conn = "up" THEN Append(wire, Housekeeping) ELSE wire
  /\ conn' = IF conn = "fin" THEN "written" ELSE conn

Exit == phase' = "exit" /\ UNCHANGED <<wire, conn>>

Greeted ==
  /\ phase = "hello"
  /\ \E line \in Greetings :
       ReadWhole(line) /\ IF line = "connect" THEN ClientSet ELSE Exit
  /\ UNCHANGED <<queue, submitted, executed, cmd, reads, count, refused>>

Garbled ==
  \/ ClientSet
  \/ Exit
  \/ phase' = "crash" /\ UNCHANGED <<wire, conn>>

GreetingLost_Retried ==  \* mutant: an error is waited out as silence is
  /\ phase = "hello"
  /\ \E line \in Lines : ReadPart(line)
  /\ Garbled
  /\ UNCHANGED <<queue, submitted, executed, cmd, reads, count, refused>>

(* After a part of a line or an error get_args splits a buffer that was not  *)
(* filled: too few words, eight of the ten that are used, or all.            *)
GreetingLost ==
  /\ phase = "hello"
  /\ ReadFails \/ \E line \in Lines : ReadPart(line)
  /\ Garbled
  /\ UNCHANGED <<queue, submitted, executed, cmd, reads, count, refused>>

-----------------------------------------------------------------------------
(* A client queues a command. *)
Submit ==
  /\ phase \notin {"hello", "exit", "crash"}
  /\ submitted < MaxCommands
  /\ submitted' = submitted + 1
  /\ queue' = Append(queue, submitted + 1)
  /\ UNCHANGED <<wire, executed, received, conn, phase, cmd, reads, count,
                 refused>>

(* sock_send_string: waits (spinning) for room in the buffers; accepted until *)
(* the peer has answered a write with a reset, then EPIPE.                   *)
Write(c) ==
  /\ conn # "reset"
  /\ Len(wire) < MaxWire
  /\ wire' = IF conn = "up" THEN Append(wire, c) ELSE wire
  /\ conn' = IF conn = "fin" THEN "written" ELSE conn
  /\ phase' = "await"
  /\ cmd' = c
  /\ reads' = 0

PopAndSend_KeepsHead ==  \* mutant: the command stays queued until it fails
  /\ phase = "loop"
  /\ queue # << >>
  /\ Write(Head(queue))
  /\ UNCHANGED <<queue, submitted, executed, received, count, refused>>

PopAndSend ==
  /\ phase = "loop"
  /\ queue # << >>
  /\ Write(Head(queue))
  /\ queue' = Tail(queue)
  /\ UNCHANGED <<submitted, executed, received, count, refused>>

(* The error of a command other than the keep-alive is ignored. *)
SendFails ==
  /\ phase = "loop"
  /\ queue # << >>
  /\ conn = "reset"
  /\ queue' = Tail(queue)
  /\ UNCHANGED <<submitted, wire, executed, received, conn, phase, cmd, reads,
                 count, refused>>

KeepAlive_NoReset ==  \* mutant: the rounds are not counted anew
  /\ phase = "loop"
  /\ queue = << >>
  /\ count >= NoopPeriod
  /\ Write(Housekeeping)
  /\ count' = count + 1
  /\ UNCHANGED <<queue, submitted, executed, received, refused>>

KeepAlive ==
  /\ phase = "loop"
  /\ queue = << >>
  /\ count = NoopPeriod
  /\ Write(Housekeeping)
  /\ count' = 0
  /\ UNCHANGED <<queue, submitted, executed, received, refused>>

KeepAliveFails_Ignored ==  \* mutant: the result of the noop is dropped
  /\ phase = "loop"
  /\ queue = << >>
  /\ count = NoopPeriod
  /\ conn = "reset"
  /\ count' = 0
  /\ UNCHANGED <<queue, submitted, wire, executed, received, conn, phase, cmd,
                 reads, refused>>

KeepAliveFails ==
  /\ phase = "loop"
  /\ queue = << >>
  /\ count = NoopPeriod
  /\ conn = "reset"
  /\ phase' = "ended"
  /\ UNCHANGED <<queue, submitted, wire, executed, received, conn, cmd, reads,
                 count, refused>>

IdleRound_NoRead ==  \* mutant: no look at the socket while idle
  /\ phase = "loop"
  /\ queue = << >>
  /\ count < NoopPeriod
  /\ count' = count + 1
  /\ UNCHANGED <<queue, submitted, wire, executed, received, conn, phase, cmd,
                 reads, refused>>

IdleRound ==
  /\ phase = "loop"
  /\ queue = << >>
  /\ count < NoopPeriod
  /\ count' = count + 1
  /\ phase' = "input"
  /\ UNCHANGED <<queue, submitted, wire, executed, received, conn, cmd, reads,
                 refused>>

-----------------------------------------------------------------------------
(* send_command_succ: any answer is taken for the answer to cmd.  Its result *)
(* counts for the keep-alive alone.                                         *)
AwaitLine ==
  /\ phase = "await"
  /\ reads < Attempts
  /\ \E line \in Lines :
       /\ ReadLine(line)
       /\ reads' = IF line = "event" THEN reads + 1 ELSE reads
       /\ phase' = CASE line = "event" -> "await"
                     [] line = "cut" -> "crash"
                     [] line = "success" -> "loop"
                     [] OTHER -> IF cmd = Housekeeping THEN "ended" ELSE "loop"
  /\ UNCHANGED <<queue, submitted, wire, executed, conn, cmd, count, refused>>

AwaitNothing ==
  /\ phase = "await"
  /\ reads < Attempts
  /\ inbox = << >>
  /\ reads' = reads + 1
  /\ UNCHANGED <<queue, submitted, wire, executed, received, conn, phase, cmd,
                 count, refused>>

(* After the last attempt, and after a read error (the code returns the      *)
(* result of the send), the command counts as done.                         *)
AwaitEnds ==
  /\ phase = "await"
  /\ \/ reads = Attempts /\ UNCHANGED received
     \/ (reads < Attempts /\ ReadFails)
  /\ phase' = "loop"
  /\ UNCHANGED <<queue, submitted, wire, executed, conn, cmd, reads, count,
                 refused>>

(* check_for_input: the lines up to the first answer. *)
InputLine_EventFails ==  \* mutant: a callback counts as a failure
  /\ phase = "input"
  /\ \E line \in Lines :
       /\ ReadLine(line)
       /\ phase' = IF line = "success" THEN "loop" ELSE "ended"
  /\ UNCHANGED <<queue, submitted, wire, executed, conn, cmd, reads, count,
                 refused>>

InputLine ==
  /\ phase = "input"
  /\ \E line \in Lines :
       /\ ReadLine(line)
       /\ phase' = CASE line = "event" -> "input"
                     [] line = "cut" -> "crash"
                     [] line = "success" -> "loop"
                     [] OTHER -> "ended"
  /\ UNCHANGED <<queue, submitted, wire, executed, conn, cmd, reads, count,
                 refused>>

InputEnds ==
  /\ phase = "input"
  /\ inbox = << >>
  /\ phase' = "loop"
  /\ UNCHANGED <<queue, submitted, wire, executed, received, conn, cmd, reads,
                 count, refused>>

InputError ==
  /\ phase = "input"
  /\ ReadFails
  /\ phase' = "ended"
  /\ UNCHANGED <<queue, submitted, wire, executed, conn, cmd, reads, count,
                 refused>>

-----------------------------------------------------------------------------
(* LCDd and the network.  A line arrives whole or in part, with the rest of  *)
(* the one before it.                                                        *)
Arrives(line) ==
  /\ inbox' = Append(inbox, line)
  /\ torn' \in BOOLEAN

Serve ==
  /\ conn = "up"
  /\ wire # << >>
  /\ executed' = IF Head(wire) = Housekeeping THEN executed ELSE Head(wire)
  /\ \E answer \in IF phase = "hello" THEN Greetings
                   ELSE IF Head(wire) = Housekeeping THEN {"success"}
                   ELSE {"success", "huh?"} :
       /\ Arrives(answer)
       /\ refused' = (refused \/ answer \in {"huh?", "flat"})
  /\ wire' = Tail(wire)
  /\ UNCHANGED <<queue, submitted, conn, phase, cmd, reads, count>>

SendEvent ==
  /\ conn = "up"
  /\ phase # "hello"
  /\ Len(inbox) < MaxInbox
  /\ Arrives("event")
  /\ UNCHANGED <<queue, submitted, wire, executed, conn, phase, cmd, reads,
                 count, refused>>

RestArrives ==
  /\ conn = "up"
  /\ torn
  /\ torn' = FALSE
  /\ UNCHANGED <<queue, submitted, wire, executed, inbox, conn, phase, cmd,
                 reads, count, refused>>

(* What it has not read makes the system reset the connection. *)
LcddDies ==
  /\ LcddMayDie
  /\ conn = "up"
  /\ conn' \in IF wire = << >> THEN {"fin"} ELSE {"fin", "reset"}
  /\ wire' = << >>
  /\ UNCHANGED <<queue, submitted, executed, received, phase, cmd, reads,
                 count, refused>>

ResetArrives ==
  /\ conn = "written"
  /\ conn' = "reset"
  /\ UNCHANGED <<queue, submitted, wire, executed, received, phase, cmd, reads,
                 count, refused>>

(* The program or its loop is over, or it waits in the handshake for ever.   *)
Rests ==
  /\ phase \in Over \/ (phase = "hello" /\ conn # "up" /\ inbox = << >>)
  /\ UNCHANGED vars

Await == AwaitLine \/ AwaitNothing \/ AwaitEnds
Input == InputLine \/ InputEnds \/ InputError
ServiceStep ==
  \/ Greeted \/ GreetingLost
  \/ PopAndSend \/ SendFails
  \/ KeepAlive \/ KeepAliveFails \/ IdleRound
  \/ Await \/ Input

Next ==
  \/ Submit \/ ServiceStep
  \/ Serve \/ SendEvent \/ RestArrives \/ LcddDies \/ ResetArrives
  \/ Rests

Spec == Init /\ [][Next]_vars

(* The service thread is scheduled; a living LCDd executes what it gets; TCP *)
(* delivers the rest of a line and the reset.  Events stop now and then: a   *)
(* read that would find no line is reached again and again.                  *)
Fairness ==
  /\ WF_vars(ServiceStep)
  /\ WF_vars(Serve)
  /\ WF_vars(RestArrives)
  /\ WF_vars(ResetArrives)
  /\ SF_vars(InputEnds)

FairSpec == Spec /\ Fairness

-----------------------------------------------------------------------------
(* Properties.                                                               *)

(* Types; the loop counters stay within their limits, so that the keep-alive *)
(* test for equality with NoopPeriod is never jumped over.                   *)
TypeOK ==
  /\ queue \in Seq(1 .. MaxCommands)
  /\ submitted \in 0 .. MaxCommands
  /\ wire \in Seq(0 .. MaxCommands)
  /\ executed \in 0 .. MaxCommands
  /\ inbox \in Seq(Answers \cup Greetings)
  /\ torn \in BOOLEAN
  /\ torn => inbox # << >>
  /\ conn \in Connections
  /\ phase \in Phases
  /\ cmd \in 0 .. MaxCommands
  /\ reads \in 0 .. Attempts
  /\ count \in 0 .. NoopPeriod
  /\ refused \in BOOLEAN

(* The dialogue keeps what service_thread_command promises: however late the *)
(* answers, a command is neither repeated nor overtaken nor skipped while    *)
(* the connection stands.                                                   *)
Pending == Select(wire, 1 .. MaxCommands) \o queue
Connected == conn = "up"
Pipe == INSTANCE CommandPipe WITH pending <- Pending, connected <- Connected
KeepsPromise == Pipe!Spec

(* With the types, a living LCDd does no harm: the handshake fails and the   *)
(* loop ends ("Server died") only if LCDd has refused a command or has too   *)
(* small a display, or has died.  Answers that come late or in parts, or are *)
(* read in place of others, and events between them do nothing of the kind.  *)
LivingServerHarmless == TypeOK /\ (phase \in Over /\ conn = "up" => refused)

(* The handshake ends, unless the stream does in the middle of it.           *)
StartEnds == phase = "hello" ~> phase # "hello" \/ conn = "fin"

(* Answers that came too late do not pile up: the idle rounds read them all  *)
(* in the end, although each keep-alive asks for one more.                   *)
Unread == SelectSeq(inbox, LAMBDA line : line # "event")
CatchesUp == []<>(Unread = << >> \/ phase \in Over)

(* A connection that LCDd has closed is noticed: reads at the end of the     *)
(* stream look like silence, so it takes the keep-alives to find out.  (The  *)
(* handshake does not notice.)                                               *)
DeathIsNoticed == conn # "up" /\ phase # "hello" ~> phase \in Over

=============================================================================
