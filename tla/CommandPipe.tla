------------------------------ MODULE CommandPipe ------------------------------
(***************************************************************************)
(* What service_thread_command promises: "Sends a command".  As long as the *)
(* connection stands, LCDd executes every command that was queued, once     *)
(* each, in the order in which they were queued.  When the connection is    *)
(* gone, commands are lost.  Commands are numbered in queueing order.       *)
(***************************************************************************)
EXTENDS Naturals, Sequences

CONSTANT MaxCommands   \* BOUND: commands queued in a behaviour

VARIABLES
  submitted, \* number of commands queued so far
  pending,   \* commands queued that LCDd has not executed
  executed,  \* number of the last command executed
  connected

pipe == <<submitted, pending, executed, connected>>

Init ==
  /\ submitted = 0
  /\ pending = << >>
  /\ executed = 0
  /\ connected = TRUE

Submit ==
  /\ submitted < MaxCommands
  /\ submitted' = submitted + 1
  /\ pending' = Append(pending, submitted')
  /\ UNCHANGED <<executed, connected>>

Execute ==
  /\ connected
  /\ pending # << >>
  /\ executed' = Head(pending)
  /\ pending' = Tail(pending)
  /\ UNCHANGED <<submitted, connected>>

(* What was on the wire is lost with the connection. *)
Disconnect ==
  /\ connected
  /\ connected' = FALSE
  /\ \E n \in 0 .. Len(pending) : pending' = SubSeq(pending, n + 1, Len(pending))
  /\ UNCHANGED <<submitted, executed>>

Lose ==
  /\ ~ connected
  /\ pending # << >>
  /\ pending' = Tail(pending)
  /\ UNCHANGED <<submitted, executed, connected>>

Next == Submit \/ Execute \/ Disconnect \/ Lose

Spec == Init /\ [][Next]_pipe
=============================================================================
