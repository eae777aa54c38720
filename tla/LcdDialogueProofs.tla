--------------------------- MODULE LcdDialogueProofs ---------------------------
(***************************************************************************)
(* Proofs about the dialogue with LCDd, for any number of commands, reads,  *)
(* rounds and buffered lines.                                               *)
(***************************************************************************)
EXTENDS LcdDialogue, SelectionProofs, SequenceTheorems, TLAPS

LEMMA Actions ==
  ASSUME [Next]_vars
  PROVE  \/ Submit \/ Greeted \/ GreetingLost
         \/ PopAndSend \/ SendFails \/ KeepAlive \/ KeepAliveFails \/ IdleRound
         \/ AwaitLine \/ AwaitNothing \/ AwaitEnds
         \/ InputLine \/ InputEnds \/ InputError
         \/ Serve \/ SendEvent \/ RestArrives \/ LcddDies \/ ResetArrives
         \/ UNCHANGED vars
  BY DEF Next, ServiceStep, Await, Input, Rests

-----------------------------------------------------------------------------
(* What a read takes from the inbox, and what an arrival adds.               *)
InboxOK ==
  /\ inbox \in Seq(Answers \cup Greetings)
  /\ torn \in BOOLEAN
  /\ torn => inbox # << >>

(* Whatever is read, the rest is what was behind the first line.             *)
LEMMA LineRead ==
  ASSUME InboxOK, NEW line, ReadLine(line)
  PROVE  /\ InboxOK'
         /\ inbox # << >> /\ Len(inbox') = Len(inbox) - 1
         /\ \A i \in 1 .. Len(inbox') : inbox'[i] = inbox[i + 1]
         /\ conn = "up" => line = inbox[1]
<1>1. CASE ReadWhole(line)
  <2>1. torn' \in BOOLEAN /\ (torn' => Len(inbox) > 1)
    <3>1. torn' = torn /\ torn \in BOOLEAN
      BY <1>1, Zenon DEF ReadWhole, InboxOK
    <3>2. torn => Len(inbox) > 1
      BY <1>1 DEF ReadWhole
    <3> QED BY <3>1, <3>2, Zenon
  <2>2. inbox # << >> /\ inbox' = Tail(inbox) /\ line = inbox[1]
    <3>1. /\ Len(inbox) > 0 /\ line = Head(inbox) /\ inbox' = Tail(inbox)
          /\ inbox \in Seq(Answers \cup Greetings)
      BY <1>1 DEF ReadWhole, InboxOK
    <3> QED BY <3>1
  <2>3. /\ inbox' \in Seq(Answers \cup Greetings)
        /\ Len(inbox') = Len(inbox) - 1
        /\ \A i \in 1 .. Len(inbox') : inbox'[i] = inbox[i + 1]
    BY <2>2, HeadTailProperties DEF InboxOK
  <2>4. Len(inbox) > 1 => inbox' # << >>
    BY <2>3
  <2> QED BY <2>1, <2>2, <2>3, <2>4 DEF InboxOK
<1>2. CASE ReadPart(line)
  <2>1. Len(inbox) = 1 /\ inbox' = << >> /\ conn # "up"
    BY <1>2 DEF ReadPart
  <2>2. torn' = FALSE
    BY <1>2, Zenon DEF ReadPart
  <2>3. inbox # << >> /\ 1 .. Len(inbox') = {} /\ Len(inbox') = 0
    BY <2>1
  <2>4. InboxOK'
    BY <2>1, <2>2, EmptySeq, Zenon DEF InboxOK
  <2> QED BY <2>1, <2>3, <2>4
<1> QED BY <1>1, <1>2 DEF ReadLine

LEMMA PartLost ==
  ASSUME ReadFails
  PROVE  InboxOK' /\ inbox' = << >> /\ conn = "reset"
<1>1. torn' = FALSE
  BY Zenon DEF ReadFails
<1>2. inbox' = << >> /\ conn = "reset"
  BY DEF ReadFails
<1> QED BY <1>1, <1>2, EmptySeq, Zenon DEF InboxOK

LEMMA LineArrives ==
  ASSUME InboxOK, NEW line \in Answers \cup Greetings, Arrives(line)
  PROVE  /\ InboxOK'
         /\ Len(inbox') = Len(inbox) + 1
         /\ \A i \in 1 .. Len(inbox) : inbox'[i] = inbox[i]
         /\ inbox'[Len(inbox) + 1] = line
<1>1. torn' \in BOOLEAN
  BY DEF Arrives
<1>2. inbox' = Append(inbox, line) /\ inbox \in Seq(Answers \cup Greetings)
  BY DEF Arrives, InboxOK
<1> QED BY <1>1, <1>2, AppendProperties DEF InboxOK

-----------------------------------------------------------------------------
(* The types, in three parts.                                                *)
CommandsOK ==
  /\ queue \in Seq(1 .. MaxCommands)
  /\ submitted \in 0 .. MaxCommands
  /\ wire \in Seq(0 .. MaxCommands)
  /\ executed \in 0 .. MaxCommands
  /\ cmd \in 0 .. MaxCommands

ServiceOK ==
  /\ conn \in Connections
  /\ phase \in Phases
  /\ reads \in 0 .. Attempts
  /\ count \in 0 .. NoopPeriod
  /\ refused \in BOOLEAN

LEMMA CommandsStep ==
  ASSUME CommandsOK, [Next]_vars
  PROVE  CommandsOK'
<1> USE DialogueAssumption DEF CommandsOK, Housekeeping
<1>1. CASE Submit
  <2>1. submitted + 1 \in 1 .. MaxCommands
    BY <1>1 DEF Submit
  <2> QED BY <1>1, <2>1 DEF Submit
<1>2. CASE Greeted \/ GreetingLost
  <2>1. wire' = wire \/ wire' = Append(wire, 0)
    BY <1>2 DEF Greeted, GreetingLost, Garbled, ClientSet, Exit
  <2>2. UNCHANGED <<queue, submitted, executed, cmd>>
    BY <1>2 DEF Greeted, GreetingLost
  <2>3. Append(wire, 0) \in Seq(0 .. MaxCommands)
    BY AppendProperties
  <2>4. wire' \in Seq(0 .. MaxCommands)
    BY <2>1, <2>3
  <2> QED BY <2>2, <2>4
<1>3. CASE PopAndSend
  <2>1. /\ Head(queue) \in 1 .. MaxCommands
        /\ Tail(queue) \in Seq(1 .. MaxCommands)
    BY <1>3 DEF PopAndSend
  <2>2. wire' = wire \/ wire' = Append(wire, Head(queue))
    BY <1>3 DEF PopAndSend, Write
  <2>3. /\ queue' = Tail(queue) /\ cmd' = Head(queue)
        /\ UNCHANGED <<submitted, executed>>
    BY <1>3 DEF PopAndSend, Write
  <2>4. Append(wire, Head(queue)) \in Seq(0 .. MaxCommands)
    BY <2>1, AppendProperties
  <2>5. wire' \in Seq(0 .. MaxCommands)
    BY <2>2, <2>4
  <2> QED BY <2>1, <2>3, <2>5
<1>4. CASE SendFails
  BY <1>4 DEF SendFails
<1>5. CASE KeepAlive
  <2>1. wire' = wire \/ wire' = Append(wire, 0)
    BY <1>5 DEF KeepAlive, Write
  <2>2. cmd' = 0 /\ UNCHANGED <<queue, submitted, executed>>
    BY <1>5 DEF KeepAlive, Write
  <2>3. Append(wire, 0) \in Seq(0 .. MaxCommands)
    BY AppendProperties
  <2>4. wire' \in Seq(0 .. MaxCommands)
    BY <2>1, <2>3
  <2> QED BY <2>2, <2>4
<1>6. CASE Serve
  BY <1>6 DEF Serve
<1>7. CASE LcddDies
  BY <1>7 DEF LcddDies
<1>8. CASE \/ KeepAliveFails \/ IdleRound \/ AwaitLine \/ AwaitNothing
           \/ AwaitEnds \/ InputLine \/ InputEnds \/ InputError
           \/ SendEvent \/ RestArrives \/ ResetArrives \/ UNCHANGED vars
  <2>1. UNCHANGED <<queue, submitted, wire, executed, cmd>>
    BY <1>8 DEF KeepAliveFails, IdleRound, AwaitLine, AwaitNothing, AwaitEnds,
       InputLine, InputEnds, InputError, SendEvent, RestArrives, ResetArrives,
       vars
  <2> QED BY <2>1
<1> QED BY <1>1, <1>2, <1>3, <1>4, <1>5, <1>6, <1>7, <1>8, Actions

LEMMA ServiceStepOK ==
  ASSUME CommandsOK, ServiceOK, [Next]_vars
  PROVE  ServiceOK'
<1> USE DialogueAssumption DEF ServiceOK, Phases, Over, Connections
<1>1. CASE Greeted \/ GreetingLost
  <2>1. conn' \in Connections /\ phase' \in {"loop", "exit", "crash"}
    BY <1>1 DEF Greeted, GreetingLost, Garbled, ClientSet, Exit
  <2>2. UNCHANGED <<reads, count, refused>>
    BY <1>1 DEF Greeted, GreetingLost
  <2> QED BY <2>1, <2>2
<1>2. CASE PopAndSend
  BY <1>2 DEF PopAndSend, Write
<1>3. CASE KeepAlive
  BY <1>3 DEF KeepAlive, Write
<1>4. CASE IdleRound
  BY <1>4 DEF IdleRound
<1>5. CASE AwaitLine
  <2>1. reads' \in 0 .. Attempts
    BY <1>5 DEF AwaitLine
  <2>2. phase' \in {"await", "crash", "loop", "ended"}
    BY <1>5 DEF AwaitLine
  <2>3. UNCHANGED <<conn, count, refused>>
    BY <1>5 DEF AwaitLine
  <2> QED BY <2>1, <2>2, <2>3
<1>6. CASE AwaitNothing
  BY <1>6 DEF AwaitNothing
<1>7. CASE AwaitEnds
  BY <1>7 DEF AwaitEnds
<1>8. CASE InputLine
  <2>1. phase' \in {"input", "crash", "loop", "ended"}
    BY <1>8 DEF InputLine
  <2>2. UNCHANGED <<conn, reads, count, refused>>
    BY <1>8 DEF InputLine
  <2> QED BY <2>1, <2>2
<1>9. CASE InputEnds \/ InputError \/ KeepAliveFails
  BY <1>9 DEF InputEnds, InputError, KeepAliveFails
<1>10. CASE Serve
  <2>1. refused' \in BOOLEAN
    BY <1>10, Zenon DEF Serve
  <2>2. UNCHANGED <<conn, phase, reads, count>>
    BY <1>10 DEF Serve
  <2> QED BY <2>1, <2>2
<1>11. CASE LcddDies
  BY <1>11 DEF LcddDies
<1>12. CASE ResetArrives
  BY <1>12 DEF ResetArrives
<1>13. CASE Submit \/ SendFails \/ SendEvent \/ RestArrives \/ UNCHANGED vars
  <2>1. UNCHANGED <<conn, phase, reads, count, refused>>
    BY <1>13 DEF Submit, SendFails, SendEvent, RestArrives, vars
  <2> QED BY <2>1
<1> QED BY <1>1, <1>2, <1>3, <1>4, <1>5, <1>6, <1>7, <1>8, <1>9, <1>10, <1>11,
        <1>12, <1>13, Actions

-----------------------------------------------------------------------------
(* What keeps a living LCDd harmless.  In the handshake there is one line in *)
(* all, asked for or sent, and it is LCDd's greeting; afterwards no greeting *)
(* is left to be taken for an answer.  A line that ends the program was      *)
(* preceded by a refusal.                                                    *)
Greeting ==
  phase = "hello" =>
    /\ Len(wire) + Len(inbox) <= 1
    /\ \A i \in 1 .. Len(inbox) : inbox[i] \in Greetings
AnswersOnly ==
  phase # "hello" => \A i \in 1 .. Len(inbox) : inbox[i] \in Answers
Confessed ==
  \A i \in 1 .. Len(inbox) : inbox[i] \in {"huh?", "flat"} => refused
Standing == phase \in Over /\ conn = "up" => refused
Harmless == Greeting /\ AnswersOnly /\ Confessed /\ Standing

(* In the handshake. *)
LEMMA HandshakeHarmless ==
  ASSUME InboxOK, Harmless, Greeted \/ GreetingLost
  PROVE  InboxOK' /\ Harmless'
<1> USE DEF Harmless, Greeting, AnswersOnly, Confessed, Standing, Over
<1>1. CASE Greeted
  <2>1. PICK line \in Greetings :
          ReadWhole(line) /\ IF line = "connect" THEN ClientSet ELSE Exit
    BY <1>1 DEF Greeted
  <2>2. /\ InboxOK'
        /\ inbox # << >> /\ Len(inbox') = Len(inbox) - 1
    BY <2>1, LineRead DEF ReadLine
  <2>3. line = inbox[1]
    BY <2>1 DEF ReadWhole, InboxOK
  <2>4. Len(inbox) = 1
    BY <1>1, <2>2 DEF Greeted, InboxOK
  <2>5. 1 .. Len(inbox') = {}
    BY <2>2, <2>4
  <2>6. phase' \in {"loop", "exit"} /\ refused' = refused
    BY <1>1, <2>1 DEF Greeted, ClientSet, Exit
  <2>7. phase' = "exit" => refused
    BY <2>1, <2>3, <2>4 DEF ClientSet, Greetings
  <2> QED BY <2>2, <2>5, <2>6, <2>7
<1>2. CASE GreetingLost
  <2>1. InboxOK' /\ inbox' = << >> /\ conn # "up"
    BY <1>2, PartLost, LineRead DEF GreetingLost, ReadLine, ReadPart
  <2>2. /\ phase' \in {"loop", "exit", "crash"}
        /\ conn' # "up"
    BY <1>2, <2>1 DEF GreetingLost, Garbled, ClientSet, Exit
  <2> QED BY <2>1, <2>2
<1> QED BY <1>1, <1>2

(* A line read for an answer or in an idle round ends the program only if it *)
(* is cut, or refuses a command. *)
LEMMA LineHarmless ==
  ASSUME InboxOK, Harmless, AwaitLine \/ InputLine
  PROVE  InboxOK' /\ Harmless'
<1> USE DEF Harmless, Greeting, AnswersOnly, Confessed, Standing, Over
<1>1. PICK line \in Lines : ReadLine(line)
                            /\ \/ phase' \in {"await", "input", "loop"}
                               \/ line \notin {"event", "success"}
  BY DEF AwaitLine, InputLine
<1>2. /\ InboxOK'
      /\ inbox # << >> /\ Len(inbox') = Len(inbox) - 1
      /\ \A i \in 1 .. Len(inbox') : inbox'[i] = inbox[i + 1]
      /\ conn = "up" => line = inbox[1]
  BY <1>1, LineRead
<1>3. /\ phase \in {"await", "input"} /\ phase' # "hello"
      /\ UNCHANGED <<conn, refused>>
  BY DEF AwaitLine, InputLine
<1>4. /\ Len(inbox) \in Nat \ {0}
      /\ \A i \in 1 .. Len(inbox') : i + 1 \in 1 .. Len(inbox)
      /\ 1 \in 1 .. Len(inbox)
  BY <1>2 DEF InboxOK
<1>5. AnswersOnly' /\ Confessed'
  BY <1>2, <1>3, <1>4
<1>6. conn = "up" => line \in Answers
  BY <1>2, <1>3, <1>4
<1>7. conn = "up" /\ phase' \in Over => refused
  BY <1>1, <1>2, <1>4, <1>6 DEF Answers
<1> QED BY <1>2, <1>3, <1>5, <1>7

(* A line that arrives. *)
LEMMA ArrivalHarmless ==
  ASSUME InboxOK, CommandsOK, Harmless, Serve \/ SendEvent
  PROVE  InboxOK' /\ Harmless'
<1> USE DEF Harmless, Greeting, AnswersOnly, Confessed, Standing, Over
<1>1. PICK line \in Answers \cup Greetings :
        /\ Arrives(line)
        /\ line \in {"huh?", "flat"} => refused'
        /\ phase = "hello" => line \in Greetings /\ Serve
        /\ phase # "hello" => line \in Answers
  <2>1. CASE Serve
    <3>1. PICK answer \in IF phase = "hello" THEN Greetings
                          ELSE IF Head(wire) = Housekeeping THEN {"success"}
                          ELSE {"success", "huh?"} :
            /\ Arrives(answer)
            /\ refused' = (refused \/ answer \in {"huh?", "flat"})
      BY <2>1 DEF Serve
    <3>2. answer \in {"huh?", "flat"} => refused'
      BY <3>1, Zenon
    <3>3. phase = "hello" => answer \in Greetings
      BY <3>1
    <3>4. phase # "hello" => answer \in Answers
      BY <3>1 DEF Answers
    <3> QED BY <2>1, <3>1, <3>2, <3>3, <3>4
  <2>2. CASE SendEvent
    BY <2>2 DEF SendEvent, Answers
  <2> QED BY <2>1, <2>2
<1>2. refused => refused'
  <2>1. CASE Serve
    BY <2>1, Zenon DEF Serve
  <2>2. CASE SendEvent
    BY <2>2 DEF SendEvent
  <2> QED BY <2>1, <2>2
<1>3. UNCHANGED <<conn, phase>>
  BY DEF Serve, SendEvent
<1>4. /\ InboxOK'
      /\ Len(inbox') = Len(inbox) + 1
      /\ \A i \in 1 .. Len(inbox) : inbox'[i] = inbox[i]
      /\ inbox'[Len(inbox) + 1] = line
  BY <1>1, LineArrives
<1>5. \A i \in 1 .. Len(inbox') : i \in 1 .. Len(inbox) \/ i = Len(inbox) + 1
  BY <1>4 DEF InboxOK
<1>6. Confessed' /\ AnswersOnly'
  BY <1>1, <1>2, <1>3, <1>4, <1>5
<1>7. Greeting'
  <2> SUFFICES ASSUME phase = "hello" PROVE Greeting'
    BY <1>3
  <2>1. wire # << >> /\ wire' = Tail(wire)
    BY <1>1 DEF Serve
  <2>2. Len(wire') = Len(wire) - 1 /\ Len(wire) \in Nat
    BY <2>1, HeadTailProperties DEF CommandsOK
  <2>3. Len(wire') + Len(inbox') <= 1
    BY <1>4, <2>2 DEF InboxOK
  <2> QED BY <1>1, <1>4, <1>5, <2>3
<1>8. Standing'
  BY <1>2, <1>3
<1> QED BY <1>4, <1>6, <1>7, <1>8

LEMMA DialogueStep ==
  ASSUME InboxOK, CommandsOK, Harmless, [Next]_vars
  PROVE  InboxOK' /\ Harmless'
<1> USE DEF Harmless, Greeting, AnswersOnly, Confessed, Standing, Over, received
<1>1. CASE \/ PopAndSend \/ SendFails \/ KeepAlive \/ KeepAliveFails
           \/ IdleRound \/ AwaitNothing \/ InputEnds
  <2>1. /\ phase \in {"loop", "await", "input"}
        /\ phase' \in {"loop", "await", "input", "ended"}
        /\ phase' = "ended" => conn' = "reset"
    BY <1>1 DEF PopAndSend, SendFails, KeepAlive, KeepAliveFails, IdleRound,
       AwaitNothing, InputEnds, Write
  <2>2. UNCHANGED <<inbox, torn, refused>>
    BY <1>1 DEF PopAndSend, SendFails, KeepAlive, KeepAliveFails, IdleRound,
       AwaitNothing, InputEnds
  <2>3. InboxOK'
    BY <2>2 DEF InboxOK
  <2> QED BY <2>1, <2>2, <2>3
<1>2. CASE AwaitEnds
  <2>1. phase = "await" /\ phase' = "loop" /\ refused' = refused
    BY <1>2 DEF AwaitEnds
  <2>2. CASE UNCHANGED received
    <3>1. InboxOK' /\ inbox' = inbox
      BY <2>2 DEF InboxOK
    <3> QED BY <2>1, <3>1
  <2>3. CASE ReadFails
    <3>1. 1 .. Len(inbox') = {} /\ InboxOK'
      BY <2>3, PartLost
    <3> QED BY <2>1, <3>1
  <2> QED BY <1>2, <2>2, <2>3 DEF AwaitEnds
<1>3. CASE InputError
  <2>1. 1 .. Len(inbox') = {} /\ InboxOK' /\ conn = "reset"
    BY <1>3, PartLost DEF InputError
  <2>2. phase' = "ended" /\ conn' = conn
    BY <1>3 DEF InputError
  <2> QED BY <2>1, <2>2
<1>4. CASE \/ Submit \/ RestArrives \/ LcddDies \/ ResetArrives
           \/ UNCHANGED vars
  <2>1. /\ UNCHANGED <<inbox, phase, refused>>
        /\ conn' = "up" => conn = "up"
    BY <1>4 DEF Submit, RestArrives, LcddDies, ResetArrives, vars
  <2>2. torn' = torn \/ torn' = FALSE
    BY <1>4 DEF Submit, RestArrives, LcddDies, ResetArrives, vars
  <2>3. InboxOK'
    <3>1. inbox' = inbox
      BY <2>1
    <3>2. CASE torn' = torn
      BY <3>1, <3>2, Zenon DEF InboxOK
    <3>3. CASE torn' = FALSE
      BY <3>1, <3>3, Zenon DEF InboxOK
    <3> QED BY <2>2, <3>2, <3>3
  <2>4. phase = "hello" => wire' = wire \/ wire' = << >>
    BY <1>4 DEF Submit, RestArrives, LcddDies, ResetArrives, vars
  <2>5. Greeting'
    BY <2>1, <2>4 DEF CommandsOK, InboxOK
  <2> QED BY <2>1, <2>3, <2>5
<1> QED BY <1>1, <1>2, <1>3, <1>4, HandshakeHarmless, LineHarmless,
        ArrivalHarmless, Actions

-----------------------------------------------------------------------------
DialogueInv == CommandsOK /\ ServiceOK /\ InboxOK /\ Harmless

LEMMA DialogueInit == Init => DialogueInv
<1> SUFFICES ASSUME Init PROVE DialogueInv
  OBVIOUS
<1> USE DialogueAssumption DEF Init
<1>1. CommandsOK
  BY DEF CommandsOK, Housekeeping
<1>2. ServiceOK
  <2>1. refused \in BOOLEAN
    BY Zenon
  <2>2. 0 \in 0 .. Attempts /\ 0 \in 0 .. NoopPeriod
    OBVIOUS
  <2> QED BY <2>1, <2>2, Zenon DEF ServiceOK, Phases, Over, Connections
<1>3. InboxOK
  BY EmptySeq DEF InboxOK
<1>4. Len(wire) = 1 /\ Len(inbox) = 0 /\ 1 .. Len(inbox) = {}
  BY DEF Housekeeping
<1>5. Harmless
  BY <1>4 DEF Harmless, Greeting, AnswersOnly, Confessed, Standing, Over
<1> QED BY <1>1, <1>2, <1>3, <1>5 DEF DialogueInv

LEMMA DialogueInductive == DialogueInv /\ [Next]_vars => DialogueInv'
  BY CommandsStep, ServiceStepOK, DialogueStep DEF DialogueInv

(* However late, in parts, or in place of others the answers come, and       *)
(* whatever events come between them: the handshake in main() fails and      *)
(* service_thread_run ends with "Server died" only if LCDd has refused a     *)
(* command, has too small a display, or has gone away.  The loop counters    *)
(* stay within their limits.                                                 *)
THEOREM LivingServerDoesNoHarm == Spec => []LivingServerHarmless
<1>1. DialogueInv => LivingServerHarmless
  BY Zenon DEF DialogueInv, CommandsOK, ServiceOK, InboxOK, Harmless, Standing,
     LivingServerHarmless, TypeOK
<1> QED BY <1>1, DialogueInit, DialogueInductive, PTL DEF Spec

-----------------------------------------------------------------------------
(* The dialogue keeps the promise of CommandPipe.  Its pending commands are  *)
(* those on the wire and those in the queue; nothing is on the wire once the *)
(* connection is gone.                                                       *)
Sendable == 1 .. MaxCommands
OnWire == Select(wire, Sendable)
WireOK == CommandsOK /\ (~ Connected => wire = << >>)

LEMMA WireStep == WireOK /\ [Next]_vars => WireOK'
<1> SUFFICES ASSUME WireOK, [Next]_vars PROVE WireOK'
  OBVIOUS
<1>1. CommandsOK'
  BY CommandsStep DEF WireOK
<1> USE DEF WireOK, Connected
<1>2. CASE Greeted \/ GreetingLost
  <2>1. /\ conn # "up" => wire' = wire
        /\ conn' # "up" => conn # "up"
    BY <1>2 DEF Greeted, GreetingLost, Garbled, ClientSet, Exit
  <2> QED BY <1>1, <2>1
<1>3. CASE PopAndSend \/ KeepAlive
  BY <1>1, <1>3 DEF PopAndSend, KeepAlive, Write
<1>4. CASE Serve \/ LcddDies
  BY <1>1, <1>4 DEF Serve, LcddDies
<1>5. CASE \/ Submit \/ SendFails \/ KeepAliveFails \/ IdleRound
           \/ AwaitLine \/ AwaitNothing \/ AwaitEnds
           \/ InputLine \/ InputEnds \/ InputError
           \/ SendEvent \/ RestArrives \/ ResetArrives \/ UNCHANGED vars
  <2>1. /\ wire' = wire
        /\ conn' # "up" => conn # "up"
    BY <1>5 DEF Submit, SendFails, KeepAliveFails, IdleRound, AwaitLine,
       AwaitNothing, AwaitEnds, InputLine, InputEnds, InputError, SendEvent,
       RestArrives, ResetArrives, vars
  <2> QED BY <1>1, <2>1
<1> QED BY <1>2, <1>3, <1>4, <1>5, Actions

(* Facts about sequences, for what is pending.  a is what is on the wire.    *)
LEMMA SentFromQueue ==
  ASSUME NEW A, NEW a \in Seq(A), NEW q \in Seq(A), q # << >>
  PROVE  Append(a, Head(q)) \o Tail(q) = a \o q
  OBVIOUS

LEMMA LostWithWire ==
  ASSUME NEW A, NEW a \in Seq(A), NEW q \in Seq(A)
  PROVE  /\ Len(a) \in 0 .. Len(a \o q)
         /\ q = SubSeq(a \o q, Len(a) + 1, Len(a \o q))
  OBVIOUS

LEMMA FirstOfWire ==
  ASSUME NEW A, NEW a \in Seq(A), NEW q \in Seq(A), NEW x \in A
  PROVE  /\ (<<x>> \o a) \o q # << >>
         /\ Head((<<x>> \o a) \o q) = x
         /\ Tail((<<x>> \o a) \o q) = a \o q
  OBVIOUS

LEMMA CommandsOnly ==
  ASSUME NEW w \in Seq(0 .. MaxCommands)
  PROVE  Select(w, Sendable) \in Seq(0 .. MaxCommands)
<1>1. Select(w, Sendable) \in Seq((0 .. MaxCommands) \cap Sendable)
  BY SelectType
<1>2. (0 .. MaxCommands) \cap Sendable \subseteq 0 .. MaxCommands
  OBVIOUS
<1> QED BY <1>1, <1>2, SeqMonotonic

LEMMA OnWireType ==
  ASSUME WireOK
  PROVE  /\ OnWire \in Seq(0 .. MaxCommands)
         /\ queue \in Seq(0 .. MaxCommands)
<1>1. OnWire \in Seq(0 .. MaxCommands)
  BY CommandsOnly DEF OnWire, WireOK, CommandsOK
<1>2. Sendable \subseteq 0 .. MaxCommands
  BY DialogueAssumption DEF Sendable
<1>3. queue \in Seq(Sendable)
  BY DEF WireOK, CommandsOK, Sendable
<1> HIDE DEF Sendable
<1>4. queue \in Seq(0 .. MaxCommands)
  BY <1>2, <1>3, SeqMonotonic
<1> QED BY <1>1, <1>4

(* Housekeeping goes over the wire unseen. *)
LEMMA HousekeepingUnseen ==
  ASSUME WireOK, wire' = Append(wire, Housekeeping)
  PROVE  OnWire' = OnWire
<1>1. wire \in Seq(0 .. MaxCommands) /\ Housekeeping \in 0 .. MaxCommands
      /\ Housekeeping \notin Sendable
  BY DialogueAssumption DEF WireOK, CommandsOK, Housekeeping, Sendable
<1>2. Select(Append(wire, Housekeeping), Sendable) = Select(wire, Sendable)
  BY <1>1, SelectOfAppend, Zenon
<1> QED BY <1>2, Zenon DEF OnWire

(* A step that moves no command of the queue, or one only from the queue to  *)
(* the wire, is not seen by CommandPipe.                                     *)
LEMMA Unseen ==
  ASSUME UNCHANGED <<submitted, executed>>, Pending' = Pending,
         Connected' = Connected
  PROVE  UNCHANGED Pipe!pipe
  BY Zenon DEF Pipe!pipe

LEMMA SubmitIsSubmit ==
  ASSUME WireOK, Submit
  PROVE  Pipe!Submit
<1>1. /\ submitted < MaxCommands /\ submitted' = submitted + 1
      /\ queue' = Append(queue, submitted + 1)
      /\ wire' = wire /\ executed' = executed /\ conn' = conn
  BY DEF Submit
<1>2. submitted' \in 0 .. MaxCommands
  BY <1>1, DialogueAssumption DEF WireOK, CommandsOK
<1>3. OnWire \o Append(queue, submitted') = Append(OnWire \o queue, submitted')
  BY <1>2, OnWireType
<1>4. Pending' = OnWire \o Append(queue, submitted')
  BY <1>1, Zenon DEF Pending, OnWire, Sendable
<1>5. Pending' = Append(Pending, submitted')
  BY <1>3, <1>4, Zenon DEF Pending, OnWire, Sendable
<1>6. Connected' = Connected
  BY <1>1, Zenon DEF Connected
<1> QED BY <1>1, <1>5, <1>6, Zenon DEF Pipe!Submit

(* A command is sent: it changes places, or is lost with the connection. *)
LEMMA SendKeepsPending ==
  ASSUME WireOK, PopAndSend \/ SendFails
  PROVE  Pipe!Lose \/ UNCHANGED Pipe!pipe
<1>1. /\ queue # << >> /\ queue' = Tail(queue)
      /\ UNCHANGED <<submitted, executed>>
  BY DEF PopAndSend, SendFails
<1>2. Connected' = Connected
  <2>1. conn' = conn \/ (conn = "fin" /\ conn' = "written")
    BY DEF PopAndSend, SendFails, Write
  <2>2. (conn' = "up") <=> (conn = "up")
    BY <2>1
  <2> QED BY <2>2, Zenon DEF Connected
<1>3. CASE Connected
  <2>1. wire' = Append(wire, Head(queue))
    BY <1>3 DEF PopAndSend, SendFails, Write, Connected
  <2>2. Head(queue) \in Sendable /\ Head(queue) \in 0 .. MaxCommands
    BY <1>1, DialogueAssumption DEF WireOK, CommandsOK, Sendable
  <2>3. wire \in Seq(0 .. MaxCommands)
    BY DEF WireOK, CommandsOK
  <2>4. OnWire' = Append(OnWire, Head(queue))
    <3>1. Select(Append(wire, Head(queue)), Sendable)
            = Append(Select(wire, Sendable), Head(queue))
      <4>1. \A c \in (0 .. MaxCommands) \cap Sendable :
              Select(Append(wire, c), Sendable)
                = Append(Select(wire, Sendable), c)
        BY <2>3, SelectOfAppend, Zenon
      <4> QED BY <2>2, <4>1
    <3> QED BY <2>1, <3>1, Zenon DEF OnWire
  <2>5. Append(OnWire, Head(queue)) \o Tail(queue) = OnWire \o queue
    BY <1>1, OnWireType, SentFromQueue, Zenon
  <2>6. Pending' = Pending
    BY <1>1, <2>4, <2>5, Zenon DEF Pending, OnWire, Sendable
  <2> QED BY <1>1, <1>2, <2>6, Unseen
<1>4. CASE ~ Connected
  <2>1. wire = << >> /\ wire' = wire
    BY <1>4 DEF WireOK, PopAndSend, SendFails, Write, Connected
  <2>2. OnWire = << >> /\ OnWire' = << >>
    BY <2>1, SelectOfEmpty DEF OnWire
  <2>3. Pending = queue /\ Pending' = queue'
    <3>1. \A q \in Seq(0 .. MaxCommands) : << >> \o q = q
      BY ConcatEmptySeq
    <3>2. queue \in Seq(0 .. MaxCommands) /\ queue' \in Seq(0 .. MaxCommands)
      BY <1>1, OnWireType, HeadTailProperties
    <3> QED BY <2>2, <3>1, <3>2, Zenon DEF Pending, OnWire, Sendable
  <2> QED BY <1>1, <1>2, <1>4, <2>3, Zenon DEF Pipe!Lose
<1> QED BY <1>3, <1>4

(* LCDd executes the next command, or housekeeping. *)
LEMMA ServeExecutes ==
  ASSUME WireOK, Serve
  PROVE  Pipe!Execute \/ UNCHANGED Pipe!pipe
<1>1. /\ conn = "up" /\ conn' = conn /\ wire # << >> /\ wire' = Tail(wire)
      /\ executed' = IF Head(wire) = Housekeeping THEN executed ELSE Head(wire)
      /\ UNCHANGED <<queue, submitted>>
  BY DEF Serve
<1>2. wire \in Seq(0 .. MaxCommands) /\ Head(wire) \in 0 .. MaxCommands
      /\ Tail(wire) \in Seq(0 .. MaxCommands)
  BY <1>1, HeadTailProperties DEF WireOK, CommandsOK
<1>3. Connected /\ Connected' = Connected
  BY <1>1, Zenon DEF Connected
<1>4. OnWire = (IF Head(wire) \in Sendable THEN <<Head(wire)>> ELSE << >>)
                 \o OnWire'
  BY <1>1, <1>2, SelectOfTail, Zenon DEF OnWire
<1>5. OnWire' \in Seq(0 .. MaxCommands) /\ queue \in Seq(0 .. MaxCommands)
  <2>1. wire' \in Seq(0 .. MaxCommands)
    BY <1>1, <1>2
  <2> QED BY <2>1, CommandsOnly, OnWireType DEF OnWire
<1>6. CASE Head(wire) = Housekeeping
  <2>1. Head(wire) \notin Sendable
    BY <1>6 DEF Sendable, Housekeeping
  <2>2. OnWire' = OnWire
    <3>1. << >> \o OnWire' = OnWire'
      BY <1>5, ConcatEmptySeq
    <3> QED BY <1>4, <2>1, <3>1, Zenon
  <2>3. Pending' = Pending
    BY <1>1, <2>2, Zenon DEF Pending, OnWire, Sendable
  <2> QED BY <1>1, <1>3, <1>6, <2>3, Unseen
<1>7. CASE Head(wire) # Housekeeping
  <2>1. Head(wire) \in Sendable
    BY <1>2, <1>7 DEF Sendable, Housekeeping
  <2>2. OnWire = <<Head(wire)>> \o OnWire'
    BY <1>4, <2>1, Zenon
  <2>3. /\ (<<Head(wire)>> \o OnWire') \o queue # << >>
        /\ Head((<<Head(wire)>> \o OnWire') \o queue) = Head(wire)
        /\ Tail((<<Head(wire)>> \o OnWire') \o queue) = OnWire' \o queue
    BY <1>2, <1>5, FirstOfWire, Zenon
  <2>4. Pending = OnWire \o queue /\ Pending' = OnWire' \o queue
    BY <1>1, Zenon DEF Pending, OnWire, Sendable
  <2>5. /\ Pending # << >> /\ Head(Pending) = Head(wire)
        /\ Pending' = Tail(Pending)
    BY <2>2, <2>3, <2>4, Zenon
  <2>6. executed' = Head(Pending)
    BY <1>1, <1>7, <2>5
  <2> QED BY <1>1, <1>3, <2>5, <2>6, Zenon DEF Pipe!Execute
<1> QED BY <1>6, <1>7

(* With the connection goes what is on the wire. *)
LEMMA DeathDisconnects ==
  ASSUME WireOK, LcddDies
  PROVE  Pipe!Disconnect
<1>1. /\ conn = "up" /\ conn' # "up" /\ wire' = << >>
      /\ UNCHANGED <<queue, submitted, executed>>
  BY DEF LcddDies
<1>2. Connected /\ Connected' = FALSE
  BY <1>1, Zenon DEF Connected
<1>3. OnWire' = << >>
  BY <1>1, SelectOfEmpty DEF OnWire
<1>4. Pending' = queue
  <2>1. << >> \o queue = queue
    BY OnWireType, ConcatEmptySeq
  <2> QED BY <1>1, <1>3, <2>1, Zenon DEF Pending, OnWire, Sendable
<1>5. /\ Len(OnWire) \in 0 .. Len(OnWire \o queue)
      /\ queue = SubSeq(OnWire \o queue, Len(OnWire) + 1, Len(OnWire \o queue))
  BY OnWireType, LostWithWire, Zenon
<1>6. /\ Len(OnWire) \in 0 .. Len(Pending)
      /\ Pending' = SubSeq(Pending, Len(OnWire) + 1, Len(Pending))
  BY <1>4, <1>5, Zenon DEF Pending, OnWire, Sendable
<1> QED BY <1>1, <1>2, <1>6, Zenon DEF Pipe!Disconnect

LEMMA StepRefines == WireOK /\ [Next]_vars => [Pipe!Next]_Pipe!pipe
<1> SUFFICES ASSUME WireOK, [Next]_vars PROVE Pipe!Next \/ UNCHANGED Pipe!pipe
  OBVIOUS
<1> USE DEF Pipe!Next
<1>1. CASE Submit
  BY <1>1, SubmitIsSubmit
<1>2. CASE PopAndSend \/ SendFails
  BY <1>2, SendKeepsPending
<1>3. CASE Serve
  BY <1>3, ServeExecutes
<1>4. CASE LcddDies
  BY <1>4, DeathDisconnects
<1>5. CASE Greeted \/ GreetingLost \/ KeepAlive
  <2>1. /\ wire' = wire \/ wire' = Append(wire, Housekeeping)
        /\ (conn' = "up") <=> (conn = "up")
        /\ UNCHANGED <<queue, submitted, executed>>
    BY <1>5 DEF Greeted, GreetingLost, Garbled, ClientSet, Exit, KeepAlive,
       Write
  <2>2. OnWire' = OnWire
    <3>1. CASE wire' = wire
      BY <3>1, Zenon DEF OnWire
    <3> QED BY <2>1, <3>1, HousekeepingUnseen
  <2>3. Pending' = Pending
    BY <2>1, <2>2, Zenon DEF Pending, OnWire, Sendable
  <2>4. Connected' = Connected
    BY <2>1, Zenon DEF Connected
  <2> QED BY <2>1, <2>3, <2>4, Unseen
<1>6. CASE \/ KeepAliveFails \/ IdleRound
           \/ AwaitLine \/ AwaitNothing \/ AwaitEnds
           \/ InputLine \/ InputEnds \/ InputError
           \/ SendEvent \/ RestArrives \/ ResetArrives \/ UNCHANGED vars
  <2>1. /\ UNCHANGED <<wire, queue, submitted, executed>>
        /\ (conn' = "up") <=> (conn = "up")
    BY <1>6 DEF KeepAliveFails, IdleRound, AwaitLine, AwaitNothing, AwaitEnds,
       InputLine, InputEnds, InputError, SendEvent, RestArrives, ResetArrives,
       vars
  <2>2. Pending' = Pending
    BY <2>1, Zenon DEF Pending
  <2>3. Connected' = Connected
    BY <2>1, Zenon DEF Connected
  <2> QED BY <2>1, <2>2, <2>3, Unseen
<1> QED BY <1>1, <1>2, <1>3, <1>4, <1>5, <1>6, Actions

LEMMA InitRefines == Init => WireOK /\ Pipe!Init
<1> SUFFICES ASSUME Init PROVE WireOK /\ Pipe!Init
  OBVIOUS
<1>1. CommandsOK
  BY DialogueInit DEF DialogueInv
<1>2. Connected = TRUE
  BY Zenon DEF Init, Connected
<1>3. Pending = << >>
  <2>1. /\ << >> \in Seq(0 .. MaxCommands) /\ 0 \in 0 .. MaxCommands
        /\ 0 \notin Sendable
    BY DialogueAssumption DEF Sendable
  <2>2. Select(Append(<< >>, 0), Sendable) = << >>
    <3>1. Select(Append(<< >>, 0), Sendable) = Select(<< >>, Sendable)
      BY <2>1, SelectLeaves
    <3>2. Select(<< >>, Sendable) = << >>
      BY SelectOfEmpty, Zenon
    <3> QED BY <3>1, <3>2, Zenon
  <2>3. wire = Append(<< >>, 0)
    BY DEF Init, Housekeeping
  <2>4. << >> \o << >> = << >>
    OBVIOUS
  <2> QED BY <2>2, <2>3, <2>4, Zenon DEF Pending, Sendable, Init
<1>4. WireOK
  BY <1>1, <1>2 DEF WireOK
<1>5. submitted = 0 /\ executed = 0
  BY DEF Init
<1> QED BY <1>2, <1>3, <1>4, <1>5, Zenon DEF Pipe!Init

(* What service_thread_command promises: as long as the connection stands,   *)
(* LCDd executes every command that was queued, once, in the order in which  *)
(* they were queued, whatever housekeeping is sent between them and however  *)
(* the answers come; only with the connection are commands lost.             *)
THEOREM PromiseIsKept == Spec => KeepsPromise
<1>1. Init => WireOK /\ Pipe!Init
  BY InitRefines
<1>2. WireOK /\ [Next]_vars => WireOK'
  BY WireStep
<1>3. WireOK /\ [Next]_vars => [Pipe!Next]_Pipe!pipe
  BY StepRefines
<1> QED BY <1>1, <1>2, <1>3, PTL DEF Spec, KeepsPromise, Pipe!Spec
================================================================================
