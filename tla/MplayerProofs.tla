----------------------------- MODULE MplayerProofs -----------------------------
(***************************************************************************)
(* Theorems about Mplayer, alone and behind the network interface of        *)
(* RemoteControl, for every set of requests, of failing steps and of remote *)
(* controls; and about what the service thread hears of each of these.      *)
(***************************************************************************)
EXTENDS RemoteControl, SelectionProofs, SequenceTheorems, TLAPS

(* While the service thread waits for the playback the pid is unknown and    *)
(* the process is there; in the middle of a round of mplayer_run the pid is  *)
(* known, so nobody is reaped during the wait.                               *)
Busy == {"clear_stop", "clear_pause", "asking", "check"}

Waiting == svc = "waiting" => ~ pid /\ child # "none"

(* The process that is known or waited for has not been reaped; as long as   *)
(* the program is not leaving there is no other.                             *)
Counted ==
  /\ pid \/ svc = "waiting" => children >= 1
  /\ ~ exiting =>
       /\ children <= 1
       /\ fault = "none" /\ ~ pid /\ svc # "waiting" => children = 0

PlayerInv ==
  /\ TypeOK
  /\ mp \in Busy => pid
  /\ Waiting
  /\ Counted
  /\ PlayerKnown

-----------------------------------------------------------------------------
(* The invariant holds when mplayer_run begins. *)
LEMMA PlayerInit == Init => PlayerInv
<1> SUFFICES ASSUME Init PROVE PlayerInv
  OBVIOUS
<1>1. {pid, streams, stop_request, pause_play_request, paused, visible, dying,
       exiting, stale_stop, carried, overlapped} \subseteq BOOLEAN
  BY DEF Init
<1>2. children \in 0 .. MaxChildren
  BY RequestsAssumption DEF Init
<1>3. TypeOK
  BY <1>1, <1>2 DEF Init, TypeOK, Live, Faults
<1>4. Waiting /\ Counted /\ PlayerKnown /\ (mp \in Busy => pid)
  BY DEF Init, Busy, Waiting, Counted, PlayerKnown, Live
<1> QED BY <1>3, <1>4 DEF PlayerInv

(* Spawn keeps the types of what it changes. *)
LEMMA SpawnTypes ==
  ASSUME TypeOK, Spawn
  PROVE  /\ {stale_stop', carried', overlapped', stop_request',
             pause_play_request', paused', pid'} \subseteq BOOLEAN
         /\ child' = "loading" /\ children' = children + 1
         /\ children' \in 0 .. MaxChildren
         /\ mp' = mp
<1>1. overlapped' \in BOOLEAN
  BY Zenon DEF Spawn
<1>2. {stale_stop', carried', stop_request', pause_play_request', paused',
       pid'} \subseteq BOOLEAN
  BY DEF Spawn, TypeOK
<1>3. /\ child' = "loading" /\ children' = children + 1
      /\ children' \in 0 .. MaxChildren
      /\ mp' = mp
  BY RequestsAssumption DEF Spawn, TypeOK
<1> QED BY <1>1, <1>2, <1>3

(* An undefined step changes nothing else. *)
LEMMA DiesKeeps ==
  ASSUME PlayerInv, NEW why \in Faults, Dies(why)
  PROVE  PlayerInv'
BY DEF Dies, PlayerInv, Busy, Waiting, Counted, PlayerKnown, TypeOK, process,
   flags, history, Faults

LEMMA BadEntryDies ==
  ASSUME NEW no \in NumberKinds, BadEntry(no)
  PROVE  \E why \in Faults : Dies(why)
BY DEF BadEntry, NumberKinds, Faults

(* The callbacks of the service thread keep it: a player is started only     *)
(* when none is known, and none is waited for while a callback begins.       *)
LEMMA StartKeeps ==
  ASSUME PlayerInv, Callback, NEW no \in Numbers, StartProgram(no)
  PROVE  PlayerInv'
<1> USE RequestsAssumption DEF PlayerInv, Busy, Waiting, Counted, PlayerKnown,
        Live
<1>1. CASE PlayerStarts /\ ~ pid
  <2>1. TypeOK'
    BY <1>1, SpawnTypes DEF Callback, PlayerStarts, TypeOK
  <2>2. (Waiting /\ Counted /\ PlayerKnown /\ (mp \in Busy => pid))'
    BY <1>1 DEF Callback, PlayerStarts, Spawn, TypeOK
  <2> QED BY <2>1, <2>2
<1>2. CASE InputFails /\ ~ pid
  <2>1. TypeOK'
    BY <1>2, SpawnTypes DEF Callback, InputFails, TypeOK
  <2>2. (Waiting /\ Counted /\ PlayerKnown /\ (mp \in Busy => pid))'
    BY <1>2 DEF Callback, InputFails, Spawn, TypeOK
  <2> QED BY <2>1, <2>2
<1>3. CASE OutputFails /\ ~ pid
  <2>1. TypeOK'
    BY <1>3, SpawnTypes DEF Callback, OutputFails, TypeOK, Faults
  <2>2. (Waiting /\ Counted /\ PlayerKnown /\ (mp \in Busy => pid))'
    BY <1>3 DEF Callback, OutputFails, Spawn, TypeOK
  <2> QED BY <2>1, <2>2
<1>4. CASE UNCHANGED vars
  BY <1>4 DEF vars, process, flags, history, TypeOK
<1>5. CASE BadEntry(no)
  <2>1. no \in NumberKinds
    OBVIOUS
  <2> QED BY <1>5, <2>1, BadEntryDies, DiesKeeps, Zenon
<1> QED BY <1>1, <1>2, <1>3, <1>4, <1>5 DEF StartProgram, SpawnFails

LEMMA KeyKeeps ==
  ASSUME PlayerInv, NEW key, KeyHandler(key)
  PROVE  PlayerInv'
<1> USE DEF PlayerInv, Busy, Waiting, Counted, PlayerKnown, TypeOK, process,
        history
<1>1. CASE AskPause
  BY <1>1 DEF AskPause
<1>2. CASE AskStop
  BY <1>2 DEF AskStop
<1>3. CASE DeadFrame
  BY <1>3, DiesKeeps DEF DeadFrame, Faults
<1> QED BY <1>1, <1>2, <1>3 DEF KeyHandler

LEMMA NetKeeps ==
  ASSUME PlayerInv, NEW request, NetHandler(request)
  PROVE  PlayerInv'
<1>1. CASE AskPause
  BY <1>1 DEF AskPause, PlayerInv, Busy, Waiting, Counted, PlayerKnown, TypeOK,
     process, history
<1>2. CASE AskStop
  BY <1>2 DEF AskStop, PlayerInv, Busy, Waiting, Counted, PlayerKnown, TypeOK,
     process, history
<1>3. CASE Callback /\ \E no \in Numbers : StartProgram(no)
  BY <1>3, StartKeeps
<1>4. CASE DeadFrame
  BY <1>4, DiesKeeps DEF DeadFrame, Faults
<1> QED BY <1>1, <1>2, <1>3, <1>4 DEF NetHandler

LEMMA PlaybackKeeps ==
  ASSUME PlayerInv, PlaybackSeen
  PROVE  PlayerInv'
  BY DEF PlaybackSeen, PlayerInv, Busy, Waiting, Counted, PlayerKnown, TypeOK,
     process, flags, history, Live, Faults

-----------------------------------------------------------------------------
(* So do the rounds of mplayer_run. *)
LEMMA RoundKeeps ==
  ASSUME PlayerInv, PlayerThread \/ TitlesRead
  PROVE  PlayerInv'
<1> USE DEF PlayerInv, Busy, Waiting, Counted, PlayerKnown, TypeOK, process,
        flags, history, Wake, EndRound
<1>1. CASE CountChannels \/ FillChannels \/ IdleRound \/ Leave
  BY <1>1 DEF CountChannels, FillChannels, IdleRound, Leave
<1>2. CASE StopRound
  BY <1>2 DEF StopRound
<1>3. CASE ClearStop \/ ClearPause
  BY <1>3 DEF ClearStop, ClearPause
<1>4. CASE PauseRound
  BY <1>4 DEF PauseRound, Live
<1>5. CASE PauseRoundFaults
  BY <1>5, DiesKeeps DEF PauseRoundFaults, Faults
<1>6. CASE TitleRound \/ TitlesRead
  BY <1>6 DEF TitleRound, TitlesRead
<1>7. CASE CheckChild
  <2>1. pid /\ children >= 1 /\ children' = children - 1 /\ ~ pid'
    BY <1>7 DEF CheckChild
  <2>2. children' \in 0 .. MaxChildren
    BY <2>1, RequestsAssumption
  <2>3. TypeOK'
    BY <1>7, <2>2 DEF CheckChild
  <2>4. Waiting' /\ Counted'
    BY <1>7, <2>1 DEF CheckChild
  <2>5. PlayerKnown' /\ (mp \in Busy => pid)'
    BY <1>7 DEF CheckChild, Live
  <2> QED BY <2>3, <2>4, <2>5
<1>8. CASE CheckAlive
  <2>1. mp' \in {"leaving", "sleep"}
    BY <1>8 DEF CheckAlive
  <2>2. TypeOK'
    BY <1>8, <2>1 DEF CheckAlive
  <2>3. (Waiting /\ Counted /\ PlayerKnown /\ (mp \in Busy => pid))'
    BY <1>8, <2>1 DEF CheckAlive
  <2> QED BY <2>2, <2>3
<1>9. CASE HideScreen
  <2>1. mp' \in {"leaving", "sleep"}
    BY <1>9 DEF HideScreen
  <2>2. TypeOK'
    BY <1>9, <2>1 DEF HideScreen
  <2>3. (Waiting /\ Counted /\ PlayerKnown /\ (mp \in Busy => pid))'
    BY <1>9, <2>1 DEF HideScreen
  <2> QED BY <2>2, <2>3
<1> QED BY <1>1, <1>2, <1>3, <1>4, <1>5, <1>6, <1>7, <1>8, <1>9
        DEF PlayerThread

(* So do the player process and the signal. *)
LEMMA WorldKeeps ==
  ASSUME PlayerInv, World
  PROVE  PlayerInv'
<1> USE DEF PlayerInv, Busy, Waiting, Counted, PlayerKnown, TypeOK, process,
        flags, history, Live
<1>1. CASE ChildPlays
  BY <1>1 DEF ChildPlays
<1>2. CASE ChildExits
  BY <1>2 DEF ChildExits
<1>3. CASE ExitSignal
  BY <1>3 DEF ExitSignal
<1>4. CASE Rest
  BY <1>4 DEF Rest, vars
<1> QED BY <1>1, <1>2, <1>3, <1>4 DEF World

LEMMA PlayerStep == PlayerInv /\ [Next]_vars => PlayerInv'
<1> SUFFICES ASSUME PlayerInv, [Next]_vars PROVE PlayerInv'
  OBVIOUS
<1>1. CASE Keys
  BY <1>1, KeyKeeps DEF Keys
<1>2. CASE Menu
  BY <1>2, DiesKeeps DEF Menu, MenuHandler, Faults
<1>3. CASE \E request \in Requests : NetHandler(request)
  BY <1>3, NetKeeps
<1>4. CASE PlaybackSeen \/ PlayerThread \/ TitlesRead
  BY <1>4, PlaybackKeeps, RoundKeeps
<1>5. CASE World
  BY <1>5, WorldKeeps
<1>6. CASE UNCHANGED vars
  BY <1>6 DEF vars, process, flags, history, PlayerInv, Busy, Waiting, Counted,
     PlayerKnown, TypeOK
<1> QED BY <1>1, <1>2, <1>3, <1>4, <1>5, <1>6 DEF Next

(* However the callbacks of the service thread and the rounds of the         *)
(* player's thread interleave, and whichever steps of a start fail, a second *)
(* player is never started beside one that runs or has not been reaped,      *)
(* unless the program is leaving; and the pid that may be signalled is that  *)
(* of a process that has not been reaped, and no player is lost.             *)
THEOREM OnePlayerKnown == Spec => [](OneChild /\ PlayerKnown)
<1>1. PlayerInv => OneChild /\ PlayerKnown
  BY DEF PlayerInv, Counted, OneChild, TypeOK
<1> QED BY <1>1, PlayerInit, PlayerStep, PTL DEF Spec

-----------------------------------------------------------------------------
(* What FaultCauses needs to be inductive: mplayer_run is past its loop only *)
(* at the exit, where it stood when the program died, and that the streams   *)
(* of a player that is known or waited for are closed only when it is killed.*)
FaultInv ==
  /\ {pid, streams, dying} \subseteq BOOLEAN
  /\ mp \in {"leaving", "gone"} => exiting
  /\ svc = "waiting" => ~ pid
  /\ pid \/ svc = "waiting" => streams \/ dying
  /\ fault = "null_stream" => mp = "sleep"
  /\ FaultCauses

(* No undefined step of a callback is without its cause. *)
LEMMA CallbackDies ==
  ASSUME FaultInv, fault = "none",
         \/ DeadFrame
         \/ MenuHandler /\ "menu" \in Requests
         \/ mp = "filling" /\ Dies("unset_channel")
         \/ \E no \in Numbers : BadEntry(no) /\ ~ Refused(no) /\ ~ pid
  PROVE  FaultInv'
<1> USE DEF FaultInv, FaultCauses, Dies, process, flags, history
<1>1. CASE DeadFrame
  BY <1>1 DEF DeadFrame
<1>2. CASE MenuHandler /\ "menu" \in Requests
  BY <1>2 DEF MenuHandler
<1>3. CASE mp = "filling" /\ Dies("unset_channel")
  BY <1>3
<1>4. ASSUME NEW no \in Numbers, BadEntry(no), ~ Refused(no), ~ pid
      PROVE  FaultInv'
  <2>1. no # "beyond" /\ (no = "channel" => mp # "init")
    BY <1>4 DEF Refused
  <2>2. CASE no = "below" /\ Dies("below_table")
    BY <1>4, <2>2
  <2>3. CASE mp = "filling" /\ Dies("unset_channel")
    BY <2>3
  <2>4. no \in {"below", "channel"}
    BY <1>4, <2>1, RequestsAssumption DEF NumberKinds
  <2> QED BY <1>4, <2>1, <2>2, <2>3, <2>4 DEF BadEntry
<1> QED BY <1>1, <1>2, <1>3, <1>4

LEMMA FaultStep == FaultInv /\ [Next]_vars => FaultInv'
<1> SUFFICES ASSUME FaultInv, [Next]_vars PROVE FaultInv'
  OBVIOUS
<1> USE DEF FaultInv, FaultCauses, vars, process, flags, history
<1>1. ASSUME NEW no \in Numbers, StartProgram(no), Callback PROVE FaultInv'
  <2> USE DEF Callback
  <2>1. CASE PlayerStarts /\ ~ pid
    BY <1>1, <2>1 DEF PlayerStarts, Spawn
  <2>2. CASE InputFails /\ ~ pid
    BY <1>1, <2>2 DEF InputFails, Spawn
  <2>3. CASE OutputFails /\ ~ pid
    BY <1>1, <2>3 DEF OutputFails, Spawn
  <2>4. CASE BadEntry(no) /\ ~ Refused(no) /\ ~ pid
    BY <1>1, <2>4, CallbackDies, Zenon
  <2> QED BY <1>1, <2>1, <2>2, <2>3, <2>4 DEF StartProgram, SpawnFails
<1>2. ASSUME AskStop \/ AskPause, fault = "none" PROVE FaultInv'
  BY <1>2 DEF AskStop, AskPause
<1>3. CASE PlaybackSeen
  BY <1>3 DEF PlaybackSeen
<1>4. CASE CountChannels \/ FillChannels \/ IdleRound \/ Leave
  <2>1. CASE CountChannels
    BY <2>1 DEF CountChannels
  <2>2. CASE FillChannels
    BY <2>2 DEF FillChannels, EndRound
  <2>3. CASE IdleRound
    BY <2>3 DEF IdleRound, EndRound
  <2>4. CASE Leave
    BY <2>4 DEF Leave
  <2> QED BY <1>4, <2>1, <2>2, <2>3, <2>4
<1>5. CASE StopRound \/ ClearStop
  <2>1. CASE StopRound
    BY <2>1 DEF StopRound, Wake
  <2>2. CASE ClearStop
    BY <2>2 DEF ClearStop
  <2> QED BY <1>5, <2>1, <2>2
<1>6. CASE PauseRound \/ PauseRoundFaults \/ ClearPause
  BY <1>6 DEF PauseRound, PauseRoundFaults, ClearPause, Wake, Dies
<1>7. CASE TitleRound \/ TitlesRead
  BY <1>7 DEF TitleRound, TitlesRead, Wake
<1>8. CASE CheckChild \/ CheckAlive \/ HideScreen
  <2>1. CASE CheckChild
    BY <2>1 DEF CheckChild
  <2>2. CASE CheckAlive
    BY <2>2 DEF CheckAlive, EndRound
  <2>3. CASE HideScreen
    BY <2>3 DEF HideScreen, EndRound
  <2> QED BY <1>8, <2>1, <2>2, <2>3
<1>9. CASE World
  BY <1>9 DEF World, ChildPlays, ChildExits, ExitSignal, Rest
<1>10. CASE UNCHANGED vars
  BY <1>10
<1>11. CASE PlayerThread
  BY <1>4, <1>5, <1>6, <1>7, <1>8, <1>11 DEF PlayerThread
<1>12. CASE Keys
  BY <1>2, <1>12, CallbackDies DEF Keys, KeyHandler, Callback
<1>13. CASE Menu
  BY <1>13, CallbackDies DEF Menu, MenuHandler, Callback
<1>14. ASSUME NEW request, NetHandler(request) PROVE FaultInv'
  BY <1>1, <1>2, <1>14, CallbackDies DEF NetHandler, Callback
<1> QED BY <1>3, <1>7, <1>9, <1>10, <1>11, <1>12, <1>13, <1>14 DEF Next

(* For every set of requests, numbers and failing steps: an entry behind the *)
(* table of channels is never read, one that is not set only in              *)
(* mplayer_init, one before it only for a negative number and while no       *)
(* player is known; NULL is taken for the cookie only by the menu; a closed  *)
(* stream is met only by a pause of a player told to stop, a stream is       *)
(* closed twice only if fdopen has failed, and a dead frame is touched only  *)
(* at the exit.                                                              *)
THEOREM FaultsHaveCauses == Spec => []FaultCauses
<1>1. Init => FaultInv
  BY DEF Init, FaultInv, FaultCauses
<1>2. FaultInv => FaultCauses
  BY DEF FaultInv
<1> QED BY <1>1, <1>2, FaultStep, PTL DEF Spec

-----------------------------------------------------------------------------
(* What StartsAfresh needs: before the playback has begun nobody has paused  *)
(* this player, and the screen is down, or about to be taken down, only for  *)
(* a player that was started in the middle of a reaping.                     *)
Afresh ==
  /\ svc = "waiting" => child # "halted" /\ paused = carried
  /\ pid => child # "loading"
  /\ (pid \/ svc = "waiting") /\ (~ visible \/ mp = "hide") => overlapped
  /\ pid /\ child = "playing" => paused = carried
  /\ pid /\ child = "halted" => paused # carried

LEMMA AfreshStep == PlayerInv /\ Afresh /\ [Next]_vars => Afresh'
<1> SUFFICES ASSUME PlayerInv, Afresh, [Next]_vars PROVE Afresh'
  OBVIOUS
<1>0. /\ {pid, paused, carried, visible} \subseteq BOOLEAN
      /\ mp \in Busy => pid
      /\ Waiting
  BY DEF PlayerInv, TypeOK
<1> USE DEF Afresh, Busy, Waiting, vars, process, flags, history
<1>1. ASSUME NEW no, StartProgram(no), svc = "ready" PROVE Afresh'
  <2>1. CASE PlayerStarts /\ ~ pid
    BY <1>0, <1>1, <2>1 DEF PlayerStarts, Spawn
  <2>2. CASE InputFails /\ ~ pid
    BY <1>0, <1>1, <2>2 DEF InputFails, Spawn
  <2>3. CASE OutputFails /\ ~ pid
    BY <1>0, <1>1, <2>3 DEF OutputFails, Spawn
  <2>4. CASE BadEntry(no)
    BY <2>4 DEF BadEntry, Dies
  <2> QED BY <1>1, <2>1, <2>2, <2>3, <2>4 DEF StartProgram, SpawnFails
<1>2. CASE AskStop
  BY <1>2 DEF AskStop
<1>3. CASE AskPause
  BY <1>3 DEF AskPause
<1>4. CASE PlaybackSeen
  BY <1>0, <1>4 DEF PlaybackSeen
<1>5. CASE CountChannels \/ FillChannels \/ IdleRound \/ StopRound \/ ClearStop
           \/ Leave
  BY <1>5 DEF CountChannels, FillChannels, IdleRound, StopRound, ClearStop,
     Wake, EndRound, Leave
<1>6. CASE PauseRound
  BY <1>0, <1>6 DEF PauseRound, Wake
<1>7. CASE PauseRoundFaults \/ ClearPause \/ TitleRound \/ TitlesRead
  BY <1>7 DEF PauseRoundFaults, ClearPause, TitleRound, TitlesRead, Wake,
     Dies
<1>8. CASE CheckChild
  BY <1>0, <1>8 DEF CheckChild
<1>9. CASE CheckAlive \/ HideScreen
  BY <1>9 DEF CheckAlive, HideScreen, EndRound
<1>10. CASE World
  BY <1>0, <1>10 DEF World, ChildPlays, ChildExits, ExitSignal, Rest, Live
<1>11. CASE UNCHANGED vars
  BY <1>11
<1>12. ASSUME NEW why, Dies(why) PROVE Afresh'
  BY <1>12 DEF Dies
<1>13. CASE Keys \/ Menu
  BY <1>2, <1>3, <1>12, <1>13
  DEF Keys, Menu, KeyHandler, MenuHandler, DeadFrame
<1>14. ASSUME NEW request, NetHandler(request) PROVE Afresh'
  BY <1>1, <1>2, <1>3, <1>12, <1>14 DEF NetHandler, Callback, DeadFrame
<1>15. CASE PlayerThread
  BY <1>5, <1>6, <1>7, <1>8, <1>9, <1>15 DEF PlayerThread
<1> QED BY <1>4, <1>7, <1>10, <1>11, <1>13, <1>14, <1>15 DEF Next

(* A player is heard without its screen only if it was started while the     *)
(* last one was being reaped, and paused is wrong about it only if the last  *)
(* one ended halted.                                                         *)
THEOREM PlayersStartAfresh == Spec => []StartsAfresh
<1>1. Init => Afresh
  BY DEF Init, Afresh
<1>2. Afresh => StartsAfresh
  BY DEF Afresh, StartsAfresh
<1> QED BY <1>1, <1>2, PlayerInit, PlayerStep, AfreshStep, PTL DEF Spec

-----------------------------------------------------------------------------
(* The service thread leaves its loop only when no callback waits.           *)
LEMMA LeavingKeeps ==
  ASSUME PlayerInv, ServiceLeaves
  PROVE  PlayerInv'
  BY DEF ServiceLeaves, Round, PlayerInv, Busy, Waiting, Counted, PlayerKnown,
     TypeOK, process, flags, history

(* Everything else the network interface does to the player it does through  *)
(* the net callback.                                                         *)
LEMMA RequestKeeps ==
  ASSUME PlayerInv, NEW r \in Remotes,
         Request(r) \/ ListStreams(r) \/ NotForUs(r) \/ Hangup(r)
  PROVE  PlayerInv'
<1>1. CASE Request(r)
  BY <1>1, NetKeeps DEF Request
<1>2. CASE DeadFrame \/ Dies("unset_channel")
  BY <1>2, DiesKeeps DEF DeadFrame, Faults
<1>3. CASE UNCHANGED vars
  BY <1>3, PlayerStep
<1> QED BY <1>1, <1>2, <1>3 DEF ListStreams, NotForUs, Hangup

LEMMA RemoteStep == PlayerInv /\ [RemoteNext]_all => PlayerInv'
<1> SUFFICES ASSUME PlayerInv, [RemoteNext]_all PROVE PlayerInv'
  OBVIOUS
<1>1. ASSUME NEW r \in Remotes, Connect(r) \/ RemoteRuns(r)
      PROVE  UNCHANGED vars
  BY <1>1 DEF Connect, RemoteRuns, Send, Close
<1>2. CASE NetRound
  <2>1. CASE Accept
    BY <2>1, PlayerStep DEF Accept
  <2> QED BY <1>2, <2>1, RequestKeeps DEF NetRound
<1>3. CASE ServiceLeaves
  BY <1>3, LeavingKeeps
<1>4. CASE Local(Keys \/ Menu \/ PlaybackSeen)
           \/ Local(PlayerThread \/ TitlesRead) \/ Local(World)
  BY <1>4, PlayerStep DEF Local, Next
<1>5. CASE UNCHANGED all
  BY <1>5, PlayerStep DEF all
<1> QED BY <1>1, <1>2, <1>3, <1>4, <1>5, PlayerStep DEF RemoteNext

(* The same behind the network interface: no order of connections, lines and *)
(* hang-ups of any number of remote controls starts a second player.         *)
THEOREM OnePlayerOverTheNet == RemoteSpec => [](OneChild /\ PlayerKnown)
<1>1. RemoteInit => PlayerInv
  BY PlayerInit DEF RemoteInit
<1>2. PlayerInv => OneChild /\ PlayerKnown
  BY DEF PlayerInv, Counted, OneChild, TypeOK
<1> QED BY <1>1, <1>2, RemoteStep, PTL DEF RemoteSpec

-----------------------------------------------------------------------------
(* The lines of one connection: the script s of a remote control, what is    *)
(* unsent (u), what is unread (b), what was heard (h), and where the remote  *)
(* control is (m).                                                           *)
Word == ToSet(Words)
Sent(s, u) == Len(s) - Len(u)
Taken(s, u, b) == Sent(s, u) - Len(b)

LineTypes(s, u, b, h) ==
  /\ s \in Seq(Word) /\ u \in Seq(Word) /\ b \in Seq(Word) /\ h \in Seq(Word)
  /\ Len(s) <= Len(Words)
  /\ Len(u) + Len(b) <= Len(s)
  /\ Len(h) <= Taken(s, u, b)

(* What is unread and unsent is the end of the script. *)
Remaining(s, u, b) ==
  /\ \A i \in 1 .. Len(b) : b[i] = s[Taken(s, u, b) + i]
  /\ \A i \in 1 .. Len(u) : u[i] = s[Sent(s, u) + i]

(* What was heard lies in the first n lines, in their order. *)
Placed(s, h, n, place) ==
  /\ place \in [1 .. Len(h) -> 1 .. n]
  /\ \A i \in 1 .. Len(h) :
       h[i] = s[place[i]] /\ \A j \in 1 .. i - 1 : place[j] < place[i]

(* The first lines: the first is heard with the first read; after "streams"  *)
(* nothing is sent until it is answered.                                     *)
FirstLines(s, u, b, h, m) ==
  /\ Taken(s, u, b) > 0 => Len(h) > 0 /\ h[1] = s[1]
  /\ Taken(s, u, b) > 1 /\ s[1] = "streams" => Len(h) > 1 /\ h[2] = s[2]
  /\ Taken(s, u, b) = 0 /\ Sent(s, u) > 0 /\ s[1] = "streams" =>
       Sent(s, u) = 1 /\ m \in {"listening", "spinning"}

Places == {"off", "open", "listening", "closed", "served", "cut off",
           "spinning"}
Where(s, u, b, m) ==
  /\ m \in Places
  /\ m = "off" <=> Len(s) = 0
  /\ m \in {"closed", "served"} => Len(u) = 0
  /\ m = "served" => Len(b) = 0

LineOK(s, u, b, h, m) ==
  /\ LineTypes(s, u, b, h)
  /\ Remaining(s, u, b)
  /\ \E place : Placed(s, h, Taken(s, u, b), place)
  /\ FirstLines(s, u, b, h, m)
  /\ Where(s, u, b, m)

(* A remote control that is run. *)
LEMMA LineStarts ==
  ASSUME NEW s \in Seq(Word), Len(s) <= Len(Words), NEW m,
         (m = "off" /\ s = <<>>) \/ (m = "open" /\ s # <<>>)
  PROVE  LineOK(s, s, <<>>, <<>>, m)
<1>1. /\ Sent(s, s) = 0 /\ Taken(s, s, <<>>) = 0
      /\ Len(s) \in Nat /\ Len(<<>>) = 0
  <2>1. Len(s) \in Nat
    BY LenProperties
  <2>2. Len(<<>>) = 0
    OBVIOUS
  <2>3. Sent(s, s) = 0
    BY <2>1 DEF Sent
  <2>4. 0 - 0 = 0
    OBVIOUS
  <2> QED BY <2>1, <2>2, <2>3, <2>4, Zenon DEF Taken
<1>2. LineTypes(s, s, <<>>, <<>>)
  BY <1>1 DEF LineTypes
<1>3. Remaining(s, s, <<>>)
  BY <1>1 DEF Remaining
<1>4. Placed(s, <<>>, 0, [i \in 1 .. 0 |-> 0])
  BY DEF Placed
<1>5. FirstLines(s, s, <<>>, <<>>, m)
  BY <1>1 DEF FirstLines
<1>6. Where(s, s, <<>>, m)
  <2>1. s = <<>> <=> Len(s) = 0
    BY EmptySeq
  <2>2. m \in {"off", "open"} /\ (m = "off" <=> Len(s) = 0)
    BY <2>1
  <2> QED BY <2>2 DEF Where, Places
<1> QED BY <1>1, <1>2, <1>3, <1>4, <1>5, <1>6 DEF LineOK

(* It sends a line. *)
LEMMA LineSent ==
  ASSUME NEW s, NEW u, NEW b, NEW h, LineOK(s, u, b, h, "open"), u # <<>>
  PROVE  LineOK(s, Tail(u), Append(b, Head(u)), h,
                IF Head(u) = "streams" THEN "listening" ELSE "open")
<1> DEFINE v == Tail(u)
           c == Append(b, Head(u))
           m == IF Head(u) = "streams" THEN "listening" ELSE "open"
<1>1. /\ s \in Seq(Word) /\ u \in Seq(Word) /\ b \in Seq(Word)
      /\ h \in Seq(Word)
      /\ Len(s) <= Len(Words) /\ Len(u) + Len(b) <= Len(s)
      /\ Len(h) <= Taken(s, u, b)
  BY DEF LineOK, LineTypes
<1>2. /\ v \in Seq(Word) /\ Len(v) = Len(u) - 1 /\ Head(u) \in Word
      /\ \A i \in 1 .. Len(v) : v[i] = u[i + 1]
      /\ Head(u) = u[1] /\ Len(u) \in Nat \ {0}
  BY <1>1, HeadTailProperties
<1>3. /\ c \in Seq(Word) /\ Len(c) = Len(b) + 1 /\ Len(b) \in Nat
      /\ \A i \in 1 .. Len(b) : c[i] = b[i]
      /\ c[Len(b) + 1] = Head(u)
  BY <1>1, <1>2, AppendProperties
<1> HIDE DEF v, c
<1>4. /\ Sent(s, v) = Sent(s, u) + 1 /\ Taken(s, v, c) = Taken(s, u, b)
      /\ Sent(s, u) \in Nat /\ Taken(s, u, b) \in Nat
      /\ Taken(s, u, b) + Len(b) = Sent(s, u)
      /\ Sent(s, u) + Len(u) = Len(s) /\ Len(s) \in Nat
  BY <1>1, <1>2, <1>3 DEF Sent, Taken
<1>5. LineTypes(s, v, c, h)
  BY <1>1, <1>2, <1>3, <1>4 DEF LineTypes
<1>6. Remaining(s, u, b)
  BY DEF LineOK
<1>7. Remaining(s, v, c)
  <2>1. ASSUME NEW i \in 1 .. Len(c) PROVE c[i] = s[Taken(s, v, c) + i]
    <3>1. CASE i \in 1 .. Len(b)
      BY <1>3, <1>4, <1>6, <3>1 DEF Remaining
    <3>2. CASE i = Len(b) + 1
      <4>1. u[1] = s[Sent(s, u) + 1]
        BY <1>2, <1>6 DEF Remaining
      <4>2. Taken(s, v, c) + i = Sent(s, u) + 1
        BY <1>3, <1>4, <3>2
      <4> QED BY <1>2, <1>3, <3>2, <4>1, <4>2
    <3> QED BY <1>3, <3>1, <3>2
  <2>2. ASSUME NEW i \in 1 .. Len(v) PROVE v[i] = s[Sent(s, v) + i]
    <3>1. i + 1 \in 1 .. Len(u) /\ Sent(s, v) + i = Sent(s, u) + (i + 1)
      BY <1>2, <1>4
    <3>2. u[i + 1] = s[Sent(s, u) + (i + 1)]
      BY <1>6, <3>1 DEF Remaining
    <3> QED BY <1>2, <3>1, <3>2
  <2> QED BY <2>1, <2>2 DEF Remaining
<1>8. FirstLines(s, v, c, h, m)
  <2>1. FirstLines(s, u, b, h, "open")
    BY DEF LineOK
  <2>2. Taken(s, u, b) = 0 /\ s[1] = "streams" =>
          Sent(s, u) = 0 /\ u[1] = "streams"
    <3> SUFFICES ASSUME Taken(s, u, b) = 0, s[1] = "streams"
                 PROVE  Sent(s, u) = 0 /\ u[1] = "streams"
      OBVIOUS
    <3>1. Sent(s, u) = 0
      BY <1>4, <2>1 DEF FirstLines
    <3>2. u[1] = s[Sent(s, u) + 1]
      BY <1>2, <1>6 DEF Remaining
    <3> QED BY <3>1, <3>2
  <2>3. Taken(s, v, c) = 0 /\ Sent(s, v) > 0 /\ s[1] = "streams" =>
          Sent(s, v) = 1 /\ m \in {"listening", "spinning"}
    BY <1>2, <1>4, <2>2
  <2> QED BY <1>4, <2>1, <2>3 DEF FirstLines
<1>9. Where(s, v, c, m)
  <2>1. Len(s) # 0 /\ m \in {"open", "listening"}
    BY <1>2, <1>4
  <2> QED BY <2>1 DEF Where, Places
<1> QED BY <1>4, <1>5, <1>7, <1>8, <1>9, Zenon DEF LineOK, v, c

(* The service thread reads: of what has come in the first line is heard.    *)
(* The answer to "streams" lets the remote control go on.                    *)
LEMMA LineRead ==
  ASSUME NEW s, NEW u, NEW b, NEW h, NEW m, LineOK(s, u, b, h, m), b # <<>>,
         NEW k, k = m \/ k = "open"
  PROVE  LineOK(s, u, <<>>, Append(h, Head(b)), k)
<1> DEFINE g == Append(h, Head(b))
           t == Taken(s, u, b)
           n == Sent(s, u)
<1>1. /\ s \in Seq(Word) /\ u \in Seq(Word) /\ b \in Seq(Word)
      /\ h \in Seq(Word)
      /\ Len(s) <= Len(Words) /\ Len(u) + Len(b) <= Len(s)
      /\ Len(h) <= t
  BY DEF LineOK, LineTypes
<1>2. Head(b) \in Word /\ Head(b) = b[1] /\ Len(b) \in Nat \ {0}
  BY <1>1
<1>3. /\ g \in Seq(Word) /\ Len(g) = Len(h) + 1 /\ Len(h) \in Nat
      /\ \A i \in 1 .. Len(h) : g[i] = h[i]
      /\ g[Len(h) + 1] = Head(b)
  BY <1>1, <1>2, AppendProperties
<1>4. /\ Taken(s, u, <<>>) = n /\ t + Len(b) = n /\ t \in Nat /\ n \in Nat
      /\ n + Len(u) = Len(s) /\ Len(u) \in Nat /\ Len(s) \in Nat
  BY <1>1, <1>2 DEF Taken, Sent
<1>5. Head(b) = s[t + 1] /\ Remaining(s, u, b)
  <2>1. Remaining(s, u, b)
    BY DEF LineOK
  <2>2. 1 \in 1 .. Len(b)
    BY <1>2
  <2>3. b[1] = s[t + 1]
    BY <2>1, <2>2 DEF Remaining
  <2> QED BY <1>2, <2>1, <2>3
<1>6. PICK place : Placed(s, h, t, place)
  BY DEF LineOK
<1>7. FirstLines(s, u, b, h, m)
  BY DEF LineOK
<1>8. Where(s, u, b, m)
  BY DEF LineOK
<1> HIDE DEF g, t, n
<1>9. LineTypes(s, u, <<>>, g)
  <2>1. Len(g) <= n
    BY <1>1, <1>2, <1>3, <1>4
  <2>2. Len(u) + Len(<<>>) <= Len(s) /\ <<>> \in Seq(Word)
    BY <1>4
  <2> QED BY <1>1, <1>3, <1>4, <2>1, <2>2 DEF LineTypes
<1>10. Remaining(s, u, <<>>)
  BY <1>5 DEF Remaining
<1>11. \E p : Placed(s, g, n, p)
  <2> DEFINE p == [i \in 1 .. Len(g) |-> IF i = Len(g) THEN t + 1 ELSE place[i]]
  <2>1. /\ place \in [1 .. Len(h) -> 1 .. t]
        /\ \A i \in 1 .. Len(h) : h[i] = s[place[i]]
        /\ \A i \in 1 .. Len(h) : \A j \in 1 .. i - 1 : place[j] < place[i]
    BY <1>6 DEF Placed
  <2>2. t + 1 \in 1 .. n /\ 1 .. t \subseteq 1 .. n
    BY <1>2, <1>4
  <2>3. p \in [1 .. Len(g) -> 1 .. n]
    BY <1>3, <2>1, <2>2
  <2>4. ASSUME NEW i \in 1 .. Len(g)
        PROVE  g[i] = s[p[i]] /\ \A j \in 1 .. i - 1 : p[j] < p[i]
    <3>1. CASE i \in 1 .. Len(h)
      <4>1. i # Len(g) /\ \A j \in 1 .. i - 1 : j \in 1 .. Len(g) /\ j # Len(g)
        BY <1>3, <3>1
      <4>2. p[i] = place[i] /\ \A j \in 1 .. i - 1 : p[j] = place[j]
        BY <4>1
      <4> HIDE DEF p
      <4> QED BY <1>3, <2>1, <3>1, <4>2
    <3>2. CASE i = Len(h) + 1
      <4>1. i = Len(g) /\ p[i] = t + 1
        BY <1>3, <3>2
      <4>2. g[i] = s[p[i]]
        BY <1>3, <1>5, <3>2, <4>1
      <4>3. ASSUME NEW j \in 1 .. i - 1 PROVE p[j] < p[i]
        <5>1. j \in 1 .. Len(h) /\ j \in 1 .. Len(g) /\ j # Len(g)
          BY <1>3, <3>2
        <5>2. p[j] = place[j] /\ place[j] \in 1 .. t
          BY <2>1, <5>1
        <5> QED BY <1>4, <4>1, <5>2
      <4> QED BY <4>2, <4>3
    <3>3. i \in 1 .. Len(h) \/ i = Len(h) + 1
      BY <1>3
    <3> QED BY <3>1, <3>2, <3>3
  <2> HIDE DEF p
  <2>5. Placed(s, g, n, p)
    BY <2>3, <2>4 DEF Placed
  <2> QED BY <2>5
<1>12. FirstLines(s, u, <<>>, g, k)
  <2>1. Len(g) > 0 /\ g[1] = s[1]
    <3>1. CASE t = 0
      BY <1>1, <1>3, <1>5, <3>1
    <3>2. CASE t > 0
      BY <1>3, <1>7, <3>2 DEF FirstLines, t
    <3> QED BY <1>4, <3>1, <3>2
  <2>2. n > 0 /\ n # 0
    BY <1>2, <1>4
  <2>3. n > 1 /\ s[1] = "streams" => Len(g) > 1 /\ g[2] = s[2]
    <3> SUFFICES ASSUME n > 1, s[1] = "streams"
                 PROVE  Len(g) > 1 /\ g[2] = s[2]
      OBVIOUS
    <3>1. t # 0
      BY <1>7, <2>2 DEF FirstLines, t, n
    <3>2. CASE t = 1
      <4>1. Len(h) > 0
        BY <1>4, <1>7, <3>2 DEF FirstLines, t
      <4>2. Len(h) = 1
        <5>1. Len(h) <= 1
          BY <1>1, <3>2 DEF t
        <5>2. Len(h) \in Nat
          BY <1>3
        <5>3. \A x \in Nat : x > 0 /\ x <= 1 => x = 1
          OBVIOUS
        <5> QED BY <4>1, <5>1, <5>2, <5>3, Zenon
      <4>3. Len(g) = 2 /\ g[2] = Head(b)
        BY <1>3, <4>2
      <4>4. Head(b) = s[2]
        BY <1>5, <3>2
      <4> QED BY <4>3, <4>4
    <3>3. CASE t > 1
      <4>1. Len(h) > 1 /\ h[2] = s[2]
        BY <1>7, <3>3 DEF FirstLines, t
      <4> QED BY <1>3, <4>1
    <3> QED BY <1>4, <3>1, <3>2, <3>3
  <2> QED BY <1>4, <2>1, <2>2, <2>3 DEF FirstLines, n
<1>13. Where(s, u, <<>>, k)
  <2>1. Len(s) # 0 /\ Len(<<>>) = 0
    BY <1>1, <1>2, <1>4
  <2>2. m # "off"
    BY <1>8, <2>1 DEF Where
  <2> QED BY <1>8, <2>1, <2>2 DEF Where, Places
<1> QED BY <1>4, <1>9, <1>10, <1>11, <1>12, <1>13, Zenon DEF LineOK, g

(* The remote control closes the connection, the service thread hangs up, or *)
(* leaves. *)
LEMMA LineEnds ==
  ASSUME NEW s, NEW u, NEW b, NEW h, NEW m, LineOK(s, u, b, h, m), NEW k,
         \/ m = "open" /\ Len(u) = 0 /\ k = "closed"
         \/ m = "closed" /\ Len(b) = 0 /\ k = "served"
         \/ m = "listening" /\ k = "spinning"
         \/ m \in {"open", "closed"} /\ k = "cut off"
  PROVE  LineOK(s, u, b, h, k)
<1>1. FirstLines(s, u, b, h, m) /\ Where(s, u, b, m)
  BY DEF LineOK
<1>2. FirstLines(s, u, b, h, k)
  BY <1>1 DEF FirstLines
<1>3. Where(s, u, b, k)
  BY <1>1 DEF Where, Places
<1> QED BY <1>2, <1>3, Zenon DEF LineOK

-----------------------------------------------------------------------------
(* All connections.  The variables have their types, and every line is as    *)
(* above.                                                                    *)
NetTypes ==
  /\ script \in [Remotes -> Seq(Word)] /\ unsent \in [Remotes -> Seq(Word)]
  /\ inbox \in [Remotes -> Seq(Word)] /\ heard \in [Remotes -> Seq(Word)]
  /\ remote \in [Remotes -> Places]
  /\ backlog \in Seq(Remotes)
  /\ socket \in Remotes \cup {NoSocket}

Lines ==
  \A r \in Remotes : LineOK(script[r], unsent[r], inbox[r], heard[r], remote[r])

NetInv == NetTypes /\ Lines

(* What a remote control is called to do it has something to send for. *)
LEMMA ScriptIsSent ==
  ASSUME NEW options \in OptionSets
  PROVE  /\ Select(Words, options) \in Seq(Word)
         /\ Len(Select(Words, options)) <= Len(Words)
         /\ Select(Words, options) # <<>>
<1>1. Words \in Seq(Word) /\ Len(Words) = 5 /\ DOMAIN Words = 1 .. 5
  BY DEF Words, Word, ToSet
<1>2. Select(Words, options) \in Seq(Word)
  <2>1. Select(Words, options) \in Seq(Word \cap options)
    BY <1>1, SelectType, Zenon
  <2> QED BY <2>1
<1>3. Len(Select(Words, options)) <= Len(Words)
  <2>1. Len(Select(Words, options)) \in 0 .. Len(Words)
    BY <1>1, SelectLength, Zenon
  <2>2. \A n \in 0 .. Len(Words) : n <= Len(Words)
    BY <1>1
  <2> QED BY <2>1, <2>2, Zenon
<1>4. Select(Words, options) # <<>>
  <2>1. PICK word \in options : word \in ToSet(Words)
    BY RemotesAssumption
  <2>2. PICK k \in 1 .. Len(Words) : Words[k] \in options
    BY <1>1, <2>1 DEF ToSet
  <2> QED BY <1>1, <2>2, SelectSome, Zenon
<1> QED BY <1>2, <1>3, <1>4

LEMMA NetInit == RemoteInit => NetInv
<1> SUFFICES ASSUME RemoteInit PROVE NetInv
  OBVIOUS
<1>1. <<>> \in Seq(Word) /\ <<>> \in Seq(Remotes) /\ Len(<<>>) <= Len(Words)
  BY DEF Words
<1>2. NetTypes
  BY <1>1 DEF RemoteInit, NetTypes, Places
<1>3. ASSUME NEW r \in Remotes
      PROVE  LineOK(script[r], unsent[r], inbox[r], heard[r], remote[r])
  <2>1. /\ script[r] = <<>> /\ unsent[r] = <<>> /\ inbox[r] = <<>>
        /\ heard[r] = <<>> /\ remote[r] = "off"
    BY DEF RemoteInit
  <2>2. LineOK(<<>>, <<>>, <<>>, <<>>, "off")
    BY <1>1, LineStarts, Zenon
  <2> QED BY <2>1, <2>2, Zenon
<1> QED BY <1>2, <1>3 DEF NetInv, Lines

(* A step at one connection leaves the lines of the others. *)
LEMMA LineOfOne ==
  ASSUME Lines, NEW r \in Remotes,
         LineOK(script'[r], unsent'[r], inbox'[r], heard'[r], remote'[r]),
         \A q \in Remotes \ {r} :
           /\ script'[q] = script[q] /\ unsent'[q] = unsent[q]
           /\ inbox'[q] = inbox[q] /\ heard'[q] = heard[q]
           /\ remote'[q] = remote[q]
  PROVE  Lines'
<1>1. ASSUME NEW q \in Remotes
      PROVE  LineOK(script'[q], unsent'[q], inbox'[q], heard'[q], remote'[q])
  <2>1. CASE q = r
    BY <2>1, Zenon
  <2>2. CASE q # r
    <3>1. LineOK(script[q], unsent[q], inbox[q], heard[q], remote[q])
      BY DEF Lines
    <3>2. /\ script'[q] = script[q] /\ unsent'[q] = unsent[q]
          /\ inbox'[q] = inbox[q] /\ heard'[q] = heard[q]
          /\ remote'[q] = remote[q]
      BY <2>2
    <3> QED BY <3>1, <3>2, Zenon
  <2> QED BY <2>1, <2>2
<1> QED BY <1>1 DEF Lines

(* A remote control is run: it had sent and been heard of nothing. *)
LEMMA ConnectKeeps ==
  ASSUME NetInv, NEW r \in Remotes, Connect(r)
  PROVE  NetInv'
<1>1. PICK options \in OptionSets :
        /\ script' = [script EXCEPT ![r] = Select(Words, options)]
        /\ unsent' = [unsent EXCEPT ![r] = Select(Words, options)]
  BY Zenon DEF Connect
<1> DEFINE s == Select(Words, options)
<1>2. s \in Seq(Word) /\ Len(s) <= Len(Words) /\ s # <<>>
  BY ScriptIsSent, Zenon
<1> HIDE DEF s
<1>3. script' = [script EXCEPT ![r] = s] /\ unsent' = [unsent EXCEPT ![r] = s]
  BY <1>1, Zenon DEF s
<1>4. /\ remote[r] = "off" /\ remote' = [remote EXCEPT ![r] = "open"]
      /\ backlog' = Append(backlog, r)
      /\ inbox' = inbox /\ heard' = heard
      /\ socket' = socket
  BY DEF Connect
<1>5. inbox[r] = <<>> /\ heard[r] = <<>>
  <2>1. LineOK(script[r], unsent[r], inbox[r], heard[r], "off")
    BY <1>4, Zenon DEF NetInv, Lines
  <2>2. /\ script[r] \in Seq(Word) /\ unsent[r] \in Seq(Word)
        /\ inbox[r] \in Seq(Word) /\ heard[r] \in Seq(Word)
        /\ Len(unsent[r]) + Len(inbox[r]) <= Len(script[r])
        /\ Len(heard[r]) <= Taken(script[r], unsent[r], inbox[r])
        /\ Len(script[r]) = 0
    BY <2>1 DEF LineOK, LineTypes, Where
  <2>3. Len(inbox[r]) = 0 /\ Len(heard[r]) = 0
    <3>1. \A t, u, b, h \in Nat :
            t = 0 /\ u + b <= t /\ h <= (t - u) - b => b = 0 /\ h = 0
      OBVIOUS
    <3>2. /\ Len(script[r]) \in Nat /\ Len(unsent[r]) \in Nat
          /\ Len(inbox[r]) \in Nat /\ Len(heard[r]) \in Nat
      BY <2>2, LenProperties
    <3> QED BY <2>2, <3>1, <3>2, Zenon DEF Taken, Sent
  <2> QED BY <2>2, <2>3, EmptySeq
<1>6. NetTypes'
  <2>1. backlog' \in Seq(Remotes)
    BY <1>4 DEF NetInv, NetTypes
  <2> QED BY <1>2, <1>3, <1>4, <2>1 DEF NetInv, NetTypes, Places
<1>7. Lines'
  <2>1. LineOK(s, s, <<>>, <<>>, "open")
    BY <1>2, LineStarts, Zenon
  <2>2. /\ script'[r] = s /\ unsent'[r] = s /\ inbox'[r] = <<>>
        /\ heard'[r] = <<>> /\ remote'[r] = "open"
    BY <1>3, <1>4, <1>5 DEF NetInv, NetTypes
  <2>3. LineOK(script'[r], unsent'[r], inbox'[r], heard'[r], remote'[r])
    BY <2>1, <2>2, Zenon
  <2>4. \A q \in Remotes \ {r} :
          /\ script'[q] = script[q] /\ unsent'[q] = unsent[q]
          /\ inbox'[q] = inbox[q] /\ heard'[q] = heard[q]
          /\ remote'[q] = remote[q]
    BY <1>3, <1>4 DEF NetInv, NetTypes
  <2> QED BY <2>3, <2>4, LineOfOne DEF NetInv
<1> QED BY <1>6, <1>7 DEF NetInv

LEMMA SendKeeps ==
  ASSUME NetInv, NEW r \in Remotes, Send(r)
  PROVE  NetInv'
<1> DEFINE u == unsent[r]
           b == inbox[r]
           v == Tail(u)
           c == Append(b, Head(u))
           m == IF Head(u) = "streams" THEN "listening" ELSE "open"
<1>1. /\ u # <<>> /\ remote[r] = "open"
      /\ inbox' = [inbox EXCEPT ![r] = c]
      /\ unsent' = [unsent EXCEPT ![r] = v]
      /\ remote' = [remote EXCEPT ![r] = m]
  BY Zenon DEF Send
<1>2. /\ script' = script /\ heard' = heard /\ backlog' = backlog
      /\ socket' = socket
  BY DEF Send
<1>3. u \in Seq(Word) /\ b \in Seq(Word)
  BY DEF NetInv, NetTypes
<1>4. v \in Seq(Word) /\ c \in Seq(Word)
  BY <1>1, <1>3
<1>5. LineOK(script[r], v, c, heard[r], m)
  <2>1. LineOK(script[r], u, b, heard[r], "open")
    BY <1>1, Zenon DEF NetInv, Lines
  <2> QED BY <1>1, <2>1, LineSent, Zenon
<1>6. m \in Places
  BY DEF Places
<1> HIDE DEF v, c, m
<1>7. NetTypes'
  BY <1>1, <1>2, <1>4, <1>6 DEF NetInv, NetTypes
<1>8. Lines'
  <2>1. /\ script'[r] = script[r] /\ unsent'[r] = v /\ inbox'[r] = c
        /\ heard'[r] = heard[r] /\ remote'[r] = m
    BY <1>1, <1>2 DEF NetInv, NetTypes
  <2>2. LineOK(script'[r], unsent'[r], inbox'[r], heard'[r], remote'[r])
    BY <1>5, <2>1, Zenon
  <2>3. \A q \in Remotes \ {r} :
          /\ script'[q] = script[q] /\ unsent'[q] = unsent[q]
          /\ inbox'[q] = inbox[q] /\ heard'[q] = heard[q]
          /\ remote'[q] = remote[q]
    BY <1>1, <1>2 DEF NetInv, NetTypes
  <2> QED BY <2>2, <2>3, LineOfOne DEF NetInv
<1> QED BY <1>7, <1>8 DEF NetInv

(* Its end of the connection is closed, or the service thread closes its own *)
(* when it has read everything.                                              *)
LEMMA EndKeeps ==
  ASSUME NetInv, NEW r \in Remotes, Close(r) \/ Hangup(r)
  PROVE  NetInv'
<1>1. PICK k \in Places :
        /\ remote' = [remote EXCEPT ![r] = k]
        /\ \/ remote[r] = "open" /\ unsent[r] = <<>> /\ k = "closed"
           \/ remote[r] = "closed" /\ inbox[r] = <<>> /\ k = "served"
  <2>1. CASE Close(r)
    <3>1. "closed" \in Places
      BY DEF Places
    <3> QED BY <2>1, <3>1, Zenon DEF Close
  <2>2. CASE Hangup(r)
    <3>1. "served" \in Places
      BY DEF Places
    <3> QED BY <2>2, <3>1, Zenon DEF Hangup
  <2> QED BY <2>1, <2>2
<1>2. /\ script' = script /\ unsent' = unsent /\ inbox' = inbox
      /\ heard' = heard /\ backlog' = backlog
      /\ socket' = socket \/ socket' = NoSocket
  BY DEF Close, Hangup
<1>3. NetTypes'
  BY <1>1, <1>2 DEF NetInv, NetTypes
<1>4. Lines'
  <2>1. LineOK(script[r], unsent[r], inbox[r], heard[r], remote[r])
    BY DEF NetInv, Lines
  <2>2. \/ remote[r] = "open" /\ Len(unsent[r]) = 0 /\ k = "closed"
        \/ remote[r] = "closed" /\ Len(inbox[r]) = 0 /\ k = "served"
    <3>1. Len(<<>>) = 0
      OBVIOUS
    <3> QED BY <1>1, <3>1, Zenon
  <2>3. LineOK(script[r], unsent[r], inbox[r], heard[r], k)
    BY <2>1, <2>2, LineEnds, Zenon
  <2>4. remote'[r] = k /\ \A q \in Remotes \ {r} : remote'[q] = remote[q]
    BY <1>1 DEF NetInv, NetTypes
  <2>5. LineOK(script'[r], unsent'[r], inbox'[r], heard'[r], remote'[r])
    BY <1>2, <2>3, <2>4, Zenon
  <2> QED BY <1>2, <2>4, <2>5, LineOfOne DEF NetInv
<1> QED BY <1>3, <1>4 DEF NetInv

(* A read of the service thread. *)
LEMMA ReadKeeps ==
  ASSUME NetInv, NEW r \in Remotes, inbox[r] # <<>>, Read(r),
         remote' = remote \/ remote' = [remote EXCEPT ![r] = "open"]
  PROVE  NetInv'
<1> DEFINE b == inbox[r]
           g == Append(heard[r], Head(b))
<1>1. /\ inbox' = [inbox EXCEPT ![r] = <<>>]
      /\ heard' = [heard EXCEPT ![r] = g]
  BY Zenon DEF Read
<1>2. /\ script' = script /\ unsent' = unsent /\ backlog' = backlog
      /\ socket' = socket
  BY DEF Read
<1>3. b \in Seq(Word) /\ heard[r] \in Seq(Word)
  BY DEF NetInv, NetTypes
<1>4. g \in Seq(Word) /\ <<>> \in Seq(Word)
  BY <1>3
<1>5. PICK k \in Places : /\ k = remote[r] \/ k = "open"
                          /\ remote' = [remote EXCEPT ![r] = k]
  BY DEF NetInv, NetTypes, Places
<1>6. LineOK(script[r], unsent[r], <<>>, g, k)
  <2>1. LineOK(script[r], unsent[r], b, heard[r], remote[r])
    BY DEF NetInv, Lines
  <2> QED BY <1>5, <2>1, LineRead, Zenon
<1> HIDE DEF b, g
<1>7. NetTypes'
  BY <1>1, <1>2, <1>4, <1>5 DEF NetInv, NetTypes
<1>8. Lines'
  <2>1. /\ script'[r] = script[r] /\ unsent'[r] = unsent[r]
        /\ inbox'[r] = <<>> /\ heard'[r] = g /\ remote'[r] = k
    BY <1>1, <1>2, <1>5 DEF NetInv, NetTypes
  <2>2. LineOK(script'[r], unsent'[r], inbox'[r], heard'[r], remote'[r])
    BY <1>6, <2>1, Zenon
  <2>3. \A q \in Remotes \ {r} :
          /\ script'[q] = script[q] /\ unsent'[q] = unsent[q]
          /\ inbox'[q] = inbox[q] /\ heard'[q] = heard[q]
          /\ remote'[q] = remote[q]
    BY <1>1, <1>2, <1>5 DEF NetInv, NetTypes
  <2> QED BY <2>2, <2>3, LineOfOne DEF NetInv
<1> QED BY <1>7, <1>8 DEF NetInv

LEMMA AcceptKeeps ==
  ASSUME NetInv, Accept
  PROVE  NetInv'
<1>1. /\ script' = script /\ unsent' = unsent /\ inbox' = inbox
      /\ heard' = heard /\ remote' = remote
  BY DEF Accept
<1>2. socket' \in Remotes /\ backlog' \in Seq(Remotes)
  BY HeadTailProperties DEF Accept, NetInv, NetTypes
<1>3. NetTypes'
  BY <1>1, <1>2 DEF NetInv, NetTypes
<1>4. Lines'
  BY <1>1 DEF NetInv, Lines
<1> QED BY <1>3, <1>4 DEF NetInv

(* The service thread leaves. *)
LEMMA LeaveKeeps ==
  ASSUME NetInv, ServiceLeaves
  PROVE  NetInv'
<1> DEFINE k(r) == CASE remote[r] = "listening" -> "spinning"
                     [] remote[r] \in {"open", "closed"} -> "cut off"
                     [] OTHER -> remote[r]
<1>1. /\ script' = script /\ unsent' = unsent /\ inbox' = inbox
      /\ heard' = heard /\ backlog' = <<>> /\ socket' = NoSocket
  BY DEF ServiceLeaves
<1>2. remote' = [r \in Remotes |-> k(r)]
  BY Zenon DEF ServiceLeaves
<1>3. ASSUME NEW r \in Remotes
      PROVE  /\ k(r) \in Places
             /\ \/ remote[r] = "listening" /\ k(r) = "spinning"
                \/ remote[r] \in {"open", "closed"} /\ k(r) = "cut off"
                \/ k(r) = remote[r]
  BY DEF NetInv, NetTypes, Places
<1> HIDE DEF k
<1>4. NetTypes'
  <2>1. remote' \in [Remotes -> Places]
    <3>1. \A r \in Remotes : k(r) \in Places
      BY <1>3, Zenon
    <3>2. [r \in Remotes |-> k(r)] \in [Remotes -> Places]
      BY <3>1, Zenon
    <3> QED BY <1>2, <3>2, Zenon
  <2>2. <<>> \in Seq(Remotes)
    OBVIOUS
  <2> QED BY <1>1, <2>1, <2>2 DEF NetInv, NetTypes
<1>5. ASSUME NEW r \in Remotes
      PROVE  LineOK(script'[r], unsent'[r], inbox'[r], heard'[r], remote'[r])
  <2>1. LineOK(script[r], unsent[r], inbox[r], heard[r], remote[r])
    BY DEF NetInv, Lines
  <2>2. LineOK(script[r], unsent[r], inbox[r], heard[r], k(r))
    <3>1. CASE remote[r] = "listening" /\ k(r) = "spinning"
      BY <2>1, <3>1, LineEnds, Zenon
    <3>2. CASE remote[r] \in {"open", "closed"} /\ k(r) = "cut off"
      BY <2>1, <3>2, LineEnds, Zenon
    <3>3. CASE k(r) = remote[r]
      BY <2>1, <3>3, Zenon
    <3> QED BY <1>3, <3>1, <3>2, <3>3
  <2>3. remote'[r] = k(r)
    BY <1>2, Zenon
  <2> QED BY <1>1, <2>2, <2>3, Zenon
<1> QED BY <1>4, <1>5 DEF NetInv, Lines

LEMMA NetStep == NetInv /\ [RemoteNext]_all => NetInv'
<1> SUFFICES ASSUME NetInv, [RemoteNext]_all PROVE NetInv'
  OBVIOUS
<1>1. CASE UNCHANGED net
  <2>1. /\ script' = script /\ unsent' = unsent /\ inbox' = inbox
        /\ heard' = heard /\ remote' = remote /\ backlog' = backlog
        /\ socket' = socket
    BY <1>1 DEF net
  <2>2. NetTypes'
    BY <2>1 DEF NetInv, NetTypes
  <2>3. Lines'
    BY <2>1 DEF NetInv, Lines
  <2> QED BY <2>2, <2>3 DEF NetInv
<1>2. ASSUME NEW r \in Remotes, Connect(r) \/ RemoteRuns(r)
      PROVE  NetInv'
  BY <1>2, ConnectKeeps, SendKeeps, EndKeeps, Zenon DEF RemoteRuns
<1>3. ASSUME NEW r \in Remotes,
             Request(r) \/ ListStreams(r) \/ NotForUs(r) \/ Hangup(r)
      PROVE  NetInv'
  <2>1. CASE Request(r)
    <3>1. inbox[r] # <<>> /\ Read(r) /\ remote' = remote
      BY <2>1 DEF Request
    <3> QED BY <3>1, ReadKeeps, Zenon
  <2>2. CASE ListStreams(r)
    <3>1. /\ inbox[r] # <<>> /\ Read(r)
          /\ remote' = [remote EXCEPT ![r] = "open"]
      BY <2>2 DEF ListStreams
    <3> QED BY <3>1, ReadKeeps, Zenon
  <2>3. CASE NotForUs(r)
    <3>1. inbox[r] # <<>> /\ Read(r) /\ remote' = remote
      BY <2>3 DEF NotForUs
    <3> QED BY <3>1, ReadKeeps, Zenon
  <2>4. CASE Hangup(r)
    BY <2>4, EndKeeps, Zenon
  <2> QED BY <1>3, <2>1, <2>2, <2>3, <2>4
<1>4. CASE NetRound
  BY <1>3, <1>4, AcceptKeeps, Zenon DEF NetRound
<1>5. CASE ServiceLeaves
  BY <1>5, LeaveKeeps
<1>6. CASE RemoteNext
  BY <1>1, <1>2, <1>4, <1>5, <1>6, Zenon DEF RemoteNext, Local
<1>7. CASE UNCHANGED all
  BY <1>1, <1>7, Zenon DEF all
<1> QED BY <1>6, <1>7

-----------------------------------------------------------------------------
(* What LineOK says of a remote control is what HeardInOrder asks for. *)
ServedLine(s, h, m) ==
  m = "served" =>
    /\ h # <<>> /\ h[1] = s[1]
    /\ s[1] = "streams" /\ Len(s) > 1 => Len(h) > 1 /\ h[2] = s[2]

LEMMA LineHeard ==
  ASSUME NEW s, NEW u, NEW b, NEW h, NEW m, LineOK(s, u, b, h, m)
  PROVE  Subsequence(h, s) /\ ServedLine(s, h, m)
<1>1. /\ s \in Seq(Word) /\ u \in Seq(Word) /\ b \in Seq(Word)
      /\ h \in Seq(Word)
      /\ Len(u) + Len(b) <= Len(s)
  BY DEF LineOK, LineTypes
<1>2. /\ Len(s) \in Nat /\ Len(u) \in Nat /\ Len(b) \in Nat /\ Len(h) \in Nat
      /\ DOMAIN s = 1 .. Len(s) /\ DOMAIN h = 1 .. Len(h)
  BY <1>1, LenProperties
<1>3. Subsequence(h, s)
  <2>1. PICK place : Placed(s, h, Taken(s, u, b), place)
    BY DEF LineOK
  <2>2. 1 .. Taken(s, u, b) \subseteq 1 .. Len(s)
    BY <1>1, <1>2 DEF Taken, Sent
  <2>3. place \in [DOMAIN h -> DOMAIN s]
    <3>1. place \in [1 .. Len(h) -> 1 .. Taken(s, u, b)]
      BY <2>1 DEF Placed
    <3> QED BY <1>2, <2>2, <3>1
  <2>4. \A i \in DOMAIN h :
          h[i] = s[place[i]] /\ \A j \in 1 .. i - 1 : place[j] < place[i]
    BY <1>2, <2>1, Zenon DEF Placed
  <2> QED BY <2>3, <2>4, Zenon DEF Subsequence
<1>4. ASSUME m = "served"
      PROVE  /\ h # <<>> /\ h[1] = s[1]
             /\ s[1] = "streams" /\ Len(s) > 1 => Len(h) > 1 /\ h[2] = s[2]
  <2>1. Len(u) = 0 /\ Len(b) = 0 /\ Len(s) # 0
    BY <1>4 DEF LineOK, Where
  <2>2. Taken(s, u, b) = Len(s)
    <3>1. \A n \in Nat : (n - 0) - 0 = n
      OBVIOUS
    <3> QED BY <1>2, <2>1, <3>1, Zenon DEF Taken, Sent
  <2>3. FirstLines(s, u, b, h, m)
    BY DEF LineOK
  <2>4. Len(h) > 0 /\ h[1] = s[1]
    BY <1>2, <2>1, <2>2, <2>3 DEF FirstLines
  <2>5. h # <<>>
    BY <2>4
  <2>6. s[1] = "streams" /\ Len(s) > 1 => Len(h) > 1 /\ h[2] = s[2]
    BY <2>2, <2>3 DEF FirstLines
  <2> QED BY <2>4, <2>5, <2>6
<1> QED BY <1>3, <1>4, Zenon DEF ServedLine

(* Of any number of remote controls, each called to do anything, what the    *)
(* service thread takes for requests of one connection was sent on it, once  *)
(* and in the order of sending; of a connection that was served to its end   *)
(* the first request was heard, and the one after the list of streams.       *)
THEOREM RemotesHeardInOrder == RemoteSpec => []HeardInOrder
<1>1. RemoteInit => NetInv
  BY NetInit
<1>2. NetInv => HeardInOrder
  <2> SUFFICES ASSUME NetInv, NEW r \in Remotes
               PROVE  /\ Subsequence(heard[r], script[r])
                      /\ ServedLine(script[r], heard[r], remote[r])
    BY Zenon DEF HeardInOrder, ServedLine
  <2>1. LineOK(script[r], unsent[r], inbox[r], heard[r], remote[r])
    BY DEF NetInv, Lines
  <2> QED BY <2>1, LineHeard, Zenon
<1> QED BY <1>1, <1>2, NetStep, PTL DEF RemoteSpec

(* The variables of the radio and of its network interface have their types, *)
(* and nothing of a connection is longer than all the words there are.       *)
THEOREM RemoteTypes == RemoteSpec => []RemoteTypeOK
<1>1. RemoteInit => PlayerInv /\ NetInv
  BY PlayerInit, NetInit DEF RemoteInit
<1>2. PlayerInv /\ NetInv => RemoteTypeOK
  <2> SUFFICES ASSUME PlayerInv, NetInv PROVE RemoteTypeOK
    OBVIOUS
  <2>1. ASSUME NEW r \in Remotes
        PROVE  /\ Len(script[r]) <= Len(Words) /\ Len(unsent[r]) <= Len(Words)
               /\ Len(inbox[r]) <= Len(Words) /\ Len(heard[r]) <= Len(Words)
    <3>1. LineTypes(script[r], unsent[r], inbox[r], heard[r])
      BY DEF NetInv, Lines, LineOK
    <3>2. /\ Len(script[r]) \in Nat /\ Len(unsent[r]) \in Nat
          /\ Len(inbox[r]) \in Nat /\ Len(heard[r]) \in Nat
      BY <3>1, LenProperties DEF LineTypes
    <3>3. Len(Words) = 5
      BY DEF Words
    <3>4. \A w, s, u, b, h \in Nat :
            s <= w /\ u + b <= s /\ h <= (s - u) - b =>
              u <= w /\ b <= w /\ h <= w
      OBVIOUS
    <3>5. Len(Words) \in Nat
      BY <3>3
    <3>6. /\ Len(script[r]) <= Len(Words)
          /\ Len(unsent[r]) + Len(inbox[r]) <= Len(script[r])
          /\ Len(heard[r])
               <= (Len(script[r]) - Len(unsent[r])) - Len(inbox[r])
      BY <3>1 DEF LineTypes, Taken, Sent
    <3> QED BY <3>2, <3>4, <3>5, <3>6, Zenon
  <2>2. ToSet(backlog) \subseteq Remotes
    BY DEF NetInv, NetTypes, ToSet
  <2>3. /\ TypeOK /\ remote \in [Remotes -> Places]
        /\ socket \in Remotes \cup {NoSocket}
    BY DEF PlayerInv, NetInv, NetTypes
  <2> QED BY <2>1, <2>2, <2>3, Zenon DEF RemoteTypeOK, Places
<1> QED BY <1>1, <1>2, RemoteStep, NetStep, PTL DEF RemoteSpec
=============================================================================
