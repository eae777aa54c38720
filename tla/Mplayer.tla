-------------------------------- MODULE Mplayer --------------------------------
(***************************************************************************)
(* The web radio (src/src/mplayer.c): the service thread runs the key, menu *)
(* and net callbacks, which start the player process and leave requests;    *)
(* the module's own thread wakes each second, carries the requests out,     *)
(* asks the player for titles and reaps it, until g_exit is set.  The two   *)
(* share struct program without a lock.                                     *)
(*                                                                         *)
(* The pid is known to the module (pid > 0) only when mplayer_start_program *)
(* has seen the playback begin; until then the service thread waits.        *)
(* RemoteControl puts the net callback behind the network interface.        *)
(*                                                                         *)
(* The model starts in mplayer_init, when the client is registered.  Each   *)
(* key of the file but "name" is a channel and has a value.                 *)
(***************************************************************************)
EXTENDS Naturals

CONSTANTS
  Requests,     \* what users ask for: a subset of RequestKinds
  Numbers,      \* the channels they ask to play: a subset of NumberKinds
  FailingSteps, \* the steps of a start that can fail, of StartSteps
  MaxChildren   \* BOUND: processes alive or unreaped at once

RequestKinds == {"menu", "Up", "Down", "play", "pause_play", "stop"}
StartSteps == {"spawn", "input", "output"}

(* atoi of what follows "play": a negative number, one of the table of       *)
(* channels or one beyond its end.                                           *)
NumberKinds == {"below", "channel", "beyond"}

ASSUME RequestsAssumption ==
  /\ Requests \subseteq RequestKinds
  /\ Numbers \subseteq NumberKinds
  /\ FailingSteps \subseteq StartSteps
  /\ MaxChildren \in Nat \ {0}

VARIABLES
  pid,                 \* current.pid > 0
  streams,             \* are input_stream and output_stream open (not NULL)?
  stop_request,
  pause_play_request,
  paused,
  visible,             \* priority of the screen: info or hidden
  svc,                 \* the service thread: ready, waiting for playback, gone
  mp,                  \* where mplayer_run is; "init": no channel is counted yet
  child,               \* the process started last
  dying,               \* SIGTERM has been sent to it
  children,            \* processes started and not reaped
  exiting,             \* g_exit
  fault,               \* the undefined step taken; what follows is left open
  (* History, which only properties read. *)
  stale_stop,          \* the pending stop was asked before this child was started
  carried,             \* paused, when this child was started
  overlapped           \* this child was started while the last was being reaped

flags == <<stop_request, pause_play_request, paused, stale_stop>>
process == <<child, dying, children>>
history == <<carried, overlapped>>
vars == <<pid, streams, flags, visible, svc, mp, process, exiting, fault,
          history>>

Live == {"loading", "playing", "halted"}
Faults == {"unset_channel", "below_table", "beyond_table", "null_cookie",
           "null_stream", "double_close", "dead_frame"}

Init ==
  /\ pid = FALSE
  /\ streams = FALSE
  /\ stop_request = FALSE
  /\ pause_play_request = FALSE
  /\ paused = FALSE
  /\ visible = FALSE
  /\ svc = "ready"
  /\ mp = "init"
  /\ child = "none"
  /\ dying = FALSE
  /\ children = 0
  /\ exiting = FALSE
  /\ fault = "none"
  /\ stale_stop = FALSE
  /\ carried = FALSE
  /\ overlapped = FALSE

-----------------------------------------------------------------------------
(* The callbacks, in the service thread.  The client is registered for good: *)
(* its thread leaves only at g_exit, and then unregistering does nothing.    *)
Callback == fault = "none" /\ svc = "ready"

Dies(why) ==
  /\ fault' = why
  /\ UNCHANGED <<pid, streams, flags, visible, svc, mp, process, exiting,
                 history>>

(* The cookie is on the stack of mplayer_run, which has returned. *)
DeadFrame == mp = "gone" /\ Dies("dead_frame")

AskStop ==
  /\ stop_request' = TRUE
  /\ stale_stop' = FALSE
  /\ UNCHANGED <<pid, streams, pause_play_request, paused, visible, svc, mp,
                 process, exiting, fault, history>>

AskPause ==
  /\ pause_play_request' = TRUE
  /\ UNCHANGED <<pid, streams, stop_request, paused, stale_stop, visible, svc,
                 mp, process, exiting, fault, history>>

(* mplayer_start_program spawns a process; streams a player has left open    *)
(* are overwritten.                                                          *)
Spawn ==
  /\ mp # "init"
  /\ children < MaxChildren
  /\ child' = "loading"
  /\ children' = children + 1
  /\ stale_stop' = stop_request
  /\ carried' = paused
  /\ overlapped' = (mp = "hide")
  /\ UNCHANGED <<pid, stop_request, pause_play_request, paused, mp>>

PlayerStarts_NotShown ==  \* mutant: the screen is not raised
  /\ Spawn
  /\ dying' = FALSE
  /\ streams' = TRUE
  /\ svc' = "waiting"
  /\ UNCHANGED <<visible, exiting, fault>>

(* It goes on to mplayer_wait_for_playback. *)
PlayerStarts ==
  /\ Spawn
  /\ dying' = FALSE
  /\ streams' = TRUE
  /\ visible' = TRUE
  /\ svc' = "waiting"
  /\ UNCHANGED <<exiting, fault>>

(* fdopen of the input fails: mplayer_kill closes an output stream left from *)
(* the last player and signals pid 0, the program's own process group: the   *)
(* new player, and sig_handler.                                              *)
InputFails ==
  /\ "input" \in FailingSteps
  /\ Spawn
  /\ dying' = TRUE
  /\ streams' = FALSE
  /\ exiting' = TRUE
  /\ UNCHANGED <<visible, svc, fault>>

(* fdopen of the output fails: the input is closed here and by mplayer_kill. *)
OutputFails ==
  /\ "output" \in FailingSteps
  /\ Spawn
  /\ fault' = "double_close"
  /\ UNCHANGED <<streams, dying, visible, svc, exiting>>

(* g_spawn_async_with_pipes fails. *)
SpawnFails == mp # "init" /\ "spawn" \in FailingSteps /\ UNCHANGED vars

Refused_NoBound(no) == FALSE  \* mutant: channel_number is not looked at

(* Only the upper bound is tested.  It is 0 until the channels are counted.  *)
Refused(no) == no = "beyond" \/ (no = "channel" /\ mp = "init")

(* The entry read is none that mplayer_init has set: it is before or behind  *)
(* the table, or channel_number was set before the table was allocated and   *)
(* filled.                                                                   *)
BadEntry(no) ==
  /\ no = "channel" => mp \in {"init", "filling"}
  /\ Dies(CASE no = "below" -> "below_table"
            [] no = "beyond" -> "beyond_table"
            [] no = "channel" -> "unset_channel")

StartProgram_NoCheck(no) ==  \* mutant: the running player is not looked for
  \/ Refused(no) /\ UNCHANGED vars
  \/ /\ ~ Refused(no)
     /\ PlayerStarts \/ InputFails \/ OutputFails \/ SpawnFails \/ BadEntry(no)

(* With a bad entry a player may be started all the same, with whatever      *)
(* address is found there; without a table ("init") none is.                 *)
StartProgram(no) ==
  \/ (Refused(no) \/ pid) /\ UNCHANGED vars
  \/ /\ ~ Refused(no)
     /\ ~ pid
     /\ PlayerStarts \/ InputFails \/ OutputFails \/ SpawnFails \/ BadEntry(no)

(* The rest of it: playback has begun, or the player has closed its output.  *)
(* The variable written to is on the stack of mplayer_run.                   *)
PlaybackSeen_NoEnd ==  \* mutant: the end of the player's output is not noticed
  /\ fault = "none"
  /\ svc = "waiting"
  /\ child \in {"playing", "halted"}
  /\ pid' = TRUE
  /\ svc' = "ready"
  /\ UNCHANGED <<streams, flags, visible, mp, process, exiting, fault, history>>

PlaybackSeen ==
  /\ fault = "none"
  /\ svc = "waiting"
  /\ child # "loading"
  /\ IF mp = "gone"
     THEN fault' = "dead_frame" /\ UNCHANGED pid
     ELSE pid' = TRUE /\ UNCHANGED fault
  /\ svc' = "ready"
  /\ UNCHANGED <<streams, flags, visible, mp, process, exiting, history>>

(* mplayer_key_handler looks whether a player runs, mplayer_net_handler does *)
(* not.                                                                      *)
KeyHandler(key) ==
  /\ Callback
  /\ key \in {"Up", "Down"}
  /\ \/ DeadFrame
     \/ key = "Up" /\ mp # "gone" /\ pid /\ AskPause
     \/ key = "Down" /\ mp # "gone" /\ pid /\ AskStop

(* A channel is chosen, of those added to the menu when they were set.  The  *)
(* service thread hands over NULL for the cookie, and mplayer_start_program  *)
(* reads channel_number through it: no player is started from the menu.      *)
MenuHandler == Callback /\ mp # "init" /\ Dies("null_cookie")

NetHandler(request) ==
  /\ Callback
  /\ request \in {"play", "pause_play", "stop"}
  /\ \/ DeadFrame
     \/ request = "stop" /\ mp # "gone" /\ AskStop
     \/ request = "pause_play" /\ mp # "gone" /\ AskPause
     \/ /\ request = "play" /\ mp # "gone"
        /\ \E no \in Numbers : StartProgram(no)

-----------------------------------------------------------------------------
(* One round of mplayer_run.  Without a player the round is empty. *)
Wake ==
  /\ fault = "none"
  /\ mp = "sleep"
  /\ pid

EndRound_IfIdle ==  \* mutant: g_exit is looked at only without a player
  mp' = IF exiting /\ ~ pid THEN "leaving" ELSE "sleep"

(* while (!g_exit) *)
EndRound == mp' = IF exiting THEN "leaving" ELSE "sleep"

(* The screen is destroyed and the thread returns, and with it its frame     *)
(* goes; service_thread_unregister_client leaves the client registered.      *)
Leave ==
  /\ fault = "none"
  /\ mp = "leaving"
  /\ mp' = "gone"
  /\ UNCHANGED <<pid, streams, flags, visible, svc, process, exiting, fault,
                 history>>

(* mplayer_init. *)
CountChannels ==
  /\ fault = "none"
  /\ mp = "init"
  /\ mp' = "filling"
  /\ UNCHANGED <<pid, streams, flags, visible, svc, process, exiting, fault,
                 history>>

FillChannels ==
  /\ fault = "none"
  /\ mp = "filling"
  /\ EndRound
  /\ UNCHANGED <<pid, streams, flags, visible, svc, process, exiting, fault,
                 history>>

IdleRound ==
  /\ fault = "none"
  /\ mp = "sleep"
  /\ ~ pid
  /\ EndRound
  /\ UNCHANGED <<pid, streams, flags, visible, svc, process, exiting, fault,
                 history>>

StopRound_NoSignal ==  \* mutant: the streams are closed and no signal is sent
  /\ Wake
  /\ stop_request
  /\ streams' = FALSE
  /\ mp' = "clear_stop"
  /\ UNCHANGED <<pid, flags, visible, svc, process, exiting, fault, history>>

(* mplayer_kill. *)
StopRound ==
  /\ Wake
  /\ stop_request
  /\ streams' = FALSE
  /\ dying' = TRUE
  /\ mp' = "clear_stop"
  /\ UNCHANGED <<pid, flags, visible, svc, child, children, exiting, fault,
                 history>>

ClearStop ==
  /\ mp = "clear_stop"
  /\ stop_request' = FALSE
  /\ stale_stop' = FALSE
  /\ mp' = "check"
  /\ UNCHANGED <<pid, streams, pause_play_request, paused, visible, svc,
                 process, exiting, fault, history>>

PauseRound_Forgets ==  \* mutant: the player is told, the flag is not turned
  /\ Wake
  /\ ~ stop_request
  /\ pause_play_request
  /\ streams
  /\ child' = CASE child = "playing" -> "halted"
                [] child = "halted" -> "playing"
                [] OTHER -> child
  /\ mp' = "clear_pause"
  /\ UNCHANGED <<pid, streams, flags, visible, svc, dying, children, exiting,
                 fault, history>>

(* mplayer_play_pause writes to input_stream, which mplayer_kill sets to     *)
(* NULL.                                                                     *)
PauseRound ==
  /\ Wake
  /\ ~ stop_request
  /\ pause_play_request
  /\ streams
  /\ paused' = ~ paused
  /\ child' = CASE child = "playing" -> "halted"
                [] child = "halted" -> "playing"
                [] OTHER -> child
  /\ mp' = "clear_pause"
  /\ UNCHANGED <<pid, streams, stop_request, pause_play_request, stale_stop,
                 visible, svc, dying, children, exiting, fault, history>>

PauseRoundFaults ==
  /\ Wake
  /\ ~ stop_request
  /\ pause_play_request
  /\ ~ streams
  /\ Dies("null_stream")

ClearPause ==
  /\ mp = "clear_pause"
  /\ pause_play_request' = FALSE
  /\ mp' = "check"
  /\ UNCHANGED <<pid, streams, stop_request, paused, stale_stop, visible, svc,
                 process, exiting, fault, history>>

TitleRound_NoGuard ==  \* mutant: mplayer_update_metainfo without its guard
  /\ Wake
  /\ ~ stop_request
  /\ ~ pause_play_request
  /\ fault' = IF ~ paused /\ ~ streams THEN "null_stream" ELSE "none"
  /\ mp' = IF paused \/ ~ streams THEN "check" ELSE "asking"
  /\ UNCHANGED <<pid, streams, flags, visible, svc, process, exiting, history>>

(* A paused player is not asked; mplayer_update_metainfo returns if the      *)
(* streams are gone, or asks and waits.                                      *)
TitleRound ==
  /\ Wake
  /\ ~ stop_request
  /\ ~ pause_play_request
  /\ mp' = IF paused \/ ~ streams THEN "check" ELSE "asking"
  /\ UNCHANGED <<pid, streams, flags, visible, svc, process, exiting, fault,
                 history>>

(* The player has answered or closed its output. *)
TitlesRead ==
  /\ fault = "none"
  /\ mp = "asking"
  /\ mp' = "check"
  /\ UNCHANGED <<pid, streams, flags, visible, svc, process, exiting, fault,
                 history>>

CheckChild_KeepsPid ==  \* mutant: reaps and forgets to say so
  /\ fault = "none"
  /\ mp = "check"
  /\ child = "exited"
  /\ child' = "none"
  /\ children' = children - 1
  /\ mp' = "hide"
  /\ carried' = FALSE /\ overlapped' = FALSE
  /\ UNCHANGED <<pid, streams, flags, visible, svc, dying, exiting, fault>>

CheckChild_AnyAnswer ==  \* mutant: waitpid's "not yet" is taken for an end
  /\ fault = "none"
  /\ mp = "check"
  /\ pid' = FALSE
  /\ mp' = "hide"
  /\ IF child = "exited"
     THEN child' = "none" /\ children' = children - 1
     ELSE UNCHANGED <<child, children>>
  /\ carried' = FALSE /\ overlapped' = FALSE
  /\ UNCHANGED <<streams, flags, visible, svc, dying, exiting, fault>>

(* mplayer_check_child: waitpid finds the process dead. *)
CheckChild ==
  /\ fault = "none"
  /\ mp = "check"
  /\ child = "exited"
  /\ pid' = FALSE
  /\ child' = "none"
  /\ children' = children - 1
  /\ mp' = "hide"
  /\ carried' = FALSE /\ overlapped' = FALSE
  /\ UNCHANGED <<streams, flags, visible, svc, dying, exiting, fault>>

CheckAlive ==
  /\ fault = "none"
  /\ mp = "check"
  /\ child # "exited"
  /\ EndRound
  /\ UNCHANGED <<pid, streams, flags, visible, svc, process, exiting, fault,
                 history>>

(* It goes on: the screen is cleared and hidden. *)
HideScreen ==
  /\ fault = "none"
  /\ mp = "hide"
  /\ visible' = FALSE
  /\ EndRound
  /\ UNCHANGED <<pid, streams, flags, svc, process, exiting, fault, history>>

-----------------------------------------------------------------------------
(* The player process, and the signals that end the program. *)
ChildPlays ==
  /\ child = "loading"
  /\ child' = "playing"
  /\ UNCHANGED <<pid, streams, flags, visible, svc, mp, dying, children,
                 exiting, fault, history>>

ChildExits ==
  /\ child \in Live
  /\ child' = "exited"
  /\ UNCHANGED <<pid, streams, flags, visible, svc, mp, dying, children,
                 exiting, fault, history>>

ExitSignal ==
  /\ ~ exiting
  /\ exiting' = TRUE
  /\ UNCHANGED <<pid, streams, flags, visible, svc, mp, process, fault, history>>

(* The program has died, or has nothing to do. *)
Rest ==
  /\ fault # "none" \/ (svc # "waiting" /\ ~ pid) \/ mp = "gone"
  /\ UNCHANGED vars

PlayerThread ==
  \/ CountChannels \/ FillChannels
  \/ IdleRound
  \/ StopRound \/ ClearStop
  \/ PauseRound \/ PauseRoundFaults \/ ClearPause
  \/ TitleRound
  \/ CheckChild \/ CheckAlive \/ HideScreen
  \/ Leave

Keys == \E key \in Requests \cap {"Up", "Down"} : KeyHandler(key)
Menu == "menu" \in Requests /\ MenuHandler
World == ChildPlays \/ ChildExits \/ ExitSignal \/ Rest

Next ==
  \/ Keys \/ Menu
  \/ \E request \in Requests : NetHandler(request)
  \/ PlaybackSeen
  \/ PlayerThread \/ TitlesRead
  \/ World

Spec == Init /\ [][Next]_vars

(* Both threads are scheduled; a player dies of SIGTERM, begins to play or   *)
(* gives up, and answers what it is asked or ends.                           *)
FairSpec ==
  /\ Spec
  /\ WF_vars(PlayerThread)
  /\ WF_vars(PlaybackSeen)
  /\ WF_vars(TitlesRead)
  /\ WF_vars(dying /\ ChildExits)
  /\ WF_vars(child = "loading" /\ (ChildPlays \/ ChildExits))

-----------------------------------------------------------------------------
(* Properties.                                                               *)

TypeOK ==
  /\ {pid, streams, stop_request, pause_play_request, paused, visible, dying,
      exiting, stale_stop, carried, overlapped} \subseteq BOOLEAN
  /\ svc \in {"ready", "waiting", "gone"}
  /\ mp \in {"init", "filling", "sleep", "clear_stop", "clear_pause", "asking",
             "check", "hide", "leaving", "gone"}
  /\ child \in Live \cup {"none", "exited"}
  /\ children \in 0 .. MaxChildren
  /\ fault \in Faults \cup {"none"}

(* ChangeLog 2007-07-13: no player is started while another one runs or has  *)
(* not been reaped, although the thread that starts is not the one that      *)
(* reaps and the pid is unknown while the player loads.  A player whose      *)
(* streams could not be opened is never reaped, and the program ends.        *)
OneChild == children <= 1 \/ exiting

(* The pid the module may send SIGTERM to is that of a process it has        *)
(* started and not reaped; a reaped pid may be somebody else's.  And no      *)
(* player plays on that the module has lost: its pid is known, or the        *)
(* service thread waits for it, or it has been told to end.                  *)
PlayerKnown ==
  /\ pid => child # "none"
  /\ child \in Live /\ ~ dying => pid \/ svc = "waiting" \/ fault # "none"

(* What it takes to meet each undefined step.  No entry behind the table is  *)
(* ever read, and one of the table that is not set only before mplayer_init  *)
(* is through; one before the table is read whenever a negative number is    *)
(* asked for and no player is known.  Every choice of a channel in the menu  *)
(* finds NULL.  Only the pause request can meet the closed streams, of a     *)
(* player that has been told to stop and is not reaped; a stream is closed   *)
(* twice only if fdopen fails; and only at the exit, after the thread has    *)
(* returned, can a callback be handed its frame or write into it.            *)
FaultCauses ==
  /\ fault # "beyond_table"
  /\ fault = "unset_channel" => mp = "filling"
  /\ fault = "below_table" => "below" \in Numbers /\ ~ pid
  /\ fault = "null_cookie" => "menu" \in Requests /\ mp # "init"
  /\ fault = "null_stream" => pause_play_request /\ pid /\ dying
  /\ fault = "double_close" => "output" \in FailingSteps
  /\ fault = "dead_frame" => exiting /\ mp = "gone"

(* A new player inherits no more than this from the last one: its screen is  *)
(* hidden only if it was started between the waitpid of the last one and the *)
(* hiding of the screen that follows; and paused, which mplayer_start_program *)
(* does not reset, says whether it is halted, turned round if the last one   *)
(* ended halted.                                                             *)
StartsAfresh ==
  /\ pid /\ ~ visible => overlapped
  /\ pid /\ child \in {"playing", "halted"} =>
       ((paused # carried) <=> child = "halted")

(* A stop request that finds a player ends it and the pid is given up, even  *)
(* if the thread is waiting for titles.                                      *)
StopStops == stop_request /\ pid ~> ~ pid \/ fault # "none" \/ mp = "gone"

-----------------------------------------------------------------------------
(* Statements of the documentation that the code does not keep.              *)

(* README "stop: Stops playing the current stream": a player is not ended by *)
(* a stop that was asked before it was started.                              *)
StopsCurrentStream == [][mp = "sleep" /\ mp' = "clear_stop" => ~ stale_stop]_vars
=============================================================================
