----------------------------- MODULE RemoteControl -----------------------------
(***************************************************************************)
(* The network interface (accept and check_for_net_input in                 *)
(* src/src/servicethread.c) between remote controls                         *)
(* (src/scripts/mplayer_remote.py, or a program that keeps to the README)   *)
(* and the web radio of Mplayer.                                            *)
(*                                                                         *)
(* The service thread serves one connection at a time, looks at it once in  *)
(* a round of its loop, and takes what one read returns for one request.    *)
(* It does neither while a callback waits for a player to start.            *)
(*                                                                         *)
(* A remote control sends whole lines, each in one segment, and is run once *)
(* here; the number it asks for is any.  Lines of one connection that are   *)
(* joined fit in one read of 1024 bytes.                                    *)
(***************************************************************************)
EXTENDS Mplayer, Sequences, SequencesExt, Selection

CONSTANTS
  Remotes,
  NoSocket,
  OptionSets    \* what a remote control may be called to do, of Words

(* The order in which mplayer_remote.py sends; "pauseplay" is its word where *)
(* the README and the handler have "pause_play".                             *)
Words == <<"streams", "pauseplay", "pause_play", "stop", "play">>

ASSUME RemotesAssumption ==
  /\ NoSocket \notin Remotes
  /\ \A options \in OptionSets : options \subseteq ToSet(Words) /\ options # {}

VARIABLES
  script,     \* what each remote control is to send
  remote,     \* where it is
  unsent,     \* what it has not sent
  inbox,      \* sent and not read by the service thread
  heard,      \* what the service thread has taken for a request
  backlog,    \* connections that wait for accept
  socket      \* current_socket

net == <<script, remote, unsent, inbox, heard, backlog, socket>>
all == <<vars, net>>

RemoteInit ==
  /\ Init
  /\ script = [r \in Remotes |-> <<>>]
  /\ remote = [r \in Remotes |-> "off"]
  /\ unsent = [r \in Remotes |-> <<>>]
  /\ inbox = [r \in Remotes |-> <<>>]
  /\ heard = [r \in Remotes |-> <<>>]
  /\ backlog = <<>>
  /\ socket = NoSocket

-----------------------------------------------------------------------------
(* A remote control. *)
Listening == svc # "gone"

Connect(r) ==
  /\ Listening
  /\ remote[r] = "off"
  /\ \E options \in OptionSets :
       /\ script' = [script EXCEPT ![r] = Select(Words, options)]
       /\ unsent' = [unsent EXCEPT ![r] = Select(Words, options)]
  /\ remote' = [remote EXCEPT ![r] = "open"]
  /\ backlog' = Append(backlog, r)
  /\ UNCHANGED <<vars, inbox, heard, socket>>

(* The list of streams is waited for; nothing else is. *)
Send(r) ==
  /\ Listening
  /\ remote[r] = "open"
  /\ unsent[r] # <<>>
  /\ inbox' = [inbox EXCEPT ![r] = Append(@, Head(unsent[r]))]
  /\ unsent' = [unsent EXCEPT ![r] = Tail(@)]
  /\ remote' = [remote EXCEPT ![r] =
       IF Head(unsent[r]) = "streams" THEN "listening" ELSE "open"]
  /\ UNCHANGED <<vars, script, heard, backlog, socket>>

Close(r) ==
  /\ remote[r] = "open"
  /\ unsent[r] = <<>>
  /\ remote' = [remote EXCEPT ![r] = "closed"]
  /\ UNCHANGED <<vars, script, unsent, inbox, heard, backlog, socket>>

-----------------------------------------------------------------------------
(* The end of a round of service_thread_run. *)
Round == fault = "none" /\ svc = "ready"

Accept ==
  /\ Round
  /\ socket = NoSocket
  /\ backlog # <<>>
  /\ socket' = Head(backlog)
  /\ backlog' = Tail(backlog)
  /\ UNCHANGED <<vars, script, remote, unsent, inbox, heard>>

Read_Peeks(r) ==  \* mutant: what has been read stays to be read again
  /\ heard' = [heard EXCEPT ![r] = Append(@, Head(inbox[r]))]
  /\ UNCHANGED <<inbox, script, unsent, backlog, socket>>

(* Of the lines one read returns the first is the request: g_strsplit knows  *)
(* only blanks, and the handler looks at the beginning of each argument.     *)
Read(r) ==
  /\ inbox' = [inbox EXCEPT ![r] = <<>>]
  /\ heard' = [heard EXCEPT ![r] = Append(@, Head(inbox[r]))]
  /\ UNCHANGED <<script, unsent, backlog, socket>>

(* mplayer_net_handler knows the word. *)
Request(r) ==
  /\ Round
  /\ socket = r
  /\ inbox[r] # <<>>
  /\ Read(r)
  /\ NetHandler(Head(inbox[r]))
  /\ UNCHANGED remote

(* It writes the names of the channels, set or not, and "__END__"; the       *)
(* number of channels is in a frame that may be gone.                        *)
ListStreams(r) ==
  /\ Round
  /\ socket = r
  /\ inbox[r] # <<>>
  /\ Head(inbox[r]) = "streams"
  /\ Read(r)
  /\ remote' = [remote EXCEPT ![r] = "open"]
  /\ \/ DeadFrame
     \/ mp = "filling" /\ Dies("unset_channel")
     \/ mp # "gone" /\ UNCHANGED vars

(* mplayer_net_handler does not know the word. *)
NotForUs(r) ==
  /\ Round
  /\ socket = r
  /\ inbox[r] # <<>>
  /\ Head(inbox[r]) = "pauseplay"
  /\ Read(r)
  /\ UNCHANGED <<vars, remote>>

Hangup_BeforeReading(r) ==  \* mutant: closes though requests are unread
  /\ Round
  /\ socket = r
  /\ remote[r] = "closed"
  /\ remote' = [remote EXCEPT ![r] = "served"]
  /\ socket' = NoSocket
  /\ UNCHANGED <<vars, script, unsent, inbox, heard, backlog>>

Hangup_KeepsSocket(r) ==  \* mutant: current_socket is not reset
  /\ Round
  /\ socket = r
  /\ inbox[r] = <<>>
  /\ remote[r] = "closed"
  /\ remote' = [remote EXCEPT ![r] = "served"]
  /\ UNCHANGED <<vars, script, unsent, inbox, heard, backlog, socket>>

(* read returns 0. *)
Hangup(r) ==
  /\ Round
  /\ socket = r
  /\ inbox[r] = <<>>
  /\ remote[r] = "closed"
  /\ remote' = [remote EXCEPT ![r] = "served"]
  /\ socket' = NoSocket
  /\ UNCHANGED <<vars, script, unsent, inbox, heard, backlog>>

ServiceLeaves_KeepsOpen ==  \* mutant: the sockets stay open
  /\ Round
  /\ exiting
  /\ svc' = "gone"
  /\ UNCHANGED <<pid, streams, flags, visible, mp, process, exiting, fault,
                 history, net>>

(* At g_exit the loop ends and the sockets are closed.  A remote control     *)
(* that waits for the list reads "" for ever.                                *)
ServiceLeaves ==
  /\ Round
  /\ exiting
  /\ svc' = "gone"
  /\ remote' = [r \in Remotes |->
       CASE remote[r] = "listening" -> "spinning"
         [] remote[r] \in {"open", "closed"} -> "cut off"
         [] OTHER -> remote[r]]
  /\ socket' = NoSocket
  /\ backlog' = <<>>
  /\ UNCHANGED <<pid, streams, flags, visible, mp, process, exiting, fault,
                 history, script, unsent, inbox, heard>>

Local(A) == A /\ UNCHANGED net
NetRound ==
  \/ Accept
  \/ \E r \in Remotes : Request(r) \/ ListStreams(r) \/ NotForUs(r) \/ Hangup(r)
RemoteRuns(r) == Send(r) \/ Close(r)

RemoteNext ==
  \/ \E r \in Remotes : Connect(r) \/ RemoteRuns(r)
  \/ NetRound
  \/ ServiceLeaves
  \/ Local(Keys \/ Menu \/ PlaybackSeen)
  \/ Local(PlayerThread \/ TitlesRead)
  \/ Local(World)

RemoteSpec == RemoteInit /\ [][RemoteNext]_all

(* As Mplayer's, and remote controls run.  Every round of the service thread *)
(* ends at its connection and at g_exit: callbacks that come again and again *)
(* cannot keep it from there, as long as each returns.                       *)
RemoteFairSpec ==
  /\ RemoteSpec
  /\ WF_all(Local(PlayerThread))
  /\ WF_all(Local(PlaybackSeen))
  /\ WF_all(Local(TitlesRead))
  /\ WF_all(Local(dying /\ ChildExits))
  /\ WF_all(Local(child = "loading" /\ (ChildPlays \/ ChildExits)))
  /\ SF_all(NetRound)
  /\ SF_all(ServiceLeaves)
  /\ \A r \in Remotes : WF_all(RemoteRuns(r))

-----------------------------------------------------------------------------
(* Properties.                                                               *)

RemoteTypeOK ==
  /\ TypeOK
  /\ remote \in [Remotes -> {"off", "open", "listening", "closed", "served",
                             "cut off", "spinning"}]
  /\ \A f \in {script, unsent, inbox, heard} : \A r \in Remotes :
       Len(f[r]) <= Len(Words)
  /\ ToSet(backlog) \subseteq Remotes
  /\ socket \in Remotes \cup {NoSocket}

(* What is heard of a connection is part of what was sent, once and in the   *)
(* order of sending.  Its first request is always heard, and so is the one   *)
(* after the list of streams, which the remote control waits for; only a     *)
(* request sent right behind another can be lost.                            *)
Subsequence(s, t) ==
  \E place \in [DOMAIN s -> DOMAIN t] :
    \A i \in DOMAIN s :
      s[i] = t[place[i]] /\ \A j \in 1 .. i - 1 : place[j] < place[i]

HeardInOrder ==
  \A r \in Remotes :
    /\ Subsequence(heard[r], script[r])
    /\ remote[r] = "served" =>
         /\ heard[r] # <<>> /\ heard[r][1] = script[r][1]
         /\ script[r][1] = "streams" /\ Len(script[r]) > 1 =>
              Len(heard[r]) > 1 /\ heard[r][2] = script[r][2]

(* Every remote control is served and its connection closed, though others   *)
(* are before it and the service thread may be waiting for a player, unless  *)
(* the program ends.                                                         *)
RemotesServed ==
  \A r \in Remotes :
    remote[r] = "open" ~> remote[r] = "served" \/ exiting \/ fault # "none"

(* At the end of the program the player's thread leaves, whatever the player *)
(* does, and no remote control is left with an open connection.              *)
ShutsDown ==
  exiting ~>
    \/ fault # "none"
    \/ mp = "gone" /\ \A r \in Remotes : remote[r] \notin {"open", "listening"}
=============================================================================
