---------------------------------- MODULE Mpd ----------------------------------
(***************************************************************************)
(* The music player client (src/src/mpd.c): its thread polls the MPD server *)
(* through libmpd, shows the current song, and makes a new connection when  *)
(* the old one is lost; the service thread runs its key callback, which     *)
(* uses the same libmpd object without a lock.                              *)
(*                                                                         *)
(* The model starts when mpd_run has connected and enters its loop; a first *)
(* connect that fails is ServiceThread's ConnectFails.  The menu of         *)
(* playlists is built here; the menu callback, which would load one or set  *)
(* the standby timer, is left out: it is called without its cookie          *)
(* (ServiceThread, Lookup).                                                 *)
(***************************************************************************)
EXTENDS Integers, Sequences

CONSTANTS
  RETRY_INTERVAL,  \* 5 in the code
  Songs,           \* songs with a title
  Untitled,        \* the song ("", "")
  None,            \* NULL
  Names,           \* of playlists; two that differ in case only are one
  MaxPlaylists,    \* BOUND: playlists on the server
  MaxDrops         \* BOUND: how often the server goes away

ASSUME MpdAssumption ==
  /\ RETRY_INTERVAL \in Nat
  /\ MaxDrops \in Nat
  /\ None \notin Songs \cup {Untitled}
  /\ Untitled \notin Songs
  /\ MaxPlaylists \in Nat

VARIABLES
  (* the server, and libmpd's view of it *)
  server,         \* the server can be reached
  song,           \* the song it plays, or None
  state,          \* its player: play, pause or stop
  playlists,      \* the names of its playlists
  drops,          \* how often it has gone away
  linked,         \* the object is connected
  known,          \* the state libmpd last told the client's callback
  (* struct lcd_stuff_mpd *)
  error,
  current_state,
  song_displayed,
  current_song,
  current_list,
  retry_count,
  pc,             \* where mpd_run is
  key,            \* the key callback: idle, or holding the object live or freed
  exiting,        \* g_exit
  fault,          \* a freed object has been used
  (* the display, and history *)
  shown,          \* the song on the display, or None
  menu,           \* the playlists in LCDd's menu, or None
  silent,         \* libmpd failed to connect and did not call back
  pauses          \* seconds slept since the last failed attempt

external == <<server, song, state, drops>>
lists == <<playlists, current_list, menu>>
display == <<song_displayed, current_song, shown>>
vars == <<server, song, state, drops, linked, known, error, current_state,
          song_displayed, current_song, retry_count, pc, key, fault, shown,
          silent, pauses, lists, exiting>>

States == {"play", "pause", "stop"}
Spaced == RETRY_INTERVAL + 1   \* pauses counts no further
Playlists == UNION {[1 .. n -> Names] : n \in 0 .. MaxPlaylists}

Init ==
  /\ server = TRUE
  /\ song \in Songs \cup {None}
  /\ state \in States
  /\ drops = 0
  /\ linked = TRUE
  /\ known = "unknown"
  /\ error = FALSE
  /\ current_state = "unknown"
  /\ song_displayed = FALSE
  /\ current_song = Untitled
  /\ retry_count = RETRY_INTERVAL
  /\ pc = "loop"
  /\ key = "idle"
  /\ fault = FALSE
  /\ shown = None
  /\ silent = FALSE
  /\ pauses = Spaced
  /\ playlists \in Playlists
  /\ current_list = None
  /\ menu = None
  /\ exiting = FALSE

Thread(at) == ~ fault /\ pc = at
Loop == Thread("loop") /\ ~ exiting

-----------------------------------------------------------------------------
(* mpd_run: the head of its loop. *)
GoOn ==
  /\ Loop
  /\ ~ error
  /\ pc' = "check"
  /\ UNCHANGED <<external, linked, known, error, current_state, display,
                 retry_count, key, fault, silent, pauses, lists, exiting>>

WaitForRetry ==
  /\ Loop
  /\ error
  /\ retry_count > 0
  /\ retry_count' = retry_count - 1
  /\ pauses' = IF pauses < Spaced THEN pauses + 1 ELSE pauses
  /\ UNCHANGED <<external, linked, known, error, current_state, display, pc,
                 key, fault, silent, lists, exiting>>

Retry_AnyTime ==  \* mutant: reconnects although the connection stands
  /\ Loop
  /\ retry_count <= 0 \/ ~ error
  /\ retry_count' = retry_count - 1
  /\ pc' = "restart"
  /\ UNCHANGED <<external, linked, known, error, current_state, display, key,
                 fault, silent, pauses, lists, exiting>>

Retry_AtZero ==  \* mutant: the counter is compared for equality
  /\ Loop
  /\ error
  /\ retry_count = 0
  /\ retry_count' = retry_count - 1
  /\ pc' = "restart"
  /\ UNCHANGED <<external, linked, known, error, current_state, display, key,
                 fault, silent, pauses, lists, exiting>>

Retry ==
  /\ Loop
  /\ error
  /\ retry_count <= 0
  /\ retry_count' = retry_count - 1
  /\ pc' = "restart"
  /\ UNCHANGED <<external, linked, known, error, current_state, display, key,
                 fault, silent, pauses, lists, exiting>>

(* mpd_start_connection: it clears error, frees the object, makes another.   *)
FreeObject ==
  /\ Thread("restart")
  /\ error' = FALSE
  /\ current_song' = Untitled
  /\ linked' = FALSE
  /\ known' = "unknown"
  /\ key' = IF key = "live" THEN "freed" ELSE key
  /\ pc' = "connect"
  /\ UNCHANGED <<external, current_state, song_displayed, retry_count, fault,
                 shown, silent, pauses, lists, exiting>>

Connect ==
  /\ Thread("connect")
  /\ server
  /\ linked' = TRUE
  /\ pauses' = Spaced
  /\ pc' = "check"
  /\ UNCHANGED <<external, known, error, current_state, display, retry_count,
                 key, fault, silent, lists, exiting>>

ConnectFails_NoWait ==  \* mutant: the counter is not set anew
  /\ Thread("connect")
  /\ ~ server
  /\ \E called \in BOOLEAN :
       /\ error' = called
       /\ silent' = (silent \/ ~ called)
       /\ pc' = IF called THEN "loop" ELSE "check"
  /\ pauses' = 1
  /\ UNCHANGED <<external, linked, known, current_state, display, retry_count,
                 key, fault, lists, exiting>>

(* error is set only if libmpd calls mpd_connection_changed_handler: the     *)
(* result of mpd_start_connection does not set it, and without it the loop   *)
(* goes on as if connected.                                                 *)
ConnectFails ==
  /\ Thread("connect")
  /\ ~ server
  /\ \E called \in BOOLEAN :
       /\ error' = called
       /\ silent' = (silent \/ ~ called)
       /\ pc' = IF called THEN "loop" ELSE "check"
  /\ retry_count' = RETRY_INTERVAL
  /\ pauses' = 1
  /\ UNCHANGED <<external, linked, known, current_state, display, key, fault,
                 lists, exiting>>

-----------------------------------------------------------------------------
(* mpd_status_check, and the callbacks it makes. *)
Disconnected ==
  /\ Thread("check")
  /\ linked
  /\ ~ server
  /\ linked' = FALSE
  /\ error' = TRUE
  /\ pc' = "show"
  /\ UNCHANGED <<external, known, current_state, display, retry_count, key,
                 fault, silent, pauses, lists, exiting>>

(* mpd_state_changed_handler. *)
StateChanged ==
  /\ Thread("check")
  /\ linked
  /\ server
  /\ known # state
  /\ known' = state
  /\ current_state' = state
  /\ song_displayed' = FALSE
  /\ shown' = IF state = "play" THEN shown ELSE None
  /\ pc' = "show"
  /\ UNCHANGED <<external, linked, error, current_song, retry_count, key,
                 fault, silent, pauses, lists, exiting>>

NothingNew ==
  /\ Thread("check")
  /\ linked => server /\ known = state
  /\ pc' = "show"
  /\ UNCHANGED <<external, linked, known, error, current_state, display,
                 retry_count, key, fault, silent, pauses, lists, exiting>>

-----------------------------------------------------------------------------
(* mpd_update_status_time, with mpd_get_current_song.  Songs that differ in  *)
(* case only are one song; the time of the third line is left out.          *)
Fetched == IF linked /\ server /\ song # None THEN song ELSE Untitled

ShowSong_ShowsOld ==  \* mutant: shows current_song before it is assigned
  /\ Thread("show")
  /\ current_state = "play"
  /\ Fetched # current_song \/ ~ song_displayed
  /\ shown' = current_song
  /\ current_song' = Fetched
  /\ song_displayed' = TRUE
  /\ pc' = "menu"
  /\ UNCHANGED <<external, linked, known, error, current_state, retry_count,
                 key, fault, silent, pauses, lists, exiting>>

ShowSong ==
  /\ Thread("show")
  /\ current_state = "play"
  /\ Fetched # current_song \/ ~ song_displayed
  /\ current_song' = Fetched
  /\ shown' = Fetched
  /\ song_displayed' = TRUE
  /\ pc' = "menu"
  /\ UNCHANGED <<external, linked, known, error, current_state, retry_count,
                 key, fault, silent, pauses, lists, exiting>>

(* The song is on the display already: the code forgets it all the same, and *)
(* will show it again in the next round.                                    *)
SameSong ==
  /\ Thread("show")
  /\ current_state = "play"
  /\ Fetched = current_song /\ song_displayed
  /\ current_song' = None
  /\ pc' = "menu"
  /\ UNCHANGED <<external, linked, known, error, current_state, song_displayed,
                 shown, retry_count, key, fault, silent, pauses, lists,
                 exiting>>

NotPlaying ==
  /\ Thread("show")
  /\ current_state # "play"
  /\ pc' = "menu"
  /\ UNCHANGED <<external, linked, known, error, current_state, display,
                 retry_count, key, fault, silent, pauses, lists, exiting>>

-----------------------------------------------------------------------------
(* mpd_update_playlist_menu, once a minute.  A server that cannot be reached *)
(* has no playlists.                                                         *)
Directory == IF linked /\ server THEN playlists ELSE << >>

MenuDue_OnceListed ==  \* mutant: current_list is not replaced
  /\ Thread("menu")
  /\ current_list' = IF current_list = None THEN Directory ELSE current_list
  /\ menu' = IF current_list = Directory THEN menu ELSE Directory
  /\ pc' = "loop"
  /\ UNCHANGED <<external, playlists, linked, known, error, current_state,
                 display, retry_count, key, fault, silent, pauses, exiting>>

MenuDue ==
  /\ Thread("menu")
  /\ current_list' = Directory
  /\ menu' = IF current_list = Directory THEN menu ELSE Directory
  /\ pc' = "loop"
  /\ UNCHANGED <<external, playlists, linked, known, error, current_state,
                 display, retry_count, key, fault, silent, pauses, exiting>>

MenuNotDue ==
  /\ Thread("menu")
  /\ pc' = "loop"
  /\ UNCHANGED <<external, linked, known, error, current_state, display,
                 retry_count, key, fault, silent, pauses, lists, exiting>>

(* The end of mpd_run: the object is freed before the client is unregistered *)
Leave ==
  /\ Thread("loop")
  /\ exiting
  /\ linked' = FALSE
  /\ key' = IF key = "live" THEN "freed" ELSE key
  /\ current_list' = None
  /\ pc' = "unregister"
  /\ UNCHANGED <<external, playlists, menu, known, error, current_state,
                 display, retry_count, fault, silent, pauses, exiting>>

Unregister ==
  /\ Thread("unregister")
  /\ pc' = "gone"
  /\ UNCHANGED <<external, linked, known, error, current_state, display,
                 retry_count, key, fault, silent, pauses, lists, exiting>>

-----------------------------------------------------------------------------
(* mpd_key_handler, in the service thread, reads mpd->mpd and then calls     *)
(* libmpd.  (While mpd_start_connection has it at NULL, libmpd does nothing.) *)
KeyTakesObject ==
  /\ ~ fault
  /\ key = "idle"
  /\ pc # "gone"
  /\ key' = IF pc = "unregister" THEN "freed" ELSE "live"
  /\ UNCHANGED <<external, linked, known, error, current_state, display,
                 retry_count, pc, fault, silent, pauses, lists, exiting>>

(* Up: next song when playing, else stop.  Down: pause when playing, else    *)
(* play.                                                                    *)
KeyActs ==
  /\ ~ fault
  /\ key = "live"
  /\ key' = "idle"
  /\ IF ~ (linked /\ server)
       THEN UNCHANGED <<song, state>>
       ELSE \/ /\ current_state = "play"
               /\ song' \in Songs \cup {None}
               /\ UNCHANGED state
            \/ current_state # "play" /\ state' = "stop" /\ UNCHANGED song
            \/ current_state = "play" /\ state' = "pause" /\ UNCHANGED song
            \/ current_state # "play" /\ state' = "play" /\ UNCHANGED song
  /\ UNCHANGED <<server, drops, linked, known, error, current_state, display,
                 retry_count, pc, fault, silent, pauses, lists, exiting>>

KeyUsesFreed ==
  /\ ~ fault
  /\ key = "freed"
  /\ fault' = TRUE
  /\ UNCHANGED <<external, linked, known, error, current_state, display,
                 retry_count, pc, key, silent, pauses, lists, exiting>>

-----------------------------------------------------------------------------
(* The server: its other users, and its going and coming. *)
ServerPlays ==
  /\ server
  /\ \/ song' \in Songs \cup {None} /\ UNCHANGED <<state, playlists>>
     \/ state' \in States /\ UNCHANGED <<song, playlists>>
     \/ playlists' \in Playlists /\ UNCHANGED <<song, state>>
  /\ UNCHANGED <<server, drops, linked, known, error, current_state, display,
                 retry_count, pc, key, fault, silent, pauses, current_list,
                 menu, exiting>>

ServerGoes ==
  /\ server
  /\ drops < MaxDrops
  /\ server' = FALSE
  /\ drops' = drops + 1
  /\ UNCHANGED <<song, state, linked, known, error, current_state, display,
                 retry_count, pc, key, fault, silent, pauses, lists, exiting>>

ServerComes ==
  /\ ~ server
  /\ server' = TRUE
  /\ UNCHANGED <<song, state, drops, linked, known, error, current_state,
                 display, retry_count, pc, key, fault, silent, pauses, lists,
                 exiting>>

ExitSignal ==
  /\ ~ exiting
  /\ exiting' = TRUE
  /\ UNCHANGED <<external, linked, known, error, current_state, display,
                 retry_count, pc, key, fault, silent, pauses, lists>>

Over == (fault \/ pc = "gone") /\ UNCHANGED vars

MpdThread ==
  \/ GoOn \/ WaitForRetry \/ Retry
  \/ FreeObject \/ Connect \/ ConnectFails
  \/ Disconnected \/ StateChanged \/ NothingNew
  \/ ShowSong \/ SameSong \/ NotPlaying
  \/ MenuDue \/ MenuNotDue
  \/ Leave \/ Unregister

Next ==
  \/ MpdThread
  \/ KeyTakesObject \/ KeyActs \/ KeyUsesFreed
  \/ ServerPlays \/ ServerGoes \/ ServerComes
  \/ ExitSignal
  \/ Over

(* mpd_run is scheduled, and its minutes pass; nothing is assumed of the     *)
(* server or the keys.                                                       *)
Spec == Init /\ [][Next]_vars /\ WF_vars(MpdThread) /\ SF_vars(MenuDue)

-----------------------------------------------------------------------------
(* Properties.                                                               *)

TypeOK ==
  /\ {server, linked, error, song_displayed, exiting, fault, silent}
       \subseteq BOOLEAN
  /\ song \in Songs \cup {None}
  /\ state \in States
  /\ known \in States \cup {"unknown"}
  /\ current_state \in States \cup {"unknown"}
  /\ current_song \in Songs \cup {Untitled, None}
  /\ shown \in Songs \cup {Untitled, None}
  /\ drops \in 0 .. MaxDrops
  /\ retry_count \in - MaxDrops .. RETRY_INTERVAL
  /\ pc \in {"loop", "restart", "connect", "check", "show", "menu",
            "unregister", "gone"}
  /\ key \in {"idle", "live", "freed"}
  /\ pauses \in 0 .. Spaced
  /\ playlists \in Playlists
  /\ {current_list, menu} \subseteq Playlists \cup {None}

(* With the types, a key callback can use a freed object only after the      *)
(* server has gone away or at the end of the program: the object is not      *)
(* replaced while the connection stands.                                     *)
Safe == TypeOK /\ (fault => drops > 0 \/ exiting)

(* ChangeLog "fixed reconnect procedure if the server disconnects": a server *)
(* that is back for good is connected again, if libmpd has announced each    *)
(* failed attempt, however often the server went away before and whatever    *)
(* the retry counter was left at.                                           *)
Reconnects == <>[](server /\ ~ silent) => []<>(linked \/ fault \/ exiting)

(* A server that cannot be reached is not hammered: more than RETRY_INTERVAL *)
(* seconds lie between a failed attempt and the next one.                    *)
RetriesSpaced == [][pc' = "restart" /\ pc # "restart" => pauses = Spaced]_vars

(* A song that goes on playing over a connection that stays comes on the     *)
(* display and remains there, although the thread forgets it every other     *)
(* second and a reconnect resets one half of its memory (current_song) only. *)
SongAppears ==
  \A s \in Songs :
    <>[](linked /\ server /\ state = "play" /\ song = s)
      => <>[](shown = s \/ fault \/ exiting)

(* LCDd's menu comes to have the playlists of the server, though it is       *)
(* emptied by an update while the server cannot be reached, and is changed   *)
(* only if the list differs from the one fetched a minute before.            *)
MenuFollows ==
  \A l \in Playlists :
    <>[](linked /\ server /\ playlists = l)
      => <>[](menu = l \/ fault \/ exiting)
=============================================================================
