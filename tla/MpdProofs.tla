------------------------------- MODULE MpdProofs -------------------------------
(***************************************************************************)
(* Theorems about Mpd, for every retry interval, any songs and playlists    *)
(* and any number of disconnects.                                           *)
(***************************************************************************)
EXTENDS Mpd, TLAPS

(* The seconds slept and the retry counter add up: what the counter has left *)
(* is what is missing to a whole interval.                                   *)
SpacedInv ==
  /\ pauses \in 0 .. Spaced
  /\ retry_count \in Int
  /\ pauses = Spaced \/ pauses + retry_count >= Spaced

LEMMA SpacedStep == SpacedInv /\ [Next]_vars => SpacedInv'
<1> SUFFICES ASSUME SpacedInv, [Next]_vars PROVE SpacedInv'
  OBVIOUS
<1> USE MpdAssumption DEF SpacedInv, Spaced
<1>1. CASE WaitForRetry
  BY <1>1 DEF WaitForRetry
<1>2. CASE Retry
  BY <1>2 DEF Retry
<1>3. CASE Connect
  BY <1>3 DEF Connect
<1>4. CASE ConnectFails
  BY <1>4 DEF ConnectFails
<1>5. CASE UNCHANGED <<pauses, retry_count>>
  BY <1>5
<1>6. CASE GoOn \/ FreeObject \/ Disconnected \/ StateChanged \/ NothingNew
  BY <1>5, <1>6 DEF GoOn, FreeObject, Disconnected, StateChanged, NothingNew
<1>7. CASE ShowSong \/ SameSong \/ NotPlaying \/ MenuDue \/ MenuNotDue
  BY <1>5, <1>7 DEF ShowSong, SameSong, NotPlaying, MenuDue, MenuNotDue
<1>8. CASE Leave \/ Unregister \/ ExitSignal \/ Over
  BY <1>5, <1>8 DEF Leave, Unregister, ExitSignal, Over, vars
<1>9. CASE KeyTakesObject \/ KeyActs \/ KeyUsesFreed
  BY <1>5, <1>9 DEF KeyTakesObject, KeyActs, KeyUsesFreed
<1>10. CASE ServerPlays \/ ServerGoes \/ ServerComes \/ UNCHANGED vars
  BY <1>5, <1>10 DEF ServerPlays, ServerGoes, ServerComes, vars
<1> QED BY <1>1, <1>2, <1>3, <1>4, <1>6, <1>7, <1>8, <1>9, <1>10
        DEF Next, MpdThread

LEMMA OnlyRetryRestarts ==
  ASSUME [Next]_vars, pc' = "restart", pc # "restart"
  PROVE  Retry
  BY DEF Next, MpdThread, GoOn, WaitForRetry, FreeObject, Connect, ConnectFails,
     Disconnected, StateChanged, NothingNew, ShowSong, SameSong, NotPlaying,
     MenuDue, MenuNotDue, Leave, Unregister, KeyTakesObject, KeyActs,
     KeyUsesFreed, ServerPlays, ServerGoes, ServerComes, ExitSignal, Over, vars

(* However often the server goes away and whatever the retry counter was     *)
(* left at, more than RETRY_INTERVAL seconds lie between a failed attempt    *)
(* and the next one.                                                         *)
THEOREM AttemptsAreSpaced == Spec => RetriesSpaced
<1>1. Init => SpacedInv
  BY MpdAssumption DEF Init, SpacedInv, Spaced
<1>2. SpacedInv /\ Retry => pauses = Spaced
  BY MpdAssumption DEF SpacedInv, Spaced, Retry
<1>3. SpacedInv /\ [Next]_vars
        => [pc' = "restart" /\ pc # "restart" => pauses = Spaced]_vars
  BY <1>2, OnlyRetryRestarts
<1> QED BY <1>1, <1>3, SpacedStep, PTL DEF Spec, RetriesSpaced

-----------------------------------------------------------------------------
(* Types: TypeOK without the bounds of the counters. *)
Types ==
  /\ {server, linked, error, song_displayed, exiting, fault, silent}
       \subseteq BOOLEAN
  /\ song \in Songs \cup {None}
  /\ state \in States
  /\ known \in States \cup {"unknown"}
  /\ current_state \in States \cup {"unknown"}
  /\ current_song \in Songs \cup {Untitled, None}
  /\ shown \in Songs \cup {Untitled, None}
  /\ pc \in {"loop", "restart", "connect", "check", "show", "menu",
            "unregister", "gone"}
  /\ key \in {"idle", "live", "freed"}
  /\ {playlists, current_list, menu} \subseteq Playlists \cup {None}
  /\ playlists \in Playlists

(* Each time the server goes away buys at most one attempt that is not       *)
(* preceded by a failed one, so the retry counter is never further below     *)
(* zero than the server has gone away; error is set while not connected.     *)
Noticeable == (error /\ pc # "restart") \/ (linked /\ ~ server)

DropInv ==
  /\ drops \in 0 .. MaxDrops
  /\ retry_count \in Int
  /\ retry_count <= RETRY_INTERVAL
  /\ retry_count >= - drops
  /\ Noticeable => retry_count >= 1 - drops
  /\ error => ~ linked
  /\ error \/ ~ server \/ pc \in {"restart", "connect"} => drops > 0
  /\ pc \in {"restart", "connect"} => ~ linked
  /\ pc = "connect" => ~ error

(* An object is freed after a disconnect or at the end. *)
FreedInv ==
  /\ pc \in {"unregister", "gone"} => exiting
  /\ key = "freed" \/ fault => drops > 0 \/ exiting

LEMMA EmptyPlaylists == << >> \in Playlists
<1>1. << >> \in [1 .. 0 -> Names]
  OBVIOUS
<1> QED BY <1>1, MpdAssumption DEF Playlists

LEMMA DirectoryType == playlists \in Playlists => Directory \in Playlists
  BY EmptyPlaylists DEF Directory

LEMMA TypesStep == Types /\ [Next]_vars => Types'
<1> SUFFICES ASSUME Types, [Next]_vars PROVE Types'
  OBVIOUS
<1> USE DEF Types, external, lists, display, Thread, Loop, States
<1>1. CASE GoOn \/ WaitForRetry \/ Retry
  BY <1>1 DEF GoOn, WaitForRetry, Retry
<1>2. CASE FreeObject \/ Connect
  BY <1>2 DEF FreeObject, Connect
<1>3. CASE ConnectFails
  BY <1>3 DEF ConnectFails
<1>4. CASE Disconnected \/ NothingNew
  BY <1>4 DEF Disconnected, NothingNew
<1>5. CASE StateChanged
  BY <1>5 DEF StateChanged
<1>6. CASE ShowSong
  BY <1>6 DEF ShowSong, Fetched
<1>7. CASE SameSong \/ NotPlaying \/ MenuNotDue
  BY <1>7 DEF SameSong, NotPlaying, MenuNotDue
<1>8. CASE MenuDue
  BY <1>8, DirectoryType DEF MenuDue
<1>9. CASE Leave \/ Unregister
  BY <1>9 DEF Leave, Unregister
<1>10. CASE KeyTakesObject \/ KeyUsesFreed
  BY <1>10 DEF KeyTakesObject, KeyUsesFreed
<1>11. CASE KeyActs
  BY <1>11 DEF KeyActs
<1>12. CASE ServerPlays
  BY <1>12 DEF ServerPlays
<1>13. CASE ServerGoes
  <2>1. {server', linked', error', song_displayed', exiting', fault', silent'}
          \subseteq BOOLEAN
    BY <1>13 DEF ServerGoes
  <2> QED BY <1>13, <2>1 DEF ServerGoes
<1>14. CASE ServerComes
  BY <1>14 DEF ServerComes
<1>15. CASE ExitSignal
  BY <1>15 DEF ExitSignal
<1>16. CASE UNCHANGED vars
  BY <1>16 DEF vars
<1> QED BY <1>1, <1>2, <1>3, <1>4, <1>5, <1>6, <1>7, <1>8, <1>9, <1>10, <1>11,
           <1>12, <1>13, <1>14, <1>15, <1>16 DEF Next, MpdThread, Over

LEMMA DropStep ==
  Types /\ DropInv /\ FreedInv /\ [Next]_vars => (DropInv /\ FreedInv)'
<1> SUFFICES ASSUME Types, DropInv, FreedInv, [Next]_vars
             PROVE  (DropInv /\ FreedInv)'
  OBVIOUS
<1> USE MpdAssumption DEF Types, DropInv, FreedInv, Noticeable, external,
        Thread, Loop
<1>1. CASE GoOn \/ WaitForRetry
  BY <1>1 DEF GoOn, WaitForRetry
<1>2. CASE Retry
  BY <1>2 DEF Retry
<1>3. CASE FreeObject
  BY <1>3 DEF FreeObject
<1>4. CASE Connect
  BY <1>4 DEF Connect
<1>5. CASE ConnectFails
  BY <1>5 DEF ConnectFails
<1>6. CASE Disconnected
  BY <1>6 DEF Disconnected
<1>7. CASE StateChanged \/ NothingNew
  BY <1>7 DEF StateChanged, NothingNew
<1>8. CASE ShowSong \/ SameSong \/ NotPlaying
  BY <1>8 DEF ShowSong, SameSong, NotPlaying
<1>9. CASE MenuDue \/ MenuNotDue
  BY <1>9 DEF MenuDue, MenuNotDue
<1>10. CASE Leave \/ Unregister
  BY <1>10 DEF Leave, Unregister
<1>11. CASE KeyTakesObject
  BY <1>11 DEF KeyTakesObject
<1>12. CASE KeyActs \/ KeyUsesFreed
  BY <1>12 DEF KeyActs, KeyUsesFreed
<1>13. CASE ServerPlays \/ ExitSignal
  BY <1>13 DEF ServerPlays, ExitSignal
<1>14. CASE ServerGoes
  BY <1>14 DEF ServerGoes
<1>15. CASE ServerComes
  BY <1>15 DEF ServerComes
<1>16. CASE UNCHANGED vars
  BY <1>16 DEF vars
<1> QED BY <1>1, <1>2, <1>3, <1>4, <1>5, <1>6, <1>7, <1>8, <1>9, <1>10, <1>11,
           <1>12, <1>13, <1>14, <1>15, <1>16 DEF Next, MpdThread, Over

(* The object is not replaced while the connection stands: a key callback    *)
(* can use a freed one only after a disconnect or at the exit.               *)
THEOREM FreedAfterDisconnect == Spec => []Safe
<1>1. Init => Types
  BY DEF Init, Types, States
<1>2. Init => DropInv /\ FreedInv
  BY MpdAssumption DEF Init, DropInv, FreedInv, Noticeable
<1>3. Types /\ SpacedInv /\ DropInv /\ FreedInv => Safe
  BY MpdAssumption DEF Types, SpacedInv, DropInv, FreedInv, Safe, TypeOK
<1>4. Init => SpacedInv
  BY MpdAssumption DEF Init, SpacedInv, Spaced
<1> QED BY <1>1, <1>2, <1>3, <1>4, TypesStep, DropStep, SpacedStep, PTL DEF Spec
=============================================================================
