--------------------------- MODULE MCServiceThread ---------------------------
(***************************************************************************)
(* Instances of ServiceThread for TLC: the callback tables of the modules.  *)
(***************************************************************************)
EXTENDS ServiceThread

CONSTANTS mail, mpd, mplayer

(* mail.c, mpd.c, mplayer.c: the struct client of each module.               *)
Table == [c \in {mail, mpd, mplayer} |->
            CASE c = mail -> {"key", "ignore"}
              [] c = mpd -> {"key", "menu"}
              [] c = mplayer -> {"key", "menu", "net"}]
MCHandles == [c \in Clients |-> Table[c]]
=============================================================================
