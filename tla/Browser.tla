-------------------------------- MODULE Browser --------------------------------
(***************************************************************************)
(* The two clients that fetch a list and let the user browse it: mail       *)
(* (src/src/mail.c) and rss (src/src/rss.c).  The client's own thread frees *)
(* the list and fetches a new one from each of its sources; the service     *)
(* thread runs the key and ignore callbacks, which move current_screen and  *)
(* show the item there.  Both use the list, the index and the screen, and   *)
(* there is no lock.                                                        *)
(*                                                                         *)
(* The screen is its title and two lines below; a write is one command to   *)
(* LCDd, and commands are executed in the order they were queued (see       *)
(* CommandPipe).  The row of unread counts that mail adds is left out, and  *)
(* so is the end of the client (ServiceThread): g_exit stays unset.         *)
(***************************************************************************)
EXTENDS Integers, Sequences, SequencesExt

CONSTANTS
  Sources,         \* number of mailboxes or feeds
  Blank,           \* ""
  Receiving,       \* "  Receiving ...", and the source's name as title
  Tall,            \* the numbers of the items that fill both lines
  MaxItems,        \* BOUND: items of all sources together
  MaxChecks        \* BOUND: how often the sources are checked

(* struct email, struct newsitem: the check that fetched it, and its place. *)
Items == [check : 1..MaxChecks, number : 1..MaxItems]

ASSUME BrowserAssumption ==
  /\ Sources \in Nat
  /\ MaxItems \in Nat \ {0}
  /\ Tall \subseteq 1..MaxItems
  /\ MaxChecks \in Nat
  /\ Blank # Receiving
  /\ Blank \notin Items
  /\ Receiving \notin Items

VARIABLES
  client,          \* which of the two it is
  (* struct lcd_stuff_mail, struct lcd_stuff_rss *)
  list,            \* email, news
  current_screen,
  (* the heap *)
  alive,           \* the items not freed
  stale,           \* list points to nodes that have been freed
  fault,           \* freed memory has been used
  (* the two threads *)
  at,              \* where each is
  tot,             \* its length of the list
  writes,          \* what it has still to write on the screen
  event,           \* the callback's direction, and the index it started from
  source,          \* the source being checked
  checks,          \* how many checks have begun
  (* the display, and history *)
  screen,
  overlap          \* one thread began, or went on, while the other was at work

heap == <<alive, stale, fault>>
vars == <<client, list, current_screen, alive, stale, fault, at, tot, writes,
          event, source, checks, screen, overlap>>

Threads == {"client", "service"}
Widgets == {"title", "line1", "line2"}
NoEvent == [step |-> 0, from |-> 0]

Init ==
  /\ client \in {"mail", "rss"}
  /\ list = <<>>
  /\ current_screen = 0
  /\ alive = {}
  /\ stale = FALSE
  /\ fault = FALSE
  /\ at = [client |-> "sleep", service |-> "idle"]
  /\ tot = [t \in Threads |-> 0]
  /\ writes = [t \in Threads |-> <<>>]
  /\ event = NoEvent
  /\ source = 1
  /\ checks = 0
  /\ screen = [w \in Widgets |-> Blank]
  /\ overlap = FALSE

Thread(t, where) == ~ fault /\ at[t] = where
Goto(t, where) == at' = [at EXCEPT ![t] = where]

(* The use of freed memory: what happens then is anybody's guess. *)
Crash ==
  /\ fault' = TRUE
  /\ UNCHANGED <<client, list, current_screen, alive, stale, at, tot, writes,
                 event, source, checks, screen, overlap>>

-----------------------------------------------------------------------------
(* What is written on the screen: update_screen_text of rss clears it first,*)
(* update_screen of mail writes every line.  The text of a short item is    *)
(* one line (rss), or its sender without a subject (mail).                  *)

(* mutant: update_screen_text does not clear the screen *)
Show_Unclear(item) ==
  <<<<"title", item>>, <<"line1", item>>>>
    \o (IF item.number \in Tall THEN <<<<"line2", item>>>> ELSE <<>>)

Show(item) ==
  IF client = "rss"
  THEN <<<<"title", item>>, <<"line1", Blank>>, <<"line2", Blank>>,
         <<"line1", item>>>>
         \o (IF item.number \in Tall THEN <<<<"line2", item>>>> ELSE <<>>)
  ELSE <<<<"title", item>>, <<"line1", item>>,
         <<"line2", IF item.number \in Tall THEN item ELSE Blank>>>>

ShowNothing ==
  IF client = "rss"
  THEN <<>>
  ELSE <<<<"title", Blank>>, <<"line1", Blank>>, <<"line2", Blank>>>>

ShowReceiving ==
  IF client = "rss"
  THEN <<<<"title", Receiving>>, <<"line1", Blank>>, <<"line2", Blank>>,
         <<"line1", Receiving>>>>
  ELSE <<<<"title", Receiving>>, <<"line1", Receiving>>, <<"line2", Blank>>>>

-----------------------------------------------------------------------------
(* show_screen and update_screen_news, in either thread. *)

(* g_list_length walks the list. *)
Total(t) ==
  /\ Thread(t, "total")
  /\ IF stale
     THEN Crash
     ELSE /\ tot' = [tot EXCEPT ![t] = Len(list)]
          /\ Goto(t, "clamp")
          /\ UNCHANGED <<client, list, current_screen, heap, writes, event,
                         source, checks, screen, overlap>>

(* mutant: an index below the list becomes its length *)
Clamped_ToLength(index, length) ==
  IF index < 0 THEN length ELSE IF index >= length THEN 0 ELSE index

(* mutant: the index is not brought back into the list *)
Clamped_Not(index, length) == index

Clamped(index, length) ==
  IF index < 0 THEN length - 1 ELSE IF index >= length THEN 0 ELSE index

Clamp(t) ==
  /\ Thread(t, "clamp")
  /\ current_screen' = Clamped(current_screen, tot[t])
  /\ Goto(t, "pick")
  /\ UNCHANGED <<client, list, heap, tot, writes, event, source, checks,
                 screen, overlap>>

(* The walk to the item at current_screen, and the reading of the item.     *)
(* tot was read before, the list and the index may have changed since.      *)
Chosen == list[current_screen + 1]

Pick(t) ==
  /\ Thread(t, "pick")
  /\ LET found == tot[t] # 0 /\ current_screen + 1 \in DOMAIN list
     IN IF tot[t] # 0 /\ (stale \/ (found /\ Chosen \notin alive))
        THEN Crash
        ELSE /\ writes' = [writes EXCEPT ![t] = IF found THEN Show(Chosen)
                                                         ELSE ShowNothing]
             /\ Goto(t, "draw")
             /\ UNCHANGED <<client, list, current_screen, heap, tot, event,
                            source, checks, screen, overlap>>

(* The text of a message is the message's own string (mail), that of a      *)
(* headline a copy (rss); the title is a copy in both.                      *)
Draw(t) ==
  /\ Thread(t, "draw")
  /\ writes[t] # <<>>
  /\ LET widget == Head(writes[t])[1]
         text == Head(writes[t])[2]
     IN IF client = "mail" /\ widget # "title" /\ text \in Items \ alive
        THEN Crash
        ELSE /\ screen' = [screen EXCEPT ![widget] = text]
             /\ writes' = [writes EXCEPT ![t] = Tail(@)]
             /\ UNCHANGED <<client, list, current_screen, heap, at, tot, event,
                            source, checks, overlap>>

Drawn(t, next) ==
  /\ Thread(t, "draw")
  /\ writes[t] = <<>>
  /\ Goto(t, next)
  /\ tot' = [tot EXCEPT ![t] = 0]
  /\ event' = IF t = "service" THEN NoEvent ELSE event
  /\ UNCHANGED <<client, list, current_screen, heap, writes, source, checks,
                 screen, overlap>>

-----------------------------------------------------------------------------
(* The client's thread: mail_run, mail_check and free_emails, or rss_run,   *)
(* rss_check and free_news.                                                 *)

CheckBegins ==
  /\ Thread("client", "sleep")
  /\ checks < MaxChecks
  /\ checks' = checks + 1
  /\ current_screen' = 0
  /\ source' = 1
  /\ overlap' = (at["service"] # "idle")
  /\ Goto("client", "free")
  /\ UNCHANGED <<client, list, heap, tot, writes, event, screen>>

FreeItem ==
  /\ Thread("client", "free")
  /\ \E item \in alive :
       /\ \A i \in DOMAIN list : list[i] \in alive => list[i].number >= item.number
       /\ alive' = alive \ {item}
  /\ UNCHANGED <<client, list, current_screen, stale, fault, at, tot, writes,
                 event, source, checks, screen, overlap>>

(* g_list_free *)
FreeNodes ==
  /\ Thread("client", "free")
  /\ alive = {}
  /\ stale' = (list # <<>>)
  /\ Goto("client", "null")
  /\ UNCHANGED <<client, list, current_screen, alive, fault, tot, writes, event,
                 source, checks, screen, overlap>>

(* mutant: the list is not set to NULL *)
ForgetList_Not ==
  /\ Thread("client", "null")
  /\ Goto("client", "source")
  /\ UNCHANGED <<client, list, current_screen, heap, tot, writes, event, source,
                 checks, screen, overlap>>

ForgetList ==
  /\ Thread("client", "null")
  /\ list' = <<>>
  /\ stale' = FALSE
  /\ Goto("client", "source")
  /\ UNCHANGED <<client, current_screen, alive, fault, tot, writes, event,
                 source, checks, screen, overlap>>

(* The next source; mail announces only those that are not local. *)
NextSource ==
  /\ Thread("client", "source")
  /\ source <= Sources
  /\ \/ writes' = [writes EXCEPT !["client"] = ShowReceiving]
     \/ client = "mail" /\ UNCHANGED writes
  /\ Goto("client", "draw")
  /\ UNCHANGED <<client, list, current_screen, heap, tot, event, source,
                 checks, screen, overlap>>

(* Another item; g_list_append walks the list. *)
Append1 ==
  /\ Thread("client", "fetch")
  /\ Len(list) < MaxItems
  /\ IF stale
     THEN Crash
     ELSE LET item == [check |-> checks, number |-> Len(list) + 1]
          IN /\ list' = Append(list, item)
             /\ alive' = alive \cup {item}
             /\ UNCHANGED <<client, current_screen, stale, fault, at, tot,
                            writes, event, source, checks, screen, overlap>>

(* The source has no more, or cannot be read, or its items are not wanted. *)
SourceDone ==
  /\ Thread("client", "fetch")
  /\ source' = source + 1
  /\ Goto("client", "source")
  /\ UNCHANGED <<client, list, current_screen, heap, tot, writes, event,
                 checks, screen, overlap>>

(* mutant: the client does not show what it has fetched *)
AllFetched_NotShown ==
  /\ Thread("client", "source")
  /\ source > Sources
  /\ Goto("client", "sleep")
  /\ UNCHANGED <<client, list, current_screen, heap, tot, writes, event,
                 source, checks, screen, overlap>>

AllFetched ==
  /\ Thread("client", "source")
  /\ source > Sources
  /\ Goto("client", "total")
  /\ UNCHANGED <<client, list, current_screen, heap, tot, writes, event,
                 source, checks, screen, overlap>>

ClientSteps ==
  \/ FreeItem \/ FreeNodes \/ ForgetList \/ NextSource \/ Append1 \/ SourceDone
  \/ AllFetched
  \/ Total("client") \/ Clamp("client") \/ Pick("client") \/ Draw("client")
  \/ Drawn("client", IF source <= Sources THEN "fetch" ELSE "sleep")

-----------------------------------------------------------------------------
(* The service thread: mail_key_handler and mail_ignore_handler, or those   *)
(* of rss.  The index is read and written by steps of their own.            *)

Event ==
  /\ Thread("service", "idle")
  /\ \E step \in {1, -1} : event' = [step |-> step, from |-> current_screen]
  /\ overlap' = (at["client"] # "sleep")
  /\ Goto("service", "move")
  /\ UNCHANGED <<client, list, current_screen, heap, tot, writes, source,
                 checks, screen>>

Move ==
  /\ Thread("service", "move")
  /\ current_screen' = event.from + event.step
  /\ Goto("service", "total")
  /\ UNCHANGED <<client, list, heap, tot, writes, event, source, checks,
                 screen, overlap>>

ServiceSteps ==
  \/ Move
  \/ Total("service") \/ Clamp("service") \/ Pick("service") \/ Draw("service")
  \/ Drawn("service", "idle")

-----------------------------------------------------------------------------
Next == CheckBegins \/ ClientSteps \/ Event \/ ServiceSteps

(* A thread that can go on does, and a library call returns.  Neither       *)
(* events nor further checks are assumed to come.                           *)
Spec == Init /\ [][Next]_vars /\ WF_vars(ClientSteps) /\ WF_vars(ServiceSteps)

-----------------------------------------------------------------------------
Idle == at["client"] = "sleep" /\ at["service"] = "idle"

(* The types; and the index is never more than one step outside the list,   *)
(* or two before an empty one, although two threads change it (mail.c:114,  *)
(* rss.c:97).                                                               *)
TypeOK ==
  /\ client \in {"mail", "rss"}
  /\ ToSet(list) \subseteq Items
  /\ alive \subseteq ToSet(list)
  /\ current_screen \in -2..MaxItems
  /\ at["client"] \in {"sleep", "free", "null", "source", "fetch", "total",
                       "clamp", "pick", "draw"}
  /\ at["service"] \in {"idle", "move", "total", "clamp", "pick", "draw"}
  /\ tot \in [Threads -> 0..MaxItems]
  /\ source \in 1..(Sources + 1)
  /\ screen \in [Widgets -> Items \cup {Blank, Receiving}]

(* With the types, freed items are used only by a callback that runs during *)
(* a check: a check or a callback that has the client to itself leaves      *)
(* nothing that the next one could trip over (free_emails, mail.c:152;      *)
(* free_news, rss.c:135).                                                   *)
Safe == TypeOK /\ (fault => overlap)

(* After a check or a callback that was not disturbed, the screen has the   *)
(* title and the lines of the item at current_screen, whatever was on it    *)
(* before: also what an earlier overlap has mixed up there.                 *)
ShowsCurrent ==
  Idle /\ ~ fault /\ ~ overlap /\ list # <<>> =>
    /\ current_screen + 1 \in DOMAIN list
    /\ screen = [title |-> Chosen, line1 |-> Chosen,
                 line2 |-> IF Chosen.number \in Tall THEN Chosen ELSE Blank]

(* A key or the end of the screen's turn leads to the neighbour, and from   *)
(* an end of the list to the other (rss_key_handler, mail_key_handler).     *)
TurnsPage ==
  at["service"] = "draw" /\ ~ overlap /\ list # <<>> /\ event.from >= 0 =>
    current_screen = (event.from + event.step) % Len(list)

(* "Receiving ..." does not stay on the display once the client has         *)
(* received, except that of rss when no feed had anything (rss.c:102).      *)
ReceivingEnds ==
  (\E w \in Widgets : screen[w] = Receiving) ~>
    \/ \A w \in Widgets : screen[w] # Receiving
    \/ fault
    \/ client = "rss" /\ list = <<>> /\ at["client"] = "sleep"
=================================================================================
