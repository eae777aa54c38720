# TLA+ specifications of lcd-stuff

lcd-stuff shows mail, news, weather and music on a display driven by LCDproc's
server, LCDd.  This directory holds TLA+ specifications of the program, the TLC
configurations that check them on small instances, and theorems about them with
TLAPS proofs.  Line numbers are those of the files under `src/`;
`servicethread.c:209` stands for line 209 of `src/src/servicethread.c`.

`PROJECT.json` lists the components, the runs, which lines each definition
models (`map`), the seeded errors that each property must catch (`mutants`), the
hazards and the theorems.  An operator `X_Name` that stands before an operator
`X` and is commented "mutant:" is such a seeded error; no specification uses it.

## 1. The system

One process, six threads at most.  `main()` connects to LCDd, reads the
configuration, starts one thread for each compiled-in client module and becomes
the *service thread*, the only one that talks to LCDd.

    LCDd <--TCP--> service thread  <--- command_queue (async) ---  client threads
                        |                                          mail rss weather
                        +--- callbacks: key, listen, ignore, ----> mpd  mplayer
                             menu, net (run in the service thread,
                             on the client's data, without a lock)

| component | state | operations | interacts with |
|---|---|---|---|
| service thread (`servicethread.c`) | `clients`, `client_data` (hash tables), `client_number` (atomic), `current`, `command_queue`, `g_exit` | register, unregister, command; its loop: pop and send, read answers and events, keep-alive, network request; freeing all on leaving | everybody |
| main program (`main.c`) | thread handles, `s_refcount_conf`, `g_exit` | start-up, signals, join, `conf_dec_count` | service thread, configuration |
| configuration (`keyfile.c`) | `s_key_file` | load, has_group, getters, close | read by every thread's init |
| mplayer (`mplayer.c`) | `struct program`: pid, streams, `stop_request`, `pause_play_request`, `paused` | start (service thread), stop, pause, titles, reap (own thread) | player process, pipes |
| mail, rss (`mail.c`, `maillib.c`, `rss.c`) | list of messages, `current_screen` | fetch all, browse by key or when the screen is left | libetpan, libmrss |
| weather (`weather.c`, `weatherlib.c`) | last data | fetch, show | libxml, libnxml |
| mpd (`mpd.c`) | libmpd object, `error`, `current_state`, `current_song`, `song_displayed`, playlists, `stop_time` | poll, reconnect, keys, menu | libmpd, MPD server |
| screen (`screen.c`) | none of its own | screen and widget commands | command queue |
| text utilities (`util.c`, `str.c`) | none | wrap, split lines, split arguments | rss, mplayer, handshake |
| sockets (`shared/sockets.c`) | none | connect, non-blocking send and receive of lines | service thread, main |
| network interface (`servicethread.c`), `mplayer_remote.py` | `listen_fd`, `current_socket` | accept, read a request, close; connect, send, wait for the list | service thread, mplayer |
| list library (`shared/LL.c`) | nodes, `current` | move, look, add, take, order | nobody |
| report (`shared/report.c`), fileio, the start script and the build | logging; unused or auxiliary | | |

### What is hard about it

* Callbacks run in the service thread on a structure that lives on the stack of
  the client's thread.  The only thing that says whether it still lives is the
  registration.
* Registration, removal and the counter are three steps under two different
  protections; the look-ups of the cookie take no lock.
* `g_exit` is tested, and then the queue is pushed to; the service thread frees
  the queue and the mutex before the clients have been joined.
* LCDd's answers are matched to commands by order alone, with a limited number of
  reads, so an answer may be taken for another's.  The socket cannot tell silence
  from the end of the stream.
* The configuration is read by all threads and freed by whoever counts last.
* mplayer's process is started by one thread and reaped by another, with flags
  that outlive the player they were meant for; a start can fail at three places, and
  the service thread waits in it for the player.  What it is asked to play is a number
  of which only the upper bound is tested.
* The network interface has one connection at a time and takes one read for one
  request.
* mpd's reconnect depends on callbacks made in the middle of it, and its object is
  freed while key callbacks use it.

The list with one entry per place in the code is `hazards` in `PROJECT.json`.

### What makes the components correct

* service thread: the counter counts; nobody is stopped by another's leaving;
  callbacks only reach living clients; a command goes to LCDd once and in order,
  behind its `screen_add`; whoever is asked to leave does; a dead LCDd is noticed.
* configuration: no read after the close, one close, by the last reader.
* mplayer: one player at a time, signals to it alone, none lost, a stop stops, the
  screen is shown while it plays, and the thread leaves at exit.
* network interface: every remote control is served, its requests are heard in
  order, and none is left connected at exit.
* dialogue: a living LCDd ends neither the handshake nor the loop, however late its
  answers come and in whatever parts.
* mpd: comes back after a disconnect, does not hammer the server, shows the song that
  plays and offers the playlists there are.
* mail, rss: the index stays within the list; nobody reads a list being freed.
* list library: the functions amount to a sequence with a cursor.
* text: a wrapped line fits, nothing but spaces is lost, text that fits the
  display is not cut.

## 2. The modules

| module | models | state and actions |
|---|---|---|
| `ServiceThread` | `servicethread.c` (registry, queue, dispatch, loop, teardown), the skeleton of every client's `*_init`/`*_run`, thread creation, signal and join in `main.c` | `pc[c]` is the line a client thread has reached; `svc` the service thread's; `call` a callback from the look-up of the client to its return; `armed[c]` a command between the test of `g_exit` and the push; one action per test, locked section, atomic operation or push |
| `MCServiceThread` | | the modules' callback tables, for TLC |
| `ServiceThreadProofs` | | theorems about `ServiceThread` |
| `CommandPipe` | what `service_thread_command` promises (abstract) | the commands pending, in order |
| `LcdDialogue` | the handshake of `main.c`, `send_command_succ`, `check_for_input`, the keep-alive, `sock_send`, `sock_recv_string`; LCDd and TCP as environment | `phase` is the function the service thread is in, `inbox` the unread lines, `torn` whether the last of them has arrived in part only, `wire` the unexecuted commands, `conn` what the socket knows of the peer |
| `LcdDialogueProofs` | | theorems about `LcdDialogue`, and that it implements `CommandPipe` |
| `Selection`, `SelectionProofs` | | the elements of a sequence that are in a set; what the other proofs need to know of them |
| `KeyFile` | `keyfile.c` and `conf_dec_count`, with the start of each client | `pc[r]`: asking for the group, reading, counting, closing |
| `Mplayer` | the process, its failing starts, the requests, the time before the table of channels is filled and the exit of `mplayer.c`, both threads | `mp` is where `mplayer_run` is (from the registration on; `leaving` is behind the loop, `gone` after the return), `svc` whether the service thread waits in `mplayer_wait_for_playback`; `child` is the process; `Refused` and `BadEntry` are the test of the number and an entry read outside the part of the table that is set; `fault` names an undefined step (`Dies`), after which nothing is modelled; `stale_stop`, `carried` and `overlapped` are history |
| `RemoteControl` | `Mplayer` behind the network interface: accept, `check_for_net_input`, `mplayer_net_handler`, and `mplayer_remote.py` at the other end | `backlog` and `socket` are the connections, `inbox[r]` what one read would return, `heard[r]` the requests taken from it |
| `MplayerProofs` | | theorems about `Mplayer` and `RemoteControl` |
| `List` | what the list library promises (abstract) | a sequence, a cursor and the result of the last call |
| `LinkedList` | `LL.c`, `LL.h` | a record of the nodes' `next`, `prev` and `data`, and `current`; one operator per function |
| `LibraryProofs` | | theorems about `KeyFile` and `LinkedList`, and that `LinkedList` implements `List` |
| `Browser` | fetching, freeing and browsing the lists of `mail.c` and `rss.c`, both threads | `at[t]` is where the client's thread and the service thread are, `writes[t]` what each has still to put on the screen; `alive` and `stale` are the heap |
| `BrowserProofs` | | theorems about `Browser` |
| `Wrap` | `stringbuffer_wrap`, `_wrap_simple`, `_wrap_spaces`, `_get_line`, `_get_lines` of `util.c`, and `update_screen_text` of `rss.c` | the C locals `remainder`, `old`, `new`; one action per iteration of a loop |
| `WrapProofs` | | theorems about `Wrap` |
| `Mpd` | polling, reconnect, song, menu of playlists, key callback and exit of `mpd.c`; libmpd and the server as environment | `pc` is where `mpd_run` is, `key` the object a key callback holds, `shown` and `menu` what the user sees |
| `MpdProofs` | | theorems about `Mpd` |

Faults (use of freed memory, of NULL, of a dead stack frame) are states: the
program stops there and a property says when such a state may be reached.

Data are abstracted: a command is its sender and its verb (`screen_add`, drawing,
`screen_del`) in `ServiceThread` and a number in `LcdDialogue`; a song is a model
value, an item of mail or rss its number; texts appear in `Wrap` only.  The two hash
tables hold at most five entries, which never makes GLib resize them, so an
unlocked look-up next to an insertion is modelled as one read.

`ServiceThread` and `LcdDialogue` look at the same loop from two sides.  The first
has all threads and one command or event for each iteration; the second has one
thread, the socket and the answers.  `LcdDialogue` implements `CommandPipe` with
`pending` mapped to the commands on the wire followed by those queued; this is what
`ServiceThread` takes for granted when `SendCommand` makes LCDd execute the head
of the queue at once.

## 3. The runs

| run | expects | shows |
|---|---|---|
| `service_healthy` | pass | two drawing modules (mail, mplayer), key, listen, ignore and net events, a signal at any time: `NoFaultBeforeExit`, `NoOrphanCommand`, `ExitStopsProducers`; and, with fairness, `ShutdownCompletes`, `ScreenAppears` |
| `service_degraded` | pass | three modules, of which mail is badly configured and mpd may fail to connect, menu events, LCDd may die: `CountMatches`, `DeadCookieCause`, `UnregisterSparesCounted` |
| `menu_cookie` | violation | a menu event calls the callback with NULL (`servicethread.c:209`) |
| `server_death_hang` | violation | LCDd dies, `main()` joins for ever (`servicethread.c:439`) |
| `dialogue` | pass | from the handshake on, lines that arrive in parts, an LCDd that may die: `LivingServerHarmless`, `KeepsPromise` (implements `CommandPipe`), and with fairness `StartEnds`, `CatchesUp`, `DeathIsNoticed` |
| `keyfile` | pass | four threads, every content of the file: `NoReadAfterClose`, `ClosedByLast`, and with fairness `GoodFileIsFreed` |
| `player` | pass | `RemoteControl` over `Mplayer`: requests before the channels are set, numbers below, in and beyond the table, starts that fail at every step, keys, the menu, two remote controls, exit at any moment.  `RemoteTypeOK`, `OneChild`, `PlayerKnown`, `FaultCauses`, `StartsAfresh`, `HeardInOrder`; with fairness `StopStops`, `ShutsDown`, `RemotesServed` |
| `early_stop` | violation | a stop with no player ends the next stream (`mplayer.c:322`) |
| `mpd` | pass | a server that goes away twice and changes what it plays and has, keys, the exit: `Safe`, `RetriesSpaced`; with fairness `Reconnects`, `SongAppears`, `MenuFollows` |
| `wrap` | pass | all headlines of up to seven characters: `PointersSafe`, `LinesFit`, `TextKept`, `GetsDisplayed` |
| `browser` | pass | mail and rss, two checks of two sources, keys at any moment: `Safe`, `ShowsCurrent`, `TurnsPage`, `ReceivingEnds` |
| `list` | pass | every sequence of calls on a list: `WellFormed`, `ImplementsList` (implements `List`) |

### Bounds

* `MaxQueue` (2 or 3): no client starts a command when that many are queued or in
  flight.  The code's queue has no limit.  Order and loss need two commands of one
  client, interleaving a third of another.
* `Clients`: two or three of the five.  Two meet in every pair of places; the third
  lets one leave while another registers and a third stays.  The theorems are for
  any number.
* `Attempts` is 2 (10 in the code) and `NoopPeriod` 2 (30): the code compares both
  with counters only, so what matters is that each limit is reached, and that
  answers come before, at and after it.  `MaxCommands` 3, `MaxWire` 2, `MaxInbox` 2
  let two commands be unanswered with a third behind them and events in between.
* `MaxChildren` 2: one more than there may be; without the code's test a second
  player would show.
* `Remotes` 2, each with one of four sets of options: one that waits for an answer,
  one whose word is unknown, two with two lines that one read may join, and the pause.
  Both may be connected, so one waits in the backlog.
* `Numbers`: all that the code tells apart, a negative number, one below
  `channel_number` (any, so one stands for all) and one at or above it.
* `Nodes` 3 and `Data` {2, 3, 4} of which 2 and 3 compare as equal: neighbours and
  nodes with one between them, the list full and empty.
* `RETRY_INTERVAL` 2 (5 in the code), `MaxDrops` 2: a second disconnect after a
  reconnect finds the retry counter below zero, which is the case that matters.  Two
  songs, so that one follows another; one playlist that is there or not, so that the
  list differs from the last one or does not.
* `MaxText` 7 with widths 2 and 3: a text of up to four lines, so that the string
  moves under `remainder` (it takes three insertions), a break can be before, at and
  after the width, and words are shorter and longer than a line.  Display heights 3
  and 4, with and without a title, are two or three lines for the text; with one
  line the second attempt of `stringbuffer_wrap` is never made.  `Room` 2 is what
  the smallest power of two that GLib allocates leaves free at least.
* `MaxItems` 3: with two, up and down would lead to the same item.  `Sources` 2: the
  second is announced over a list that has items already.  `MaxChecks` 2: the second
  check frees what the first has fetched.

### Fairness

* A thread that can take a step does (weak fairness of each client's progress, of
  the service thread's and of the module loops): the scheduler's.  Drawing,
  key presses, requests, signals and failures are never assumed to happen.
* `EndOfLines` (strong) in `ServiceThread`, `InputEnds` (strong) in `LcdDialogue`:
  the loops that read from LCDd go on while there are lines, so the service thread
  comes back to its queue only if LCDd does not have another line ready at every
  single read.  Each line costs LCDd a user's action or a screen change and the
  service thread a read, so this holds in practice; the code does not enforce it.
* `LcdDialogue`: a living LCDd executes what it gets; TCP delivers the rest of a line
  and a reset in the end.
* `Mpd`: its thread is scheduled, and the minute after which the menu is due passes
  (`MenuDue`, strong: the test is passed in every round, whether it is due depends on
  the clock).  Nothing is assumed of the server and the keys.
* `KeyFile`: every reader's init returns.
* `Mplayer`: both threads are scheduled; a player that was sent SIGTERM dies, one that
  loads begins to play or ends, one that is asked for its title answers or ends.  The
  code waits for each of these without a limit.
* `RemoteControl`: as `Mplayer`; a remote control that is connected goes on.  `NetRound`
  and `ServiceLeaves` are strongly fair: every round of `service_thread_run` ends
  with the socket and the test of `g_exit`, but while a callback waits for a
  player there is no such round, so they are not enabled all the time.
* `Browser`: both threads go on, library calls return; neither events nor further
  checks are assumed.  `Wrap` is sequential.

## 4. What is proved

For every value of the constants allowed by the named assumptions
(`ClientsAssumption`, `TableAssumption`, `EnvironmentAssumption`,
`DialogueAssumption`, `ThreadsAssumption`, `RequestsAssumption`,
`RemotesAssumption`, `MpdAssumption`, `BrowserAssumption`, `TextAssumption`,
`NodesAssumption`).  They give
the bounds their types and keep names apart that the code keeps apart: no client and
no verb is the absence of one, no text of an item is the blank line or "Receiving ...",
no letter is a space.  First the service thread and its dialogue:

* `ServiceThreadProofs!CountingIsRight`: `TypeOK` and `CountMatches`.  Neither is
  inductive.  That the counter stays a natural number rests on its being the
  number of counted clients, and that a step changes both alike rests on where
  each thread stands relative to the table: `Membership` says that a client before
  its insertion and after its removal is not in the table, that one about to count
  or remove itself is, and that one that goes on without being in it has found
  `g_exit` set.  `CountInv` is the conjunction.
* `ServiceThreadProofs!LeavingSparesCounted`: the action property
  `UnregisterSparesCounted`.  If the counter goes from 1 to 0, the set of counted
  clients was the one that leaves, so by `CountMatches` all others are before their
  count or gone.
* `ServiceThreadProofs!HealthyUntilExit`: `NoFaultBeforeExit`.  `RunInv` says that
  until `g_exit` no client of a healthy program is beyond its loop, `current` and
  the client of a call in preparation have a cookie, and nothing has been freed.
* `ServiceThreadProofs!NoCommandIsOrphaned`: `NoOrphanCommand`.  That the command at the
  head of the queue finds its screen rests on what is behind it: `CommandsInOrder` says
  of each client that between creating its screen and deleting it the creation has been
  queued before anything else, and that whoever has queued the deletion queues nothing
  more.  It holds as long as the loop of the service thread does; `NothingAfterTheLoop`
  says that from then on nothing is sent.
* `ServiceThreadProofs!DeadCookiesHaveCauses`: `DeadCookieCause`, from `LeftEarly`, which says
  that before the exit only a client whose init or connect failed is beyond its loop.
* `ServiceThreadProofs!ExitDrains`: the action property `ExitStopsProducers`.
* `LcdDialogueProofs!LivingServerDoesNoHarm`: `LivingServerHarmless`.  `DialogueInv` has the
  types and, for each phase, what a living LCDd can have left in the socket: in the
  handshake the greeting or nothing (`Greeting`), then answers and events only
  (`AnswersOnly`), and no "huh?" that is not recorded (`Confessed`); so the service thread
  is beyond its loops over a connection that is up only after a refusal (`Standing`).
* `LcdDialogueProofs!PromiseIsKept`: `KeepsPromise`, the refinement of `CommandPipe`.  Of the
  commands on the wire only those of the clients count, not the keep-alive, so each
  step needs what `Select` makes of a sequence that grows at its end or shrinks at its
  front.  `WireOK` adds that there is nothing on the wire of a closed connection.

Then the configuration and the clients:

* `LibraryProofs!NeverReadAfterClose` and `LastReaderCloses`.  Readers that end
  early do not give their reference back, so the counter is not the number of
  readers that hold one; it is never less (`Enough`), so when it is zero nobody
  holds one, and whoever closes is alone (`OneCloser`).
* `MplayerProofs!OnePlayerKnown`, and `OnePlayerOverTheNet` for `RemoteControl`:
  `OneChild` and `PlayerKnown`.  `OneChild` speaks of processes, the code's test of the
  pid; `Waiting` and `Counted` tie the two: a process that is not reaped is the one whose
  pid is known or the one that is waited for, and never both, because no callback
  begins during the wait; and whoever is in the middle of a round knows the pid, so
  that nothing is reaped during the wait.  The network interface reaches the player by
  the callback alone, so its steps are the callback's or leave the player alone.
* `MplayerProofs!FaultsHaveCauses`: `FaultCauses`, with where `mplayer_run` stands when
  the undefined step is taken, and that the streams of a player that is known or waited
  for are closed only when it is killed (`FaultInv`).  That an entry behind the table is
  never read rests on the test of the upper bound alone (`Refused`); nothing in the code
  supports as much for negative numbers, and the theorem says only that there must have
  been one, with no player known.  `PlayersStartAfresh`: `StartsAfresh`, from `Afresh`, which says
  it already of the player that is waited for.
* `MplayerProofs!RemoteTypes` and `RemotesHeardInOrder`: `RemoteTypeOK` and `HeardInOrder`,
  for any number of remote controls.  What a connection holds unread and what is still to
  be sent on it are the end of the script (`Remaining`), what was heard lies before that
  in its order (`Placed`), and the first line is heard with the first read, the second
  too if the script waits for an answer in between (`FirstLines`).
* `MpdProofs!AttemptsAreSpaced`: the action property `RetriesSpaced`.  The seconds slept
  and what the retry counter has left add up to an interval, or it is over.
* `MpdProofs!FreedAfterDisconnect`: `Safe` of `Mpd`.  An object is freed in a reconnect or
  at the end; a reconnect needs `error`, which needs a disconnect.  For the types,
  `DropInv` says that the counter, which is decremented past zero, is bounded by how
  often the server has gone away.
* `BrowserProofs!FreedUseNeedsOverlap`: `Safe` of `Browser`, for lists and sources of any
  number.  `MemoryInv` says that the nodes are gone only between the freeing of the list
  and the NULL, that otherwise every item of the list is allocated, and that what the
  client's thread is about to draw is.
* `BrowserProofs!UndisturbedShowsCurrent` and `UndisturbedTurnsPage`: `ShowsCurrent` and
  `TurnsPage`.  A callback that has the client to itself starts from whatever an overlap
  has left behind, so the invariants are about what no overlap can spoil: `IndexInv`
  about the index and the total each thread has read, `ScreenInv` about what the screen
  will be after the writes still to come (`Settles`: the last write to a widget decides,
  or there is none and it shows the text already), `PageInv` about where a callback in
  progress came from.
* `WrapProofs!WrappedLinesFit` and `PointersStayInside`: `LinesFit` and `PointersSafe`, for
  texts and displays of every size.  What is before `remainder` has a newline among any
  `length + 1` characters (`Filled`), and a newline that came in addition has paid for a
  whole line of the text (`Paid`), which bounds how much the string can have grown.
* `WrapProofs!WrappingKeepsText`: `TextKept`.  `Breaks` says that the breaks found are behind a
  hyphen or before a space, so that a replacement costs no letter; `Rest` that what is behind
  `remainder` is the end of the text as it was, so that letters that meet at a newline are
  neighbours in the text only if it was inserted; `NoGap` that the scan has
  passed over no break, so that the line it was inserted in is full.

Last the list library, for any number of nodes and any data:

* `LibraryProofs!ChainIsWhole`: `WellFormed`.  Instead of following the chain, the
  inductive invariant (`Good`) says that it can be counted through: there is a function from
  the cells to the numbers that `next` raises by one and `prev` lowers by one, with `head` at
  0 and `tail` behind the last (`Ordered`).  For the three exchanges of pointers that `LL.c`
  consists of, a node put in (`LinkingIn`), taken out (`LinkingOut`) and two that change
  places (`Exchange`), the new function is written down from the old (`Room`, `Gap`,
  `Exchanged`), so that no step of a function needs induction along the chain.
* `LibraryProofs!ListImplemented`: `ImplementsList`, the refinement of `List`.
  `Represents(L, s, i)` says that the list `L` holds the items `s` with `current` at the place
  `i`; it determines `s` and `i` (`Representation`), which are what the history variables get.
  There is one lemma per function, from `Rewinds` to `Sorts`, of the form "if `L` represents
  `s` and `i`, then the function's result represents ...", and one per group of calls
  (`MovesCorrespond` ... `OrdersCorrespond`) that this is a step of `List`.  The loops have
  their own arguments: for a search, where `k` steps lead (`Ahead`, `Back`) and that it has
  stopped after as many as are looked at; for `LL_Destroy`, which nodes are left; for
  `LL_Sort` the loop invariant `Sorting`, that the items are a permutation of the first ones,
  that behind the place of `last` nothing has anything greater before it (`Settled`), and that
  `last` is at that place.

The provers know nothing about operators as parameters, so what is said above of
selected elements is said of `Select`, which is `SelectSeq` with a set for its test, and the
facts about it are induction by the least counterexample (`SelectionProofs!Least` and
`Induction`).

What the proofs have changed in the models: two `CASE` of `LcdDialogue` had arms that
overlapped, so that the checker chose one and the provers could not; `HeardInOrder` was
about a second request that a script of one word does not have; the
assumptions that keep names apart were missing in `ServiceThread` and `Browser`; and the
loops of `LL.c` (the searches, `LL_Destroy`, `LL_Sort`) were folds with an operator for
the body, which the provers cannot take, and are functions of the number of rounds now.
The counts of steps that `LL_Find` and `LL_Remove` try are bounded by the memory for
that (`Calls`); the proof shows that the bound is never reached.

Only model-checked:

* everything with fairness (TLAPS cannot prove liveness or `ENABLED`): `ShutdownCompletes`,
  `ScreenAppears`, `StartEnds`, `CatchesUp`, `DeathIsNoticed`, `GoodFileIsFreed`, `StopStops`,
  `ShutsDown`, `RemotesServed`, `Reconnects`, `SongAppears`, `MenuFollows`, `ReceivingEnds` and
  `GetsDisplayed`, with what is displayed in the end (`Displayed`: it puts lines together
  that were counted out again, which is induction over data on both sides).

## 5. Where the code does not do what is said of it

Shown by the three runs that expect a violation, see `findings`.  Other deviations
that the models have as reachable states and the properties therefore leave room for:

* `service_thread_unregister_client` keeps `current`; the next key goes to a client
  that has left, without a cookie (`servicethread.c:90`; `DeadCookieCause` and
  `NoFaultBeforeExit` say when not).
* A client past the test of `g_exit` pushes on the freed queue
  (`PushOnFreedQueue`), or locks the freed mutex (`LockFreedMutex`).
* "huh?" as an answer that comes late ends the program with "maybe server died"
  while LCDd lives (`LivingServerHarmless` says that nothing less does).
* The handshake reads until something comes: if LCDd closes the connection without
  an answer, `main()` loops for ever (`main.c:212`; `StartEnds` leaves room for it).  If
  the read fails, `send_command` returns without filling the buffer and
  `communication_init` splits it all the same; eight words are enough for it, though
  it uses the tenth (`main.c:242`).  A display of one line is refused with the words "must
  have a height of at least one line" (`main.c:317`).
* A line whose end is missing when the stream ends is returned without a terminator
  (`sockets.c:153`), so the words of an event may be whatever was in the buffer
  (phase `crash`; `LivingServerHarmless` says that LCDd must have died).
* mail without its group, an init that fails, and a missing `[network]` group never
  give their reference to the configuration back, so it is never freed
  (`GoodFileIsFreed` says when it is; no property is about the other files).
* Reaping a player can hide the screen of the next one (`StartsAfresh` says that
  nothing else can).
* `channel_number` is set before the table of channels is allocated and filled; a
  request from the network in between reads what is not there (`mplayer.c:363`;
  `BadEntry`, `ListStreams`, `FaultCauses`).
* The number of a play request is `atoi` of a word from the network (`mplayer.c:318`)
  and only its upper bound is tested (`mplayer.c:204`): with a negative one the entry
  before the table is read (`mplayer.c:211`), at any time, and before the table is
  allocated through NULL.  A player may be started with whatever is found there
  (`below_table` in `FaultCauses`).
* Choosing a station in the menu never starts it: the callback gets NULL for its cookie
  (`menu_cookie`), through which `mplayer.c:204` reads `channel_number` (`MenuHandler`;
  `null_cookie` in `FaultCauses`).
* At `g_exit` clients are not unregistered (`servicethread.c:72`): a key or a request
  that the service thread handles in its last round may be handed the stack frame of
  `mplayer_run` after it has returned (`DeadFrame`; `dead_frame` in `FaultCauses` says
  not before).
* A pause asked before a stopped player is reaped writes to a NULL stream
  (`mplayer.c:176`); if `fdopen` fails a stream is closed twice, or SIGTERM goes to the
  program's own group (`mplayer.c:192` with pid 0); `FaultCauses`, `OneChild`.
* A player that ends paused leaves `paused` set: the next one is not asked for its
  titles until it is paused and resumed, and then while it is halted (`StartsAfresh`).
* A player that ends by itself leaves its streams open for the next start to
  overwrite.
* Requests that arrive in one read are one request (`HeardInOrder` says which are
  heard).  `mplayer_remote.py:73` sends "pauseplay", `README:103` and
  `mplayer.c:323` have "pause_play".  A script that waits for the list when the
  program ends loops for ever on an empty read (`spinning`).
* `LL.h:172` says of `LL_Roll` "Make first node last", `LL.c:527` "Make last node first",
  which is what it does.  `LL_Next` beyond the tail succeeds and leaves no current node.
* If libmpd does not call back when a reconnect fails, mpd makes no further attempt
  (`Reconnects` has it as `silent`).  "each minute" in `mpd.c:536` is six seconds.
* `stringbuffer_wrap_simple` and `_wrap_spaces` keep a pointer into a string that
  `g_string_insert_c` may move (`Dangle`; `PointersSafe` says for which headlines it
  cannot).
* A key callback of mail or rss that runs during a check can use an item that has
  been freed (`Crash`), or mix two items on the display; `Safe` and
  `ShowsCurrent` say when not.  "Receiving ..." stays when no feed has an item.
* A key callback of mpd can use the object that `mpd_start_connection` or the end of
  `mpd_run` has freed: the client is unregistered after that (`KeyUsesFreed`; `Safe`
  says that there must have been a disconnect or the exit).
* An update of the menu while the MPD server cannot be reached empties it
  (`MenuFollows` says that it is filled again).

## 6. Not modelled

* What the menu callbacks do with a cookie: neither mplayer's nor mpd's ever gets one
  (see `menu_cookie`).  mplayer's is the fault `null_cookie`; mpd's, and the standby timer
  that it alone sets, are left out.  (Its labels are "90 115 130 145 160" where the code counts
  multiples of 15, and "0" sets `INT_MAX` where `mpd_run` has `UINT_MAX`.)
* The text of channels, titles, mails and of the answers of LCDd; an empty line of
  LCDd, which `check_for_input` takes for silence; a channel whose value cannot be read.
* Retrieving and parsing of mail, news and weather: libraries do it, in one call each
  (`maillib.c`, `weatherlib.c`); a call is one step that succeeds or fails.
* Option parsing, daemonising, character sets, the start script and the build.
* `report.c`: what is logged depends on the others and nothing depends on it.
* `sock_connect` has no state; `sock_printf`, `sock_recv`, `sock_send_error` and
  `fileio.c` are part of no operation of the program; of `LL.c`, which is not either,
  printing and the stub `LL_nSwapNodes` are left out.

## 7. Plan

Done: the core first (`ServiceThread`, `LcdDialogue` over `CommandPipe`), then what every
thread shares (`KeyFile`), then the clients with threads of their own and shared flags
(`Mplayer`, `RemoteControl`, `Mpd`, `Browser`, `Wrap`), the handshake and the reading of
lines, the list library, and the proofs of section 4.

All invariants, action properties and refinements that the runs check are theorems.  What
would come next, in this order:

* the liveness properties by hand: each follows from a few leads-to steps (one per place of a
  thread), which a prover with `ENABLED` could check against the invariants proved here;
* `Displayed` of `Wrap` as an invariant of its own, once facts about data can be proved by
  induction;
* the menu callbacks of mplayer and mpd, if they ever get their cookie (section 5).
