# ToteMoe LiveMaid in TLA+

ToteMoe LiveMaid is a Windows program that follows a Bilibili live chat room:
it asks the room's web service for a chat server, opens a WebSocket to it,
keeps the connection alive with heartbeats, and shows, filters and records the
messages. This directory holds TLA+ modules of its core, TLC configurations
that check them on small instances, and TLAPS proofs of the results that matter
most for every instance. `PROJECT.json` maps every definition to the lines of
C++ it stands for.

## The system

| part | sources | state | operations | talks to |
|---|---|---|---|---|
| connections | `bili-server/connection-endpoint.cpp`, `connection-metadata.cpp` | per connection: status, mailbox `m_messages`, count, mutex; the list of connections, `m_next_id` | `connect`, `disconnect`, `send`, `retrieve`, `getMetaData`, the handlers `on_open/on_close/on_fail/on_message`, `~EndPoint` | websocketpp (calls down, handlers up, on the io thread) |
| websocketpp | `websocketpp/impl/connection_impl.hpp` (vendored) | session state, pending terminate, timers | handshake, read frame, control frame, close, terminate | asio's queue, the peer |
| room | `bili-server/room.cpp` | `m_roomid`, `m_id`, one detached heartbeat thread per connection | `join`, `connect`, `disconnect`, `retrieve`, `heartBeat`, `clear` | EndPoint, GetURI |
| packets | `bili-server/room-packets.cpp` | none | `PacketHello`, `PacketHeart`, the splitter of `on_message` | the server |
| message session | `totemoe-livemaid/session.cpp` | `m_bStopThread`, fetch threads, rows `m_vDisplay`, filter, history file | `connect`, `reconnect`, `disconnect`, `parseMessage`, `setFilter`, `setFilterRegex`, `getColumn` | Room, settings, list view |
| controller, window | `controller.cpp`, `livemaid.cpp` | enabled menu items, the dialog | `initMenu`, `command`, `ConnectDlgProc`, `submit`, `notify` | session; one thread, one message at a time |
| preferences | `preferences.cpp` | the controls of three pages | initialise, change, apply | settings |
| settings | `bili-settings/*` | `inifile`, `def` (one copy per translation unit) | `Load`, `Save`, `Get`, `Set`, `GetDefault` | `config.ini` |
| https | `bili-https/*` | one static receive buffer per source file | GET and POST wrappers, the API calls | libcurl, settings |
| console | `totemoe-console.cpp` | one Room | text commands, `auto` polling | Room, https |
| database, tests, resources | `bili-database`, `totemoe-unit-test`, `i18n` | | | |

Who runs what: the io thread (started by EndPoint's constructor) executes every
websocketpp handler, one after the other. The window's thread executes the
menu commands, the dialog and painting. Each `Room::connect` starts a heartbeat
thread, each `MessageSession::connect` a fetch thread; both kinds are detached.
They share `m_id`, `m_bStopThread`, the connection list and the mailboxes; the
only lock is `m_mutex_messages`, and `on_open`, `on_close` and `on_fail` do not
take it.

What is hard, and where it is listed: `PROJECT.json` has every hazard with its
line. In short: status and mailbox change in separate steps of a handler; copy
and clear of `retrieve()` are separate steps; packets have to be found again in
the bytes of a frame, which may hold several; threads of earlier connections
follow `m_id` to the current one; one flag stops all fetch threads; the menu
acts on a status that has changed since it popped up; both sides may close at
the same time as a timer expires; the destructor walks over connections that
are still being made; every request may end in ways its caller does not look
for; settings are loaded again and again under menus and sheets that show them;
the program may end or crash between any two writes to the history file.

## Modules

* **LiveFeed** - what the connection layer promises to the rest: a connection
  goes None, Connecting, then Open and Closed, or Failed; it publishes numbered
  messages while Open; a batch hands over everything published so far.
* **Connection** - EndPoint, MetaData and as much of websocketpp's session as
  they depend on. `ws` is websocketpp's session state and `pending` a
  `terminate()` whose handler has not run yet; `io` is the place of the io
  thread inside a handler, so that a handler is as many actions as it has
  effects other threads can see between (`OnOpenStatus`, `OnOpenNotice`,
  `OnOpenHello`; `HandleTerminate`, `TerminalNotice`; `OnMessage` is one action
  because the lock makes it one). `RetrieveCopy`/`RetrieveClear` are the two
  halves of `retrieve()`, `DtorBegin/DtorVisit/DtorJoin` the destructor.
  `log` and `delivered` are history variables.
* **Packets** - packets as sequences of bytes: `PacketHello`, `PacketHeart`, the
  splitter (`Split`: the loop is at `Ends(bytes)[k]` after k packets and stops after
  `Through`) and the audience count (`Audience`, with the sign of a char). `Word` is
  what four bytes hold. `Heard` is the server's reading of a packet.
* **Frames** - extends Connection and Packets: Connection says how many live
  messages a frame brings, Frames which bytes. `ServerMessages`, `ServerNoise`
  and `ServerCounts` are what the server may send, `on_message` is the handler
  with the bytes it gets, `SayHello` the Hello packet of on_open. `payload` is
  the frame in hand; `heard`, `sent`, `read` and `said` are history variables, and
  `read` only moves on if what was found are the texts that come next.
* **Room** - adds `m_roomid`, `m_id`, the calling thread's place `ui` in
  `connect()`, the heartbeat threads (`BeatLook`, `BeatStatus`, `Beat`: the
  two reads of `m_id` in one turn of the loop are two actions), `heartBeat` and
  `clear`, which the console calls or nobody. `SendHeart` is `send` with the
  heartbeat packet of Packets. `heart` is a history variable.
* **Session** - adds MessageSession's connect, reconnect, disconnect and
  destructor, the menu and the dialog of the controller, and the fetch threads
  (`FetchCopy`, `FetchClear`, `FetchParse`, `FetchCheck`). `shown` and
  `closeSeen` are history variables.
* **Display** - parseMessage from the filter levels to the list view (`Parse`,
  `LoadID`/`StoreID` for the unlocked `+= 1`, `PushRow`, `Match`, `AddMatch`,
  `LookFiltered`, `LookSize`, then `SetCount` and `Scroll`, which wait for the
  window's thread) against setFilter and setFilterRegex on the window's thread
  (`Submit`, `Clear`, one `Scan` per row, `Show`). `list` is the list view:
  rows, top row, selection.
* **History** - the day file: `Decide` (is a file needed), `OpenFile`, `Peek`,
  `WriteBOM`, `WriteHeader`, `Recent`, `Save`, `CheckFile`, `WriteRow`, `Flush`
  on the fetch thread, each looking at `m_pFile` again, against `Disconnect`,
  `CloseFile`, `ForgetFile` on the window's. `streams` are the FILE objects with
  their buffers, `files` what is on the disk: `fwrite` fills the one, `fflush`
  the other. `Exit`, `Crash` and `OpenFails` end the program wherever its
  threads are, and the next run finds the files. `exported`, `interrupted` and
  `killed` are history variables.
* **Settings** - `inifile` is the settings object Get and Set use, `loaded` the
  one Load and Save use, `config` the file. `Defaulted` is the chain of
  SET_DEFAULTs, `EditConfig` whoever else edits the file.
* **Preferences** - extends Settings with the property sheets: `Shown...` is a
  page's WM_INITDIALOG, `Applied...` its PSN_APPLY, `Killed` its
  PSN_KILLACTIVE, `CloseSheet` the message loop's part.
* **Commands** - extends Preferences with the commands that ask the web service:
  `initMenu` and `command` (the colour menu), `ConnectDlgOk` and `Reconnect` as
  far as GetURI, `Type` and `submit` (a message from the command line), `Verify`
  (the button of the Session page). A
  request blocks the window's thread, so a command is one step with the reply as
  its parameter; `Replies` is what may come, whole or torn, `Received` what is in
  the shared buffer then, `curlHttpsGet`, `curlHttpsPost` and `GetDanmakuServer`
  what they make of it, `Ends` an exception that leaves the window procedure.
* **ConnectionProofs**, **FramesProofs**, **SessionProofs** (Room and Session),
  **DisplayProofs**, **HistoryProofs**, **PreferencesProofs**, **CommandsProofs** -
  the theorems, and **Induction** - the one fact they do induction with.
* **MCConnection, MCFrames, MCRoom, MCSession, MCDisplay, MCHistory, MCCommands** - the
  instances for TLC.

Connection is extended by Room and Room by Session: each adds a layer of the
program and takes the lower layer's actions as its own. Frames is a layer of
bytes beside Room. Settings, Preferences and
Commands are another such stack. Display and History stand beside Session: they
begin where its `FetchParse` calls parseMessage, and share with it only that
there are fetch threads and one window's thread. What Room's `ConnectBegin`
takes as a choice, whether there is a URI, is `GetURI` of Commands.

Some facts of the code the modules rest on:

* `m_id` is not initialised before the first `connect()`, but then the list of
  connections is empty and every lookup fails, as it does for -1: `NoId`.
* `GetURI` gives "error" for a reply without servers; `get_connection` refuses
  that as a URI and `EndPoint::connect` returns -1 (`ConnectFails`). After a
  failed request (null is no string) or for a reply without a port it throws,
  out of the window procedure and the message loop: the program ends (`Ends`).
  The thread is in a blocking request meanwhile (`ui = "uri"`).
* A failed request returns null, which has no "error" in it. `initMenu` takes it
  for data, `ConnectDlgProc` misses the room number, `submit` the array.
* `buffer` is cleared after every transfer, so it never holds two replies.
* Load() reads config.ini only while its object is empty, and every request
  calls it: `Reload` is part of each.
* A thread that is started is detached at once, so every later `join()` throws
  (and is swallowed) or is skipped because `joinable()` is false.
* Hello goes out as a binary frame, heartbeats as text frames, which websocketpp
  refuses unless they are UTF-8; the error is dropped. The bytes of a heartbeat
  are all below 0x80 as long as the packet is shorter than 128 bytes. A heartbeat
  may go out before Hello: the status is Open one step earlier.
* The splitter takes every frame of neither 16 nor 20 bytes for messages: one in
  which a reply stands beside messages would give an empty message, and the fetch
  thread does not catch what the parser then throws. A message of 0 or 4 bytes
  would have a frame of a reply's or a count's length (`FramesBounds` excludes it).
* A file that is not empty gets neither mark nor header. The mark is in the
  buffer until the header is flushed, so a crash leaves both or none; a regular
  exit or a disconnect between the two writes the mark alone, and a disconnect
  may forget a stream whose buffer holds the mark, to be written at the exit: the
  file then has two, or never a header (`HeaderOnTop` excludes these messages).
* A popup menu is modal: between `initMenu` and the click the window's thread
  does nothing else. The Connect To dialog is modeless.
* `EndDialog` on a dialog made by `CreateDialog` only hides it; the next
  Connect To shows it again. There is never more than one.

## Checks

| run | instance | shows |
|---|---|---|
| `connection` | Frames: 2 connections, 2 live messages each, a short one and one of 384 bytes, frames of 0..2 packets, one audience count | the types; `StatusFollowsSession`, `LogInOrder`, `LiveExactlyOnce`, `OpenSaidHello`, `PacketsRead` |
| `connection_live` | 2 connections, 1 message | Connection implements LiveFeed (`FeedSpec`), `CloseIsReported`, `DestructorReturns` |
| `room` | 2 connections, heartbeat every 2nd tick, room not destroyed, no data frames | the type; `OpenHasHeartBeat`, `ClosedStopsHeartBeats`, `OpenKeepsBeating` |
| `session` | 2 connections, 1 message, 2 fetch threads | the type; `ParsedExactlyOnce`, `ClosedComesLast`, `OneLiveConnection`, `FailedIsFinal` |
| `session_live` | 1 connection, 2 messages, 2 fetch threads | `QuitEndsPolling`, `FirstIsShown` |
| `display` | 1 fetch thread, 3 messages, 2 filters, a list of one row's height | the type; `NoMatchMissed`, `IdsIncrease`, `FollowsNewest`, `RowsAreListed`, `ParseReturns` |
| `history` | 1 fetch thread, 3 messages, 2 days, 2 zones, 2 disconnects, 2 runs of the program | the type; `FormatOfFile`, `EveryRowSaved`, `ReopensAfterDisconnect`, `HeaderOnTop` |
| `window` | 2 sheets, one of the pages or the commands worked on per run, 3 kinds of config.ini, 3 lists of colours, 2 rooms | the type; `CredentialsWhole`, `RoundTrip`, `CheckedIsSent`, `MenuInStep`, `DefaultsComplete`, `ChosenStays`, `ClearedWhenTaken` |
| `forever_fetching` | as `session` | session.cpp:74 does not hold: an open connection without a fetch thread |
| `regex_filters` | as `display` | session.hpp:84 does not hold: a new row is never held against the expression |
| `same_day_same_file` | as `history` | session.cpp:514 does not hold: rows of a new day go to the old day's file |
| `initial_settings` | 1 sheet | livemaid.cpp:28 does not hold: nothing in config.ini is ever used |

Bounds. Two connections are the least for what one does to the next (threads
that migrate, a stale menu, ~EndPoint walking a list); a third repeats what the
second shows. Two live messages show loss, duplication and order, and a frame of
two shows several packets in one frame; a packet of 400 bytes has a length of two
bytes, one of them above 0x7F, a count of 70000 has three bytes and one of 200 a
byte above 0x7F (`MaxCounts` is how many are sent); with one message per
connection the session run still has messages on both sides of a reconnect. `EveryTick = 2` has
a due and an undue tick. Two fetchers are two calls of `connect()`, so old and
new threads overlap. Three rows and two filters give a row before, during and
after a scan, with another filter pending; one row's height makes the list
scroll at once. Three messages pass through two days, every order of formats and
a disconnect before, within and after each; in two runs (`MaxRuns`) the second
finds any file the first may leave. In the room run no data frames arrive
(`Silent`): on_message changes nothing a heartbeat thread reads. Two sheets are the least of which
one is not the last; the pages share no key, so working on one page per run of
the program (`Visits`) loses no interaction; the commands meet the pages only in the
settings, so a run with a page has `Reload` and `PickColor` in their place, and
a run without one has the commands in full. Lists without a colour, without the
colour that is set, and with it; room 0, which is not connected to, and another;
no line, one that encodes and one that does not. An empty config.ini comes of
the model's own Save(). The counts are bounds of the model
only: actions stop being enabled there, which is why most configurations turn
deadlock checking off; the program, too, may rest with nothing to do.

Fairness. A thread inside a handler, in `retrieve()` or in the destructor goes
on (weak fairness). asio runs what is queued in order, so an expired timer or
the handler after a `terminate()` comes even if frames keep arriving: strong
fairness for `Due`. `on_message` gets the mutex because a fetch thread leaves it
free for 50 ms between two turns: strong fairness for `OnMessage`, and likewise
for a fetch thread that takes a batch. A fetch thread that parses one waits for the
window's thread again and again (`SendMessage`, session.cpp:89, 693, 698, 703), so
`FetchGoesOn` has it go on only if that thread is in its message loop (`Idle`)
again and again; from the beginning of quitting on, nothing is assumed of it, since
the window's thread is then in WM_DESTROY, up to ~EndPoint's join. A heartbeat thread's turns come again and again. In Display
the window's thread finishes `setFilter` and the fetch thread its own steps
(weak fairness); messages sent between threads are dispatched before the user's
input, so the window's thread, which is back in its loop again and again, serves
a waiting fetch thread: strong fairness for `SetCount` and `Scroll`. Nothing is
assumed of the user and nothing of the peer except that the 5 s timers of
websocketpp expire.

What the properties do not say, because the code does not give it:

* a notice pushed between copy and clear of `retrieve()` is lost (notices do not
  take the lock); if it is Closed or Failed, the fetch thread is not told, and
  goes on until another connection's notice stops it;
* messages still in the mailbox of the old connection at a reconnect are read by
  nobody: `FirstIsShown` therefore speaks of the connection while it is current;
* `~EndPoint` may wait for ever if a connection is still Connecting when it is
  passed over; `DestructorReturns` has the condition under which it returns;
* after Failed no connect command is enabled any more (`FailedIsFinal`) and the
  heartbeat thread never ends;
* an audience count with a byte above 0x7F is wrong: its sign hides the bytes
  before it;
* the fetch thread is detached (session.cpp:124), so the destructor joins
  nothing, whatever the comment at line 75 says: the members are destroyed while
  it may be running. `QuitEndsPolling` says no more than that it ends, or is left with
  messages for which it may wait for the window's thread, unless the room goes first;
  if `~EndPoint` waits for ever, so may the fetch thread;
* after a reconnect two heartbeat threads may beat on one connection
  (room.cpp:39 has "at a regular interval"): `OpenHasHeartBeat` asks for one;
* with a keyword that no row contains, the next message makes the list show
  every row (session.cpp:691 takes no match for no filter); a fetch thread that
  looked at the old filter when it was reset still adds its row or its count;
* two fetch threads give out one message id twice and push rows and read sizes
  in any order: Display's and History's properties are those of one;
* a disconnect that comes upon a message being saved may lose its row or the
  file's header for good, or use a closed stream (`undefined`);
* a zone of -HH:MM adds its minutes (session.cpp:508); a time zone typed and not
  picked is shown as another one at the next look;
* a new day's stream is opened without closing the old one, though it keeps
  nothing back (`EveryRowSaved`);
* a damaged config.ini (not UTF-8) leaves Get() answering null; Save() writes
  back what was read, never what was set; OK on an older sheet undoes what was
  set after it was opened, and that sheet is never destroyed;
* a failed first request leaves the colour menu empty until the program is
  restarted; text in place of the menu's data, a failed request for the chat
  server, an answer to a message that is not UTF-8, or a character beyond U+FFFF
  in the line ends the program;
* the answer to a message may be lost after the service took it: the line stays,
  and Return sends it again. `ClearedWhenTaken` speaks of answers that arrive.

## Proofs

About Connection, for every number of connections, messages and packets, from the one assumption
`ConnectionBounds` (there is at least one connection number, and frames of at
least one packet are possible):

* `TypeCorrect`: `Safety => []TypeOK`. The type is not inductive by itself:
  that `m_message_count` stays within its bound needs `FrameFits` (the frame in
  hand fits).
* `StatusCorrect`: `Safety => []StatusFollowsSession`. The status lags behind
  the session, and how far depends on the handler the io thread is in; so the
  inductive invariant `StatusInv` adds `HandlerAgrees` (place of the io thread
  against status and session) and `SessionAgrees` (session and pending handler
  against status).
* `HelloCorrect`: `Safety => []OpenSaidHello`, inductive given the type.
* `ExactlyOnce`: `Safety => []LiveExactlyOnce`, inductive given the type; it
  rests on lemmas about what appending does to the live numbers of a mailbox
  (`BacklogConcat`, `IncreasingConcat`, `FrameBacklog`).
* `LogOrdered`: `Safety => []LogInOrder`. A handler sets the status in one step
  and pushes its notice in a later one, so `LogInv` says for each status, and for
  each place in between, what the mailbox has seen so far: nothing, Connecting
  (`Begun`), Established and live messages besides (`Running`), Closed at the end
  (`Ended`), or Connecting and Failed (`Refused`).
* `ImplementsFeed`: `Safety => Feed!Safety`, step by step from the invariants
  above: Connect is Start, OnOpenStatus is Open, HandleTerminate is Fail or
  Close, OnMessage is Publish, RetrieveClear is Deliver, all else stutters.

About Frames, for all texts, audience counts and commands that satisfy
`FramesBounds` (four bytes hold the length of every packet, and no text is so
short that its packet alone looks like a reply or a count) and any number of
packets in a frame:

* First the bytes. A number is read back from its four (`WordBytes`, `NumberIs`), a
  packet says how long it is and has its body after the header (`PacketHas`).
  `Parts` says where in a frame each packet ends, and that the text is what lies
  behind its header: so it is in what the server puts together (`PackedHas`, by
  induction along the packets, `PilesUp`), the loop of `on_message` is at those
  places and stops at the last (`EndsAt`, `ThroughAll`), and `SplitPacked`: it finds
  the server's texts again. `CountFrame` does the same for a count: it is read back
  if no byte of it is above 0x7F.
* `PacketsFound` and `FramesTypes`: `FramesSafety => []PacketsRead` and
  `FramesSafety => []FramesTypeOK`, with the invariant `FramesInv`, in which `InHand`
  says that the frame in hand is one the server makes for the texts that come next.
* `ImplementsConnection`: `FramesSafety => Safety` of Connection: `on_message` finds as
  many messages as Connection says the frame has, so with its bytes it is
  `OnMessage`, and the theorems about Connection hold in the run `connection`, too.

About Room, for every number of connections, any rooms and any period, from
`RoomBounds` besides:

* `RoomImplements`: `RoomSafety => Safety` of Connection: a step of Room is one of
  Connection or leaves it alone, given that `m_id` is the number of a connection
  (`RoomInv`). So the theorems about Connection hold under a Room (`RoomStatus`).
* `RoomTypeCorrect`: `RoomSafety => []RoomTypeOK`, with `RoomInv`.
* `HeartBeatCorrect`: `RoomSafety => []OpenHasHeartBeat`. The invariant `BeatInv`
  adds that numbers not yet given have no thread, and that the thread of the
  current connection, about to look at a status, looks at that connection's: so
  only its own Closed ends it, and Closed never changes again (`FinalStays`).

About Session, for every number of fetch threads besides, with `SessionInv` as
the inductive invariant (`SessionInvHolds`):

* `SessionImplements`: `SessionSafety => Safety` of Connection, as for Room, given
  that the numbers the fetch threads carry are numbers of connections
  (`NumberInv`).
* `OneLive`: `SessionSafety => []OneLiveConnection`. The invariant `OnlyCurrent`
  says that only the current connection lives, and none while the next is being
  asked for; for that it has to say what is left of what menu and dialog saw when
  they opened (`MenuHolds`): a session that was Closed then still is, one that
  was Open is Open or Closed, and never Failed. Both rest on `SameCurrent`: no
  step of Connection but Connect brings a connection to life.
* `FailedFinal`: `SessionSafety => FailedIsFinal`, an action property: each of the
  window's actions is shown to be disabled, and Failed never changes again.
* `SessionTypeCorrect`: `SessionSafety => []SessionTypeOK`, with `ParsedInv`;
  `SessionLog`: `SessionSafety => []LogInOrder`, from `SessionImplements`.
* `ParsedOnce` and `ClosedLast`: `SessionSafety => []ParsedExactlyOnce` and
  `SessionSafety => []ClosedComesLast`, from the one invariant `ThreadInv`. What a
  thread parses in pieces is a copy of a mailbox, so the order that
  `LiveExactlyOnce` gives the mailbox has to be carried over into copy and batch
  (`CopyInv`, `HandInv`); and a Closed notice, in the mailbox, in a copy or in a
  batch, means that the status is Closed and that there is no live message left
  to be handed out (`OverInv`).

About Display, for any texts, filters and numbers of messages, from
`DisplayBounds` (texts exist, the list has a row's height) and `NotEmpty`:

* `DisplayTypes`: `Safety => []DisplayTypeOK`, on any number of fetch threads.
  `DisplayInv` adds that the scan counts from 1 and that a row held against the
  keyword is there.
* On one fetch thread (the theorems assume `Fetchers = {f}`; with two the
  properties are false, see above): `IdsOrdered`, `MatchesComplete` and
  `NewestShown` for `IdsIncrease`, `NoMatchMissed` and `FollowsNewest`. `Numbered`
  says where the thread stands with the id it took and that nobody else counts
  on; `Scanned`, that a row which matches a plain filter is among the matches,
  about to be, or still before the scan; `Untouched`, how far the list lags
  behind the rows at each step of the thread while the user leaves it alone.

About History, for any numbers of messages, disconnects and runs of the program
and any times and zones, from `HistoryBounds` (there is a time and a zone, and
the program runs at least once):

* `HistoryTypes` and `ReopensAfter`: `Safety => []HistoryTypeOK` and
  `Safety => []ReopensAfterDisconnect`, on any number of fetch threads. `Shape`
  adds to both where a thread can be with which format, that `disconnect()` holds
  an open stream until it has closed it (`Closing`), and that whoever finds no
  stream has been interrupted (`Sound`).
* On one fetch thread (`Fetchers = {f}`): `FormatKept`, `HeaderFirst` and `RowsSaved` for
  `FormatOfFile`, `HeaderOnTop` and `EveryRowSaved`. The invariants are `Named`
  (the format of the stream, of what is in every buffer and of the message on its
  way), `Topped` (which of mark and header is in the file, in the buffer or still
  to come at each step) and `Kept` (a row is in one buffer or in one place of one
  file; a message past `WriteRow` has its row in the buffer, one past `Flush` on
  the disk). A process that ends writes the buffers of all streams on one file
  one after the other, `FlattenSeq` of them: `FlattenMade` says what can come of
  that, by induction along the streams.

Induction. The library's theorems take an operator as a parameter and cannot be
used; `LeastNumber` of Induction is about a set: a set of numbers that is not
empty has a least one. Taken of the set of counterexamples, it does the same for
one formula at a time.

About the settings and the window, for any number of sheets, any table of
defaults, contents of config.ini and texts that satisfy `SettingsBounds`,
`PreferencesBounds` and `CommandsBounds`:

* `ChosenKept`: `Safety => ChosenStays`, from what `Defaulted` does to a key
  that is there.
* `CredentialsKept`: `Safety => []CredentialsWhole`. That the settings are whole
  is not inductive, as OK sets them from a page; nor that every page is whole,
  since while the user is typing it need not be. The invariant `WholeInv` is
  that the settings are whole (`SettingsWhole`) and every Session page that is
  not in front is (`PageWhole`), given the sheets' types (`SheetsType`): `Killed`
  makes the page in front whole when it is left or applied.
* `PreferencesTypes`, `DefaultsKnown` and `ShowsWhatItSets`: `Safety =>
  []PreferencesTypeOK`, `Safety => DefaultsComplete` (an action property) and
  `Safety => []RoundTrip`. A page shows what it sets only if it was made of
  settings that mean something to it: `SettingsInv` says that every value set is
  one of its key's (`Meaning`), `ControlsInv` that the controls of every page that
  was made are what their changes leave (`Coupled`: the CSV box is never checked
  below an unchecked one). `PreferencesBounds` says that the defaults are such
  values, and a time zone typed is not one of the list.
* `CommandsImplement`: `CommandsSafety => Safety` of Preferences: each command is
  a Reload, a PickColor, a Quit or a stutter to the settings and the sheets. So
  `CredentialsWithCommands` and `SettingsWithCommands` (`DefaultsComplete`,
  `RoundTrip`) follow from the theorems about Preferences.
* `MenuKept`: `CommandsSafety => []MenuInStep`, inductive because `initMenu` is
  the only action that fills the vector and is not enabled once there is a menu.
  `MenuInv` adds that the vector holds colours of the service, which
  `CommandsImplement` needs for the click that sets one.

* `ClearedOnce`: `CommandsSafety => ClearedWhenTaken`, an action property. The
  answer is read off a buffer that requests share: `NothingLeft` says that between
  requests it is empty, however the last one ended.
* `SentAsChecked`: `CommandsSafety => []CheckedIsSent`. `ColorInv` adds that there
  is a colour while there is a menu and no page is worked on: then the load before
  a request changes nothing of it (`LoadKeepsColor`).
* `CommandsTypes`: `CommandsSafety => []CommandsTypeOK`, with `CommandParts`.

Only model-checked: what `PacketHeart` puts on the wire (`OpenKeepsBeating`), and all
liveness (`FeedSpec` of Connection, `CloseIsReported`, `DestructorReturns`, `ClosedStopsHeartBeats`,
`OpenKeepsBeating`, `QuitEndsPolling`, `FirstIsShown`, `RowsAreListed`,
`ParseReturns`: liveness under fairness is beyond the prover).

## Not modelled, and abstractions

* Data races proper: torn reads of the `m_status` string, concurrent use of
  `std::map` and `std::vector` without a lock. Every read and write is one step
  here; what a corrupted container does has no outcomes to enumerate.
* Packets from the server are well formed and a frame holds messages, a reply or
  a count: what the splitter does with a length that leads past the frame is
  undefined. `m_audience`, `m_server` and `m_error_reason` are written and never
  read; the first is in Frames.
* After `~EndPoint` has joined, threads that still run would use freed memory;
  the model lets them stop there.
* Heartbeat threads change nothing that Session's other actions read, so
  `SessionNext` leaves them out; the run of Room is about them.
* The list keeps its height (`Display`): the window is not resized.
* A time zone that was typed begins some entry of the list (`Finds`); one that begins
  none would leave the box empty.
* A row is its id and a text that stands for the nine columns; what matches a
  filter is a constant relation (`find`, `search`). An invalid expression throws
  out of the window procedure and is not modelled.
* A disk loses nothing that was flushed, and one flush is written whole or not at
  all.
* One slider stands for the four of the Danmaku page, one check box for two; the
  language is never applied.
* Drawing, layout, clipboard, string resources, MySQL wrappers, vendored code.

## Plan

Done: Connection, LiveFeed, Packets, Frames, Room, Session, Display, History with
exits and crashes, Settings, Preferences, Commands, and proofs about all of them:
every safety invariant and every action property the runs check is a theorem.
Liveness stays with TLC. Next: that every heartbeat the server hears is a whole packet
(a lemma about `PacketHeart` like `HelloHeard`, as an invariant of Room).
