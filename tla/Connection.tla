----------------------------- MODULE Connection -----------------------------
(***************************************************************************)
(* bili-server/connection-endpoint.cpp and connection-metadata.cpp on top  *)
(* of the vendored websocketpp client.                                     *)
(*                                                                         *)
(* Threads: one io thread (EndPoint's constructor starts wsclient::run)    *)
(* executes every websocketpp handler, one at a time; the threads of the   *)
(* program call connect, disconnect, send and retrieve while it does.      *)
(* MetaData::m_mutex_messages is taken by on_message and retrieve but NOT  *)
(* by on_open, on_close and on_fail, which also push into m_messages.      *)
(***************************************************************************)
EXTENDS Naturals, Sequences, FiniteSets

CONSTANTS MaxConnections,  \* bound on m_next_id
          MaxMessages,     \* bound on the live messages of one connection
          MaxPackets       \* bound on the packets of one binary frame

ASSUME ConnectionBounds ==
    /\ MaxConnections \in Nat \ {0}
    /\ MaxMessages \in Nat
    /\ MaxPackets \in Nat \ {0}

Ids == 0 .. MaxConnections - 1

VARIABLES
    m_next_id,        \* EndPoint: the next connection number
    ws,               \* websocketpp: session::state of each connection
    pending,          \* websocketpp: terminate() has run, its handler has not
    io,               \* where the io thread stands inside a handler
    m_status,         \* MetaData
    m_messages,       \* MetaData: the mailbox
    m_message_count,  \* MetaData: live messages received
    locked,           \* m_mutex_messages is held by a retrieve()
    result,           \* that retrieve()'s copy of the mailbox
    hello,            \* what became of the Hello packet of on_open
    dtor,             \* progress of ~EndPoint
    log,              \* history: everything ever pushed into the mailbox
    delivered         \* history: live messages handed out by retrieve()

session == <<m_next_id, ws, pending>>
mailbox == <<m_messages, m_message_count, log>>
reading == <<locked, result, delivered>>
vars == <<session, mailbox, reading, io, m_status, hello, dtor>>

-----------------------------------------------------------------------------
(* Mailbox entries: WEBSOCKET notices and numbered live messages. *)
Notice(m) == [cmd |-> "WEBSOCKET", msg |-> m, n |-> 0]
Live(n)   == [cmd |-> "LIVE", msg |-> "", n |-> n]

Notices  == {Notice(m) : m \in {"Connecting", "Established", "Closed", "Failed"}}
Messages == Notices \cup {Live(n) : n \in 1 .. MaxMessages}

IsLive(m) == m.cmd = "LIVE"
Backlog(s) == {s[j].n : j \in {k \in DOMAIN s : IsLive(s[k])}}

WsStates == {"none", "connecting", "open", "closing", "closed"}
Statuses == {"None", "Connecting", "Open", "Closed", "Failed"}

(* The io thread waits in asio's poll, or is between two effects of the     *)
(* handler it runs for connection id; frame is the number of live messages  *)
(* in the frame that on_message was called with.                            *)
Polling == [pc |-> "poll", id |-> 0, frame |-> 0]
In(pc, i) == [pc |-> pc, id |-> i, frame |-> 0]
IoPoints == {"poll", "on_open", "on_open:notice", "on_open:hello",
             "on_message", "on_close:notice", "on_fail:notice"}

Inside(i, points) == io.pc \in points /\ io.id = i

Known(i) == i < m_next_id

-----------------------------------------------------------------------------
Init ==
    /\ m_next_id = 0
    /\ ws = [i \in Ids |-> "none"]
    /\ pending = [i \in Ids |-> "no"]
    /\ io = Polling
    /\ m_status = [i \in Ids |-> "None"]
    /\ m_messages = [i \in Ids |-> <<>>]
    /\ m_message_count = [i \in Ids |-> 0]
    /\ locked = [i \in Ids |-> FALSE]
    /\ result = [i \in Ids |-> <<>>]
    /\ hello = [i \in Ids |-> "no"]
    /\ dtor = [pc |-> "no", at |-> 0]
    /\ log = [i \in Ids |-> <<>>]
    /\ delivered = [i \in Ids |-> {}]

(* m_messages.push_back by connection i, and its trace in the history. *)
Push(i, batch) ==
    /\ m_messages' = [m_messages EXCEPT ![i] = @ \o batch]
    /\ log' = [log EXCEPT ![i] = @ \o batch]

-----------------------------------------------------------------------------
(* Calls made by the threads of the program. *)

(* EndPoint::connect with a usable URI (an unusable one returns -1 and      *)
(* changes nothing).  The handlers are bound before the session is started. *)
Connect ==
    /\ dtor.pc = "no"
    /\ m_next_id < MaxConnections
    /\ m_next_id' = m_next_id + 1
    /\ ws' = [ws EXCEPT ![m_next_id] = "connecting"]
    /\ m_status' = [m_status EXCEPT ![m_next_id] = "Connecting"]
    /\ Push(m_next_id, <<Notice("Connecting")>>)
    /\ UNCHANGED <<pending, io, m_message_count, reading, hello, dtor>>

(* websocketpp connection::close: legal on an open session only. *)
WsClose(i) == ws' = IF ws[i] = "open" THEN [ws EXCEPT ![i] = "closing"] ELSE ws

(* EndPoint::disconnect: an unknown number returns, an error is dropped. *)
Disconnect(i) ==
    /\ dtor.pc = "no"
    /\ Known(i)
    /\ WsClose(i)
    /\ UNCHANGED <<m_next_id, pending, mailbox, reading, io, m_status, hello, dtor>>

(* MetaData::retrieve, first half: take the lock and copy the mailbox. *)
RetrieveCopy(i) ==
    /\ dtor.pc # "joined"
    /\ Known(i)
    /\ ~locked[i]
    /\ locked' = [locked EXCEPT ![i] = TRUE]
    /\ result' = [result EXCEPT ![i] = m_messages[i]]
    /\ UNCHANGED <<session, mailbox, delivered, io, m_status, hello, dtor>>

(* Mutant: the mailbox is not cleared. *)
RetrieveKeeps(i) ==
    /\ locked[i]
    /\ locked' = [locked EXCEPT ![i] = FALSE]
    /\ result' = [result EXCEPT ![i] = <<>>]
    /\ delivered' = [delivered EXCEPT ![i] = @ \cup Backlog(result[i])]
    /\ UNCHANGED <<session, mailbox, io, m_status, hello, dtor>>

(* Second half: clear the mailbox, release the lock, return the copy. *)
RetrieveClear(i) ==
    /\ locked[i]
    /\ locked' = [locked EXCEPT ![i] = FALSE]
    /\ m_messages' = [m_messages EXCEPT ![i] = <<>>]
    /\ result' = [result EXCEPT ![i] = <<>>]
    /\ delivered' = [delivered EXCEPT ![i] = @ \cup Backlog(result[i])]
    /\ UNCHANGED <<session, m_message_count, log, io, m_status, hello, dtor>>

-----------------------------------------------------------------------------
(* Events and handlers of the io thread. *)

(* handle_read_http_response: a good answer opens the session, and the open *)
(* handler is entered.                                                      *)
HandshakeDone(i) ==
    /\ io = Polling
    /\ ws[i] = "connecting"
    /\ ws' = [ws EXCEPT ![i] = "open"]
    /\ io' = In("on_open", i)
    /\ UNCHANGED <<m_next_id, pending, mailbox, reading, m_status, hello, dtor>>

(* MetaData::on_open in the order of its effects: the status, the notice    *)
(* (without the lock), the Hello packet (its error is not looked at).       *)
OnOpenStatus ==
    /\ io.pc = "on_open"
    /\ m_status' = [m_status EXCEPT ![io.id] = "Open"]
    /\ io' = In("on_open:notice", io.id)
    /\ UNCHANGED <<session, mailbox, reading, hello, dtor>>

(* Mutant: the Hello packet is forgotten. *)
OnOpenNoHello ==
    /\ io.pc = "on_open:notice"
    /\ Push(io.id, <<Notice("Established")>>)
    /\ io' = Polling
    /\ UNCHANGED <<session, m_message_count, reading, m_status, hello, dtor>>

OnOpenNotice ==
    /\ io.pc = "on_open:notice"
    /\ Push(io.id, <<Notice("Established")>>)
    /\ io' = In("on_open:hello", io.id)
    /\ UNCHANGED <<session, m_message_count, reading, m_status, hello, dtor>>

OnOpenHello ==
    /\ io.pc = "on_open:hello"
    /\ hello' = [hello EXCEPT ![io.id] = IF ws[io.id] = "open" THEN "sent" ELSE "refused"]
    /\ io' = Polling
    /\ UNCHANGED <<session, mailbox, reading, m_status, dtor>>

(* Mutant: frames are dispatched in every state of the session. *)
FrameAlways(i) ==
    /\ io = Polling
    /\ ws[i] \in {"open", "closing", "closed"}
    /\ \E k \in 0 .. MaxPackets :
          /\ m_message_count[i] + k <= MaxMessages
          /\ io' = [pc |-> "on_message", id |-> i, frame |-> k]
    /\ UNCHANGED <<session, mailbox, reading, m_status, hello, dtor>>

(* handle_read_frame: a data frame is dispatched while the session is open. *)
(* A text frame, a 16-byte reply and a 20-byte audience count carry 0 live  *)
(* messages.                                                                *)
FrameArrives(i) ==
    /\ io = Polling
    /\ ws[i] = "open"
    /\ \E k \in 0 .. MaxPackets :
          /\ m_message_count[i] + k <= MaxMessages
          /\ io' = [pc |-> "on_message", id |-> i, frame |-> k]
    /\ UNCHANGED <<session, mailbox, reading, m_status, hello, dtor>>

(* MetaData::on_message runs under the lock. *)
OnMessage ==
    /\ io.pc = "on_message"
    /\ ~locked[io.id]
    /\ Push(io.id, [p \in 1 .. io.frame |-> Live(m_message_count[io.id] + p)])
    /\ m_message_count' = [m_message_count EXCEPT ![io.id] = @ + io.frame]
    /\ io' = Polling
    /\ UNCHANGED <<session, reading, m_status, hello, dtor>>

(* process_control_frame: the server's close frame is acknowledged. *)
PeerCloses(i) ==
    /\ io = Polling
    /\ ws[i] = "open"
    /\ WsClose(i)
    /\ UNCHANGED <<m_next_id, pending, mailbox, reading, io, m_status, hello, dtor>>

(* Mutant: a connection that never opened is said to be closed. *)
TerminateClosed(i) ==
    /\ io = Polling
    /\ ws[i] \in {"connecting", "open", "closing"}
    /\ ws' = [ws EXCEPT ![i] = "closed"]
    /\ pending' = [pending EXCEPT ![i] = "close"]
    /\ UNCHANGED <<m_next_id, mailbox, reading, io, m_status, hello, dtor>>

(* terminate(): end of file, a transport error, or an expired handshake     *)
(* timer.  Its handler runs later, from handle_terminate.                   *)
Terminate(i) ==
    /\ io = Polling
    /\ ws[i] \in {"connecting", "open", "closing"}
    /\ ws' = [ws EXCEPT ![i] = "closed"]
    /\ pending' = [pending EXCEPT ![i] = IF ws[i] = "connecting" THEN "fail" ELSE "close"]
    /\ UNCHANGED <<m_next_id, mailbox, reading, io, m_status, hello, dtor>>

(* Mutants: set_fail_handler is forgotten; on_close pushes no notice. *)
HandleTerminateNoFail(i) ==
    /\ io = Polling
    /\ pending[i] # "no"
    /\ pending' = [pending EXCEPT ![i] = "no"]
    /\ \/ pending[i] = "fail" /\ UNCHANGED <<m_status, io>>
       \/ /\ pending[i] = "close"
          /\ m_status' = [m_status EXCEPT ![i] = "Closed"]
          /\ io' = In("on_close:notice", i)
    /\ UNCHANGED <<m_next_id, ws, mailbox, reading, hello, dtor>>

HandleTerminateSilent(i) ==
    /\ io = Polling
    /\ pending[i] # "no"
    /\ pending' = [pending EXCEPT ![i] = "no"]
    /\ m_status' = [m_status EXCEPT ![i] = IF pending[i] = "fail" THEN "Failed" ELSE "Closed"]
    /\ UNCHANGED <<m_next_id, ws, mailbox, reading, io, hello, dtor>>

(* handle_terminate enters on_fail or on_close; both set the status first.  *)
HandleTerminate(i) ==
    /\ io = Polling
    /\ pending[i] # "no"
    /\ pending' = [pending EXCEPT ![i] = "no"]
    /\ \/ /\ pending[i] = "fail"
          /\ m_status' = [m_status EXCEPT ![i] = "Failed"]
          /\ io' = In("on_fail:notice", i)
       \/ /\ pending[i] = "close"
          /\ m_status' = [m_status EXCEPT ![i] = "Closed"]
          /\ io' = In("on_close:notice", i)
    /\ UNCHANGED <<m_next_id, ws, mailbox, reading, hello, dtor>>

(* The notice of on_close or on_fail, pushed without the lock. *)
TerminalNotice ==
    /\ \/ /\ io.pc = "on_close:notice"
          /\ Push(io.id, <<Notice("Closed")>>)
       \/ /\ io.pc = "on_fail:notice"
          /\ Push(io.id, <<Notice("Failed")>>)
    /\ io' = Polling
    /\ UNCHANGED <<session, m_message_count, reading, m_status, hello, dtor>>

-----------------------------------------------------------------------------
(* ~EndPoint: stop_perpetual, close what says it is Open, join io thread.   *)

DtorBegin ==
    /\ dtor.pc = "no"
    /\ dtor' = [pc |-> "close", at |-> 0]
    /\ UNCHANGED <<session, mailbox, reading, io, m_status, hello>>

(* Mutant: the loop runs but closes nothing. *)
DtorSkips ==
    /\ dtor.pc = "close"
    /\ Known(dtor.at)
    /\ dtor' = [dtor EXCEPT !.at = @ + 1]
    /\ UNCHANGED <<session, mailbox, reading, io, m_status, hello>>

DtorVisit ==
    /\ dtor.pc = "close"
    /\ Known(dtor.at)
    /\ IF m_status[dtor.at] = "Open" THEN WsClose(dtor.at) ELSE UNCHANGED ws
    /\ dtor' = [dtor EXCEPT !.at = @ + 1]
    /\ UNCHANGED <<m_next_id, pending, mailbox, reading, io, m_status, hello>>

(* The io thread's run() returns when it is out of connections. *)
OutOfConnections ==
    /\ io = Polling
    /\ \A i \in Ids : ws[i] \in {"none", "closed"} /\ pending[i] = "no"

DtorJoin ==
    /\ dtor.pc = "close"
    /\ ~Known(dtor.at)
    /\ OutOfConnections
    /\ dtor' = [dtor EXCEPT !.pc = "joined"]
    /\ UNCHANGED <<session, mailbox, reading, io, m_status, hello>>

-----------------------------------------------------------------------------
(* What asio owes connection i: an answer to the handshake or its timer,    *)
(* the closing timer, the handler after a terminate().                      *)
Due(i) ==
    \/ HandshakeDone(i)
    \/ ws[i] \in {"connecting", "closing"} /\ Terminate(i)
    \/ HandleTerminate(i)

Handler == OnOpenStatus \/ OnOpenNotice \/ OnOpenHello \/ TerminalNotice

IoThread ==
    \/ Handler \/ OnMessage
    \/ \E i \in Ids :
          \/ HandshakeDone(i) \/ FrameArrives(i) \/ PeerCloses(i)
          \/ Terminate(i) \/ HandleTerminate(i)

Program ==
    \/ Connect
    \/ \E i \in Ids : Disconnect(i) \/ RetrieveCopy(i) \/ RetrieveClear(i)

Destructor == DtorBegin \/ DtorVisit \/ DtorJoin

Next == IoThread \/ Program \/ Destructor

(* The io thread and a thread inside retrieve() or ~EndPoint keep running.  *)
(* Strong fairness where the step competes for something: asio runs in      *)
(* order what is queued (an expired 5 s timer, a finished shutdown), even   *)
(* if frames keep coming; on_message gets the lock, which the fetch threads *)
(* leave free for 50 ms at a time.  Peers owe nothing, nor does the user.   *)
Fairness ==
    /\ WF_vars(Handler)
    /\ SF_vars(OnMessage)
    /\ WF_vars(DtorVisit)
    /\ WF_vars(DtorJoin)
    /\ \A i \in Ids : WF_vars(RetrieveClear(i)) /\ SF_vars(Due(i))

Safety == Init /\ [][Next]_vars
Spec == Safety /\ Fairness

-----------------------------------------------------------------------------
(* The type of the state. *)
TypeOK ==
    /\ m_next_id \in 0 .. MaxConnections
    /\ ws \in [Ids -> WsStates]
    /\ pending \in [Ids -> {"no", "fail", "close"}]
    /\ io \in [pc : IoPoints, id : Ids, frame : 0 .. MaxPackets]
    /\ m_status \in [Ids -> Statuses]
    /\ m_messages \in [Ids -> Seq(Messages)]
    /\ m_message_count \in [Ids -> 0 .. MaxMessages]
    /\ locked \in [Ids -> BOOLEAN]
    /\ result \in [Ids -> Seq(Messages)]
    /\ hello \in [Ids -> {"no", "sent", "refused"}]
    /\ dtor \in [pc : {"no", "close", "joined"}, at : 0 .. MaxConnections]
    /\ log \in [Ids -> Seq(Messages)]
    /\ delivered \in [Ids -> SUBSET (1 .. MaxMessages)]

(* The status a thread reads with getStatus() is written by handlers that   *)
(* run after the session has moved on, so it lags behind.  It never lies    *)
(* in the direction the program relies on: Open means the handshake was     *)
(* done, Closed and Failed mean that the session is over and its handler    *)
(* has been called; and a session whose handlers are all done is reported.  *)
StatusFollowsSession ==
    \A i \in Ids :
        /\ m_status[i] = "None" <=> ~Known(i)
        /\ m_status[i] = "None" => ws[i] = "none"
        /\ m_status[i] = "Connecting" =>
              \/ ws[i] = "connecting"
              \/ ws[i] \in {"open", "closing"} /\ Inside(i, {"on_open"})
              \/ ws[i] = "closed" /\ pending[i] = "fail"
        /\ m_status[i] = "Open" =>
              \/ ws[i] \in {"open", "closing"}
              \/ ws[i] = "closed" /\ pending[i] = "close"
        /\ m_status[i] \in {"Closed", "Failed"} =>
              ws[i] = "closed" /\ pending[i] = "no"

(* The history of a mailbox reads Connecting, then Established, then live   *)
(* messages, then Closed; or Connecting, then Failed.  The fetch thread     *)
(* stops on Closed or Failed, so nothing may follow them; live messages     *)
(* before Established would be parsed for a connection not yet announced.   *)
LogInOrder ==
    \A i \in Ids : \A j \in DOMAIN log[i] :
        /\ log[i][j] = Notice("Connecting") <=> j = 1
        /\ log[i][j] \in {Notice("Established"), Notice("Failed")} <=> j = 2
        /\ log[i][j] \in {Notice("Failed"), Notice("Closed")} => j = Len(log[i])

(* The live messages of s are in the order of their numbers. *)
Increasing(s) ==
    \A j, k \in DOMAIN s :
        j < k /\ IsLive(s[j]) /\ IsLive(s[k]) => s[j].n < s[k].n

(* Live messages are neither lost, duplicated nor reordered on their way to *)
(* retrieve()'s callers, although copy and clear are two steps and handlers *)
(* push between them: every number up to m_message_count is either already  *)
(* handed out or in the mailbox, in increasing order, the older ones first. *)
LiveExactlyOnce ==
    \A i \in Ids :
        /\ delivered[i] \cup Backlog(m_messages[i]) = 1 .. m_message_count[i]
        /\ \A d \in delivered[i], b \in Backlog(m_messages[i]) : d < b
        /\ Increasing(m_messages[i])
        /\ locked[i] => Backlog(result[i]) = Backlog(m_messages[i])

(* on_open asks the server for the room with its Hello packet.  A session   *)
(* that stays open after on_open has sent it; it is refused only when a     *)
(* close has overtaken the handler.                                         *)
OpenSaidHello ==
    \A i \in Ids :
        ws[i] = "open" /\ ~Inside(i, {"on_open", "on_open:notice", "on_open:hello"})
            => hello[i] = "sent"

(* A close by either side, with or without an answer from the peer, is      *)
(* reported in the end, and its notice reaches the mailbox.                 *)
CloseIsReported ==
    \A i \in Ids :
        ws[i] = "closing" ~> m_status[i] = "Closed" /\ Notice("Closed") \in
                                 {log[i][j] : j \in DOMAIN log[i]}

(* ~EndPoint returns if it starts when no connection is being established.  *)
(* (Started earlier it may wait for good: a connection it has passed over   *)
(* as Connecting opens afterwards and nobody is left to close it.)          *)
DestructorReturns ==
    dtor = [pc |-> "close", at |-> 0] /\ (\A i \in Ids : m_status[i] # "Connecting")
        ~> dtor.pc = "joined"

(* The promise made to the other modules. *)
Feed == INSTANCE LiveFeed WITH
            status <- m_status,
            published <- m_message_count
FeedSpec == Feed!Spec
=============================================================================
