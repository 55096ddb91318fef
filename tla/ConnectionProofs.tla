-------------------------- MODULE ConnectionProofs --------------------------
(***************************************************************************)
(* Proofs about Connection for every number of connections, messages and   *)
(* packets: the type of the state, what the status of a connection says of *)
(* its session, that an open session has said Hello, that a mailbox's      *)
(* history is in order, that no live message is lost, handed out twice or  *)
(* out of order, and that every step of the connection layer is a step of  *)
(* LiveFeed or leaves it alone.  Liveness is left to TLC.                  *)
(***************************************************************************)
EXTENDS Connection, TLAPS, SequenceTheorems

-----------------------------------------------------------------------------
(* What the type invariant and the status invariant need to be inductive.   *)

(* The frame in hand fits the bound on messages. *)
FrameFits ==
    io.pc = "on_message" => m_message_count[io.id] + io.frame <= MaxMessages

(* The handler the io thread is in, against the session and the status. *)
HandlerAgrees ==
    /\ io.pc = "on_open" =>
          m_status[io.id] = "Connecting" /\ ws[io.id] \in {"open", "closing"}
    /\ io.pc \in {"on_open:notice", "on_open:hello", "on_message"} =>
          m_status[io.id] = "Open" /\ ws[io.id] \in {"open", "closing"}
    /\ io.pc = "on_close:notice" => m_status[io.id] = "Closed"
    /\ io.pc = "on_fail:notice" => m_status[io.id] = "Failed"

(* The session against the status, also while a handler is still due. *)
SessionAgrees ==
    \A i \in Ids :
        /\ ws[i] = "none" => m_status[i] = "None"
        /\ ws[i] = "connecting" => m_status[i] = "Connecting"
        /\ pending[i] = "fail" => ws[i] = "closed" /\ m_status[i] = "Connecting"
        /\ pending[i] = "close" => ws[i] = "closed" /\ m_status[i] = "Open"
        /\ ws[i] = "closed" /\ pending[i] = "no" => m_status[i] \in {"Closed", "Failed"}

TypeInv == TypeOK /\ FrameFits

StatusInv == HandlerAgrees /\ SessionAgrees /\ StatusFollowsSession

-----------------------------------------------------------------------------
(* The mailbox entries have their type. *)
LEMMA NoticesAreMessages ==
    \A m \in {"Connecting", "Established", "Closed", "Failed"} :
        <<Notice(m)>> \in Seq(Messages)
BY DEF Messages, Notices

LEMMA FrameIsMessages ==
    ASSUME ConnectionBounds, NEW c \in Nat, NEW k \in Nat, c + k <= MaxMessages
    PROVE  [p \in 1 .. k |-> Live(c + p)] \in Seq(Messages)
<1>1. ASSUME NEW p \in 1 .. k PROVE Live(c + p) \in Messages
    <2>1. c + p \in 1 .. MaxMessages
        BY DEF ConnectionBounds
    <2> QED
        BY <2>1 DEF Messages
<1>2. [p \in 1 .. k |-> Live(c + p)] \in [1 .. k -> Messages]
    BY <1>1
<1> QED
    BY <1>2, SeqDef

(* The live numbers in a mailbox are within the bound. *)
LEMMA BacklogRange ==
    ASSUME NEW s \in Seq(Messages)
    PROVE  Backlog(s) \subseteq 1 .. MaxMessages
<1>1. ASSUME NEW m \in Messages, IsLive(m) PROVE m.n \in 1 .. MaxMessages
    <2>1. m \notin Notices
        BY <1>1 DEF Notices, Notice, IsLive
    <2>2. PICK n \in 1 .. MaxMessages : m = Live(n)
        BY <2>1 DEF Messages
    <2> QED
        BY <2>2 DEF Live
<1>2. \A j \in DOMAIN s : s[j] \in Messages
    BY LenProperties
<1> QED
    BY <1>1, <1>2 DEF Backlog

(* Pushing a batch of entries keeps the type of mailbox and history. *)
LEMMA PushKeepsType ==
    ASSUME TypeOK, NEW i \in Ids, NEW batch \in Seq(Messages), Push(i, batch)
    PROVE  m_messages' \in [Ids -> Seq(Messages)] /\ log' \in [Ids -> Seq(Messages)]
<1>1. m_messages[i] \o batch \in Seq(Messages) /\ log[i] \o batch \in Seq(Messages)
    BY ConcatProperties DEF TypeOK
<1> QED
    BY <1>1 DEF TypeOK, Push

-----------------------------------------------------------------------------
LEMMA TypeInit == ASSUME ConnectionBounds, Init PROVE TypeInv
<1>1. 0 \in Ids /\ <<>> \in Seq(Messages)
    BY EmptySeq DEF ConnectionBounds, Ids
<1> QED
    BY <1>1 DEF Init, TypeInv, TypeOK, FrameFits, Polling, IoPoints, WsStates, Statuses,
                ConnectionBounds

LEMMA TypeStep == ASSUME ConnectionBounds, TypeInv, [Next]_vars PROVE TypeInv'
<1> USE DEF TypeInv
<1>a. 0 \in Ids /\ Polling \in [pc : IoPoints, id : Ids, frame : 0 .. MaxPackets]
    BY DEF ConnectionBounds, Ids, Polling, IoPoints
<1>c. \A pc \in IoPoints, i \in Ids : In(pc, i) \in [pc : IoPoints, id : Ids, frame : 0 .. MaxPackets]
    BY DEF ConnectionBounds, In
<1>d. io.id \in Ids
    BY DEF TypeOK
<1>b. ASSUME NEW i \in Ids, WsClose(i) PROVE ws' \in [Ids -> WsStates]
    BY <1>b DEF WsClose, TypeOK, WsStates
<1>1. CASE Connect
    <2>1. m_next_id \in Ids /\ m_next_id' \in 0 .. MaxConnections
        BY <1>1 DEF Connect, TypeOK, Ids, ConnectionBounds
    <2>2. m_messages' \in [Ids -> Seq(Messages)] /\ log' \in [Ids -> Seq(Messages)]
        BY <1>1, <2>1, NoticesAreMessages, PushKeepsType DEF Connect
    <2> QED
        BY <1>1, <2>1, <2>2 DEF Connect, TypeOK, FrameFits, WsStates, Statuses, reading
<1>2. ASSUME NEW i \in Ids, Disconnect(i) PROVE TypeInv'
    BY <1>2, <1>b DEF Disconnect, TypeOK, FrameFits, mailbox, reading
<1>3. ASSUME NEW i \in Ids, RetrieveCopy(i) PROVE TypeInv'
    BY <1>3 DEF RetrieveCopy, TypeOK, FrameFits, session, mailbox
<1>4. ASSUME NEW i \in Ids, RetrieveClear(i) PROVE TypeInv'
    <2>1. <<>> \in Seq(Messages)
        BY EmptySeq
    <2>2. Backlog(result[i]) \subseteq 1 .. MaxMessages
        BY BacklogRange DEF TypeOK
    <2> QED
        BY <1>4, <2>1, <2>2 DEF RetrieveClear, TypeOK, FrameFits, session
<1>5. ASSUME NEW i \in Ids, HandshakeDone(i) PROVE TypeInv'
    <2>1. io' \in [pc : IoPoints, id : Ids, frame : 0 .. MaxPackets] /\ io'.pc = "on_open"
        BY <1>5, <1>c DEF HandshakeDone, IoPoints, In
    <2> QED
        BY <1>5, <2>1 DEF HandshakeDone, TypeOK, FrameFits, WsStates, mailbox, reading
<1>6. CASE OnOpenStatus
    <2>1. io' \in [pc : IoPoints, id : Ids, frame : 0 .. MaxPackets] /\ io'.pc = "on_open:notice"
        BY <1>6, <1>c, <1>d DEF OnOpenStatus, IoPoints, In
    <2> QED
        BY <1>6, <2>1 DEF OnOpenStatus, TypeOK, FrameFits, Statuses, session, mailbox, reading
<1>7. CASE OnOpenNotice
    <2>1. m_messages' \in [Ids -> Seq(Messages)] /\ log' \in [Ids -> Seq(Messages)]
        <3>1. <<Notice("Established")>> \in Seq(Messages) /\ Push(io.id, <<Notice("Established")>>)
            BY <1>7, NoticesAreMessages DEF OnOpenNotice
        <3> QED
            BY <1>d, <3>1, PushKeepsType
    <2>2. io' \in [pc : IoPoints, id : Ids, frame : 0 .. MaxPackets] /\ io'.pc = "on_open:hello"
        BY <1>7, <1>c, <1>d DEF OnOpenNotice, IoPoints, In
    <2> QED
        BY <1>7, <2>1, <2>2 DEF OnOpenNotice, TypeOK, FrameFits, session, reading
<1>8. CASE OnOpenHello
    BY <1>8, <1>a DEF OnOpenHello, TypeOK, FrameFits, Polling, session, mailbox, reading
<1>9. ASSUME NEW i \in Ids, FrameArrives(i) PROVE TypeInv'
    BY <1>9 DEF FrameArrives, TypeOK, FrameFits, IoPoints, session, mailbox, reading
<1>10. CASE OnMessage
    <2>1. io.id \in Ids /\ io.frame \in Nat /\ m_message_count[io.id] \in Nat
        BY DEF TypeOK, ConnectionBounds
    <2>2. /\ m_message_count[io.id] + io.frame <= MaxMessages
          /\ m_message_count[io.id] + io.frame \in 0 .. MaxMessages
        BY <1>10, <2>1 DEF OnMessage, FrameFits, ConnectionBounds
    <2>3. [p \in 1 .. io.frame |-> Live(m_message_count[io.id] + p)] \in Seq(Messages)
        BY <2>1, <2>2, FrameIsMessages
    <2>4. m_messages' \in [Ids -> Seq(Messages)] /\ log' \in [Ids -> Seq(Messages)]
        BY <1>10, <2>1, <2>3, PushKeepsType DEF OnMessage
    <2> QED
        BY <1>10, <1>a, <2>1, <2>2, <2>4 DEF OnMessage, TypeOK, FrameFits, Polling, session, reading
<1>11. ASSUME NEW i \in Ids, PeerCloses(i) PROVE TypeInv'
    BY <1>11, <1>b DEF PeerCloses, TypeOK, FrameFits, mailbox, reading
<1>12. ASSUME NEW i \in Ids, Terminate(i) PROVE TypeInv'
    BY <1>12 DEF Terminate, TypeOK, FrameFits, WsStates, mailbox, reading
<1>13. ASSUME NEW i \in Ids, HandleTerminate(i) PROVE TypeInv'
    <2>1. io' \in [pc : IoPoints, id : Ids, frame : 0 .. MaxPackets] /\ io'.pc # "on_message"
        BY <1>13, <1>c DEF HandleTerminate, IoPoints, In
    <2> QED
        BY <1>13, <2>1 DEF HandleTerminate, TypeOK, FrameFits, Statuses, mailbox, reading
<1>14. CASE TerminalNotice
    <2>1. m_messages' \in [Ids -> Seq(Messages)] /\ log' \in [Ids -> Seq(Messages)]
        <3>1. PICK m \in {"Closed", "Failed"} : Push(io.id, <<Notice(m)>>)
            BY <1>14 DEF TerminalNotice
        <3>2. <<Notice(m)>> \in Seq(Messages)
            BY NoticesAreMessages
        <3> QED
            BY <1>d, <3>1, <3>2, PushKeepsType
    <2> QED
        BY <1>14, <1>a, <2>1 DEF TerminalNotice, TypeOK, FrameFits, Polling, session, reading
<1>15. CASE Destructor
    <2>1. CASE DtorBegin
        BY <2>1 DEF DtorBegin, TypeOK, FrameFits, ConnectionBounds, session, mailbox, reading
    <2>2. CASE DtorVisit
        <3>1. dtor.at \in Ids /\ dtor.at + 1 \in 0 .. MaxConnections
            <4>1. dtor.at \in Nat /\ m_next_id \in Nat /\ m_next_id <= MaxConnections
                BY DEF TypeOK, ConnectionBounds
            <4>2. dtor.at < m_next_id
                BY <2>2 DEF DtorVisit, Known
            <4> QED
                BY <4>1, <4>2 DEF Ids, ConnectionBounds
        <3>2. ws' \in [Ids -> WsStates]
            BY <2>2, <1>b, <3>1 DEF DtorVisit, TypeOK
        <3> QED
            BY <2>2, <3>1, <3>2 DEF DtorVisit, TypeOK, FrameFits, mailbox, reading
    <2>3. CASE DtorJoin
        BY <2>3 DEF DtorJoin, TypeOK, FrameFits, session, mailbox, reading
    <2> QED
        BY <1>15, <2>1, <2>2, <2>3 DEF Destructor
<1>16. CASE UNCHANGED vars
    BY <1>16 DEF vars, session, mailbox, reading, TypeOK, FrameFits
<1> QED
    BY <1>1, <1>2, <1>3, <1>4, <1>5, <1>6, <1>7, <1>8, <1>9, <1>10, <1>11, <1>12, <1>13,
       <1>14, <1>15, <1>16 DEF Next, IoThread, Handler, Program

(* The state always has its type, for every bound on connections, messages  *)
(* and packets.                                                             *)
THEOREM TypeCorrect == Safety => []TypeOK
<1>1. Safety => []TypeInv
    BY ConnectionBounds, TypeInit, TypeStep, PTL DEF Safety
<1>2. TypeInv => TypeOK
    BY DEF TypeInv
<1> QED
    BY <1>1, <1>2, PTL

-----------------------------------------------------------------------------
(* Whoever calls close: an open session is closing afterwards, nothing else *)
(* has changed.                                                             *)
LEMMA CloseKeepsStatus ==
    ASSUME TypeInv, StatusInv, NEW i \in Ids, WsClose(i),
           UNCHANGED <<m_next_id, pending, io, m_status>>
    PROVE  StatusInv'
<1>1. \A j \in Ids : ws'[j] = ws[j] \/ (ws[j] = "open" /\ ws'[j] = "closing")
    BY DEF WsClose, TypeInv, TypeOK
<1>2. io.id \in Ids
    BY DEF TypeInv, TypeOK
<1>3. HandlerAgrees'
    BY <1>1, <1>2 DEF StatusInv, HandlerAgrees
<1>4. SessionAgrees'
    BY <1>1 DEF StatusInv, SessionAgrees
<1>5. StatusFollowsSession'
    BY <1>1 DEF StatusInv, StatusFollowsSession, Inside, Known
<1> QED
    BY <1>3, <1>4, <1>5 DEF StatusInv

LEMMA UnchangedStatus ==
    ASSUME StatusInv, UNCHANGED <<m_next_id, ws, pending, io, m_status>>
    PROVE  StatusInv'
BY DEF StatusInv, HandlerAgrees, SessionAgrees, StatusFollowsSession, Inside, Known

LEMMA StatusInit == ASSUME ConnectionBounds, Init PROVE StatusInv
BY DEF Init, StatusInv, HandlerAgrees, SessionAgrees, StatusFollowsSession, Polling, Known,
       Ids, ConnectionBounds, Inside

LEMMA StatusStep ==
    ASSUME ConnectionBounds, TypeInv, StatusInv, [Next]_vars
    PROVE  StatusInv'
<1> USE DEF StatusInv
<1>b. Polling.pc = "poll"
    BY DEF Polling
<1>a. io.id \in Ids
    BY DEF TypeInv, TypeOK
<1>1. CASE Connect
    <2>1. m_next_id \in Ids /\ m_next_id' = m_next_id + 1
        BY <1>1 DEF Connect, TypeInv, TypeOK, Ids, ConnectionBounds
    <2>2. ~Known(m_next_id) /\ m_next_id \in Nat
        BY <2>1 DEF Known, Ids
    <2>3. ws[m_next_id] = "none" /\ m_status[m_next_id] = "None"
        BY <2>1, <2>2 DEF StatusFollowsSession
    <2>4. pending[m_next_id] = "no"
        BY <2>1, <2>3 DEF SessionAgrees, TypeInv, TypeOK
    <2>5. \A j \in Ids : Known(j)' <=> Known(j) \/ j = m_next_id
        BY <2>1, <2>2 DEF Known, Ids
    <2>6. \A j \in Ids : j # m_next_id => ws'[j] = ws[j] /\ m_status'[j] = m_status[j]
        BY <1>1 DEF Connect, TypeInv, TypeOK
    <2>7. ws'[m_next_id] = "connecting" /\ m_status'[m_next_id] = "Connecting"
        BY <1>1, <2>1 DEF Connect, TypeInv, TypeOK
    <2>8. pending' = pending /\ io' = io
        BY <1>1 DEF Connect
    <2>9. io.pc \in {"on_open", "on_open:notice", "on_open:hello", "on_message",
                     "on_close:notice", "on_fail:notice"} => io.id # m_next_id
        BY <1>a, <2>3 DEF HandlerAgrees
    <2>10. HandlerAgrees'
        BY <1>a, <2>6, <2>8, <2>9 DEF HandlerAgrees
    <2>11. SessionAgrees'
        BY <2>1, <2>4, <2>6, <2>7, <2>8 DEF SessionAgrees
    <2>12. StatusFollowsSession'
        <3>1. ASSUME NEW j \in Ids, j # m_next_id
              PROVE  (Known(j)' <=> Known(j)) /\ ws'[j] = ws[j] /\ m_status'[j] = m_status[j]
            BY <2>5, <2>6, <3>1
        <3> QED
            BY <2>1, <2>5, <2>7, <2>8, <3>1 DEF StatusFollowsSession, Inside
    <2> QED
        BY <2>10, <2>11, <2>12
<1>2. ASSUME NEW i \in Ids, Disconnect(i) PROVE StatusInv'
    BY <1>2, CloseKeepsStatus DEF Disconnect
<1>3. ASSUME NEW i \in Ids, RetrieveCopy(i) \/ RetrieveClear(i) PROVE StatusInv'
    BY <1>3, UnchangedStatus DEF RetrieveCopy, RetrieveClear, session
<1>4. ASSUME NEW i \in Ids, HandshakeDone(i) PROVE StatusInv'
    <2>1. /\ io.pc = "poll" /\ io'.pc = "on_open" /\ io'.id = i
          /\ ws[i] = "connecting" /\ ws'[i] = "open"
          /\ \A j \in Ids : j # i => ws'[j] = ws[j]
          /\ UNCHANGED <<m_next_id, pending, m_status>>
        BY <1>4, <1>b DEF HandshakeDone, In, TypeInv, TypeOK
    <2>2. m_status[i] = "Connecting"
        BY <2>1 DEF SessionAgrees
    <2>3. HandlerAgrees'
        BY <2>1, <2>2 DEF HandlerAgrees
    <2>4. SessionAgrees'
        BY <2>1 DEF SessionAgrees
    <2>5. StatusFollowsSession'
        BY <2>1 DEF StatusFollowsSession, Inside, Known
    <2> QED
        BY <2>3, <2>4, <2>5
<1>5. CASE OnOpenStatus
    <2>1. /\ io.pc = "on_open" /\ io'.pc = "on_open:notice" /\ io'.id = io.id
          /\ m_status'[io.id] = "Open"
          /\ \A j \in Ids : j # io.id => m_status'[j] = m_status[j]
          /\ UNCHANGED <<m_next_id, ws, pending>>
        BY <1>5, <1>a DEF OnOpenStatus, In, session, TypeInv, TypeOK
    <2>2. m_status[io.id] = "Connecting" /\ ws[io.id] \in {"open", "closing"}
        BY <2>1 DEF HandlerAgrees
    <2>3. HandlerAgrees'
        BY <1>a, <2>1, <2>2 DEF HandlerAgrees
    <2>4. SessionAgrees'
        BY <1>a, <2>1, <2>2 DEF SessionAgrees
    <2>5. StatusFollowsSession'
        BY <1>a, <2>1, <2>2 DEF StatusFollowsSession, Inside, Known
    <2> QED
        BY <2>3, <2>4, <2>5
<1>6. CASE OnOpenNotice
    <2>1. /\ io.pc = "on_open:notice" /\ io'.pc = "on_open:hello" /\ io'.id = io.id
          /\ UNCHANGED <<m_next_id, ws, pending, m_status>>
        BY <1>6 DEF OnOpenNotice, In, session
    <2>2. HandlerAgrees'
        BY <1>a, <2>1 DEF HandlerAgrees
    <2>3. SessionAgrees'
        BY <1>a, <2>1 DEF SessionAgrees
    <2>4. StatusFollowsSession'
        BY <1>a, <2>1 DEF StatusFollowsSession, Inside, Known
    <2> QED
        BY <2>2, <2>3, <2>4
<1>7. CASE OnOpenHello \/ OnMessage \/ TerminalNotice
    <2>1. /\ io.pc # "on_open" /\ io'.pc = "poll"
          /\ UNCHANGED <<m_next_id, ws, pending, m_status>>
        BY <1>7, <1>b DEF OnOpenHello, OnMessage, TerminalNotice, session
    <2>2. HandlerAgrees'
        BY <2>1 DEF HandlerAgrees
    <2>3. SessionAgrees'
        BY <2>1 DEF SessionAgrees
    <2>4. StatusFollowsSession'
        BY <2>1 DEF StatusFollowsSession, Inside, Known
    <2> QED
        BY <2>2, <2>3, <2>4
<1>8. ASSUME NEW i \in Ids, FrameArrives(i) PROVE StatusInv'
    <2>1. /\ io.pc = "poll" /\ io'.pc = "on_message" /\ io'.id = i /\ ws[i] = "open"
          /\ UNCHANGED <<m_next_id, ws, pending, m_status>>
        BY <1>8, <1>b DEF FrameArrives, session
    <2>2. m_status[i] = "Open"
        BY <2>1 DEF StatusFollowsSession, Inside, TypeInv, TypeOK, Statuses
    <2>3. HandlerAgrees'
        BY <2>1, <2>2 DEF HandlerAgrees
    <2>4. SessionAgrees'
        BY <2>1, <2>2 DEF SessionAgrees
    <2>5. StatusFollowsSession'
        BY <2>1, <2>2 DEF StatusFollowsSession, Inside, Known
    <2> QED
        BY <2>3, <2>4, <2>5
<1>10. ASSUME NEW i \in Ids, PeerCloses(i) PROVE StatusInv'
    BY <1>10, CloseKeepsStatus DEF PeerCloses
<1>11. ASSUME NEW i \in Ids, Terminate(i) PROVE StatusInv'
    <2>1. /\ io.pc = "poll" /\ io' = io /\ ws'[i] = "closed"
          /\ ws[i] \in {"connecting", "open", "closing"}
          /\ pending'[i] = IF ws[i] = "connecting" THEN "fail" ELSE "close"
          /\ \A j \in Ids : j # i => ws'[j] = ws[j] /\ pending'[j] = pending[j]
          /\ UNCHANGED <<m_next_id, m_status>>
        BY <1>11, <1>b DEF Terminate, TypeInv, TypeOK
    <2>2. ws[i] # "connecting" => m_status[i] = "Open"
        BY <2>1 DEF StatusFollowsSession, Inside, TypeInv, TypeOK, Statuses
    <2>3. ws[i] = "connecting" => m_status[i] = "Connecting"
        BY DEF SessionAgrees
    <2>4. HandlerAgrees'
        BY <2>1, <2>2, <2>3 DEF HandlerAgrees
    <2>5. SessionAgrees'
        BY <2>1, <2>2, <2>3 DEF SessionAgrees
    <2>6. StatusFollowsSession'
        BY <2>1, <2>2, <2>3 DEF StatusFollowsSession, Inside, Known
    <2> QED
        BY <2>4, <2>5, <2>6
<1>12. ASSUME NEW i \in Ids, HandleTerminate(i) PROVE StatusInv'
    <2>1. PICK s \in {"Failed", "Closed"} :
              /\ io.pc = "poll" /\ io'.id = i /\ m_status'[i] = s
              /\ io'.pc = IF s = "Failed" THEN "on_fail:notice" ELSE "on_close:notice"
              /\ pending[i] \in {"fail", "close"} /\ pending'[i] = "no"
              /\ \A j \in Ids : j # i => m_status'[j] = m_status[j] /\ pending'[j] = pending[j]
              /\ UNCHANGED <<m_next_id, ws>>
        <3>1. CASE pending[i] = "fail"
            BY <1>12, <1>b, <3>1 DEF HandleTerminate, In, TypeInv, TypeOK
        <3>2. CASE pending[i] = "close"
            BY <1>12, <1>b, <3>2 DEF HandleTerminate, In, TypeInv, TypeOK
        <3> QED
            BY <1>12, <3>1, <3>2 DEF HandleTerminate
    <2>2. ws[i] = "closed" /\ m_status[i] # "None"
        BY <2>1 DEF SessionAgrees
    <2>3. HandlerAgrees'
        BY <2>1, <2>2 DEF HandlerAgrees
    <2>4. SessionAgrees'
        BY <2>1, <2>2 DEF SessionAgrees
    <2>5. StatusFollowsSession'
        BY <2>1, <2>2 DEF StatusFollowsSession, Inside, Known
    <2> QED
        BY <2>3, <2>4, <2>5
<1>14. CASE Destructor
    <2>1. CASE DtorVisit
        <3>1. m_status[dtor.at] = "Open" => dtor.at \in Ids
            BY <2>1 DEF DtorVisit, Known, TypeInv, TypeOK, Ids, ConnectionBounds
        <3>2. CASE m_status[dtor.at] = "Open"
            BY <2>1, <3>1, <3>2, CloseKeepsStatus DEF DtorVisit
        <3>3. CASE m_status[dtor.at] # "Open"
            BY <2>1, <3>3, UnchangedStatus DEF DtorVisit
        <3> QED
            BY <3>2, <3>3
    <2>2. CASE DtorBegin \/ DtorJoin
        BY <2>2, UnchangedStatus DEF DtorBegin, DtorJoin, session
    <2> QED
        BY <1>14, <2>1, <2>2 DEF Destructor
<1>15. CASE UNCHANGED vars
    BY <1>15, UnchangedStatus DEF vars, session
<1> QED
    BY <1>1, <1>2, <1>3, <1>4, <1>5, <1>6, <1>7, <1>8, <1>10, <1>11, <1>12,
       <1>14, <1>15 DEF Next, IoThread, Handler, Program

(* What getStatus() says is behind the session but never wrong about what   *)
(* the heartbeat and fetch threads and the menu conclude from it.           *)
THEOREM StatusCorrect == Safety => []StatusFollowsSession
<1>1. TypeInv /\ StatusInv /\ [Next]_vars => (TypeInv /\ StatusInv)'
    BY ConnectionBounds, TypeStep, StatusStep
<1>2. Init => TypeInv /\ StatusInv
    BY ConnectionBounds, TypeInit, StatusInit
<1>3. Safety => [](TypeInv /\ StatusInv)
    BY <1>1, <1>2, PTL DEF Safety
<1>4. StatusInv => StatusFollowsSession
    BY DEF StatusInv
<1> QED
    BY <1>3, <1>4, PTL

-----------------------------------------------------------------------------
(* Sessions that do not become open, with on_open where it was. *)
LEMMA NothingOpens ==
    ASSUME OpenSaidHello, hello' = hello, io.pc = "poll" \/ io' = io,
           \A i \in Ids : ws'[i] = "open" => ws[i] = "open"
    PROVE  OpenSaidHello'
BY DEF OpenSaidHello, Inside

LEMMA CloseOpensNothing ==
    ASSUME TypeInv, NEW i \in Ids, WsClose(i)
    PROVE  \A j \in Ids : ws'[j] = "open" => ws[j] = "open"
BY DEF WsClose, TypeInv, TypeOK

LEMMA HelloStep ==
    ASSUME ConnectionBounds, TypeInv, OpenSaidHello, [Next]_vars
    PROVE  OpenSaidHello'
<1>a. io.id \in Ids
    BY DEF TypeInv, TypeOK
<1>b. Polling.pc = "poll"
    BY DEF Polling
<1>1. CASE Connect
    <2>1. \A j \in Ids : ws'[j] = "open" => ws[j] = "open"
        BY <1>1 DEF Connect, TypeInv, TypeOK
    <2> QED
        BY <1>1, <2>1, NothingOpens DEF Connect
<1>2. ASSUME NEW i \in Ids, Disconnect(i) \/ PeerCloses(i) PROVE OpenSaidHello'
    BY <1>2, CloseOpensNothing, NothingOpens DEF Disconnect, PeerCloses
<1>3. ASSUME NEW i \in Ids, RetrieveCopy(i) \/ RetrieveClear(i) PROVE OpenSaidHello'
    BY <1>3, NothingOpens DEF RetrieveCopy, RetrieveClear, session
<1>4. ASSUME NEW i \in Ids, HandshakeDone(i) PROVE OpenSaidHello'
    <2>1. /\ io.pc = "poll" /\ io'.pc = "on_open" /\ io'.id = i /\ hello' = hello
          /\ \A j \in Ids : j # i => ws'[j] = ws[j]
        BY <1>4, <1>b DEF HandshakeDone, In, TypeInv, TypeOK
    <2> QED
        BY <2>1 DEF OpenSaidHello, Inside
<1>5. CASE OnOpenStatus \/ OnOpenNotice
    <2>1. /\ io.pc \in {"on_open", "on_open:notice"} /\ io'.id = io.id
          /\ io'.pc \in {"on_open:notice", "on_open:hello"} /\ UNCHANGED <<ws, hello>>
        BY <1>5 DEF OnOpenStatus, OnOpenNotice, In, session
    <2> QED
        BY <2>1 DEF OpenSaidHello, Inside
<1>6. CASE OnOpenHello
    <2>1. /\ io.pc = "on_open:hello" /\ ws' = ws
          /\ ws[io.id] = "open" => hello'[io.id] = "sent"
          /\ \A j \in Ids : j # io.id => hello'[j] = hello[j]
        BY <1>6, <1>a DEF OnOpenHello, session, TypeInv, TypeOK
    <2> QED
        BY <2>1 DEF OpenSaidHello, Inside
<1>7. ASSUME NEW i \in Ids, FrameArrives(i) \/ HandleTerminate(i) PROVE OpenSaidHello'
    BY <1>7, <1>b, NothingOpens DEF FrameArrives, HandleTerminate, session
<1>8. CASE OnMessage \/ TerminalNotice
    <2>1. /\ io.pc \in {"on_message", "on_close:notice", "on_fail:notice"}
          /\ UNCHANGED <<ws, hello>>
        BY <1>8 DEF OnMessage, TerminalNotice, session
    <2> QED
        BY <2>1 DEF OpenSaidHello, Inside
<1>9. ASSUME NEW i \in Ids, Terminate(i) PROVE OpenSaidHello'
    BY <1>9, NothingOpens DEF Terminate, TypeInv, TypeOK
<1>10. CASE Destructor
    <2>1. CASE DtorVisit
        <3>1. dtor.at \in Ids
            <4>1. dtor.at \in Nat /\ m_next_id \in Nat /\ m_next_id <= MaxConnections
                BY DEF TypeInv, TypeOK, ConnectionBounds
            <4> QED
                BY <2>1, <4>1 DEF DtorVisit, Known, Ids, ConnectionBounds
        <3>2. \A j \in Ids : ws'[j] = "open" => ws[j] = "open"
            BY <2>1, <3>1, CloseOpensNothing DEF DtorVisit
        <3> QED
            BY <2>1, <3>2, NothingOpens DEF DtorVisit
    <2>2. CASE DtorBegin \/ DtorJoin
        BY <2>2, NothingOpens DEF DtorBegin, DtorJoin, session
    <2> QED
        BY <1>10, <2>1, <2>2 DEF Destructor
<1>11. CASE UNCHANGED vars
    BY <1>11, NothingOpens DEF vars, session
<1> QED
    BY <1>1, <1>2, <1>3, <1>4, <1>5, <1>6, <1>7, <1>8, <1>9, <1>10, <1>11
       DEF Next, IoThread, Handler, Program

(* A session that is open once on_open is over has sent its Hello packet.   *)
THEOREM HelloCorrect == Safety => []OpenSaidHello
<1>1. TypeInv /\ OpenSaidHello /\ [Next]_vars => (TypeInv /\ OpenSaidHello)'
    BY ConnectionBounds, TypeStep, HelloStep
<1>2. Init => TypeInv /\ OpenSaidHello
    BY ConnectionBounds, TypeInit DEF Init, OpenSaidHello
<1> QED
    BY <1>1, <1>2, PTL DEF Safety

-----------------------------------------------------------------------------
(* How far the history of a mailbox has come.                               *)
Begun(s) == s = <<Notice("Connecting")>>

Running(s) ==
    /\ Len(s) >= 2
    /\ s[1] = Notice("Connecting")
    /\ s[2] = Notice("Established")
    /\ \A j \in 3 .. Len(s) : IsLive(s[j])

Ended(s) ==
    /\ Len(s) >= 3
    /\ s[1] = Notice("Connecting")
    /\ s[2] = Notice("Established")
    /\ \A j \in 3 .. Len(s) - 1 : IsLive(s[j])
    /\ s[Len(s)] = Notice("Closed")

Refused(s) ==
    /\ Len(s) = 2
    /\ s[1] = Notice("Connecting")
    /\ s[2] = Notice("Failed")

(* The history of connection i against its status: every handler sets the   *)
(* status first, and its notice is missing until its next step.             *)
LogAgrees(i) ==
    /\ m_status[i] = "None" => log[i] = <<>>
    /\ m_status[i] = "Connecting" => Begun(log[i])
    /\ m_status[i] = "Open" =>
          IF Inside(i, {"on_open:notice"}) THEN Begun(log[i]) ELSE Running(log[i])
    /\ m_status[i] = "Closed" =>
          IF Inside(i, {"on_close:notice"}) THEN Running(log[i]) ELSE Ended(log[i])
    /\ m_status[i] = "Failed" =>
          IF Inside(i, {"on_fail:notice"}) THEN Begun(log[i]) ELSE Refused(log[i])

LogInv == \A i \in Ids : LogAgrees(i)

LEMMA FirstNotice == ASSUME NEW m PROVE <<>> \o <<Notice(m)>> = <<Notice(m)>>
OBVIOUS

LEMMA SecondNotice ==
    ASSUME NEW s, Begun(s)
    PROVE  /\ Running(s \o <<Notice("Established")>>)
           /\ Refused(s \o <<Notice("Failed")>>)
BY DEF Begun, Running, Refused

LEMMA LiveBatch ==
    ASSUME NEW s \in Seq(Messages), NEW t \in Seq(Messages), Running(s),
           \A j \in DOMAIN t : IsLive(t[j])
    PROVE  Running(s \o t)
<1>1. /\ Len(s) \in Nat /\ DOMAIN s = 1 .. Len(s)
      /\ Len(t) \in Nat /\ DOMAIN t = 1 .. Len(t)
      /\ Len(s \o t) = Len(s) + Len(t)
    BY LenProperties, ConcatProperties
<1>2. \A j \in 1 .. Len(s) : (s \o t)[j] = s[j]
    BY <1>1, ConcatProperties
<1>3. ASSUME NEW j \in 3 .. Len(s \o t) PROVE IsLive((s \o t)[j])
    <2>1. CASE j <= Len(s)
        BY <1>1, <1>2, <2>1 DEF Running
    <2>2. CASE ~(j <= Len(s))
        <3>1. j - Len(s) \in DOMAIN t
            BY <1>1, <2>2
        <3>2. (s \o t)[j] = t[j - Len(s)]
            BY <1>1, <2>2, ConcatProperties
        <3> QED
            BY <3>1, <3>2
    <2> QED
        BY <2>1, <2>2
<1> QED
    BY <1>1, <1>2, <1>3 DEF Running

LEMMA LastNotice ==
    ASSUME NEW s \in Seq(Messages), NEW t \in Seq(Messages), Running(s),
           Len(t) = 1, t[1] = Notice("Closed")
    PROVE  Ended(s \o t)
<1>1. Len(s) \in Nat /\ Len(s \o t) = Len(s) + Len(t)
    BY LenProperties, ConcatProperties
<1>2. \A j \in 1 .. Len(s) : (s \o t)[j] = s[j]
    BY <1>1, ConcatProperties
<1>3. (s \o t)[Len(s) + 1] = Notice("Closed")
    BY <1>1, ConcatProperties
<1> QED
    BY <1>1, <1>2, <1>3 DEF Running, Ended

(* Steps that push nothing and leave the status of every connection alone,  *)
(* outside the three notices.                                               *)
Noticing == {"on_open:notice", "on_close:notice", "on_fail:notice"}

LEMMA SameLog ==
    ASSUME LogInv, UNCHANGED <<m_status, log>>,
           io' = io \/ (io.pc \notin Noticing /\ io'.pc \notin Noticing)
    PROVE  LogInv'
BY DEF LogInv, LogAgrees, Inside, Noticing

(* A step that changes the history or the status of one connection.         *)
LEMMA OtherLogs ==
    ASSUME LogInv, NEW i \in Ids,
           \A j \in Ids : j # i => m_status'[j] = m_status[j] /\ log'[j] = log[j],
           io.pc \in Noticing => io' = io \/ io.id = i,
           io'.pc \in Noticing => io' = io \/ io'.id = i,
           LogAgrees(i)'
    PROVE  LogInv'
<1> SUFFICES ASSUME NEW j \in Ids, j # i PROVE LogAgrees(j)'
    BY DEF LogInv
<1>1. m_status'[j] = m_status[j] /\ log'[j] = log[j] /\ LogAgrees(j)
    BY DEF LogInv
<1>2. \A p \in Noticing : Inside(j, {p})' <=> Inside(j, {p})
    BY DEF Inside, Noticing
<1> QED
    BY <1>1, <1>2 DEF LogAgrees, Noticing

LEMMA LogStep ==
    ASSUME ConnectionBounds, TypeInv, StatusInv, LogInv, [Next]_vars
    PROVE  LogInv'
<1>a. io.id \in Ids /\ TypeOK /\ HandlerAgrees /\ SessionAgrees
    BY DEF TypeInv, TypeOK, StatusInv
<1>b. Polling.pc \notin Noticing
    BY DEF Polling, Noticing
<1>1. CASE Connect
    <2>1. m_next_id \in Ids /\ ~Known(m_next_id)
        BY <1>1, <1>a DEF Connect, TypeOK, Ids, Known, ConnectionBounds
    <2>0. PICK i \in Ids : i = m_next_id
        BY <2>1
    <2>2. m_status[i] = "None"
        BY <2>0, <2>1 DEF StatusInv, StatusFollowsSession
    <2>3. log[i] = <<>>
        BY <2>2 DEF LogInv, LogAgrees
    <2>4. /\ m_status'[i] = "Connecting"
          /\ log'[i] = <<>> \o <<Notice("Connecting")>>
          /\ \A j \in Ids : j # i => m_status'[j] = m_status[j] /\ log'[j] = log[j]
          /\ io' = io
        BY <1>1, <1>a, <2>0, <2>3 DEF Connect, Push, TypeOK
    <2>5. Begun(log'[i])
        BY <2>4, FirstNotice DEF Begun
    <2>6. LogAgrees(i)'
        BY <2>4, <2>5 DEF LogAgrees
    <2> QED
        BY <2>4, <2>6, OtherLogs
<1>2. CASE OnOpenStatus
    <2>0. PICK i \in Ids : i = io.id
        BY <1>a
    <2>1. /\ io.pc = "on_open" /\ io'.pc = "on_open:notice" /\ io.id = i /\ io'.id = i
          /\ m_status'[i] = "Open" /\ log' = log
          /\ \A j \in Ids : j # i => m_status'[j] = m_status[j]
        BY <1>2, <1>a, <2>0 DEF OnOpenStatus, In, mailbox, TypeOK
    <2>2. Begun(log[i])
        BY <1>a, <2>0, <2>1 DEF HandlerAgrees, LogInv, LogAgrees
    <2>3. LogAgrees(i)'
        BY <2>1, <2>2 DEF LogAgrees, Inside
    <2> QED
        BY <1>a, <2>0, <2>1, <2>3, OtherLogs DEF Noticing
<1>3. CASE OnOpenNotice
    <2>0. PICK i \in Ids : i = io.id
        BY <1>a
    <2>1. /\ io.pc = "on_open:notice" /\ io'.pc = "on_open:hello" /\ io.id = i /\ io'.id = i
          /\ log'[i] = log[i] \o <<Notice("Established")>>
          /\ \A j \in Ids : j # i => log'[j] = log[j]
          /\ m_status' = m_status
        BY <1>3, <1>a, <2>0 DEF OnOpenNotice, Push, In, TypeOK
    <2>2. m_status[i] = "Open" /\ Begun(log[i])
        BY <1>a, <2>0, <2>1 DEF HandlerAgrees, LogInv, LogAgrees, Inside
    <2>3. Running(log'[i])
        BY <2>1, <2>2, SecondNotice
    <2>4. LogAgrees(i)'
        BY <2>1, <2>2, <2>3 DEF LogAgrees, Inside
    <2> QED
        BY <1>a, <2>0, <2>1, <2>4, OtherLogs DEF Noticing
<1>4. CASE OnMessage
    <2>0. PICK i \in Ids : i = io.id
        BY <1>a
    <2> DEFINE batch == [p \in 1 .. io.frame |-> Live(m_message_count[i] + p)]
    <2>1. /\ io.pc = "on_message" /\ io'.pc = "poll"
          /\ io.id = i /\ log'[i] = log[i] \o batch
          /\ \A j \in Ids : j # i => log'[j] = log[j]
          /\ m_status' = m_status
        BY <1>4, <1>a, <2>0 DEF OnMessage, Push, Polling, TypeOK
    <2>2. m_status[i] = "Open" /\ Running(log[i])
        BY <1>a, <2>0, <2>1 DEF HandlerAgrees, LogInv, LogAgrees, Inside
    <2>3. batch \in Seq(Messages)
        BY <1>a, <2>0, <2>1, FrameIsMessages DEF TypeInv, FrameFits, TypeOK, ConnectionBounds
    <2>4. \A p \in DOMAIN batch : IsLive(batch[p])
        BY DEF IsLive, Live
    <2>5. log[i] \in Seq(Messages)
        BY <1>a, <2>0 DEF TypeOK
    <2> HIDE DEF batch
    <2>6. Running(log'[i])
        BY <2>1, <2>2, <2>3, <2>4, <2>5, LiveBatch
    <2>7. LogAgrees(i)'
        BY <2>1, <2>2, <2>6 DEF LogAgrees, Inside
    <2> QED
        BY <1>a, <2>0, <2>1, <2>7, OtherLogs DEF Noticing
<1>5. ASSUME NEW i \in Ids, HandleTerminate(i) PROVE LogInv'
    <2>1. /\ io.pc = "poll" /\ io'.id = i /\ log' = log
          /\ \A j \in Ids : j # i => m_status'[j] = m_status[j]
        BY <1>5, <1>a DEF HandleTerminate, Polling, In, mailbox, TypeOK
    <2>2. LogAgrees(i)'
        <3>1. CASE pending[i] = "fail"
            <4>1. m_status[i] = "Connecting"
                BY <1>a, <3>1 DEF SessionAgrees
            <4>2. m_status'[i] = "Failed" /\ io'.pc = "on_fail:notice"
                BY <1>5, <1>a, <3>1 DEF HandleTerminate, In, TypeOK
            <4> QED
                BY <2>1, <4>1, <4>2 DEF LogInv, LogAgrees, Inside
        <3>2. CASE pending[i] = "close"
            <4>1. m_status[i] = "Open"
                BY <1>a, <3>2 DEF SessionAgrees
            <4>2. m_status'[i] = "Closed" /\ io'.pc = "on_close:notice"
                BY <1>5, <1>a, <3>2 DEF HandleTerminate, In, TypeOK
            <4> QED
                BY <2>1, <4>1, <4>2 DEF LogInv, LogAgrees, Inside
        <3> QED
            BY <1>5, <3>1, <3>2 DEF HandleTerminate
    <2> QED
        BY <2>1, <2>2, OtherLogs DEF Noticing
<1>6. CASE TerminalNotice
    <2>0. PICK i \in Ids : i = io.id
        BY <1>a
    <2>1. log[i] \in Seq(Messages)
        BY <1>a, <2>0 DEF TypeOK
    <2>2. CASE io.pc = "on_close:notice"
        <3>1. /\ io'.pc = "poll" /\ m_status' = m_status
              /\ io.id = i /\ log'[i] = log[i] \o <<Notice("Closed")>>
              /\ \A j \in Ids : j # i => log'[j] = log[j]
            BY <1>6, <1>a, <2>0, <2>2 DEF TerminalNotice, Push, Polling, TypeOK
        <3>2. m_status[i] = "Closed" /\ Running(log[i])
            BY <1>a, <2>0, <2>2 DEF HandlerAgrees, LogInv, LogAgrees, Inside
        <3>3. Ended(log'[i])
            <4>1. <<Notice("Closed")>> \in Seq(Messages)
                BY NoticesAreMessages
            <4> QED
                BY <2>1, <3>1, <3>2, <4>1, LastNotice
        <3>4. LogAgrees(i)'
            BY <3>1, <3>2, <3>3 DEF LogAgrees, Inside
        <3> QED
            BY <1>a, <2>0, <3>1, <3>4, OtherLogs DEF Noticing
    <2>3. CASE io.pc = "on_fail:notice"
        <3>1. /\ io'.pc = "poll" /\ m_status' = m_status
              /\ io.id = i /\ log'[i] = log[i] \o <<Notice("Failed")>>
              /\ \A j \in Ids : j # i => log'[j] = log[j]
            BY <1>6, <1>a, <2>0, <2>3 DEF TerminalNotice, Push, Polling, TypeOK
        <3>2. m_status[i] = "Failed" /\ Begun(log[i])
            BY <1>a, <2>0, <2>3 DEF HandlerAgrees, LogInv, LogAgrees, Inside
        <3>3. Refused(log'[i])
            BY <3>1, <3>2, SecondNotice
        <3>4. LogAgrees(i)'
            BY <3>1, <3>2, <3>3 DEF LogAgrees, Inside
        <3> QED
            BY <1>a, <2>0, <3>1, <3>4, OtherLogs DEF Noticing
    <2> QED
        BY <1>6, <2>0, <2>2, <2>3 DEF TerminalNotice
<1>7. ASSUME NEW i \in Ids, HandshakeDone(i) \/ FrameArrives(i) PROVE LogInv'
    <2>1. io.pc \notin Noticing /\ io'.pc \notin Noticing /\ UNCHANGED <<m_status, log>>
        BY <1>7, <1>b DEF HandshakeDone, FrameArrives, In, Noticing, mailbox
    <2> QED
        BY <2>1, SameLog
<1>8. CASE OnOpenHello
    <2>1. io.pc \notin Noticing /\ io'.pc \notin Noticing /\ UNCHANGED <<m_status, log>>
        BY <1>8, <1>b DEF OnOpenHello, Noticing, mailbox
    <2> QED
        BY <2>1, SameLog
<1>9. ASSUME NEW i \in Ids,
             Disconnect(i) \/ RetrieveCopy(i) \/ RetrieveClear(i) \/ PeerCloses(i) \/ Terminate(i)
      PROVE  LogInv'
    BY <1>9, SameLog DEF Disconnect, RetrieveCopy, RetrieveClear, PeerCloses, Terminate, mailbox
<1>10. CASE Destructor \/ UNCHANGED vars
    BY <1>10, SameLog DEF Destructor, DtorBegin, DtorVisit, DtorJoin, vars, mailbox
<1> QED
    BY <1>1, <1>2, <1>3, <1>4, <1>5, <1>6, <1>7, <1>8, <1>9, <1>10
       DEF Next, IoThread, Handler, Program

LEMMA LogInOrderFollows == ASSUME TypeOK, LogInv PROVE LogInOrder
<1> SUFFICES ASSUME NEW i \in Ids, NEW j \in DOMAIN log[i]
             PROVE  /\ log[i][j] = Notice("Connecting") <=> j = 1
                    /\ log[i][j] \in {Notice("Established"), Notice("Failed")} <=> j = 2
                    /\ log[i][j] \in {Notice("Failed"), Notice("Closed")} => j = Len(log[i])
    BY DEF LogInOrder
<1>1. log[i] \in Seq(Messages) /\ m_status[i] \in Statuses
    BY DEF TypeOK
<1> DEFINE s == log[i]
<1>2. Len(s) \in Nat /\ DOMAIN s = 1 .. Len(s)
    BY <1>1, LenProperties
<1>3. s = <<>> \/ Begun(s) \/ Running(s) \/ Ended(s) \/ Refused(s)
    BY <1>1 DEF LogInv, LogAgrees, Statuses
<1>4. \A m : ~IsLive(Notice(m))
    BY DEF IsLive, Notice
<1>5. \A m, n : Notice(m) = Notice(n) => m = n
    BY DEF Notice
<1> HIDE DEF s
<1>6. j \in 1 .. Len(s)
    BY <1>2 DEF s
<1>7. CASE s = <<>>
    BY <1>6, <1>7
<1>8. CASE Begun(s)
    <2>1. Len(s) = 1 /\ s[1] = Notice("Connecting")
        BY <1>8 DEF Begun
    <2> QED
        BY <1>5, <1>6, <2>1 DEF s
<1>9. CASE Running(s)
    BY <1>2, <1>4, <1>5, <1>6, <1>9 DEF Running, s
<1>10. CASE Ended(s)
    BY <1>2, <1>4, <1>5, <1>6, <1>10 DEF Ended, s
<1>11. CASE Refused(s)
    BY <1>2, <1>5, <1>6, <1>11 DEF Refused, s
<1> QED
    BY <1>3, <1>7, <1>8, <1>9, <1>10, <1>11

(* The history of every mailbox is Connecting, Established, live messages   *)
(* and at last Closed, or Connecting and Failed, although the handlers push *)
(* their notices one step after they have set the status.                   *)
THEOREM LogOrdered == Safety => []LogInOrder
<1> DEFINE Inv == TypeInv /\ StatusInv /\ LogInv
<1>1. Init => Inv
    <2>1. Init => LogInv
        BY DEF Init, LogInv, LogAgrees
    <2> QED
        BY <2>1, ConnectionBounds, TypeInit, StatusInit
<1>2. Inv /\ [Next]_vars => Inv'
    BY ConnectionBounds, TypeStep, StatusStep, LogStep
<1>3. Inv => LogInOrder
    BY LogInOrderFollows DEF TypeInv
<1> QED
    BY <1>1, <1>2, <1>3, PTL DEF Safety

-----------------------------------------------------------------------------
(* What pushing does to the live messages of a mailbox. *)

LEMMA BacklogConcat ==
    ASSUME NEW s \in Seq(Messages), NEW t \in Seq(Messages)
    PROVE  Backlog(s \o t) = Backlog(s) \cup Backlog(t)
<1>1. /\ Len(s) \in Nat /\ DOMAIN s = 1 .. Len(s)
      /\ Len(t) \in Nat /\ DOMAIN t = 1 .. Len(t)
      /\ DOMAIN (s \o t) = 1 .. Len(s) + Len(t)
    BY LenProperties, ConcatProperties
<1>2. \A j \in DOMAIN s : j \in DOMAIN (s \o t) /\ (s \o t)[j] = s[j]
    BY <1>1, ConcatProperties
<1>3. ASSUME NEW j \in DOMAIN t
      PROVE  Len(s) + j \in DOMAIN (s \o t) /\ (s \o t)[Len(s) + j] = t[j]
    <2>1. Len(s) + j \in 1 .. Len(s) + Len(t) /\ ~(Len(s) + j <= Len(s)) /\ Len(s) + j - Len(s) = j
        BY <1>1
    <2> QED
        BY <1>1, <2>1, ConcatProperties
<1>4. ASSUME NEW j \in DOMAIN (s \o t), j \notin DOMAIN s
      PROVE  j - Len(s) \in DOMAIN t /\ (s \o t)[j] = t[j - Len(s)]
    <2>1. j - Len(s) \in 1 .. Len(t) /\ ~(j <= Len(s))
        BY <1>1, <1>4
    <2> QED
        BY <1>1, <2>1, ConcatProperties
<1> DEFINE Has(u, n) == \E j \in DOMAIN u : IsLive(u[j]) /\ u[j].n = n
<1>5. \A u, n : n \in Backlog(u) <=> Has(u, n)
    BY DEF Backlog
<1>6. ASSUME NEW n, Has(s \o t, n) PROVE Has(s, n) \/ Has(t, n)
    BY <1>2, <1>4, <1>6
<1>7. ASSUME NEW n, Has(s, n) \/ Has(t, n) PROVE Has(s \o t, n)
    BY <1>2, <1>3, <1>7
<1> HIDE DEF Has
<1> QED
    BY <1>5, <1>6, <1>7

LEMMA IncreasingConcat ==
    ASSUME NEW s \in Seq(Messages), NEW t \in Seq(Messages),
           Increasing(s), Increasing(t),
           \A a \in Backlog(s), b \in Backlog(t) : a < b
    PROVE  Increasing(s \o t)
<1>1. /\ Len(s) \in Nat /\ DOMAIN s = 1 .. Len(s)
      /\ Len(t) \in Nat /\ DOMAIN t = 1 .. Len(t)
      /\ DOMAIN (s \o t) = 1 .. Len(s) + Len(t)
    BY LenProperties, ConcatProperties
<1>2. \A j \in DOMAIN (s \o t) :
          \/ j \in DOMAIN s /\ (s \o t)[j] = s[j]
          \/ j > Len(s) /\ j - Len(s) \in DOMAIN t /\ (s \o t)[j] = t[j - Len(s)]
    BY <1>1, ConcatProperties
<1> SUFFICES ASSUME NEW j \in DOMAIN (s \o t), NEW k \in DOMAIN (s \o t), j < k,
                    IsLive((s \o t)[j]), IsLive((s \o t)[k])
             PROVE  (s \o t)[j].n < (s \o t)[k].n
    BY DEF Increasing
<1>3. CASE k \in DOMAIN s /\ (s \o t)[k] = s[k]
    <2>1. j \in DOMAIN s /\ (s \o t)[j] = s[j]
        BY <1>1, <1>2, <1>3
    <2> QED
        BY <1>3, <2>1 DEF Increasing
<1>4. CASE k > Len(s) /\ k - Len(s) \in DOMAIN t /\ (s \o t)[k] = t[k - Len(s)]
    <2>1. CASE j \in DOMAIN s /\ (s \o t)[j] = s[j]
        <3>1. s[j].n \in Backlog(s) /\ t[k - Len(s)].n \in Backlog(t)
            BY <1>4, <2>1 DEF Backlog
        <3> QED
            BY <1>4, <2>1, <3>1
    <2>2. CASE j > Len(s) /\ j - Len(s) \in DOMAIN t /\ (s \o t)[j] = t[j - Len(s)]
        <3>1. j - Len(s) < k - Len(s)
            BY <1>1
        <3> QED
            BY <1>4, <2>2, <3>1 DEF Increasing
    <2> QED
        BY <1>2, <2>1, <2>2
<1> QED
    BY <1>2, <1>3, <1>4

LEMMA NoticeBacklog ==
    ASSUME NEW m PROVE Backlog(<<Notice(m)>>) = {} /\ Increasing(<<Notice(m)>>)
BY DEF Backlog, Increasing, IsLive, Notice

LEMMA FrameBacklog ==
    ASSUME NEW c \in Nat, NEW k \in Nat
    PROVE  /\ Backlog([p \in 1 .. k |-> Live(c + p)]) = c + 1 .. c + k
           /\ Increasing([p \in 1 .. k |-> Live(c + p)])
<1> DEFINE batch == [p \in 1 .. k |-> Live(c + p)]
<1>1. DOMAIN batch = 1 .. k /\ \A p \in 1 .. k : IsLive(batch[p]) /\ batch[p].n = c + p
    BY DEF IsLive, Live
<1> HIDE DEF batch
<1>2. Backlog(batch) = {c + p : p \in 1 .. k}
    BY <1>1 DEF Backlog
<1>3. ASSUME NEW n \in c + 1 .. c + k PROVE n \in {c + p : p \in 1 .. k}
    <2>1. n - c \in 1 .. k /\ n = c + (n - c)
        OBVIOUS
    <2> QED
        BY <2>1
<1>4. Increasing(batch)
    BY <1>1 DEF Increasing
<1>5. Backlog(batch) = c + 1 .. c + k
    BY <1>2, <1>3
<1> QED
    BY <1>4, <1>5 DEF batch

-----------------------------------------------------------------------------
(* The part of LiveExactlyOnce that is about one connection, as a predicate *)
(* of what that connection's part of the state is.                          *)
Exact(count, given, box, held, copy) ==
    /\ given \cup Backlog(box) = 1 .. count
    /\ \A d \in given, b \in Backlog(box) : d < b
    /\ Increasing(box)
    /\ held => Backlog(copy) = Backlog(box)

ExactAt(i) ==
    Exact(m_message_count[i], delivered[i], m_messages[i], locked[i], result[i])

LEMMA ExactEverywhere == LiveExactlyOnce <=> \A i \in Ids : ExactAt(i)
BY DEF LiveExactlyOnce, ExactAt, Exact

(* A notice may be pushed at any time, even inside a retrieve(): it changes *)
(* nothing for the live messages.                                           *)
LEMMA PushNotice ==
    ASSUME TypeOK, LiveExactlyOnce, NEW i \in Ids,
           NEW m \in {"Connecting", "Established", "Closed", "Failed"},
           Push(i, <<Notice(m)>>), UNCHANGED <<m_message_count, reading>>
    PROVE  LiveExactlyOnce'
<1>1. \A j \in Ids : ExactAt(j)
    BY ExactEverywhere
<1>2. ExactAt(i)'
    <2>1. m_messages[i] \in Seq(Messages) /\ <<Notice(m)>> \in Seq(Messages)
        BY NoticesAreMessages DEF TypeOK
    <2>2. m_messages'[i] = m_messages[i] \o <<Notice(m)>>
        BY DEF Push, TypeOK
    <2>3. Backlog(<<Notice(m)>>) = {} /\ Increasing(<<Notice(m)>>)
        BY NoticeBacklog
    <2>4. Backlog(m_messages'[i]) = Backlog(m_messages[i]) \cup Backlog(<<Notice(m)>>)
        BY <2>1, <2>2, BacklogConcat
    <2>5. Increasing(m_messages'[i])
        BY <1>1, <2>1, <2>2, <2>3, IncreasingConcat DEF ExactAt, Exact
    <2> QED
        BY <1>1, <2>3, <2>4, <2>5 DEF ExactAt, Exact, reading
<1>3. ASSUME NEW j \in Ids, j # i PROVE ExactAt(j)'
    <2>1. m_messages'[j] = m_messages[j]
        BY <1>3 DEF Push, TypeOK
    <2> QED
        BY <1>1, <2>1 DEF ExactAt, Exact, reading
<1>4. \A j \in Ids : ExactAt(j)'
    BY <1>2, <1>3
<1> QED
    BY <1>4 DEF LiveExactlyOnce, ExactAt, Exact

LEMMA SameMailbox ==
    ASSUME LiveExactlyOnce, UNCHANGED <<m_messages, m_message_count, reading>>
    PROVE  LiveExactlyOnce'
BY DEF LiveExactlyOnce, reading

LEMMA ExactStep ==
    ASSUME ConnectionBounds, TypeInv, LiveExactlyOnce, [Next]_vars
    PROVE  LiveExactlyOnce'
<1>a. io.id \in Ids /\ TypeOK
    BY DEF TypeInv, TypeOK
<1>b. \A j \in Ids : ExactAt(j)
    BY ExactEverywhere
<1>1. CASE Connect
    <2>1. m_next_id \in Ids
        BY <1>1, <1>a DEF Connect, TypeOK, Ids, ConnectionBounds
    <2> QED
        BY <1>1, <1>a, <2>1, PushNotice DEF Connect
<1>2. ASSUME NEW i \in Ids, RetrieveCopy(i) PROVE LiveExactlyOnce'
    <2>1. ASSUME NEW j \in Ids PROVE ExactAt(j)'
        <3>1. CASE j = i
            BY <1>2, <1>a, <1>b, <3>1 DEF RetrieveCopy, ExactAt, Exact, mailbox, TypeOK
        <3>2. CASE j # i
            BY <1>2, <1>a, <1>b, <3>2 DEF RetrieveCopy, ExactAt, Exact, mailbox, TypeOK
        <3> QED
            BY <3>1, <3>2
    <2> QED
        BY <2>1 DEF LiveExactlyOnce, ExactAt, Exact
<1>3. ASSUME NEW i \in Ids, RetrieveClear(i) PROVE LiveExactlyOnce'
    <2>1. Backlog(<<>>) = {} /\ Increasing(<<>>)
        BY DEF Backlog, Increasing
    <2>2. delivered'[i] = delivered[i] \cup Backlog(result[i])
        BY <1>3, <1>a DEF RetrieveClear, TypeOK
    <2>3. Backlog(result[i]) = Backlog(m_messages[i])
        BY <1>3, <1>b DEF RetrieveClear, ExactAt, Exact
    <2>4. m_messages'[i] = <<>> /\ locked'[i] = FALSE /\ m_message_count' = m_message_count
        BY <1>3, <1>a DEF RetrieveClear, TypeOK
    <2>5. ExactAt(i)'
        BY <1>b, <2>1, <2>2, <2>3, <2>4 DEF ExactAt, Exact
    <2>6. ASSUME NEW j \in Ids, j # i PROVE ExactAt(j)'
        BY <1>3, <1>a, <1>b, <2>6 DEF RetrieveClear, ExactAt, Exact, TypeOK
    <2>7. \A j \in Ids : ExactAt(j)'
        BY <2>5, <2>6
    <2> QED
        BY <2>7 DEF LiveExactlyOnce, ExactAt, Exact
<1>4. CASE OnMessage
    <2>1. PICK i \in Ids, c \in Nat, k \in Nat :
              i = io.id /\ c = m_message_count[i] /\ k = io.frame /\ c + k <= MaxMessages
        BY <1>4, <1>a DEF OnMessage, TypeInv, FrameFits, TypeOK, ConnectionBounds
    <2> DEFINE batch == [p \in 1 .. k |-> Live(c + p)]
    <2>2. batch \in Seq(Messages) /\ m_messages[i] \in Seq(Messages)
        BY <1>a, <2>1, FrameIsMessages DEF TypeOK
    <2>3. Backlog(batch) = c + 1 .. c + k /\ Increasing(batch)
        BY <2>1, FrameBacklog
    <2>4. /\ m_messages'[i] = m_messages[i] \o batch
          /\ m_message_count'[i] = c + k
          /\ ~locked[i] /\ reading' = reading
        BY <1>4, <1>a, <2>1 DEF OnMessage, Push, TypeOK
    <2>5. ASSUME NEW j \in Ids, j # i
          PROVE  m_messages'[j] = m_messages[j] /\ m_message_count'[j] = m_message_count[j]
        BY <1>4, <1>a, <2>1, <2>5 DEF OnMessage, Push, TypeOK
    <2> HIDE DEF batch
    <2>6. delivered[i] \cup Backlog(m_messages[i]) = 1 .. c
        BY <1>b, <2>1 DEF ExactAt, Exact
    <2>7. Backlog(m_messages'[i]) = Backlog(m_messages[i]) \cup (c + 1 .. c + k)
        BY <2>2, <2>3, <2>4, BacklogConcat
    <2>8. Increasing(m_messages'[i])
        <3>1. \A a \in Backlog(m_messages[i]), b \in Backlog(batch) : a < b
            BY <2>1, <2>3, <2>6
        <3>2. Increasing(m_messages[i])
            BY <1>b, <2>1 DEF ExactAt, Exact
        <3> QED
            BY <2>2, <2>3, <2>4, <3>1, <3>2, IncreasingConcat
    <2>9. ExactAt(i)'
        <3>1. delivered'[i] = delivered[i] /\ locked'[i] = FALSE
            BY <1>a, <2>1, <2>4 DEF reading, TypeOK
        <3>2. 1 .. c \cup (c + 1 .. c + k) = 1 .. c + k
            BY <2>1
        <3>3. delivered'[i] \cup Backlog(m_messages'[i]) = 1 .. m_message_count'[i]
            BY <2>4, <2>6, <2>7, <3>1, <3>2
        <3>4. \A d \in delivered'[i], b \in Backlog(m_messages'[i]) : d < b
            <4>1. \A d \in delivered[i], b \in Backlog(m_messages[i]) : d < b
                BY <1>b, <2>1 DEF ExactAt, Exact
            <4>2. \A d \in delivered[i], b \in c + 1 .. c + k : d < b
                BY <2>1, <2>6
            <4> QED
                BY <2>7, <3>1, <4>1, <4>2
        <3> QED
            BY <2>8, <3>1, <3>3, <3>4 DEF ExactAt, Exact
    <2>10. ASSUME NEW j \in Ids, j # i PROVE ExactAt(j)'
        BY <1>b, <2>4, <2>5, <2>10 DEF ExactAt, Exact, reading
    <2>11. \A j \in Ids : ExactAt(j)'
        BY <2>9, <2>10
    <2> QED
        BY <2>11 DEF LiveExactlyOnce, ExactAt, Exact
<1>5. CASE OnOpenNotice \/ TerminalNotice
    BY <1>5, <1>a, PushNotice DEF OnOpenNotice, TerminalNotice
<1>6. ASSUME NEW i \in Ids,
             \/ Disconnect(i) \/ HandshakeDone(i) \/ FrameArrives(i)
             \/ PeerCloses(i) \/ Terminate(i) \/ HandleTerminate(i)
      PROVE  LiveExactlyOnce'
    BY <1>6, SameMailbox
       DEF Disconnect, HandshakeDone, FrameArrives, PeerCloses, Terminate, HandleTerminate, mailbox
<1>7. CASE OnOpenStatus \/ OnOpenHello \/ Destructor \/ UNCHANGED vars
    BY <1>7, SameMailbox
       DEF OnOpenStatus, OnOpenHello, Destructor, DtorBegin, DtorVisit, DtorJoin, vars, mailbox
<1> QED
    BY <1>1, <1>2, <1>3, <1>4, <1>5, <1>6, <1>7 DEF Next, IoThread, Handler, Program

(* Every live message received is in the mailbox or handed out, once and in *)
(* order, although retrieve()'s copy and clear are separate steps.          *)
THEOREM ExactlyOnce == Safety => []LiveExactlyOnce
<1>1. Init => LiveExactlyOnce
    BY DEF Init, LiveExactlyOnce, Backlog, Increasing
<1>2. TypeInv /\ LiveExactlyOnce /\ [Next]_vars => (TypeInv /\ LiveExactlyOnce)'
    BY ConnectionBounds, TypeStep, ExactStep
<1>3. Init => TypeInv
    BY ConnectionBounds, TypeInit
<1> QED
    BY <1>1, <1>2, <1>3, PTL DEF Safety

-----------------------------------------------------------------------------
(* Refinement: every step of Connection is a step of LiveFeed or a stutter. *)

LEMMA FeedInit == Init => Feed!Init
BY DEF Init, Feed!Init

LEMMA FeedStutter ==
    ASSUME UNCHANGED <<m_status, m_message_count, delivered>>
    PROVE  [Feed!Next]_Feed!vars
BY DEF Feed!vars

LEMMA FeedStep ==
    ASSUME ConnectionBounds, TypeInv, StatusInv, LiveExactlyOnce, [Next]_vars
    PROVE  [Feed!Next]_Feed!vars
<1>a. io.id \in Ids /\ TypeOK /\ HandlerAgrees /\ SessionAgrees
    BY DEF TypeInv, TypeOK, StatusInv
<1>1. CASE Connect
    <2>1. m_next_id \in Ids /\ ~Known(m_next_id)
        BY <1>1, <1>a DEF Connect, TypeOK, Ids, Known, ConnectionBounds
    <2>2. m_status[m_next_id] = "None"
        BY <2>1 DEF StatusInv, StatusFollowsSession
    <2>3. Feed!Start
        BY <1>1, <2>1, <2>2 DEF Connect, Feed!Start, Feed!Settles, reading
    <2> QED
        BY <2>3 DEF Feed!Next
<1>2. CASE OnOpenStatus
    <2>1. m_status[io.id] = "Connecting"
        BY <1>2, <1>a DEF OnOpenStatus, HandlerAgrees
    <2>2. Feed!Open
        BY <1>2, <1>a, <2>1 DEF OnOpenStatus, Feed!Open, Feed!Settles, mailbox, reading
    <2> QED
        BY <2>2 DEF Feed!Next
<1>3. ASSUME NEW i \in Ids, HandleTerminate(i) PROVE [Feed!Next]_Feed!vars
    <2>1. CASE pending[i] = "fail"
        <3>1. m_status[i] = "Connecting"
            BY <1>a, <2>1 DEF SessionAgrees
        <3>2. Feed!Fail
            BY <1>3, <2>1, <3>1 DEF HandleTerminate, Feed!Fail, Feed!Settles, mailbox, reading
        <3> QED
            BY <3>2 DEF Feed!Next
    <2>2. CASE pending[i] = "close"
        <3>1. m_status[i] = "Open"
            BY <1>a, <2>2 DEF SessionAgrees
        <3>2. Feed!Close
            BY <1>3, <2>2, <3>1 DEF HandleTerminate, Feed!Close, Feed!Settles, mailbox, reading
        <3> QED
            BY <3>2 DEF Feed!Next
    <2> QED
        BY <1>3, <2>1, <2>2 DEF HandleTerminate
<1>4. CASE OnMessage
    <2>1. PICK i \in Ids, n \in Nat :
              i = io.id /\ n = m_message_count[i] + io.frame
        BY <1>a DEF TypeOK, ConnectionBounds
    <2>2. m_status[i] = "Open"
        BY <1>4, <1>a, <2>1 DEF OnMessage, HandlerAgrees
    <2>3. n \in m_message_count[i] .. MaxMessages
        BY <1>4, <1>a, <2>1 DEF OnMessage, TypeInv, FrameFits, TypeOK, ConnectionBounds
    <2>4. m_message_count' = [m_message_count EXCEPT ![i] = n]
        BY <1>4, <2>1 DEF OnMessage
    <2>5. Feed!Publish(i)
        BY <1>4, <2>2, <2>3, <2>4 DEF OnMessage, Feed!Publish, reading
    <2> QED
        BY <2>1, <2>5 DEF Feed!Next
<1>5. ASSUME NEW i \in Ids, RetrieveClear(i) PROVE [Feed!Next]_Feed!vars
    <2>1. delivered[i] \cup Backlog(result[i]) = 1 .. m_message_count[i]
        BY <1>5 DEF RetrieveClear, LiveExactlyOnce
    <2>2. Feed!Deliver(i)
        BY <1>5, <2>1 DEF RetrieveClear, Feed!Deliver
    <2> QED
        BY <2>2 DEF Feed!Next
<1>6. ASSUME NEW i \in Ids,
             \/ Disconnect(i) \/ RetrieveCopy(i) \/ HandshakeDone(i)
             \/ FrameArrives(i) \/ PeerCloses(i) \/ Terminate(i)
      PROVE  [Feed!Next]_Feed!vars
    BY <1>6, FeedStutter
       DEF Disconnect, RetrieveCopy, HandshakeDone, FrameArrives, PeerCloses, Terminate,
           mailbox, reading
<1>7. CASE OnOpenNotice \/ OnOpenHello \/ TerminalNotice \/ Destructor \/ UNCHANGED vars
    BY <1>7, FeedStutter
       DEF OnOpenNotice, OnOpenHello, TerminalNotice, Destructor, DtorBegin, DtorVisit, DtorJoin,
           vars, mailbox, reading
<1> QED
    BY <1>1, <1>2, <1>3, <1>4, <1>5, <1>6, <1>7 DEF Next, IoThread, Handler, Program

(* The connection layer implements LiveFeed: connections only move forward, *)
(* publish while Open only, and hand everything over in whole batches.      *)
THEOREM ImplementsFeed == Safety => Feed!Safety
<1> DEFINE Inv == TypeInv /\ StatusInv /\ LiveExactlyOnce
<1>1. Init => Inv
    BY ConnectionBounds, TypeInit, StatusInit DEF Init, LiveExactlyOnce, Backlog, Increasing
<1>2. Inv /\ [Next]_vars => Inv'
    BY ConnectionBounds, TypeStep, StatusStep, ExactStep
<1>3. Inv /\ [Next]_vars => [Feed!Next]_Feed!vars
    BY ConnectionBounds, FeedStep
<1> QED
    BY <1>1, <1>2, <1>3, FeedInit, PTL DEF Safety, Feed!Safety
=============================================================================
