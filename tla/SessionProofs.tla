---------------------------- MODULE SessionProofs ----------------------------
(***************************************************************************)
(* Room on top of Connection, and Session on top of both, for every number *)
(* of connections, rooms, ticks, messages and fetch threads: what is       *)
(* proved of Connection holds with a Room and a window above it; an open   *)
(* connection is never without its heartbeat thread; one connection lives  *)
(* at a time although the menu and the dialog act on what they saw before, *)
(* a failed one is the last, and every live message is parsed once, before *)
(* the end of its connection is.                                           *)
(***************************************************************************)
EXTENDS Session, ConnectionProofs, Induction

-----------------------------------------------------------------------------
(* What the type of the room's state rests on: m_id is the number of a      *)
(* connection, and it is one as soon as a thread is about to be started.    *)
RoomInv ==
    /\ RoomTypeOK
    /\ Current => m_id < m_next_id
    /\ ui = "spawn" => Current

(* The heartbeat thread of the current connection has started, or is about  *)
(* to; it looks at the status of its own connection; numbers not yet given  *)
(* have no thread.                                                          *)
BeatInv ==
    /\ OpenHasHeartBeat
    /\ Current /\ beat[m_id].pc = "status" => beat[m_id].id = m_id
    /\ \A b \in Ids : ~Known(b) => beat[b].pc = "none"

(* A step of Connection leaves a closed connection closed and a failed one  *)
(* failed, and numbers are not taken back.                                  *)
LEMMA FinalStays ==
    ASSUME ConnectionBounds, TypeInv, StatusInv, [Next]_vars, NEW i \in Ids,
           m_status[i] \in {"Closed", "Failed"}
    PROVE  m_status'[i] = m_status[i]
<1>0. io.id \in Ids /\ ws[i] = "closed" /\ pending[i] = "no"
    BY DEF TypeInv, TypeOK, StatusInv, StatusFollowsSession
<1>1. CASE Connect
    <2>1. m_next_id \in Ids /\ ~Known(m_next_id)
        BY <1>1 DEF Connect, TypeInv, TypeOK, Ids, Known, ConnectionBounds
    <2>2. m_next_id # i
        BY <2>1 DEF StatusInv, StatusFollowsSession
    <2> QED
        BY <1>1, <2>1, <2>2 DEF Connect, TypeInv, TypeOK
<1>2. CASE OnOpenStatus
    <2>1. io.id # i
        BY <1>2 DEF OnOpenStatus, StatusInv, HandlerAgrees
    <2> QED
        BY <1>0, <1>2, <2>1 DEF OnOpenStatus, TypeInv, TypeOK
<1>3. ASSUME NEW j \in Ids, HandleTerminate(j) PROVE m_status'[i] = m_status[i]
    <2>1. j # i
        BY <1>0, <1>3 DEF HandleTerminate
    <2> QED
        BY <1>3, <2>1 DEF HandleTerminate, TypeInv, TypeOK
<1>4. CASE UNCHANGED m_status
    BY <1>4
<1>5. Connect \/ OnOpenStatus \/ (\E j \in Ids : HandleTerminate(j)) \/ UNCHANGED m_status
    BY DEF Next, vars, IoThread, Handler, Program, Destructor, Disconnect, RetrieveCopy,
           RetrieveClear, HandshakeDone, OnOpenNotice, OnOpenHello, FrameArrives, OnMessage,
           PeerCloses, Terminate, TerminalNotice, DtorBegin, DtorVisit, DtorJoin
<1> QED
    BY <1>1, <1>2, <1>3, <1>4, <1>5

LEMMA NumbersGrow ==
    ASSUME TypeInv, ConnectionBounds, [Next]_vars
    PROVE  m_next_id \in Nat /\ m_next_id' \in {m_next_id, m_next_id + 1}
<1>1. m_next_id \in Nat
    BY DEF TypeInv, TypeOK, ConnectionBounds
<1>2. Connect \/ UNCHANGED m_next_id
    BY DEF Next, vars, session, IoThread, Handler, Program, Destructor, Disconnect, RetrieveCopy,
           RetrieveClear, HandshakeDone, OnOpenStatus, OnOpenNotice, OnOpenHello, FrameArrives,
           OnMessage, PeerCloses, Terminate, HandleTerminate, TerminalNotice, DtorBegin,
           DtorVisit, DtorJoin
<1> QED
    BY <1>1, <1>2 DEF Connect

-----------------------------------------------------------------------------
(* Every step of Room is one of Connection, or none to it. *)
LEMMA RoomStep == ASSUME RoomInv, [RoomNext]_allRoomVars PROVE [Next]_vars
<1>1. CASE ConnectSteps
    BY <1>1 DEF ConnectSteps, ConnectEndPoint, ConnectFails, SpawnHeartBeat, Next, Program
<1>2. CASE RoomDisconnect("idle")
    <2>1. Current => m_id \in Ids
        BY DEF RoomInv, RoomTypeOK, Current
    <2> QED
        BY <1>2, <2>1 DEF RoomDisconnect, Next, Program
<1>3. CASE Destroy
    BY <1>3 DEF Destroy, Next, Destructor
<1>4. CASE IoThread
    BY <1>4 DEF Next
<1>5. CASE UNCHANGED vars
    BY <1>5
<1>6. ASSUME NEW r \in RoomIds, Join(r) PROVE UNCHANGED vars
    BY <1>6 DEF Join
<1>7. CASE ConnectBegin \/ Return \/ heartBeat \/ clear
    BY <1>7 DEF ConnectBegin, Return, heartBeat, clear
<1>8. ASSUME NEW b \in Ids, HeartBeatThread(b) PROVE UNCHANGED vars
    BY <1>8 DEF HeartBeatThread, BeatLook, BeatStatus, Beat
<1>9. CASE UNCHANGED allRoomVars
    BY <1>9 DEF allRoomVars
<1> QED
    BY <1>1, <1>2, <1>3, <1>4, <1>5, <1>6, <1>7, <1>8, <1>9 DEF RoomNext, RoomLives

LEMMA RoomInvInit == ASSUME RoomBounds, ConnectionBounds, RoomInit PROVE RoomInv
<1>1. 0 \in Ids /\ 0 \in 0 .. EveryTick - 1
    BY DEF ConnectionBounds, RoomBounds, Ids
<1> QED
    BY <1>1 DEF RoomInit, RoomInv, RoomTypeOK, Current, BeatPoints

(* The room's variables without the connection's.                           *)
LEMMA RoomInvSame ==
    ASSUME ConnectionBounds, TypeInv, RoomInv, [Next]_vars, UNCHANGED roomVars
    PROVE  RoomInv'
<1>1. m_next_id \in Nat /\ m_next_id' \in {m_next_id, m_next_id + 1}
    BY NumbersGrow
<1>2. Current => m_id \in Nat
    BY DEF RoomInv, RoomTypeOK, Current, Ids
<1> QED
    BY <1>1, <1>2 DEF RoomInv, RoomTypeOK, roomVars, Current

(* The type of the heartbeat threads; what changes a field keeps it, and so *)
(* does what changes two or all.                                            *)
Beats == [Ids -> [pc : BeatPoints, id : Ids, ticks : 0 .. EveryTick - 1]]

LEMMA BeatPc ==
    ASSUME NEW f \in Beats, NEW b \in Ids, NEW pc \in BeatPoints
    PROVE  [f EXCEPT ![b].pc = pc] \in Beats
BY DEF Beats

LEMMA BeatId ==
    ASSUME NEW f \in Beats, NEW b \in Ids, NEW id \in Ids
    PROVE  [f EXCEPT ![b].id = id] \in Beats
BY DEF Beats

LEMMA BeatTicks ==
    ASSUME NEW f \in Beats, NEW b \in Ids, NEW t \in 0 .. EveryTick - 1
    PROVE  [f EXCEPT ![b].ticks = t] \in Beats
BY DEF Beats

LEMMA BeatTwo ==
    ASSUME NEW f \in Beats, NEW b \in Ids, NEW pc \in BeatPoints, NEW id \in Ids
    PROVE  [f EXCEPT ![b].pc = pc, ![b].id = id] \in Beats
<1> DEFINE one == [f EXCEPT ![b].pc = pc]
<1>1. one \in Beats
    BY BeatPc
<1>2. [f EXCEPT ![b].pc = pc, ![b].id = id] = [one EXCEPT ![b].id = id]
    BY DEF Beats
<1> HIDE DEF one
<1>3. [one EXCEPT ![b].id = id] \in Beats
    BY <1>1, BeatId
<1> QED
    BY <1>2, <1>3

LEMMA BeatAll ==
    ASSUME NEW f \in Beats, NEW b \in Ids, NEW pc \in BeatPoints, NEW id \in Ids,
           NEW t \in 0 .. EveryTick - 1
    PROVE  [f EXCEPT ![b].pc = pc, ![b].id = id, ![b].ticks = t] \in Beats
<1> DEFINE two == [f EXCEPT ![b].pc = pc, ![b].id = id]
<1>1. two \in Beats
    BY BeatTwo
<1>2. [f EXCEPT ![b].pc = pc, ![b].id = id, ![b].ticks = t] = [two EXCEPT ![b].ticks = t]
    BY DEF Beats
<1> HIDE DEF two
<1>3. [two EXCEPT ![b].ticks = t] \in Beats
    BY <1>1, BeatTicks
<1> QED
    BY <1>2, <1>3

(* One turn of the ticks. *)
LEMMA TickInRange ==
    ASSUME RoomBounds, NEW t \in 0 .. EveryTick - 1
    PROVE  (t + 1) % EveryTick \in 0 .. EveryTick - 1
BY DEF RoomBounds

LEMMA RoomInvStep ==
    ASSUME RoomBounds, ConnectionBounds, TypeInv, RoomInv, [RoomNext]_allRoomVars
    PROVE  RoomInv'
<1>1. [Next]_vars
    BY RoomStep
<1>2. m_next_id \in Nat /\ m_next_id' \in {m_next_id, m_next_id + 1}
    BY <1>1, NumbersGrow
<1>3. Current => m_id \in Nat
    BY DEF RoomInv, RoomTypeOK, Current, Ids
<1>4. CASE UNCHANGED roomVars
    BY <1>1, <1>4, RoomInvSame
<1>5. ASSUME NEW r \in RoomIds, Join(r) PROVE RoomInv'
    BY <1>5 DEF Join, RoomInv, RoomTypeOK, Current, vars, session
<1>6. CASE ConnectBegin \/ Return \/ heartBeat \/ clear
    BY <1>6 DEF ConnectBegin, Return, heartBeat, clear, SendHeart, RoomInv, RoomTypeOK, Current,
                vars, session
<1>7. CASE ConnectEndPoint
    <2>1. m_next_id \in Ids /\ m_id' = m_next_id /\ m_next_id' = m_next_id + 1
        BY <1>2, <1>7 DEF ConnectEndPoint, Connect, Ids, ConnectionBounds
    <2>2. m_next_id # NoId
        BY <1>2 DEF NoId
    <2> QED
        BY <1>2, <1>7, <2>1, <2>2 DEF ConnectEndPoint, RoomInv, RoomTypeOK, Current
<1>8. CASE ConnectFails
    BY <1>8 DEF ConnectFails, RoomInv, RoomTypeOK, Current
<1>9. CASE SpawnHeartBeat
    <2>1. m_id \in Ids
        BY <1>9 DEF SpawnHeartBeat, RoomInv, RoomTypeOK, Current
    <2>2. beat' \in [Ids -> [pc : BeatPoints, id : Ids, ticks : 0 .. EveryTick - 1]]
        BY <1>9, <2>1 DEF SpawnHeartBeat, RoomInv, RoomTypeOK, BeatPoints
    <2> QED
        BY <1>9, <2>2 DEF SpawnHeartBeat, RoomInv, RoomTypeOK, Current, vars, session
<1>10. CASE RoomDisconnect("idle")
    <2>1. UNCHANGED m_next_id
        BY <1>10 DEF RoomDisconnect, Disconnect, vars, session
    <2> QED
        BY <1>10, <2>1 DEF RoomDisconnect, RoomInv, RoomTypeOK, Current
<1>11. ASSUME NEW b \in Ids, HeartBeatThread(b) PROVE RoomInv'
    <2>0. beat \in Beats
        BY DEF Beats, RoomInv, RoomTypeOK
    <2>1. CASE BeatLook(b)
        <3>1. Current => m_id \in Ids
            BY DEF RoomInv, RoomTypeOK, Current
        <3> QED
            BY <2>1, <3>1 DEF BeatLook, RoomInv, RoomTypeOK, Current, BeatPoints, vars, session
    <2>2. CASE BeatStatus(b)
        <3>1. 0 \in Ids
            BY DEF ConnectionBounds, Ids
        <3>2. beat' \in Beats
            <4>1. CASE m_status[beat[b].id] = "Open"
                <5>1. beat' = [beat EXCEPT ![b].pc = "beat", ![b].id = beat[b].id]
                    BY <2>2, <4>1 DEF BeatStatus
                <5>2. "beat" \in BeatPoints /\ beat[b].id \in Ids
                    BY DEF RoomInv, RoomTypeOK, BeatPoints
                <5> QED
                    BY <2>0, <5>1, <5>2, BeatTwo
            <4>2. CASE m_status[beat[b].id] # "Open"
                <5>1. PICK pc \in {"done", "look"} : beat' = [beat EXCEPT ![b].pc = pc, ![b].id = 0]
                    BY <2>2, <4>2 DEF BeatStatus
                <5>2. pc \in BeatPoints
                    BY DEF BeatPoints
                <5> QED
                    BY <2>0, <3>1, <5>1, <5>2, BeatTwo
            <4> QED
                BY <4>1, <4>2
        <3>3. UNCHANGED <<vars, m_roomid, m_id, ui, heart>>
            BY <2>2 DEF BeatStatus
        <3> QED
            BY <3>2, <3>3 DEF Beats, RoomInv, RoomTypeOK, Current, vars, session
    <2>3. CASE Beat(b)
        <3>1. 0 \in Ids /\ (beat[b].ticks + 1) % EveryTick \in 0 .. EveryTick - 1
            <4>1. beat[b].ticks \in 0 .. EveryTick - 1
                BY <2>0 DEF Beats
            <4> QED
                BY <4>1, TickInRange DEF ConnectionBounds, Ids
        <3>2. beat' \in Beats
            <4>1. "look" \in BeatPoints
                BY DEF BeatPoints
            <4>2. beat' = [beat EXCEPT ![b].pc = "look", ![b].id = 0,
                                       ![b].ticks = (beat[b].ticks + 1) % EveryTick]
                BY <2>3 DEF Beat
            <4> QED
                BY <2>0, <3>1, <4>1, <4>2, BeatAll
        <3>3. heart' \in {"sent", "rest"} /\ UNCHANGED <<vars, m_roomid, m_id, ui>>
            BY <2>3 DEF Beat, SendHeart
        <3> QED
            BY <3>2, <3>3 DEF Beats, RoomInv, RoomTypeOK, Current, vars, session
    <2> QED
        BY <1>11, <2>1, <2>2, <2>3 DEF HeartBeatThread
<1>12. UNCHANGED allRoomVars => UNCHANGED roomVars
    BY DEF allRoomVars
<1> QED
    BY <1>4, <1>5, <1>6, <1>7, <1>8, <1>9, <1>10, <1>11, <1>12
       DEF RoomNext, RoomLives, ConnectSteps, Destroy

(* What a Room does with connections is a behaviour of Connection, so what  *)
(* is proved of Connection holds under a Room, however it joins, connects,  *)
(* disconnects and beats.                                                   *)
THEOREM RoomImplements == RoomSafety => Safety
<1>1. RoomInit => Init
    BY DEF RoomInit
<1>2. RoomSafety => [](TypeInv /\ RoomInv)
    <2>1. RoomInit => TypeInv /\ RoomInv
        BY <1>1, ConnectionBounds, RoomBounds, TypeInit, RoomInvInit
    <2>2. TypeInv /\ RoomInv /\ [RoomNext]_allRoomVars => (TypeInv /\ RoomInv)'
        BY ConnectionBounds, RoomBounds, RoomStep, TypeStep, RoomInvStep
    <2> QED
        BY <2>1, <2>2, PTL DEF RoomSafety
<1>3. RoomInv /\ [RoomNext]_allRoomVars => [Next]_vars
    BY RoomStep
<1> QED
    BY <1>1, <1>2, <1>3, PTL DEF RoomSafety, Safety

(* The room's own state always has its type: m_id is the number of a        *)
(* connection or -1, and the ticks come round.                              *)
THEOREM RoomTypeCorrect == RoomSafety => []RoomTypeOK
<1>1. RoomInit => TypeInv /\ RoomInv
    BY ConnectionBounds, RoomBounds, TypeInit, RoomInvInit DEF RoomInit
<1>2. TypeInv /\ RoomInv /\ [RoomNext]_allRoomVars => (TypeInv /\ RoomInv)'
    BY ConnectionBounds, RoomBounds, RoomStep, TypeStep, RoomInvStep
<1>3. RoomInv => RoomTypeOK
    BY DEF RoomInv
<1> QED
    BY <1>1, <1>2, <1>3, PTL DEF RoomSafety

-----------------------------------------------------------------------------
(* What is proved of the status and the mailboxes holds under a Room, too:  *)
(* its heartbeat threads and its owner read that status.                    *)
THEOREM RoomStatus == RoomSafety => [](StatusFollowsSession /\ LiveExactlyOnce)
<1>1. RoomSafety => []StatusFollowsSession
    BY RoomImplements, StatusCorrect, PTL
<1>2. RoomSafety => []LiveExactlyOnce
    BY RoomImplements, ExactlyOnce, PTL
<1> QED
    BY <1>1, <1>2, PTL

LEMMA BeatInvInit == ASSUME RoomInit PROVE BeatInv
BY DEF RoomInit, BeatInv, OpenHasHeartBeat, Current, NoId

(* Steps that leave the calling thread and the heartbeat threads alone.     *)
LEMMA BeatInvSame ==
    ASSUME ConnectionBounds, TypeInv, StatusInv, RoomInv, BeatInv, [Next]_vars,
           UNCHANGED <<m_id, beat>>, (ui = "spawn") <=> (ui' = "spawn")
    PROVE  BeatInv'
<1>1. m_next_id \in Nat /\ m_next_id' \in {m_next_id, m_next_id + 1}
    BY NumbersGrow
<1>2. Current => m_id \in Ids
    BY DEF RoomInv, RoomTypeOK, Current
<1>3. OpenHasHeartBeat'
    <2>1. Current /\ m_status[m_id] = "Closed" => m_status'[m_id] = "Closed"
        BY <1>2, FinalStays
    <2> QED
        BY <2>1 DEF BeatInv, OpenHasHeartBeat, Current, Beating
<1>4. \A b \in Ids : ~Known(b)' => ~Known(b)
    BY <1>1 DEF Known, Ids
<1> QED
    BY <1>3, <1>4 DEF BeatInv, Current, Known

LEMMA BeatInvStep ==
    ASSUME RoomBounds, ConnectionBounds, TypeInv, StatusInv, RoomInv, BeatInv,
           [RoomNext]_allRoomVars
    PROVE  BeatInv'
<1>1. [Next]_vars
    BY RoomStep
<1>2. Current => m_id \in Ids
    BY DEF RoomInv, RoomTypeOK, Current
<1>3. CASE UNCHANGED roomVars
    BY <1>1, <1>3, BeatInvSame DEF roomVars
<1>4. ASSUME NEW r \in RoomIds, Join(r) PROVE BeatInv'
    BY <1>1, <1>4, BeatInvSame DEF Join
<1>5. CASE ConnectBegin \/ Return \/ heartBeat \/ clear \/ RoomDisconnect("idle")
    BY <1>1, <1>5, BeatInvSame DEF ConnectBegin, Return, heartBeat, clear, RoomDisconnect
<1>6. CASE ConnectEndPoint
    <2>1. /\ m_next_id \in Nat /\ m_id' = m_next_id /\ m_next_id' = m_next_id + 1
          /\ m_next_id \in Ids /\ beat' = beat /\ ui' = "spawn"
        BY <1>6 DEF ConnectEndPoint, Connect, TypeInv, TypeOK, Ids, ConnectionBounds
    <2>2. beat[m_next_id].pc = "none"
        BY <2>1 DEF BeatInv, Known
    <2>3. \A b \in Ids : ~Known(b)' => ~Known(b)
        BY <2>1 DEF Known, Ids
    <2> QED
        BY <2>1, <2>2, <2>3 DEF BeatInv, OpenHasHeartBeat
<1>7. CASE ConnectFails
    BY <1>7 DEF ConnectFails, BeatInv, OpenHasHeartBeat, Current, Known, vars, session
<1>8. CASE SpawnHeartBeat
    <2>1. /\ Current /\ m_id \in Ids /\ Known(m_id)
          /\ UNCHANGED <<m_id, m_next_id>>
        BY <1>2, <1>8 DEF SpawnHeartBeat, RoomInv, Known, vars, session
    <2>2. /\ beat'[m_id].pc = "look"
          /\ \A b \in Ids : b # m_id => beat'[b] = beat[b]
        BY <1>8, <2>1 DEF SpawnHeartBeat, RoomInv, RoomTypeOK
    <2> QED
        BY <2>1, <2>2 DEF BeatInv, OpenHasHeartBeat, Beating, Known
<1>9. ASSUME NEW b \in Ids, HeartBeatThread(b) PROVE BeatInv'
    <2>1. /\ UNCHANGED <<m_id, m_next_id, m_status, ui>> /\ beat[b].pc # "none"
          /\ \A c \in Ids : c # b => beat'[c] = beat[c]
        BY <1>9 DEF HeartBeatThread, BeatLook, BeatStatus, Beat, RoomInv, RoomTypeOK, vars, session
    <2>2. Known(b)
        BY <2>1 DEF BeatInv
    <2>3. CASE b # m_id
        BY <1>2, <2>1, <2>2, <2>3 DEF BeatInv, OpenHasHeartBeat, Beating, Known, Current
    <2>4. CASE ~Current
        BY <2>1, <2>2, <2>4 DEF BeatInv, OpenHasHeartBeat, Known, Current
    <2>5. CASE b = m_id /\ Current
        <3>1. \/ beat'[b].pc = "status" /\ beat'[b].id = m_id
              \/ beat'[b].pc \in {"look", "beat"}
              \/ m_status[m_id] = "Closed" /\ beat'[b].pc = "done"
            <4>1. CASE BeatLook(b)
                BY <2>5, <4>1 DEF BeatLook, RoomInv, RoomTypeOK
            <4>2. CASE BeatStatus(b)
                <5>1. beat[b].id = m_id
                    BY <2>5, <4>2 DEF BeatStatus, BeatInv
                <5> QED
                    BY <4>2, <5>1 DEF BeatStatus, RoomInv, RoomTypeOK
            <4>3. CASE Beat(b)
                BY <4>3 DEF Beat, RoomInv, RoomTypeOK
            <4> QED
                BY <1>9, <4>1, <4>2, <4>3 DEF HeartBeatThread
        <3> QED
            BY <2>1, <2>2, <2>5, <3>1 DEF BeatInv, OpenHasHeartBeat, Beating, Known, Current
    <2> QED
        BY <2>3, <2>4, <2>5
<1>10. UNCHANGED allRoomVars => UNCHANGED roomVars
    BY DEF allRoomVars
<1> QED
    BY <1>3, <1>4, <1>5, <1>6, <1>7, <1>8, <1>9, <1>10
       DEF RoomNext, RoomLives, ConnectSteps, Destroy

(* Once connect() has returned, the current connection has the heartbeat    *)
(* thread started for it until it is Closed, whatever m_id goes through     *)
(* while that thread and those of earlier connections read it.              *)
THEOREM HeartBeatCorrect == RoomSafety => []OpenHasHeartBeat
<1> DEFINE Inv == TypeInv /\ StatusInv /\ RoomInv /\ BeatInv
<1>1. RoomInit => Inv
    BY ConnectionBounds, RoomBounds, TypeInit, StatusInit, RoomInvInit, BeatInvInit DEF RoomInit
<1>2. Inv /\ [RoomNext]_allRoomVars => Inv'
    BY ConnectionBounds, RoomBounds, RoomStep, TypeStep, StatusStep, RoomInvStep, BeatInvStep
<1>3. Inv => OpenHasHeartBeat
    BY DEF BeatInv
<1> QED
    BY <1>1, <1>2, <1>3, PTL DEF RoomSafety

-----------------------------------------------------------------------------
(* The fetch threads; what changes one or two fields keeps their type.      *)
Fetches == [Fetchers -> [pc : FetchPoints, id : Ids, batch : Seq(Messages)]]

LEMMA FetchPc ==
    ASSUME NEW g \in Fetches, NEW f \in Fetchers, NEW pc \in FetchPoints
    PROVE  [g EXCEPT ![f].pc = pc] \in Fetches
BY DEF Fetches

LEMMA FetchId ==
    ASSUME NEW g \in Fetches, NEW f \in Fetchers, NEW id \in Ids
    PROVE  [g EXCEPT ![f].id = id] \in Fetches
BY DEF Fetches

LEMMA FetchBatch ==
    ASSUME NEW g \in Fetches, NEW f \in Fetchers, NEW batch \in Seq(Messages)
    PROVE  [g EXCEPT ![f].batch = batch] \in Fetches
BY DEF Fetches

LEMMA FetchPcId ==
    ASSUME NEW g \in Fetches, NEW f \in Fetchers, NEW pc \in FetchPoints, NEW id \in Ids
    PROVE  [g EXCEPT ![f].pc = pc, ![f].id = id] \in Fetches
<1> DEFINE one == [g EXCEPT ![f].pc = pc]
<1>1. one \in Fetches
    BY FetchPc
<1>2. [g EXCEPT ![f].pc = pc, ![f].id = id] = [one EXCEPT ![f].id = id]
    BY DEF Fetches
<1> HIDE DEF one
<1>3. [one EXCEPT ![f].id = id] \in Fetches
    BY <1>1, FetchId
<1> QED
    BY <1>2, <1>3

LEMMA FetchPcBatch ==
    ASSUME NEW g \in Fetches, NEW f \in Fetchers, NEW pc \in FetchPoints,
           NEW batch \in Seq(Messages)
    PROVE  [g EXCEPT ![f].pc = pc, ![f].batch = batch] \in Fetches
<1> DEFINE one == [g EXCEPT ![f].pc = pc]
<1>1. one \in Fetches
    BY FetchPc
<1>2. [g EXCEPT ![f].pc = pc, ![f].batch = batch] = [one EXCEPT ![f].batch = batch]
    BY DEF Fetches
<1> HIDE DEF one
<1>3. [one EXCEPT ![f].batch = batch] \in Fetches
    BY <1>1, FetchBatch
<1> QED
    BY <1>2, <1>3

-----------------------------------------------------------------------------
(* The numbers the session passes on are numbers of connections.            *)
NumberInv == m_id \in Ids \cup {NoId} /\ fetch \in Fetches

Alive(i) == ws[i] \in {"connecting", "open"}
Connecting == ui \in {"uri", "spawn", "return", "fetch"}

(* Only the current connection lives, and none while another is being made; *)
(* what the menu and the dialog saw still holds as far as it matters.       *)
OnlyCurrent ==
    /\ \A i \in Ids : Alive(i) => i = m_id
    /\ ui = "uri" => \A i \in Ids : ~Alive(i)

MenuHolds ==
    /\ dialog \in BOOLEAN
    /\ menu \in {"none", "connect", "live"}
    /\ menu # "none" => ui = "idle"
    /\ menu = "connect" \/ dialog = TRUE => isClosed
    /\ menu = "live" => dialog = FALSE /\ Current /\ m_status[m_id] \in {"Open", "Closed"}
    /\ Connecting => dialog = FALSE

(* Every step of Session is one of Connection, or none to it. *)
LEMMA SessionStep ==
    ASSUME NumberInv, [SessionNext]_allVars
    PROVE  [Next]_vars
<1> DEFINE Same == UNCHANGED vars
<1>0. ASSUME NEW next, RoomDisconnect(next) PROVE [Next]_vars
    <2>1. Current => m_id \in Ids
        BY DEF NumberInv, Current
    <2> QED
        BY <1>0, <2>1 DEF RoomDisconnect, Next, Program
<1>1. CASE initMenu \/ Dismiss \/ ConnectTo \/ ConnectDlgOk \/ ConnectDlgCancel
    BY <1>1 DEF initMenu, Dismiss, ConnectTo, ConnectDlgOk, ConnectDlgCancel, allRoomVars
<1>2. CASE CommandDisconnect \/ CommandReconnect \/ Quit
    <2>1. (\E next \in {"idle", "return", "uri", "quit"} : RoomDisconnect(next)) \/ Same
        BY <1>2 DEF CommandDisconnect, CommandReconnect, Quit
    <2> QED
        BY <1>0, <2>1
<1>3. CASE WindowGoesOn
    <2>1. CASE ConnectSteps
        BY <2>1 DEF ConnectSteps, ConnectEndPoint, ConnectFails, SpawnHeartBeat, Next, Program
    <2>2. CASE DtorVisit \/ DtorJoin \/ DestroyRoom
        BY <2>2 DEF DestroyRoom, Next, Destructor
    <2>3. CASE LowerFlag \/ StartFetch \/ RaiseFlag
        BY <2>3 DEF LowerFlag, StartFetch, RaiseFlag
    <2> QED
        BY <1>3, <2>1, <2>2, <2>3 DEF WindowGoesOn
<1>4. ASSUME NEW f \in Fetchers, FetchThread(f) PROVE [Next]_vars
    <2>1. CASE FetchCopy(f)
        BY <2>1 DEF FetchCopy, NumberInv, Current, Next, Program
    <2>2. CASE FetchClear(f)
        BY <2>2 DEF FetchClear, NumberInv, Fetches, Next, Program
    <2>3. CASE FetchParse(f) \/ FetchCheck(f)
        BY <2>3 DEF FetchParse, FetchCheck, allRoomVars
    <2> QED
        BY <1>4, <2>1, <2>2, <2>3 DEF FetchThread
<1>5. CASE IoThread
    BY <1>5 DEF Next
<1>6. CASE UNCHANGED allVars
    BY <1>6 DEF allVars, allRoomVars
<1> QED
    BY <1>1, <1>2, <1>3, <1>4, <1>5, <1>6 DEF SessionNext, Window

LEMMA NumberInit == ASSUME ConnectionBounds, SessionInit PROVE NumberInv
<1>1. 0 \in Ids /\ <<>> \in Seq(Messages)
    BY EmptySeq DEF ConnectionBounds, Ids
<1> QED
    BY <1>1 DEF SessionInit, RoomInit, NumberInv, Fetches, FetchPoints

LEMMA NumberStep ==
    ASSUME ConnectionBounds, TypeInv, NumberInv, [SessionNext]_allVars
    PROVE  NumberInv'
<1>1. 0 \in Ids /\ (m_next_id < MaxConnections => m_next_id \in Ids)
    BY DEF ConnectionBounds, Ids, TypeInv, TypeOK
<1>2. m_id' \in Ids \cup {NoId}
    <2>1. ConnectEndPoint => m_id' \in Ids
        BY <1>1 DEF ConnectEndPoint, Connect
    <2>2. ConnectFails => m_id' = NoId
        BY DEF ConnectFails
    <2>3. ConnectEndPoint \/ ConnectFails \/ m_id' = m_id
        BY DEF SessionNext, Window, WindowGoesOn, ConnectSteps, SpawnHeartBeat, initMenu, Dismiss,
               ConnectTo, ConnectDlgOk, ConnectDlgCancel, CommandDisconnect, CommandReconnect,
               Quit, RoomDisconnect, LowerFlag, StartFetch, RaiseFlag, DestroyRoom, FetchThread,
               FetchCopy, FetchClear, FetchParse, FetchCheck, allVars, allRoomVars, roomVars
    <2> QED
        BY <2>1, <2>2, <2>3 DEF NumberInv
<1>3. CASE UNCHANGED fetch
    BY <1>2, <1>3 DEF NumberInv
<1>4. CASE StartFetch
    <2>1. PICK f : fetch' = [fetch EXCEPT ![f].pc = "copy"]
        BY <1>4 DEF StartFetch
    <2>2. CASE f \in Fetchers
        <3>1. "copy" \in FetchPoints
            BY DEF FetchPoints
        <3> QED
            BY <1>2, <2>1, <2>2, <3>1, FetchPc DEF NumberInv
    <2>3. CASE f \notin Fetchers
        BY <1>2, <2>1, <2>3 DEF NumberInv, Fetches
    <2> QED
        BY <2>2, <2>3
<1>5. ASSUME NEW f \in Fetchers, FetchThread(f) PROVE NumberInv'
    <2>0. fetch \in Fetches /\ {"copy", "clear", "parse", "done"} \subseteq FetchPoints
        BY DEF NumberInv, FetchPoints
    <2>1. CASE FetchCopy(f)
        <3>1. CASE Current
            <4>1. m_id \in Ids
                BY <3>1 DEF NumberInv, Current
            <4>2. fetch' = [fetch EXCEPT ![f].pc = "clear", ![f].id = m_id]
                BY <2>1, <3>1 DEF FetchCopy
            <4> QED
                BY <1>2, <2>0, <4>1, <4>2, FetchPcId DEF NumberInv
        <3>2. CASE ~Current
            <4>1. fetch' = [fetch EXCEPT ![f].pc = "parse"]
                BY <2>1, <3>2 DEF FetchCopy
            <4> QED
                BY <1>2, <2>0, <4>1, FetchPc DEF NumberInv
        <3> QED
            BY <3>1, <3>2
    <2>2. CASE FetchClear(f)
        <3>1. result[fetch[f].id] \in Seq(Messages)
            BY <2>0 DEF Fetches, TypeInv, TypeOK
        <3>2. fetch' = [fetch EXCEPT ![f].pc = "parse", ![f].batch = result[fetch[f].id]]
            BY <2>2 DEF FetchClear
        <3> QED
            BY <1>2, <2>0, <3>1, <3>2, FetchPcBatch DEF NumberInv
    <2>3. CASE FetchParse(f)
        <3>1. fetch[f].batch \in Seq(Messages) /\ fetch[f].batch # <<>>
            BY <2>0, <2>3 DEF FetchParse, Fetches
        <3>2. Tail(fetch[f].batch) \in Seq(Messages)
            BY <3>1, HeadTailProperties
        <3>3. fetch' = [fetch EXCEPT ![f].batch = Tail(fetch[f].batch)]
            BY <2>3 DEF FetchParse
        <3> QED
            BY <1>2, <2>0, <3>2, <3>3, FetchBatch DEF NumberInv
    <2>4. CASE FetchCheck(f)
        <3>1. PICK pc \in {"done", "copy"} : fetch' = [fetch EXCEPT ![f].pc = pc, ![f].id = 0]
            BY <2>4 DEF FetchCheck
        <3> QED
            BY <1>1, <1>2, <2>0, <3>1, FetchPcId DEF NumberInv
    <2> QED
        BY <1>5, <2>1, <2>2, <2>3, <2>4 DEF FetchThread
<1> QED
    BY <1>3, <1>4, <1>5
       DEF SessionNext, Window, WindowGoesOn, initMenu, Dismiss, ConnectTo, ConnectDlgOk,
           ConnectDlgCancel, CommandDisconnect, CommandReconnect, Quit, LowerFlag, RaiseFlag,
           DestroyRoom, allVars, sessionVars

(* What a Session does with connections is a behaviour of Connection, so    *)
(* what is proved of Connection holds of the whole program.                 *)
THEOREM SessionImplements == SessionSafety => Safety
<1>1. SessionInit => Init
    BY DEF SessionInit, RoomInit
<1>2. SessionSafety => [](TypeInv /\ NumberInv)
    <2>1. SessionInit => TypeInv /\ NumberInv
        BY <1>1, ConnectionBounds, TypeInit, NumberInit
    <2>2. TypeInv /\ NumberInv /\ [SessionNext]_allVars => (TypeInv /\ NumberInv)'
        BY ConnectionBounds, SessionStep, TypeStep, NumberStep
    <2> QED
        BY <2>1, <2>2, PTL DEF SessionSafety
<1>3. NumberInv /\ [SessionNext]_allVars => [Next]_vars
    BY SessionStep
<1> QED
    BY <1>1, <1>2, <1>3, PTL DEF SessionSafety, Safety

-----------------------------------------------------------------------------
(* What the status says of a session's life, and what a step of Connection  *)
(* can make of both.                                                        *)
LEMMA StatusOfAlive ==
    ASSUME TypeInv, StatusInv, NEW i \in Ids
    PROVE  /\ m_status[i] \in {"Closed", "Failed"} => ~Alive(i)
           /\ m_status[i] = "Open" => ws[i] # "connecting"
BY DEF StatusInv, StatusFollowsSession, Alive

LEMMA FewerAlive ==
    ASSUME ConnectionBounds, TypeInv, [Next]_vars, UNCHANGED m_next_id, NEW i \in Ids, Alive(i)'
    PROVE  Alive(i)
<1>1. ~Connect
    BY DEF Connect, TypeInv, TypeOK, ConnectionBounds
<1>2. ASSUME NEW j, WsClose(j) PROVE Alive(i)
    BY <1>2 DEF WsClose, Alive, TypeInv, TypeOK
<1>3. ASSUME NEW j \in Ids, Disconnect(j) \/ PeerCloses(j) PROVE Alive(i)
    BY <1>2, <1>3 DEF Disconnect, PeerCloses
<1>4. ASSUME NEW j \in Ids, HandshakeDone(j) PROVE Alive(i)
    BY <1>4 DEF HandshakeDone, Alive, TypeInv, TypeOK
<1>5. ASSUME NEW j \in Ids, Terminate(j) PROVE Alive(i)
    BY <1>5 DEF Terminate, Alive, TypeInv, TypeOK
<1>6. CASE DtorVisit
    BY <1>2, <1>6 DEF DtorVisit, Alive
<1>7. CASE UNCHANGED ws
    BY <1>7 DEF Alive
<1>8. \/ UNCHANGED ws \/ DtorVisit
      \/ \E j \in Ids : Disconnect(j) \/ PeerCloses(j) \/ HandshakeDone(j) \/ Terminate(j)
    BY <1>1 DEF Next, vars, session, IoThread, Handler, Program, Destructor, RetrieveCopy,
                RetrieveClear, OnOpenStatus, OnOpenNotice, OnOpenHello, FrameArrives, OnMessage,
                HandleTerminate, TerminalNotice, DtorBegin, DtorJoin
<1> QED
    BY <1>3, <1>4, <1>5, <1>6, <1>7, <1>8

LEMMA OpenStaysOrCloses ==
    ASSUME ConnectionBounds, TypeInv, StatusInv, [Next]_vars, UNCHANGED m_next_id,
           NEW i \in Ids, m_status[i] \in {"Open", "Closed"}
    PROVE  m_status'[i] \in {"Open", "Closed"}
<1>0. io.id \in Ids
    BY DEF TypeInv, TypeOK
<1>1. ~Connect
    BY DEF Connect, TypeInv, TypeOK, ConnectionBounds
<1>2. CASE OnOpenStatus
    BY <1>0, <1>2 DEF OnOpenStatus, TypeInv, TypeOK
<1>3. ASSUME NEW j \in Ids, HandleTerminate(j) PROVE m_status'[i] \in {"Open", "Closed"}
    <2>1. j = i => pending[j] # "fail"
        BY DEF StatusInv, SessionAgrees
    <2> QED
        BY <1>3, <2>1 DEF HandleTerminate, TypeInv, TypeOK
<1>4. OnOpenStatus \/ (\E j \in Ids : HandleTerminate(j)) \/ UNCHANGED m_status
    BY <1>1 DEF Next, vars, IoThread, Handler, Program, Destructor, Disconnect, RetrieveCopy,
           RetrieveClear, HandshakeDone, OnOpenNotice, OnOpenHello, FrameArrives, OnMessage,
           PeerCloses, Terminate, TerminalNotice, DtorBegin, DtorVisit, DtorJoin
<1> QED
    BY <1>2, <1>3, <1>4

-----------------------------------------------------------------------------
SessionInv == TypeInv /\ StatusInv /\ NumberInv /\ OnlyCurrent /\ MenuHolds

(* A step after which the session still has the same current connection:    *)
(* what is to be shown is about the window's thread alone.                  *)
LEMMA SameCurrent ==
    ASSUME ConnectionBounds, SessionInv, [Next]_vars, UNCHANGED <<m_next_id, m_id>>
    PROVE  /\ \A i \in Ids : Alive(i)' => i = m_id'
           /\ (\A i \in Ids : ~Alive(i)) => (\A i \in Ids : ~Alive(i)')
           /\ isClosed => isClosed'
           /\ Current /\ m_status[m_id] \in {"Open", "Closed"} =>
                  (Current /\ m_status[m_id] \in {"Open", "Closed"})'
<1>1. \A i \in Ids : Alive(i)' => Alive(i)
    BY FewerAlive DEF SessionInv
<1>2. Current => m_id \in Ids
    BY DEF SessionInv, NumberInv, Current
<1>3. isClosed => isClosed'
    BY <1>2, FinalStays DEF SessionInv, isClosed, Current
<1>4. Current /\ m_status[m_id] \in {"Open", "Closed"} =>
          (Current /\ m_status[m_id] \in {"Open", "Closed"})'
    BY <1>2, OpenStaysOrCloses DEF SessionInv, Current
<1> QED
    BY <1>1, <1>3, <1>4 DEF SessionInv, OnlyCurrent

(* Steps that do not move the window's thread, its menu or its dialog.      *)
LEMMA SameWindow ==
    ASSUME ConnectionBounds, SessionInv, [Next]_vars,
           UNCHANGED <<m_next_id, m_id, ui, menu, dialog>>
    PROVE  OnlyCurrent' /\ MenuHolds'
<1>1. OnlyCurrent'
    BY SameCurrent DEF SessionInv, OnlyCurrent
<1>2. MenuHolds'
    BY SameCurrent DEF SessionInv, MenuHolds, Connecting
<1> QED
    BY <1>1, <1>2

LEMMA LiveInit == ASSUME SessionInit PROVE OnlyCurrent /\ MenuHolds
BY DEF SessionInit, RoomInit, Init, OnlyCurrent, MenuHolds, Alive, Connecting, isClosed, Current,
       NoId, Ids

(* The window's thread acts on a menu or a dialog it has opened earlier.    *)
LEMMA LiveWindow ==
    ASSUME ConnectionBounds, SessionInv, Window, [Next]_vars
    PROVE  OnlyCurrent' /\ MenuHolds'
<1>1. UNCHANGED <<m_next_id, m_id>>
    BY DEF Window, initMenu, Dismiss, ConnectTo, ConnectDlgOk, ConnectDlgCancel,
           CommandDisconnect, CommandReconnect, Quit, RoomDisconnect, Disconnect, allRoomVars,
           roomVars, vars, session
<1>2. Current => m_id \in Ids
    BY DEF SessionInv, NumberInv, Current
<1>3. isClosed => \A i \in Ids : ~Alive(i)
    BY <1>2, StatusOfAlive DEF SessionInv, OnlyCurrent, isClosed, Current, NoId, Ids
<1>4. CASE initMenu \/ Dismiss \/ ConnectTo \/ ConnectDlgCancel
    <2>1. UNCHANGED <<vars, ui, m_id>>
        BY <1>4 DEF initMenu, Dismiss, ConnectTo, ConnectDlgCancel, allRoomVars, roomVars
    <2>2. UNCHANGED <<ws, m_status>>
        BY <2>1 DEF vars, session
    <2>3. OnlyCurrent'
        BY <2>1, <2>2 DEF SessionInv, OnlyCurrent, Alive
    <2>4. MenuHolds'
        BY <1>4, <2>1, <2>2
           DEF SessionInv, MenuHolds, isClosed, isOpen, Current, Connecting, Free, Idle, initMenu,
               Dismiss, ConnectTo, ConnectDlgCancel
    <2> QED
        BY <2>3, <2>4
<1>5. CASE ConnectDlgOk
    <2>1. \A i \in Ids : ~Alive(i)
        BY <1>3, <1>5 DEF SessionInv, MenuHolds, ConnectDlgOk
    <2>2. (\A i \in Ids : ~Alive(i)')
        BY <1>1, <2>1, SameCurrent
    <2> QED
        BY <1>5, <2>2 DEF OnlyCurrent, MenuHolds, ConnectDlgOk, Free
<1>6. CASE CommandDisconnect
    <2>1. menu' = "none" /\ ui' = "idle" /\ dialog' = FALSE
        BY <1>6 DEF CommandDisconnect, RoomDisconnect, SessionInv, MenuHolds
    <2> QED
        BY <1>1, <2>1, SameCurrent DEF OnlyCurrent, MenuHolds, Connecting
<1>7. CASE CommandReconnect
    <2>1. /\ Current /\ m_status[m_id] \in {"Open", "Closed"}
          /\ menu' = "none" /\ dialog' = FALSE
        BY <1>7 DEF CommandReconnect, SessionInv, MenuHolds
    <2>2. WsClose(m_id)
        BY <1>7, <2>1 DEF CommandReconnect, RoomDisconnect, Disconnect
    <2>3. ws[m_id] # "connecting" /\ (ws[m_id] = "open" => ws'[m_id] = "closing")
        <3>1. ws[m_id] # "connecting"
            BY <1>2, <2>1, StatusOfAlive DEF SessionInv, Alive
        <3>2. ws[m_id] = "open" => ws'[m_id] = "closing"
            BY <1>2, <2>1, <2>2 DEF SessionInv, TypeInv, TypeOK, WsClose
        <3> QED
            BY <3>1, <3>2
    <2>4. \A i \in Ids : ~Alive(i)'
        <3>1. ~Alive(m_id)'
            BY <1>1, <2>2, <2>3 DEF WsClose, Alive
        <3> QED
            BY <1>1, <3>1, SameCurrent
    <2> QED
        BY <2>1, <2>4 DEF OnlyCurrent, MenuHolds
<1>8. CASE Quit
    <2>1. menu' = "none" /\ ui' = "quit" /\ dialog' = dialog
        BY <1>8 DEF Quit, RoomDisconnect, Free, sessionVars
    <2> QED
        BY <1>1, <2>1, SameCurrent DEF SessionInv, OnlyCurrent, MenuHolds, Connecting
<1> QED
    BY <1>4, <1>5, <1>6, <1>7, <1>8 DEF Window

(* connect() makes a connection where none is left. *)
LEMMA LiveConnect ==
    ASSUME ConnectionBounds, SessionInv, ConnectSteps, UNCHANGED sessionVars, [Next]_vars
    PROVE  OnlyCurrent' /\ MenuHolds'
<1>1. dialog' = FALSE /\ menu' = "none"
    BY DEF ConnectSteps, ConnectEndPoint, ConnectFails, SpawnHeartBeat, SessionInv, MenuHolds,
           Connecting, sessionVars
<1>2. CASE ConnectEndPoint
    <2>1. \A i \in Ids : ~Alive(i)
        BY <1>2 DEF ConnectEndPoint, SessionInv, OnlyCurrent
    <2>2. \A i \in Ids : i # m_next_id => ws'[i] = ws[i]
        BY <1>2 DEF ConnectEndPoint, Connect, SessionInv, TypeInv, TypeOK
    <2>3. m_id' = m_next_id /\ ui' = "spawn"
        BY <1>2 DEF ConnectEndPoint
    <2> QED
        BY <1>1, <2>1, <2>2, <2>3 DEF OnlyCurrent, MenuHolds, Alive
<1>3. CASE ConnectFails
    <2>1. \A i \in Ids : ~Alive(i)'
        BY <1>3 DEF ConnectFails, SessionInv, OnlyCurrent, Alive, vars, session
    <2> QED
        BY <1>1, <1>3, <2>1 DEF OnlyCurrent, MenuHolds, ConnectFails
<1>4. CASE SpawnHeartBeat
    <2>1. ws' = ws /\ m_id' = m_id /\ ui' = "return"
        BY <1>4 DEF SpawnHeartBeat, vars, session
    <2> QED
        BY <1>1, <2>1 DEF SessionInv, OnlyCurrent, Alive, MenuHolds
<1> QED
    BY <1>2, <1>3, <1>4 DEF ConnectSteps

LEMMA LiveStep ==
    ASSUME ConnectionBounds, SessionInv, [SessionNext]_allVars
    PROVE  OnlyCurrent' /\ MenuHolds'
<1>0. [Next]_vars
    BY SessionStep DEF SessionInv
<1>1. CASE Window
    BY <1>0, <1>1, LiveWindow
<1>2. CASE ConnectSteps /\ UNCHANGED sessionVars
    BY <1>0, <1>2, LiveConnect
<1>3. CASE LowerFlag \/ StartFetch \/ RaiseFlag
    <2>1. UNCHANGED <<vars, m_id, menu, dialog>> /\ ui # "idle" /\ ui' # "uri"
        BY <1>3 DEF LowerFlag, StartFetch, RaiseFlag
    <2>2. UNCHANGED <<ws, m_status>>
        BY <2>1 DEF vars, session
    <2>3. Connecting' => Connecting
        BY <1>3 DEF LowerFlag, StartFetch, RaiseFlag, Connecting
    <2> QED
        BY <2>1, <2>2, <2>3 DEF SessionInv, OnlyCurrent, Alive, MenuHolds, isClosed, Current
<1>4. ASSUME UNCHANGED <<m_next_id, roomVars, menu, dialog>> PROVE OnlyCurrent' /\ MenuHolds'
    BY <1>0, <1>4, SameWindow DEF roomVars
<1>5. CASE (DtorVisit \/ DtorJoin) /\ UNCHANGED roomVars /\ UNCHANGED sessionVars
    BY <1>4, <1>5 DEF DtorVisit, DtorJoin, session, sessionVars
<1>6. CASE DestroyRoom
    BY <1>4, <1>6 DEF DestroyRoom, DtorBegin, session, sessionVars
<1>7. ASSUME NEW f \in Fetchers, FetchThread(f) PROVE OnlyCurrent' /\ MenuHolds'
    BY <1>4, <1>7 DEF FetchThread, FetchCopy, FetchClear, FetchParse, FetchCheck, RetrieveCopy,
                      RetrieveClear, allRoomVars, vars, session
<1>8. CASE IoThread /\ UNCHANGED <<roomVars, sessionVars>>
    BY <1>4, <1>8 DEF IoThread, Handler, OnOpenStatus, OnOpenNotice, OnOpenHello, FrameArrives,
                      OnMessage, HandshakeDone, PeerCloses, Terminate, HandleTerminate,
                      TerminalNotice, sessionVars, session
<1>9. CASE UNCHANGED allVars
    BY <1>4, <1>9 DEF allVars, allRoomVars, sessionVars, vars, session
<1> QED
    BY <1>1, <1>2, <1>3, <1>5, <1>6, <1>7, <1>8, <1>9 DEF SessionNext, WindowGoesOn

LEMMA SessionInvHolds == SessionSafety => []SessionInv
<1>1. SessionInit => SessionInv
    BY ConnectionBounds, TypeInit, StatusInit, NumberInit, LiveInit
       DEF SessionInit, RoomInit, SessionInv
<1>2. SessionInv /\ [SessionNext]_allVars => SessionInv'
    BY ConnectionBounds, SessionStep, TypeStep, StatusStep, NumberStep, LiveStep DEF SessionInv
<1> QED
    BY <1>1, <1>2, PTL DEF SessionSafety

(* One room at a time, for every number of connections and fetch threads:   *)
(* what the menu and the dialog saw when they opened is enough to keep a    *)
(* second connection from being made while one lives.                       *)
THEOREM OneLive == SessionSafety => []OneLiveConnection
<1>1. SessionInv => OneLiveConnection
    BY DEF SessionInv, OnlyCurrent, Alive, OneLiveConnection
<1> QED
    BY <1>1, SessionInvHolds, PTL

-----------------------------------------------------------------------------
LEMMA StuckStep ==
    ASSUME ConnectionBounds, SessionInv, Stuck, [SessionNext]_allVars
    PROVE  (Stuck \/ ui = "quit")'
<1>0. [Next]_vars
    BY SessionStep DEF SessionInv
<1>1. m_id \in Ids /\ dialog = FALSE /\ menu = "none" /\ ui = "idle" /\ dtor.pc = "no"
    BY DEF Stuck, Idle, SessionInv, NumberInv, MenuHolds, Current
<1>2. ~isClosed /\ ~isOpen
    BY DEF Stuck, isClosed, isOpen
<1>3. CASE Window
    BY <1>1, <1>2, <1>3 DEF Window, initMenu, Dismiss, ConnectTo, ConnectDlgOk, ConnectDlgCancel,
                            CommandDisconnect, CommandReconnect, Quit, RoomDisconnect
<1>4. ~WindowGoesOn
    BY <1>1 DEF WindowGoesOn, ConnectSteps, ConnectEndPoint, ConnectFails, SpawnHeartBeat,
                DtorVisit, DtorJoin, LowerFlag, StartFetch, RaiseFlag, DestroyRoom
<1>5. ASSUME UNCHANGED <<roomVars, menu, dialog, dtor>> PROVE Stuck'
    <2>1. m_status'[m_id] = "Failed"
        BY <1>0, <1>1, FinalStays DEF Stuck, SessionInv
    <2> QED
        BY <1>5, <2>1 DEF Stuck, Idle, Current, roomVars
<1>6. ASSUME NEW f \in Fetchers, FetchThread(f) PROVE Stuck'
    BY <1>5, <1>6 DEF FetchThread, FetchCopy, FetchClear, FetchParse, FetchCheck, RetrieveCopy,
                      RetrieveClear, allRoomVars, vars
<1>7. CASE IoThread /\ UNCHANGED <<roomVars, sessionVars>>
    BY <1>5, <1>7 DEF IoThread, Handler, OnOpenStatus, OnOpenNotice, OnOpenHello, FrameArrives,
                      OnMessage, HandshakeDone, PeerCloses, Terminate, HandleTerminate,
                      TerminalNotice, sessionVars
<1>8. CASE UNCHANGED allVars
    BY <1>5, <1>8 DEF allVars, allRoomVars, sessionVars, vars
<1> QED
    BY <1>3, <1>4, <1>6, <1>7, <1>8 DEF SessionNext

(* A failed connection is the last one of the program, whatever its menu,   *)
(* its threads and the server do.                                           *)
THEOREM FailedFinal == SessionSafety => FailedIsFinal
<1>1. SessionInv /\ [SessionNext]_allVars => [Stuck => (Stuck \/ ui = "quit")']_allVars
    BY ConnectionBounds, StuckStep
<1> QED
    BY <1>1, SessionInvHolds, PTL DEF SessionSafety, FailedIsFinal

-----------------------------------------------------------------------------
(* What the fetch threads leave behind: the flag, and the history.          *)
ParsedInv ==
    /\ m_bStopThread \in BOOLEAN
    /\ shown \in [Ids -> SUBSET (1 .. MaxMessages)]
    /\ closeSeen \subseteq Ids

LEMMA LiveNumber ==
    ASSUME NEW m \in Messages, IsLive(m)
    PROVE  m.n \in 1 .. MaxMessages
<1>1. m \notin Notices
    BY DEF Notices, Notice, IsLive
<1>2. PICK n \in 1 .. MaxMessages : m = Live(n)
    BY <1>1 DEF Messages
<1> QED
    BY <1>2 DEF Live

LEMMA ParsedStep ==
    ASSUME NumberInv, ParsedInv, [SessionNext]_allVars
    PROVE  ParsedInv'
<1>1. CASE UNCHANGED <<m_bStopThread, shown, closeSeen>>
    BY <1>1 DEF ParsedInv
<1>2. CASE LowerFlag \/ RaiseFlag
    BY <1>2 DEF LowerFlag, RaiseFlag, ParsedInv
<1>3. ASSUME NEW f \in Fetchers, FetchParse(f) PROVE ParsedInv'
    <2> DEFINE m == Head(fetch[f].batch)
               i == fetch[f].id
    <2>1. i \in Ids /\ m \in Messages
        <3>1. fetch[f].batch \in Seq(Messages) /\ fetch[f].batch # <<>>
            BY <1>3 DEF NumberInv, Fetches, FetchParse
        <3>2. m \in Messages
            BY <3>1, HeadTailProperties
        <3> QED
            BY <3>2 DEF NumberInv, Fetches
    <2>2. m_bStopThread' \in BOOLEAN
        BY <1>3 DEF FetchParse, ParsedInv
    <2>3. shown' \in [Ids -> SUBSET (1 .. MaxMessages)]
        <3>1. IsLive(m) => m.n \in 1 .. MaxMessages
            BY <2>1, LiveNumber
        <3>2. shown' = IF IsLive(m) THEN [shown EXCEPT ![i] = @ \cup {m.n}] ELSE shown
            BY <1>3 DEF FetchParse
        <3> HIDE DEF m, i
        <3> QED
            BY <2>1, <3>1, <3>2 DEF ParsedInv
    <2>4. closeSeen' \subseteq Ids
        BY <1>3, <2>1 DEF FetchParse, ParsedInv
    <2> QED
        BY <2>2, <2>3, <2>4 DEF ParsedInv
<1> QED
    BY <1>1, <1>2, <1>3
       DEF SessionNext, Window, WindowGoesOn, initMenu, Dismiss, ConnectTo, ConnectDlgOk,
           ConnectDlgCancel, CommandDisconnect, CommandReconnect, Quit, StartFetch, DestroyRoom,
           FetchThread, FetchCopy, FetchClear, FetchCheck, allVars, sessionVars

(* The session's own state always has its type: what the threads hand on    *)
(* are numbers of connections and of messages the connection has counted.   *)
THEOREM SessionTypeCorrect == SessionSafety => []SessionTypeOK
<1>1. SessionInit => ParsedInv
    BY DEF SessionInit, ParsedInv
<1>2. SessionInv /\ ParsedInv /\ [SessionNext]_allVars => ParsedInv'
    BY ParsedStep DEF SessionInv
<1>3. SessionInv /\ ParsedInv => SessionTypeOK
    BY DEF SessionInv, NumberInv, Fetches, MenuHolds, ParsedInv, SessionTypeOK
<1> QED
    BY <1>1, <1>2, <1>3, SessionInvHolds, PTL DEF SessionSafety

-----------------------------------------------------------------------------
(* From the mailbox to the list.                                           *)

(* A mailbox, a copy of it or a batch with the notice of a close.           *)
HasClosed(s) == \E j \in DOMAIN s : s[j] = Notice("Closed")

(* What retrieve() copies is in order, and a Closed notice is found only    *)
(* where the status says so.                                                *)
CopyInv ==
    \A i \in Ids :
        /\ HasClosed(m_messages[i]) => m_status[i] = "Closed"
        /\ locked[i] => Increasing(result[i])
        /\ locked[i] /\ HasClosed(result[i]) => m_status[i] = "Closed"

(* connect() finds a fetch thread to start. *)
SpareFetcher == Connecting => \E f \in Fetchers : fetch[f].pc = "none"

(* Only a thread that parses has a batch, and its batch is in order.        *)
HandInv ==
    \A f \in Fetchers :
        /\ fetch[f].pc # "parse" => fetch[f].batch = <<>>
        /\ Increasing(fetch[f].batch)

(* Connection i is closed and its mailbox has no live message any more.     *)
Over(i) == m_status[i] = "Closed" /\ Backlog(m_messages[i]) = {}

(* It is over for whoever has its Closed notice in hand or has parsed it.   *)
OverInv ==
    /\ \A f \in Fetchers, i \in Ids : fetch[f].id = i /\ HasClosed(fetch[f].batch) => Over(i)
    /\ \A i \in closeSeen : Over(i)

-----------------------------------------------------------------------------
(* The mailboxes of Connection under retrieve() in two steps.               *)

LEMMA ClosedConcat ==
    ASSUME NEW s \in Seq(Messages), NEW t \in Seq(Messages), HasClosed(s \o t)
    PROVE  HasClosed(s) \/ HasClosed(t)
<1>1. /\ Len(s) \in Nat /\ DOMAIN s = 1 .. Len(s)
      /\ Len(t) \in Nat /\ DOMAIN t = 1 .. Len(t)
      /\ DOMAIN (s \o t) = 1 .. Len(s) + Len(t)
    BY LenProperties, ConcatProperties
<1>2. PICK j \in DOMAIN (s \o t) : (s \o t)[j] = Notice("Closed")
    BY DEF HasClosed
<1>3. CASE j <= Len(s)
    <2>1. j \in DOMAIN s /\ s[j] = Notice("Closed")
        BY <1>1, <1>2, <1>3, ConcatProperties
    <2> QED
        BY <2>1 DEF HasClosed
<1>4. CASE ~(j <= Len(s))
    <2>1. j - Len(s) \in DOMAIN t /\ t[j - Len(s)] = Notice("Closed")
        BY <1>1, <1>2, <1>4, ConcatProperties
    <2> QED
        BY <2>1 DEF HasClosed
<1> QED
    BY <1>3, <1>4

LEMMA NoticeClosed == ASSUME NEW m, HasClosed(<<Notice(m)>>) PROVE m = "Closed"
BY DEF HasClosed, Notice

LEMMA FrameNotClosed ==
    ASSUME NEW c, NEW k \in Nat PROVE ~HasClosed([p \in 1 .. k |-> Live(c + p)])
BY DEF HasClosed, Notice, Live

(* A batch is pushed; connections that are closed stay closed.              *)
LEMMA CopyPush ==
    ASSUME TypeOK, CopyInv, NEW i \in Ids, NEW batch \in Seq(Messages),
           Push(i, batch), UNCHANGED <<locked, result>>,
           HasClosed(batch) => m_status'[i] = "Closed",
           \A j \in Ids : m_status[j] = "Closed" => m_status'[j] = "Closed"
    PROVE  CopyInv'
<1>1. m_messages[i] \in Seq(Messages) /\ m_messages'[i] = m_messages[i] \o batch
    BY DEF TypeOK, Push
<1>2. \A j \in Ids : j # i => m_messages'[j] = m_messages[j]
    BY DEF TypeOK, Push
<1>3. HasClosed(m_messages'[i]) => m_status'[i] = "Closed"
    BY <1>1, ClosedConcat DEF CopyInv
<1> QED
    BY <1>2, <1>3 DEF CopyInv

LEMMA CopySame ==
    ASSUME CopyInv, UNCHANGED <<m_messages, locked, result>>,
           \A j \in Ids : m_status[j] = "Closed" => m_status'[j] = "Closed"
    PROVE  CopyInv'
BY DEF CopyInv

LEMMA CopyStep ==
    ASSUME ConnectionBounds, TypeInv, StatusInv, LiveExactlyOnce, CopyInv, [Next]_vars
    PROVE  CopyInv'
<1>a. io.id \in Ids /\ TypeOK
    BY DEF TypeInv, TypeOK
<1>b. \A j \in Ids : m_status[j] = "Closed" => m_status'[j] = "Closed"
    BY FinalStays
<1>1. CASE Connect
    <2>1. m_next_id \in Ids
        BY <1>1, <1>a DEF Connect, TypeOK, Ids, ConnectionBounds
    <2>2. Push(m_next_id, <<Notice("Connecting")>>) /\ UNCHANGED <<locked, result>>
        BY <1>1 DEF Connect, reading
    <2>3. ~HasClosed(<<Notice("Connecting")>>)
        BY NoticeClosed
    <2> QED
        BY <1>a, <1>b, <2>1, <2>2, <2>3, NoticesAreMessages, CopyPush
<1>2. CASE OnOpenNotice
    <2>1. Push(io.id, <<Notice("Established")>>) /\ UNCHANGED <<locked, result>>
        BY <1>2 DEF OnOpenNotice, reading
    <2>2. ~HasClosed(<<Notice("Established")>>)
        BY NoticeClosed
    <2> QED
        BY <1>a, <1>b, <2>1, <2>2, NoticesAreMessages, CopyPush
<1>3. CASE TerminalNotice
    <2>1. PICK m \in {"Closed", "Failed"} :
              /\ Push(io.id, <<Notice(m)>>)
              /\ m = "Closed" => io.pc = "on_close:notice"
        BY <1>3 DEF TerminalNotice
    <2>2. UNCHANGED <<m_status, locked, result>>
        BY <1>3 DEF TerminalNotice, reading
    <2>3. m = "Closed" => m_status'[io.id] = "Closed"
        BY <2>1, <2>2 DEF StatusInv, HandlerAgrees
    <2>4. PICK i \in Ids : i = io.id
        BY <1>a
    <2>5. HasClosed(<<Notice(m)>>) => m_status'[i] = "Closed"
        BY <2>3, <2>4, NoticeClosed
    <2> QED
        BY <1>a, <1>b, <2>1, <2>2, <2>4, <2>5, NoticesAreMessages, CopyPush
<1>4. CASE OnMessage
    <2> DEFINE batch == [p \in 1 .. io.frame |-> Live(m_message_count[io.id] + p)]
    <2>0. io.frame \in Nat /\ m_message_count[io.id] \in Nat
        BY <1>a DEF TypeOK, ConnectionBounds
    <2>1. batch \in Seq(Messages) /\ ~HasClosed(batch)
        <3>1. m_message_count[io.id] + io.frame <= MaxMessages
            BY <1>4 DEF OnMessage, TypeInv, FrameFits
        <3> QED
            BY <2>0, <3>1, FrameIsMessages, FrameNotClosed
    <2>2. Push(io.id, batch) /\ UNCHANGED <<locked, result>>
        BY <1>4 DEF OnMessage, reading
    <2> HIDE DEF batch
    <2>3. PICK i \in Ids : i = io.id
        BY <1>a
    <2> QED
        BY <1>a, <1>b, <2>1, <2>2, <2>3, CopyPush
<1>5. ASSUME NEW i \in Ids, RetrieveCopy(i) PROVE CopyInv'
    BY <1>5, <1>a DEF RetrieveCopy, CopyInv, LiveExactlyOnce, mailbox, TypeOK
<1>6. ASSUME NEW i \in Ids, RetrieveClear(i) PROVE CopyInv'
    <2>1. ~HasClosed(<<>>)
        BY DEF HasClosed
    <2> QED
        BY <1>6, <1>a, <2>1 DEF RetrieveClear, CopyInv, TypeOK
<1>7. ASSUME NEW i \in Ids,
             \/ Disconnect(i) \/ HandshakeDone(i) \/ FrameArrives(i)
             \/ PeerCloses(i) \/ Terminate(i) \/ HandleTerminate(i)
      PROVE  CopyInv'
    <2>1. UNCHANGED <<m_messages, locked, result>>
        BY <1>7 DEF Disconnect, HandshakeDone, FrameArrives, PeerCloses, Terminate,
                    HandleTerminate, mailbox, reading
    <2> QED
        BY <1>b, <2>1, CopySame
<1>8. CASE OnOpenStatus \/ OnOpenHello \/ Destructor \/ UNCHANGED vars
    <2>1. UNCHANGED <<m_messages, locked, result>>
        BY <1>8 DEF OnOpenStatus, OnOpenHello, Destructor, DtorBegin, DtorVisit, DtorJoin, vars,
                    mailbox, reading
    <2> QED
        BY <1>b, <2>1, CopySame
<1> QED
    BY <1>1, <1>2, <1>3, <1>4, <1>5, <1>6, <1>7, <1>8 DEF Next, IoThread, Handler, Program

(* A closed connection gets no live message any more.                       *)
LEMMA OverStays ==
    ASSUME ConnectionBounds, TypeInv, StatusInv, [Next]_vars, NEW i \in Ids, Over(i)
    PROVE  Over(i)'
<1>a. io.id \in Ids /\ TypeOK
    BY DEF TypeInv, TypeOK
<1>b. m_status'[i] = "Closed"
    BY FinalStays DEF Over
<1>c. ASSUME NEW j, NEW m \in {"Connecting", "Established", "Closed", "Failed"},
             Push(j, <<Notice(m)>>)
      PROVE  Over(i)'
    <2>1. CASE j = i
        <3>1. m_messages[i] \in Seq(Messages) /\ m_messages'[i] = m_messages[i] \o <<Notice(m)>>
            BY <1>a, <1>c, <2>1 DEF Push, TypeOK
        <3>2. Backlog(m_messages'[i]) = Backlog(m_messages[i]) \cup Backlog(<<Notice(m)>>)
            BY <3>1, NoticesAreMessages, BacklogConcat
        <3> QED
            BY <1>b, <3>2, NoticeBacklog DEF Over
    <2>2. CASE j # i
        BY <1>a, <1>b, <1>c, <2>2 DEF Push, Over, TypeOK
    <2> QED
        BY <2>1, <2>2
<1>1. CASE Connect \/ OnOpenNotice \/ TerminalNotice
    BY <1>1, <1>c DEF Connect, OnOpenNotice, TerminalNotice
<1>2. CASE OnMessage
    <2>1. io.id # i
        BY <1>2 DEF OnMessage, StatusInv, HandlerAgrees, Over
    <2>2. m_messages'[i] = m_messages[i]
        BY <1>2, <1>a, <2>1 DEF OnMessage, Push, TypeOK
    <2> QED
        BY <1>b, <2>2 DEF Over
<1>3. ASSUME NEW j \in Ids, RetrieveClear(j) PROVE Over(i)'
    <2>1. m_messages'[i] \in {m_messages[i], <<>>}
        BY <1>3, <1>a DEF RetrieveClear, TypeOK
    <2>2. Backlog(<<>>) = {}
        BY DEF Backlog
    <2> QED
        BY <1>b, <2>1, <2>2 DEF Over
<1>4. CASE UNCHANGED m_messages
    BY <1>b, <1>4 DEF Over
<1>5. \/ Connect \/ OnOpenNotice \/ TerminalNotice \/ OnMessage \/ UNCHANGED m_messages
      \/ \E j \in Ids : RetrieveClear(j)
    BY DEF Next, vars, mailbox, IoThread, Handler, Program, Destructor, Disconnect, RetrieveCopy,
           HandshakeDone, OnOpenStatus, OnOpenHello, FrameArrives, PeerCloses, Terminate,
           HandleTerminate, DtorBegin, DtorVisit, DtorJoin
<1> QED
    BY <1>1, <1>2, <1>3, <1>4, <1>5

-----------------------------------------------------------------------------
(* The fetch threads.                                                       *)

(* What the part of ParsedExactlyOnce about connection i says.              *)
OnceAt(i) ==
    /\ \A n : n \in delivered[i] <=> n \in shown[i] \/ \E f \in Fetchers : n \in InHand(f, i)
    /\ \A f, g \in Fetchers : f # g => InHand(f, i) \cap InHand(g, i) = {}
    /\ \A f \in Fetchers : InHand(f, i) \cap shown[i] = {}

LEMMA OnceEverywhere == ParsedExactlyOnce <=> \A i \in Ids : OnceAt(i)
<1>1. \A i, n : n \in UNION {InHand(f, i) : f \in Fetchers}
                    <=> \E f \in Fetchers : n \in InHand(f, i)
    OBVIOUS
<1>2. ASSUME NEW i
      PROVE  delivered[i] = shown[i] \cup UNION {InHand(f, i) : f \in Fetchers}
                 <=> \A n : n \in delivered[i]
                                <=> n \in shown[i] \/ \E f \in Fetchers : n \in InHand(f, i)
    BY <1>1
<1> QED
    BY <1>2 DEF ParsedExactlyOnce, OnceAt

(* Thread f takes over new messages, or shows some it has; the others, and  *)
(* what they have, stay as they are.                                        *)
LEMMA OnceTaken ==
    ASSUME NEW i, NEW f \in Fetchers, NEW new, OnceAt(i), InHand(f, i) = {},
           InHand(f, i)' = new, new \cap delivered[i] = {},
           delivered'[i] = delivered[i] \cup new, shown'[i] = shown[i],
           \A g \in Fetchers : g # f => InHand(g, i)' = InHand(g, i)
    PROVE  OnceAt(i)'
<1>1. \A g \in Fetchers : InHand(g, i) \subseteq delivered[i]
    BY DEF OnceAt
<1>2. shown[i] \cap new = {}
    BY DEF OnceAt
<1>3. ASSUME NEW n
      PROVE  n \in delivered'[i] <=> n \in shown'[i] \/ \E g \in Fetchers : n \in InHand(g, i)'
    BY DEF OnceAt
<1>4. \A g, h \in Fetchers : g # h => InHand(g, i)' \cap InHand(h, i)' = {}
    BY <1>1 DEF OnceAt
<1>5. \A g \in Fetchers : InHand(g, i)' \cap shown'[i] = {}
    BY <1>2 DEF OnceAt
<1> QED
    BY <1>3, <1>4, <1>5 DEF OnceAt

LEMMA OnceShown ==
    ASSUME NEW i, NEW f \in Fetchers, NEW new, OnceAt(i),
           InHand(f, i) = new \cup InHand(f, i)', new \cap InHand(f, i)' = {},
           delivered'[i] = delivered[i], shown'[i] = shown[i] \cup new,
           \A g \in Fetchers : g # f => InHand(g, i)' = InHand(g, i)
    PROVE  OnceAt(i)'
<1>1. ASSUME NEW n
      PROVE  n \in delivered'[i] <=> n \in shown'[i] \/ \E g \in Fetchers : n \in InHand(g, i)'
    BY DEF OnceAt
<1>2. \A g, h \in Fetchers : g # h => InHand(g, i)' \cap InHand(h, i)' = {}
    BY DEF OnceAt
<1>3. \A g \in Fetchers : InHand(g, i)' \cap shown'[i] = {}
    BY DEF OnceAt
<1> QED
    BY <1>1, <1>2, <1>3 DEF OnceAt

LEMMA OnceSame ==
    ASSUME NEW i, OnceAt(i), delivered'[i] = delivered[i], shown'[i] = shown[i],
           \A g \in Fetchers : InHand(g, i)' = InHand(g, i)
    PROVE  OnceAt(i)'
BY DEF OnceAt

(* The head of a batch against its tail.                                    *)
LEMMA BatchHead ==
    ASSUME NEW s \in Seq(Messages), s # <<>>, Increasing(s)
    PROVE  /\ Tail(s) \in Seq(Messages) /\ Head(s) \in Messages
           /\ Increasing(Tail(s))
           /\ Backlog(s) = Backlog(Tail(s)) \cup (IF IsLive(Head(s)) THEN {Head(s).n} ELSE {})
           /\ IsLive(Head(s)) => Head(s).n \notin Backlog(Tail(s))
           /\ HasClosed(s) <=> Head(s) = Notice("Closed") \/ HasClosed(Tail(s))
<1>1. /\ Tail(s) \in Seq(Messages) /\ Head(s) \in Messages /\ Head(s) = s[1]
      /\ Len(s) \in Nat /\ Len(s) >= 1 /\ DOMAIN s = 1 .. Len(s)
      /\ DOMAIN Tail(s) = 1 .. Len(s) - 1
      /\ \A j \in 1 .. Len(s) - 1 : Tail(s)[j] = s[j + 1]
    BY HeadTailProperties, LenProperties, EmptySeq
<1>2. \A j \in DOMAIN Tail(s) : j + 1 \in DOMAIN s /\ j + 1 # 1
    BY <1>1
<1>3. ASSUME NEW j \in DOMAIN s, j # 1 PROVE j - 1 \in DOMAIN Tail(s) /\ Tail(s)[j - 1] = s[j]
    <2>1. j - 1 \in 1 .. Len(s) - 1 /\ (j - 1) + 1 = j
        BY <1>1, <1>3
    <2> QED
        BY <1>1, <2>1
<1>4. 1 \in DOMAIN s
    BY <1>1
<1>5. Increasing(Tail(s))
    BY <1>1, <1>2 DEF Increasing
<1> DEFINE Has(u, n) == \E j \in DOMAIN u : IsLive(u[j]) /\ u[j].n = n
<1>6. \A u, n : n \in Backlog(u) <=> Has(u, n)
    BY DEF Backlog
<1>7. \A n : Has(s, n) <=> Has(Tail(s), n) \/ (IsLive(Head(s)) /\ Head(s).n = n)
    <2>1. ASSUME NEW n, Has(s, n) PROVE Has(Tail(s), n) \/ (IsLive(Head(s)) /\ Head(s).n = n)
        BY <1>1, <1>3, <2>1
    <2>2. ASSUME NEW n, Has(Tail(s), n) PROVE Has(s, n)
        BY <1>1, <1>2, <2>2
    <2>3. ASSUME NEW n, IsLive(Head(s)), Head(s).n = n PROVE Has(s, n)
        BY <1>1, <1>4, <2>3
    <2> QED
        BY <2>1, <2>2, <2>3
<1>8. IsLive(Head(s)) => ~Has(Tail(s), Head(s).n)
    <2> SUFFICES ASSUME IsLive(Head(s)), NEW j \in DOMAIN Tail(s), IsLive(Tail(s)[j]),
                        Tail(s)[j].n = Head(s).n
                 PROVE  FALSE
        OBVIOUS
    <2>1. /\ j + 1 \in DOMAIN s /\ 1 < j + 1 /\ IsLive(s[1]) /\ IsLive(s[j + 1])
          /\ s[j + 1].n = s[1].n
        BY <1>1
    <2>2. s[1].n < s[1].n
        BY <1>4, <2>1 DEF Increasing
    <2>3. s[1].n \in Nat
        BY <1>1, <2>1, LiveNumber
    <2> QED
        BY <2>2, <2>3
<1>9. HasClosed(s) <=> Head(s) = Notice("Closed") \/ HasClosed(Tail(s))
    <2>1. HasClosed(s) => Head(s) = Notice("Closed") \/ HasClosed(Tail(s))
        BY <1>1, <1>3 DEF HasClosed
    <2>2. HasClosed(Tail(s)) => HasClosed(s)
        BY <1>1, <1>2 DEF HasClosed
    <2>3. Head(s) = Notice("Closed") => HasClosed(s)
        BY <1>1, <1>4 DEF HasClosed
    <2> QED
        BY <2>1, <2>2, <2>3
<1> HIDE DEF Has
<1>10. Backlog(s) = Backlog(Tail(s)) \cup (IF IsLive(Head(s)) THEN {Head(s).n} ELSE {})
    BY <1>6, <1>7
<1> QED
    BY <1>1, <1>5, <1>6, <1>8, <1>9, <1>10

-----------------------------------------------------------------------------
(* What each step of a fetch thread does to the threads.                    *)
Others(f) == \A g \in Fetchers : g # f => fetch'[g] = fetch[g]

LEMMA FetchPcFields ==
    ASSUME NEW g \in Fetches, NEW f \in Fetchers, NEW pc
    PROVE  LET h == [g EXCEPT ![f].pc = pc]
           IN  /\ h[f].pc = pc /\ h[f].id = g[f].id /\ h[f].batch = g[f].batch
               /\ \A k \in Fetchers : k # f => h[k] = g[k]
BY DEF Fetches

LEMMA FetchIdFields ==
    ASSUME NEW g \in Fetches, NEW f \in Fetchers, NEW id
    PROVE  LET h == [g EXCEPT ![f].id = id]
           IN  /\ h[f].pc = g[f].pc /\ h[f].id = id /\ h[f].batch = g[f].batch
               /\ \A k \in Fetchers : k # f => h[k] = g[k]
BY DEF Fetches

LEMMA CopyFetch ==
    ASSUME NumberInv, NEW f \in Fetchers, FetchCopy(f)
    PROVE  /\ Others(f)
           /\ fetch[f].pc = "copy"
           /\ fetch'[f].pc \in {"clear", "parse"} /\ fetch'[f].batch = fetch[f].batch
           /\ UNCHANGED <<delivered, shown, closeSeen, ui>>
<1>1. fetch \in Fetches
    BY DEF NumberInv
<1>2. CASE Current
    <2> DEFINE one == [fetch EXCEPT ![f].pc = "clear"]
    <2>a. "clear" \in FetchPoints
        BY DEF FetchPoints
    <2>b. one \in Fetches
        BY <1>1, <2>a, FetchPc
    <2>1. one[f].pc = "clear" /\ one[f].batch = fetch[f].batch
          /\ \A g \in Fetchers : g # f => one[g] = fetch[g]
        BY <1>1, FetchPcFields
    <2>2. [fetch EXCEPT ![f].pc = "clear", ![f].id = m_id] = [one EXCEPT ![f].id = m_id]
        BY <1>1 DEF Fetches
    <2> HIDE DEF one
    <2>3. /\ fetch' = [one EXCEPT ![f].id = m_id]
          /\ fetch[f].pc = "copy"
          /\ UNCHANGED <<delivered, shown, closeSeen, ui>>
        BY <1>2, <2>2 DEF FetchCopy, RetrieveCopy, roomVars
    <2> QED
        BY <2>b, <2>1, <2>3, FetchIdFields DEF Others
<1>3. CASE ~Current
    BY <1>1, <1>3 DEF FetchCopy, Fetches, Others, vars, reading, roomVars
<1> QED
    BY <1>2, <1>3

LEMMA ClearFetch ==
    ASSUME TypeOK, NumberInv, NEW f \in Fetchers, NEW i \in Ids, i = fetch[f].id, FetchClear(f)
    PROVE  /\ Others(f)
           /\ locked[i]
           /\ fetch[f].pc = "clear"
           /\ fetch'[f].pc = "parse" /\ fetch'[f].id = i /\ fetch'[f].batch = result[i]
           /\ m_messages'[i] = <<>> /\ m_status' = m_status
           /\ delivered' = [delivered EXCEPT ![i] = @ \cup Backlog(result[i])]
           /\ UNCHANGED <<shown, closeSeen, ui>>
<1>1. fetch \in Fetches
    BY DEF NumberInv
<1> DEFINE one == [fetch EXCEPT ![f].pc = "parse"]
<1>a. "parse" \in FetchPoints
    BY DEF FetchPoints
<1>2. one \in Fetches /\ one[f].pc = "parse" /\ one[f].id = fetch[f].id
      /\ \A g \in Fetchers : g # f => one[g] = fetch[g]
    BY <1>1, <1>a, FetchPc, FetchPcFields
<1>3. \A b : [fetch EXCEPT ![f].pc = "parse", ![f].batch = b] = [one EXCEPT ![f].batch = b]
    BY <1>1 DEF Fetches
<1> HIDE DEF one
<1>4. fetch' = [one EXCEPT ![f].batch = result[i]] /\ fetch[f].pc = "clear"
    BY <1>3 DEF FetchClear
<1>5. /\ locked[i] /\ m_messages'[i] = <<>> /\ m_status' = m_status
      /\ delivered' = [delivered EXCEPT ![i] = @ \cup Backlog(result[i])]
      /\ UNCHANGED <<shown, closeSeen, ui>>
    BY DEF FetchClear, RetrieveClear, TypeOK, roomVars
<1> QED
    BY <1>2, <1>4, <1>5 DEF Fetches, Others

LEMMA ParseFetch ==
    ASSUME NumberInv, NEW f \in Fetchers, FetchParse(f)
    PROVE  /\ Others(f)
           /\ fetch[f].pc = "parse" /\ fetch[f].batch # <<>> /\ fetch[f].batch \in Seq(Messages)
           /\ fetch'[f].pc = "parse" /\ fetch'[f].id = fetch[f].id
           /\ fetch'[f].batch = Tail(fetch[f].batch)
           /\ UNCHANGED <<vars, ui>>
BY DEF NumberInv, Fetches, FetchParse, Others, allRoomVars, roomVars

LEMMA CheckFetch ==
    ASSUME NumberInv, NEW f \in Fetchers, FetchCheck(f)
    PROVE  /\ Others(f)
           /\ fetch[f].pc = "parse" /\ fetch[f].batch = <<>>
           /\ fetch'[f].pc \in {"copy", "done"} /\ fetch'[f].batch = <<>>
           /\ UNCHANGED <<vars, shown, closeSeen, ui>>
<1>1. fetch \in Fetches
    BY DEF NumberInv
<1>2. PICK pc \in {"copy", "done"} : fetch' = [fetch EXCEPT ![f].pc = pc, ![f].id = 0]
    BY DEF FetchCheck
<1> DEFINE one == [fetch EXCEPT ![f].pc = pc]
<1>a. pc \in FetchPoints
    BY DEF FetchPoints
<1>b. one \in Fetches
    BY <1>1, <1>a, FetchPc
<1>3. one[f].pc = pc /\ one[f].batch = fetch[f].batch
      /\ \A g \in Fetchers : g # f => one[g] = fetch[g]
    BY <1>1, FetchPcFields
<1>4. [fetch EXCEPT ![f].pc = pc, ![f].id = 0] = [one EXCEPT ![f].id = 0]
    BY <1>1 DEF Fetches
<1> HIDE DEF one
<1>5. /\ fetch[f].pc = "parse" /\ fetch[f].batch = <<>>
      /\ UNCHANGED <<vars, shown, closeSeen, ui>>
    <2>1. /\ fetch[f].pc = "parse" /\ fetch[f].batch = <<>>
          /\ UNCHANGED <<allRoomVars, shown, closeSeen>>
        BY DEF FetchCheck
    <2> QED
        BY <2>1 DEF allRoomVars, roomVars
<1>6. fetch' = [one EXCEPT ![f].id = 0]
    BY <1>2, <1>4
<1>7. fetch'[f].pc = one[f].pc /\ fetch'[f].batch = one[f].batch
      /\ \A g \in Fetchers : g # f => fetch'[g] = one[g]
    BY <1>b, <1>6, FetchIdFields
<1> QED
    BY <1>3, <1>5, <1>7 DEF Others

(* connect() starts the first thread that is free. *)
LEMMA StartsSpare ==
    ASSUME NumberInv, SpareFetcher, StartFetch
    PROVE  \E f \in Fetchers :
               /\ Others(f)
               /\ fetch[f].pc = "none"
               /\ fetch'[f].pc = "copy" /\ fetch'[f].batch = fetch[f].batch
<1> DEFINE Free1(g) == fetch[g].pc = "none" /\ \A h \in 1 .. g - 1 : fetch[h].pc # "none"
           Spare == {g \in Fetchers : fetch[g].pc = "none"}
           f == CHOOSE g \in Fetchers : Free1(g)
<1>1. Spare # {} /\ Spare \subseteq Nat
    BY DEF StartFetch, SpareFetcher, Connecting, Fetchers
<1>2. PICK g \in Spare : \A h \in Spare : g <= h
    <2> HIDE DEF Spare
    <2> QED
        BY <1>1, LeastNumber
<1>3. Free1(g)
    <2>1. ASSUME NEW h \in 1 .. g - 1 PROVE fetch[h].pc # "none"
        <3>1. h \in Fetchers /\ ~(g <= h)
            BY SessionBounds DEF Fetchers
        <3> QED
            BY <1>2, <3>1
    <2> QED
        BY <2>1
<1>4. f \in Fetchers /\ fetch[f].pc = "none"
    <2>1. \E h \in Fetchers : Free1(h)
        BY <1>2, <1>3
    <2>2. f \in Fetchers /\ Free1(f)
        <3> HIDE DEF Free1
        <3> QED
            BY <2>1
    <2> QED
        BY <2>2
<1>5. fetch' = [fetch EXCEPT ![f].pc = "copy"]
    BY DEF StartFetch
<1> HIDE DEF f
<1>6. fetch'[f].pc = "copy" /\ fetch'[f].batch = fetch[f].batch /\ Others(f)
    BY <1>4, <1>5 DEF NumberInv, Fetches, Others
<1> QED
    BY <1>4, <1>6

(* Everything else leaves the threads, and what they have shown, alone.     *)
LEMMA ThreadSteps ==
    ASSUME [SessionNext]_allVars
    PROVE  \/ StartFetch
           \/ \E f \in Fetchers : FetchThread(f)
           \/ /\ UNCHANGED <<fetch, shown, closeSeen, delivered>>
              /\ Connecting' => Connecting \/ \E f \in Fetchers : fetch[f].pc = "none"
<1>1. CASE Window
    <2>1. UNCHANGED <<fetch, shown, closeSeen, delivered>>
        BY <1>1 DEF Window, initMenu, Dismiss, ConnectTo, ConnectDlgOk, ConnectDlgCancel,
                    CommandDisconnect, CommandReconnect, Quit, RoomDisconnect, Disconnect,
                    allRoomVars, sessionVars, vars, reading
    <2>2. Connecting' => Connecting \/ \E f \in Fetchers : fetch[f].pc = "none"
        BY <1>1 DEF Window, initMenu, Dismiss, ConnectTo, ConnectDlgOk, ConnectDlgCancel,
                    CommandDisconnect, CommandReconnect, Quit, RoomDisconnect, Connecting,
                    allRoomVars, roomVars
    <2> QED
        BY <2>1, <2>2
<1>2. CASE WindowGoesOn /\ ~StartFetch
    <2>1. UNCHANGED <<fetch, shown, closeSeen, delivered>>
        BY <1>2 DEF WindowGoesOn, ConnectSteps, ConnectEndPoint, Connect, ConnectFails,
                    SpawnHeartBeat, DtorVisit, DtorJoin, LowerFlag, RaiseFlag, DestroyRoom,
                    DtorBegin, sessionVars, vars, reading
    <2>2. Connecting' => Connecting
        BY <1>2 DEF WindowGoesOn, ConnectSteps, ConnectEndPoint, ConnectFails,
                    SpawnHeartBeat, LowerFlag, RaiseFlag, DestroyRoom, Connecting, roomVars
    <2> QED
        BY <2>1, <2>2
<1>3. CASE IoThread /\ UNCHANGED <<roomVars, sessionVars>>
    <2>1. UNCHANGED delivered
        BY <1>3 DEF IoThread, Handler, OnOpenStatus, OnOpenNotice, OnOpenHello, FrameArrives,
                    OnMessage, HandshakeDone, PeerCloses, Terminate, HandleTerminate,
                    TerminalNotice, reading
    <2> QED
        BY <1>3, <2>1 DEF sessionVars, roomVars, Connecting
<1>4. CASE UNCHANGED allVars
    BY <1>4 DEF allVars, allRoomVars, sessionVars, roomVars, vars, reading, Connecting
<1> QED
    BY <1>1, <1>2, <1>3, <1>4 DEF SessionNext

(* The invariants of the threads, and the history they leave.               *)
ThreadInv == CopyInv /\ SpareFetcher /\ HandInv /\ ParsedExactlyOnce /\ OverInv

(* What a step of Connection needs, and what these proofs may rely on.      *)
Before == SessionInv /\ LiveExactlyOnce /\ ParsedInv /\ ThreadInv

LEMMA SpareStep ==
    ASSUME NumberInv, SpareFetcher, [SessionNext]_allVars
    PROVE  SpareFetcher'
<1>1. CASE StartFetch
    BY <1>1 DEF StartFetch, SpareFetcher, Connecting
<1>2. ASSUME NEW f \in Fetchers, FetchThread(f) PROVE SpareFetcher'
    <2>1. Others(f) /\ fetch[f].pc # "none" /\ ui' = ui
        <3>1. CASE FetchCopy(f)
            BY <3>1, CopyFetch
        <3>2. CASE FetchClear(f)
            BY <3>2 DEF FetchClear, NumberInv, Fetches, Others, roomVars
        <3>3. CASE FetchParse(f)
            BY <3>3, ParseFetch
        <3>4. CASE FetchCheck(f)
            BY <3>4, CheckFetch
        <3> QED
            BY <1>2, <3>1, <3>2, <3>3, <3>4 DEF FetchThread
    <2> QED
        BY <2>1 DEF SpareFetcher, Connecting, Others
<1>3. ASSUME UNCHANGED fetch,
             Connecting' => Connecting \/ \E f \in Fetchers : fetch[f].pc = "none"
      PROVE  SpareFetcher'
    BY <1>3 DEF SpareFetcher
<1> QED
    BY <1>1, <1>2, <1>3, ThreadSteps

LEMMA HandStep ==
    ASSUME Before, [SessionNext]_allVars
    PROVE  HandInv'
<1>a. NumberInv /\ TypeOK /\ CopyInv /\ SpareFetcher /\ HandInv
    BY DEF Before, SessionInv, ThreadInv, TypeInv
<1>b. Increasing(<<>>)
    BY DEF Increasing
<1>c. ASSUME NEW f \in Fetchers, Others(f),
             fetch'[f].pc # "parse" => fetch'[f].batch = <<>>, Increasing(fetch'[f].batch)
      PROVE  HandInv'
    <2>1. ASSUME NEW g \in Fetchers
          PROVE  (fetch'[g].pc # "parse" => fetch'[g].batch = <<>>) /\ Increasing(fetch'[g].batch)
        <3>1. CASE g = f
            BY <1>c, <3>1
        <3>2. CASE g # f
            BY <1>a, <1>c, <3>2 DEF Others, HandInv
        <3> QED
            BY <3>1, <3>2
    <2>2. \A g \in Fetchers :
              (fetch'[g].pc # "parse" => fetch'[g].batch = <<>>) /\ Increasing(fetch'[g].batch)
        BY <2>1
    <2> QED
        BY <2>2 DEF HandInv, Increasing
<1>1. CASE StartFetch
    <2>1. PICK f \in Fetchers : /\ Others(f)
                                /\ fetch[f].pc = "none"
                                /\ fetch'[f].pc = "copy" /\ fetch'[f].batch = fetch[f].batch
        BY <1>1, <1>a, StartsSpare
    <2>2. fetch'[f].batch = <<>>
        BY <1>a, <2>1 DEF HandInv
    <2> QED
        BY <1>b, <1>c, <2>1, <2>2
<1>2. ASSUME NEW f \in Fetchers, FetchThread(f) PROVE HandInv'
    <2>1. CASE FetchCopy(f)
        <3>1. Others(f) /\ fetch'[f].batch = <<>>
            BY <1>a, <2>1, CopyFetch DEF HandInv
        <3> QED
            BY <1>b, <1>c, <3>1
    <2>2. CASE FetchClear(f)
        <3>1. PICK i \in Ids : i = fetch[f].id
            BY <1>a DEF NumberInv, Fetches
        <3>2. /\ Others(f) /\ locked[i]
              /\ fetch'[f].pc = "parse" /\ fetch'[f].batch = result[i]
            BY <1>a, <2>2, <3>1, ClearFetch
        <3>3. Increasing(fetch'[f].batch)
            BY <1>a, <3>2 DEF CopyInv
        <3> QED
            BY <1>c, <3>2, <3>3
    <2>3. CASE FetchParse(f)
        <3>1. /\ Others(f)
              /\ fetch[f].batch \in Seq(Messages) /\ fetch[f].batch # <<>>
              /\ fetch'[f].pc = "parse" /\ fetch'[f].batch = Tail(fetch[f].batch)
            BY <1>a, <2>3, ParseFetch
        <3>2. Increasing(fetch'[f].batch)
            BY <1>a, <3>1, BatchHead DEF HandInv
        <3> QED
            BY <1>c, <3>1, <3>2
    <2>4. CASE FetchCheck(f)
        <3>1. Others(f) /\ fetch'[f].batch = <<>>
            BY <1>a, <2>4, CheckFetch
        <3> QED
            BY <1>b, <1>c, <3>1
    <2> QED
        BY <1>2, <2>1, <2>2, <2>3, <2>4 DEF FetchThread
<1>3. ASSUME UNCHANGED fetch PROVE HandInv'
    BY <1>a, <1>3 DEF HandInv
<1> QED
    BY <1>1, <1>2, <1>3, ThreadSteps

LEMMA OnceStep ==
    ASSUME Before, [SessionNext]_allVars
    PROVE  ParsedExactlyOnce'
<1>a. NumberInv /\ TypeOK /\ CopyInv /\ SpareFetcher /\ HandInv /\ ParsedInv
    BY DEF Before, SessionInv, ThreadInv, TypeInv
<1>b. \A i \in Ids : OnceAt(i)
    BY OnceEverywhere DEF Before, ThreadInv
<1>c. Backlog(<<>>) = {}
    BY DEF Backlog
<1> SUFFICES ASSUME NEW i \in Ids PROVE OnceAt(i)'
    <2>1. (\A i \in Ids : OnceAt(i))' => ParsedExactlyOnce'
        BY OnceEverywhere, PTL
    <2> QED
        BY <2>1
<1>0. ASSUME NEW f \in Fetchers, Others(f)
      PROVE  \A g \in Fetchers : g # f => InHand(g, i)' = InHand(g, i)
    BY <1>0 DEF Others, InHand
<1>d. ASSUME NEW f \in Fetchers, Others(f), InHand(f, i)' = {}, InHand(f, i) = {},
             UNCHANGED <<delivered, shown>>
      PROVE  OnceAt(i)'
    BY <1>0, <1>b, <1>d, OnceSame
<1>1. CASE StartFetch
    <2>1. PICK f \in Fetchers : /\ Others(f)
                                /\ fetch[f].pc = "none"
                                /\ fetch'[f].pc = "copy" /\ fetch'[f].batch = fetch[f].batch
        BY <1>1, <1>a, StartsSpare
    <2>2. UNCHANGED <<delivered, shown>>
        BY <1>1 DEF StartFetch, vars, reading
    <2> QED
        BY <1>d, <2>1, <2>2 DEF InHand
<1>2. ASSUME NEW f \in Fetchers, FetchThread(f) PROVE OnceAt(i)'
    <2>1. CASE FetchCopy(f)
        <3>1. /\ Others(f) /\ fetch[f].pc = "copy" /\ fetch'[f].batch = <<>>
              /\ UNCHANGED <<delivered, shown>>
            BY <1>a, <2>1, CopyFetch DEF HandInv
        <3> QED
            BY <1>c, <1>d, <3>1 DEF InHand
    <2>2. CASE FetchClear(f)
        <3>1. PICK j \in Ids : j = fetch[f].id
            BY <1>a DEF NumberInv, Fetches
        <3>2. /\ Others(f) /\ locked[j]
              /\ fetch[f].pc = "clear"
              /\ fetch'[f].pc = "parse" /\ fetch'[f].id = j /\ fetch'[f].batch = result[j]
              /\ delivered' = [delivered EXCEPT ![j] = @ \cup Backlog(result[j])]
              /\ UNCHANGED shown
            BY <1>a, <2>2, <3>1, ClearFetch
        <3>3. InHand(f, i) = {}
            BY <3>2 DEF InHand
        <3>4. CASE i = j
            <4>1. InHand(f, i)' = Backlog(result[i])
                BY <3>2, <3>4 DEF InHand
            <4>2. delivered'[i] = delivered[i] \cup Backlog(result[i])
                BY <1>a, <3>2, <3>4 DEF TypeOK
            <4>3. Backlog(result[i]) \cap delivered[i] = {}
                <5>1. /\ Backlog(result[i]) = Backlog(m_messages[i])
                      /\ \A d \in delivered[i], b \in Backlog(m_messages[i]) : d < b
                    BY <3>2, <3>4 DEF Before, LiveExactlyOnce
                <5>2. delivered[i] \subseteq Nat
                    BY <1>a DEF TypeOK
                <5> QED
                    BY <5>1, <5>2
            <4> QED
                BY <1>0, <1>b, <3>2, <3>3, <4>1, <4>2, <4>3, OnceTaken
        <3>5. CASE i # j
            <4>1. InHand(f, i)' = {} /\ delivered'[i] = delivered[i] /\ shown'[i] = shown[i]
                BY <1>a, <3>2, <3>5 DEF InHand, TypeOK
            <4> QED
                BY <1>0, <1>b, <3>2, <3>3, <4>1, OnceSame
        <3> QED
            BY <3>4, <3>5
    <2>3. CASE FetchParse(f)
        <3> DEFINE batch == fetch[f].batch
                   m == Head(batch)
                   new == IF fetch[f].id = i /\ IsLive(m) THEN {m.n} ELSE {}
        <3>1. /\ Others(f)
              /\ fetch[f].pc = "parse" /\ batch # <<>> /\ batch \in Seq(Messages)
              /\ fetch'[f].pc = "parse" /\ fetch'[f].id = fetch[f].id
              /\ fetch'[f].batch = Tail(batch)
              /\ UNCHANGED vars
            BY <1>a, <2>3, ParseFetch
        <3>2. /\ Backlog(batch) = Backlog(Tail(batch)) \cup (IF IsLive(m) THEN {m.n} ELSE {})
              /\ IsLive(m) => m.n \notin Backlog(Tail(batch))
            BY <1>a, <3>1, BatchHead DEF HandInv
        <3>3. InHand(f, i) = new \cup InHand(f, i)' /\ new \cap InHand(f, i)' = {}
            BY <3>1, <3>2 DEF InHand
        <3>4. shown'[i] = shown[i] \cup new
            <4>1. shown' = IF IsLive(m) THEN [shown EXCEPT ![fetch[f].id] = @ \cup {m.n}] ELSE shown
                BY <2>3 DEF FetchParse
            <4> HIDE DEF m
            <4> QED
                BY <1>a, <4>1 DEF ParsedInv
        <3>5. delivered' = delivered
            BY <3>1 DEF vars, reading
        <3> HIDE DEF new
        <3> QED
            BY <1>0, <1>b, <3>1, <3>3, <3>4, <3>5, OnceShown
    <2>4. CASE FetchCheck(f)
        <3>1. /\ Others(f) /\ fetch[f].batch = <<>> /\ fetch'[f].batch = <<>>
              /\ UNCHANGED <<vars, shown>>
            BY <1>a, <2>4, CheckFetch
        <3>2. UNCHANGED delivered
            BY <3>1 DEF vars, reading
        <3> QED
            BY <1>c, <1>d, <3>1, <3>2 DEF InHand
    <2> QED
        BY <1>2, <2>1, <2>2, <2>3, <2>4 DEF FetchThread
<1>3. ASSUME UNCHANGED <<fetch, shown, delivered>> PROVE OnceAt(i)'
    BY <1>3, <1>b, OnceSame DEF InHand
<1> QED
    BY <1>1, <1>2, <1>3, ThreadSteps

LEMMA OverStep ==
    ASSUME ConnectionBounds, Before, [SessionNext]_allVars
    PROVE  OverInv'
<1>a. NumberInv /\ TypeOK /\ CopyInv /\ SpareFetcher /\ HandInv /\ ParsedInv /\ OverInv
    BY DEF Before, SessionInv, ThreadInv, TypeInv
<1>b. \A i \in Ids : Over(i) => Over(i)'
    BY SessionStep, OverStays DEF Before, SessionInv
<1>c. ~HasClosed(<<>>)
    BY DEF HasClosed
<1>d. \A f \in Fetchers : fetch[f].id \in Ids
    BY <1>a DEF NumberInv, Fetches
<1>e. ASSUME NEW f \in Fetchers, Others(f),
             \A i \in Ids : fetch'[f].id = i /\ HasClosed(fetch'[f].batch) => Over(i)',
             \A i \in closeSeen' : i \in closeSeen \/ (i \in Ids /\ Over(i))
      PROVE  OverInv'
    <2>1. ASSUME NEW g \in Fetchers, NEW i \in Ids, fetch'[g].id = i, HasClosed(fetch'[g].batch)
          PROVE  Over(i)'
        <3>1. CASE g = f
            BY <1>e, <2>1, <3>1
        <3>2. CASE g # f
            BY <1>a, <1>b, <1>e, <2>1, <3>2 DEF Others, OverInv
        <3> QED
            BY <3>1, <3>2
    <2>2. ASSUME NEW i \in closeSeen' PROVE Over(i)'
        BY <1>a, <1>b, <1>e, <2>2 DEF OverInv, ParsedInv
    <2>3. \A g \in Fetchers, i \in Ids : (fetch[g].id = i /\ HasClosed(fetch[g].batch) => Over(i))'
        BY <2>1 DEF HasClosed
    <2> QED
        BY <2>2, <2>3 DEF OverInv
<1>1. CASE StartFetch
    <2>1. PICK f \in Fetchers : /\ Others(f)
                                /\ fetch[f].pc = "none"
                                /\ fetch'[f].pc = "copy" /\ fetch'[f].batch = fetch[f].batch
        BY <1>1, <1>a, StartsSpare
    <2>2. closeSeen' = closeSeen /\ fetch'[f].batch = <<>>
        BY <1>1, <1>a, <2>1 DEF StartFetch, HandInv
    <2> QED
        BY <1>c, <1>e, <2>1, <2>2
<1>2. ASSUME NEW f \in Fetchers, FetchThread(f) PROVE OverInv'
    <2>1. CASE FetchCopy(f)
        <3>1. /\ Others(f) /\ fetch'[f].batch = <<>> /\ closeSeen' = closeSeen
            BY <1>a, <2>1, CopyFetch DEF HandInv
        <3> QED
            BY <1>c, <1>e, <3>1
    <2>2. CASE FetchClear(f)
        <3>1. PICK i \in Ids : i = fetch[f].id
            BY <1>d
        <3>2. /\ Others(f) /\ locked[i]
              /\ fetch'[f].id = i /\ fetch'[f].batch = result[i]
              /\ m_messages'[i] = <<>> /\ m_status' = m_status
              /\ closeSeen' = closeSeen
            BY <1>a, <2>2, <3>1, ClearFetch
        <3>3. Backlog(<<>>) = {}
            BY DEF Backlog
        <3>4. HasClosed(fetch'[f].batch) => m_status'[i] = "Closed"
            BY <1>a, <3>2 DEF CopyInv
        <3>5. HasClosed(fetch'[f].batch) => Over(i)'
            BY <3>2, <3>3, <3>4 DEF Over
        <3> QED
            BY <1>e, <3>2, <3>5
    <2>3. CASE FetchParse(f)
        <3> DEFINE batch == fetch[f].batch
        <3>0. PICK i \in Ids : i = fetch[f].id
            BY <1>d
        <3>1. /\ Others(f)
              /\ batch # <<>> /\ batch \in Seq(Messages)
              /\ fetch'[f].id = i /\ fetch'[f].batch = Tail(batch)
            BY <1>a, <2>3, <3>0, ParseFetch
        <3>2. HasClosed(batch) <=> Head(batch) = Notice("Closed") \/ HasClosed(Tail(batch))
            BY <1>a, <3>1, BatchHead DEF HandInv
        <3>3. HasClosed(batch) => Over(i)
            BY <1>a, <3>0 DEF OverInv
        <3>4. closeSeen' = IF Head(batch) = Notice("Closed") THEN closeSeen \cup {i} ELSE closeSeen
            BY <2>3, <3>0 DEF FetchParse
        <3>5. HasClosed(fetch'[f].batch) => Over(i)'
            BY <1>b, <3>1, <3>2, <3>3
        <3>6. \A j \in closeSeen' : j \in closeSeen \/ (j \in Ids /\ Over(j))
            BY <3>2, <3>3, <3>4
        <3> QED
            BY <1>e, <3>1, <3>5, <3>6
    <2>4. CASE FetchCheck(f)
        <3>1. Others(f) /\ fetch'[f].batch = <<>> /\ closeSeen' = closeSeen
            BY <1>a, <2>4, CheckFetch
        <3> QED
            BY <1>c, <1>e, <3>1
    <2> QED
        BY <1>2, <2>1, <2>2, <2>3, <2>4 DEF FetchThread
<1>3. ASSUME UNCHANGED <<fetch, closeSeen>> PROVE OverInv'
    BY <1>3, <1>a, <1>b DEF OverInv, ParsedInv, HasClosed
<1> QED
    BY <1>1, <1>2, <1>3, ThreadSteps

LEMMA ThreadInit == ASSUME SessionInit PROVE ParsedInv /\ ThreadInv
<1>1. Backlog(<<>>) = {} /\ Increasing(<<>>) /\ ~HasClosed(<<>>)
    BY DEF Backlog, Increasing, HasClosed
<1>2. /\ fetch = [f \in Fetchers |-> [pc |-> "none", id |-> 0, batch |-> <<>>]]
      /\ shown = [i \in Ids |-> {}] /\ delivered = [i \in Ids |-> {}] /\ closeSeen = {}
      /\ m_messages = [i \in Ids |-> <<>>] /\ locked = [i \in Ids |-> FALSE]
      /\ ui = "idle" /\ m_bStopThread = TRUE
    BY DEF SessionInit, RoomInit, Init
<1>3. CopyInv /\ SpareFetcher /\ HandInv /\ OverInv
    BY <1>1, <1>2 DEF CopyInv, SpareFetcher, Connecting, HandInv, OverInv
<1>4. ParsedExactlyOnce
    <2>1. \A f \in Fetchers, i \in Ids : InHand(f, i) = {}
        BY <1>2 DEF InHand
    <2>2. \A i \in Ids : OnceAt(i)
        BY <1>2, <2>1 DEF OnceAt
    <2> QED
        BY <2>2, OnceEverywhere
<1>5. ParsedInv
    BY <1>2 DEF ParsedInv
<1> QED
    BY <1>3, <1>4, <1>5 DEF ThreadInv

LEMMA ThreadInvHolds == SessionSafety => []Before
<1>1. SessionInit => Before
    <2>1. SessionInit => SessionInv
        BY ConnectionBounds, TypeInit, StatusInit, NumberInit, LiveInit
           DEF SessionInit, RoomInit, SessionInv
    <2>2. Init => LiveExactlyOnce
        BY DEF Init, LiveExactlyOnce, Backlog, Increasing
    <2> QED
        BY <2>1, <2>2, ThreadInit DEF SessionInit, RoomInit, Before
<1>2. Before /\ [SessionNext]_allVars => Before'
    <2> SUFFICES ASSUME Before, [SessionNext]_allVars PROVE Before'
        OBVIOUS
    <2>1. SessionInv /\ LiveExactlyOnce /\ ParsedInv /\ ThreadInv
        BY DEF Before
    <2>2. [Next]_vars
        BY <2>1, SessionStep DEF SessionInv
    <2>3. SessionInv'
        BY <2>1, <2>2, ConnectionBounds, TypeStep, StatusStep, NumberStep, LiveStep DEF SessionInv
    <2>4. LiveExactlyOnce' /\ CopyInv'
        BY <2>1, <2>2, ConnectionBounds, ExactStep, CopyStep DEF SessionInv, ThreadInv
    <2>5. ParsedInv'
        BY <2>1, ParsedStep DEF SessionInv
    <2>6. SpareFetcher' /\ HandInv' /\ ParsedExactlyOnce' /\ OverInv'
        BY <2>1, ConnectionBounds, SpareStep, HandStep, OnceStep, OverStep DEF SessionInv, ThreadInv
    <2> QED
        BY <2>3, <2>4, <2>5, <2>6 DEF Before, ThreadInv
<1> QED
    BY <1>1, <1>2, PTL DEF SessionSafety

(* From the socket to the list: whatever retrieve() hands out is parsed by  *)
(* exactly one thread, for every number of connections, messages and fetch  *)
(* threads, all of which may still run when the next one is started.        *)
THEOREM ParsedOnce == SessionSafety => []ParsedExactlyOnce
<1>1. Before => ParsedExactlyOnce
    BY DEF Before, ThreadInv
<1> QED
    BY <1>1, ThreadInvHolds, PTL

(* Whoever parses the Closed notice of a connection, its live messages have *)
(* all left the mailbox: they are shown or in the hands of fetch threads.   *)
THEOREM ClosedLast == SessionSafety => []ClosedComesLast
<1>1. Before => ClosedComesLast
    <2> SUFFICES ASSUME Before, NEW i \in closeSeen
                 PROVE  shown[i] \cup UNION {InHand(f, i) : f \in Fetchers}
                            = 1 .. m_message_count[i]
        BY DEF ClosedComesLast
    <2>1. i \in Ids /\ Backlog(m_messages[i]) = {}
        BY DEF Before, ParsedInv, ThreadInv, OverInv, Over
    <2>2. delivered[i] \cup Backlog(m_messages[i]) = 1 .. m_message_count[i]
        BY <2>1 DEF Before, LiveExactlyOnce
    <2>3. delivered[i] = shown[i] \cup UNION {InHand(f, i) : f \in Fetchers}
        BY <2>1 DEF Before, ThreadInv, ParsedExactlyOnce
    <2> QED
        BY <2>1, <2>2, <2>3
<1> QED
    BY <1>1, ThreadInvHolds, PTL

(* What the mailboxes have ever held is in order under a Session, too.      *)
THEOREM SessionLog == SessionSafety => []LogInOrder
BY SessionImplements, LogOrdered, PTL
=============================================================================
