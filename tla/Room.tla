-------------------------------- MODULE Room --------------------------------
(***************************************************************************)
(* bili-server/room.cpp: a Room owns the EndPoint, remembers the number of *)
(* its current connection in m_id, and starts one detached heartbeat       *)
(* thread per connection.  The threads share m_id with the thread that     *)
(* calls connect and disconnect (the window's thread), without a lock.     *)
(***************************************************************************)
EXTENDS Connection, Packets

CONSTANTS RoomIds,     \* the room numbers a caller may join
          EveryTick    \* heartbeat period in turns of the loop (30 in the code)

ASSUME RoomBounds == RoomIds \subseteq Nat /\ EveryTick \in Nat \ {0}

NoId == -1             \* m_id before the first connection and after a failed one

VARIABLES
    m_roomid,          \* -1 until join()
    m_id,
    ui,                \* where the calling thread stands
    beat,              \* heartbeat thread of each connection
    heart              \* history: what the current connection heard last, a beat or nothing

roomVars == <<m_roomid, m_id, ui, beat, heart>>
allRoomVars == <<vars, roomVars>>

BeatPoints == {"none", "look", "status", "beat", "done"}
Beating(b) == beat[b].pc \in {"look", "status", "beat"}
Current == m_id # NoId

RoomInit ==
    /\ Init
    /\ m_roomid = -1
    /\ m_id = NoId
    /\ ui = "idle"
    /\ beat = [b \in Ids |-> [pc |-> "none", id |-> 0, ticks |-> 0]]
    /\ heart = "rest"

-----------------------------------------------------------------------------
(* Calls of the owning thread. *)

(* Room::join *)
Join(r) ==
    /\ ui = "idle" /\ dtor.pc = "no"
    /\ m_roomid' = r
    /\ UNCHANGED <<vars, m_id, ui, beat, heart>>

(* Room::connect up to the blocking request for the server's URI.  Callers  *)
(* join a room first; room 0 returns at once (m_heart_beat is detached, so  *)
(* it is never joinable).                                                   *)
ConnectBegin ==
    /\ ui = "idle" /\ dtor.pc = "no" /\ m_roomid # -1
    /\ ui' = IF m_roomid = 0 THEN "return" ELSE "uri"
    /\ UNCHANGED <<vars, m_roomid, m_id, beat, heart>>

(* The request answers: a connection is made, or the URI is "error" and     *)
(* EndPoint::connect returns -1, which m_id keeps.                          *)
ConnectEndPoint ==
    /\ ui = "uri"
    /\ Connect
    /\ m_id' = m_next_id
    /\ ui' = "spawn"
    /\ heart' = "rest"
    /\ UNCHANGED <<m_roomid, beat>>

ConnectFails ==
    /\ ui = "uri"
    /\ m_id' = NoId
    /\ ui' = "return"
    /\ heart' = "rest"
    /\ UNCHANGED <<vars, m_roomid, beat>>

(* The heartbeat thread is started and detached. *)
SpawnHeartBeat ==
    /\ ui = "spawn"
    /\ beat' = [beat EXCEPT ![m_id].pc = "look"]
    /\ ui' = "return"
    /\ UNCHANGED <<vars, m_roomid, m_id, heart>>

(* Room::disconnect; joining the detached thread throws and is swallowed.   *)
(* The caller goes on at next.                                              *)
RoomDisconnect(next) ==
    /\ ui = "idle" /\ dtor.pc = "no"
    /\ IF Current THEN Disconnect(m_id) ELSE UNCHANGED vars
    /\ ui' = next
    /\ UNCHANGED <<m_roomid, m_id, beat, heart>>

(* "[object Object]" *)
ObjectObject == <<91, 111, 98, 106, 101, 99, 116, 32, 79, 98, 106, 101, 99, 116, 93>>

(* What send() passes on is a text frame: websocketpp refuses it unless its *)
(* bytes are text, and the server has to find a heartbeat in it.            *)
HeartPacket == PacketHeart(ObjectObject)
HeartHeard == ValidText(HeartPacket) /\ Heard(HeartPacket).whole
                                     /\ Heard(HeartPacket).operation = HEART

(* Room::send on connection m_id, whose session has to be open; an unknown  *)
(* number and an error are dropped.                                         *)
SendHeart == heart' = IF Current /\ ws[m_id] = "open" /\ HeartHeard THEN "sent" ELSE "rest"

(* Room::heartBeat, for callers that have no thread of their own.           *)
heartBeat ==
    /\ ui = "idle" /\ dtor.pc = "no"
    /\ SendHeart
    /\ UNCHANGED <<vars, m_roomid, m_id, ui, beat>>

(* Room::clear: the room is forgotten, the connection is not.               *)
clear ==
    /\ ui = "idle" /\ dtor.pc = "no"
    /\ m_roomid' = 0
    /\ UNCHANGED <<vars, m_id, ui, beat, heart>>

ConnectSteps == ConnectEndPoint \/ ConnectFails \/ SpawnHeartBeat

-----------------------------------------------------------------------------
(* One turn of heartbeat thread b. *)

(* getMetaData(): the thread looks at whatever m_id is now. *)
BeatLook(b) ==
    /\ beat[b].pc = "look" /\ dtor.pc # "joined"
    /\ beat' = IF Current THEN [beat EXCEPT ![b].pc = "status", ![b].id = m_id]
                          ELSE [beat EXCEPT ![b].pc = "done"]
    /\ UNCHANGED <<vars, m_roomid, m_id, ui, heart>>

(* Mutants: only Open keeps the thread alive; Closed does not end it. *)
BeatStatusOpenOnly(b) ==
    /\ beat[b].pc = "status" /\ dtor.pc # "joined"
    /\ LET open == m_status[beat[b].id] = "Open"
       IN  beat' = [beat EXCEPT ![b].pc = IF open THEN "beat" ELSE "done",
                                ![b].id = IF open THEN @ ELSE 0]
    /\ UNCHANGED <<vars, m_roomid, m_id, ui, heart>>

BeatStatusNoQuit(b) ==
    /\ beat[b].pc = "status" /\ dtor.pc # "joined"
    /\ LET open == m_status[beat[b].id] = "Open"
       IN  beat' = [beat EXCEPT ![b].pc = IF open THEN "beat" ELSE "look",
                                ![b].id = IF open THEN @ ELSE 0]
    /\ UNCHANGED <<vars, m_roomid, m_id, ui, heart>>

(* getStatus(): Closed ends the thread, anything but Open is slept over.    *)
BeatStatus(b) ==
    /\ beat[b].pc = "status" /\ dtor.pc # "joined"
    /\ LET status == m_status[beat[b].id]
       IN  beat' = [beat EXCEPT ![b].pc = IF status = "Closed" THEN "done"
                                          ELSE IF status = "Open" THEN "beat"
                                          ELSE "look",
                                ![b].id = IF status = "Open" THEN @ ELSE 0]
    /\ UNCHANGED <<vars, m_roomid, m_id, ui, heart>>

(* Mutant: the ticks are not wrapped round. *)
BeatNoWrap(b) ==
    /\ beat[b].pc = "beat" /\ dtor.pc # "joined"
    /\ beat' = [beat EXCEPT ![b].pc = "look", ![b].id = 0, ![b].ticks = @ + 1]
    /\ UNCHANGED <<vars, m_roomid, m_id, ui, heart>>

(* Send through m_id, read again, when a heartbeat is due; count the tick.  *)
Beat(b) ==
    /\ beat[b].pc = "beat" /\ dtor.pc # "joined"
    /\ IF beat[b].ticks = 0 THEN SendHeart ELSE heart' = "rest"
    /\ beat' = [beat EXCEPT ![b].pc = "look",
                            ![b].id = 0,
                            ![b].ticks = (@ + 1) % EveryTick]
    /\ UNCHANGED <<vars, m_roomid, m_id, ui>>

HeartBeatThread(b) == BeatLook(b) \/ BeatStatus(b) \/ Beat(b)

-----------------------------------------------------------------------------
(* ~Room comes down to ~EndPoint.  Room::retrieve is called by the fetch    *)
(* threads of Session.                                                      *)
Destroy ==
    /\ (ui = "idle" /\ DtorBegin) \/ DtorVisit \/ DtorJoin
    /\ UNCHANGED roomVars

Return ==
    /\ ui = "return"
    /\ ui' = "idle"
    /\ UNCHANGED <<vars, m_roomid, m_id, beat, heart>>

(* What goes on until the room is destroyed. *)
RoomLives ==
    \/ \E r \in RoomIds : Join(r)
    \/ ConnectBegin \/ ConnectSteps \/ Return
    \/ RoomDisconnect("idle")
    \/ heartBeat \/ clear
    \/ \E b \in Ids : HeartBeatThread(b)
    \/ IoThread /\ UNCHANGED roomVars

RoomNext == RoomLives \/ Destroy

(* Running threads keep running; the owner finishes the calls it makes.     *)
RoomFairness ==
    /\ WF_allRoomVars((Handler \/ OnMessage \/ DtorVisit \/ DtorJoin) /\ UNCHANGED roomVars)
    /\ \A i \in Ids :
          /\ SF_allRoomVars(Due(i) /\ UNCHANGED roomVars)
          /\ WF_allRoomVars(HeartBeatThread(i))
    /\ WF_allRoomVars(ConnectSteps \/ Return)

RoomSafety == RoomInit /\ [][RoomNext]_allRoomVars
RoomSpec == RoomSafety /\ RoomFairness

-----------------------------------------------------------------------------
(* The type of the room's own state. *)
RoomTypeOK ==
    /\ m_roomid \in RoomIds \cup {-1, 0}
    /\ m_id \in Ids \cup {NoId}
    /\ ui \in {"idle", "uri", "spawn", "return", "fetch", "quit", "destroy"}
    /\ beat \in [Ids -> [pc : BeatPoints, id : Ids, ticks : 0 .. EveryTick - 1]]
    /\ heart \in {"sent", "rest"}

(* Threads of earlier connections follow m_id to the new one and may end    *)
(* themselves there, but the thread started for the current connection is   *)
(* alive as long as that connection is not Closed: an Open connection is    *)
(* never left without a heartbeat once connect() has returned.              *)
OpenHasHeartBeat ==
    Current /\ ui # "spawn" /\ m_status[m_id] # "Closed" => Beating(m_id)

(* When the current connection has Closed, all heartbeat threads end,       *)
(* unless a new connection takes its place (or the room is destroyed).      *)
ClosedStopsHeartBeats ==
    \A i \in Ids :
        m_id = i /\ m_status[i] = "Closed"
            ~> m_id # i \/ dtor.pc = "joined" \/ \A b \in Ids : ~Beating(b)

(* A connection that stays current and open gets heartbeats for ever.       *)
OpenKeepsBeating ==
    \A i \in Ids :
        <>[](m_id = i /\ ws[i] = "open" /\ m_status[i] = "Open" /\ ui = "idle")
            => []<>(heart = "sent")
=============================================================================
