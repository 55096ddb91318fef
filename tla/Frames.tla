-------------------------------- MODULE Frames --------------------------------
(***************************************************************************)
(* MetaData::on_message with the bytes it gets, and the Hello packet of    *)
(* on_open.  Connection says how many live messages a frame brings; here   *)
(* the server puts messages, replies and audience counts into the packets  *)
(* of a frame, and on_message has to find them again.                      *)
(***************************************************************************)
EXTENDS Connection, Packets

CONSTANTS Texts,       \* the server's messages, in the order it sends them
          Counts,      \* audience counts it may send
          MaxCounts,   \* bound on how often it does
          Command      \* what Hello asks for: user, room, protocol version

(* The server's messages are whole packets, and none is so short that its   *)
(* frame has the length of a reply or of an audience count; the length of a *)
(* packet fits in its four bytes.                                           *)
ASSUME FramesBounds ==
    /\ Texts \in Seq(Seq(Byte))
    /\ \A n \in DOMAIN Texts :
          Len(Texts[n]) \notin {0, 4} /\ HeaderLength + Len(Texts[n]) \in Word
    /\ Counts \subseteq Word /\ MaxCounts \in Nat
    /\ Command \in Seq(Byte) /\ HeaderLength + Len(Command) \in Word

VARIABLES
    payload,      \* the frame on_message was called with
    m_audience,   \* MetaData: the latest count, before it becomes a size_t
    heard,        \* what the server has heard of on_open's Hello
    sent,         \* history: how many of Texts the server has sent
    read,         \* history: how many of them on_message has found, in this order
    said          \* history: the counts the server has sent, of all connections

frameVars == <<payload, m_audience, heard, sent, read, said>>
allFrameVars == <<vars, frameVars>>

NoFrame == [opcode |-> "none", bytes |-> <<>>]
Nothing == [whole |-> FALSE, operation |-> 0, body |-> <<>>]
Unset == -1

FramesInit ==
    /\ Init
    /\ payload = NoFrame
    /\ m_audience = [i \in Ids |-> Unset]
    /\ heard = [i \in Ids |-> Nothing]
    /\ sent = [i \in Ids |-> 0]
    /\ read = [i \in Ids |-> 0]
    /\ said = <<>>

-----------------------------------------------------------------------------
(* Operations of the server's packets: the reply to Hello, to a heartbeat,  *)
(* and a message.                                                           *)
WELCOME == 8
COUNT == 3
MESSAGE == 5

ServerPacket(operation, body) == Header(HeaderLength + Len(body), operation) \o body

(* The packets of messages n .. n + k - 1, one after the other.             *)
Packed(n, k) ==
    LET upto[j \in 0 .. k] ==
            IF j = 0 THEN <<>> ELSE upto[j - 1] \o ServerPacket(MESSAGE, Texts[n + j - 1])
    IN  upto[k]

Binary(bytes) == [opcode |-> "binary", bytes |-> bytes]

(* A frame with the next messages; a reply or a text frame, neither of      *)
(* which says anything; an audience count.                                  *)
ServerMessages(i) ==
    /\ FrameArrives(i)
    /\ io'.frame > 0
    /\ sent[i] + io'.frame <= Len(Texts)
    /\ sent' = [sent EXCEPT ![i] = @ + io'.frame]
    /\ payload' = Binary(Packed(sent[i] + 1, io'.frame))
    /\ UNCHANGED <<m_audience, heard, read, said>>

ServerNoise(i) ==
    /\ FrameArrives(i)
    /\ io'.frame = 0
    /\ payload' \in {Binary(ServerPacket(WELCOME, <<>>)),
                     [opcode |-> "text", bytes |-> ServerPacket(MESSAGE, Command)]}
    /\ UNCHANGED <<m_audience, heard, sent, read, said>>

ServerCounts(i) ==
    /\ FrameArrives(i)
    /\ io'.frame = 0
    /\ Len(said) < MaxCounts
    /\ \E count \in Counts :
          /\ payload' = Binary(ServerPacket(COUNT, BigEndian(count)))
          /\ said' = Append(said, [id |-> i, count |-> count])
    /\ UNCHANGED <<m_audience, heard, sent, read>>

-----------------------------------------------------------------------------
(* The live messages on_message makes of a frame.                           *)
Found(frame) ==
    IF frame.opcode # "binary" \/ IsReply(frame.bytes) \/ IsAudience(frame.bytes)
    THEN <<>> ELSE Split(frame.bytes)

(* What on_message does with the messages found, without the lock.          *)
Receive(i, found, counted) ==
    /\ Push(i, [p \in DOMAIN found |-> Live(m_message_count[i] + p)])
    /\ m_message_count' = [m_message_count EXCEPT ![i] = @ + counted]
    /\ read' = IF found = SubSeq(Texts, read[i] + 1, read[i] + Len(found))
               THEN [read EXCEPT ![i] = @ + Len(found)] ELSE read
    /\ m_audience' = IF payload.opcode = "binary" /\ IsAudience(payload.bytes)
                     THEN [m_audience EXCEPT ![i] = Audience(payload.bytes)]
                     ELSE m_audience
    /\ payload' = NoFrame
    /\ io' = Polling
    /\ UNCHANGED <<session, reading, m_status, hello, dtor, heard, sent, said>>

(* Mutants: no lock_guard; one count for each frame, not for each packet.   *)
on_message_unlocked ==
    /\ io.pc = "on_message"
    /\ Receive(io.id, Found(payload), Len(Found(payload)))

on_message_per_frame ==
    /\ io.pc = "on_message"
    /\ ~locked[io.id]
    /\ Receive(io.id, Found(payload), 1)

on_message ==
    /\ io.pc = "on_message"
    /\ ~locked[io.id]
    /\ Receive(io.id, Found(payload), Len(Found(payload)))

(* The Hello packet goes out as a binary frame.                             *)
SayHello ==
    /\ OnOpenHello
    /\ heard' = IF hello'[io.id] = "sent"
                THEN [heard EXCEPT ![io.id] = Heard(PacketHello(Command))] ELSE heard
    /\ UNCHANGED <<payload, m_audience, sent, read, said>>

(* What has nothing to do with bytes is Connection's.                       *)
Elsewhere ==
    /\ \/ OnOpenStatus \/ OnOpenNotice \/ TerminalNotice \/ Program \/ Destructor
       \/ \E i \in Ids : HandshakeDone(i) \/ PeerCloses(i) \/ Terminate(i) \/ HandleTerminate(i)
    /\ UNCHANGED frameVars

FramesNext ==
    \/ SayHello \/ on_message \/ Elsewhere
    \/ \E i \in Ids : ServerMessages(i) \/ ServerNoise(i) \/ ServerCounts(i)

FramesSafety == FramesInit /\ [][FramesNext]_allFrameVars

-----------------------------------------------------------------------------
(* The type: there is a frame in hand exactly while on_message runs, and    *)
(* whatever the server has heard is for one of the operations it knows from *)
(* a client (0 before it has heard anything).                               *)
FramesTypeOK ==
    /\ payload.opcode \in {"none", "text", "binary"} /\ payload.bytes \in Seq(Byte)
    /\ payload = NoFrame <=> io.pc # "on_message"
    /\ m_audience \in [Ids -> Int]
    /\ heard \in [Ids -> [whole : BOOLEAN, operation : {0, HELLO, HEART}, body : Seq(Byte)]]
    /\ sent \in [Ids -> 0 .. Len(Texts)] /\ read \in [Ids -> 0 .. Len(Texts)]
    /\ said \in Seq([id : Ids, count : Counts])

(* The counts the server has sent to i and on_message has dealt with.       *)
CountInHand == payload.opcode = "binary" /\ IsAudience(payload.bytes)
Told(i) == {k \in DOMAIN said : said[k].id = i /\ (CountInHand => k # Len(said))}

(* What one side puts into packets the other finds again, however packets   *)
(* are put together in frames and whatever frames come between: the live    *)
(* messages are the server's texts, each once, whole and in order;          *)
(* m_audience is the latest count as long as none of its bytes is above     *)
(* 0x7F (a char is signed); and the server has heard a whole Hello for the  *)
(* room asked for from each connection that has sent it.                    *)
PacketsRead ==
    \A i \in Ids :
        /\ sent[i] = read[i] + (IF Inside(i, {"on_message"}) THEN io.frame ELSE 0)
        /\ m_message_count[i] = read[i]
        /\ Told(i) = {} => m_audience[i] = Unset
        /\ \A k \in Told(i) :
              (\A l \in Told(i) : l <= k) /\ ValidText(BigEndian(said[k].count))
                  => m_audience[i] = said[k].count
        /\ hello[i] = "sent" =>
               heard[i] = [whole |-> TRUE, operation |-> HELLO, body |-> Command]
=============================================================================
