------------------------------- MODULE Packets -------------------------------
(***************************************************************************)
(* The packets of bili-server: those room-packets.cpp makes, and what      *)
(* MetaData::on_message makes of those it gets.  A string of the code is a *)
(* sequence of bytes here.                                                 *)
(***************************************************************************)
EXTENDS Integers, Sequences

Byte == 0 .. 255
HeaderLength == 16

(* What four bytes hold.                                                    *)
Word == {n \in Nat : n \div 16777216 < 256}

(* The four bytes (n >> 24) & 0xFF, ..., n & 0xFF.                          *)
BigEndian(n) ==
    <<(n \div 16777216) % 256, (n \div 65536) % 256, (n \div 256) % 256, n % 256>>

(* The unsigned number of the four bytes from position k on.                *)
Number(bytes, k) ==
    bytes[k] * 16777216 + bytes[k + 1] * 65536 + bytes[k + 2] * 256 + bytes[k + 3]

(* The length of a packet and the words 0x00100001, operation, 1.           *)
Header(length, operation) ==
    BigEndian(length) \o <<0, 16, 0, 1>> \o BigEndian(operation) \o BigEndian(1)

HELLO == 7
HEART == 2

(* Mutant: the 7 is put at 0xA, one place too early.                        *)
PacketHelloShifted(command) == Header(HeaderLength + Len(command), HELLO * 256) \o command

PacketHello(command) == Header(HeaderLength + Len(command), HELLO) \o command

(* Mutant: copied from PacketHello with its operation.                      *)
PacketHeartHello(command) == Header(HeaderLength + Len(command), HELLO) \o command

PacketHeart(command) == Header(HeaderLength + Len(command), HEART) \o command

(* What the server makes of the bytes of one frame: a packet that says how  *)
(* long it is, what it is for, and its body.                                *)
Heard(bytes) ==
    [whole |-> Number(bytes, 1) = Len(bytes),
     operation |-> Number(bytes, 9),
     body |-> SubSeq(bytes, HeaderLength + 1, Len(bytes))]

(* A text frame is refused unless its bytes are UTF-8, as bytes below 0x80  *)
(* are.                                                                     *)
ValidText(bytes) == \A k \in DOMAIN bytes : bytes[k] < 128

-----------------------------------------------------------------------------
(* A reply to Hello or to a heartbeat, and the audience count.              *)
IsReply(bytes) == Len(bytes) = HeaderLength
IsAudience(bytes) == Len(bytes) = HeaderLength + 4

(* The loop over any other frame: where it is after k packets, each as long *)
(* as its first four bytes say, and how many it takes to get through.       *)
Ends(bytes) ==
    LET end[k \in 0 .. Len(bytes)] ==
            IF k = 0 THEN 0
            ELSE LET begin == end[k - 1] IN begin + Number(bytes, begin + 1)
    IN  end

Through(end, length) ==
    CHOOSE k \in 0 .. length : end[k] >= length /\ \A j \in 0 .. k - 1 : end[j] < length

(* Mutant: the header stays on the message.                                 *)
SplitWithHeader(bytes) ==
    LET end == Ends(bytes)
    IN  [k \in 1 .. Through(end, Len(bytes)) |-> SubSeq(bytes, end[k - 1] + 1, end[k])]

(* The messages of such a frame.                                            *)
Split(bytes) ==
    LET end == Ends(bytes)
    IN  [k \in 1 .. Through(end, Len(bytes)) |->
            SubSeq(bytes, end[k - 1] + HeaderLength + 1, end[k])]

(* A char of the build is signed.                                           *)
Signed(byte) == IF byte < 128 THEN byte ELSE byte - 256

(* A char is shifted in on the right with |: a negative one has ones in     *)
(* every place above its own, and so hides those before it.                 *)
ShiftedIn(count, byte) == IF Signed(byte) < 0 THEN Signed(byte) ELSE count * 256 + byte

(* Mutant: the bytes are taken from the wrong end.                          *)
AudienceBackwards(bytes) ==
    ShiftedIn(ShiftedIn(ShiftedIn(Signed(bytes[20]), bytes[19]), bytes[18]), bytes[17])

(* The four chars of an audience count.                                     *)
Audience(bytes) ==
    ShiftedIn(ShiftedIn(ShiftedIn(Signed(bytes[17]), bytes[18]), bytes[19]), bytes[20])
=============================================================================
