----------------------------- MODULE FramesProofs -----------------------------
(***************************************************************************)
(* Frames on top of Connection, for all texts, counts and commands whose   *)
(* packets' lengths their four bytes can hold, and every number of         *)
(* connections, messages and packets: what one side puts into packets the  *)
(* other finds again, and what is proved of Connection holds of it with    *)
(* its messages in bytes.  First the bytes: a number is read back from its *)
(* four, a packet says how long it is, and the loop of on_message, by      *)
(* induction over the packets of a frame, stops where each of them ends.   *)
(* Then the steps.                                                         *)
(***************************************************************************)
EXTENDS Frames, ConnectionProofs, Induction

-----------------------------------------------------------------------------
(* Four bytes of a number. *)

LEMMA ByteOf ==
    ASSUME NEW n \in Nat
    PROVE  n % 256 \in Byte /\ n \div 256 \in Nat /\ n = 256 * (n \div 256) + (n % 256)
BY DEF Byte

LEMMA WordBytes ==
    ASSUME NEW n \in Word
    PROVE  /\ n \in Nat
           /\ BigEndian(n) \in Seq(Byte) /\ Len(BigEndian(n)) = 4
           /\ \A j \in 1 .. 4 : BigEndian(n)[j] \in Byte
           /\ ((BigEndian(n)[1] * 256 + BigEndian(n)[2]) * 256 + BigEndian(n)[3]) * 256
                  + BigEndian(n)[4] = n
<1>1. n \in Nat
  BY SMT DEF Word
<1> DEFINE a == n \div 256
           b == a \div 256
           c == b \div 256
<1>2. /\ a \in Nat /\ b \in Nat /\ c \in Nat
      /\ n = 256 * a + (n % 256) /\ a = 256 * b + (a % 256) /\ b = 256 * c + (b % 256)
      /\ n % 256 \in Byte /\ a % 256 \in Byte /\ b % 256 \in Byte /\ c % 256 \in Byte
  <2>1. /\ a \in Nat /\ n = 256 * a + (n % 256) /\ n % 256 \in Byte
    BY <1>1, ByteOf
  <2> HIDE DEF a
  <2>2. /\ b \in Nat /\ a = 256 * b + (a % 256) /\ a % 256 \in Byte
    BY <2>1, ByteOf
  <2> HIDE DEF b
  <2>3. /\ c \in Nat /\ b = 256 * c + (b % 256) /\ b % 256 \in Byte
    BY <2>2, ByteOf
  <2> HIDE DEF c
  <2>4. c % 256 \in Byte
    BY <2>3, ByteOf
  <2> QED
    BY <2>1, <2>2, <2>3, <2>4
<1>3. n \div 65536 = b
  BY <1>1
<1>4. n \div 16777216 = c
  BY <1>1, SMT
<1>5. BigEndian(n) = <<c % 256, b % 256, a % 256, n % 256>>
  <2> DEFINE d == n \div 16777216
             e == n \div 65536
  <2>1. BigEndian(n) = <<d % 256, e % 256, a % 256, n % 256>>
    BY SMT DEF BigEndian
  <2>2. d = c /\ e = b
    BY <1>3, <1>4, SMT
  <2> HIDE DEF d, e, c, b, a
  <2> QED
    BY <2>1, <2>2
<1>6. c % 256 = c
  <2>1. n \div 16777216 < 256
    BY SMT DEF Word
  <2>2. c < 256
    <3> HIDE DEF c
    <3> QED
      BY <1>1, <1>2, <1>4, <2>1, SMT
  <2> HIDE DEF c
  <2> QED
    BY <1>2, <2>2
<1> HIDE DEF a, b, c
<1>7. <<c % 256, b % 256, a % 256, n % 256>> \in Seq(Byte)
  BY <1>2
<1> QED
  BY <1>1, <1>2, <1>5, <1>6, <1>7 DEF Byte

(* bytes has the number n from position k on.                               *)
Holds(bytes, k, n) == \A j \in 1 .. 4 : bytes[k + j - 1] = BigEndian(n)[j]

LEMMA NumberIs ==
    ASSUME NEW n \in Word, NEW bytes, NEW k \in Nat, Holds(bytes, k, n)
    PROVE  Number(bytes, k) = n
<1> DEFINE d == BigEndian(n)
<1>1. bytes[k] = d[1] /\ bytes[k + 1] = d[2] /\ bytes[k + 2] = d[3] /\ bytes[k + 3] = d[4]
  <2>1. k + 1 - 1 = k /\ k + 2 - 1 = k + 1 /\ k + 3 - 1 = k + 2 /\ k + 4 - 1 = k + 3
    OBVIOUS
  <2>2. 1 \in 1 .. 4 /\ 2 \in 1 .. 4 /\ 3 \in 1 .. 4 /\ 4 \in 1 .. 4
    OBVIOUS
  <2>3. /\ bytes[k + 1 - 1] = d[1] /\ bytes[k + 2 - 1] = d[2]
        /\ bytes[k + 3 - 1] = d[3] /\ bytes[k + 4 - 1] = d[4]
    BY <2>2, Zenon DEF Holds
  <2> HIDE DEF d
  <2> QED
    BY <2>1, <2>3
<1>2. /\ d[1] \in Nat /\ d[2] \in Nat /\ d[3] \in Nat /\ d[4] \in Nat
      /\ ((d[1] * 256 + d[2]) * 256 + d[3]) * 256 + d[4] = n
  <2>1. /\ \A j \in 1 .. 4 : d[j] \in Byte
        /\ ((d[1] * 256 + d[2]) * 256 + d[3]) * 256 + d[4] = n
    BY WordBytes
  <2> HIDE DEF d
  <2>2. \A j \in 1 .. 4 : d[j] \in Nat
    BY <2>1 DEF Byte
  <2> QED
    BY <2>1, <2>2
<1> HIDE DEF d
<1>3. Number(bytes, k) = d[1] * 16777216 + d[2] * 65536 + d[3] * 256 + d[4]
  BY <1>1, SMT DEF Number
<1> QED
  BY <1>2, <1>3, SMT

-----------------------------------------------------------------------------
(* Packets. *)

(* u is a sequence of elements of S, those of s followed by those of t.     *)
Joins(S, s, t, u) ==
    /\ u \in Seq(S) /\ Len(u) = Len(s) + Len(t)
    /\ Len(s) \in Nat /\ Len(t) \in Nat
    /\ \A j \in 1 .. Len(s) : u[j] = s[j]
    /\ \A j \in 1 .. Len(t) : u[Len(s) + j] = t[j]

LEMMA Joined ==
    ASSUME NEW S, NEW s \in Seq(S), NEW t \in Seq(S), NEW u, u = s \o t
    PROVE  Joins(S, s, t, u)
<1>1. /\ Len(s) \in Nat /\ DOMAIN s = 1 .. Len(s)
      /\ Len(t) \in Nat /\ DOMAIN t = 1 .. Len(t)
      /\ u \in Seq(S) /\ Len(u) = Len(s) + Len(t)
      /\ DOMAIN u = 1 .. Len(s) + Len(t)
  BY LenProperties, ConcatProperties
<1>2. ASSUME NEW j \in 1 .. Len(t)
      PROVE  u[Len(s) + j] = t[j]
  <2>1. Len(s) + j \in 1 .. Len(s) + Len(t) /\ ~(Len(s) + j <= Len(s)) /\ Len(s) + j - Len(s) = j
    BY <1>1
  <2> QED
    BY <1>1, <2>1, ConcatProperties
<1>3. ASSUME NEW j \in 1 .. Len(s)
      PROVE  u[j] = s[j]
  <2>1. j \in 1 .. Len(s) + Len(t) /\ j <= Len(s)
    BY <1>1
  <2> QED
    BY <1>1, <2>1, ConcatProperties
<1> QED
  BY <1>1, <1>2, <1>3 DEF Joins

LEMMA Words == /\ 1 \in Word /\ WELCOME \in Word /\ COUNT \in Word /\ MESSAGE \in Word
               /\ HELLO \in Word /\ 16 \in Word /\ 20 \in Word
BY SMT DEF Word, WELCOME, COUNT, MESSAGE, HELLO

LEMMA HeaderHas ==
    ASSUME NEW length \in Word, NEW operation \in Word
    PROVE  /\ Header(length, operation) \in Seq(Byte) /\ Len(Header(length, operation)) = 16
           /\ Holds(Header(length, operation), 1, length)
           /\ Holds(Header(length, operation), 9, operation)
<1> DEFINE a == BigEndian(length)
           b == <<0, 16, 0, 1>>
           c == BigEndian(operation)
           d == BigEndian(1)
           ab == a \o b
           abc == ab \o c
           header == abc \o d
<1>0. Header(length, operation) = header
  BY DEF Header
<1>1. /\ a \in Seq(Byte) /\ Len(a) = 4 /\ c \in Seq(Byte) /\ Len(c) = 4
      /\ d \in Seq(Byte) /\ Len(d) = 4
  BY Words, WordBytes
<1>2. b \in Seq(Byte) /\ Len(b) = 4
  BY DEF Byte
<1> HIDE DEF a, b, c, d
<1>3. ab \in Seq(Byte) /\ Len(ab) = 8 /\ \A j \in 1 .. 4 : ab[j] = a[j]
  <2>1. ab = a \o b
    OBVIOUS
  <2> HIDE DEF ab
  <2>2. Joins(Byte, a, b, ab)
    BY <1>1, <1>2, <2>1, Joined
  <2> QED
    BY <1>1, <1>2, <2>2 DEF Joins
<1> HIDE DEF ab
<1>4. /\ abc \in Seq(Byte) /\ Len(abc) = 12
      /\ \A j \in 1 .. 8 : abc[j] = ab[j]
      /\ \A j \in 1 .. 4 : abc[8 + j] = c[j]
  <2>1. abc = ab \o c
    OBVIOUS
  <2> HIDE DEF abc
  <2>2. Joins(Byte, ab, c, abc)
    BY <1>1, <1>3, <2>1, Joined
  <2> QED
    BY <1>1, <1>3, <2>2 DEF Joins
<1> HIDE DEF abc
<1>5. /\ header \in Seq(Byte) /\ Len(header) = 16
      /\ \A j \in 1 .. 12 : header[j] = abc[j]
  <2>1. header = abc \o d
    OBVIOUS
  <2> HIDE DEF header
  <2>2. Joins(Byte, abc, d, header)
    BY <1>1, <1>4, <2>1, Joined
  <2> QED
    BY <1>1, <1>4, <2>2 DEF Joins
<1> HIDE DEF header
<1>6. \A j \in 1 .. 4 : header[j] = a[j] /\ header[8 + j] = c[j]
  <2>1. \A j \in 1 .. 4 : j \in 1 .. 8 /\ j \in 1 .. 12 /\ 8 + j \in 1 .. 12
    OBVIOUS
  <2> QED
    BY <1>3, <1>4, <1>5, <2>1
<1>7. \A j \in 1 .. 4 : 1 + j - 1 = j /\ 9 + j - 1 = 8 + j
  OBVIOUS
<1> QED
  BY <1>0, <1>5, <1>6, <1>7 DEF Holds, a, c

(* A packet whose length its four bytes can hold says how long it is, what  *)
(* it is for, and has its body after the header.                            *)
LEMMA PacketHas ==
    ASSUME NEW operation \in Word, NEW body \in Seq(Byte), HeaderLength + Len(body) \in Word
    PROVE  /\ ServerPacket(operation, body) \in Seq(Byte)
           /\ Len(ServerPacket(operation, body)) = HeaderLength + Len(body)
           /\ Len(body) \in Nat
           /\ Holds(ServerPacket(operation, body), 1, HeaderLength + Len(body))
           /\ Holds(ServerPacket(operation, body), 9, operation)
           /\ \A j \in 1 .. Len(body) : ServerPacket(operation, body)[HeaderLength + j] = body[j]
<1> DEFINE header == Header(HeaderLength + Len(body), operation)
           packet == header \o body
<1>1. ServerPacket(operation, body) = packet
  BY DEF ServerPacket
<1>2. /\ header \in Seq(Byte) /\ Len(header) = 16
      /\ Holds(header, 1, HeaderLength + Len(body)) /\ Holds(header, 9, operation)
  BY HeaderHas
<1> HIDE DEF header
<1>3. /\ packet \in Seq(Byte) /\ Len(packet) = 16 + Len(body) /\ Len(body) \in Nat
      /\ \A j \in 1 .. 16 : packet[j] = header[j]
      /\ \A j \in 1 .. Len(body) : packet[16 + j] = body[j]
  <2>1. packet = header \o body
    OBVIOUS
  <2> HIDE DEF packet
  <2>2. Joins(Byte, header, body, packet)
    BY <1>2, <2>1, Joined
  <2> QED
    BY <1>2, <2>2 DEF Joins
<1> HIDE DEF packet
<1>4. Holds(packet, 1, HeaderLength + Len(body)) /\ Holds(packet, 9, operation)
  <2>1. \A j \in 1 .. 4 : 1 + j - 1 \in 1 .. 16 /\ 9 + j - 1 \in 1 .. 16
    OBVIOUS
  <2> QED
    BY <1>2, <1>3, <2>1 DEF Holds
<1> QED
  BY <1>1, <1>3, <1>4 DEF HeaderLength

(* What is after the header is the body.                                    *)
LEMMA BodyOf ==
    ASSUME NEW body \in Seq(Byte), NEW bytes \in Seq(Byte), NEW begin \in Nat,
           begin + HeaderLength + Len(body) <= Len(bytes),
           \A j \in 1 .. Len(body) : bytes[begin + HeaderLength + j] = body[j]
    PROVE  SubSeq(bytes, begin + HeaderLength + 1, begin + HeaderLength + Len(body)) = body
<1> DEFINE first == begin + HeaderLength + 1
           last == begin + HeaderLength + Len(body)
           part == SubSeq(bytes, first, last)
<1>1. Len(body) \in Nat /\ Len(bytes) \in Nat /\ HeaderLength = 16
  BY DEF HeaderLength
<1>2. /\ first \in 1 .. Len(bytes) + 1 /\ last \in first - 1 .. Len(bytes)
      /\ last - first + 1 = Len(body)
      /\ \A j \in 1 .. Len(body) : first + j - 1 = begin + HeaderLength + j
  BY <1>1
<1> HIDE DEF first, last
<1>3. /\ part \in Seq(Byte) /\ Len(part) = Len(body)
      /\ \A j \in 1 .. Len(body) : part[j] = bytes[first + j - 1]
  BY <1>2, SubSeqProperties
<1>4. \A j \in 1 .. Len(body) : part[j] = body[j]
  BY <1>2, <1>3
<1> HIDE DEF part
<1>5. part = body
  BY <1>3, <1>4, SeqEqual
<1> QED
  BY <1>5 DEF part, first, last

(* The server hears the Hello of the code whole.                            *)
LEMMA HelloHeard ==
    Heard(PacketHello(Command)) = [whole |-> TRUE, operation |-> HELLO, body |-> Command]
<1> DEFINE packet == ServerPacket(HELLO, Command)
<1>1. PacketHello(Command) = packet
  BY DEF PacketHello, ServerPacket
<1>2. /\ packet \in Seq(Byte) /\ Len(packet) = HeaderLength + Len(Command) /\ Len(Command) \in Nat
      /\ Holds(packet, 1, HeaderLength + Len(Command)) /\ Holds(packet, 9, HELLO)
      /\ \A j \in 1 .. Len(Command) : packet[HeaderLength + j] = Command[j]
  BY Words, FramesBounds, PacketHas
<1> HIDE DEF packet
<1>3. Number(packet, 1) = HeaderLength + Len(Command) /\ Number(packet, 9) = HELLO
  BY <1>2, Words, FramesBounds, NumberIs
<1>4. SubSeq(packet, HeaderLength + 1, Len(packet)) = Command
  <2>1. /\ Command \in Seq(Byte) /\ 0 \in Nat /\ HeaderLength = 16
        /\ 0 + HeaderLength + Len(Command) = Len(packet)
        /\ 0 + HeaderLength + 1 = HeaderLength + 1
        /\ \A j \in 1 .. Len(Command) : 0 + HeaderLength + j = HeaderLength + j
    BY <1>2, FramesBounds DEF HeaderLength
  <2>2. Len(packet) \in Nat /\ 0 + HeaderLength + Len(Command) <= Len(packet)
    BY <1>2, <2>1
  <2>3. \A j \in 1 .. Len(Command) : packet[0 + HeaderLength + j] = Command[j]
    BY <1>2, <2>1
  <2>4. SubSeq(packet, 0 + HeaderLength + 1, 0 + HeaderLength + Len(Command)) = Command
    BY <1>2, <2>1, <2>2, <2>3, BodyOf
  <2> QED
    BY <2>1, <2>4
<1> QED
  BY <1>1, <1>2, <1>3, <1>4 DEF Heard

-----------------------------------------------------------------------------
(* Packets one after the other. *)

(* upto[j] is the first j packets of those for Texts[n], Texts[n + 1], ...  *)
Piles(n, k, upto) ==
    upto = [j \in 0 .. k |->
               IF j = 0 THEN <<>> ELSE upto[j - 1] \o ServerPacket(MESSAGE, Texts[n + j - 1])]

LEMMA PilesExist ==
    ASSUME NEW n, NEW k \in Nat
    PROVE  \E upto : Piles(n, k, upto)
<1> DEFINE Missing == {m \in Nat : ~ \E upto : Piles(n, m, upto)}
<1>1. SUFFICES ASSUME Missing # {} PROVE FALSE
  OBVIOUS
<1>2. PICK least \in Missing : \A m \in Missing : least <= m
  <2>1. Missing \subseteq Nat
    OBVIOUS
  <2> QED
    BY <1>1, <2>1, LeastNumber
<1>3. CASE least = 0
  <2> DEFINE g == [j \in 0 .. 0 |-> <<>>]
  <2>1. g = [j \in 0 .. 0 |->
               IF j = 0 THEN <<>> ELSE g[j - 1] \o ServerPacket(MESSAGE, Texts[n + j - 1])]
    OBVIOUS
  <2> HIDE DEF g
  <2>2. Piles(n, 0, g)
    BY <2>1 DEF Piles
  <2> QED
    BY <1>2, <1>3, <2>2
<1>4. CASE least # 0
  <2>0. least \in Nat \ {0}
    BY <1>4
  <2>1. least - 1 \in Nat /\ least - 1 \notin Missing
    <3> HIDE DEF Missing
    <3>1. least - 1 \in Nat /\ ~(least <= least - 1)
      BY <2>0
    <3> QED
      BY <1>2, <3>1
  <2>2. PICK h : Piles(n, least - 1, h)
    BY <2>1
  <2> DEFINE g == [j \in 0 .. least |->
                      IF j = least THEN h[least - 1] \o ServerPacket(MESSAGE, Texts[n + least - 1])
                                   ELSE h[j]]
  <2>3. ASSUME NEW j \in 0 .. least
        PROVE  g[j] = IF j = 0 THEN <<>> ELSE g[j - 1] \o ServerPacket(MESSAGE, Texts[n + j - 1])
    <3>1. CASE j = least
      <4>1. least - 1 \in 0 .. least /\ least - 1 # least /\ g[least - 1] = h[least - 1]
        BY <2>0
      <4> QED
        BY <2>0, <3>1, <4>1
    <3>2. CASE j # least
      <4>1. j \in 0 .. least - 1 /\ g[j] = h[j] /\ (j # 0 => g[j - 1] = h[j - 1])
        BY <2>0, <3>2
      <4>2. h[j] = IF j = 0 THEN <<>> ELSE h[j - 1] \o ServerPacket(MESSAGE, Texts[n + j - 1])
        BY <2>2, <4>1 DEF Piles
      <4> QED
        BY <4>1, <4>2
    <3> QED
      BY <3>1, <3>2
  <2>4. g = [j \in 0 .. least |-> g[j]]
    OBVIOUS
  <2> HIDE DEF g
  <2>5. Piles(n, least, g)
    BY <2>3, <2>4 DEF Piles
  <2> QED
    BY <1>2, <2>5
<1> QED
  BY <1>3, <1>4

LEMMA PackedPile ==
    ASSUME NEW n, NEW k \in Nat
    PROVE  \E upto : Piles(n, k, upto) /\ Packed(n, k) = upto[k]
<1> DEFINE upto == CHOOSE upto : Piles(n, k, upto)
<1>1. Piles(n, k, upto)
  BY PilesExist
<1>2. Packed(n, k) = upto[k]
  BY DEF Packed, Piles
<1> HIDE DEF upto
<1> QED
  BY <1>1, <1>2

(* Every shorter pile is the beginning of a pile of m packets.              *)
Pile(n, upto, m) ==
    /\ upto[m] \in Seq(Byte) /\ Len(upto[m]) \in Nat /\ Len(upto[m]) >= 16 * m
    /\ \A j \in 0 .. m - 1 :
          /\ Len(upto[j]) < Len(upto[m])
          /\ \A x \in 1 .. Len(upto[j]) : upto[m][x] = upto[j][x]

(* The packet that comes next.                                              *)
LEMMA MessagePacket ==
    ASSUME NEW n \in DOMAIN Texts
    PROVE  /\ Texts[n] \in Seq(Byte) /\ Len(Texts[n]) \in Nat
           /\ ServerPacket(MESSAGE, Texts[n]) \in Seq(Byte)
           /\ Len(ServerPacket(MESSAGE, Texts[n])) = 16 + Len(Texts[n])
           /\ Holds(ServerPacket(MESSAGE, Texts[n]), 1, 16 + Len(Texts[n]))
           /\ \A j \in 1 .. Len(Texts[n]) : ServerPacket(MESSAGE, Texts[n])[16 + j] = Texts[n][j]
<1>1. Texts[n] \in Seq(Byte) /\ HeaderLength + Len(Texts[n]) \in Word
  BY FramesBounds
<1>2. HeaderLength = 16
  BY DEF HeaderLength
<1> QED
  BY <1>1, <1>2, Words, PacketHas

LEMMA PilesGrow ==
    ASSUME NEW n \in Nat \ {0}, NEW k \in Nat, n + k - 1 <= Len(Texts), NEW upto, Piles(n, k, upto),
           NEW m \in 1 .. k, Pile(n, upto, m - 1)
    PROVE  /\ n + m - 1 \in DOMAIN Texts /\ upto[m - 1] \in Seq(Byte)
           /\ Joins(Byte, upto[m - 1], ServerPacket(MESSAGE, Texts[n + m - 1]), upto[m])
<1>1. n + m - 1 \in DOMAIN Texts
  <2>1. DOMAIN Texts = 1 .. Len(Texts) /\ Len(Texts) \in Nat
    BY FramesBounds
  <2> QED
    BY <2>1
<1>2. upto[m - 1] \in Seq(Byte)
  BY DEF Pile
<1>3. upto[m] = upto[m - 1] \o ServerPacket(MESSAGE, Texts[n + m - 1])
  <2>1. m \in 0 .. k /\ m # 0
    OBVIOUS
  <2> QED
    BY <2>1 DEF Piles
<1> DEFINE packet == ServerPacket(MESSAGE, Texts[n + m - 1])
<1>4. packet \in Seq(Byte)
  BY <1>1, MessagePacket
<1> HIDE DEF packet
<1>5. Joins(Byte, upto[m - 1], packet, upto[m])
  <2>1. upto[m] = upto[m - 1] \o packet
    BY <1>3 DEF packet
  <2> QED
    BY <1>2, <1>4, <2>1, Joined
<1> QED
  BY <1>1, <1>2, <1>5 DEF packet

LEMMA PilesUp ==
    ASSUME NEW n \in Nat \ {0}, NEW k \in Nat, n + k - 1 <= Len(Texts), NEW upto, Piles(n, k, upto)
    PROVE  \A m \in 0 .. k : Pile(n, upto, m)
<1> DEFINE Missing == {m \in 0 .. k : ~Pile(n, upto, m)}
<1>1. SUFFICES ASSUME Missing # {} PROVE FALSE
  OBVIOUS
<1>2. PICK least \in Missing : \A m \in Missing : least <= m
  <2>1. Missing \subseteq Nat
    OBVIOUS
  <2> HIDE DEF Missing
  <2> QED
    BY <1>1, <2>1, LeastNumber
<1>3. least \in 0 .. k /\ ~Pile(n, upto, least)
  BY <1>2
<1>4. CASE least = 0
  <2>1. upto[0] = <<>>
    <3>1. 0 \in 0 .. k
      OBVIOUS
    <3> QED
      BY <3>1 DEF Piles
  <2>2. <<>> \in Seq(Byte) /\ Len(<<>>) = 0 /\ 0 .. 0 - 1 = {}
    OBVIOUS
  <2>3. Pile(n, upto, 0)
    BY <2>1, <2>2 DEF Pile
  <2> QED
    BY <1>3, <1>4, <2>3
<1>5. CASE least # 0
  <2>1. least \in 1 .. k /\ least - 1 \in 0 .. k /\ ~(least <= least - 1)
    BY <1>3, <1>5
  <2>2. Pile(n, upto, least - 1)
    BY <1>2, <2>1
  <2> HIDE DEF Missing
  <2> DEFINE below == upto[least - 1]
             packet == ServerPacket(MESSAGE, Texts[n + least - 1])
             pile == upto[least]
  <2>3. n + least - 1 \in DOMAIN Texts /\ below \in Seq(Byte) /\ Joins(Byte, below, packet, pile)
    BY <2>1, <2>2, PilesGrow
  <2>4. Len(packet) \in Nat /\ Len(packet) >= 16
    <3>1. Len(Texts[n + least - 1]) \in Nat /\ Len(packet) = 16 + Len(Texts[n + least - 1])
      BY <2>3, MessagePacket
    <3> QED
      BY <3>1
  <2>5. /\ Len(below) \in Nat /\ Len(below) >= 16 * (least - 1)
        /\ \A j \in 0 .. least - 1 - 1 :
              /\ Len(upto[j]) < Len(below)
              /\ \A x \in 1 .. Len(upto[j]) : below[x] = upto[j][x]
    BY <2>2 DEF Pile
  <2> HIDE DEF packet
  <2>6. /\ pile \in Seq(Byte) /\ Len(pile) = Len(below) + Len(packet)
        /\ \A x \in 1 .. Len(below) : pile[x] = below[x]
    BY <2>3 DEF Joins
  <2>7. Len(pile) \in Nat /\ Len(pile) >= 16 * least
    BY <2>1, <2>4, <2>5, <2>6
  <2>8. ASSUME NEW j \in 0 .. least - 1
        PROVE  /\ Len(upto[j]) < Len(pile)
               /\ \A x \in 1 .. Len(upto[j]) : pile[x] = upto[j][x]
    <3>1. CASE j = least - 1
      BY <2>4, <2>5, <2>6, <3>1
    <3>2. CASE j # least - 1
      <4>1. j \in 0 .. least - 1 - 1
        BY <2>1, <3>2
      <4>2. Len(upto[j]) < Len(below) /\ \A x \in 1 .. Len(upto[j]) : below[x] = upto[j][x]
        BY <2>5, <4>1
      <4>3. Len(upto[j]) \in Nat
        <5>1. j \in 0 .. k /\ ~(least <= j)
          BY <2>1, <4>1
        <5>2. Pile(n, upto, j)
          BY <1>2, <5>1 DEF Missing
        <5> QED
          BY <5>2 DEF Pile
      <4> HIDE DEF below, pile
      <4>4. Len(upto[j]) < Len(pile) /\ \A x \in 1 .. Len(upto[j]) : x \in 1 .. Len(below)
        BY <2>4, <2>5, <2>6, <4>2, <4>3
      <4> QED
        BY <2>6, <4>2, <4>4
    <3> QED
      BY <3>1, <3>2
  <2>9. Pile(n, upto, least)
    BY <2>6, <2>7, <2>8 DEF Pile
  <2> QED
    BY <1>3, <2>9
<1> QED
  BY <1>4, <1>5

-----------------------------------------------------------------------------
(* Finding the packets again. *)

(* at[j] is where bytes is after j packets, the ones of Texts[n], ...       *)
Parts(n, k, bytes, at) ==
    /\ at[0] = 0 /\ at[k] = Len(bytes)
    /\ \A j \in 0 .. k : at[j] \in Nat
    /\ \A j \in 0 .. k - 1 : at[j] < Len(bytes)
    /\ \A j \in 1 .. k :
          /\ at[j] = at[j - 1] + Number(bytes, at[j - 1] + 1)
          /\ SubSeq(bytes, at[j - 1] + HeaderLength + 1, at[j]) = Texts[n + j - 1]

LEMMA PackedHas ==
    ASSUME NEW n \in Nat \ {0}, NEW k \in Nat, n + k - 1 <= Len(Texts)
    PROVE  /\ Packed(n, k) \in Seq(Byte) /\ Len(Packed(n, k)) >= 16 * k
           /\ \E at : Parts(n, k, Packed(n, k), at)
<1>1. PICK upto : Piles(n, k, upto) /\ Packed(n, k) = upto[k]
  BY PackedPile
<1>2. \A m \in 0 .. k : Pile(n, upto, m)
  BY <1>1, PilesUp
<1> DEFINE all == upto[k]
           at == [j \in 0 .. k |-> Len(upto[j])]
<1>3. /\ all \in Seq(Byte) /\ Len(all) \in Nat /\ Len(all) >= 16 * k
      /\ \A j \in 0 .. k : Len(upto[j]) \in Nat
      /\ \A j \in 0 .. k - 1 : Len(upto[j]) < Len(all)
      /\ \A j \in 0 .. k : \A x \in 1 .. Len(upto[j]) : all[x] = upto[j][x]
  <2>1. k \in 0 .. k
    OBVIOUS
  <2>2. Pile(n, upto, k)
    BY <1>2, <2>1
  <2>3. \A j \in 0 .. k : Len(upto[j]) \in Nat
    BY <1>2 DEF Pile
  <2>4. \A j \in 0 .. k : j = k \/ j \in 0 .. k - 1
    OBVIOUS
  <2> QED
    BY <2>2, <2>3, <2>4 DEF Pile
<1> HIDE DEF all
<1>4. at[0] = 0
  <2>1. 0 \in 0 .. k /\ Len(<<>>) = 0
    OBVIOUS
  <2>2. upto[0] = <<>>
    BY <1>1, <2>1 DEF Piles
  <2> QED
    BY <2>1, <2>2
<1>5. \A j \in 0 .. k : at[j] = Len(upto[j])
  OBVIOUS
<1> HIDE DEF at
<1>6. at[k] = Len(all)
  <2>1. k \in 0 .. k
    OBVIOUS
  <2> QED
    BY <1>5, <2>1 DEF all
<1>7. ASSUME NEW j \in 1 .. k
      PROVE  /\ at[j] = at[j - 1] + Number(all, at[j - 1] + 1)
             /\ SubSeq(all, at[j - 1] + HeaderLength + 1, at[j]) = Texts[n + j - 1]
  <2> DEFINE text == Texts[n + j - 1]
             packet == ServerPacket(MESSAGE, text)
             below == upto[j - 1]
             pile == upto[j]
             begin == Len(below)
  <2>1. j \in 0 .. k /\ j - 1 \in 0 .. k
    OBVIOUS
  <2>2. Pile(n, upto, j - 1)
    BY <1>2, <2>1
  <2>3. n + j - 1 \in DOMAIN Texts /\ Joins(Byte, below, packet, pile)
    BY <1>1, <2>2, PilesGrow
  <2>4. /\ text \in Seq(Byte) /\ Len(text) \in Nat /\ Len(packet) = 16 + Len(text)
        /\ Holds(packet, 1, 16 + Len(text))
        /\ \A x \in 1 .. Len(text) : packet[16 + x] = text[x]
    BY <2>3, MessagePacket
  <2>5. 16 + Len(text) \in Word
    BY <2>3, FramesBounds DEF HeaderLength
  <2>6. at[j - 1] = begin /\ at[j] = Len(pile) /\ begin \in Nat
    BY <1>3, <1>5, <2>1
  <2>7. \A x \in 1 .. Len(pile) : all[x] = pile[x]
    BY <1>3, <2>1
  <2>8. Len(pile) <= Len(all)
    <3>1. CASE j = k
      BY <1>3, <3>1 DEF all
    <3>2. CASE j # k
      <4>1. j \in 0 .. k - 1
        BY <3>2
      <4>2. Len(pile) < Len(all) /\ Len(pile) \in Nat /\ Len(all) \in Nat
        BY <1>3, <2>1, <4>1
      <4> HIDE DEF pile
      <4> QED
        BY <4>2
    <3> QED
      BY <3>1, <3>2
  <2> HIDE DEF packet, pile, text
  <2>9. /\ Len(pile) = begin + 16 + Len(text)
        /\ \A x \in 1 .. Len(packet) : pile[begin + x] = packet[x]
    <3>1. /\ Len(pile) = begin + Len(packet)
          /\ \A x \in 1 .. Len(packet) : pile[begin + x] = packet[x]
      BY <2>3 DEF Joins
    <3> HIDE DEF begin
    <3>2. begin + Len(packet) = begin + 16 + Len(text)
      BY <2>4, <2>6
    <3> QED
      BY <3>1, <3>2
  <2> HIDE DEF begin
  <2>10. \A x \in 1 .. Len(packet) : all[begin + x] = packet[x]
    <3>1. \A x \in 1 .. Len(packet) : begin + x \in 1 .. Len(pile)
      BY <2>4, <2>6, <2>9
    <3> QED
      BY <2>7, <2>9, <3>1
  <2>11. Number(all, begin + 1) = 16 + Len(text)
    <3>1. \A x \in 1 .. 4 : /\ begin + 1 + x - 1 = begin + x /\ 1 + x - 1 = x
                            /\ x \in 1 .. Len(packet)
      BY <2>4, <2>6
    <3>2. Holds(all, begin + 1, 16 + Len(text))
      BY <2>4, <2>10, <3>1 DEF Holds
    <3>3. begin + 1 \in Nat
      BY <2>6
    <3> QED
      BY <2>5, <3>2, <3>3, NumberIs
  <2>12. SubSeq(all, begin + HeaderLength + 1, begin + HeaderLength + Len(text)) = text
    <3>1. HeaderLength = 16
      BY DEF HeaderLength
    <3>2. \A x \in 1 .. Len(text) : /\ 16 + x \in 1 .. Len(packet)
                                    /\ begin + (16 + x) = begin + HeaderLength + x
      BY <2>4, <2>6, <3>1
    <3>3. \A x \in 1 .. Len(text) : all[begin + HeaderLength + x] = text[x]
      <4>1. ASSUME NEW x \in 1 .. Len(text)
            PROVE  all[begin + HeaderLength + x] = text[x]
        <5>1. all[begin + (16 + x)] = packet[16 + x]
          BY <2>10, <3>2
        <5>2. packet[16 + x] = text[x]
          BY <2>4
        <5> QED
          BY <3>2, <5>1, <5>2
      <4> QED
        BY <4>1
    <3>4. begin + HeaderLength + Len(text) <= Len(all)
      BY <2>4, <2>6, <2>8, <2>9, <3>1
    <3> QED
      BY <1>3, <2>4, <2>6, <3>3, <3>4, BodyOf
  <2>13. Len(pile) = begin + HeaderLength + Len(text)
    BY <2>9 DEF HeaderLength
  <2>14. Len(pile) = begin + (16 + Len(text))
    BY <2>4, <2>6, <2>9
  <2> QED
    BY <2>6, <2>11, <2>12, <2>13, <2>14 DEF text
<1>8. \A j \in 0 .. k : at[j] \in Nat
  BY <1>3, <1>5
<1>9. \A j \in 0 .. k - 1 : at[j] < Len(all)
  <2>1. \A j \in 0 .. k - 1 : j \in 0 .. k
    OBVIOUS
  <2> QED
    BY <1>3, <1>5, <2>1
<1>10. Parts(n, k, all, at)
  BY <1>4, <1>6, <1>7, <1>8, <1>9 DEF Parts
<1>11. Packed(n, k) = all
  BY <1>1 DEF all
<1> QED
  BY <1>3, <1>10, <1>11

(* The loop of on_message.                                                  *)
Loops(bytes, last, end) ==
    end = [k \in 0 .. last |->
              IF k = 0 THEN 0 ELSE end[k - 1] + Number(bytes, end[k - 1] + 1)]

LEMMA LoopsExist ==
    ASSUME NEW bytes, NEW last \in Nat
    PROVE  \E end : Loops(bytes, last, end)
<1> DEFINE Missing == {m \in Nat : ~ \E end : Loops(bytes, m, end)}
<1>1. SUFFICES ASSUME Missing # {} PROVE FALSE
  OBVIOUS
<1>2. PICK least \in Missing : \A m \in Missing : least <= m
  <2>1. Missing \subseteq Nat
    OBVIOUS
  <2> QED
    BY <1>1, <2>1, LeastNumber
<1>3. CASE least = 0
  <2> DEFINE g == [k \in 0 .. 0 |-> 0]
  <2>1. g = [k \in 0 .. 0 |-> IF k = 0 THEN 0 ELSE g[k - 1] + Number(bytes, g[k - 1] + 1)]
    OBVIOUS
  <2> HIDE DEF g
  <2>2. Loops(bytes, 0, g)
    BY <2>1 DEF Loops
  <2> QED
    BY <1>2, <1>3, <2>2
<1>4. CASE least # 0
  <2>0. least \in Nat \ {0}
    BY <1>4
  <2>1. least - 1 \in Nat /\ least - 1 \notin Missing
    <3> HIDE DEF Missing
    <3>1. least - 1 \in Nat /\ ~(least <= least - 1)
      BY <2>0
    <3> QED
      BY <1>2, <3>1
  <2>2. PICK h : Loops(bytes, least - 1, h)
    BY <2>1
  <2> DEFINE g == [k \in 0 .. least |->
                      IF k = least THEN h[least - 1] + Number(bytes, h[least - 1] + 1) ELSE h[k]]
  <2>3. ASSUME NEW k \in 0 .. least
        PROVE  g[k] = IF k = 0 THEN 0 ELSE g[k - 1] + Number(bytes, g[k - 1] + 1)
    <3>1. CASE k = least
      <4>1. least - 1 \in 0 .. least /\ least - 1 # least /\ g[least - 1] = h[least - 1]
        BY <2>0
      <4> QED
        BY <2>0, <3>1, <4>1
    <3>2. CASE k # least
      <4>1. k \in 0 .. least - 1 /\ g[k] = h[k] /\ (k # 0 => g[k - 1] = h[k - 1])
        BY <2>0, <3>2
      <4>2. h[k] = IF k = 0 THEN 0 ELSE h[k - 1] + Number(bytes, h[k - 1] + 1)
        BY <2>2, <4>1 DEF Loops
      <4> QED
        BY <4>1, <4>2
    <3> QED
      BY <3>1, <3>2
  <2>4. g = [k \in 0 .. least |-> g[k]]
    OBVIOUS
  <2> HIDE DEF g
  <2>5. Loops(bytes, least, g)
    BY <2>3, <2>4 DEF Loops
  <2> QED
    BY <1>2, <2>5
<1> QED
  BY <1>3, <1>4

LEMMA EndsLoops ==
    ASSUME NEW bytes \in Seq(Byte)
    PROVE  Loops(bytes, Len(bytes), Ends(bytes))
<1> DEFINE end == CHOOSE end : Loops(bytes, Len(bytes), end)
<1>1. Len(bytes) \in Nat
  OBVIOUS
<1>2. Loops(bytes, Len(bytes), end)
  BY <1>1, LoopsExist
<1>3. Ends(bytes) = end
  BY DEF Ends, Loops
<1> HIDE DEF end
<1> QED
  BY <1>2, <1>3

(* The loop ends where the packets do ...                                   *)
LEMMA EndsAt ==
    ASSUME NEW n \in Nat \ {0}, NEW k \in Nat, NEW bytes \in Seq(Byte), Len(bytes) >= 16 * k,
           NEW at, Parts(n, k, bytes, at)
    PROVE  \A j \in 0 .. k : Ends(bytes)[j] = at[j]
<1> DEFINE end == Ends(bytes)
           Missing == {m \in 0 .. k : end[m] # at[m]}
<1>1. SUFFICES ASSUME Missing # {} PROVE FALSE
  OBVIOUS
<1>2. PICK least \in Missing : \A m \in Missing : least <= m
  <2>1. Missing \subseteq Nat
    OBVIOUS
  <2> HIDE DEF Missing
  <2> QED
    BY <1>1, <2>1, LeastNumber
<1>3. least \in 0 .. k /\ end[least] # at[least]
  BY <1>2
<1>4. \A j \in 0 .. k : j \in 0 .. Len(bytes)
  <2>1. Len(bytes) \in Nat
    OBVIOUS
  <2> QED
    BY <2>1
<1>5. Loops(bytes, Len(bytes), end)
  BY EndsLoops
<1> HIDE DEF end
<1>6. end[least] = IF least = 0 THEN 0 ELSE end[least - 1] + Number(bytes, end[least - 1] + 1)
  BY <1>3, <1>4, <1>5 DEF Loops
<1>7. CASE least = 0
  BY <1>3, <1>6, <1>7 DEF Parts
<1>8. CASE least # 0
  <2>1. least \in 1 .. k /\ least - 1 \in 0 .. k /\ ~(least <= least - 1)
    BY <1>3, <1>8
  <2>2. end[least - 1] = at[least - 1]
    BY <1>2, <2>1
  <2>3. at[least] = at[least - 1] + Number(bytes, at[least - 1] + 1)
    BY <2>1 DEF Parts
  <2> HIDE DEF Missing
  <2> QED
    BY <1>3, <1>6, <1>8, <2>2, <2>3
<1> QED
  BY <1>7, <1>8

LEMMA ThroughAll ==
    ASSUME NEW n \in Nat \ {0}, NEW k \in Nat, NEW bytes \in Seq(Byte), Len(bytes) >= 16 * k,
           NEW at, Parts(n, k, bytes, at)
    PROVE  Through(Ends(bytes), Len(bytes)) = k
<1> DEFINE end == Ends(bytes)
           length == Len(bytes)
           Final(m) == end[m] >= length /\ \A j \in 0 .. m - 1 : end[j] < length
<1>1. /\ length \in Nat /\ k \in 0 .. length
      /\ \A j \in 0 .. k : end[j] = at[j]
      /\ \A j \in 0 .. k - 1 : j \in 0 .. k
  <2>1. length \in Nat
    OBVIOUS
  <2>2. k \in 0 .. length
    BY <2>1
  <2> QED
    BY <2>1, <2>2, EndsAt
<1>2. at[k] = length /\ \A j \in 0 .. k - 1 : at[j] < length
  BY DEF Parts
<1> HIDE DEF end, length
<1>3. Final(k)
  <2>1. k \in 0 .. k
    OBVIOUS
  <2> QED
    BY <1>1, <1>2, <2>1
<1>4. ASSUME NEW m \in 0 .. length, Final(m)
      PROVE  m = k
  <2>1. CASE m < k
    <3>1. m \in 0 .. k - 1
      BY <1>1, <2>1
    <3>2. end[m] = at[m] /\ at[m] < length
      BY <1>1, <1>2, <3>1
    <3>3. at[m] \in Nat
      BY <1>1, <3>1 DEF Parts
    <3> QED
      BY <1>1, <1>4, <3>2, <3>3
  <2>2. CASE m > k
    <3>1. k \in 0 .. m - 1 /\ k \in 0 .. k
      BY <1>1, <2>2
    <3>2. end[k] = length /\ end[k] < length
      BY <1>1, <1>2, <1>4, <3>1
    <3> QED
      BY <1>1, <3>2
  <2> QED
    BY <1>1, <2>1, <2>2
<1>5. Through(end, length) = CHOOSE m \in 0 .. length : Final(m)
  BY DEF Through
<1> HIDE DEF Final
<1>6. (CHOOSE m \in 0 .. length : Final(m)) = k
  BY <1>1, <1>3, <1>4
<1> QED
  BY <1>5, <1>6 DEF end, length

(* ... and makes the server's texts of them.                                *)
LEMMA SplitPacked ==
    ASSUME NEW n \in Nat \ {0}, NEW k \in Nat, n + k - 1 <= Len(Texts)
    PROVE  Split(Packed(n, k)) = SubSeq(Texts, n, n + k - 1)
<1> DEFINE bytes == Packed(n, k)
           end == Ends(bytes)
           part(j) == SubSeq(bytes, end[j - 1] + HeaderLength + 1, end[j])
<1>1. PICK at : bytes \in Seq(Byte) /\ Len(bytes) >= 16 * k /\ Parts(n, k, bytes, at)
  BY PackedHas
<1> HIDE DEF bytes
<1>2. Through(end, Len(bytes)) = k /\ \A j \in 0 .. k : end[j] = at[j]
  BY <1>1, ThroughAll, EndsAt
<1>3. Split(bytes) = [j \in 1 .. k |-> part(j)]
  BY <1>2 DEF Split
<1>4. \A j \in 1 .. k : part(j) = Texts[n + j - 1]
  <2>1. \A j \in 1 .. k : j \in 0 .. k /\ j - 1 \in 0 .. k
    OBVIOUS
  <2>2. \A j \in 1 .. k : SubSeq(bytes, at[j - 1] + HeaderLength + 1, at[j]) = Texts[n + j - 1]
    BY <1>1 DEF Parts
  <2> HIDE DEF end
  <2> QED
    BY <1>2, <2>1, <2>2
<1> HIDE DEF part
<1>5. Split(bytes) = [j \in 1 .. k |-> Texts[n + j - 1]]
  BY <1>3, <1>4
<1>6. SubSeq(Texts, n, n + k - 1) = [j \in 1 .. k |-> Texts[n + j - 1]]
  <2>1. n + k - 1 - n + 1 = k /\ (n + k - 1) - n + 1 = k
    OBVIOUS
  <2> QED
    BY <2>1
<1> QED
  BY <1>5, <1>6 DEF bytes

-----------------------------------------------------------------------------
(* The frames of the server, and what on_message finds in them. *)

LEMMA PackedFrame ==
    ASSUME NEW n \in Nat \ {0}, NEW k \in Nat \ {0}, n + k - 1 <= Len(Texts),
           NEW found, found = Found(Binary(Packed(n, k)))
    PROVE  /\ Packed(n, k) \in Seq(Byte)
           /\ ~IsReply(Packed(n, k)) /\ ~IsAudience(Packed(n, k))
           /\ found = SubSeq(Texts, n, n + k - 1)
           /\ Len(found) = k /\ DOMAIN found = 1 .. k
<1> DEFINE bytes == Packed(n, k)
<1>1. PICK at : bytes \in Seq(Byte) /\ Len(bytes) >= 16 * k /\ Parts(n, k, bytes, at)
  BY PackedHas
<1>2. Split(bytes) = SubSeq(Texts, n, n + k - 1)
  BY SplitPacked
<1>3. /\ Texts \in Seq(Seq(Byte)) /\ Len(Texts) \in Nat /\ DOMAIN Texts = 1 .. Len(Texts)
      /\ \A m \in DOMAIN Texts : Len(Texts[m]) \notin {0, 4}
  BY FramesBounds
<1> HIDE DEF bytes
<1> DEFINE length == Len(bytes)
           least == 16 * k
<1>4. length # 16 /\ length # 20
  <2>1. length \in Nat /\ least \in Nat /\ length >= least
    BY <1>1
  <2>2. CASE k = 1
    <3>1. n \in DOMAIN Texts
      BY <1>3, <2>2
    <3>2. SubSeq(bytes, at[0] + HeaderLength + 1, at[1]) = Texts[n]
      <4>1. 1 \in 1 .. k /\ 1 - 1 = 0 /\ n + 1 - 1 = n
        OBVIOUS
      <4>2. SubSeq(bytes, at[1 - 1] + HeaderLength + 1, at[1]) = Texts[n + 1 - 1]
        BY <1>1, <4>1 DEF Parts
      <4> QED
        BY <4>1, <4>2
    <3>3. at[0] = 0 /\ at[1] = length
      BY <1>1, <2>2 DEF Parts
    <3>4. SubSeq(bytes, 17, length) = Texts[n]
      <4>1. 0 + HeaderLength + 1 = 17
        BY DEF HeaderLength
      <4> QED
        BY <3>2, <3>3, <4>1
    <3>5. Len(SubSeq(bytes, 17, length)) = length - 16
      <4>1. \A x \in 17 .. length : bytes[x] \in Byte
        BY <1>1, <2>1
      <4>2. least = 16
        BY <2>2
      <4> HIDE DEF length, least
      <4>3. Len(SubSeq(bytes, 17, length)) = IF 17 <= length THEN length - 17 + 1 ELSE 0
        BY <2>1, <4>1, SubSeqProperties
      <4>4. length >= 16
        BY <2>1, <4>2
      <4> QED
        BY <2>1, <4>3, <4>4
    <3> HIDE DEF length
    <3>6. length - 16 # 0 /\ length - 16 # 4
      BY <1>3, <3>1, <3>4, <3>5
    <3> QED
      BY <2>1, <3>6
  <2>3. CASE k # 1
    <3>1. least >= 32
      BY <2>3
    <3> HIDE DEF length, least
    <3> QED
      BY <2>1, <3>1
  <2> QED
    BY <2>2, <2>3
<1>5. ~IsReply(bytes) /\ ~IsAudience(bytes)
  BY <1>4 DEF IsReply, IsAudience, HeaderLength
<1>6. found = SubSeq(Texts, n, n + k - 1)
  BY <1>2, <1>5 DEF Found, Binary, bytes
<1>7. Len(found) = k /\ DOMAIN found = 1 .. k
  <2>1. /\ n \in 1 .. Len(Texts) + 1 /\ n + k - 1 \in n - 1 .. Len(Texts)
        /\ n + k - 1 - n + 1 = k
    BY <1>3
  <2>2. /\ SubSeq(Texts, n, n + k - 1) \in Seq(Seq(Byte))
        /\ Len(SubSeq(Texts, n, n + k - 1)) = n + k - 1 - n + 1
    BY <1>3, <2>1, SubSeqProperties
  <2> QED
    BY <1>6, <2>1, <2>2
<1> QED
  BY <1>1, <1>5, <1>6, <1>7 DEF bytes

LEMMA SmallFrames ==
    /\ ServerPacket(WELCOME, <<>>) \in Seq(Byte)
    /\ ServerPacket(MESSAGE, Command) \in Seq(Byte)
    /\ IsReply(ServerPacket(WELCOME, <<>>)) /\ ~IsAudience(ServerPacket(WELCOME, <<>>))
<1>1. <<>> \in Seq(Byte) /\ Len(<<>>) = 0 /\ HeaderLength = 16
  BY DEF HeaderLength
<1>2. HeaderLength + Len(<<>>) = 16 /\ 16 \in Word
  BY <1>1, Words
<1> DEFINE reply == ServerPacket(WELCOME, <<>>)
<1>3. reply \in Seq(Byte) /\ Len(reply) = HeaderLength + Len(<<>>)
  BY <1>1, <1>2, Words, PacketHas
<1> HIDE DEF reply
<1>4. ServerPacket(MESSAGE, Command) \in Seq(Byte)
  BY FramesBounds, Words, PacketHas
<1> QED
  <2>1. Len(reply) = 16
    BY <1>2, <1>3
  <2>2. IsReply(reply) /\ ~IsAudience(reply)
    BY <1>1, <2>1 DEF IsReply, IsAudience
  <2> QED
    BY <1>3, <1>4, <2>2 DEF reply

LEMMA CountFrame ==
    ASSUME NEW count \in Word, NEW packet, packet = ServerPacket(COUNT, BigEndian(count))
    PROVE  /\ packet \in Seq(Byte) /\ IsAudience(packet) /\ ~IsReply(packet)
           /\ Audience(packet) \in Int
           /\ ValidText(BigEndian(count)) => Audience(packet) = count
<1> DEFINE body == BigEndian(count)
<1>1. /\ body \in Seq(Byte) /\ Len(body) = 4 /\ \A j \in 1 .. 4 : body[j] \in Byte
      /\ ((body[1] * 256 + body[2]) * 256 + body[3]) * 256 + body[4] = count
  BY WordBytes
<1> HIDE DEF body
<1>2. HeaderLength = 16 /\ HeaderLength + Len(body) = 20
  BY <1>1 DEF HeaderLength
<1>3. /\ packet \in Seq(Byte) /\ Len(packet) = 20
      /\ \A j \in 1 .. 4 : packet[16 + j] = body[j]
  <2>1. packet = ServerPacket(COUNT, body)
    BY DEF body
  <2>2. /\ ServerPacket(COUNT, body) \in Seq(Byte)
        /\ Len(ServerPacket(COUNT, body)) = HeaderLength + Len(body)
        /\ \A j \in 1 .. Len(body) : ServerPacket(COUNT, body)[HeaderLength + j] = body[j]
    <3>1. COUNT \in Word /\ HeaderLength + Len(body) \in Word
      BY <1>2, Words
    <3>2. body \in Seq(Byte)
      BY <1>1
    <3> QED
      BY <3>1, <3>2, PacketHas
  <2> QED
    BY <1>1, <1>2, <2>1, <2>2
<1>4. /\ packet[17] = body[1] /\ packet[18] = body[2]
      /\ packet[19] = body[3] /\ packet[20] = body[4]
  <2>1. /\ packet[16 + 1] = body[1] /\ packet[16 + 2] = body[2]
        /\ packet[16 + 3] = body[3] /\ packet[16 + 4] = body[4]
    BY <1>3
  <2> QED
    BY <2>1
<1>5. /\ body[1] \in 0 .. 255 /\ body[2] \in 0 .. 255 /\ body[3] \in 0 .. 255
      /\ body[4] \in 0 .. 255
  BY <1>1 DEF Byte
<1>6. Audience(packet) =
          ShiftedIn(ShiftedIn(ShiftedIn(Signed(body[1]), body[2]), body[3]), body[4])
  BY <1>4 DEF Audience
<1>7. Audience(packet) \in Int
  <2>1. \A b \in 0 .. 255 : Signed(b) \in Int
    BY DEF Signed
  <2>2. \A c \in Int : \A b \in 0 .. 255 : ShiftedIn(c, b) \in Int
    BY <2>1 DEF ShiftedIn
  <2> DEFINE first == Signed(body[1])
             second == ShiftedIn(first, body[2])
             third == ShiftedIn(second, body[3])
  <2>3. first \in Int
    BY <1>5, <2>1
  <2> HIDE DEF first
  <2>4. second \in Int
    BY <1>5, <2>2, <2>3
  <2> HIDE DEF second
  <2>5. third \in Int
    BY <1>5, <2>2, <2>4
  <2> HIDE DEF third
  <2>6. ShiftedIn(third, body[4]) \in Int
    BY <1>5, <2>2, <2>5
  <2> QED
    BY <1>6, <2>6 DEF first, second, third
<1>8. ASSUME ValidText(body) PROVE Audience(packet) = count
  <2>1. DOMAIN body = 1 .. 4
    BY <1>1
  <2>2. body[1] < 128 /\ body[2] < 128 /\ body[3] < 128 /\ body[4] < 128
    BY <1>8, <2>1 DEF ValidText
  <2>3. \A b \in 0 .. 127 : Signed(b) = b
    BY DEF Signed
  <2>4. \A c \in Int : \A b \in 0 .. 127 : ShiftedIn(c, b) = c * 256 + b
    BY <2>3 DEF ShiftedIn
  <2>5. /\ body[1] \in 0 .. 127 /\ body[2] \in 0 .. 127 /\ body[3] \in 0 .. 127
        /\ body[4] \in 0 .. 127
    BY <1>5, <2>2
  <2> DEFINE two == body[1] * 256 + body[2]
             three == two * 256 + body[3]
  <2>6. Signed(body[1]) = body[1] /\ body[1] \in Int
    BY <2>3, <2>5
  <2>7. ShiftedIn(body[1], body[2]) = two /\ two \in Int
    <3>1. ShiftedIn(body[1], body[2]) = two
      BY <2>4, <2>5, <2>6, Zenon
    <3>2. two \in Int
      <4>1. \A x, y \in 0 .. 255 : x * 256 + y \in Int
        OBVIOUS
      <4> QED
        BY <1>5, <4>1, Zenon
    <3> QED
      BY <3>1, <3>2
  <2> HIDE DEF two
  <2>8. ShiftedIn(two, body[3]) = three /\ three \in Int
    <3>1. ShiftedIn(two, body[3]) = three
      BY <2>4, <2>5, <2>7, Zenon
    <3>2. three \in Int
      BY <1>5, <2>7
    <3> QED
      BY <3>1, <3>2
  <2> HIDE DEF three
  <2>9. ShiftedIn(three, body[4]) = three * 256 + body[4]
    BY <2>4, <2>5, <2>8
  <2>10. Audience(packet) = three * 256 + body[4]
    BY <1>6, <2>6, <2>7, <2>8, <2>9
  <2> QED
    BY <1>1, <2>10 DEF two, three
<1>9. IsAudience(packet) /\ ~IsReply(packet)
  BY <1>3 DEF IsAudience, IsReply, HeaderLength
<1> QED
  BY <1>3, <1>7, <1>8, <1>9 DEF body

-----------------------------------------------------------------------------
(* What the type and PacketsRead need to be inductive. *)

(* The frame on_message was called with is one the server makes: the texts  *)
(* that come next, or something that brings none of them.                   *)
WithTexts(bytes, i, k) ==
    /\ k \in Nat \ {0} /\ read[i] + k <= Len(Texts)
    /\ bytes = Packed(read[i] + 1, k)

WithCount(bytes, i) ==
    \E count \in Counts :
        /\ bytes = ServerPacket(COUNT, BigEndian(count))
        /\ said # <<>> /\ said[Len(said)] = [id |-> i, count |-> count]

InHand ==
    io.pc = "on_message" =>
        \/ payload.opcode = "binary" /\ WithTexts(payload.bytes, io.id, io.frame)
        \/ io.frame = 0 /\ payload.opcode = "binary" /\ payload.bytes = ServerPacket(WELCOME, <<>>)
        \/ io.frame = 0 /\ payload.opcode = "text"
        \/ io.frame = 0 /\ payload.opcode = "binary" /\ WithCount(payload.bytes, io.id)

(* The parts of PacketsRead. *)
Frame(i) == IF Inside(i, {"on_message"}) THEN io.frame ELSE 0

TextsRead == \A i \in Ids : sent[i] = read[i] + Frame(i) /\ m_message_count[i] = read[i]

Latest(i, k) == k \in Told(i) /\ \A l \in Told(i) : l <= k

CountsRead ==
    \A i \in Ids :
        /\ Told(i) = {} => m_audience[i] = Unset
        /\ \A k : Latest(i, k) /\ ValidText(BigEndian(said[k].count))
                      => m_audience[i] = said[k].count

HellosHeard ==
    \A i \in Ids : hello[i] = "sent" =>
        heard[i] = [whole |-> TRUE, operation |-> HELLO, body |-> Command]

FramesInv ==
    TypeInv /\ FramesTypeOK /\ InHand /\ TextsRead /\ CountsRead /\ HellosHeard

LEMMA PacketsReadFollows == ASSUME FramesInv PROVE PacketsRead
<1> SUFFICES ASSUME NEW i \in Ids
             PROVE  /\ sent[i] = read[i] + (IF Inside(i, {"on_message"}) THEN io.frame ELSE 0)
                    /\ m_message_count[i] = read[i]
                    /\ Told(i) = {} => m_audience[i] = Unset
                    /\ \A k \in Told(i) :
                          (\A l \in Told(i) : l <= k) /\ ValidText(BigEndian(said[k].count))
                              => m_audience[i] = said[k].count
                    /\ hello[i] = "sent" =>
                           heard[i] = [whole |-> TRUE, operation |-> HELLO, body |-> Command]
  BY DEF PacketsRead
<1>1. /\ sent[i] = read[i] + (IF Inside(i, {"on_message"}) THEN io.frame ELSE 0)
      /\ m_message_count[i] = read[i]
  BY DEF FramesInv, TextsRead, Frame
<1>2. Told(i) = {} => m_audience[i] = Unset
  BY DEF FramesInv, CountsRead
<1>3. ASSUME NEW k \in Told(i), \A l \in Told(i) : l <= k, ValidText(BigEndian(said[k].count))
      PROVE  m_audience[i] = said[k].count
  <2>1. Latest(i, k)
    BY <1>3 DEF Latest
  <2> QED
    BY <1>3, <2>1 DEF FramesInv, CountsRead
<1>4. hello[i] = "sent" => heard[i] = [whole |-> TRUE, operation |-> HELLO, body |-> Command]
  BY DEF FramesInv, HellosHeard
<1> QED
  BY <1>1, <1>2, <1>3, <1>4

-----------------------------------------------------------------------------
(* The frame in hand brings io.frame messages, the texts that come next, so *)
(* on_message does what Connection says of it.                              *)
LEMMA InHandFound ==
    ASSUME FramesInv, io.pc = "on_message", NEW found, found = Found(payload)
    PROVE  /\ Len(found) = io.frame /\ DOMAIN found = 1 .. io.frame
           /\ found = SubSeq(Texts, read[io.id] + 1, read[io.id] + Len(found))
           /\ io.frame # 0 => WithTexts(payload.bytes, io.id, io.frame)
           /\ io.id \in Ids /\ io.frame \in Nat /\ read[io.id] \in Nat
           /\ read[io.id] + io.frame <= Len(Texts)
<1> DEFINE i == io.id
           k == io.frame
           n == read[i] + 1
<1>1. /\ i \in Ids /\ k \in Nat /\ read[i] \in Nat /\ read[i] <= Len(Texts)
      /\ Len(Texts) \in Nat /\ payload.bytes \in Seq(Byte)
  <2>1. i \in Ids /\ k \in Nat
    BY DEF FramesInv, TypeInv, TypeOK, ConnectionBounds
  <2>2. Len(Texts) \in Nat /\ read \in [Ids -> 0 .. Len(Texts)] /\ payload.bytes \in Seq(Byte)
    BY FramesBounds DEF FramesInv, FramesTypeOK
  <2> QED
    BY <2>1, <2>2
<1> HIDE DEF i, k
<1>2. CASE payload.opcode = "binary" /\ WithTexts(payload.bytes, i, k)
  <2>1. /\ k \in Nat \ {0} /\ read[i] + k <= Len(Texts) /\ payload.bytes = Packed(n, k)
    BY <1>2 DEF WithTexts
  <2>2. n \in Nat \ {0} /\ n + k - 1 = read[i] + k /\ n + k - 1 <= Len(Texts)
    BY <1>1, <2>1
  <2>3. Found(payload) = Found(Binary(Packed(n, k)))
    BY <1>2, <2>1 DEF Found, Binary
  <2> HIDE DEF n
  <2>4. found = SubSeq(Texts, n, n + k - 1) /\ Len(found) = k /\ DOMAIN found = 1 .. k
    BY <2>1, <2>2, <2>3, PackedFrame
  <2> QED
    BY <1>1, <1>2, <2>1, <2>2, <2>4 DEF i, k, n
<1>3. ASSUME k = 0, found = <<>>
      PROVE  /\ Len(found) = k /\ DOMAIN found = 1 .. k
             /\ found = SubSeq(Texts, n, read[i] + Len(found))
             /\ read[i] + k <= Len(Texts)
  <2>1. Len(found) = 0 /\ DOMAIN found = 1 .. 0
    BY <1>3
  <2>2. read[i] + Len(found) = read[i] /\ n \in Int /\ read[i] \in Int /\ read[i] < n
    BY <1>1, <2>1
  <2>3. SubSeq(Texts, n, read[i]) = <<>>
    BY <2>2, SubSeqEmpty
  <2> QED
    BY <1>1, <1>3, <2>1, <2>2, <2>3
<1>4. CASE k = 0 /\ payload.opcode = "binary" /\ payload.bytes = ServerPacket(WELCOME, <<>>)
  <2>1. found = <<>>
    BY <1>4, SmallFrames DEF Found
  <2> QED
    BY <1>1, <1>3, <1>4, <2>1 DEF i, k
<1>5. CASE k = 0 /\ payload.opcode = "text"
  <2>1. found = <<>>
    BY <1>5 DEF Found
  <2> QED
    BY <1>1, <1>3, <1>5, <2>1 DEF i, k
<1>6. CASE k = 0 /\ payload.opcode = "binary" /\ WithCount(payload.bytes, i)
  <2>1. PICK count \in Counts : payload.bytes = ServerPacket(COUNT, BigEndian(count))
    BY <1>6 DEF WithCount
  <2>2. IsAudience(payload.bytes)
    BY <2>1, FramesBounds, CountFrame
  <2>3. found = <<>>
    BY <1>6, <2>2 DEF Found
  <2> QED
    BY <1>1, <1>3, <1>6, <2>3 DEF i, k
<1> QED
  BY <1>2, <1>4, <1>5, <1>6 DEF FramesInv, InHand, i, k

LEMMA MessageIsMessage == ASSUME FramesInv, on_message PROVE OnMessage
<1> DEFINE found == Found(payload)
<1>1. io.pc = "on_message" /\ ~locked[io.id] /\ Receive(io.id, found, Len(found))
  BY DEF on_message
<1>2. Len(found) = io.frame /\ DOMAIN found = 1 .. io.frame
  BY <1>1, InHandFound
<1> HIDE DEF found
<1> QED
  BY <1>1, <1>2 DEF OnMessage, Receive

(* A step of Frames is one of Connection, or leaves Connection alone. *)
LEMMA FramesStepIs == ASSUME FramesInv, [FramesNext]_allFrameVars PROVE [Next]_vars
<1>1. CASE SayHello
  BY <1>1 DEF SayHello, Next, IoThread, Handler
<1>2. CASE on_message
  BY <1>2, MessageIsMessage DEF Next, IoThread
<1>3. CASE Elsewhere
  BY <1>3 DEF Elsewhere, Next, IoThread, Handler
<1>4. ASSUME NEW i \in Ids, ServerMessages(i) \/ ServerNoise(i) \/ ServerCounts(i)
      PROVE  Next
  BY <1>4 DEF ServerMessages, ServerNoise, ServerCounts, Next, IoThread
<1>5. CASE UNCHANGED allFrameVars
  BY <1>5 DEF allFrameVars
<1> QED
  BY <1>1, <1>2, <1>3, <1>4, <1>5 DEF FramesNext

-----------------------------------------------------------------------------
(* The steps. *)

(* No frame is in hand before the step and none after it, and the bytes are *)
(* left alone.                                                              *)
LEMMA QuietStep ==
    ASSUME FramesInv, TypeInv', UNCHANGED <<payload, m_audience, sent, read, said, m_message_count>>,
           \/ io' = io
           \/ io.pc # "on_message" /\ io'.pc # "on_message"
    PROVE  /\ payload.opcode \in {"none", "text", "binary"}' /\ payload.bytes' \in Seq(Byte)
           /\ (payload = NoFrame <=> io.pc # "on_message")'
           /\ InHand' /\ TextsRead' /\ CountsRead'
<1>1. payload' = NoFrame <=> io'.pc # "on_message"
  BY DEF FramesInv, FramesTypeOK
<1>2. payload'.opcode \in {"none", "text", "binary"} /\ payload'.bytes \in Seq(Byte)
  BY DEF FramesInv, FramesTypeOK
<1>3. InHand'
  BY DEF FramesInv, InHand, WithTexts, WithCount
<1>4. TextsRead'
  BY DEF FramesInv, TextsRead, Frame, Inside
<1>5. \A i \in Ids : Told(i)' = Told(i)
  BY DEF Told, CountInHand
<1>6. CountsRead'
  BY <1>5 DEF FramesInv, CountsRead, Latest
<1> QED
  BY <1>1, <1>2, <1>3, <1>4, <1>6

(* Steps of Connection that are neither on_message nor a frame.             *)
LEMMA ElsewhereQuiet ==
    ASSUME TypeInv, Elsewhere
    PROVE  /\ UNCHANGED <<hello, m_message_count>>
           /\ \/ io' = io
              \/ io.pc # "on_message" /\ io'.pc # "on_message"
<1>1. CASE OnOpenStatus \/ OnOpenNotice
  BY <1>1 DEF OnOpenStatus, OnOpenNotice, In, mailbox
<1>2. CASE TerminalNotice
  BY <1>2 DEF TerminalNotice, Polling
<1>3. CASE Program
  BY <1>3 DEF Program, Connect, Disconnect, RetrieveCopy, RetrieveClear, mailbox
<1>4. CASE Destructor
  BY <1>4 DEF Destructor, DtorBegin, DtorVisit, DtorJoin, mailbox
<1>5. ASSUME NEW i \in Ids, HandshakeDone(i) \/ HandleTerminate(i)
      PROVE  /\ UNCHANGED <<hello, m_message_count>>
             /\ io.pc # "on_message" /\ io'.pc # "on_message"
  BY <1>5 DEF HandshakeDone, HandleTerminate, Polling, In, mailbox
<1>6. ASSUME NEW i \in Ids, PeerCloses(i) \/ Terminate(i)
      PROVE  UNCHANGED <<hello, m_message_count>> /\ io' = io
  BY <1>6 DEF PeerCloses, Terminate, mailbox
<1> QED
  BY <1>1, <1>2, <1>3, <1>4, <1>5, <1>6 DEF Elsewhere

LEMMA QuietInv ==
    ASSUME FramesInv, TypeInv', UNCHANGED <<frameVars, m_message_count, hello>>,
           \/ io' = io
           \/ io.pc # "on_message" /\ io'.pc # "on_message"
    PROVE  FramesInv'
<1>1. /\ payload.opcode \in {"none", "text", "binary"}' /\ payload.bytes' \in Seq(Byte)
      /\ (payload = NoFrame <=> io.pc # "on_message")'
      /\ InHand' /\ TextsRead' /\ CountsRead'
  BY QuietStep DEF frameVars
<1>2. FramesTypeOK'
  BY <1>1 DEF FramesInv, FramesTypeOK, frameVars
<1>3. HellosHeard'
  BY DEF FramesInv, HellosHeard, frameVars
<1> QED
  BY <1>1, <1>2, <1>3 DEF FramesInv

(* The Hello of on_open. *)
LEMMA HelloStepInv == ASSUME FramesInv, TypeInv', SayHello PROVE FramesInv'
<1>1. /\ OnOpenHello /\ UNCHANGED <<payload, m_audience, sent, read, said>>
      /\ heard' = IF hello'[io.id] = "sent"
                  THEN [heard EXCEPT ![io.id] = Heard(PacketHello(Command))] ELSE heard
  BY DEF SayHello
<1>2. /\ io.pc # "on_message" /\ io'.pc # "on_message" /\ UNCHANGED m_message_count
      /\ io.id \in Ids /\ hello \in [Ids -> {"no", "sent", "refused"}]
      /\ \A i \in Ids : i # io.id => hello'[i] = hello[i]
  BY <1>1 DEF OnOpenHello, Polling, mailbox, FramesInv, TypeInv, TypeOK
<1>3. /\ payload.opcode \in {"none", "text", "binary"}' /\ payload.bytes' \in Seq(Byte)
      /\ (payload = NoFrame <=> io.pc # "on_message")'
      /\ InHand' /\ TextsRead' /\ CountsRead'
  BY <1>1, <1>2, QuietStep
<1> DEFINE Hello == [whole |-> TRUE, operation |-> HELLO, body |-> Command]
           Types == [whole : BOOLEAN, operation : {0, HELLO, HEART}, body : Seq(Byte)]
<1>4. Hello \in Types
  BY FramesBounds
<1>5. heard \in [Ids -> Types] /\ \A i \in Ids : hello[i] = "sent" => heard[i] = Hello
  BY DEF FramesInv, FramesTypeOK, HellosHeard
<1>6. heard' = IF hello'[io.id] = "sent" THEN [heard EXCEPT ![io.id] = Hello] ELSE heard
  BY <1>1, HelloHeard
<1> HIDE DEF Hello, Types
<1>7. heard' \in [Ids -> Types]
  BY <1>4, <1>5, <1>6
<1>8. \A i \in Ids : hello'[i] = "sent" => heard'[i] = Hello
  BY <1>2, <1>5, <1>6
<1>9. HellosHeard'
  BY <1>8 DEF HellosHeard, Hello
<1>10. FramesTypeOK'
  BY <1>1, <1>3, <1>7 DEF FramesInv, FramesTypeOK, Types
<1> QED
  BY <1>3, <1>9, <1>10 DEF FramesInv

LEMMA ToldSame ==
    ASSUME ~CountInHand, ~CountInHand', said' = said, NEW i
    PROVE  Told(i)' = Told(i)
BY DEF Told

LEMMA CountsSame ==
    ASSUME CountsRead, m_audience' = m_audience,
           \A i \in Ids : Told(i)' = Told(i) /\ \A k \in Told(i) : said'[k] = said[k]
    PROVE  CountsRead'
<1>1. ASSUME NEW i \in Ids, NEW k, Latest(i, k)'
      PROVE  Latest(i, k) /\ said'[k] = said[k]
  BY <1>1 DEF Latest
<1> QED
  BY <1>1 DEF CountsRead

(* A frame arrives: nothing of the connection has been touched. *)
Arrives(i, k) ==
    /\ io = Polling /\ io' = [pc |-> "on_message", id |-> i, frame |-> k] /\ k \in Nat
    /\ UNCHANGED <<m_message_count, hello, m_audience, heard, read>>

LEMMA FrameArrivesSo ==
    ASSUME TypeInv, NEW i \in Ids, FrameArrives(i), UNCHANGED <<m_audience, heard, read>>
    PROVE  \E k : Arrives(i, k)
BY DEF FrameArrives, Arrives, mailbox

(* What the frames of the server have in common. *)
LEMMA ArrivalInv ==
    ASSUME FramesInv, TypeInv', NEW i \in Ids, NEW k, Arrives(i, k),
           payload'.opcode \in {"text", "binary"}, payload'.bytes \in Seq(Byte),
           sent' = [sent EXCEPT ![i] = @ + k], sent[i] + k <= Len(Texts),
           said' \in Seq([id : Ids, count : Counts]),
           \/ payload'.opcode = "binary" /\ WithTexts(payload'.bytes, i, k)
           \/ k = 0 /\ payload'.opcode = "binary" /\ payload'.bytes = ServerPacket(WELCOME, <<>>)
           \/ k = 0 /\ payload'.opcode = "text"
           \/ k = 0 /\ payload'.opcode = "binary" /\ WithCount(payload.bytes, i)',
           \A j \in Ids : Told(j)' = Told(j) /\ \A m \in Told(j) : said'[m] = said[m]
    PROVE  FramesInv'
<1>1. /\ io.pc # "on_message" /\ io'.pc = "on_message" /\ io'.id = i /\ io'.frame = k
      /\ k \in Nat
  BY DEF Arrives, Polling
<1>2. payload'.opcode # "none"
  OBVIOUS
<1>3. payload' # NoFrame
  BY <1>2 DEF NoFrame
<1>4. /\ sent \in [Ids -> 0 .. Len(Texts)] /\ read \in [Ids -> 0 .. Len(Texts)]
      /\ Len(Texts) \in Nat
  BY FramesBounds DEF FramesInv, FramesTypeOK
<1>5. sent' \in [Ids -> 0 .. Len(Texts)]
  <2>1. sent[i] + k \in 0 .. Len(Texts)
    BY <1>1, <1>4
  <2> QED
    BY <1>4, <2>1
<1>6. FramesTypeOK'
  BY <1>1, <1>3, <1>4, <1>5 DEF FramesInv, FramesTypeOK, Arrives
<1>7. InHand'
  <2>1. read' = read
    BY DEF Arrives
  <2>2. WithTexts(payload'.bytes, i, k) => WithTexts(payload.bytes, i, k)'
    BY <2>1 DEF WithTexts
  <2>3. \/ payload'.opcode = "binary" /\ WithTexts(payload.bytes, io.id, io.frame)'
        \/ io'.frame = 0 /\ payload'.opcode = "binary"
               /\ payload'.bytes = ServerPacket(WELCOME, <<>>)
        \/ io'.frame = 0 /\ payload'.opcode = "text"
        \/ io'.frame = 0 /\ payload'.opcode = "binary" /\ WithCount(payload.bytes, io.id)'
    BY <1>1, <2>2 DEF WithTexts, WithCount
  <2> QED
    BY <2>3 DEF InHand
<1>8. TextsRead'
  <2>1. \A j \in Ids : Frame(j) = 0
    BY <1>1 DEF Frame, Inside
  <2>2. \A j \in Ids : sent[j] = read[j] /\ m_message_count[j] = read[j]
    BY <1>4, <2>1 DEF FramesInv, TextsRead
  <2>3. \A j \in Ids : Frame(j)' = IF j = i THEN k ELSE 0
    BY <1>1 DEF Frame, Inside
  <2>4. \A j \in Ids : sent'[j] = IF j = i THEN sent[j] + k ELSE sent[j]
    BY <1>4
  <2>5. read' = read /\ m_message_count' = m_message_count
    BY DEF Arrives
  <2>6. \A j \in Ids : sent'[j] = read'[j] + Frame(j)'
    BY <1>1, <1>4, <2>2, <2>3, <2>4, <2>5
  <2> QED
    BY <2>2, <2>5, <2>6 DEF TextsRead
<1>9. CountsRead'
  BY CountsSame DEF FramesInv, Arrives
<1>10. HellosHeard'
  BY DEF FramesInv, HellosHeard, Arrives
<1> QED
  BY <1>6, <1>7, <1>8, <1>9, <1>10 DEF FramesInv

(* Between frames every text sent has been read and no count is in hand. *)
LEMMA BetweenFrames ==
    ASSUME FramesInv, NEW i \in Ids, io = Polling
    PROVE  /\ ~CountInHand /\ sent[i] = read[i] /\ read[i] \in Nat
           /\ sent \in [Ids -> 0 .. Len(Texts)] /\ Len(Texts) \in Nat
           /\ said \in Seq([id : Ids, count : Counts])
<1>1. io.pc # "on_message"
  BY DEF Polling
<1>2. payload = NoFrame
  BY <1>1 DEF FramesInv, FramesTypeOK
<1>3. ~CountInHand
  BY <1>2 DEF CountInHand, NoFrame
<1>4. Frame(i) = 0
  BY <1>1 DEF Frame, Inside
<1>5. /\ sent \in [Ids -> 0 .. Len(Texts)] /\ read \in [Ids -> 0 .. Len(Texts)]
      /\ Len(Texts) \in Nat /\ said \in Seq([id : Ids, count : Counts])
  BY FramesBounds DEF FramesInv, FramesTypeOK
<1>6. sent[i] = read[i] + Frame(i)
  BY DEF FramesInv, TextsRead
<1> QED
  BY <1>3, <1>4, <1>5, <1>6

LEMMA MessagesInv ==
    ASSUME FramesInv, TypeInv', NEW i \in Ids, ServerMessages(i)
    PROVE  FramesInv'
<1>1. PICK k : Arrives(i, k)
  BY FrameArrivesSo DEF ServerMessages, FramesInv
<1> DEFINE bytes == Packed(read[i] + 1, k)
<1>2. io = Polling /\ io'.frame = k /\ k \in Nat
  BY <1>1 DEF Arrives
<1>3. /\ ~CountInHand /\ sent[i] = read[i] /\ read[i] \in Nat
      /\ sent \in [Ids -> 0 .. Len(Texts)] /\ Len(Texts) \in Nat
      /\ said \in Seq([id : Ids, count : Counts])
  BY <1>2, BetweenFrames
<1>4. /\ k \in Nat \ {0} /\ sent[i] + k <= Len(Texts) /\ sent' = [sent EXCEPT ![i] = @ + k]
      /\ payload' = Binary(bytes) /\ said' = said
  BY <1>2, <1>3 DEF ServerMessages
<1>5. bytes \in Seq(Byte) /\ ~IsAudience(bytes)
  <2>1. read[i] + 1 \in Nat \ {0} /\ (read[i] + 1) + k - 1 <= Len(Texts)
    BY <1>3, <1>4
  <2> QED
    BY <1>4, <2>1, PackedFrame
<1>6. WithTexts(bytes, i, k)
  BY <1>3, <1>4 DEF WithTexts
<1> HIDE DEF bytes
<1>7. payload'.opcode = "binary" /\ payload'.bytes = bytes
  BY <1>4 DEF Binary
<1>8. ~CountInHand'
  BY <1>5, <1>7 DEF CountInHand
<1>9. \A j \in Ids : Told(j)' = Told(j)
  BY <1>3, <1>4, <1>8, ToldSame
<1> QED
  BY <1>1, <1>3, <1>4, <1>5, <1>6, <1>7, <1>9, ArrivalInv

LEMMA NoiseInv ==
    ASSUME FramesInv, TypeInv', NEW i \in Ids, ServerNoise(i)
    PROVE  FramesInv'
<1>1. PICK k : Arrives(i, k)
  BY FrameArrivesSo DEF ServerNoise, FramesInv
<1>2. io = Polling /\ io'.frame = k /\ k \in Nat
  BY <1>1 DEF Arrives
<1>3. /\ ~CountInHand /\ sent[i] = read[i] /\ read[i] \in Nat
      /\ sent \in [Ids -> 0 .. Len(Texts)] /\ Len(Texts) \in Nat
      /\ said \in Seq([id : Ids, count : Counts])
  BY <1>2, BetweenFrames
<1>4. k = 0 /\ sent' = sent /\ said' = said
  BY <1>2 DEF ServerNoise
<1>5. sent' = [sent EXCEPT ![i] = @ + k] /\ sent[i] + k <= Len(Texts)
  <2>1. sent[i] + 0 = sent[i] /\ sent[i] <= Len(Texts)
    BY <1>3
  <2> QED
    BY <1>3, <1>4, <2>1
<1>6. \/ /\ payload'.opcode = "binary" /\ payload'.bytes = ServerPacket(WELCOME, <<>>)
      \/ /\ payload'.opcode = "text" /\ payload'.bytes = ServerPacket(MESSAGE, Command)
  BY DEF ServerNoise, Binary
<1>7. payload'.bytes \in Seq(Byte) /\ ~CountInHand'
  BY <1>6, SmallFrames DEF CountInHand
<1>8. \A j \in Ids : Told(j)' = Told(j)
  BY <1>3, <1>4, <1>7, ToldSame
<1> QED
  BY <1>1, <1>3, <1>4, <1>5, <1>6, <1>7, <1>8, ArrivalInv

LEMMA CountsInv ==
    ASSUME FramesInv, TypeInv', NEW i \in Ids, ServerCounts(i)
    PROVE  FramesInv'
<1>1. PICK k : Arrives(i, k)
  BY FrameArrivesSo DEF ServerCounts, FramesInv
<1>2. io = Polling /\ io'.frame = k /\ k \in Nat
  BY <1>1 DEF Arrives
<1>3. /\ ~CountInHand /\ sent[i] = read[i] /\ read[i] \in Nat
      /\ sent \in [Ids -> 0 .. Len(Texts)] /\ Len(Texts) \in Nat
      /\ said \in Seq([id : Ids, count : Counts])
  BY <1>2, BetweenFrames
<1>4. k = 0 /\ sent' = sent
  BY <1>2 DEF ServerCounts
<1>5. sent' = [sent EXCEPT ![i] = @ + k] /\ sent[i] + k <= Len(Texts)
  <2>1. sent[i] + 0 = sent[i] /\ sent[i] <= Len(Texts)
    BY <1>3
  <2> QED
    BY <1>3, <1>4, <2>1
<1>6. PICK count \in Counts : /\ payload' = Binary(ServerPacket(COUNT, BigEndian(count)))
                              /\ said' = Append(said, [id |-> i, count |-> count])
  BY DEF ServerCounts
<1> DEFINE packet == ServerPacket(COUNT, BigEndian(count))
           told == [id |-> i, count |-> count]
<1>7. packet \in Seq(Byte) /\ IsAudience(packet)
  BY FramesBounds, CountFrame
<1>8. payload'.opcode = "binary" /\ payload'.bytes = packet
  BY <1>6 DEF Binary
<1>9. told \in [id : Ids, count : Counts]
  OBVIOUS
<1> HIDE DEF told
<1>10. /\ said' \in Seq([id : Ids, count : Counts])
       /\ Len(said') = Len(said) + 1 /\ Len(said) \in Nat
       /\ DOMAIN said = 1 .. Len(said) /\ DOMAIN said' = 1 .. Len(said) + 1
       /\ said'[Len(said) + 1] = told
       /\ \A m \in 1 .. Len(said) : said'[m] = said[m]
  <2>1. said' = Append(said, told)
    BY <1>6 DEF told
  <2> QED
    BY <1>3, <1>9, <2>1, AppendProperties
<1>11. WithCount(payload.bytes, i)'
  <2>1. said' # <<>> /\ said'[Len(said')] = told
    BY <1>10
  <2> QED
    BY <1>8, <2>1 DEF WithCount, told
<1>12. CountInHand'
  BY <1>7, <1>8 DEF CountInHand
<1> HIDE DEF packet
<1>13. ASSUME NEW j \in Ids
       PROVE  Told(j)' = Told(j) /\ \A m \in Told(j) : said'[m] = said[m]
  <2>1. Told(j) = {m \in 1 .. Len(said) : said[m].id = j}
    BY <1>3, <1>10 DEF Told
  <2>2. Told(j)' = {m \in 1 .. Len(said) + 1 : said'[m].id = j /\ m # Len(said) + 1}
    BY <1>10, <1>12 DEF Told
  <2>3. \A m : m \in 1 .. Len(said) + 1 /\ m # Len(said) + 1 <=> m \in 1 .. Len(said)
    BY <1>10
  <2>4. \A m : m \in Told(j)' <=> m \in Told(j)
    BY <1>10, <2>1, <2>2, <2>3
  <2> QED
    BY <1>10, <2>1, <2>4
<1> QED
  BY <1>1, <1>4, <1>5, <1>7, <1>8, <1>10, <1>11, <1>13, ArrivalInv

(* on_message is done with the frame. *)
LEMMA ReceiveInv ==
    ASSUME FramesInv, TypeInv', on_message
    PROVE  FramesInv'
<1> DEFINE found == Found(payload)
<1>0. PICK i \in Ids : i = io.id
  BY DEF FramesInv, TypeInv, TypeOK
<1>1. /\ io.pc = "on_message" /\ io' = Polling /\ payload' = NoFrame
      /\ m_message_count' = [m_message_count EXCEPT ![i] = @ + Len(found)]
      /\ read' = IF found = SubSeq(Texts, read[i] + 1, read[i] + Len(found))
                 THEN [read EXCEPT ![i] = @ + Len(found)] ELSE read
      /\ m_audience' = IF payload.opcode = "binary" /\ IsAudience(payload.bytes)
                       THEN [m_audience EXCEPT ![i] = Audience(payload.bytes)]
                       ELSE m_audience
      /\ UNCHANGED <<hello, heard, sent, said>>
  BY <1>0 DEF on_message, Receive
<1>2. /\ Len(found) = io.frame
      /\ found = SubSeq(Texts, read[i] + 1, read[i] + Len(found))
      /\ io.frame # 0 => WithTexts(payload.bytes, i, io.frame)
      /\ i \in Ids /\ io.frame \in Nat /\ read[i] \in Nat
      /\ read[i] + io.frame <= Len(Texts)
  BY <1>0, <1>1, InHandFound
<1> HIDE DEF found
<1>3. /\ io'.pc # "on_message" /\ payload'.opcode = "none" /\ payload'.bytes = <<>>
      /\ <<>> \in Seq(Byte)
  BY <1>1 DEF Polling, NoFrame
<1>4. /\ sent \in [Ids -> 0 .. Len(Texts)] /\ read \in [Ids -> 0 .. Len(Texts)]
      /\ Len(Texts) \in Nat /\ m_audience \in [Ids -> Int]
      /\ said \in Seq([id : Ids, count : Counts])
      /\ m_message_count \in [Ids -> 0 .. MaxMessages] /\ MaxMessages \in Nat
  <2>1. Len(Texts) \in Nat
    BY FramesBounds
  <2>2. m_message_count \in [Ids -> 0 .. MaxMessages] /\ MaxMessages \in Nat
    BY ConnectionBounds DEF FramesInv, TypeInv, TypeOK
  <2> QED
    BY <2>1, <2>2 DEF FramesInv, FramesTypeOK
<1>5. /\ read' = [read EXCEPT ![i] = @ + io.frame]
      /\ m_message_count' = [m_message_count EXCEPT ![i] = @ + io.frame]
  BY <1>1, <1>2
<1>6. read' \in [Ids -> 0 .. Len(Texts)]
  <2>1. read[i] + io.frame \in 0 .. Len(Texts)
    BY <1>2, <1>4
  <2> QED
    BY <1>4, <1>5, <2>1
<1>7. TextsRead'
  <2>1. \A j \in Ids : sent[j] = read[j] + (IF j = i THEN io.frame ELSE 0)
    BY <1>0, <1>1 DEF FramesInv, TextsRead, Frame, Inside
  <2>2. \A j \in Ids : m_message_count[j] = read[j]
    BY DEF FramesInv, TextsRead
  <2>3. \A j \in Ids : Frame(j)' = 0
    BY <1>3 DEF Frame, Inside
  <2>4. /\ read'[i] = read[i] + io.frame
        /\ \A j \in Ids : j # i => read'[j] = read[j]
    BY <1>2, <1>4, <1>5
  <2>5. /\ m_message_count'[i] = m_message_count[i] + io.frame
        /\ \A j \in Ids : j # i => m_message_count'[j] = m_message_count[j]
    BY <1>2, <1>4, <1>5
  <2>6. \A j \in Ids : m_message_count'[j] = read'[j]
    BY <1>2, <2>2, <2>4, <2>5
  <2>7. ASSUME NEW j \in Ids PROVE sent'[j] = read'[j] + Frame(j)'
    <3>1. sent'[j] = sent[j] /\ read'[j] \in Nat /\ read[j] \in Nat
      BY <1>1, <1>4, <1>6
    <3>2. sent'[j] = read'[j]
      BY <2>1, <2>4, <3>1
    <3> QED
      BY <2>3, <3>1, <3>2
  <2> QED
    BY <2>6, <2>7 DEF TextsRead
<1>8. ~CountInHand'
  BY <1>3 DEF CountInHand
<1>9. CASE ~CountInHand
  <2>1. m_audience' = m_audience
    BY <1>1, <1>9 DEF CountInHand
  <2>2. \A j \in Ids : Told(j)' = Told(j)
    BY <1>1, <1>8, <1>9, ToldSame
  <2>3. CountsRead'
    BY <1>1, <2>1, <2>2, CountsSame DEF FramesInv
  <2>4. FramesTypeOK'
    BY <1>1, <1>3, <1>4, <1>6, <2>1 DEF FramesInv, FramesTypeOK
  <2>5. InHand' /\ HellosHeard'
    BY <1>1, <1>3 DEF FramesInv, InHand, HellosHeard
  <2> QED
    BY <1>7, <2>3, <2>4, <2>5 DEF FramesInv
<1>10. CASE CountInHand
  <2>1. payload.opcode = "binary" /\ IsAudience(payload.bytes)
    BY <1>10 DEF CountInHand
  <2>2. WithCount(payload.bytes, i)
    <3>1. ~WithTexts(payload.bytes, i, io.frame)
      <4>1. ASSUME WithTexts(payload.bytes, i, io.frame) PROVE FALSE
        <5>1. /\ io.frame \in Nat \ {0} /\ read[i] + io.frame <= Len(Texts)
              /\ payload.bytes = Packed(read[i] + 1, io.frame)
          BY <4>1 DEF WithTexts
        <5>2. read[i] + 1 \in Nat \ {0} /\ (read[i] + 1) + io.frame - 1 <= Len(Texts)
          <6>1. read[i] \in Nat /\ Len(Texts) \in Nat
            BY <1>2, <1>4
          <6>2. (read[i] + 1) + io.frame - 1 = read[i] + io.frame
            BY <5>1, <6>1
          <6> QED
            BY <5>1, <6>1, <6>2
        <5> DEFINE bytes == Packed(read[i] + 1, io.frame)
        <5>3. ~IsAudience(bytes)
          BY <5>1, <5>2, PackedFrame
        <5> QED
          BY <2>1, <5>1, <5>3
      <4> QED
        BY <4>1
    <3>2. payload.bytes # ServerPacket(WELCOME, <<>>)
      BY <2>1, SmallFrames
    <3> QED
      BY <1>0, <1>1, <2>1, <3>1, <3>2 DEF FramesInv, InHand
  <2>3. PICK count \in Counts :
            /\ payload.bytes = ServerPacket(COUNT, BigEndian(count))
            /\ said # <<>> /\ said[Len(said)] = [id |-> i, count |-> count]
    BY <2>2 DEF WithCount
  <2>4. /\ Audience(payload.bytes) \in Int
        /\ ValidText(BigEndian(count)) => Audience(payload.bytes) = count
    BY <2>3, FramesBounds, CountFrame
  <2> DEFINE n == Len(said)
  <2>5. n \in Nat \ {0} /\ DOMAIN said = 1 .. n
    <3>1. Len(said) # 0
      BY <1>4, <2>3, EmptySeq
    <3> QED
      BY <1>4, <3>1
  <2>6. said[n].id = i /\ said[n].count = count
    BY <2>3
  <2> HIDE DEF n
  <2>7. m_audience' = [m_audience EXCEPT ![i] = Audience(payload.bytes)]
    BY <1>1, <2>1
  <2>8. \A j : Told(j) = {k \in 1 .. n : said[k].id = j /\ k # n}
    BY <1>10, <2>5 DEF Told, n
  <2>9. \A j : Told(j)' = {k \in 1 .. n : said[k].id = j}
    <3>1. said' = said /\ DOMAIN said' = 1 .. n
      BY <1>1, <2>5
    <3> QED
      BY <1>8, <3>1 DEF Told
  <2>10. n \in Told(i)'
    BY <2>5, <2>6, <2>9
  <2>11. ASSUME NEW k, Latest(i, k)' PROVE k = n
    <3>1. k \in 1 .. n /\ n <= k
      BY <2>9, <2>10, <2>11 DEF Latest
    <3> QED
      BY <2>5, <3>1
  <2>12. m_audience'[i] = Audience(payload.bytes)
    BY <1>2, <1>4, <2>7
  <2>13. \A k : Latest(i, k)' /\ ValidText(BigEndian(said'[k].count))
                   => m_audience'[i] = said'[k].count
    BY <1>1, <2>4, <2>6, <2>11, <2>12
  <2>14. ASSUME NEW j \in Ids, j # i
         PROVE  /\ Told(j)' = {} => m_audience'[j] = Unset
                /\ \A k : Latest(j, k)' /\ ValidText(BigEndian(said'[k].count))
                              => m_audience'[j] = said'[k].count
    <3>1. Told(j)' = Told(j)
      BY <2>6, <2>8, <2>9, <2>14
    <3>2. m_audience'[j] = m_audience[j]
      BY <1>4, <2>7, <2>14
    <3>3. \A k : Latest(j, k)' => Latest(j, k)
      BY <3>1 DEF Latest
    <3>4. /\ Told(j) = {} => m_audience[j] = Unset
          /\ \A k : Latest(j, k) /\ ValidText(BigEndian(said[k].count))
                        => m_audience[j] = said[k].count
      BY DEF FramesInv, CountsRead
    <3>5. said' = said
      BY <1>1
    <3> QED
      BY <3>1, <3>2, <3>3, <3>4, <3>5
  <2>15. CountsRead'
    BY <2>10, <2>13, <2>14 DEF CountsRead
  <2>16. m_audience' \in [Ids -> Int]
    BY <1>2, <1>4, <2>4, <2>7
  <2>17. FramesTypeOK'
    BY <1>1, <1>3, <1>4, <1>6, <2>16 DEF FramesInv, FramesTypeOK
  <2>18. InHand' /\ HellosHeard'
    BY <1>1, <1>3 DEF FramesInv, InHand, HellosHeard
  <2> QED
    BY <1>7, <2>15, <2>17, <2>18 DEF FramesInv
<1> QED
  BY <1>9, <1>10

LEMMA FramesInitInv == ASSUME FramesInit PROVE FramesInv
<1>1. TypeInv
  BY ConnectionBounds, TypeInit DEF FramesInit
<1>2. io.pc # "on_message" /\ payload = NoFrame /\ said = <<>>
  BY DEF FramesInit, Init, Polling
<1>3. \A i : Told(i) = {}
  BY <1>2 DEF Told
<1>4. Len(Texts) \in Nat /\ 0 \in 0 .. Len(Texts)
  BY FramesBounds
<1>5. FramesTypeOK
  <2>1. Nothing \in [whole : BOOLEAN, operation : {0, HELLO, HEART}, body : Seq(Byte)]
    BY DEF Nothing
  <2>2. heard \in [Ids -> [whole : BOOLEAN, operation : {0, HELLO, HEART}, body : Seq(Byte)]]
    BY <2>1 DEF FramesInit
  <2> QED
    BY <1>2, <1>4, <2>2 DEF FramesInit, FramesTypeOK, NoFrame, Unset
<1>6. InHand
  BY <1>2 DEF InHand
<1>7. TextsRead
  BY <1>2 DEF TextsRead, Frame, Inside, FramesInit, Init
<1>8. CountsRead
  BY <1>3 DEF CountsRead, Latest, FramesInit
<1>9. HellosHeard
  BY DEF HellosHeard, FramesInit, Init
<1> QED
  BY <1>1, <1>5, <1>6, <1>7, <1>8, <1>9 DEF FramesInv

LEMMA FramesStep == ASSUME FramesInv, [FramesNext]_allFrameVars PROVE FramesInv'
<1>1. TypeInv'
  BY ConnectionBounds, FramesStepIs, TypeStep DEF FramesInv
<1>2. CASE SayHello
  BY <1>1, <1>2, HelloStepInv
<1>3. CASE on_message
  BY <1>1, <1>3, ReceiveInv
<1>4. CASE Elsewhere
  <2>1. UNCHANGED frameVars
    BY <1>4 DEF Elsewhere
  <2> QED
    BY <1>1, <1>4, <2>1, ElsewhereQuiet, QuietInv DEF FramesInv
<1>5. ASSUME NEW i \in Ids, ServerMessages(i) \/ ServerNoise(i) \/ ServerCounts(i)
      PROVE  FramesInv'
  BY <1>1, <1>5, MessagesInv, NoiseInv, CountsInv
<1>6. CASE UNCHANGED allFrameVars
  BY <1>1, <1>6, QuietInv DEF allFrameVars, vars, mailbox
<1> QED
  BY <1>2, <1>3, <1>4, <1>5, <1>6 DEF FramesNext

LEMMA FramesAlways == FramesSafety => []FramesInv
BY FramesInitInv, FramesStep, PTL DEF FramesSafety

(* The type of the frame in hand, the counts and the histories holds,      *)
(* whatever the server sends: a packet is always made of bytes, there is a  *)
(* frame exactly while on_message runs, and what the server hears has an    *)
(* operation it knows.                                                      *)
THEOREM FramesTypes == FramesSafety => []FramesTypeOK
<1>1. FramesInv => FramesTypeOK
  BY DEF FramesInv
<1> QED
  BY <1>1, FramesAlways, PTL

(* on_message finds the server's texts in the packets of its frames, each   *)
(* once, whole and in order, however they are put together; m_audience is   *)
(* the latest count while no byte of it is above 0x7F; and the server has   *)
(* heard a whole Hello of each connection that has sent one.                *)
THEOREM PacketsFound == FramesSafety => []PacketsRead
BY PacketsReadFollows, FramesAlways, PTL

(* With its bytes, on_message does to the mailbox what Connection says of   *)
(* it: what is proved of Connection holds of it with Frames.                *)
THEOREM ImplementsConnection == FramesSafety => Safety
<1>1. FramesInit => Init
  BY DEF FramesInit
<1> QED
  BY <1>1, FramesAlways, FramesStepIs, PTL DEF FramesSafety, Safety
===============================================================================
