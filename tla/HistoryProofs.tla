---------------------------- MODULE HistoryProofs ----------------------------
(***************************************************************************)
(* Proofs about History, for any number of messages, runs, time zones and  *)
(* days.                                                                   *)
(*                                                                         *)
(* Shape holds on any number of fetch threads: the types, which streams    *)
(* can be closed while a thread or m_pFile still points to them, and who   *)
(* is to blame.  The rest is about one fetch thread, in three layers, each *)
(* a predicate of the thread:                                              *)
(*   Named   the format of m_pFile's file and of the lines on their way    *)
(*           into it;                                                      *)
(*   Topped  how far the byte order mark and the header of that file are;  *)
(*   Kept    where the row of each message is: in one buffer, or in one    *)
(*           place of one file.                                            *)
(* What an ending process writes to a file it has open several times is    *)
(* the FlattenSeq of their buffers: Made and LeastNumber do the induction  *)
(* along the streams.                                                      *)
(***************************************************************************)
EXTENDS History, Induction, SequenceTheorems

-----------------------------------------------------------------------------
(* Sequences put one after another. *)

(* c is b put after a.                                                      *)
Follows(S, a, b, c) ==
    /\ Len(a) \in Nat /\ DOMAIN a \subseteq Nat \ {0} /\ DOMAIN b \subseteq Nat \ {0}
    /\ \A k \in DOMAIN a : k <= Len(a)
    /\ a = <<>> => Len(a) = 0
    /\ c \in Seq(S)
    /\ \A k \in DOMAIN a : k \in DOMAIN c /\ c[k] = a[k]
    /\ \A j \in DOMAIN b : Len(a) + j \in DOMAIN c /\ c[Len(a) + j] = b[j]
    /\ \A k \in DOMAIN c :
          \/ k \in DOMAIN a /\ c[k] = a[k]
          \/ \E j \in DOMAIN b : k = Len(a) + j /\ c[k] = b[j] /\ (k = 1 => a = <<>>)

LEMMA ConcatFollows ==
    ASSUME NEW S, NEW a \in Seq(S), NEW b \in Seq(S), NEW c, c = a \o b
    PROVE  Follows(S, a, b, c)
<1>1. /\ Len(a) \in Nat /\ DOMAIN a = 1 .. Len(a)
      /\ Len(b) \in Nat /\ DOMAIN b = 1 .. Len(b)
      /\ c \in Seq(S) /\ DOMAIN c = 1 .. Len(a) + Len(b)
  BY LenProperties, ConcatProperties
<1>2. \A k \in DOMAIN a : k \in DOMAIN c /\ c[k] = a[k]
  BY <1>1, ConcatProperties
<1>3. ASSUME NEW k \in DOMAIN b
      PROVE  Len(a) + k \in DOMAIN c /\ c[Len(a) + k] = b[k]
  <2>1. Len(a) + k \in 1 .. Len(a) + Len(b) /\ ~(Len(a) + k <= Len(a)) /\ Len(a) + k - Len(a) = k
    BY <1>1
  <2> QED
    BY <1>1, <2>1, ConcatProperties
<1>4. ASSUME NEW k \in DOMAIN c
      PROVE  \/ k \in DOMAIN a /\ c[k] = a[k]
             \/ \E j \in DOMAIN b : k = Len(a) + j /\ c[k] = b[j] /\ (k = 1 => a = <<>>)
  <2>1. CASE k <= Len(a)
    BY <1>1, <2>1, ConcatProperties
  <2>2. CASE ~(k <= Len(a))
    <3>1. k - Len(a) \in 1 .. Len(b) /\ k = Len(a) + (k - Len(a))
      BY <1>1, <2>2
    <3>2. c[k] = b[k - Len(a)]
      BY <1>1, <2>2, ConcatProperties
    <3>3. k = 1 => Len(a) = 0
      BY <1>1, <2>2
    <3> QED
      BY <1>1, <3>1, <3>2, <3>3, EmptySeq
  <2> QED
    BY <2>1, <2>2
<1>5. /\ \A k \in DOMAIN a : k <= Len(a)
      /\ DOMAIN a \subseteq Nat \ {0} /\ DOMAIN b \subseteq Nat \ {0}
      /\ (a = <<>> => Len(a) = 0)
  BY <1>1
<1> QED
  BY <1>1, <1>2, <1>3, <1>4, <1>5 DEF Follows

(* Where each element comes from.                                           *)
LEMMA FollowsFrom ==
    ASSUME NEW S, NEW a, NEW b, NEW c, Follows(S, a, b, c), NEW k \in DOMAIN c
    PROVE  \/ k \in DOMAIN a /\ c[k] = a[k]
           \/ \E j \in DOMAIN b : c[k] = b[j]
BY DEF Follows

(* Two lines after nothing.                                                 *)
LEMMA Pair ==
    ASSUME NEW S, NEW x \in S, NEW y \in S
    PROVE  <<>> \o <<x>> \o <<y>> = <<x, y>>
<1>1. <<>> \o <<x>> = <<x>>
  BY EmptySeq, ConcatEmptySeq
<1>2. /\ <<x>> \in Seq(S) /\ <<y>> \in Seq(S) /\ Len(<<x>>) = 1 /\ Len(<<y>>) = 1
  OBVIOUS
<1> DEFINE c == <<x>> \o <<y>>
<1>3. /\ Len(c) = 2 /\ c \in Seq(S)
  BY <1>2
<1>4. c[1] = x /\ c[2] = y
  <2>1. 1 \in 1 .. 2 /\ 1 <= 1 /\ ~(2 <= 1) /\ 2 - 1 = 1 /\ 2 \in 1 .. 2
    OBVIOUS
  <2> QED
    BY <1>2, <2>1, ConcatProperties
<1>5. c = <<x, y>>
  <2> HIDE DEF c
  <2>1. <<x, y>> \in Seq(S) /\ Len(<<x, y>>) = 2 /\ \A i \in 1 .. 2 : <<x, y>>[i] = c[i]
    BY <1>4
  <2> QED
    BY <1>3, <2>1, SeqEqual
<1> QED
  BY <1>1, <1>5

(* The elements of out are elements of the first i of parts, and one that   *)
(* can be only once in them is there only once.                             *)
Made(S, parts, i, out) ==
    /\ out \in Seq(S)
    /\ \A k \in DOMAIN out : \E p \in 1 .. i : \E j \in DOMAIN parts[p] :
          out[k] = parts[p][j] /\ (k = 1 => j = 1)
    /\ \A T \in SUBSET S :
          (\A p, q \in 1 .. i : \A j \in DOMAIN parts[p], l \in DOMAIN parts[q] :
              parts[p][j] \in T /\ parts[q][l] \in T => p = q /\ j = l)
          => \A k, m \in DOMAIN out : out[k] \in T /\ out[m] \in T => k = m

LEMMA MadeOne ==
    ASSUME NEW S, NEW parts, parts[1] \in Seq(S)
    PROVE  Made(S, parts, 1, parts[1])
<1>1. 1 .. 1 = {1}
  OBVIOUS
<1> QED
  BY <1>1 DEF Made

LEMMA MadeNext ==
    ASSUME NEW S, NEW parts, NEW i \in Nat, NEW out, Made(S, parts, i, out),
           NEW all, Follows(S, out, parts[i + 1], all)
    PROVE  Made(S, parts, i + 1, all)
<1> DEFINE next == parts[i + 1]
<1>1. /\ Len(out) \in Nat /\ DOMAIN out \subseteq Nat /\ DOMAIN next \subseteq Nat \ {0}
      /\ out = <<>> => Len(out) = 0
      /\ all \in Seq(S)
  BY DEF Follows
<1>2. 1 .. i + 1 = (1 .. i) \cup {i + 1} /\ i + 1 \notin 1 .. i
  OBVIOUS
<1>4. \A k \in DOMAIN all :
          \/ k \in DOMAIN out /\ all[k] = out[k]
          \/ \E j \in DOMAIN next :
                  k = Len(out) + j /\ all[k] = next[j] /\ (k = 1 => out = <<>>)
  BY DEF Follows
<1>5. ASSUME NEW k \in DOMAIN all
      PROVE  \E p \in 1 .. i + 1 : \E j \in DOMAIN parts[p] :
                all[k] = parts[p][j] /\ (k = 1 => j = 1)
  <2>1. CASE k \in DOMAIN out /\ all[k] = out[k]
    <3>1. PICK p \in 1 .. i : \E j \in DOMAIN parts[p] : out[k] = parts[p][j] /\ (k = 1 => j = 1)
      BY <2>1 DEF Made
    <3> QED
      BY <1>2, <2>1, <3>1
  <2>2. ASSUME NEW j \in DOMAIN next, k = Len(out) + j, all[k] = next[j], k = 1 => out = <<>>
        PROVE  \E p \in 1 .. i + 1 : \E l \in DOMAIN parts[p] :
                  all[k] = parts[p][l] /\ (k = 1 => l = 1)
    <3>1. k = 1 => j = 1
      BY <2>2, <1>1
    <3> QED
      BY <1>2, <2>2, <3>1
  <2> QED
    BY <1>4, <2>1, <2>2
<1>7. ASSUME NEW T \in SUBSET S,
             \A p, q \in 1 .. i + 1 : \A j \in DOMAIN parts[p], l \in DOMAIN parts[q] :
                parts[p][j] \in T /\ parts[q][l] \in T => p = q /\ j = l,
             NEW k \in DOMAIN all, NEW m \in DOMAIN all, all[k] \in T, all[m] \in T
      PROVE  k = m
  <2>1. \A x, y \in DOMAIN out : out[x] \in T /\ out[y] \in T => x = y
    <3>1. \A p, q \in 1 .. i : \A j \in DOMAIN parts[p], l \in DOMAIN parts[q] :
             parts[p][j] \in T /\ parts[q][l] \in T => p = q /\ j = l
      BY <1>2, <1>7
    <3> QED
      BY <3>1 DEF Made
  <2>2. \A x, y \in DOMAIN next : next[x] \in T /\ next[y] \in T => x = y
    BY <1>2, <1>7
  <2>3. ASSUME NEW x \in DOMAIN out, NEW y \in DOMAIN next, out[x] \in T, next[y] \in T PROVE FALSE
    <3>1. PICK p \in 1 .. i : \E j \in DOMAIN parts[p] : out[x] = parts[p][j]
      BY DEF Made
    <3>2. p = i + 1
      BY <1>2, <1>7, <2>3, <3>1
    <3> QED
      BY <1>2, <3>2
  <2>5. CASE k \in DOMAIN out /\ all[k] = out[k]
    BY <1>4, <1>7, <2>1, <2>3, <2>5
  <2>6. ASSUME NEW j \in DOMAIN next, k = Len(out) + j, all[k] = next[j]
        PROVE  k = m
    <3>1. PICK l \in DOMAIN next : m = Len(out) + l /\ all[m] = next[l]
      BY <1>4, <1>7, <2>3, <2>6
    <3>2. j = l
      BY <1>7, <2>2, <2>6, <3>1
    <3> QED
      BY <2>6, <3>1, <3>2
  <2> QED
    BY <1>4, <2>5, <2>6
<1>8. \A k \in DOMAIN all : \E p \in 1 .. i + 1 : \E j \in DOMAIN parts[p] :
          all[k] = parts[p][j] /\ (k = 1 => j = 1)
  BY <1>5
<1>9. \A T \in SUBSET S :
          (\A p, q \in 1 .. i + 1 : \A j \in DOMAIN parts[p], l \in DOMAIN parts[q] :
              parts[p][j] \in T /\ parts[q][l] \in T => p = q /\ j = l)
          => \A k, m \in DOMAIN all : all[k] \in T /\ all[m] \in T => k = m
  BY <1>7
<1> QED
  BY <1>1, <1>8, <1>9 DEF Made

(* The function FlattenSeq chooses there is, and what it makes of i parts.  *)
LEMMA FlattenExists ==
    ASSUME NEW parts, NEW n \in Nat \ {0}
    PROVE  \E f : f = [i \in 1 .. n |-> IF i = 1 THEN parts[i] ELSE f[i - 1] \o parts[i]]
<1> DEFINE Missing == {m \in Nat \ {0} :
             ~ \E f : f = [i \in 1 .. m |-> IF i = 1 THEN parts[i] ELSE f[i - 1] \o parts[i]]}
<1>1. SUFFICES ASSUME Missing # {} PROVE FALSE
  OBVIOUS
<1>2. PICK least \in Missing : \A m \in Missing : least <= m
  <2>1. Missing \subseteq Nat
    OBVIOUS
  <2> QED
    BY <1>1, <2>1, LeastNumber
<1>3. CASE least = 1
  <2> DEFINE g == [i \in 1 .. 1 |-> parts[i]]
  <2>1. g = [i \in 1 .. 1 |-> IF i = 1 THEN parts[i] ELSE g[i - 1] \o parts[i]]
    OBVIOUS
  <2> HIDE DEF g
  <2> QED
    BY <1>2, <1>3, <2>1
<1>4. CASE least # 1
  <2>0. least \in Nat \ {0}
    OBVIOUS
  <2>1. least - 1 \in Nat \ {0} /\ least - 1 \notin Missing
    <3>1. least \in Nat \ {0}
      OBVIOUS
    <3> HIDE DEF Missing
    <3>2. least - 1 \in Nat \ {0} /\ ~(least <= least - 1)
      BY <1>4, <3>1
    <3> QED
      BY <1>2, <3>2
  <2>2. PICK h : h = [i \in 1 .. least - 1 |->
                        IF i = 1 THEN parts[i] ELSE h[i - 1] \o parts[i]]
    BY <2>1
  <2> DEFINE g == [i \in 1 .. least |-> IF i = least THEN h[least - 1] \o parts[least] ELSE h[i]]
  <2>3. ASSUME NEW i \in 1 .. least
        PROVE  g[i] = IF i = 1 THEN parts[i] ELSE g[i - 1] \o parts[i]
    <3>1. CASE i = least
      <4>1. least - 1 \in 1 .. least /\ least - 1 # least /\ g[least - 1] = h[least - 1]
        BY <1>4, <2>0
      <4> QED
        BY <1>4, <3>1, <4>1
    <3>2. CASE i # least
      <4>1. i \in 1 .. least - 1 /\ g[i] = h[i] /\ (i # 1 => g[i - 1] = h[i - 1])
        BY <1>2, <3>2
      <4>2. h[i] = IF i = 1 THEN parts[i] ELSE h[i - 1] \o parts[i]
        BY <2>2, <4>1
      <4> QED
        BY <4>1, <4>2
    <3> QED
      BY <3>1, <3>2
  <2>4. g = [i \in 1 .. least |-> g[i]]
    OBVIOUS
  <2> HIDE DEF g
  <2>5. g = [i \in 1 .. least |-> IF i = 1 THEN parts[i] ELSE g[i - 1] \o parts[i]]
    BY <2>3, <2>4
  <2> QED
    BY <1>2, <2>5
<1> QED
  BY <1>3, <1>4

LEMMA FlattenIs ==
    ASSUME NEW S, NEW parts \in Seq(Seq(S)), parts # <<>>
    PROVE  FlattenSeq(parts) =
              (CHOOSE f : f = [i \in 1 .. Len(parts) |->
                                  IF i = 1 THEN parts[i] ELSE f[i - 1] \o parts[i]])[Len(parts)]
<1>1. Len(parts) # 0
  BY EmptySeq
<1> QED
  BY <1>1 DEF FlattenSeq

LEMMA FlattenMade ==
    ASSUME NEW S, NEW parts \in Seq(Seq(S)), parts # <<>>
    PROVE  Made(S, parts, Len(parts), FlattenSeq(parts))
<1> DEFINE f == CHOOSE f : f = [i \in 1 .. Len(parts) |->
                                  IF i = 1 THEN parts[i] ELSE f[i - 1] \o parts[i]]
<1>1. /\ Len(parts) \in Nat \ {0}
      /\ \A i \in 1 .. Len(parts) : parts[i] \in Seq(S)
  BY EmptySeq
<1>2. FlattenSeq(parts) = f[Len(parts)]
  BY FlattenIs
<1>3. f = [i \in 1 .. Len(parts) |-> IF i = 1 THEN parts[i] ELSE f[i - 1] \o parts[i]]
  <2>1. \E g : g = [i \in 1 .. Len(parts) |-> IF i = 1 THEN parts[i] ELSE g[i - 1] \o parts[i]]
    BY <1>1, FlattenExists
  <2> QED
    BY <2>1, Zenon
<1> HIDE DEF f
<1>4. \A i \in 1 .. Len(parts) : f[i] = IF i = 1 THEN parts[i] ELSE f[i - 1] \o parts[i]
  BY <1>3
<1> DEFINE Missing == {i \in 1 .. Len(parts) : ~Made(S, parts, i, f[i])}
<1>5. ASSUME Missing # {} PROVE FALSE
  <2>1. PICK least \in Missing : \A m \in Missing : least <= m
    <3>1. Missing \subseteq Nat
      BY <1>1
    <3> QED
      BY <1>5, <3>1, LeastNumber
  <2>2. least \in 1 .. Len(parts) /\ ~Made(S, parts, least, f[least])
    BY <2>1
  <2>3. CASE least = 1
    BY <1>1, <1>4, <2>2, <2>3, MadeOne
  <2>4. CASE least # 1
    <3>1. least - 1 \in 1 .. Len(parts) /\ least - 1 \in Nat /\ least - 1 + 1 = least
          /\ ~(least <= least - 1)
      BY <1>1, <2>2, <2>4
    <3>2. Made(S, parts, least - 1, f[least - 1])
      BY <2>1, <3>1
    <3>3. f[least] = f[least - 1] \o parts[least] /\ parts[least] \in Seq(S)
      BY <1>1, <1>4, <2>2, <2>4
    <3>4. f[least - 1] \in Seq(S)
      BY <3>2 DEF Made
    <3>5. Follows(S, f[least - 1], parts[least], f[least])
      BY <3>3, <3>4, ConcatFollows
    <3>6. Made(S, parts, least - 1 + 1, f[least])
      BY <3>1, <3>2, <3>5, MadeNext
    <3> QED
      BY <2>2, <3>1, <3>6
  <2> QED
    BY <2>3, <2>4
<1>6. Len(parts) \in 1 .. Len(parts)
  BY <1>1
<1> QED
  BY <1>2, <1>5, <1>6

-----------------------------------------------------------------------------
(* What holds on any number of fetch threads. *)

FetchType == [pc : FetchPoints, msg : 0 .. MaxMessages, day : Days, format : Settings]
StreamType == [name : Names, buffer : Seq(Lines), open : BOOLEAN]
CountType == [messages : 0 .. MaxMessages, disconnects : Nat, runs : Nat]

(* Where parseMessage has found that there is something to write, and where *)
(* it has found that there is a stream.                                     *)
Writing == {"open", "peek", "bom", "header", "check", "write", "flush"}
Using == {"peek", "bom", "header", "write", "flush"}

(* Where the message that a thread is at can be.                            *)
Sound(f) ==
    /\ fetch[f].pc # "idle" => fetch[f].msg \in 1 .. count.messages
    /\ fetch[f].pc \in Writing => fetch[f].format # "off"
    /\ fetch[f].pc \in Using /\ m_pFile = NULL => fetch[f].msg \in interrupted

(* Every message so far has its format noted.                               *)
Counted ==
    /\ count \in CountType
    /\ exported \in Seq(Settings) /\ Len(exported) = count.messages

(* disconnect() holds a stream that is open until it has closed it, and     *)
(* until it forgets it every message has been interrupted.                  *)
Closing ==
    /\ win = "close" => m_pFile # NULL
    /\ m_pFile # NULL /\ win # "forget" => streams[m_pFile].open
    /\ win = "forget" => \A f \in Fetchers : fetch[f].pc # "idle" => fetch[f].msg \in interrupted

(* The inductive invariant of any number of fetch threads.                  *)
Shape ==
    /\ HistoryTypeOK
    /\ Counted
    /\ \A f \in Fetchers : Sound(f)
    /\ Closing
    /\ ReopensAfterDisconnect

LEMMA Types ==
    ASSUME HistoryTypeOK
    PROVE  /\ m_pFile \in {NULL} \cup DOMAIN streams
           /\ m_tRecent \in Days /\ m_exportSetting \in Formats \cup {""}
           /\ fetch \in [Fetchers -> FetchType]
           /\ win \in {"idle", "close", "forget"}
           /\ streams \in Seq(StreamType) /\ files \in [Names -> Seq(Lines)]
           /\ undefined \in BOOLEAN
           /\ interrupted \subseteq Messages /\ killed \subseteq Messages
BY DEF HistoryTypeOK, FetchType, StreamType

(* A step of one fetch thread from point to point.                          *)
Moves(f, p) ==
    /\ fetch' \in [Fetchers -> FetchType]
    /\ fetch'[f].pc = p
    /\ \A g \in Fetchers :
          /\ fetch'[g].msg = fetch[g].msg
          /\ fetch'[g].day = fetch[g].day
          /\ fetch'[g].format = fetch[g].format
          /\ g # f => fetch'[g].pc = fetch[g].pc

LEMMA GoMoves ==
    ASSUME HistoryTypeOK, NEW f \in Fetchers, NEW p \in FetchPoints, Go(f, p)
    PROVE  Moves(f, p)
<1>1. fetch \in [Fetchers -> FetchType]
  BY Types
<1>2. fetch' = [fetch EXCEPT ![f] = [fetch[f] EXCEPT !.pc = p]]
  BY DEF Go
<1>3. /\ [fetch[f] EXCEPT !.pc = p] \in FetchType
      /\ [fetch[f] EXCEPT !.pc = p].pc = p
      /\ [fetch[f] EXCEPT !.pc = p].msg = fetch[f].msg
      /\ [fetch[f] EXCEPT !.pc = p].day = fetch[f].day
      /\ [fetch[f] EXCEPT !.pc = p].format = fetch[f].format
  BY <1>1 DEF FetchType
<1> HIDE DEF FetchType
<1> QED
  BY <1>1, <1>2, <1>3 DEF Moves

(* Shape is inductive: it holds to begin with.                              *)
LEMMA ShapeInit == Init => Shape
<1> SUFFICES ASSUME Init PROVE Shape
  OBVIOUS
<1>1. Days # {} /\ SomeDay \in Days
  <2>1. PICK t \in Times, z \in Zones : TRUE
    BY HistoryBounds
  <2>2. Day(t, offset(z)) \in Days
    BY DEF Days
  <2> QED
    BY <2>2 DEF SomeDay
<1>2. MaxMessages \in Nat
  BY HistoryBounds
<1>3. fetch = [f \in Fetchers |-> [pc |-> "idle", msg |-> 0, day |-> SomeDay, format |-> "off"]]
  BY DEF Init, Resting
<1>4. /\ fetch \in [Fetchers -> FetchType]
      /\ \A f \in Fetchers : fetch[f].pc = "idle"
  BY <1>1, <1>2, <1>3 DEF FetchType, FetchPoints, Settings, Formats
<1>5. /\ streams \in Seq(StreamType)
      /\ files \in [Names -> Seq(Lines)]
      /\ exported \in Seq(Settings) /\ Len(exported) = 0
  <2>1. \A A : <<>> \in Seq(A)
    OBVIOUS
  <2>2. Len(<<>>) = 0
    OBVIOUS
  <2>3. streams = <<>> /\ exported = <<>> /\ files = [name \in Names |-> <<>>]
    BY DEF Init
  <2>4. files \in [Names -> Seq(Lines)]
    <3> HIDE DEF Names, Lines
    <3> QED
      BY <2>1, <2>3
  <2> QED
    BY <2>1, <2>2, <2>3, <2>4
<1>6. HistoryTypeOK
  <2> HIDE DEF Names, Lines, Days
  <2> QED
    BY <1>1, <1>4, <1>5 DEF Init, HistoryTypeOK, FetchType, StreamType, history
<1>7. Counted
  <2>1. count \in CountType /\ count.messages = 0
    <3>1. count = [messages |-> 0, disconnects |-> 0, runs |-> 1]
      BY DEF Init
    <3>2. 0 \in 0 .. MaxMessages /\ 0 \in Nat /\ 1 \in Nat
      BY <1>2
    <3> QED
      BY <3>1, <3>2 DEF CountType
  <2> QED
    BY <1>5, <2>1 DEF Counted
<1> QED
  BY <1>4, <1>6, <1>7 DEF Init, Shape, Sound, Closing, ReopensAfterDisconnect, Writing, Using

(* A step of parseMessage from point to point.                              *)
LEMMA ShapeMoves ==
    ASSUME Shape, NEW f \in Fetchers, fetch[f].pc # "idle", ~undefined,
           NEW p \in FetchPoints, Moves(f, p),
           p \in Writing => fetch[f].format # "off",
           p \in Using => m_pFile' # NULL \/ fetch[f].msg \in interrupted,
           UNCHANGED <<undefined, win, count, exported, interrupted, killed>>,
           m_tRecent' \in Days, m_exportSetting' \in Formats \cup {""},
           streams' \in Seq(StreamType), files' \in [Names -> Seq(Lines)],
           m_pFile' \in {NULL} \cup DOMAIN streams',
           m_pFile' = m_pFile \/ m_pFile' # NULL,
           m_pFile' # NULL /\ win # "forget" => streams'[m_pFile'].open
    PROVE  Shape'
<1>1. HistoryTypeOK'
  <2> HIDE DEF Names, Lines, Days
  <2> QED
    BY Types DEF Shape, HistoryTypeOK, Moves, FetchType, StreamType
<1>2. Counted'
  BY DEF Shape, Counted
<1>3. ASSUME NEW g \in Fetchers PROVE Sound(g)'
  <2>1. CASE g = f
    BY <2>1 DEF Shape, Sound, Moves
  <2>2. CASE g # f
    BY <2>2 DEF Shape, Sound, Moves
  <2> QED
    BY <2>1, <2>2
<1>4. Closing'
  BY DEF Shape, Closing, Moves
<1>5. ReopensAfterDisconnect'
  BY DEF ReopensAfterDisconnect
<1> QED
  BY <1>1, <1>2, <1>3, <1>4, <1>5 DEF Shape

(* A stream that is not open is used.                                       *)
LEMMA ShapeLost ==
    ASSUME Shape, NEW f \in Fetchers, fetch[f].pc \in Using, ~Open(m_pFile), Lost(f),
           UNCHANGED <<m_pFile, fileVars, otherVars>>
    PROVE  Shape'
<1>1. fetch[f].pc # "idle"
  BY DEF Using
<1>2. fetch[f].msg \in interrupted
  <2>1. CASE m_pFile = NULL
    BY <2>1 DEF Shape, Sound
  <2>2. CASE m_pFile # NULL
    BY <1>1, <2>2 DEF Shape, Closing, Open
  <2> QED
    BY <2>1, <2>2
<1>3. /\ UNCHANGED <<m_pFile, m_tRecent, m_exportSetting, fetch, streams, files, win>>
      /\ UNCHANGED <<now, count, exported, interrupted, killed>> /\ undefined' = TRUE
  BY DEF Lost, fileVars, otherVars, history
<1>4. HistoryTypeOK'
  <2> HIDE DEF Names, Lines, Days
  <2> QED
    BY <1>3 DEF Shape, HistoryTypeOK
<1>5. Counted' /\ Closing' /\ \A g \in Fetchers : Sound(g)'
  BY <1>3 DEF Shape, Counted, Closing, Sound
<1>6. ReopensAfterDisconnect'
  BY <1>1, <1>2, <1>3 DEF ReopensAfterDisconnect
<1> QED
  BY <1>4, <1>5, <1>6 DEF Shape

-----------------------------------------------------------------------------
(* What becomes of the streams. *)

(* One stream becomes r.                                                    *)
Becomes(s, r) ==
    /\ streams' \in Seq(StreamType) /\ DOMAIN streams' = DOMAIN streams
    /\ streams'[s] = r
    /\ \A t \in DOMAIN streams : t # s => streams'[t] = streams[t]

LEMMA StreamBecomes ==
    ASSUME streams \in Seq(StreamType), NEW s \in DOMAIN streams, NEW r \in StreamType,
           streams' = [streams EXCEPT ![s] = r]
    PROVE  Becomes(s, r)
<1> HIDE DEF StreamType
<1> QED
  BY DEF Becomes

LEMMA StreamAdded ==
    ASSUME streams \in Seq(StreamType), NEW r \in StreamType, streams' = Append(streams, r)
    PROVE  /\ streams' \in Seq(StreamType)
           /\ Len(streams') \in Nat \ {0} /\ Len(streams') \notin DOMAIN streams
           /\ DOMAIN streams' = DOMAIN streams \cup {Len(streams')}
           /\ streams'[Len(streams')] = r
           /\ \A s \in DOMAIN streams : streams'[s] = streams[s]
<1> HIDE DEF StreamType
<1>1. Len(streams) \in Nat /\ DOMAIN streams = 1 .. Len(streams)
  OBVIOUS
<1>2. streams' \in Seq(StreamType) /\ Len(streams') = Len(streams) + 1
  OBVIOUS
<1>3. DOMAIN streams' = 1 .. Len(streams')
  BY <1>2
<1>4. /\ streams'[Len(streams')] = r
      /\ \A s \in DOMAIN streams : streams'[s] = streams[s]
  BY <1>1, <1>2
<1> QED
  BY <1>1, <1>2, <1>3, <1>4

(* A stream with another buffer.                                            *)
Holding(s, buffer) == [streams[s] EXCEPT !.buffer = buffer]

LEMMA HoldingIs ==
    ASSUME streams \in Seq(StreamType), NEW s \in DOMAIN streams, NEW buffer \in Seq(Lines)
    PROVE  /\ Holding(s, buffer) \in StreamType
           /\ Holding(s, buffer).name = streams[s].name
           /\ Holding(s, buffer).open = streams[s].open
           /\ Holding(s, buffer).buffer = buffer
<1> HIDE DEF Lines, Names
<1>1. streams[s] \in StreamType
  OBVIOUS
<1> QED
  BY <1>1 DEF Holding, StreamType

(* fwrite.                                                                  *)
LEMMA fwriteAppends ==
    ASSUME HistoryTypeOK, m_pFile # NULL, NEW line \in Lines, fwrite(line)
    PROVE  /\ m_pFile \in DOMAIN streams /\ streams[m_pFile].buffer \in Seq(Lines)
           /\ Append(streams[m_pFile].buffer, line) \in Seq(Lines)
           /\ Becomes(m_pFile, Holding(m_pFile, Append(streams[m_pFile].buffer, line)))
           /\ UNCHANGED <<files, undefined>>
<1> HIDE DEF Lines, Names
<1>1. streams \in Seq(StreamType) /\ m_pFile \in DOMAIN streams
  BY Types
<1>2. streams[m_pFile].buffer \in Seq(Lines)
  <2>1. streams[m_pFile] \in StreamType
    <3> HIDE DEF StreamType
    <3> QED
      BY <1>1
  <2> QED
    BY <2>1 DEF StreamType
<1> DEFINE buffer == Append(streams[m_pFile].buffer, line)
<1>3. buffer \in Seq(Lines)
  BY <1>2
<1>4. streams' = [streams EXCEPT ![m_pFile] = Holding(m_pFile, buffer)]
  BY DEF fwrite, Holding
<1>5. Holding(m_pFile, buffer) \in StreamType
  BY <1>1, <1>3, HoldingIs
<1>6. Becomes(m_pFile, Holding(m_pFile, buffer))
  BY <1>1, <1>4, <1>5, StreamBecomes
<1> QED
  BY <1>1, <1>2, <1>3, <1>6 DEF fwrite

(* The file a stream is open on.                                            *)
LEMMA StreamHas ==
    ASSUME streams \in Seq(StreamType), NEW s \in DOMAIN streams
    PROVE  /\ streams[s] \in StreamType
           /\ streams[s].name \in Names /\ streams[s].buffer \in Seq(Lines)
<1> HIDE DEF Lines, Names
<1>1. streams[s] \in StreamType
  <2> HIDE DEF StreamType
  <2> QED
    OBVIOUS
<1> QED
  BY <1>1 DEF StreamType

LEMMA NoLines == <<>> \in Seq(Lines)
<1> HIDE DEF Lines
<1> QED
  OBVIOUS

(* What a file gets, and the others do not.                                 *)
Gets(name, new) ==
    /\ files' \in [Names -> Seq(Lines)]
    /\ files'[name] = new
    /\ \A other \in Names : other # name => files'[other] = files[other]

LEMMA FileGets ==
    ASSUME files \in [Names -> Seq(Lines)], NEW name \in Names, NEW new \in Seq(Lines),
           files' = [files EXCEPT ![name] = new]
    PROVE  Gets(name, new)
<1> HIDE DEF Lines, Names
<1> QED
  BY DEF Gets

(* fflush.                                                                  *)
LEMMA fflushWrites ==
    ASSUME HistoryTypeOK, m_pFile # NULL, NEW line \in Seq(Lines), fflush(line)
    PROVE  /\ m_pFile \in DOMAIN streams /\ streams[m_pFile].name \in Names
           /\ streams[m_pFile].buffer \in Seq(Lines)
           /\ Becomes(m_pFile, Holding(m_pFile, <<>>))
           /\ Gets(streams[m_pFile].name,
                   files[streams[m_pFile].name] \o streams[m_pFile].buffer \o line)
           /\ UNCHANGED undefined
<1> HIDE DEF Lines, Names
<1>1. streams \in Seq(StreamType) /\ m_pFile \in DOMAIN streams /\ files \in [Names -> Seq(Lines)]
  BY Types
<1> DEFINE name == streams[m_pFile].name
           buffer == streams[m_pFile].buffer
<1>2. name \in Names /\ buffer \in Seq(Lines)
  BY <1>1, StreamHas
<1>3. Becomes(m_pFile, Holding(m_pFile, <<>>))
  <2>1. streams' = [streams EXCEPT ![m_pFile] = Holding(m_pFile, <<>>)]
    BY DEF fflush, Holding
  <2>2. Holding(m_pFile, <<>>) \in StreamType
    BY <1>1, NoLines, HoldingIs
  <2> QED
    BY <1>1, <2>1, <2>2, StreamBecomes
<1>4. Gets(name, files[name] \o buffer \o line)
  <2>1. files' = [files EXCEPT ![name] = files[name] \o buffer \o line]
    BY DEF fflush
  <2>2. files[name] \in Seq(Lines)
    BY <1>1, <1>2
  <2> HIDE DEF buffer
  <2>3. files[name] \o buffer \o line \in Seq(Lines)
    BY <1>2, <2>2
  <2> QED
    BY <1>1, <1>2, <2>1, <2>3, FileGets
<1> QED
  BY <1>1, <1>2, <1>3, <1>4 DEF fflush

(* fclose.                                                                  *)
Closed(s) == [name |-> streams[s].name, buffer |-> <<>>, open |-> FALSE]

LEMMA CloseWrites ==
    ASSUME HistoryTypeOK, m_pFile # NULL, CloseFile
    PROVE  /\ m_pFile \in DOMAIN streams /\ streams[m_pFile].name \in Names
           /\ streams[m_pFile].buffer \in Seq(Lines)
           /\ Becomes(m_pFile, Closed(m_pFile))
           /\ Gets(streams[m_pFile].name, files[streams[m_pFile].name] \o streams[m_pFile].buffer)
<1> HIDE DEF Lines, Names
<1>1. streams \in Seq(StreamType) /\ m_pFile \in DOMAIN streams /\ files \in [Names -> Seq(Lines)]
  BY Types
<1> DEFINE name == streams[m_pFile].name
           buffer == streams[m_pFile].buffer
<1>2. name \in Names /\ buffer \in Seq(Lines) /\ streams[m_pFile] \in StreamType
  BY <1>1, StreamHas
<1>3. Becomes(m_pFile, Closed(m_pFile))
  <2> DEFINE shut == [streams[m_pFile] EXCEPT !.open = FALSE]
             two == [streams EXCEPT ![m_pFile] = shut]
  <2>0. shut \in StreamType /\ shut.name = streams[m_pFile].name /\ shut.open = FALSE
    BY <1>2 DEF StreamType
  <2>1. /\ [shut EXCEPT !.buffer = <<>>] = Closed(m_pFile)
        /\ Closed(m_pFile) \in StreamType
    <3> HIDE DEF shut
    <3>1. [shut EXCEPT !.buffer = <<>>] = [name |-> shut.name, buffer |-> <<>>, open |-> shut.open]
      BY <2>0 DEF StreamType
    <3> QED
      BY <1>2, <2>0, <3>1, NoLines DEF StreamType, Closed
  <2>2. streams' = [two EXCEPT ![m_pFile] = [two[m_pFile] EXCEPT !.buffer = <<>>]]
    BY DEF CloseFile
  <2>3. two[m_pFile] = shut
    BY <1>1
  <2> HIDE DEF shut
  <2>4. streams' = [streams EXCEPT ![m_pFile] = Closed(m_pFile)]
    <3> HIDE DEF Closed
    <3> QED
      BY <1>1, <2>1, <2>2, <2>3
  <2> QED
    BY <1>1, <2>1, <2>4, StreamBecomes
<1>4. Gets(name, files[name] \o buffer)
  <2>1. files' = [files EXCEPT ![name] = files[name] \o buffer]
    BY DEF CloseFile
  <2>2. files[name] \in Seq(Lines)
    BY <1>1, <1>2
  <2> HIDE DEF buffer
  <2>3. files[name] \o buffer \in Seq(Lines)
    BY <1>2, <2>2
  <2> QED
    BY <1>1, <1>2, <2>1, <2>3, FileGets
<1> QED
  BY <1>1, <1>2, <1>3, <1>4

(* What all buffers together add to a file: lines of open streams on it,    *)
(* and a line that one buffer holds once is added once.                     *)
Buffered(name, out) ==
    /\ \A k \in DOMAIN out : \E s \in DOMAIN streams :
          /\ streams[s].open /\ streams[s].name = name
          /\ \E j \in DOMAIN streams[s].buffer :
                out[k] = streams[s].buffer[j] /\ (k = 1 => j = 1)
    /\ \A T \in SUBSET Lines :
          (\A s, t \in DOMAIN streams :
             \A j \in DOMAIN streams[s].buffer, l \in DOMAIN streams[t].buffer :
                streams[s].buffer[j] \in T /\ streams[t].buffer[l] \in T => s = t /\ j = l)
          => \A k, m \in DOMAIN out : out[k] \in T /\ out[m] \in T => k = m

LEMMA FlushedLines ==
    ASSUME HistoryTypeOK, NEW name \in Names
    PROVE  \E out \in Seq(Lines) :
              Follows(Lines, files[name], out, Flushed[name]) /\ Buffered(name, out)
<1> HIDE DEF Lines, Names
<1>1. streams \in Seq(StreamType) /\ files[name] \in Seq(Lines)
  BY Types
<1> DEFINE part(s) == IF streams[s].name = name /\ streams[s].open
                      THEN streams[s].buffer ELSE <<>>
           parts == [s \in DOMAIN streams |-> part(s)]
           out == FlattenSeq(parts)
<1>2. Flushed[name] = files[name] \o out
  BY DEF Flushed
<1>3. /\ Len(streams) \in Nat /\ DOMAIN streams = 1 .. Len(streams)
      /\ (Len(streams) = 0 => streams = <<>>)
  <2> HIDE DEF StreamType
  <2> QED
    BY <1>1, EmptySeq
<1>4. \A s \in DOMAIN streams : parts[s] = part(s) /\ part(s) \in Seq(Lines)
  BY <1>1, StreamHas, NoLines
<1>5. parts \in Seq(Seq(Lines)) /\ Len(parts) = Len(streams)
  BY <1>3, <1>4
<1>6. CASE parts = <<>>
  <2>1. out = <<>>
    <3>1. out = FlattenSeq(<<>>)
      BY <1>6
    <3> HIDE DEF out
    <3> QED
      BY <3>1 DEF FlattenSeq
  <2> HIDE DEF out, parts
  <2>2. Follows(Lines, files[name], out, Flushed[name])
    BY <1>1, <1>2, <2>1, NoLines, ConcatFollows
  <2>3. DOMAIN out = {}
    BY <2>1
  <2>4. Buffered(name, out)
    BY <2>3 DEF Buffered
  <2> QED
    BY <2>1, <2>2, <2>4, NoLines
<1>7. CASE parts # <<>>
  <2>1. Made(Lines, parts, Len(streams), out)
    BY <1>5, <1>7, FlattenMade
  <2> HIDE DEF out
  <2>2. out \in Seq(Lines)
    BY <2>1 DEF Made
  <2>3. Follows(Lines, files[name], out, Flushed[name])
    BY <1>1, <1>2, <2>2, ConcatFollows
  <2>4. \A s \in DOMAIN streams : \A j \in DOMAIN parts[s] :
           /\ streams[s].open /\ streams[s].name = name
           /\ j \in DOMAIN streams[s].buffer /\ parts[s][j] = streams[s].buffer[j]
    BY <1>4
  <2> HIDE DEF parts
  <2>5. \A k \in DOMAIN out : \E s \in DOMAIN streams :
          /\ streams[s].open /\ streams[s].name = name
          /\ \E j \in DOMAIN streams[s].buffer :
                out[k] = streams[s].buffer[j] /\ (k = 1 => j = 1)
    BY <1>3, <2>1, <2>4 DEF Made
  <2>6. ASSUME NEW T \in SUBSET Lines,
               \A s, t \in DOMAIN streams :
                 \A j \in DOMAIN streams[s].buffer, l \in DOMAIN streams[t].buffer :
                    streams[s].buffer[j] \in T /\ streams[t].buffer[l] \in T => s = t /\ j = l
        PROVE  \A k, m \in DOMAIN out : out[k] \in T /\ out[m] \in T => k = m
    <3>1. \A s, t \in 1 .. Len(streams) : \A j \in DOMAIN parts[s], l \in DOMAIN parts[t] :
             parts[s][j] \in T /\ parts[t][l] \in T => s = t /\ j = l
      BY <1>3, <2>4, <2>6
    <3> QED
      BY <2>1, <3>1 DEF Made
  <2> QED
    BY <2>2, <2>3, <2>5, <2>6 DEF Buffered
<1> QED
  BY <1>6, <1>7

(* Writing out all buffers.                                                 *)
LEMMA FlushedType ==
    ASSUME HistoryTypeOK
    PROVE  Flushed \in [Names -> Seq(Lines)]
<1>1. \A name \in Names : Flushed[name] \in Seq(Lines)
  BY FlushedLines DEF Follows
<1>2. Flushed = [name \in Names |-> Flushed[name]]
  BY DEF Flushed
<1> HIDE DEF Names, Lines, Flushed
<1> QED
  BY <1>1, <1>2

LEMMA AllEmptied ==
    ASSUME streams \in Seq(StreamType), streams' = [s \in DOMAIN streams |-> Holding(s, <<>>)]
    PROVE  /\ streams' \in Seq(StreamType) /\ DOMAIN streams' = DOMAIN streams
           /\ \A s \in DOMAIN streams : streams'[s] = Holding(s, <<>>)
<1> HIDE DEF StreamType
<1>1. Len(streams) \in Nat /\ DOMAIN streams = 1 .. Len(streams)
  OBVIOUS
<1>2. \A s \in DOMAIN streams : Holding(s, <<>>) \in StreamType
  BY NoLines, HoldingIs
<1> HIDE DEF Holding
<1> QED
  BY <1>1, <1>2

-----------------------------------------------------------------------------
(* The shape is kept by every step. *)

LEMMA Points ==
    /\ FetchPoints = {"idle", "decide", "open", "peek", "bom", "header", "recent", "save",
                      "check", "write", "flush"}
    /\ Writing = {"open", "peek", "bom", "header", "check", "write", "flush"}
    /\ Using = {"peek", "bom", "header", "write", "flush"}
BY DEF FetchPoints, Writing, Using

LEMMA Unchanged ==
    ASSUME UNCHANGED otherVars
    PROVE  UNCHANGED <<win, now, count, exported, interrupted, killed>>
BY DEF otherVars, history

LEMMA ShapeParse == ASSUME Shape, NEW f \in Fetchers, Parse(f) PROVE Shape'
<1> HIDE DEF Lines, Names
<1>1. /\ HistoryTypeOK /\ Counted /\ Closing /\ ReopensAfterDisconnect
      /\ \A g \in Fetchers : Sound(g)
  BY DEF Shape
<1>2. /\ At(f, "idle") /\ count.messages < MaxMessages
      /\ count' = [count EXCEPT !.messages = count.messages + 1]
      /\ UNCHANGED <<m_pFile, m_tRecent, m_exportSetting, win, streams, files, undefined, killed>>
      /\ interrupted' = IF win = "forget" THEN interrupted \cup {count'.messages} ELSE interrupted
  BY DEF Parse, fileVars
<1>3. /\ count' \in CountType /\ count'.messages = count.messages + 1
      /\ count'.messages \in Messages
      /\ count.messages \in Nat /\ 1 .. count.messages \subseteq 1 .. count'.messages
  <2>1. count \in CountType /\ MaxMessages \in Nat
    BY <1>1, HistoryBounds DEF Counted
  <2> QED
    BY <1>2, <2>1 DEF CountType, Messages
<1>4. PICK time \in Times, zone \in Zones, autoExport \in Settings :
         /\ fetch' = [fetch EXCEPT ![f] = [pc |-> "decide", msg |-> count'.messages,
                                           day |-> Day(time, offset(zone)), format |-> autoExport]]
         /\ exported' = Append(exported, autoExport)
  BY DEF Parse
<1> DEFINE entry == [pc |-> "decide", msg |-> count'.messages,
                     day |-> Day(time, offset(zone)), format |-> autoExport]
<1>5. entry \in FetchType /\ entry.pc = "decide" /\ entry.msg = count'.messages
  <2>1. Day(time, offset(zone)) \in Days
    BY DEF Days
  <2>2. count'.messages \in 0 .. MaxMessages /\ "decide" \in FetchPoints
    BY <1>3, Points DEF CountType
  <2> QED
    BY <2>1, <2>2 DEF FetchType
<1>6. fetch \in [Fetchers -> FetchType]
  BY <1>1, Types
<1> HIDE DEF entry
<1>7. /\ fetch' \in [Fetchers -> FetchType] /\ fetch'[f] = entry
      /\ \A g \in Fetchers : g # f => fetch'[g] = fetch[g]
  <2>1. fetch' = [fetch EXCEPT ![f] = entry]
    BY <1>4 DEF entry
  <2> HIDE DEF FetchType
  <2> QED
    BY <1>5, <1>6, <2>1
<1>8. HistoryTypeOK'
  BY <1>1, <1>2, <1>3, <1>7 DEF HistoryTypeOK, FetchType
<1>9. Counted'
  <2>1. exported' \in Seq(Settings) /\ Len(exported') = Len(exported) + 1
    BY <1>1, <1>4 DEF Counted
  <2> QED
    BY <1>1, <1>3, <2>1 DEF Counted
<1>10. ASSUME NEW g \in Fetchers PROVE Sound(g)'
  <2>1. CASE g = f
    BY <1>3, <1>5, <1>7, <2>1, Points DEF Sound
  <2>2. CASE g # f
    BY <1>1, <1>2, <1>3, <1>7, <2>2 DEF Sound
  <2> QED
    BY <2>1, <2>2
<1>11. Closing'
  <2>1. win = "forget" => \A g \in Fetchers : fetch'[g].pc # "idle" => fetch'[g].msg \in interrupted'
    BY <1>1, <1>2, <1>5, <1>7 DEF Closing
  <2> QED
    BY <1>1, <1>2, <2>1 DEF Closing
<1>12. ReopensAfterDisconnect'
  BY <1>2 DEF ReopensAfterDisconnect, At
<1> QED
  BY <1>8, <1>9, <1>10, <1>11, <1>12 DEF Shape

LEMMA ShapeDecide == ASSUME Shape, NEW f \in Fetchers, Decide(f) PROVE Shape'
<1>1. /\ HistoryTypeOK /\ fetch[f].pc = "decide" /\ ~undefined
      /\ UNCHANGED <<m_pFile, m_tRecent, streams, files, undefined,
                     win, count, exported, interrupted, killed>>
  BY Unchanged DEF Shape, Decide, At
<1>2. fetch[f].format \in Settings
  BY <1>1, Types DEF FetchType
<1>3. CASE createNewFile(f)
  <2>1. m_exportSetting' = fetch[f].format /\ Moves(f, "open") /\ fetch[f].format # "off"
    BY <1>1, <1>3, Points, GoMoves DEF Decide, createNewFile
  <2>2. m_exportSetting' \in Formats \cup {""}
    BY <1>2, <2>1 DEF Settings
  <2> QED
    BY <1>1, <2>1, <2>2, Types, Points, ShapeMoves DEF Shape, Closing
<1>4. CASE ~createNewFile(f)
  <2>1. m_exportSetting' = m_exportSetting /\ Moves(f, "recent")
    BY <1>1, <1>4, Points, GoMoves DEF Decide
  <2> QED
    BY <1>1, <2>1, Types, Points, ShapeMoves DEF Shape, Closing
<1> QED
  BY <1>3, <1>4

LEMMA ShapeOpenFile == ASSUME Shape, NEW f \in Fetchers, OpenFile(f) PROVE Shape'
<1> HIDE DEF Lines
<1>1. /\ HistoryTypeOK /\ fetch[f].pc = "open" /\ ~undefined
      /\ UNCHANGED <<m_tRecent, m_exportSetting, files, undefined,
                     win, count, exported, interrupted, killed>>
      /\ Moves(f, "peek")
  BY Unchanged, Points, GoMoves DEF Shape, OpenFile, At, fileVars
<1>2. fetch[f].format \in Formats /\ fetch[f].day \in Days
  <2>1. fetch[f].format # "off"
    BY <1>1, Points DEF Shape, Sound
  <2> QED
    BY <1>1, <2>1, Types DEF FetchType, Settings
<1> DEFINE stream == [name |-> <<fetch[f].day, fetch[f].format>>, buffer |-> <<>>, open |-> TRUE]
<1>3. stream \in StreamType /\ stream.open
  BY <1>2, NoLines DEF StreamType, Names
<1>4. streams' = Append(streams, stream) /\ m_pFile' = Len(streams')
  BY DEF OpenFile
<1> HIDE DEF stream
<1>5. /\ streams' \in Seq(StreamType) /\ m_pFile' \in DOMAIN streams' /\ m_pFile' # NULL
      /\ streams'[m_pFile'] = stream
  <2>1. streams \in Seq(StreamType)
    BY <1>1, Types
  <2> HIDE DEF StreamType
  <2>2. /\ streams' \in Seq(StreamType)
        /\ Len(streams') \in Nat \ {0}
        /\ DOMAIN streams' = DOMAIN streams \cup {Len(streams')}
        /\ streams'[Len(streams')] = stream
    BY <1>3, <1>4, <2>1, StreamAdded
  <2> QED
    BY <1>4, <2>2 DEF NULL
<1>6. fetch[f].format # "off"
  BY <1>2 DEF Formats
<1> QED
  BY <1>1, <1>3, <1>5, <1>6, Types, Points, ShapeMoves

(* A step that leaves streams and files alone.                              *)
LEMMA ShapeGoes ==
    ASSUME Shape, NEW f \in Fetchers, fetch[f].pc # "idle", ~undefined,
           NEW p \in FetchPoints, Moves(f, p),
           p \in Writing => fetch[f].format # "off",
           p \in Using => m_pFile # NULL \/ fetch[f].msg \in interrupted,
           UNCHANGED <<m_pFile, streams, files, undefined, win, count, exported,
                       interrupted, killed, m_exportSetting>>,
           m_tRecent' \in Days
    PROVE  Shape'
BY Types, ShapeMoves DEF Shape, Closing

LEMMA ShapePeek == ASSUME Shape, NEW f \in Fetchers, Peek(f) PROVE Shape'
<1>1. /\ HistoryTypeOK /\ fetch[f].pc = "peek" /\ ~undefined
      /\ UNCHANGED <<m_pFile, fileVars, otherVars>>
      /\ UNCHANGED <<m_pFile, m_tRecent, m_exportSetting, win, count, exported, interrupted,
                     killed>>
  BY Unchanged DEF Shape, Peek, At, fileVars
<1>2. CASE Open(m_pFile)
  <2>1. UNCHANGED <<streams, files, undefined>> /\ m_pFile # NULL
    BY <1>2 DEF Peek, Open
  <2>2. fetch[f].format # "off"
    BY <1>1, Points DEF Shape, Sound
  <2>3. \E p \in {"bom", "recent"} : Go(f, p)
    BY <1>2 DEF Peek
  <2>4. PICK p \in {"bom", "recent"} : Moves(f, p)
    BY <1>1, <2>3, Points, GoMoves
  <2> QED
    BY <1>1, <2>1, <2>2, <2>4, Types, Points, ShapeGoes
<1>3. CASE ~Open(m_pFile)
  <2>1. Lost(f)
    BY <1>3 DEF Peek
  <2> QED
    BY <1>1, <1>3, <2>1, Points, ShapeLost
<1> QED
  BY <1>2, <1>3

LEMMA BOMIs == BOM \in Lines /\ BOM.msg = 0 /\ BOM.format = "bom"
BY HistoryBounds DEF BOM, Lines

(* A step that writes to the stream m_pFile.                                *)
LEMMA ShapeWrites ==
    ASSUME Shape, NEW f \in Fetchers, fetch[f].pc \in Using, ~undefined, Open(m_pFile),
           NEW p \in FetchPoints, Moves(f, p), NEW buffer \in Seq(Lines),
           Becomes(m_pFile, Holding(m_pFile, buffer)), files' \in [Names -> Seq(Lines)],
           UNCHANGED <<undefined, m_pFile, fileVars, otherVars>>
    PROVE  Shape'
<1> HIDE DEF Lines, Names
<1>1. m_pFile # NULL /\ m_pFile \in DOMAIN streams
  BY Types DEF Shape, Open
<1>2. streams' \in Seq(StreamType) /\ m_pFile' \in {NULL} \cup DOMAIN streams'
  BY <1>1 DEF Becomes
<1>3. streams'[m_pFile'].open
  BY <1>1, Types, HoldingIs DEF Becomes, Shape, Open
<1>4. fetch[f].format # "off" /\ fetch[f].pc # "idle"
  BY Points DEF Shape, Sound
<1> QED
  BY <1>1, <1>2, <1>3, <1>4, Types, Unchanged, Points, ShapeMoves DEF fileVars, Shape

LEMMA ShapeWriteBOM == ASSUME Shape, NEW f \in Fetchers, WriteBOM(f) PROVE Shape'
<1> HIDE DEF Lines, Names
<1>1. /\ HistoryTypeOK /\ fetch[f].pc = "bom" /\ ~undefined /\ fetch[f].pc \in Using
      /\ UNCHANGED <<m_pFile, fileVars, otherVars>>
  BY Points DEF Shape, WriteBOM, At
<1>2. CASE Open(m_pFile)
  <2>1. fwrite(BOM) /\ Moves(f, "header") /\ m_pFile # NULL
    BY <1>1, <1>2, Points, GoMoves DEF WriteBOM, Open
  <2> DEFINE buffer == Append(streams[m_pFile].buffer, BOM)
  <2>2. /\ buffer \in Seq(Lines) /\ Becomes(m_pFile, Holding(m_pFile, buffer))
        /\ UNCHANGED <<files, undefined>>
    BY <1>1, <2>1, BOMIs, fwriteAppends
  <2> HIDE DEF buffer
  <2>3. files' \in [Names -> Seq(Lines)]
    BY <1>1, <2>2, Types
  <2> QED
    BY <1>1, <1>2, <2>1, <2>2, <2>3, Points, ShapeWrites
<1>3. CASE ~Open(m_pFile)
  <2>1. Lost(f)
    BY <1>3 DEF WriteBOM
  <2> QED
    BY <1>1, <1>3, <2>1, ShapeLost
<1> QED
  BY <1>2, <1>3

LEMMA HeaderIs ==
    ASSUME NEW format \in Formats
    PROVE  /\ <<Header(format)>> \in Seq(Lines) /\ Header(format) \in Lines
           /\ Header(format).msg = 0 /\ Header(format).format = format
           /\ Header(format) # BOM
<1>1. /\ Header(format) \in Lines
      /\ Header(format).msg = 0 /\ Header(format).format = format
  BY HistoryBounds DEF Header, Lines
<1>2. Header(format) # BOM
  BY <1>1, BOMIs DEF Formats
<1> HIDE DEF Lines, Header
<1> QED
  BY <1>1, <1>2

LEMMA ShapeWriteHeader == ASSUME Shape, NEW f \in Fetchers, WriteHeader(f) PROVE Shape'
<1> HIDE DEF Lines, Names
<1>1. /\ HistoryTypeOK /\ fetch[f].pc = "header" /\ ~undefined /\ fetch[f].pc \in Using
      /\ UNCHANGED <<m_pFile, fileVars, otherVars>>
      /\ UNCHANGED <<m_pFile, m_tRecent, m_exportSetting, win, count, exported, interrupted,
                     killed>>
  BY Unchanged, Points DEF Shape, WriteHeader, At, fileVars
<1>2. fetch[f].format \in Formats
  <2>1. fetch[f].format # "off"
    BY <1>1, Points DEF Shape, Sound
  <2> QED
    BY <1>1, <2>1, Types DEF FetchType, Settings
<1>3. CASE m_pFile = NULL
  <2>1. UNCHANGED <<streams, files, undefined>> /\ Moves(f, "recent")
    BY <1>1, <1>3, Points, GoMoves DEF WriteHeader
  <2> QED
    BY <1>1, <2>1, Types, Points, ShapeGoes
<1>4. CASE m_pFile # NULL /\ Open(m_pFile)
  <2>1. fflush(<<Header(fetch[f].format)>>) /\ Moves(f, "recent")
    BY <1>1, <1>4, Points, GoMoves DEF WriteHeader
  <2>2. /\ Becomes(m_pFile, Holding(m_pFile, <<>>))
        /\ files' \in [Names -> Seq(Lines)] /\ UNCHANGED undefined
    BY <1>1, <1>2, <1>4, <2>1, HeaderIs, fflushWrites DEF Gets
  <2> QED
    BY <1>1, <1>4, <2>1, <2>2, NoLines, Points, ShapeWrites
<1>5. CASE m_pFile # NULL /\ ~Open(m_pFile)
  <2>1. Lost(f)
    BY <1>5 DEF WriteHeader
  <2> QED
    BY <1>1, <1>5, <2>1, ShapeLost
<1> QED
  BY <1>3, <1>4, <1>5

LEMMA ShapeRecent == ASSUME Shape, NEW f \in Fetchers, Recent(f) PROVE Shape'
<1>1. /\ HistoryTypeOK /\ fetch[f].pc = "recent" /\ ~undefined /\ Moves(f, "save")
      /\ m_tRecent' = fetch[f].day
      /\ UNCHANGED <<m_pFile, m_exportSetting, streams, files, undefined,
                     win, count, exported, interrupted, killed>>
  BY Unchanged, Points, GoMoves DEF Shape, Recent, At
<1>2. fetch[f].day \in Days
  BY <1>1, Types DEF FetchType
<1> QED
  BY <1>1, <1>2, Points, ShapeGoes

LEMMA ShapeSave == ASSUME Shape, NEW f \in Fetchers, Save(f) PROVE Shape'
<1>1. /\ HistoryTypeOK /\ fetch[f].pc = "save" /\ ~undefined
      /\ UNCHANGED <<m_pFile, m_tRecent, m_exportSetting, streams, files, undefined,
                     win, count, exported, interrupted, killed>>
  BY Unchanged DEF Shape, Save, At, fileVars
<1>2. CASE m_pFile # NULL /\ fetch[f].format # "off"
  <2>1. Moves(f, "check")
    BY <1>1, <1>2, Points, GoMoves DEF Save
  <2> QED
    BY <1>1, <1>2, <2>1, Types, Points, ShapeGoes
<1>3. CASE ~(m_pFile # NULL /\ fetch[f].format # "off")
  <2>1. Moves(f, "idle")
    BY <1>1, <1>3, Points, GoMoves DEF Save
  <2> QED
    BY <1>1, <2>1, Types, Points, ShapeGoes
<1> QED
  BY <1>2, <1>3

LEMMA ShapeCheckFile == ASSUME Shape, NEW f \in Fetchers, CheckFile(f) PROVE Shape'
<1>1. /\ HistoryTypeOK /\ fetch[f].pc = "check" /\ ~undefined
      /\ UNCHANGED <<m_pFile, m_tRecent, m_exportSetting, streams, files, undefined,
                     win, count, exported, interrupted, killed>>
      /\ fetch[f].format # "off"
  BY Unchanged, Points DEF Shape, CheckFile, At, fileVars, Sound
<1>2. CASE m_pFile # NULL
  <2>1. Moves(f, "write")
    BY <1>1, <1>2, Points, GoMoves DEF CheckFile
  <2> QED
    BY <1>1, <1>2, <2>1, Types, Points, ShapeGoes
<1>3. CASE m_pFile = NULL
  <2>1. Moves(f, "idle")
    BY <1>1, <1>3, Points, GoMoves DEF CheckFile
  <2> QED
    BY <1>1, <2>1, Types, Points, ShapeGoes
<1> QED
  BY <1>2, <1>3

(* The line of the message that f parses.                                   *)
Row(f) == [msg |-> fetch[f].msg, day |-> fetch[f].day, format |-> fetch[f].format]

LEMMA RowIs ==
    ASSUME HistoryTypeOK, NEW f \in Fetchers, Sound(f), fetch[f].pc \in Writing
    PROVE  /\ Row(f) \in Lines /\ Row(f).msg = fetch[f].msg /\ Row(f).msg \in Messages
           /\ Row(f).format = fetch[f].format /\ fetch[f].format \in Formats
<1>1. fetch[f].format \in Formats
  BY Types DEF FetchType, Settings, Sound
<1>2. fetch[f].msg \in 0 .. MaxMessages /\ fetch[f].day \in Days
  BY Types DEF FetchType
<1>3. fetch[f].msg \in Messages
  BY <1>2, HistoryBounds, Points DEF Sound, Messages
<1> HIDE DEF Days
<1> QED
  BY <1>1, <1>2, <1>3 DEF Row, Lines

LEMMA ShapeWriteRow == ASSUME Shape, NEW f \in Fetchers, WriteRow(f) PROVE Shape'
<1> HIDE DEF Lines, Names
<1>1. /\ HistoryTypeOK /\ Sound(f) /\ fetch[f].pc = "write" /\ ~undefined
      /\ fetch[f].pc \in Using /\ fetch[f].pc \in Writing
      /\ UNCHANGED <<m_pFile, fileVars, otherVars>>
  BY Points DEF Shape, WriteRow, At
<1>2. CASE Open(m_pFile)
  <2>1. fwrite(Row(f)) /\ Moves(f, "flush") /\ m_pFile # NULL
    BY <1>1, <1>2, Points, GoMoves DEF WriteRow, Open, Row
  <2> DEFINE buffer == Append(streams[m_pFile].buffer, Row(f))
  <2>2. /\ buffer \in Seq(Lines) /\ Becomes(m_pFile, Holding(m_pFile, buffer))
        /\ UNCHANGED <<files, undefined>>
    BY <1>1, <2>1, RowIs, fwriteAppends
  <2> HIDE DEF buffer
  <2>3. files' \in [Names -> Seq(Lines)]
    BY <1>1, <2>2, Types
  <2> QED
    BY <1>1, <1>2, <2>1, <2>2, <2>3, Points, ShapeWrites
<1>3. CASE ~Open(m_pFile)
  <2>1. Lost(f)
    BY <1>3 DEF WriteRow
  <2> QED
    BY <1>1, <1>3, <2>1, ShapeLost
<1> QED
  BY <1>2, <1>3

LEMMA ShapeFlush == ASSUME Shape, NEW f \in Fetchers, Flush(f) PROVE Shape'
<1> HIDE DEF Lines, Names
<1>1. /\ HistoryTypeOK /\ fetch[f].pc = "flush" /\ ~undefined /\ fetch[f].pc \in Using
      /\ UNCHANGED <<m_pFile, fileVars, otherVars>>
      /\ UNCHANGED <<m_pFile, m_tRecent, m_exportSetting, win, count, exported, interrupted,
                     killed>>
  BY Unchanged, Points DEF Shape, Flush, At, fileVars
<1>2. CASE m_pFile = NULL
  <2>1. /\ files' = Flushed /\ streams' = [s \in DOMAIN streams |-> Holding(s, <<>>)]
        /\ UNCHANGED undefined /\ Moves(f, "idle")
    BY <1>1, <1>2, Points, GoMoves DEF Flush, Holding
  <2>2. files' \in [Names -> Seq(Lines)]
    BY <1>1, <2>1, FlushedType
  <2>3. streams' \in Seq(StreamType) /\ DOMAIN streams' = DOMAIN streams
    BY <1>1, <2>1, Types, AllEmptied
  <2>4. m_pFile' = NULL
    BY <1>1, <1>2
  <2> HIDE DEF StreamType, Flushed, Holding
  <2> QED
    BY <1>1, <2>1, <2>2, <2>3, <2>4, Types, Points, ShapeMoves
<1>3. CASE m_pFile # NULL /\ Open(m_pFile)
  <2>1. fflush(<<>>) /\ Moves(f, "idle")
    BY <1>1, <1>3, Points, GoMoves DEF Flush
  <2>2. /\ Becomes(m_pFile, Holding(m_pFile, <<>>))
        /\ files' \in [Names -> Seq(Lines)] /\ UNCHANGED undefined
    BY <1>1, <1>3, <2>1, NoLines, fflushWrites DEF Gets
  <2> QED
    BY <1>1, <1>3, <2>1, <2>2, NoLines, Points, ShapeWrites
<1>4. CASE m_pFile # NULL /\ ~Open(m_pFile)
  <2>1. Lost(f)
    BY <1>4 DEF Flush
  <2> QED
    BY <1>1, <1>4, <2>1, ShapeLost
<1> QED
  BY <1>2, <1>3, <1>4

(* Every message that is being parsed is one, and is interrupted with Busy. *)
LEMMA BusyIs ==
    ASSUME Shape
    PROVE  /\ Busy \subseteq Messages
           /\ \A f \in Fetchers : fetch[f].pc # "idle" => fetch[f].msg \in Busy
<1>1. count.messages \in 0 .. MaxMessages
  BY DEF Shape, Counted, CountType
<1>2. \A f \in Fetchers : fetch[f].pc # "idle" => fetch[f].msg \in Messages
  BY <1>1, HistoryBounds DEF Shape, Sound, Messages
<1> QED
  BY <1>2 DEF Busy

(* disconnect() begins, or has nothing to close.                            *)
LEMMA ShapeDisconnect == ASSUME Shape, Disconnect PROVE Shape'
<1>1. /\ ~undefined /\ win = "idle"
      /\ count' = [count EXCEPT !.disconnects = count.disconnects + 1]
      /\ win' = IF m_pFile # NULL THEN "close" ELSE "idle"
      /\ UNCHANGED <<m_pFile, m_tRecent, m_exportSetting, fetch, streams, files, undefined,
                     exported, interrupted, killed>>
  BY DEF Disconnect, fileVars, history
<1>2. HistoryTypeOK'
  <2> HIDE DEF Names, Lines, Days
  <2> QED
    BY <1>1 DEF Shape, HistoryTypeOK
<1>3. Counted' /\ count'.messages = count.messages
  <2>1. count \in CountType
    BY DEF Shape, Counted
  <2>2. count' \in CountType /\ count'.messages = count.messages
    BY <1>1, <2>1 DEF CountType
  <2> QED
    BY <1>1, <2>2 DEF Shape, Counted
<1>4. \A f \in Fetchers : Sound(f)'
  BY <1>1, <1>3 DEF Shape, Sound
<1>5. Closing' /\ ReopensAfterDisconnect'
  BY <1>1 DEF Shape, Closing, ReopensAfterDisconnect
<1> QED
  BY <1>2, <1>3, <1>4, <1>5 DEF Shape

LEMMA ShapeCloseFile == ASSUME Shape, CloseFile PROVE Shape'
<1> HIDE DEF Lines, Names
<1>1. /\ HistoryTypeOK /\ ~undefined /\ win = "close" /\ m_pFile # NULL
      /\ win' = "forget" /\ interrupted' = interrupted \cup Busy
      /\ UNCHANGED <<m_pFile, m_tRecent, m_exportSetting, fetch, undefined,
                     count, exported, killed>>
  BY DEF CloseFile, Shape, Closing, fileVars
<1>2. /\ streams' \in Seq(StreamType) /\ DOMAIN streams' = DOMAIN streams
      /\ files' \in [Names -> Seq(Lines)]
  BY <1>1, CloseWrites DEF Becomes, Gets
<1>3. HistoryTypeOK'
  BY <1>1, <1>2, BusyIs DEF HistoryTypeOK, StreamType
<1>4. Counted' /\ \A f \in Fetchers : Sound(f)'
  BY <1>1 DEF Shape, Counted, Sound
<1>5. Closing' /\ ReopensAfterDisconnect'
  BY <1>1, BusyIs DEF Closing, ReopensAfterDisconnect
<1> QED
  BY <1>3, <1>4, <1>5 DEF Shape

LEMMA ShapeForgetFile == ASSUME Shape, ForgetFile PROVE Shape'
<1> HIDE DEF Lines, Names, Days
<1>1. /\ HistoryTypeOK /\ ~undefined
      /\ win' = "idle" /\ m_pFile' = NULL /\ interrupted' = interrupted \cup Busy
      /\ UNCHANGED <<m_tRecent, m_exportSetting, fetch, streams, files, undefined,
                     count, exported, killed>>
  BY DEF ForgetFile, Shape, fileVars
<1>2. HistoryTypeOK'
  BY <1>1, BusyIs DEF HistoryTypeOK
<1>3. Counted' /\ \A f \in Fetchers : Sound(f)'
  BY <1>1, BusyIs, Points DEF Shape, Counted, Sound
<1>4. Closing' /\ ReopensAfterDisconnect'
  BY <1>1 DEF Closing, ReopensAfterDisconnect
<1> QED
  BY <1>2, <1>3, <1>4 DEF Shape

(* The end of the program and its next start.                               *)
LEMMA ShapeStartAgain ==
    ASSUME Shape, StartAgain, files' \in [Names -> Seq(Lines)],
           interrupted' \subseteq Messages, killed' \subseteq Messages
    PROVE  Shape'
<1> HIDE DEF Lines, Names
<1>1. /\ HistoryTypeOK /\ ~undefined
      /\ count' = [count EXCEPT !.runs = count.runs + 1]
      /\ m_pFile' = NULL /\ m_tRecent' = SomeDay /\ m_exportSetting' = ""
      /\ fetch' = Resting /\ win' = "idle" /\ streams' = <<>>
      /\ UNCHANGED <<undefined, exported>>
  BY DEF StartAgain, Shape
<1>2. SomeDay \in Days
  BY <1>1, Types DEF SomeDay
<1>3. /\ fetch' \in [Fetchers -> FetchType]
      /\ \A f \in Fetchers : fetch'[f].pc = "idle"
  <2>1. 0 \in 0 .. MaxMessages
    BY HistoryBounds
  <2> DEFINE entry == [pc |-> "idle", msg |-> 0, day |-> SomeDay, format |-> "off"]
  <2>2. entry \in FetchType /\ entry.pc = "idle"
    <3>1. "idle" \in FetchPoints /\ "off" \in Settings
      BY Points DEF Settings
    <3> HIDE DEF Days
    <3> QED
      BY <1>2, <2>1, <3>1 DEF FetchType
  <2>3. fetch' = [f \in Fetchers |-> entry]
    BY <1>1 DEF Resting
  <2> HIDE DEF entry, FetchType
  <2> QED
    BY <2>2, <2>3
<1>4. streams' \in Seq(StreamType)
  <2>1. streams' = <<>>
    BY <1>1
  <2>2. \A A : <<>> \in Seq(A)
    OBVIOUS
  <2> QED
    BY <2>1, <2>2
<1>5. HistoryTypeOK'
  <2>1. /\ m_pFile' = NULL /\ m_tRecent' \in Days /\ m_exportSetting' = ""
        /\ win' = "idle" /\ undefined' \in BOOLEAN
    BY <1>1, <1>2, Types
  <2>2. /\ m_pFile' \in {NULL} \cup DOMAIN streams' /\ m_exportSetting' \in Formats \cup {""}
        /\ win' \in {"idle", "close", "forget"}
    BY <2>1
  <2>3. fetch' \in [Fetchers -> [pc : FetchPoints, msg : 0 .. MaxMessages, day : Days, format : Settings]]
    BY <1>3 DEF FetchType
  <2>4. streams' \in Seq([name : Names, buffer : Seq(Lines), open : BOOLEAN])
    BY <1>4 DEF StreamType
  <2> HIDE DEF Days
  <2> QED
    BY <2>1, <2>2, <2>3, <2>4 DEF HistoryTypeOK
<1>6. Counted'
  <2>1. count \in CountType
    BY DEF Shape, Counted
  <2>2. count' = [count EXCEPT !.runs = count.runs + 1] /\ exported' = exported
    BY <1>1
  <2>3. count' \in CountType /\ count'.messages = count.messages
    BY <2>1, <2>2 DEF CountType
  <2> QED
    BY <2>2, <2>3 DEF Shape, Counted
<1>7. \A f \in Fetchers : Sound(f)'
  BY <1>3, Points DEF Sound
<1>8. Closing' /\ ReopensAfterDisconnect'
  BY <1>1 DEF Closing, ReopensAfterDisconnect
<1> QED
  BY <1>5, <1>6, <1>7, <1>8 DEF Shape

LEMMA ShapeCrash == ASSUME Shape, Crash PROVE Shape'
<1>1. /\ StartAgain /\ killed' = killed \cup Busy /\ UNCHANGED <<files, interrupted>>
  BY DEF Crash
<1>2. /\ files' \in [Names -> Seq(Lines)]
      /\ interrupted' \subseteq Messages /\ killed' \subseteq Messages
  <2> HIDE DEF Names, Lines, Messages
  <2> QED
    BY <1>1, Types, BusyIs DEF Shape
<1> QED
  BY <1>1, <1>2, ShapeStartAgain

LEMMA ShapeExit == ASSUME Shape, Exit PROVE Shape'
<1>1. /\ StartAgain /\ files' = Flushed
      /\ interrupted' = interrupted \cup Busy /\ UNCHANGED killed
  BY DEF Exit
<1>2. /\ files' \in [Names -> Seq(Lines)]
      /\ interrupted' \subseteq Messages /\ killed' \subseteq Messages
  <2> HIDE DEF Names, Lines, Messages
  <2> QED
    BY <1>1, Types, BusyIs, FlushedType DEF Shape
<1> QED
  BY <1>1, <1>2, ShapeStartAgain

(* Every step keeps Shape.                                                  *)
LEMMA ShapeNext == Shape /\ [Next]_vars => Shape'
<1> SUFFICES ASSUME Shape, [Next]_vars PROVE Shape'
  OBVIOUS
<1>1. ASSUME NEW f \in Fetchers, parseMessage(f) PROVE Shape'
  BY <1>1, ShapeParse, ShapeDecide, ShapeOpenFile, ShapePeek, ShapeWriteBOM, ShapeWriteHeader,
     ShapeRecent, ShapeSave, ShapeCheckFile, ShapeWriteRow, ShapeFlush DEF parseMessage
<1>2. ASSUME NEW f \in Fetchers, OpenFails(f) PROVE Shape'
  BY <1>2, ShapeCrash DEF OpenFails
<1>3. CASE UNCHANGED vars
  <2>1. /\ UNCHANGED <<m_pFile, m_tRecent, m_exportSetting, fetch, win, streams, files, undefined>>
        /\ UNCHANGED <<count, exported, interrupted, killed>>
    BY <1>3 DEF vars, history
  <2>2. HistoryTypeOK'
    <3> HIDE DEF Names, Lines, Days
    <3> QED
      BY <2>1 DEF Shape, HistoryTypeOK
  <2>3. Counted' /\ Closing' /\ ReopensAfterDisconnect' /\ \A f \in Fetchers : Sound(f)'
    BY <2>1 DEF Shape, Counted, Closing, ReopensAfterDisconnect, Sound
  <2> QED
    BY <2>2, <2>3 DEF Shape
<1> QED
  BY <1>1, <1>2, <1>3, ShapeDisconnect, ShapeCloseFile, ShapeForgetFile, ShapeExit, ShapeCrash
  DEF Next

LEMMA ShapeAlways == Safety => []Shape
<1> QED
  BY ShapeInit, ShapeNext, PTL DEF Safety

(* Every state has its type, on any number of fetch threads, for any        *)
(* messages and whenever the program ends and starts again.                 *)
THEOREM HistoryTypes == Safety => []HistoryTypeOK
<1>1. Shape => HistoryTypeOK
  BY DEF Shape
<1> QED
  BY <1>1, ShapeAlways, PTL

(* No closed stream is used but by a message that disconnect() came upon,   *)
(* on any number of fetch threads.                                          *)
THEOREM ReopensAfter == Safety => []ReopensAfterDisconnect
<1>1. Shape => ReopensAfterDisconnect
  BY DEF Shape
<1> QED
  BY <1>1, ShapeAlways, PTL

-----------------------------------------------------------------------------
(* What a step does to streams and files, whoever takes it. *)

(* The streams that are left have lost their buffers or kept them.          *)
Drains ==
    \A s \in DOMAIN streams' :
        /\ s \in DOMAIN streams
        /\ streams'[s].name = streams[s].name
        /\ streams'[s].buffer \in {streams[s].buffer, <<>>}
        /\ streams'[s].open => streams[s].open

(* Each file gets some of the lines that were kept back for it.             *)
WritesBuffers ==
    \A name \in Names : \E out \in Seq(Lines) :
        Follows(Lines, files[name], out, files'[name]) /\ Buffered(name, out)

LEMMA NothingWritten ==
    ASSUME NEW lines \in Seq(Lines)
    PROVE  Follows(Lines, lines, <<>>, lines)
<1> HIDE DEF Lines
<1>1. lines = lines \o <<>>
  OBVIOUS
<1> QED
  BY <1>1, NoLines, ConcatFollows

LEMMA BufferWritten ==
    ASSUME HistoryTypeOK, NEW s \in DOMAIN streams, streams[s].open, NEW name,
           name = streams[s].name, NEW new, new = files[name] \o streams[s].buffer, Gets(name, new)
    PROVE  WritesBuffers
<1> HIDE DEF Lines, Names
<1>1. /\ streams \in Seq(StreamType) /\ files \in [Names -> Seq(Lines)]
      /\ name \in Names /\ streams[s].buffer \in Seq(Lines)
  BY Types, StreamHas
<1>2. SUFFICES ASSUME NEW other \in Names
               PROVE  \E out \in Seq(Lines) :
                         /\ Follows(Lines, files[other], out, files'[other])
                         /\ Buffered(other, out)
  BY DEF WritesBuffers
<1>3. CASE other = name
  <2> DEFINE out == streams[s].buffer
  <2>1. Follows(Lines, files[other], out, files'[other])
    BY <1>1, <1>3, ConcatFollows DEF Gets
  <2>2. Buffered(other, out)
    <3>1. \A k \in DOMAIN out : \E t \in DOMAIN streams :
            /\ streams[t].open /\ streams[t].name = other
            /\ \E j \in DOMAIN streams[t].buffer :
                  out[k] = streams[t].buffer[j] /\ (k = 1 => j = 1)
      BY <1>3
    <3> QED
      BY <3>1 DEF Buffered
  <2> QED
    BY <1>1, <2>1, <2>2
<1>4. CASE other # name
  <2>1. files'[other] = files[other] /\ files[other] \in Seq(Lines)
    BY <1>1, <1>4 DEF Gets
  <2>2. DOMAIN <<>> = {}
    OBVIOUS
  <2>3. Buffered(other, <<>>)
    BY <2>2 DEF Buffered
  <2> QED
    BY <2>1, <2>3, NoLines, NothingWritten
<1> QED
  BY <1>3, <1>4

(* Flush drains what it writes, and nothing keeps anything for m_pFile.     *)
LEMMA FlushDrains ==
    ASSUME Shape, NEW f \in Fetchers, Flush(f), ~Lost(f)
    PROVE  /\ Moves(f, "idle") /\ Drains /\ WritesBuffers
           /\ m_pFile # NULL => Open(m_pFile) /\ Becomes(m_pFile, Holding(m_pFile, <<>>))
           /\ m_pFile = NULL => \A s \in DOMAIN streams' : streams'[s].buffer = <<>>
<1> HIDE DEF Lines, Names
<1>1. HistoryTypeOK /\ streams \in Seq(StreamType)
  BY Types DEF Shape
<1>2. CASE m_pFile = NULL
  <2>1. /\ files' = Flushed /\ streams' = [s \in DOMAIN streams |-> Holding(s, <<>>)]
        /\ Moves(f, "idle")
    BY <1>1, <1>2, Points, GoMoves DEF Flush, Holding
  <2>2. DOMAIN streams' = DOMAIN streams /\ \A s \in DOMAIN streams : streams'[s] = Holding(s, <<>>)
    BY <1>1, <2>1, AllEmptied
  <2>3. \A s \in DOMAIN streams :
           /\ streams'[s].name = streams[s].name /\ streams'[s].open = streams[s].open
           /\ streams'[s].buffer = <<>>
    <3>1. \A s \in DOMAIN streams :
             /\ Holding(s, <<>>).name = streams[s].name
             /\ Holding(s, <<>>).open = streams[s].open
             /\ Holding(s, <<>>).buffer = <<>>
      BY <1>1, NoLines, HoldingIs
    <3> QED
      BY <2>2, <3>1
  <2>4. Drains
    BY <2>2, <2>3 DEF Drains
  <2>5. WritesBuffers
    BY <1>1, <2>1, FlushedLines DEF WritesBuffers
  <2> QED
    BY <1>2, <2>1, <2>2, <2>3, <2>4, <2>5
<1>3. CASE m_pFile # NULL
  <2>1. Open(m_pFile) /\ fflush(<<>>) /\ Moves(f, "idle")
    BY <1>1, <1>3, Points, GoMoves DEF Flush
  <2> DEFINE name == streams[m_pFile].name
             buffer == streams[m_pFile].buffer
  <2>2. /\ m_pFile \in DOMAIN streams /\ name \in Names /\ buffer \in Seq(Lines)
        /\ Becomes(m_pFile, Holding(m_pFile, <<>>))
        /\ Gets(name, files[name] \o buffer \o <<>>)
    BY <1>1, <1>3, <2>1, NoLines, fflushWrites
  <2>3. Drains
    <3>1. /\ Holding(m_pFile, <<>>).name = streams[m_pFile].name
          /\ Holding(m_pFile, <<>>).open = streams[m_pFile].open
          /\ Holding(m_pFile, <<>>).buffer = <<>>
      BY <1>1, <2>2, NoLines, HoldingIs
    <3> QED
      BY <2>2, <3>1 DEF Drains, Becomes
  <2>4. files[name] \o buffer \o <<>> = files[name] \o buffer
    <3>1. files[name] \in Seq(Lines)
      BY <1>1, <2>2, Types
    <3> HIDE DEF buffer
    <3>2. files[name] \o buffer \in Seq(Lines)
      BY <2>2, <3>1
    <3> QED
      BY <3>2
  <2>5. WritesBuffers
    BY <1>1, <2>1, <2>2, <2>4, BufferWritten DEF Open
  <2> QED
    BY <1>3, <2>1, <2>2, <2>3, <2>5
<1> QED
  BY <1>2, <1>3

LEMMA CloseDrains ==
    ASSUME Shape, CloseFile
    PROVE  /\ Drains /\ WritesBuffers
           /\ Becomes(m_pFile, Closed(m_pFile)) /\ m_pFile \in DOMAIN streams
<1> HIDE DEF Lines, Names
<1>1. HistoryTypeOK /\ m_pFile # NULL /\ streams[m_pFile].open
  BY DEF Shape, Closing, CloseFile
<1> DEFINE name == streams[m_pFile].name
           buffer == streams[m_pFile].buffer
<1>2. /\ m_pFile \in DOMAIN streams /\ name \in Names /\ buffer \in Seq(Lines)
      /\ Becomes(m_pFile, Closed(m_pFile))
      /\ Gets(name, files[name] \o buffer)
  BY <1>1, CloseWrites
<1>3. Drains
  BY <1>1, <1>2 DEF Drains, Becomes, Closed
<1>4. WritesBuffers
  BY <1>1, <1>2, BufferWritten
<1> QED
  BY <1>2, <1>3, <1>4

LEMMA EndDrains ==
    ASSUME Shape, StartAgain
    PROVE  /\ Drains /\ DOMAIN streams' = {}
           /\ files' = Flushed => WritesBuffers
<1>1. DOMAIN streams' = {}
  <2>1. streams' = <<>>
    BY DEF StartAgain
  <2> QED
    BY <2>1
<1>2. Drains
  BY <1>1 DEF Drains
<1>3. files' = Flushed => WritesBuffers
  BY FlushedLines DEF WritesBuffers, Shape
<1> QED
  BY <1>1, <1>2, <1>3

LEMMA SameDrains ==
    ASSUME UNCHANGED streams
    PROVE  Drains
BY DEF Drains

(* The buffer of m_pFile has one line more.                                 *)
Adds(line) ==
    LET old == streams[m_pFile].buffer
        new == streams'[m_pFile].buffer
    IN  /\ DOMAIN streams' = DOMAIN streams /\ m_pFile \in DOMAIN streams
        /\ streams'[m_pFile].name = streams[m_pFile].name
        /\ streams'[m_pFile].open <=> streams[m_pFile].open
        /\ \A s \in DOMAIN streams : s # m_pFile => streams'[s] = streams[s]
        /\ new = Append(old, line) /\ old \in Seq(Lines)
        /\ \A k \in DOMAIN old : k \in DOMAIN new /\ new[k] = old[k]
        /\ \E last : /\ last \in DOMAIN new /\ last \notin DOMAIN old /\ new[last] = line
                     /\ \A k \in DOMAIN new : k = last \/ k \in DOMAIN old
        /\ UNCHANGED <<files, undefined>>

LEMMA fwriteAdds ==
    ASSUME HistoryTypeOK, m_pFile # NULL, NEW line \in Lines, fwrite(line)
    PROVE  Adds(line)
<1> HIDE DEF Lines, Names
<1> DEFINE old == streams[m_pFile].buffer
           new == Append(old, line)
<1>1. /\ m_pFile \in DOMAIN streams /\ old \in Seq(Lines) /\ new \in Seq(Lines)
      /\ Becomes(m_pFile, Holding(m_pFile, new)) /\ UNCHANGED <<files, undefined>>
      /\ streams \in Seq(StreamType)
  BY fwriteAppends, Types
<1>2. /\ \A k \in DOMAIN old : k \in DOMAIN new /\ new[k] = old[k]
      /\ Len(old) + 1 \in DOMAIN new /\ Len(old) + 1 \notin DOMAIN old
      /\ new[Len(old) + 1] = line
      /\ \A k \in DOMAIN new : k = Len(old) + 1 \/ k \in DOMAIN old
  <2> HIDE DEF old
  <2>1. /\ DOMAIN old = 1 .. Len(old) /\ Len(old) \in Nat
        /\ DOMAIN new = 1 .. Len(old) + 1
        /\ \A k \in 1 .. Len(old) : new[k] = old[k]
        /\ new[Len(old) + 1] = line
    BY <1>1
  <2> HIDE DEF new
  <2> QED
    BY <2>1
<1>3. \E last : /\ last \in DOMAIN new /\ last \notin DOMAIN old /\ new[last] = line
               /\ \A k \in DOMAIN new : k = last \/ k \in DOMAIN old
  BY <1>2
<1> HIDE DEF new
<1>4. /\ streams'[m_pFile].name = streams[m_pFile].name
      /\ streams'[m_pFile].open <=> streams[m_pFile].open
      /\ streams'[m_pFile].buffer = new
      /\ DOMAIN streams' = DOMAIN streams
      /\ \A s \in DOMAIN streams : s # m_pFile => streams'[s] = streams[s]
  BY <1>1, HoldingIs DEF Becomes
<1> QED
  BY <1>1, <1>2, <1>3, <1>4 DEF new, Adds

(* The header is put after what the buffer has.                             *)
LEMMA HeaderDrains ==
    ASSUME Shape, NEW f \in Fetchers, WriteHeader(f), Open(m_pFile)
    PROVE  /\ Moves(f, "recent") /\ Drains /\ m_pFile \in DOMAIN streams
           /\ fetch[f].format \in Formats
           /\ streams'[m_pFile].name = streams[m_pFile].name
           /\ streams'[m_pFile].buffer = <<>>
           /\ \A s \in DOMAIN streams : s # m_pFile => streams'[s] = streams[s]
           /\ LET name == streams[m_pFile].name
              IN  /\ name \in Names
                  /\ Gets(name, files'[name])
                  /\ \E both \in Seq(Lines) :
                        /\ Follows(Lines, files[name], streams[m_pFile].buffer, both)
                        /\ Follows(Lines, both, <<Header(fetch[f].format)>>, files'[name])
<1> HIDE DEF Lines, Names
<1>1. HistoryTypeOK /\ streams \in Seq(StreamType) /\ m_pFile # NULL
  BY Types DEF Shape, Open
<1>2. fetch[f].format \in Formats
  BY Points, RowIs DEF Shape, WriteHeader, At
<1> DEFINE name == streams[m_pFile].name
           buffer == streams[m_pFile].buffer
           header == <<Header(fetch[f].format)>>
           both == files[name] \o buffer
<1>3. fflush(header) /\ Moves(f, "recent") /\ header \in Seq(Lines)
  BY <1>1, <1>2, Points, GoMoves, HeaderIs DEF WriteHeader
<1> HIDE DEF header
<1>4. /\ m_pFile \in DOMAIN streams /\ name \in Names /\ buffer \in Seq(Lines)
      /\ Becomes(m_pFile, Holding(m_pFile, <<>>))
      /\ Gets(name, files[name] \o buffer \o header)
  BY <1>1, <1>3, fflushWrites
<1>5. /\ Holding(m_pFile, <<>>).name = streams[m_pFile].name
      /\ Holding(m_pFile, <<>>).open = streams[m_pFile].open
      /\ Holding(m_pFile, <<>>).buffer = <<>>
  BY <1>1, <1>4, NoLines, HoldingIs
<1>6. Drains
  BY <1>4, <1>5 DEF Drains, Becomes
<1>7. files[name] \in Seq(Lines)
  BY <1>1, <1>4, Types
<1>8. both \in Seq(Lines) /\ Follows(Lines, files[name], buffer, both)
  <2> HIDE DEF buffer
  <2>1. both \in Seq(Lines)
    BY <1>4, <1>7
  <2> QED
    BY <1>4, <1>7, <2>1, ConcatFollows
<1>9. files'[name] = both \o header /\ Gets(name, files'[name])
  BY <1>4 DEF Gets
<1>10. Follows(Lines, both, header, files'[name])
  <2> HIDE DEF both
  <2> QED
    BY <1>3, <1>8, <1>9, ConcatFollows
<1> HIDE DEF both
<1> QED
  BY <1>2, <1>3, <1>4, <1>5, <1>6, <1>8, <1>9, <1>10 DEF Becomes, header

-----------------------------------------------------------------------------
(* With one fetch thread, each line has the format of its file. *)

(* m_exportSetting is the format of the stream m_pFile and of the message   *)
(* that is being exported.                                                  *)
NamedAt(f) ==
    /\ m_pFile # NULL /\ fetch[f].pc # "open" => m_exportSetting = streams[m_pFile].name[2]
    /\ fetch[f].pc \notin {"idle", "decide"} /\ fetch[f].format # "off" =>
          m_exportSetting = fetch[f].format
    /\ fetch[f].pc \in {"peek", "bom", "header"} /\ m_pFile # NULL =>
          streams[m_pFile].name = <<fetch[f].day, fetch[f].format>>

(* Each line in a buffer has the format of the file it goes to.             *)
BuffersNamed ==
    \A s \in DOMAIN streams : \A k \in DOMAIN streams[s].buffer :
        streams[s].buffer[k].format \in {"bom", streams[s].name[2]}

(* The inductive invariant for FormatOfFile.                                *)
Named(f) == NamedAt(f) /\ BuffersNamed /\ FormatOfFile

LEMMA NamedFiles ==
    ASSUME BuffersNamed, FormatOfFile, Drains, UNCHANGED files \/ WritesBuffers
    PROVE  BuffersNamed' /\ FormatOfFile'
<1>1. BuffersNamed'
  <2>1. DOMAIN <<>> = {}
    OBVIOUS
  <2> QED
    BY <2>1 DEF BuffersNamed, Drains
<1>2. CASE UNCHANGED files
  BY <1>1, <1>2 DEF FormatOfFile
<1>3. ASSUME WritesBuffers, NEW name \in Names, NEW k \in DOMAIN files'[name]
      PROVE  files'[name][k].format \in {"bom", name[2]}
  <2>1. PICK out \in Seq(Lines) :
           Follows(Lines, files[name], out, files'[name]) /\ Buffered(name, out)
    BY <1>3 DEF WritesBuffers
  <2>2. CASE k \in DOMAIN files[name] /\ files'[name][k] = files[name][k]
    BY <2>2 DEF FormatOfFile
  <2>3. ASSUME NEW j \in DOMAIN out, files'[name][k] = out[j]
        PROVE  files'[name][k].format \in {"bom", name[2]}
    <3>1. PICK s \in DOMAIN streams : streams[s].name = name /\
             \E l \in DOMAIN streams[s].buffer : out[j] = streams[s].buffer[l]
      BY <2>1 DEF Buffered
    <3> QED
      BY <2>3, <3>1 DEF BuffersNamed
  <2>4. \/ k \in DOMAIN files[name] /\ files'[name][k] = files[name][k]
        \/ \E j \in DOMAIN out : files'[name][k] = out[j]
    BY <1>3, <2>1 DEF Follows
  <2> QED
    BY <2>2, <2>3, <2>4
<1> QED
  BY <1>1, <1>2, <1>3 DEF FormatOfFile

LEMMA NamedSame ==
    ASSUME NEW f, Named(f), UNCHANGED <<fetch, m_pFile, m_exportSetting, streams, files>>
    PROVE  Named(f)'
BY DEF Named, NamedAt, BuffersNamed, FormatOfFile

(* A step that leaves streams and files alone.                              *)
LEMMA NamedGoes ==
    ASSUME NEW f, Named(f), UNCHANGED <<streams, files>>, NamedAt(f)'
    PROVE  Named(f)'
BY SameDrains, NamedFiles DEF Named

LEMMA NamedParse == ASSUME NEW f \in Fetchers, Shape, Named(f), Parse(f) PROVE Named(f)'
<1>1. /\ fetch[f].pc = "idle"
      /\ UNCHANGED <<m_pFile, m_exportSetting, streams, files>>
  BY DEF Parse, At, fileVars
<1>2. fetch'[f].pc = "decide"
  <2>1. fetch \in [Fetchers -> FetchType]
    BY Types DEF Shape
  <2>2. PICK time \in Times, zone \in Zones, autoExport \in Settings :
           fetch' = [fetch EXCEPT ![f] = [pc |-> "decide", msg |-> count'.messages,
                                          day |-> Day(time, offset(zone)), format |-> autoExport]]
    BY DEF Parse
  <2> QED
    BY <2>1, <2>2
<1>3. NamedAt(f)'
  BY <1>1, <1>2 DEF Named, NamedAt
<1> QED
  BY <1>1, <1>3, NamedGoes

LEMMA NamedDecide == ASSUME NEW f \in Fetchers, Shape, Named(f), Decide(f) PROVE Named(f)'
<1>1. /\ HistoryTypeOK /\ fetch[f].pc = "decide"
      /\ UNCHANGED <<m_pFile, streams, files>>
  BY DEF Shape, Decide, At
<1>2. CASE createNewFile(f)
  <2>1. m_exportSetting' = fetch[f].format /\ Moves(f, "open")
    BY <1>1, <1>2, Points, GoMoves DEF Decide
  <2>2. NamedAt(f)'
    BY <1>1, <2>1 DEF NamedAt, Moves
  <2> QED
    BY <1>1, <2>2, NamedGoes
<1>3. CASE ~createNewFile(f)
  <2>1. m_exportSetting' = m_exportSetting /\ Moves(f, "recent")
    BY <1>1, <1>3, Points, GoMoves DEF Decide
  <2>2. NamedAt(f)'
    BY <1>1, <1>3, <2>1 DEF Named, NamedAt, Moves, createNewFile
  <2> QED
    BY <1>1, <2>2, NamedGoes
<1> QED
  BY <1>2, <1>3

(* Other steps of parseMessage, but that which opens a file.                *)
LEMMA NamedMoves ==
    ASSUME NEW f \in Fetchers, Named(f), NEW p, Moves(f, p),
           fetch[f].pc \notin {"idle", "decide", "open"}, p # "open",
           p \in {"peek", "bom", "header"} => fetch[f].pc \in {"peek", "bom", "header"},
           UNCHANGED <<m_pFile, m_exportSetting>>,
           m_pFile # NULL => streams'[m_pFile].name = streams[m_pFile].name
    PROVE  NamedAt(f)'
BY DEF Named, NamedAt, Moves

LEMMA NamedOpenFile == ASSUME NEW f \in Fetchers, Shape, Named(f), OpenFile(f) PROVE Named(f)'
<1>1. /\ HistoryTypeOK /\ fetch[f].pc = "open" /\ Moves(f, "peek")
      /\ UNCHANGED <<m_exportSetting, files>>
      /\ fetch[f].format # "off"
  BY Points, GoMoves DEF Shape, Sound, OpenFile, At, fileVars
<1>2. fetch[f].format \in Formats /\ fetch[f].day \in Days
  BY <1>1, Types DEF FetchType, Settings
<1> DEFINE name == <<fetch[f].day, fetch[f].format>>
           stream == [name |-> name, buffer |-> <<>>, open |-> TRUE]
<1>3. stream \in StreamType /\ stream.name = name /\ stream.buffer = <<>>
  <2> HIDE DEF Lines
  <2> QED
    BY <1>2, NoLines DEF StreamType, Names
<1>4. streams' = Append(streams, stream) /\ m_pFile' = Len(streams')
  BY DEF OpenFile
<1> HIDE DEF stream
<1>5. /\ DOMAIN streams' = DOMAIN streams \cup {m_pFile'}
      /\ streams'[m_pFile'] = stream
      /\ \A s \in DOMAIN streams : streams'[s] = streams[s]
  <2>1. streams \in Seq(StreamType)
    BY <1>1, Types
  <2> HIDE DEF StreamType
  <2> QED
    BY <1>3, <1>4, <2>1, StreamAdded
<1>6. NamedAt(f)'
  <2>1. streams'[m_pFile'].name = name /\ name[2] = fetch[f].format
    BY <1>3, <1>5
  <2>2. m_exportSetting' = fetch[f].format
    BY <1>1 DEF Named, NamedAt
  <2> QED
    BY <1>1, <2>1, <2>2 DEF NamedAt, Moves
<1>7. BuffersNamed'
  <2>1. DOMAIN <<>> = {}
    OBVIOUS
  <2> QED
    BY <1>3, <1>5, <2>1 DEF Named, BuffersNamed
<1>8. FormatOfFile'
  BY <1>1 DEF Named, FormatOfFile
<1> QED
  BY <1>6, <1>7, <1>8 DEF Named

LEMMA NamedPeek == ASSUME NEW f \in Fetchers, Shape, Named(f), Peek(f) PROVE Named(f)'
<1>1. /\ HistoryTypeOK /\ fetch[f].pc = "peek"
      /\ UNCHANGED <<m_pFile, m_exportSetting, streams, files>>
  BY DEF Shape, Peek, At, fileVars, Lost
<1>2. CASE Open(m_pFile)
  <2>1. \E p \in {"bom", "recent"} : Go(f, p)
    BY <1>2 DEF Peek
  <2>2. PICK p \in {"bom", "recent"} : Moves(f, p)
    BY <1>1, <2>1, Points, GoMoves
  <2> QED
    BY <1>1, <2>2, NamedMoves, NamedGoes
<1>3. CASE ~Open(m_pFile)
  BY <1>1, <1>3, NamedSame DEF Peek, Lost
<1> QED
  BY <1>2, <1>3

(* A line of the stream's format is put into the buffer.                    *)
LEMMA NamedWrites ==
    ASSUME NEW f \in Fetchers, Shape, Named(f), NEW p, Moves(f, p),
           fetch[f].pc \notin {"idle", "decide", "open"}, p # "open",
           p \in {"peek", "bom", "header"} => fetch[f].pc \in {"peek", "bom", "header"},
           UNCHANGED <<m_pFile, m_exportSetting>>, m_pFile # NULL,
           NEW line \in Lines, fwrite(line), line.format \in {"bom", streams[m_pFile].name[2]}
    PROVE  Named(f)'
<1> HIDE DEF Lines, Names
<1>1. HistoryTypeOK
  BY DEF Shape
<1>2. Adds(line)
  BY <1>1, fwriteAdds
<1>3. NamedAt(f)'
  BY <1>2, NamedMoves DEF Adds
<1>4. BuffersNamed'
  <2>1. ASSUME NEW s \in DOMAIN streams', NEW k \in DOMAIN streams'[s].buffer
        PROVE  streams'[s].buffer[k].format \in {"bom", streams'[s].name[2]}
    <3>1. CASE s # m_pFile
      BY <1>2, <2>1, <3>1 DEF Named, BuffersNamed, Adds
    <3>2. CASE s = m_pFile /\ k \in DOMAIN streams[s].buffer
      BY <1>2, <2>1, <3>2 DEF Named, BuffersNamed, Adds
    <3>3. CASE s = m_pFile /\ k \notin DOMAIN streams[s].buffer
      BY <1>2, <2>1, <3>3 DEF Adds
    <3> QED
      BY <3>1, <3>2, <3>3
  <2> QED
    BY <2>1 DEF BuffersNamed
<1>5. FormatOfFile'
  BY <1>2 DEF Named, FormatOfFile, Adds
<1> QED
  BY <1>3, <1>4, <1>5 DEF Named

LEMMA NamedWriteBOM == ASSUME NEW f \in Fetchers, Shape, Named(f), WriteBOM(f) PROVE Named(f)'
<1>1. HistoryTypeOK /\ fetch[f].pc = "bom" /\ UNCHANGED <<m_pFile, m_exportSetting>>
  BY DEF Shape, WriteBOM, At, fileVars
<1>2. CASE Open(m_pFile)
  <2>1. fwrite(BOM) /\ Moves(f, "header") /\ m_pFile # NULL
    BY <1>1, <1>2, Points, GoMoves DEF WriteBOM, Open
  <2> QED
    BY <1>1, <2>1, BOMIs, NamedWrites
<1>3. CASE ~Open(m_pFile)
  BY <1>1, <1>3, NamedSame DEF WriteBOM, Lost
<1> QED
  BY <1>2, <1>3

LEMMA NamedWriteRow == ASSUME NEW f \in Fetchers, Shape, Named(f), WriteRow(f) PROVE Named(f)'
<1>1. /\ HistoryTypeOK /\ Sound(f) /\ fetch[f].pc = "write" /\ fetch[f].pc \in Writing
      /\ UNCHANGED <<m_pFile, m_exportSetting>>
  BY Points DEF Shape, WriteRow, At, fileVars
<1>2. CASE Open(m_pFile)
  <2>1. fwrite(Row(f)) /\ Moves(f, "flush") /\ m_pFile # NULL
    BY <1>1, <1>2, Points, GoMoves DEF WriteRow, Open, Row
  <2>2. Row(f) \in Lines /\ Row(f).format = streams[m_pFile].name[2]
    <3>1. m_exportSetting = streams[m_pFile].name[2] /\ m_exportSetting = fetch[f].format
      BY <1>1, <2>1 DEF Named, NamedAt, Sound
    <3> QED
      BY <1>1, <3>1, RowIs
  <2> QED
    BY <1>1, <2>1, <2>2, NamedWrites
<1>3. CASE ~Open(m_pFile)
  BY <1>1, <1>3, NamedSame DEF WriteRow, Lost
<1> QED
  BY <1>2, <1>3

LEMMA NamedFlush == ASSUME NEW f \in Fetchers, Shape, Named(f), Flush(f) PROVE Named(f)'
<1>1. fetch[f].pc = "flush" /\ UNCHANGED <<m_pFile, m_exportSetting>>
  BY DEF Flush, At, fileVars
<1>2. CASE Lost(f)
  BY <1>1, <1>2, NamedSame DEF Lost
<1>3. CASE ~Lost(f)
  <2>1. /\ Moves(f, "idle") /\ Drains /\ WritesBuffers
        /\ m_pFile # NULL => Becomes(m_pFile, Holding(m_pFile, <<>>))
    BY <1>3, FlushDrains
  <2>2. m_pFile # NULL => streams'[m_pFile].name = streams[m_pFile].name
    <3>1. m_pFile \in {NULL} \cup DOMAIN streams /\ streams \in Seq(StreamType)
      BY Types DEF Shape
    <3>2. m_pFile \in DOMAIN streams => Holding(m_pFile, <<>>).name = streams[m_pFile].name
      BY <3>1, NoLines, HoldingIs
    <3> QED
      BY <2>1, <3>1, <3>2 DEF Becomes
  <2>3. NamedAt(f)'
    BY <1>1, <2>1, <2>2, NamedMoves
  <2> QED
    BY <2>1, <2>3, NamedFiles DEF Named
<1> QED
  BY <1>2, <1>3

(* Steps that touch neither streams nor files.                              *)
LEMMA NamedRests ==
    ASSUME NEW f \in Fetchers, Shape, Named(f), Recent(f) \/ Save(f) \/ CheckFile(f)
    PROVE  Named(f)'
<1>1. /\ HistoryTypeOK /\ UNCHANGED <<m_pFile, m_exportSetting, streams, files>>
      /\ fetch[f].pc \in {"recent", "save", "check"}
  BY DEF Shape, Recent, Save, CheckFile, At, fileVars
<1>2. \E p \in {"save", "check", "write", "idle"} : Go(f, p)
  BY DEF Recent, Save, CheckFile
<1>3. PICK p \in {"save", "check", "write", "idle"} : Moves(f, p)
  BY <1>1, <1>2, Points, GoMoves
<1> QED
  BY <1>1, <1>3, NamedMoves, NamedGoes

LEMMA NamedWriteHeader == ASSUME NEW f \in Fetchers, Shape, Named(f), WriteHeader(f) PROVE Named(f)'
<1> HIDE DEF Lines, Names
<1>1. HistoryTypeOK /\ fetch[f].pc = "header" /\ UNCHANGED <<m_pFile, m_exportSetting>>
  BY DEF Shape, WriteHeader, At, fileVars
<1>2. CASE m_pFile = NULL
  <2>1. UNCHANGED <<streams, files>> /\ Moves(f, "recent")
    BY <1>1, <1>2, Points, GoMoves DEF WriteHeader
  <2> QED
    BY <1>1, <1>2, <2>1, NamedMoves, NamedGoes
<1>3. CASE m_pFile # NULL /\ ~Open(m_pFile)
  BY <1>1, <1>3, NamedSame DEF WriteHeader, Lost
<1>4. CASE Open(m_pFile)
  <2> DEFINE name == streams[m_pFile].name
             header == Header(fetch[f].format)
  <2>1. /\ Moves(f, "recent") /\ Drains /\ fetch[f].format \in Formats
        /\ streams'[m_pFile].name = name /\ Gets(name, files'[name])
    BY <1>4, HeaderDrains
  <2>2. PICK both \in Seq(Lines) :
           /\ Follows(Lines, files[name], streams[m_pFile].buffer, both)
           /\ Follows(Lines, both, <<header>>, files'[name])
    BY <1>4, HeaderDrains
  <2>3. header.format = name[2] /\ m_pFile \in DOMAIN streams
    <3>1. name = <<fetch[f].day, fetch[f].format>> /\ m_pFile \in DOMAIN streams
      BY <1>1, <1>4, Types DEF Named, NamedAt, Open
    <3> QED
      BY <2>1, <3>1, HeaderIs
  <2>4. NamedAt(f)'
    BY <1>1, <2>1, NamedMoves
  <2>5. \A k \in DOMAIN both : both[k].format \in {"bom", name[2]}
    <3>1. \A k \in DOMAIN both :
             \/ k \in DOMAIN files[name] /\ both[k] = files[name][k]
             \/ \E j \in DOMAIN streams[m_pFile].buffer : both[k] = streams[m_pFile].buffer[j]
      BY <2>2, FollowsFrom
    <3>2. name \in Names
      BY <2>3, <1>1, Types, StreamHas
    <3> QED
      BY <2>3, <3>1, <3>2 DEF Named, BuffersNamed, FormatOfFile
  <2>6. \A k \in DOMAIN files'[name] : files'[name][k].format \in {"bom", name[2]}
    <3>1. \A k \in DOMAIN files'[name] :
             \/ k \in DOMAIN both /\ files'[name][k] = both[k]
             \/ \E j \in DOMAIN <<header>> : files'[name][k] = <<header>>[j]
      BY <2>2 DEF Follows
    <3>2. \A j \in DOMAIN <<header>> : <<header>>[j] = header
      OBVIOUS
    <3> QED
      BY <2>3, <2>5, <3>1, <3>2
  <2>7. FormatOfFile'
    BY <2>1, <2>6 DEF Named, FormatOfFile, Gets
  <2>8. BuffersNamed'
    <3>1. DOMAIN <<>> = {}
      OBVIOUS
    <3> QED
      BY <2>1, <3>1 DEF Named, BuffersNamed, Drains
  <2> QED
    BY <2>4, <2>7, <2>8 DEF Named
<1> QED
  BY <1>2, <1>3, <1>4

(* disconnect().                                                            *)
LEMMA NamedWindow ==
    ASSUME NEW f \in Fetchers, Shape, Named(f), Disconnect \/ CloseFile \/ ForgetFile
    PROVE  Named(f)'
<1>1. CASE Disconnect
  BY <1>1, NamedSame DEF Disconnect, fileVars
<1>2. CASE ForgetFile
  <2>1. UNCHANGED <<fetch, m_exportSetting, streams, files>> /\ m_pFile' = NULL
    BY <1>2 DEF ForgetFile, fileVars
  <2>2. NamedAt(f)'
    BY <2>1 DEF Named, NamedAt
  <2> QED
    BY <2>1, <2>2, NamedGoes
<1>3. CASE CloseFile
  <2>1. /\ Drains /\ WritesBuffers /\ m_pFile \in DOMAIN streams
        /\ UNCHANGED <<fetch, m_pFile, m_exportSetting>>
        /\ streams'[m_pFile].name = streams[m_pFile].name
    BY <1>3, CloseDrains DEF CloseFile, fileVars, Becomes, Closed
  <2>2. NamedAt(f)'
    BY <2>1 DEF Named, NamedAt
  <2> QED
    BY <2>1, <2>2, NamedFiles DEF Named
<1> QED
  BY <1>1, <1>2, <1>3

LEMMA NamedEnd ==
    ASSUME NEW f \in Fetchers, Shape, Named(f), Exit \/ Crash
    PROVE  Named(f)'
<1>1. StartAgain /\ (UNCHANGED files \/ files' = Flushed)
  BY DEF Exit, Crash
<1>2. m_pFile' = NULL /\ fetch'[f].pc = "idle"
  BY <1>1 DEF StartAgain, Resting
<1>3. NamedAt(f)'
  BY <1>2 DEF NamedAt
<1> QED
  BY <1>1, <1>3, EndDrains, NamedFiles DEF Named

LEMMA NamedInit == ASSUME Init, NEW f \in Fetchers PROVE Named(f)
<1>1. DOMAIN <<>> = {}
  OBVIOUS
<1>2. DOMAIN streams = {} /\ \A name \in Names : DOMAIN files[name] = {}
  <2>1. streams = <<>> /\ files = [name \in Names |-> <<>>]
    BY DEF Init
  <2> HIDE DEF Names
  <2> QED
    BY <1>1, <2>1
<1>3. m_pFile = NULL /\ fetch[f].pc = "idle"
  BY DEF Init, Resting
<1> QED
  BY <1>2, <1>3 DEF Named, NamedAt, BuffersNamed, FormatOfFile

LEMMA NamedNext ==
    ASSUME NEW f, Fetchers = {f}, Shape, Named(f), [Next]_vars
    PROVE  Named(f)'
<1>1. CASE parseMessage(f)
  BY <1>1, NamedParse, NamedDecide, NamedOpenFile, NamedPeek, NamedWriteBOM, NamedWriteHeader,
     NamedRests, NamedWriteRow, NamedFlush DEF parseMessage
<1>2. CASE OpenFails(f)
  BY <1>2, NamedEnd DEF OpenFails
<1>3. CASE UNCHANGED vars
  BY <1>3, NamedSame DEF vars
<1> QED
  BY <1>1, <1>2, <1>3, NamedWindow, NamedEnd DEF Next

(* With one fetch thread, each line of a file has the format the file is    *)
(* named for, or is the byte order mark.                                    *)
THEOREM FormatKept ==
    ASSUME NEW f, Fetchers = {f}
    PROVE  Safety => []FormatOfFile
<1>1. Init => Named(f)
  BY NamedInit
<1>2. Shape /\ Named(f) /\ [Next]_vars => Named(f)'
  BY NamedNext
<1>3. Named(f) => FormatOfFile
  BY DEF Named
<1> QED
  BY <1>1, <1>2, <1>3, ShapeAlways, PTL DEF Safety

-----------------------------------------------------------------------------
(* With one fetch thread, each file has its mark and its header on top. *)

(* Where the stream m_pFile stands with its file.                           *)
OpenTop(f) ==
    Open(m_pFile) =>
        LET buffer == streams[m_pFile].buffer
            file == files[streams[m_pFile].name]
        IN  /\ fetch[f].pc \notin {"peek", "bom", "header"} => file # <<>>
            /\ fetch[f].pc \in {"bom", "header"} => file = <<>>
            /\ fetch[f].pc \in {"peek", "bom"} => buffer = <<>>
            /\ fetch[f].pc = "header" => buffer = <<BOM>>

(* A buffer has the mark or rows, and the mark alone while the file is      *)
(* empty.                                                                   *)
BufferTop ==
    \A s \in DOMAIN streams :
        /\ \A k \in DOMAIN streams[s].buffer :
              streams[s].buffer[k] = BOM \/ streams[s].buffer[k].msg # 0
        /\ files[streams[s].name] = <<>> /\ streams[s].buffer # <<>> =>
              streams[s].buffer = <<BOM>>

(* No mark is left in a buffer but between its fwrite and the header's.     *)
MarkTop(f) ==
    interrupted = {} =>
        \A s \in DOMAIN streams : \A k \in DOMAIN streams[s].buffer :
            streams[s].buffer[k] = BOM => s = m_pFile /\ fetch[f].pc = "header"

(* The inductive invariant for HeaderOnTop.                                 *)
Topped(f) == OpenTop(f) /\ BufferTop /\ MarkTop(f) /\ HeaderOnTop

LEMMA NonEmpty ==
    ASSUME NEW S, NEW lines \in Seq(S)
    PROVE  /\ lines # <<>> <=> 1 \in DOMAIN lines
           /\ Len(lines) >= 2 <=> 2 \in DOMAIN lines
<1>1. Len(lines) \in Nat /\ DOMAIN lines = 1 .. Len(lines)
  OBVIOUS
<1> QED
  BY <1>1, EmptySeq

(* Files only grow.                                                         *)
LEMMA FilesGrow ==
    ASSUME HistoryTypeOK, WritesBuffers, NEW name \in Names
    PROVE  /\ files'[name] \in Seq(Lines)
           /\ files[name] # <<>> => files'[name] # <<>>
           /\ \A k \in DOMAIN files[name] : k \in DOMAIN files'[name] /\ files'[name][k] = files[name][k]
<1>1. PICK out \in Seq(Lines) : Follows(Lines, files[name], out, files'[name])
  BY DEF WritesBuffers
<1>2. /\ files'[name] \in Seq(Lines) /\ files[name] \in Seq(Lines)
      /\ \A k \in DOMAIN files[name] : k \in DOMAIN files'[name] /\ files'[name][k] = files[name][k]
  BY <1>1, Types DEF Follows
<1> HIDE DEF Lines
<1> QED
  BY <1>2, NonEmpty

LEMMA BufferTopDrains ==
    ASSUME BufferTop, Drains,
           \A s \in DOMAIN streams : files'[streams[s].name] = <<>> => files[streams[s].name] = <<>>
    PROVE  BufferTop'
<1>1. DOMAIN <<>> = {}
  OBVIOUS
<1>2. ASSUME NEW s \in DOMAIN streams'
      PROVE  /\ \A k \in DOMAIN streams'[s].buffer :
                   streams'[s].buffer[k] = BOM \/ streams'[s].buffer[k].msg # 0
             /\ files'[streams'[s].name] = <<>> /\ streams'[s].buffer # <<>> =>
                   streams'[s].buffer = <<BOM>>
  <2>1. /\ s \in DOMAIN streams /\ streams'[s].name = streams[s].name
        /\ streams'[s].buffer \in {streams[s].buffer, <<>>}
    BY DEF Drains
  <2>2. CASE streams'[s].buffer = <<>>
    BY <1>1, <2>2
  <2>3. CASE streams'[s].buffer = streams[s].buffer
    BY <2>1, <2>3 DEF BufferTop
  <2> QED
    BY <2>1, <2>2, <2>3
<1>3. BOM' = BOM
  BY DEF BOM
<1> QED
  BY <1>2, <1>3 DEF BufferTop

LEMMA ToppedFiles ==
    ASSUME Shape, BufferTop, HeaderOnTop, Drains, WritesBuffers, interrupted \subseteq interrupted',
           interrupted' = {} =>
              \A s \in DOMAIN streams : \A k \in DOMAIN streams[s].buffer : streams[s].buffer[k] # BOM
    PROVE  BufferTop' /\ HeaderOnTop'
<1> HIDE DEF Lines, Names
<1>1. HistoryTypeOK
  BY DEF Shape
<1>2. BufferTop'
  <2>1. \A s \in DOMAIN streams : streams[s].name \in Names
    BY <1>1, Types, StreamHas
  <2> QED
    BY <1>1, <2>1, FilesGrow, BufferTopDrains
<1>3. ASSUME NEW name \in Names, files'[name] # <<>>
      PROVE  /\ files'[name][1] = BOM
             /\ \A k \in DOMAIN files'[name] : files'[name][k] = Header(name[2]) => k = 2
             /\ interrupted' = {} =>
                   /\ \A k \in DOMAIN files'[name] : files'[name][k] = BOM => k = 1
                   /\ Len(files'[name]) >= 2 /\ files'[name][2] = Header(name[2])
  <2>1. PICK out \in Seq(Lines) :
           Follows(Lines, files[name], out, files'[name]) /\ Buffered(name, out)
    BY DEF WritesBuffers
  <2>2. /\ files'[name] \in Seq(Lines) /\ files[name] \in Seq(Lines) /\ 1 \in DOMAIN files'[name]
        /\ \A k \in DOMAIN files[name] : k \in DOMAIN files'[name] /\ files'[name][k] = files[name][k]
    BY <1>1, <1>3, FilesGrow, Types, NonEmpty
  <2>3. \A k \in DOMAIN files'[name] :
           \/ k \in DOMAIN files[name] /\ files'[name][k] = files[name][k]
           \/ \E s \in DOMAIN streams :
                 /\ streams[s].name = name
                 /\ \E j \in DOMAIN streams[s].buffer :
                       files'[name][k] = streams[s].buffer[j] /\ (k = 1 => j = 1 /\ files[name] = <<>>)
    <3>1. ASSUME NEW k \in DOMAIN files'[name], NEW j \in DOMAIN out, k = Len(files[name]) + j,
                 files'[name][k] = out[j], k = 1 => files[name] = <<>>
          PROVE  \E s \in DOMAIN streams :
                    /\ streams[s].name = name
                    /\ \E i \in DOMAIN streams[s].buffer :
                          files'[name][k] = streams[s].buffer[i] /\ (k = 1 => i = 1 /\ files[name] = <<>>)
      <4>1. PICK s \in DOMAIN streams : streams[s].name = name /\
               \E i \in DOMAIN streams[s].buffer : out[j] = streams[s].buffer[i] /\ (j = 1 => i = 1)
        BY <2>1 DEF Buffered
      <4>2. k = 1 => j = 1
        <5>1. j \in Nat \ {0} /\ Len(files[name]) \in Nat
          BY <2>1 DEF Follows
        <5> QED
          BY <3>1, <5>1
      <4> QED
        BY <3>1, <4>1, <4>2
    <3> QED
      BY <2>1, <3>1 DEF Follows
  <2>4. name[2] \in Formats
    BY DEF Names
  <2>5. files'[name][1] = BOM
    <3>1. CASE 1 \in DOMAIN files[name]
      <4>1. files[name] # <<>>
        BY <2>2, <3>1, NonEmpty
      <4> QED
        BY <2>2, <3>1, <4>1 DEF HeaderOnTop
    <3>2. CASE 1 \notin DOMAIN files[name]
      <4>1. PICK s \in DOMAIN streams : streams[s].name = name /\ files[name] = <<>> /\
               1 \in DOMAIN streams[s].buffer /\ files'[name][1] = streams[s].buffer[1]
        BY <2>2, <2>3, <3>2
      <4>2. streams[s].buffer # <<>>
        BY <4>1
      <4>3. streams[s].buffer = <<BOM>>
        BY <4>1, <4>2 DEF BufferTop
      <4> QED
        BY <4>1, <4>3
    <3> QED
      BY <3>1, <3>2
  <2>6. ASSUME NEW k \in DOMAIN files'[name], files'[name][k] = Header(name[2])
        PROVE  k = 2
    <3>1. Header(name[2]) # BOM /\ Header(name[2]).msg = 0
      BY <2>4, HeaderIs
    <3>2. k \in DOMAIN files[name] /\ files'[name][k] = files[name][k]
      BY <2>3, <2>6, <3>1 DEF BufferTop
    <3>3. files[name] # <<>>
      BY <3>2
    <3> QED
      BY <2>6, <3>2, <3>3 DEF HeaderOnTop
  <2>7. ASSUME interrupted' = {}, NEW k \in DOMAIN files'[name], files'[name][k] = BOM
        PROVE  k = 1
    <3>1. k \in DOMAIN files[name] /\ files'[name][k] = files[name][k]
      BY <2>3, <2>7
    <3>2. files[name] # <<>>
      BY <3>1
    <3> QED
      BY <2>7, <3>1, <3>2 DEF HeaderOnTop
  <2>8. ASSUME interrupted' = {}
        PROVE  Len(files'[name]) >= 2 /\ files'[name][2] = Header(name[2])
    <3>1. files[name] # <<>>
      <4>1. ~ \E s \in DOMAIN streams : \E j \in DOMAIN streams[s].buffer : streams[s].buffer[j] = BOM
        BY <2>8
      <4>2. 1 \in DOMAIN files[name]
        BY <2>2, <2>3, <2>5, <4>1
      <4> QED
        BY <4>2
    <3>2. 2 \in DOMAIN files[name] /\ files[name][2] = Header(name[2])
      BY <2>2, <2>8, <3>1, NonEmpty DEF HeaderOnTop
    <3> QED
      BY <2>2, <3>2, NonEmpty
  <2> QED
    BY <2>5, <2>6, <2>7, <2>8
<1>4. BOM' = BOM /\ \A format : Header(format)' = Header(format)
  BY DEF BOM, Header
<1> QED
  BY <1>2, <1>3, <1>4 DEF HeaderOnTop

LEMMA ToppedSame ==
    ASSUME NEW f, Topped(f), UNCHANGED <<fetch, m_pFile, streams, files, interrupted>>
    PROVE  Topped(f)'
<1>1. BOM' = BOM /\ \A format : Header(format)' = Header(format)
  BY DEF BOM, Header
<1>2. OpenTop(f)' /\ BufferTop' /\ MarkTop(f)'
  BY <1>1 DEF Topped, OpenTop, BufferTop, MarkTop, Open
<1>3. HeaderOnTop'
  BY <1>1 DEF Topped, HeaderOnTop
<1> QED
  BY <1>2, <1>3 DEF Topped

(* A step that leaves streams and files alone.                              *)
LEMMA ToppedGoes ==
    ASSUME NEW f, Topped(f), UNCHANGED <<streams, files>>, interrupted \subseteq interrupted',
           OpenTop(f)', MarkTop(f)'
    PROVE  Topped(f)'
<1>1. BOM' = BOM /\ \A format : Header(format)' = Header(format)
  BY DEF BOM, Header
<1>2. BufferTop'
  BY <1>1 DEF Topped, BufferTop
<1>3. HeaderOnTop'
  BY <1>1 DEF Topped, HeaderOnTop
<1> QED
  BY <1>2, <1>3 DEF Topped

(* One that moves away from no mark, and to none.                           *)
LEMMA ToppedMoves ==
    ASSUME NEW f \in Fetchers, Topped(f), fetch[f].pc \notin {"peek", "bom", "header"},
           fetch'[f].pc \notin {"peek", "bom", "header"},
           UNCHANGED <<streams, files, m_pFile>>, interrupted \subseteq interrupted'
    PROVE  Topped(f)'
<1>1. BOM' = BOM
  BY DEF BOM
<1>2. OpenTop(f)'
  BY DEF Topped, OpenTop, Open
<1>3. MarkTop(f)'
  BY <1>1 DEF Topped, MarkTop
<1> QED
  BY <1>2, <1>3, ToppedGoes

LEMMA ToppedRests ==
    ASSUME NEW f \in Fetchers, Shape, Topped(f),
           Parse(f) \/ Decide(f) \/ Recent(f) \/ Save(f) \/ CheckFile(f)
    PROVE  Topped(f)'
<1>1. /\ HistoryTypeOK /\ UNCHANGED <<m_pFile, streams, files>>
      /\ fetch[f].pc \in {"idle", "decide", "recent", "save", "check"}
  BY DEF Shape, Parse, Decide, Recent, Save, CheckFile, At, fileVars
<1>2. interrupted \subseteq interrupted'
  <2>1. CASE Parse(f)
    BY <2>1 DEF Parse
  <2>2. CASE ~Parse(f)
    BY <2>2, Unchanged DEF Decide, Recent, Save, CheckFile
  <2> QED
    BY <2>1, <2>2
<1>3. fetch'[f].pc \notin {"peek", "bom", "header"}
  <2>1. CASE Parse(f)
    <3>1. fetch \in [Fetchers -> FetchType]
      BY <1>1, Types
    <3>2. PICK time \in Times, zone \in Zones, autoExport \in Settings :
             fetch' = [fetch EXCEPT ![f] = [pc |-> "decide", msg |-> count'.messages,
                                            day |-> Day(time, offset(zone)), format |-> autoExport]]
      BY <2>1 DEF Parse
    <3> QED
      BY <3>1, <3>2
  <2>2. CASE ~Parse(f)
    <3>1. \E p \in {"open", "recent", "save", "check", "write", "idle"} : Go(f, p)
      BY <2>2 DEF Decide, Recent, Save, CheckFile
    <3>2. PICK p \in {"open", "recent", "save", "check", "write", "idle"} : Moves(f, p)
      BY <1>1, <3>1, Points, GoMoves
    <3> QED
      BY <3>2 DEF Moves
  <2> QED
    BY <2>1, <2>2
<1> QED
  BY <1>1, <1>2, <1>3, ToppedMoves

LEMMA ToppedOpenFile == ASSUME NEW f \in Fetchers, Shape, Topped(f), OpenFile(f) PROVE Topped(f)'
<1>1. /\ HistoryTypeOK /\ fetch[f].pc = "open" /\ Moves(f, "peek")
      /\ UNCHANGED <<files, interrupted>> /\ fetch[f].format # "off"
  BY Points, GoMoves, Unchanged DEF Shape, Sound, OpenFile, At
<1>2. fetch[f].format \in Formats /\ fetch[f].day \in Days
  BY <1>1, Types DEF FetchType, Settings
<1> DEFINE stream == [name |-> <<fetch[f].day, fetch[f].format>>, buffer |-> <<>>, open |-> TRUE]
<1>3. stream \in StreamType /\ stream.buffer = <<>>
  <2> HIDE DEF Lines
  <2> QED
    BY <1>2, NoLines DEF StreamType, Names
<1>4. streams' = Append(streams, stream) /\ m_pFile' = Len(streams')
  BY DEF OpenFile
<1> HIDE DEF stream
<1>5. /\ DOMAIN streams' = DOMAIN streams \cup {m_pFile'}
      /\ streams'[m_pFile'] = stream
      /\ \A s \in DOMAIN streams : streams'[s] = streams[s]
  <2>1. streams \in Seq(StreamType)
    BY <1>1, Types
  <2> HIDE DEF StreamType
  <2> QED
    BY <1>3, <1>4, <2>1, StreamAdded
<1>6. DOMAIN <<>> = {} /\ BOM' = BOM /\ \A format : Header(format)' = Header(format)
  BY DEF BOM, Header
<1>7. OpenTop(f)'
  BY <1>1, <1>3, <1>5 DEF OpenTop, Moves
<1>8. BufferTop' /\ MarkTop(f)'
  BY <1>1, <1>3, <1>5, <1>6 DEF Topped, BufferTop, MarkTop
<1>9. HeaderOnTop'
  BY <1>1, <1>6 DEF Topped, HeaderOnTop
<1> QED
  BY <1>7, <1>8, <1>9 DEF Topped

LEMMA ToppedPeek == ASSUME NEW f \in Fetchers, Shape, Topped(f), Peek(f) PROVE Topped(f)'
<1>1. /\ HistoryTypeOK /\ fetch[f].pc = "peek"
      /\ UNCHANGED <<m_pFile, streams, files, interrupted>>
  BY Unchanged DEF Shape, Peek, At, Lost
<1>2. BOM' = BOM
  BY DEF BOM
<1>3. CASE Open(m_pFile)
  <2>1. CASE files[streams[m_pFile].name] = <<>>
    <3>1. Moves(f, "bom")
      BY <1>1, <1>3, <2>1, Points, GoMoves DEF Peek
    <3> QED
      BY <1>1, <1>2, <2>1, <3>1, ToppedGoes DEF Topped, OpenTop, MarkTop, Moves, Open
  <2>2. CASE files[streams[m_pFile].name] # <<>>
    <3>1. Moves(f, "recent")
      BY <1>1, <1>3, <2>2, Points, GoMoves DEF Peek
    <3> QED
      BY <1>1, <1>2, <2>2, <3>1, ToppedGoes DEF Topped, OpenTop, MarkTop, Moves, Open
  <2> QED
    BY <2>1, <2>2
<1>4. CASE ~Open(m_pFile)
  BY <1>1, <1>4, ToppedSame DEF Peek, Lost
<1> QED
  BY <1>3, <1>4

LEMMA ToppedWriteBOM == ASSUME NEW f \in Fetchers, Shape, Topped(f), WriteBOM(f) PROVE Topped(f)'
<1>1. HistoryTypeOK /\ fetch[f].pc = "bom" /\ UNCHANGED <<m_pFile, interrupted>>
  BY Unchanged DEF Shape, WriteBOM, At
<1>2. BOM' = BOM /\ \A format : Header(format)' = Header(format)
  BY DEF BOM, Header
<1>3. CASE Open(m_pFile)
  <2>1. Adds(BOM) /\ Moves(f, "header")
    BY <1>1, <1>3, Points, GoMoves, BOMIs, fwriteAdds DEF WriteBOM, Open
  <2>2. streams[m_pFile].buffer = <<>> /\ files[streams[m_pFile].name] = <<>>
    BY <1>1, <1>3 DEF Topped, OpenTop
  <2>3. /\ streams'[m_pFile].buffer = <<BOM>>
        /\ \A k \in DOMAIN streams'[m_pFile].buffer : streams'[m_pFile].buffer[k] = BOM
    <3>1. streams'[m_pFile].buffer = Append(<<>>, BOM)
      BY <2>1, <2>2 DEF Adds
    <3>2. Append(<<>>, BOM) = <<BOM>> /\ \A k \in DOMAIN <<BOM>> : <<BOM>>[k] = BOM
      OBVIOUS
    <3> QED
      BY <3>1, <3>2
  <2>4. OpenTop(f)'
    BY <1>1, <1>2, <2>1, <2>2, <2>3 DEF OpenTop, Moves, Adds
  <2>5. BufferTop'
    <3>1. ASSUME NEW s \in DOMAIN streams'
          PROVE  /\ \A k \in DOMAIN streams'[s].buffer :
                       streams'[s].buffer[k] = BOM \/ streams'[s].buffer[k].msg # 0
                 /\ files'[streams'[s].name] = <<>> /\ streams'[s].buffer # <<>> =>
                       streams'[s].buffer = <<BOM>>
      <4>1. CASE s = m_pFile
        BY <2>3, <4>1
      <4>2. CASE s # m_pFile
        BY <2>1, <4>2 DEF Topped, BufferTop, Adds
      <4> QED
        BY <4>1, <4>2
    <3> QED
      BY <1>2, <3>1 DEF BufferTop
  <2>6. MarkTop(f)'
    <3>1. \A s \in DOMAIN streams' : s # m_pFile => streams'[s] = streams[s] /\ s \in DOMAIN streams
      BY <2>1 DEF Adds
    <3> QED
      BY <1>1, <1>2, <2>1, <3>1 DEF Topped, MarkTop, Moves
  <2>7. HeaderOnTop'
    BY <1>1, <1>2, <2>1 DEF Topped, HeaderOnTop, Adds
  <2> QED
    BY <2>4, <2>5, <2>6, <2>7 DEF Topped
<1>4. CASE ~Open(m_pFile)
  BY <1>1, <1>4, ToppedSame DEF WriteBOM, Lost
<1> QED
  BY <1>3, <1>4

LEMMA ToppedWriteRow == ASSUME NEW f \in Fetchers, Shape, Topped(f), WriteRow(f) PROVE Topped(f)'
<1>1. /\ HistoryTypeOK /\ Sound(f) /\ fetch[f].pc = "write" /\ fetch[f].pc \in Writing
      /\ UNCHANGED <<m_pFile, interrupted>>
  BY Points, Unchanged DEF Shape, WriteRow, At
<1>2. BOM' = BOM /\ \A format : Header(format)' = Header(format)
  BY DEF BOM, Header
<1>3. CASE Open(m_pFile)
  <2>0. Row(f) \in Lines /\ Row(f).msg # 0 /\ Row(f) # BOM
    BY <1>1, RowIs, BOMIs, HistoryBounds DEF Messages
  <2>1. Adds(Row(f)) /\ Moves(f, "flush")
    BY <1>1, <1>3, <2>0, Points, GoMoves, fwriteAdds DEF WriteRow, Open, Row
  <2>2. files[streams[m_pFile].name] # <<>>
    BY <1>1, <1>3 DEF Topped, OpenTop
  <2>3. \A s \in DOMAIN streams' :
           /\ s \in DOMAIN streams /\ streams'[s].name = streams[s].name
           /\ s # m_pFile => streams'[s] = streams[s]
           /\ \A k \in DOMAIN streams'[s].buffer :
                 \/ streams'[s].buffer[k] = Row(f)
                 \/ k \in DOMAIN streams[s].buffer /\ streams'[s].buffer[k] = streams[s].buffer[k]
    BY <2>1 DEF Adds
  <2>4. OpenTop(f)'
    BY <1>1, <2>1, <2>2 DEF OpenTop, Moves, Adds
  <2>5. BufferTop'
    <3>1. ASSUME NEW s \in DOMAIN streams'
          PROVE  /\ \A k \in DOMAIN streams'[s].buffer :
                       streams'[s].buffer[k] = BOM \/ streams'[s].buffer[k].msg # 0
                 /\ files'[streams'[s].name] = <<>> /\ streams'[s].buffer # <<>> =>
                       streams'[s].buffer = <<BOM>>
      <4>1. \A k \in DOMAIN streams'[s].buffer :
               streams'[s].buffer[k] = BOM \/ streams'[s].buffer[k].msg # 0
        <5>1. ASSUME NEW k \in DOMAIN streams'[s].buffer
              PROVE  streams'[s].buffer[k] = BOM \/ streams'[s].buffer[k].msg # 0
          <6>1. CASE streams'[s].buffer[k] = Row(f)
            BY <2>0, <6>1
          <6>2. CASE k \in DOMAIN streams[s].buffer /\ streams'[s].buffer[k] = streams[s].buffer[k]
            BY <2>3, <6>2 DEF Topped, BufferTop
          <6> QED
            BY <2>3, <5>1, <6>1, <6>2
        <5> QED
          BY <5>1
      <4>2. files' = files
        BY <2>1 DEF Adds
      <4>3. CASE s = m_pFile
        BY <2>2, <2>3, <4>1, <4>2, <4>3
      <4>4. CASE s # m_pFile
        <5>1. streams'[s] = streams[s] /\ s \in DOMAIN streams
          BY <2>3, <4>4
        <5> QED
          BY <4>1, <4>2, <5>1 DEF Topped, BufferTop
      <4> QED
        BY <4>3, <4>4
    <3> QED
      BY <1>2, <3>1 DEF BufferTop
  <2>6. MarkTop(f)'
    <3>1. ASSUME interrupted = {}, NEW s \in DOMAIN streams',
                 NEW k \in DOMAIN streams'[s].buffer, streams'[s].buffer[k] = BOM
          PROVE  FALSE
      <4>1. k \in DOMAIN streams[s].buffer /\ streams[s].buffer[k] = BOM /\ s \in DOMAIN streams
        BY <2>0, <2>3, <3>1
      <4> QED
        BY <1>1, <3>1, <4>1 DEF Topped, MarkTop
    <3> QED
      BY <1>1, <1>2, <3>1 DEF MarkTop
  <2>7. HeaderOnTop'
    BY <1>1, <1>2, <2>1 DEF Topped, HeaderOnTop, Adds
  <2> QED
    BY <2>4, <2>5, <2>6, <2>7 DEF Topped
<1>4. CASE ~Open(m_pFile)
  BY <1>1, <1>4, ToppedSame DEF WriteRow, Lost
<1> QED
  BY <1>3, <1>4

LEMMA ToppedWriteHeader ==
    ASSUME NEW f \in Fetchers, Shape, Topped(f), Named(f), WriteHeader(f)
    PROVE  Topped(f)'
<1> HIDE DEF Lines, Names
<1>1. HistoryTypeOK /\ fetch[f].pc = "header" /\ UNCHANGED <<m_pFile, interrupted>>
  BY Unchanged DEF Shape, WriteHeader, At
<1>2. BOM' = BOM /\ \A format : Header(format)' = Header(format)
  BY DEF BOM, Header
<1>3. CASE m_pFile = NULL
  <2>1. UNCHANGED <<streams, files>> /\ Moves(f, "recent")
    BY <1>1, <1>3, Points, GoMoves DEF WriteHeader
  <2>2. interrupted # {}
    BY <1>1, <1>3, Points DEF Shape, Sound
  <2> QED
    BY <1>1, <1>2, <1>3, <2>1, <2>2, ToppedGoes DEF OpenTop, MarkTop, Open
<1>4. CASE m_pFile # NULL /\ ~Open(m_pFile)
  BY <1>1, <1>4, ToppedSame DEF WriteHeader, Lost
<1>5. CASE Open(m_pFile)
  <2> DEFINE name == streams[m_pFile].name
             header == Header(fetch[f].format)
             new == files'[name]
  <2>1. /\ Moves(f, "recent") /\ Drains /\ fetch[f].format \in Formats
        /\ m_pFile \in DOMAIN streams /\ name \in Names
        /\ streams'[m_pFile].name = name /\ streams'[m_pFile].buffer = <<>>
        /\ \A s \in DOMAIN streams : s # m_pFile => streams'[s] = streams[s]
        /\ Gets(name, new)
    BY <1>5, HeaderDrains
  <2>2. name[2] = fetch[f].format
    BY <1>1, <1>5 DEF Named, NamedAt, Open
  <2>3. files[name] = <<>> /\ streams[m_pFile].buffer = <<BOM>>
    BY <1>1, <1>5 DEF Topped, OpenTop
  <2>4. fflush(<<header>>)
    BY <1>1, <1>5 DEF WriteHeader, Open
  <2>5. new = <<BOM, header>>
    <3>1. Gets(name, files[name] \o streams[m_pFile].buffer \o <<header>>)
      BY <1>1, <1>5, <2>1, <2>4, HeaderIs, fflushWrites DEF Open
    <3>2. files[name] \o streams[m_pFile].buffer \o <<header>> = <<>> \o <<BOM>> \o <<header>>
      BY <2>3
    <3>3. <<>> \o <<BOM>> \o <<header>> = <<BOM, header>>
      BY <2>1, BOMIs, HeaderIs, Pair
    <3> QED
      BY <3>1, <3>2, <3>3 DEF Gets
  <2> HIDE DEF new, header
  <2>6. /\ new # <<>> /\ DOMAIN new = {1, 2} /\ Len(new) = 2 /\ new[1] = BOM /\ new[2] = header
    BY <2>5
  <2>7. header # BOM
    BY <2>1, HeaderIs DEF header
  <2>8. OpenTop(f)'
    BY <1>1, <2>1, <2>6 DEF OpenTop, Moves, new
  <2>9. BufferTop'
    <3>1. ASSUME NEW s \in DOMAIN streams, files'[streams[s].name] = <<>>
          PROVE  files[streams[s].name] = <<>>
      <4>1. streams[s].name \in Names /\ streams[s].name # name
        BY <1>1, <2>6, <3>1, Types, StreamHas DEF new
      <4> QED
        BY <2>1, <3>1, <4>1 DEF Gets
    <3> QED
      BY <2>1, <3>1, BufferTopDrains DEF Topped
  <2>10. MarkTop(f)'
    <3>1. DOMAIN <<>> = {}
      OBVIOUS
    <3> QED
      BY <1>1, <1>2, <2>1, <3>1 DEF Topped, MarkTop, Drains
  <2>11. HeaderOnTop'
    <3>1. ASSUME NEW other \in Names, files'[other] # <<>>
          PROVE  /\ files'[other][1] = BOM
                 /\ \A k \in DOMAIN files'[other] : files'[other][k] = Header(other[2]) => k = 2
                 /\ interrupted' = {} =>
                       /\ \A k \in DOMAIN files'[other] : files'[other][k] = BOM => k = 1
                       /\ Len(files'[other]) >= 2 /\ files'[other][2] = Header(other[2])
      <4>1. CASE other = name
        <5>1. files'[other] = new /\ Header(other[2]) = header
          BY <2>2, <4>1 DEF new, header
        <5>2. /\ new[1] = BOM
              /\ \A k \in DOMAIN new : new[k] = header => k = 2
              /\ \A k \in DOMAIN new : new[k] = BOM => k = 1
              /\ Len(new) >= 2 /\ new[2] = header
          BY <2>6, <2>7
        <5> QED
          BY <5>1, <5>2
      <4>2. CASE other # name
        BY <1>1, <2>1, <3>1, <4>2 DEF Topped, HeaderOnTop, Gets
      <4> QED
        BY <4>1, <4>2
    <3> QED
      BY <1>2, <3>1 DEF HeaderOnTop
  <2> QED
    BY <2>8, <2>9, <2>10, <2>11 DEF Topped
<1> QED
  BY <1>3, <1>4, <1>5

LEMMA ToppedFlush == ASSUME NEW f \in Fetchers, Shape, Topped(f), Flush(f) PROVE Topped(f)'
<1>1. /\ HistoryTypeOK /\ fetch[f].pc = "flush" /\ UNCHANGED <<m_pFile, interrupted>>
  BY Unchanged DEF Shape, Flush, At
<1>2. BOM' = BOM
  BY DEF BOM
<1>3. CASE Lost(f)
  BY <1>1, <1>3, ToppedSame DEF Lost
<1>4. CASE ~Lost(f)
  <2>1. Moves(f, "idle") /\ Drains /\ WritesBuffers
    BY <1>4, FlushDrains
  <2>2. BufferTop' /\ HeaderOnTop'
    BY <1>1, <2>1, ToppedFiles DEF Topped, MarkTop
  <2>3. OpenTop(f)'
    <3>1. ASSUME Open(m_pFile)'
          PROVE  files'[streams'[m_pFile].name] # <<>>
      <4>1. m_pFile \in DOMAIN streams'
        <5>1. m_pFile' \in {NULL} \cup DOMAIN streams'
          <6>1. HistoryTypeOK'
            BY ShapeFlush DEF Shape
          <6> QED
            BY <6>1 DEF HistoryTypeOK
        <5> QED
          BY <1>1, <3>1, <5>1 DEF Open
      <4>2. /\ m_pFile \in DOMAIN streams /\ streams'[m_pFile].name = streams[m_pFile].name
            /\ streams[m_pFile].open
        BY <1>1, <2>1, <3>1, <4>1 DEF Drains, Open
      <4>3. files[streams[m_pFile].name] # <<>>
        BY <1>1, <3>1, <4>2 DEF Topped, OpenTop, Open
      <4> QED
        BY <1>1, <2>1, <4>2, <4>3, Types, StreamHas, FilesGrow
    <3> QED
      BY <1>1, <2>1, <3>1 DEF OpenTop, Moves
  <2>4. MarkTop(f)'
    <3>1. DOMAIN <<>> = {}
      OBVIOUS
    <3>2. ASSUME interrupted = {}, NEW s \in DOMAIN streams',
                 NEW k \in DOMAIN streams'[s].buffer, streams'[s].buffer[k] = BOM
          PROVE  FALSE
      BY <1>1, <2>1, <3>1, <3>2 DEF Topped, MarkTop, Drains
    <3> QED
      BY <1>1, <1>2, <3>2 DEF MarkTop
  <2> QED
    BY <2>2, <2>3, <2>4 DEF Topped
<1> QED
  BY <1>3, <1>4

(* While no message is interrupted, nothing that ends or closes a stream    *)
(* comes upon a mark in a buffer.                                           *)
LEMMA NoMark ==
    ASSUME NEW f \in Fetchers, Shape, Topped(f), interrupted \cup Busy = {}
    PROVE  \A s \in DOMAIN streams : \A k \in DOMAIN streams[s].buffer : streams[s].buffer[k] # BOM
<1>1. fetch[f].pc = "idle" /\ interrupted = {}
  BY BusyIs
<1> QED
  BY <1>1 DEF Topped, MarkTop

LEMMA ToppedWindow ==
    ASSUME NEW f \in Fetchers, Shape, Topped(f), Disconnect \/ CloseFile \/ ForgetFile
    PROVE  Topped(f)'
<1>0. BOM' = BOM
  BY DEF BOM
<1>1. CASE Disconnect
  BY <1>1, ToppedSame DEF Disconnect, history
<1>2. CASE ForgetFile
  <2>1. /\ UNCHANGED <<fetch, streams, files>> /\ m_pFile' = NULL
        /\ interrupted' = interrupted \cup Busy
    BY <1>2 DEF ForgetFile
  <2>2. OpenTop(f)'
    BY <2>1 DEF OpenTop, Open
  <2>3. MarkTop(f)'
    BY <1>0, <2>1, NoMark DEF MarkTop
  <2> QED
    BY <2>1, <2>2, <2>3, ToppedGoes
<1>3. CASE CloseFile
  <2>1. /\ Drains /\ WritesBuffers /\ m_pFile' = m_pFile
        /\ interrupted' = interrupted \cup Busy
        /\ ~streams'[m_pFile].open
    BY <1>3, CloseDrains DEF CloseFile, Becomes, Closed
  <2>2. BufferTop' /\ HeaderOnTop'
    BY <2>1, NoMark, ToppedFiles DEF Topped
  <2>3. OpenTop(f)'
    BY <2>1 DEF OpenTop, Open
  <2>4. MarkTop(f)'
    <3>1. DOMAIN <<>> = {}
      OBVIOUS
    <3> QED
      BY <1>0, <2>1, <3>1, NoMark DEF MarkTop, Drains
  <2> QED
    BY <2>2, <2>3, <2>4 DEF Topped
<1> QED
  BY <1>1, <1>2, <1>3

LEMMA ToppedEnd ==
    ASSUME NEW f \in Fetchers, Shape, Topped(f), Exit \/ Crash
    PROVE  Topped(f)'
<1>1. StartAgain /\ m_pFile' = NULL
  BY DEF Exit, Crash, StartAgain
<1>2. Drains /\ DOMAIN streams' = {}
  BY <1>1, EndDrains
<1>3. OpenTop(f)' /\ MarkTop(f)' /\ BufferTop'
  BY <1>1, <1>2 DEF OpenTop, Open, MarkTop, BufferTop
<1>4. CASE Exit
  <2>1. WritesBuffers /\ interrupted' = interrupted \cup Busy
    BY <1>1, <1>4, EndDrains DEF Exit
  <2>2. HeaderOnTop'
    BY <1>2, <2>1, NoMark, ToppedFiles DEF Topped
  <2> QED
    BY <1>3, <2>2 DEF Topped
<1>5. CASE Crash
  <2>1. UNCHANGED <<files, interrupted>> /\ BOM' = BOM /\ \A format : Header(format)' = Header(format)
    BY <1>5 DEF Crash, BOM, Header
  <2>2. HeaderOnTop'
    BY <2>1 DEF Topped, HeaderOnTop
  <2> QED
    BY <1>3, <2>2 DEF Topped
<1> QED
  BY <1>4, <1>5

LEMMA ToppedInit == ASSUME Init, NEW f \in Fetchers PROVE Topped(f)
<1>1. DOMAIN streams = {} /\ \A name \in Names : files[name] = <<>>
  <2>1. streams = <<>> /\ files = [name \in Names |-> <<>>]
    BY DEF Init
  <2>2. DOMAIN <<>> = {}
    OBVIOUS
  <2> HIDE DEF Names
  <2> QED
    BY <2>1, <2>2
<1>2. m_pFile = NULL
  BY DEF Init
<1> QED
  BY <1>1, <1>2 DEF Topped, OpenTop, Open, BufferTop, MarkTop, HeaderOnTop

LEMMA ToppedNext ==
    ASSUME NEW f, Fetchers = {f}, Shape, Named(f), Topped(f), [Next]_vars
    PROVE  Topped(f)'
<1>1. CASE parseMessage(f)
  BY <1>1, ToppedRests, ToppedOpenFile, ToppedPeek, ToppedWriteBOM, ToppedWriteHeader,
     ToppedWriteRow, ToppedFlush DEF parseMessage
<1>2. CASE OpenFails(f)
  BY <1>2, ToppedEnd DEF OpenFails
<1>3. CASE UNCHANGED vars
  BY <1>3, ToppedSame DEF vars, history
<1> QED
  BY <1>1, <1>2, <1>3, ToppedWindow, ToppedEnd DEF Next

(* With one fetch thread, each file begins with the mark and has its header *)
(* in the next line and nowhere else, however often the program ends and    *)
(* starts again, as HeaderOnTop states it.                                  *)
THEOREM HeaderFirst ==
    ASSUME NEW f, Fetchers = {f}
    PROVE  Safety => []HeaderOnTop
<1>1. Init => Named(f) /\ Topped(f)
  BY NamedInit, ToppedInit
<1>2. Shape /\ Named(f) /\ Topped(f) /\ [Next]_vars => Named(f)' /\ Topped(f)'
  BY NamedNext, ToppedNext
<1>3. Topped(f) => HeaderOnTop
  BY DEF Topped
<1> QED
  BY <1>1, <1>2, <1>3, ShapeAlways, PTL DEF Safety

-----------------------------------------------------------------------------
(* With one fetch thread, each row is written once. *)

OnFile(n) == \E name \in Names : \E k \in DOMAIN files[name] : files[name][k].msg = n

InBuffer(n) ==
    \E s \in DOMAIN streams : \E k \in DOMAIN streams[s].buffer : streams[s].buffer[k].msg = n

(* A row is in a buffer only between its fwrite and its fflush, and the     *)
(* stream has not been changed since for another.                           *)
RowBuffers(f) ==
    \A s \in DOMAIN streams : \A k \in DOMAIN streams[s].buffer :
        streams[s].buffer[k].msg # 0 =>
            /\ fetch[f].pc = "flush" /\ streams[s].buffer[k].msg = fetch[f].msg
            /\ m_pFile = NULL \/ s = m_pFile

(* No more than one row is in a buffer.                                     *)
OneBuffered ==
    \A s, t \in DOMAIN streams :
        \A j \in DOMAIN streams[s].buffer, l \in DOMAIN streams[t].buffer :
            streams[s].buffer[j].msg # 0 /\ streams[t].buffer[l].msg # 0 => s = t /\ j = l

(* A row on the disk is one of a message that was to be exported, that has  *)
(* got so far and is kept back nowhere.                                     *)
MayBeOnFile(f, n) ==
    /\ n <= count.messages /\ exported[n] # "off"
    /\ fetch[f].pc \notin {"idle", "flush"} => n # fetch[f].msg

RowFiles(f) == \A n \in Messages : OnFile(n) => MayBeOnFile(f, n) /\ ~InBuffer(n)

(* No two rows on the disk are of the same message.                         *)
OnePlace ==
    \A a, b \in Names : \A k \in DOMAIN files[a], l \in DOMAIN files[b] :
        files[a][k].msg # 0 /\ files[a][k].msg = files[b][l].msg => a = b /\ k = l

(* parseMessage has a stream to write to unless it was interrupted, and     *)
(* what it has written is in the buffer.                                    *)
KeptAt(f) ==
    /\ fetch[f].pc # "idle" =>
          fetch[f].msg = count.messages /\ fetch[f].format = exported[count.messages]
    /\ fetch[f].pc \in {"recent", "save"} /\ fetch[f].format # "off" /\ m_pFile = NULL =>
          fetch[f].msg \in interrupted
    /\ fetch[f].pc = "check" /\ m_pFile = NULL => fetch[f].msg \in interrupted
    /\ fetch[f].pc = "flush" /\ fetch[f].msg \notin interrupted =>
          \E k \in DOMAIN streams[m_pFile].buffer : streams[m_pFile].buffer[k].msg = fetch[f].msg

(* The messages whose rows should be on the disk are there.                 *)
KeptRows(f) ==
    \A n \in 1 .. count.messages :
        /\ exported[n] # "off" /\ n \notin interrupted \cup killed
        /\ fetch[f].pc = "idle" \/ n # fetch[f].msg
        => OnFile(n)

Rows(f) == RowBuffers(f) /\ OneBuffered /\ RowFiles(f) /\ OnePlace

(* The inductive invariant for EveryRowSaved.                               *)
Kept(f) == Rows(f) /\ KeptAt(f) /\ KeptRows(f)

(* Steps that write nothing of a row and take none away.                    *)
SameRows ==
    /\ \A name \in Names : \A k \in DOMAIN files'[name] :
          files'[name][k].msg # 0 => k \in DOMAIN files[name] /\ files'[name][k] = files[name][k]
    /\ \A name \in Names : \A k \in DOMAIN files[name] :
          k \in DOMAIN files'[name] /\ files'[name][k] = files[name][k]

LEMMA SameFiles ==
    ASSUME UNCHANGED files
    PROVE  SameRows
BY DEF SameRows

LEMMA OnFileStays ==
    ASSUME SameRows
    PROVE  /\ \A n : OnFile(n) => OnFile(n)'
           /\ \A n \in Messages : OnFile(n)' => OnFile(n)
           /\ OnePlace => OnePlace'
<1>1. \A n : OnFile(n) => OnFile(n)'
  BY DEF SameRows, OnFile
<1>3. \A n \in Messages : OnFile(n)' => OnFile(n)
  <2>1. \A n \in Messages : n # 0
    BY HistoryBounds DEF Messages
  <2> QED
    BY <2>1 DEF SameRows, OnFile
<1>2. ASSUME OnePlace,
             NEW a \in Names, NEW b \in Names, NEW k \in DOMAIN files'[a], NEW l \in DOMAIN files'[b],
             files'[a][k].msg # 0, files'[a][k].msg = files'[b][l].msg
      PROVE  a = b /\ k = l
  <2>1. /\ k \in DOMAIN files[a] /\ files'[a][k] = files[a][k]
        /\ l \in DOMAIN files[b] /\ files'[b][l] = files[b][l]
    BY <1>2 DEF SameRows
  <2> QED
    BY <1>2, <2>1 DEF OnePlace
<1> QED
  BY <1>1, <1>2, <1>3 DEF OnePlace

(* No row is in a buffer before and after.                                  *)
NoRows == \A s \in DOMAIN streams : \A k \in DOMAIN streams[s].buffer : streams[s].buffer[k].msg = 0

LEMMA NoRowsThen ==
    ASSUME NEW f, RowBuffers(f), fetch[f].pc # "flush"
    PROVE  NoRows
BY DEF RowBuffers, NoRows

LEMMA NoRowsDrain ==
    ASSUME NoRows, Drains
    PROVE  NoRows'
<1>1. DOMAIN <<>> = {}
  OBVIOUS
<1> QED
  BY <1>1 DEF NoRows, Drains

LEMMA RowsWithout ==
    ASSUME NEW f, NoRows', OnePlace', \A n \in Messages : OnFile(n)' => MayBeOnFile(f, n)'
    PROVE  Rows(f)'
<1>1. RowBuffers(f)' /\ OneBuffered'
  BY DEF NoRows, RowBuffers, OneBuffered
<1>2. \A n \in Messages : ~InBuffer(n)'
  <2>1. \A n \in Messages : n # 0
    BY HistoryBounds DEF Messages
  <2> QED
    BY <2>1 DEF NoRows, InBuffer
<1>3. Messages' = Messages
  BY DEF Messages
<1>4. RowFiles(f)'
  BY <1>2, <1>3 DEF RowFiles
<1> QED
  BY <1>1, <1>4 DEF Rows

LEMMA KeptSame ==
    ASSUME NEW f, Kept(f),
           UNCHANGED <<fetch, m_pFile, streams, files, exported, interrupted, killed>>,
           count'.messages = count.messages
    PROVE  Kept(f)'
<1>1. RowBuffers(f)' /\ OneBuffered' /\ OnePlace'
  BY DEF Kept, Rows, RowBuffers, OneBuffered, OnePlace
<1>2. RowFiles(f)'
  BY DEF Kept, Rows, RowFiles, MayBeOnFile, InBuffer, OnFile, Messages
<1>3. KeptAt(f)' /\ KeptRows(f)'
  BY DEF Kept, KeptAt, KeptRows, OnFile
<1> QED
  BY <1>1, <1>2, <1>3 DEF Kept, Rows

(* A step of parseMessage with no row in a buffer, before or after.         *)
LEMMA KeptMoves ==
    ASSUME NEW f \in Fetchers, Kept(f), NEW p, Moves(f, p),
           fetch[f].pc \notin {"idle", "flush"}, p # "flush",
           SameRows, NoRows', UNCHANGED <<count, exported, interrupted, killed>>,
           p \in {"recent", "save"} /\ fetch[f].format # "off" /\ m_pFile' = NULL =>
              fetch[f].msg \in interrupted,
           p = "check" /\ m_pFile' = NULL => fetch[f].msg \in interrupted,
           p = "idle" => fetch[f].format = "off" \/ fetch[f].msg \in interrupted
    PROVE  Kept(f)'
<1>1. /\ fetch'[f].pc = p /\ fetch'[f].msg = fetch[f].msg /\ fetch'[f].format = fetch[f].format
      /\ fetch[f].msg = count.messages /\ fetch[f].format = exported[count.messages]
  BY DEF Moves, Kept, KeptAt
<1>2. KeptAt(f)'
  BY <1>1 DEF KeptAt
<1>3. KeptRows(f)'
  BY <1>1, OnFileStays DEF Kept, KeptRows
<1>4. ASSUME NEW n \in Messages, OnFile(n)' PROVE MayBeOnFile(f, n)'
  <2>1. MayBeOnFile(f, n)
    BY <1>4, OnFileStays DEF Kept, Rows, RowFiles
  <2> QED
    BY <1>1, <2>1 DEF MayBeOnFile
<1>5. Rows(f)'
  BY <1>4, OnFileStays, RowsWithout DEF Kept, Rows
<1> QED
  BY <1>2, <1>3, <1>5 DEF Kept

(* Without a row in a buffer, a step that leaves streams and files alone.   *)
LEMMA KeptGoes ==
    ASSUME NEW f \in Fetchers, Kept(f), NEW p, Moves(f, p),
           fetch[f].pc \notin {"idle", "flush"}, p # "flush",
           UNCHANGED <<streams, files, count, exported, interrupted, killed>>,
           p \in {"recent", "save"} /\ fetch[f].format # "off" /\ m_pFile' = NULL =>
              fetch[f].msg \in interrupted,
           p = "check" /\ m_pFile' = NULL => fetch[f].msg \in interrupted,
           p = "idle" => fetch[f].format = "off" \/ fetch[f].msg \in interrupted
    PROVE  Kept(f)'
<1>1. NoRows'
  BY NoRowsThen, SameDrains, NoRowsDrain DEF Kept, Rows
<1> QED
  BY <1>1, SameFiles, KeptMoves

LEMMA KeptParse == ASSUME NEW f \in Fetchers, Shape, Kept(f), Parse(f) PROVE Kept(f)'
<1>1. /\ fetch[f].pc = "idle" /\ HistoryTypeOK /\ count \in CountType
      /\ exported \in Seq(Settings) /\ Len(exported) = count.messages
      /\ UNCHANGED <<m_pFile, streams, files, killed>>
      /\ interrupted \subseteq interrupted'
      /\ count' = [count EXCEPT !.messages = count.messages + 1]
  BY DEF Shape, Counted, Parse, At
<1>2. PICK time \in Times, zone \in Zones, autoExport \in Settings :
         /\ fetch' = [fetch EXCEPT ![f] = [pc |-> "decide", msg |-> count'.messages,
                                           day |-> Day(time, offset(zone)), format |-> autoExport]]
         /\ exported' = Append(exported, autoExport)
  BY DEF Parse
<1> DEFINE c == count.messages
<1>3. c \in Nat /\ count'.messages = c + 1
  BY <1>1, HistoryBounds DEF CountType
<1>4. /\ fetch'[f].pc = "decide" /\ fetch'[f].msg = c + 1 /\ fetch'[f].format = autoExport
  <2>1. fetch \in [Fetchers -> FetchType]
    BY <1>1, Types
  <2> QED
    BY <1>2, <1>3, <2>1
<1>5. exported'[c + 1] = autoExport /\ \A n \in 1 .. c : exported'[n] = exported[n]
  BY <1>1, <1>2, <1>3
<1> HIDE DEF c
<1>6. NoRows'
  BY <1>1, NoRowsThen, SameDrains, NoRowsDrain DEF Kept, Rows
<1>7. ASSUME NEW n \in Messages, OnFile(n)' PROVE MayBeOnFile(f, n)'
  <2>1. MayBeOnFile(f, n)
    BY <1>1, <1>7, SameFiles, OnFileStays DEF Kept, Rows, RowFiles
  <2>2. n \in 1 .. c /\ exported[n] # "off"
    BY <1>3, <2>1, HistoryBounds DEF MayBeOnFile, Messages, c
  <2>3. n <= c + 1 /\ n # c + 1
    BY <1>3, <2>2
  <2> QED
    BY <1>3, <1>4, <1>5, <2>2, <2>3 DEF MayBeOnFile
<1>8. Rows(f)'
  BY <1>1, <1>6, <1>7, SameFiles, OnFileStays, RowsWithout DEF Kept, Rows
<1>9. KeptAt(f)'
  BY <1>3, <1>4, <1>5 DEF KeptAt
<1>10. ASSUME NEW n \in 1 .. count'.messages, exported'[n] # "off", n \notin interrupted' \cup killed',
              fetch'[f].pc = "idle" \/ n # fetch'[f].msg
       PROVE  OnFile(n)'
  <2>1. n \in 1 .. c
    BY <1>3, <1>4, <1>10
  <2>2. OnFile(n)
    BY <1>1, <1>5, <1>10, <2>1 DEF Kept, KeptRows, c
  <2> QED
    BY <1>1, <2>2, SameFiles, OnFileStays
<1>11. KeptRows(f)'
  BY <1>10 DEF KeptRows
<1> QED
  BY <1>8, <1>9, <1>11 DEF Kept

LEMMA KeptRests ==
    ASSUME NEW f \in Fetchers, Shape, Kept(f), Decide(f) \/ Recent(f) \/ Save(f) \/ CheckFile(f)
    PROVE  Kept(f)'
<1>1. /\ HistoryTypeOK /\ UNCHANGED <<m_pFile, streams, files>>
      /\ UNCHANGED <<count, exported, interrupted, killed>>
  BY Unchanged DEF Shape, Decide, Recent, Save, CheckFile
<1>2. CASE Decide(f)
  <2>1. CASE createNewFile(f)
    <3>1. Moves(f, "open") /\ fetch[f].pc = "decide"
      BY <1>1, <1>2, <2>1, Points, GoMoves DEF Decide, At
    <3> QED
      BY <1>1, <3>1, KeptGoes
  <2>2. CASE ~createNewFile(f)
    <3>1. Moves(f, "recent") /\ fetch[f].pc = "decide"
      BY <1>1, <1>2, <2>2, Points, GoMoves DEF Decide, At
    <3>2. fetch[f].format # "off" => m_pFile # NULL
      BY <2>2 DEF createNewFile
    <3> QED
      BY <1>1, <3>1, <3>2, KeptGoes
  <2> QED
    BY <2>1, <2>2
<1>3. CASE Recent(f)
  <2>1. Moves(f, "save") /\ fetch[f].pc = "recent"
    BY <1>1, <1>3, Points, GoMoves DEF Recent, At
  <2> QED
    BY <1>1, <2>1, KeptGoes DEF Kept, KeptAt
<1>4. CASE Save(f)
  <2>0. fetch[f].pc = "save"
    BY <1>4 DEF Save, At
  <2>1. CASE m_pFile # NULL /\ fetch[f].format # "off"
    <3>1. Moves(f, "check")
      BY <1>1, <1>4, <2>1, Points, GoMoves DEF Save
    <3> QED
      BY <1>1, <2>0, <2>1, <3>1, KeptGoes
  <2>2. CASE ~(m_pFile # NULL /\ fetch[f].format # "off")
    <3>1. Moves(f, "idle")
      BY <1>1, <1>4, <2>2, Points, GoMoves DEF Save
    <3> QED
      BY <1>1, <2>0, <2>2, <3>1, KeptGoes DEF Kept, KeptAt
  <2> QED
    BY <2>1, <2>2
<1>5. CASE CheckFile(f)
  <2>0. fetch[f].pc = "check"
    BY <1>5 DEF CheckFile, At
  <2>1. CASE m_pFile # NULL
    <3>1. Moves(f, "write")
      BY <1>1, <1>5, <2>1, Points, GoMoves DEF CheckFile
    <3> QED
      BY <1>1, <2>0, <3>1, KeptGoes
  <2>2. CASE m_pFile = NULL
    <3>1. Moves(f, "idle")
      BY <1>1, <1>5, <2>2, Points, GoMoves DEF CheckFile
    <3> QED
      BY <1>1, <2>0, <2>2, <3>1, KeptGoes DEF Kept, KeptAt
  <2> QED
    BY <2>1, <2>2
<1> QED
  BY <1>2, <1>3, <1>4, <1>5

LEMMA KeptOpenFile == ASSUME NEW f \in Fetchers, Shape, Kept(f), OpenFile(f) PROVE Kept(f)'
<1>1. /\ HistoryTypeOK /\ fetch[f].pc = "open" /\ Moves(f, "peek")
      /\ UNCHANGED <<files, count, exported, interrupted, killed>> /\ fetch[f].format # "off"
  BY Points, GoMoves, Unchanged DEF Shape, Sound, OpenFile, At
<1>2. fetch[f].format \in Formats /\ fetch[f].day \in Days
  BY <1>1, Types DEF FetchType, Settings
<1> DEFINE stream == [name |-> <<fetch[f].day, fetch[f].format>>, buffer |-> <<>>, open |-> TRUE]
<1>3. stream \in StreamType /\ stream.buffer = <<>>
  <2> HIDE DEF Lines
  <2> QED
    BY <1>2, NoLines DEF StreamType, Names
<1>4. streams' = Append(streams, stream) /\ m_pFile' = Len(streams')
  BY DEF OpenFile
<1> HIDE DEF stream
<1>5. /\ DOMAIN streams' = DOMAIN streams \cup {m_pFile'}
      /\ streams'[m_pFile'] = stream
      /\ \A s \in DOMAIN streams : streams'[s] = streams[s]
  <2>1. streams \in Seq(StreamType)
    BY <1>1, Types
  <2> HIDE DEF StreamType
  <2> QED
    BY <1>3, <1>4, <2>1, StreamAdded
<1>6. NoRows'
  <2>1. DOMAIN <<>> = {}
    OBVIOUS
  <2>2. NoRows
    BY <1>1, NoRowsThen DEF Kept, Rows
  <2> QED
    BY <1>3, <1>5, <2>1, <2>2 DEF NoRows
<1> QED
  BY <1>1, <1>6, SameFiles, KeptMoves

LEMMA KeptPeek == ASSUME NEW f \in Fetchers, Shape, Kept(f), Peek(f) PROVE Kept(f)'
<1>1. /\ HistoryTypeOK /\ fetch[f].pc = "peek"
      /\ UNCHANGED <<m_pFile, streams, files, count, exported, interrupted, killed>>
  BY Unchanged DEF Shape, Peek, At, Lost
<1>2. CASE Open(m_pFile)
  <2>1. \E p \in {"bom", "recent"} : Go(f, p)
    BY <1>2 DEF Peek
  <2>2. PICK p \in {"bom", "recent"} : Moves(f, p)
    BY <1>1, <2>1, Points, GoMoves
  <2> QED
    BY <1>1, <1>2, <2>2, KeptGoes DEF Open
<1>3. CASE ~Open(m_pFile)
  BY <1>1, <1>3, KeptSame DEF Peek, Lost
<1> QED
  BY <1>2, <1>3

LEMMA KeptWriteBOM == ASSUME NEW f \in Fetchers, Shape, Kept(f), WriteBOM(f) PROVE Kept(f)'
<1>1. /\ HistoryTypeOK /\ fetch[f].pc = "bom"
      /\ UNCHANGED <<m_pFile, count, exported, interrupted, killed>>
  BY Unchanged DEF Shape, WriteBOM, At
<1>2. CASE Open(m_pFile)
  <2>1. Adds(BOM) /\ Moves(f, "header")
    BY <1>1, <1>2, Points, GoMoves, BOMIs, fwriteAdds DEF WriteBOM, Open
  <2>2. NoRows
    BY <1>1, NoRowsThen DEF Kept, Rows
  <2>3. NoRows'
    <3>1. ASSUME NEW s \in DOMAIN streams', NEW k \in DOMAIN streams'[s].buffer
          PROVE  streams'[s].buffer[k].msg = 0
      <4>1. CASE s # m_pFile
        BY <2>1, <2>2, <4>1 DEF NoRows, Adds
      <4>2. CASE s = m_pFile /\ k \in DOMAIN streams[s].buffer
        BY <2>1, <2>2, <4>2 DEF NoRows, Adds
      <4>3. CASE s = m_pFile /\ k \notin DOMAIN streams[s].buffer
        <5>1. streams'[s].buffer[k] = BOM
          BY <2>1, <3>1, <4>3 DEF Adds
        <5> QED
          BY <5>1, BOMIs
      <4> QED
        BY <4>1, <4>2, <4>3
    <3> QED
      BY <3>1 DEF NoRows
  <2>4. files' = files
    BY <2>1 DEF Adds
  <2> QED
    BY <1>1, <2>1, <2>3, <2>4, SameFiles, KeptMoves
<1>3. CASE ~Open(m_pFile)
  BY <1>1, <1>3, KeptSame DEF WriteBOM, Lost
<1> QED
  BY <1>2, <1>3

LEMMA KeptWriteHeader == ASSUME NEW f \in Fetchers, Shape, Kept(f), WriteHeader(f) PROVE Kept(f)'
<1> HIDE DEF Lines, Names
<1>1. /\ HistoryTypeOK /\ fetch[f].pc = "header"
      /\ UNCHANGED <<m_pFile, count, exported, interrupted, killed>>
  BY Unchanged DEF Shape, WriteHeader, At
<1>2. CASE m_pFile = NULL
  <2>1. UNCHANGED <<streams, files>> /\ Moves(f, "recent")
    BY <1>1, <1>2, Points, GoMoves DEF WriteHeader
  <2>2. fetch[f].msg \in interrupted
    BY <1>1, <1>2, Points DEF Shape, Sound
  <2> QED
    BY <1>1, <2>1, <2>2, KeptGoes
<1>3. CASE m_pFile # NULL /\ ~Open(m_pFile)
  BY <1>1, <1>3, KeptSame DEF WriteHeader, Lost
<1>4. CASE Open(m_pFile)
  <2> DEFINE name == streams[m_pFile].name
             header == Header(fetch[f].format)
  <2>1. /\ Moves(f, "recent") /\ Drains /\ fetch[f].format \in Formats
        /\ m_pFile \in DOMAIN streams /\ name \in Names /\ Gets(name, files'[name])
    BY <1>4, HeaderDrains
  <2>2. PICK both \in Seq(Lines) :
           /\ Follows(Lines, files[name], streams[m_pFile].buffer, both)
           /\ Follows(Lines, both, <<header>>, files'[name])
    BY <1>4, HeaderDrains
  <2>3. NoRows
    BY <1>1, NoRowsThen DEF Kept, Rows
  <2>4. header.msg = 0 /\ \A j \in DOMAIN <<header>> : <<header>>[j] = header
    BY <2>1, HeaderIs
  <2> HIDE DEF header
  <2>5. \A k \in DOMAIN both :
           \/ k \in DOMAIN files[name] /\ both[k] = files[name][k]
           \/ both[k].msg = 0
    BY <2>1, <2>2, <2>3 DEF Follows, NoRows
  <2>6. \A k \in DOMAIN files'[name] :
           \/ k \in DOMAIN both /\ files'[name][k] = both[k]
           \/ files'[name][k].msg = 0
    BY <2>2, <2>4 DEF Follows
  <2>7. \A k \in DOMAIN files[name] : k \in DOMAIN files'[name] /\ files'[name][k] = files[name][k]
    BY <2>2 DEF Follows
  <2>8. SameRows
    <3>1. ASSUME NEW other \in Names
          PROVE  /\ \A k \in DOMAIN files'[other] : files'[other][k].msg # 0 =>
                       k \in DOMAIN files[other] /\ files'[other][k] = files[other][k]
                 /\ \A k \in DOMAIN files[other] :
                       k \in DOMAIN files'[other] /\ files'[other][k] = files[other][k]
      <4>1. CASE other = name
        BY <2>5, <2>6, <2>7, <4>1
      <4>2. CASE other # name
        BY <2>1, <4>2 DEF Gets
      <4> QED
        BY <4>1, <4>2
    <3> QED
      BY <3>1 DEF SameRows
  <2>9. NoRows'
    BY <2>1, <2>3, NoRowsDrain
  <2> QED
    BY <1>1, <1>4, <2>1, <2>8, <2>9, KeptMoves DEF Open
<1> QED
  BY <1>2, <1>3, <1>4

(* Writing out what buffers have writes no row twice.                       *)
LEMMA RowsWritten ==
    ASSUME Shape, NEW f \in Fetchers, Kept(f), WritesBuffers
    PROVE  /\ OnePlace'
           /\ \A n : OnFile(n) => OnFile(n)'
           /\ \A n \in Messages : OnFile(n)' => MayBeOnFile(f, n)
<1> HIDE DEF Lines, Names
<1> DEFINE Old(name, k) == k \in DOMAIN files[name] /\ files'[name][k] = files[name][k]
           New(name, k) == \E s \in DOMAIN streams :
              streams[s].name = name /\
              \E j \in DOMAIN streams[s].buffer : files'[name][k] = streams[s].buffer[j]
<1>1. HistoryTypeOK /\ streams \in Seq(StreamType)
  BY Types DEF Shape
<1>2. ASSUME NEW name \in Names
      PROVE  /\ \A k \in DOMAIN files'[name] : Old(name, k) \/ New(name, k)
             /\ \A k, l \in DOMAIN files'[name] :
                   /\ ~Old(name, k) /\ files'[name][k].msg # 0
                   /\ ~Old(name, l) /\ files'[name][l].msg # 0
                   => k = l
  <2>1. PICK out \in Seq(Lines) :
           Follows(Lines, files[name], out, files'[name]) /\ Buffered(name, out)
    BY DEF WritesBuffers
  <2>2. \A k \in DOMAIN files'[name] :
           \/ Old(name, k)
           \/ \E j \in DOMAIN out : k = Len(files[name]) + j /\ files'[name][k] = out[j]
    BY <2>1 DEF Follows
  <2>3. \A j \in DOMAIN out : \E s \in DOMAIN streams :
           streams[s].name = name /\ \E i \in DOMAIN streams[s].buffer : out[j] = streams[s].buffer[i]
    BY <2>1 DEF Buffered
  <2>4. \A j, l \in DOMAIN out : out[j].msg # 0 /\ out[l].msg # 0 => j = l
    <3> DEFINE T == {line \in Lines : line.msg # 0}
    <3>1. \A s, t \in DOMAIN streams :
             \A j \in DOMAIN streams[s].buffer, l \in DOMAIN streams[t].buffer :
                streams[s].buffer[j] \in T /\ streams[t].buffer[l] \in T => s = t /\ j = l
      BY DEF Kept, Rows, OneBuffered
    <3>2. T \in SUBSET Lines /\ \A j \in DOMAIN out : out[j].msg # 0 => out[j] \in T
      BY <2>1
    <3> HIDE DEF T
    <3>3. \A j, l \in DOMAIN out : out[j] \in T /\ out[l] \in T => j = l
      BY <2>1, <3>1, <3>2 DEF Buffered
    <3> QED
      BY <3>2, <3>3
  <2>5. \A k \in DOMAIN files'[name] : Old(name, k) \/ New(name, k)
    BY <2>2, <2>3
  <2>6. \A k, l \in DOMAIN files'[name] :
           /\ ~Old(name, k) /\ files'[name][k].msg # 0
           /\ ~Old(name, l) /\ files'[name][l].msg # 0
           => k = l
    <3> HIDE DEF Old
    <3> QED
      BY <2>2, <2>4
  <2> QED
    BY <2>5, <2>6
<1>3. ASSUME NEW name \in Names, NEW k \in DOMAIN files'[name], New(name, k), files'[name][k].msg # 0
      PROVE  /\ fetch[f].pc = "flush" /\ files'[name][k].msg = fetch[f].msg
             /\ InBuffer(files'[name][k].msg)
             /\ \A other \in Names : \A l \in DOMAIN files'[other] :
                   New(other, l) /\ files'[other][l].msg # 0 => other = name
  <2>1. PICK s \in DOMAIN streams : streams[s].name = name /\
           \E j \in DOMAIN streams[s].buffer : files'[name][k] = streams[s].buffer[j]
    BY <1>3
  <2>2. fetch[f].pc = "flush" /\ files'[name][k].msg = fetch[f].msg
    BY <1>3, <2>1 DEF Kept, Rows, RowBuffers
  <2>3. InBuffer(files'[name][k].msg)
    BY <2>1 DEF InBuffer
  <2>4. ASSUME NEW other \in Names, NEW l \in DOMAIN files'[other], New(other, l),
               files'[other][l].msg # 0
        PROVE  other = name
    <3>1. PICK t \in DOMAIN streams : streams[t].name = other /\
             \E j \in DOMAIN streams[t].buffer : files'[other][l] = streams[t].buffer[j]
      BY <2>4
    <3>2. s = t
      BY <1>3, <2>1, <2>4, <3>1 DEF Kept, Rows, OneBuffered
    <3> QED
      BY <2>1, <3>1, <3>2
  <2> QED
    BY <2>2, <2>3, <2>4
<1>4. ASSUME NEW name \in Names, NEW k \in DOMAIN files'[name], Old(name, k), files'[name][k].msg # 0
      PROVE  /\ OnFile(files'[name][k].msg) /\ ~InBuffer(files'[name][k].msg)
  <2>1. k \in DOMAIN files[name] /\ files'[name][k] = files[name][k]
    BY <1>4
  <2>2. OnFile(files'[name][k].msg)
    BY <2>1 DEF OnFile
  <2>3. files'[name][k].msg \in Messages
    <3>1. files[name][k] \in Lines
      <4>1. files[name] \in Seq(Lines)
        BY <1>1, Types
      <4> QED
        BY <2>1, <4>1
    <3> QED
      BY <1>4, <2>1, <3>1, HistoryBounds DEF Lines, Messages
  <2> QED
    BY <2>2, <2>3 DEF Kept, Rows, RowFiles
<1>5. \A name \in Names : \A k \in DOMAIN files[name] : k \in DOMAIN files'[name] /\ Old(name, k)
  BY <1>1, FilesGrow
<1>6. \A n : OnFile(n) => OnFile(n)'
  BY <1>5 DEF OnFile
<1>7. ASSUME NEW n \in Messages, OnFile(n)'
      PROVE  MayBeOnFile(f, n)
  <2>1. PICK name \in Names : \E k \in DOMAIN files'[name] : files'[name][k].msg = n
    BY <1>7 DEF OnFile
  <2>2. PICK k \in DOMAIN files'[name] : files'[name][k].msg = n
    BY <2>1
  <2>3. n # 0
    BY HistoryBounds DEF Messages
  <2>4. CASE Old(name, k)
    BY <1>4, <2>2, <2>3, <2>4 DEF Kept, Rows, RowFiles
  <2>5. CASE New(name, k)
    <3>1. fetch[f].pc = "flush" /\ n = fetch[f].msg
      BY <1>3, <2>2, <2>3, <2>5
    <3>2. n = count.messages /\ fetch[f].format = exported[n] /\ fetch[f].format # "off"
      BY <3>1, Points DEF Kept, KeptAt, Shape, Sound
    <3>3. n <= count.messages
      BY <3>2, HistoryBounds DEF Messages
    <3> QED
      BY <3>1, <3>2, <3>3 DEF MayBeOnFile
  <2> QED
    BY <1>2, <2>4, <2>5
<1> HIDE DEF Old, New
<1>8. ASSUME NEW a \in Names, NEW b \in Names, NEW k \in DOMAIN files'[a], NEW l \in DOMAIN files'[b],
             files'[a][k].msg # 0, files'[a][k].msg = files'[b][l].msg
      PROVE  a = b /\ k = l
  <2>1. CASE Old(a, k) /\ Old(b, l)
    BY <1>8, <2>1 DEF Old, Kept, Rows, OnePlace
  <2>2. CASE ~Old(a, k) /\ ~Old(b, l)
    <3>1. New(a, k) /\ New(b, l)
      BY <1>2, <2>2
    <3>2. a = b
      BY <1>3, <1>8, <3>1
    <3> QED
      BY <1>2, <1>8, <2>2, <3>2
  <2>3. CASE ~Old(a, k) /\ Old(b, l)
    <3>1. InBuffer(files'[a][k].msg)
      BY <1>2, <1>3, <1>8, <2>3
    <3>2. ~InBuffer(files'[b][l].msg)
      BY <1>4, <1>8, <2>3
    <3> QED
      BY <1>8, <3>1, <3>2
  <2>4. CASE Old(a, k) /\ ~Old(b, l)
    <3>1. InBuffer(files'[b][l].msg)
      BY <1>2, <1>3, <1>8, <2>4
    <3>2. ~InBuffer(files'[a][k].msg)
      BY <1>4, <1>8, <2>4
    <3> QED
      BY <1>8, <3>1, <3>2
  <2> QED
    BY <2>1, <2>2, <2>3, <2>4
<1>9. OnePlace'
  BY <1>8 DEF OnePlace
<1> QED
  BY <1>6, <1>7, <1>9

LEMMA KeptWriteRow == ASSUME NEW f \in Fetchers, Shape, Kept(f), WriteRow(f) PROVE Kept(f)'
<1>1. /\ HistoryTypeOK /\ Sound(f) /\ fetch[f].pc = "write" /\ fetch[f].pc \in Writing
      /\ UNCHANGED <<m_pFile, count, exported, interrupted, killed>>
  BY Points, Unchanged DEF Shape, WriteRow, At
<1>2. CASE Open(m_pFile)
  <2>1. /\ Row(f) \in Lines /\ Row(f).msg = fetch[f].msg /\ Row(f).msg # 0
        /\ fetch[f].format # "off"
    BY <1>1, RowIs, HistoryBounds DEF Messages, Formats
  <2>2. Adds(Row(f)) /\ Moves(f, "flush") /\ m_pFile # NULL
    BY <1>1, <1>2, <2>1, Points, GoMoves, fwriteAdds DEF WriteRow, Open, Row
  <2>3. NoRows
    BY <1>1, NoRowsThen DEF Kept, Rows
  <2>4. /\ fetch'[f].pc = "flush" /\ fetch'[f].msg = fetch[f].msg
        /\ fetch'[f].format = fetch[f].format
    BY <2>2 DEF Moves
  <2>5. PICK last \in DOMAIN streams'[m_pFile].buffer :
           /\ last \notin DOMAIN streams[m_pFile].buffer
           /\ streams'[m_pFile].buffer[last] = Row(f)
           /\ \A k \in DOMAIN streams'[m_pFile].buffer :
                 k = last \/ k \in DOMAIN streams[m_pFile].buffer
    BY <2>2 DEF Adds
  <2>6. /\ DOMAIN streams' = DOMAIN streams /\ m_pFile \in DOMAIN streams /\ files' = files
        /\ \A s \in DOMAIN streams : s # m_pFile => streams'[s] = streams[s]
        /\ \A k \in DOMAIN streams[m_pFile].buffer :
              streams'[m_pFile].buffer[k] = streams[m_pFile].buffer[k]
    BY <2>2 DEF Adds
  <2>7. ASSUME NEW s \in DOMAIN streams', NEW k \in DOMAIN streams'[s].buffer,
               streams'[s].buffer[k].msg # 0
        PROVE  s = m_pFile /\ k = last /\ streams'[s].buffer[k].msg = fetch[f].msg
    <3>1. CASE s # m_pFile
      BY <2>3, <2>6, <2>7, <3>1 DEF NoRows
    <3>2. CASE s = m_pFile /\ k # last
      BY <2>3, <2>5, <2>6, <2>7, <3>2 DEF NoRows
    <3>3. CASE s = m_pFile /\ k = last
      BY <2>1, <2>5, <3>3
    <3> QED
      BY <3>1, <3>2, <3>3
  <2>8. RowBuffers(f)' /\ OneBuffered'
    BY <1>1, <2>4, <2>7 DEF RowBuffers, OneBuffered
  <2>9. ASSUME NEW n \in Messages, OnFile(n)'
        PROVE  MayBeOnFile(f, n)' /\ ~InBuffer(n)'
    <3>1. MayBeOnFile(f, n)
      BY <2>6, <2>9, SameFiles, OnFileStays DEF Kept, Rows, RowFiles
    <3>2. n # fetch[f].msg /\ n # 0
      BY <1>1, <3>1, HistoryBounds DEF MayBeOnFile, Messages
    <3>3. ~InBuffer(n)'
      BY <2>7, <3>2 DEF InBuffer
    <3>4. MayBeOnFile(f, n)'
      BY <1>1, <2>4, <3>1 DEF MayBeOnFile
    <3> QED
      BY <3>3, <3>4
  <2>10. RowFiles(f)'
    <3>1. Messages' = Messages
      BY DEF Messages
    <3> QED
      BY <2>9, <3>1 DEF RowFiles
  <2>11. Rows(f)'
    BY <2>6, <2>8, <2>10, SameFiles, OnFileStays DEF Kept, Rows
  <2>12. KeptAt(f)'
    <3>1. \E k \in DOMAIN streams'[m_pFile].buffer : streams'[m_pFile].buffer[k].msg = fetch[f].msg
      BY <2>1, <2>5
    <3>2. fetch[f].msg = count.messages /\ fetch[f].format = exported[count.messages]
      BY <1>1 DEF Kept, KeptAt
    <3> QED
      BY <1>1, <2>4, <3>1, <3>2 DEF KeptAt
  <2>13. KeptRows(f)'
    BY <1>1, <2>4, <2>6, SameFiles, OnFileStays DEF Kept, KeptRows
  <2> QED
    BY <2>11, <2>12, <2>13 DEF Kept
<1>3. CASE ~Open(m_pFile)
  BY <1>1, <1>3, KeptSame DEF WriteRow, Lost
<1> QED
  BY <1>2, <1>3

(* fflush puts all that the buffer has into the file.                       *)
LEMMA FlushSaves ==
    ASSUME Shape, NEW f \in Fetchers, Flush(f), ~Lost(f), m_pFile # NULL,
           NEW n, \E j \in DOMAIN streams[m_pFile].buffer : streams[m_pFile].buffer[j].msg = n
    PROVE  OnFile(n)'
<1> HIDE DEF Lines, Names
<1>1. HistoryTypeOK /\ fflush(<<>>)
  BY DEF Shape, Flush
<1> DEFINE name == streams[m_pFile].name
           buffer == streams[m_pFile].buffer
           new == files[name] \o buffer
<1>2. /\ name \in Names /\ buffer \in Seq(Lines)
      /\ Gets(name, files[name] \o buffer \o <<>>)
  BY <1>1, NoLines, fflushWrites
<1>3. files[name] \in Seq(Lines)
  BY <1>1, <1>2, Types
<1>4. Follows(Lines, files[name], buffer, new) /\ new \in Seq(Lines)
  <2> HIDE DEF buffer
  <2>1. new \in Seq(Lines)
    BY <1>2, <1>3
  <2> QED
    BY <1>2, <1>3, <2>1, ConcatFollows
<1>5. files'[name] = new
  <2>1. files'[name] = new \o <<>>
    BY <1>2 DEF Gets
  <2> HIDE DEF new
  <2> QED
    BY <1>4, <2>1
<1> HIDE DEF new
<1>6. PICK j \in DOMAIN buffer : buffer[j].msg = n
  OBVIOUS
<1>7. \E k \in DOMAIN files'[name] : files'[name][k] = buffer[j]
  BY <1>4, <1>5, <1>6 DEF Follows
<1> QED
  BY <1>2, <1>6, <1>7 DEF OnFile

LEMMA KeptFlush == ASSUME NEW f \in Fetchers, Shape, Kept(f), Flush(f) PROVE Kept(f)'
<1>1. /\ HistoryTypeOK /\ fetch[f].pc = "flush"
      /\ UNCHANGED <<m_pFile, count, exported, interrupted, killed>>
  BY Unchanged DEF Shape, Flush, At
<1>2. CASE Lost(f)
  BY <1>1, <1>2, KeptSame DEF Lost
<1>3. CASE ~Lost(f)
  <2>1. /\ Moves(f, "idle") /\ Drains /\ WritesBuffers
        /\ m_pFile # NULL => Becomes(m_pFile, Holding(m_pFile, <<>>))
        /\ m_pFile = NULL => \A s \in DOMAIN streams' : streams'[s].buffer = <<>>
    BY <1>3, FlushDrains
  <2>2. fetch'[f].pc = "idle" /\ fetch'[f].msg = fetch[f].msg
    BY <2>1 DEF Moves
  <2>3. NoRows'
    <3>0. DOMAIN <<>> = {}
      OBVIOUS
    <3>1. CASE m_pFile = NULL
      BY <2>1, <3>0, <3>1 DEF NoRows
    <3>2. CASE m_pFile # NULL
      <4>1. streams'[m_pFile].buffer = <<>>
        <5>1. m_pFile \in DOMAIN streams /\ streams \in Seq(StreamType)
          BY <1>1, <3>2, Types
        <5>2. Holding(m_pFile, <<>>).buffer = <<>>
          BY <5>1, NoLines, HoldingIs
        <5> QED
          BY <2>1, <3>2, <5>2 DEF Becomes
      <4>2. ASSUME NEW s \in DOMAIN streams', NEW k \in DOMAIN streams'[s].buffer
            PROVE  streams'[s].buffer[k].msg = 0
        <5>1. s # m_pFile /\ s \in DOMAIN streams /\ streams'[s].buffer = streams[s].buffer
          BY <2>1, <3>0, <4>1, <4>2 DEF Drains
        <5> QED
          BY <3>2, <4>2, <5>1 DEF Kept, Rows, RowBuffers
      <4> QED
        BY <4>2 DEF NoRows
    <3> QED
      BY <3>1, <3>2
  <2>4. /\ OnePlace'
        /\ \A n : OnFile(n) => OnFile(n)'
        /\ \A n \in Messages : OnFile(n)' => MayBeOnFile(f, n)
    BY <2>1, RowsWritten
  <2>5. \A n \in Messages : OnFile(n)' => MayBeOnFile(f, n)'
    BY <1>1, <2>2, <2>4 DEF MayBeOnFile
  <2>6. Rows(f)'
    BY <2>3, <2>4, <2>5, RowsWithout
  <2>7. KeptAt(f)'
    BY <2>2 DEF KeptAt
  <2>8. ASSUME NEW n, n = fetch[f].msg, n \notin interrupted
        PROVE  OnFile(n)'
    <3>1. m_pFile # NULL
      BY <1>1, <2>8, Points DEF Shape, Sound
    <3>2. \E j \in DOMAIN streams[m_pFile].buffer : streams[m_pFile].buffer[j].msg = n
      BY <1>1, <2>8 DEF Kept, KeptAt
    <3> QED
      BY <1>3, <3>1, <3>2, FlushSaves
  <2>9. KeptRows(f)'
    <3>1. ASSUME NEW n \in 1 .. count.messages, exported[n] # "off", n \notin interrupted \cup killed
          PROVE  OnFile(n)'
      <4>1. CASE n = fetch[f].msg
        BY <2>8, <3>1, <4>1
      <4>2. CASE n # fetch[f].msg
        BY <2>4, <3>1, <4>2 DEF Kept, KeptRows
      <4> QED
        BY <4>1, <4>2
    <3> QED
      BY <1>1, <3>1 DEF KeptRows
  <2> QED
    BY <2>6, <2>7, <2>9 DEF Kept
<1> QED
  BY <1>2, <1>3

(* disconnect().                                                            *)
LEMMA KeptWindow ==
    ASSUME NEW f \in Fetchers, Shape, Kept(f), Disconnect \/ CloseFile \/ ForgetFile
    PROVE  Kept(f)'
<1>1. CASE Disconnect
  <2>1. count'.messages = count.messages
    <3>1. count \in CountType /\ count' = [count EXCEPT !.disconnects = count.disconnects + 1]
      BY <1>1 DEF Shape, Counted, Disconnect
    <3> QED
      BY <3>1 DEF CountType
  <2> QED
    BY <1>1, <2>1, KeptSame DEF Disconnect, history
<1>2. CASE ForgetFile
  <2>1. /\ UNCHANGED <<fetch, streams, files, count, exported, killed>> /\ m_pFile' = NULL
        /\ interrupted' = interrupted \cup Busy
    BY <1>2 DEF ForgetFile
  <2>2. Rows(f)'
    <3>1. RowBuffers(f)' /\ OneBuffered' /\ OnePlace'
      BY <2>1 DEF Kept, Rows, RowBuffers, OneBuffered, OnePlace
    <3>2. RowFiles(f)'
      BY <2>1 DEF Kept, Rows, RowFiles, MayBeOnFile, InBuffer, OnFile, Messages
    <3> QED
      BY <3>1, <3>2 DEF Rows
  <2>3. KeptAt(f)'
    BY <2>1, BusyIs DEF Kept, KeptAt
  <2>4. KeptRows(f)'
    BY <2>1 DEF Kept, KeptRows, OnFile
  <2> QED
    BY <2>2, <2>3, <2>4 DEF Kept
<1>3. CASE CloseFile
  <2>1. /\ Drains /\ WritesBuffers /\ UNCHANGED <<fetch, m_pFile, count, exported, killed>>
        /\ interrupted' = interrupted \cup Busy /\ m_pFile # NULL
        /\ streams'[m_pFile].buffer = <<>>
    BY <1>3, CloseDrains DEF CloseFile, Becomes, Closed, Shape, Closing
  <2>2. NoRows'
    <3>0. DOMAIN <<>> = {}
      OBVIOUS
    <3>1. ASSUME NEW s \in DOMAIN streams', NEW k \in DOMAIN streams'[s].buffer
          PROVE  streams'[s].buffer[k].msg = 0
      <4>1. s # m_pFile /\ s \in DOMAIN streams /\ streams'[s].buffer = streams[s].buffer
        BY <2>1, <3>0, <3>1 DEF Drains
      <4> QED
        BY <2>1, <3>1, <4>1 DEF Kept, Rows, RowBuffers
    <3> QED
      BY <3>1 DEF NoRows
  <2>3. /\ OnePlace'
        /\ \A n : OnFile(n) => OnFile(n)'
        /\ \A n \in Messages : OnFile(n)' => MayBeOnFile(f, n)
    BY <2>1, RowsWritten
  <2>4. \A n \in Messages : OnFile(n)' => MayBeOnFile(f, n)'
    BY <2>1, <2>3 DEF MayBeOnFile
  <2>5. Rows(f)'
    BY <2>2, <2>3, <2>4, RowsWithout
  <2>6. KeptAt(f)'
    BY <2>1, BusyIs DEF Kept, KeptAt
  <2>7. KeptRows(f)'
    BY <2>1, <2>3 DEF Kept, KeptRows
  <2> QED
    BY <2>5, <2>6, <2>7 DEF Kept
<1> QED
  BY <1>1, <1>2, <1>3

LEMMA KeptEnd ==
    ASSUME NEW f \in Fetchers, Shape, Kept(f), Exit \/ Crash
    PROVE  Kept(f)'
<1>1. StartAgain /\ exported' = exported
  BY DEF Exit, Crash, StartAgain
<1>2. DOMAIN streams' = {} /\ (Exit => WritesBuffers)
  BY <1>1, EndDrains DEF Exit
<1>3. fetch'[f].pc = "idle"
  BY <1>1 DEF StartAgain, Resting
<1>4. count'.messages = count.messages
  <2>1. count \in CountType /\ count' = [count EXCEPT !.runs = count.runs + 1]
    BY <1>1 DEF Shape, Counted, StartAgain
  <2> QED
    BY <2>1 DEF CountType
<1>5. interrupted' \cup killed' = interrupted \cup killed \cup Busy
  BY DEF Exit, Crash
<1>6. /\ OnePlace'
      /\ \A n : OnFile(n) => OnFile(n)'
      /\ \A n \in Messages : OnFile(n)' => MayBeOnFile(f, n)
  <2>1. CASE Exit
    BY <1>2, <2>1, RowsWritten
  <2>2. CASE Crash
    BY <2>2, SameFiles, OnFileStays DEF Crash, Kept, Rows, RowFiles
  <2> QED
    BY <2>1, <2>2
<1>7. Rows(f)'
  <2>1. NoRows'
    BY <1>2 DEF NoRows
  <2>2. \A n \in Messages : OnFile(n)' => MayBeOnFile(f, n)'
    BY <1>1, <1>3, <1>4, <1>6 DEF MayBeOnFile
  <2> QED
    BY <1>6, <2>1, <2>2, RowsWithout
<1>8. KeptAt(f)'
  BY <1>3 DEF KeptAt
<1>9. KeptRows(f)'
  <2>1. ASSUME NEW n \in 1 .. count.messages, exported[n] # "off",
               n \notin interrupted \cup killed \cup Busy
        PROVE  OnFile(n)'
    <3>1. fetch[f].pc = "idle" \/ n # fetch[f].msg
      BY <2>1, BusyIs
    <3> QED
      BY <1>6, <2>1, <3>1 DEF Kept, KeptRows
  <2> QED
    BY <1>1, <1>4, <1>5, <2>1 DEF KeptRows
<1> QED
  BY <1>7, <1>8, <1>9 DEF Kept

LEMMA KeptInit == ASSUME Init, NEW f \in Fetchers PROVE Kept(f)
<1>1. DOMAIN streams = {} /\ \A name \in Names : DOMAIN files[name] = {}
  <2>1. streams = <<>> /\ files = [name \in Names |-> <<>>]
    BY DEF Init
  <2>2. DOMAIN <<>> = {}
    OBVIOUS
  <2> HIDE DEF Names
  <2> QED
    BY <2>1, <2>2
<1>2. fetch[f].pc = "idle" /\ 1 .. count.messages = {}
  <2>1. fetch[f].pc = "idle"
    BY DEF Init, Resting
  <2>2. count.messages = 0
    BY DEF Init
  <2> QED
    BY <2>1, <2>2
<1>3. Rows(f)
  BY <1>1 DEF Rows, RowBuffers, OneBuffered, RowFiles, OnePlace, OnFile
<1> QED
  BY <1>2, <1>3 DEF Kept, KeptAt, KeptRows

LEMMA KeptNext ==
    ASSUME NEW f, Fetchers = {f}, Shape, Kept(f), [Next]_vars
    PROVE  Kept(f)'
<1>1. CASE parseMessage(f)
  BY <1>1, KeptParse, KeptRests, KeptOpenFile, KeptPeek, KeptWriteBOM, KeptWriteHeader,
     KeptWriteRow, KeptFlush DEF parseMessage
<1>2. CASE OpenFails(f)
  BY <1>2, KeptEnd DEF OpenFails
<1>3. CASE UNCHANGED vars
  BY <1>3, KeptSame DEF vars, history
<1> QED
  BY <1>1, <1>2, <1>3, KeptWindow, KeptEnd DEF Next

LEMMA KeptSaves ==
    ASSUME NEW f, Fetchers = {f}, Shape, Kept(f)
    PROVE  EveryRowSaved
<1>1. ASSUME NEW n \in Messages
      PROVE  \A p, q \in Places(n) : p = q
  <2>1. n # 0
    BY HistoryBounds DEF Messages
  <2>2. ASSUME NEW p \in Places(n), NEW q \in Places(n) PROVE p = q
    <3>1. PICK a \in Names, k \in DOMAIN files[p[1]] :
             p = <<a, k>> /\ files[a][k].msg = n /\ k \in DOMAIN files[a]
      BY DEF Places
    <3>2. PICK b \in Names, l \in DOMAIN files[q[1]] :
             q = <<b, l>> /\ files[b][l].msg = n /\ l \in DOMAIN files[b]
      BY DEF Places
    <3>3. a = b /\ k = l
      BY <2>1, <3>1, <3>2 DEF Kept, Rows, OnePlace
    <3> QED
      BY <3>1, <3>2, <3>3
  <2> QED
    BY <2>2
<1>2. ASSUME NEW n \in Messages, Done(n), n \notin interrupted \cup killed
      PROVE  Places(n) = {} <=> exported[n] = "off"
  <2>1. n \in 1 .. count.messages
    BY <1>2, HistoryBounds DEF Done, Messages, Shape, Counted, CountType
  <2>2. fetch[f].pc = "idle" \/ n # fetch[f].msg
    BY <1>2 DEF Done
  <2>3. Places(n) # {} <=> OnFile(n)
    <3>1. ASSUME OnFile(n) PROVE Places(n) # {}
      <4>1. PICK name \in Names : \E k \in DOMAIN files[name] : files[name][k].msg = n
        BY <3>1 DEF OnFile
      <4>2. PICK k \in DOMAIN files[name] : files[name][k].msg = n
        BY <4>1
      <4>3. <<name, k>> \in Places(n)
        BY <4>2 DEF Places
      <4> QED
        BY <4>3
    <3>2. ASSUME Places(n) # {} PROVE OnFile(n)
      <4>1. PICK p \in Places(n) : TRUE
        BY <3>2
      <4>2. PICK name \in Names : p \in {name} \X DOMAIN files[name] /\ files[p[1]][p[2]].msg = n
        BY DEF Places
      <4>3. p[1] = name /\ p[2] \in DOMAIN files[name]
        BY <4>2
      <4> QED
        BY <4>2, <4>3 DEF OnFile
    <3> QED
      BY <3>1, <3>2
  <2> QED
    BY <1>2, <2>1, <2>2, <2>3 DEF Kept, KeptRows, Rows, RowFiles, MayBeOnFile
<1> QED
  BY <1>1, <1>2 DEF EveryRowSaved

(* With one fetch thread, every message that was to be exported is on the   *)
(* disk once when parseMessage returns, unless disconnect() or the end of   *)
(* the program came upon it, and no message is ever there twice.            *)
THEOREM RowsSaved ==
    ASSUME NEW f, Fetchers = {f}
    PROVE  Safety => []EveryRowSaved
<1>1. Init => Kept(f)
  BY KeptInit
<1>2. Shape /\ Kept(f) /\ [Next]_vars => Kept(f)'
  BY KeptNext
<1>3. Shape /\ Kept(f) => EveryRowSaved
  BY KeptSaves
<1> QED
  BY <1>1, <1>2, <1>3, ShapeAlways, PTL DEF Safety

=============================================================================
