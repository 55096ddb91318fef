------------------------------- MODULE History -------------------------------
(***************************************************************************)
(* totemoe-livemaid/session.cpp: the history file that parseMessage keeps  *)
(* on a fetch thread, one file for each day and format, and disconnect(),  *)
(* which closes it on the window's thread.  m_pFile is read again for each *)
(* call of the C library, without a lock.  The program may end or crash at *)
(* any step and be started again: the files stay.                          *)
(*                                                                         *)
(* Times and time zones are in minutes; a file is the sequence of what is  *)
(* on the disk, a stream's buffer what the C library still keeps back.     *)
(***************************************************************************)
EXTENDS Integers, Sequences, SequencesExt

CONSTANTS
    Fetchers,         \* fetch threads in their loops
    Times,            \* when a message may arrive
    Zones,            \* settings of the time zone
    MaxMessages,      \* bound on the messages parsed
    MaxDisconnects,   \* bound on the calls of disconnect()
    MaxRuns           \* bound on the starts of the program

ZoneType == [system : BOOLEAN, sign : {1, -1}, hours : 0 .. 14, minutes : 0 .. 59]

ASSUME HistoryBounds ==
    /\ Times \subseteq Nat /\ Zones \subseteq ZoneType /\ Times # {} /\ Zones # {}
    /\ MaxMessages \in Nat /\ MaxDisconnects \in Nat /\ MaxRuns \in Nat \ {0}

VARIABLES
    m_pFile,          \* number of the open stream, or NULL
    m_tRecent,        \* day of the latest message
    m_exportSetting,
    fetch,            \* parseMessage on each fetch thread
    win,              \* the window's thread in disconnect()
    streams,          \* every stream fopen made: file, unwritten lines, if it is open
    files,            \* what each file holds, whatever becomes of the program
    undefined,        \* a closed or null stream was used: the program is lost
    now, count,       \* clock and bounds
    exported,         \* history: the setting each message was parsed with
    interrupted,      \* history: messages whose file was closed under them
    killed            \* history: messages a crash came upon

history == <<exported, interrupted, killed>>
vars == <<m_pFile, m_tRecent, m_exportSetting, fetch, win, streams, files, undefined,
          now, count, history>>

NULL == 0
Formats == {"on", "csv"}
Settings == Formats \cup {"off"}

(* The offset parseMessage makes of a zone written "(UTC-03:30)": the sign  *)
(* belongs to the hours alone.  "system" is left to localtime.              *)
offset(z) == IF z.system THEN z.sign * (z.hours * 60 + z.minutes)
                         ELSE z.sign * z.hours * 60 + z.minutes

Day(time, off) == (time + off) \div (24 * 60)

Days == {Day(t, offset(z)) : t \in Times, z \in Zones}
Names == Days \X Formats
Messages == 1 .. MaxMessages
BOM == [msg |-> 0, day |-> 0, format |-> "bom"]
Header(format) == [msg |-> 0, day |-> 0, format |-> format]
Lines == [msg : 0 .. MaxMessages, day : Days \cup {0}, format : Formats \cup {"bom"}]
Open(s) == s # NULL /\ streams[s].open

FetchPoints == {"idle", "decide", "open", "peek", "bom", "header", "recent", "save",
                "check", "write", "flush"}
FirstTime == CHOOSE t \in Times : \A u \in Times : t <= u
SomeDay == CHOOSE d \in Days : TRUE

(* What a start of the program finds: nothing but the files.                *)
Resting == [f \in Fetchers |-> [pc |-> "idle", msg |-> 0, day |-> SomeDay, format |-> "off"]]

Init ==
    /\ m_pFile = NULL /\ m_tRecent = SomeDay /\ m_exportSetting = ""
    /\ fetch = Resting
    /\ win = "idle"
    /\ streams = <<>>
    /\ files = [name \in Names |-> <<>>]
    /\ undefined = FALSE
    /\ now = FirstTime
    /\ count = [messages |-> 0, disconnects |-> 0, runs |-> 1]
    /\ exported = <<>> /\ interrupted = {} /\ killed = {}

-----------------------------------------------------------------------------
(* parseMessage on fetch thread f. *)

At(f, p) == fetch[f].pc = p /\ ~undefined
Go(f, p) == fetch' = [fetch EXCEPT ![f].pc = p]
fileVars == <<m_tRecent, m_exportSetting>>
otherVars == <<win, now, count, history>>

(* A message that is displayed: the settings are read, the local day found. *)
Parse(f) ==
    /\ At(f, "idle")
    /\ count.messages < MaxMessages
    /\ count' = [count EXCEPT !.messages = @ + 1]
    /\ \E time \in Times, zone \in Zones, autoExport \in Settings :
          /\ time >= now
          /\ now' = time
          /\ fetch' = [fetch EXCEPT ![f] = [pc |-> "decide", msg |-> count'.messages,
                                            day |-> Day(time, offset(zone)), format |-> autoExport]]
          /\ exported' = Append(exported, autoExport)
    /\ interrupted' = IF win = "forget" THEN interrupted \cup {count'.messages} ELSE interrupted
    /\ UNCHANGED <<m_pFile, fileVars, win, streams, files, undefined, killed>>

(* Mutant: a change of format does not matter. *)
createNewFileAnyFormat(f) ==
    fetch[f].format # "off" /\ (m_pFile = NULL \/ fetch[f].day # m_tRecent)

createNewFile(f) ==
    fetch[f].format # "off" /\
        (m_pFile = NULL \/ m_exportSetting # fetch[f].format \/ fetch[f].day # m_tRecent)

(* Mutant: the format is remembered without opening a file. *)
DecideRemember(f) ==
    /\ At(f, "decide")
    /\ m_exportSetting' = fetch[f].format
    /\ Go(f, IF createNewFile(f) THEN "open" ELSE "recent")
    /\ UNCHANGED <<m_pFile, m_tRecent, streams, files, undefined, otherVars>>

(* Is a file needed?  If so its name is made and the format remembered. *)
Decide(f) ==
    /\ At(f, "decide")
    /\ IF createNewFile(f)
       THEN m_exportSetting' = fetch[f].format /\ Go(f, "open")
       ELSE UNCHANGED m_exportSetting /\ Go(f, "recent")
    /\ UNCHANGED <<m_pFile, m_tRecent, streams, files, undefined, otherVars>>

(* fopen, for appending; an earlier stream is not closed.                   *)
OpenFile(f) ==
    /\ At(f, "open")
    /\ streams' = Append(streams, [name |-> <<fetch[f].day, fetch[f].format>>, buffer |-> <<>>, open |-> TRUE])
    /\ m_pFile' = Len(streams')
    /\ Go(f, "peek")
    /\ UNCHANGED <<fileVars, files, undefined, otherVars>>

Lost(f) == undefined' = TRUE /\ UNCHANGED <<fetch, streams, files>>

(* fwrite puts into the buffer, fflush the buffer into the file.  Whatever  *)
(* one fflush writes is on the disk whole or not at all.                    *)
fwrite(line) ==
    /\ streams' = [streams EXCEPT ![m_pFile].buffer = Append(@, line)]
    /\ UNCHANGED <<files, undefined>>

fflush(line) ==
    /\ files' = [files EXCEPT ![streams[m_pFile].name] = @ \o streams[m_pFile].buffer \o line]
    /\ streams' = [streams EXCEPT ![m_pFile].buffer = <<>>]
    /\ UNCHANGED undefined

(* fflush of no stream in particular, as at the end of the program.         *)
Flushed ==
    [name \in Names |-> files[name] \o FlattenSeq([s \in DOMAIN streams |->
        IF streams[s].name = name /\ streams[s].open THEN streams[s].buffer ELSE <<>>])]

(* Mutant: every file opened is taken to be new. *)
PeekNew(f) ==
    /\ At(f, "peek")
    /\ IF Open(m_pFile) THEN Go(f, "bom") /\ UNCHANGED <<streams, files, undefined>> ELSE Lost(f)
    /\ UNCHANGED <<m_pFile, fileVars, otherVars>>

(* fseek and ftell: is the file empty? *)
Peek(f) ==
    /\ At(f, "peek")
    /\ IF Open(m_pFile)
       THEN /\ Go(f, IF files[streams[m_pFile].name] = <<>> THEN "bom" ELSE "recent")
            /\ UNCHANGED <<streams, files, undefined>>
       ELSE Lost(f)
    /\ UNCHANGED <<m_pFile, fileVars, otherVars>>

WriteBOM(f) ==
    /\ At(f, "bom")
    /\ IF Open(m_pFile) THEN fwrite(BOM) /\ Go(f, "header") ELSE Lost(f)
    /\ UNCHANGED <<m_pFile, fileVars, otherVars>>

(* writeLine of the header; its looks at m_pFile are WriteRow's and Flush's.*)
WriteHeader(f) ==
    /\ At(f, "header")
    /\ IF m_pFile = NULL THEN Go(f, "recent") /\ UNCHANGED <<streams, files, undefined>>
       ELSE IF Open(m_pFile) THEN fflush(<<Header(fetch[f].format)>>) /\ Go(f, "recent")
       ELSE Lost(f)
    /\ UNCHANGED <<m_pFile, fileVars, otherVars>>

(* The day is remembered, whether or not it is exported. *)
Recent(f) ==
    /\ At(f, "recent")
    /\ m_tRecent' = fetch[f].day
    /\ Go(f, "save")
    /\ UNCHANGED <<m_pFile, m_exportSetting, streams, files, undefined, otherVars>>

Save(f) ==
    /\ At(f, "save")
    /\ Go(f, IF m_pFile # NULL /\ fetch[f].format # "off" THEN "check" ELSE "idle")
    /\ UNCHANGED <<m_pFile, fileVars, streams, files, undefined, otherVars>>

(* writeLine: look, write, flush. *)
CheckFile(f) ==
    /\ At(f, "check")
    /\ Go(f, IF m_pFile # NULL THEN "write" ELSE "idle")
    /\ UNCHANGED <<m_pFile, fileVars, streams, files, undefined, otherVars>>

WriteRow(f) ==
    /\ At(f, "write")
    /\ IF Open(m_pFile)
       THEN /\ fwrite([msg |-> fetch[f].msg, day |-> fetch[f].day, format |-> fetch[f].format])
            /\ Go(f, "flush")
       ELSE Lost(f)
    /\ UNCHANGED <<m_pFile, fileVars, otherVars>>

(* Mutant: the row is left in the buffer.                                   *)
FlushLater(f) ==
    /\ At(f, "flush")
    /\ Go(f, "idle")
    /\ UNCHANGED <<m_pFile, fileVars, streams, files, undefined, otherVars>>

(* fflush of a null stream flushes all: that is defined.                    *)
Flush(f) ==
    /\ At(f, "flush")
    /\ IF m_pFile = NULL
       THEN /\ files' = Flushed
            /\ streams' = [s \in DOMAIN streams |-> [streams[s] EXCEPT !.buffer = <<>>]]
            /\ Go(f, "idle") /\ UNCHANGED undefined
       ELSE IF Open(m_pFile) THEN fflush(<<>>) /\ Go(f, "idle")
       ELSE Lost(f)
    /\ UNCHANGED <<m_pFile, fileVars, otherVars>>

parseMessage(f) ==
    \/ Parse(f) \/ Decide(f) \/ OpenFile(f) \/ Peek(f) \/ WriteBOM(f) \/ WriteHeader(f)
    \/ Recent(f) \/ Save(f) \/ CheckFile(f) \/ WriteRow(f) \/ Flush(f)

-----------------------------------------------------------------------------
(* disconnect() on the window's thread, after m_room.disconnect(). *)

(* The messages being parsed at the time may miss the file. *)
Disconnect ==
    /\ win = "idle" /\ ~undefined
    /\ count.disconnects < MaxDisconnects
    /\ count' = [count EXCEPT !.disconnects = @ + 1]
    /\ win' = IF m_pFile # NULL THEN "close" ELSE "idle"
    /\ UNCHANGED <<m_pFile, fileVars, fetch, streams, files, undefined, now, history>>

Busy == {fetch[f].msg : f \in {g \in Fetchers : fetch[g].pc # "idle"}}

(* fclose writes what is in the buffer.                                     *)
CloseFile ==
    /\ win = "close" /\ ~undefined
    /\ files' = [files EXCEPT ![streams[m_pFile].name] = @ \o streams[m_pFile].buffer]
    /\ streams' = [streams EXCEPT ![m_pFile].open = FALSE, ![m_pFile].buffer = <<>>]
    /\ win' = "forget"
    /\ interrupted' = interrupted \cup Busy
    /\ UNCHANGED <<m_pFile, fileVars, fetch, undefined, now, count, exported, killed>>

(* Mutant: the pointer is kept. *)
KeepFile ==
    /\ win = "forget" /\ ~undefined
    /\ win' = "idle"
    /\ UNCHANGED <<m_pFile, fileVars, fetch, streams, files, undefined, now, count, history>>

ForgetFile ==
    /\ win = "forget" /\ ~undefined
    /\ m_pFile' = NULL
    /\ win' = "idle"
    /\ interrupted' = interrupted \cup Busy
    /\ UNCHANGED <<fileVars, fetch, streams, files, undefined, now, count, exported, killed>>

-----------------------------------------------------------------------------
(* The end of the program, wherever its threads are, and its next start.    *)

StartAgain ==
    /\ ~undefined /\ count.runs < MaxRuns
    /\ count' = [count EXCEPT !.runs = @ + 1]
    /\ m_pFile' = NULL /\ m_tRecent' = SomeDay /\ m_exportSetting' = ""
    /\ fetch' = Resting /\ win' = "idle" /\ streams' = <<>>
    /\ UNCHANGED <<undefined, now, exported>>

(* wWinMain returns: the C library writes the buffers of the open streams,  *)
(* and the fetch threads end where they are.                                *)
Exit ==
    /\ win = "idle" /\ StartAgain
    /\ files' = Flushed
    /\ interrupted' = interrupted \cup Busy
    /\ UNCHANGED killed

(* A crash of the program, or an exception that leaves a fetch thread, as   *)
(* when fopen fails: what is in a buffer is lost.                           *)
Crash ==
    /\ StartAgain
    /\ killed' = killed \cup Busy
    /\ UNCHANGED <<files, interrupted>>

OpenFails(f) == At(f, "open") /\ Crash

Next ==
    \/ \E f \in Fetchers : parseMessage(f) \/ OpenFails(f)
    \/ Disconnect \/ CloseFile \/ ForgetFile \/ Exit \/ Crash

Safety == Init /\ [][Next]_vars

-----------------------------------------------------------------------------
(* The type. *)
HistoryTypeOK ==
    /\ m_pFile \in {NULL} \cup DOMAIN streams
    /\ m_tRecent \in Days
    /\ m_exportSetting \in Formats \cup {""}
    /\ fetch \in [Fetchers -> [pc : FetchPoints, msg : 0 .. MaxMessages, day : Days, format : Settings]]
    /\ win \in {"idle", "close", "forget"}
    /\ streams \in Seq([name : Names, buffer : Seq(Lines), open : BOOLEAN])
    /\ files \in [Names -> Seq(Lines)]
    /\ undefined \in BOOLEAN
    /\ interrupted \subseteq Messages /\ killed \subseteq Messages

Done(n) == n <= count.messages /\ \A f \in Fetchers : fetch[f].pc # "idle" => fetch[f].msg # n

(* Where message n is on the disk: the file and the line.                   *)
Places(n) ==
    {place \in UNION {{name} \X DOMAIN files[name] : name \in Names} :
        files[place[1]][place[2]].msg = n}

(* With one fetch thread, a .csv file holds comma separated rows and a .txt *)
(* file tab separated ones, however the setting changes between messages,   *)
(* whenever disconnect() closes the file and in all runs of the program.    *)
FormatOfFile ==
    \A name \in Names : \A k \in DOMAIN files[name] :
        files[name][k].format \in {"bom", name[2]}

(* With one fetch thread, every message that was to be exported is on the   *)
(* disk once when parseMessage returns, and no other message is, unless     *)
(* disconnect() or the end of the program came upon it; so a crash loses    *)
(* no row, not even of a stream that was left open on a change of day or    *)
(* format.  No message is ever there twice.                                 *)
EveryRowSaved ==
    \A n \in Messages :
        /\ \A p, q \in Places(n) : p = q
        /\ Done(n) /\ n \notin interrupted \cup killed =>
               (Places(n) = {} <=> exported[n] = "off")

(* A stream that is closed is used only by a message that disconnect() came *)
(* upon, on however many fetch threads: the next message opens the file     *)
(* again.                                                                   *)
ReopensAfterDisconnect ==
    undefined => \E f \in Fetchers : fetch[f].pc # "idle" /\ fetch[f].msg \in interrupted

(* With one fetch thread, a file begins with the byte order mark and has no *)
(* header but in the line after it; and the mark is there once and the      *)
(* header is there, however often the program starts again and whenever it  *)
(* crashes, unless disconnect() or a regular end of the program comes upon  *)
(* a message: either may write the mark alone, and disconnect() may forget  *)
(* a stream that has the mark in its buffer, to be written at the end.      *)
HeaderOnTop ==
    \A name \in Names : files[name] # <<>> =>
        /\ files[name][1] = BOM
        /\ \A k \in DOMAIN files[name] : files[name][k] = Header(name[2]) => k = 2
        /\ interrupted = {} =>
              /\ \A k \in DOMAIN files[name] : files[name][k] = BOM => k = 1
              /\ Len(files[name]) >= 2 /\ files[name][2] = Header(name[2])

(* session.cpp:514: "If message is on same day, use existing file."         *)
(* A message of another day does not use it.                                *)
SameDaySameFile ==
    \A name \in Names : \A k \in DOMAIN files[name] :
        files[name][k].msg # 0 => files[name][k].day = name[1]
=============================================================================
