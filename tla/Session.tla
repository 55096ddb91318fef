------------------------------- MODULE Session -------------------------------
(***************************************************************************)
(* totemoe-livemaid/session.cpp: MessageSession, the commands of           *)
(* controller.cpp that call it, and the fetch threads it starts.  Every    *)
(* connect() starts one more fetch thread and detaches it; all of them     *)
(* share m_room (and so m_id) and the one flag m_bStopThread.              *)
(*                                                                         *)
(* parseMessage is here "one message is consumed and shown"; the filters,  *)
(* the list view and the history file have modules of their own.           *)
(***************************************************************************)
EXTENDS Room

CONSTANT MaxFetchers      \* bound on the calls of connect()

ASSUME SessionBounds == MaxFetchers \in Nat \ {0}

Fetchers == 1 .. MaxFetchers

VARIABLES
    m_bStopThread,
    fetch,                \* the fetch threads
    menu,                 \* commands enabled when the menu last popped up
    dialog,               \* the Connect To dialog is on screen
    shown,                \* history: live messages parsed, per connection
    closeSeen             \* history: connections whose Closed notice was parsed

sessionVars == <<m_bStopThread, fetch, menu, dialog, shown, closeSeen>>
allVars == <<allRoomVars, sessionVars>>

FetchPoints == {"none", "copy", "clear", "parse", "done"}
Fetching(f) == fetch[f].pc \in {"copy", "clear", "parse"}

(* Mutant: whatever is not Open counts as closed. *)
notOpen == Current => m_status[m_id] # "Open"

isClosed == Current => m_status[m_id] = "Closed"
isOpen == Current /\ m_status[m_id] = "Open"

SessionInit ==
    /\ RoomInit
    /\ m_bStopThread = TRUE
    /\ fetch = [f \in Fetchers |-> [pc |-> "none", id |-> 0, batch |-> <<>>]]
    /\ menu = "none"
    /\ dialog = FALSE
    /\ shown = [i \in Ids |-> {}]
    /\ closeSeen = {}

-----------------------------------------------------------------------------
(* The window's thread: Controller::initMenu, command, the dialog.          *)

Idle == ui = "idle" /\ dtor.pc = "no"
Free == Idle /\ menu = "none"

(* The menu pops up: Connect To is enabled when the session isClosed(),     *)
(* Reconnect and Disconnect when it isOpen().  Until the click, or until    *)
(* the menu is dismissed, the window's thread does nothing else.            *)
initMenu ==
    /\ Free
    /\ (isClosed \/ isOpen) = TRUE
    /\ menu' = IF isClosed THEN "connect" ELSE "live"
    /\ UNCHANGED <<allRoomVars, m_bStopThread, fetch, dialog, shown, closeSeen>>

Dismiss ==
    /\ menu # "none"
    /\ menu' = "none"
    /\ UNCHANGED <<allRoomVars, m_bStopThread, fetch, dialog, shown, closeSeen>>

ConnectTo ==
    /\ menu = "connect"
    /\ menu' = "none"
    /\ dialog' = TRUE
    /\ UNCHANGED <<allRoomVars, m_bStopThread, fetch, shown, closeSeen>>

(* OK with a room that resolves: WM_SET_ROOM, then WM_CONNECT, whatever the *)
(* session has become since the dialog was opened; then the dialog closes.  *)
(* A free fetch thread bounds the model.                                    *)
ConnectDlgOk ==
    /\ Free
    /\ dialog
    /\ \E f \in Fetchers : fetch[f].pc = "none"
    /\ dialog' = FALSE
    /\ \E r \in RoomIds :
          /\ m_roomid' = r
          /\ ui' = IF r = 0 THEN "return" ELSE "uri"
    /\ UNCHANGED <<vars, m_id, beat, heart, m_bStopThread, fetch, menu, shown, closeSeen>>

ConnectDlgCancel ==
    /\ Free
    /\ dialog
    /\ dialog' = FALSE
    /\ UNCHANGED <<allRoomVars, m_bStopThread, fetch, menu, shown, closeSeen>>

(* MessageSession::disconnect: joining the detached thread does nothing.    *)
CommandDisconnect ==
    /\ menu = "live"
    /\ RoomDisconnect("idle")
    /\ menu' = "none"
    /\ UNCHANGED <<m_bStopThread, fetch, dialog, shown, closeSeen>>

(* MessageSession::reconnect: disconnect(), then connect() right away.      *)
CommandReconnect ==
    /\ menu = "live"
    /\ \E f \in Fetchers : fetch[f].pc = "none"
    /\ RoomDisconnect(IF m_roomid = 0 THEN "return" ELSE "uri")
    /\ menu' = "none"
    /\ UNCHANGED <<m_bStopThread, fetch, dialog, shown, closeSeen>>

(* Mutant: the flag is left as the last thread raised it. *)
KeepFlag ==
    /\ ui = "return"
    /\ ui' = "fetch"
    /\ UNCHANGED <<vars, m_roomid, m_id, beat, heart, sessionVars>>

(* MessageSession::connect after m_room.connect(): lower the flag, then     *)
(* start a fetch thread and detach it.                                      *)
LowerFlag ==
    /\ ui = "return"
    /\ m_bStopThread' = FALSE
    /\ ui' = "fetch"
    /\ UNCHANGED <<vars, m_roomid, m_id, beat, heart, fetch, menu, dialog, shown, closeSeen>>

StartFetch ==
    /\ ui = "fetch"
    /\ LET f == CHOOSE g \in Fetchers :
                    fetch[g].pc = "none" /\ \A h \in 1 .. g - 1 : fetch[h].pc # "none"
       IN  fetch' = [fetch EXCEPT ![f].pc = "copy"]
    /\ ui' = "idle"
    /\ UNCHANGED <<vars, m_roomid, m_id, beat, heart, m_bStopThread, menu, dialog, shown, closeSeen>>

(* ~MessageSession: disconnect unless closed, raise the flag, and go on to  *)
(* ~Room.  Joining m_thread does nothing: it is detached.                   *)
Quit ==
    /\ Free
    /\ IF isClosed
       THEN ui' = "quit" /\ UNCHANGED <<vars, m_roomid, m_id, beat, heart>>
       ELSE RoomDisconnect("quit")
    /\ UNCHANGED sessionVars

(* Mutant: the flag is not raised. *)
QuitUnflagged ==
    /\ ui = "quit"
    /\ ui' = "destroy"
    /\ UNCHANGED <<vars, m_roomid, m_id, beat, heart, sessionVars>>

RaiseFlag ==
    /\ ui = "quit"
    /\ m_bStopThread' = TRUE
    /\ ui' = "destroy"
    /\ UNCHANGED <<vars, m_roomid, m_id, beat, heart, fetch, menu, dialog, shown, closeSeen>>

DestroyRoom == ui = "destroy" /\ DtorBegin /\ UNCHANGED <<roomVars, sessionVars>>

-----------------------------------------------------------------------------
(* Fetch thread f.  A destroyed room is not looked at any more (the thread  *)
(* would use freed memory).                                                 *)

FetchCopy(f) ==
    /\ fetch[f].pc = "copy" /\ dtor.pc # "joined"
    /\ IF Current
       THEN RetrieveCopy(m_id) /\ fetch' = [fetch EXCEPT ![f].pc = "clear", ![f].id = m_id]
       ELSE UNCHANGED vars /\ fetch' = [fetch EXCEPT ![f].pc = "parse"]
    /\ UNCHANGED <<roomVars, m_bStopThread, menu, dialog, shown, closeSeen>>

FetchClear(f) ==
    /\ fetch[f].pc = "clear"
    /\ RetrieveClear(fetch[f].id)
    /\ fetch' = [fetch EXCEPT ![f].pc = "parse", ![f].batch = result[fetch[f].id]]
    /\ UNCHANGED <<roomVars, m_bStopThread, menu, dialog, shown, closeSeen>>

(* Mutant: notices are taken for live messages. *)
FetchParseAll(f) ==
    /\ fetch[f].pc = "parse" /\ fetch[f].batch # <<>>
    /\ LET m == Head(fetch[f].batch)
           i == fetch[f].id
       IN  /\ shown' = [shown EXCEPT ![i] = @ \cup {m.n}]
           /\ closeSeen' = IF m = Notice("Closed") THEN closeSeen \cup {i} ELSE closeSeen
    /\ fetch' = [fetch EXCEPT ![f].batch = Tail(@)]
    /\ UNCHANGED <<allRoomVars, m_bStopThread, menu, dialog>>

(* The next message of the batch: Closed and Failed raise the flag, and     *)
(* parseMessage shows it.                                                   *)
FetchParse(f) ==
    /\ fetch[f].pc = "parse" /\ fetch[f].batch # <<>>
    /\ LET m == Head(fetch[f].batch)
           i == fetch[f].id
       IN  /\ m_bStopThread' = (m_bStopThread \/ m \in {Notice("Closed"), Notice("Failed")})
           /\ shown' = IF IsLive(m) THEN [shown EXCEPT ![i] = @ \cup {m.n}] ELSE shown
           /\ closeSeen' = IF m = Notice("Closed") THEN closeSeen \cup {i} ELSE closeSeen
    /\ fetch' = [fetch EXCEPT ![f].batch = Tail(@)]
    /\ UNCHANGED <<allRoomVars, menu, dialog>>

(* Mutant: the flag is looked at after every message. *)
FetchCheckEarly(f) ==
    /\ fetch[f].pc = "parse" /\ (m_bStopThread \/ fetch[f].batch = <<>>)
    /\ fetch' = [fetch EXCEPT ![f] = [pc |-> IF m_bStopThread THEN "done" ELSE "copy",
                                      id |-> 0, batch |-> <<>>]]
    /\ UNCHANGED <<allRoomVars, m_bStopThread, menu, dialog, shown, closeSeen>>

(* The batch is done: leave if the flag is up, else sleep and go round.     *)
FetchCheck(f) ==
    /\ fetch[f].pc = "parse" /\ fetch[f].batch = <<>>
    /\ fetch' = [fetch EXCEPT ![f].pc = IF m_bStopThread THEN "done" ELSE "copy",
                              ![f].id = 0]
    /\ UNCHANGED <<allRoomVars, m_bStopThread, menu, dialog, shown, closeSeen>>

FetchThread(f) == FetchCopy(f) \/ FetchClear(f) \/ FetchParse(f) \/ FetchCheck(f)

-----------------------------------------------------------------------------
Window ==
    \/ initMenu \/ Dismiss \/ ConnectTo \/ ConnectDlgOk \/ ConnectDlgCancel
    \/ CommandDisconnect \/ CommandReconnect \/ Quit

(* What the window's thread, once in a call, goes on to do. *)
WindowGoesOn ==
    \/ (ConnectSteps \/ ((DtorVisit \/ DtorJoin) /\ UNCHANGED roomVars)) /\ UNCHANGED sessionVars
    \/ LowerFlag \/ StartFetch \/ RaiseFlag \/ DestroyRoom

SessionNext ==
    \/ Window \/ WindowGoesOn
    \/ \E f \in Fetchers : FetchThread(f)
    \/ IoThread /\ UNCHANGED <<roomVars, sessionVars>>

(* parseMessage waits for the window's thread (SendMessage: the status bar, *)
(* the list view), so it is only sure to go on while that thread is in its  *)
(* message loop or in a menu's; inside ~EndPoint it serves nobody.  Not a   *)
(* guard of FetchParse: of a message that is not displayed, parseMessage    *)
(* asks nothing.  A thread that does not parse needs the mailbox only.      *)
FetchGoesOn(f) ==
    \/ FetchCopy(f) \/ FetchClear(f) \/ FetchCheck(f)
    \/ Idle /\ FetchParse(f)

(* Heartbeat threads change nothing that this module reads; Room has them.  *)
SessionFairness ==
    /\ WF_allVars(WindowGoesOn)
    /\ WF_allVars(Handler /\ UNCHANGED <<roomVars, sessionVars>>)
    /\ SF_allVars(OnMessage /\ UNCHANGED <<roomVars, sessionVars>>)
    /\ \A i \in Ids : SF_allVars(Due(i) /\ UNCHANGED <<roomVars, sessionVars>>)
    /\ \A f \in Fetchers : SF_allVars(FetchGoesOn(f))

SessionSafety == SessionInit /\ [][SessionNext]_allVars
SessionSpec == SessionSafety /\ SessionFairness

-----------------------------------------------------------------------------
(* The type of the session's own state. *)
SessionTypeOK ==
    /\ m_bStopThread \in BOOLEAN
    /\ fetch \in [Fetchers -> [pc : FetchPoints, id : Ids, batch : Seq(Messages)]]
    /\ menu \in {"none", "connect", "live"}
    /\ dialog \in BOOLEAN
    /\ shown \in [Ids -> SUBSET (1 .. MaxMessages)]
    /\ closeSeen \subseteq Ids

(* The live messages of connection i that fetch thread f still has to parse *)
InHand(f, i) == IF fetch[f].id = i /\ fetch[f].pc = "parse" THEN Backlog(fetch[f].batch) ELSE {}

(* From the mailbox to the list: whatever retrieve() handed out is parsed   *)
(* by exactly one thread, however many fetch threads there are and however  *)
(* often they changed connection: it is shown already or in one hand.       *)
ParsedExactlyOnce ==
    \A i \in Ids :
        /\ delivered[i] = shown[i] \cup UNION {InHand(f, i) : f \in Fetchers}
        /\ \A f, g \in Fetchers : f # g => InHand(f, i) \cap InHand(g, i) = {}
        /\ \A f \in Fetchers : InHand(f, i) \cap shown[i] = {}

(* A thread that has seen a connection close leaves nothing behind: when    *)
(* the Closed notice of a connection is parsed, all its live messages have  *)
(* been shown or are in the hands of other threads.  (The thread ends       *)
(* after the batch of the notice.)                                          *)
ClosedComesLast ==
    \A i \in closeSeen :
        shown[i] \cup UNION {InHand(f, i) : f \in Fetchers} = 1 .. m_message_count[i]

(* One room at a time: the menu's enabling, the dialog and the order of     *)
(* reconnect() never leave an earlier connection open or opening when a new *)
(* one is made, although what they look at is stale when they act.          *)
OneLiveConnection ==
    \A i, j \in Ids : ws[i] \in {"connecting", "open"} /\ ws[j] \in {"connecting", "open"}
                          => i = j

(* A failed connection is the last one: once it is current and no call,     *)
(* menu or dialog is under way, neither the menu, which looks for Closed or *)
(* Open, nor any thread ever leads out of that state, but for the end of    *)
(* the program.                                                             *)
Stuck == Idle /\ menu = "none" /\ ~dialog /\ Current /\ m_status[m_id] = "Failed"
FailedIsFinal == [][Stuck => (Stuck \/ ui = "quit")']_allVars

(* When the program quits, no fetch thread goes on polling the room, those  *)
(* that never had a connection included: each leaves its loop or is left    *)
(* with messages for which it may wait for the window's thread (unless the  *)
(* room is destroyed first: nobody waits for them).  That wait, too, may    *)
(* last for good, if ~EndPoint waits for a connection it has passed over.   *)
Polls(f) == Fetching(f) /\ ~(fetch[f].pc = "parse" /\ fetch[f].batch # <<>>)
QuitEndsPolling ==
    ui = "destroy" ~> dtor.pc = "joined" \/ \A f \in Fetchers : ~Polls(f)

(* The messages of the program's first connection all reach the list while  *)
(* it is the current one, the last ones before Closed included.             *)
FirstIsShown ==
    \A n \in 1 .. MaxMessages :
        m_next_id = 1 /\ n <= m_message_count[0]
            ~> n \in shown[0] \/ m_id # 0 \/ ui \in {"quit", "destroy"}

(* session.cpp:74: "The thread will forever attempt to fetch and parse      *)
(* messages."  An Open connection has a fetch thread once connect() is over.*)
ForeverFetching ==
    isOpen /\ Idle => \E f \in Fetchers : Fetching(f)
=============================================================================
