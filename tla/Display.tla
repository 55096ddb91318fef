------------------------------- MODULE Display -------------------------------
(***************************************************************************)
(* totemoe-livemaid/session.cpp: parseMessage from the filter levels to    *)
(* the list view, on the fetch threads, and the text filter, which the     *)
(* command line sets on the window's thread.  They share m_vDisplay,       *)
(* m_vFiltered and m_keyword without a lock; the list view belongs to the  *)
(* window's thread, and a fetch thread that wants something of it waits    *)
(* until the window's thread is in its message loop.                       *)
(*                                                                         *)
(* A row is its message id and a text, which stands for all nine columns.  *)
(* Rows are counted from 1.                                                *)
(***************************************************************************)
EXTENDS Integers, Sequences, SequencesExt, FiniteSetsExt

CONSTANTS
    Fetchers,       \* fetch threads that are in their loops
    Texts,          \* what a row may read
    Patterns,       \* what the user may filter by, the empty pattern aside
    find,           \* the rows' texts in which a pattern occurs literally
    search,         \* the texts it matches as a regular expression
    Page,           \* rows the list view has room for
    MaxMessages,    \* bound on the messages parsed
    MaxFilters      \* bound on the filters set

ASSUME DisplayBounds ==
    /\ Page \in Nat \ {0} /\ MaxMessages \in Nat /\ MaxFilters \in Nat
    /\ Texts # {}
    /\ find \in [Patterns -> SUBSET Texts]
    /\ search \in [Patterns -> SUBSET Texts]

Empty == ""         \* no filter
ASSUME NotEmpty == Empty \notin Patterns

VARIABLES
    m_nNextMessageID,
    m_vDisplay,       \* the rows
    m_vFiltered,      \* numbers of the rows that match the filter
    m_keyword,
    m_bFilterRegex,
    fetch,            \* parseMessage on each fetch thread
    win,              \* the window's thread inside setFilter
    list,             \* the list view
    count             \* messages and filters so far; touched: the user took over

vars == <<m_nNextMessageID, m_vDisplay, m_vFiltered, m_keyword, m_bFilterRegex,
          fetch, win, list, count>>

filterVars == <<m_keyword, m_bFilterRegex>>

FetchPoints == {"idle", "load", "store", "push", "match", "add", "look", "size",
                "send", "scroll"}
WinPoints == {"idle", "clear", "scan", "show"}
Rows == [mID : Nat, text : Texts]
AtRest == win.pc = "idle" /\ \A f \in Fetchers : fetch[f].pc = "idle"

Init ==
    /\ m_nNextMessageID = 0
    /\ m_vDisplay = <<>> /\ m_vFiltered = <<>>
    /\ m_keyword = Empty /\ m_bFilterRegex = FALSE
    /\ fetch = [f \in Fetchers |-> [pc |-> "idle", mID |-> 0, reg |-> 0,
                                    text |-> CHOOSE t \in Texts : TRUE,
                                    display |-> FALSE, all |-> TRUE, tell |-> 0]]
    /\ win = [pc |-> "idle", index |-> 1]
    /\ list = [count |-> 0, top |-> 0, selected |-> FALSE]
    /\ count = [messages |-> 0, filters |-> 0, touched |-> FALSE]

-----------------------------------------------------------------------------
(* The list view. *)

LastTop(n) == IF n > Page THEN n - Page ELSE 0

(* ListView_SetItemCountEx: a list that shrinks scrolls back to its end. *)
WithCount(l, n) == [l EXCEPT !.count = n, !.top = IF @ > LastTop(n) THEN LastTop(n) ELSE @]

(* Mutant: the newest row is taken to be in sight already. *)
scrollLockedLate(l) == l.selected \/ l.top + Page # l.count

scrollLocked(l) == l.selected \/ l.top + Page + 1 # l.count

(* scrollToBottom, unless it is locked. *)
Scrolled(l) == IF scrollLocked(l) THEN l ELSE [l EXCEPT !.top = LastTop(l.count)]

-----------------------------------------------------------------------------
(* parseMessage on fetch thread f. *)

At(f, p) == fetch[f].pc = p
Go(f, p) == fetch' = [fetch EXCEPT ![f].pc = p]

Protocols == {"WebSocket", "Danmaku", "Gifting", "Announcement", "Unknown"}

(* What becomes of a message, from the filter level set for its protocol    *)
(* and, for danmaku that a SmallTV raffle made, from filterSmallTV.         *)
Fate(protocol, level, hideRaffle) ==
    LET filterLevel == IF protocol = "WebSocket" THEN 3 ELSE level
    IN  CASE filterLevel = 0 -> "ignore"
          [] filterLevel = 1 -> "count"
          [] protocol = "Danmaku" /\ hideRaffle -> "count"
          [] OTHER -> "display"

(* A message is parsed; its id is read, its fate decided. *)
Parse(f) ==
    /\ At(f, "idle")
    /\ count.messages < MaxMessages
    /\ count' = [count EXCEPT !.messages = @ + 1]
    /\ \E protocol \in Protocols, level \in 0 .. 3, hideRaffle \in BOOLEAN, t \in Texts :
          LET fate == Fate(protocol, level, hideRaffle)
          IN  fetch' = [fetch EXCEPT ![f].mID = m_nNextMessageID,
                                     ![f].text = t,
                                     ![f].display = fate = "display",
                                     ![f].pc = IF fate = "ignore" THEN "idle" ELSE "load"]
    /\ UNCHANGED <<m_nNextMessageID, m_vDisplay, m_vFiltered, filterVars, win, list>>

(* m_nNextMessageID += 1 on a plain long: a load and a store. *)
LoadID(f) ==
    /\ At(f, "load")
    /\ fetch' = [fetch EXCEPT ![f].pc = "store", ![f].reg = m_nNextMessageID]
    /\ UNCHANGED <<m_nNextMessageID, m_vDisplay, m_vFiltered, filterVars, win, list, count>>

(* Mutant: only messages that are not displayed take an id. *)
StoreIDUnshown(f) ==
    /\ At(f, "store")
    /\ m_nNextMessageID' = IF fetch[f].display THEN m_nNextMessageID ELSE fetch[f].reg + 1
    /\ Go(f, IF fetch[f].display THEN "push" ELSE "idle")
    /\ UNCHANGED <<m_vDisplay, m_vFiltered, filterVars, win, list, count>>

StoreID(f) ==
    /\ At(f, "store")
    /\ m_nNextMessageID' = fetch[f].reg + 1
    /\ Go(f, IF fetch[f].display THEN "push" ELSE "idle")
    /\ UNCHANGED <<m_vDisplay, m_vFiltered, filterVars, win, list, count>>

PushRow(f) ==
    /\ At(f, "push")
    /\ m_vDisplay' = Append(m_vDisplay, [mID |-> fetch[f].mID, text |-> fetch[f].text])
    /\ Go(f, "match")
    /\ UNCHANGED <<m_nNextMessageID, m_vFiltered, filterVars, win, list, count>>

(* The row is held against the keyword, read here; never as a regular       *)
(* expression.                                                              *)
Match(f) ==
    /\ At(f, "match")
    /\ Go(f, IF m_keyword # Empty /\ fetch[f].text \in find[m_keyword] THEN "add" ELSE "look")
    /\ UNCHANGED <<m_nNextMessageID, m_vDisplay, m_vFiltered, filterVars, win, list, count>>

(* Mutant: the number is the size, one past the row. *)
AddMatchPast(f) ==
    /\ At(f, "add")
    /\ m_vFiltered' = Append(m_vFiltered, Len(m_vDisplay) + 1)
    /\ Go(f, "look")
    /\ UNCHANGED <<m_nNextMessageID, m_vDisplay, filterVars, win, list, count>>

AddMatch(f) ==
    /\ At(f, "add")
    /\ m_vFiltered' = Append(m_vFiltered, Len(m_vDisplay))
    /\ Go(f, "look")
    /\ UNCHANGED <<m_nNextMessageID, m_vDisplay, filterVars, win, list, count>>

(* Which rows the list shows: all if none was filtered out, whatever the    *)
(* keyword; then how many there are.                                        *)
LookFiltered(f) ==
    /\ At(f, "look")
    /\ fetch' = [fetch EXCEPT ![f].pc = "size", ![f].all = m_vFiltered = <<>>]
    /\ UNCHANGED <<m_nNextMessageID, m_vDisplay, m_vFiltered, filterVars, win, list, count>>

(* Mutant: the size is always that of the matches. *)
LookSizeMatches(f) ==
    /\ At(f, "size")
    /\ fetch' = [fetch EXCEPT ![f].pc = "send", ![f].tell = Len(m_vFiltered)]
    /\ UNCHANGED <<m_nNextMessageID, m_vDisplay, m_vFiltered, filterVars, win, list, count>>

LookSize(f) ==
    /\ At(f, "size")
    /\ fetch' = [fetch EXCEPT ![f].pc = "send",
                              ![f].tell = Len(IF fetch[f].all THEN m_vDisplay ELSE m_vFiltered)]
    /\ UNCHANGED <<m_nNextMessageID, m_vDisplay, m_vFiltered, filterVars, win, list, count>>

(* The window's thread, back in its message loop, handles LVM_SETITEMCOUNT; *)
(* then the requests of scrollLocked and scrollToBottom.                    *)
SetCount(f) ==
    /\ At(f, "send") /\ win.pc = "idle"
    /\ list' = WithCount(list, fetch[f].tell)
    /\ Go(f, "scroll")
    /\ UNCHANGED <<m_nNextMessageID, m_vDisplay, m_vFiltered, filterVars, win, count>>

Scroll(f) ==
    /\ At(f, "scroll") /\ win.pc = "idle"
    /\ list' = Scrolled(list)
    /\ Go(f, "idle")
    /\ UNCHANGED <<m_nNextMessageID, m_vDisplay, m_vFiltered, filterVars, win, count>>

ParseOn(f) == LoadID(f) \/ StoreID(f) \/ PushRow(f) \/ Match(f) \/ AddMatch(f)
                  \/ LookFiltered(f) \/ LookSize(f)

-----------------------------------------------------------------------------
(* The window's thread. *)

(* Controller::submit: setFilter or setFilterRegex begins. *)
Submit(pattern, regex) ==
    /\ win.pc = "idle"
    /\ count.filters < MaxFilters
    /\ count' = [count EXCEPT !.filters = @ + 1, !.touched = TRUE]
    /\ m_keyword' = pattern
    /\ m_bFilterRegex' = regex
    /\ win' = [win EXCEPT !.pc = "clear"]
    /\ UNCHANGED <<m_nNextMessageID, m_vDisplay, m_vFiltered, fetch, list>>

(* The old matches go; an empty keyword needs no scan. *)
Clear ==
    /\ win.pc = "clear"
    /\ m_vFiltered' = <<>>
    /\ win' = [pc |-> IF m_keyword = Empty THEN "show" ELSE "scan", index |-> 1]
    /\ UNCHANGED <<m_nNextMessageID, m_vDisplay, filterVars, fetch, list, count>>

Matches(text) == text \in (IF m_bFilterRegex THEN search[m_keyword] ELSE find[m_keyword])

(* Mutant: the last row is left to parseMessage. *)
ScanShort ==
    /\ win.pc = "scan"
    /\ IF win.index < Len(m_vDisplay)
       THEN /\ win' = [win EXCEPT !.index = @ + 1]
            /\ m_vFiltered' = IF Matches(m_vDisplay[win.index].text)
                              THEN Append(m_vFiltered, win.index) ELSE m_vFiltered
       ELSE /\ win' = [win EXCEPT !.pc = "show"]
            /\ UNCHANGED m_vFiltered
    /\ UNCHANGED <<m_nNextMessageID, m_vDisplay, filterVars, fetch, list, count>>

(* One turn of the loop over m_vDisplay; its size is looked at every time.  *)
Scan ==
    /\ win.pc = "scan"
    /\ IF win.index <= Len(m_vDisplay)
       THEN /\ win' = [win EXCEPT !.index = @ + 1]
            /\ m_vFiltered' = IF Matches(m_vDisplay[win.index].text)
                              THEN Append(m_vFiltered, win.index) ELSE m_vFiltered
       ELSE /\ win' = [win EXCEPT !.pc = "show"]
            /\ UNCHANGED m_vFiltered
    /\ UNCHANGED <<m_nNextMessageID, m_vDisplay, filterVars, fetch, list, count>>

(* Mutant: the window's thread waits for the fetch threads. *)
ShowAfterFetch ==
    /\ win.pc = "show" /\ \A f \in Fetchers : fetch[f].pc = "idle"
    /\ LET nItems == Len(IF m_keyword = Empty THEN m_vDisplay ELSE m_vFiltered)
       IN  list' = Scrolled(WithCount(list, nItems))
    /\ win' = [win EXCEPT !.pc = "idle"]
    /\ UNCHANGED <<m_nNextMessageID, m_vDisplay, m_vFiltered, filterVars, fetch, count>>

(* The list is told its size, and scrolled. *)
Show ==
    /\ win.pc = "show"
    /\ LET nItems == Len(IF m_keyword = Empty THEN m_vDisplay ELSE m_vFiltered)
       IN  list' = Scrolled(WithCount(list, nItems))
    /\ win' = [win EXCEPT !.pc = "idle"]
    /\ UNCHANGED <<m_nNextMessageID, m_vDisplay, m_vFiltered, filterVars, fetch, count>>

(* The user scrolls, or selects a row or deselects it. *)
UserActs ==
    /\ win.pc = "idle"
    /\ \E t \in 0 .. LastTop(list.count), s \in BOOLEAN :
          /\ s => list.count > 0
          /\ list' = [list EXCEPT !.top = t, !.selected = s]
    /\ count' = [count EXCEPT !.touched = TRUE]
    /\ UNCHANGED <<m_nNextMessageID, m_vDisplay, m_vFiltered, filterVars, fetch, win>>

SetFilter == Clear \/ Scan \/ Show

Next ==
    \/ \E f \in Fetchers : Parse(f) \/ ParseOn(f) \/ SetCount(f) \/ Scroll(f)
    \/ \E p \in Patterns, regex \in BOOLEAN : Submit(p, regex)
    \/ \E regex \in BOOLEAN : Submit(Empty, regex)
    \/ SetFilter
    \/ UserActs

(* Threads go on; sent messages are handled before the user's input, so a   *)
(* fetch thread is not passed over for ever.                                *)
Fairness ==
    /\ WF_vars(SetFilter)
    /\ \A f \in Fetchers : WF_vars(ParseOn(f)) /\ SF_vars(SetCount(f)) /\ SF_vars(Scroll(f))

Safety == Init /\ [][Next]_vars
Spec == Safety /\ Fairness

-----------------------------------------------------------------------------
(* The type; a number in m_vFiltered is that of a row.                      *)
DisplayTypeOK ==
    /\ m_nNextMessageID \in Nat
    /\ m_vDisplay \in Seq(Rows)
    /\ m_vFiltered \in Seq(1 .. Len(m_vDisplay))
    /\ m_keyword \in Patterns \cup {Empty} /\ m_bFilterRegex \in BOOLEAN
    /\ fetch \in [Fetchers -> [pc : FetchPoints, mID : Nat, reg : Nat, text : Texts,
                               display : BOOLEAN, all : BOOLEAN, tell : Nat]]
    /\ win \in [pc : WinPoints, index : Nat]
    /\ list \in [count : Nat, top : Nat, selected : BOOLEAN]
    /\ list.top <= LastTop(list.count)
    /\ count \in [messages : 0 .. MaxMessages, filters : 0 .. MaxFilters, touched : BOOLEAN]

(* A row fetch thread f has added and not yet held against the keyword.     *)
Pending(f, r) == fetch[f].pc \in {"match", "add"} /\ r = Len(m_vDisplay)

(* With one fetch thread, a plain filter misses no row: whatever the order  *)
(* in which setFilter and parseMessage come upon a new row, when setFilter  *)
(* is over the row is among the matches or about to be.                     *)
NoMatchMissed ==
    win.pc \in {"show", "idle"} /\ m_keyword # Empty /\ ~m_bFilterRegex =>
        \A r \in DOMAIN m_vDisplay :
            m_vDisplay[r].text \in find[m_keyword] =>
                r \in ToSet(m_vFiltered) \/ \E f \in Fetchers : Pending(f, r)

(* With one fetch thread, the ids of the rows increase and none is given    *)
(* out twice, although messages are counted that are not displayed.         *)
IdsIncrease ==
    /\ \A r \in 1 .. Len(m_vDisplay) - 1 : m_vDisplay[r].mID < m_vDisplay[r + 1].mID
    /\ \A r \in DOMAIN m_vDisplay : m_vDisplay[r].mID < m_nNextMessageID

(* With one fetch thread, a list that nobody scrolls, selects in or filters *)
(* shows its newest row once the thread is done with it.                    *)
FollowsNewest ==
    ~count.touched /\ AtRest => list.count = Len(m_vDisplay) /\ list.top = LastTop(list.count)

(* A new row is listed in the end by the one fetch thread, as long as no    *)
(* filter was ever set (a filter in between can make what the thread tells  *)
(* the list out of date).                                                   *)
RowsAreListed ==
    \A n \in 1 .. MaxMessages :
        Len(m_vDisplay) = n ~> list.count >= n \/ count.filters > 0

(* parseMessage waits for the window's thread at every message it sends to  *)
(* the list, and always comes back: the window's thread never waits for it. *)
ParseReturns == \A f \in Fetchers : fetch[f].pc # "idle" ~> fetch[f].pc = "idle"

(* session.hpp:84 says of m_regex "Used to filter displayed messages."      *)
(* With a regular expression as the filter, the matches are the rows that   *)
(* match it.                                                                *)
RegexFilters ==
    AtRest /\ m_bFilterRegex /\ m_keyword # Empty =>
        ToSet(m_vFiltered) = {r \in DOMAIN m_vDisplay : m_vDisplay[r].text \in search[m_keyword]}
=============================================================================
