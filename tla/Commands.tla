------------------------------ MODULE Commands ------------------------------
(***************************************************************************)
(* bili-https, and the commands of the window that ask the web service:    *)
(* the Danmaku menu, the Connect To dialog and Reconnect, the command      *)
(* line, and Verify on the Session page.                                   *)
(*                                                                         *)
(* A request blocks the window's thread, so a command is one step, with    *)
(* the service's reply as its parameter.  The first one of the mode menu,  *)
(* which lives and dies with the colour menu and sets nothing, is left out.*)
(***************************************************************************)
EXTENDS Preferences, Sequences

CONSTANTS
    Offers,       \* the lists of colours the service may offer
    Rooms,        \* room numbers it may resolve a typed one to
    Lines,        \* what the user may type into the command line
    Surrogates    \* those with a character that takes two UTF-16 units

NoOffer == <<"no menu yet">>
NoRoom == -1

ASSUME CommandsBounds ==
    /\ \A offer \in Offers : offer \in Seq(Colors)
    /\ <<>> \in Offers /\ NoOffer \notin Offers
    /\ Rooms \subseteq Nat /\ Surrogates \subseteq Lines /\ "" \in Lines

(* A reply is whole, and of one of these kinds: the data asked for; that    *)
(* with an unusual msg; JSON with code 0 and other data; JSON with another  *)
(* code; other text; bytes that are not UTF-8.  Or the request fails, when  *)
(* some of the reply may have come.                                         *)
Whole == {"data", "othermsg", "odd", "refused", "text", "bytes"}
Replies == [ok : {TRUE}, parts : {<<kind>> : kind \in Whole}]
            \cup [ok : {FALSE}, parts : {<<>>, <<"torn">>}]

Clients == {"room", "user"}   \* network.hpp's static buffer is once in each source file

VARIABLES
    buffer,             \* per client: the receive buffer
    m_vDanmakuColors,   \* the vector of colours
    popup,              \* the colour menu: what its items' pointers show
    checked,            \* its checked item, 0 for none
    m_commandLine,      \* text of the command line
    m_roomid,           \* the room joined
    uri                 \* what GetURI gave at the last connect

commandVars == <<buffer, m_vDanmakuColors, popup, checked, m_commandLine, m_roomid, uri>>
commandsVars == <<preferencesVars, commandVars>>

URI(is, room) == [is |-> is, room |-> room]
NoURI == URI("none", NoRoom)

CommandsInit ==
    /\ Init
    /\ buffer = [c \in Clients |-> <<>>]
    /\ m_vDanmakuColors = <<>> /\ popup = NoOffer /\ checked = 0
    /\ m_commandLine = "" /\ m_roomid = NoRoom /\ uri = NoURI

-----------------------------------------------------------------------------
Received(client, reply) == buffer[client] \o reply.parts

(* Mutant: cleared when the request succeeds. *)
CleanedUpIfOk(client, reply) ==
    buffer' = [buffer EXCEPT ![client] = IF reply.ok THEN <<>> ELSE Received(client, reply)]

CleanedUp(client, reply) == buffer' = [buffer EXCEPT ![client] = <<>>]

(* What a GET for the data returns.  A refusal makes an error object; null  *)
(* and text are not seen as errors by those who look for one.               *)
curlHttpsGet(client, reply) ==
    LET text == Received(client, reply)
    IN  CASE ~reply.ok -> "null"
          [] reply.ok /\ Len(text) = 1 -> IF text[1] = "othermsg" THEN "data" ELSE text[1]
          [] OTHER -> "text"

(* A POST looks at the msg, too. *)
curlHttpsPost(client, reply) ==
    LET text == Received(client, reply)
    IN  CASE ~reply.ok -> "null"
          [] reply.ok /\ Len(text) = 1 -> IF text[1] = "othermsg" THEN "refused" ELSE text[1]
          [] OTHER -> "text"

(* The player's reply is text with tags, of which a map is made.  Null is   *)
(* no string; the odd map has servers and no port.                          *)
GetDanmakuServer(reply) ==
    LET text == Received("room", reply)
    IN  CASE ~reply.ok -> "exception"
          [] reply.ok /\ text[Len(text)] \in {"data", "odd"} -> text[Len(text)]
          [] OTHER -> "null"

GetURI(room, reply) ==
    CASE GetDanmakuServer(reply) = "data" -> URI("uri", room)
      [] GetDanmakuServer(reply) = "null" -> URI("error", room)
      [] OTHER -> URI("exception", room)

(* Settings are loaded before a request, and made strings of. *)
Requests == Reload /\ Complete(inifile')

(* An exception leaves the window procedure and the message loop: the       *)
(* program ends, as it does when the window is closed.                      *)
Ends ==
    /\ Quit
    /\ buffer' = [c \in Clients |-> <<>>]
    /\ m_vDanmakuColors' = <<>> /\ popup' = NoOffer /\ checked' = 0
    /\ m_commandLine' = "" /\ m_roomid' = NoRoom /\ uri' = NoURI

UnchangedSheets == UNCHANGED <<sheets, m_hPropSheet, visits>>

-----------------------------------------------------------------------------
(* The last colour that is the one set. *)
Active(offer) ==
    LET found == {i \in DOMAIN offer : offer[i] = inifile'["color"]}
    IN  IF found = {} THEN 0 ELSE CHOOSE i \in found : \A j \in found : j <= i

(* Mutant: the item that asks for the menus stays in the Danmaku menu.  The *)
(* item of the colour menu is gone, so the old menu remains.                *)
initMenuAgain(offer, reply) ==
    LET answer == curlHttpsGet("room", reply)
    IN  IF answer \in {"odd", "text", "bytes"} THEN running /\ Ends
        ELSE /\ Requests /\ CleanedUp("room", reply) /\ UnchangedSheets
             /\ IF answer = "refused" THEN UNCHANGED <<m_vDanmakuColors, popup, checked>>
                ELSE /\ m_vDanmakuColors' = IF answer = "data" THEN offer ELSE <<>>
                     /\ popup' = IF popup = NoOffer THEN m_vDanmakuColors' ELSE popup
                     /\ checked' = IF popup = NoOffer THEN Active(popup') ELSE checked
             /\ UNCHANGED <<m_commandLine, m_roomid, uri>>

(* The Danmaku menu pops up.  While it has the plain item Mode, the service *)
(* is asked what there is to choose from.  Null is taken for data without   *)
(* modes and colours; text cannot be indexed.                               *)
initMenu(offer, reply) ==
    /\ popup = NoOffer
    /\ LET answer == curlHttpsGet("room", reply)
       IN  IF answer \in {"odd", "text", "bytes"} THEN running /\ Ends
           ELSE /\ Requests /\ CleanedUp("room", reply) /\ UnchangedSheets
                /\ IF answer = "refused" THEN UNCHANGED <<m_vDanmakuColors, popup, checked>>
                   ELSE /\ m_vDanmakuColors' = IF answer = "data" THEN offer ELSE <<>>
                        /\ popup' = m_vDanmakuColors'
                        /\ checked' = Active(popup')
                /\ UNCHANGED <<m_commandLine, m_roomid, uri>>

(* A click on a colour sets the one at its place in the vector. *)
command(i) ==
    /\ popup # NoOffer /\ i \in DOMAIN popup \cap DOMAIN m_vDanmakuColors
    /\ checked' = i
    /\ PickColor(m_vDanmakuColors[i]) /\ UnchangedSheets
    /\ UNCHANGED <<buffer, m_vDanmakuColors, popup, m_commandLine, m_roomid, uri>>

-----------------------------------------------------------------------------
(* Room::connect, as far as GetURI; room 0 is not connected to. *)
Connect(room, reply) ==
    IF room # 0 /\ GetURI(room, reply).is = "exception" THEN running /\ Ends
    ELSE /\ Requests /\ CleanedUp("room", reply) /\ UnchangedSheets
         /\ m_roomid' = room
         /\ uri' = IF room = 0 THEN uri ELSE GetURI(room, reply)
         /\ UNCHANGED <<m_vDanmakuColors, popup, checked, m_commandLine>>

(* OK in the dialog: the number is resolved, the room joined, connected to. *)
(* Any answer without a room number in it makes a message box.              *)
ConnectDlgOk(room, resolve, player) ==
    IF curlHttpsGet("room", resolve) = "data" THEN Connect(room, player)
    ELSE /\ Requests /\ CleanedUp("room", resolve) /\ UnchangedSheets
         /\ UNCHANGED <<m_vDanmakuColors, popup, checked, m_commandLine, m_roomid, uri>>

(* Enabled while the connection is open. *)
Reconnect(reply) == uri.is = "uri" /\ Connect(m_roomid, reply)

-----------------------------------------------------------------------------
Type(text) ==
    /\ running
    /\ m_commandLine' = text
    /\ UNCHANGED <<preferencesVars, buffer, m_vDanmakuColors, popup, checked, m_roomid, uri>>

(* utf32to8 takes each unit for a code point, which a surrogate is not.     *)
Encodes(text) == text \notin Surrogates

(* prepare(): the stored numbers are numbers, so none of them throws. *)
SentColor == inifile["color"]

(* Return in the command line, with "danmaku" as its type.  The line stays  *)
(* unless the answer is an array.  One that is not UTF-8 cannot be shown:   *)
(* an exception, as for a text that does not encode.                        *)
submit(reply) ==
    /\ m_commandLine # ""
    /\ LET answer == curlHttpsPost("user", reply)
       IN  IF ~Encodes(m_commandLine) \/ answer = "bytes" THEN running /\ Ends
           ELSE /\ Requests /\ CleanedUp("user", reply) /\ UnchangedSheets
                /\ m_commandLine' = IF answer = "data" THEN "" ELSE m_commandLine
                /\ UNCHANGED <<m_vDanmakuColors, popup, checked, m_roomid, uri>>

-----------------------------------------------------------------------------
(* Verify on the Session page, enabled while no credential is empty: the    *)
(* service is asked with what is in the controls, and a message box tells   *)
(* the answer, unless it is not UTF-8.  Nothing is set.                     *)
Verify(s, reply) ==
    /\ Is(s, "Session") /\ \A k \in Credentials : sheets[s].made["Session"][k] # ""
    /\ IF curlHttpsGet("user", reply) = "bytes" THEN running /\ Ends
       ELSE /\ Requests /\ CleanedUp("user", reply) /\ UnchangedSheets
            /\ UNCHANGED <<m_vDanmakuColors, popup, checked, m_commandLine, m_roomid, uri>>

-----------------------------------------------------------------------------
Command ==
    \/ \E offer \in Offers, r \in Replies : initMenu(offer, r)
    \/ \E i \in DOMAIN popup : command(i)
    \/ \E room \in Rooms, resolve \in Replies, player \in Replies :
          ConnectDlgOk(room, resolve, player)
    \/ \E r \in Replies : Reconnect(r)
    \/ \E text \in Lines : Type(text)
    \/ \E r \in Replies : submit(r)

(* A run in which the user works on a page has of the commands only what    *)
(* they do to the settings.                                                 *)
CommandsNext ==
    \/ visits = {} /\ Command
    \/ visits # {} /\ UNCHANGED commandVars /\ UnchangedSheets
          /\ (Reload \/ \E c \in Colors : PickColor(c))
    \/ UNCHANGED commandVars /\ UnchangedSheets /\ (Start \/ EditConfig)
    \/ UNCHANGED commandVars /\ \E s \in Sheets : UserOn(s)
    \/ \E s \in Sheets, r \in Replies : Verify(s, r)
    \/ Ends

CommandsSafety == CommandsInit /\ [][CommandsNext]_commandsVars

-----------------------------------------------------------------------------
(* The type. *)
CommandsTypeOK ==
    /\ PreferencesTypeOK
    /\ buffer \in [Clients -> Seq(Whole \cup {"torn"})]
    /\ m_vDanmakuColors \in Offers /\ popup \in Offers \cup {NoOffer}
    /\ checked \in 0 .. Len(popup)
    /\ m_commandLine \in Lines /\ m_roomid \in Rooms \cup {NoRoom}
    /\ uri.is \in {"none", "error", "uri"} /\ uri.room \in Rooms \cup {NoRoom}

(* A message leaves the command line if the service says that it took it,   *)
(* and only then.  The answer is read off a buffer that a request shares    *)
(* with all earlier ones of its source file, broken ones among them.        *)
ClearedWhenTaken ==
    [][\A r \in Replies : submit(r) /\ running' =>
        (m_commandLine' = "" <=> r = [ok |-> TRUE, parts |-> <<"data">>])]_commandsVars

(* A message goes with the colour of the settings, which are loaded again   *)
(* before each: it is the one the menu has checked, and if the menu has it, *)
(* it is checked.                                                           *)
CheckedIsSent ==
    popup # NoOffer =>
        \/ checked # 0 /\ popup[checked] = SentColor
        \/ checked = 0 /\ \A i \in DOMAIN popup : popup[i] # SentColor

(* The items of the colour menu are pointers into the vector of colours,    *)
(* and a click is looked up in it by its number: the menu never outlives    *)
(* the colours it was made of.                                              *)
MenuInStep == popup # NoOffer => popup = m_vDanmakuColors
=============================================================================
