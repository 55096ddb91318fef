--------------------------- MODULE CommandsProofs ---------------------------
(***************************************************************************)
(* The commands that ask the web service do to the settings and the sheets *)
(* nothing that Preferences does not say; the colour menu stays in step    *)
(* with the colours it was made of, and what it has checked is what a      *)
(* message is sent with; and the command line is cleared by the answer to  *)
(* its own message, because every request leaves the receive buffer empty. *)
(***************************************************************************)
EXTENDS Commands, PreferencesProofs, Induction

(* Colours are the service's, and the menu's are those of the vector. *)
MenuInv ==
    /\ m_vDanmakuColors \in Seq(Colors)
    /\ MenuInStep

LEMMA NoColors == <<>> \in Seq(Colors)
  BY CommandsBounds

LEMMA MenuInit == CommandsInit => MenuInv
  BY NoColors DEF CommandsInit, MenuInv, MenuInStep

LEMMA EndsMenu == Ends => MenuInv'
  BY NoColors DEF Ends, MenuInv, MenuInStep

(* Every command that does not touch the menu. *)
LEMMA SameMenu == MenuInv /\ UNCHANGED <<m_vDanmakuColors, popup>> => MenuInv'
  BY DEF MenuInv, MenuInStep

LEMMA initMenuMenu ==
    ASSUME MenuInv, NEW offer \in Offers, NEW r \in Replies, initMenu(offer, r)
    PROVE  MenuInv'
<1>1. offer \in Seq(Colors)
  BY CommandsBounds
<1>2. CASE Ends
  BY <1>2, EndsMenu
<1>3. CASE UNCHANGED <<m_vDanmakuColors, popup>>
  BY <1>3, SameMenu
<1>4. CASE m_vDanmakuColors' \in {offer, <<>>} /\ popup' = m_vDanmakuColors'
  BY NoColors, <1>1, <1>4 DEF MenuInv, MenuInStep
<1> QED
  BY <1>2, <1>3, <1>4 DEF initMenu

LEMMA MenuNext == MenuInv /\ [CommandsNext]_commandsVars => MenuInv'
<1> SUFFICES ASSUME MenuInv, [CommandsNext]_commandsVars PROVE MenuInv'
  OBVIOUS
<1>1. CASE Command
  <2>1. ASSUME NEW offer \in Offers, NEW r \in Replies, initMenu(offer, r) PROVE MenuInv'
    BY <2>1, initMenuMenu
  <2>2. ASSUME NEW i \in DOMAIN popup, command(i) PROVE MenuInv'
    BY <2>2, SameMenu DEF command
  <2>3. ASSUME NEW room, NEW reply, Connect(room, reply) PROVE MenuInv'
    BY <2>3, SameMenu, EndsMenu DEF Connect
  <2>4. ASSUME NEW room \in Rooms, NEW resolve \in Replies, NEW player \in Replies,
               ConnectDlgOk(room, resolve, player)
        PROVE  MenuInv'
    BY <2>3, <2>4, SameMenu DEF ConnectDlgOk
  <2>5. ASSUME NEW r \in Replies, Reconnect(r) PROVE MenuInv'
    BY <2>5, SameMenu, EndsMenu DEF Reconnect, Connect
  <2>6. ASSUME NEW text \in Lines, Type(text) PROVE MenuInv'
    BY <2>6, SameMenu DEF Type
  <2>7. ASSUME NEW r \in Replies, submit(r) PROVE MenuInv'
    BY <2>7, SameMenu, EndsMenu DEF submit
  <2> QED
    BY <1>1, <2>1, <2>2, <2>4, <2>5, <2>6, <2>7 DEF Command
<1>2. CASE UNCHANGED commandVars
  BY <1>2, SameMenu DEF commandVars
<1>3. CASE Ends
  BY <1>3, EndsMenu
<1>4. ASSUME NEW s \in Sheets, NEW r \in Replies, Verify(s, r) PROVE MenuInv'
  BY <1>4, SameMenu, EndsMenu DEF Verify
<1>5. CASE UNCHANGED commandsVars
  BY <1>5, SameMenu DEF commandsVars, commandVars
<1> QED
  BY <1>1, <1>2, <1>3, <1>4, <1>5 DEF CommandsNext

(* The items of the colour menu point into the vector they were made of. *)
THEOREM MenuKept == CommandsSafety => []MenuInStep
<1>1. MenuInv => MenuInStep
  BY DEF MenuInv
<1> QED
  BY <1>1, MenuInit, MenuNext, PTL DEF CommandsSafety

-----------------------------------------------------------------------------
(* A request loads the settings and leaves the sheets alone. *)
LEMMA RequestStep == Requests /\ UnchangedSheets => Next
  BY DEF Requests, UnchangedSheets, Background, Next

LEMMA EndsStep == Ends => Next
  BY DEF Ends, Next

LEMMA CommandStep ==
    MenuInv /\ [CommandsNext]_commandsVars => [Next]_preferencesVars
<1> SUFFICES ASSUME MenuInv, [CommandsNext]_commandsVars PROVE [Next]_preferencesVars
  OBVIOUS
<1>1. CASE Command
  <2>1. ASSUME NEW offer \in Offers, NEW r \in Replies, initMenu(offer, r) PROVE Next
    BY <2>1, RequestStep, EndsStep DEF initMenu
  <2>2. ASSUME NEW i \in DOMAIN popup, command(i) PROVE Next
    <3>1. m_vDanmakuColors[i] \in Colors
      BY <2>2 DEF command, MenuInv
    <3> QED
      BY <2>2, <3>1 DEF command, UnchangedSheets, Background, Next
  <2>3. ASSUME NEW room \in Rooms, NEW resolve \in Replies, NEW player \in Replies,
               ConnectDlgOk(room, resolve, player)
        PROVE  Next
    BY <2>3, RequestStep, EndsStep DEF ConnectDlgOk, Connect
  <2>4. ASSUME NEW r \in Replies, Reconnect(r) PROVE Next
    BY <2>4, RequestStep, EndsStep DEF Reconnect, Connect
  <2>5. ASSUME NEW text \in Lines, Type(text) PROVE UNCHANGED preferencesVars
    BY <2>5 DEF Type
  <2>6. ASSUME NEW r \in Replies, submit(r) PROVE Next
    BY <2>6, RequestStep, EndsStep DEF submit
  <2> QED
    BY <1>1, <2>1, <2>2, <2>3, <2>4, <2>5, <2>6 DEF Command
<1>2. CASE UnchangedSheets /\ (Start \/ Reload \/ EditConfig \/ \E c \in Colors : PickColor(c))
  BY <1>2 DEF UnchangedSheets, Background, Next
<1>3. CASE \E s \in Sheets : UserOn(s)
  BY <1>3 DEF Next
<1>4. CASE Ends
  BY <1>4, EndsStep
<1>5. ASSUME NEW s \in Sheets, NEW r \in Replies, Verify(s, r) PROVE Next
  BY <1>5, RequestStep, EndsStep DEF Verify
<1>6. CASE UNCHANGED commandsVars
  BY <1>6 DEF commandsVars
<1> QED
  BY <1>1, <1>2, <1>3, <1>4, <1>5, <1>6 DEF CommandsNext

(* With all its commands the window still behaves as Preferences says. *)
THEOREM CommandsImplement == CommandsSafety => Safety
<1>1. CommandsInit => Init
  BY DEF CommandsInit
<1> QED
  BY <1>1, MenuInit, MenuNext, CommandStep, PTL DEF CommandsSafety, Safety

(* So what is proved of Preferences holds with the commands, too. *)
THEOREM CredentialsWithCommands == CommandsSafety => []CredentialsWhole
  BY CommandsImplement, CredentialsKept, PTL
-----------------------------------------------------------------------------
(* Between two commands nothing is left in the receive buffers. *)
NothingLeft == buffer = [c \in Clients |-> <<>>]

LEMMA CleanedUpLeft ==
    ASSUME NothingLeft, NEW client, NEW r, CleanedUp(client, r)
    PROVE  NothingLeft'
  BY DEF NothingLeft, CleanedUp

LEMMA BufferNext == NothingLeft /\ [CommandsNext]_commandsVars => NothingLeft'
<1> SUFFICES ASSUME NothingLeft, [CommandsNext]_commandsVars PROVE NothingLeft'
  OBVIOUS
<1>1. CASE Command
  <2>1. ASSUME NEW offer \in Offers, NEW r \in Replies, initMenu(offer, r) PROVE NothingLeft'
    <3>1. Ends \/ CleanedUp("room", r)
      BY <2>1, Zenon DEF initMenu
    <3> QED
      BY <3>1, CleanedUpLeft DEF Ends, NothingLeft
  <2>2. ASSUME NEW i \in DOMAIN popup, command(i) PROVE NothingLeft'
    BY <2>2 DEF command, NothingLeft
  <2>3. ASSUME NEW room, NEW reply, Connect(room, reply) PROVE NothingLeft'
    <3>1. Ends \/ CleanedUp("room", reply)
      BY <2>3, Zenon DEF Connect
    <3> QED
      BY <3>1, CleanedUpLeft DEF Ends, NothingLeft
  <2>4. ASSUME NEW room \in Rooms, NEW resolve \in Replies, NEW player \in Replies,
               ConnectDlgOk(room, resolve, player)
        PROVE  NothingLeft'
    <3>1. Connect(room, player) \/ CleanedUp("room", resolve)
      BY <2>4, Zenon DEF ConnectDlgOk
    <3> QED
      BY <2>3, <3>1, CleanedUpLeft
  <2>5. ASSUME NEW r \in Replies, Reconnect(r) PROVE NothingLeft'
    BY <2>3, <2>5 DEF Reconnect
  <2>6. ASSUME NEW text \in Lines, Type(text) PROVE NothingLeft'
    BY <2>6 DEF Type, NothingLeft
  <2>7. ASSUME NEW r \in Replies, submit(r) PROVE NothingLeft'
    <3>1. Ends \/ CleanedUp("user", r)
      BY <2>7, Zenon DEF submit
    <3> QED
      BY <3>1, CleanedUpLeft DEF Ends, NothingLeft
  <2> QED
    BY <1>1, <2>1, <2>2, <2>4, <2>5, <2>6, <2>7 DEF Command
<1>2. CASE UNCHANGED commandVars
  BY <1>2 DEF commandVars, NothingLeft
<1>3. CASE Ends
  BY <1>3 DEF Ends, NothingLeft
<1>4. ASSUME NEW s \in Sheets, NEW r \in Replies, Verify(s, r) PROVE NothingLeft'
  <2>1. Ends \/ CleanedUp("user", r)
    BY <1>4, Zenon DEF Verify
  <2> QED
    BY <2>1, CleanedUpLeft DEF Ends, NothingLeft
<1>5. CASE UNCHANGED commandsVars
  BY <1>5 DEF commandsVars, commandVars, NothingLeft
<1> QED
  BY <1>1, <1>2, <1>3, <1>4, <1>5 DEF CommandsNext

(* A request that finds the buffer empty reads its own reply.               *)
LEMMA OwnReply ==
    ASSUME NothingLeft, NEW r \in Replies
    PROVE  curlHttpsPost("user", r) = "data" <=> r = [ok |-> TRUE, parts |-> <<"data">>]
<1>1. buffer["user"] = <<>>
  BY DEF NothingLeft, Clients
<1>2. CASE r.ok
  <2>1. PICK kind \in Whole : r = [ok |-> TRUE, parts |-> <<kind>>]
    BY <1>2 DEF Replies
  <2>2. Received("user", r) = <<kind>>
    BY <1>1, <2>1 DEF Received
  <2>3. curlHttpsPost("user", r) = IF kind = "othermsg" THEN "refused" ELSE kind
    BY <1>2, <2>2 DEF curlHttpsPost
  <2>4. r = [ok |-> TRUE, parts |-> <<"data">>] <=> kind = "data"
    BY <2>1
  <2> QED
    BY <2>3, <2>4
<1>3. CASE ~r.ok
  BY <1>3 DEF curlHttpsPost
<1> QED
  BY <1>2, <1>3

(* A message leaves the command line if and only if the service says, in    *)
(* the reply to this very request, that it took it.                         *)
THEOREM ClearedOnce == CommandsSafety => ClearedWhenTaken
<1>1. CommandsInit => NothingLeft
  BY DEF CommandsInit, NothingLeft
<1>2. NothingLeft =>
        \A r \in Replies : submit(r) /\ running' =>
            (m_commandLine' = "" <=> r = [ok |-> TRUE, parts |-> <<"data">>])
  <2> SUFFICES ASSUME NothingLeft, NEW r \in Replies, submit(r), running'
               PROVE  m_commandLine' = "" <=> r = [ok |-> TRUE, parts |-> <<"data">>]
    OBVIOUS
  <2>1. ~Ends
    BY DEF Ends, Quit, Exit
  <2>2. m_commandLine # ""
        /\ m_commandLine' = IF curlHttpsPost("user", r) = "data" THEN "" ELSE m_commandLine
    BY <2>1, Zenon DEF submit
  <2> QED
    BY <2>2, OwnReply
<1> QED
  BY <1>1, <1>2, BufferNext, PTL DEF CommandsSafety, ClearedWhenTaken

-----------------------------------------------------------------------------
(* The last item with the colour that is set, if there is one. *)
LEMMA ActiveItem ==
    ASSUME NEW offer \in Seq(Colors)
    PROVE  \/ /\ Active(offer) \in DOMAIN offer /\ Active(offer) # 0
              /\ offer[Active(offer)] = inifile'["color"]
           \/ /\ Active(offer) = 0
              /\ \A i \in DOMAIN offer : offer[i] # inifile'["color"]
<1> DEFINE found == {i \in DOMAIN offer : offer[i] = inifile'["color"]}
<1>1. found \subseteq 1 .. Len(offer) /\ Len(offer) \in Nat
  OBVIOUS
<1>2. Active(offer) = IF found = {} THEN 0 ELSE CHOOSE i \in found : \A j \in found : j <= i
  BY DEF Active
<1>3. CASE found = {}
  <2>1. \A i \in DOMAIN offer : offer[i] # inifile'["color"]
    BY <1>3
  <2> QED
    BY <1>2, <1>3, <2>1
<1>4. CASE found # {}
  <2> DEFINE above == {n \in Nat : \A j \in found : j <= n}
  <2>1. Len(offer) \in above
    BY <1>1
  <2>2. PICK n \in above : \A m \in above : n <= m
    <3>1. above \subseteq Nat /\ above # {}
      BY <2>1
    <3> QED
      BY <3>1, LeastNumber
  <2>3. n \in found
    <3>1. SUFFICES ASSUME n \notin found PROVE FALSE
      OBVIOUS
    <3>2. PICK j \in found : TRUE
      BY <1>4
    <3>3. n >= 1 /\ n - 1 \in Nat
      BY <1>1, <3>2
    <3>4. \A i \in found : i <= n - 1
      BY <1>1, <3>1
    <3> QED
      BY <2>2, <3>3, <3>4
  <2>4. \A j \in found : j <= n
    OBVIOUS
  <2>5. Active(offer) \in found
    BY <1>2, <1>4, <2>3, <2>4
  <2>6. Active(offer) \in DOMAIN offer /\ offer[Active(offer)] = inifile'["color"]
    BY <2>5
  <2>7. Active(offer) # 0
    BY <1>1, <2>5
  <2> QED
    BY <2>6, <2>7
<1> QED
  BY <1>3, <1>4

(* What is checked is the colour set, and there is one.                     *)
ColorInv ==
    popup # NoOffer => visits = {} /\ inifile["color"] # Null /\ CheckedIsSent

(* Nothing but a colour picked changes the colour set.                      *)
LEMMA LoadKeepsColor ==
    Load /\ inifile["color"] # Null => inifile'["color"] = inifile["color"]
<1>1. "color" \in Keys
  BY SettingsBounds
<1> QED
  BY <1>1 DEF Load, Defaulted

LEMMA SameColor ==
    ASSUME ColorInv, UNCHANGED <<popup, checked, visits>>,
           inifile["color"] # Null => inifile'["color"] = inifile["color"]
    PROVE  ColorInv'
  BY DEF ColorInv, CheckedIsSent, SentColor

LEMMA RequestColor ==
    ASSUME ColorInv, Requests, UnchangedSheets, UNCHANGED <<popup, checked>>
    PROVE  ColorInv'
  BY LoadKeepsColor, SameColor DEF Requests, Reload, UnchangedSheets

LEMMA EndsColor == Ends => ColorInv'
  BY DEF Ends, ColorInv

LEMMA initMenuColor ==
    ASSUME ColorInv, visits = {}, NEW offer \in Offers, NEW r \in Replies, initMenu(offer, r)
    PROVE  ColorInv'
<1>1. CASE Ends
  BY <1>1, EndsColor
<1>2. CASE /\ Requests /\ UnchangedSheets /\ UNCHANGED <<popup, checked>>
  BY <1>2, RequestColor
<1>3. CASE /\ Requests /\ UnchangedSheets
           /\ popup' \in {offer, <<>>} /\ checked' = Active(popup')
  <2>1. popup' \in Seq(Colors)
    BY <1>3, NoColors, CommandsBounds
  <2>2. inifile'["color"] # Null /\ visits' = {}
    BY <1>3, SettingsBounds DEF Requests, Complete, UnchangedSheets
  <2>3. \/ checked' # 0 /\ popup'[checked'] = inifile'["color"]
        \/ checked' = 0 /\ \A i \in DOMAIN popup' : popup'[i] # inifile'["color"]
    BY <1>3, <2>1, ActiveItem
  <2> QED
    BY <2>2, <2>3 DEF ColorInv, CheckedIsSent, SentColor
<1> QED
  BY <1>1, <1>2, <1>3, Zenon DEF initMenu

LEMMA commandColor ==
    ASSUME MenuInv, ColorInv, NEW i \in DOMAIN popup, command(i)
    PROVE  ColorInv'
<1>1. popup = m_vDanmakuColors /\ m_vDanmakuColors \in Seq(Colors)
  BY DEF command, MenuInv, MenuInStep
<1>2. m_vDanmakuColors[i] \in Colors /\ i # 0
  BY <1>1
<1>3. Colors \subseteq Values /\ Null \notin Values /\ "color" \in Keys
  BY SettingsBounds
<1>4. PickColor(m_vDanmakuColors[i]) /\ UnchangedSheets /\ checked' = i /\ popup' = popup
  BY DEF command
<1>5. inifile'["color"] = m_vDanmakuColors[i]
  BY <1>3, <1>4 DEF PickColor, Set
<1>6. visits' = visits /\ popup # NoOffer
  BY <1>4 DEF UnchangedSheets, command
<1> QED
  BY <1>1, <1>2, <1>3, <1>4, <1>5, <1>6 DEF ColorInv, CheckedIsSent, SentColor

(* No page has a control for the colour.                                    *)
LEMMA SheetsColor ==
    ASSUME NEW s \in Sheets, UserOn(s)
    PROVE  inifile'["color"] = inifile["color"] /\ visits' = visits
<1>1. "color" \in Keys
  BY SettingsBounds
<1>2. \A p \in PageNames : "color" \notin KeysOf(p)
  BY DEF PageNames, KeysOf, Credentials
<1>3. CASE Ok(s)
  <2> DEFINE made == [sheets[s].made EXCEPT ![sheets[s].page] = Killed(sheets[s].page, @)]
             pages == {p \in PageNames : made[p] # NotMade}
             sets(k) == CHOOSE p \in pages : k \in KeysOf(p)
             values == [k \in UNION {KeysOf(p) : p \in pages} |->
                           Applied(sets(k), made[sets(k)])[k]]
  <2>1. Set(values) /\ visits' = visits
    BY <1>3, Zenon DEF Ok
  <2>2. "color" \notin DOMAIN values
    BY <1>2
  <2> HIDE DEF values
  <2> QED
    BY <1>1, <2>1, <2>2 DEF Set
<1>4. CASE ~Ok(s)
  BY <1>4, Zenon DEF UserOn, showPropertySheet, Cancel, Turn, ChangeTimeZone, EditCredential,
         MoveSlider, ClickRegex, ClickExport, ClickCsv, Change, settingsVars
<1> QED
  BY <1>3, <1>4

LEMMA ColorNext == MenuInv /\ ColorInv /\ [CommandsNext]_commandsVars => ColorInv'
<1> SUFFICES ASSUME MenuInv, ColorInv, [CommandsNext]_commandsVars PROVE ColorInv'
  OBVIOUS
<1>1. CASE visits = {} /\ Command
  <2>1. ASSUME NEW offer \in Offers, NEW r \in Replies, initMenu(offer, r) PROVE ColorInv'
    BY <1>1, <2>1, initMenuColor
  <2>2. ASSUME NEW i \in DOMAIN popup, command(i) PROVE ColorInv'
    BY <2>2, commandColor
  <2>3. ASSUME NEW room, NEW reply, Connect(room, reply) PROVE ColorInv'
    BY <2>3, RequestColor, EndsColor DEF Connect
  <2>4. ASSUME NEW room \in Rooms, NEW resolve \in Replies, NEW player \in Replies,
               ConnectDlgOk(room, resolve, player)
        PROVE  ColorInv'
    BY <2>3, <2>4, RequestColor DEF ConnectDlgOk
  <2>5. ASSUME NEW r \in Replies, Reconnect(r) PROVE ColorInv'
    BY <2>3, <2>5 DEF Reconnect
  <2>6. ASSUME NEW text \in Lines, Type(text) PROVE ColorInv'
    BY <2>6, SameColor DEF Type, preferencesVars, settingsVars
  <2>7. ASSUME NEW r \in Replies, submit(r) PROVE ColorInv'
    BY <2>7, RequestColor, EndsColor DEF submit
  <2> QED
    BY <1>1, <2>1, <2>2, <2>4, <2>5, <2>6, <2>7 DEF Command
<1>2. CASE visits # {} /\ UNCHANGED commandVars
  BY <1>2 DEF commandVars, ColorInv
<1>3. CASE UNCHANGED commandVars /\ UnchangedSheets /\ (Start \/ EditConfig)
  <2>1. inifile["color"] # Null => inifile'["color"] = inifile["color"]
    BY <1>3, LoadKeepsColor DEF Start, EditConfig
  <2> QED
    BY <1>3, <2>1, SameColor DEF commandVars, UnchangedSheets
<1>4. CASE UNCHANGED commandVars /\ \E s \in Sheets : UserOn(s)
  BY <1>4, SheetsColor, SameColor DEF commandVars
<1>5. ASSUME NEW s \in Sheets, NEW r \in Replies, Verify(s, r) PROVE ColorInv'
  BY <1>5, RequestColor, EndsColor DEF Verify
<1>6. CASE Ends
  BY <1>6, EndsColor
<1>7. CASE UNCHANGED commandsVars
  BY <1>7, SameColor DEF commandsVars, commandVars, preferencesVars, settingsVars
<1> QED
  BY <1>1, <1>2, <1>3, <1>4, <1>5, <1>6, <1>7 DEF CommandsNext

(* The colour a message is sent with is the one checked in the menu; and a  *)
(* menu without a check mark does not have it, however the settings were    *)
(* loaded, saved and set between.                                           *)
THEOREM SentAsChecked == CommandsSafety => []CheckedIsSent
<1>1. CommandsInit => ColorInv
  BY DEF CommandsInit, ColorInv
<1>2. ColorInv => CheckedIsSent
  BY DEF ColorInv, CheckedIsSent
<1> QED
  BY <1>1, <1>2, MenuInit, MenuNext, ColorNext, PTL DEF CommandsSafety

-----------------------------------------------------------------------------
(* What the commands keep, besides the settings and the sheets.             *)
CommandParts ==
    /\ buffer = [c \in Clients |-> <<>>]
    /\ m_vDanmakuColors \in Offers /\ popup \in Offers \cup {NoOffer}
    /\ checked \in 0 .. Len(popup)
    /\ m_commandLine \in Lines /\ m_roomid \in Rooms \cup {NoRoom}
    /\ uri.is \in {"none", "error", "uri"} /\ uri.room \in Rooms \cup {NoRoom}

LEMMA EndsParts == Ends => CommandParts'
<1>1. NoURI.is = "none" /\ NoURI.room = NoRoom
  BY DEF NoURI, URI
<1>2. 0 \in 0 .. Len(NoOffer)
  BY DEF NoOffer
<1> QED
  BY <1>1, <1>2, CommandsBounds DEF Ends, CommandParts

(* A command that leaves the menu alone.                                    *)
LEMMA SameParts ==
    ASSUME CommandParts, \E c \in Clients : buffer' = [buffer EXCEPT ![c] = <<>>],
           UNCHANGED <<m_vDanmakuColors, popup, checked>>,
           m_commandLine' \in Lines, m_roomid' \in Rooms \cup {NoRoom},
           uri'.is \in {"none", "error", "uri"}, uri'.room \in Rooms \cup {NoRoom}
    PROVE  CommandParts'
<1>1. buffer' = [c \in Clients |-> <<>>]
  BY DEF CommandParts, CleanedUp, Clients
<1> QED
  BY <1>1 DEF CommandParts

LEMMA ConnectParts ==
    ASSUME CommandParts, NEW room \in Rooms \cup {NoRoom}, NEW reply, Connect(room, reply)
    PROVE  CommandParts'
<1>1. CASE Ends
  BY <1>1, EndsParts
<1>2. CASE ~Ends
  <2>1. /\ ~(room # 0 /\ GetURI(room, reply).is = "exception")
        /\ CleanedUp("room", reply) /\ m_roomid' = room
        /\ uri' = IF room = 0 THEN uri ELSE GetURI(room, reply)
        /\ UNCHANGED <<m_vDanmakuColors, popup, checked, m_commandLine>>
    BY <1>2, Zenon DEF Connect
  <2>2. GetURI(room, reply).room = room /\ GetURI(room, reply).is \in {"uri", "error", "exception"}
    BY DEF GetURI, URI
  <2>3. uri'.is \in {"none", "error", "uri"} /\ uri'.room \in Rooms \cup {NoRoom}
    BY <2>1, <2>2 DEF CommandParts
  <2>4. m_commandLine' \in Lines /\ m_roomid' \in Rooms \cup {NoRoom}
    BY <2>1 DEF CommandParts
  <2> QED
    BY <2>1, <2>3, <2>4, SameParts DEF CleanedUp, Clients
<1> QED
  BY <1>1, <1>2

LEMMA PartsNext == MenuInv /\ CommandParts /\ [CommandsNext]_commandsVars => CommandParts'
<1> SUFFICES ASSUME MenuInv, CommandParts, [CommandsNext]_commandsVars PROVE CommandParts'
  OBVIOUS
<1>1. CASE Command
  <2>1. ASSUME NEW offer \in Offers, NEW r \in Replies, initMenu(offer, r) PROVE CommandParts'
    <3>1. CASE Ends
      BY <3>1, EndsParts
    <3>2. CASE ~Ends
      <4>1. /\ CleanedUp("room", r) /\ UNCHANGED <<m_commandLine, m_roomid, uri>>
            /\ \/ UNCHANGED <<m_vDanmakuColors, popup, checked>>
               \/ /\ m_vDanmakuColors' \in {offer, <<>>} /\ popup' = m_vDanmakuColors'
                  /\ checked' = Active(popup')
        BY <2>1, <3>2 DEF initMenu
      <4>2. m_commandLine' \in Lines /\ m_roomid' \in Rooms \cup {NoRoom}
            /\ uri'.is \in {"none", "error", "uri"} /\ uri'.room \in Rooms \cup {NoRoom}
        BY <4>1 DEF CommandParts
      <4>3. CASE UNCHANGED <<m_vDanmakuColors, popup, checked>>
        BY <4>1, <4>2, <4>3, SameParts DEF CleanedUp, Clients
      <4>4. CASE /\ m_vDanmakuColors' \in {offer, <<>>} /\ popup' = m_vDanmakuColors'
                 /\ checked' = Active(popup')
        <5>1. buffer' = [c \in Clients |-> <<>>]
          BY <4>1 DEF CommandParts, CleanedUp, Clients
        <5>2. m_vDanmakuColors' \in Offers /\ m_vDanmakuColors' \in Seq(Colors)
          BY <4>4, CommandsBounds
        <5>3. checked' \in 0 .. Len(popup')
          BY <4>4, <5>2, ActiveItem
        <5> QED
          BY <4>2, <4>4, <5>1, <5>2, <5>3 DEF CommandParts
      <4> QED
        BY <4>1, <4>3, <4>4
    <3> QED
      BY <3>1, <3>2
  <2>2. ASSUME NEW i \in DOMAIN popup, command(i) PROVE CommandParts'
    <3>1. popup = m_vDanmakuColors /\ popup \in Seq(Colors)
      BY <2>2 DEF command, MenuInv, MenuInStep
    <3>2. i \in 0 .. Len(popup)
      BY <3>1
    <3> QED
      BY <2>2, <3>2 DEF command, CommandParts
  <2>3. ASSUME NEW room \in Rooms, NEW resolve \in Replies, NEW player \in Replies,
               ConnectDlgOk(room, resolve, player)
        PROVE  CommandParts'
    <3>1. CASE Connect(room, player)
      BY <3>1, ConnectParts
    <3>2. CASE /\ CleanedUp("room", resolve)
               /\ UNCHANGED <<m_vDanmakuColors, popup, checked, m_commandLine, m_roomid, uri>>
      BY <3>2, SameParts DEF CleanedUp, Clients, CommandParts
    <3> QED
      BY <2>3, <3>1, <3>2 DEF ConnectDlgOk
  <2>4. ASSUME NEW r \in Replies, Reconnect(r) PROVE CommandParts'
    BY <2>4, ConnectParts DEF Reconnect, CommandParts
  <2>5. ASSUME NEW text \in Lines, Type(text) PROVE CommandParts'
    BY <2>5 DEF Type, CommandParts
  <2>6. ASSUME NEW r \in Replies, submit(r) PROVE CommandParts'
    <3>1. CASE Ends
      BY <3>1, EndsParts
    <3>2. CASE ~Ends
      <4>1. /\ CleanedUp("user", r) /\ m_commandLine' \in {"", m_commandLine}
            /\ UNCHANGED <<m_vDanmakuColors, popup, checked, m_roomid, uri>>
        BY <2>6, <3>2 DEF submit
      <4>2. m_commandLine' \in Lines
        BY <4>1, CommandsBounds DEF CommandParts
      <4> QED
        BY <4>1, <4>2, SameParts DEF CleanedUp, Clients, CommandParts
    <3> QED
      BY <3>1, <3>2
  <2> QED
    BY <1>1, <2>1, <2>2, <2>3, <2>4, <2>5, <2>6 DEF Command
<1>2. CASE UNCHANGED commandVars
  BY <1>2 DEF commandVars, CommandParts
<1>3. CASE Ends
  BY <1>3, EndsParts
<1>4. ASSUME NEW s \in Sheets, NEW r \in Replies, Verify(s, r) PROVE CommandParts'
  <2>1. CASE Ends
    BY <2>1, EndsParts
  <2>2. CASE ~Ends
    <3>1. /\ CleanedUp("user", r)
          /\ UNCHANGED <<m_vDanmakuColors, popup, checked, m_commandLine, m_roomid, uri>>
      BY <1>4, <2>2 DEF Verify
    <3> QED
      BY <3>1, SameParts DEF CleanedUp, Clients, CommandParts
  <2> QED
    BY <2>1, <2>2
<1>5. CASE UNCHANGED commandsVars
  BY <1>5 DEF commandsVars, commandVars, CommandParts
<1> QED
  BY <1>1, <1>2, <1>3, <1>4, <1>5 DEF CommandsNext

(* Whatever the service answers, the menu has colours it offered, and no    *)
(* answer is left in a buffer.                                              *)
THEOREM CommandsTypes == CommandsSafety => []CommandsTypeOK
<1>1. CommandsInit => CommandParts
  <2>1. NoURI.is = "none" /\ NoURI.room = NoRoom
    BY DEF NoURI, URI
  <2>2. 0 \in 0 .. Len(NoOffer)
    BY DEF NoOffer
  <2> QED
    BY <2>1, <2>2, CommandsBounds DEF CommandsInit, CommandParts
<1>2. CommandParts /\ PreferencesTypeOK => CommandsTypeOK
  <2> SUFFICES ASSUME CommandParts PROVE buffer \in [Clients -> Seq(Whole \cup {"torn"})]
    BY DEF CommandParts, CommandsTypeOK
  <2>1. <<>> \in Seq(Whole \cup {"torn"})
    OBVIOUS
  <2> QED
    BY <2>1 DEF CommandParts
<1> QED
  BY <1>1, <1>2, MenuInit, MenuNext, PartsNext, CommandsImplement, PreferencesTypes, PTL
     DEF CommandsSafety

(* What is proved of the settings' other properties holds with the commands. *)
THEOREM SettingsWithCommands == CommandsSafety => DefaultsComplete /\ []RoundTrip
  BY CommandsImplement, DefaultsKnown, ShowsWhatItSets, PTL
=============================================================================
