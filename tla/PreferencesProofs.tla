------------------------- MODULE PreferencesProofs -------------------------
(***************************************************************************)
(* However many property sheets are open, the credentials are kept         *)
(* together, settings that are loaded again keep what was set and have no  *)
(* key of the table without a value, and a page shows what it sets.        *)
(***************************************************************************)
EXTENDS Preferences, TLAPS

(* Sheets and their pages are functions, on whatever controls. *)
SheetsType ==
    /\ sheets = [s \in Sheets |-> [state |-> sheets[s].state, page |-> sheets[s].page,
                                   made |-> [p \in PageNames |-> sheets[s].made[p]]]]
    /\ \A s \in Sheets : sheets[s].page \in PageNames

(* What a Session page leaves without a user is nothing at all. *)
Tidy(c) == c["DedeUserID"] = "" => \A k \in Credentials : c[k] = ""

(* The settings: set together, or not at all. *)
SettingsWhole ==
    /\ \A k \in Credentials : inifile[k] \in Values \cup {Null}
    /\ inifile["DedeUserID"] \in {"", Null} =>
          \A k \in Credentials : inifile[k] = inifile["DedeUserID"]

(* The Session page of an open sheet: it has text in all of its controls    *)
(* once it is made, and is tidy once it is left.                            *)
PageWhole(sheet) ==
    sheet.state = "open" =>
        /\ \/ sheet.made["Session"] \in [Credentials -> Values]
           \/ sheet.made["Session"] = NotMade /\ sheet.page # "Session"
        /\ sheet.page # "Session" /\ sheet.made["Session"] # NotMade =>
              Tidy(sheet.made["Session"])

WholeInv == SheetsType /\ SettingsWhole /\ \A s \in Sheets : PageWhole(sheets[s])

-----------------------------------------------------------------------------
(* The credentials are keys with defaults, and those of one page only. *)
LEMMA CredentialKeys ==
    /\ "DedeUserID" \in Credentials
    /\ Credentials \subseteq Known /\ Credentials \subseteq Keys
    /\ KeysOf("Session") = Credentials /\ "color" \notin Credentials
    /\ \A p \in PageNames : p # "Session" => KeysOf(p) \cap Credentials = {}
    /\ \A k \in Credentials : Default[k] = "" /\ k \in Known /\ k \in Keys
    /\ "" \in Values /\ Null \notin Values
<1>1. "DedeUserID" \in Credentials /\ "color" \notin Credentials
  BY DEF Credentials
<1>2. "Session" \in PageNames /\ KeysOf("Session") = Credentials
  BY DEF PageNames, KeysOf
<1>3. Credentials \subseteq Known
  <2>1. UNION {KeysOf(page) : page \in PageNames} \subseteq Known
    BY PreferencesBounds
  <2> QED
    BY <1>2, <2>1
<1>4. Known \subseteq Keys /\ Null \notin Values
  BY SettingsBounds
<1>5. \A p \in PageNames : p # "Session" => KeysOf(p) \cap Credentials = {}
  BY DEF PageNames, KeysOf, Credentials
<1>6. "" \in Values /\ \A k \in Credentials : Default[k] = ""
  BY PreferencesBounds
<1> QED
  BY <1>1, <1>2, <1>3, <1>4, <1>5, <1>6

(* Steps that leave the credentials as they are. *)
LEMMA SameCredentials ==
    SettingsWhole /\ (\A k \in Credentials : inifile'[k] = inifile[k]) => SettingsWhole'
  BY CredentialKeys DEF SettingsWhole

(* Defaults fill in all credentials or none. *)
LEMMA LoadWhole == SettingsWhole /\ Load => SettingsWhole'
<1> SUFFICES ASSUME SettingsWhole, Load PROVE SettingsWhole'
  OBVIOUS
<1>1. CASE inifile' = inifile
  BY <1>1 DEF SettingsWhole
<1>2. CASE inifile' = [k \in Keys |-> IF k \in Known /\ inifile[k] = Null
                                      THEN Default[k] ELSE inifile[k]]
  <2>1. \A k \in Credentials :
           inifile'[k] = IF inifile[k] = Null THEN "" ELSE inifile[k]
    BY <1>2, CredentialKeys
  <2> QED
    BY <2>1, CredentialKeys DEF SettingsWhole, Null
<1> QED
  BY <1>1, <1>2 DEF Load, Defaulted
-----------------------------------------------------------------------------
(* A sheet is changed in its place, and its Session page as the new one. *)
LEMMA ChangeSheet ==
    ASSUME NEW s \in Sheets, NEW STATE sheet,
           SheetsType, \A t \in Sheets : PageWhole(sheets[t]),
           sheet = [state |-> sheet.state, page |-> sheet.page,
                    made |-> [p \in PageNames |-> sheet.made[p]]],
           sheet.page \in PageNames, PageWhole(sheet),
           sheets' = [sheets EXCEPT ![s] = sheet]
    PROVE  SheetsType' /\ (\A t \in Sheets : PageWhole(sheets[t]))'
<1>1. \A t \in Sheets : sheets'[t] = IF t = s THEN sheet ELSE sheets[t]
  BY DEF SheetsType
<1>2. (\A t \in Sheets : PageWhole(sheets[t]))'
  <2> SUFFICES ASSUME NEW t \in Sheets PROVE PageWhole(sheets'[t])
    BY DEF PageWhole
  <2> QED
    BY <1>1
<1>3. SheetsType'
  BY <1>1 DEF SheetsType
<1> QED
  BY <1>2, <1>3
(* A Session page that is left is tidy, and has text where it had. *)
LEMMA KilledTidy ==
    ASSUME NEW c \in [Credentials -> Values]
    PROVE  Killed("Session", c) \in [Credentials -> Values] /\ Tidy(Killed("Session", c))
  BY CredentialKeys DEF Killed, Tidy

LEMMA OpenWhole ==
    ASSUME WholeInv, NEW s \in Sheets, showPropertySheet(s)
    PROVE  SheetsType' /\ (\A t \in Sheets : PageWhole(sheets[t]))'
<1> DEFINE sheet == [state |-> "open", page |-> "I18N",
                     made |-> [p \in PageNames |->
                                 IF p = "I18N" THEN Shown("I18N", inifile) ELSE NotMade]]
<1>1. sheet = [state |-> sheet.state, page |-> sheet.page,
               made |-> [p \in PageNames |-> sheet.made[p]]]
      /\ sheet.page \in PageNames /\ PageWhole(sheet)
  BY DEF PageNames, PageWhole
<1>2. sheets' = [sheets EXCEPT ![s] = sheet]
  BY DEF showPropertySheet
<1> HIDE DEF sheet
<1> QED
  BY <1>1, <1>2, ChangeSheet DEF WholeInv

LEMMA TurnWhole ==
    ASSUME WholeInv, NEW s \in Sheets, NEW page \in PageNames, Turn(s, page)
    PROVE  SheetsType' /\ (\A t \in Sheets : PageWhole(sheets[t]))'
<1> DEFINE old == sheets[s]
           made(p) == IF p = page /\ old.made[p] = NotMade THEN Shown(p, inifile)
                      ELSE IF p = old.page THEN Killed(p, old.made[p]) ELSE old.made[p]
           sheet == [state |-> "open", page |-> page, made |-> [p \in PageNames |-> made(p)]]
<1>1. old.page \in PageNames /\ old.page # page /\ old.state = "open" /\ PageWhole(old)
  BY DEF WholeInv, SheetsType, Turn, Open
<1>2. sheets' = [sheets EXCEPT ![s] = sheet]
  BY DEF Turn
<1>3. PageWhole(sheet)
  <2>1. CASE page = "Session"
    <3>1. Shown("Session", inifile) \in [Credentials -> Values]
      BY CredentialKeys DEF Shown, ShownSession, Turn, Complete, WholeInv, SettingsWhole
    <3>2. sheet.page = "Session" /\ sheet.made["Session"] \in [Credentials -> Values]
      BY <1>1, <2>1, <3>1 DEF PageWhole, PageNames
    <3> QED
      BY <3>2 DEF PageWhole
  <2>2. CASE page # "Session" /\ old.page = "Session"
    <3>1. sheet.made["Session"] = Killed("Session", old.made["Session"])
      BY <1>1, <2>2
    <3>2. old.made["Session"] \in [Credentials -> Values]
      BY <1>1, <2>2 DEF PageWhole
    <3> HIDE DEF sheet
    <3> QED
      BY <3>1, <3>2, KilledTidy DEF PageWhole
  <2>3. CASE page # "Session" /\ old.page # "Session"
    <3>1. sheet.made["Session"] = old.made["Session"] /\ sheet.page = page
          /\ sheet.state = "open"
      BY <2>3 DEF PageNames
    <3> HIDE DEF sheet
    <3> QED
      BY <1>1, <2>3, <3>1 DEF PageWhole
  <2> QED
    BY <2>1, <2>2, <2>3
<1>4. sheet = [state |-> sheet.state, page |-> sheet.page,
               made |-> [p \in PageNames |-> sheet.made[p]]]
      /\ sheet.page \in PageNames
  OBVIOUS
<1> HIDE DEF sheet
<1> QED
  BY <1>2, <1>3, <1>4, ChangeSheet DEF WholeInv

(* Only the Session page's own controls count, and they stay filled. *)
LEMMA ChangeWhole ==
    ASSUME WholeInv, NEW s \in Sheets, NEW page \in PageNames, NEW STATE controls,
           Is(s, page), page = "Session" => controls \in [Credentials -> Values],
           Change(s, page, controls)
    PROVE  SheetsType' /\ (\A t \in Sheets : PageWhole(sheets[t]))'
<1> DEFINE old == sheets[s]
           sheet == [state |-> old.state, page |-> old.page,
                     made |-> [p \in PageNames |->
                                 IF p = page THEN controls ELSE old.made[p]]]
<1>1. old.page = page /\ PageWhole(old)
  BY DEF WholeInv, Is
<1>2. sheets' = [sheets EXCEPT ![s] = sheet]
  <2>1. old = [state |-> old.state, page |-> old.page,
               made |-> [p \in PageNames |-> old.made[p]]]
    BY DEF WholeInv, SheetsType
  <2>2. sheets' = [sheets EXCEPT ![s] = [old EXCEPT !.made = [old.made EXCEPT ![page] = controls]]]
    BY DEF Change
  <2>3. [old EXCEPT !.made = [old.made EXCEPT ![page] = controls]] = sheet
    BY <2>1
  <2> QED
    BY <2>2, <2>3
<1>3. PageWhole(sheet)
  BY <1>1 DEF PageWhole, PageNames
<1>4. sheet = [state |-> sheet.state, page |-> sheet.page,
               made |-> [p \in PageNames |-> sheet.made[p]]]
      /\ sheet.page \in PageNames
  BY <1>1
<1> HIDE DEF sheet
<1> QED
  BY <1>2, <1>3, <1>4, ChangeSheet DEF WholeInv

LEMMA CloseWhole ==
    ASSUME WholeInv, NEW s \in Sheets, CloseSheet(s)
    PROVE  SheetsType' /\ (\A t \in Sheets : PageWhole(sheets[t]))'
<1>1. ASSUME NEW state, state # "open",
             sheets' = [sheets EXCEPT ![s] = [Closed EXCEPT !.state = state]]
      PROVE  SheetsType' /\ (\A t \in Sheets : PageWhole(sheets[t]))'
  <2> DEFINE sheet == [Closed EXCEPT !.state = state]
  <2>1. sheet = [state |-> sheet.state, page |-> sheet.page,
                 made |-> [p \in PageNames |-> sheet.made[p]]]
        /\ sheet.page \in PageNames /\ PageWhole(sheet)
    BY <1>1 DEF Closed, PageNames, PageWhole
  <2>2. sheets' = [sheets EXCEPT ![s] = sheet]
    BY <1>1
  <2> HIDE DEF sheet
  <2> QED
    BY <2>1, <2>2, ChangeSheet DEF WholeInv
<1>2. Closed = [Closed EXCEPT !.state = "closed"]
  BY DEF Closed
<1> QED
  BY <1>1, <1>2 DEF CloseSheet
(* OK sets what the Session page holds, if it was made: it is tidy, since   *)
(* the page in front is left first and the others have been.                *)
LEMMA OkWhole ==
    ASSUME WholeInv, NEW s \in Sheets, Ok(s)
    PROVE  SettingsWhole'
<1> DEFINE old == sheets[s]
           made == [old.made EXCEPT ![old.page] = Killed(old.page, @)]
           pages == {p \in PageNames : made[p] # NotMade}
           sets(k) == CHOOSE p \in pages : k \in KeysOf(p)
           values == [k \in UNION {KeysOf(p) : p \in pages} |->
                         Applied(sets(k), made[sets(k)])[k]]
           c == made["Session"]
<1>1. PageWhole(old) /\ old.state = "open" /\ old.page \in PageNames
      /\ DOMAIN old.made = PageNames
  <2>1. old = [state |-> old.state, page |-> old.page,
               made |-> [p \in PageNames |-> old.made[p]]]
    BY DEF WholeInv, SheetsType
  <2>2. DOMAIN old.made = PageNames
    <3> HIDE DEF old
    <3> QED
      BY <2>1
  <2> QED
    BY <2>2 DEF WholeInv, SheetsType, Ok, Open
<1>2. Set(values)
  BY DEF Ok
<1>3. CASE "Session" \in pages
  <2>1. c \in [Credentials -> Values] /\ Tidy(c)
    <3>1. CASE old.page = "Session"
      BY <1>1, <3>1, KilledTidy DEF PageWhole
    <3>2. CASE old.page # "Session"
      BY <1>1, <1>3, <3>2 DEF PageWhole
    <3> QED
      BY <3>1, <3>2
  <2>2. ASSUME NEW k \in Credentials PROVE inifile'[k] = c[k]
    <3>1. \A p \in pages : k \in KeysOf(p) <=> p = "Session"
      BY <1>3, CredentialKeys
    <3>2. k \in DOMAIN values /\ sets(k) = "Session"
      BY <1>3, <3>1
    <3>3. values[k] = c[k]
      BY <3>2 DEF Applied, AppliedSession
    <3> HIDE DEF values, c
    <3> QED
      BY <1>2, <3>2, <3>3, CredentialKeys DEF Set
  <2> HIDE DEF c
  <2>3. \A k \in Credentials : inifile'[k] \in Values
    BY <2>1, <2>2
  <2>4. inifile'["DedeUserID"] = "" => \A k \in Credentials : inifile'[k] = ""
    BY <2>1, <2>2, CredentialKeys DEF Tidy
  <2> QED
    BY <2>3, <2>4, CredentialKeys DEF SettingsWhole
<1>4. CASE "Session" \notin pages
  <2>1. DOMAIN values \cap Credentials = {}
    BY <1>4, CredentialKeys
  <2> HIDE DEF values
  <2>2. \A k \in Credentials : inifile'[k] = inifile[k]
    BY <1>2, <2>1, CredentialKeys DEF Set
  <2> QED
    BY <2>2, SameCredentials DEF WholeInv
<1> QED
  BY <1>3, <1>4
-----------------------------------------------------------------------------
LEMMA WholeInit == Init => WholeInv
<1> SUFFICES ASSUME Init PROVE WholeInv
  OBVIOUS
<1>1. \A k \in Credentials : inifile[k] = Null
  BY CredentialKeys DEF Init, SettingsInit, Empty
<1>2. SettingsWhole
  BY <1>1, CredentialKeys DEF SettingsWhole
<1>3. SheetsType /\ \A s \in Sheets : PageWhole(sheets[s])
  BY DEF Init, SheetsType, PageWhole, Closed, PageNames
<1> QED
  BY <1>2, <1>3 DEF WholeInv

(* The settings' own steps. *)
LEMMA BackgroundWhole == WholeInv /\ Background => SettingsWhole'
<1> SUFFICES ASSUME WholeInv, Background PROVE SettingsWhole'
  OBVIOUS
<1>1. SettingsWhole
  BY DEF WholeInv
<1>2. CASE Start \/ Reload
  BY <1>1, <1>2, LoadWhole DEF Start, Reload
<1>3. ASSUME NEW c \in Colors, PickColor(c) PROVE SettingsWhole'
  <2>1. \A k \in Credentials : inifile'[k] = inifile[k]
    BY <1>3, CredentialKeys DEF PickColor, Set
  <2> QED
    BY <1>1, <2>1, SameCredentials
<1>4. CASE EditConfig
  BY <1>1, <1>4, SameCredentials DEF EditConfig
<1> QED
  BY <1>2, <1>3, <1>4 DEF Background

LEMMA QuitWhole == WholeInv /\ Quit => WholeInv'
<1> SUFFICES ASSUME WholeInv, Quit PROVE WholeInv'
  OBVIOUS
<1>1. \A k \in Credentials : inifile'[k] = Null
  BY CredentialKeys DEF Quit, Exit, Empty
<1>2. SettingsWhole'
  BY <1>1, CredentialKeys DEF SettingsWhole
<1>3. SheetsType' /\ (\A s \in Sheets : PageWhole(sheets[s]))'
  BY DEF Quit, SheetsType, PageWhole, Closed, PageNames
<1> QED
  BY <1>2, <1>3 DEF WholeInv

LEMMA WholeNext == WholeInv /\ [Next]_preferencesVars => WholeInv'
<1> SUFFICES ASSUME WholeInv, [Next]_preferencesVars PROVE WholeInv'
  OBVIOUS
<1> USE DEF WholeInv
<1>1. ASSUME UNCHANGED inifile PROVE SettingsWhole'
  BY <1>1, SameCredentials
<1>2. ASSUME NEW s \in Sheets, UserOn(s) PROVE WholeInv'
  <2>1. CASE showPropertySheet(s)
    BY <1>1, <2>1, OpenWhole DEF showPropertySheet, settingsVars
  <2>2. CASE Ok(s)
    BY <2>2, OkWhole, CloseWhole DEF Ok
  <2>3. CASE Cancel(s)
    BY <1>1, <2>3, CloseWhole DEF Cancel
  <2>4. ASSUME NEW page \in PageNames, Turn(s, page) PROVE WholeInv'
    BY <1>1, <2>4, TurnWhole DEF Turn, settingsVars
  <2>5. ASSUME NEW page \in PageNames, NEW STATE controls, Is(s, page), Change(s, page, controls),
               page = "Session" => controls \in [Credentials -> Values]
        PROVE  WholeInv'
    BY <1>1, <2>5, ChangeWhole DEF Change, settingsVars
  <2>6. ASSUME NEW text \in Listed \cup Typed, ChangeTimeZone(s, text) PROVE WholeInv'
    BY <2>5, <2>6 DEF ChangeTimeZone, PageNames
  <2>7. ASSUME NEW k \in Credentials, NEW text \in Edits, EditCredential(s, k, text)
        PROVE  WholeInv'
    <3>1. sheets[s].made["Session"] \in [Credentials -> Values]
      BY <2>7 DEF EditCredential, Is, Open, PageWhole
    <3>2. text \in Values
      BY PreferencesBounds
    <3>3. [sheets[s].made["Session"] EXCEPT ![k] = text] \in [Credentials -> Values]
      BY <3>1, <3>2
    <3> QED
      BY <2>5, <2>7, <3>3 DEF EditCredential, PageNames
  <2>8. CASE (\E n \in Levels : MoveSlider(s, n)) \/ ClickRegex(s) \/ ClickExport(s) \/ ClickCsv(s)
    BY <2>5, <2>8 DEF MoveSlider, ClickRegex, ClickExport, ClickCsv, PageNames
  <2> QED
    BY <1>2, <2>1, <2>2, <2>3, <2>4, <2>6, <2>7, <2>8 DEF UserOn
<1>3. CASE Background
  BY <1>3, BackgroundWhole DEF Background, SheetsType
<1>4. CASE Quit
  BY <1>4, QuitWhole
<1>5. CASE UNCHANGED preferencesVars
  BY <1>1, <1>5 DEF preferencesVars, settingsVars, SheetsType
<1> QED
  BY <1>2, <1>3, <1>4, <1>5 DEF Next

(* The credentials are sent together or not at all: without a user id none  *)
(* of the others is kept, whatever sheets are open at once.                 *)
THEOREM CredentialsKept == Safety => []CredentialsWhole
<1>1. WholeInv => CredentialsWhole
  BY CredentialKeys DEF WholeInv, SettingsWhole, CredentialsWhole
<1> QED
  BY <1>1, WholeInit, WholeNext, PTL DEF Safety

(* What is set stays set, however often the settings are loaded again. *)
THEOREM ChosenKept == Safety => ChosenStays
<1>1. (Start \/ Reload) =>
        \A k \in Keys : inifile[k] # Null => inifile'[k] = inifile[k]
  BY DEF Start, Reload, Load, Defaulted
<1> QED
  BY <1>1, PTL DEF Safety, ChosenStays

-----------------------------------------------------------------------------
(* What a key of a page may have as its value. *)
Meaning(k) ==
    CASE k = "timeZone" -> Listed \cup Typed
      [] k = "filterDanmaku" -> Levels
      [] k = "filterRegex" -> {"on", "off"}
      [] k = "autoExport" -> {"on", "csv", "off"}
      [] k \in Credentials -> Edits
      [] OTHER -> Values

(* Every value set means something to its page, and what was loaded once    *)
(* has left no key of the table without a value.                            *)
SettingsInv ==
    /\ SettingsTypeOK
    /\ \A k \in Keys : inifile[k] \in Meaning(k) \cup {Null}
    /\ loaded # Empty => Complete(inifile)

(* The CSV box belongs to the box above it.                                 *)
Coupled(c) == c.csvEnabled = c.export /\ (c.csv => c.export)

PageOK(p, c) == c # NotMade => c \in Controls(p) /\ (p = "Danmaku" => Coupled(c))

SheetOK(sheet) ==
    /\ sheet.state \in {"closed", "open", "dead"}
    /\ sheet.page \in PageNames
    /\ \A p \in PageNames : PageOK(p, sheet.made[p])
    /\ sheet.state = "open" => sheet.made[sheet.page] # NotMade

SheetsOK == SheetsType /\ \A s \in Sheets : SheetOK(sheets[s])

ControlsInv ==
    /\ SettingsInv /\ SheetsOK
    /\ m_hPropSheet \in Sheets \cup {NoSheet}
    /\ visits \in Visits

-----------------------------------------------------------------------------
LEMMA PageKeys ==
    /\ KeysOf("I18N") = {"timeZone"} /\ KeysOf("Session") = Credentials
    /\ KeysOf("Danmaku") = {"filterDanmaku", "filterRegex", "autoExport"}
    /\ \A p \in PageNames : KeysOf(p) \subseteq Known
    /\ Known \subseteq Keys /\ Null \notin Values
    /\ "DedeUserID" \in Credentials
  <1>1. UNION {KeysOf(page) : page \in PageNames} \subseteq Known
    BY PreferencesBounds
  <1>2. \A p \in PageNames : KeysOf(p) \subseteq Known
    BY <1>1
  <1>3. /\ KeysOf("I18N") = {"timeZone"} /\ KeysOf("Session") = Credentials
        /\ KeysOf("Danmaku") = {"filterDanmaku", "filterRegex", "autoExport"}
    BY DEF KeysOf
  <1> QED
    BY <1>2, <1>3, SettingsBounds DEF Credentials

LEMMA Meanings ==
    /\ Meaning("timeZone") = Listed \cup Typed /\ Meaning("filterDanmaku") = Levels
    /\ Meaning("filterRegex") = {"on", "off"} /\ Meaning("autoExport") = {"on", "csv", "off"}
    /\ Meaning("color") = Values
    /\ \A k \in Credentials : Meaning(k) = Edits
    /\ \A k : Meaning(k) \subseteq Values
<1>1. /\ Meaning("timeZone") = Listed \cup Typed /\ Meaning("filterDanmaku") = Levels
      /\ Meaning("filterRegex") = {"on", "off"} /\ Meaning("autoExport") = {"on", "csv", "off"}
      /\ Meaning("color") = Values
  BY DEF Meaning, Credentials
<1>2. \A k \in Credentials : Meaning(k) = Edits
  BY DEF Meaning, Credentials
<1>3. ASSUME NEW k PROVE Meaning(k) \subseteq Values
  <2>1. Listed \cup Typed \cup Levels \cup {"on", "csv", "off"} \subseteq Values
        /\ Edits \subseteq Values
    BY PreferencesBounds
  <2>2. CASE k \in {"timeZone", "filterDanmaku", "filterRegex", "autoExport"}
    BY <1>1, <2>1, <2>2
  <2>3. CASE k \in Credentials
    BY <1>2, <2>1, <2>3
  <2>4. CASE k \notin {"timeZone", "filterDanmaku", "filterRegex", "autoExport"} /\ k \notin Credentials
    <3>1. Meaning(k) = Values
      BY <2>4, Zenon DEF Meaning
    <3> QED
      BY <3>1
  <2> QED
    BY <2>2, <2>3, <2>4
<1> QED
  BY <1>1, <1>2, <1>3

LEMMA DefaultMeans == \A k \in Known : Default[k] \in Meaning(k) /\ Default[k] # Null
<1>1. ASSUME NEW k \in Known PROVE Default[k] \in Meaning(k)
  <2>1. Default[k] \in Values
    BY SettingsBounds
  <2>2. CASE k \in Credentials
    <3>1. Default[k] = "" /\ "" \in Edits
      BY <2>2, PreferencesBounds
    <3>2. Meaning(k) = Edits
      BY <2>2, Meanings
    <3> QED
      BY <3>1, <3>2
  <2>3. CASE k \in {"timeZone", "filterDanmaku", "filterRegex", "autoExport"}
    <3>1. /\ Default["timeZone"] \in Listed /\ Default["filterDanmaku"] \in Levels
          /\ Default["filterRegex"] \in {"on", "off"}
          /\ Default["autoExport"] \in {"on", "csv", "off"}
      BY PreferencesBounds
    <3> QED
      BY <2>3, <3>1, Meanings
  <2>4. CASE k \notin Credentials /\ k \notin {"timeZone", "filterDanmaku", "filterRegex", "autoExport"}
    BY <2>1, <2>4 DEF Meaning
  <2> QED
    BY <2>2, <2>3, <2>4
<1> QED
  BY <1>1, Meanings, PageKeys

(* A value that means something is not missing.                             *)
LEMMA IniType ==
    ASSUME NEW g, DOMAIN g = Keys, g = [k \in Keys |-> g[k]],
           \A k \in Keys : g[k] \in Meaning(k) \cup {Null}
    PROVE  g \in Inis
  <1>1. \A k \in Keys : g[k] \in Values \cup {Null}
    BY Meanings
  <1> QED
    BY <1>1 DEF Inis

-----------------------------------------------------------------------------
(* The settings. *)

LEMMA LoadMeans ==
    ASSUME SettingsInv, Load, running' \in BOOLEAN
    PROVE  /\ SettingsInv'
           /\ loaded # Empty \/ config # Unreadable => Complete(inifile')
<1>1. /\ inifile \in Inis /\ loaded \in Inis /\ IsFile(config)
      /\ \A k \in Keys : inifile[k] \in Meaning(k) \cup {Null}
  BY DEF SettingsInv, SettingsTypeOK
<1>2. config' = config
  BY DEF Load
<1>3. CASE loaded # Empty
  BY <1>1, <1>2, <1>3 DEF Load, SettingsInv, SettingsTypeOK, Complete
<1>4. CASE loaded = Empty /\ config = Unreadable
  <2>1. LoadFile = "SI_FAIL"
    BY <1>4 DEF LoadFile, Missing, Unreadable
  <2>2. inifile' = inifile /\ loaded' = loaded
    BY <1>4, <2>1 DEF Load, Defaulted
  <2> QED
    BY <1>1, <1>2, <1>4, <2>2 DEF SettingsInv, SettingsTypeOK, Complete
<1>5. CASE loaded = Empty /\ config # Unreadable
  <2>1. LoadFile # "SI_FAIL" /\ (LoadFile = "SI_OK" => config.ini \in Inis)
    BY <1>1, <1>5 DEF LoadFile, IsFile
  <2>2. inifile' = [k \in Keys |-> IF k \in Known /\ inifile[k] = Null
                                   THEN Default[k] ELSE inifile[k]]
        /\ loaded' \in Inis
    BY <1>1, <1>5, <2>1 DEF Load, Defaulted
  <2>3. \A k \in Keys : inifile'[k] \in Meaning(k) \cup {Null}
    BY <1>1, <2>2, DefaultMeans
  <2>4. Complete(inifile')
    BY <2>2, DefaultMeans, PageKeys DEF Complete
  <2>5. inifile' \in Inis
    BY <2>2, <2>3, IniType
  <2> QED
    BY <1>1, <1>2, <2>2, <2>3, <2>4, <2>5 DEF SettingsInv, SettingsTypeOK, Complete
<1> QED
  BY <1>3, <1>4, <1>5

LEMMA SetMeans ==
    ASSUME SettingsInv, NEW values, Set(values),
           \A k \in Keys \cap DOMAIN values : values[k] \in Meaning(k)
    PROVE  /\ inifile' \in Inis
           /\ \A k \in Keys : inifile'[k] \in Meaning(k) \cup {Null}
           /\ Complete(inifile) => Complete(inifile')
<1>1. inifile' = [k \in Keys |-> IF k \in DOMAIN values THEN values[k] ELSE inifile[k]]
  BY DEF Set
<1>2. \A k \in Keys : inifile'[k] \in Meaning(k) \cup {Null}
  BY <1>1 DEF SettingsInv
<1>3. \A k \in Keys : inifile[k] # Null => inifile'[k] # Null
  BY <1>1, Meanings, PageKeys
<1>4. inifile' \in Inis
  BY <1>1, <1>2, IniType
<1> QED
  BY <1>2, <1>3, <1>4, PageKeys DEF Complete

LEMMA SaveFile == SettingsInv /\ Save => IsFile(config')
<1>1. ASSUME SettingsInv, Save PROVE IsFile(config')
  <2>1. loaded \in Inis /\ config' = [is |-> "ini", ini |-> loaded]
    BY <1>1 DEF SettingsInv, SettingsTypeOK, Save, File
  <2>2. config'.ini = loaded
    BY <2>1
  <2> QED
    BY <2>1, <2>2 DEF IsFile, File
<1> QED
  BY <1>1

LEMMA BackgroundMeans ==
    ASSUME SettingsInv, Start \/ Reload \/ (\E c \in Colors : PickColor(c)) \/ EditConfig
    PROVE  SettingsInv'
<1>1. CASE Start \/ Reload
  BY <1>1, LoadMeans DEF Start, Reload, SettingsInv, SettingsTypeOK
<1>2. ASSUME NEW c \in Colors, PickColor(c) PROVE SettingsInv'
  <2> DEFINE values == [k \in {"color"} |-> c]
  <2>1. Set(values) /\ Save /\ UNCHANGED <<loaded, running>>
    BY <1>2 DEF PickColor
  <2>2. c \in Values
    BY SettingsBounds
  <2>3. \A k \in Keys \cap DOMAIN values : values[k] \in Meaning(k)
    BY <2>2, Meanings
  <2> HIDE DEF values
  <2>4. /\ inifile' \in Inis /\ \A k \in Keys : inifile'[k] \in Meaning(k) \cup {Null}
        /\ Complete(inifile) => Complete(inifile')
    BY <2>1, <2>3, SetMeans
  <2>5. IsFile(config')
    BY <2>1, SaveFile
  <2> QED
    BY <2>1, <2>4, <2>5 DEF SettingsInv, SettingsTypeOK, Complete
<1>3. CASE EditConfig
  <2>1. IsFile(config')
    BY <1>3, SettingsBounds DEF EditConfig
  <2> QED
    BY <1>3, <2>1 DEF EditConfig, SettingsInv, SettingsTypeOK, Complete
<1> QED
  BY <1>1, <1>2, <1>3

-----------------------------------------------------------------------------
(* The controls of a page. *)

(* A page that is made has controls.                                        *)
LEMMA ControlsMade == \A p \in PageNames : NotMade \notin Controls(p)
<1>1. NotMade \notin [timeZone : Listed \cup Typed]
  BY DEF NotMade
<1>2. NotMade \notin [Credentials -> Edits]
  BY PageKeys DEF NotMade
<1>3. NotMade \notin [level : Levels, regex : BOOLEAN, export : BOOLEAN,
                     csv : BOOLEAN, csvEnabled : BOOLEAN]
  BY DEF NotMade
<1> QED
  BY <1>1, <1>2, <1>3 DEF PageNames, Controls

(* What a page shows of settings that mean something.                       *)
LEMMA ShownOK ==
    ASSUME SettingsInv, Complete(inifile), NEW p \in PageNames
    PROVE  Shown(p, inifile) \in Controls(p) /\ PageOK(p, Shown(p, inifile))
<1>1. \A k \in KeysOf(p) : inifile[k] \in Meaning(k)
  BY PageKeys DEF SettingsInv, Complete
<1>2. CASE p = "I18N"
  <2>1. inifile["timeZone"] \in Listed \cup Typed
    BY <1>1, <1>2, PageKeys, Meanings
  <2>2. FindString(inifile["timeZone"]) \in Listed \cup Typed
    BY <2>1, PreferencesBounds DEF FindString
  <2> QED
    BY <1>2, <2>2 DEF Shown, ShownI18N, Controls, PageOK
<1>3. CASE p = "Session"
  <2>1. \A k \in Credentials : inifile[k] \in Edits
    BY <1>1, <1>3, PageKeys, Meanings
  <2> QED
    BY <1>3, <2>1 DEF Shown, ShownSession, Controls, PageOK
<1>4. CASE p = "Danmaku"
  <2>1. inifile["filterDanmaku"] \in Levels
    BY <1>1, <1>4, PageKeys, Meanings
  <2>2. ShownDanmaku(inifile) \in [level : Levels, regex : BOOLEAN, export : BOOLEAN,
                                  csv : BOOLEAN, csvEnabled : BOOLEAN]
    BY <2>1 DEF ShownDanmaku
  <2>3. Coupled(ShownDanmaku(inifile))
    BY DEF Coupled, ShownDanmaku
  <2> QED
    BY <1>4, <2>2, <2>3 DEF Shown, Controls, PageOK
<1> QED
  BY <1>2, <1>3, <1>4 DEF PageNames

LEMMA KilledOK ==
    ASSUME NEW p \in PageNames, NEW c, PageOK(p, c), c # NotMade
    PROVE  PageOK(p, Killed(p, c)) /\ Killed(p, c) \in Controls(p) /\ Killed(p, c) # NotMade
<1>1. Killed(p, c) \in Controls(p) /\ (p = "Danmaku" => Killed(p, c) = c)
  <2>1. CASE p = "Session"
    BY <2>1, PreferencesBounds DEF Killed, Controls, PageOK
  <2>2. CASE p # "Session"
    BY <2>2 DEF Killed, PageOK
  <2> QED
    BY <2>1, <2>2
<1> QED
  BY <1>1, ControlsMade DEF PageOK

(* What a page sets means something.                                        *)
LEMMA AppliedMeans ==
    ASSUME NEW p \in PageNames, NEW c \in Controls(p), NEW k \in KeysOf(p)
    PROVE  Applied(p, c)[k] \in Meaning(k)
<1>1. CASE p = "I18N"
  BY <1>1, PageKeys, Meanings DEF Applied, AppliedI18N, Controls
<1>2. CASE p = "Session"
  BY <1>2, PageKeys, Meanings DEF Applied, AppliedSession, Controls
<1>3. CASE p = "Danmaku"
  <2>1. c.level \in Levels /\ k \in {"filterDanmaku", "filterRegex", "autoExport"}
    BY <1>3, PageKeys DEF Controls
  <2>2. /\ AppliedDanmaku(c).filterDanmaku \in Levels
        /\ AppliedDanmaku(c).filterRegex \in {"on", "off"}
        /\ AppliedDanmaku(c).autoExport \in {"on", "csv", "off"}
    BY <2>1 DEF AppliedDanmaku
  <2> QED
    BY <1>3, <2>1, <2>2, Meanings DEF Applied
<1> QED
  BY <1>1, <1>2, <1>3 DEF PageNames

-----------------------------------------------------------------------------
(* The sheets. *)

LEMMA ChangeSheetOK ==
    ASSUME NEW s \in Sheets, NEW STATE sheet, SheetsOK,
           sheet = [state |-> sheet.state, page |-> sheet.page,
                    made |-> [p \in PageNames |-> sheet.made[p]]],
           SheetOK(sheet),
           sheets' = [sheets EXCEPT ![s] = sheet]
    PROVE  SheetsOK'
<1>1. \A t \in Sheets : sheets'[t] = IF t = s THEN sheet ELSE sheets[t]
  BY DEF SheetsType, SheetsOK
<1>2. (\A t \in Sheets : SheetOK(sheets[t]))'
  <2> SUFFICES ASSUME NEW t \in Sheets PROVE SheetOK(sheets'[t])
    BY DEF SheetOK
  <2> QED
    BY <1>1 DEF SheetsOK
<1>3. SheetsType'
  <2>1. sheet.page \in PageNames
    BY DEF SheetOK
  <2> QED
    BY <1>1, <2>1 DEF SheetsType, SheetsOK
<1> QED
  BY <1>2, <1>3 DEF SheetsOK

LEMMA OldSheet ==
    ASSUME SheetsOK, NEW s \in Sheets
    PROVE  /\ SheetOK(sheets[s])
           /\ sheets[s] = [state |-> sheets[s].state, page |-> sheets[s].page,
                           made |-> [p \in PageNames |-> sheets[s].made[p]]]
           /\ DOMAIN sheets[s].made = PageNames
<1>1. sheets[s] = [state |-> sheets[s].state, page |-> sheets[s].page,
                   made |-> [p \in PageNames |-> sheets[s].made[p]]]
  BY DEF SheetsOK, SheetsType
<1>2. DOMAIN sheets[s].made = PageNames
  BY <1>1
<1> QED
  BY <1>1, <1>2 DEF SheetsOK

LEMMA OpenOK ==
    ASSUME ControlsInv, NEW s \in Sheets, showPropertySheet(s)
    PROVE  SheetsOK'
<1> DEFINE made(p) == IF p = "I18N" THEN Shown("I18N", inifile) ELSE NotMade
           sheet == [state |-> "open", page |-> "I18N", made |-> [p \in PageNames |-> made(p)]]
<1>1. sheets' = [sheets EXCEPT ![s] = sheet] /\ Complete(inifile)
  BY DEF showPropertySheet
<1>2. "I18N" \in PageNames
  BY DEF PageNames
<1>3. PageOK("I18N", Shown("I18N", inifile)) /\ Shown("I18N", inifile) # NotMade
  BY <1>1, <1>2, ShownOK, ControlsMade DEF ControlsInv
<1>4. \A p \in PageNames : PageOK(p, made(p))
  BY <1>3 DEF PageOK
<1>5. SheetOK(sheet)
  BY <1>2, <1>3, <1>4 DEF SheetOK
<1>6. sheet = [state |-> sheet.state, page |-> sheet.page,
               made |-> [p \in PageNames |-> sheet.made[p]]]
  OBVIOUS
<1> HIDE DEF sheet
<1> QED
  BY <1>1, <1>5, <1>6, ChangeSheetOK DEF ControlsInv

LEMMA TurnOK ==
    ASSUME ControlsInv, NEW s \in Sheets, NEW page \in PageNames, Turn(s, page)
    PROVE  SheetsOK'
<1> DEFINE old == sheets[s]
           made(p) == IF p = page /\ old.made[p] = NotMade THEN Shown(p, inifile)
                      ELSE IF p = old.page THEN Killed(p, old.made[p]) ELSE old.made[p]
           sheet == [state |-> "open", page |-> page, made |-> [p \in PageNames |-> made(p)]]
<1>1. sheets' = [sheets EXCEPT ![s] = sheet] /\ Complete(inifile) /\ old.state = "open"
      /\ page # old.page
  BY DEF Turn, Open
<1>2. SheetOK(old)
  BY OldSheet DEF ControlsInv
<1> HIDE DEF old
<1>3. \A p \in PageNames : PageOK(p, old.made[p])
  BY <1>2 DEF SheetOK
<1>4. old.page \in PageNames /\ old.made[old.page] # NotMade
  BY <1>1, <1>2 DEF SheetOK
<1>5. PageOK(page, Shown(page, inifile)) /\ Shown(page, inifile) # NotMade
  BY <1>1, ShownOK, ControlsMade DEF ControlsInv
<1>6. ASSUME NEW p \in PageNames PROVE PageOK(p, made(p))
  <2>1. CASE p = page /\ old.made[p] = NotMade
    BY <1>5, <2>1
  <2>2. CASE p = old.page /\ p # page
    BY <1>3, <1>4, <2>2, KilledOK
  <2>3. CASE p # old.page /\ ~(p = page /\ old.made[p] = NotMade)
    BY <1>3, <2>3
  <2> QED
    BY <1>1, <2>1, <2>2, <2>3
<1>7. made(page) # NotMade
  BY <1>1, <1>5
<1> HIDE DEF made
<1>8. SheetOK(sheet)
  BY <1>6, <1>7 DEF SheetOK
<1>9. sheet = [state |-> sheet.state, page |-> sheet.page,
               made |-> [p \in PageNames |-> sheet.made[p]]]
  OBVIOUS
<1> HIDE DEF sheet
<1> QED
  BY <1>1, <1>8, <1>9, ChangeSheetOK DEF ControlsInv

LEMMA ChangeOK ==
    ASSUME ControlsInv, NEW s \in Sheets, NEW page \in PageNames, NEW STATE controls,
           Is(s, page), controls \in Controls(page), page = "Danmaku" => Coupled(controls),
           Change(s, page, controls)
    PROVE  SheetsOK'
<1> DEFINE old == sheets[s]
           made(p) == IF p = page THEN controls ELSE old.made[p]
           sheet == [state |-> old.state, page |-> old.page, made |-> [p \in PageNames |-> made(p)]]
<1>1. /\ SheetOK(old) /\ old.page = page
      /\ old = [state |-> old.state, page |-> old.page,
                made |-> [p \in PageNames |-> old.made[p]]]
  BY OldSheet DEF ControlsInv, Is
<1>2. sheets' = [sheets EXCEPT ![s] = [old EXCEPT !.made = [old.made EXCEPT ![page] = controls]]]
  BY DEF Change
<1> HIDE DEF old
<1>3. [old EXCEPT !.made = [old.made EXCEPT ![page] = controls]] = sheet
  BY <1>1
<1>4. \A p \in PageNames : PageOK(p, made(p))
  BY <1>1 DEF SheetOK, PageOK
<1>5. controls # NotMade
  BY ControlsMade
<1>6. SheetOK(sheet)
  BY <1>1, <1>4, <1>5 DEF SheetOK
<1>7. sheet = [state |-> sheet.state, page |-> sheet.page,
               made |-> [p \in PageNames |-> sheet.made[p]]]
  OBVIOUS
<1> HIDE DEF sheet
<1> QED
  BY <1>2, <1>3, <1>6, <1>7, ChangeSheetOK DEF ControlsInv

LEMMA CloseOK ==
    ASSUME ControlsInv, NEW s \in Sheets, CloseSheet(s)
    PROVE  SheetsOK' /\ IsFile(config')
<1>1. ASSUME NEW state \in {"closed", "dead"},
             sheets' = [sheets EXCEPT ![s] = [Closed EXCEPT !.state = state]]
      PROVE  SheetsOK'
  <2> DEFINE sheet == [Closed EXCEPT !.state = state]
  <2>1. sheet = [state |-> sheet.state, page |-> sheet.page,
                 made |-> [p \in PageNames |-> sheet.made[p]]]
    BY DEF Closed
  <2>2. SheetOK(sheet)
    BY DEF Closed, PageNames, SheetOK, PageOK
  <2>3. sheets' = [sheets EXCEPT ![s] = sheet]
    BY <1>1
  <2> HIDE DEF sheet
  <2> QED
    BY <2>1, <2>2, <2>3, ChangeSheetOK DEF ControlsInv
<1>2. Closed = [Closed EXCEPT !.state = "closed"]
  BY DEF Closed
<1>3. IsFile(config')
  BY SaveFile DEF CloseSheet, ControlsInv, SettingsInv, SettingsTypeOK
<1> QED
  BY <1>1, <1>2, <1>3 DEF CloseSheet

LEMMA OkOK ==
    ASSUME ControlsInv, NEW s \in Sheets, Ok(s)
    PROVE  SettingsInv' /\ SheetsOK'
<1> DEFINE old == sheets[s]
           made == [old.made EXCEPT ![old.page] = Killed(old.page, @)]
           pages == {p \in PageNames : made[p] # NotMade}
           sets(k) == CHOOSE p \in pages : k \in KeysOf(p)
           values == [k \in UNION {KeysOf(p) : p \in pages} |->
                         Applied(sets(k), made[sets(k)])[k]]
<1>1. Set(values) /\ CloseSheet(s) /\ old.state = "open"
  BY Zenon DEF Ok, Open
<1>2. loaded' = loaded /\ running' = running
  BY Zenon DEF Ok
<1>3. SheetOK(old) /\ DOMAIN old.made = PageNames
  BY OldSheet DEF ControlsInv
<1> HIDE DEF old
<1>4. ASSUME NEW p \in pages PROVE made[p] \in Controls(p)
  <2>1. PageOK(p, old.made[p]) /\ old.page \in PageNames /\ old.made[old.page] # NotMade
    BY <1>1, <1>3 DEF SheetOK
  <2>2. CASE p = old.page
    <3>1. made[p] = Killed(p, old.made[p])
      BY <1>3, <2>1, <2>2
    <3> QED
      BY <2>1, <2>2, <3>1, KilledOK
  <2>3. CASE p # old.page
    <3>1. made[p] = old.made[p]
      BY <1>3, <2>3
    <3> QED
      BY <2>1, <3>1 DEF PageOK
  <2> QED
    BY <2>2, <2>3
<1> HIDE DEF made
<1>5. ASSUME NEW k \in DOMAIN values PROVE values[k] \in Meaning(k)
  <2>1. \E p \in pages : k \in KeysOf(p)
    OBVIOUS
  <2>2. sets(k) \in pages /\ k \in KeysOf(sets(k))
    BY <2>1, Zenon
  <2>3. values[k] = Applied(sets(k), made[sets(k)])[k]
    OBVIOUS
  <2>4. sets(k) \in PageNames /\ made[sets(k)] \in Controls(sets(k))
    BY <1>4, <2>2
  <2> HIDE DEF sets, values
  <2> QED
    BY <2>2, <2>3, <2>4, AppliedMeans
<1> HIDE DEF values
<1>6. /\ inifile' \in Inis /\ \A k \in Keys : inifile'[k] \in Meaning(k) \cup {Null}
      /\ Complete(inifile) => Complete(inifile')
  BY <1>1, <1>5, SetMeans DEF ControlsInv
<1>7. SheetsOK' /\ IsFile(config')
  BY <1>1, CloseOK
<1> QED
  BY <1>2, <1>6, <1>7 DEF ControlsInv, SettingsInv, SettingsTypeOK, Complete

(* The controls of the page in front, which is made.                        *)
LEMMA FrontMade ==
    ASSUME ControlsInv, NEW s \in Sheets, NEW page \in PageNames, Is(s, page)
    PROVE  /\ sheets[s].made[page] \in Controls(page)
           /\ page = "Danmaku" => Coupled(sheets[s].made[page])
  BY OldSheet DEF ControlsInv, SheetOK, PageOK, Is, Open

LEMMA DanmakuOK ==
    ASSUME ControlsInv, NEW s \in Sheets,
           (\E n \in Levels : MoveSlider(s, n)) \/ ClickRegex(s) \/ ClickExport(s) \/ ClickCsv(s)
    PROVE  SheetsOK'
<1> DEFINE c == sheets[s].made["Danmaku"]
           boxes == [level : Levels, regex : BOOLEAN, export : BOOLEAN,
                     csv : BOOLEAN, csvEnabled : BOOLEAN]
<1>1. "Danmaku" \in PageNames /\ Controls("Danmaku") = boxes
  BY DEF PageNames, Controls
<1>2. Is(s, "Danmaku")
  BY DEF MoveSlider, ClickRegex, ClickExport, ClickCsv
<1>3. c \in boxes /\ Coupled(c)
  BY <1>1, <1>2, FrontMade
<1>4. ASSUME NEW STATE d, d \in boxes, Coupled(d), Change(s, "Danmaku", d) PROVE SheetsOK'
  BY <1>1, <1>2, <1>4, ChangeOK
<1>5. ASSUME NEW n \in Levels, MoveSlider(s, n) PROVE SheetsOK'
  <2> DEFINE d == [c EXCEPT !.level = n]
  <2>1. Change(s, "Danmaku", d)
    BY <1>5 DEF MoveSlider
  <2> HIDE DEF c
  <2>2. d \in boxes /\ Coupled(d)
    BY <1>3 DEF Coupled
  <2> HIDE DEF d
  <2> QED
    BY <1>4, <2>1, <2>2
<1>6. CASE ClickRegex(s)
  <2> DEFINE d == [c EXCEPT !.regex = ~@]
  <2>1. Change(s, "Danmaku", d)
    BY <1>6 DEF ClickRegex
  <2> HIDE DEF c
  <2>2. d \in boxes /\ Coupled(d)
    BY <1>3 DEF Coupled
  <2> HIDE DEF d
  <2> QED
    BY <1>4, <2>1, <2>2
<1>7. CASE ClickExport(s)
  <2> DEFINE one == [c EXCEPT !.export = ~@]
             two == [one EXCEPT !.csvEnabled = ~c.export]
             d == [two EXCEPT !.csv = IF c.export THEN FALSE ELSE @]
  <2>1. Change(s, "Danmaku", d)
    BY <1>7, Zenon DEF ClickExport
  <2> HIDE DEF c
  <2>2. c.export \in BOOLEAN /\ c.csv \in BOOLEAN
    BY <1>3
  <2>3. one \in boxes /\ one.export = ~c.export /\ one.csv = c.csv
    BY <1>3, <2>2
  <2> HIDE DEF one
  <2>4. two \in boxes /\ two.export = ~c.export /\ two.csv = c.csv /\ two.csvEnabled = ~c.export
    BY <2>2, <2>3
  <2> HIDE DEF two
  <2>5. /\ d \in boxes /\ d.export = ~c.export /\ d.csvEnabled = ~c.export
        /\ d.csv = IF c.export THEN FALSE ELSE c.csv
    BY <2>2, <2>4
  <2> HIDE DEF d
  <2>6. Coupled(d)
    BY <1>3, <2>5 DEF Coupled
  <2> QED
    BY <1>4, <2>1, <2>5, <2>6
<1>8. CASE ClickCsv(s)
  <2> DEFINE d == [c EXCEPT !.csv = ~@]
  <2>1. Change(s, "Danmaku", d) /\ c.csvEnabled
    BY <1>8 DEF ClickCsv
  <2> HIDE DEF c
  <2>2. d \in boxes /\ Coupled(d)
    BY <1>3, <2>1 DEF Coupled
  <2> HIDE DEF d
  <2> QED
    BY <1>4, <2>1, <2>2
<1> QED
  BY <1>5, <1>6, <1>7, <1>8

LEMMA ControlsStart == Init => ControlsInv
<1> SUFFICES ASSUME Init PROVE ControlsInv
  OBVIOUS
<1>1. inifile = Empty /\ loaded = Empty /\ config \in Contents /\ running = FALSE
  BY DEF Init, SettingsInit
<1>2. \A k \in Keys : inifile[k] = Null
  BY <1>1 DEF Empty
<1>3. Empty \in Inis
  BY DEF Empty, Inis
<1>4. SettingsInv
  BY <1>1, <1>2, <1>3, SettingsBounds DEF SettingsInv, SettingsTypeOK
<1>5. SheetsOK
  BY DEF Init, SheetsOK, SheetsType, SheetOK, PageOK, Closed, PageNames
<1> QED
  BY <1>4, <1>5 DEF Init, ControlsInv

LEMMA QuitOK == ControlsInv /\ Quit => ControlsInv'
<1> SUFFICES ASSUME ControlsInv, Quit PROVE ControlsInv'
  OBVIOUS
<1>1. /\ inifile' = Empty /\ loaded' = Empty /\ config' = config /\ running' = FALSE
  BY DEF Quit, Exit
<1>2. \A k \in Keys : inifile'[k] = Null
  BY <1>1 DEF Empty
<1>3. Empty \in Inis
  BY DEF Empty, Inis
<1>4. SettingsInv'
  BY <1>1, <1>2, <1>3 DEF SettingsInv, SettingsTypeOK, ControlsInv
<1>5. SheetsOK'
  BY DEF Quit, SheetsOK, SheetsType, SheetOK, PageOK, Closed, PageNames
<1> QED
  BY <1>4, <1>5 DEF Quit, ControlsInv

LEMMA ControlsNext == ControlsInv /\ [Next]_preferencesVars => ControlsInv'
<1> SUFFICES ASSUME ControlsInv, [Next]_preferencesVars PROVE ControlsInv'
  OBVIOUS
<1>1. ASSUME UNCHANGED settingsVars PROVE SettingsInv'
  BY <1>1 DEF settingsVars, SettingsInv, SettingsTypeOK, ControlsInv, Complete
<1>2. ASSUME NEW s \in Sheets, UserOn(s) PROVE ControlsInv'
  <2>1. CASE showPropertySheet(s)
    BY <1>1, <2>1, OpenOK DEF showPropertySheet, ControlsInv
  <2>2. CASE Ok(s)
    BY <2>2, OkOK DEF Ok, ControlsInv
  <2>3. CASE Cancel(s)
    <3>1. SettingsInv'
      BY <2>3, CloseOK DEF Cancel, ControlsInv, SettingsInv, SettingsTypeOK, Complete
    <3> QED
      BY <2>3, <3>1, CloseOK DEF Cancel, ControlsInv
  <2>4. ASSUME NEW page \in PageNames, Turn(s, page) PROVE ControlsInv'
    BY <1>1, <2>4, TurnOK DEF Turn, ControlsInv
  <2>5. ASSUME NEW page \in PageNames, NEW STATE controls, Change(s, page, controls), SheetsOK'
        PROVE  ControlsInv'
    BY <1>1, <2>5 DEF Change, ControlsInv
  <2>6. ASSUME NEW text \in Listed \cup Typed, ChangeTimeZone(s, text) PROVE ControlsInv'
    <3>1. "I18N" \in PageNames /\ [timeZone |-> text] \in Controls("I18N")
      BY DEF PageNames, Controls
    <3>2. Is(s, "I18N") /\ Change(s, "I18N", [timeZone |-> text])
      BY <2>6 DEF ChangeTimeZone
    <3> QED
      BY <2>5, <3>1, <3>2, ChangeOK
  <2>7. ASSUME NEW k \in Credentials, NEW text \in Edits, EditCredential(s, k, text)
        PROVE  ControlsInv'
    <3> DEFINE c == sheets[s].made["Session"]
    <3>1. "Session" \in PageNames /\ Controls("Session") = [Credentials -> Edits]
      BY DEF PageNames, Controls
    <3>2. Is(s, "Session") /\ Change(s, "Session", [c EXCEPT ![k] = text])
      BY <2>7 DEF EditCredential
    <3>3. c \in [Credentials -> Edits]
      BY <3>1, <3>2, FrontMade
    <3>4. [c EXCEPT ![k] = text] \in Controls("Session")
      BY <3>1, <3>3
    <3> QED
      BY <2>5, <3>1, <3>2, <3>4, ChangeOK
  <2>8. CASE (\E n \in Levels : MoveSlider(s, n)) \/ ClickRegex(s) \/ ClickExport(s) \/ ClickCsv(s)
    <3>1. SheetsOK'
      BY <2>8, DanmakuOK
    <3> QED
      BY <2>5, <2>8, <3>1 DEF MoveSlider, ClickRegex, ClickExport, ClickCsv, PageNames
  <2> QED
    BY <1>2, <2>1, <2>2, <2>3, <2>4, <2>6, <2>7, <2>8 DEF UserOn
<1>3. CASE Background
  <2>1. SettingsInv'
    BY <1>3, BackgroundMeans DEF Background, ControlsInv
  <2> QED
    BY <1>3, <2>1 DEF Background, ControlsInv, SheetsOK, SheetsType
<1>4. CASE Quit
  BY <1>4, QuitOK
<1>5. CASE UNCHANGED preferencesVars
  BY <1>1, <1>5 DEF preferencesVars, ControlsInv, SheetsOK, SheetsType
<1> QED
  BY <1>2, <1>3, <1>4, <1>5 DEF Next

(* Pages hold what their controls can hold, and the settings values, with   *)
(* any number of sheets open.                                               *)
THEOREM PreferencesTypes == Safety => []PreferencesTypeOK
<1>1. ControlsInv => PreferencesTypeOK
  <2> SUFFICES ASSUME ControlsInv, NEW s \in Sheets
               PROVE  /\ sheets[s].state \in {"closed", "open", "dead"}
                      /\ sheets[s].page \in PageNames
                      /\ \A p \in PageNames : sheets[s].made[p] \in Controls(p) \cup {NotMade}
                      /\ Open(s) => sheets[s].made[sheets[s].page] # NotMade
    BY DEF ControlsInv, SettingsInv, PreferencesTypeOK
  <2> QED
    BY OldSheet DEF ControlsInv, SheetOK, PageOK, Open
<1> QED
  BY <1>1, ControlsStart, ControlsNext, PTL DEF Safety

(* No caller that loads the settings first makes a string of a null         *)
(* pointer, unless config.ini cannot be read and never was.                 *)
THEOREM DefaultsKnown == Safety => DefaultsComplete
<1>1. ControlsInv /\ (Start \/ Reload) =>
        (loaded # Empty \/ config # Unreadable => Complete(inifile'))
  <2> SUFFICES ASSUME ControlsInv, Start \/ Reload
               PROVE  loaded # Empty \/ config # Unreadable => Complete(inifile')
    OBVIOUS
  <2>1. SettingsInv /\ Load /\ running' \in BOOLEAN
    BY DEF Start, Reload, ControlsInv, SettingsInv, SettingsTypeOK
  <2> QED
    BY <2>1, LoadMeans
<1>2. ControlsInv /\ [Next]_preferencesVars =>
        [(Start \/ Reload) /\ (loaded # Empty \/ config # Unreadable) => Complete(inifile')]_settingsVars
  BY <1>1
<1> QED
  BY <1>2, ControlsStart, ControlsNext, PTL DEF Safety, DefaultsComplete

-----------------------------------------------------------------------------
(* What a page of an open sheet shows, it shows again once it is applied.   *)
LEMMA ShownAgain ==
    ASSUME NEW p \in PageNames, NEW c \in Controls(p), p = "Danmaku" => Coupled(c),
           NEW ini, ini = [k \in Keys |-> IF k \in KeysOf(p) THEN Applied(p, c)[k] ELSE Null]
    PROVE  Shown(p, ini) = c \/ (p = "I18N" /\ c.timeZone \in Typed)
<1>0. \A k \in KeysOf(p) : ini[k] = Applied(p, c)[k]
  BY PageKeys
<1>1. CASE p = "I18N"
  <2>1. c \in [timeZone : Listed \cup Typed] /\ ini["timeZone"] = c.timeZone
    BY <1>0, <1>1, PageKeys DEF Controls, Applied, AppliedI18N
  <2>2. c.timeZone \notin Typed => FindString(ini["timeZone"]) = c.timeZone
    BY <2>1 DEF FindString
  <2>3. c = [timeZone |-> c.timeZone]
    BY <2>1
  <2> QED
    BY <1>1, <2>2, <2>3 DEF Shown, ShownI18N
<1>2. CASE p = "Session"
  <2>1. c \in [Credentials -> Edits] /\ \A k \in Credentials : ini[k] = c[k]
    BY <1>0, <1>2, PageKeys DEF Controls, Applied, AppliedSession
  <2> QED
    BY <1>2, <2>1 DEF Shown, ShownSession
<1>3. CASE p = "Danmaku"
  <2>1. c \in [level : Levels, regex : BOOLEAN, export : BOOLEAN,
               csv : BOOLEAN, csvEnabled : BOOLEAN]
    BY <1>3 DEF Controls
  <2>2. /\ ini["filterDanmaku"] = c.level
        /\ ini["filterRegex"] = IF c.regex THEN "on" ELSE "off"
        /\ ini["autoExport"] = IF c.export THEN IF c.csv THEN "csv" ELSE "on" ELSE "off"
    BY <1>0, <1>3, PageKeys DEF Applied, AppliedDanmaku
  <2>3. c.csvEnabled = c.export /\ (c.csv => c.export)
    BY <1>3 DEF Coupled
  <2>4. c = [level |-> c.level, regex |-> c.regex, export |-> c.export,
             csv |-> c.csv, csvEnabled |-> c.csvEnabled]
    BY <2>1
  <2>5. /\ (ini["filterRegex"] = "on") = c.regex
        /\ (ini["autoExport"] \in {"on", "csv"}) = c.export
        /\ (ini["autoExport"] = "csv") = c.csv
    BY <2>1, <2>2, <2>3
  <2>6. ShownDanmaku(ini) = c
    BY <2>2, <2>3, <2>4, <2>5 DEF ShownDanmaku
  <2> QED
    BY <1>3, <2>6 DEF Shown
<1> QED
  BY <1>1, <1>2, <1>3 DEF PageNames

(* OK on a page that shows the settings sets them as they are.              *)
LEMMA AppliedAgain ==
    ASSUME ControlsInv, Complete(inifile), NEW p \in PageNames, NEW k \in KeysOf(p)
    PROVE  Applied(p, Shown(p, inifile))[k] = inifile[k] \/ inifile[k] \in Typed
<1>0. inifile[k] \in Meaning(k)
  BY PageKeys DEF ControlsInv, SettingsInv, Complete
<1>1. CASE p = "I18N"
  BY <1>1, PageKeys DEF Applied, AppliedI18N, Shown, ShownI18N, FindString
<1>2. CASE p = "Session"
  BY <1>2, PageKeys DEF Applied, AppliedSession, Shown, ShownSession
<1>3. CASE p = "Danmaku"
  <2>1. Applied(p, Shown(p, inifile)) = AppliedDanmaku(ShownDanmaku(inifile))
    BY <1>3 DEF Applied, Shown
  <2>2. CASE k = "filterDanmaku"
    BY <2>1, <2>2 DEF AppliedDanmaku, ShownDanmaku
  <2>3. CASE k = "filterRegex"
    <3>0. Meaning("filterRegex") = {"on", "off"}
      BY Meanings
    <3>1. inifile["filterRegex"] \in {"on", "off"}
      BY <1>0, <2>3, <3>0
    <3> DEFINE c == ShownDanmaku(inifile)
    <3>2. c.regex <=> inifile["filterRegex"] = "on"
      BY DEF ShownDanmaku
    <3> HIDE DEF c
    <3>3. AppliedDanmaku(c).filterRegex = IF c.regex THEN "on" ELSE "off"
      BY DEF AppliedDanmaku
    <3>4. AppliedDanmaku(c).filterRegex = inifile["filterRegex"]
      BY <3>1, <3>2, <3>3
    <3> QED
      BY <2>1, <2>3, <3>4 DEF c
  <2>4. CASE k = "autoExport"
    <3>0. Meaning("autoExport") = {"on", "csv", "off"}
      BY Meanings
    <3>1. inifile["autoExport"] \in {"on", "csv", "off"}
      BY <1>0, <2>4, <3>0
    <3> DEFINE c == ShownDanmaku(inifile)
    <3>2. /\ c.export <=> inifile["autoExport"] \in {"on", "csv"}
          /\ c.csv <=> inifile["autoExport"] = "csv"
      BY DEF ShownDanmaku
    <3> HIDE DEF c
    <3>3. AppliedDanmaku(c).autoExport = IF c.export THEN IF c.csv THEN "csv" ELSE "on" ELSE "off"
      BY DEF AppliedDanmaku
    <3>4. AppliedDanmaku(c).autoExport = inifile["autoExport"]
      BY <3>1, <3>2, <3>3
    <3> QED
      BY <2>1, <2>4, <3>4 DEF c
  <2>5. k \in {"filterDanmaku", "filterRegex", "autoExport"}
    BY <1>3, PageKeys
  <2> QED
    BY <2>2, <2>3, <2>4, <2>5
<1> QED
  BY <1>1, <1>2, <1>3 DEF PageNames

(* What a page shows is what it will show again after OK, and OK on a page  *)
(* that shows the settings changes none, but for a time zone that was       *)
(* typed: whatever was clicked on the boxes that depend on each other.      *)
THEOREM ShowsWhatItSets == Safety => []RoundTrip
<1>1. ControlsInv => RoundTrip
  <2> SUFFICES ASSUME ControlsInv PROVE RoundTrip
    OBVIOUS
  <2>1. ASSUME NEW s \in Sheets, NEW p \in PageNames, sheets[s].made[p] # NotMade
        PROVE  \/ Shown(p, [k \in Keys |-> IF k \in KeysOf(p)
                                          THEN Applied(p, sheets[s].made[p])[k] ELSE Null])
                    = sheets[s].made[p]
               \/ p = "I18N" /\ sheets[s].made[p].timeZone \in Typed
    <3>1. sheets[s].made[p] \in Controls(p) /\ (p = "Danmaku" => Coupled(sheets[s].made[p]))
      BY <2>1, OldSheet DEF ControlsInv, SheetOK, PageOK
    <3> QED
      BY <3>1, ShownAgain
  <2>2. ASSUME Complete(inifile), NEW p \in PageNames, NEW k \in KeysOf(p)
        PROVE  Applied(p, Shown(p, inifile))[k] = inifile[k] \/ inifile[k] \in Typed
    BY <2>2, AppliedAgain
  <2>3. \A s \in Sheets, p \in PageNames :
          Open(s) /\ sheets[s].made[p] # NotMade =>
             LET c == sheets[s].made[p]
                 ini == [k \in Keys |-> IF k \in KeysOf(p) THEN Applied(p, c)[k] ELSE Null]
             IN  \/ Shown(p, ini) = c
                 \/ p = "I18N" /\ c.timeZone \in Typed
    BY <2>1, Zenon
  <2>4. Complete(inifile) => \A p \in PageNames :
          LET set == Applied(p, Shown(p, inifile))
          IN  \A k \in KeysOf(p) : set[k] = inifile[k] \/ inifile[k] \in Typed
    BY <2>2, Zenon
  <2> QED
    BY <2>3, <2>4, Zenon DEF RoundTrip
<1> QED
  BY <1>1, ControlsStart, ControlsNext, PTL DEF Safety
=============================================================================
