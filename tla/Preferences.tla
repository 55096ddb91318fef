----------------------------- MODULE Preferences -----------------------------
(***************************************************************************)
(* totemoe-livemaid: the modeless property sheets that Preferences opens,  *)
(* one more at each click, their pages' controls against the settings, and *)
(* the message loop that destroys a sheet which has been closed and saves. *)
(*                                                                         *)
(* One slider stands for the four of the Danmaku page, one check box for   *)
(* its two plain ones.  Nothing reads the language.  Verify, which asks    *)
(* the web service, is in Commands.                                        *)
(***************************************************************************)
EXTENDS Settings

CONSTANTS
    Sheets,       \* sheets that may be open at once
    Listed,       \* names of the time zones the system lists
    Typed,        \* what else the user may type for a time zone
    Finds,        \* the first listed name that begins with a typed text
    Levels,       \* positions of a slider
    Edits,        \* what the user may type into an edit control
    Visits        \* bound: the pages the user works on in one run of the program

PageNames == {"I18N", "Session", "Danmaku"}
Credentials == {"DedeUserID", "DedeUserID__ckMd5", "SESSDATA"}
KeysOf(page) == CASE page = "I18N" -> {"timeZone"}
                  [] page = "Session" -> Credentials
                  [] page = "Danmaku" -> {"filterDanmaku", "filterRegex", "autoExport"}

ASSUME PreferencesBounds ==
    /\ UNION {KeysOf(page) : page \in PageNames} \subseteq Known
    /\ Finds \in [Typed -> Listed] /\ Typed \cap Listed = {}
    /\ \A k \in Credentials : Default[k] = ""
    /\ "" \in Edits /\ Edits \subseteq Values
    /\ Default["timeZone"] \in Listed /\ Default["filterDanmaku"] \in Levels
    /\ Default["filterRegex"] \in {"on", "off"} /\ Default["autoExport"] \in {"on", "csv", "off"}
    /\ Listed \cup Typed \cup Levels \cup {"on", "csv", "off"} \subseteq Values
    /\ Visits \subseteq SUBSET PageNames

VARIABLES
    sheets,         \* per sheet: is it open, its page, the controls of the pages made
    m_hPropSheet,   \* the sheet opened last
    visits          \* the pages of this run

preferencesVars == <<settingsVars, sheets, m_hPropSheet, visits>>

NoSheet == "none"
Controls(page) ==
    CASE page = "I18N" -> [timeZone : Listed \cup Typed]
      [] page = "Session" -> [Credentials -> Edits]
      [] page = "Danmaku" -> [level : Levels, regex : BOOLEAN, export : BOOLEAN,
                              csv : BOOLEAN, csvEnabled : BOOLEAN]
NotMade == <<>>
Closed == [state |-> "closed", page |-> "I18N", made |-> [p \in PageNames |-> NotMade]]

Init ==
    /\ SettingsInit
    /\ sheets = [s \in Sheets |-> Closed]
    /\ m_hPropSheet = NoSheet
    /\ visits \in Visits

-----------------------------------------------------------------------------
(* WM_INITDIALOG: what a page's controls show of the settings. *)

(* CB_FINDSTRING on the list of time zones. *)
FindString(text) == IF text \in Typed THEN Finds[text] ELSE text

ShownI18N(ini) == [timeZone |-> FindString(ini["timeZone"])]

ShownSession(ini) == [k \in Credentials |-> ini[k]]

ShownDanmaku(ini) ==
    LET exports == ini["autoExport"] \in {"on", "csv"}
    IN  [level |-> ini["filterDanmaku"], regex |-> ini["filterRegex"] = "on",
         export |-> exports, csv |-> ini["autoExport"] = "csv", csvEnabled |-> exports]

Shown(page, ini) ==
    CASE page = "I18N" -> ShownI18N(ini)
      [] page = "Session" -> ShownSession(ini)
      [] page = "Danmaku" -> ShownDanmaku(ini)

(* PSN_APPLY: what a page sets; the texts of the first two as they are.     *)
AppliedI18N(c) == c
AppliedSession(c) == c

AppliedDanmaku(c) ==
    [filterDanmaku |-> c.level,
     filterRegex |-> IF c.regex THEN "on" ELSE "off",
     autoExport |-> IF c.export THEN IF c.csv THEN "csv" ELSE "on" ELSE "off"]

Applied(page, c) ==
    CASE page = "I18N" -> AppliedI18N(c)
      [] page = "Session" -> AppliedSession(c)
      [] page = "Danmaku" -> AppliedDanmaku(c)

(* Mutant: nothing is cleared. *)
KilledAsIs(page, c) == c

(* PSN_KILLACTIVE, when a page is left or the sheet is closed with OK: the  *)
(* rest of the credentials goes with the user.                              *)
Killed(page, c) ==
    IF page = "Session" /\ c["DedeUserID"] = "" THEN [k \in Credentials |-> ""] ELSE c

-----------------------------------------------------------------------------
Open(s) == sheets[s].state = "open"
Is(s, page) == Open(s) /\ sheets[s].page = page

(* IDM_PREFERENCES: a new sheet on its first page. *)
showPropertySheet(s) ==
    /\ running /\ Complete(inifile)
    /\ sheets[s].state = "closed"
    /\ sheets' = [sheets EXCEPT ![s] = [state |-> "open", page |-> "I18N",
                     made |-> [p \in PageNames |->
                                  IF p = "I18N" THEN Shown("I18N", inifile) ELSE NotMade]]]
    /\ m_hPropSheet' = s
    /\ UNCHANGED <<settingsVars, visits>>

(* Mutant: pages are made when the sheet is. *)
TurnUnmade(s, page) ==
    /\ Open(s) /\ page # sheets[s].page /\ page \in visits \cup {"I18N"}
    /\ sheets' = [sheets EXCEPT ![s].page = page,
                                ![s].made[sheets[s].page] = Killed(sheets[s].page, @)]
    /\ UNCHANGED <<settingsVars, m_hPropSheet, visits>>

(* The user turns to another page, which is made when it is first shown. *)
Turn(s, page) ==
    /\ Open(s) /\ Complete(inifile) /\ page # sheets[s].page /\ page \in visits \cup {"I18N"}
    /\ LET made == sheets[s].made
           turned == [p \in PageNames |->
                         IF p = page /\ made[p] = NotMade THEN Shown(p, inifile)
                         ELSE IF p = sheets[s].page THEN Killed(p, made[p])
                         ELSE made[p]]
       IN  sheets' = [sheets EXCEPT ![s] = [state |-> "open", page |-> page, made |-> turned]]
    /\ UNCHANGED <<settingsVars, m_hPropSheet, visits>>

Change(s, page, controls) ==
    /\ sheets' = [sheets EXCEPT ![s].made[page] = controls]
    /\ UNCHANGED <<settingsVars, m_hPropSheet, visits>>

ChangeTimeZone(s, text) ==
    Is(s, "I18N") /\ "I18N" \in visits /\ Change(s, "I18N", [timeZone |-> text])

EditCredential(s, k, text) ==
    Is(s, "Session") /\ Change(s, "Session", [sheets[s].made["Session"] EXCEPT ![k] = text])

MoveSlider(s, n) ==
    Is(s, "Danmaku") /\ Change(s, "Danmaku", [sheets[s].made["Danmaku"] EXCEPT !.level = n])

ClickRegex(s) ==
    Is(s, "Danmaku") /\ Change(s, "Danmaku", [sheets[s].made["Danmaku"] EXCEPT !.regex = ~@])

(* Mutant: the check box below is disabled and stays checked. *)
ClickExportKeeps(s) ==
    /\ Is(s, "Danmaku")
    /\ LET c == sheets[s].made["Danmaku"]
       IN  Change(s, "Danmaku", [c EXCEPT !.export = ~@, !.csvEnabled = ~c.export])

(* BN_CLICKED of the box that is the master of the CSV box. *)
ClickExport(s) ==
    /\ Is(s, "Danmaku")
    /\ LET c == sheets[s].made["Danmaku"]
       IN  Change(s, "Danmaku", [c EXCEPT !.export = ~@, !.csvEnabled = ~c.export,
                                          !.csv = IF c.export THEN FALSE ELSE @])

ClickCsv(s) ==
    /\ Is(s, "Danmaku") /\ sheets[s].made["Danmaku"].csvEnabled
    /\ Change(s, "Danmaku", [sheets[s].made["Danmaku"] EXCEPT !.csv = ~@])

(* The message loop asks only the sheet opened last whether it was closed;  *)
(* it destroys it and saves.  An earlier one stays on the screen, dead.     *)
CloseSheet(s) ==
    IF s = m_hPropSheet
    THEN sheets' = [sheets EXCEPT ![s] = Closed] /\ Save
    ELSE sheets' = [sheets EXCEPT ![s] = [Closed EXCEPT !.state = "dead"]] /\ UNCHANGED config

(* OK: the page in front is left, all pages made are applied. *)
Ok(s) ==
    /\ Open(s)
    /\ LET made == [sheets[s].made EXCEPT ![sheets[s].page] = Killed(sheets[s].page, @)]
           pages == {p \in PageNames : made[p] # NotMade}
           sets(k) == CHOOSE p \in pages : k \in KeysOf(p)
       IN  /\ Set([k \in UNION {KeysOf(p) : p \in pages} |-> Applied(sets(k), made[sets(k)])[k]])
           /\ CloseSheet(s)
    /\ UNCHANGED <<loaded, running, m_hPropSheet, visits>>

Cancel(s) ==
    /\ Open(s)
    /\ CloseSheet(s)
    /\ UNCHANGED <<inifile, loaded, running, m_hPropSheet, visits>>

(* The program ends with its windows. *)
Quit ==
    /\ Exit
    /\ sheets' = [s \in Sheets |-> Closed] /\ m_hPropSheet' = NoSheet
    /\ UNCHANGED visits

Background ==
    /\ Start \/ Reload \/ (\E c \in Colors : PickColor(c)) \/ EditConfig
    /\ UNCHANGED <<sheets, m_hPropSheet, visits>>

UserOn(s) ==
    \/ showPropertySheet(s) \/ Ok(s) \/ Cancel(s)
    \/ \E page \in PageNames : Turn(s, page)
    \/ \E text \in Listed \cup Typed : ChangeTimeZone(s, text)
    \/ \E k \in Credentials, text \in Edits : EditCredential(s, k, text)
    \/ \E n \in Levels : MoveSlider(s, n)
    \/ ClickRegex(s) \/ ClickExport(s) \/ ClickCsv(s)

Next == (\E s \in Sheets : UserOn(s)) \/ Background \/ Quit

Safety == Init /\ [][Next]_preferencesVars

-----------------------------------------------------------------------------
(* The type. *)
PreferencesTypeOK ==
    /\ SettingsTypeOK
    /\ m_hPropSheet \in Sheets \cup {NoSheet}
    /\ \A s \in Sheets :
          /\ sheets[s].state \in {"closed", "open", "dead"}
          /\ sheets[s].page \in PageNames
          /\ \A p \in PageNames : sheets[s].made[p] \in Controls(p) \cup {NotMade}
          /\ Open(s) => sheets[s].made[sheets[s].page] # NotMade
    /\ visits \in Visits

(* The credentials are sent together with every request of the user.        *)
(* Without a user id none of the others is kept, through whatever pages and *)
(* sheets, open at once, they were typed.                                   *)
CredentialsWhole ==
    \A k \in Credentials : inifile["DedeUserID"] = "" => inifile[k] \in {"", Null}

(* The CSV box says what it means only below a checked box: what a page     *)
(* shows at any time is what it will show again after OK, and OK on a page  *)
(* that shows the settings changes none (a time zone that was typed and not *)
(* picked excepted: the list then shows another).                           *)
RoundTrip ==
    /\ \A s \in Sheets, p \in PageNames :
          Open(s) /\ sheets[s].made[p] # NotMade =>
             LET c == sheets[s].made[p]
                 ini == [k \in Keys |-> IF k \in KeysOf(p) THEN Applied(p, c)[k] ELSE Null]
             IN  \/ Shown(p, ini) = c
                 \/ p = "I18N" /\ c.timeZone \in Typed
    /\ Complete(inifile) => \A p \in PageNames :
          LET set == Applied(p, Shown(p, inifile))
          IN  \A k \in KeysOf(p) : set[k] = inifile[k] \/ inifile[k] \in Typed
=============================================================================
