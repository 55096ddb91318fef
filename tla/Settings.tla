------------------------------ MODULE Settings ------------------------------
(***************************************************************************)
(* bili-settings: the settings in memory and config.ini.                   *)
(*                                                                         *)
(* The header defines its CSimpleIni objects static, so each source file   *)
(* that includes it has its own: Load and Save work on the one of          *)
(* bili-settings-file.cpp, Get and Set on the one of bili-settings.cpp.    *)
(* SetDefault, in the former, also calls Get and Set.                      *)
(***************************************************************************)
EXTENDS Integers, FiniteSets

CONSTANTS
    Keys,         \* the keys, with their sections
    Default,      \* what the table of Load() gives to the keys it knows
    Values,       \* strings a key may have
    Contents,     \* what config.ini may hold when the program or an editor comes to it
    Colors        \* what the colour menu offers

Null == "null"                  \* what GetValue gives for a key that is not there
Empty == [k \in Keys |-> Null]  \* an object, or a file, without a key
Inis == [Keys -> Values \cup {Null}]
File(ini) == [is |-> "ini", ini |-> ini]
Missing == [is |-> "missing", ini |-> Empty]          \* there is no config.ini
Unreadable == [is |-> "unreadable", ini |-> Empty]    \* it is not UTF-8
IsFile(c) == c \in {Missing, Unreadable} \/ (c = File(c.ini) /\ c.ini \in Inis)
Known == DOMAIN Default

ASSUME SettingsBounds ==
    /\ Null \notin Values
    /\ Known \subseteq Keys /\ Default \in [Known -> Values]
    /\ \A c \in Contents : IsFile(c)
    /\ "color" \in Known /\ Colors \subseteq Values

VARIABLES
    inifile,      \* the object of bili-settings.cpp
    loaded,       \* the object of bili-settings-file.cpp
    config,       \* config.ini
    running       \* the program has done its first Load()

settingsVars == <<inifile, loaded, config, running>>

SettingsInit ==
    /\ inifile = Empty /\ loaded = Empty
    /\ config \in Contents
    /\ running = FALSE

-----------------------------------------------------------------------------
LoadFile == CASE config = Missing -> "SI_FILE"
              [] config = Unreadable -> "SI_FAIL"
              [] OTHER -> "SI_OK"

(* Mutant: defaults go over what is there. *)
DefaultedAlways(ini, result) ==
    IF result = "SI_FAIL" THEN ini
    ELSE [k \in Keys |-> IF k \in Known THEN Default[k] ELSE ini[k]]

(* Mutant: any error of LoadFile ends the chain, a missing file's too. *)
DefaultedFound(ini, result) ==
    IF result # "SI_OK" THEN ini
    ELSE [k \in Keys |-> IF k \in Known /\ ini[k] = Null THEN Default[k] ELSE ini[k]]

(* The chain of SET_DEFAULTs, which SI_FAIL ends; no SetDefault fails.      *)
Defaulted(ini, result) ==
    IF result = "SI_FAIL" THEN ini
    ELSE [k \in Keys |-> IF k \in Known /\ ini[k] = Null THEN Default[k] ELSE ini[k]]

(* The file is read while the object that is to hold it is empty.           *)
Load ==
    /\ IF loaded = Empty
       THEN /\ loaded' = IF LoadFile = "SI_OK" THEN config.ini ELSE loaded
            /\ inifile' = Defaulted(inifile, LoadFile)
       ELSE UNCHANGED <<loaded, inifile>>
    /\ UNCHANGED config

(* livemaid.cpp, before the window is made. *)
Start == ~running /\ running' = TRUE /\ Load

(* The request functions load again before each use of a setting. *)
Reload == running /\ Load /\ UNCHANGED running

(* Set of several keys at once. *)
Set(values) ==
    inifile' = [k \in Keys |-> IF k \in DOMAIN values THEN values[k] ELSE inifile[k]]

Save == config' = File(loaded)

(* Get's answers can be made strings of; a null pointer among them ends in  *)
(* undefined behaviour, of which the model takes no step.                   *)
Complete(ini) == \A k \in Known : ini[k] # Null

(* The colour menu, whose colours come from the web service. *)
PickColor(c) ==
    /\ running /\ Complete(inifile)
    /\ Set([k \in {"color"} |-> c])
    /\ Save
    /\ UNCHANGED <<loaded, running>>

(* Someone edits config.ini, or deletes it. *)
EditConfig ==
    /\ config' \in Contents
    /\ UNCHANGED <<inifile, loaded, running>>

Exit ==
    /\ running /\ running' = FALSE
    /\ inifile' = Empty /\ loaded' = Empty
    /\ UNCHANGED config

SettingsNext == Start \/ Reload \/ (\E c \in Colors : PickColor(c)) \/ EditConfig \/ Exit

-----------------------------------------------------------------------------
SettingsTypeOK ==
    /\ inifile \in Inis /\ loaded \in Inis
    /\ IsFile(config)
    /\ running \in BOOLEAN

(* Callers make strings of what Get answers without looking for a null      *)
(* pointer.  After a Load() that has read config.ini, now or earlier, or    *)
(* found none, every key of the table has a value.                          *)
DefaultsComplete ==
    [][(Start \/ Reload) /\ (loaded # Empty \/ config # Unreadable) => Complete(inifile')]_settingsVars

(* What is set stays set: Load(), which runs before every request, never    *)
(* goes over it, whatever has become of config.ini meanwhile.               *)
ChosenStays ==
    [][(Start \/ Reload) => \A k \in Keys : inifile[k] # Null => inifile'[k] = inifile[k]]_settingsVars

(* livemaid.cpp:28 calls the first Load() "Load Initial Settings.": the     *)
(* settings in config.ini are those Get answers with.                       *)
InitialSettings ==
    [][Start /\ LoadFile = "SI_OK" =>
        \A k \in Keys : config.ini[k] # Null => inifile'[k] = config.ini[k]]_settingsVars
=============================================================================
