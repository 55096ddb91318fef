----------------------------- MODULE MCCommands -----------------------------
(* Small instances of Commands for TLC.  "wire" is a key that no page and   *)
(* no menu sets, like the end points; an empty config.ini comes of Save().  *)
EXTENDS Commands

MCDefault == [wire |-> "w", color |-> "white", timeZone |-> "system", filterDanmaku |-> "3",
              filterRegex |-> "off", autoExport |-> "csv", DedeUserID |-> "",
              DedeUserID__ckMd5 |-> "", SESSDATA |-> ""]
MCKeys == DOMAIN MCDefault
MCContents == {Missing, Unreadable, File([Empty EXCEPT !["wire"] = "other"])}
MCFinds == [t \in Typed |-> "zone"]
MCVisits == {{"I18N"}, {"Session"}, {"Danmaku"}, {}}
MCOffers == {<<>>, <<"red">>, <<"white", "red">>}
=============================================================================
