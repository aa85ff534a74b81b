---------------------------- MODULE MCSourceLoop ----------------------------
(* A small instance of SourceLoop: the one of MCMsrcFetcher, and pages,     *)
(* versions and channels in every order the walks can tell apart.           *)
EXTENDS SourceLoop, MCMsrcFetcher

CONSTANTS absent, ended

-----------------------------------------------------------------------------
\* "Version 22H2", "Version 1809", "Windows Server 2019 (version 1809)", and
\* the cells "2019 (1809)" and "LTSC 2019 (1809)".
Heading == [edition |-> absent, half |-> absent, old |-> absent, server |-> absent,
            paren |-> absent, number |-> absent, text |-> absent, ltsc |-> FALSE]
Os(text) == [Heading EXCEPT !.text = text]
V22H2    == [Heading EXCEPT !.half = "22H2", !.text = "version 22h2"]
V1809    == [Heading EXCEPT !.old = "1809", !.number = "1809", !.text = "version 1809"]
Ltsc1809 == [Heading EXCEPT !.edition = "ltsc-2019", !.paren = "1809", !.number = "2019",
                            !.text = "ltsc 2019 (1809)", !.ltsc = TRUE]
Server   == [Heading EXCEPT !.old = "1809", !.server = "2019", !.number = "2019", !.text = "server 2019"]

H2(section)     == [kind |-> "h2", section |-> section]
Label(heading)  == [kind |-> "label", heading |-> heading]
Table(columns, mentions, rows) ==
  [kind |-> "table", columns |-> columns, mentions |-> mentions, rows |-> rows]

Tells(version, extended, updates) ==
  [version |-> version, extended |-> extended, updates |-> updates]
Sac == Table({"version"}, {}, <<Tells(V22H2, absent, {1, 2}), Tells(Ltsc1809, absent, {ended, absent}),
                                Tells(absent, absent, {3})>>)
Extended == Table({"version", "extended_support_end_date"}, {},
                  <<Tells(Ltsc1809, 3, {}), Tells(Server, 2, {}), Tells(V1809, absent, {})>>)
Ended    == Table({"version"}, {}, <<Tells(V22H2, absent, {3}), Tells(V22H2, absent, {ended})>>)
Unnamed  == Table({"edition"}, {}, <<>>)

Update_(kb, build, type, ltsc, short) ==
  [kb |-> kb, build |-> build, date |-> 1, type |-> type, ltsc |-> ltsc, short |-> short]
Words == {"kb_article", "build"}
Full == Table({"servicing_option", "availability_date", "build", "kb_article"}, Words,
              <<Update_("k1", "b1", {"B"}, FALSE, FALSE), Update_(absent, "b2", {"OOB", "C-Z"}, FALSE, FALSE),
                Update_(absent, absent, {"C-Z"}, TRUE, FALSE), Update_("k3", absent, {}, FALSE, TRUE)>>)
KbOnly == Table({"availability_date", "kb_article"}, Words,
                <<Update_("k4", "b4", {"PREVIEW"}, FALSE, FALSE), Update_(absent, "b5", {}, FALSE, FALSE)>>)
Undated == Table({"build", "kb_article"}, Words, <<Update_("k6", "b6", {"B"}, FALSE, FALSE)>>)
Other   == Table({}, {}, <<>>)

Summary == {Sac, Extended, Ended, Unnamed}
History == {Label(V22H2), Label(V1809), Label(Ltsc1809), Full, KbOnly, Other}
MCPages        == <<"winsrv", "win10">>
MCOsHeading    == ("win10" :> Os("windows 10")) @@ ("winsrv" :> Os("windows server"))
MCPageElements ==
  ("win10" :> <<{H2("summary")}, Summary, Summary \cup {Label(V22H2)}, {H2("history"), H2("none")},
                History, History, History \cup {H2("history"), Extended}>>)
  @@ ("winsrv" :> <<{H2("history")}, {Label(Server)}, {Full, Undated}>>)

-----------------------------------------------------------------------------
Track(track)   == [kind |-> "h2", track |-> track]
Builds_(rows)  == [kind |-> "builds", rows |-> rows]
Row_(kb, build, link, short) ==
  [kb |-> kb, build |-> build, date |-> 1, link |-> link, short |-> short]
SqlParts == {Track("gdr"), Track("cu"), [kind |-> "other"],
                Builds_(<<Row_("k1", "b1", "joined", FALSE), Row_(absent, "b2", absent, FALSE)>>),
                Builds_(<<Row_("k3", absent, "joined", TRUE), Row_("k3", "b3", "malformed", TRUE),
                          Row_("k4", "b4", "joined", FALSE)>>),
                Builds_(<<Row_(absent, absent, absent, FALSE), Row_("k5", "b5", "joined", FALSE),
                          Row_("k6", "b6", "malformed", FALSE), Row_("k7", "b7", "joined", FALSE)>>)}
MCVersions        == <<2022, 2019>>
MCVersionElements == (2022 :> [i \in 1 .. 4 |-> SqlParts]) @@ (2019 :> <<SqlParts>>)

-----------------------------------------------------------------------------
Channel(version, url, latest) == [version |-> version, url |-> url, latest |-> latest]
MCIndexes == {<<>>, <<Channel("9", TRUE, "9.1"), Channel("8", TRUE, "8.2"), Channel(absent, TRUE, "x"),
                      Channel("7", TRUE, absent), Channel("1", FALSE, "1.1")>>}
MCAnswers == ("9" :> {<<"9.1", "9.0">>, <<>>}) @@ ("8" :> {<<absent>>, <<"8.2", absent>>})
             @@ ("7" :> {<<"7.0">>, <<>>})
=============================================================================
