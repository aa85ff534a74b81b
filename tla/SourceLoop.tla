----------------------------- MODULE SourceLoop -----------------------------
(***************************************************************************)
(* The sources in the order of app/fetchers/registry.py, each awaited to   *)
(* its end by the loop of run_all_fetchers (app/refresh_service.py) before *)
(* the next one starts.  What the loop then writes is RefreshPipeline's.   *)
(***************************************************************************)
EXTENDS MsrcFetcher, ReleaseHealthFetcher, DotNetFetcher, SqlServerFetcher

VARIABLES source, \* the source the loop is at
          raised  \* the sources whose fetch() raised

Sources == <<"windows-release-health", "msrc", "dotnet-core", "sql-server">>

pageVars   == <<result, scan, walked>>
loopVars   == <<vars, pageVars, dotnetVars, source, raised>>

LoopInit == /\ Init /\ DotNetInit
            /\ result = NoResult /\ scan = NoScan /\ walked = <<>>
            /\ source = 1 /\ raised = {}

At(name) == source <= Len(Sources) /\ Sources[source] = name

ReleaseHealth == /\ At("windows-release-health") /\ ReleaseHealthStep
                 /\ UNCHANGED <<vars, dotnetVars, source, raised>>
Msrc          == /\ At("msrc") /\ Step
                 /\ UNCHANGED <<pageVars, dotnetVars, source, raised>>
DotNet        == /\ At("dotnet-core") /\ DotNetStep
                 /\ UNCHANGED <<vars, scan, source, raised>>
SqlServer     == /\ At("sql-server") /\ SqlServerStep
                 /\ UNCHANGED <<vars, dotnetVars, source, raised>>

\* Mutant: the loop waits for a source that has raised.
NeverRaised == \/ At("windows-release-health") /\ ReleaseHealthDone
               \/ At("msrc") /\ pc = "done"
               \/ At("dotnet-core") /\ stage = "done"
               \/ At("sql-server") /\ SqlServerDone
Returned == \/ At("windows-release-health") /\ ReleaseHealthDone
            \/ At("msrc") /\ MsrcDone
            \/ At("dotnet-core") /\ DotNetDone
            \/ At("sql-server") /\ SqlServerDone

\* The caller takes the result, and the locals of fetch() are gone.
Forgotten ==
  /\ pc' = "list" /\ at' = 1
  /\ products' = {} /\ patches' = {} /\ hints' = None /\ errors' = 0
  /\ kbDates' = None /\ met' = None /\ queued' = {} /\ inFlight' = {} /\ seen' = {}
  /\ docs' = None /\ read' = None
  /\ stage' = "index" /\ waiting' = {} /\ asking' = {} /\ answered' = [i \in {} |-> <<>>]
  /\ result' = NoResult /\ scan' = NoScan /\ walked' = <<>>

\* A fetch() that raised is recorded and the loop goes on.
NextSource ==
  /\ Returned
  /\ source' = source + 1
  /\ raised' = IF pc = "raised" \/ stage = "raised" THEN raised \cup {Sources[source]} ELSE raised
  /\ Forgotten

LoopStep == ReleaseHealth \/ Msrc \/ DotNet \/ SqlServer \/ NextSource
LoopSpec == LoopInit /\ [][LoopStep]_loopVars

\* The loop awaits every fetch(), and every request ends (EveryRequestEnds of
\* HttpTransport).
FairLoopSpec == LoopSpec /\ WF_loopVars(LoopStep)

-----------------------------------------------------------------------------
\* While the release health pages are read: every row is reported for the version whose
\* heading stands directly before its table (_fetch_page of windows_release_health.py).
RowsFollowTheirHeading == At("windows-release-health") => ReleaseRowsFollowTheirHeading

\* A product's support ends when its page last said so before the product's table
\* (_parse_summary_table, eol_by_code).
SupportEndsWhenLastSaid == At("windows-release-health") => EndOfLifeIsTheLastSaid

\* Every channel of the index has its rows or its latest release, whatever order the
\* answers come in and whichever of them fail (_handle_channel of dotnet.py).
ChannelsAreReported == At("dotnet-core") => EveryChannelIsReported

\* Every version of SQL Server is listed or in the errors, with the rows read before
\* its page broke off (_fetch_version of sql_server.py).
VersionsAreAccountedFor == At("sql-server") => EveryVersionIsAccountedFor

\* Every fetch() ends and the loop comes to its end, whatever could not be read and
\* whichever source raises (the try around each fetch() in run_all_fetchers).
EverySourceIsReached == <>(source > Len(Sources))
=============================================================================
