------------------------------ MODULE Dashboard ------------------------------
(***************************************************************************)
(* A page that is open in a browser while refreshes run: it polls          *)
(* /partials/status, reloads its tables when a response says that no       *)
(* refresh is running any more, and puts back what the user had done to    *)
(* the rows it replaces (app/static/js/app.js, app/routers/web.py and the  *)
(* templates).                                                             *)
(*                                                                         *)
(* htmx sends one request per element at a time; of those issued meanwhile *)
(* it keeps the last one, and htmx.ajax without a source issues from the   *)
(* body.  A response is delivered in one step, with everything its events  *)
(* call.  Requests are assumed to succeed.                                 *)
(***************************************************************************)
EXTENDS Naturals, Sequences, FiniteSets, SequencesExt

CONSTANTS Rows,      \* the products, in the order of the tables
          Hideable,  \* those the user hides and shows
          Filters,   \* the sets of products a text in the filter box leaves
          MaxVersion,  \* bound: commits of the refreshes
          MaxGestures  \* bound: what the user does

Products == ToSet(Rows)

ASSUME RowsAssumption == /\ Rows \in Seq(Products) /\ Hideable \subseteq Products
                         /\ Filters \subseteq SUBSET Products /\ Products \in Filters
ASSUME BoundAssumption == MaxVersion \in Nat /\ MaxGestures \in Nat

VARIABLES
  phase,   \* of run_all_fetchers; the lock is held unless it is "idle"
  lastRun, \* status of the run with the highest id
  version, \* commits of refreshes so far: what the tables would show now
  page,    \* the version the page shows
  hidden,  \* localStorage "patchwatch_hidden_products"
  listed,  \* products the page offers to show again (#hidden-panel)
  matches, \* the products that match the filter box
  visible, \* rows that are displayed
  open,    \* rows whose history panel is not hidden
  loaded,  \* rows whose panel holds its history, and not the placeholder
  used,    \* rows whose button has spent its "click once"
  loading, \* rows whose button's request is out
  remembered, \* patchwatchOpenHistory
  gestures, \* of the user so far
  net,     \* of each element that stays: its request, and the one queued behind it
  dropped  \* history: rows whose reopening request htmx has dropped from the queue

serverVars == <<phase, lastRun, version>>
rowVars    == <<visible, open, loaded, used, loading>>
userVars   == <<hidden, listed, matches, remembered, gestures>>
netVars    == <<net, dropped>>
vars == <<serverVars, page, rowVars, userVars, netVars>>

Elements  == {"status-bar", "body", "tables"}
RunStates == {"none", "running", "finished"}
NoRow     == "no row"

Request(what, p) == [what |-> what, row |-> p, stale |-> FALSE, stage |-> "sent",
                     run |-> "none", version |-> 0]

\* issueAjaxRequest: a busy element keeps the last request it was asked for.
Queue(q, r) == IF q = <<>> THEN <<r>> ELSE <<Head(q), r>>
Issue(n, e, r) == [n EXCEPT ![e] = Queue(@, r)]

Init ==
  /\ phase = "idle" /\ lastRun = "none" /\ version = 0 /\ page = 0
  /\ hidden = {} /\ listed = {} /\ matches = Products /\ visible = Products
  /\ open = {} /\ loaded = {} /\ used = {} /\ loading = {} /\ remembered = {}
  /\ gestures = 0 /\ dropped = {}
  /\ net = [e \in Elements |-> IF e = "status-bar" THEN <<Request("status", NoRow)>> ELSE <<>>]

-----------------------------------------------------------------------------
(* The refreshes, as far as the page can see them *)

RunMoves(from, to) == phase = from /\ phase' = to /\ UNCHANGED <<page, rowVars, userVars, netVars>>

RunStarts   == RunMoves("idle", "starting") /\ UNCHANGED <<lastRun, version>>
RunRecorded == RunMoves("starting", "working") /\ lastRun' = "running" /\ UNCHANGED version
RunCommits  == /\ RunMoves("working", "working") /\ UNCHANGED lastRun
               /\ version < MaxVersion /\ version' = version + 1
RunFinishes == RunMoves("working", "notifying") /\ lastRun' = "finished" /\ UNCHANGED version
RunReleases == RunMoves("notifying", "idle") /\ UNCHANGED <<lastRun, version>>
\* An exception out of run_all_fetchers: its row stays "running".
RunAborts   == RunMoves("working", "idle") /\ UNCHANGED <<lastRun, version>>

RunStep == RunRecorded \/ RunFinishes \/ RunReleases \/ RunAborts

-----------------------------------------------------------------------------
(* The server's side of the requests *)

Serves(e, what, stage) ==
  /\ net[e] # <<>> /\ Head(net[e]).what = what /\ Head(net[e]).stage = stage
  /\ UNCHANGED <<serverVars, page, rowVars, userVars, dropped>>

Dequeued(n, e) == [n EXCEPT ![e] = Tail(@)]
Stage(e, r)    == net' = [net EXCEPT ![e] = <<r>> \o Tail(@)]

\* status_partial reads the last run from the database, and the lock after it.
StatusReadsRun(e) ==
  /\ Serves(e, "status", "sent")
  /\ Stage(e, [Head(net[e]) EXCEPT !.stage = "half", !.run = lastRun])

\* Mutant: "not" is lost from "not running".
ReloadWhileRunning(run) == phase # "idle" /\ run = "finished"
Reload(run) == phase = "idle" /\ run = "finished"

\* Mutant: the element whose answer says so asks for the tables.
ReloadFromItself(e) == e
\* The event of an answer bubbles to the body, which #tables listens to.
ReloadFrom(e) == "tables"

\* Its answer, and the browser's: HX-Trigger patchwatch-refreshed makes #tables ask
\* for its content.  (A delay in between is one of the request of #tables.)
StatusAnswers(e) ==
  /\ Serves(e, "status", "half")
  /\ LET n == Dequeued(net, e) IN
     net' = IF Reload(Head(net[e]).run) THEN Issue(n, ReloadFrom(e), Request("tables", NoRow)) ELSE n

\* tables_partial.
TablesAnswers ==
  /\ Serves("tables", "tables", "sent")
  /\ Stage("tables", [Head(net["tables"]) EXCEPT !.stage = "answered", !.version = version])

-----------------------------------------------------------------------------
(* The browser: responses *)

Displayed(h, m) == (Products \ h) \cap m

\* Mutants: the panels are not opened again; a simulated click opens them, which a
\* button htmx has not wired up yet neither spends nor sends.
NotReopened  == <<{}, {}, {}>>
ReopenedByClick == <<remembered, {}, {}>>

\* patchwatchReopenHistory on fresh rows: the rows it opens, those whose "click
\* once" it spends, and those whose history it requests.
Reopened == <<remembered, {}, remembered>>

\* Its loop over the rows: what their requests leave in the queue q.
Asked(q, asking) ==
  LET after[i \in 0 .. Len(Rows)] ==
        IF i > 0 /\ Rows[i] \in asking THEN Queue(after[i - 1], Request("history", Rows[i]))
        ELSE IF i > 0 THEN after[i - 1]
        ELSE q
  IN  after[Len(Rows)]

\* The requests of rows that are gone deliver into detached elements.
Detached(q) == [i \in DOMAIN q |-> [q[i] EXCEPT !.stale = q[i].what = "history"]]

\* The rows on the page that patchwatchReopenHistory has a request out for.
Awaited(n) == {p \in Products : \E i \in DOMAIN n["body"] :
                 /\ n["body"][i].what = "history" /\ n["body"][i].row = p
                 /\ ~n["body"][i].stale}

\* The swap of #tables, and htmx:afterSwap.
TablesArrive ==
  /\ net["tables"] # <<>> /\ Head(net["tables"]).stage = "answered"
  /\ page' = Head(net["tables"]).version
  /\ visible' = Displayed(hidden, matches) /\ listed' = hidden
  /\ open' = Reopened[1] /\ used' = Reopened[2]
  /\ loaded' = {} /\ loading' = {}
  /\ net' = [Dequeued(net, "tables") EXCEPT !["body"] = Asked(Detached(@), Reopened[3])]
  /\ dropped' = Reopened[3] \ Awaited(net')
  /\ UNCHANGED <<serverVars, hidden, matches, remembered, gestures>>

\* product_history and its response to a request of patchwatchReopenHistory.
HistoryArrives ==
  /\ net["body"] # <<>> /\ Head(net["body"]).what = "history"
  /\ LET r == Head(net["body"]) IN loaded' = IF r.stale THEN loaded ELSE loaded \cup {r.row}
  /\ net' = Dequeued(net, "body")
  /\ UNCHANGED <<serverVars, page, visible, open, used, loading, userVars, dropped>>

\* The response to a click on a history button that is still there.
ButtonArrives ==
  /\ \E p \in loading : loading' = loading \ {p} /\ loaded' = loaded \cup {p}
  /\ UNCHANGED <<serverVars, page, visible, open, used, userVars, netVars>>

-----------------------------------------------------------------------------
(* The browser: the user and the clock *)

\* Every 20 seconds.  A poll that finds the last one out waits behind it, which
\* is the poll that follows its answer at once.
Poll ==
  /\ net["status-bar"] = <<>>
  /\ net' = Issue(net, "status-bar", Request("status", NoRow))
  /\ UNCHANGED <<serverVars, page, rowVars, userVars, dropped>>

\* A click on "refresh now" that has started a refresh asks for the status at once.
RefreshClick ==
  /\ net' = Issue(net, "body", Request("status", NoRow))
  /\ dropped' = dropped \cup (Awaited(net) \ Awaited(net'))
  /\ UNCHANGED <<serverVars, page, rowVars, hidden, listed, matches, remembered>>

\* patchwatchRefreshVisibility: a row that is not displayed has its panel collapsed.
RefreshVisibility ==
  /\ visible' = Displayed(hidden', matches') /\ listed' = hidden'
  /\ open' = open \cap visible'
  /\ UNCHANGED <<serverVars, page, loaded, used, loading, remembered, netVars>>

\* Mutant: the stored set is rebuilt from the rows on the page.
HiddenOnPage(p) == (Products \ visible) \cup {p}
WithHidden(p) == hidden \cup {p}

HideProduct ==
  /\ \E p \in Hideable \cap visible : hidden' = WithHidden(p)
  /\ UNCHANGED matches /\ RefreshVisibility
ShowProduct ==
  /\ \E p \in listed : hidden' = hidden \ {p}
  /\ UNCHANGED matches /\ RefreshVisibility
Filter ==
  /\ matches' \in Filters \ {matches}
  /\ UNCHANGED hidden /\ RefreshVisibility

\* Another page of the same browser hides or shows a product: this one is not told.
OtherTabHides == \E p \in Hideable \ hidden : hidden' = hidden \cup {p}
OtherTabShows == \E p \in hidden : hidden' = hidden \ {p}
OtherTab ==
  /\ OtherTabHides \/ OtherTabShows
  /\ UNCHANGED <<serverVars, page, rowVars, listed, matches, remembered, netVars>>

\* A click on a history button: patchwatchToggleHistory, and the first time the
\* request of its hx-get.
ToggleHistory ==
  /\ \E p \in visible :
       /\ \/ p \in open /\ open' = open \ {p} /\ remembered' = remembered \ {p}
          \/ p \notin open /\ open' = open \cup {p} /\ remembered' = remembered \cup {p}
       /\ used' = used \cup {p}
       /\ loading' = IF p \in used THEN loading ELSE loading \cup {p}
  /\ UNCHANGED <<serverVars, page, visible, loaded, hidden, listed, matches, netVars>>

-----------------------------------------------------------------------------
StatusStep == \E e \in Elements : StatusReadsRun(e) \/ StatusAnswers(e)
TablesStep == TablesAnswers \/ TablesArrive
UserStep == /\ gestures < MaxGestures /\ gestures' = gestures + 1
            /\ HideProduct \/ ShowProduct \/ Filter \/ OtherTab \/ ToggleHistory \/ RefreshClick
Next == RunStarts \/ RunCommits \/ RunStep \/ StatusStep \/ TablesStep \/ HistoryArrives
          \/ ButtonArrives \/ Poll \/ UserStep
Spec == Init /\ [][Next]_vars

\* Runs end, the browser polls every 20 seconds, and requests are answered.
FairSpec == /\ Spec /\ WF_vars(RunStep) /\ WF_vars(Poll) /\ WF_vars(TablesStep)
            /\ WF_vars(StatusReadsRun("status-bar") \/ StatusAnswers("status-bar"))

-----------------------------------------------------------------------------
(* Properties *)

Requests == [what : {"status", "tables", "history"}, row : Products \cup {NoRow},
             stale : BOOLEAN, stage : {"sent", "half", "answered"}, run : RunStates,
             version : 0 .. MaxVersion]

MayAsk == [e \in Elements |-> IF e = "body" THEN {"status", "history"}
                               ELSE IF e = "tables" THEN {"tables"} ELSE {"status"}]

\* The rows' state has its types; an element has at most one request out and behind
\* it one that has not been sent; #tables and #status-bar ask for their own content
\* only, and the body for the status and for the histories of products.
TypeOK ==
  /\ phase \in {"idle", "starting", "working", "notifying"} /\ lastRun \in RunStates
  /\ version \in 0 .. MaxVersion /\ page \in 0 .. MaxVersion
  /\ \A s \in {hidden, listed, matches, visible, open, loaded, used, loading, remembered, dropped} :
       s \subseteq Products
  /\ net \in [Elements -> Seq(Requests)]
  /\ \A e \in Elements :
       /\ Len(net[e]) <= 2 /\ (Len(net[e]) = 2 => net[e][2].stage = "sent")
       /\ \A i \in DOMAIN net[e] : /\ net[e][i].what \in MayAsk[e]
                                   /\ net[e][i].what = "history" => net[e][i].row \in Products

\* No step changes more of the stored set than one product, and one leaves it only by
\* a "show": here, where its row comes back unless the filter hides it, or in another
\* page of the browser (getHiddenProducts, setHiddenProducts: both pages read, change
\* and write the whole set).
HidesAreKept ==
  [][hidden' # hidden =>
       \E p \in Products :
         \/ hidden' = hidden \cup {p}
         \/ /\ hidden' = hidden \ {p}
            /\ p \in visible' \cup (Products \ matches) \/ UNCHANGED rowVars]_vars

\* The rows on the page never forget the open panels: a swap of the tables in the
\* background collapses none (patchwatchOpenHistory).
PanelsSurviveSwap == [][TablesArrive => open \subseteq open']_vars

\* Whose panel is open has its history or a request out for it, whatever swaps and
\* answers to rows that are gone come in between, unless htmx has dropped the request
\* from the body's queue; and a button that has spent its "click once" always does
\* (patchwatchReopenHistory: once a simulated click opened rows and asked for nothing).
NoPanelIsStuck ==
  /\ used \subseteq loaded \cup loading
  /\ open \subseteq loaded \cup loading \cup Awaited(net) \cup dropped

\* "Re-opens (and re-fetches ...) every history panel that was open before": once
\* its requests are through, every open panel holds its history.
PanelsAreRefetched == net["body"] = <<>> /\ loading = {} => open \subseteq loaded

\* "Newly found patches show up without a manual page refresh" (status_partial)
\* once their run has finished, unless the next one starts.
NewPatchesShowUp ==
  \A v \in 1 .. MaxVersion :
    (version >= v /\ lastRun = "finished") ~> (page >= v \/ lastRun # "finished")
=============================================================================
