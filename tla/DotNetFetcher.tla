---------------------------- MODULE DotNetFetcher ----------------------------
(***************************************************************************)
(* fetch() of the .NET source (app/fetchers/dotnet.py): the releases index *)
(* and then, concurrently, the releases of every channel in it.  The tasks *)
(* share the result; a task only awaits the semaphore and its answer.      *)
(***************************************************************************)
EXTENDS FetchResults

CONSTANTS Indexes, \* the sequences of channels that releases-index.json may have
          Answers, \* channel version -> the release lists that may be answered
          MaxRequests \* MAX_CONCURRENT_REQUESTS

\* A channel names its version (or none), its latest release (or none), and
\* whether it has a releases.json.  A release is its build, Absent if nameless.
\* "malformed" is an answer that is valid JSON of another shape.
ASSUME IndexAssumption ==
  /\ MaxRequests \in Nat \ {0}
  /\ \A x \in Indexes : \A i, j \in DOMAIN x :
       /\ x[i].url => x[i].version \in DOMAIN Answers \cup {Absent}
       /\ x[i].version = x[j].version /\ x[i].version # Absent => i = j
  /\ \A c \in DOMAIN Answers : Absent \notin Answers[c]

VARIABLES stage,   \* where fetch() is
          waiting, \* places in the index whose task waits for the semaphore
          asking,  \* places whose task waits for its answer
          answered \* history: place -> what its task was answered

dotnetVars == <<stage, waiting, asking, answered>>

DotNetInit == stage = "index" /\ waiting = {} /\ asking = {} /\ answered = [i \in {} |-> <<>>]

DotNetProduct(c) == <<"dotnet", c.version>>
ReleasePatch(c, build) ==
  [product |-> DotNetProduct(c), kb |-> Absent, build |-> build, date |-> Absent, type |-> Absent]

Fallback(c) == IF c.latest = Absent THEN {} ELSE {ReleasePatch(c, c.latest)}

\* The rows of a channel whose list was answered: an empty list falls back to the
\* latest release of the index, a list of nameless releases does not.
ChannelPatches(c, list) ==
  IF list = <<>> THEN Fallback(c)
  ELSE {ReleasePatch(c, build) : build \in ToSet(list) \ {Absent}}

\* A channel without a version is passed over.
Channels(index) == {i \in DOMAIN index : index[i].version # Absent}
Asked(index)    == {i \in Channels(index) : index[i].url}

\* gather() starts the tasks in order, and each runs up to its request: the
\* products and the channels without a releases.json are in before any answer.
ReadIndex ==
  /\ stage = "index"
  /\ \E index \in Indexes :
       /\ result' = [result EXCEPT
                      !.products = @ \cup {Plain(DotNetProduct(index[i])) : i \in Channels(index)},
                      !.patches  = @ \cup UNION {Fallback(index[i]) :
                                                 i \in Channels(index) \ Asked(index)}]
       /\ waiting' = Asked(index)
       /\ walked' = index
  /\ stage' = "channels"
  /\ UNCHANGED <<asking, answered>>

IndexFails ==
  /\ stage = "index"
  /\ result' = ReportError(result, "index")
  /\ stage' = "done"
  /\ UNCHANGED <<walked, waiting, asking, answered>>

\* Semaphore.acquire: first come first served.
AskChannel ==
  /\ stage = "channels" /\ Cardinality(asking) < MaxRequests
  /\ \E i \in waiting :
       /\ \A j \in waiting : i <= j
       /\ asking' = asking \cup {i} /\ waiting' = waiting \ {i}
  /\ UNCHANGED <<result, walked, stage, answered>>

Answer(i, what) ==
  /\ asking' = asking \ {i}
  /\ answered' = [j \in DOMAIN answered \cup {i} |-> IF j = i THEN what ELSE answered[j]]

ChannelAnswers ==
  /\ stage = "channels"
  /\ \E i \in asking : \E list \in Answers[walked[i].version] :
       /\ result' = AddPatches(result, ChannelPatches(walked[i], list))
       /\ Answer(i, list)
  /\ UNCHANGED <<walked, stage, waiting>>

\* Mutant: a channel that cannot be read reports nothing else.
NoFallback(c) == {}
FailedPatches(c) == Fallback(c)

ChannelFails ==
  /\ stage = "channels"
  /\ \E i \in asking :
       /\ result' = ReportError(AddPatches(result, FailedPatches(walked[i])), DotNetProduct(walked[i]))
       /\ Answer(i, Absent)
  /\ UNCHANGED <<walked, stage, waiting>>

\* An index or a release list of another shape raises outside the try blocks:
\* gather() raises, and with it fetch(), whose result is lost.  The tasks that are
\* left write to a result nobody reads.
Malformed ==
  /\ stage = "index" \/ (stage = "channels" /\ asking # {})
  /\ stage' = "raised"
  /\ result' = NoResult /\ walked' = <<>>
  /\ waiting' = {} /\ asking' = {} /\ answered' = [i \in {} |-> <<>>]

ChannelsDone ==
  /\ stage = "channels" /\ waiting = {} /\ asking = {}
  /\ stage' = "done"
  /\ UNCHANGED <<result, walked, waiting, asking, answered>>

DotNetStep == \/ ReadIndex \/ IndexFails \/ AskChannel \/ ChannelAnswers \/ ChannelFails
              \/ Malformed \/ ChannelsDone
DotNetDone == stage \in {"done", "raised"}

-----------------------------------------------------------------------------
\* Once fetch() returns, every channel of the index is listed, with the rows of its
\* own answer in whatever order the answers came; a channel that could not be read is
\* in the errors and still shows its latest release, as does one without a list (the
\* end of _handle_channel).
EveryChannelIsReported ==
  stage = "done" =>
    \A i \in Channels(walked) :
      LET c    == walked[i]
          rows == {p.build : p \in RowsOf(DotNetProduct(c))}
          has  == i \in DOMAIN answered
          list == answered[i]
      IN /\ IsListed(DotNetProduct(c))
         /\ DotNetProduct(c) \in result.errors <=> has /\ list = Absent
         /\ has <=> c.url
         /\ rows = IF has /\ list # Absent /\ list # <<>> THEN ToSet(list) \ {Absent}
                   ELSE {c.latest} \ {Absent}
=============================================================================
