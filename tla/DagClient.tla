------------------------------ MODULE DagClient ------------------------------
(***************************************************************************)
(* Who submits a graph, and what is checked before the engine sees it.     *)
(* The web gateway builds its request with DagBuilder, which looks for a   *)
(* cycle by depth-first search (src/client/src/dag_builder.cpp); the       *)
(* command line tool sorts topologically before it sends                   *)
(* (src/dts-cli/pkg/dag/validator.go); any other client sends what it      *)
(* likes, for the server checks nothing.  An accepted graph goes to the    *)
(* engine of DagEngine.                                                    *)
(*                                                                         *)
(* Both look at the children of a task in the order of the request, and    *)
(* take their starting points from a map: any order is possible here.      *)
(* Requests that both refuse before they look at the graph (an edge to a   *)
(* task that is not there, an empty key) are left out.                     *)
(***************************************************************************)
EXTENDS DagEngine, Sequences

CONSTANT Submitted  \* bound: of the accepted graphs, those that are also sent

ASSUME DagClientAssumption == Submitted \subseteq Graphs

VARIABLES
  client,  \* whose request it is, and then what became of it
  visited, \* DagBuilder: 0 unvisited, 1 visiting, 2 visited
  stack,   \* DagBuilder: active calls of HasCycleDFS, the innermost first
  kahn     \* Validate: inDegree, the queue, processedCount

clientVars == <<client, visited, stack, kahn>>
allVars    == <<vars, clientVars>>

Validators == {"builder", "cli"}

Unvisited == [t \in Task |-> 0]
Indegrees == [t \in Task |-> Cardinality(Parents(t))]
NotBegun  == [inDegree |-> Unvisited, queue |-> {}, processed |-> 0]

ClientInit ==
  /\ Init
  /\ client \in Validators \cup {"other"}
  /\ client = "other" => edges \in Submitted
  /\ visited = Unvisited
  /\ stack = <<>>
  /\ kahn = IF client = "cli"
            THEN [inDegree |-> Indegrees, processed |-> 0,
                  queue |-> {t \in Task : Indegrees[t] = 0}]
            ELSE NotBegun

-----------------------------------------------------------------------------
(* A variant with a bug, used to test VerdictExact. *)
BugBackEdge(v) == visited[v] # 0

-----------------------------------------------------------------------------
(* The verdict; the local variables of the search are gone with it. *)

Verdict(v) == /\ client' = v
              /\ visited' = Unvisited /\ stack' = <<>> /\ kahn' = NotBegun

Accept == Verdict(IF edges \in Submitted THEN "sent" ELSE "built")
Refuse == Verdict("refused")

-----------------------------------------------------------------------------
(* DagBuilder: AddDependency, then ValidateCycle and HasCycleDFS.          *)

Loop(t) == <<t, t>> \in edges

\* AddDependency throws on the first edge from a task to itself.
AddDependencyThrows ==
  /\ client = "builder"
  /\ \E t \in Task : Loop(t)
  /\ Refuse
  /\ UNCHANGED vars

Visit(u) == /\ visited' = [visited EXCEPT ![u] = 1]
            /\ stack' = <<[node |-> u, rest |-> Children(u)]>> \o stack

\* ValidateCycle: the next task that no search has reached.
StartSearch(u) ==
  /\ client = "builder" /\ ~\E t \in Task : Loop(t)
  /\ stack = <<>>
  /\ visited[u] = 0
  /\ Visit(u)
  /\ UNCHANGED <<vars, client, kahn>>

\* One turn of the loop over the children of u, the innermost call.
Looking(v) == client = "builder" /\ stack # <<>> /\ v \in Head(stack).rest

\* A child that is being visited: this is a cycle.
BackEdge(v) == visited[v] = 1

FindCycle(v) ==
  /\ Looking(v)
  /\ BackEdge(v)
  /\ Refuse
  /\ UNCHANGED vars

\* The loop of the caller goes on after v once the call for v has returned.
Descend(v) ==
  /\ Looking(v)
  /\ ~BackEdge(v) /\ visited[v] = 0
  /\ visited' = [visited EXCEPT ![v] = 1]
  /\ stack' = <<[node |-> v, rest |-> Children(v)],
                [Head(stack) EXCEPT !.rest = @ \ {v}]>> \o Tail(stack)
  /\ UNCHANGED <<vars, client, kahn>>

SkipVisited(v) ==
  /\ Looking(v)
  /\ ~BackEdge(v) /\ visited[v] = 2
  /\ stack' = <<[Head(stack) EXCEPT !.rest = @ \ {v}]>> \o Tail(stack)
  /\ UNCHANGED <<vars, client, visited, kahn>>

ReturnFromSearch ==
  /\ stack # <<>> /\ Head(stack).rest = {}
  /\ visited' = [visited EXCEPT ![Head(stack).node] = 2]
  /\ stack' = Tail(stack)
  /\ UNCHANGED <<vars, client, kahn>>

\* Every task is visited: BuildProto fills in the request.
BuildProto ==
  /\ client = "builder"
  /\ stack = <<>> /\ \A t \in Task : visited[t] = 2
  /\ Accept
  /\ UNCHANGED vars

-----------------------------------------------------------------------------
(* The command line tool: Kahn's algorithm.                                *)

\* The children of a popped task that it was the last open parent of.
Freed(inDegree) == {t \in Task : inDegree[t] = 0}

Pop(t) ==
  /\ client = "cli"
  /\ t \in kahn.queue
  /\ LET left == [u \in Task |-> kahn.inDegree[u] - (IF u \in Children(t) THEN 1 ELSE 0)]
     IN  kahn' = [inDegree |-> left,
                  queue |-> (kahn.queue \ {t}) \cup (Freed(left) \cap Children(t)),
                  processed |-> kahn.processed + 1]
  /\ UNCHANGED <<vars, client, visited, stack>>

AllProcessed == kahn.processed = Cardinality(Task)

Validated ==
  /\ client = "cli"
  /\ kahn.queue = {}
  /\ IF AllProcessed THEN Accept ELSE Refuse
  /\ UNCHANGED vars

-----------------------------------------------------------------------------
\* A client that checks nothing.
SendUnchecked == client = "other" /\ Accept /\ UNCHANGED vars

Submit == \/ AddDependencyThrows \/ ReturnFromSearch \/ BuildProto
          \/ \E t \in Task : \/ StartSearch(t) \/ FindCycle(t)
                             \/ Descend(t) \/ SkipVisited(t) \/ Pop(t)
          \/ Validated \/ SendUnchecked

\* The engine, once there is a request.
Sent             == client = "sent" /\ UNCHANGED clientVars
RunPipeline      == Sent /\ Pipeline
ReportSuccess(t) == Sent /\ CompleteTask(t)
LosePipeline     == Sent /\ PipelineBreaks
ExpireKey        == Sent /\ (ExpireDeps \/ \E t \in Task : ExpireChildren(t) \/ ExpireMeta(t))

ClientNext == \/ Submit
              \/ RunPipeline \/ LosePipeline \/ ExpireKey
              \/ \E t \in Task : ReportSuccess(t)

ClientSpec == ClientInit /\ [][ClientNext]_allVars

\* The client runs on; the engine as in DagEngine!FairSpec.
FairClientSpec == /\ ClientSpec
                  /\ WF_allVars(Submit)
                  /\ WF_allVars(RunPipeline)
                  /\ \A t \in Task : WF_allVars(ReportSuccess(t))

-----------------------------------------------------------------------------
\* Whatever the order of their maps, the depth-first search of DagBuilder and
\* the topological sort of the command line tool refuse a graph if and only if
\* it has a cycle (dag_builder.cpp:127 and validator.go:74): a diamond is not
\* one, and a cycle that is not reachable from the first start is found.
VerdictExact ==
  [][client' # client /\ client \in Validators
       => (client' = "refused" <=> ~Acyclic)]_allVars

\* An acyclic job that is submitted, through whichever client, gets past its
\* check and, if every message is eventually reported, runs to the end of its
\* DAG, unless an entry in the error stream says why not, the connection broke
\* in the middle of the pipeline or a key expired.
JobRunsOut ==
  edges \in Submitted /\ Acyclic =>
    <>(completed = Task \/ errors # {} \/ phase = "broken" \/ expired)
===============================================================================
