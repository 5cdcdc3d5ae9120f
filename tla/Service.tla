------------------------------ MODULE Service ------------------------------
(***************************************************************************)
(* The HTTP service of one node (src/src/main.rs, run_coordinator and      *)
(* run_robot with their handlers) and its counters (src/src/metrics.rs).   *)
(*                                                                         *)
(* Handlers run at the same time.  A handler counts its request, waits for *)
(* the one mutex around the Coordinator or RobotRuntime, works while it    *)
(* has it, gives it back and then counts the outcome.  The mutex is the    *)
(* only point at which a handler awaits: a client that hangs up there      *)
(* takes its handler with it, later the handler runs to its end.  GET      *)
(* /metrics takes no mutex and reads one counter after the other.          *)
(*                                                                         *)
(* What a handler does under the mutex is the subject of Coordinator and   *)
(* RobotRuntime; here it is a decision and an effect, two steps, because   *)
(* it is the mutex that keeps other handlers from between them.            *)
(***************************************************************************)
EXTENDS Integers, Sequences, FiniteSets

CONSTANTS MaxRequests, \* bound on the requests of a run
          MaxElapsed   \* bound on the microseconds that issuing a token takes

VARIABLES role,      \* "coordinator" or "robot", the same for ever
          route,     \* what each request asks for
          at,        \* how far the handler of each request is
          waiting,   \* who waits for the mutex, in the order of arrival
          holder,    \* who has it
          result,    \* what the handler will reply
          emergency_stop,
          metrics,   \* struct Metrics
          shown,     \* what a GET /metrics has read so far
          serving,   \* "up", "stopping" after Ctrl-C, "down"
          acted,     \* history: who called the skill adapter or got a token
          atStart    \* history: the counters when a GET /metrics began

mutex == <<waiting, holder>>
node == <<result, emergency_stop, acted>>
counters == <<metrics, shown, atStart>>
vars == <<role, route, at, mutex, node, counters, serving>>

ASSUME ServiceAssumption == MaxRequests \in Nat /\ MaxElapsed \in Nat

-----------------------------------------------------------------------------
\* requests are numbered in the order in which they arrive
Request == 1..MaxRequests
Nobody == 0

\* assign stands for enroll and revoke too, whose handlers are the same
Routes == [coordinator |-> {"tokens", "assign", "status", "metrics"},
           robot       |-> {"execute", "stop", "clear", "status", "metrics"}]

Code == {"EMERGENCY_STOP_ACTIVE", "INTERNAL_ERROR", "OTHER"}

\* struct Metrics, in the order in which render reads it
Counter == <<"requests", "issued", "latency", "executions", "rejections">>

Metrics == [requests : Nat, issued : Nat, latency : Nat, executions : Nat,
            rejections : [Code -> Nat]]

NoMetrics == [requests |-> 0, issued |-> 0, latency |-> 0, executions |-> 0,
              rejections |-> [c \in Code |-> 0]]

TypeOK ==
  /\ role \in DOMAIN Routes
  /\ route \in [Request -> Routes[role] \cup {"none"}]
  /\ at \in [Request -> {"new", "waits", "holds", "works", "counts", "times",
                         "reads", "answered", "gone"}]
  /\ waiting \in Seq(Request)
  /\ holder \in Request \cup {Nobody}
  /\ result \in [Request -> Code \cup {"none", "Ok"}]
  /\ emergency_stop \in BOOLEAN
  /\ metrics \in Metrics /\ atStart \in [Request -> Metrics]
  /\ \A q \in Request : \A i \in DOMAIN shown[q] :
       shown[q][i] \in IF Counter[i] = "rejections" THEN [Code -> Nat] ELSE Nat
  /\ serving \in {"up", "stopping", "down"}
  /\ acted \subseteq Request

Init ==
  /\ role \in DOMAIN Routes
  /\ route = [q \in Request |-> "none"]
  /\ at = [q \in Request |-> "new"]
  /\ waiting = << >>
  /\ holder = Nobody
  /\ result = [q \in Request |-> "none"]
  /\ emergency_stop = FALSE
  /\ metrics = NoMetrics
  /\ shown = [q \in Request |-> << >>]
  /\ serving = "up"
  /\ acted = {}
  /\ atStart = [q \in Request |-> NoMetrics]

-----------------------------------------------------------------------------
Goes(q, from, to) == at[q] = from /\ at' = [at EXCEPT ![q] = to]

Accept(q, r) ==
  /\ serving = "up"
  /\ \A p \in 1..(q - 1) : at[p] # "new"
  /\ route' = [route EXCEPT ![q] = r]

\* metrics.request(), then the handler takes its place at the mutex
Arrive(q) ==
  /\ \E r \in Routes[role] \ {"metrics"} : Accept(q, r)
  /\ Goes(q, "new", "waits")
  /\ metrics' = [metrics EXCEPT !.requests = @ + 1]
  /\ waiting' = Append(waiting, q)
  /\ UNCHANGED <<role, holder, node, shown, atStart, serving>>

\* faulty variant of HangUp: the dropped handler keeps its place
HangUpKeepsPlace(q) ==
  /\ Goes(q, "waits", "gone")
  /\ UNCHANGED <<role, route, mutex, node, counters, serving>>

Without(line, i) == [j \in 1..(Len(line) - 1) |-> line[IF j < i THEN j ELSE j + 1]]

\* the client of q closes the connection and the handler is dropped
HangUp(q) ==
  /\ Goes(q, "waits", "gone")
  /\ \E i \in DOMAIN waiting : waiting[i] = q /\ waiting' = Without(waiting, i)
  /\ UNCHANGED <<role, route, holder, node, counters, serving>>

Lock(q) ==
  /\ holder = Nobody
  /\ waiting # << >> /\ Head(waiting) = q
  /\ Goes(q, "waits", "holds")
  /\ waiting' = Tail(waiting)
  /\ holder' = q
  /\ UNCHANGED <<role, route, node, counters, serving>>

-----------------------------------------------------------------------------
Switches(q) == route[q] \in {"stop", "clear"}

\* what a handler that has the mutex may come to
Decisions(q) ==
  CASE route[q] = "execute" -> IF emergency_stop THEN {"EMERGENCY_STOP_ACTIVE"}
                               ELSE {"Ok", "INTERNAL_ERROR", "OTHER"}
    [] route[q] \in {"tokens", "assign"} -> {"Ok", "INTERNAL_ERROR", "OTHER"}
    [] Switches(q)                       -> {"Ok", "INTERNAL_ERROR"}
    [] route[q] = "status"               -> {"Ok"}

\* faulty variant of Decide: the mutex is only held for the checks
DecideAndUnlock(q) ==
  /\ Goes(q, "holds", "works")
  /\ \E decision \in Decisions(q) : result' = [result EXCEPT ![q] = decision]
  /\ emergency_stop' = IF Switches(q) THEN route[q] = "stop" ELSE emergency_stop
  /\ holder' = Nobody
  /\ UNCHANGED <<role, route, waiting, acted, counters, serving>>

\* the checks of execute; set_emergency_stop sets the flag before it saves
Decide(q) ==
  /\ Goes(q, "holds", "works")
  /\ \E decision \in Decisions(q) : result' = [result EXCEPT ![q] = decision]
  /\ emergency_stop' = IF Switches(q) THEN route[q] = "stop" ELSE emergency_stop
  /\ UNCHANGED <<role, route, mutex, acted, counters, serving>>

\* the outcomes that a handler counts; a stop that fails is not among them
IsCounted(q) ==
  \/ route[q] \in {"tokens", "execute"}
  \/ route[q] = "assign" /\ result[q] # "Ok"

\* an execution acts when it succeeds and may have acted when it fails to save
Acts(q) ==
  IF route[q] # "execute" THEN {FALSE}
  ELSE CASE result[q] = "Ok"             -> {TRUE}
         [] result[q] = "INTERNAL_ERROR" -> BOOLEAN
         [] OTHER                        -> {FALSE}

\* the work is done and the mutex is free again
Finish(q) ==
  /\ Goes(q, "works", IF IsCounted(q) THEN "counts" ELSE "answered")
  /\ \E does \in Acts(q) : acted' = IF does THEN acted \cup {q} ELSE acted
  /\ holder' = Nobody
  /\ UNCHANGED <<role, route, waiting, result, emergency_stop, counters, serving>>

-----------------------------------------------------------------------------
(***************************************************************************)
(* Metrics.  Every fetch_add and every load is a step.                     *)
(***************************************************************************)

\* faulty variant of CountRejection: the label is the message, not the code
CountRejectionByMessage(q) ==
  /\ result[q] # "Ok"
  /\ Goes(q, "counts", "answered")
  /\ metrics' = [metrics EXCEPT !.rejections =
                   [c \in DOMAIN @ \cup {"sequence-gap"} |-> IF c \in DOMAIN @ THEN @[c] ELSE 1]]
  /\ UNCHANGED <<role, route, mutex, node, shown, atStart, serving>>

\* faulty variant of CountRejection: the request is counted once more
CountRejectionTwice(q) ==
  /\ result[q] # "Ok"
  /\ Goes(q, "counts", "answered")
  /\ metrics' = [metrics EXCEPT !.rejections[result[q]] = @ + 1, !.requests = @ + 1]
  /\ UNCHANGED <<role, route, mutex, node, shown, atStart, serving>>

CountRejection(q) ==
  /\ result[q] # "Ok"
  /\ Goes(q, "counts", "answered")
  /\ metrics' = [metrics EXCEPT !.rejections[result[q]] = @ + 1]
  /\ UNCHANGED <<role, route, mutex, node, shown, atStart, serving>>

CountExecution(q) ==
  /\ result[q] = "Ok" /\ route[q] = "execute"
  /\ Goes(q, "counts", "answered")
  /\ metrics' = [metrics EXCEPT !.executions = @ + 1]
  /\ UNCHANGED <<role, route, mutex, node, shown, atStart, serving>>

\* token_issued: first the number of tokens, then the time they took
CountToken(q) ==
  /\ result[q] = "Ok" /\ route[q] = "tokens"
  /\ Goes(q, "counts", "times")
  /\ metrics' = [metrics EXCEPT !.issued = @ + 1]
  /\ UNCHANGED <<role, route, mutex, node, shown, atStart, serving>>

TimeToken(q) ==
  /\ Goes(q, "times", "answered")
  /\ \E elapsed \in 0..MaxElapsed :
       metrics' = [metrics EXCEPT !.latency = @ + elapsed]
  /\ UNCHANGED <<role, route, mutex, node, shown, atStart, serving>>

\* GET /metrics counts itself, too
ArriveToRead(q) ==
  /\ Accept(q, "metrics")
  /\ Goes(q, "new", "reads")
  /\ metrics' = [metrics EXCEPT !.requests = @ + 1]
  /\ atStart' = [atStart EXCEPT ![q] = metrics']
  /\ UNCHANGED <<role, mutex, node, shown, serving>>

\* faulty variant of Render: a counter starts again when it was read
RenderAndReset(q) ==
  LET counter == Counter[Len(shown[q]) + 1]
  IN  /\ Goes(q, "reads", IF counter = "rejections" THEN "answered" ELSE "reads")
      /\ shown' = [shown EXCEPT ![q] = Append(@, metrics[counter])]
      /\ metrics' = [metrics EXCEPT ![counter] = NoMetrics[counter]]
      /\ UNCHANGED <<role, route, mutex, node, atStart, serving>>

\* the next counter that render reads; it reads all rejections under a lock
Render(q) ==
  LET counter == Counter[Len(shown[q]) + 1]
  IN  /\ Goes(q, "reads", IF counter = "rejections" THEN "answered" ELSE "reads")
      /\ shown' = [shown EXCEPT ![q] = Append(@, metrics[counter])]
      /\ UNCHANGED <<role, route, mutex, node, metrics, atStart, serving>>

-----------------------------------------------------------------------------
\* with_graceful_shutdown: nothing new is accepted, what arrived is answered
CtrlC ==
  /\ serving = "up"
  /\ serving' = "stopping"
  /\ UNCHANGED <<role, route, at, mutex, node, counters>>

Idle == \A q \in Request : at[q] \in {"new", "answered", "gone"}

Exit ==
  /\ serving = "stopping" /\ Idle
  /\ serving' = "down"
  /\ UNCHANGED <<role, route, at, mutex, node, counters>>

Handler(q) ==
  \/ Lock(q) \/ Decide(q) \/ Finish(q)
  \/ CountRejection(q) \/ CountExecution(q) \/ CountToken(q) \/ TimeToken(q)
  \/ Render(q)

Next ==
  \/ \E q \in Request : Arrive(q) \/ ArriveToRead(q) \/ HangUp(q) \/ Handler(q)
  \/ CtrlC \/ Exit

Spec == Init /\ [][Next]_vars

\* the handlers of what arrived are run; clients and Ctrl-C come as they like
FairSpec == Spec /\ WF_vars(Exit) /\ \A q \in Request : WF_vars(Handler(q))

-----------------------------------------------------------------------------
(***************************************************************************)
(* While the stop is set nothing acts, also not an execution that had      *)
(* passed the check of the stop before the stop was requested              *)
(* (main.rs:1503-1507, 1531-1533).                                         *)
(***************************************************************************)
NothingActsUnderStop ==
  [][acted' # acted => ~emergency_stop]_vars

Refused == metrics.rejections["EMERGENCY_STOP_ACTIVE"]
             + metrics.rejections["INTERNAL_ERROR"] + metrics.rejections["OTHER"]

\* a request that leaves no trace but its own count
Traceless(q) ==
  \/ at[q] = "gone"
  \/ route[q] \in {"status", "metrics"} \/ Switches(q)
  \/ route[q] = "assign" /\ result[q] = "Ok"

(***************************************************************************)
(* When nothing is in progress the counters agree with each other and with *)
(* what was done: every request is a token, an execution, a rejection or   *)
(* one of those that are not counted by outcome; and robots did no less    *)
(* than what is counted as executed (main.rs:1415-1538, metrics.rs:19-38). *)
(***************************************************************************)
BooksBalance ==
  /\ metrics.executions <= Cardinality(acted)
  /\ Idle => metrics.requests =
       metrics.issued + metrics.executions + Refused
         + Cardinality({q \in Request : at[q] # "new" /\ Traceless(q)})

\* one value of a counter is not above another
NotAbove(counter, a, b) ==
  IF counter = "rejections" THEN \A c \in Code : a[c] <= b[c] ELSE a <= b

(***************************************************************************)
(* Whatever handlers do while GET /metrics reads, it shows values that the *)
(* counters had between its start and now; so a counter never falls from   *)
(* one reading to the next (metrics.rs:36-41).                             *)
(***************************************************************************)
ReadingsAreCurrent ==
  \A q \in Request : \A i \in DOMAIN shown[q] :
    /\ NotAbove(Counter[i], atStart[q][Counter[i]], shown[q][i])
    /\ NotAbove(Counter[i], shown[q][i], metrics[Counter[i]])

(***************************************************************************)
(* The handlers never wait in vain: while a request is in progress one of  *)
(* them can go on, so the mutex is not left with somebody who is gone or   *)
(* done, and no outcome is one that nobody counts (main.rs:1309-1317,      *)
(* 1415-1538).                                                             *)
(***************************************************************************)
CanGoOn(q) ==
  \/ at[q] = "waits" /\ holder = Nobody /\ waiting # << >> /\ Head(waiting) = q
  \/ at[q] = "holds" /\ Decisions(q) # {}
  \/ at[q] = "works" /\ Acts(q) # {}
  \/ at[q] = "counts" /\ (result[q] # "Ok" \/ route[q] \in {"execute", "tokens"})
  \/ at[q] = "times"
  \/ at[q] = "reads" /\ Len(shown[q]) < Len(Counter)

NobodyIsStuck == ~Idle => \E q \in Request : CanGoOn(q)

(***************************************************************************)
(* Every request that arrived ends, although handlers wait for each other  *)
(* and clients hang up while they do; and a service that is told to stop   *)
(* stops (main.rs:1345-1347, 1471-1538, 1721-1723).                        *)
(***************************************************************************)
WorkEnds ==
  /\ \A q \in Request : at[q] # "new" ~> at[q] \in {"answered", "gone"}
  /\ serving = "stopping" ~> serving = "down"
=============================================================================
