--------------------------- MODULE ServiceProofs ---------------------------
(***************************************************************************)
(* Proofs about Service, for any number of requests of either role.        *)
(*                                                                         *)
(* The arguments.  The stop: whoever works has the mutex, so the flag is   *)
(* still what it was when the handler looked at it (MutexInv).  The        *)
(* readings: counters only grow, so what was read lies between their       *)
(* values when the reading began and now (ReadingInv).  Progress: the      *)
(* queue and the handlers agree on who waits (QueueInv).  The books: a     *)
(* counter is the number of the handlers that counted under it (Books).    *)
(***************************************************************************)
EXTENDS Service, FiniteSetTheorems, TLAPS

-----------------------------------------------------------------------------
(***************************************************************************)
(* The handler that works has the mutex, and the flag is still as it was   *)
(* when the handler looked at it: only a handler that has the mutex sets   *)
(* or clears the stop.                                                     *)
(***************************************************************************)
HasMutex == \A q \in Request : at[q] \in {"holds", "works"} => holder = q

FlagIsCurrent ==
  \A q \in Request :
    at[q] = "works" /\ route[q] = "execute" /\ result[q] # "EMERGENCY_STOP_ACTIVE"
      => emergency_stop = FALSE

Functions ==
  /\ at \in [Request -> {"new", "waits", "holds", "works", "counts", "times",
                         "reads", "answered", "gone"}]
  /\ route \in [Request -> {"tokens", "assign", "status", "metrics", "execute", "stop",
                            "clear", "none"}]
  /\ result \in [Request -> Code \cup {"none", "Ok"}]
  /\ \A q \in Request :
       at[q] \in {"waits", "holds"} => route[q] \notin {"none", "metrics"}
  /\ role \in {"coordinator", "robot"}

MutexInv == Functions /\ HasMutex /\ FlagIsCurrent

\* Request and Nobody are apart
LEMMA NobodyAsks == Nobody \notin Request /\ Request \subseteq Nat
BY ServiceAssumption DEF Nobody, Request

\* the routes of each role
LEMMA RoutesAre ==
  \A r \in {"coordinator", "robot"} :
    Routes[r] \subseteq {"tokens", "assign", "status", "metrics", "execute", "stop", "clear"}
BY DEF Routes

\* no handler is at work before the first request
LEMMA MutexInit == Init => MutexInv
BY DEF Init, MutexInv, Functions, HasMutex, FlagIsCurrent, Routes

\* the maps of handlers keep their types
LEMMA FunctionsStep == Functions /\ [Next]_vars => Functions'
<1> SUFFICES ASSUME Functions, [Next]_vars PROVE Functions'
  OBVIOUS
<1> USE DEF Functions, Goes, Accept
<1>1. ASSUME NEW q \in Request, Arrive(q) \/ ArriveToRead(q) PROVE Functions'
  BY <1>1, RoutesAre DEF Arrive, ArriveToRead, node
<1>2. ASSUME NEW q \in Request, HangUp(q) \/ Lock(q) \/ Finish(q) PROVE Functions'
  BY <1>2 DEF HangUp, Lock, Finish, node
<1>3. ASSUME NEW q \in Request, Decide(q) PROVE Functions'
  <2>1. route[q] \in {"tokens", "assign", "status", "execute", "stop", "clear"}
    BY <1>3 DEF Decide
  <2>2. \A decision \in Decisions(q) : decision \in Code \cup {"none", "Ok"}
    BY <2>1 DEF Decisions, Code, Switches
  <2> QED
    BY <1>3, <2>2 DEF Decide
<1>4. ASSUME NEW q \in Request,
             CountRejection(q) \/ CountExecution(q) \/ CountToken(q) \/ TimeToken(q)
               \/ Render(q)
      PROVE Functions'
  BY <1>4 DEF CountRejection, CountExecution, CountToken, TimeToken, Render, node
<1>5. ASSUME CtrlC \/ Exit \/ UNCHANGED vars PROVE Functions'
  BY <1>5 DEF CtrlC, Exit, vars, node
<1> QED
  BY <1>1, <1>2, <1>3, <1>4, <1>5 DEF Next, Handler

\* the mutex keeps the other handlers away
LEMMA MutexStep == MutexInv /\ [Next]_vars => MutexInv'
<1> SUFFICES ASSUME MutexInv, [Next]_vars PROVE HasMutex' /\ FlagIsCurrent'
  BY FunctionsStep DEF MutexInv
<1>0. Functions'
  BY FunctionsStep DEF MutexInv
<1> USE DEF MutexInv, HasMutex, FlagIsCurrent, Functions, Goes
<1>1. ASSUME NEW q \in Request, Arrive(q) \/ ArriveToRead(q) PROVE HasMutex' /\ FlagIsCurrent'
  BY <1>1 DEF Arrive, ArriveToRead, Accept, node, mutex
<1>2. ASSUME NEW q \in Request, HangUp(q) PROVE HasMutex' /\ FlagIsCurrent'
  BY <1>2 DEF HangUp, node
<1>3. ASSUME NEW q \in Request, Lock(q) PROVE HasMutex' /\ FlagIsCurrent'
  BY <1>3, NobodyAsks DEF Lock, node
<1>4. ASSUME NEW q \in Request, Decide(q) PROVE HasMutex' /\ FlagIsCurrent'
  BY <1>4 DEF Decide, Decisions, Switches, mutex
<1>5. ASSUME NEW q \in Request, Finish(q) PROVE HasMutex' /\ FlagIsCurrent'
  BY <1>5 DEF Finish
<1>6. ASSUME NEW q \in Request,
             CountRejection(q) \/ CountExecution(q) \/ CountToken(q) \/ TimeToken(q)
               \/ Render(q)
      PROVE HasMutex' /\ FlagIsCurrent'
  BY <1>6 DEF CountRejection, CountExecution, CountToken, TimeToken, Render, node, mutex
<1>7. ASSUME CtrlC \/ Exit \/ UNCHANGED vars PROVE HasMutex' /\ FlagIsCurrent'
  BY <1>7 DEF CtrlC, Exit, vars, node, mutex
<1> QED
  BY <1>1, <1>2, <1>3, <1>4, <1>5, <1>6, <1>7 DEF Next, Handler

\* an action is done by a handler that finishes, and the stop is not set
LEMMA ActsWithoutStop == MutexInv /\ [Next]_vars => (acted' # acted => ~emergency_stop)
<1> SUFFICES ASSUME MutexInv, [Next]_vars, acted' # acted PROVE ~emergency_stop
  OBVIOUS
<1>1. PICK q \in Request : Finish(q)
  BY DEF Next, Handler, Arrive, ArriveToRead, HangUp, Lock, Decide, CountRejection,
    CountExecution, CountToken, TimeToken, Render, CtrlC, Exit, vars, node
<1>2. at[q] = "works" /\ route[q] = "execute" /\ result[q] # "EMERGENCY_STOP_ACTIVE"
  BY <1>1 DEF Finish, Acts, Goes
<1> QED
  BY <1>2 DEF MutexInv, FlagIsCurrent

\* While the stop is set no execution acts, also none that had passed the
\* check of the stop before (main.rs:1503-1507, 1531-1533).
THEOREM StopCorrect == Spec => NothingActsUnderStop
<1>1. MutexInv /\ [Next]_vars => [acted' # acted => ~emergency_stop]_vars
  BY ActsWithoutStop
<1> QED
  BY <1>1, MutexInit, MutexStep, PTL DEF Spec, NothingActsUnderStop

-----------------------------------------------------------------------------
(***************************************************************************)
(* The counters only grow, so what a GET /metrics has read lies between    *)
(* the counters when it began and the counters now.                        *)
(***************************************************************************)
CounterName == {"requests", "issued", "latency", "executions", "rejections"}

Reading(c) == IF c = "rejections" THEN [Code -> Nat] ELSE Nat

CounterTypes == metrics \in Metrics /\ atStart \in [Request -> Metrics]

ShownTypes ==
  /\ shown \in [Request -> Seq(Nat \cup [Code -> Nat])]
  /\ \A q \in Request :
       /\ at[q] \in {"new", "reads"} => Len(shown[q]) \in 0..4
       /\ Len(shown[q]) \in 0..5
       /\ \A i \in 1..Len(shown[q]) : shown[q][i] \in Reading(Counter[i])

StartsBelow ==
  \A q \in Request : \A c \in CounterName : NotAbove(c, atStart[q][c], metrics[c])

\* the counters by their place
LEMMA CounterIs ==
  /\ \A i \in 1..5 : Counter[i] \in CounterName
  /\ \A i \in 1..5 : Counter[i] = "rejections" <=> i = 5
BY DEF Counter, CounterName

\* a counter has a reading of its kind
LEMMA CounterReads ==
  ASSUME NEW m \in Metrics, NEW c \in CounterName PROVE m[c] \in Reading(c)
BY DEF Metrics, CounterName, Reading

\* readings are ordered
LEMMA NotAboveOrders ==
  ASSUME NEW c \in CounterName, NEW x \in Reading(c), NEW y \in Reading(c),
         NEW z \in Reading(c)
  PROVE  /\ NotAbove(c, x, x)
         /\ NotAbove(c, x, y) /\ NotAbove(c, y, z) => NotAbove(c, x, z)
<1>1. CASE c = "rejections"
  BY <1>1 DEF NotAbove, Reading
<1>2. CASE c # "rejections"
  BY <1>2 DEF NotAbove, Reading
<1> QED
  BY <1>1, <1>2

\* no step makes a counter smaller
LEMMA CountersGrow ==
  CounterTypes /\ Functions /\ [Next]_vars
    => metrics' \in Metrics /\ \A c \in CounterName : NotAbove(c, metrics[c], metrics'[c])
<1> SUFFICES ASSUME CounterTypes, Functions, [Next]_vars
             PROVE  metrics' \in Metrics
                      /\ \A c \in CounterName : NotAbove(c, metrics[c], metrics'[c])
  OBVIOUS
<1>0. metrics \in Metrics
  BY DEF CounterTypes
<1>1. CASE metrics' = metrics
  BY <1>0, <1>1, CounterReads, NotAboveOrders
<1>2. ASSUME NEW n \in Nat, NEW c \in {"requests", "issued", "latency", "executions"},
             metrics' = [metrics EXCEPT ![c] = @ + n]
      PROVE  metrics' \in Metrics /\ \A d \in CounterName : NotAbove(d, metrics[d], metrics'[d])
  BY <1>0, <1>2 DEF Metrics, CounterName, NotAbove
<1>3. ASSUME NEW q \in Request, Arrive(q) \/ ArriveToRead(q)
      PROVE  metrics' = [metrics EXCEPT !["requests"] = @ + 1]
  BY <1>3 DEF Arrive, ArriveToRead
<1>4. ASSUME NEW q \in Request, CountExecution(q)
      PROVE  metrics' = [metrics EXCEPT !["executions"] = @ + 1]
  BY <1>4 DEF CountExecution
<1>5. ASSUME NEW q \in Request, CountToken(q)
      PROVE  metrics' = [metrics EXCEPT !["issued"] = @ + 1]
  BY <1>5 DEF CountToken
<1>6. ASSUME NEW q \in Request, TimeToken(q)
      PROVE  \E n \in Nat : metrics' = [metrics EXCEPT !["latency"] = @ + n]
  BY <1>6, ServiceAssumption DEF TimeToken
<1>7. ASSUME NEW q \in Request, CountRejection(q)
      PROVE  metrics' \in Metrics
               /\ \A c \in CounterName : NotAbove(c, metrics[c], metrics'[c])
  <2> DEFINE old == metrics.rejections
             new == [old EXCEPT ![result[q]] = @ + 1]
  <2>1. metrics' = [metrics EXCEPT !.rejections = new]
    BY <1>7 DEF CountRejection
  <2>2. old \in [Code -> Nat]
    BY <1>0 DEF Metrics
  <2>3. new \in [Code -> Nat] /\ \A c \in Code : old[c] <= new[c]
    <3>1. \A c \in Code : new[c] = IF c = result[q] THEN old[c] + 1 ELSE old[c]
      BY <2>2
    <3>2. \A c \in Code : new[c] \in Nat /\ old[c] <= new[c]
      <4> HIDE DEF old, new
      <4> QED
        BY <2>2, <3>1
    <3> QED
      BY <2>2, <3>2
  <2>4. metrics'.rejections = new /\ metrics' \in Metrics
          /\ \A c \in CounterName \ {"rejections"} : metrics'[c] = metrics[c]
    <3> HIDE DEF new
    <3> QED
      BY <1>0, <2>1, <2>3 DEF Metrics, CounterName
  <2>5. ASSUME NEW c \in CounterName PROVE NotAbove(c, metrics[c], metrics'[c])
    <3>1. CASE c = "rejections"
      BY <2>3, <2>4, <3>1 DEF NotAbove
    <3>2. CASE c # "rejections"
      BY <1>0, <2>4, <3>2, CounterReads, NotAboveOrders
    <3> QED
      BY <3>1, <3>2
  <2> QED
    BY <2>4, <2>5
<1> QED
  BY <1>1, <1>2, <1>3, <1>4, <1>5, <1>6, <1>7
  DEF Next, Handler, HangUp, Lock, Decide, Finish, Render, CtrlC, Exit, vars, counters

ReadingInv == CounterTypes /\ ShownTypes /\ StartsBelow /\ ReadingsAreCurrent

\* nothing is counted and nothing was read before the first request
LEMMA ReadingInit == Init => ReadingInv
<1> SUFFICES ASSUME Init PROVE ReadingInv
  OBVIOUS
<1>1. NoMetrics \in Metrics
  BY DEF NoMetrics, Metrics
<1>2. CounterTypes
  BY <1>1 DEF Init, CounterTypes
<1>3. ShownTypes
  BY DEF Init, ShownTypes
<1>4. StartsBelow
  BY <1>1, CounterReads, NotAboveOrders DEF Init, StartsBelow
<1>5. ReadingsAreCurrent
  BY DEF Init, ReadingsAreCurrent
<1> QED
  BY <1>2, <1>3, <1>4, <1>5 DEF ReadingInv

\* a step leaves alone what was read, or reads the next counter
LEMMA ShownStep ==
  CounterTypes /\ ShownTypes /\ Functions /\ [Next]_vars
    => /\ ShownTypes'
       /\ \A q \in Request : \A i \in 1..Len(shown'[q]) :
            \/ i \in 1..Len(shown[q]) /\ shown'[q][i] = shown[q][i]
            \/ shown'[q][i] = metrics[Counter[i]] /\ metrics' = metrics
<1> SUFFICES ASSUME CounterTypes, ShownTypes, Functions, [Next]_vars
             PROVE  /\ ShownTypes'
                    /\ \A q \in Request : \A i \in 1..Len(shown'[q]) :
                         \/ i \in 1..Len(shown[q]) /\ shown'[q][i] = shown[q][i]
                         \/ shown'[q][i] = metrics[Counter[i]] /\ metrics' = metrics
  OBVIOUS
<1>1. ASSUME NEW q \in Request, Render(q)
      PROVE  /\ ShownTypes'
             /\ \A p \in Request : \A i \in 1..Len(shown'[p]) :
                  \/ i \in 1..Len(shown[p]) /\ shown'[p][i] = shown[p][i]
                  \/ shown'[p][i] = metrics[Counter[i]] /\ metrics' = metrics
  <2> DEFINE n == Len(shown[q]) + 1
             value == metrics[Counter[n]]
  <2>1. n \in 1..5 /\ shown[q] \in Seq(Nat \cup [Code -> Nat])
    <3>1. at[q] = "reads"
      BY <1>1 DEF Render, Goes
    <3>2. Len(shown[q]) \in 0..4
      BY <3>1 DEF ShownTypes
    <3>3. shown[q] \in Seq(Nat \cup [Code -> Nat])
      BY DEF ShownTypes
    <3>4. \A k \in 0..4 : k + 1 \in 1..5
      OBVIOUS
    <3> QED
      BY <3>2, <3>3, <3>4, Zenon
  <2>2. value \in Reading(Counter[n])
    BY <2>1, CounterIs, CounterReads DEF CounterTypes
  <2>3. /\ shown' = [shown EXCEPT ![q] = Append(shown[q], value)] /\ metrics' = metrics
        /\ at' = [at EXCEPT ![q] = IF Counter[n] = "rejections" THEN "answered" ELSE "reads"]
    BY <1>1 DEF Render, Goes
  <2>4. at'[q] \in {"new", "reads"} => n \in 1..4
    BY <2>1, <2>3, CounterIs DEF Functions
  <2>5. \A p \in Request \ {q} : shown'[p] = shown[p] /\ at'[p] = at[p]
    BY <2>3 DEF ShownTypes, Functions
  <2>6. value \in Nat \cup [Code -> Nat]
    BY <2>2 DEF Reading
  <2>7. /\ shown'[q] = Append(shown[q], value)
        /\ shown' \in [Request -> Seq(Nat \cup [Code -> Nat])]
    BY <2>3, <2>6 DEF ShownTypes
  <2> HIDE DEF value
  <2>8. Len(shown'[q]) = n /\ shown'[q][n] = value
          /\ \A i \in 1..Len(shown[q]) : shown'[q][i] = shown[q][i]
    BY <2>1, <2>6, <2>7
  <2>9. \A i \in 1..n : i \in 1..Len(shown[q]) \/ i = n
    BY <2>1
  <2>10. ASSUME NEW p \in Request
         PROVE  /\ at'[p] \in {"new", "reads"} => Len(shown'[p]) \in 0..4
                /\ Len(shown'[p]) \in 0..5
                /\ \A i \in 1..Len(shown'[p]) : shown'[p][i] \in Reading(Counter[i])
    <3>1. CASE p = q
      <4>1. \A i \in 1..n : shown'[q][i] \in Reading(Counter[i])
        BY <2>1, <2>2, <2>8, <2>9 DEF ShownTypes
      <4>2. Len(shown'[q]) = n
        BY <2>8
      <4>3. n \in 0..5 /\ (at'[q] \in {"new", "reads"} => n \in 0..4)
        BY <2>1, <2>4
      <4> HIDE DEF n
      <4> QED
        BY <3>1, <4>1, <4>2, <4>3
    <3>2. CASE p # q
      BY <2>5, <3>2 DEF ShownTypes
    <3> QED
      BY <3>1, <3>2
  <2>11. value = metrics[Counter[n]]
    BY DEF value
  <2> QED
    BY <2>3, <2>5, <2>7, <2>8, <2>9, <2>10, <2>11 DEF ShownTypes
<1>2. ASSUME shown' = shown,
             \A q \in Request : at'[q] \in {"new", "reads"} => at[q] \in {"new", "reads"}
      PROVE  /\ ShownTypes'
             /\ \A q \in Request : \A i \in 1..Len(shown'[q]) :
                  \/ i \in 1..Len(shown[q]) /\ shown'[q][i] = shown[q][i]
                  \/ shown'[q][i] = metrics[Counter[i]] /\ metrics' = metrics
  BY <1>2 DEF ShownTypes
<1>3. ASSUME NEW q \in Request,
             Arrive(q) \/ ArriveToRead(q) \/ HangUp(q) \/ Lock(q) \/ Decide(q) \/ Finish(q)
               \/ CountRejection(q) \/ CountExecution(q) \/ CountToken(q) \/ TimeToken(q)
      PROVE  /\ shown' = shown
             /\ \A p \in Request : at'[p] \in {"new", "reads"} => at[p] \in {"new", "reads"}
  BY <1>3 DEF Functions, Goes, Accept, Arrive, ArriveToRead, HangUp, Lock, Decide, Finish,
    CountRejection, CountExecution, CountToken, TimeToken, counters
<1>4. ASSUME CtrlC \/ Exit \/ UNCHANGED vars
      PROVE  shown' = shown /\ at' = at
  BY <1>4 DEF CtrlC, Exit, vars, counters
<1> QED
  BY <1>1, <1>2, <1>3, <1>4 DEF Next, Handler

\* the counters when a reading began, and those now
LEMMA StartStep ==
  CounterTypes /\ StartsBelow /\ Functions /\ [Next]_vars
    => /\ CounterTypes' /\ StartsBelow'
       /\ \A q \in Request : at[q] # "new" => atStart'[q] = atStart[q]
<1> SUFFICES ASSUME CounterTypes, StartsBelow, Functions, [Next]_vars
             PROVE  /\ CounterTypes' /\ StartsBelow'
                    /\ \A q \in Request : at[q] # "new" => atStart'[q] = atStart[q]
  OBVIOUS
<1>1. metrics' \in Metrics /\ \A c \in CounterName : NotAbove(c, metrics[c], metrics'[c])
  BY CountersGrow
<1>2. ASSUME NEW q \in Request, NEW c \in CounterName, atStart'[q] = atStart[q]
      PROVE  NotAbove(c, atStart'[q][c], metrics'[c])
  <2>1. /\ atStart[q][c] \in Reading(c) /\ metrics[c] \in Reading(c)
        /\ metrics'[c] \in Reading(c)
    BY <1>1, CounterReads DEF CounterTypes
  <2> QED
    BY <1>1, <1>2, <2>1, NotAboveOrders DEF StartsBelow
<1>3. CASE atStart' = atStart
  BY <1>1, <1>2, <1>3 DEF CounterTypes, StartsBelow
<1>4. ASSUME NEW q \in Request, ArriveToRead(q)
      PROVE  /\ CounterTypes' /\ StartsBelow'
             /\ \A p \in Request : at[p] # "new" => atStart'[p] = atStart[p]
  <2>1. at[q] = "new" /\ atStart' = [atStart EXCEPT ![q] = metrics']
    BY <1>4 DEF ArriveToRead, Goes
  <2>2. atStart'[q] = metrics' /\ \A p \in Request \ {q} : atStart'[p] = atStart[p]
    BY <2>1 DEF CounterTypes
  <2>3. CounterTypes'
    BY <1>1, <2>1 DEF CounterTypes
  <2>4. \A c \in CounterName : NotAbove(c, atStart'[q][c], metrics'[c])
    BY <1>1, <2>2, CounterReads, NotAboveOrders
  <2> QED
    BY <1>2, <2>1, <2>2, <2>3, <2>4 DEF StartsBelow
<1> QED
  BY <1>3, <1>4
  DEF Next, Handler, Arrive, HangUp, Lock, Decide, Finish, CountRejection, CountExecution,
      CountToken, TimeToken, Render, CtrlC, Exit, vars, counters

\* who has read something is not new
NewHasRead == \A q \in Request : at[q] = "new" => shown[q] = << >>

\* what was read stays below the counters, and what is read now is a counter
LEMMA ReadingsStep ==
  ReadingInv /\ Functions /\ NewHasRead /\ [Next]_vars => ReadingsAreCurrent'
<1> SUFFICES ASSUME ReadingInv, Functions, NewHasRead, [Next]_vars,
                    NEW q \in Request, NEW i \in DOMAIN shown'[q]
             PROVE  /\ NotAbove(Counter[i], atStart'[q][Counter[i]], shown'[q][i])
                    /\ NotAbove(Counter[i], shown'[q][i], metrics'[Counter[i]])
  BY DEF ReadingsAreCurrent
<1>1. CounterTypes /\ ShownTypes /\ StartsBelow /\ ReadingsAreCurrent
  BY DEF ReadingInv
<1>2. CounterTypes' /\ ShownTypes' /\ StartsBelow'
  BY <1>1, ShownStep, StartStep
<1>3. i \in 1..5 /\ i \in 1..Len(shown'[q])
  BY <1>2 DEF ShownTypes
<1> DEFINE c == Counter[i]
<1>4. c \in CounterName
  BY <1>3, CounterIs
<1>5. /\ atStart'[q][c] \in Reading(c) /\ shown'[q][i] \in Reading(c)
      /\ metrics[c] \in Reading(c) /\ metrics'[c] \in Reading(c)
  BY <1>1, <1>2, <1>3, <1>4, CounterReads DEF CounterTypes, ShownTypes
<1>6. NotAbove(c, metrics[c], metrics'[c])
  BY <1>1, <1>4, CountersGrow
<1>7. CASE i \in 1..Len(shown[q]) /\ shown'[q][i] = shown[q][i]
  <2>1. i \in DOMAIN shown[q]
    BY <1>1, <1>7 DEF ShownTypes
  <2>2. at[q] # "new"
    BY <2>1 DEF NewHasRead
  <2>3. NotAbove(c, atStart[q][c], shown[q][i]) /\ NotAbove(c, shown[q][i], metrics[c])
    BY <1>1, <2>1 DEF ReadingsAreCurrent
  <2>4. atStart'[q] = atStart[q]
    BY <1>1, <2>2, StartStep
  <2> HIDE DEF c
  <2> QED
    BY <1>4, <1>5, <1>6, <1>7, <2>3, <2>4, NotAboveOrders DEF c
<1>8. CASE shown'[q][i] = metrics[c] /\ metrics' = metrics
  BY <1>2, <1>4, <1>5, <1>8, NotAboveOrders DEF StartsBelow
<1> QED
  BY <1>1, <1>3, <1>7, <1>8, ShownStep

\* a request that is new after a step was new before, and has read nothing
LEMMA NewStep == Functions /\ ShownTypes /\ NewHasRead /\ [Next]_vars => NewHasRead'
<1> SUFFICES ASSUME Functions, ShownTypes, NewHasRead, [Next]_vars PROVE NewHasRead'
  OBVIOUS
<1> USE DEF NewHasRead
<1>1. ASSUME NEW q \in Request, Render(q) PROVE NewHasRead'
  BY <1>1 DEF Render, Goes, Functions, ShownTypes
<1>2. ASSUME NEW q \in Request,
             Arrive(q) \/ ArriveToRead(q) \/ HangUp(q) \/ Lock(q) \/ Decide(q) \/ Finish(q)
               \/ CountRejection(q) \/ CountExecution(q) \/ CountToken(q) \/ TimeToken(q)
      PROVE  NewHasRead'
  BY <1>2 DEF Functions, Goes, Accept, Arrive, ArriveToRead, HangUp, Lock, Decide, Finish,
    CountRejection, CountExecution, CountToken, TimeToken, counters
<1>3. ASSUME CtrlC \/ Exit \/ UNCHANGED vars PROVE NewHasRead'
  BY <1>3 DEF CtrlC, Exit, vars, counters
<1> QED
  BY <1>1, <1>2, <1>3 DEF Next, Handler

\* Every reading of GET /metrics lies between the counters when it began and
\* the counters now, whatever handlers do meanwhile (metrics.rs:36-41).
THEOREM ReadingsCorrect == Spec => []ReadingsAreCurrent
<1> DEFINE Inv == Functions /\ NewHasRead /\ ReadingInv
<1>1. Init => Inv
  <2>1. Init => NewHasRead
    BY DEF Init, NewHasRead
  <2> QED
    BY <2>1, MutexInit, ReadingInit DEF MutexInv
<1>2. Inv /\ [Next]_vars => Inv'
  <2> SUFFICES ASSUME Inv, [Next]_vars PROVE Inv'
    OBVIOUS
  <2>1. CounterTypes /\ ShownTypes /\ StartsBelow
    BY DEF ReadingInv
  <2>2. Functions' /\ NewHasRead' /\ ReadingsAreCurrent'
    BY <2>1, FunctionsStep, NewStep, ReadingsStep
  <2>3. CounterTypes' /\ ShownTypes' /\ StartsBelow'
    BY <2>1, ShownStep, StartStep
  <2> QED
    BY <2>2, <2>3 DEF ReadingInv
<1>3. Inv => ReadingsAreCurrent
  BY DEF ReadingInv
<1> QED
  BY <1>1, <1>2, <1>3, PTL DEF Spec
-----------------------------------------------------------------------------
(***************************************************************************)
(* The queue of the mutex and the handlers agree: everybody in line waits, *)
(* everybody who waits is in line once, and who has the mutex is at work.  *)
(***************************************************************************)
MutexIsHanded ==
  /\ holder # Nobody => at[holder] \in {"holds", "works"}
  /\ \A q \in Request : at[q] = "waits" <=> \E i \in DOMAIN waiting : waiting[i] = q
  /\ \A i, j \in DOMAIN waiting : waiting[i] = waiting[j] => i = j

QueueType == waiting \in Seq(Request) /\ holder \in Request \cup {Nobody}

QueueInv == QueueType /\ MutexIsHanded

\* somebody arrives and takes the last place
LEMMA QueueGrows ==
  ASSUME QueueInv, Functions, NEW q \in Request, at[q] = "new",
         at' = [at EXCEPT ![q] = "waits"], waiting' = Append(waiting, q), holder' = holder
  PROVE  QueueInv'
<1> DEFINE n == Len(waiting)
<1>1. n \in Nat /\ DOMAIN waiting = 1..n /\ \A i \in 1..n : waiting[i] \in Request
  BY DEF QueueInv, QueueType
<1>2. /\ DOMAIN waiting' = 1..(n + 1) /\ waiting'[n + 1] = q
      /\ \A i \in 1..n : waiting'[i] = waiting[i]
      /\ waiting' \in Seq(Request)
  BY DEF QueueInv, QueueType
<1>3. \A i \in 1..n : waiting[i] # q
  BY <1>1 DEF QueueInv, MutexIsHanded
<1>4. \A p \in Request : at'[p] = IF p = q THEN "waits" ELSE at[p]
  BY DEF Functions
<1> HIDE DEF n
<1>5. \A i \in 1..(n + 1) : i \in 1..n \/ i = n + 1
  BY <1>1
<1>6. n + 1 \in 1..(n + 1) /\ 1..n \subseteq 1..(n + 1)
  BY <1>1
<1>7. \A p \in Request : at'[p] = "waits" <=> \E i \in 1..(n + 1) : waiting'[i] = p
  <2> SUFFICES ASSUME NEW p \in Request
               PROVE  at'[p] = "waits" <=> \E i \in 1..(n + 1) : waiting'[i] = p
    OBVIOUS
  <2>1. at[p] = "waits" <=> \E i \in 1..n : waiting[i] = p
    BY <1>1 DEF QueueInv, MutexIsHanded
  <2>2. (\E i \in 1..(n + 1) : waiting'[i] = p) <=> (p = q \/ \E i \in 1..n : waiting[i] = p)
    BY <1>2, <1>5, <1>6
  <2> QED
    BY <1>4, <2>1, <2>2
<1>8. \A i, j \in 1..(n + 1) : waiting'[i] = waiting'[j] => i = j
  BY <1>1, <1>2, <1>3, <1>5 DEF QueueInv, MutexIsHanded
<1>9. holder' # Nobody => at'[holder'] \in {"holds", "works"}
  BY <1>4 DEF QueueInv, QueueType, MutexIsHanded
<1>10. QueueType'
  BY <1>2 DEF QueueInv, QueueType
<1>11. DOMAIN waiting' = 1..(n + 1)
  BY <1>2
<1>12. \A p \in Request : at'[p] = "waits" <=> \E i \in DOMAIN waiting' : waiting'[i] = p
  BY ONLY <1>7, <1>11
<1>13. \A i, j \in DOMAIN waiting' : waiting'[i] = waiting'[j] => i = j
  BY ONLY <1>8, <1>11
<1>14. MutexIsHanded'
  BY <1>9, <1>12, <1>13, Zenon DEF MutexIsHanded
<1> QED
  BY <1>10, <1>14 DEF QueueInv

\* somebody in line leaves his place, because he hangs up or has the mutex
LEMMA QueueShrinks ==
  ASSUME QueueInv, Functions, NEW i \in DOMAIN waiting, waiting' = Without(waiting, i),
         NEW to \in {"gone", "holds"}, at' = [at EXCEPT ![waiting[i]] = to]
  PROVE  /\ waiting' \in Seq(Request)
         /\ \A p \in Request : at'[p] = "waits" <=> \E j \in DOMAIN waiting' : waiting'[j] = p
         /\ \A j, k \in DOMAIN waiting' : waiting'[j] = waiting'[k] => j = k
<1> DEFINE n == Len(waiting)
           old(j) == IF j < i THEN j ELSE j + 1
<1>1. n \in Nat /\ DOMAIN waiting = 1..n /\ \A j \in 1..n : waiting[j] \in Request
  BY DEF QueueInv, QueueType
<1>2. n - 1 \in Nat /\ i \in 1..n
  BY <1>1
<1>3. DOMAIN waiting' = 1..(n - 1) /\ \A j \in 1..(n - 1) : waiting'[j] = waiting[old(j)]
  BY DEF Without
<1>4. /\ \A j \in 1..(n - 1) : old(j) \in 1..n /\ old(j) # i
      /\ \A j, k \in 1..(n - 1) : old(j) = old(k) => j = k
      /\ \A k \in 1..n : k # i => \E j \in 1..(n - 1) : old(j) = k
  <2>1. \A k \in 1..n : k < i => k \in 1..(n - 1) /\ old(k) = k
    BY <1>1, <1>2
  <2>2. \A k \in 1..n : k > i => k - 1 \in 1..(n - 1) /\ old(k - 1) = k
    BY <1>1, <1>2
  <2>3. \A k \in 1..n : k # i => \E j \in 1..(n - 1) : old(j) = k
    BY <1>1, <1>2, <2>1, <2>2
  <2> QED
    BY <1>1, <1>2, <2>3
<1>5. waiting' \in Seq(Request)
  BY <1>1, <1>2, <1>3, <1>4 DEF Without
<1>6. \A p \in Request : at'[p] = IF p = waiting[i] THEN to ELSE at[p]
  BY DEF Functions
<1> HIDE DEF n, old
<1>7. \A j, k \in 1..n : waiting[j] = waiting[k] => j = k
  BY <1>1 DEF QueueInv, MutexIsHanded
<1>8. \A p \in Request : at'[p] = "waits" <=> \E j \in 1..(n - 1) : waiting'[j] = p
  <2> SUFFICES ASSUME NEW p \in Request
               PROVE  at'[p] = "waits" <=> \E j \in 1..(n - 1) : waiting'[j] = p
    OBVIOUS
  <2>1. at[p] = "waits" <=> \E j \in 1..n : waiting[j] = p
    BY <1>1 DEF QueueInv, MutexIsHanded
  <2>2. CASE p = waiting[i]
    BY <1>2, <1>3, <1>4, <1>6, <1>7, <2>2
  <2>3. CASE p # waiting[i]
    <3>1. (\E j \in 1..n : waiting[j] = p) <=> (\E j \in 1..(n - 1) : waiting[old(j)] = p)
      BY <1>4, <2>3
    <3> QED
      BY <1>3, <1>6, <2>1, <2>3, <3>1
  <2> QED
    BY <2>2, <2>3
<1>9. \A j, k \in 1..(n - 1) : waiting'[j] = waiting'[k] => j = k
  BY <1>3, <1>4, <1>7
<1> QED
  BY <1>3, <1>5, <1>8, <1>9

\* the steps that leave the queue alone, and the one at the head
LEMMA QueueStep == QueueInv /\ MutexInv /\ [Next]_vars => QueueInv'
<1> SUFFICES ASSUME QueueInv, MutexInv, [Next]_vars PROVE QueueInv'
  OBVIOUS
<1>0. Functions
  BY DEF MutexInv
<1>1. ASSUME NEW q \in Request, Arrive(q) PROVE QueueInv'
  BY <1>0, <1>1, QueueGrows DEF Arrive, Goes
<1>2. ASSUME NEW q \in Request, HangUp(q) PROVE QueueInv'
  <2>1. PICK i \in DOMAIN waiting : waiting[i] = q /\ waiting' = Without(waiting, i)
    BY <1>2 DEF HangUp
  <2>2. at[q] = "waits" /\ at' = [at EXCEPT ![q] = "gone"] /\ holder' = holder
    BY <1>2 DEF HangUp, Goes
  <2>3. holder' # Nobody => at'[holder'] \in {"holds", "works"}
    BY <1>0, <2>2 DEF QueueInv, QueueType, MutexIsHanded, Functions
  <2> QED
    BY <1>0, <2>1, <2>2, <2>3, QueueShrinks DEF QueueInv, QueueType, MutexIsHanded
<1>3. ASSUME NEW q \in Request, Lock(q) PROVE QueueInv'
  <2>1. /\ waiting # << >> /\ Head(waiting) = q /\ waiting' = Tail(waiting)
        /\ holder' = q /\ at' = [at EXCEPT ![q] = "holds"]
    BY <1>3 DEF Lock, Goes
  <2>2. 1 \in DOMAIN waiting /\ waiting[1] = q /\ Tail(waiting) = Without(waiting, 1)
    <3> DEFINE n == Len(waiting)
    <3>1. /\ n \in Nat \ {0} /\ DOMAIN waiting = 1..n /\ waiting[1] = q
          /\ Tail(waiting) \in Seq(Request) /\ Len(Tail(waiting)) = n - 1
          /\ \A j \in 1..(n - 1) : Tail(waiting)[j] = waiting[j + 1]
      BY <2>1 DEF QueueInv, QueueType
    <3>2. Tail(waiting) = [j \in 1..(n - 1) |-> Tail(waiting)[j]]
      <4> DEFINE rest == Tail(waiting)
      <4>1. rest = [j \in DOMAIN rest |-> rest[j]] /\ DOMAIN rest = 1..(n - 1)
        <5>1. rest \in Seq(Request) /\ Len(rest) = n - 1
          BY <3>1
        <5> HIDE DEF rest, n
        <5> QED
          BY <5>1
      <4> HIDE DEF rest, n
      <4>2. rest = [j \in 1..(n - 1) |-> rest[j]]
        BY <4>1
      <4> QED
        BY <4>2 DEF rest
    <3>3. Without(waiting, 1) = [j \in 1..(n - 1) |-> waiting[j + 1]]
      BY <3>1 DEF Without
    <3> HIDE DEF n
    <3> QED
      BY <3>1, <3>2, <3>3
  <2>3. at'[q] = "holds"
    BY <1>0, <2>1 DEF Functions
  <2> QED
    BY <1>0, <2>1, <2>2, <2>3, QueueShrinks DEF QueueInv, QueueType, MutexIsHanded
<1>4. ASSUME waiting' = waiting,
             \A p \in Request : at'[p] = "waits" <=> at[p] = "waits",
             \/ holder' = holder /\ (holder # Nobody => at'[holder] \in {"holds", "works"})
             \/ holder' = Nobody
      PROVE  QueueInv'
  BY <1>4 DEF QueueInv, QueueType, MutexIsHanded
<1>5. ASSUME NEW q \in Request, Decide(q) PROVE QueueInv'
  BY <1>0, <1>4, <1>5 DEF Decide, Goes, mutex, Functions, QueueInv, QueueType, MutexIsHanded
<1>6. ASSUME NEW q \in Request, Finish(q) PROVE QueueInv'
  BY <1>0, <1>4, <1>6 DEF Finish, Goes, Functions
<1>7. ASSUME NEW q \in Request,
             ArriveToRead(q) \/ CountRejection(q) \/ CountExecution(q) \/ CountToken(q)
               \/ TimeToken(q) \/ Render(q)
      PROVE QueueInv'
  <2>1. /\ at[q] \in {"new", "counts", "times", "reads"}
        /\ \E to \in {"reads", "answered", "times"} : at' = [at EXCEPT ![q] = to]
        /\ waiting' = waiting /\ holder' = holder
    BY <1>7 DEF ArriveToRead, CountRejection, CountExecution, CountToken, TimeToken, Render,
      Goes, mutex
  <2>2. \A p \in Request : at'[p] = at[p] \/ p = q
    BY <1>0, <2>1 DEF Functions
  <2>3. at'[q] # "waits"
    BY <1>0, <2>1 DEF Functions
  <2>4. holder # Nobody => holder # q
    BY <2>1 DEF QueueInv, QueueType, MutexIsHanded
  <2>5. holder # Nobody => at'[holder] \in {"holds", "works"}
    BY <2>2, <2>4 DEF QueueInv, QueueType, MutexIsHanded
  <2> QED
    BY <1>4, <2>1, <2>2, <2>3, <2>5
<1>8. ASSUME CtrlC \/ Exit \/ UNCHANGED vars PROVE QueueInv'
  BY <1>8 DEF CtrlC, Exit, vars, mutex, QueueInv, QueueType, MutexIsHanded
<1> QED
  BY <1>1, <1>2, <1>3, <1>5, <1>6, <1>7, <1>8 DEF Next, Handler

\* nobody is in line at the start
LEMMA QueueInit == Init => QueueInv
<1>1. << >> \in Seq(Request)
  OBVIOUS
<1> QED
  BY <1>1, NobodyAsks DEF Init, QueueInv, QueueType, MutexIsHanded

-----------------------------------------------------------------------------
(***************************************************************************)
(* The books.  Every counter is the number of the handlers that counted    *)
(* under it; an arrived request is under exactly one of them, or leaves no *)
(* trace but its own count.                                                *)
(***************************************************************************)
Arrived  == {q \in Request : at[q] # "new"}
Executed == {q \in Request : at[q] = "answered" /\ route[q] = "execute" /\ result[q] = "Ok"}
Issued   == {q \in Request : /\ at[q] \in {"times", "answered"}
                             /\ route[q] = "tokens" /\ result[q] = "Ok"}
RefusedWith(c) == {q \in Request : at[q] = "answered" /\ IsCounted(q) /\ result[q] = c}

Books ==
  /\ metrics.requests = Cardinality(Arrived)
  /\ metrics.issued = Cardinality(Issued)
  /\ metrics.executions = Cardinality(Executed)
  /\ \A c \in Code : metrics.rejections[c] = Cardinality(RefusedWith(c))

\* how far a handler is tells what it was asked for and what it decided
Progress ==
  \A q \in Request :
    /\ at[q] # "new" => route[q] # "none"
    /\ at[q] = "reads" => route[q] = "metrics"
    /\ at[q] \in {"waits", "holds", "works", "counts", "times"} => route[q] # "metrics"
    /\ at[q] \in {"works", "counts", "times", "answered"} /\ route[q] # "metrics"
         => result[q] \in Code \cup {"Ok"}
    /\ at[q] = "counts" => IsCounted(q)
    /\ at[q] = "times" => route[q] = "tokens" /\ result[q] = "Ok"
    /\ at[q] \in {"counts", "answered"} /\ route[q] = "execute" /\ result[q] = "Ok"
         => q \in acted

\* what the books need of a state
Accounted == Functions /\ Progress /\ metrics \in Metrics

\* sets of requests are finite
LEMMA RequestsAreFinite ==
  ASSUME NEW S \in SUBSET Request
  PROVE  IsFiniteSet(S) /\ Cardinality(S) \in Nat
<1>1. IsFiniteSet(Request)
  BY ServiceAssumption, FS_Interval DEF Request
<1> QED
  BY <1>1, FS_Subset, FS_CardinalityType

\* one more request in a set
LEMMA OneMore ==
  ASSUME NEW S \in SUBSET Request, NEW q \in Request, q \notin S
  PROVE  Cardinality(S \cup {q}) = Cardinality(S) + 1
BY RequestsAreFinite, FS_AddElement

\* two sets without a common request
LEMMA TwoParts ==
  ASSUME NEW S \in SUBSET Request, NEW T \in SUBSET Request, S \cap T = {}
  PROVE  Cardinality(S \cup T) = Cardinality(S) + Cardinality(T)
<1>1. IsFiniteSet(S) /\ IsFiniteSet(T) /\ Cardinality(S) \in Nat /\ Cardinality(T) \in Nat
  BY RequestsAreFinite
<1>2. Cardinality(S \cap T) = 0
  BY FS_EmptySet
<1>3. Cardinality(S \cup T) = Cardinality(S) + Cardinality(T) - Cardinality(S \cap T)
  BY <1>1, FS_Union
<1> QED
  BY <1>1, <1>2, <1>3

\* the sets are sets of requests
LEMMA BooksAreSets ==
  /\ Arrived \in SUBSET Request /\ Executed \in SUBSET Request /\ Issued \in SUBSET Request
  /\ \A c : RefusedWith(c) \in SUBSET Request
BY DEF Arrived, Executed, Issued, RefusedWith

\* a handler goes on as its place in the handler lets it
LEMMA ProgressStep == Functions /\ Progress /\ [Next]_vars => Progress'
<1> SUFFICES ASSUME Functions, Progress, [Next]_vars PROVE Progress'
  OBVIOUS
<1> USE DEF Functions, Progress, Goes, IsCounted
<1>1. ASSUME NEW q \in Request, Arrive(q) \/ ArriveToRead(q) PROVE Progress'
  BY <1>1, RoutesAre DEF Arrive, ArriveToRead, Accept, node, Routes
<1>2. ASSUME NEW q \in Request, HangUp(q) \/ Lock(q) PROVE Progress'
  BY <1>2 DEF HangUp, Lock, node
<1>3. ASSUME NEW q \in Request, Decide(q) PROVE Progress'
  <2>1. route[q] \in {"tokens", "assign", "status", "execute", "stop", "clear"}
    BY <1>3 DEF Decide
  <2>2. \A decision \in Decisions(q) : decision \in Code \cup {"Ok"}
    BY <2>1 DEF Decisions, Code, Switches
  <2> QED
    BY <1>3, <2>2 DEF Decide
<1>4. ASSUME NEW q \in Request, Finish(q) PROVE Progress'
  <2>1. acted \subseteq acted'
    BY <1>4 DEF Finish
  <2>2. route[q] = "execute" /\ result[q] = "Ok" => q \in acted'
    BY <1>4 DEF Finish, Acts
  <2> QED
    BY <1>4, <2>1, <2>2 DEF Finish
<1>5. ASSUME NEW q \in Request,
             CountRejection(q) \/ CountExecution(q) \/ CountToken(q) \/ TimeToken(q)
               \/ Render(q)
      PROVE Progress'
  BY <1>5 DEF CountRejection, CountExecution, CountToken, TimeToken, Render, node
<1>6. ASSUME CtrlC \/ Exit \/ UNCHANGED vars PROVE Progress'
  BY <1>6 DEF CtrlC, Exit, vars, node
<1> QED
  BY <1>1, <1>2, <1>3, <1>4, <1>5, <1>6 DEF Next, Handler

\* an arrival is counted at once
LEMMA BooksOfArrivals ==
  ASSUME Accounted, Books, NEW q \in Request, Arrive(q) \/ ArriveToRead(q)
  PROVE  Books'
<1> USE DEF Accounted, Functions
<1>1. /\ at[q] = "new" /\ result' = result
      /\ \A p \in Request : p # q => at'[p] = at[p] /\ route'[p] = route[p]
      /\ at'[q] \in {"waits", "reads"}
      /\ metrics' = [metrics EXCEPT !.requests = @ + 1]
  BY DEF Arrive, ArriveToRead, Accept, Goes, node
<1>2. Arrived' = Arrived \cup {q} /\ q \notin Arrived
  BY <1>1 DEF Arrived
<1>3. Issued' = Issued /\ Executed' = Executed
  BY <1>1 DEF Issued, Executed
<1>4. \A c : RefusedWith(c)' = RefusedWith(c)
  BY <1>1 DEF RefusedWith, IsCounted
<1>5. /\ metrics'.requests = metrics.requests + 1 /\ metrics'.issued = metrics.issued
      /\ metrics'.executions = metrics.executions /\ metrics'.rejections = metrics.rejections
  BY <1>1 DEF Metrics
<1> QED
  BY <1>2, <1>3, <1>4, <1>5, BooksAreSets, OneMore DEF Books

\* nothing is counted while the mutex is waited for or held
LEMMA BooksOfWork ==
  ASSUME Accounted, Books, NEW q \in Request, HangUp(q) \/ Lock(q) \/ Decide(q) \/ Finish(q)
  PROVE  Books'
<1> USE DEF Accounted, Functions
<1>1. /\ at[q] \in {"waits", "holds", "works"} /\ at'[q] # "new" /\ route' = route
      /\ \A p \in Request : p # q => at'[p] = at[p] /\ result'[p] = result[p]
      /\ \/ at'[q] \in {"gone", "holds", "works", "counts"}
         \/ at'[q] = "answered" /\ ~IsCounted(q) /\ result' = result
      /\ metrics' = metrics
  <2>1. CASE HangUp(q)
    BY <2>1 DEF HangUp, Goes, node, counters
  <2>2. CASE Lock(q)
    BY <2>2 DEF Lock, Goes, node, counters
  <2>3. CASE Decide(q)
    BY <2>3 DEF Decide, Goes, counters
  <2>4. CASE Finish(q)
    BY <2>4 DEF Finish, Goes, counters
  <2> QED
    BY <2>1, <2>2, <2>3, <2>4
<1>2. Arrived' = Arrived
  BY <1>1 DEF Arrived
<1>3. Issued' = Issued /\ Executed' = Executed
  BY <1>1 DEF Issued, Executed, IsCounted
<1>4. \A c : RefusedWith(c)' = RefusedWith(c)
  BY <1>1 DEF RefusedWith, IsCounted
<1> QED
  BY <1>1, <1>2, <1>3, <1>4 DEF Books

\* every outcome is counted once, under its name
LEMMA BooksOfOutcomes ==
  ASSUME Accounted, Books, NEW q \in Request,
         CountRejection(q) \/ CountExecution(q) \/ CountToken(q) \/ TimeToken(q)
  PROVE  Books'
<1> USE DEF Accounted, Functions
<1>1. /\ at[q] \in {"counts", "times"} /\ route' = route /\ result' = result
      /\ \A p \in Request : p # q => at'[p] = at[p]
      /\ at'[q] \in {"answered", "times"}
  BY DEF CountRejection, CountExecution, CountToken, TimeToken, Goes, node
<1>2. Arrived' = Arrived
  BY <1>1 DEF Arrived
<1>3. IsCounted(q) /\ result[q] \in Code \cup {"Ok"} /\ "Ok" \notin Code
  BY <1>1 DEF Progress, IsCounted, Code
<1>4. CASE CountRejection(q)
  <2>1. at[q] = "counts" /\ at'[q] = "answered" /\ result[q] \in Code
    BY <1>3, <1>4 DEF CountRejection, Goes
  <2>2. Issued' = Issued /\ Executed' = Executed
    BY <1>1, <1>3, <2>1 DEF Issued, Executed
  <2>c. PICK code \in Code : code = result[q]
    BY <2>1
  <2>3. \A c : c # code => RefusedWith(c)' = RefusedWith(c)
    BY <1>1, <2>1, <2>c DEF RefusedWith, IsCounted
  <2>4. RefusedWith(code)' = RefusedWith(code) \cup {q} /\ q \notin RefusedWith(code)
    BY <1>1, <1>3, <2>1, <2>c DEF RefusedWith, IsCounted
  <2> DEFINE old == metrics.rejections
             new == [old EXCEPT ![code] = @ + 1]
  <2>5. old \in [Code -> Nat]
    BY DEF Metrics
  <2>6. new[code] = old[code] + 1 /\ \A c \in Code : c # code => new[c] = old[c]
    BY <2>5
  <2>7. /\ metrics'.requests = metrics.requests /\ metrics'.issued = metrics.issued
        /\ metrics'.executions = metrics.executions /\ metrics'.rejections = new
    BY <1>4, <2>c DEF CountRejection, Metrics
  <2> HIDE DEF new
  <2>8. \A c \in Code : metrics'.rejections[c] = Cardinality(RefusedWith(c)')
    <3>1. Cardinality(RefusedWith(code)') = Cardinality(RefusedWith(code)) + 1
      BY <2>4, BooksAreSets, OneMore
    <3>2. \A c \in Code : old[c] = Cardinality(RefusedWith(c))
      BY DEF Books
    <3> HIDE DEF old
    <3> QED
      BY <2>3, <2>6, <2>7, <3>1, <3>2
  <2> QED
    BY <1>2, <2>2, <2>7, <2>8 DEF Books
<1>5. CASE CountExecution(q)
  <2>1. /\ at[q] = "counts" /\ at'[q] = "answered" /\ result[q] = "Ok" /\ route[q] = "execute"
        /\ metrics' = [metrics EXCEPT !.executions = @ + 1]
    BY <1>5 DEF CountExecution, Goes
  <2>2. Issued' = Issued /\ Executed' = Executed \cup {q} /\ q \notin Executed
    BY <1>1, <2>1 DEF Issued, Executed
  <2>3. \A c \in Code : RefusedWith(c)' = RefusedWith(c)
    BY <1>1, <1>3, <2>1 DEF RefusedWith, IsCounted
  <2>4. /\ metrics'.requests = metrics.requests /\ metrics'.issued = metrics.issued
        /\ metrics'.executions = metrics.executions + 1
        /\ metrics'.rejections = metrics.rejections
    BY <2>1 DEF Metrics
  <2> QED
    BY <1>2, <2>2, <2>3, <2>4, BooksAreSets, OneMore DEF Books
<1>6. CASE CountToken(q)
  <2>1. /\ at[q] = "counts" /\ at'[q] = "times" /\ result[q] = "Ok" /\ route[q] = "tokens"
        /\ metrics' = [metrics EXCEPT !.issued = @ + 1]
    BY <1>6 DEF CountToken, Goes
  <2>2. Executed' = Executed /\ Issued' = Issued \cup {q} /\ q \notin Issued
    BY <1>1, <2>1 DEF Issued, Executed
  <2>3. \A c \in Code : RefusedWith(c)' = RefusedWith(c)
    BY <1>1, <1>3, <2>1 DEF RefusedWith, IsCounted
  <2>4. /\ metrics'.requests = metrics.requests /\ metrics'.issued = metrics.issued + 1
        /\ metrics'.executions = metrics.executions
        /\ metrics'.rejections = metrics.rejections
    BY <2>1 DEF Metrics
  <2> QED
    BY <1>2, <2>2, <2>3, <2>4, BooksAreSets, OneMore DEF Books
<1>7. CASE TimeToken(q)
  <2>1. /\ at[q] = "times" /\ at'[q] = "answered" /\ result[q] = "Ok" /\ route[q] = "tokens"
    BY <1>7 DEF TimeToken, Goes, Progress
  <2>2. Executed' = Executed /\ Issued' = Issued
    BY <1>1, <2>1 DEF Issued, Executed
  <2>3. \A c \in Code : RefusedWith(c)' = RefusedWith(c)
    BY <1>1, <1>3, <2>1 DEF RefusedWith, IsCounted
  <2>4. /\ metrics'.requests = metrics.requests /\ metrics'.issued = metrics.issued
        /\ metrics'.executions = metrics.executions
        /\ metrics'.rejections = metrics.rejections
    BY <1>7 DEF TimeToken, Metrics
  <2> QED
    BY <1>2, <2>2, <2>3, <2>4 DEF Books
<1> QED
  BY <1>4, <1>5, <1>6, <1>7

\* the rest counts nothing
LEMMA BooksStep == Accounted /\ Books /\ [Next]_vars => Books'
<1> SUFFICES ASSUME Accounted, Books, [Next]_vars PROVE Books'
  OBVIOUS
<1>1. ASSUME NEW q \in Request, Render(q) PROVE Books'
  <2>1. /\ at[q] = "reads" /\ at'[q] \in {"reads", "answered"} /\ route[q] = "metrics"
        /\ route' = route /\ result' = result /\ metrics' = metrics
        /\ \A p \in Request : p # q => at'[p] = at[p]
    BY <1>1 DEF Render, Goes, node, Accounted, Functions, Progress
  <2>2. Arrived' = Arrived /\ Issued' = Issued /\ Executed' = Executed
    BY <2>1 DEF Arrived, Issued, Executed
  <2>3. \A c : RefusedWith(c)' = RefusedWith(c)
    BY <2>1 DEF RefusedWith, IsCounted
  <2> QED
    BY <2>1, <2>2, <2>3 DEF Books
<1>2. ASSUME CtrlC \/ Exit \/ UNCHANGED vars PROVE Books'
  BY <1>2 DEF CtrlC, Exit, vars, node, counters, Books, Arrived, Issued, Executed,
    RefusedWith, IsCounted
<1> QED
  BY <1>1, <1>2, BooksOfArrivals, BooksOfWork, BooksOfOutcomes DEF Next, Handler

\* no request has arrived at the start
LEMMA BooksInit == Init => Progress /\ Books
<1> SUFFICES ASSUME Init PROVE Progress /\ Books
  OBVIOUS
<1>1. Arrived = {} /\ Issued = {} /\ Executed = {} /\ \A c : RefusedWith(c) = {}
  BY DEF Init, Arrived, Issued, Executed, RefusedWith
<1>2. Progress
  BY DEF Init, Progress
<1>3. /\ metrics.requests = 0 /\ metrics.issued = 0 /\ metrics.executions = 0
      /\ \A c \in Code : metrics.rejections[c] = 0
  BY DEF Init, NoMetrics
<1> QED
  BY <1>1, <1>2, <1>3, FS_EmptySet DEF Books

\* when nothing is in progress every request is under one name
LEMMA BooksAddUp ==
  ASSUME Accounted, Books, Idle
  PROVE  metrics.requests = metrics.issued + metrics.executions + Refused
           + Cardinality({q \in Request : at[q] # "new" /\ Traceless(q)})
<1> USE DEF Accounted, Functions
<1> DEFINE T  == {q \in Request : at[q] # "new" /\ Traceless(q)}
           R1 == RefusedWith("EMERGENCY_STOP_ACTIVE")
           R2 == RefusedWith("INTERNAL_ERROR")
           R3 == RefusedWith("OTHER")
           A1 == Issued \cup Executed
           A2 == R1 \cup R2
           A3 == A2 \cup R3
           A4 == A1 \cup A3
<1>1. /\ Issued \in SUBSET Request /\ Executed \in SUBSET Request /\ T \in SUBSET Request
      /\ R1 \in SUBSET Request /\ R2 \in SUBSET Request /\ R3 \in SUBSET Request
  BY BooksAreSets
<1>2. Issued \cap Executed = {} /\ R1 \cap R2 = {} /\ A2 \cap R3 = {}
  BY DEF Issued, Executed, RefusedWith
<1>3. A1 \cap A3 = {}
  BY DEF Issued, Executed, RefusedWith
<1>4. A4 \cap T = {}
  BY DEF Issued, Executed, RefusedWith, Traceless, Switches, IsCounted
<1>5. Arrived = A4 \cup T
  <2>1. ASSUME NEW q \in Request, at[q] = "answered" PROVE q \in A4 \cup T
    <3>1. CASE ~IsCounted(q)
      BY <2>1, <3>1 DEF IsCounted, Traceless, Switches, Progress
    <3>2. CASE IsCounted(q) /\ result[q] = "Ok"
      BY <2>1, <3>2 DEF IsCounted, Issued, Executed
    <3>3. CASE IsCounted(q) /\ result[q] # "Ok"
      <4>1. result[q] \in Code
        BY <2>1, <3>3 DEF Progress, IsCounted
      <4> QED
        BY <2>1, <3>3, <4>1 DEF Code, RefusedWith
    <3> QED
      BY <3>1, <3>2, <3>3
  <2>2. ASSUME NEW q \in Request, at[q] = "gone" PROVE q \in T
    BY <2>2 DEF Traceless
  <2>3. A4 \cup T \subseteq Arrived
    BY DEF Issued, Executed, RefusedWith, Arrived
  <2>4. \A q \in Arrived : q \in Request /\ at[q] \in {"answered", "gone"}
    BY DEF Idle, Arrived
  <2> HIDE DEF A4, T
  <2> QED
    BY <2>1, <2>2, <2>3, <2>4
<1>6. Cardinality(A1) = metrics.issued + metrics.executions
  BY <1>1, <1>2, TwoParts DEF Books
<1>7. Cardinality(A3) = Refused
  <2>1. Cardinality(A2) = Cardinality(R1) + Cardinality(R2)
    BY <1>1, <1>2, TwoParts
  <2>2. Cardinality(A3) = Cardinality(A2) + Cardinality(R3)
    BY <1>1, <1>2, TwoParts
  <2>3. /\ metrics.rejections["EMERGENCY_STOP_ACTIVE"] = Cardinality(R1)
        /\ metrics.rejections["INTERNAL_ERROR"] = Cardinality(R2)
        /\ metrics.rejections["OTHER"] = Cardinality(R3)
    BY DEF Books, Code
  <2> HIDE DEF A2, A3, R1, R2, R3
  <2> QED
    BY <2>1, <2>2, <2>3 DEF Refused
<1>8. A1 \in SUBSET Request /\ A3 \in SUBSET Request /\ A4 \in SUBSET Request
  BY <1>1
<1>9. Cardinality(A4) = Cardinality(A1) + Cardinality(A3)
  <2> HIDE DEF A1, A3
  <2> QED
    BY <1>3, <1>8, TwoParts
<1>10. Cardinality(Arrived) = Cardinality(A4) + Cardinality(T)
  <2> HIDE DEF A4, T
  <2> QED
    BY <1>1, <1>4, <1>5, <1>8, TwoParts
<1>11. metrics.requests = Cardinality(Arrived)
  BY DEF Books
<1> HIDE DEF A1, A3, A4
<1> QED
  BY <1>6, <1>7, <1>9, <1>10, <1>11

\* only requests act, and the service is up, stopping or down
RestType ==
  /\ serving \in {"up", "stopping", "down"} /\ acted \subseteq Request
  /\ emergency_stop \in BOOLEAN
  /\ \A q \in Request : route[q] \in Routes[role] \cup {"none"}

\* the rest of the state keeps its types
LEMMA RestStep == Functions /\ RestType /\ [Next]_vars => RestType'
<1> SUFFICES ASSUME Functions, RestType, [Next]_vars PROVE RestType'
  OBVIOUS
<1> USE DEF RestType
<1>1. ASSUME NEW q \in Request, Arrive(q) \/ ArriveToRead(q) PROVE RestType'
  <2>1. PICK r \in Routes[role] : Accept(q, r)
    BY <1>1 DEF Arrive, ArriveToRead, Routes, Functions
  <2>2. /\ \A p \in Request : route'[p] \in {route[p], r}
        /\ role' = role /\ emergency_stop' = emergency_stop /\ acted' = acted
        /\ serving' = serving
    BY <1>1, <2>1 DEF Arrive, ArriveToRead, Accept, node, Functions
  <2> QED
    BY <2>1, <2>2
<1>2. ASSUME NEW q \in Request, Decide(q) PROVE RestType'
  BY <1>2 DEF Decide
<1>3. ASSUME NEW q \in Request, Finish(q) PROVE RestType'
  BY <1>3 DEF Finish
<1>4. ASSUME NEW q \in Request,
             HangUp(q) \/ Lock(q) \/ CountRejection(q) \/ CountExecution(q)
               \/ CountToken(q) \/ TimeToken(q) \/ Render(q)
      PROVE RestType'
  BY <1>4 DEF HangUp, Lock, CountRejection, CountExecution, CountToken, TimeToken, Render, node
<1>5. ASSUME CtrlC \/ Exit \/ UNCHANGED vars PROVE RestType'
  BY <1>5 DEF CtrlC, Exit, vars, node
<1> QED
  BY <1>1, <1>2, <1>3, <1>4, <1>5 DEF Next, Handler

\* the rest of the state has its types at the start
LEMMA RestInit == Init => RestType
BY DEF Init, RestType

(***************************************************************************)
(* Everything that is true of a state of the service at any time.          *)
(***************************************************************************)
ServiceInv ==
  /\ MutexInv /\ QueueInv /\ RestType /\ Progress /\ Books
  /\ CounterTypes /\ ShownTypes /\ StartsBelow

\* the service keeps its invariant
LEMMA ServiceCorrect == Spec => []ServiceInv
<1>1. Init => ServiceInv
  BY MutexInit, QueueInit, RestInit, BooksInit, ReadingInit DEF ServiceInv, ReadingInv
<1>2. ServiceInv /\ [Next]_vars => ServiceInv'
  <2> SUFFICES ASSUME ServiceInv, [Next]_vars PROVE ServiceInv'
    OBVIOUS
  <2> USE DEF ServiceInv
  <2>1. Functions /\ Accounted
    BY DEF MutexInv, Accounted, CounterTypes
  <2>2. MutexInv' /\ QueueInv' /\ RestType' /\ Progress' /\ Books'
    BY <2>1, MutexStep, QueueStep, RestStep, ProgressStep, BooksStep
  <2>3. CounterTypes' /\ ShownTypes' /\ StartsBelow'
    BY <2>1, ShownStep, StartStep
  <2> QED
    BY <2>2, <2>3
<1> QED
  BY <1>1, <1>2, PTL DEF Spec

\* The type invariant of the service holds for any number of requests.
THEOREM TypeCorrect == Spec => []TypeOK
<1>1. ServiceInv => TypeOK
  <2> SUFFICES ASSUME ServiceInv PROVE TypeOK
    OBVIOUS
  <2>1. role \in DOMAIN Routes /\ route \in [Request -> Routes[role] \cup {"none"}]
    BY DEF ServiceInv, MutexInv, Functions, RestType, Routes
  <2>2. \A q \in Request : \A i \in DOMAIN shown[q] :
          shown[q][i] \in IF Counter[i] = "rejections" THEN [Code -> Nat] ELSE Nat
    BY DEF ServiceInv, ShownTypes, Reading
  <2> QED
    BY <2>1, <2>2 DEF ServiceInv, MutexInv, Functions, QueueInv, QueueType, RestType,
      CounterTypes, TypeOK
<1> QED
  BY <1>1, ServiceCorrect, PTL

\* When nothing is in progress the counters agree with each other, and robots
\* did no less than what is counted as executed (main.rs:1415-1538).
THEOREM BooksCorrect == Spec => []BooksBalance
<1>1. ServiceInv => BooksBalance
  <2> SUFFICES ASSUME ServiceInv PROVE BooksBalance
    OBVIOUS
  <2>1. Accounted /\ Books /\ acted \in SUBSET Request
    BY DEF ServiceInv, MutexInv, Accounted, CounterTypes, RestType
  <2>2. Executed \in SUBSET acted
    BY DEF ServiceInv, Progress, Executed
  <2>3. metrics.executions <= Cardinality(acted)
    BY <2>1, <2>2, RequestsAreFinite, FS_Subset DEF Books
  <2> QED
    BY <2>1, <2>3, BooksAddUp DEF BooksBalance
<1> QED
  BY <1>1, ServiceCorrect, PTL

\* While a request is in progress some handler can go on, however often
\* clients hang up (main.rs:1309-1317, 1415-1538).
THEOREM NeverStuck == Spec => []NobodyIsStuck
<1>1. ServiceInv => NobodyIsStuck
  <2> SUFFICES ASSUME ServiceInv, NEW q \in Request,
                      at[q] \notin {"new", "answered", "gone"}
               PROVE  \E p \in Request : CanGoOn(p)
    BY DEF NobodyIsStuck, Idle
  <2>1. /\ Functions /\ Progress /\ QueueType /\ MutexIsHanded
        /\ \A p \in Request : route[p] \in Routes[role] \cup {"none"}
    BY DEF ServiceInv, MutexInv, QueueInv, RestType
  <2>2. ASSUME NEW p \in Request, at[p] = "holds" PROVE Decisions(p) # {}
    <3>1. route[p] \in {"tokens", "assign", "status", "execute", "stop", "clear"}
      BY <2>1, <2>2 DEF Functions
    <3> QED
      BY <3>1 DEF Decisions, Switches
  <2>3. ASSUME NEW p \in Request PROVE Acts(p) # {}
    BY DEF Acts
  <2>4. ASSUME NEW p \in Request, at[p] \in {"holds", "works"} PROVE CanGoOn(p)
    BY <2>2, <2>3, <2>4 DEF CanGoOn
  <2>5. CASE at[q] = "waits"
    <3>1. CASE holder = Nobody
      <4>1. waiting # << >> /\ Head(waiting) \in Request /\ Head(waiting) = waiting[1]
              /\ 1 \in DOMAIN waiting
        BY <2>1, <2>5 DEF QueueType, MutexIsHanded
      <4>2. at[Head(waiting)] = "waits"
        BY <2>1, <4>1 DEF MutexIsHanded
      <4> QED
        BY <3>1, <4>1, <4>2 DEF CanGoOn
    <3>2. CASE holder # Nobody
      <4>1. holder \in Request /\ at[holder] \in {"holds", "works"}
        BY <2>1, <3>2 DEF QueueType, MutexIsHanded
      <4>2. PICK p \in Request : p = holder
        BY <4>1
      <4>3. CanGoOn(p)
        BY <2>4, <4>1, <4>2
      <4> QED
        BY <4>2, <4>3, Zenon
    <3> QED
      BY <3>1, <3>2
  <2>6. CASE at[q] \in {"holds", "works"}
    BY <2>4, <2>6
  <2>7. CASE at[q] = "counts"
    BY <2>1, <2>7 DEF Progress, IsCounted, CanGoOn
  <2>8. CASE at[q] = "times"
    BY <2>8 DEF CanGoOn
  <2>9. CASE at[q] = "reads"
    <3>1. Len(shown[q]) \in 0..4 /\ Len(Counter) = 5
      BY <2>9 DEF ServiceInv, ShownTypes, Counter
    <3>2. Len(shown[q]) < Len(Counter)
      <4>1. \A n \in 0..4 : n < 5
        OBVIOUS
      <4> QED
        BY <3>1, <4>1, Zenon
    <3>3. CanGoOn(q)
      BY <2>9, <3>2, Zenon DEF CanGoOn
    <3> QED
      BY <3>3, Zenon
  <2> QED
    BY <2>1, <2>5, <2>6, <2>7, <2>8, <2>9 DEF Functions
<1> QED
  BY <1>1, ServiceCorrect, PTL
=============================================================================
