------------------------------ MODULE SignalProofs ------------------------------
(***************************************************************************)
(* The promises of the signal path, for any number of symbols, calls,      *)
(* failures and restarts, any window, history and clock.  A symbol has one *)
(* task, because the supervisor holds the stop handle of every task that   *)
(* is not reaped.  A window is an unbroken stretch of history, because     *)
(* what a task has and is about to push always ends in one.  A divergence  *)
(* is signalled once, because every task has it behind its watermark or    *)
(* before its window, unless its warm-up did not find it.  And an engine   *)
(* trades on a signal once, because an id is marked before it is traded    *)
(* on, one call at a time has it in hand, and only a call that did not     *)
(* trade unmarks it.                                                       *)
(***************************************************************************)
EXTENDS SignalPath, FunctionTheorems, FiniteSetTheorems, WellFoundedInduction, TLAPS

-----------------------------------------------------------------------------
(* One task per symbol.                                                    *)

\* What the fields of a task are is of no interest here: D is any set.
TaskIn(D) == [pc : D, driver : D, cursor : D, snap : D, batch : D, stop : D]

TasksTyped ==
  /\ \E D : task \in [Tasks -> TaskIn(D)]
  /\ stops \in [Symbols -> Tasks \cup {None}]

\* A task that is there is the one whose handle the supervisor holds.
HandlesHeld == \A t \in Tasks : task[t].pc # "free" => stops[Sym(t)] = t

TaskInv == TasksTyped /\ HandlesHeld

LEMMA TaskInMonotone ==
  ASSUME NEW D, NEW E, D \subseteq E
  PROVE  TaskIn(D) \subseteq TaskIn(E)
  BY DEF TaskIn

LEMMA FieldsKeepShape ==
  ASSUME NEW D, NEW x \in TaskIn(D), NEW v
  PROVE  LET E == D \cup {v} IN
         /\ [x EXCEPT !.pc = v] \in TaskIn(E) /\ [x EXCEPT !.pc = v].pc = v
         /\ [x EXCEPT !.stop = v] \in TaskIn(E) /\ [x EXCEPT !.stop = v].pc = x.pc
         /\ [x EXCEPT !.driver = v] \in TaskIn(E) /\ [x EXCEPT !.driver = v].pc = x.pc
         /\ [x EXCEPT !.cursor = v] \in TaskIn(E) /\ [x EXCEPT !.cursor = v].pc = x.pc
         /\ [x EXCEPT !.snap = v] \in TaskIn(E) /\ [x EXCEPT !.snap = v].pc = x.pc
         /\ [x EXCEPT !.batch = v] \in TaskIn(E) /\ [x EXCEPT !.batch = v].pc = x.pc
  BY DEF TaskIn

WithStop(x, v) == [x EXCEPT !.stop = v]

LEMMA StopKeepsShape ==
  ASSUME NEW D, NEW x \in TaskIn(D), NEW v
  PROVE  WithStop(x, v) \in TaskIn(D \cup {v}) /\ WithStop(x, v).pc = x.pc
  BY FieldsKeepShape DEF WithStop

LEMMA FreeTaskShape ==
  ASSUME NEW n
  PROVE  \E D : /\ FreeTask \in TaskIn(D) /\ FreeTask.pc = "free"
                /\ [FreeTask EXCEPT !.pc = "ended"] \in TaskIn(D)
                /\ [FreeTask EXCEPT !.pc = "warming", !.snap = n] \in TaskIn(D)
<1> DEFINE D == {"free", NewDriver, 0, <<>>, FALSE}
           E == D \cup {"ended"}
           F == D \cup {"warming"}
           G == F \cup {n}
           w == [FreeTask EXCEPT !.pc = "warming"]
<1>1. FreeTask \in TaskIn(D) /\ FreeTask.pc = "free"
  BY DEF FreeTask, TaskIn
<1> HIDE DEF D
<1>2. [FreeTask EXCEPT !.pc = "ended"] \in TaskIn(E)
  BY <1>1, FieldsKeepShape
<1>3. w \in TaskIn(F)
  BY <1>1, FieldsKeepShape
<1> HIDE DEF w
<1>4. [w EXCEPT !.snap = n] \in TaskIn(G)
  BY <1>3, FieldsKeepShape
<1> DEFINE H == G \cup E
<1>5. D \subseteq H /\ E \subseteq H /\ G \subseteq H
  OBVIOUS
<1>6. TaskIn(D) \subseteq TaskIn(H) /\ TaskIn(E) \subseteq TaskIn(H) /\ TaskIn(G) \subseteq TaskIn(H)
  BY <1>5, TaskInMonotone
<1> HIDE DEF E, F, G, H
<1>7. [FreeTask EXCEPT !.pc = "warming", !.snap = n] = [w EXCEPT !.snap = n]
  BY Zenon DEF w
<1>8. /\ FreeTask \in TaskIn(H) /\ [FreeTask EXCEPT !.pc = "ended"] \in TaskIn(H)
      /\ [w EXCEPT !.snap = n] \in TaskIn(H)
  BY <1>1, <1>2, <1>4, <1>6
<1>9. QED
  BY <1>1, <1>7, <1>8, Zenon

\* One task steps; it is there only if it was.
LEMMA TaskStepKeepsInv ==
  ASSUME TaskInv, NEW t \in Tasks, NEW x, NEW E, x \in TaskIn(E),
         x.pc # "free" => task[t].pc # "free",
         task' = [task EXCEPT ![t] = x], UNCHANGED stops
  PROVE  TaskInv'
<1>1. PICK D : task \in [Tasks -> TaskIn(D)]
  BY DEF TaskInv, TasksTyped
<1>2. TaskIn(D) \subseteq TaskIn(D \cup E) /\ TaskIn(E) \subseteq TaskIn(D \cup E)
  BY TaskInMonotone
<1>3. task' \in [Tasks -> TaskIn(D \cup E)]
  BY <1>1, <1>2
<1>4. TasksTyped'
  BY <1>3 DEF TaskInv, TasksTyped
<1>5. HandlesHeld'
  BY <1>1 DEF TaskInv, HandlesHeld
<1>6. QED
  BY <1>4, <1>5 DEF TaskInv

\* A new process, or the end of the supervisor, leaves no task.
LEMMA NoTasksIsInv ==
  ASSUME task' = [t \in Tasks |-> FreeTask], stops' = [s \in Symbols |-> None]
  PROVE  TaskInv'
<1>1. PICK D : FreeTask \in TaskIn(D) /\ FreeTask.pc = "free"
  BY FreeTaskShape, Zenon
<1> HIDE DEF FreeTask
<1>2. task' \in [Tasks -> TaskIn(D)]
  BY <1>1
<1>3. QED
  BY <1>1, <1>2 DEF TaskInv, TasksTyped, HandlesHeld

\* reconcile starts a task only where no handle is held, and holds its own.
LEMMA ReconcileKeepsInv ==
  ASSUME PathAssumption, TaskInv, NEW desired, desired \subseteq Symbols, Reconcile(desired)
  PROVE  TaskInv'
<1> DEFINE newcomers == {s \in desired : /\ stops[s] = None
                                         /\ s \notin stopping
                                         /\ backoff[s] = 0}
           gone == {s \in Symbols \ desired : stops[s] # None /\ s \notin stopping}
           place(s) == CHOOSE t \in {s} \X {1, 2} : task[t].pc = "free"
           new == [FreeTask EXCEPT !.pc = "warming", !.snap = clock]
           started(t) == Sym(t) \in newcomers /\ place(Sym(t)) = t
           asked(t) == Sym(t) \in gone /\ stops[Sym(t)] = t
<1>1. /\ \A s \in newcomers : \E t \in {s} \X {1, 2} : task[t].pc = "free"
      /\ stops' = [s \in Symbols |-> IF s \in newcomers THEN place(s) ELSE stops[s]]
      /\ task' = [t \in Tasks |-> IF started(t) THEN new
                                  ELSE IF asked(t) THEN [task[t] EXCEPT !.stop = TRUE]
                                  ELSE task[t]]
  BY Zenon DEF Reconcile
<1>2. \A s \in newcomers : s \in Symbols /\ stops[s] = None /\ place(s) \in {s} \X {1, 2}
  BY <1>1
<1>3. PICK D : task \in [Tasks -> TaskIn(D)]
  BY DEF TaskInv, TasksTyped
<1>4. PICK N : new \in TaskIn(N)
  BY FreeTaskShape, Zenon
<1> HIDE DEF newcomers, gone, place, new
<1> DEFINE E == D \cup {TRUE}
           F == E \cup N
<1>5. \A t \in Tasks : /\ [task[t] EXCEPT !.stop = TRUE] \in TaskIn(E)
                       /\ [task[t] EXCEPT !.stop = TRUE].pc = task[t].pc
  <2> TAKE t \in Tasks
  <2>1. task[t] \in TaskIn(D)
    BY <1>3
  <2>2. QED
    BY <2>1, StopKeepsShape DEF WithStop
<1>6. TaskIn(D) \subseteq TaskIn(F) /\ TaskIn(E) \subseteq TaskIn(F) /\ TaskIn(N) \subseteq TaskIn(F)
  BY TaskInMonotone
<1> HIDE DEF E, F
<1>7. task' \in [Tasks -> TaskIn(F)]
  BY <1>1, <1>3, <1>4, <1>5, <1>6
<1>8. stops' \in [Symbols -> Tasks \cup {None}]
  BY <1>1, <1>2 DEF TaskInv, TasksTyped, Tasks
<1>9. ASSUME NEW t \in Tasks, task'[t].pc # "free"
      PROVE  stops'[Sym(t)] = t
  <2>1. Sym(t) \in Symbols
    BY DEF Tasks, Sym
  <2>2. CASE started(t)
    BY <1>1, <2>1, <2>2
  <2>3. CASE ~started(t)
    <3>1. task[t].pc # "free"
      BY <1>1, <1>5, <1>9, <2>3
    <3>2. stops[Sym(t)] = t /\ t # None
      BY <3>1, PathAssumption DEF TaskInv, HandlesHeld, Tasks
    <3>3. Sym(t) \notin newcomers
      BY <3>2, <1>2
    <3>4. QED
      BY <1>1, <2>1, <3>2, <3>3
  <2>4. QED
    BY <2>2, <2>3
<1>10. QED
  BY <1>7, <1>8, <1>9 DEF TaskInv, TasksTyped, HandlesHeld

LEMMA ReapKeepsInv ==
  ASSUME PathAssumption, TaskInv, NEW t \in Tasks, Reap(t)
  PROVE  TaskInv'
<1>1. PICK D : task \in [Tasks -> TaskIn(D)]
  BY DEF TaskInv, TasksTyped
<1>2. PICK F : FreeTask \in TaskIn(F) /\ FreeTask.pc = "free"
  BY FreeTaskShape, Zenon
<1> HIDE DEF FreeTask
<1>3. TaskIn(D) \subseteq TaskIn(D \cup F) /\ TaskIn(F) \subseteq TaskIn(D \cup F)
  BY TaskInMonotone
<1>4. /\ task' = [task EXCEPT ![t] = FreeTask] /\ task[t].pc = "ended"
      /\ stops' = [stops EXCEPT ![Sym(t)] = None]
  BY DEF Reap
<1>5. task' \in [Tasks -> TaskIn(D \cup F)] /\ stops' \in [Symbols -> Tasks \cup {None}]
  BY <1>1, <1>2, <1>3, <1>4 DEF TaskInv, TasksTyped
<1>6. \A u \in Tasks : task'[u].pc # "free" => stops'[Sym(u)] = u
  <2>1. stops[Sym(t)] = t
    BY <1>4 DEF TaskInv, HandlesHeld
  <2>2. ASSUME NEW u \in Tasks, task'[u].pc # "free"
        PROVE  stops'[Sym(u)] = u
    <3>1. u # t /\ task[u].pc # "free"
      BY <1>1, <1>2, <1>4, <2>2
    <3>2. stops[Sym(u)] = u /\ Sym(u) # Sym(t)
      BY <2>1, <3>1 DEF TaskInv, HandlesHeld
    <3>3. Sym(u) \in Symbols
      BY DEF Tasks, Sym
    <3>4. QED
      BY <1>4, <3>2, <3>3 DEF TaskInv, TasksTyped
  <2>3. QED
    BY <2>2
<1>7. QED
  BY <1>5, <1>6 DEF TaskInv, TasksTyped, HandlesHeld

\* The supervisor leaves its loop: a stop request changes no task's place.
LEMMA SupBreakKeepsInv ==
  ASSUME TaskInv, SupBreak
  PROVE  TaskInv'
<1> DEFINE stop(t) == task[t].stop \/ \E s \in Symbols : stops[s] = t
<1>1. /\ task' = [t \in Tasks |-> [task[t] EXCEPT !.stop = stop(t)]]
      /\ UNCHANGED stops
  BY DEF SupBreak
<1>2. PICK D : task \in [Tasks -> TaskIn(D)]
  BY DEF TaskInv, TasksTyped
<1> DEFINE E == D \cup {stop(t) : t \in Tasks}
<1>3. ASSUME NEW t \in Tasks
      PROVE  /\ [task[t] EXCEPT !.stop = stop(t)] \in TaskIn(E)
             /\ [task[t] EXCEPT !.stop = stop(t)].pc = task[t].pc
  <2> DEFINE v == stop(t)
  <2>1. D \cup {v} \subseteq E
    OBVIOUS
  <2> HIDE DEF v, E
  <2>2. TaskIn(D \cup {v}) \subseteq TaskIn(E)
    BY <2>1, TaskInMonotone
  <2>3. /\ [task[t] EXCEPT !.stop = v] \in TaskIn(D \cup {v})
        /\ [task[t] EXCEPT !.stop = v].pc = task[t].pc
    <3>1. task[t] \in TaskIn(D)
      BY <1>2
    <3>2. QED
      BY <3>1, StopKeepsShape DEF WithStop
  <2>4. QED
    BY <2>2, <2>3 DEF v
<1> HIDE DEF stop, E
<1>4. task' \in [Tasks -> TaskIn(E)] /\ \A t \in Tasks : task'[t].pc = task[t].pc
  BY <1>1, <1>3
<1>5. QED
  BY <1>1, <1>4 DEF TaskInv, TasksTyped, HandlesHeld

-----------------------------------------------------------------------------
(* The steps of a task change its own record only.                         *)

\* f is task but for what it says of t.
ChangedAt(f, t) ==
  /\ \E D : f \in [Tasks -> TaskIn(D)]
  /\ \A u \in Tasks \ {t} : f[u] = task[u]

LEMMA FieldChangedAt ==
  ASSUME NEW f, NEW t \in Tasks, ChangedAt(f, t), NEW v
  PROVE  /\ ChangedAt([f EXCEPT ![t].pc = v], t)
         /\ ChangedAt([f EXCEPT ![t].driver = v], t)
         /\ ChangedAt([f EXCEPT ![t].cursor = v], t)
         /\ ChangedAt([f EXCEPT ![t].snap = v], t)
         /\ ChangedAt([f EXCEPT ![t].batch = v], t)
<1>1. PICK D : f \in [Tasks -> TaskIn(D)]
  BY DEF ChangedAt
<1> DEFINE E == D \cup {v}
           Fits(g) == g \in [Tasks -> TaskIn(E)] /\ \A u \in Tasks \ {t} : g[u] = task[u]
<1>2. TaskIn(D) \subseteq TaskIn(E) /\ f[t] \in TaskIn(D)
  BY <1>1, TaskInMonotone
<1>3. \A x \in TaskIn(E) : Fits([f EXCEPT ![t] = x])
  BY <1>1, <1>2 DEF ChangedAt
<1>4. /\ [f[t] EXCEPT !.pc = v] \in TaskIn(E)
      /\ [f[t] EXCEPT !.driver = v] \in TaskIn(E)
      /\ [f[t] EXCEPT !.cursor = v] \in TaskIn(E)
      /\ [f[t] EXCEPT !.snap = v] \in TaskIn(E)
      /\ [f[t] EXCEPT !.batch = v] \in TaskIn(E)
  BY <1>2, FieldsKeepShape
<1>5. /\ Fits([f EXCEPT ![t].pc = v]) /\ Fits([f EXCEPT ![t].driver = v])
      /\ Fits([f EXCEPT ![t].cursor = v]) /\ Fits([f EXCEPT ![t].snap = v])
      /\ Fits([f EXCEPT ![t].batch = v])
  <2> HIDE DEF Fits, E
  <2>1. QED
    BY <1>3, <1>4
<1>6. \A g : Fits(g) => ChangedAt(g, t)
  BY DEF ChangedAt
<1> HIDE DEF Fits
<1>7. QED
  BY <1>5, <1>6

LEMMA ChangedAtKeepsInv ==
  ASSUME TaskInv, NEW t \in Tasks, task[t].pc # "free", ChangedAt(task', t), UNCHANGED stops
  PROVE  TaskInv'
  BY DEF TaskInv, TasksTyped, HandlesHeld, ChangedAt

LEMMA EndTaskKeepsInv ==
  ASSUME TaskInv, NEW t \in Tasks, task[t].pc # "free", EndTask(t), UNCHANGED stops
  PROVE  TaskInv'
<1> DEFINE x == [FreeTask EXCEPT !.pc = "ended"]
<1>1. PICK E : x \in TaskIn(E)
  BY FreeTaskShape, Zenon
<1>2. task' = [task EXCEPT ![t] = x]
  BY DEF EndTask
<1> HIDE DEF x
<1>3. QED
  BY <1>1, <1>2, TaskStepKeepsInv

LEMMA TaskStepsKeepInv ==
  ASSUME TaskInv, NEW t \in Tasks,
         TaskStep(t) \/ WarmFails(t) \/ PollFails(t) \/ PushFails(t)
  PROVE  TaskInv'
<1> USE FieldChangedAt, ChangedAtKeepsInv
<1>0. ChangedAt(task, t)
  BY DEF TaskInv, TasksTyped, ChangedAt
<1>1. task[t].pc # "free" /\ UNCHANGED stops
  BY DEF TaskStep, Warm, Stop, StartPoll, Poll, Push, BatchDone, WarmFails, PollFails, PushFails,
         supVars
<1>2. CASE EndTask(t)
  BY <1>1, <1>2, EndTaskKeepsInv
<1>3. CASE \E p : task' = [task EXCEPT ![t].pc = p]
  <2>1. PICK p : task' = [task EXCEPT ![t].pc = p]
    BY <1>3
  <2>2. ChangedAt([task EXCEPT ![t].pc = p], t)
    BY <1>0
  <2>3. QED
    BY <1>1, <2>1, <2>2
<1>4. CASE \E p, n : task' = [task EXCEPT ![t].pc = p, ![t].snap = n]
  <2>1. PICK p, n : task' = [[task EXCEPT ![t].pc = p] EXCEPT ![t].snap = n]
    BY <1>4, Zenon
  <2> DEFINE f == [task EXCEPT ![t].pc = p]
  <2>2. ChangedAt(f, t)
    BY <1>0
  <2> HIDE DEF f
  <2>3. ChangedAt([f EXCEPT ![t].snap = n], t)
    BY <2>2
  <2>4. QED
    BY <1>1, <2>1, <2>3 DEF f
<1>5. CASE \E p, b, c : task' = [task EXCEPT ![t].pc = p, ![t].batch = b, ![t].cursor = c]
  <2>1. PICK p, b, c : task' = [[[task EXCEPT ![t].pc = p] EXCEPT ![t].batch = b]
                                 EXCEPT ![t].cursor = c]
    BY <1>5, Zenon
  <2> DEFINE f == [task EXCEPT ![t].pc = p]
             g == [f EXCEPT ![t].batch = b]
  <2>2. ChangedAt(f, t)
    BY <1>0
  <2> HIDE DEF f
  <2>3. ChangedAt(g, t)
    BY <2>2
  <2> HIDE DEF g
  <2>4. ChangedAt([g EXCEPT ![t].cursor = c], t)
    BY <2>3
  <2>5. QED
    BY <1>1, <2>1, <2>4 DEF f, g
<1>6. CASE \E p, c, d : task' = [task EXCEPT ![t].pc = p, ![t].cursor = c, ![t].driver = d]
  <2>1. PICK p, c, d : task' = [[[task EXCEPT ![t].pc = p] EXCEPT ![t].cursor = c]
                                 EXCEPT ![t].driver = d]
    BY <1>6, Zenon
  <2> DEFINE f == [task EXCEPT ![t].pc = p]
             g == [f EXCEPT ![t].cursor = c]
  <2>2. ChangedAt(f, t)
    BY <1>0
  <2> HIDE DEF f
  <2>3. ChangedAt(g, t)
    BY <2>2
  <2> HIDE DEF g
  <2>4. ChangedAt([g EXCEPT ![t].driver = d], t)
    BY <2>3
  <2>5. QED
    BY <1>1, <2>1, <2>4 DEF f, g
<1>7. CASE \E d, b : task' = [task EXCEPT ![t].driver = d, ![t].batch = b]
  <2>1. PICK d, b : task' = [[task EXCEPT ![t].driver = d] EXCEPT ![t].batch = b]
    BY <1>7, Zenon
  <2> DEFINE f == [task EXCEPT ![t].driver = d]
  <2>2. ChangedAt(f, t)
    BY <1>0
  <2> HIDE DEF f
  <2>3. ChangedAt([f EXCEPT ![t].batch = b], t)
    BY <2>2
  <2>4. QED
    BY <1>1, <2>1, <2>3 DEF f
<1>8. \/ EndTask(t)
      \/ \E p : task' = [task EXCEPT ![t].pc = p]
      \/ \E p, n : task' = [task EXCEPT ![t].pc = p, ![t].snap = n]
      \/ \E p, b, c : task' = [task EXCEPT ![t].pc = p, ![t].batch = b, ![t].cursor = c]
      \/ \E p, c, d : task' = [task EXCEPT ![t].pc = p, ![t].cursor = c, ![t].driver = d]
      \/ \E d, b : task' = [task EXCEPT ![t].driver = d, ![t].batch = b]
  <2>1. CASE Warm(t)
    BY <2>1, Zenon DEF Warm
  <2>2. CASE StartPoll(t)
    BY <2>2, Zenon DEF StartPoll
  <2>3. CASE Poll(t)
    BY <2>3, Zenon DEF Poll
  <2>4. CASE Push(t)
    BY <2>4, Zenon DEF Push
  <2>5. CASE Stop(t) \/ BatchDone(t) \/ WarmFails(t) \/ PollFails(t) \/ PushFails(t)
    BY <2>5, Zenon DEF Stop, BatchDone, WarmFails, PollFails, PushFails
  <2>6. QED
    BY <2>1, <2>2, <2>3, <2>4, <2>5 DEF TaskStep
<1>9. QED
  BY <1>2, <1>3, <1>4, <1>5, <1>6, <1>7, <1>8

LEMMA InitIsTaskInv ==
  ASSUME Init
  PROVE  TaskInv
<1>1. PICK D : FreeTask \in TaskIn(D) /\ FreeTask.pc = "free"
  BY FreeTaskShape, Zenon
<1> HIDE DEF FreeTask
<1>2. task = [t \in Tasks |-> FreeTask] /\ stops = [s \in Symbols |-> None]
  BY DEF Init
<1>3. task \in [Tasks -> TaskIn(D)]
  BY <1>1, <1>2
<1>4. QED
  BY <1>1, <1>2, <1>3 DEF TaskInv, TasksTyped, HandlesHeld

LEMMA NextKeepsTaskInv ==
  ASSUME PathAssumption, TaskInv, active \subseteq Symbols, [Next]_vars
  PROVE  TaskInv'
<1>1. CASE UNCHANGED <<task, stops>>
  BY <1>1 DEF TaskInv, TasksTyped, HandlesHeld
<1>2. CASE Activation
  BY <1>2, ReconcileKeepsInv, PathAssumption, Zenon DEF Activation
<1>3. CASE ActivationFails
  <2>1. CASE Reconcile(Fallback)
    BY <2>1, ReconcileKeepsInv, PathAssumption DEF PathAssumption
  <2>2. CASE UNCHANGED <<stops, stopping, task>>
    BY <1>1, <2>2
  <2>3. QED
    BY <1>3, <2>1, <2>2, Zenon DEF ActivationFails
<1>4. CASE SupBreak
  BY <1>4, SupBreakKeepsInv
<1>5. CASE ShutdownWorkers
  BY <1>5, NoTasksIsInv DEF ShutdownWorkers
<1>6. CASE Exit \/ Crash
  BY <1>6, NoTasksIsInv DEF Exit, Crash, Fresh
<1>7. CASE \E t \in Tasks : Reap(t)
  BY <1>7, ReapKeepsInv
<1>8. CASE \E t \in Tasks : TaskStep(t) \/ WarmFails(t) \/ PollFails(t) \/ PushFails(t)
  BY <1>8, TaskStepsKeepInv
<1>9. CASE \/ Take \/ Answered \/ CallTimesOut \/ EngineRestart
           \/ \E k \in Calls : EngineStep(k) \/ Expired(k) \/ HandleFails(k)
           \/ Terminate \/ Drain \/ Boot \/ Contracts \/ Tick
  <2>1. UNCHANGED <<task, stops>>
    BY <1>9, Zenon DEF Take, Answered, CallTimesOut, EngineRestart, EngineStep, Dedup, Handle,
       OrphanEnds, Expired, HandleFails, Terminate, Drain, Boot, Contracts, Tick, supVars
  <2>2. QED
    BY <1>1, <2>1
<1>10. CASE UNCHANGED vars
  BY <1>1, <1>10 DEF vars, supVars
<1>11. QED
  BY <1>2, <1>3, <1>4, <1>5, <1>6, <1>7, <1>8, <1>9, <1>10, Zenon DEF Next

LEMMA ActiveStaysTyped ==
  ASSUME active \subseteq Symbols, [Next]_vars
  PROVE  (active \subseteq Symbols)'
<1>1. CASE Contracts
  BY <1>1 DEF Contracts
<1>2. CASE UNCHANGED active
  BY <1>2
<1>3. QED
  BY <1>1, <1>2, Zenon
  DEF Next, vars, Activation, ActivationFails, SupBreak, ShutdownWorkers, Reap, TaskStep, Warm,
      Stop, StartPoll, Poll, Push, BatchDone, WarmFails, PollFails, PushFails, Take, Answered,
      CallTimesOut, EngineStep, Dedup, Handle, OrphanEnds, Expired, HandleFails, EngineRestart,
      Terminate, Drain, Exit, Crash, Boot, Tick

\* The supervisor never runs two tasks of a symbol at once, for any symbols,
\* activations, failures and restarts (live/supervisor.rs).
THEOREM SignalOneTaskPerSymbol == Spec => []OneTaskPerSymbol
<1>1. Init => TaskInv /\ active \subseteq Symbols
  BY InitIsTaskInv DEF Init
<1>2. TaskInv /\ active \subseteq Symbols /\ [Next]_vars => (TaskInv /\ active \subseteq Symbols)'
  BY NextKeepsTaskInv, ActiveStaysTyped, PathAssumption
<1>3. TaskInv => OneTaskPerSymbol
  BY DEF TaskInv, HandlesHeld, OneTaskPerSymbol, Alive
<1>4. QED
  BY <1>1, <1>2, <1>3, PTL DEF Spec

-----------------------------------------------------------------------------
(* What a fetch returns.                                                   *)

\* The opens of candles in a span of time.
Grid(lo, hi) == {o \in lo..hi : o % TF = 0}

LEMMA RunIsSeq ==
  ASSUME NEW k \in Nat, NEW S, NEW c \in [1..k -> S]
  PROVE  c \in Seq(S)
  OBVIOUS

LEMMA GridStart ==
  ASSUME NEW lo \in Int
  PROVE  \E m \in Int : m % TF = 0 /\ lo <= m /\ m < lo + TF
<1> USE DriverAssumption
<1> DEFINE q == (lo + (TF - 1)) \div TF
<1>1. q \in Int /\ lo <= q * TF /\ q * TF < lo + TF
  OBVIOUS
<1> HIDE DEF q
<1>2. q * TF \in Int /\ (q * TF) % TF = 0
  BY <1>1
<1>3. QED
  BY <1>1, <1>2

LEMMA MinIs ==
  ASSUME NEW S, NEW m \in S, S \subseteq Int, \A y \in S : m <= y
  PROVE  Min(S) = m
<1> DEFINE P(x) == x \in S /\ \A y \in S : x <= y
<1>1. P(m)
  OBVIOUS
<1> DEFINE c == CHOOSE x : P(x)
<1>2. P(c)
  BY <1>1
<1>3. Min(S) = c
  BY Zenon DEF Min
<1> HIDE DEF c
<1>4. QED
  BY <1>2, <1>3

\* A span that holds an open holds an unbroken run of them.
LEMMA GridIsRun ==
  ASSUME NEW lo \in Int, NEW hi \in Int, Grid(lo, hi) # {}
  PROVE  \E k \in Nat \ {0} :
           LET m == Min(Grid(lo, hi)) IN
           /\ k = Cardinality(Grid(lo, hi))
           /\ m \in Int /\ m % TF = 0 /\ lo <= m /\ m < lo + TF
           /\ \A i \in 1..k : m + (i - 1) * TF \in Grid(lo, hi)
           /\ hi < m + k * TF
           /\ \A o \in Grid(lo, hi) : \E i \in 1..k : o = m + (i - 1) * TF
<1> USE DriverAssumption
<1>1. PICK m \in Int : m % TF = 0 /\ lo <= m /\ m < lo + TF
  BY GridStart
<1>2. \A o \in Grid(lo, hi) : o \in Int /\ m <= o /\ o <= hi
  <2>1. ASSUME NEW o \in Int, o % TF = 0, lo <= o, o < m
        PROVE  FALSE
    <3>1. o = TF * (o \div TF) /\ m = TF * (m \div TF) /\ (o \div TF) \in Int /\ (m \div TF) \in Int
      BY <1>1, <2>1
    <3> DEFINE p == o \div TF
               q == m \div TF
    <3>2. p \in Int /\ q \in Int /\ o = TF * p /\ m = TF * q
      BY <3>1
    <3> HIDE DEF p, q
    <3>3. p < q
      BY <2>1, <3>2
    <3>4. o + TF <= m
      BY <3>2, <3>3
    <3>5. QED
      BY <1>1, <2>1, <3>4
  <2>2. ASSUME NEW o \in Grid(lo, hi)
        PROVE  o \in Int /\ m <= o /\ o <= hi
    <3>1. o \in Int /\ o % TF = 0 /\ lo <= o /\ o <= hi
      BY DEF Grid
    <3>2. QED
      BY <1>1, <2>1, <3>1
  <2>3. QED
    BY <2>2
<1>3. m <= hi /\ m \in Grid(lo, hi)
  BY <1>1, <1>2 DEF Grid
<1>4. Min(Grid(lo, hi)) = m
  BY <1>2, <1>3, MinIs
<1> DEFINE k == (hi - m) \div TF + 1
<1>5. k \in Nat \ {0} /\ m + (k - 1) * TF <= hi /\ hi < m + k * TF
  <2> DEFINE d == hi - m
             q == d \div TF
  <2>1. d \in Nat
    BY <1>3, <1>1
  <2>2. q \in Nat /\ TF * q <= d /\ d < TF * q + TF
    BY <2>1
  <2>3. k = q + 1
    OBVIOUS
  <2>4. hi = m + d
    BY <1>1
  <2> HIDE DEF k, q, d
  <2>5. (k - 1) * TF = TF * q /\ k * TF = TF * q + TF
    BY <2>2, <2>3
  <2>6. QED
    BY <1>1, <2>1, <2>2, <2>3, <2>4, <2>5
<1> HIDE DEF k
<1> DEFINE f == [i \in 1..k |-> m + (i - 1) * TF]
<1>6. \A i \in 1..k : f[i] \in Grid(lo, hi)
  <2> TAKE i \in 1..k
  <2>1. (m + (i - 1) * TF) % TF = 0
    <3>1. m = TF * (m \div TF) /\ (m \div TF) \in Int
      BY <1>1
    <3> DEFINE q == m \div TF
    <3>2. q \in Int /\ m = TF * q
      BY <3>1
    <3> HIDE DEF q
    <3> DEFINE a == q + i - 1
    <3>3. a \in Int /\ m + (i - 1) * TF = a * TF
      BY <1>5, <3>2
    <3> HIDE DEF a
    <3>4. (a * TF) % TF = 0
      BY <3>3
    <3>5. QED
      BY <3>3, <3>4
  <2>2. 0 <= (i - 1) * TF /\ (i - 1) * TF <= (k - 1) * TF /\ (i - 1) * TF \in Int
    BY <1>5
  <2>3. QED
    BY <1>1, <1>5, <2>1, <2>2 DEF Grid
<1>7. \A o \in Grid(lo, hi) : \E i \in 1..k : o = f[i]
  <2> TAKE o \in Grid(lo, hi)
  <2>1. o \in Int /\ o % TF = 0 /\ m <= o /\ o <= hi
    BY <1>2 DEF Grid
  <2> DEFINE p == o \div TF
             q == m \div TF
  <2>2. p \in Int /\ q \in Int /\ o = TF * p /\ m = TF * q
    BY <1>1, <2>1
  <2> HIDE DEF p, q
  <2>3. q <= p
    BY <2>1, <2>2
  <2>4. p < q + k
    BY <1>5, <2>1, <2>2
  <2>5. p - q + 1 \in 1..k
    BY <1>5, <2>2, <2>3, <2>4
  <2>6. o = f[p - q + 1]
    BY <2>2, <2>5
  <2>7. QED
    BY <2>5, <2>6
<1>8. \A i, j \in 1..k : f[i] = f[j] => i = j
  <2>1. ASSUME NEW i \in 1..k, NEW j \in 1..k, i < j
        PROVE  f[i] # f[j]
    BY <1>1, <1>5, <2>1
  <2>2. QED
    BY <1>5, <2>1
<1>9. f \in Bijection(1..k, Grid(lo, hi))
  BY <1>6, <1>7, <1>8, Fun_IsBij
<1>10. Cardinality(Grid(lo, hi)) = k
  <2>1. IsFiniteSet(1..k) /\ Cardinality(1..k) = k
    BY <1>5, FS_Interval
  <2>2. ExistsBijection(1..k, Grid(lo, hi))
    BY <1>9 DEF ExistsBijection
  <2>3. QED
    BY <2>1, <2>2, FS_Bijection
<1>11. QED
  BY <1>1, <1>4, <1>5, <1>6, <1>7, <1>10

\* The candles a task may hold.
Candles == [open : Int, final : BOOLEAN]

\* c is the run of the opens from lo to snap that are over at now.
IsRun(c, lo, snap, now) ==
  /\ c \in Seq(Candles)
  /\ \A i \in 1..Len(c) : c[i].open = c[1].open + (i - 1) * TF
  /\ \A i \in 1..Len(c) : /\ c[i].open % TF = 0 /\ IsClosed(c[i].open, now)
                           /\ lo <= c[i].open /\ c[i].open <= snap
  /\ Len(c) > 0 => c[1].open < lo + TF
  /\ \A o \in Grid(lo, snap) : IsClosed(o, now) => \E i \in 1..Len(c) : c[i].open = o
  /\ Len(c) > 0 /\ snap <= now => snap - TF - Settle - 1 < c[1].open + Len(c) * TF

\* What is taken for closed, of the opens from lo to the time of the answer, is
\* the run of those that are over by the time it is processed.
LEMMA ClosedRun ==
  ASSUME NEW lo \in Int, NEW snap \in Int, NEW now \in Int,
         NEW c, c = ClosedOf(Grid(lo, snap), snap, now)
  PROVE  IsRun(c, lo, snap, now)
<1> USE DriverAssumption, PathAssumption
<1> DEFINE last == now - Settle - TF - 1
           hi == IF snap <= last THEN snap ELSE last
           closed == {o \in Grid(lo, snap) : IsClosed(o, now)}
<1>1. last \in Int /\ hi \in Int /\ hi <= snap /\ hi <= last
  OBVIOUS
<1>2. \A o \in Int : IsClosed(o, now) <=> o <= last
  BY DEF IsClosed
<1>3. closed = Grid(lo, hi)
  BY <1>1, <1>2 DEF Grid
<1>4. c = [i \in 1..Cardinality(Grid(lo, hi)) |-> Candle(Min(Grid(lo, hi)) + (i - 1) * TF, snap)]
  BY <1>3, Zenon DEF ClosedOf
<1>5. \A o \in Grid(lo, hi) : o \in Int /\ o % TF = 0 /\ IsClosed(o, now) /\ lo <= o /\ o <= snap
  <2> TAKE o \in Grid(lo, hi)
  <2>1. o \in Int /\ o % TF = 0 /\ lo <= o /\ o <= hi
    BY DEF Grid
  <2>2. IsClosed(o, now)
    BY <1>1, <1>2, <2>1
  <2>3. QED
    BY <1>1, <2>1, <2>2
<1> HIDE DEF hi, last, closed
<1>6. CASE Grid(lo, hi) = {}
  <2>1. Cardinality(Grid(lo, hi)) = 0
    BY <1>6, FS_EmptySet
  <2>2. c = <<>>
    BY <1>4, <2>1
  <2>3. \A o \in Grid(lo, snap) : ~IsClosed(o, now)
    BY <1>3, <1>6 DEF closed
  <2>4. QED
    BY <2>2, <2>3 DEF IsRun
<1>7. CASE Grid(lo, hi) # {}
  <2> DEFINE m == Min(Grid(lo, hi))
  <2>1. PICK k \in Nat \ {0} :
          /\ k = Cardinality(Grid(lo, hi))
          /\ m \in Int /\ m % TF = 0 /\ lo <= m /\ m < lo + TF
          /\ \A i \in 1..k : m + (i - 1) * TF \in Grid(lo, hi)
          /\ hi < m + k * TF
          /\ \A o \in Grid(lo, hi) : \E i \in 1..k : o = m + (i - 1) * TF
    BY <1>1, <1>7, GridIsRun
  <2> HIDE DEF m
  <2>2. c = [i \in 1..k |-> Candle(m + (i - 1) * TF, snap)]
    BY <1>4, <2>1 DEF m
  <2>3. Len(c) = k /\ \A i \in 1..k : /\ c[i].open = m + (i - 1) * TF
                                     /\ c[i] \in Candles
    BY <2>1, <2>2 DEF Candle, Candles
  <2>4. c \in Seq(Candles)
    <3>1. c = [i \in 1..k |-> c[i]]
      BY <2>2
    <3>2. c \in [1..k -> Candles]
      BY <2>3, <3>1
    <3>3. QED
      BY <2>1, <3>2, RunIsSeq
  <2>6. \A i \in 1..Len(c) : /\ c[i].open % TF = 0 /\ IsClosed(c[i].open, now)
                             /\ lo <= c[i].open /\ c[i].open <= snap
    <3> TAKE i \in 1..Len(c)
    <3>1. c[i].open \in Grid(lo, hi)
      BY <2>1, <2>3
    <3>2. QED
      BY <1>5, <2>3, <3>1
  <2>7. c[1].open = m
    BY <2>1, <2>3
  <2>5. \A i \in 1..Len(c) : c[i].open = c[1].open + (i - 1) * TF
    BY <2>3, <2>7
  <2>8. \A o \in Grid(lo, snap) : IsClosed(o, now) => \E i \in 1..Len(c) : c[i].open = o
    <3> SUFFICES ASSUME NEW o \in Grid(lo, snap), IsClosed(o, now)
                 PROVE  \E i \in 1..Len(c) : c[i].open = o
      OBVIOUS
    <3>1. o \in closed
      BY DEF closed
    <3>2. PICK i \in 1..k : o = m + (i - 1) * TF
      BY <1>3, <2>1, <3>1
    <3>3. QED
      BY <2>3, <3>2
  <2>9. snap <= now => snap - TF - Settle - 1 <= hi
    BY DEF hi, last
  <2>10. snap <= now => snap - TF - Settle - 1 < c[1].open + Len(c) * TF
    BY <1>1, <2>1, <2>3, <2>7, <2>9, SMTT(30)
  <2>11. QED
    BY <2>1, <2>4, <2>5, <2>6, <2>7, <2>8, <2>10 DEF IsRun
<1>8. QED
  BY <1>6, <1>7

-----------------------------------------------------------------------------
(* What a task knows of history.                                           *)

Drivers == [window : Seq(Candles), emitted : SUBSET Divergences, watermark : Int, warmed : BOOLEAN]
TaskRecs == [pc : {"free", "warming", "polling", "fetching", "pushing", "ended"},
             driver : Drivers, cursor : Int, snap : Int, batch : Seq(Candles), stop : BOOLEAN]

Watches(x) == x.pc \in {"polling", "fetching", "pushing"}

\* An answer is from the past.
Timely(x) == x.pc \in {"warming", "fetching"} => x.snap <= clock

\* The candles a task has and is going to have: each over, in order, and the
\* last WindowLen of them, which are what the window will be, unbroken.
Supply(x) == x.driver.window \o x.batch

OnTime(x) ==
  LET w == x.driver.window
      all == Supply(x) IN
  /\ x.driver.warmed /\ Len(w) = WindowLen
  /\ \A i \in 1..Len(all) : /\ all[i].open % TF = 0
                            /\ listed <= all[i].open /\ IsClosed(all[i].open, clock)
  /\ \A i, j \in 1..Len(all) : i < j => all[i].open < all[j].open
  /\ \A i \in (Len(x.batch) + 1)..(Len(all) - 1) : all[i + 1].open = all[i].open + TF
  /\ x.cursor = all[Len(all)].open

\* The divergence of id was found in a window that was over at time now.
Found(id, now) ==
  /\ id.time \in Opens
  /\ \E o \in Opens : listed <= o /\ IsClosed(o, now) /\ id.time <= o

\* A task does not signal again what was signalled for its symbol: its watermark
\* is past it, or its window, or it has not seen the candles up to it yet.  What
\* its warm-up did not find is excepted.
Behind(id, d) == id.time <= d.watermark \/ id.time < d.window[1].open

Remembers(x, s) ==
  \A id \in sent : id.sym = s =>
    /\ x.pc = "warming" => Found(id, x.snap)
    /\ Watches(x) => Behind(id, x.driver) \/ id \in lost

TaskOK(x, s) ==
  /\ x \in TaskRecs
  /\ x.pc # "pushing" => x.batch = <<>>
  /\ Timely(x)
  /\ Watches(x) => OnTime(x)
  /\ Remembers(x, s)

WatchInv ==
  /\ listed \in Nat /\ clock \in 0..MaxClock /\ show \in [Symbols -> Shows]
  /\ task \in [Tasks -> TaskRecs]
  /\ \A t \in Tasks : TaskOK(task[t], Sym(t))
  /\ \A id \in sent : id.sym \in Symbols /\ Found(id, clock)
  /\ ResentWasLost

-----------------------------------------------------------------------------
(* Divergences.                                                            *)

LEMMA LeastNat ==
  ASSUME NEW B, B \subseteq Nat, B # {}
  PROVE  \E m \in B : \A n \in B : m <= n
<1>1. PICK m \in B : \A n \in B : <<n, m>> \notin OpToRel(<, Nat)
  BY NatLessThanWellFounded, WFMin
<1>2. \A n \in B : ~(n < m)
  BY <1>1 DEF OpToRel
<1>3. QED
  BY <1>2

LEMMA MaxIs ==
  ASSUME NEW n \in Nat, NEW S, S \subseteq 0..n, S # {}
  PROVE  Max(S) \in S /\ \A x \in S : x <= Max(S)
<1> DEFINE B == {b \in 0..n : n - b \in S}
<1>1. B \subseteq Nat
  OBVIOUS
<1>2. B # {}
  <2>1. PICK x \in S : TRUE
    OBVIOUS
  <2>2. x \in 0..n /\ n - x \in 0..n /\ n - (n - x) = x
    OBVIOUS
  <2>3. n - x \in B
    BY <2>2
  <2>4. QED
    BY <2>3
<1>3. PICK b \in B : \A a \in B : b <= a
  <2> HIDE DEF B
  <2>1. QED
    BY <1>1, <1>2, LeastNat
<1> DEFINE m == n - b
<1>4. m \in S /\ \A x \in S : x <= m
  <2>1. m \in S /\ b \in 0..n
    BY <1>3
  <2>2. ASSUME NEW x \in S
        PROVE  x <= m
    <3>1. x \in 0..n /\ n - x \in 0..n /\ n - (n - x) = x
      OBVIOUS
    <3>2. n - x \in B
      BY <3>1
    <3>3. QED
      BY <1>3, <2>1, <3>1, <3>2
  <2>3. QED
    BY <2>1, <2>2
<1> DEFINE P(x) == x \in S /\ \A y \in S : x >= y
           c == CHOOSE x : P(x)
<1>5. P(m)
  <2>1. \A x \in S : x \in Int
    OBVIOUS
  <2>2. QED
    BY <1>4, <2>1
<1>6. P(c)
  BY <1>5
<1>7. Max(S) = c
  BY Zenon DEF Max
<1> HIDE DEF c
<1>8. QED
  BY <1>6, <1>7

\* A window signals one divergence at most: ties are broken by the kind.
LEMMA OneSignal ==
  ASSUME NEW f, NEW w, f.cands \subseteq Divergences,
         NEW x \in Signals(f, w), NEW y \in Signals(f, w)
  PROVE  x = y
<1> DEFINE cs == {c \in Candidates(f, w) : c.kind \in f.trend}
<1> DEFINE First(a) ==
             \A b \in cs : \/ b.time < a.time
                           \/ b.time = a.time /\ Rank(a.kind) <= Rank(b.kind)
<1>1. \A a \in Signals(f, w) : a \in cs /\ First(a)
  BY Zenon DEF Signals
<1>2. cs \subseteq Divergences
  BY DEF Candidates
<1> HIDE DEF cs
<1>3. x \in Divergences /\ y \in Divergences /\ x.time = y.time
      /\ Rank(x.kind) <= Rank(y.kind) /\ Rank(y.kind) <= Rank(x.kind)
  BY <1>1, <1>2 DEF Divergences, Opens
<1>4. \A d \in Divergences : Rank(d.kind) \in DOMAIN Kinds /\ Kinds[Rank(d.kind)] = d.kind
  BY DEF Divergences, Rank
<1>5. Rank(x.kind) = Rank(y.kind)
  BY <1>3, <1>4, DriverAssumption
<1>6. x.kind = y.kind
  BY <1>3, <1>4, <1>5
<1>7. QED
  BY <1>3, <1>6 DEF Divergences

\* What the indicators find in a window that ends at an open time.
LEMMA FindsAre ==
  ASSUME NEW sh \in Shows, NEW w, Last(w).open \in Opens, NEW f \in Finds(sh, w)
  PROVE  f \in Findings(Last(w).open)
<1> DEFINE o == Last(w).open
<1>1. sh.finds[o] \in Findings(o) /\ sh.early[o] \subseteq Findings(o)
  BY ShowsAssumption, Zenon
<1>2. f = sh.finds[o] \/ f \in sh.early[o]
  BY DEF Finds
<1>3. QED
  BY <1>1, <1>2

\* What such a window may signal.
LEMMA CandidatesAre ==
  ASSUME NEW o \in Opens, NEW f \in Findings(o), NEW w
  PROVE  /\ f.cands \subseteq Divergences
         /\ Candidates(f, w) \subseteq Divergences
         /\ Signals(f, w) \subseteq Candidates(f, w)
         /\ \A c \in Candidates(f, w) : c.time <= o /\ \E i \in DOMAIN w : w[i].open = c.time
  BY DEF Findings, Candidates, Signals

\* The warm-up: the watermark is at every candidate in sight, or past it.
LEMMA WarmUpMarks ==
  ASSUME NEW o \in Opens, NEW f \in Findings(o), NEW w \in Seq(Candles),
         NEW d, d = WarmUp(f, [NewDriver EXCEPT !.window = w])
  PROVE  /\ d \in Drivers /\ d.window = w /\ d.warmed
         /\ \A c \in Candidates(f, w) : c.time <= d.watermark
<1> DEFINE cs == Candidates(f, w)
           times == {c.time : c \in cs}
           mark == IF cs = {} THEN NoMark ELSE Max(times)
           n == [NewDriver EXCEPT !.window = w]
<1>1. cs \subseteq Divergences
  BY CandidatesAre
<1>2. mark \in Int /\ \A c \in cs : c.time <= mark
  <2>1. CASE cs = {}
    BY <2>1 DEF NoMark
  <2>2. CASE cs # {}
    <3>1. times \subseteq 0..MaxClock /\ times # {}
      BY <1>1, <2>2 DEF Divergences, Opens
    <3> HIDE DEF times
    <3>2. Max(times) \in times /\ \A x \in times : x <= Max(times)
      BY <3>1, MaxIs, PathAssumption
    <3>3. mark = Max(times)
      BY <2>2
    <3>4. QED
      BY <3>1, <3>2, <3>3 DEF times
  <2>3. QED
    BY <2>1, <2>2
<1>3. n \in Drivers /\ n.window = w
  <2>1. NewDriver \in Drivers
    BY DEF NewDriver, Drivers, NoMark
  <2> HIDE DEF NewDriver
  <2>2. QED
    BY <2>1 DEF Drivers
<1>4. d = [n EXCEPT !.warmed = TRUE, !.emitted = cs, !.watermark = mark]
  <2> HIDE DEF n, cs
  <2>1. d = Seeded(n, cs)
    <3>1. d = Seeded(n, Candidates(f, n.window))
      BY Zenon DEF WarmUp, n
    <3>2. QED
      BY <1>3, <3>1 DEF cs
  <2>2. QED
    BY <2>1, Zenon DEF Seeded
<1> HIDE DEF cs, mark, n
<1>5. d \in Drivers /\ d.window = w /\ d.warmed /\ d.watermark = mark
  BY <1>1, <1>2, <1>3, <1>4 DEF Drivers
<1>6. QED
  BY <1>2, <1>5 DEF cs

\* A candle that is pushed slides the window; a signal lies past the watermark,
\* and moves it.
LEMMA PushMoves ==
  ASSUME NEW o \in Opens, NEW f \in Findings(o), NEW d \in Drivers, d.warmed,
         Len(d.window) = WindowLen, NEW c \in Candles, NEW p, p = PushClosed(f, d, c)
  PROVE  LET w == Append(Tail(d.window), c) IN
         /\ p.driver \in Drivers /\ p.driver.window = w /\ p.driver.warmed
         /\ p.out \subseteq Candidates(f, w)
         /\ \A x \in p.out : x.time > d.watermark /\ p.driver.watermark = x.time
         /\ p.out = {} => p.driver.watermark = d.watermark
<1> USE DriverAssumption
<1> DEFINE w == Append(Tail(d.window), c)
           slid == [d EXCEPT !.window = Slide(@, c)]
           found == {x \in Signals(f, w) : ~Suppressed(slid, x)}
           mark == IF found = {} THEN d.watermark ELSE (CHOOSE x \in found : TRUE).time
<1>1. d.window \in Seq(Candles) /\ d.window # <<>> /\ d.watermark \in Int
      /\ d.emitted \subseteq Divergences
  BY DEF Drivers
<1>2. w \in Seq(Candles) /\ Last(w) = c
  BY <1>1 DEF Last
<1>3. slid \in Drivers /\ slid.window = w /\ slid.warmed /\ slid.watermark = d.watermark
  <2>1. Slide(d.window, c) = w
    BY DEF Slide
  <2> HIDE DEF w
  <2>2. slid = [d EXCEPT !.window = w]
    BY <2>1
  <2>3. QED
    BY <1>2, <2>2 DEF Drivers
<1>4. p = [driver |-> [slid EXCEPT !.emitted = @ \cup found, !.watermark = mark], out |-> found]
  <2> DEFINE found2 == IF d.warmed THEN {x \in Signals(f, slid.window) : ~Suppressed(slid, x)}
                        ELSE {}
             new == [slid EXCEPT !.emitted = @ \cup found2,
                                 !.watermark = IF found2 = {} THEN @
                                               ELSE (CHOOSE x \in found2 : TRUE).time]
  <2>1. p = IF ~d.warmed /\ Len(slid.window) = WindowLen
            THEN [driver |-> WarmUp(f, slid), out |-> {}]
            ELSE [driver |-> new, out |-> found2]
    BY Zenon DEF PushClosed
  <2>2. p = [driver |-> new, out |-> found2]
    BY <2>1
  <2> HIDE DEF slid
  <2>3. found2 = found
    BY <1>3
  <2> HIDE DEF found, found2
  <2>4. new = [slid EXCEPT !.emitted = @ \cup found, !.watermark = mark]
    BY <1>3, <2>3 DEF Drivers
  <2>5. QED
    BY <2>2, <2>3, <2>4
<1> HIDE DEF slid
<1>5. found \subseteq Candidates(f, w) /\ found \subseteq Divergences
  BY <1>2, CandidatesAre
<1>6. \A x \in found : x.time > d.watermark /\ mark = x.time
  <2> TAKE x \in found
  <2>1. ~(x.time <= slid.watermark)
    BY DEF Suppressed
  <2>2. x.time \in Int
    BY <1>5 DEF Divergences, Opens
  <2>3. \A y \in found : y = x
    <3>1. f.cands \subseteq Divergences
      BY CandidatesAre
    <3>2. QED
      BY <3>1, OneSignal
  <2> DEFINE y == CHOOSE z \in found : TRUE
  <2>4. y = x
    <3>1. y \in found
      OBVIOUS
    <3>2. QED
      BY <2>3, <3>1
  <2>5. mark = y.time
    OBVIOUS
  <2> HIDE DEF found, mark, y
  <2>6. QED
    BY <1>1, <1>3, <2>1, <2>2, <2>4, <2>5
<1> HIDE DEF found
<1>7. mark \in Int
  <2>1. \A x \in found : x.time \in Int
    BY <1>5 DEF Divergences, Opens
  <2>2. QED
    BY <1>1, <1>6, <2>1
<1> HIDE DEF mark, w
<1> DEFINE n == [slid EXCEPT !.emitted = @ \cup found, !.watermark = mark]
<1>8. n \in Drivers /\ n.window = w /\ n.warmed /\ n.watermark = mark
  BY <1>3, <1>5, <1>7 DEF Drivers
<1>9. p.driver = n /\ p.out = found
  <2> HIDE DEF n
  <2>1. p = [driver |-> n, out |-> found]
    BY <1>4 DEF n
  <2>2. QED
    BY <2>1
<1> HIDE DEF n
<1>10. QED
  BY <1>5, <1>6, <1>8, <1>9 DEF mark, w

-----------------------------------------------------------------------------
(* One lemma per step of a task, on its record.                            *)

LEMMA Kept ==
  ASSUME UNCHANGED <<listed, clock, sent>>, lost \subseteq lost', NEW x, NEW s, TaskOK(x, s)
  PROVE  TaskOK(x, s)'
  BY DEF TaskOK, Timely, OnTime, Remembers, Found, IsClosed

LEMMA IdleOK ==
  ASSUME NEW x \in TaskRecs, x.pc \in {"free", "ended"}, x.batch = <<>>, NEW s
  PROVE  TaskOK(x, s)
  BY DEF TaskOK, Timely, Watches, Remembers

LEMMA FreeTaskIs ==
  /\ FreeTask \in TaskRecs /\ FreeTask.pc = "free"
  /\ FreeTask.driver = NewDriver /\ FreeTask.batch = <<>>
<1>1. NewDriver \in Drivers
  BY DEF NewDriver, Drivers, NoMark
<1> HIDE DEF NewDriver
<1>2. QED
  BY <1>1 DEF FreeTask, TaskRecs

LEMMA EndedOK ==
  ASSUME NEW s
  PROVE  LET x == [FreeTask EXCEPT !.pc = "ended"] IN x \in TaskRecs /\ TaskOK(x, s)
<1> DEFINE x == [FreeTask EXCEPT !.pc = "ended"]
<1> HIDE DEF FreeTask
<1>1. x \in TaskRecs /\ x.pc = "ended" /\ x.batch = <<>>
  BY FreeTaskIs DEF TaskRecs
<1> HIDE DEF x
<1>2. TaskOK(x, s)
  BY <1>1, IdleOK
<1>3. QED
  BY <1>1, <1>2 DEF x

LEMMA StopOK ==
  ASSUME NEW x, NEW s, TaskOK(x, s), NEW v \in BOOLEAN
  PROVE  TaskOK([x EXCEPT !.stop = v], s)
<1> DEFINE y == [x EXCEPT !.stop = v]
<1>1. /\ y \in TaskRecs /\ y.pc = x.pc /\ y.driver = x.driver /\ y.cursor = x.cursor
      /\ y.snap = x.snap /\ y.batch = x.batch
  BY DEF TaskOK, TaskRecs
<1> HIDE DEF y
<1>2. TaskOK(y, s)
  BY <1>1 DEF TaskOK, Timely, Watches, OnTime, Supply, Remembers
<1>3. QED
  BY <1>2 DEF y

\* A task that starts has all that was signalled before it.
LEMMA StartOK ==
  ASSUME WatchInv, NEW s
  PROVE  TaskOK([FreeTask EXCEPT !.pc = "warming", !.snap = clock], s)
<1> DEFINE x == [FreeTask EXCEPT !.pc = "warming", !.snap = clock]
<1> HIDE DEF FreeTask
<1>1. clock \in Int
  BY DEF WatchInv
<1>2. x \in TaskRecs /\ x.pc = "warming" /\ x.snap = clock /\ x.batch = <<>>
  BY <1>1, FreeTaskIs DEF TaskRecs
<1> HIDE DEF x
<1>3. TaskOK(x, s)
  BY <1>1, <1>2 DEF TaskOK, Timely, Watches, Remembers, WatchInv
<1>4. QED
  BY <1>3 DEF x

\* Steps that change neither candles nor watermark.
LEMMA SameSupplyOK ==
  ASSUME NEW x, NEW y, NEW s, TaskOK(x, s), y \in TaskRecs, Watches(x), Watches(y),
         y.driver = x.driver, y.cursor = x.cursor, y.batch = x.batch,
         y.pc # "pushing" => x.batch = <<>>, Timely(y)
  PROVE  TaskOK(y, s)
  BY DEF TaskOK, OnTime, Supply, Remembers, Watches

LEMMA StartPollOK ==
  ASSUME WatchInv, NEW x, NEW s, TaskOK(x, s), x.pc = "polling"
  PROVE  TaskOK([x EXCEPT !.pc = "fetching", !.snap = clock], s)
<1> DEFINE y == [x EXCEPT !.pc = "fetching", !.snap = clock]
<1>1. clock \in Int
  BY DEF WatchInv
<1>2. /\ y \in TaskRecs /\ y.pc = "fetching" /\ y.driver = x.driver /\ y.cursor = x.cursor
      /\ y.snap = clock /\ y.batch = x.batch
  BY <1>1 DEF TaskOK, TaskRecs
<1> HIDE DEF y
<1>3. Timely(y)
  BY <1>1, <1>2 DEF Timely
<1>4. Watches(x) /\ Watches(y) /\ x.batch = <<>>
  BY <1>2 DEF Watches, TaskOK, OnTime
<1>5. TaskOK(y, s)
  BY <1>2, <1>3, <1>4, SameSupplyOK
<1>6. QED
  BY <1>5 DEF y

LEMMA BackToPollingOK ==
  ASSUME NEW x, NEW s, TaskOK(x, s), x.pc = "fetching" \/ (x.pc = "pushing" /\ x.batch = <<>>)
  PROVE  TaskOK([x EXCEPT !.pc = "polling"], s)
<1> DEFINE y == [x EXCEPT !.pc = "polling"]
<1>1. /\ y \in TaskRecs /\ y.pc = "polling" /\ y.driver = x.driver /\ y.cursor = x.cursor
      /\ y.batch = x.batch
  BY DEF TaskOK, TaskRecs
<1> HIDE DEF y
<1>2. Timely(y)
  BY <1>1 DEF Timely
<1>3. Watches(x) /\ Watches(y) /\ x.batch = <<>>
  BY <1>1 DEF Watches, TaskOK, OnTime
<1>4. TaskOK(y, s)
  BY <1>1, <1>2, <1>3, SameSupplyOK
<1>5. QED
  BY <1>4 DEF y

\* A request asks for a span that ends when it is answered.
LEMMA KlinesSpan ==
  ASSUME listed \in Nat, NEW n \in Nat, NEW snap \in Int
  PROVE  \E lo \in Int : /\ Klines(n, snap) = Grid(lo, snap)
                         /\ listed <= lo /\ lo \in {listed, snap - n * TF}
<1> USE DriverAssumption
<1> DEFINE from == snap - n * TF
           lo == IF from <= listed THEN listed ELSE from
<1>1. from \in Int
  OBVIOUS
<1>2. Klines(n, snap) = {o \in listed..snap : o % TF = 0 /\ o >= from}
  BY DEF Klines
<1> HIDE DEF from
<1>3. Klines(n, snap) = Grid(lo, snap)
  BY <1>1, <1>2 DEF Grid
<1>4. lo \in Int /\ listed <= lo /\ lo \in {listed, from}
  BY <1>1
<1>5. QED
  BY <1>3, <1>4 DEF from

LEMMA LaterSpan ==
  ASSUME NEW lo \in Int, NEW snap \in Int, NEW cursor \in Int
  PROVE  \E l \in Int : /\ {o \in Grid(lo, snap) : o > cursor} = Grid(l, snap)
                        /\ lo <= l /\ cursor < l /\ l \in {lo, cursor + 1}
<1> DEFINE l == IF lo <= cursor THEN cursor + 1 ELSE lo
<1>1. {o \in Grid(lo, snap) : o > cursor} = Grid(l, snap)
  BY DEF Grid
<1>2. QED
  BY <1>1

Evenly(w, n, a) == \A i \in 1..n : w[i].open = a + (i - 1) * TF

\* An unbroken window holds every open in its span.
LEMMA InWindow ==
  ASSUME NEW w, NEW a \in Int, a % TF = 0, NEW n \in Nat,
         Evenly(w, n, a), NEW time \in Int, time % TF = 0, a <= time, time < a + n * TF
  PROVE  \E i \in 1..n : w[i].open = time
<1> USE DriverAssumption
<1> DEFINE p == time \div TF
           q == a \div TF
<1>1. p \in Int /\ q \in Int /\ time = TF * p /\ a = TF * q
  OBVIOUS
<1> HIDE DEF p, q
<1>2. q <= p /\ p < q + n
  BY <1>1
<1> DEFINE i == p - q + 1
<1>3. i \in 1..n
  BY <1>1, <1>2
<1>4. (i - 1) * TF = time - a
  BY <1>1
<1> HIDE DEF i
<1>5. w[i].open = a + (i - 1) * TF
  BY <1>3 DEF Evenly
<1>6. QED
  BY <1>3, <1>4, <1>5

\* A window of candles that are over ends at an open time.
LEMMA OverIsOpen ==
  ASSUME clock \in 0..MaxClock, listed \in Nat, NEW o \in Int, o % TF = 0, listed <= o,
         IsClosed(o, clock)
  PROVE  o \in Opens
  BY DriverAssumption, PathAssumption DEF IsClosed, Opens

LEMMA Bounds ==
  /\ TF \in Nat \ {0} /\ Settle \in Nat /\ WindowLen \in Nat \ {0}
  /\ WarmExtra \in Nat \ {0, 1} /\ PollExtra \in Nat \ {0, 1}
  BY DriverAssumption, PathAssumption

\* What a warm-up makes of its answer.
WarmClosed(x) == ClosedOf(Klines(WindowLen + WarmExtra, x.snap), x.snap, clock)
LastWindow(c) == SubSeq(c, Len(c) - WindowLen + 1, Len(c))
Warmed(f, w) == WarmUp(f, [NewDriver EXCEPT !.window = w])

\* A warm-up leaves behind it what was signalled, but for what it does not find.
WarmResult(x, s, closed, last, f, d) ==
  LET y == [x EXCEPT !.pc = "polling", !.cursor = Last(closed).open, !.driver = d] IN
  /\ y \in TaskRecs /\ y.pc = "polling" /\ y.batch = <<>> /\ y.driver = d /\ OnTime(y)
  /\ \A id \in sent : id.sym = s => Behind(id, d) \/ id \in NotFound(s, f, last)

LEMMA WarmOK ==
  ASSUME NEW x, NEW s \in Symbols, NEW closed, NEW last, NEW f, NEW d,
         WatchInv, TaskOK(x, s), x.pc = "warming",
         closed = WarmClosed(x), ~(Len(closed) < WindowLen),
         last = LastWindow(closed), f \in Finds(show[s], last), d = Warmed(f, last)
  PROVE  WarmResult(x, s, closed, last, f, d)
<1> USE Bounds
<1>1. /\ x \in TaskRecs /\ x.batch = <<>> /\ x.snap \in Int /\ x.snap <= clock
      /\ listed \in Nat /\ clock \in 0..MaxClock /\ show[s] \in Shows
  BY DEF WatchInv, TaskOK, TaskRecs, Timely
<1>2. PICK lo \in Int : /\ Klines(WindowLen + WarmExtra, x.snap) = Grid(lo, x.snap)
                       /\ listed <= lo /\ lo \in {listed, x.snap - (WindowLen + WarmExtra) * TF}
  <2>1. WindowLen + WarmExtra \in Nat
    OBVIOUS
  <2>2. QED
    BY <1>1, <2>1, KlinesSpan
<1> DEFINE L == Len(closed)
           W == WindowLen
<1>c. /\ closed \in Seq(Candles)
      /\ \A i \in 1..L : closed[i].open = closed[1].open + (i - 1) * TF
      /\ \A i \in 1..L : /\ closed[i].open % TF = 0
                         /\ IsClosed(closed[i].open, clock) /\ lo <= closed[i].open
      /\ \A o \in Grid(lo, x.snap) : IsClosed(o, clock) => \E i \in 1..L : closed[i].open = o
  <2>1. closed = ClosedOf(Grid(lo, x.snap), x.snap, clock)
    BY <1>2 DEF WarmClosed
  <2>2. clock \in Int /\ x.snap \in Int
    BY <1>1
  <2> HIDE DEF L
  <2>3. QED
    <3>1. IsRun(closed, lo, x.snap, clock)
      BY <1>2, <2>1, <2>2, ClosedRun
    <3>2. QED
      BY <3>1, Zenon DEF IsRun, L
<1>len. closed \in Seq(Candles) /\ L \in Nat \ {0} /\ L >= W /\ W \in Nat \ {0}
  BY <1>c
<1>last. /\ last \in Seq(Candles) /\ Len(last) = W
         /\ \A i \in 1..W : last[i] = closed[L - W + i]
  BY <1>len, SMTT(30) DEF LastWindow
<1>run. \A i \in 1..L : closed[i].open = closed[1].open + (i - 1) * TF
  BY <1>c, Zenon
<1>over. \A i \in 1..L : /\ closed[i].open % TF = 0
                        /\ IsClosed(closed[i].open, clock) /\ lo <= closed[i].open
  BY <1>c, Zenon
<1>all. \A o \in Grid(lo, x.snap) : IsClosed(o, clock) => \E i \in 1..L : closed[i].open = o
  BY <1>c, Zenon
<1>int. \A i \in 1..L : closed[i].open \in Int
  <2> TAKE i \in 1..L
  <2>1. closed[i] \in Candles
    BY <1>len
  <2>2. QED
    BY <2>1 DEF Candles
<1> HIDE DEF L
<1> DEFINE a == closed[L - W + 1].open
           end == closed[L].open
<1>ends. a \in Int /\ end \in Int /\ closed[1].open \in Int
  BY <1>len, <1>int
<1>grid. a % TF = 0 /\ end % TF = 0
  <2>1. L \in 1..L /\ L - W + 1 \in 1..L
    BY <1>len
  <2>2. QED
    BY <1>over, <2>1, Zenon
<1>from. a = closed[1].open + (L - W) * TF /\ end = closed[1].open + (L - 1) * TF
  <2>1. PICK k \in 1..L : k = L - W + 1
    BY <1>len
  <2>2. closed[k].open = closed[1].open + (k - 1) * TF /\ k - 1 = L - W
    BY <1>len, <1>run, <2>1
  <2>3. QED
    BY <1>len, <1>run, <2>1, <2>2
<1>5. \A i \in 1..W : last[i].open = a + (i - 1) * TF
  <2> TAKE i \in 1..W
  <2>1. PICK k \in 1..L : k = L - W + i
    BY <1>len
  <2>2. last[i].open = closed[1].open + (k - 1) * TF
    <3>1. last[i] = closed[k]
      BY <1>last, <2>1
    <3>2. closed[k].open = closed[1].open + (k - 1) * TF
      BY <1>run, Zenon
    <3>3. QED
      BY <3>1, <3>2
  <2>3. (k - 1) * TF = (L - W) * TF + (i - 1) * TF
    BY <1>len, <2>1
  <2> HIDE DEF a
  <2>4. (L - W) * TF \in Int /\ (i - 1) * TF \in Int
    BY <1>len
  <2> DEFINE p == (L - W) * TF
             q == (i - 1) * TF
             first == closed[1].open
  <2>5. p \in Int /\ q \in Int /\ first \in Int /\ a = first + p /\ last[i].open = first + (p + q)
    BY <1>ends, <1>from, <2>2, <2>3, <2>4
  <2> HIDE DEF p, q, first
  <2>6. last[i].open = a + q
    BY ONLY <2>5
  <2>7. QED
    BY <2>6 DEF q
<1>6. Last(last).open = end /\ Last(closed).open = end /\ last[W].open = end
  BY <1>len, <1>last DEF Last, L
<1>7. end = a + (W - 1) * TF /\ last[1].open = a
  <2>1. 1 \in 1..W /\ W \in 1..W /\ (1 - 1) * TF = 0
    BY <1>len
  <2>2. end = a + (W - 1) * TF
    BY <1>5, <1>6, <2>1
  <2>3. last[1].open = a + (1 - 1) * TF
    BY <1>5, <2>1, Zenon
  <2> HIDE DEF a
  <2>4. QED
    BY <1>ends, <2>1, <2>2, <2>3
<1>8. end \in Opens /\ listed <= end
  <2>1. listed <= end /\ IsClosed(end, clock)
    <3>1. L \in 1..L
      BY <1>len
    <3>2. lo <= end /\ IsClosed(end, clock)
      BY <1>over, <3>1, Zenon
    <3>3. QED
      BY <1>1, <1>2, <1>ends, <3>2
  <2>2. QED
    BY <1>1, <1>ends, <1>grid, <2>1, OverIsOpen
<1>9. /\ d \in Drivers /\ d.window = last /\ d.warmed
      /\ \A c \in Candidates(f, last) : c.time <= d.watermark
  <2>1. PICK o \in Opens : o = Last(last).open
    BY <1>6, <1>8
  <2>2. f \in Findings(o)
    BY <1>1, <2>1, FindsAre
  <2>3. d = WarmUp(f, [NewDriver EXCEPT !.window = last])
    BY DEF Warmed
  <2>4. last \in Seq(Candles)
    BY <1>last
  <2> HIDE DEF L
  <2>5. QED
    BY ONLY <2>2, <2>3, <2>4, WarmUpMarks
<1> DEFINE y == [x EXCEPT !.pc = "polling", !.cursor = Last(closed).open, !.driver = d]
<1>10. /\ y \in TaskRecs /\ y.pc = "polling" /\ y.driver = d /\ y.cursor = end /\ y.batch = <<>>
  BY <1>1, <1>ends, <1>6, <1>9 DEF TaskRecs
<1> HIDE DEF a, end, y
<1>11. OnTime(y)
  <2>1. Supply(y) = last
    BY <1>last, <1>9, <1>10 DEF Supply
  <2>2. \A i \in 1..W : /\ last[i].open % TF = 0
                        /\ listed <= last[i].open /\ IsClosed(last[i].open, clock)
    <3> TAKE i \in 1..W
    <3>1. PICK k \in 1..L : k = L - W + i
      BY <1>len
    <3>2. last[i] = closed[k]
      BY <1>last, <3>1
    <3>3. closed[k].open % TF = 0 /\ IsClosed(closed[k].open, clock)
          /\ lo <= closed[k].open
      BY <1>over, Zenon
    <3>4. listed <= closed[k].open
      BY <1>1, <1>2, <1>int, <3>3
    <3>5. QED
      BY <3>2, <3>3, <3>4
  <2>3. \A i, j \in 1..W : i < j => last[i].open < last[j].open
    <3> SUFFICES ASSUME NEW i \in 1..W, NEW j \in 1..W, i < j
                 PROVE  last[i].open < last[j].open
      OBVIOUS
    <3>1. (i - 1) * TF < (j - 1) * TF /\ (i - 1) * TF \in Int /\ (j - 1) * TF \in Int
      OBVIOUS
    <3>2. last[i].open = a + (i - 1) * TF /\ last[j].open = a + (j - 1) * TF
      BY <1>5, Zenon
    <3>3. QED
      BY <1>ends, <3>1, <3>2
  <2>4. \A i \in 1..(W - 1) : last[i + 1].open = last[i].open + TF
    <3> TAKE i \in 1..(W - 1)
    <3>1. PICK j \in 1..W : j = i + 1 /\ i \in 1..W
      OBVIOUS
    <3>2. (j - 1) * TF = (i - 1) * TF + TF /\ (i - 1) * TF \in Int
      BY <3>1
    <3>3. last[i].open = a + (i - 1) * TF /\ last[j].open = a + (j - 1) * TF
      BY <1>5, <3>1, Zenon
    <3>4. QED
      BY <1>ends, <3>1, <3>2, <3>3
  <2>5. QED
    BY <1>len, <1>last, <1>6, <1>9, <1>10, <2>1, <2>2, <2>3, <2>4 DEF OnTime
<1>12. ASSUME NEW id \in sent, id.sym = s
       PROVE  Behind(id, d) \/ id \in NotFound(s, f, last)
  <2>1. PICK o \in Opens : listed <= o /\ IsClosed(o, x.snap) /\ id.time <= o
    BY <1>12 DEF TaskOK, Remembers, Found
  <2>2. id.time \in Int /\ id.time % TF = 0
    BY <1>12 DEF TaskOK, Remembers, Found, Opens
  <2>3. o \in Int /\ o % TF = 0
    BY DEF Opens
  <2>4. o <= x.snap /\ IsClosed(o, clock)
    BY <1>1, <2>1, <2>3 DEF IsClosed
  <2>5. o <= end
    <3>1. CASE lo <= o
      <4>1. o \in Grid(lo, x.snap)
        BY <1>1, <2>3, <2>4, <3>1 DEF Grid
      <4>2. PICK i \in 1..L : closed[i].open = o
        BY <1>all, <2>4, <4>1, Zenon
      <4>3. o = closed[1].open + (i - 1) * TF
        BY <1>run, <4>2, Zenon
      <4>4. (i - 1) * TF <= (L - 1) * TF /\ (i - 1) * TF \in Int /\ (L - 1) * TF \in Int
        BY <1>len
      <4>5. QED
        BY <1>ends, <1>from, <2>3, <4>3, <4>4
    <3>2. CASE o < lo
      <4>1. lo <= end
        BY <1>len, <1>over DEF end
      <4>2. QED
        BY <1>ends, <2>3, <3>2, <4>1
    <3>3. QED
      BY <2>3, <3>1, <3>2
  <2>6. CASE id.time < a
    BY <1>7, <1>9, <2>6 DEF Behind
  <2>7. CASE a <= id.time
    <3>1. id.time < a + W * TF
      <4>1. W * TF = (W - 1) * TF + TF /\ (W - 1) * TF \in Int
        OBVIOUS
      <4>2. QED
        BY <1>ends, <1>7, <2>1, <2>2, <2>3, <2>5, <4>1
    <3>2. PICK i \in 1..W : last[i].open = id.time
      <4>1. PICK time \in Int : time = id.time
        BY <2>2
      <4>2. W \in Nat /\ Evenly(last, W, a)
        BY <1>len, <1>5 DEF Evenly
      <4> HIDE DEF W
      <4>3. time % TF = 0 /\ a <= time /\ time < a + W * TF
        BY <2>2, <2>7, <3>1, <4>1
      <4>4. \E i \in 1..W : last[i].open = time
        BY <1>ends, <1>grid, <4>2, <4>3, InWindow
      <4>5. QED
        BY <4>1, <4>4
    <3>3. CASE \E c \in Candidates(f, last) : ~(c.time < id.time)
      <4>1. PICK c \in Candidates(f, last) : ~(c.time < id.time)
        BY <3>3
      <4>2. c.time \in Int
        <5>1. PICK e \in Opens : e = Last(last).open
          BY <1>6, <1>8
        <5>2. f \in Findings(e)
          BY <1>1, <5>1, FindsAre
        <5>3. c \in Divergences
          BY <5>2, CandidatesAre
        <5>4. QED
          BY <5>3 DEF Divergences, Opens
      <4>3. c.time <= d.watermark /\ d.watermark \in Int
        BY <1>9 DEF Drivers
      <4>4. QED
        BY <2>2, <4>1, <4>2, <4>3 DEF Behind
    <3>4. CASE \A c \in Candidates(f, last) : c.time < id.time
      <4>1. i \in DOMAIN last
        BY <1>last
      <4>2. QED
        BY <1>12, <3>2, <3>4, <4>1 DEF NotFound
    <3>5. QED
      BY <3>3, <3>4
  <2>8. QED
    BY <1>ends, <2>2, <2>6, <2>7
<1>13. QED
  BY <1>10, <1>11, <1>12, Zenon DEF WarmResult, y

\* The opens of a run of candles rise.
Rising(c) == \A i, j \in 1..Len(c) : i < j => c[i].open < c[j].open

LEMMA CandleOpen ==
  ASSUME NEW c \in Seq(Candles)
  PROVE  \A i \in 1..Len(c) : c[i].open \in Int
<1> TAKE i \in 1..Len(c)
<1>1. c[i] \in Candles
  OBVIOUS
<1>2. QED
  BY <1>1 DEF Candles

LEMMA EvenlyRises ==
  ASSUME NEW c \in Seq(Candles), Len(c) > 0 => Evenly(c, Len(c), c[1].open)
  PROVE  Rising(c) /\ \A i \in 1..(Len(c) - 1) : c[i + 1].open = c[i].open + TF
<1> USE Bounds
<1> DEFINE n == Len(c)
<1>1. n \in Nat /\ \A i \in 1..n : c[i].open \in Int
  BY CandleOpen
<1>2. \A i \in 1..n : c[i].open = c[1].open + (i - 1) * TF
  <2>1. TAKE i \in 1..n
  <2>2. Evenly(c, n, c[1].open)
    OBVIOUS
  <2>3. QED
    BY <2>2, Zenon DEF Evenly
<1> HIDE DEF n
<1>3. ASSUME NEW i \in 1..n, NEW j \in 1..n, i < j
      PROVE  c[i].open < c[j].open
  <2>1. (i - 1) * TF < (j - 1) * TF /\ (i - 1) * TF \in Int /\ (j - 1) * TF \in Int
    <3>1. i - 1 \in Int /\ j - 1 \in Int /\ i - 1 < j - 1
      BY <1>1, <1>3
    <3> DEFINE a == i - 1
               b == j - 1
    <3> HIDE DEF a, b
    <3>2. a * TF < b * TF /\ a * TF \in Int /\ b * TF \in Int
      BY <3>1 DEF a, b
    <3>3. QED
      BY <3>2 DEF a, b
  <2>2. 1 \in 1..n
    BY <1>1
  <2>3. QED
    BY <1>1, <1>2, <2>1, <2>2
<1>4. ASSUME NEW i \in 1..(n - 1)
      PROVE  c[i + 1].open = c[i].open + TF
  <2>1. PICK j \in 1..n : j = i + 1 /\ i \in 1..n /\ 1 \in 1..n
    BY <1>1
  <2>2. (j - 1) * TF = (i - 1) * TF + TF /\ (i - 1) * TF \in Int
    <3> DEFINE a == i - 1
    <3>1. a \in Int /\ j - 1 = a + 1 /\ TF \in Int
      BY <1>1, <2>1
    <3> HIDE DEF a
    <3>2. (a + 1) * TF = a * TF + TF /\ a * TF \in Int
      BY ONLY <3>1
    <3>3. QED
      BY <3>1, <3>2 DEF a
  <2>3. c[j].open = c[1].open + (j - 1) * TF /\ c[i].open = c[1].open + (i - 1) * TF
    BY <1>2, <2>1
  <2>4. c[1].open \in Int
    BY <1>1, <2>1
  <2>5. QED
    BY <2>1, <2>2, <2>3, <2>4
<1>5. QED
  BY <1>3, <1>4 DEF Rising, n

\* Candles that follow on each other still rise.
LEMMA JoinRises ==
  ASSUME NEW w \in Seq(Candles), NEW c \in Seq(Candles), Rising(w), Rising(c), Len(w) > 0,
         Len(c) > 0 => w[Len(w)].open < c[1].open
  PROVE  Rising(w \o c)
<1> DEFINE all == w \o c
           m == Len(w)
           n == Len(c)
<1>1. /\ m \in Nat \ {0} /\ n \in Nat /\ Len(all) = m + n
      /\ \A i \in 1..m : all[i] = w[i]
      /\ \A i \in 1..(m + n) : i > m => all[i] = c[i - m]
      /\ \A i \in 1..m : w[i].open \in Int
      /\ \A i \in 1..n : c[i].open \in Int
  BY CandleOpen
<1> HIDE DEF all, m, n
<1>2. ASSUME NEW i \in 1..(m + n), NEW j \in 1..(m + n), i < j
      PROVE  all[i].open < all[j].open
  <2>1. CASE j <= m
    <3>1. i \in 1..m /\ j \in 1..m
      BY <1>1, <1>2, <2>1
    <3>2. w[i].open < w[j].open
      BY <1>2, <3>1, Zenon DEF Rising, m
    <3>3. QED
      BY <1>1, <3>1, <3>2
  <2>2. CASE i > m
    <3>1. PICK a \in 1..n, b \in 1..n : a = i - m /\ b = j - m /\ a < b
      BY <1>1, <1>2, <2>2
    <3>2. c[a].open < c[b].open
      BY <3>1, Zenon DEF Rising, n
    <3>3. all[i] = c[a] /\ all[j] = c[b]
      BY <1>1, <1>2, <2>2, <3>1
    <3>4. QED
      BY <3>2, <3>3
  <2>3. CASE i <= m /\ j > m
    <3>1. i \in 1..m /\ m \in 1..m /\ 1 \in 1..n
      BY <1>1, <1>2, <2>3
    <3>2. PICK b \in 1..n : b = j - m
      BY <1>1, <1>2, <2>3
    <3>3. w[i].open <= w[m].open
      <4>1. CASE i = m
        BY <1>1, <3>1, <4>1
      <4>2. CASE i < m
        <5>1. w[i].open < w[m].open
          BY <3>1, <4>2, Zenon DEF Rising, m
        <5>2. QED
          BY <1>1, <3>1, <5>1
      <4>3. QED
        BY <1>1, <2>3, <4>1, <4>2
    <3>4. c[1].open <= c[b].open
      <4>1. CASE b = 1
        BY <1>1, <3>1, <4>1
      <4>2. CASE 1 < b
        <5>1. c[1].open < c[b].open
          BY <3>1, <4>2, Zenon DEF Rising, n
        <5>2. QED
          BY <1>1, <3>1, <5>1
      <4>3. QED
        BY <1>1, <4>1, <4>2
    <3>5. w[m].open < c[1].open
      BY <1>1, <3>1 DEF m, n
    <3>6. all[i] = w[i] /\ all[j] = c[b]
      BY <1>1, <2>3, <3>1, <3>2
    <3>7. QED
      <4>1. w[i].open \in Int /\ w[m].open \in Int /\ c[1].open \in Int /\ c[b].open \in Int
        BY <1>1, <3>1
      <4>2. w[i].open < c[b].open
        BY <3>3, <3>4, <3>5, <4>1, SMTT(30)
      <4>3. QED
        BY <3>6, <4>2
  <2>4. QED
    BY <1>1, <1>2, <2>1, <2>2, <2>3
<1>3. QED
  BY <1>1, <1>2 DEF Rising, all

\* A poll's answer and the candles of it that are new.
Answer(x) == Klines(WindowLen + PollExtra, x.snap)
Batch(x) == ClosedOf({o \in Answer(x) : o > x.cursor}, x.snap, clock)

\* The new candles are a run that goes on where the window ends, or fills it.
LEMMA BatchRuns ==
  ASSUME WatchInv, NEW x, NEW s, TaskOK(x, s), x.pc = "fetching", NEW new, new = Batch(x)
  PROVE  /\ new \in Seq(Candles)
         /\ Len(new) > 0 => Evenly(new, Len(new), new[1].open)
         /\ \A i \in 1..Len(new) : /\ new[i].open % TF = 0
                                   /\ listed <= new[i].open /\ IsClosed(new[i].open, clock)
         /\ Len(new) > 0 => x.cursor < new[1].open
         /\ 0 < Len(new) /\ Len(new) < WindowLen => new[1].open = x.cursor + TF
<1> USE Bounds
<1>1. /\ x \in TaskRecs /\ x.snap \in Int /\ x.snap <= clock /\ x.cursor \in Int
      /\ listed \in Nat /\ clock \in Int
  BY DEF WatchInv, TaskOK, TaskRecs, Timely
<1>2. x.cursor % TF = 0 /\ listed <= x.cursor
  <2> DEFINE all == Supply(x)
             n == Len(all)
  <2>1. OnTime(x)
    BY DEF TaskOK, Watches
  <2>2. n \in Nat \ {0}
    <3>1. x.driver.window \in Seq(Candles) /\ x.batch \in Seq(Candles)
          /\ Len(x.driver.window) = WindowLen
      BY <1>1, <2>1 DEF TaskRecs, Drivers, OnTime
    <3> DEFINE w == x.driver.window
               b == x.batch
    <3>2. all = w \o b
      BY DEF Supply
    <3>a. w \in Seq(Candles) /\ b \in Seq(Candles)
      BY <3>1
    <3> HIDE DEF w, b, all
    <3>3. Len(all) = Len(w) + Len(b) /\ Len(b) \in Nat
      BY <3>2, <3>a
    <3>4. QED
      BY <3>1, <3>3 DEF w
  <2> HIDE DEF all, n
  <2>3. n \in 1..n
    BY <2>2
  <2>4. x.cursor = all[n].open
    BY <2>1, Zenon DEF OnTime, all, n
  <2>5. all[n].open % TF = 0 /\ listed <= all[n].open
    BY <2>1, <2>3, Zenon DEF OnTime, all, n
  <2>6. QED
    BY <2>4, <2>5
<1>3. PICK lo \in Int : /\ Answer(x) = Grid(lo, x.snap)
                       /\ listed <= lo /\ lo \in {listed, x.snap - (WindowLen + PollExtra) * TF}
  <2>1. WindowLen + PollExtra \in Nat
    OBVIOUS
  <2>2. QED
    BY <1>1, <2>1, KlinesSpan DEF Answer
<1>4. PICK l \in Int : /\ {o \in Grid(lo, x.snap) : o > x.cursor} = Grid(l, x.snap)
                      /\ lo <= l /\ x.cursor < l /\ l \in {lo, x.cursor + 1}
  BY <1>1, LaterSpan
<1>5. new = ClosedOf(Grid(l, x.snap), x.snap, clock)
  BY <1>3, <1>4 DEF Batch
<1>6. IsRun(new, l, x.snap, clock)
  <2>1. l \in Int /\ x.snap \in Int /\ clock \in Int
    BY <1>1
  <2>2. QED
    BY <1>5, <2>1, ClosedRun
<1> DEFINE k == Len(new)
<1>7. /\ new \in Seq(Candles)
      /\ \A i \in 1..k : new[i].open = new[1].open + (i - 1) * TF
      /\ \A i \in 1..k : /\ new[i].open % TF = 0
                         /\ IsClosed(new[i].open, clock) /\ l <= new[i].open
      /\ k > 0 => new[1].open < l + TF
      /\ k > 0 /\ x.snap <= clock => x.snap - TF - Settle - 1 < new[1].open + k * TF
  BY <1>6, Zenon DEF IsRun
<1>8. k \in Nat /\ \A i \in 1..k : new[i].open \in Int
  BY <1>7, CandleOpen
<1>9. k > 0 => Evenly(new, k, new[1].open)
  BY <1>7, Zenon DEF Evenly
<1> HIDE DEF k
<1>10. \A i \in 1..k : listed <= new[i].open /\ x.cursor < new[i].open
  <2> TAKE i \in 1..k
  <2> DEFINE o == new[i].open
  <2>1. l <= o /\ o \in Int
    BY <1>7, <1>8
  <2> HIDE DEF o
  <2>2. listed <= o /\ x.cursor < o
    <3>1. listed \in Int /\ lo \in Int /\ l \in Int /\ x.cursor \in Int
      BY <1>1
    <3>2. listed <= lo /\ lo <= l /\ x.cursor < l
      BY <1>3, <1>4
    <3>3. QED
      BY <2>1, <3>1, <3>2
  <2>3. QED
    BY <2>2 DEF o
<1>11. ASSUME 0 < k, k < WindowLen
       PROVE  new[1].open = x.cursor + TF
  <2> DEFINE a == new[1].open
  <2>1. /\ a \in Int /\ a % TF = 0 /\ l <= a /\ a < l + TF
        /\ x.snap - TF - Settle - 1 < a + k * TF /\ x.cursor < a
    <3>1. 1 \in 1..k
      BY <1>8, <1>11
    <3>2. QED
      BY <1>1, <1>7, <1>8, <1>10, <1>11, <3>1
  <2> HIDE DEF a
  <2>2. x.cursor + TF <= a
    <3>1. PICK b \in Int : b = x.cursor
      BY <1>1
    <3>2. b % TF = 0 /\ b < a
      BY <1>2, <2>1, <3>1
    <3> DEFINE p == b \div TF
               q == a \div TF
    <3>3. p \in Int /\ b = TF * p
      BY <3>2
    <3>4. q \in Int /\ a = TF * q
      BY <2>1
    <3> HIDE DEF p, q
    <3>5. p < q
      BY <3>2, <3>3, <3>4
    <3>6. QED
      BY <3>1, <3>3, <3>4, <3>5
  <2>3. l = x.cursor + 1
    <3>1. CASE l = lo /\ lo = listed
      BY <1>1, <1>2, <1>4, <3>1
    <3>2. CASE l = x.snap - (WindowLen + PollExtra) * TF
      <4> DEFINE n == WindowLen + PollExtra
      <4>1. n \in Nat /\ k + 1 + PollExtra <= n
        BY <1>8, <1>11
      <4> HIDE DEF n
      <4>2. (k + 1 + PollExtra) * TF <= n * TF
            /\ (k + 1 + PollExtra) * TF = k * TF + (PollExtra - 1) * TF + 2 * TF
            /\ k * TF \in Int /\ n * TF \in Int /\ (PollExtra - 1) * TF \in Int
        BY <1>8, <4>1
      <4>3. a < x.snap - n * TF + TF
        BY <2>1, <3>2 DEF n
      <4>4. FALSE
        BY <1>1, <2>1, <4>2, <4>3, PathAssumption
      <4>5. QED
        BY <4>4
    <3>3. QED
      BY <1>3, <1>4, <3>1, <3>2
  <2>4. a = x.cursor + TF
    BY <1>1, <2>1, <2>2, <2>3
  <2>5. QED
    BY <2>4 DEF a
<1>12. k > 0 => x.cursor < new[1].open
  <2>1. k > 0 => 1 \in 1..k
    BY <1>8
  <2>2. QED
    BY <1>10, <2>1
<1>13. \A i \in 1..k : /\ new[i].open % TF = 0
                       /\ listed <= new[i].open /\ IsClosed(new[i].open, clock)
  BY <1>7, <1>10, Zenon
<1>14. QED
  BY <1>7, <1>9, <1>11, <1>12, <1>13, Zenon DEF k

\* The last candles, as many as a window has, are unbroken if the new ones go
\* on where it ends, or are as many.
LEMMA JoinUnbroken ==
  ASSUME NEW w \in Seq(Candles), NEW c \in Seq(Candles), Len(w) > 0,
         \A i \in 1..(Len(w) - 1) : w[i + 1].open = w[i].open + TF,
         \A i \in 1..(Len(c) - 1) : c[i + 1].open = c[i].open + TF,
         0 < Len(c) /\ Len(c) < Len(w) => c[1].open = w[Len(w)].open + TF
  PROVE  LET all == w \o c IN
         \A i \in (Len(c) + 1)..(Len(all) - 1) : all[i + 1].open = all[i].open + TF
<1> DEFINE all == w \o c
           m == Len(w)
           n == Len(c)
<1>1. /\ m \in Nat \ {0} /\ n \in Nat /\ Len(all) = m + n
      /\ \A i \in 1..m : all[i] = w[i]
      /\ \A i \in 1..(m + n) : i > m => all[i] = c[i - m]
  OBVIOUS
<1>2. /\ \A i \in 1..(m - 1) : w[i + 1].open = w[i].open + TF
      /\ \A i \in 1..(n - 1) : c[i + 1].open = c[i].open + TF
      /\ 0 < n /\ n < m => c[1].open = w[m].open + TF
  OBVIOUS
<1> HIDE DEF all, m, n
<1>3. ASSUME NEW i \in (n + 1)..(m + n - 1)
      PROVE  all[i + 1].open = all[i].open + TF
  <2>1. CASE i < m
    <3>1. i \in 1..m /\ i + 1 \in 1..m /\ i \in 1..(m - 1)
      BY <1>1, <2>1
    <3>2. all[i] = w[i] /\ all[i + 1] = w[i + 1]
      BY <1>1, <3>1
    <3>3. QED
      BY <1>2, <3>1, <3>2
  <2>2. CASE i = m
    <3>1. m \in 1..m /\ m + 1 \in 1..(m + n) /\ 0 < n /\ n < m
      BY <1>1, <2>2
    <3>2. all[m] = w[m] /\ all[m + 1] = c[1]
      BY <1>1, <3>1
    <3>3. QED
      BY <1>2, <2>2, <3>1, <3>2
  <2>3. CASE i > m
    <3>1. PICK j \in 1..(n - 1) : j = i - m
      BY <1>1, <2>3
    <3>2. all[i] = c[j] /\ all[i + 1] = c[j + 1]
      BY <1>1, <2>3, <3>1
    <3>3. QED
      BY <1>2, <3>1, <3>2
  <2>4. QED
    BY <1>1, <2>1, <2>2, <2>3
<1>4. QED
  BY <1>1, <1>3 DEF all, n

LEMMA PollOK ==
  ASSUME WatchInv, NEW x, NEW s, TaskOK(x, s), x.pc = "fetching", NEW new, new = Batch(x)
  PROVE  TaskOK([x EXCEPT !.pc = "pushing", !.batch = new,
                          !.cursor = IF new = <<>> THEN @ ELSE Last(new).open], s)
<1> USE Bounds
<1> DEFINE w == x.driver.window
           k == Len(new)
           y == [x EXCEPT !.pc = "pushing", !.batch = new,
                          !.cursor = IF new = <<>> THEN @ ELSE Last(new).open]
<1>1. /\ x \in TaskRecs /\ x.batch = <<>> /\ OnTime(x) /\ Remembers(x, s) /\ Watches(x)
      /\ w \in Seq(Candles) /\ Len(w) = WindowLen /\ x.driver.warmed
  BY DEF TaskOK, Watches, OnTime, TaskRecs, Drivers
<1>2. /\ new \in Seq(Candles)
      /\ k > 0 => Evenly(new, k, new[1].open)
      /\ \A i \in 1..k : /\ new[i].open % TF = 0
                           /\ listed <= new[i].open /\ IsClosed(new[i].open, clock)
      /\ k > 0 => x.cursor < new[1].open
      /\ 0 < k /\ k < WindowLen => new[1].open = x.cursor + TF
  BY BatchRuns
<1>3. Supply(x) = w
  BY <1>1 DEF Supply
<1>4. /\ \A i \in 1..Len(w) : /\ w[i].open % TF = 0
                               /\ listed <= w[i].open /\ IsClosed(w[i].open, clock)
      /\ Rising(w)
      /\ \A i \in 1..(Len(w) - 1) : w[i + 1].open = w[i].open + TF
      /\ x.cursor = w[Len(w)].open
  <2>1. Len(x.batch) + 1 = 1
    BY <1>1
  <2>2. QED
    BY <1>1, <1>3, <2>1 DEF OnTime, Rising
<1>5. k \in Nat /\ (new = <<>> <=> k = 0) /\ (k > 0 => Last(new) = new[k])
      /\ \A i \in 1..k : new[i].open \in Int
  BY <1>2, CandleOpen DEF Last
<1> HIDE DEF k
<1>6. Rising(new) /\ \A i \in 1..(k - 1) : new[i + 1].open = new[i].open + TF
  BY <1>2, EvenlyRises DEF k
<1> DEFINE cur == IF new = <<>> THEN x.cursor ELSE Last(new).open
<1>7. cur \in Int
  <2>1. x.cursor \in Int
    BY <1>1 DEF TaskRecs
  <2>2. k > 0 => k \in 1..k
    BY <1>5
  <2>3. QED
    BY <1>5, <2>1, <2>2
<1>8. /\ y \in TaskRecs /\ y.pc = "pushing" /\ y.driver = x.driver /\ y.batch = new
      /\ y.cursor = cur
  <2>1. y = [x EXCEPT !.pc = "pushing", !.batch = new, !.cursor = cur]
    BY <1>1 DEF TaskRecs
  <2> HIDE DEF cur, y
  <2>2. QED
    BY <1>1, <1>2, <1>7, <2>1 DEF TaskRecs
<1> HIDE DEF y
<1> DEFINE all == w \o new
<1>9. Supply(y) = all
  BY <1>8 DEF Supply
<1>10. Rising(all)
  <2>1. Len(new) > 0 => w[Len(w)].open < new[1].open
    BY <1>2, <1>4 DEF k
  <2>2. Len(w) > 0
    BY <1>1
  <2> HIDE DEF w
  <2>3. QED
    BY <1>1, <1>2, <1>4, <1>6, <2>1, <2>2, JoinRises
<1>11. \A i \in (k + 1)..(Len(all) - 1) : all[i + 1].open = all[i].open + TF
  <2>1. 0 < k /\ k < Len(w) => new[1].open = w[Len(w)].open + TF
    BY <1>1, <1>2, <1>4
  <2>2. Len(w) > 0
    BY <1>1
  <2> HIDE DEF w
  <2>3. QED
    BY <1>1, <1>2, <1>4, <1>6, <2>1, <2>2, JoinUnbroken DEF k
<1>12. /\ Len(all) = Len(w) + k
       /\ \A i \in 1..Len(w) : all[i] = w[i]
       /\ \A i \in 1..Len(all) : i > Len(w) => i - Len(w) \in 1..k /\ all[i] = new[i - Len(w)]
  <2>1. w \in Seq(Candles) /\ new \in Seq(Candles) /\ k = Len(new)
    BY <1>1, <1>2 DEF k
  <2> HIDE DEF w
  <2>2. Len(all) = Len(w) + k
    BY ONLY <2>1
  <2>3. \A i \in 1..Len(w) : all[i] = w[i]
    BY ONLY <2>1
  <2>4. \A i \in 1..Len(all) : i > Len(w) => i - Len(w) \in 1..k /\ all[i] = new[i - Len(w)]
    BY ONLY <2>1
  <2>5. QED
    BY <2>2, <2>3, <2>4
<1> HIDE DEF all
<1>13. \A i \in 1..Len(all) : /\ all[i].open % TF = 0
                               /\ listed <= all[i].open /\ IsClosed(all[i].open, clock)
  <2> TAKE i \in 1..Len(all)
  <2>1. Len(w) \in Nat
    BY <1>1
  <2> HIDE DEF w
  <2>2. CASE i <= Len(w)
    <3>1. i \in 1..Len(w)
      BY <2>1, <2>2
    <3>2. QED
      BY <1>4, <1>12, <3>1, Zenon
  <2>3. CASE i > Len(w)
    <3>1. PICK j \in 1..k : all[i] = new[j]
      BY <1>12, <2>3
    <3>2. QED
      BY <1>2, <3>1, Zenon
  <2>4. QED
    BY <2>1, <2>2, <2>3
<1>14. y.cursor = all[Len(all)].open
  <2>1. CASE k = 0
    <3>1. Len(w) \in 1..Len(w) /\ Len(all) = Len(w)
      BY <1>1, <1>12, <2>1
    <3>2. all[Len(all)] = w[Len(w)]
      BY <1>12, <3>1, Zenon
    <3>3. QED
      BY <1>4, <1>5, <1>8, <2>1, <3>2
  <2>2. CASE k > 0
    <3>1. Len(all) \in 1..Len(all) /\ Len(all) > Len(w) /\ Len(all) - Len(w) = k
      BY <1>1, <1>5, <1>12, <2>2
    <3>2. all[Len(all)] = new[k]
      BY <1>12, <3>1
    <3>3. QED
      BY <1>5, <1>8, <2>2, <3>2
  <2>3. QED
    BY <1>5, <2>1, <2>2
<1>15. OnTime(y)
  BY <1>1, <1>8, <1>9, <1>10, <1>11, <1>13, <1>14, Zenon DEF OnTime, Rising, k
<1>16. Timely(y) /\ Remembers(y, s)
  BY <1>1, <1>8 DEF Timely, Remembers, Watches
<1>17. TaskOK(y, s)
  BY <1>8, <1>15, <1>16 DEF TaskOK
<1>18. QED
  BY <1>17 DEF y

\* The record of a task after a candle of its batch.
Pushed(x, p) == [x EXCEPT !.driver = p.driver, !.batch = Tail(@)]

LEMMA ConcatIs ==
  ASSUME NEW S, NEW a \in Seq(S), NEW b \in Seq(S)
  PROVE  /\ Len(a \o b) = Len(a) + Len(b)
         /\ \A i \in 1..Len(a) : (a \o b)[i] = a[i]
         /\ \A i \in 1..(Len(a) + Len(b)) : i > Len(a) => (a \o b)[i] = b[i - Len(a)]
  OBVIOUS

\* The supply shifts by one candle.
LEMMA SupplyShifts ==
  ASSUME NEW w \in Seq(Candles), NEW b \in Seq(Candles), Len(w) > 0, Len(b) > 0
  PROVE  LET all == w \o b
             new == Append(Tail(w), Head(b)) \o Tail(b) IN
         /\ Len(new) = Len(all) - 1 /\ Len(all) = Len(w) + Len(b)
         /\ \A i \in 1..Len(new) : new[i] = all[i + 1]
         /\ \A i \in 1..Len(w) : new[i] = Append(Tail(w), Head(b))[i]
         /\ all[1] = w[1] /\ all[Len(w) + 1] = Head(b)
<1> DEFINE m == Len(w)
           n == Len(b)
           a == Append(Tail(w), Head(b))
           tl == Tail(b)
           new == a \o tl
           all == w \o b
<1>1. /\ m \in Nat \ {0} /\ n \in Nat \ {0} /\ Len(all) = m + n
      /\ \A i \in 1..m : all[i] = w[i]
      /\ \A i \in 1..(m + n) : i > m => all[i] = b[i - m]
      /\ Head(b) = b[1]
  OBVIOUS
<1>2. /\ a \in Seq(Candles) /\ Len(a) = m /\ a[m] = b[1]
      /\ \A i \in 1..(m - 1) : a[i] = w[i + 1]
  OBVIOUS
<1>3. tl \in Seq(Candles) /\ Len(tl) = n - 1 /\ \A i \in 1..(n - 1) : tl[i] = b[i + 1]
  OBVIOUS
<1> HIDE DEF m, n, a, tl
<1>4. /\ Len(new) = m + n - 1
      /\ \A i \in 1..m : new[i] = a[i]
      /\ \A i \in 1..(m + n - 1) : i > m => new[i] = tl[i - m]
  <2>1. /\ Len(new) = Len(a) + Len(tl)
        /\ \A i \in 1..Len(a) : new[i] = a[i]
        /\ \A i \in 1..(Len(a) + Len(tl)) : i > Len(a) => new[i] = tl[i - Len(a)]
    BY <1>2, <1>3, ConcatIs
  <2>2. Len(a) + Len(tl) = m + n - 1
    BY <1>1, <1>2, <1>3
  <2> HIDE DEF new
  <2>3. QED
    BY <1>2, <2>1, <2>2
<1> HIDE DEF new, all
<1>5. ASSUME NEW i \in 1..(m + n - 1)
      PROVE  new[i] = all[i + 1]
  <2>1. CASE i < m
    BY <1>1, <1>2, <1>4, <2>1
  <2>2. CASE i = m
    <3>1. new[m] = b[1] /\ m + 1 \in 1..(m + n) /\ m + 1 > m /\ m + 1 - m = 1
      BY <1>1, <1>2, <1>4
    <3>2. all[m + 1] = b[1]
      BY <1>1, <3>1
    <3>3. QED
      BY <2>2, <3>1, <3>2
  <2>3. CASE i > m
    <3>1. PICK j \in 1..(n - 1) : j = i - m
      BY <1>1, <2>3
    <3>2. new[i] = b[j + 1]
      BY <1>3, <1>4, <2>3, <3>1
    <3>3. all[i + 1] = b[j + 1]
      <4>1. i + 1 \in 1..(m + n) /\ i + 1 > m /\ i + 1 - m = j + 1
        BY <1>1, <2>3, <3>1
      <4>2. QED
        BY <1>1, <4>1
    <3>4. QED
      BY <3>2, <3>3
  <2>4. QED
    BY <1>1, <2>1, <2>2, <2>3
<1>6. all[1] = w[1] /\ all[m + 1] = Head(b)
  <2>1. 1 \in 1..m /\ m + 1 \in 1..(m + n) /\ m + 1 > m /\ m + 1 - m = 1
    BY <1>1
  <2>2. QED
    BY <1>1, <2>1
<1>7. QED
  BY <1>1, <1>4, <1>5, <1>6 DEF new, all, a, tl, m, n

\* What a push makes of the task that pushes, and what it signals.
PushResult(x, s, p) ==
  LET y == Pushed(x, p) IN
  /\ y \in TaskRecs /\ y.pc = "pushing" /\ OnTime(y)
  /\ y.driver = p.driver
  /\ x.driver.window[1].open < y.driver.window[1].open
  /\ p.out = {} => y.driver.watermark = x.driver.watermark
  /\ \A c \in p.out : /\ c \in Divergences
                      /\ c.time > x.driver.watermark /\ y.driver.watermark = c.time
                      /\ c.time > x.driver.window[1].open
                      /\ Found(SignalId(s, c), clock)

LEMMA PushOK ==
  ASSUME NEW x, NEW s \in Symbols, NEW f, NEW p,
         WatchInv, TaskOK(x, s), x.pc = "pushing", x.batch # <<>>,
         f \in Finds(show[s], Slide(x.driver.window, Head(x.batch))),
         p = PushClosed(f, x.driver, Head(x.batch))
  PROVE  PushResult(x, s, p)
<1> USE Bounds
<1> DEFINE w == x.driver.window
           b == x.batch
           h == Head(b)
           a == Append(Tail(w), h)
           y == Pushed(x, p)
           all == w \o b
           new == a \o Tail(b)
<1>1. /\ x \in TaskRecs /\ OnTime(x) /\ x.driver \in Drivers /\ x.driver.warmed
      /\ w \in Seq(Candles) /\ Len(w) = WindowLen /\ b \in Seq(Candles) /\ b # <<>>
      /\ show[s] \in Shows /\ clock \in 0..MaxClock /\ listed \in Nat
  BY DEF TaskOK, Watches, OnTime, TaskRecs, Drivers, WatchInv
<1>2. Supply(x) = all
  BY DEF Supply
<1>3. /\ \A i \in 1..Len(all) : /\ all[i].open % TF = 0
                                /\ listed <= all[i].open /\ IsClosed(all[i].open, clock)
      /\ Rising(all)
      /\ \A i \in (Len(b) + 1)..(Len(all) - 1) : all[i + 1].open = all[i].open + TF
      /\ x.cursor = all[Len(all)].open
  BY <1>1, <1>2, Zenon DEF OnTime, Rising
<1>4. Len(w) > 0 /\ Len(b) > 0 /\ Len(w) \in Nat /\ Len(b) \in Nat
  BY <1>1
<1>5. /\ h \in Candles /\ Tail(b) \in Seq(Candles) /\ Len(Tail(b)) = Len(b) - 1
      /\ a \in Seq(Candles) /\ Len(a) = WindowLen /\ Last(a) = h /\ a[Len(a)] = h
  <2> HIDE DEF w, b
  <2>1. h \in Candles /\ Tail(b) \in Seq(Candles) /\ Len(Tail(b)) = Len(b) - 1
    BY <1>1, <1>4
  <2>2. Tail(w) \in Seq(Candles) /\ Len(Tail(w)) = Len(w) - 1
    BY <1>1, <1>4
  <2> DEFINE tw == Tail(w)
  <2> HIDE DEF h, tw
  <2>3. Append(tw, h) \in Seq(Candles) /\ Len(Append(tw, h)) = Len(tw) + 1
        /\ Append(tw, h)[Len(tw) + 1] = h
    BY <2>1, <2>2 DEF tw
  <2>4. QED
    BY <1>1, <1>4, <2>1, <2>2, <2>3 DEF tw, Last
<1>6. /\ Len(new) = Len(all) - 1 /\ Len(all) = Len(w) + Len(b)
      /\ \A i \in 1..Len(new) : new[i] = all[i + 1]
      /\ \A i \in 1..Len(w) : new[i] = a[i]
      /\ all[1] = w[1] /\ all[Len(w) + 1] = h
  <2> HIDE DEF w, b
  <2>1. QED
    BY <1>1, <1>4, SupplyShifts
<1> HIDE DEF new, all, a, h, w, b
<1>7. \A i \in 1..Len(all) : all[i].open \in Int
  <2>1. all \in Seq(Candles)
    BY <1>1 DEF all
  <2>2. QED
    BY <2>1, CandleOpen
<1>8. h.open \in Opens /\ listed <= h.open /\ IsClosed(h.open, clock)
  <2>1. Len(w) + 1 \in 1..Len(all)
    BY <1>4, <1>6
  <2>2. h.open \in Int /\ h.open % TF = 0 /\ listed <= h.open /\ IsClosed(h.open, clock)
    BY <1>3, <1>6, <1>7, <2>1
  <2>3. QED
    BY <1>1, <2>2, OverIsOpen
<1>f. f \in Findings(h.open)
  <2>1. a = Slide(x.driver.window, Head(x.batch))
    BY <1>1 DEF a, h, w, b, Slide
  <2>2. Last(a).open \in Opens /\ Last(a) = h /\ f \in Finds(show[s], a)
    BY <1>5, <1>8, <2>1
  <2>3. QED
    BY <1>1, <2>2, FindsAre
<1>9. /\ p.driver \in Drivers /\ p.driver.window = a /\ p.driver.warmed
      /\ p.out \subseteq Candidates(f, a)
      /\ \A c \in p.out : c.time > x.driver.watermark /\ p.driver.watermark = c.time
      /\ p.out = {} => p.driver.watermark = x.driver.watermark
  <2>1. PICK d \in Drivers : d = x.driver
    BY <1>1
  <2>2. /\ d.warmed /\ Len(d.window) = WindowLen /\ p = PushClosed(f, d, h)
        /\ a = Append(Tail(d.window), h)
    BY <1>1, <2>1 DEF a, h, w, b
  <2>3. PICK o \in Opens : o = h.open
    BY <1>8
  <2>4. f \in Findings(o) /\ h \in Candles
    BY <1>5, <1>f, <2>3
  <2>5. /\ p.driver \in Drivers /\ p.driver.window = Append(Tail(d.window), h)
        /\ p.driver.warmed /\ p.out \subseteq Candidates(f, Append(Tail(d.window), h))
        /\ \A c \in p.out : c.time > d.watermark /\ p.driver.watermark = c.time
        /\ p.out = {} => p.driver.watermark = d.watermark
    BY <2>2, <2>4, PushMoves
  <2>6. QED
    BY <2>1, <2>2, <2>5
<1>10. /\ y \in TaskRecs /\ y.pc = "pushing" /\ y.driver = p.driver /\ y.batch = Tail(b)
       /\ y.cursor = x.cursor
  <2>1. y = [x EXCEPT !.driver = p.driver, !.batch = Tail(b)]
    BY <1>1 DEF Pushed, TaskRecs, b
  <2> HIDE DEF y
  <2>2. QED
    BY <1>1, <1>5, <1>9, <2>1 DEF TaskRecs
<1> HIDE DEF y
<1>11. Supply(y) = new
  BY <1>9, <1>10 DEF Supply, new, b
<1>12. \A i \in 1..Len(new) : i + 1 \in 1..Len(all)
  BY <1>4, <1>6
<1>13. OnTime(y)
  <2>1. \A i \in 1..Len(new) : /\ new[i].open % TF = 0
                               /\ listed <= new[i].open /\ IsClosed(new[i].open, clock)
    BY <1>3, <1>6, <1>12
  <2>2. ASSUME NEW i \in 1..Len(new), NEW j \in 1..Len(new), i < j
        PROVE  new[i].open < new[j].open
    <3>1. PICK k \in 1..Len(all), l \in 1..Len(all) : k = i + 1 /\ l = j + 1 /\ k < l
      BY <1>12, <2>2
    <3>2. all[k].open < all[l].open
      BY <1>3, <3>1, Zenon DEF Rising
    <3>3. QED
      BY <1>6, <3>1, <3>2
  <2>3. ASSUME NEW i \in (Len(Tail(b)) + 1)..(Len(new) - 1)
        PROVE  new[i + 1].open = new[i].open + TF
    <3>1. /\ i + 1 \in (Len(b) + 1)..(Len(all) - 1)
          /\ i \in 1..Len(new) /\ i + 1 \in 1..Len(new)
      BY <1>4, <1>5, <1>6
    <3>2. all[i + 1 + 1].open = all[i + 1].open + TF
      BY <1>3, <3>1, Zenon
    <3>3. QED
      BY <1>6, <3>1, <3>2
  <2>4. y.cursor = new[Len(new)].open
    <3>1. Len(new) \in 1..Len(new) /\ Len(new) + 1 = Len(all)
      BY <1>4, <1>6
    <3>2. new[Len(new)] = all[Len(all)]
      BY <1>6, <3>1
    <3>3. QED
      BY <1>3, <1>10, <3>2
  <2>5. QED
    BY <1>5, <1>9, <1>10, <1>11, <2>1, <2>2, <2>3, <2>4, Zenon DEF OnTime
<1>14. \A i \in 1..Len(w) : w[1].open < a[i].open /\ w[1].open \in Int /\ a[i].open \in Int
  <2> TAKE i \in 1..Len(w)
  <2>1. PICK k \in 1..Len(all) : k = i + 1 /\ 1 \in 1..Len(all) /\ 1 < k /\ i \in 1..Len(new)
    BY <1>4, <1>6
  <2>2. all[1].open < all[k].open
    BY <1>3, <2>1, Zenon DEF Rising
  <2>3. a[i] = all[k] /\ w[1] = all[1]
    BY <1>6, <2>1
  <2>4. QED
    BY <1>7, <2>1, <2>2, <2>3
<1>15. ASSUME NEW c \in p.out
       PROVE  /\ c \in Divergences /\ c.time > w[1].open
              /\ Found(SignalId(s, c), clock)
  <2>1. PICK o \in Opens : o = h.open
    BY <1>8
  <2>2. c \in Divergences /\ c.time <= o /\ \E i \in DOMAIN a : a[i].open = c.time
    <3>1. f \in Findings(o) /\ c \in Candidates(f, a)
      BY <1>9, <1>f, <2>1
    <3>2. QED
      BY <3>1, CandidatesAre
  <2>3. PICK i \in 1..Len(w) : a[i].open = c.time
    <3>1. DOMAIN a = 1..Len(w)
      BY <1>1, <1>5
    <3>2. QED
      BY <2>2, <3>1
  <2>4. c.time > w[1].open
    BY <1>14, <2>3
  <2> DEFINE id == SignalId(s, c)
  <2>5. id.time = c.time
    BY DEF SignalId
  <2> HIDE DEF id
  <2>6. Found(id, clock)
    BY <1>8, <2>1, <2>2, <2>5 DEF Found, Divergences
  <2>7. QED
    BY <2>2, <2>4, <2>6 DEF id
<1>16. w[1].open < a[1].open
  <2>1. 1 \in 1..Len(w)
    BY <1>4
  <2>2. QED
    BY <1>14, <2>1
<1>17. QED
  BY <1>9, <1>10, <1>13, <1>15, <1>16 DEF PushResult, y, w

-----------------------------------------------------------------------------
(* The steps of the path.                                                  *)

LEMMA TasksKeepWatch ==
  ASSUME WatchInv, NEW n \in [Tasks -> TaskRecs], \A u \in Tasks : TaskOK(n[u], Sym(u)),
         task' = n, UNCHANGED <<world, clock, history>>
  PROVE  WatchInv'
<1>1. UNCHANGED <<show, listed, clock, sent, resent, lost>>
  BY DEF world, history
<1>2. \A u \in Tasks : TaskOK(n[u], Sym(u))'
  BY <1>1, Kept
<1>3. \A u \in Tasks : TaskOK(task[u], Sym(u))'
  BY <1>2
<1>4. \A id \in sent' : id.sym \in Symbols /\ Found(id, clock)'
  BY <1>1 DEF WatchInv, Found, IsClosed
<1>5. ResentWasLost'
  BY <1>1 DEF WatchInv, ResentWasLost
<1>6. QED
  BY <1>1, <1>3, <1>4, <1>5 DEF WatchInv

LEMMA TaskKeepsWatch ==
  ASSUME WatchInv, NEW t \in Tasks, NEW y, TaskOK(y, Sym(t)),
         task' = [task EXCEPT ![t] = y], UNCHANGED <<world, clock, history>>
  PROVE  WatchInv'
<1>1. PICK n : n = [task EXCEPT ![t] = y]
  OBVIOUS
<1>2. n \in [Tasks -> TaskRecs] /\ \A u \in Tasks : TaskOK(n[u], Sym(u))
  <2>1. y \in TaskRecs
    BY DEF TaskOK
  <2>2. QED
    BY <1>1, <2>1 DEF WatchInv
<1>3. QED
  BY <1>1, <1>2, TasksKeepWatch

LEMMA StayKeepsWatch ==
  ASSUME WatchInv, UNCHANGED <<world, clock, history, task>>
  PROVE  WatchInv'
  BY TasksKeepWatch DEF WatchInv

LEMMA NoTasksKeepWatch ==
  ASSUME WatchInv, task' = [t \in Tasks |-> FreeTask], UNCHANGED <<world, clock, history>>
  PROVE  WatchInv'
<1>1. PICK n : n = [t \in Tasks |-> FreeTask]
  OBVIOUS
<1>2. n \in [Tasks -> TaskRecs] /\ \A u \in Tasks : TaskOK(n[u], Sym(u))
  <2>1. \A u : TaskOK(FreeTask, Sym(u))
    BY FreeTaskIs, IdleOK
  <2>2. QED
    BY <1>1, <2>1, FreeTaskIs
<1>3. QED
  BY <1>1, <1>2, TasksKeepWatch

LEMMA EndTaskKeepsWatch ==
  ASSUME WatchInv, NEW t \in Tasks, EndTask(t), UNCHANGED <<world, clock, history>>
  PROVE  WatchInv'
<1>1. PICK y : y = [FreeTask EXCEPT !.pc = "ended"]
  OBVIOUS
<1>2. TaskOK(y, Sym(t))
  BY <1>1, EndedOK
<1>3. task' = [task EXCEPT ![t] = y]
  BY <1>1 DEF EndTask
<1>4. QED
  BY <1>2, <1>3, TaskKeepsWatch

LEMMA ReconcileKeepsWatch ==
  ASSUME WatchInv, NEW desired, Reconcile(desired), UNCHANGED <<world, clock, history>>
  PROVE  WatchInv'
<1> DEFINE new == [FreeTask EXCEPT !.pc = "warming", !.snap = clock]
           newcomers == {s \in desired : /\ stops[s] = None
                                         /\ s \notin stopping
                                         /\ backoff[s] = 0}
           gone == {s \in Symbols \ desired : stops[s] # None /\ s \notin stopping}
           place(s) == CHOOSE t \in {s} \X {1, 2} : task[t].pc = "free"
           started(t) == Sym(t) \in newcomers /\ place(Sym(t)) = t
           asked(t) == Sym(t) \in gone /\ stops[Sym(t)] = t
           halted(t) == [task[t] EXCEPT !.stop = TRUE]
<1>1. PICK n : n = [t \in Tasks |-> IF started(t) THEN new
                                    ELSE IF asked(t) THEN halted(t) ELSE task[t]]
  OBVIOUS
<1>2. task' = n
  BY <1>1, Zenon DEF Reconcile
<1> HIDE DEF started, asked
<1>3. ASSUME NEW u \in Tasks
      PROVE  TaskOK(new, Sym(u)) /\ TaskOK(halted(u), Sym(u)) /\ TaskOK(task[u], Sym(u))
  <2>1. TaskOK(task[u], Sym(u))
    BY DEF WatchInv
  <2>2. TaskOK(new, Sym(u))
    BY StartOK
  <2>3. PICK x : x = task[u]
    OBVIOUS
  <2>4. TaskOK([x EXCEPT !.stop = TRUE], Sym(u))
    BY <2>1, <2>3, StopOK
  <2>5. QED
    BY <2>1, <2>2, <2>3, <2>4
<1> HIDE DEF new, halted
<1>4. \A x, s : TaskOK(x, s) => x \in TaskRecs
  BY DEF TaskOK
<1>5. n \in [Tasks -> TaskRecs] /\ \A u \in Tasks : TaskOK(n[u], Sym(u))
  BY <1>1, <1>3, <1>4
<1>6. QED
  BY <1>2, <1>5, TasksKeepWatch

LEMMA SupBreakKeepsWatch ==
  ASSUME WatchInv, SupBreak
  PROVE  WatchInv'
<1> DEFINE stop(t) == task[t].stop \/ \E s \in Symbols : stops[s] = t
<1>1. PICK n : n = [t \in Tasks |-> [task[t] EXCEPT !.stop = stop(t)]]
  OBVIOUS
<1>2. task' = n /\ UNCHANGED <<world, clock, history>>
  BY <1>1 DEF SupBreak
<1>3. ASSUME NEW u \in Tasks
      PROVE  TaskOK([task[u] EXCEPT !.stop = stop(u)], Sym(u))
  <2>1. PICK v \in BOOLEAN : v = stop(u)
    <3>1. task[u].stop \in BOOLEAN
      BY DEF WatchInv, TaskRecs
    <3>2. stop(u) \in BOOLEAN
      BY <3>1
    <3>3. QED
      BY <3>2
  <2>2. PICK x : x = task[u]
    OBVIOUS
  <2>3. TaskOK(x, Sym(u))
    BY <2>2 DEF WatchInv
  <2>4. TaskOK([x EXCEPT !.stop = v], Sym(u))
    BY <2>3, StopOK
  <2>5. QED
    BY <2>1, <2>2, <2>4
<1> HIDE DEF stop
<1>4. \A x, s : TaskOK(x, s) => x \in TaskRecs
  BY DEF TaskOK
<1>5. n \in [Tasks -> TaskRecs] /\ \A u \in Tasks : TaskOK(n[u], Sym(u))
  BY <1>1, <1>3, <1>4
<1>6. QED
  BY <1>2, <1>5, TasksKeepWatch

\* A change of fields is a change of the record.
WithSnap(x, a, b) == [x EXCEPT !.pc = a, !.snap = b]
WithDriver(x, a, b, c) == [x EXCEPT !.pc = a, !.cursor = b, !.driver = c]
WithBatch(x, a, b, c) == [x EXCEPT !.pc = a, !.batch = b, !.cursor = c]

LEMMA WarmKeepsWatch ==
  ASSUME WatchInv, NEW t \in Tasks, Warm(t)
  PROVE  WatchInv'
<1>1. UNCHANGED <<world, clock, sent, resent>> /\ task[t].pc = "warming"
  BY DEF Warm
<1>2. CASE EndTask(t) /\ UNCHANGED lost
  BY <1>1, <1>2, EndTaskKeepsWatch DEF history
<1>3. CASE ~(EndTask(t) /\ UNCHANGED lost)
  <2>1. PICK x, s : x = task[t] /\ s = Sym(t)
    OBVIOUS
  <2>c. PICK closed, last : closed = WarmClosed(x) /\ last = LastWindow(closed)
    OBVIOUS
  <2>f. PICK f \in Finds(show[s], last) :
          /\ ~(Len(closed) < WindowLen)
          /\ task' = [task EXCEPT ![t].pc = "polling", ![t].cursor = Last(closed).open,
                                  ![t].driver = Warmed(f, last)]
          /\ lost' = lost \cup NotFound(s, f, last)
    <3>1. closed = ClosedOf(Klines(WindowLen + WarmExtra, task[t].snap), task[t].snap, clock)
      BY <2>1, <2>c DEF WarmClosed
    <3>2. last = SubSeq(closed, Len(closed) - WindowLen + 1, Len(closed))
      BY <2>c DEF LastWindow
    <3>3. \A f : Warmed(f, last) = WarmUp(f, [NewDriver EXCEPT !.window = last])
      BY DEF Warmed
    <3>4. IF Len(closed) < WindowLen
          THEN EndTask(t) /\ UNCHANGED lost
          ELSE \E f \in Finds(show[s], last) :
                 /\ task' = [task EXCEPT ![t].pc = "polling", ![t].cursor = Last(closed).open,
                               ![t].driver = WarmUp(f, [NewDriver EXCEPT !.window = last])]
                 /\ lost' = lost \cup NotFound(s, f, last)
      BY <2>1, <3>1, <3>2, Zenon DEF Warm
    <3>5. QED
      BY <1>3, <3>3, <3>4, Zenon
  <2>2. PICK d : d = Warmed(f, last)
    OBVIOUS
  <2>y. PICK y : y = [x EXCEPT !.pc = "polling", !.cursor = Last(closed).open, !.driver = d]
    OBVIOUS
  <2>3. /\ y \in TaskRecs /\ y.pc = "polling" /\ y.batch = <<>> /\ OnTime(y)
        /\ \A id \in sent : id.sym = s => Behind(id, y.driver) \/ id \in NotFound(s, f, last)
    <3>1. s \in Symbols
      BY <2>1 DEF Tasks, Sym
    <3>2. TaskOK(x, s) /\ x.pc = "warming"
      BY <1>1, <2>1 DEF WatchInv
    <3>3. /\ y \in TaskRecs /\ y.pc = "polling" /\ y.batch = <<>> /\ y.driver = d /\ OnTime(y)
          /\ \A id \in sent : id.sym = s => Behind(id, d) \/ id \in NotFound(s, f, last)
      <4>1. WatchInv /\ f \in Finds(show[s], last) /\ ~(Len(closed) < WindowLen)
        BY <2>f
      <4>2. WarmResult(x, s, closed, last, f, d)
        BY <2>c, <2>2, <3>1, <3>2, <4>1, WarmOK
      <4>3. QED
        BY ONLY <2>y, <4>2 DEF WarmResult
    <3>4. QED
      BY <3>3
  <2>4. PICK n \in [Tasks -> TaskRecs] : n = [task EXCEPT ![t] = y] /\ task' = n
    <3>1. task \in [Tasks -> TaskRecs]
      BY DEF WatchInv
    <3>2. [task EXCEPT ![t].pc = "polling", ![t].cursor = Last(closed).open, ![t].driver = d]
            = [task EXCEPT ![t] = WithDriver(task[t], "polling", Last(closed).open, d)]
      <4> HIDE DEF Tasks
      <4>1. QED
        BY <3>1 DEF TaskRecs, WithDriver
    <3>3. task' = [task EXCEPT ![t] = y]
      BY <2>1, <2>f, <2>2, <2>y, <3>2, Zenon DEF WithDriver
    <3>4. QED
      BY <2>3, <3>1, <3>3
  <2>5. UNCHANGED <<show, listed, clock, sent, resent>> /\ lost \subseteq lost'
    BY <1>1, <2>f DEF world
  <2>6. TaskOK(y, s)'
    <3>1. Remembers(y, s)'
      BY <2>f, <2>3, <2>5 DEF Remembers, Watches
    <3>2. OnTime(y)' /\ Timely(y)'
      BY <2>3, <2>5 DEF OnTime, Timely, IsClosed
    <3>3. QED
      BY <2>3, <3>1, <3>2 DEF TaskOK
  <2>7. \A u \in Tasks : TaskOK(task[u], Sym(u))'
    <3> TAKE u \in Tasks
    <3>1. PICK z, q : z = n[u] /\ q = Sym(u)
      OBVIOUS
    <3>2. (z = y /\ q = s) \/ z = task[u]
      BY <2>1, <2>4, <3>1 DEF WatchInv
    <3>3. TaskOK(z, q)'
      BY <2>5, <2>6, <3>1, <3>2, Kept DEF WatchInv
    <3>4. QED
      BY <2>4, <3>1, <3>3
  <2>8. \A id \in sent' : id.sym \in Symbols /\ Found(id, clock)'
    BY <2>5 DEF WatchInv, Found, IsClosed
  <2>9. ResentWasLost'
    BY <2>5 DEF WatchInv, ResentWasLost
  <2>10. QED
    BY <2>4, <2>5, <2>7, <2>8, <2>9 DEF WatchInv
<1>4. QED
  BY <1>2, <1>3

LEMMA StartPollKeepsWatch ==
  ASSUME WatchInv, NEW t \in Tasks, StartPoll(t)
  PROVE  WatchInv'
<1>1. PICK x : x = task[t]
  OBVIOUS
<1>2. /\ UNCHANGED <<world, clock, history>> /\ x.pc = "polling" /\ TaskOK(x, Sym(t))
      /\ task' = [task EXCEPT ![t].pc = "fetching", ![t].snap = clock]
  BY <1>1 DEF StartPoll, WatchInv
<1>3. task' = [task EXCEPT ![t] = [x EXCEPT !.pc = "fetching", !.snap = clock]]
  <2>1. task \in [Tasks -> TaskRecs]
    BY DEF WatchInv
  <2>2. [task EXCEPT ![t].pc = "fetching", ![t].snap = clock]
          = [task EXCEPT ![t] = WithSnap(task[t], "fetching", clock)]
    <3> HIDE DEF Tasks
    <3>1. QED
      BY <2>1 DEF TaskRecs, WithSnap
  <2>3. QED
    BY <1>1, <1>2, <2>2, Zenon DEF WithSnap
<1>4. TaskOK([x EXCEPT !.pc = "fetching", !.snap = clock], Sym(t))
  BY <1>2, StartPollOK
<1>5. QED
  BY <1>2, <1>3, <1>4, TaskKeepsWatch

LEMMA BackKeepsWatch ==
  ASSUME WatchInv, NEW t \in Tasks, PollFails(t) \/ BatchDone(t)
  PROVE  WatchInv'
<1>1. PICK x : x = task[t]
  OBVIOUS
<1>2. /\ UNCHANGED <<world, clock, history>> /\ TaskOK(x, Sym(t))
      /\ x.pc = "fetching" \/ (x.pc = "pushing" /\ x.batch = <<>>)
      /\ task' = [task EXCEPT ![t].pc = "polling"]
  BY <1>1 DEF PollFails, BatchDone, WatchInv
<1>3. task' = [task EXCEPT ![t] = [x EXCEPT !.pc = "polling"]]
  <2> HIDE DEF Tasks
  <2>1. task \in [Tasks -> TaskRecs]
    BY DEF WatchInv
  <2>2. QED
    BY <1>1, <1>2, <2>1 DEF TaskRecs
<1>4. TaskOK([x EXCEPT !.pc = "polling"], Sym(t))
  BY <1>2, BackToPollingOK
<1>5. QED
  BY <1>2, <1>3, <1>4, TaskKeepsWatch

LEMMA PollKeepsWatch ==
  ASSUME WatchInv, NEW t \in Tasks, Poll(t)
  PROVE  WatchInv'
<1>1. PICK x : x = task[t]
  OBVIOUS
<1> DEFINE new == Batch(x)
           y == [x EXCEPT !.pc = "pushing", !.batch = new,
                          !.cursor = IF new = <<>> THEN @ ELSE Last(new).open]
           cur == IF new = <<>> THEN x.cursor ELSE Last(new).open
<1>2. UNCHANGED <<world, clock, history>> /\ x.pc = "fetching" /\ TaskOK(x, Sym(t))
  BY <1>1 DEF Poll, WatchInv
<1>3. x \in TaskRecs /\ task \in [Tasks -> TaskRecs]
  BY <1>2 DEF TaskOK, WatchInv
<1>4. task' = [task EXCEPT ![t] = y]
  <2>1. new = ClosedOf({o \in Klines(WindowLen + PollExtra, task[t].snap) : o > task[t].cursor},
                       task[t].snap, clock)
    BY <1>1 DEF Batch, Answer
  <2> HIDE DEF new
  <2>2. task' = [task EXCEPT ![t].pc = "pushing", ![t].batch = new,
                             ![t].cursor = IF new = <<>> THEN @ ELSE Last(new).open]
    BY <2>1, Zenon DEF Poll
  <2>3. task' = [task EXCEPT ![t].pc = "pushing", ![t].batch = new, ![t].cursor = cur]
    <3> HIDE DEF Tasks
    <3>1. QED
      BY <1>1, <1>3, <2>2 DEF TaskRecs
  <2>4. y = [x EXCEPT !.pc = "pushing", !.batch = new, !.cursor = cur]
    BY <1>3 DEF TaskRecs
  <2> HIDE DEF y, cur
  <2>5. QED
    <3>1. [task EXCEPT ![t].pc = "pushing", ![t].batch = new, ![t].cursor = cur]
            = [task EXCEPT ![t] = WithBatch(task[t], "pushing", new, cur)]
      <4> HIDE DEF Tasks
      <4>1. QED
        BY <1>3 DEF TaskRecs, WithBatch
    <3>2. QED
      BY <1>1, <2>3, <2>4, <3>1, Zenon DEF WithBatch
<1>5. TaskOK(y, Sym(t))
  BY <1>2, PollOK
<1> HIDE DEF y
<1>6. QED
  BY <1>2, <1>4, <1>5, TaskKeepsWatch

\* A signal lies past the watermark, and within the window.  So it is new or was
\* lost, and the task that sends it remembers it.
LEMMA PushKeepsWatch ==
  ASSUME WatchInv, TaskInv, NEW t \in Tasks, Push(t)
  PROVE  WatchInv'
<1>1. PICK x, s : x = task[t] /\ s = Sym(t)
  OBVIOUS
<1>2. /\ x.pc = "pushing" /\ x.batch # <<>> /\ TaskOK(x, s) /\ s \in Symbols
      /\ UNCHANGED <<world, clock>>
  BY <1>1 DEF Push, WatchInv, Tasks, Sym
<1>3. CASE EndTask(t) /\ UNCHANGED history
  BY <1>2, <1>3, EndTaskKeepsWatch
<1>4. CASE ~(EndTask(t) /\ UNCHANGED history)
  <2>f. PICK f \in Finds(show[s], Slide(x.driver.window, Head(x.batch))) :
          \E p : /\ p = PushClosed(f, x.driver, Head(x.batch))
                 /\ task' = [task EXCEPT ![t].driver = p.driver, ![t].batch = Tail(@)]
                 /\ Send(s, p.out)
    <3>1. \/ EndTask(t) /\ UNCHANGED history
          \/ \E f \in Finds(show[Sym(t)], Slide(task[t].driver.window, Head(task[t].batch))) :
             \E p \in {PushClosed(f, task[t].driver, Head(task[t].batch))} :
               /\ task' = [task EXCEPT ![t].driver = p.driver, ![t].batch = Tail(@)]
               /\ Send(Sym(t), p.out)
      BY Zenon DEF Push
    <3>2. QED
      BY <1>1, <1>4, <3>1, Zenon
  <2>1. PICK p : /\ p = PushClosed(f, x.driver, Head(x.batch))
                 /\ task' = [task EXCEPT ![t].driver = p.driver, ![t].batch = Tail(@)]
                 /\ Send(s, p.out)
    BY <2>f
  <2>2. PICK y : y = Pushed(x, p)
    OBVIOUS
  <2> DEFINE ids == {SignalId(s, c) : c \in p.out}
  <2>3. sent' = sent \cup ids /\ resent' = resent \cup (sent \cap ids) /\ UNCHANGED lost
    BY <2>1, Zenon DEF Send
  <2>4. /\ y \in TaskRecs /\ y.pc = "pushing" /\ OnTime(y)
        /\ x.driver.window[1].open < y.driver.window[1].open
        /\ p.out = {} => y.driver.watermark = x.driver.watermark
        /\ \A c \in p.out : /\ c \in Divergences
                            /\ c.time > x.driver.watermark /\ y.driver.watermark = c.time
                            /\ c.time > x.driver.window[1].open
                            /\ Found(SignalId(s, c), clock)
    <3>1. /\ WatchInv /\ f \in Finds(show[s], Slide(x.driver.window, Head(x.batch)))
          /\ p = PushClosed(f, x.driver, Head(x.batch))
      BY <2>1
    <3>2. x.pc = "pushing" /\ x.batch # <<>> /\ TaskOK(x, s) /\ s \in Symbols
      BY <1>2
    <3>3. PushResult(x, s, p)
      BY <3>1, <3>2, PushOK
    <3>4. QED
      BY ONLY <2>2, <3>3 DEF PushResult
  <2>5. PICK n \in [Tasks -> TaskRecs] : n = [task EXCEPT ![t] = y] /\ task' = n
    <3>1. task \in [Tasks -> TaskRecs]
      BY DEF WatchInv
    <3>2. [task EXCEPT ![t].driver = p.driver, ![t].batch = Tail(@)] = [task EXCEPT ![t] = y]
      <4> HIDE DEF Tasks
      <4>1. QED
        BY <1>1, <2>2, <3>1 DEF TaskRecs, Pushed
    <3>3. QED
      BY <2>1, <2>4, <3>1, <3>2
  <2>6. \A id \in ids : /\ id.sym = s /\ Found(id, clock)
                         /\ id.time \in Int /\ id.time > x.driver.watermark
                         /\ id.time > x.driver.window[1].open /\ id.time = y.driver.watermark
    <3> TAKE id \in ids
    <3>1. PICK c \in p.out : id = SignalId(s, c)
      OBVIOUS
    <3>2. id.sym = s /\ id.time = c.time
      BY <3>1 DEF SignalId
    <3>3. c.time \in Int
      BY <2>4 DEF Divergences, Opens
    <3>4. QED
      BY <2>4, <3>1, <3>2, <3>3
  <2>7. /\ x.driver.watermark \in Int /\ y.driver.watermark \in Int
        /\ x.driver.watermark <= y.driver.watermark
    <3>1. x.driver.watermark \in Int /\ y.driver.watermark \in Int
      BY <1>2, <2>4 DEF TaskOK, TaskRecs, Drivers
    <3>2. p.out = {} \/ \E c \in p.out : SignalId(s, c) \in ids
      OBVIOUS
    <3>3. CASE p.out = {}
      BY <2>4, <3>1, <3>3
    <3>4. CASE \E id \in ids : TRUE
      BY <2>6, <3>1, <3>4
    <3>5. QED
      BY <3>2, <3>3, <3>4
  <2> HIDE DEF ids
  <2>8. ASSUME NEW id \in sent, id.sym = s
        PROVE  \/ id.time <= x.driver.watermark \/ id.time < x.driver.window[1].open
               \/ id \in lost
    BY <1>2, <2>8 DEF TaskOK, Remembers, Watches, Behind
  <2>opens. x.driver.window[1].open \in Int /\ y.driver.window[1].open \in Int
    <3>1. /\ x.driver.window \in Seq(Candles) /\ Len(x.driver.window) = WindowLen
          /\ y.driver.window \in Seq(Candles) /\ Len(y.driver.window) = WindowLen
      BY <1>2, <2>4 DEF TaskOK, TaskRecs, Drivers, Watches, OnTime
    <3>2. 1 \in 1..WindowLen
      BY Bounds
    <3>3. QED
      BY <3>1, <3>2, CandleOpen
  <2>9. sent \cap ids \subseteq lost
    <3> SUFFICES ASSUME NEW id \in sent \cap ids, id \notin lost
                 PROVE  FALSE
      OBVIOUS
    <3>1. id.time <= x.driver.watermark \/ id.time < x.driver.window[1].open
      BY <2>6, <2>8
    <3>2. QED
      BY <2>6, <2>7, <2>opens, <3>1
  <2>10. UNCHANGED <<show, listed, clock, lost>>
    BY <1>2, <2>3 DEF world
  <2>11. ResentWasLost'
    BY <2>3, <2>9, <2>10 DEF WatchInv, ResentWasLost
  <2>12. \A id \in sent' : id.sym \in Symbols /\ Found(id, clock)'
    <3>1. \A id \in sent' : id.sym \in Symbols /\ Found(id, clock)
      BY <1>2, <2>3, <2>6 DEF WatchInv
    <3>2. QED
      BY <2>10, <3>1 DEF Found, IsClosed
  <2>13. TaskOK(y, s)'
    <3>1. Remembers(y, s)'
      <4>1. ASSUME NEW id \in sent', id.sym = s
            PROVE  Behind(id, y.driver) \/ id \in lost
        <5>1. CASE id \in ids
          BY <2>6, <5>1 DEF Behind
        <5>2. CASE id \in sent
          <6>1. id.time \in Int
            BY <5>2 DEF WatchInv, Found, Opens
          <6>2. \/ id.time <= x.driver.watermark \/ id.time < x.driver.window[1].open
                \/ id \in lost
            BY <2>8, <4>1, <5>2
          <6>3. QED
            BY <2>4, <2>7, <2>opens, <6>1, <6>2 DEF Behind
        <5>3. QED
          BY <2>3, <4>1, <5>1, <5>2
      <4>2. QED
        BY <2>4, <2>10, <4>1 DEF Remembers, Watches
    <3>2. OnTime(y)'
      BY <2>4, <2>10 DEF OnTime, Supply, IsClosed
    <3>3. QED
      BY <2>4, <3>1, <3>2 DEF TaskOK, Timely
  <2>14. \A u \in Tasks : TaskOK(n[u], Sym(u))'
    <3>1. TaskOK(n[t], Sym(t))'
      BY <1>1, <2>5, <2>13 DEF WatchInv
    <3>2. ASSUME NEW u \in Tasks, u # t
          PROVE  TaskOK(n[u], Sym(u))'
      <4>1. PICK z, q : z = n[u] /\ q = Sym(u)
        OBVIOUS
      <4>2. z = task[u]
        BY <2>5, <3>2, <4>1 DEF WatchInv
      <4>3. TaskOK(z, q)
        BY <4>1, <4>2 DEF WatchInv
      <4>4. q = s => z.pc = "free"
        BY <1>1, <1>2, <3>2, <4>1, <4>2 DEF TaskInv, HandlesHeld
      <4>5. Remembers(z, q)'
        <5>1. CASE q = s
          BY <4>4, <5>1 DEF Remembers, Watches
        <5>2. CASE q # s
          <6>1. \A id \in sent' : id.sym = q => id \in sent
            BY <2>3, <2>6, <5>2
          <6>2. Remembers(z, q)
            BY <4>3 DEF TaskOK
          <6>3. QED
            BY <2>10, <6>1, <6>2 DEF Remembers, Found, IsClosed
        <5>3. QED
          BY <5>1, <5>2
      <4>6. Timely(z)' /\ (Watches(z) => OnTime(z))'
        BY <2>10, <4>3 DEF TaskOK, Timely, OnTime, IsClosed
      <4>7. TaskOK(z, q)'
        BY <4>3, <4>5, <4>6 DEF TaskOK
      <4>8. QED
        BY <4>1, <4>7
    <3>3. QED
      BY <3>1, <3>2
  <2>15. QED
    <3>1. \A u \in Tasks : TaskOK(task[u], Sym(u))'
      BY <2>5, <2>14
    <3>2. QED
      BY <2>5, <2>10, <2>11, <2>12, <3>1 DEF WatchInv
<1>5. QED
  BY <1>3, <1>4

\* What was over stays over.
LEMMA StaysOver ==
  ASSUME NEW o \in Int, NEW c \in Int, NEW d \in Int, c <= d, IsClosed(o, c)
  PROVE  IsClosed(o, d)
  BY Bounds DEF IsClosed

LEMMA TickKeepsWatch ==
  ASSUME WatchInv, Tick
  PROVE  WatchInv'
<1> USE Bounds
<1>1. /\ UNCHANGED <<show, listed, task, sent, resent, lost>>
      /\ clock' = IF clock < MaxClock THEN clock + 1 ELSE clock
  BY DEF Tick, world, history
<1>2. clock \in 0..MaxClock /\ clock' \in 0..MaxClock /\ clock <= clock' /\ clock' <= clock + 1
  BY <1>1, PathAssumption DEF WatchInv
<1>3. \A o \in Int : IsClosed(o, clock) => IsClosed(o, clock)'
  <2> SUFFICES ASSUME NEW o \in Int, IsClosed(o, clock) PROVE IsClosed(o, clock')
    BY DEF IsClosed
  <2>1. PICK c \in Int, d \in Int : c = clock /\ d = clock' /\ c <= d
    BY <1>2
  <2>2. IsClosed(o, d)
    BY <2>1, StaysOver
  <2>3. QED
    BY <2>1, <2>2
<1>4. ASSUME NEW z, NEW q, TaskOK(z, q)
      PROVE  TaskOK(z, q)'
  <2>1. z \in TaskRecs /\ z.snap \in Int
    BY <1>4 DEF TaskOK, TaskRecs
  <2>2. Timely(z)'
    <3>1. Timely(z)
      BY <1>4 DEF TaskOK
    <3>2. QED
      BY <1>2, <1>4, <2>1, <3>1 DEF Timely
  <2>3. Watches(z) => OnTime(z)'
    <3> SUFFICES ASSUME Watches(z) PROVE OnTime(z)'
      OBVIOUS
    <3>1. OnTime(z)
      BY <1>4 DEF TaskOK
    <3> DEFINE all == Supply(z)
    <3>2. \A i \in 1..Len(all) : all[i].open \in Int
      <4>1. all \in Seq(Candles)
        BY <2>1 DEF TaskRecs, Drivers, Supply
      <4> HIDE DEF all
      <4>2. QED
        BY <4>1, CandleOpen
    <3>3. \A i \in 1..Len(all) : IsClosed(all[i].open, clock)
      BY <3>1 DEF OnTime
    <3>4. \A i \in 1..Len(all) : IsClosed(all[i].open, clock)'
      <4> HIDE DEF all
      <4>1. QED
        BY <1>3, <3>2, <3>3
    <3>5. QED
      BY <1>1, <3>1, <3>4 DEF OnTime, Supply, IsClosed
  <2>4. Remembers(z, q)'
    BY <1>1, <1>4 DEF TaskOK, Remembers, Found, IsClosed
  <2>5. QED
    BY <1>4, <2>2, <2>3, <2>4 DEF TaskOK
<1>5. \A u \in Tasks : TaskOK(task[u], Sym(u))'
  <2> TAKE u \in Tasks
  <2>1. PICK z, q : z = task[u] /\ q = Sym(u)
    OBVIOUS
  <2>2. TaskOK(z, q)'
    BY <1>1, <1>4, <2>1 DEF WatchInv
  <2>3. QED
    BY <1>1, <2>1, <2>2
<1>6. \A id \in sent' : id.sym \in Symbols /\ Found(id, clock)'
  <2> TAKE id \in sent'
  <2>1. id.sym \in Symbols /\ Found(id, clock)
    BY <1>1 DEF WatchInv
  <2>2. \A o \in Opens : o \in Int
    BY DEF Opens
  <2>3. QED
    BY <1>1, <1>3, <2>1, <2>2 DEF Found
<1>7. ResentWasLost'
  BY <1>1 DEF WatchInv, ResentWasLost
<1>8. QED
  BY <1>1, <1>2, <1>5, <1>6, <1>7 DEF WatchInv

LEMMA InitIsWatchInv ==
  ASSUME Init
  PROVE  WatchInv
<1>1. /\ task = [t \in Tasks |-> FreeTask] /\ sent = {} /\ resent = {}
      /\ listed \in Nat /\ clock \in 0..MaxClock /\ show \in [Symbols -> Shows]
  BY PathAssumption DEF Init
<1>2. \A t \in Tasks : task[t] = FreeTask /\ TaskOK(FreeTask, Sym(t))
  BY <1>1, FreeTaskIs, IdleOK
<1>3. task \in [Tasks -> TaskRecs]
  BY <1>1, FreeTaskIs
<1>4. QED
  BY <1>1, <1>2, <1>3 DEF WatchInv, ResentWasLost

LEMMA NextKeepsWatch ==
  ASSUME WatchInv, TaskInv, [Next]_vars
  PROVE  WatchInv'
<1>1. CASE Activation \/ ActivationFails
  <2>1. UNCHANGED <<world, clock, history>>
    BY <1>1 DEF Activation, ActivationFails
  <2>2. (\E desired : Reconcile(desired)) \/ UNCHANGED task
    BY <1>1, Zenon DEF Activation, ActivationFails
  <2>3. QED
    BY <2>1, <2>2, ReconcileKeepsWatch, StayKeepsWatch
<1>2. CASE SupBreak
  BY <1>2, SupBreakKeepsWatch
<1>3. CASE ShutdownWorkers \/ Exit \/ Crash
  BY <1>3, NoTasksKeepWatch, Zenon DEF ShutdownWorkers, Exit, Crash, Fresh
<1>4. CASE \E t \in Tasks : Reap(t)
  <2>1. PICK t \in Tasks : Reap(t)
    BY <1>4
  <2>2. task' = [task EXCEPT ![t] = FreeTask] /\ UNCHANGED <<world, clock, history>>
    BY <2>1 DEF Reap
  <2>3. TaskOK(FreeTask, Sym(t))
    BY FreeTaskIs, IdleOK
  <2>4. QED
    BY <2>2, <2>3, TaskKeepsWatch
<1>5. CASE \E t \in Tasks : Stop(t) \/ WarmFails(t) \/ PushFails(t)
  BY <1>5, EndTaskKeepsWatch, Zenon DEF Stop, WarmFails, PushFails
<1>6. CASE \E t \in Tasks : \/ Warm(t) \/ StartPoll(t) \/ Poll(t) \/ Push(t) \/ BatchDone(t)
                            \/ PollFails(t)
  BY <1>6, WarmKeepsWatch, StartPollKeepsWatch, PollKeepsWatch, PushKeepsWatch, BackKeepsWatch
<1>7. CASE Tick
  BY <1>7, TickKeepsWatch
<1>8. CASE \/ Take \/ Answered \/ CallTimesOut \/ EngineRestart
           \/ \E k \in Calls : EngineStep(k) \/ Expired(k) \/ HandleFails(k)
           \/ Terminate \/ Drain \/ Boot \/ Contracts \/ UNCHANGED vars
  <2>1. UNCHANGED <<world, clock, history, task>>
    BY <1>8, Zenon DEF Take, Answered, CallTimesOut, EngineRestart, EngineStep, Dedup, Handle,
       OrphanEnds, Expired, HandleFails, Terminate, Drain, Boot, Contracts, vars
  <2>2. QED
    BY <2>1, StayKeepsWatch
<1>9. QED
  BY <1>1, <1>2, <1>3, <1>4, <1>5, <1>6, <1>7, <1>8, Zenon DEF Next, TaskStep

LEMMA SpecKeepsWatch == Spec => []WatchInv
<1>1. Init => WatchInv /\ TaskInv /\ active \subseteq Symbols
  BY InitIsWatchInv, InitIsTaskInv DEF Init
<1>2. WatchInv /\ TaskInv /\ active \subseteq Symbols /\ [Next]_vars
        => (WatchInv /\ TaskInv /\ active \subseteq Symbols)'
  BY NextKeepsWatch, NextKeepsTaskInv, ActiveStaysTyped, PathAssumption
<1>3. QED
  BY <1>1, <1>2, PTL DEF Spec

\* Between polls a window is full and an unbroken stretch of history, whatever
\* the fetches took, failed or were put off, for any latency, window and clock
\* and a settle_ms that the answers make up for (symbol_task.rs).
THEOREM SignalWindowIsHistory == Spec => []WindowIsHistory
<1>1. WatchInv => WindowIsHistory
  <2> SUFFICES ASSUME WatchInv, NEW t \in Tasks, task[t].pc = "polling"
               PROVE  LET w == task[t].driver.window IN
                      /\ Len(w) = WindowLen
                      /\ \A i \in 1..(Len(w) - 1) : w[i + 1].open = w[i].open + TF
    BY DEF WindowIsHistory
  <2>1. PICK x : x = task[t]
    OBVIOUS
  <2>2. OnTime(x) /\ x.batch = <<>> /\ x.driver.window \in Seq(Candles)
    BY <2>1 DEF WatchInv, TaskOK, Watches, TaskRecs, Drivers
  <2>3. Supply(x) = x.driver.window /\ Len(x.batch) + 1 = 1
    BY <2>2 DEF Supply
  <2>4. QED
    BY <2>1, <2>2, <2>3 DEF OnTime
<1>2. QED
  BY <1>1, SpecKeepsWatch, PTL

\* Whatever becomes of the task, the supervisor and the process, a divergence is
\* signalled a second time only after a warm-up that did not find it in a window
\* with its candle (candle_driver.rs, symbol_task.rs, supervisor.rs).  What the
\* indicators find is not restricted: it may come and go with the window.
THEOREM SignalResentWasLost == Spec => []ResentWasLost
<1>1. WatchInv => ResentWasLost
  BY DEF WatchInv
<1>2. QED
  BY <1>1, SpecKeepsWatch, PTL

-----------------------------------------------------------------------------
(* Traded once.                                                            *)

CallStates == [st : {"free", "sent", "handling", "answered"}, id : sent \cup {None},
               orphan : BOOLEAN]

EngineTypes ==
  /\ call \in [Calls -> CallStates]
  /\ \A k \in Calls : call[k].st # "free" => call[k].id \in sent
  /\ queue \in Seq(sent) /\ traded \in Seq(sent)
  /\ pub \in Calls \cup {None}

\* The publisher waits for a call that is its own.
PubInv == pub # None => call[pub].st # "free" /\ ~call[pub].orphan

\* An id in hand was marked, was not traded on, and is in one hand; whatever
\* was traded on is marked.
InHand ==
  /\ \A k \in Calls : call[k].st = "handling" =>
       call[k].id \in seen /\ ~Contains(traded, call[k].id)
  /\ \A k, j \in Calls :
       call[k].st = "handling" /\ call[j].st = "handling" /\ call[k].id = call[j].id => k = j
  /\ \A i \in DOMAIN traded : traded[i] \in seen

EngineInv == EngineTypes /\ PubInv /\ InHand

PromiseStep == [Promise!PromiseNext]_<<sent, traded>>

LEMMA SentGrows ==
  ASSUME NEW S, NEW T, S \subseteq T
  PROVE  Seq(S) \subseteq Seq(T)
  OBVIOUS

LEMMA FreeCallIsAState == FreeCall \in CallStates /\ FreeCall.st = "free"
  BY DEF FreeCall, CallStates

\* The tasks signal; the engine is not touched.
LEMMA SignalKeepsInv ==
  ASSUME EngineInv, sent \subseteq sent', queue' \in Seq(sent'),
         UNCHANGED <<pub, engineVars>>
  PROVE  EngineInv' /\ PromiseStep
<1>1. Seq(sent) \subseteq Seq(sent') /\ CallStates \subseteq CallStates'
  BY SentGrows DEF CallStates
<1>2. EngineTypes'
  BY <1>1 DEF EngineInv, EngineTypes, engineVars
<1>3. InHand'
  BY DEF EngineInv, InHand, engineVars, Contains
<1>4. PromiseStep
  BY DEF PromiseStep, Promise!PromiseNext, Promise!Ask, engineVars
<1>5. PubInv'
  BY DEF EngineInv, PubInv, engineVars
<1>6. QED
  BY <1>2, <1>3, <1>4, <1>5 DEF EngineInv

\* Calls come and go without being in hand.
LEMMA CallsKeepInv ==
  ASSUME EngineInv, UNCHANGED <<sent, traded>>,
         queue' \in Seq(sent), pub' \in Calls \cup {None}, call' \in [Calls -> CallStates],
         seen \subseteq seen', PubInv',
         \A k \in Calls : call'[k].st # "free" => call'[k].id \in sent,
         \A k \in Calls : call'[k].st = "handling" =>
           call[k].st = "handling" /\ call'[k].id = call[k].id
  PROVE  EngineInv' /\ PromiseStep
<1>1. CallStates' = CallStates
  BY DEF CallStates
<1>2. EngineTypes'
  BY <1>1 DEF EngineInv, EngineTypes
<1>3. InHand'
  BY DEF EngineInv, InHand, Contains
<1>4. PromiseStep
  BY DEF PromiseStep
<1>5. QED
  BY <1>2, <1>3, <1>4 DEF EngineInv

LEMMA SendKeepsInv ==
  ASSUME EngineInv, NEW s, NEW out, Send(s, out), UNCHANGED <<pub, engineVars>>
  PROVE  EngineInv' /\ PromiseStep
<1> DEFINE ids == {SignalId(s, c) : c \in out}
<1>1. /\ queue' = IF ids # {} /\ Len(queue) < QueueCap
                  THEN Append(queue, CHOOSE id \in ids : TRUE) ELSE queue
      /\ sent' = sent \cup ids
  BY DEF Send
<1> HIDE DEF ids
<1>2. queue \in Seq(sent')
  BY <1>1, SentGrows DEF EngineInv, EngineTypes
<1>3. ids # {} => (CHOOSE id \in ids : TRUE) \in sent'
  BY <1>1
<1>4. queue' \in Seq(sent')
  BY <1>1, <1>2, <1>3
<1>5. QED
  BY <1>1, <1>4, SignalKeepsInv

LEMMA PushKeepsInv ==
  ASSUME EngineInv, NEW t \in Tasks, Push(t)
  PROVE  EngineInv' /\ PromiseStep
<1>1. UNCHANGED <<pub, engineVars>>
  BY DEF Push
<1>2. CASE UNCHANGED <<queue, history>>
  BY <1>1, <1>2, SignalKeepsInv DEF EngineInv, EngineTypes, history
<1>3. CASE \E p : Send(Sym(t), p.out)
  BY <1>1, <1>3, SendKeepsInv
<1>4. QED
  BY <1>2, <1>3, Zenon DEF Push

LEMMA TakeKeepsInv ==
  ASSUME EngineInv, Take
  PROVE  EngineInv' /\ PromiseStep
<1> DEFINE k == CHOOSE j \in Calls : call[j].st = "free"
           new == [st |-> "sent", id |-> Head(queue), orphan |-> FALSE]
<1>1. /\ k \in Calls /\ queue # <<>>
      /\ pub' = k /\ call' = [call EXCEPT ![k] = new] /\ queue' = Tail(queue)
      /\ UNCHANGED <<seen, traded, sent>>
  BY DEF Take, history
<1>2. Head(queue) \in sent /\ Tail(queue) \in Seq(sent)
  BY <1>1 DEF EngineInv, EngineTypes
<1>3. new \in CallStates /\ new.st = "sent" /\ new.id \in sent
  BY <1>2 DEF CallStates
<1> HIDE DEF k, new
<1>4. /\ call' \in [Calls -> CallStates]
      /\ PubInv'
      /\ \A j \in Calls : call'[j].st # "free" => call'[j].id \in sent
      /\ \A j \in Calls : call'[j].st = "handling" =>
           call[j].st = "handling" /\ call'[j].id = call[j].id
  BY <1>1, <1>3 DEF EngineInv, EngineTypes, PubInv, new
<1>5. QED
  BY <1>1, <1>2, <1>4, CallsKeepInv

\* A call is freed, orphaned, or answered: none is newly in hand.
LEMMA AbandonedCalls ==
  ASSUME EngineInv, NEW k \in Calls, Abandoned(k)
  PROVE  /\ call' \in [Calls -> CallStates]
         /\ \A j \in Calls : call'[j].st # "free" => call'[j].id \in sent
         /\ \A j \in Calls : call'[j].st = "handling" =>
              call[j].st = "handling" /\ call'[j].id = call[j].id
<1>1. CASE call' = [call EXCEPT ![k] = FreeCall]
  BY <1>1, FreeCallIsAState DEF EngineInv, EngineTypes
<1>2. CASE call' = [call EXCEPT ![k].orphan = TRUE]
  <2> DEFINE c == [call[k] EXCEPT !.orphan = TRUE]
  <2>1. c \in CallStates /\ c.st = call[k].st /\ c.id = call[k].id
    BY DEF EngineInv, EngineTypes, CallStates
  <2>2. call' = [call EXCEPT ![k] = c]
    BY <1>2
  <2> HIDE DEF c
  <2>3. QED
    BY <2>1, <2>2 DEF EngineInv, EngineTypes
<1>3. QED
  BY <1>1, <1>2 DEF Abandoned

\* What the handlers do to the step a call is at.
LEMMA CallStep ==
  ASSUME EngineInv, NEW k \in Calls, NEW st \in {"free", "sent", "handling", "answered"},
         call' = [call EXCEPT ![k].st = st], call[k].st # "free"
  PROVE  /\ call' \in [Calls -> CallStates]
         /\ call'[k].st = st /\ call'[k].id = call[k].id
         /\ st # "free" /\ UNCHANGED pub => PubInv'
         /\ \A j \in Calls \ {k} : call'[j] = call[j]
         /\ \A j \in Calls : call'[j].st # "free" => call'[j].id \in sent
<1> DEFINE c == [call[k] EXCEPT !.st = st]
<1>1. c \in CallStates /\ c.st = st /\ c.id = call[k].id /\ c.orphan = call[k].orphan
  BY DEF EngineInv, EngineTypes, CallStates
<1>2. call' = [call EXCEPT ![k] = c]
  OBVIOUS
<1> HIDE DEF c
<1>3. QED
  BY <1>1, <1>2 DEF EngineInv, EngineTypes, PubInv

LEMMA EngineTypesKept ==
  ASSUME EngineInv, UNCHANGED <<sent, queue, pub>>, traded' \in Seq(sent),
         call' \in [Calls -> CallStates],
         \A k \in Calls : call'[k].st # "free" => call'[k].id \in sent
  PROVE  EngineTypes'
<1>1. CallStates' = CallStates
  BY DEF CallStates
<1>2. QED
  BY <1>1 DEF EngineInv, EngineTypes

LEMMA DedupKeepsInv ==
  ASSUME EngineInv, NEW k \in Calls, Dedup(k)
  PROVE  EngineInv' /\ PromiseStep
<1>1. /\ call[k].st = "sent" /\ seen' = seen \cup {call[k].id}
      /\ UNCHANGED <<sent, queue, pub, traded>>
  BY DEF Dedup, history
<1>2. CASE call[k].id \in seen
  <2>1. call' = [call EXCEPT ![k].st = "answered"]
    BY <1>2 DEF Dedup
  <2>2. QED
    BY <1>1, <2>1, CallStep, CallsKeepInv DEF EngineInv, EngineTypes
<1>3. CASE call[k].id \notin seen
  <2>1. call' = [call EXCEPT ![k].st = "handling"]
    BY <1>3 DEF Dedup
  <2>2. EngineTypes'
    BY <1>1, <2>1, CallStep, EngineTypesKept DEF EngineInv, EngineTypes
  <2>3. InHand'
    BY <1>1, <1>3, <2>1, CallStep DEF EngineInv, InHand, Contains
  <2>4. PromiseStep
    BY <1>1 DEF PromiseStep
  <2>5. PubInv'
    BY <1>1, <2>1, CallStep
  <2>6. QED
    BY <2>2, <2>3, <2>4, <2>5 DEF EngineInv
<1>4. QED
  BY <1>2, <1>3

LEMMA HandleKeepsInv ==
  ASSUME EngineInv, NEW k \in Calls, Handle(k)
  PROVE  EngineInv' /\ PromiseStep
<1>1. /\ call[k].st = "handling" /\ call' = [call EXCEPT ![k].st = "answered"]
      /\ traded' = Append(traded, call[k].id)
      /\ UNCHANGED <<sent, queue, pub, seen>>
  BY DEF Handle, history
<1>2. call[k].id \in sent /\ traded \in Seq(sent)
  BY <1>1 DEF EngineInv, EngineTypes
<1>3. traded' \in Seq(sent)
  BY <1>1, <1>2
<1>4. EngineTypes'
  BY <1>1, <1>3, CallStep, EngineTypesKept
<1>5. \A i \in DOMAIN traded' : (i \in DOMAIN traded /\ traded'[i] = traded[i]) \/ traded'[i] = call[k].id
  BY <1>1, <1>2
<1>6. InHand'
  <2>1. \A j \in Calls : call'[j].st = "handling" => j # k /\ call'[j] = call[j]
    BY <1>1, CallStep
  <2>2. \A j \in Calls : call'[j].st = "handling" => call'[j].id # call[k].id
    BY <1>1, <2>1 DEF EngineInv, InHand
  <2>3. \A j \in Calls : call'[j].st = "handling" =>
          call'[j].id \in seen' /\ ~Contains(traded', call'[j].id)
    BY <1>1, <1>5, <2>1, <2>2 DEF EngineInv, InHand, Contains
  <2>4. \A i \in DOMAIN traded' : traded'[i] \in seen'
    BY <1>1, <1>5 DEF EngineInv, InHand
  <2>5. QED
    BY <2>1, <2>3, <2>4 DEF EngineInv, InHand
<1>7. ~Contains(traded, call[k].id)
  BY <1>1 DEF EngineInv, InHand
<1>8. PromiseStep
  BY <1>1, <1>2, <1>7 DEF PromiseStep, Promise!PromiseNext, Promise!Trade, Contains, Promise!Contains
<1>9. PubInv'
  BY <1>1, CallStep
<1>10. QED
  BY <1>4, <1>6, <1>8, <1>9 DEF EngineInv

LEMMA HandleFailsKeepsInv ==
  ASSUME EngineInv, NEW k \in Calls, HandleFails(k)
  PROVE  EngineInv' /\ PromiseStep
<1>1. /\ call[k].st = "handling" /\ call' = [call EXCEPT ![k].st = "answered"]
      /\ seen' = seen \ {call[k].id}
      /\ UNCHANGED <<sent, queue, pub, traded>>
  BY DEF HandleFails, history
<1>2. EngineTypes'
  BY <1>1, CallStep, EngineTypesKept DEF EngineInv, EngineTypes
<1>3. InHand'
  <2>1. \A j \in Calls : call'[j].st = "handling" => j # k /\ call'[j] = call[j]
    BY <1>1, CallStep
  <2>2. \A j \in Calls : call'[j].st = "handling" => call'[j].id # call[k].id
    BY <1>1, <2>1 DEF EngineInv, InHand
  <2>3. \A j \in Calls : call'[j].st = "handling" =>
          call'[j].id \in seen' /\ ~Contains(traded', call'[j].id)
    BY <1>1, <2>1, <2>2 DEF EngineInv, InHand
  <2>4. \A i \in DOMAIN traded' : traded'[i] \in seen'
    BY <1>1 DEF EngineInv, InHand, Contains
  <2>5. QED
    BY <2>1, <2>3, <2>4 DEF EngineInv, InHand
<1>4. PromiseStep
  BY <1>1 DEF PromiseStep
<1>5. PubInv'
  BY <1>1, CallStep
<1>6. QED
  BY <1>2, <1>3, <1>4, <1>5 DEF EngineInv

LEMMA RestartKeepsInv ==
  ASSUME PathAssumption, EngineInv, EngineRestart
  PROVE  EngineInv' /\ PromiseStep
<1> DEFINE c(k) == [call[k] EXCEPT !.st = "answered"]
<1>1. /\ seen' = {} /\ traded' = <<>> /\ UNCHANGED <<sent, queue, pub>>
      /\ call' = [k \in Calls |-> IF k = pub THEN c(k) ELSE FreeCall]
  BY DEF EngineRestart, history
<1>2. \A k \in Calls : /\ c(k) \in CallStates /\ c(k).st = "answered"
                       /\ c(k).id = call[k].id /\ c(k).orphan = call[k].orphan
  BY DEF EngineInv, EngineTypes, CallStates
<1> HIDE DEF c
<1>3. call' \in [Calls -> CallStates] /\ traded' \in Seq(sent)
  BY <1>1, <1>2, FreeCallIsAState
<1>4. \A k \in Calls : call'[k].st # "free" => k = pub /\ call'[k].id \in sent
  BY <1>1, <1>2, FreeCallIsAState, PathAssumption DEF PathAssumption, EngineInv, EngineTypes, PubInv
<1>5. EngineTypes'
  BY <1>1, <1>3, <1>4, EngineTypesKept
<1>6. PubInv'
  BY <1>1, <1>2 DEF EngineInv, EngineTypes, PubInv
<1>7. InHand'
  BY <1>1, <1>2, FreeCallIsAState DEF InHand
<1>8. PromiseStep
  BY <1>1 DEF PromiseStep, Promise!PromiseNext, Promise!Restart
<1>9. QED
  BY <1>5, <1>6, <1>7, <1>8 DEF EngineInv

\* The publisher's other steps, and the ends of a process.
LEMMA PublisherKeepsInv ==
  ASSUME PathAssumption, EngineInv, Answered \/ CallTimesOut
  PROVE  EngineInv' /\ PromiseStep
<1>1. /\ UNCHANGED <<sent, traded, seen, queue>> /\ pub' = None /\ pub \in Calls
  BY DEF Answered, CallTimesOut, history, EngineInv, EngineTypes
<1>2. Abandoned(pub)
  BY DEF Answered, CallTimesOut, Abandoned
<1>3. QED
  BY <1>1, <1>2, AbandonedCalls, CallsKeepInv DEF PubInv, EngineInv, EngineTypes

LEMMA ProcessEndsKeepsInv ==
  ASSUME PathAssumption, EngineInv, Exit \/ Crash
  PROVE  EngineInv' /\ PromiseStep
<1>1. UNCHANGED <<sent, traded, seen>> /\ pub' = None /\ queue' = <<>>
  BY DEF Exit, Crash, Fresh, history
<1>2. UNCHANGED call \/ (pub # None /\ Abandoned(pub))
  BY Zenon DEF Exit, Crash
<1>3. queue' \in Seq(sent) /\ PubInv'
  BY <1>1 DEF PubInv
<1>4. CASE UNCHANGED call
  BY <1>1, <1>3, <1>4, CallsKeepInv DEF EngineInv, EngineTypes
<1>5. CASE pub # None /\ Abandoned(pub)
  BY <1>1, <1>3, <1>5, AbandonedCalls, CallsKeepInv DEF EngineInv, EngineTypes
<1>6. QED
  BY <1>2, <1>4, <1>5

\* The engine answers a call it never took in hand, or is done with one.
LEMMA EngineAnswersKeepsInv ==
  ASSUME EngineInv, NEW k \in Calls, OrphanEnds(k) \/ Expired(k)
  PROVE  EngineInv' /\ PromiseStep
<1>1. UNCHANGED <<sent, traded, seen, queue, pub>>
  BY DEF OrphanEnds, Expired, history
<1>2. CASE OrphanEnds(k)
  <2>1. call' = [call EXCEPT ![k] = FreeCall] /\ call[k].orphan
    BY <1>2 DEF OrphanEnds
  <2>2. PubInv'
    BY <1>1, <2>1 DEF EngineInv, EngineTypes, PubInv
  <2>3. QED
    BY <1>1, <2>1, <2>2, FreeCallIsAState, CallsKeepInv DEF EngineInv, EngineTypes
<1>3. CASE Expired(k)
  <2>1. call' = [call EXCEPT ![k].st = "answered"] /\ call[k].st = "sent"
    BY <1>3 DEF Expired
  <2>2. QED
    BY <1>1, <2>1, CallStep, CallsKeepInv DEF EngineInv, EngineTypes
<1>4. QED
  BY <1>2, <1>3

LEMMA EngineVarsAlone ==
  ASSUME EngineInv, UNCHANGED <<queue, pub, engineVars, sent>>
  PROVE  EngineInv' /\ PromiseStep
  BY SignalKeepsInv DEF EngineInv, EngineTypes

LEMMA NextKeepsEngineInv ==
  ASSUME PathAssumption, EngineInv, [Next]_vars
  PROVE  EngineInv' /\ PromiseStep
<1>1. CASE \E t \in Tasks : Push(t)
  BY <1>1, PushKeepsInv
<1>2. CASE Take
  BY <1>2, TakeKeepsInv
<1>3. CASE Answered \/ CallTimesOut
  BY <1>3, PublisherKeepsInv
<1>4. CASE Exit \/ Crash
  BY <1>4, ProcessEndsKeepsInv
<1>5. CASE EngineRestart
  BY <1>5, RestartKeepsInv
<1>6. CASE \E k \in Calls : EngineStep(k) \/ Expired(k) \/ HandleFails(k)
  BY <1>6, DedupKeepsInv, HandleKeepsInv, EngineAnswersKeepsInv, HandleFailsKeepsInv
  DEF EngineStep
<1>7. CASE \/ Activation \/ ActivationFails \/ SupBreak \/ ShutdownWorkers
           \/ \E t \in Tasks :
                \/ Reap(t) \/ Warm(t) \/ Stop(t) \/ StartPoll(t) \/ Poll(t) \/ BatchDone(t)
                \/ WarmFails(t) \/ PollFails(t) \/ PushFails(t)
           \/ Terminate \/ Drain \/ Boot \/ Contracts \/ Tick \/ UNCHANGED vars
  <2>1. UNCHANGED <<queue, pub, engineVars, sent>>
    BY <1>7, Zenon
    DEF Activation, ActivationFails, SupBreak, ShutdownWorkers, Reap, Warm, Stop, StartPoll, Poll,
        BatchDone, WarmFails, PollFails, PushFails, Terminate, Drain, Boot, Contracts, Tick, vars,
        history
  <2>2. QED
    BY <2>1, EngineVarsAlone
<1>8. QED
  BY <1>1, <1>2, <1>3, <1>4, <1>5, <1>6, <1>7, Zenon DEF Next, TaskStep

LEMMA InitIsEngineInv ==
  ASSUME Init
  PROVE  EngineInv /\ Promise!PromiseInit
<1>1. /\ call = [k \in Calls |-> FreeCall] /\ queue = <<>> /\ traded = <<>>
      /\ pub = None /\ sent = {}
  BY DEF Init
<1>2. QED
  BY <1>1, FreeCallIsAState DEF EngineInv, EngineTypes, PubInv, InHand, Promise!PromiseInit

\* Every step of the analyzer and the engine is a step of SignalPromise, or
\* none: an engine trades only on what was signalled, and once, however calls
\* are repeated, overtake each other, time out or fail (publish in
\* trade-engine's grpc_handler.rs).
THEOREM SignalTradesOnce == Spec => TradesOnce
<1>1. Init => EngineInv /\ Promise!PromiseInit
  BY InitIsEngineInv
<1>2. EngineInv /\ [Next]_vars => EngineInv' /\ PromiseStep
  BY NextKeepsEngineInv, PathAssumption
<1>3. QED
  BY <1>1, <1>2, PTL DEF Spec, TradesOnce, Promise!PromiseSpec, PromiseStep
=============================================================================
