------------------------------ MODULE SignalPath ------------------------------
(***************************************************************************)
(* The way of a signal: the analyzer's supervisor starts and stops one     *)
(* task per active symbol, a task polls candles and signals, the signals   *)
(* pass a bounded channel to one publisher, and the trade engine's publish *)
(* handler trades on those it has not seen.  The analyzer is shut down,    *)
(* crashes and starts again; the engine restarts; calls time out while     *)
(* their handler runs on.                                                  *)
(*                                                                         *)
(* TF ticks make a candle.  A fetch takes its answer at one time and is    *)
(* processed at a later one, at most Latency ticks after: a candle that    *)
(* was still forming in the answer may count as closed by then.            *)
(***************************************************************************)
EXTENDS CandleDriver, FiniteSets

CONSTANTS
  Symbols,
  Fallback,     \* LIVE_SYMBOLS
  Shows,        \* what the indicators may find, see Finds
  Listings,     \* times at which the exchange's history may begin
  WarmExtra,    \* candles a warm-up asks for beyond the window: 2 in the code
  PollExtra,    \* candles a poll asks for beyond the window: 5 in the code
  Latency,      \* ticks a fetch takes at most: 30 seconds in the code
  QueueCap,     \* the channel's capacity: 256 in the code
  Backoff,      \* REPLACEMENT_BACKOFF in ticks
  Calls,        \* concurrent handlers in the engine
  FirstClock, MaxClock,
  MaxFaults,    \* bound: errors, timeouts, engine restarts
  MaxChanges    \* bound: shutdowns, crashes, contracts opened and closed

ASSUME PathAssumption ==
  /\ Fallback \subseteq Symbols
  /\ Listings \subseteq Nat /\ MaxClock \in Nat /\ FirstClock \in 0..MaxClock
  /\ QueueCap \in Nat \ {0} /\ Backoff \in Nat /\ Latency \in Nat
  /\ WarmExtra \in Nat \ {0, 1} /\ PollExtra \in Nat \ {0, 1}
  /\ Settle <= (PollExtra - 1) * TF
  /\ None \notin Symbols \X {1, 2} /\ None \notin Calls

\* The open times of candles.
Opens == {o \in 0..MaxClock : o % TF = 0}

\* A divergence, by the candle it is found at.
Divergences == [kind : {Kinds[i] : i \in DOMAIN Kinds}, time : Opens]

\* Indicators find nothing beyond the window's last candle.
Findings(o) ==
  [cands : SUBSET {c \in Divergences : c.time <= o}, trend : SUBSET {Kinds[i] : i \in DOMAIN Kinds}]

ASSUME ShowsAssumption ==
  \A sh \in Shows : \A o \in Opens :
    sh.finds[o] \in Findings(o) /\ sh.early[o] \in (SUBSET Findings(o)) \ {{}}

VARIABLES
  show,     \* show[s]: what the indicators find in the candles of s
  listed,   \* open time of the first candle there is
  active,   \* symbols with an active contract
  clock,
  main,     \* analyzer-serve: "up", "stopping", "draining", "down"
  sup,      \* supervisor: "select", "joining", "done"
  stops,    \* stops[s]: the task whose stop handle the supervisor holds, or None
  stopping, \* symbols asked to stop
  backoff,  \* failed_until, as the ticks left
  task,     \* the tasks
  queue,    \* the channel
  pub,      \* the publisher's call, or None
  call,     \* publish handlers in the engine
  seen,     \* EngineServer.seen
  traded,   \* history: ids the running engine traded on, in turn
  sent,     \* history: ids any task has signalled
  resent,   \* history: ids signalled more than once
  lost,     \* history: ids a warm-up did not find although it had their candle
  faults,   \* errors, timeouts, engine restarts
  changes   \* shutdowns, crashes, contracts opened and closed

world == <<show, listed>>
supVars == <<main, sup, stops, stopping, backoff>>
engineVars == <<call, seen, traded>>
history == <<sent, resent, lost>>
vars == <<world, active, clock, supVars, task, queue, pub, engineVars, history, faults, changes>>

\* Two places per symbol: a task may still wind down when its successor starts.
Tasks == Symbols \X {1, 2}
Sym(t) == t[1]
FreeTask == [pc |-> "free", driver |-> NewDriver, cursor |-> 0, snap |-> 0,
             batch |-> <<>>, stop |-> FALSE]
FreeCall == [st |-> "free", id |-> None, orphan |-> FALSE]

SignalId(s, c) == [sym |-> s, kind |-> c.kind, time |-> c.time]

Alive(t) == task[t].pc \notin {"free", "ended"}

Fault == faults < MaxFaults /\ faults' = faults + 1

Init ==
  /\ show \in [Symbols -> Shows]
  /\ listed \in Listings
  /\ active \in SUBSET Symbols
  /\ clock = FirstClock
  /\ main = "up" /\ sup = "select"
  /\ stops = [s \in Symbols |-> None]
  /\ stopping = {}
  /\ backoff = [s \in Symbols |-> 0]
  /\ task = [t \in Tasks |-> FreeTask]
  /\ queue = <<>>
  /\ pub = None
  /\ call = [k \in Calls |-> FreeCall]
  /\ seen = {} /\ traded = <<>>
  /\ sent = {} /\ resent = {} /\ lost = {}
  /\ faults = 0 /\ changes = 0

-----------------------------------------------------------------------------
(* The exchange: what a request for the last n candles, answered at time    *)
(* snap, holds, and which of it the task takes for closed at time now.     *)

Klines(n, snap) == {o \in listed..snap : o % TF = 0 /\ o >= snap - n * TF}

\* A candle whose period was not over when it was read is not final.
Candle(o, snap) == [open |-> o, final |-> snap > o + TF]

\* What the indicators find in a window w: one finding if every candle of it is
\* final, any of the early ones if one was read while it was still forming.
Finds(sh, w) ==
  IF \A i \in DOMAIN w : w[i].final THEN {sh.finds[Last(w).open]} ELSE sh.early[Last(w).open]

\* Sorted by open time; the exchange has no hole.
ClosedOf(os, snap, now) ==
  LET closed == {o \in os : IsClosed(o, now)} IN
  [i \in 1..Cardinality(closed) |-> Candle(Min(closed) + (i - 1) * TF, snap)]

-----------------------------------------------------------------------------
(* live/supervisor.rs                                                      *)

\* Mutant: the symbol is forgotten when its task is asked to stop.
ReconcileForgets(desired) ==
  LET newcomers == {s \in desired : stops[s] = None /\ backoff[s] = 0}
      gone == {s \in Symbols \ desired : stops[s] # None}
      place(s) == CHOOSE t \in {s} \X {1, 2} : task[t].pc = "free" IN
  /\ \A s \in newcomers : \E t \in {s} \X {1, 2} : task[t].pc = "free"
  /\ stops' = [s \in Symbols |-> IF s \in newcomers THEN place(s)
                                 ELSE IF s \in gone THEN None ELSE stops[s]]
  /\ stopping' = stopping
  /\ task' = [t \in Tasks |->
       IF Sym(t) \in newcomers /\ place(Sym(t)) = t
       THEN [FreeTask EXCEPT !.pc = "warming", !.snap = clock]
       ELSE IF Sym(t) \in gone /\ stops[Sym(t)] = t THEN [task[t] EXCEPT !.stop = TRUE]
       ELSE task[t]]

\* reconcile_plan and reconcile: start newcomers, ask the gone to stop.
Reconcile(desired) ==
  LET newcomers == {s \in desired : /\ stops[s] = None
                                    /\ s \notin stopping
                                    /\ backoff[s] = 0}
      gone == {s \in Symbols \ desired : stops[s] # None /\ s \notin stopping}
      place(s) == CHOOSE t \in {s} \X {1, 2} : task[t].pc = "free" IN
  /\ \A s \in newcomers : \E t \in {s} \X {1, 2} : task[t].pc = "free"
  /\ stops' = [s \in Symbols |-> IF s \in newcomers THEN place(s) ELSE stops[s]]
  /\ stopping' = stopping \cup gone
  /\ task' = [t \in Tasks |->
       IF Sym(t) \in newcomers /\ place(Sym(t)) = t
       THEN [FreeTask EXCEPT !.pc = "warming", !.snap = clock]
       ELSE IF Sym(t) \in gone /\ stops[Sym(t)] = t THEN [task[t] EXCEPT !.stop = TRUE]
       ELSE task[t]]

\* The engine answers with its active symbols; an empty answer means Fallback.
\* The loop waits for the answer, so what happens meanwhile is as if after it.
Activation ==
  /\ sup = "select"
  /\ Reconcile(IF active # {} THEN active ELSE Fallback)
  /\ UNCHANGED <<world, active, clock, main, sup, backoff, queue, pub, engineVars, history,
                 faults, changes>>

\* The call fails: the tasks there are stay as they are.
ActivationFails ==
  /\ sup = "select"
  /\ Fault
  /\ IF \A t \in Tasks : task[t].pc = "free"
     THEN Reconcile(Fallback)
     ELSE UNCHANGED <<stops, stopping, task>>
  /\ UNCHANGED <<world, active, clock, main, sup, backoff, queue, pub, engineVars, history,
                 changes>>

\* Mutant: a reaped symbol still counts as stopping.
ReapKeeps(t) ==
  /\ sup = "select"
  /\ task[t].pc = "ended"
  /\ stops' = [stops EXCEPT ![Sym(t)] = None]
  /\ backoff' = [backoff EXCEPT ![Sym(t)] = Backoff]
  /\ task' = [task EXCEPT ![t] = FreeTask]
  /\ UNCHANGED <<world, active, clock, main, sup, stopping, queue, pub, engineVars, history,
                 faults, changes>>

\* The task has ended, well or not: its symbol may start again after a while.
Reap(t) ==
  /\ sup = "select"
  /\ task[t].pc = "ended"
  /\ stops' = [stops EXCEPT ![Sym(t)] = None]
  /\ stopping' = stopping \ {Sym(t)}
  /\ backoff' = [backoff EXCEPT ![Sym(t)] = Backoff]
  /\ task' = [task EXCEPT ![t] = FreeTask]
  /\ UNCHANGED <<world, active, clock, main, sup, queue, pub, engineVars, history, faults,
                 changes>>

\* Mutant: the loop is left once no task runs any more.
SupBreakIdle ==
  /\ sup = "select" /\ main = "stopping"
  /\ \A t \in Tasks : ~Alive(t)
  /\ sup' = "joining"
  /\ UNCHANGED <<world, active, clock, main, stops, stopping, backoff, task, queue, pub,
                 engineVars, history, faults, changes>>

\* The loop is left: every task is asked to stop.
SupBreak ==
  /\ sup = "select" /\ main = "stopping"
  /\ sup' = "joining"
  /\ task' = [t \in Tasks |-> [task[t] EXCEPT !.stop = @ \/ \E s \in Symbols : stops[s] = t]]
  /\ UNCHANGED <<world, active, clock, main, stops, stopping, backoff, queue, pub, engineVars,
                 history, faults, changes>>

\* shutdown_workers: once all have ended, or the stragglers are aborted.
ShutdownWorkers ==
  /\ sup = "joining"
  /\ IF \A t \in Tasks : ~Alive(t) THEN UNCHANGED faults ELSE Fault
  /\ task' = [t \in Tasks |-> FreeTask]
  /\ stops' = [s \in Symbols |-> None]
  /\ sup' = "done"
  /\ UNCHANGED <<world, active, clock, main, stopping, backoff, queue, pub, engineVars, history,
                 changes>>

-----------------------------------------------------------------------------
(* live/symbol_task.rs                                                     *)

EndTask(t) == task' = [task EXCEPT ![t] = [FreeTask EXCEPT !.pc = "ended"]]

\* Sink::publish: what the channel cannot take is lost.
Send(s, out) ==
  LET ids == {SignalId(s, c) : c \in out} IN
  /\ queue' = IF ids # {} /\ Len(queue) < QueueCap THEN Append(queue, CHOOSE id \in ids : TRUE)
              ELSE queue
  /\ sent' = sent \cup ids
  /\ resent' = resent \cup (sent \cap ids)
  /\ UNCHANGED lost

\* The signalled divergences of s whose candle is in the window, and for which
\* the indicators find nothing in it, nor anything later.
NotFound(s, finding, w) ==
  {id \in sent : /\ id.sym = s
                 /\ \E i \in DOMAIN w : w[i].open = id.time
                 /\ \A c \in Candidates(finding, w) : c.time < id.time}

\* warm_driver: the last closed candles fill the window; nothing is signalled.
Warm(t) ==
  /\ task[t].pc = "warming"
  /\ \E closed \in {ClosedOf(Klines(WindowLen + WarmExtra, task[t].snap), task[t].snap, clock)} :
       IF Len(closed) < WindowLen
       THEN EndTask(t) /\ UNCHANGED lost
       ELSE \E last \in {SubSeq(closed, Len(closed) - WindowLen + 1, Len(closed))} :
            \E finding \in Finds(show[Sym(t)], last) :
              /\ task' = [task EXCEPT ![t].pc = "polling", ![t].cursor = Last(closed).open,
                            ![t].driver = WarmUp(finding, [NewDriver EXCEPT !.window = last])]
              /\ lost' = lost \cup NotFound(Sym(t), finding, last)
  /\ UNCHANGED <<world, active, clock, supVars, queue, pub, engineVars, sent, resent, faults,
                 changes>>

WarmFails(t) ==
  /\ task[t].pc = "warming"
  /\ Fault /\ EndTask(t)
  /\ UNCHANGED <<world, active, clock, supVars, queue, pub, engineVars, history, changes>>

Stop(t) ==
  /\ task[t].pc = "polling" /\ task[t].stop
  /\ EndTask(t)
  /\ UNCHANGED <<world, active, clock, supVars, queue, pub, engineVars, history, faults, changes>>

StartPoll(t) ==
  /\ task[t].pc = "polling"
  /\ ~(clock - Settle < task[t].cursor + 2 * TF)
  /\ task' = [task EXCEPT ![t].pc = "fetching", ![t].snap = clock]
  /\ UNCHANGED <<world, active, clock, supVars, queue, pub, engineVars, history, faults, changes>>

PollFails(t) ==
  /\ task[t].pc = "fetching"
  /\ Fault
  /\ task' = [task EXCEPT ![t].pc = "polling"]
  /\ UNCHANGED <<world, active, clock, supVars, queue, pub, engineVars, history, changes>>

\* Mutant: the cursor moves to the last candle of the answer, closed or not.
PollPastOpen(t) ==
  /\ task[t].pc = "fetching"
  /\ LET all == Klines(WindowLen + PollExtra, task[t].snap) IN
     task' = [task EXCEPT ![t].pc = "pushing", ![t].cursor = Max(all),
                ![t].batch = ClosedOf({o \in all : o > task[t].cursor}, task[t].snap, clock)]
  /\ UNCHANGED <<world, active, clock, supVars, queue, pub, engineVars, history, faults, changes>>

\* The closed candles after the cursor are the next batch.  The cursor is read
\* again only after the batch, so it may move here.
Poll(t) ==
  /\ task[t].pc = "fetching"
  /\ LET all == Klines(WindowLen + PollExtra, task[t].snap)
         new == ClosedOf({o \in all : o > task[t].cursor}, task[t].snap, clock) IN
     task' = [task EXCEPT ![t].pc = "pushing", ![t].batch = new,
                          ![t].cursor = IF new = <<>> THEN @ ELSE Last(new).open]
  /\ UNCHANGED <<world, active, clock, supVars, queue, pub, engineVars, history, faults, changes>>

\* process_batch: one candle through the driver, and its signal to the sink.
Push(t) ==
  /\ task[t].pc = "pushing" /\ task[t].batch # <<>>
  /\ IF IsStale(task[t].driver.window, Head(task[t].batch))
     THEN EndTask(t) /\ UNCHANGED <<queue, history>>
     ELSE \E finding \in Finds(show[Sym(t)], Slide(task[t].driver.window, Head(task[t].batch))) :
          \E p \in {PushClosed(finding, task[t].driver, Head(task[t].batch))} :
            /\ task' = [task EXCEPT ![t].driver = p.driver, ![t].batch = Tail(@)]
            /\ Send(Sym(t), p.out)
  /\ UNCHANGED <<world, active, clock, supVars, pub, engineVars, faults, changes>>

BatchDone(t) ==
  /\ task[t].pc = "pushing" /\ task[t].batch = <<>>
  /\ task' = [task EXCEPT ![t].pc = "polling"]
  /\ UNCHANGED <<world, active, clock, supVars, queue, pub, engineVars, history, faults, changes>>

\* The strategy fails, or panics, within the batch: part of it has signalled.
PushFails(t) ==
  /\ task[t].pc = "pushing" /\ task[t].batch # <<>>
  /\ Fault /\ EndTask(t)
  /\ UNCHANGED <<world, active, clock, supVars, queue, pub, engineVars, history, changes>>

-----------------------------------------------------------------------------
(* live/grpc.rs: one attempt for each signal.                              *)

Take ==
  /\ pub = None /\ queue # <<>> /\ main # "down"
  /\ \E k \in Calls : call[k].st = "free"
  /\ LET k == CHOOSE k \in Calls : call[k].st = "free" IN
     /\ pub' = k
     /\ call' = [call EXCEPT ![k] = [st |-> "sent", id |-> Head(queue), orphan |-> FALSE]]
  /\ queue' = Tail(queue)
  /\ UNCHANGED <<world, active, clock, supVars, task, seen, traded, history, faults, changes>>

Answered ==
  /\ pub # None /\ call[pub].st = "answered"
  /\ pub' = None
  /\ call' = [call EXCEPT ![pub] = FreeCall]
  /\ UNCHANGED <<world, active, clock, supVars, task, queue, seen, traded, history, faults,
                 changes>>

\* The caller is gone: its handler runs on, or is dropped where it stands.
Abandoned(k) ==
  \/ call' = [call EXCEPT ![k] = FreeCall]
  \/ call' = [call EXCEPT ![k].orphan = TRUE]

CallTimesOut ==
  /\ pub # None
  /\ Fault
  /\ pub' = None /\ Abandoned(pub)
  /\ UNCHANGED <<world, active, clock, supVars, task, queue, seen, traded, history, changes>>

-----------------------------------------------------------------------------
(* trade-engine/src/grpc_handler.rs: publish.                              *)

\* Mutant: the id is looked up and not marked.
DedupLate(k) ==
  /\ call[k].st = "sent"
  /\ call' = [call EXCEPT ![k].st = IF call[k].id \in seen THEN "answered" ELSE "handling"]
  /\ UNCHANGED <<world, active, clock, supVars, task, queue, pub, seen, traded, history, faults,
                 changes>>

Dedup(k) ==
  /\ call[k].st = "sent"
  /\ call' = [call EXCEPT ![k].st = IF call[k].id \in seen THEN "answered" ELSE "handling"]
  /\ seen' = seen \cup {call[k].id}
  /\ UNCHANGED <<world, active, clock, supVars, task, queue, pub, traded, history, faults, changes>>

\* reject_reason: the engine's clock is past the message's expiry.
Expired(k) ==
  /\ call[k].st = "sent"
  /\ Fault
  /\ call' = [call EXCEPT ![k].st = "answered"]
  /\ UNCHANGED <<world, active, clock, supVars, task, queue, pub, seen, traded, history, changes>>

\* signal_handler trades on the contracts; their own failures are logged.
Handle(k) ==
  /\ call[k].st = "handling"
  /\ call' = [call EXCEPT ![k].st = "answered"]
  /\ traded' = Append(traded, call[k].id)
  /\ UNCHANGED <<world, active, clock, supVars, task, queue, pub, seen, history, faults, changes>>

\* Its query fails before any contract is looked at: the id is unmarked.
HandleFails(k) ==
  /\ call[k].st = "handling"
  /\ Fault
  /\ call' = [call EXCEPT ![k].st = "answered"]
  /\ seen' = seen \ {call[k].id}
  /\ UNCHANGED <<world, active, clock, supVars, task, queue, pub, traded, history, changes>>

OrphanEnds(k) ==
  /\ call[k].st = "answered" /\ call[k].orphan
  /\ call' = [call EXCEPT ![k] = FreeCall]
  /\ UNCHANGED <<world, active, clock, supVars, task, queue, pub, seen, traded, history, faults,
                 changes>>

EngineRestart ==
  /\ Fault
  /\ seen' = {} /\ traded' = <<>>
  /\ call' = [k \in Calls |-> IF k = pub THEN [call[k] EXCEPT !.st = "answered"] ELSE FreeCall]
  /\ UNCHANGED <<world, active, clock, supVars, task, queue, pub, history, changes>>

-----------------------------------------------------------------------------
(* bin/analyzer-serve.rs                                                   *)

Terminate ==
  /\ main = "up" /\ changes < MaxChanges
  /\ main' = "stopping" /\ changes' = changes + 1
  /\ UNCHANGED <<world, active, clock, sup, stops, stopping, backoff, task, queue, pub,
                 engineVars, history, faults>>

Drain ==
  /\ main = "stopping" /\ sup = "done"
  /\ main' = "draining"
  /\ UNCHANGED <<world, active, clock, sup, stops, stopping, backoff, task, queue, pub,
                 engineVars, history, faults, changes>>

\* What a new process starts from.
Fresh ==
  /\ stops' = [s \in Symbols |-> None]
  /\ stopping' = {}
  /\ backoff' = [s \in Symbols |-> 0]
  /\ task' = [t \in Tasks |-> FreeTask]
  /\ queue' = <<>> /\ pub' = None

\* The publisher has drained the channel, or runs out of time and is aborted.
Exit ==
  /\ main = "draining"
  /\ \/ queue = <<>> /\ pub = None /\ UNCHANGED <<call, faults>>
     \/ /\ ~(queue = <<>> /\ pub = None)
        /\ Fault
        /\ IF pub # None THEN Abandoned(pub) ELSE UNCHANGED call
  /\ main' = "down" /\ sup' = "done" /\ Fresh
  /\ UNCHANGED <<world, active, clock, seen, traded, history, changes>>

Crash ==
  /\ main # "down" /\ changes < MaxChanges
  /\ changes' = changes + 1
  /\ IF pub # None THEN Abandoned(pub) ELSE UNCHANGED call
  /\ main' = "down" /\ sup' = "done" /\ Fresh
  /\ UNCHANGED <<world, active, clock, seen, traded, history, faults>>

Boot ==
  /\ main = "down"
  /\ main' = "up" /\ sup' = "select"
  /\ UNCHANGED <<world, active, clock, stops, stopping, backoff, task, queue, pub, engineVars,
                 history, faults, changes>>

-----------------------------------------------------------------------------
\* Contracts are signed and closed while the analyzer runs.
Contracts ==
  /\ changes < MaxChanges /\ changes' = changes + 1
  /\ \E s \in Symbols : active' = IF s \in active THEN active \ {s} ELSE active \cup {s}
  /\ UNCHANGED <<world, clock, supVars, task, queue, pub, engineVars, history, faults>>

\* Time passes; the HTTP client gives a fetch up after Latency.
Tick ==
  /\ clock < MaxClock \/ \E s \in Symbols : backoff[s] > 0
  /\ \A t \in Tasks : task[t].pc \in {"warming", "fetching"} => clock < task[t].snap + Latency
  /\ clock' = IF clock < MaxClock THEN clock + 1 ELSE clock
  /\ backoff' = [s \in Symbols |-> IF backoff[s] > 0 THEN backoff[s] - 1 ELSE 0]
  /\ UNCHANGED <<world, active, main, sup, stops, stopping, task, queue, pub, engineVars,
                 history, faults, changes>>

TaskStep(t) == Warm(t) \/ Stop(t) \/ StartPoll(t) \/ Poll(t) \/ Push(t) \/ BatchDone(t)
EngineStep(k) == Dedup(k) \/ Handle(k) \/ OrphanEnds(k)

Next ==
  \/ Activation \/ ActivationFails \/ SupBreak \/ ShutdownWorkers
  \/ \E t \in Tasks :
       \/ Reap(t) \/ TaskStep(t)
       \/ WarmFails(t) \/ PollFails(t) \/ PushFails(t)
  \/ Take \/ Answered \/ CallTimesOut
  \/ \E k \in Calls : EngineStep(k) \/ Expired(k) \/ HandleFails(k)
  \/ EngineRestart
  \/ Terminate \/ Drain \/ Exit \/ Crash \/ Boot
  \/ Contracts \/ Tick

\* tokio::select! picks among its ready branches at random: a branch that is
\* ready again and again is taken.
Fairness ==
  /\ WF_vars(Activation)
  /\ SF_vars(SupBreak) /\ WF_vars(ShutdownWorkers) /\ WF_vars(Drain)
  /\ WF_vars(Exit /\ queue = <<>> /\ pub = None) /\ WF_vars(Boot)
  /\ \A t \in Tasks : SF_vars(Reap(t)) /\ WF_vars(TaskStep(t)) /\ SF_vars(Stop(t))
  /\ WF_vars(Take) /\ WF_vars(Answered)
  /\ \A k \in Calls : WF_vars(EngineStep(k))
  /\ WF_vars(Tick)

Spec == Init /\ [][Next]_vars /\ Fairness

-----------------------------------------------------------------------------
\* A symbol never has two tasks at once, however its activation flips while
\* the old task winds down, fails or is reaped (the stops, stopping and
\* failed_until maps of live/supervisor.rs).
OneTaskPerSymbol ==
  \A t, u \in Tasks : Alive(t) /\ Alive(u) /\ Sym(t) = Sym(u) => t = u

\* Between polls a window is full and an unbroken stretch of history, whatever
\* a fetch takes: the cursor skips no candle, and after an outage longer than
\* what a poll asks for the answer replaces the whole window
\* (live/symbol_task.rs).
WindowIsHistory ==
  \A t \in {u \in Tasks : task[u].pc = "polling"} :
    LET w == task[t].driver.window IN
    /\ Len(w) = WindowLen
    /\ \A i \in 1..(Len(w) - 1) : w[i + 1].open = w[i].open + TF

\* Every candle of a window was over when it was read ("recomputes signals() on
\* every newly closed candle", process/analyzer/README.md:23).
WindowIsClosed ==
  \A t \in {u \in Tasks : task[u].pc = "polling"} :
    \A i \in DOMAIN task[t].driver.window : task[t].driver.window[i].final

\* "Each signal gets exactly one publish attempt; nothing is resent after a
\* restart" (process/analyzer/README.md:25).
NothingResent == resent = {}

\* A signal is sent twice, across stops, failures, crashes and restarts of its
\* task and of the process, only if the warm-up of a later task had its candle
\* in the window and the indicators found neither it nor anything later there.
ResentWasLost == resent \subseteq lost

\* "A failed batch is retried from the same cursor on the next poll"
\* (live/symbol_task.rs:128-129): a task in a batch stays in it, or polls again.
FailedBatchRetried ==
  [][\A t \in Tasks : task[t].pc = "pushing" => task'[t].pc \in {"pushing", "polling"}]_vars

Promise == INSTANCE SignalPromise WITH asked <- sent, traded <- traded

\* One engine trades only on what a task has signalled, and at most once,
\* whoever sends it again while the first call is queued, running, timed out
\* or failed: every step is a step of SignalPromise, or none.
TradesOnce == Promise!PromiseSpec

\* A shutdown completes: tasks that hang are aborted, the channel closes, and
\* the publisher ends.
ShutdownEnds == main = "stopping" ~> main = "down"

\* A symbol that stays active has a task polling it again and again, whatever
\* failed before (activation, back-off, restart), if it has enough history.
ActiveIsWatched ==
  \A s \in Symbols :
    <>[](s \in active /\ main = "up" /\ listed + (WindowLen + 1) * TF + Settle < clock)
      => []<>(\E t \in Tasks : Sym(t) = s /\ task[t].pc \in {"polling", "fetching", "pushing"})
=============================================================================
