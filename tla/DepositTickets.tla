--------------------------- MODULE DepositTickets ---------------------------
(***************************************************************************)
(* The ticket pipeline of the deposit worker: create_ticket0 puts a task   *)
(* on a bounded channel, a dispatcher takes tasks off it one permit at a   *)
(* time, a spawned task records the deposit and answers the caller through *)
(* a oneshot (deposit-worker/src/grpc_handler.rs, task.rs).                *)
(***************************************************************************)
EXTENDS DepositPromise, Sequences, FiniteSets

CONSTANTS
  Calls,    \* create_ticket0 requests of the gateway
  HashOf,   \* the tx_hash each call names, a text
  QueueCap, \* capacity of the mpsc channel
  Permits,  \* N_WORKERS, permits of the semaphore
  NoCall    \* no call

ASSUME TicketAssumption ==
  /\ HashOf \in [Calls -> Deposits]
  /\ QueueCap \in Nat \ {0}
  /\ Permits \in Nat \ {0}
  /\ NoCall \notin Calls

VARIABLES
  call,   \* what the caller knows of each request
  queue,  \* the channel
  inHand, \* the task received by the dispatcher and waiting for a permit
  task    \* the spawned tasks that hold a permit, and where they are

ticketVars == <<call, queue, inHand, task>>
pipelineVars == <<promiseVars, ticketVars>>

Answers == {"ticket", "exhausted", "error"}
CallStates == {"idle", "waiting", "gone"} \cup Answers

TicketsTypeOK ==
  /\ status \in [Deposits -> {"none", "pending"}]
  /\ call \in [Calls -> CallStates]
  /\ queue \in Seq(Calls) /\ Len(queue) <= QueueCap
  /\ inHand \in Calls \cup {NoCall}
  /\ task \in [Calls -> {"none", "fetch", "insert"}]

TicketsInit ==
  /\ PromiseInit
  /\ call = [r \in Calls |-> "idle"]
  /\ queue = << >>
  /\ inHand = NoCall
  /\ task = [r \in Calls |-> "none"]

Running == {r \in Calls : task[r] # "none"}

-----------------------------------------------------------------------------
\* try_send: a full channel answers RESOURCE_EXHAUSTED.
CreateTicket0(r) ==
  /\ call[r] = "idle"
  /\ \/ /\ Len(queue) < QueueCap
        /\ queue' = Append(queue, r)
        /\ call' = [call EXCEPT ![r] = "waiting"]
     \/ /\ Len(queue) = QueueCap
        /\ call' = [call EXCEPT ![r] = "exhausted"]
        /\ UNCHANGED queue
  /\ UNCHANGED <<promiseVars, inHand, task>>

\* The caller hangs up: the receiver is dropped, the task lives on.
HangUp(r) ==
  /\ call[r] = "waiting"
  /\ call' = [call EXCEPT ![r] = "gone"]
  /\ UNCHANGED <<promiseVars, queue, inHand, task>>

Receive ==
  /\ inHand = NoCall
  /\ queue # << >>
  /\ inHand' = Head(queue)
  /\ queue' = Tail(queue)
  /\ UNCHANGED <<promiseVars, call, task>>

\* acquire_owned, then spawn.
Dispatch ==
  /\ inHand # NoCall
  /\ Cardinality(Running) < Permits
  /\ task' = [task EXCEPT ![inHand] = "fetch"]
  /\ inHand' = NoCall
  /\ UNCHANGED <<promiseVars, call, queue>>

\* Mutant: a task that fails keeps its permit.
AnswerKeepsPermit(r, reply) ==
  /\ call' = [call EXCEPT ![r] = IF @ = "waiting" THEN reply ELSE @]
  /\ task' = [task EXCEPT ![r] = IF reply = "error" THEN @ ELSE "none"]

\* reply.send(..).ok() and the permit dropped.
Answer(r, reply) ==
  /\ call' = [call EXCEPT ![r] = IF @ = "waiting" THEN reply ELSE @]
  /\ task' = [task EXCEPT ![r] = "none"]

\* get_transaction; it fails for an unknown hash or an RPC error.
FetchTransaction(r) ==
  /\ task[r] = "fetch"
  /\ \/ task' = [task EXCEPT ![r] = "insert"] /\ UNCHANGED call
     \/ Answer(r, "error")
  /\ UNCHANGED <<promiseVars, queue, inHand>>

\* Mutant: an insert that ignores the conflict.
InsertDepositAgain(r) ==
  /\ task[r] = "insert"
  /\ Ticket(HashOf[r]) \/ UNCHANGED promiseVars
  /\ Answer(r, "ticket")
  /\ UNCHANGED <<queue, inHand>>

\* create_pending under the unique index on tx_hash, which tells two texts of
\* one transaction apart; any failure is INTERNAL.
InsertDeposit(r) ==
  /\ task[r] = "insert"
  /\ \/ Ticket(HashOf[r]) /\ Answer(r, "ticket")
     \/ UNCHANGED promiseVars /\ Answer(r, "error")
  /\ UNCHANGED <<queue, inHand>>

\* The worker process restarts: everything but the rows is gone, and callers
\* see their connection fail.
Restart ==
  /\ queue # << >> \/ inHand # NoCall \/ Running # {}
  /\ call' = [r \in Calls |-> IF call[r] = "waiting" THEN "error" ELSE call[r]]
  /\ queue' = << >>
  /\ inHand' = NoCall
  /\ task' = [r \in Calls |-> "none"]
  /\ UNCHANGED promiseVars

Dispatcher == Receive \/ Dispatch
TaskStep(r) == FetchTransaction(r) \/ InsertDeposit(r)

TicketsNext ==
  \/ \E r \in Calls : CreateTicket0(r) \/ HangUp(r) \/ TaskStep(r)
  \/ Dispatcher \/ Restart

TicketsSpec == TicketsInit /\ [][TicketsNext]_pipelineVars

\* The dispatcher loop and the spawned tasks are never abandoned.
TicketsFairness == WF_pipelineVars(Dispatcher) /\ \A r \in Calls : WF_pipelineVars(TaskStep(r))

TicketsFairSpec == TicketsSpec /\ TicketsFairness

-----------------------------------------------------------------------------
\* A text gives at most one ticket, and a ticket stands for a row: of the calls
\* that name one text, retries after an answer was lost, a hang-up or a restart
\* included, at most one gets a ticket (task.rs:31-36).  A transaction named by
\* two texts may have two tickets; that only one is credited is DepositPromise.
OneTicketPerText ==
  /\ \A q, r \in Calls :
       call[q] = "ticket" /\ call[r] = "ticket" /\ HashOf[q] = HashOf[r] => q = r
  /\ \A r \in Calls : call[r] = "ticket" => status[HashOf[r]] # "none"

\* Every caller that waits is answered, behind any number of others.
EveryCallAnswered ==
  \A r \in Calls : call[r] = "waiting" ~> call[r] # "waiting"
=============================================================================
