----------------------------- MODULE TradeEngine -----------------------------
(***************************************************************************)
(* The life of an order in the trade engine: the trader opens positions,   *)
(* the position-exit sweep closes them, the reconciler resolves unknown    *)
(* placements and settles what the exchange finished.  The three share the *)
(* ledger and the exchange and nothing else, and every await of the code   *)
(* is a step boundary here, so that they interleave as the tasks do.       *)
(*                                                                         *)
(* Engines are processes of the trade engine on one database.  An order id *)
(* is one attempt (one UUID): pc[o] is where the task that made the        *)
(* attempt stands, and "done" once that task has left it to the others.    *)
(***************************************************************************)
EXTENDS Ledger

CONSTANTS
  Engines,     \* engine processes sharing the database
  FaultKinds,  \* faults of this instance: "crash", "db", "transport" (placements),
               \* "dropped" (the publish handler, at the caller's timeout),
               \* "lookup" (by clientOid), "poll" (by exchange id)
  MaxFaults,   \* bound: crashes, database errors and failed polls; dropped
               \* handlers, failed placements and lookups are not bounded
  MaxAge,      \* bound: 1 lets a pending row pass 5 minutes, 2 also 30 minutes
  None         \* no order, no engine

ASSUME EngineAssumption ==
  /\ FaultKinds \subseteq {"crash", "db", "dropped", "transport", "lookup", "poll"}
  /\ MaxFaults \in Nat
  /\ MaxAge \in 0..2
  /\ None \notin Orders
  /\ None \notin Engines
  /\ \A e \in Entries : 2 * Fund[e] <= InitFund[ContractOf[e]]

VARIABLES
  pc,       \* where the task that placed an order stands
  owner,    \* the engine that made the attempt
  exch,     \* the order at the exchange, found by its clientOid or exchange id
  age,      \* 0, 1 (past PENDING_GRACE_MINUTES), 2 (past PENDING_MAX_MINUTES)
  sweep,    \* position_exit: entries of the snapshot still to be looked at
  rec,      \* reconciler: its pass, the snapshot left, the order it is writing
  released, \* history: how often the fund of an entry was released
  cut,      \* history: orders whose failure was cut in two, or written twice
  faults    \* crashes and database errors so far

taskVars == <<pc, owner, sweep, rec>>
vars == <<ledgerVars, taskVars, exch, age, released, cut, faults>>

PCs == {"none", "verified", "placing", "accepted", "rejected", "released", "done"}
InTask == {"verified", "placing", "accepted", "rejected", "released"}
ExchangeStates == {"absent", "working", "filled", "cancelled"}
RecActs == {"none", "place", "fail", "release", "fill", "cancel"}
RecIdle == [pass |-> "idle", todo |-> {}, act |-> "none", cur |-> None]

EngineTypeOK ==
  /\ TypeOK
  /\ pc \in [Orders -> PCs]
  /\ owner \in [Orders -> Engines \cup {None}]
  /\ exch \in [Orders -> ExchangeStates]
  /\ age \in [Orders -> 0..2]
  /\ sweep \in [Engines -> SUBSET Entries]
  /\ rec \in [Engines -> [pass : {"idle", "pending", "settle"}, todo : SUBSET Orders,
                          act : RecActs, cur : Orders \cup {None}]]
  /\ released \in [Entries -> Nat]
  /\ cut \subseteq Orders
  /\ faults \in Nat

Init ==
  /\ LedgerInit
  /\ pc = [o \in Orders |-> "none"]
  /\ owner = [o \in Orders |-> None]
  /\ exch = [o \in Orders |-> "absent"]
  /\ age = [o \in Orders |-> 0]
  /\ sweep = [g \in Engines |-> {}]
  /\ rec = [g \in Engines |-> RecIdle]
  /\ released = [e \in Entries |-> 0]
  /\ cut = {}
  /\ faults = 0

-----------------------------------------------------------------------------
(* A ledger operation the caller only logs when it fails.  It fails when    *)
(* its guard does (no row returned), or on a database error.               *)

Fault(kind) ==
  /\ kind \in FaultKinds
  /\ faults < MaxFaults
  /\ faults' = faults + 1

DbError == Fault("db") /\ UNCHANGED ledgerVars

\* A query that fails ends its pass before it looked at any row.
Query(rows, result) ==
  \/ result = rows /\ UNCHANGED faults
  \/ result = {} /\ Fault("db")

Refused(possible) == ~possible /\ UNCHANGED <<ledgerVars, faults>>

TryPlaced(o) ==
  \/ RecordPlaced(o) /\ UNCHANGED faults
  \/ Refused(status[o] = "pending")
  \/ DbError

\* release_reserved for the fund of entry e.
TryRelease(e) ==
  \/ /\ ReleaseReserved(e)
     /\ released' = [released EXCEPT ![e] = @ + 1]
     /\ UNCHANGED <<cut, faults>>
  \/ Refused(CanRelease(ContractOf[e], Fund[e])) /\ UNCHANGED <<released, cut>>
  \/ DbError /\ cut' = cut \cup {e} /\ UNCHANGED released

Goto(o, l) == pc' = [pc EXCEPT ![o] = l]

-----------------------------------------------------------------------------
(* The exchange, from how the engine uses it: a placement is accepted or    *)
(* rejected, a market order ends filled or without a fill.                 *)

\* Mutant: a transport error handled as a rejection (what the comment in
\* exit.rs warns of).
PlaceOrderErrorIsRejection(o) ==
  /\ pc[o] = "placing"
  /\ \/ exch' = [exch EXCEPT ![o] = "working"] /\ Goto(o, "accepted")
     \/ exch' = exch /\ Goto(o, "rejected")
     \/ /\ "transport" \in FaultKinds
        /\ exch' \in {exch, [exch EXCEPT ![o] = "working"]}
        /\ Goto(o, "rejected")
  /\ UNCHANGED <<ledgerVars, owner, sweep, rec, age, released, cut, faults>>

\* place_order as its caller sees it: accepted, rejected (no data), or a
\* transport error that says nothing about whether the exchange accepted.
PlaceOrder(o) ==
  /\ pc[o] = "placing"
  /\ \/ exch' = [exch EXCEPT ![o] = "working"] /\ Goto(o, "accepted")
     \/ exch' = exch /\ Goto(o, "rejected")
     \/ /\ "transport" \in FaultKinds
        /\ exch' \in {exch, [exch EXCEPT ![o] = "working"]}
        /\ Goto(o, "done")
  /\ UNCHANGED <<ledgerVars, owner, sweep, rec, age, released, cut, faults>>

ExchangeFinishes(o) ==
  /\ exch[o] = "working"
  /\ exch' \in {[exch EXCEPT ![o] = s] : s \in {"filled", "cancelled"}}
  /\ UNCHANGED <<ledgerVars, taskVars, age, released, cut, faults>>

-----------------------------------------------------------------------------
(* trader::execute, called by signal_handler for one contract.             *)

OrderBudget(c) == InitFund[c] \div 2

\* signal_handler found the contract's available fund to cover the budget; the
\* reservation below does not rely on what was read here.  An attempt that ends
\* before its reservation (a bad price or size, no symbol info) is none.
VerifyContract(g, e) ==
  /\ pc[e] = "none"
  /\ available[ContractOf[e]] >= OrderBudget(ContractOf[e])
  /\ Goto(e, "verified")
  /\ owner' = [owner EXCEPT ![e] = g]
  /\ UNCHANGED <<ledgerVars, sweep, rec, exch, age, released, cut, faults>>

\* Mutant: the row inserted in one transaction, its fund reserved in another.
ReserveEntryRowFirst(e) ==
  /\ pc[e] = "verified"
  /\ status' = [status EXCEPT ![e] = "pending"]
  /\ Goto(e, "placing")
  /\ UNCHANGED <<pnl, available, traded, credited, credits, owner, sweep, rec,
                 exch, age, released, cut, faults>>

\* create_pending_open; an error ends execute before anything was sent.
ReserveEntry(e) ==
  /\ pc[e] = "verified"
  /\ \/ CreatePendingOpen(e) /\ Goto(e, "placing") /\ UNCHANGED faults
     \/ Refused(CanConsume(ContractOf[e], Fund[e])) /\ Goto(e, "done")
     \/ DbError /\ Goto(e, "done")
  /\ UNCHANGED <<owner, sweep, rec, exch, age, released, cut>>

\* The exchange rejected the entry: first transaction of the two.
ReleaseRejected(e) ==
  /\ pc[e] = "rejected"
  /\ TryRelease(e)
  /\ Goto(e, "released")
  /\ UNCHANGED <<owner, sweep, rec, exch, age>>

\* Second transaction; a rejected exit has only this one.
FailRejected(o) ==
  /\ pc[o] = IF o \in Entries THEN "released" ELSE "rejected"
  /\ \/ RecordFailed(o) /\ UNCHANGED <<cut, faults>>
     \/ DbError /\ cut' = cut \cup ({o} \cap Entries)
  /\ Goto(o, "done")
  /\ UNCHANGED <<owner, sweep, rec, exch, age, released>>

\* record_placed after an acceptance; if it fails the row stays pending.
RecordAccepted(o) ==
  /\ pc[o] = "accepted"
  /\ TryPlaced(o)
  /\ Goto(o, "done")
  /\ UNCHANGED <<owner, sweep, rec, exch, age, released, cut>>

-----------------------------------------------------------------------------
(* position_exit::sweep_once and exit_position: one exit at a time.        *)

\* held_entries: filled entries with no open, filled or young pending exit.
HeldEntries ==
  {e \in Entries :
     /\ status[e] = "filled"
     /\ \A x \in Exits :
          EntryOf[x] = e =>
            ~(status[x] \in {"open", "filled"} \/ (status[x] = "pending" /\ age[x] = 0))}

Exiting(g) == \E x \in Exits : owner[x] = g /\ pc[x] \in InTask

SweepStart(g) ==
  /\ sweep[g] = {}
  /\ ~Exiting(g)
  /\ HeldEntries # {}
  /\ sweep' = [sweep EXCEPT ![g] = HeldEntries]
  /\ UNCHANGED <<ledgerVars, pc, owner, rec, exch, age, released, cut, faults>>

\* No protective level, no price, level not reached, the price request failed,
\* a live exit exists, or the insert failed: the entry waits for a later sweep.
SweepSkip(g, e) ==
  /\ e \in sweep[g]
  /\ ~Exiting(g)
  /\ sweep' = [sweep EXCEPT ![g] = @ \ {e}]
  /\ UNCHANGED <<ledgerVars, pc, owner, rec, exch, age, released, cut, faults>>

SweepExit(g, x) ==
  /\ EntryOf[x] \in sweep[g]
  /\ ~Exiting(g)
  /\ pc[x] = "none"
  /\ ReserveExit(x)
  /\ Goto(x, "placing")
  /\ owner' = [owner EXCEPT ![x] = g]
  /\ sweep' = [sweep EXCEPT ![g] = @ \ {EntryOf[x]}]
  /\ UNCHANGED <<rec, exch, age, released, cut, faults>>

-----------------------------------------------------------------------------
(* reconciler::run: the pending pass, then the open pass.                  *)

RowsWith(s) == {o \in Orders : status[o] = s}

Reconcile(g, r) == rec' = [rec EXCEPT ![g] = r]
Resting(g, p) == rec[g].pass = p /\ rec[g].act = "none"

PendingPass(g) ==
  /\ Resting(g, "idle")
  /\ \E rows \in {RowsWith("pending"), {}} :
       /\ Query(RowsWith("pending"), rows)
       /\ Reconcile(g, [RecIdle EXCEPT !.pass = "pending", !.todo = rows])
  /\ UNCHANGED <<ledgerVars, pc, owner, sweep, exch, age, released, cut>>

\* Mutants: no grace period for a missing order; no cap on failing lookups; a
\* found order not recorded.
PendingVerdictNoGrace(o, reply) ==
  CASE reply = "found" -> "place"
    [] reply = "absent" -> "fail"
    [] reply = "error" /\ age[o] >= 2 -> "fail"
    [] OTHER -> "none"

PendingVerdictNoCap(o, reply) ==
  CASE reply = "found" -> "place"
    [] reply = "absent" /\ age[o] >= 1 -> "fail"
    [] OTHER -> "none"

PendingVerdictNoRepair(o, reply) ==
  CASE reply = "absent" /\ age[o] >= 1 -> "fail"
    [] reply = "error" /\ age[o] >= 2 -> "fail"
    [] OTHER -> "none"

\* The write that the reply to the client-oid lookup of o calls for.
PendingVerdict(o, reply) ==
  CASE reply = "found" -> "place"
    [] reply = "absent" /\ age[o] >= 1 -> "fail"
    [] reply = "error" /\ age[o] >= 2 -> "fail"
    [] OTHER -> "none"

LookupReplies(o) ==
  {IF exch[o] = "absent" THEN "absent" ELSE "found"}
    \cup (IF "lookup" \in FaultKinds THEN {"error"} ELSE {})

PendingLookup(g, o) ==
  /\ Resting(g, "pending")
  /\ o \in rec[g].todo
  /\ \E reply \in LookupReplies(o) :
       LET act == PendingVerdict(o, reply)
       IN  Reconcile(g, [rec[g] EXCEPT !.todo = @ \ {o}, !.act = act,
                                       !.cur = IF act = "none" THEN None ELSE o])
  /\ UNCHANGED <<ledgerVars, pc, owner, sweep, exch, age, released, cut, faults>>

Written(g) == Reconcile(g, [rec[g] EXCEPT !.act = "none", !.cur = None])

PlaceFound(g) ==
  /\ rec[g].act = "place"
  /\ TryPlaced(rec[g].cur)
  /\ Written(g)
  /\ UNCHANGED <<pc, owner, sweep, exch, age, released, cut>>

\* Mutant: fail_pending without the release.
FailPendingKeepsFund(g) ==
  /\ rec[g].act = "fail"
  /\ RecordFailed(rec[g].cur) /\ UNCHANGED faults
  /\ Written(g)
  /\ UNCHANGED <<pc, owner, sweep, exch, age, released, cut>>

\* fail_pending, first transaction; an entry's fund is released by the second.
\* mark_failed does not ask what became of the row since the snapshot.
FailPending(g) ==
  /\ rec[g].act = "fail"
  /\ \/ /\ RecordFailed(rec[g].cur)
        /\ cut' = IF status[rec[g].cur] = "pending" THEN cut ELSE cut \cup {rec[g].cur}
        /\ UNCHANGED faults
        /\ IF rec[g].cur \in Entries
           THEN Reconcile(g, [rec[g] EXCEPT !.act = "release"])
           ELSE Written(g)
     \/ DbError /\ Written(g) /\ UNCHANGED cut
  /\ UNCHANGED <<pc, owner, sweep, exch, age, released>>

ReleasePending(g) ==
  /\ rec[g].act = "release"
  /\ TryRelease(rec[g].cur)
  /\ Written(g)
  /\ UNCHANGED <<pc, owner, sweep, exch, age>>

OpenPass(g) ==
  /\ Resting(g, "pending")
  /\ rec[g].todo = {}
  /\ \E rows \in {RowsWith("open"), {}} :
       /\ Query(RowsWith("open"), rows)
       /\ Reconcile(g, [rec[g] EXCEPT !.pass = "settle", !.todo = rows])
  /\ UNCHANGED <<ledgerVars, pc, owner, sweep, exch, age, released, cut>>

\* classify_order; a failed or unreadable reply leaves the order for later.
OrderOutcome(o) ==
  CASE exch[o] = "filled" -> "fill"
    [] exch[o] = "cancelled" -> "cancel"
    [] OTHER -> "none"

OpenLookup(g, o) ==
  /\ Resting(g, "settle")
  /\ o \in rec[g].todo
  /\ \/ /\ LET act == OrderOutcome(o)
           IN  Reconcile(g, [rec[g] EXCEPT !.todo = @ \ {o}, !.act = act,
                                           !.cur = IF act = "none" THEN None ELSE o])
        /\ UNCHANGED faults
     \/ /\ Fault("poll")
        /\ Reconcile(g, [rec[g] EXCEPT !.todo = @ \ {o}])
  /\ UNCHANGED <<ledgerVars, pc, owner, sweep, exch, age, released, cut>>

\* settle_filled and settle_cancelled; a repeat finds the row no longer open.
SettleFilled(g) ==
  /\ rec[g].act = "fill"
  /\ LET o == rec[g].cur
     IN  \/ o \in Entries /\ RecordFilledEntry(o) /\ UNCHANGED faults
         \/ o \in Exits /\ (\E raw \in RawPnl : SettleFilledExit(o, raw)) /\ UNCHANGED faults
         \/ Refused(status[o] = "open")
         \/ DbError
  /\ Written(g)
  /\ UNCHANGED <<pc, owner, sweep, exch, age, released, cut>>

SettleCancelled(g) ==
  /\ rec[g].act = "cancel"
  /\ LET o == rec[g].cur
         possible == /\ status[o] = "open"
                     /\ o \in Entries => CanRelease(ContractOf[o], Fund[o])
     IN  \/ /\ RecordCancelled(o)
            /\ released' = IF o \in Entries
                           THEN [released EXCEPT ![o] = @ + 1]
                           ELSE released
            /\ UNCHANGED faults
         \/ Refused(possible) /\ UNCHANGED released
         \/ DbError /\ UNCHANGED released
  /\ Written(g)
  /\ UNCHANGED <<pc, owner, sweep, exch, age, cut>>

PassDone(g) ==
  /\ Resting(g, "settle")
  /\ rec[g].todo = {}
  /\ Reconcile(g, RecIdle)
  /\ UNCHANGED <<ledgerVars, pc, owner, sweep, exch, age, released, cut, faults>>

-----------------------------------------------------------------------------
(* Time, crashes and dropped handlers.                                     *)

\* A pending row passes an age limit.  Assumed: a live task is done with its
\* order (one exchange call, one or two writes) within the grace period; the
\* trader's ends with its handler, 10 seconds after the call at the latest.
Age(o) ==
  /\ status[o] = "pending"
  /\ pc[o] = "done"
  /\ age[o] < MaxAge
  /\ age' = [age EXCEPT ![o] = @ + 1]
  /\ UNCHANGED <<ledgerVars, taskVars, exch, released, cut, faults>>

\* The publish handler awaits the trader.  It is dropped where it stands when
\* the analyzer gives up the call after 10 seconds or its connection is lost:
\* no error, nothing is undone.
HandlerDropped(e) ==
  /\ "dropped" \in FaultKinds
  /\ pc[e] \in InTask
  /\ Goto(e, "done")
  /\ cut' = IF pc[e] = "released" THEN cut \cup {e} ELSE cut
  /\ UNCHANGED <<ledgerVars, owner, sweep, rec, exch, age, released, faults>>

\* The process dies and restarts: its tasks are gone, the rows are not.
Crash(g) ==
  /\ Fault("crash")
  /\ cut' = cut \cup {e \in Entries : owner[e] = g /\ pc[e] = "released"}
                \cup {e \in Entries : rec[g].act = "release" /\ rec[g].cur = e}
  /\ pc' = [o \in Orders |-> IF owner[o] = g /\ pc[o] \in InTask THEN "done" ELSE pc[o]]
  /\ sweep' = [sweep EXCEPT ![g] = {}]
  /\ rec' = [rec EXCEPT ![g] = RecIdle]
  /\ UNCHANGED <<ledgerVars, owner, exch, age, released>>

TraderStep(e) == ReserveEntry(e) \/ ReleaseRejected(e)

PlacementStep(o) == PlaceOrder(o) \/ RecordAccepted(o) \/ FailRejected(o)

ReconcilerStep(g) ==
  \/ PendingPass(g) \/ OpenPass(g) \/ PassDone(g)
  \/ \E o \in Orders : PendingLookup(g, o) \/ OpenLookup(g, o)
  \/ PlaceFound(g) \/ FailPending(g) \/ ReleasePending(g)
  \/ SettleFilled(g) \/ SettleCancelled(g)

SweepStep(g) ==
  \/ SweepStart(g)
  \/ \E e \in Entries : SweepSkip(g, e)
  \/ \E x \in Exits : SweepExit(g, x)

Next ==
  \/ \E g \in Engines, e \in Entries : VerifyContract(g, e)
  \/ \E e \in Entries : TraderStep(e) \/ HandlerDropped(e)
  \/ \E o \in Orders : PlacementStep(o) \/ ExchangeFinishes(o) \/ Age(o)
  \/ \E g \in Engines : ReconcilerStep(g) \/ SweepStep(g) \/ Crash(g)

Spec == Init /\ [][Next]_vars

-----------------------------------------------------------------------------
(* Fairness: the spawned loops of main.rs run forever and their requests   *)
(* return; the exchange finishes a market order; time passes.  Nothing is  *)
(* assumed of signals, crashes, database errors or the replies to lookups. *)

Fairness ==
  /\ \A e \in Entries : WF_vars(TraderStep(e) \/ PlacementStep(e))
  /\ \A x \in Exits : WF_vars(PlacementStep(x))
  /\ \A o \in Orders : WF_vars(ExchangeFinishes(o)) /\ WF_vars(Age(o))
  /\ \A g \in Engines : WF_vars(ReconcilerStep(g))

FairSpec == Spec /\ Fairness

-----------------------------------------------------------------------------
(* Properties.                                                             *)

\* The pending pass has failed the row and is about to release its fund.
Releasing(g, e) == rec[g].act = "release" /\ rec[g].cur = e

\* A task stands between the two transactions that fail an entry and release
\* its fund.
HalfWay(e) == pc[e] = "released" \/ \E g \in Engines : Releasing(g, e)

\* The fund of an entry is with the order: reserved, or in the position.
Holding(c) ==
  {e \in Entries : ContractOf[e] = c /\ status[e] \in {"pending", "open", "filled"}}

ClosedOf(c) ==
  {x \in Exits : ContractOf[EntryOf[x]] = c /\ status[x] = "filled"}

\* No failure of the contract's orders was cut in two by a crash, a dropped
\* handler or a database error, and none was written over a row that another
\* reconciler had resolved meanwhile.
Uncut(c) == \A o \in cut : ContractOf[IF o \in Entries THEN o ELSE EntryOf[o]] # c

\* The balance of a contract is explained by its rows: what it was given, minus
\* the funds held by live and filled entries, plus committed fund and PnL of
\* every filled exit (README "Fund accounting").  Nothing else disturbs it:
\* not the order of steps, nor what the exchange answers or fails to, nor a
\* fault anywhere but between two transactions that go together.
FundsMatchRows ==
  \A c \in Contracts :
    Uncut(c) /\ (\A e \in Entries : ContractOf[e] = c => ~HalfWay(e)) =>
      available[c] = InitFund[c] - SumFunctionOnSet(Fund, Holding(c))
                                 + SumFunctionOnSet(Proceeds, ClosedOf(c))

\* The row of an entry reserves its fund in the same transaction, so that the
\* trader and the reconciler release only what was actually reserved
\* (ledger/orders.rs): a reservation goes back to the contract at most once.
ReleasedAtMostOnce == \A e \in Entries : released[e] <= 1

\* A final row says what became of the order at the exchange: no filled or
\* working order hides behind a failed or cancelled row, unless its lookups failed
\* up to the 30-minute cap.
RowsMatchExchange ==
  \A o \in Orders :
    /\ status[o] = "filled" => exch[o] = "filled"
    /\ status[o] = "cancelled" => exch[o] = "cancelled"
    /\ status[o] = "failed" => exch[o] = "absent" \/ age[o] = 2

\* Two replicas or a retry cannot place a duplicate exit (the comment on
\* idx_trade_orders_active_close): two exits of one entry never both work or
\* fill at the exchange.
OneExitAtExchange ==
  \A x, y \in Exits :
    /\ EntryOf[x] = EntryOf[y]
    /\ exch[x] \in {"working", "filled"}
    /\ exch[y] \in {"working", "filled"}
    => x = y

\* No engine inserts another exit while an earlier one of the entry is at the
\* exchange with its outcome not yet in its row, a placement whose reply was
\* lost included (position_exit/exit.rs): it may go on only after the settled
\* fill, or after lookups that failed up to the 30-minute cap.
NoExitWhileUnsettled ==
  [][\A x, y \in Exits :
       /\ EntryOf[x] = EntryOf[y]
       /\ status[x] = "none" /\ status'[x] = "pending"
       /\ exch[y] \in {"working", "filled"}
       => status[y] = "filled" \/ (status[y] = "failed" /\ age[y] = 2)]_vars

\* README "Fund accounting": an entry rejected or never placed gives its fund
\* back; once no task is half way and none was cut short there, a failed entry
\* has done so.
FailedEntryReleased ==
  \A e \in Entries :
    status[e] = "failed" /\ ~HalfWay(e) /\ Uncut(ContractOf[e]) => released[e] = 1

\* A pending row is always resolved: to open if the exchange has the order, to
\* failed otherwise, and at the 30-minute cap even if every lookup fails.
PendingResolved ==
  \A o \in Orders : status[o] = "pending" ~> status[o] # "pending"

\* What the exchange filled is settled: the row of a filled order becomes
\* filled (for an exit the contract is credited in the same transaction),
\* unless lookups failed up to the 30-minute cap.
FillsSettled ==
  \A o \in Orders :
    exch[o] = "filled" ~> \/ status[o] = "filled"
                          \/ status[o] = "failed" /\ age[o] = 2
=============================================================================
