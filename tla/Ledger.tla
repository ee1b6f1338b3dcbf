------------------------------- MODULE Ledger -------------------------------
(***************************************************************************)
(* The ledger of the trade engine: the rows of trade_orders, the two fund  *)
(* columns of contracts, and the operations of trade-engine/src/ledger,    *)
(* each of which is one SQL transaction over share's db layer.             *)
(*                                                                         *)
(* LedgerNext lets any caller run any operation on any row at any time: a  *)
(* stale snapshot, a retry, a second engine instance.  What holds of       *)
(* LedgerSpec is therefore what the SQL guards alone promise; TradeEngine  *)
(* is shown to be one of these callers.                                    *)
(*                                                                         *)
(* An order row is created under a fresh UUID.  The UUIDs are partitioned  *)
(* in advance: ContractOf is the contract_id an entry row would have,      *)
(* EntryOf the parent_order_id an exit row would have, Fund the `funds`    *)
(* column of an entry.  A row that was not inserted yet has status "none". *)
(***************************************************************************)
EXTENDS PnL, FiniteSets, Functions

CONSTANTS
  Contracts,   \* ids of the contracts
  Entries,     \* ids of rows with action = 'open'
  Exits,       \* ids of rows with action = 'close'
  InitFund,    \* init_fund of each contract
  ContractOf,  \* contract_id of each entry row
  EntryOf,     \* parent_order_id of each exit row
  Fund,        \* funds of each entry row
  RawPnl       \* realized PnL values an exit's fill may give, before the cap

ASSUME LedgerAssumption ==
  /\ IsFiniteSet(Entries) /\ IsFiniteSet(Exits)
  /\ Entries \cap Exits = {}
  /\ InitFund \in [Contracts -> Nat]
  /\ ContractOf \in [Entries -> Contracts]
  /\ EntryOf \in [Exits -> Entries]
  /\ Fund \in [Entries -> Nat]
  /\ RawPnl \subseteq Int

VARIABLES
  status,     \* status column of each order row
  pnl,        \* pnl column of each exit row (0 while it is NULL)
  available,  \* available_fund of each contract
  traded,     \* total_traded_fund of each contract
  credited,   \* history: everything add_fund ever credited to the contract
  credits     \* history: how often an exit row's fill credited its contract

ledgerVars == <<status, pnl, available, traded, credited, credits>>

Orders == Entries \cup Exits

Statuses == {"none", "pending", "open", "filled", "cancelled", "failed"}

Live == {"pending", "open"}

TypeOK ==
  /\ status \in [Orders -> Statuses]
  /\ pnl \in [Exits -> Int]
  /\ available \in [Contracts -> Int]
  /\ traded \in [Contracts -> Int]
  /\ credited \in [Contracts -> Int]
  /\ credits \in [Exits -> Nat]

LedgerInit ==
  /\ status = [o \in Orders |-> "none"]
  /\ pnl = [x \in Exits |-> 0]
  /\ available = InitFund
  /\ traded = [c \in Contracts |-> 0]
  /\ credited = [c \in Contracts |-> 0]
  /\ credits = [x \in Exits |-> 0]

-----------------------------------------------------------------------------
(* Updates of share/src/db, guarded by their WHERE clauses.                *)

\* Mutant: consume_fund without its WHERE clause.
CanConsumeAlways(c, amount) == TRUE

CanConsume(c, amount) == available[c] >= amount

ConsumeFund(c, amount) ==
  /\ CanConsume(c, amount)
  /\ available' = [available EXCEPT ![c] = @ - amount]
  /\ traded' = [traded EXCEPT ![c] = @ + amount]

CanRelease(c, amount) == traded[c] >= amount

ReleaseFund(c, amount) ==
  /\ CanRelease(c, amount)
  /\ available' = [available EXCEPT ![c] = @ + amount]
  /\ traded' = [traded EXCEPT ![c] = @ - amount]

AddFund(c, amount) ==
  /\ available' = [available EXCEPT ![c] = @ + amount]
  /\ credited' = [credited EXCEPT ![c] = @ + amount]

SetStatus(o, new) == status' = [status EXCEPT ![o] = new]

\* Mutant: mark_placed without its status condition.
MarkPlacedAlways(o) == status[o] # "none" /\ SetStatus(o, "open")

MarkPlaced(o) == status[o] = "pending" /\ SetStatus(o, "open")

\* Mutant: mark_filled without its status condition.
MarkFilledAlways(o) == status[o] # "none" /\ SetStatus(o, "filled")

MarkFilled(o) == status[o] = "open" /\ SetStatus(o, "filled")

MarkCancelled(o) == status[o] = "open" /\ SetStatus(o, "cancelled")

\* The only status update with no condition on the current status.
MarkFailed(o) == status[o] # "none" /\ SetStatus(o, "failed")

\* The partial unique index idx_trade_orders_active_close.
HasLiveExit(e) == \E x \in Exits : EntryOf[x] = e /\ status[x] \in Live

-----------------------------------------------------------------------------
(* Operations of trade-engine/src/ledger/orders.rs, one transaction each.  *)

CreatePendingOpen(e) ==
  /\ status[e] = "none"
  /\ SetStatus(e, "pending")
  /\ ConsumeFund(ContractOf[e], Fund[e])
  /\ UNCHANGED <<pnl, credited, credits>>

ReserveExit(x) ==
  /\ status[x] = "none"
  /\ status[EntryOf[x]] # "none"
  /\ ~HasLiveExit(EntryOf[x])
  /\ SetStatus(x, "pending")
  /\ UNCHANGED <<pnl, available, traded, credited, credits>>

RecordPlaced(o) ==
  /\ MarkPlaced(o)
  /\ UNCHANGED <<pnl, available, traded, credited, credits>>

RecordFailed(o) ==
  /\ MarkFailed(o)
  /\ UNCHANGED <<pnl, available, traded, credited, credits>>

\* Callers pass the contract and the funds of one entry row.
ReleaseReserved(e) ==
  /\ ReleaseFund(ContractOf[e], Fund[e])
  /\ UNCHANGED <<status, pnl, credited, credits>>

\* Mutant: a cancelled entry keeps its fund.
RecordCancelledKeepsFund(o) ==
  /\ MarkCancelled(o)
  /\ UNCHANGED <<pnl, available, traded, credited, credits>>

RecordCancelled(o) ==
  /\ MarkCancelled(o)
  /\ IF o \in Entries
     THEN ReleaseFund(ContractOf[o], Fund[o])
     ELSE UNCHANGED <<available, traded>>
  /\ UNCHANGED <<pnl, credited, credits>>

RecordFilledEntry(e) ==
  /\ MarkFilled(e)
  /\ UNCHANGED <<pnl, available, traded, credited, credits>>

RecordFilledExit(x, booked, amount) ==
  /\ MarkFilled(x)
  /\ pnl' = [pnl EXCEPT ![x] = booked]
  /\ AddFund(ContractOf[EntryOf[x]], amount)
  /\ credits' = [credits EXCEPT ![x] = @ + 1]
  /\ UNCHANGED traded

\* record_filled with the values settle_filled computes for an exit.
SettleFilledExit(x, raw) ==
  LET committed == Fund[EntryOf[x]]
  IN  RecordFilledExit(x, BookedPnl(raw, committed), CreditToAdd(raw, committed))

LedgerNext ==
  \/ \E e \in Entries :
       \/ CreatePendingOpen(e)
       \/ ReleaseReserved(e)
       \/ RecordFilledEntry(e)
  \/ \E x \in Exits :
       \/ ReserveExit(x)
       \/ \E raw \in RawPnl : SettleFilledExit(x, raw)
  \/ \E o \in Orders :
       \/ RecordPlaced(o)
       \/ RecordFailed(o)
       \/ RecordCancelled(o)

LedgerSpec == LedgerInit /\ [][LedgerNext]_ledgerVars

-----------------------------------------------------------------------------
(* Properties: what the SQL guards promise to every set of callers.        *)

\* No interleaving of reservations, releases and credits overdraws a contract:
\* both fund columns stay non-negative (consume_fund and release_fund check
\* the column in the UPDATE itself, whatever the caller read before).
NoOverdraft ==
  \A c \in Contracts : available[c] >= 0 /\ traded[c] >= 0

\* idx_trade_orders_active_close: an entry never has two pending or open exits.
OneLiveExit ==
  \A x, y \in Exits :
    EntryOf[x] = EntryOf[y] /\ status[x] \in Live /\ status[y] \in Live => x = y

\* Settling twice (two reconcilers, a retry after a lost commit) credits once:
\* an exit row is credited at most once, and only if it was filled.
CreditedAtMostOnce ==
  \A x \in Exits :
    /\ credits[x] <= 1
    /\ status[x] = "filled" => credits[x] = 1
    /\ status[x] \in {"none", "pending", "open", "cancelled"} => credits[x] = 0

\* What the fill of an exit brings: the fund its entry committed, and the PnL
\* column of its row.
Proceeds == [x \in Exits |-> Fund[EntryOf[x]] + pnl[x]]

\* The exits of contract c that credited it.
CreditedExits(c) == {x \in Exits : ContractOf[EntryOf[x]] = c /\ credits[x] > 0}

\* Money is only moved between the columns, and only credits add to it.
FundsMoved ==
  \A c \in Contracts : available[c] + traded[c] = InitFund[c] + credited[c]

\* Every credit is explained by rows, also when a loss was capped or a fill was
\* settled by several callers.
CreditsExplained ==
  \A c \in Contracts : credited[c] = SumFunctionOnSet(Proceeds, CreditedExits(c))

\* No money is made or lost: the two columns of a contract always add up to what
\* it was given, and the committed fund and the persisted PnL of each exit that
\* was settled, and of no other.
FundsConserved == FundsMoved /\ CreditsExplained

\* A row never comes back to life: pending is entered once, open only from
\* pending, and a final row can at most be overwritten with failed.
NeverRevived ==
  [][\A o \in Orders :
       /\ status'[o] = "pending" => status[o] \in {"none", "pending"}
       /\ status'[o] = "open" => status[o] \in {"pending", "open"}
       /\ status[o] \in {"filled", "cancelled", "failed"} =>
            status'[o] \in {status[o], "failed"}]_ledgerVars
=============================================================================
