-------------------------- MODULE TradeEngineProofs --------------------------
(***************************************************************************)
(* What the SQL guards of the ledger promise, for any number of contracts, *)
(* rows and callers; and that the trade engine is one of those callers:    *)
(* every step of any number of engine processes, with every fault, is one  *)
(* ledger transaction or leaves the ledger alone.  So what holds for all   *)
(* callers holds of the engine.  The rest are the engine's own promises.   *)
(***************************************************************************)
EXTENDS TradeEngine, SumTheorems

\* The step of every caller, one disjunct per transaction.
LEMMA LedgerStep ==
  ASSUME LedgerNext
  PROVE  \/ \E e \in Entries : CreatePendingOpen(e)
         \/ \E e \in Entries : ReleaseReserved(e)
         \/ \E e \in Entries : RecordFilledEntry(e)
         \/ \E x \in Exits : ReserveExit(x)
         \/ \E x \in Exits, raw \in RawPnl : SettleFilledExit(x, raw)
         \/ \E o \in Orders : RecordPlaced(o)
         \/ \E o \in Orders : RecordFailed(o)
         \/ \E o \in Orders : RecordCancelled(o)
  BY DEF LedgerNext

-----------------------------------------------------------------------------
(* The amounts settle_filled computes.                                     *)

\* cap_loss keeps the loss within the committed fund, so the credit that goes
\* with a booked PnL is committed + pnl exactly and the floor at zero is idle.
LEMMA CreditIsCommittedPlusPnl ==
  ASSUME NEW raw \in Int, NEW committed \in Nat
  PROVE  /\ BookedPnl(raw, committed) \in Int
         /\ BookedPnl(raw, committed) >= -committed
         /\ CreditToAdd(raw, committed) = committed + BookedPnl(raw, committed)
         /\ CreditToAdd(raw, committed) \in Nat
  BY DEF BookedPnl, CreditToAdd, CapLoss, CloseCredit, MaxOf

\* So the amounts of any settlement have the types of the columns.
LEMMA SettledAmounts ==
  ASSUME NEW x \in Exits, NEW raw \in RawPnl
  PROVE  /\ BookedPnl(raw, Fund[EntryOf[x]]) \in Int
         /\ CreditToAdd(raw, Fund[EntryOf[x]]) \in Nat
  BY LedgerAssumption, CreditIsCommittedPlusPnl

-----------------------------------------------------------------------------
\* The variables of the ledger keep their types whatever the callers do.
THEOREM LedgerTypeCorrect == LedgerSpec => []TypeOK
<1>1. LedgerInit => TypeOK
  BY LedgerAssumption DEF LedgerInit, TypeOK, Statuses
<1>2. ASSUME TypeOK, LedgerNext
      PROVE  TypeOK'
  <2> USE <1>2, LedgerAssumption DEF TypeOK, Orders, Statuses, SetStatus
  <2>1. ASSUME NEW e \in Entries, CreatePendingOpen(e)
        PROVE  TypeOK'
    BY <2>1 DEF CreatePendingOpen, ConsumeFund
  <2>2. ASSUME NEW e \in Entries, ReleaseReserved(e)
        PROVE  TypeOK'
    BY <2>2 DEF ReleaseReserved, ReleaseFund
  <2>3. ASSUME NEW e \in Entries, RecordFilledEntry(e)
        PROVE  TypeOK'
    BY <2>3 DEF RecordFilledEntry, MarkFilled
  <2>4. ASSUME NEW x \in Exits, ReserveExit(x)
        PROVE  TypeOK'
    BY <2>4 DEF ReserveExit
  <2>5. ASSUME NEW x \in Exits, NEW raw \in RawPnl, SettleFilledExit(x, raw)
        PROVE  TypeOK'
    BY <2>5, SettledAmounts DEF SettleFilledExit, RecordFilledExit, MarkFilled, AddFund
  <2>6. ASSUME NEW o \in Orders, RecordPlaced(o)
        PROVE  TypeOK'
    BY <2>6 DEF RecordPlaced, MarkPlaced
  <2>7. ASSUME NEW o \in Orders, RecordFailed(o)
        PROVE  TypeOK'
    BY <2>7 DEF RecordFailed, MarkFailed
  <2>8. ASSUME NEW o \in Orders, RecordCancelled(o)
        PROVE  TypeOK'
    BY <2>8 DEF RecordCancelled, MarkCancelled, ReleaseFund
  <2>9. QED
    BY <2>1, <2>2, <2>3, <2>4, <2>5, <2>6, <2>7, <2>8, LedgerStep
<1>3. TypeOK /\ UNCHANGED ledgerVars => TypeOK'
  BY DEF TypeOK, ledgerVars
<1>4. QED
  BY <1>1, <1>2, <1>3, PTL DEF LedgerSpec

-----------------------------------------------------------------------------
\* consume_fund and release_fund test the column they decrease in the UPDATE
\* itself, and a credit is never negative: no caller can overdraw a contract.
THEOREM LedgerNoOverdraft == LedgerSpec => []NoOverdraft
<1>1. LedgerInit => NoOverdraft
  BY LedgerAssumption DEF LedgerInit, NoOverdraft
<1>2. ASSUME TypeOK, NoOverdraft, LedgerNext
      PROVE  NoOverdraft'
  <2> USE <1>2, LedgerAssumption DEF TypeOK, NoOverdraft
  <2>1. ASSUME NEW e \in Entries, CreatePendingOpen(e)
        PROVE  NoOverdraft'
    BY <2>1 DEF CreatePendingOpen, ConsumeFund, CanConsume
  <2>2. ASSUME NEW e \in Entries, ReleaseReserved(e)
        PROVE  NoOverdraft'
    BY <2>2 DEF ReleaseReserved, ReleaseFund, CanRelease
  <2>3. ASSUME NEW e \in Entries, RecordFilledEntry(e)
        PROVE  NoOverdraft'
    BY <2>3 DEF RecordFilledEntry
  <2>4. ASSUME NEW x \in Exits, ReserveExit(x)
        PROVE  NoOverdraft'
    BY <2>4 DEF ReserveExit
  <2>5. ASSUME NEW x \in Exits, NEW raw \in RawPnl, SettleFilledExit(x, raw)
        PROVE  NoOverdraft'
    BY <2>5, SettledAmounts DEF SettleFilledExit, RecordFilledExit, AddFund
  <2>6. ASSUME NEW o \in Orders, RecordPlaced(o)
        PROVE  NoOverdraft'
    BY <2>6 DEF RecordPlaced
  <2>7. ASSUME NEW o \in Orders, RecordFailed(o)
        PROVE  NoOverdraft'
    BY <2>7 DEF RecordFailed
  <2>8. ASSUME NEW o \in Orders, RecordCancelled(o)
        PROVE  NoOverdraft'
    BY <2>8 DEF RecordCancelled, ReleaseFund, CanRelease
  <2>9. QED
    BY <2>1, <2>2, <2>3, <2>4, <2>5, <2>6, <2>7, <2>8, LedgerStep
<1>3. NoOverdraft /\ UNCHANGED ledgerVars => NoOverdraft'
  BY DEF NoOverdraft, ledgerVars
<1>4. QED
  BY <1>1, <1>2, <1>3, LedgerTypeCorrect, PTL DEF LedgerSpec

\* Every transaction moves money between the two columns or adds a credit
\* that the history records.
LEMMA LedgerFundsMoved == LedgerSpec => []FundsMoved
<1>1. LedgerInit => FundsMoved
  BY LedgerAssumption DEF LedgerInit, FundsMoved
<1>2. ASSUME TypeOK, FundsMoved, LedgerNext
      PROVE  FundsMoved'
  <2> USE <1>2, LedgerAssumption DEF TypeOK, FundsMoved
  <2>1. ASSUME NEW e \in Entries, CreatePendingOpen(e)
        PROVE  FundsMoved'
    BY <2>1 DEF CreatePendingOpen, ConsumeFund
  <2>2. ASSUME NEW e \in Entries, ReleaseReserved(e)
        PROVE  FundsMoved'
    BY <2>2 DEF ReleaseReserved, ReleaseFund
  <2>3. ASSUME NEW e \in Entries, RecordFilledEntry(e)
        PROVE  FundsMoved'
    BY <2>3 DEF RecordFilledEntry
  <2>4. ASSUME NEW x \in Exits, ReserveExit(x)
        PROVE  FundsMoved'
    BY <2>4 DEF ReserveExit
  <2>5. ASSUME NEW x \in Exits, NEW raw \in RawPnl, SettleFilledExit(x, raw)
        PROVE  FundsMoved'
    <3> DEFINE c == ContractOf[EntryOf[x]]
               amount == CreditToAdd(raw, Fund[EntryOf[x]])
    <3>1. c \in Contracts /\ amount \in Int
      BY SettledAmounts
    <3>2. /\ available' = [available EXCEPT ![c] = @ + amount]
          /\ credited' = [credited EXCEPT ![c] = @ + amount]
          /\ traded' = traded
      BY <2>5 DEF SettleFilledExit, RecordFilledExit, AddFund
    <3> HIDE DEF c, amount
    <3>3. ASSUME NEW d \in Contracts
          PROVE  available'[d] + traded'[d] = InitFund[d] + credited'[d]
      <4>1. available[d] + traded[d] = InitFund[d] + credited[d]
        OBVIOUS
      <4>2. /\ available[d] \in Int
            /\ traded[d] \in Int
            /\ credited[d] \in Int
            /\ InitFund[d] \in Int
        OBVIOUS
      <4>3. CASE d = c
        <5>1. available'[d] = available[d] + amount /\ credited'[d] = credited[d] + amount
          BY <3>1, <3>2, <4>3
        <5>2. QED
          BY <3>1, <3>2, <4>1, <4>2, <5>1
      <4>4. CASE d # c
        BY <3>2, <4>4
      <4>5. QED
        BY <4>3, <4>4
    <3>4. QED
      BY <3>3
  <2>6. ASSUME NEW o \in Orders, RecordPlaced(o)
        PROVE  FundsMoved'
    BY <2>6 DEF RecordPlaced
  <2>7. ASSUME NEW o \in Orders, RecordFailed(o)
        PROVE  FundsMoved'
    BY <2>7 DEF RecordFailed
  <2>8. ASSUME NEW o \in Orders, RecordCancelled(o)
        PROVE  FundsMoved'
    BY <2>8 DEF RecordCancelled, ReleaseFund
  <2>9. QED
    BY <2>1, <2>2, <2>3, <2>4, <2>5, <2>6, <2>7, <2>8, LedgerStep
<1>3. FundsMoved /\ UNCHANGED ledgerVars => FundsMoved'
  BY DEF FundsMoved, ledgerVars
<1>4. QED
  BY <1>1, <1>2, <1>3, LedgerTypeCorrect, PTL DEF LedgerSpec

-----------------------------------------------------------------------------
\* The partial unique index: inserting is the only way into "pending", and the
\* insert finds no live exit of the same entry.
THEOREM LedgerOneLiveExit == LedgerSpec => []OneLiveExit
<1>1. LedgerInit => OneLiveExit
  BY DEF LedgerInit, OneLiveExit, Live, Orders
<1>2. ASSUME TypeOK, OneLiveExit, LedgerNext
      PROVE  OneLiveExit'
  <2> USE <1>2, LedgerAssumption DEF TypeOK, OneLiveExit, Orders, Live, SetStatus
  <2>1. ASSUME NEW e \in Entries, CreatePendingOpen(e)
        PROVE  OneLiveExit'
    BY <2>1 DEF CreatePendingOpen
  <2>2. ASSUME NEW e \in Entries, ReleaseReserved(e)
        PROVE  OneLiveExit'
    BY <2>2 DEF ReleaseReserved
  <2>3. ASSUME NEW e \in Entries, RecordFilledEntry(e)
        PROVE  OneLiveExit'
    BY <2>3 DEF RecordFilledEntry, MarkFilled
  <2>4. ASSUME NEW x \in Exits, ReserveExit(x)
        PROVE  OneLiveExit'
    BY <2>4 DEF ReserveExit, HasLiveExit
  <2>5. ASSUME NEW x \in Exits, NEW raw \in RawPnl, SettleFilledExit(x, raw)
        PROVE  OneLiveExit'
    BY <2>5 DEF SettleFilledExit, RecordFilledExit, MarkFilled
  <2>6. ASSUME NEW o \in Orders, RecordPlaced(o)
        PROVE  OneLiveExit'
    BY <2>6 DEF RecordPlaced, MarkPlaced
  <2>7. ASSUME NEW o \in Orders, RecordFailed(o)
        PROVE  OneLiveExit'
    BY <2>7 DEF RecordFailed, MarkFailed
  <2>8. ASSUME NEW o \in Orders, RecordCancelled(o)
        PROVE  OneLiveExit'
    BY <2>8 DEF RecordCancelled, MarkCancelled
  <2>9. QED
    BY <2>1, <2>2, <2>3, <2>4, <2>5, <2>6, <2>7, <2>8, LedgerStep
<1>3. OneLiveExit /\ UNCHANGED ledgerVars => OneLiveExit'
  BY DEF OneLiveExit, ledgerVars
<1>4. QED
  BY <1>1, <1>2, <1>3, LedgerTypeCorrect, PTL DEF LedgerSpec

\* mark_filled finds the row open, and a row that left "open" never returns:
\* settling twice credits once.
THEOREM LedgerCreditedAtMostOnce == LedgerSpec => []CreditedAtMostOnce
<1>1. LedgerInit => CreditedAtMostOnce
  BY DEF LedgerInit, CreditedAtMostOnce, Orders
<1>2. ASSUME TypeOK, CreditedAtMostOnce, LedgerNext
      PROVE  CreditedAtMostOnce'
  <2> USE <1>2, LedgerAssumption DEF TypeOK, CreditedAtMostOnce, Orders, SetStatus
  <2>1. ASSUME NEW e \in Entries, CreatePendingOpen(e)
        PROVE  CreditedAtMostOnce'
    BY <2>1 DEF CreatePendingOpen
  <2>2. ASSUME NEW e \in Entries, ReleaseReserved(e)
        PROVE  CreditedAtMostOnce'
    BY <2>2 DEF ReleaseReserved
  <2>3. ASSUME NEW e \in Entries, RecordFilledEntry(e)
        PROVE  CreditedAtMostOnce'
    BY <2>3 DEF RecordFilledEntry, MarkFilled
  <2>4. ASSUME NEW x \in Exits, ReserveExit(x)
        PROVE  CreditedAtMostOnce'
    BY <2>4 DEF ReserveExit
  <2>5. ASSUME NEW x \in Exits, NEW raw \in RawPnl, SettleFilledExit(x, raw)
        PROVE  CreditedAtMostOnce'
    BY <2>5 DEF SettleFilledExit, RecordFilledExit, MarkFilled
  <2>6. ASSUME NEW o \in Orders, RecordPlaced(o)
        PROVE  CreditedAtMostOnce'
    BY <2>6 DEF RecordPlaced, MarkPlaced
  <2>7. ASSUME NEW o \in Orders, RecordFailed(o)
        PROVE  CreditedAtMostOnce'
    BY <2>7 DEF RecordFailed, MarkFailed
  <2>8. ASSUME NEW o \in Orders, RecordCancelled(o)
        PROVE  CreditedAtMostOnce'
    BY <2>8 DEF RecordCancelled, MarkCancelled
  <2>9. QED
    BY <2>1, <2>2, <2>3, <2>4, <2>5, <2>6, <2>7, <2>8, LedgerStep
<1>3. CreditedAtMostOnce /\ UNCHANGED ledgerVars => CreditedAtMostOnce'
  BY DEF CreditedAtMostOnce, ledgerVars
<1>4. QED
  BY <1>1, <1>2, <1>3, LedgerTypeCorrect, PTL DEF LedgerSpec

-----------------------------------------------------------------------------
\* No caller brings a final row back: the action property of every step.
THEOREM LedgerNeverRevived == LedgerSpec => NeverRevived
<1> DEFINE Kept ==
      \A o \in Orders :
        /\ status'[o] = "pending" => status[o] \in {"none", "pending"}
        /\ status'[o] = "open" => status[o] \in {"pending", "open"}
        /\ status[o] \in {"filled", "cancelled", "failed"} =>
             status'[o] \in {status[o], "failed"}
<1>1. ASSUME TypeOK, LedgerNext
      PROVE  Kept
  <2> USE <1>1 DEF TypeOK, Orders, SetStatus
  <2>1. ASSUME NEW e \in Entries, CreatePendingOpen(e)
        PROVE  Kept
    BY <2>1 DEF CreatePendingOpen
  <2>2. ASSUME NEW e \in Entries, ReleaseReserved(e)
        PROVE  Kept
    BY <2>2 DEF ReleaseReserved
  <2>3. ASSUME NEW e \in Entries, RecordFilledEntry(e)
        PROVE  Kept
    BY <2>3 DEF RecordFilledEntry, MarkFilled
  <2>4. ASSUME NEW x \in Exits, ReserveExit(x)
        PROVE  Kept
    BY <2>4 DEF ReserveExit
  <2>5. ASSUME NEW x \in Exits, NEW raw \in RawPnl, SettleFilledExit(x, raw)
        PROVE  Kept
    BY <2>5 DEF SettleFilledExit, RecordFilledExit, MarkFilled
  <2>6. ASSUME NEW o \in Orders, RecordPlaced(o)
        PROVE  Kept
    BY <2>6 DEF RecordPlaced, MarkPlaced
  <2>7. ASSUME NEW o \in Orders, RecordFailed(o)
        PROVE  Kept
    BY <2>7 DEF RecordFailed, MarkFailed
  <2>8. ASSUME NEW o \in Orders, RecordCancelled(o)
        PROVE  Kept
    BY <2>8 DEF RecordCancelled, MarkCancelled
  <2>9. QED
    BY <2>1, <2>2, <2>3, <2>4, <2>5, <2>6, <2>7, <2>8, LedgerStep
<1>2. TypeOK /\ [LedgerNext]_ledgerVars => [Kept]_ledgerVars
  BY <1>1
<1>3. QED
  BY <1>2, LedgerTypeCorrect, PTL DEF LedgerSpec, NeverRevived

-----------------------------------------------------------------------------
(* Every credit is a row's.                                                *)

\* An operation that credits nothing leaves the explanation as it is.
LEMMA NoCreditKeepsExplained ==
  ASSUME CreditsExplained, UNCHANGED <<pnl, credited, credits>>
  PROVE  CreditsExplained'
  BY DEF CreditsExplained, CreditedExits, Proceeds

\* record_filled for an exit that was not credited before: its own row explains
\* the credit, and no other row changes.
LEMMA SettleKeepsExplained ==
  ASSUME TypeOK, CreditsExplained, CreditedAtMostOnce, NEW x \in Exits, NEW raw \in RawPnl,
         SettleFilledExit(x, raw)
  PROVE  CreditsExplained'
<1> DEFINE committed == Fund[EntryOf[x]]
           d == ContractOf[EntryOf[x]]
           booked == BookedPnl(raw, committed)
<1>1. /\ committed \in Nat /\ d \in Contracts /\ booked \in Int
      /\ CreditToAdd(raw, committed) = committed + booked
  BY LedgerAssumption, CreditIsCommittedPlusPnl
<1>2. credits[x] = 0
  BY DEF SettleFilledExit, RecordFilledExit, MarkFilled, CreditedAtMostOnce
<1>3. /\ pnl' = [pnl EXCEPT ![x] = booked]
      /\ credited' = [credited EXCEPT ![d] = @ + CreditToAdd(raw, committed)]
      /\ credits' = [credits EXCEPT ![x] = @ + 1]
  BY DEF SettleFilledExit, RecordFilledExit, AddFund
<1> HIDE DEF booked, d
<1>4. ASSUME NEW c \in Contracts
      PROVE  credited'[c] = SumFunctionOnSet(Proceeds', CreditedExits(c)')
  <2> DEFINE S == CreditedExits(c)
  <2>1. IsFiniteSet(S) /\ S \subseteq Exits /\ x \notin S
    BY <1>2, LedgerAssumption, FS_Subset DEF CreditedExits
  <2>2. \A y \in Exits : Proceeds[y] \in Int /\ Proceeds'[y] \in Int
    <3>1. ASSUME NEW y \in Exits
          PROVE  Fund[EntryOf[y]] \in Int /\ pnl[y] \in Int /\ pnl'[y] \in Int
      <4>1. EntryOf[y] \in Entries /\ Fund[EntryOf[y]] \in Nat
        BY LedgerAssumption
      <4>2. pnl'[y] = IF y = x THEN booked ELSE pnl[y]
        BY <1>3 DEF TypeOK
      <4>3. QED
        BY <1>1, <4>1, <4>2 DEF TypeOK
    <3>2. QED
      BY <3>1 DEF Proceeds
  <2>3. \A y \in S : Proceeds'[y] = Proceeds[y]
    BY <2>1, <1>3, LedgerAssumption DEF Proceeds, TypeOK
  <2>4. Proceeds'[x] = committed + booked
    BY <1>3, LedgerAssumption DEF Proceeds, TypeOK
  <2>5. CreditedExits(c)' = IF c = d THEN S \cup {x} ELSE S
    BY <1>2, <1>3, LedgerAssumption DEF CreditedExits, TypeOK, d
  <2>6. credited'[c] = IF c = d THEN credited[c] + (committed + booked) ELSE credited[c]
    BY <1>1, <1>3 DEF TypeOK
  <2>7. credited[c] = SumFunctionOnSet(Proceeds, S)
    BY DEF CreditsExplained
  <2> HIDE DEF S
  <2>8. SumFunctionOnSet(Proceeds', S) = SumFunctionOnSet(Proceeds, S)
    BY <2>1, <2>3, SumOfEqual
  <2>9. SumFunctionOnSet(Proceeds', S \cup {x}) = SumFunctionOnSet(Proceeds', S) + Proceeds'[x]
    BY <2>1, <2>2, SumWith
  <2>10. QED
    BY <2>4, <2>5, <2>6, <2>7, <2>8, <2>9
<1>5. QED
  BY <1>4 DEF CreditsExplained

\* What a contract was credited is the committed fund and the persisted PnL of
\* the exits that credited it, for every history of ledger operations.
LEMMA LedgerCreditsExplained == LedgerSpec => []CreditsExplained
<1>1. LedgerInit => CreditsExplained
  <2>1. ASSUME LedgerInit, NEW c \in Contracts
        PROVE  credited[c] = 0 /\ CreditedExits(c) = {}
    BY <2>1 DEF LedgerInit, CreditedExits
  <2>2. QED
    BY <2>1, SumEmpty DEF CreditsExplained
<1>2. ASSUME TypeOK, CreditedAtMostOnce, CreditsExplained, LedgerNext
      PROVE  CreditsExplained'
  <2>1. ASSUME NEW e \in Entries, CreatePendingOpen(e) \/ ReleaseReserved(e) \/ RecordFilledEntry(e)
        PROVE  CreditsExplained'
    BY <1>2, <2>1, NoCreditKeepsExplained DEF CreatePendingOpen, ReleaseReserved, RecordFilledEntry
  <2>2. ASSUME NEW x \in Exits, ReserveExit(x)
        PROVE  CreditsExplained'
    BY <1>2, <2>2, NoCreditKeepsExplained DEF ReserveExit
  <2>3. ASSUME NEW o \in Orders, RecordPlaced(o) \/ RecordFailed(o) \/ RecordCancelled(o)
        PROVE  CreditsExplained'
    BY <1>2, <2>3, NoCreditKeepsExplained DEF RecordPlaced, RecordFailed, RecordCancelled
  <2>4. QED
    BY <1>2, <2>1, <2>2, <2>3, SettleKeepsExplained, LedgerStep
<1>3. CreditsExplained /\ UNCHANGED ledgerVars => CreditsExplained'
  BY NoCreditKeepsExplained DEF ledgerVars
<1>4. QED
  BY <1>1, <1>2, <1>3, LedgerTypeCorrect, LedgerCreditedAtMostOnce, PTL DEF LedgerSpec

\* The two fund columns add up to the initial fund and the proceeds of the
\* settled exits, for every history of ledger operations.
THEOREM LedgerFundsConserved == LedgerSpec => []FundsConserved
  BY LedgerFundsMoved, LedgerCreditsExplained, PTL DEF FundsConserved

-----------------------------------------------------------------------------
(* The engine is a caller.                                                 *)

\* The order a reconciler is writing is an order, and only entries are released.
RecWrites ==
  /\ rec \in [Engines -> [pass : {"idle", "pending", "settle"}, todo : SUBSET Orders,
                          act : RecActs, cur : Orders \cup {None}]]
  /\ \A g \in Engines :
       /\ rec[g].act # "none" => rec[g].cur \in Orders
       /\ rec[g].act = "release" => rec[g].cur \in Entries

-----------------------------------------------------------------------------
(* One lemma per kind of ledger access.                                    *)

\* record_placed, refused or failing, is a ledger step or none.
LEMMA TryPlacedIsLedger ==
  ASSUME NEW o \in Orders, TryPlaced(o)
  PROVE  [LedgerNext]_ledgerVars
  BY DEF TryPlaced, LedgerNext, Refused, DbError

\* release_reserved likewise.
LEMMA TryReleaseIsLedger ==
  ASSUME NEW e \in Entries, TryRelease(e)
  PROVE  [LedgerNext]_ledgerVars
  BY DEF TryRelease, LedgerNext, Refused, DbError

\* The trader touches the ledger by create_pending_open and release only.
LEMMA TraderIsLedger ==
  ASSUME NEW e \in Entries, TraderStep(e)
  PROVE  [LedgerNext]_ledgerVars
<1>1. CASE ReserveEntry(e)
  BY <1>1 DEF ReserveEntry, LedgerNext, Refused, DbError
<1>2. CASE ReleaseRejected(e)
  BY <1>2, TryReleaseIsLedger DEF ReleaseRejected
<1>3. QED
  BY <1>1, <1>2 DEF TraderStep

\* Placing an order touches the ledger by recording its outcome only.
LEMMA PlacementIsLedger ==
  ASSUME NEW o \in Orders, PlacementStep(o)
  PROVE  [LedgerNext]_ledgerVars
<1>1. CASE PlaceOrder(o)
  BY <1>1 DEF PlaceOrder
<1>2. CASE RecordAccepted(o)
  BY <1>2, TryPlacedIsLedger DEF RecordAccepted
<1>3. CASE FailRejected(o)
  BY <1>3 DEF FailRejected, LedgerNext, DbError
<1>4. QED
  BY <1>1, <1>2, <1>3 DEF PlacementStep

\* The position-exit sweep touches the ledger by reserve_exit only.
LEMMA SweepIsLedger ==
  ASSUME NEW g \in Engines, SweepStep(g)
  PROVE  [LedgerNext]_ledgerVars
<1>1. CASE SweepStart(g)
  BY <1>1 DEF SweepStart
<1>2. ASSUME NEW e \in Entries, SweepSkip(g, e)
      PROVE  [LedgerNext]_ledgerVars
  BY <1>2 DEF SweepSkip
<1>3. ASSUME NEW x \in Exits, SweepExit(g, x)
      PROVE  [LedgerNext]_ledgerVars
  BY <1>3 DEF SweepExit, LedgerNext
<1>4. QED
  BY <1>1, <1>2, <1>3 DEF SweepStep

\* Each write of the reconciler is one ledger transaction, because what it
\* writes is an order, and what it releases an entry.
LEMMA ReconcilerIsLedger ==
  ASSUME RecWrites, NEW g \in Engines, ReconcilerStep(g)
  PROVE  [LedgerNext]_ledgerVars
<1>1. CASE \/ PendingPass(g) \/ OpenPass(g) \/ PassDone(g)
           \/ \E o \in Orders : PendingLookup(g, o) \/ OpenLookup(g, o)
  BY <1>1 DEF PendingPass, OpenPass, PassDone, PendingLookup, OpenLookup
<1>2. CASE PlaceFound(g)
  BY <1>2, TryPlacedIsLedger DEF PlaceFound, RecWrites
<1>3. CASE FailPending(g)
  <2>1. rec[g].cur \in Orders
    BY <1>3 DEF FailPending, RecWrites
  <2>2. QED
    BY <1>3, <2>1 DEF FailPending, LedgerNext, DbError
<1>4. CASE ReleasePending(g)
  BY <1>4, TryReleaseIsLedger DEF ReleasePending, RecWrites
<1>5. CASE SettleFilled(g)
  BY <1>5 DEF SettleFilled, LedgerNext, Refused, DbError
<1>6. CASE SettleCancelled(g)
  <2>1. rec[g].cur \in Orders
    BY <1>6 DEF SettleCancelled, RecWrites
  <2>2. QED
    BY <1>6, <2>1 DEF SettleCancelled, LedgerNext, Refused, DbError
<1>7. QED
  BY <1>1, <1>2, <1>3, <1>4, <1>5, <1>6 DEF ReconcilerStep

\* No step of the engine changes the ledger but by one of its transactions.
LEMMA StepIsLedger ==
  ASSUME RecWrites, [Next]_vars
  PROVE  [LedgerNext]_ledgerVars
<1>1. ASSUME NEW g \in Engines, NEW e \in Entries, VerifyContract(g, e)
      PROVE  [LedgerNext]_ledgerVars
  BY <1>1 DEF VerifyContract
<1>2. ASSUME NEW o \in Orders, ExchangeFinishes(o) \/ Age(o)
      PROVE  [LedgerNext]_ledgerVars
  BY <1>2 DEF ExchangeFinishes, Age
<1>3. ASSUME NEW g \in Engines, Crash(g)
      PROVE  [LedgerNext]_ledgerVars
  BY <1>3 DEF Crash
<1>4. ASSUME NEW e \in Entries, HandlerDropped(e)
      PROVE  [LedgerNext]_ledgerVars
  BY <1>4 DEF HandlerDropped
<1>5. CASE UNCHANGED vars
  BY <1>5 DEF vars
<1>6. QED
  BY <1>1, <1>2, <1>3, <1>4, <1>5, TraderIsLedger, PlacementIsLedger, SweepIsLedger,
     ReconcilerIsLedger DEF Next

-----------------------------------------------------------------------------
(* RecWrites is an invariant: only ReconcilerStep and Crash write rec.     *)

\* A write to one engine's record preserves RecWrites.
LEMMA ReconcileKeepsRecWrites ==
  ASSUME RecWrites, NEW g \in Engines,
         NEW r \in [pass : {"idle", "pending", "settle"}, todo : SUBSET Orders,
                    act : RecActs, cur : Orders \cup {None}],
         r.act # "none" => r.cur \in Orders,
         r.act = "release" => r.cur \in Entries,
         Reconcile(g, r)
  PROVE  RecWrites'
  BY DEF RecWrites, Reconcile

\* Every reconciler step, lookups and polls that fail included, keeps RecWrites.
LEMMA ReconcilerKeepsRecWrites ==
  ASSUME RecWrites, NEW g \in Engines, ReconcilerStep(g)
  PROVE  RecWrites'
<1> DEFINE Recs == [pass : {"idle", "pending", "settle"}, todo : SUBSET Orders,
                    act : RecActs, cur : Orders \cup {None}]
<1>0. rec[g] \in Recs
  BY DEF RecWrites
<1> HIDE DEF Recs
<1>1. CASE PendingPass(g)
  <2> DEFINE r(rows) == [RecIdle EXCEPT !.pass = "pending", !.todo = rows]
  <2>1. PICK rows \in {RowsWith("pending"), {}} : Reconcile(g, r(rows))
    BY <1>1 DEF PendingPass
  <2>2. r(rows) \in Recs /\ r(rows).act = "none"
    BY <2>1 DEF RecIdle, RowsWith, Recs, RecActs
  <2> HIDE DEF r
  <2>3. QED
    BY <2>1, <2>2, ReconcileKeepsRecWrites DEF Recs
<1>2. CASE OpenPass(g)
  <2> DEFINE r(rows) == [rec[g] EXCEPT !.pass = "settle", !.todo = rows]
  <2>1. PICK rows \in {RowsWith("open"), {}} : Reconcile(g, r(rows))
    BY <1>2 DEF OpenPass
  <2>2. r(rows) \in Recs /\ r(rows).act = "none"
    BY <1>0, <1>2, <2>1 DEF OpenPass, Resting, RowsWith, Recs
  <2> HIDE DEF r
  <2>3. QED
    BY <2>1, <2>2, ReconcileKeepsRecWrites DEF Recs
<1>3. CASE PassDone(g)
  <2>1. RecIdle \in Recs /\ RecIdle.act = "none"
    BY DEF RecIdle, Recs, RecActs
  <2>2. Reconcile(g, RecIdle)
    BY <1>3 DEF PassDone
  <2>3. QED
    BY <2>1, <2>2, ReconcileKeepsRecWrites DEF Recs
<1>4. ASSUME NEW o \in Orders, PendingLookup(g, o) \/ OpenLookup(g, o)
      PROVE  RecWrites'
  <2> DEFINE r(act) == [rec[g] EXCEPT !.todo = @ \ {o}, !.act = act,
                                      !.cur = IF act = "none" THEN None ELSE o]
             left == [rec[g] EXCEPT !.todo = @ \ {o}]
  <2>1. \A reply : PendingVerdict(o, reply) \in {"none", "place", "fail"}
    BY DEF PendingVerdict
  <2>2. OrderOutcome(o) \in {"none", "fill", "cancel"}
    BY DEF OrderOutcome
  <2>3. \/ \E act \in {"none", "place", "fail", "fill", "cancel"} : Reconcile(g, r(act))
        \/ Reconcile(g, left)
    <3>1. CASE PendingLookup(g, o)
      <4>1. PICK reply \in LookupReplies(o) : Reconcile(g, r(PendingVerdict(o, reply)))
        BY <3>1 DEF PendingLookup
      <4>2. QED
        BY <4>1, <2>1
    <3>2. CASE OpenLookup(g, o)
      <4>1. Reconcile(g, r(OrderOutcome(o))) \/ Reconcile(g, left)
        BY <3>2 DEF OpenLookup
      <4>2. QED
        BY <4>1, <2>2
    <3>3. QED
      BY <1>4, <3>1, <3>2
  <2>4. /\ left \in Recs
        /\ left.act = "none"
    BY <1>0, <1>4 DEF PendingLookup, OpenLookup, Resting, Recs
  <2>5. \A act \in {"none", "place", "fail", "fill", "cancel"} :
          /\ r(act) \in Recs
          /\ r(act).act # "none" => r(act).cur \in Orders
          /\ r(act).act # "release"
    BY <1>0 DEF Recs, RecActs
  <2> HIDE DEF r, left
  <2>6. QED
    BY <2>3, <2>4, <2>5, ReconcileKeepsRecWrites DEF Recs
<1>5. ASSUME Written(g)
      PROVE  RecWrites'
  <2> DEFINE r == [rec[g] EXCEPT !.act = "none", !.cur = None]
  <2>1. r \in Recs /\ r.act = "none"
    BY <1>0 DEF Recs, RecActs
  <2>2. Reconcile(g, r)
    BY <1>5 DEF Written
  <2> HIDE DEF r
  <2>3. QED
    BY <2>1, <2>2, ReconcileKeepsRecWrites DEF Recs
<1>6. CASE FailPending(g) /\ ~Written(g)
  <2> DEFINE r == [rec[g] EXCEPT !.act = "release"]
  <2>1. rec[g].cur \in Entries /\ Reconcile(g, r)
    BY <1>6 DEF FailPending
  <2>2. r \in Recs /\ r.cur \in Entries
    BY <1>0, <2>1 DEF Recs, RecActs, Orders
  <2> HIDE DEF r
  <2>3. QED
    BY <2>1, <2>2, ReconcileKeepsRecWrites DEF Recs, Orders
<1>7. CASE PlaceFound(g) \/ ReleasePending(g) \/ SettleFilled(g) \/ SettleCancelled(g)
  BY <1>5, <1>7 DEF PlaceFound, ReleasePending, SettleFilled, SettleCancelled
<1>8. QED
  BY <1>1, <1>2, <1>3, <1>4, <1>5, <1>6, <1>7 DEF ReconcilerStep

\* RecWrites is inductive.
LEMMA StepKeepsRecWrites ==
  ASSUME RecWrites, [Next]_vars
  PROVE  RecWrites'
<1>1. ASSUME UNCHANGED rec
      PROVE  RecWrites'
  BY <1>1 DEF RecWrites
<1>2. ASSUME NEW g \in Engines, NEW e \in Entries, VerifyContract(g, e)
      PROVE  RecWrites'
  BY <1>1, <1>2 DEF VerifyContract
<1>3. ASSUME NEW e \in Entries, TraderStep(e) \/ HandlerDropped(e)
      PROVE  RecWrites'
  BY <1>1, <1>3 DEF TraderStep, ReserveEntry, ReleaseRejected, HandlerDropped
<1>4. ASSUME NEW o \in Orders, PlacementStep(o) \/ ExchangeFinishes(o) \/ Age(o)
      PROVE  RecWrites'
  BY <1>1, <1>4 DEF PlacementStep, PlaceOrder, RecordAccepted, FailRejected,
                    ExchangeFinishes, Age, taskVars
<1>5. ASSUME NEW g \in Engines, SweepStep(g)
      PROVE  RecWrites'
  BY <1>1, <1>5 DEF SweepStep, SweepStart, SweepSkip, SweepExit
<1>6. ASSUME NEW g \in Engines, Crash(g)
      PROVE  RecWrites'
  <2>1. Reconcile(g, RecIdle)
    BY <1>6 DEF Crash, Reconcile
  <2>2. QED
    BY <2>1, ReconcileKeepsRecWrites DEF RecIdle, RecActs
<1>7. CASE UNCHANGED vars
  BY <1>1, <1>7 DEF vars, taskVars
<1>8. QED
  BY <1>2, <1>3, <1>4, <1>5, <1>6, <1>7, ReconcilerKeepsRecWrites DEF Next

\* At every moment a reconciler that is about to write has an order to write,
\* and one that is about to release (pending.rs fail_pending) has an entry.
THEOREM EngineRecWrites == Spec => []RecWrites
<1>1. Init => RecWrites
  BY DEF Init, RecWrites, RecIdle, RecActs
<1>2. RecWrites /\ [Next]_vars => RecWrites'
  BY StepKeepsRecWrites
<1>3. QED
  BY <1>1, <1>2, PTL DEF Spec

-----------------------------------------------------------------------------

\* The engine, with its crashes and failed writes, implements the ledger's
\* specification: the tasks change its rows by the calls of ledger/orders.rs.
THEOREM EngineImplementsLedger == Spec => LedgerSpec
<1>1. Init => LedgerInit
  BY DEF Init
<1>2. RecWrites /\ [Next]_vars => [LedgerNext]_ledgerVars
  BY StepIsLedger
<1>3. QED
  BY <1>1, <1>2, EngineRecWrites, PTL DEF Spec, LedgerSpec

(***************************************************************************)
(* Hence, for every number of engines, entries, exits and faults:          *)
(***************************************************************************)

\* No interleaving of traders, sweeps and reconcilers overdraws a contract.
THEOREM EngineNoOverdraft == Spec => []NoOverdraft
  BY EngineImplementsLedger, LedgerNoOverdraft, PTL

\* No interleaving, of any number of engines with any faults, creates or loses
\* money: the columns of a contract are explained by the exits that were settled.
THEOREM EngineFundsConserved == Spec => []FundsConserved
  BY EngineImplementsLedger, LedgerFundsConserved, PTL

\* No interleaving gives an entry two pending or open exits.
THEOREM EngineOneLiveExit == Spec => []OneLiveExit
  BY EngineImplementsLedger, LedgerOneLiveExit, PTL

\* Reconcilers settling the same fill, in one engine or several, credit it once.
THEOREM EngineCreditedAtMostOnce == Spec => []CreditedAtMostOnce
  BY EngineImplementsLedger, LedgerCreditedAtMostOnce, PTL

\* No late write of a trader, sweep or reconciler revives a final row.
THEOREM EngineNeverRevived == Spec => NeverRevived
  BY EngineImplementsLedger, LedgerNeverRevived, PTL

-----------------------------------------------------------------------------
(* The rows and the exchange.  OrderOK relates where the task of an order   *)
(* stands, its row and the exchange; WriteOK says what a reconciler knows   *)
(* of the order it is about to write, however old its snapshot is.          *)

OrderTypes ==
  /\ pc \in [Orders -> PCs]
  /\ owner \in [Orders -> Engines \cup {None}]
  /\ exch \in [Orders -> ExchangeStates]
  /\ age \in [Orders -> 0..2]
  /\ \A o \in Orders : age[o] <= MaxAge
  /\ sweep \in [Engines -> SUBSET Entries]

OrderOK(o) ==
  /\ pc[o] \in {"none", "verified"} => status[o] = "none"
  /\ status[o] = "none" => pc[o] \in {"none", "verified", "done"} /\ exch[o] = "absent"
  /\ pc[o] \in {"placing", "rejected", "released"} =>
       status[o] = "pending" /\ exch[o] = "absent"
  /\ age[o] > 0 => pc[o] = "done" /\ status[o] # "none"
  /\ status[o] = "filled" => exch[o] = "filled"
  /\ status[o] = "cancelled" => exch[o] = "cancelled"
  /\ status[o] = "failed" => pc[o] = "done" /\ (exch[o] = "absent" \/ age[o] = 2)

WriteOK(g) ==
  LET o == rec[g].cur IN
  /\ rec[g].act = "place" => exch[o] # "absent"
  /\ rec[g].act = "fail" =>
       pc[o] = "done" /\ status[o] # "none" /\ (exch[o] = "absent" \/ age[o] = 2)
  /\ rec[g].act = "fill" => exch[o] = "filled"
  /\ rec[g].act = "cancel" => exch[o] = "cancelled"

RowInv ==
  /\ OrderTypes
  /\ \A o \in Orders : OrderOK(o)
  /\ \A g \in Engines : WriteOK(g)

\* The types of the tasks' variables: a step changes them within their types.
LEMMA StepKeepsOrderTypes ==
  ASSUME OrderTypes, [Next]_vars
  PROVE  OrderTypes'
<1> USE EngineAssumption DEF OrderTypes, PCs, ExchangeStates, Goto, taskVars, Orders
<1>1. ASSUME NEW g \in Engines, NEW e \in Entries, VerifyContract(g, e)
      PROVE  OrderTypes'
  BY <1>1 DEF VerifyContract
<1>2. ASSUME NEW e \in Entries, TraderStep(e) \/ HandlerDropped(e)
      PROVE  OrderTypes'
  BY <1>2 DEF TraderStep, ReserveEntry, ReleaseRejected, HandlerDropped
<1>3. ASSUME NEW o \in Orders, PlacementStep(o)
      PROVE  OrderTypes'
  BY <1>3 DEF PlacementStep, PlaceOrder, RecordAccepted, FailRejected
<1>4. ASSUME NEW o \in Orders, ExchangeFinishes(o) \/ Age(o)
      PROVE  OrderTypes'
  BY <1>4 DEF ExchangeFinishes, Age
<1>5. ASSUME NEW g \in Engines, SweepStep(g)
      PROVE  OrderTypes'
  BY <1>5 DEF SweepStep, SweepStart, SweepSkip, SweepExit, HeldEntries
<1>6. ASSUME NEW g \in Engines, ReconcilerStep(g)
      PROVE  UNCHANGED <<pc, owner, sweep, exch, age>>
  BY <1>6 DEF ReconcilerStep, PendingPass, OpenPass, PassDone, PendingLookup, OpenLookup,
              PlaceFound, FailPending, ReleasePending, SettleFilled, SettleCancelled
<1>7. ASSUME NEW g \in Engines, Crash(g)
      PROVE  OrderTypes'
  BY <1>7 DEF Crash
<1>8. CASE UNCHANGED vars
  BY <1>8 DEF vars
<1>9. QED
  BY <1>1, <1>2, <1>3, <1>4, <1>5, <1>6, <1>7, <1>8 DEF Next

\* A step that concerns one order, and no order a reconciler is about to write
\* otherwise than WriteOK allows.
LEMMA OneOrderKeepsRowInv ==
  ASSUME RowInv, OrderTypes', NEW o \in Orders, UNCHANGED rec, RecWrites,
         \A p \in Orders \ {o} :
           pc'[p] = pc[p] /\ status'[p] = status[p] /\ exch'[p] = exch[p] /\ age'[p] = age[p],
         OrderOK(o)',
         exch[o] # "absent" => exch'[o] # "absent",
         exch[o] \in {"filled", "cancelled"} => exch'[o] = exch[o],
         pc[o] = "done" => pc'[o] = "done" /\ (exch[o] = "absent" => exch'[o] = "absent"),
         age[o] = 2 => age'[o] = 2,
         status[o] # "none" => status'[o] # "none"
  PROVE  RowInv'
<1>1. ASSUME NEW p \in Orders
      PROVE  OrderOK(p)'
  BY <1>1 DEF RowInv, OrderOK
<1>2. ASSUME NEW g \in Engines
      PROVE  WriteOK(g)'
  BY <1>2 DEF RowInv, WriteOK, RecWrites
<1>3. QED
  BY <1>1, <1>2 DEF RowInv

\* The trader's and the exit's own writes: their order is theirs alone until
\* the exchange has it or the task is done.
LEMMA TaskKeepsRowInv ==
  ASSUME TypeOK, RecWrites, RowInv, OrderTypes', NEW o \in Orders,
         \/ \E g \in Engines : VerifyContract(g, o) /\ o \in Entries
         \/ o \in Entries /\ (TraderStep(o) \/ HandlerDropped(o))
         \/ PlacementStep(o)
         \/ ExchangeFinishes(o)
         \/ Age(o)
         \/ o \in Exits /\ \E g \in Engines : SweepExit(g, o)
  PROVE  RowInv'
<1> USE DEF RowInv, OrderOK, OrderTypes, TypeOK, Goto, taskVars, ledgerVars, PCs, SetStatus
<1> HIDE DEF RowInv
<1>1. OrderOK(o)
  BY DEF RowInv
<1>2. OrderTypes
  BY DEF RowInv
<1>3. CASE \E g \in Engines : VerifyContract(g, o) /\ o \in Entries
  BY <1>1, <1>2, <1>3, OneOrderKeepsRowInv DEF VerifyContract
<1>4. CASE o \in Entries /\ ReserveEntry(o)
  BY <1>1, <1>2, <1>4, OneOrderKeepsRowInv
     DEF ReserveEntry, CreatePendingOpen, Refused, DbError
<1>5. CASE o \in Entries /\ ReleaseRejected(o)
  BY <1>1, <1>2, <1>5, OneOrderKeepsRowInv
     DEF ReleaseRejected, TryRelease, ReleaseReserved, Refused, DbError
<1>6. CASE PlaceOrder(o)
  BY <1>1, <1>2, <1>6, OneOrderKeepsRowInv DEF PlaceOrder
<1>7. CASE RecordAccepted(o)
  BY <1>1, <1>2, <1>7, OneOrderKeepsRowInv
     DEF RecordAccepted, TryPlaced, RecordPlaced, MarkPlaced, Refused, DbError
<1>8. CASE FailRejected(o)
  BY <1>1, <1>2, <1>8, OneOrderKeepsRowInv
     DEF FailRejected, RecordFailed, MarkFailed, DbError
<1>9. CASE ExchangeFinishes(o)
  BY <1>1, <1>2, <1>9, OneOrderKeepsRowInv DEF ExchangeFinishes
<1>10. CASE Age(o)
  BY <1>1, <1>2, <1>10, OneOrderKeepsRowInv DEF Age
<1>11. CASE o \in Exits /\ \E g \in Engines : SweepExit(g, o)
  BY <1>1, <1>2, <1>11, OneOrderKeepsRowInv DEF SweepExit, ReserveExit
<1>12. CASE o \in Entries /\ HandlerDropped(o)
  BY <1>1, <1>2, <1>12, OneOrderKeepsRowInv DEF HandlerDropped, InTask
<1>13. QED
  BY <1>3, <1>4, <1>5, <1>6, <1>7, <1>8, <1>9, <1>10, <1>11, <1>12 DEF TraderStep, PlacementStep

\* A lookup decides on what the exchange and the row's age say; the exchange
\* does not take back what it said, and a done task sends nothing more.
LEMMA LookupKeepsRowInv ==
  ASSUME RecWrites, RowInv, NEW g \in Engines, NEW o \in Orders,
         PendingLookup(g, o) \/ OpenLookup(g, o)
  PROVE  RowInv'
<1>1. /\ UNCHANGED <<pc, status, exch, age, owner, sweep>>
      /\ \A h \in Engines \ {g} : rec'[h] = rec[h]
  BY DEF PendingLookup, OpenLookup, Reconcile, ledgerVars, RecWrites
<1>2. OrderOK(o)
  BY DEF RowInv
<1>3. WriteOK(g)'
  <2>1. CASE PendingLookup(g, o)
    <3>1. PICK reply \in LookupReplies(o) :
            Reconcile(g, [rec[g] EXCEPT !.todo = @ \ {o}, !.act = PendingVerdict(o, reply),
                            !.cur = IF PendingVerdict(o, reply) = "none" THEN None ELSE o])
      BY <2>1 DEF PendingLookup
    <3>2. /\ rec'[g].act = PendingVerdict(o, reply)
          /\ rec'[g].act # "none" => rec'[g].cur = o
      BY <3>1 DEF Reconcile, RecWrites
    <3>3. rec'[g].act = "place" => exch[o] # "absent"
      BY <3>1, <3>2 DEF PendingVerdict, LookupReplies
    <3>4. rec'[g].act = "fail" => age[o] > 0 /\ (exch[o] = "absent" \/ age[o] = 2)
      BY <3>1, <3>2 DEF PendingVerdict, LookupReplies, RowInv, OrderTypes
    <3>5. rec'[g].act \in {"none", "place", "fail"}
      BY <3>2 DEF PendingVerdict
    <3>6. QED
      BY <1>1, <1>2, <3>2, <3>3, <3>4, <3>5 DEF WriteOK, OrderOK
  <2>2. CASE OpenLookup(g, o)
    <3>1. \/ /\ rec'[g].act = OrderOutcome(o)
             /\ rec'[g].act # "none" => rec'[g].cur = o
          \/ rec'[g].act = "none"
      <4>1. \/ Reconcile(g, [rec[g] EXCEPT !.todo = @ \ {o}, !.act = OrderOutcome(o),
                              !.cur = IF OrderOutcome(o) = "none" THEN None ELSE o])
            \/ Reconcile(g, [rec[g] EXCEPT !.todo = @ \ {o}]) /\ rec[g].act = "none"
        BY <2>2 DEF OpenLookup, Resting
      <4>2. CASE Reconcile(g, [rec[g] EXCEPT !.todo = @ \ {o}]) /\ rec[g].act = "none"
        BY <4>2 DEF Reconcile, RecWrites
      <4>3. CASE Reconcile(g, [rec[g] EXCEPT !.todo = @ \ {o}, !.act = OrderOutcome(o),
                                 !.cur = IF OrderOutcome(o) = "none" THEN None ELSE o])
        BY <4>3 DEF Reconcile, RecWrites
      <4>4. QED
        BY <4>1, <4>2, <4>3
    <3>2. QED
      BY <1>1, <3>1 DEF WriteOK, OrderOutcome
  <2>3. QED
    BY <2>1, <2>2
<1>4. \A h \in Engines : WriteOK(h)'
  BY <1>1, <1>3 DEF RowInv, WriteOK
<1>5. QED
  BY <1>1, <1>4 DEF RowInv, OrderTypes, OrderOK

\* A pass begins or ends with nothing in hand to write.
LEMMA PassesKeepRowInv ==
  ASSUME RecWrites, RowInv, NEW g \in Engines, PendingPass(g) \/ OpenPass(g) \/ PassDone(g)
  PROVE  RowInv'
<1>1. /\ UNCHANGED <<pc, status, exch, age, owner, sweep>>
      /\ \A h \in Engines \ {g} : rec'[h] = rec[h]
      /\ rec'[g].act = "none"
  <2> USE DEF Reconcile, ledgerVars, RecWrites, RecIdle, Resting
  <2>1. CASE PendingPass(g)
    BY <2>1 DEF PendingPass
  <2>2. CASE OpenPass(g)
    BY <2>2 DEF OpenPass
  <2>3. CASE PassDone(g)
    BY <2>3 DEF PassDone
  <2>4. QED
    BY <2>1, <2>2, <2>3
<1>2. ASSUME NEW o \in Orders
      PROVE  OrderOK(o)'
  BY <1>1, <1>2 DEF RowInv, OrderOK
<1>3. ASSUME NEW h \in Engines
      PROVE  WriteOK(h)'
  BY <1>1, <1>3 DEF RowInv, WriteOK
<1>4. QED
  BY <1>1, <1>2, <1>3 DEF RowInv, OrderTypes

\* A reconciler's write brings the row in line with what it knew of the order.
LEMMA WriteKeepsRowInv ==
  ASSUME TypeOK, RecWrites, RowInv, NEW g \in Engines,
         \/ PlaceFound(g) \/ FailPending(g) \/ ReleasePending(g)
         \/ SettleFilled(g) \/ SettleCancelled(g)
  PROVE  RowInv'
<1>1. PICK o \in Orders : o = rec[g].cur
  BY DEF RecWrites, PlaceFound, FailPending, ReleasePending, SettleFilled, SettleCancelled
<1>2. /\ UNCHANGED <<pc, exch, age, owner, sweep>>
      /\ \A h \in Engines \ {g} : rec'[h] = rec[h]
      /\ rec'[g].act \in {"none", "release"}
  <2>1. ASSUME Written(g)
        PROVE  rec'[g].act = "none" /\ \A h \in Engines \ {g} : rec'[h] = rec[h]
    BY <2>1 DEF Written, Reconcile, RecWrites
  <2>2. CASE FailPending(g)
    <3>1. Written(g) \/ Reconcile(g, [rec[g] EXCEPT !.act = "release"])
      BY <2>2 DEF FailPending
    <3>2. CASE Reconcile(g, [rec[g] EXCEPT !.act = "release"])
      BY <2>2, <3>2 DEF FailPending, Reconcile, RecWrites
    <3>3. QED
      BY <2>1, <2>2, <3>1, <3>2 DEF FailPending
  <2>3. CASE PlaceFound(g) \/ ReleasePending(g) \/ SettleFilled(g) \/ SettleCancelled(g)
    BY <2>1, <2>3 DEF PlaceFound, ReleasePending, SettleFilled, SettleCancelled
  <2>4. QED
    BY <2>2, <2>3
<1>3. WriteOK(g) /\ OrderOK(o)
  BY <1>1 DEF RowInv
<1>4. /\ \A p \in Orders \ {o} : status'[p] = status[p]
      /\ \/ status'[o] = status[o]
         \/ rec[g].act = "place" /\ status[o] = "pending" /\ status'[o] = "open"
         \/ rec[g].act = "fail" /\ status'[o] = "failed"
         \/ rec[g].act = "fill" /\ status[o] = "open" /\ status'[o] = "filled"
         \/ rec[g].act = "cancel" /\ status[o] = "open" /\ status'[o] = "cancelled"
  <2> USE <1>1 DEF TypeOK, SetStatus, DbError, Refused, ledgerVars
  <2>1. CASE PlaceFound(g)
    BY <2>1 DEF PlaceFound, TryPlaced, RecordPlaced, MarkPlaced
  <2>2. CASE FailPending(g)
    BY <2>2 DEF FailPending, RecordFailed, MarkFailed
  <2>3. CASE ReleasePending(g)
    BY <2>3 DEF ReleasePending, TryRelease, ReleaseReserved
  <2>4. CASE SettleFilled(g)
    BY <2>4 DEF SettleFilled, RecordFilledEntry, SettleFilledExit, RecordFilledExit, MarkFilled
  <2>5. CASE SettleCancelled(g)
    BY <2>5 DEF SettleCancelled, RecordCancelled, MarkCancelled
  <2>6. QED
    BY <2>1, <2>2, <2>3, <2>4, <2>5
<1>5. OrderOK(o)'
  BY <1>1, <1>2, <1>3, <1>4 DEF OrderOK, WriteOK
<1>6. ASSUME NEW p \in Orders
      PROVE  OrderOK(p)'
  BY <1>2, <1>4, <1>5 DEF RowInv, OrderOK
<1>7. ASSUME NEW h \in Engines
      PROVE  WriteOK(h)'
  <2>1. rec'[h].act \in {"place", "fail", "fill", "cancel"} => rec'[h].cur \in Orders
    BY <1>2 DEF RecWrites
  <2>2. \A p \in Orders : status[p] # "none" => status'[p] # "none"
    BY <1>4
  <2>3. CASE h = g
    BY <1>2, <2>3 DEF WriteOK
  <2>4. CASE h # g
    BY <1>2, <2>1, <2>2, <2>4 DEF WriteOK, RowInv
  <2>5. QED
    BY <2>3, <2>4
<1>8. QED
  BY <1>2, <1>6, <1>7 DEF RowInv, OrderTypes

\* A crash stops tasks: what they had sent stays sent, what they wrote stays.
LEMMA CrashKeepsRowInv ==
  ASSUME RecWrites, RowInv, OrderTypes', NEW g \in Engines, Crash(g)
  PROVE  RowInv'
<1>1. /\ UNCHANGED <<status, exch, age>>
      /\ \A o \in Orders : pc'[o] = pc[o] \/ (pc[o] \in InTask /\ pc'[o] = "done")
      /\ \A h \in Engines \ {g} : rec'[h] = rec[h]
      /\ rec'[g].act = "none"
  BY DEF Crash, ledgerVars, RecWrites, RecIdle
<1>2. ASSUME NEW o \in Orders
      PROVE  OrderOK(o)'
  BY <1>1, <1>2 DEF RowInv, OrderOK, InTask
<1>3. ASSUME NEW h \in Engines
      PROVE  WriteOK(h)'
  BY <1>1, <1>3 DEF RowInv, WriteOK, RecWrites, InTask
<1>4. QED
  BY <1>2, <1>3 DEF RowInv

\* RowInv is inductive, for any number of engines and with every fault.
LEMMA StepKeepsRowInv ==
  ASSUME TypeOK, RecWrites, RowInv, [Next]_vars
  PROVE  RowInv'
<1>1. OrderTypes'
  BY StepKeepsOrderTypes DEF RowInv
<1>2. ASSUME NEW g \in Engines, NEW e \in Entries, VerifyContract(g, e)
      PROVE  RowInv'
  BY <1>1, <1>2, TaskKeepsRowInv DEF Orders
<1>3. ASSUME NEW e \in Entries, TraderStep(e) \/ HandlerDropped(e)
      PROVE  RowInv'
  BY <1>1, <1>3, TaskKeepsRowInv DEF Orders
<1>4. ASSUME NEW o \in Orders, PlacementStep(o) \/ ExchangeFinishes(o) \/ Age(o)
      PROVE  RowInv'
  BY <1>1, <1>4, TaskKeepsRowInv
<1>5. ASSUME NEW g \in Engines, ReconcilerStep(g)
      PROVE  RowInv'
  BY <1>5, LookupKeepsRowInv, PassesKeepRowInv, WriteKeepsRowInv DEF ReconcilerStep
<1>6. ASSUME NEW g \in Engines, SweepStep(g)
      PROVE  RowInv'
  <2>1. ASSUME NEW x \in Exits, SweepExit(g, x)
        PROVE  RowInv'
    BY <1>1, <2>1, TaskKeepsRowInv DEF Orders
  <2>2. CASE SweepStart(g) \/ \E e \in Entries : SweepSkip(g, e)
    BY <1>1, <2>2 DEF SweepStart, SweepSkip, RowInv, OrderOK, WriteOK, ledgerVars
  <2>3. QED
    BY <1>6, <2>1, <2>2 DEF SweepStep
<1>7. ASSUME NEW g \in Engines, Crash(g)
      PROVE  RowInv'
  BY <1>1, <1>7, CrashKeepsRowInv
<1>8. CASE UNCHANGED vars
  BY <1>1, <1>8 DEF vars, taskVars, ledgerVars, RowInv, OrderOK, WriteOK
<1>9. QED
  BY <1>2, <1>3, <1>4, <1>5, <1>6, <1>7, <1>8 DEF Next

\* A row never contradicts the exchange but in one way: a failed row may hide an
\* order that was placed, and then only one whose lookups failed up to the
\* 30-minute cap of pending.rs (RowInv, OrderOK).
THEOREM EngineRowInv == Spec => []RowInv
<1>1. Init => RowInv
  BY EngineAssumption DEF Init, LedgerInit, RowInv, OrderTypes, OrderOK, WriteOK, RecIdle,
                          PCs, ExchangeStates
<1>2. TypeOK /\ RecWrites /\ RowInv /\ [Next]_vars => RowInv'
  BY StepKeepsRowInv
<1>3. Spec => []TypeOK
  BY EngineImplementsLedger, LedgerTypeCorrect, PTL
<1>4. QED
  BY <1>1, <1>2, <1>3, EngineRecWrites, PTL DEF Spec

\* A final row says what became of the order at the exchange, or lookups failed up
\* to the cap: whatever crashes, database errors and lost replies to placements
\* occur, in any number of engines.
THEOREM EngineRowsMatchExchange == Spec => []RowsMatchExchange
<1>1. RowInv => RowsMatchExchange
  BY DEF RowInv, RowsMatchExchange, OrderOK
<1>2. QED
  BY <1>1, EngineRowInv, PTL

-----------------------------------------------------------------------------
(* The exits of one entry.  Spoken: the exits that a position-exit sweep    *)
(* takes for live or done, pending ones as long as they are young.           *)

Spoken == {"pending", "open", "filled"}

\* No entry waits in the snapshot of an engine that has a young exit for it.
SweptHaveNoExit ==
  \A g \in Engines, x \in Exits :
    EntryOf[x] \in sweep[g] /\ owner[x] = g /\ age[x] = 0 => status[x] \notin Spoken

\* An engine has at most one young exit of an entry that may reach the exchange.
OneYoungExit ==
  \A x, y \in Exits :
    /\ EntryOf[x] = EntryOf[y] /\ owner[x] = owner[y] /\ age[x] = 0 /\ age[y] = 0
    /\ status[x] \in Spoken /\ status[y] \in Spoken
    => x = y

ExitsHaveOwner == \A x \in Exits : status[x] # "none" => owner[x] \in Engines

ExitInv == SweptHaveNoExit /\ OneYoungExit /\ ExitsHaveOwner

\* What every step but a sweep's start and an exit's insertion does to the exits.
ExitsKept ==
  /\ \A x \in Exits :
       /\ status'[x] \in Spoken => status[x] \in Spoken
       /\ status'[x] # "none" => status[x] # "none"
       /\ owner'[x] = owner[x]
       /\ age'[x] = 0 => age[x] = 0
  /\ \A g \in Engines : sweep'[g] \subseteq sweep[g]

\* A write of the status of a row that exists does not bring it among Spoken.
LEMMA StatusKeepsExits ==
  ASSUME TypeOK, NEW o \in Orders, UNCHANGED <<owner, age, sweep>>,
         \/ UNCHANGED status
         \/ o \in Entries /\ \E s : SetStatus(o, s)
         \/ status[o] \in Live /\ \E s : SetStatus(o, s)
         \/ status[o] # "none" /\ SetStatus(o, "failed")
  PROVE  ExitsKept
  BY LedgerAssumption DEF TypeOK, SetStatus, Live, Spoken, ExitsKept, Orders

\* Every step inserts an exit, takes a snapshot, or keeps the exits.
LEMMA StepOnExits ==
  ASSUME TypeOK, RecWrites, OrderTypes, [Next]_vars
  PROVE  \/ ExitsKept
         \/ \E g \in Engines : SweepStart(g)
         \/ \E g \in Engines, x \in Exits : SweepExit(g, x)
<1>1. ASSUME NEW g \in Engines, NEW e \in Entries, VerifyContract(g, e)
      PROVE  ExitsKept
  BY <1>1, LedgerAssumption
     DEF VerifyContract, ExitsKept, ledgerVars, OrderTypes, Orders
<1>2. ASSUME NEW e \in Entries, TraderStep(e)
      PROVE  ExitsKept
  BY <1>2, StatusKeepsExits DEF TraderStep, ReserveEntry, ReleaseRejected, CreatePendingOpen,
                                Refused, DbError, TryRelease, ReleaseReserved, ledgerVars, Orders
<1>3. ASSUME NEW o \in Orders, PlacementStep(o)
      PROVE  ExitsKept
  BY <1>3, StatusKeepsExits DEF PlacementStep, PlaceOrder, RecordAccepted, FailRejected, TryPlaced,
                                RecordPlaced, RecordFailed, MarkPlaced, MarkFailed,
                                Refused, DbError, ledgerVars, Live
<1>4. ASSUME NEW o \in Orders, ExchangeFinishes(o) \/ Age(o)
      PROVE  ExitsKept
  BY <1>4 DEF ExchangeFinishes, Age, ExitsKept, ledgerVars, taskVars, OrderTypes, Orders
<1>5. ASSUME NEW g \in Engines, NEW e \in Entries, SweepSkip(g, e)
      PROVE  ExitsKept
  BY <1>5 DEF SweepSkip, ExitsKept, ledgerVars, OrderTypes
<1>6. ASSUME NEW g \in Engines, ReconcilerStep(g)
      PROVE  ExitsKept
  <2> USE DEF Live, Refused, DbError, ledgerVars
  <2>1. CASE \/ PendingPass(g) \/ OpenPass(g) \/ PassDone(g)
             \/ \E o \in Orders : PendingLookup(g, o) \/ OpenLookup(g, o)
    BY <2>1 DEF PendingPass, OpenPass, PassDone, PendingLookup, OpenLookup, ExitsKept
  <2>2. CASE PlaceFound(g)
    BY <2>2, StatusKeepsExits DEF PlaceFound, TryPlaced, RecordPlaced, MarkPlaced, RecWrites
  <2>3. CASE FailPending(g)
    BY <2>3, StatusKeepsExits DEF FailPending, RecordFailed, MarkFailed, RecWrites
  <2>4. CASE ReleasePending(g)
    BY <2>4 DEF ReleasePending, TryRelease, ReleaseReserved, ExitsKept
  <2>5. CASE SettleFilled(g)
    BY <2>5, StatusKeepsExits DEF SettleFilled, RecordFilledEntry, SettleFilledExit,
                                  RecordFilledExit, MarkFilled, RecWrites
  <2>6. CASE SettleCancelled(g)
    BY <2>6, StatusKeepsExits DEF SettleCancelled, RecordCancelled, MarkCancelled, RecWrites
  <2>7. QED
    BY <1>6, <2>1, <2>2, <2>3, <2>4, <2>5, <2>6 DEF ReconcilerStep
<1>7. ASSUME NEW g \in Engines, Crash(g)
      PROVE  ExitsKept
  BY <1>7 DEF Crash, ExitsKept, ledgerVars, OrderTypes
<1>8. ASSUME NEW e \in Entries, HandlerDropped(e)
      PROVE  ExitsKept
  BY <1>8 DEF HandlerDropped, ExitsKept, ledgerVars, OrderTypes
<1>9. CASE UNCHANGED vars
  BY <1>9 DEF vars, taskVars, ledgerVars, ExitsKept
<1>10. QED
  BY <1>1, <1>2, <1>3, <1>4, <1>5, <1>6, <1>7, <1>8, <1>9 DEF Next, SweepStep

\* ExitInv is inductive, for any number of engines and with every fault.
LEMMA StepKeepsExitInv ==
  ASSUME TypeOK, RecWrites, OrderTypes, ExitInv, [Next]_vars
  PROVE  ExitInv'
<1>1. CASE ExitsKept
  BY <1>1 DEF ExitInv, SweptHaveNoExit, OneYoungExit, ExitsHaveOwner, ExitsKept
<1>2. ASSUME NEW g \in Engines, SweepStart(g)
      PROVE  ExitInv'
  <2>1. /\ UNCHANGED <<status, owner, age>>
        /\ \A h \in Engines : sweep'[h] = IF h = g THEN HeldEntries ELSE sweep[h]
    BY <1>2 DEF SweepStart, ledgerVars, OrderTypes
  <2>2. SweptHaveNoExit'
    <3>1. ASSUME NEW x \in Exits, EntryOf[x] \in HeldEntries, age[x] = 0
          PROVE  status[x] \notin Spoken
      BY <3>1 DEF HeldEntries, Spoken
    <3>2. QED
      BY <2>1, <3>1 DEF ExitInv, SweptHaveNoExit
  <2>3. QED
    BY <2>1, <2>2 DEF ExitInv, OneYoungExit, ExitsHaveOwner
<1>3. ASSUME NEW g \in Engines, NEW x \in Exits, SweepExit(g, x)
      PROVE  ExitInv'
  <2>1. /\ EntryOf[x] \in sweep[g]
        /\ status'[x] = "pending" /\ owner'[x] = g /\ UNCHANGED age
        /\ \A y \in Exits \ {x} : status'[y] = status[y] /\ owner'[y] = owner[y]
        /\ \A h \in Engines : sweep'[h] = IF h = g THEN sweep[h] \ {EntryOf[x]} ELSE sweep[h]
    BY <1>3 DEF SweepExit, ReserveExit, SetStatus, TypeOK, OrderTypes, Orders
  <2>2. SweptHaveNoExit'
    BY <2>1 DEF ExitInv, SweptHaveNoExit
  <2>3. ASSUME NEW y \in Exits \ {x}, EntryOf[y] = EntryOf[x], owner[y] = g, age[y] = 0
        PROVE  status[y] \notin Spoken
    BY <2>1, <2>3 DEF ExitInv, SweptHaveNoExit
  <2>4. OneYoungExit'
    BY <2>1, <2>3 DEF ExitInv, OneYoungExit
  <2>5. QED
    BY <2>1, <2>2, <2>4 DEF ExitInv, ExitsHaveOwner
<1>4. QED
  BY <1>1, <1>2, <1>3, StepOnExits

\* position_exit looks at an entry's exits when its sweep starts and acts on what
\* it saw: an engine that has a young exit of an entry never has it in a snapshot.
THEOREM EngineExitInv == Spec => []ExitInv
<1>1. Init => ExitInv
  BY DEF Init, LedgerInit, ExitInv, SweptHaveNoExit, OneYoungExit, ExitsHaveOwner, Spoken, Orders
<1>2. TypeOK /\ RecWrites /\ RowInv /\ ExitInv /\ [Next]_vars => ExitInv'
  BY StepKeepsExitInv DEF RowInv
<1>3. Spec => []TypeOK
  BY EngineImplementsLedger, LedgerTypeCorrect, PTL
<1>4. QED
  BY <1>1, <1>2, <1>3, EngineRecWrites, EngineRowInv, PTL DEF Spec

\* Two exits of one entry can both work or fill at the exchange in two ways only:
\* two engines took them from snapshots of their own, or one of them was past the
\* 5 minutes of PENDING_GRACE_MINUTES.
SecondExitHasCause ==
  \A x, y \in Exits :
    /\ EntryOf[x] = EntryOf[y]
    /\ exch[x] \in {"working", "filled"}
    /\ exch[y] \in {"working", "filled"}
    => x = y \/ owner[x] # owner[y] \/ age[x] > 0 \/ age[y] > 0

\* A second exit of a position at the exchange has one of those two causes,
\* whatever crashes, database errors and lost replies occur.
THEOREM EngineSecondExitHasCause == Spec => []SecondExitHasCause
<1>1. TypeOK /\ RowInv /\ ExitInv => SecondExitHasCause
  <2>1. ASSUME TypeOK, RowInv, NEW x \in Exits, exch[x] \in {"working", "filled"}, age[x] = 0
        PROVE  status[x] \in Spoken
    <3>1. OrderOK(x) /\ status[x] \in Statuses
      BY <2>1 DEF RowInv, TypeOK, Orders
    <3>2. QED
      BY <2>1, <3>1 DEF OrderOK, Spoken, Statuses
  <2>2. ASSUME RowInv, NEW x \in Exits
        PROVE  age[x] \in 0..2
    BY <2>2 DEF RowInv, OrderTypes, Orders
  <2>3. QED
    BY <2>1, <2>2 DEF SecondExitHasCause, ExitInv, OneYoungExit
<1>2. QED
  BY <1>1, EngineImplementsLedger, LedgerTypeCorrect, EngineRowInv, EngineExitInv, PTL

\* Whatever sweeps, however old their snapshots, and with every fault: an exit is
\* inserted only when what the exchange did with each earlier one is in its row.
THEOREM EngineNoExitWhileUnsettled == Spec => NoExitWhileUnsettled
<1> DEFINE Settled ==
      \A x, y \in Exits :
        /\ EntryOf[x] = EntryOf[y]
        /\ status[x] = "none" /\ status'[x] = "pending"
        /\ exch[y] \in {"working", "filled"}
        => status[y] = "filled" \/ (status[y] = "failed" /\ age[y] = 2)
<1>1. ASSUME TypeOK, RecWrites, RowInv, [Next]_vars, NEW x \in Exits, NEW y \in Exits,
             EntryOf[x] = EntryOf[y], status[x] = "none", status'[x] = "pending",
             exch[y] \in {"working", "filled"}
      PROVE  status[y] = "filled" \/ (status[y] = "failed" /\ age[y] = 2)
  <2>1. PICK g \in Engines, z \in Exits : SweepExit(g, z)
    <3>1. ~ExitsKept
      BY <1>1 DEF ExitsKept
    <3>2. \A h \in Engines : ~SweepStart(h)
      BY <1>1 DEF SweepStart, ledgerVars
    <3>3. QED
      BY <1>1, <3>1, <3>2, StepOnExits DEF RowInv
  <2>2. z = x /\ ~HasLiveExit(EntryOf[x])
    BY <1>1, <2>1 DEF SweepExit, ReserveExit, SetStatus, TypeOK, Orders
  <2>3. status[y] \notin Live
    BY <1>1, <2>2 DEF HasLiveExit
  <2>4. OrderOK(y) /\ status[y] \in Statuses
    BY <1>1 DEF RowInv, TypeOK, Orders
  <2>5. QED
    BY <1>1, <2>3, <2>4 DEF OrderOK, Live, Statuses
<1>2. TypeOK /\ RecWrites /\ RowInv /\ [Next]_vars => [Settled]_vars
  BY <1>1
<1>3. Spec => []TypeOK
  BY EngineImplementsLedger, LedgerTypeCorrect, PTL
<1>4. QED
  BY <1>2, <1>3, EngineRecWrites, EngineRowInv, PTL DEF Spec, NoExitWhileUnsettled

-----------------------------------------------------------------------------
(* The funds.  An entry is failed in two transactions, one for its row and  *)
(* one for its fund, and a history variable says whose were cut apart.      *)
(* FundInv says who still has to release what; where nothing was cut, total *)
(* traded fund is the sum of the reservations that were not given back, so  *)
(* that release_fund cannot refuse one of them.                             *)

\* The entries of contract c whose reservation was not given back.
ReservedOf(c) ==
  {e \in Entries : ContractOf[e] = c /\ status[e] # "none" /\ released[e] = 0}

TradedIsReserved ==
  \A c \in Contracts : Uncut(c) => traded[c] = SumFunctionOnSet(Fund, ReservedOf(c))

FundOK(e) ==
  e \notin cut =>
    /\ status[e] \in {"none", "open", "filled"} => released[e] = 0
    /\ status[e] = "pending" => released[e] = 0 \/ (released[e] = 1 /\ pc[e] = "released")
    /\ status[e] \in {"cancelled", "failed"} => released[e] \in {0, 1}
    /\ \A g \in Engines : Releasing(g, e) => status[e] = "failed" /\ released[e] = 0
    /\ \A g, h \in Engines : Releasing(g, e) /\ Releasing(h, e) => g = h
    /\ Uncut(ContractOf[e]) =>
         /\ status[e] = "pending" /\ pc[e] = "released" => released[e] = 1
         /\ status[e] = "cancelled" => released[e] = 1
         /\ status[e] = "failed" => released[e] = 1 \/ \E g \in Engines : Releasing(g, e)

FailedExitsUncredited == \A x \in Exits \ cut : status[x] = "failed" => credits[x] = 0

FundInv ==
  /\ released \in [Entries -> Nat]
  /\ cut \subseteq Orders
  /\ \A e \in Entries : FundOK(e)
  /\ TradedIsReserved
  /\ FailedExitsUncredited

\* An entry whose failure was cut is one of its contract's.
LEMMA UncutEntry ==
  ASSUME NEW e \in Entries, Uncut(ContractOf[e])
  PROVE  e \notin cut
  BY DEF Uncut

\* What was cut stays cut.
LEMMA UncutBefore ==
  ASSUME cut \subseteq cut', NEW c, Uncut(c)'
  PROVE  Uncut(c)
  BY DEF Uncut

\* The reservations of a contract are finitely many natural amounts.
LEMMA ReservedIsFinite ==
  ASSUME NEW c
  PROVE  /\ IsFiniteSet(ReservedOf(c))
         /\ \A e \in ReservedOf(c) : Fund[e] \in Nat
  BY LedgerAssumption, FS_Subset DEF ReservedOf

\* The guard of release_fund holds for a reservation that was not given back.
LEMMA ReservedCanBeReleased ==
  ASSUME TradedIsReserved, NEW e \in Entries, Uncut(ContractOf[e]), status[e] # "none",
         released[e] = 0
  PROVE  CanRelease(ContractOf[e], Fund[e])
<1> DEFINE c == ContractOf[e]
<1>1. c \in Contracts /\ e \in ReservedOf(c) /\ Fund[e] \in Int
  BY LedgerAssumption DEF ReservedOf
<1>2. Fund[e] <= SumFunctionOnSet(Fund, ReservedOf(c))
  BY <1>1, ReservedIsFinite, SumAtLeast
<1>3. SumFunctionOnSet(Fund, ReservedOf(c)) \in Int
  BY ReservedIsFinite, SumIsInt
<1>4. QED
  BY <1>1, <1>2, <1>3 DEF TradedIsReserved, CanRelease

\* A step that inserts no entry and releases nothing.
LEMMA TradedUnchanged ==
  ASSUME TradedIsReserved, cut \subseteq cut', UNCHANGED <<traded, released>>,
         \A e \in Entries : status'[e] = "none" <=> status[e] = "none"
  PROVE  TradedIsReserved'
<1>1. \A c : ReservedOf(c)' = ReservedOf(c)
  BY DEF ReservedOf
<1>2. QED
  BY <1>1, UncutBefore DEF TradedIsReserved

\* An entry's insertion and its reservation.
LEMMA ReserveKeepsTraded ==
  ASSUME TypeOK, TradedIsReserved, NEW e \in Entries, released[e] = 0,
         UNCHANGED <<released, cut>>, CreatePendingOpen(e)
  PROVE  TradedIsReserved'
<1> DEFINE d == ContractOf[e]
<1>1. /\ status[e] = "none" /\ status' = [status EXCEPT ![e] = "pending"]
      /\ traded' = [traded EXCEPT ![d] = @ + Fund[e]]
      /\ d \in Contracts /\ Fund[e] \in Int
  BY LedgerAssumption DEF CreatePendingOpen, SetStatus, ConsumeFund
<1>2. ASSUME NEW c \in Contracts, Uncut(c)'
      PROVE  traded'[c] = SumFunctionOnSet(Fund, ReservedOf(c)')
  <2> DEFINE S == ReservedOf(c)
  <2>1. e \notin S /\ ReservedOf(c)' = IF c = d THEN S \cup {e} ELSE S
    BY <1>1 DEF ReservedOf, TypeOK, Orders
  <2>2. traded'[c] = IF c = d THEN traded[c] + Fund[e] ELSE traded[c]
    BY <1>1 DEF TypeOK
  <2>3. traded[c] = SumFunctionOnSet(Fund, S)
    BY <1>2, UncutBefore DEF TradedIsReserved
  <2>4. IsFiniteSet(S) /\ \A y \in S : Fund[y] \in Int
    BY ReservedIsFinite
  <2> HIDE DEF S
  <2>5. SumFunctionOnSet(Fund, S \cup {e}) = SumFunctionOnSet(Fund, S) + Fund[e]
    BY <1>1, <2>1, <2>4, SumWith
  <2>6. QED
    BY <2>1, <2>2, <2>3, <2>5
<1>3. QED
  BY <1>2 DEF TradedIsReserved

\* The release of a reservation that was not given back.
LEMMA ReleaseKeepsTraded ==
  ASSUME TypeOK, TradedIsReserved, released \in [Entries -> Nat], NEW e \in Entries,
         cut \subseteq cut', Uncut(ContractOf[e])' => released[e] = 0,
         released' = [released EXCEPT ![e] = @ + 1], status[e] # "none",
         \A f \in Entries : status'[f] = "none" <=> status[f] = "none",
         ReleaseFund(ContractOf[e], Fund[e])
  PROVE  TradedIsReserved'
<1> DEFINE d == ContractOf[e]
<1>1. /\ traded' = [traded EXCEPT ![d] = @ - Fund[e]]
      /\ d \in Contracts /\ Fund[e] \in Int
  <2>1. d \in Contracts /\ Fund[e] \in Int
    <3>1. e \in Entries
      OBVIOUS
    <3>2. ContractOf[e] \in Contracts /\ Fund[e] \in Nat
      BY ONLY <3>1, LedgerAssumption
    <3>3. QED
      BY ONLY <3>2 DEF d
  <2>2. traded' = [traded EXCEPT ![d] = @ - Fund[e]]
    BY DEF ReleaseFund
  <2>3. QED
    BY <2>1, <2>2
<1>2. ASSUME NEW c \in Contracts, Uncut(c)'
      PROVE  traded'[c] = SumFunctionOnSet(Fund, ReservedOf(c)')
  <2> DEFINE S == ReservedOf(c)
  <2>1. ReservedOf(c)' = IF c = d THEN S \ {e} ELSE S
    BY <1>2 DEF ReservedOf
  <2>2. traded'[c] = IF c = d THEN traded[c] - Fund[e] ELSE traded[c]
    BY <1>1 DEF TypeOK
  <2>3. traded[c] = SumFunctionOnSet(Fund, S)
    BY <1>2, UncutBefore DEF TradedIsReserved
  <2>4. IsFiniteSet(S) /\ \A y \in S : Fund[y] \in Int
    BY ReservedIsFinite
  <2>5. c = d => e \in S
    BY <1>2 DEF ReservedOf
  <2> HIDE DEF S
  <2>6. CASE c = d
    <3>1. SumFunctionOnSet(Fund, S) = Fund[e] + SumFunctionOnSet(Fund, S \ {e})
      BY <2>4, <2>5, <2>6, SumWithout
    <3>2. IsFiniteSet(S \ {e}) /\ SumFunctionOnSet(Fund, S \ {e}) \in Int
      BY <2>4, FS_Subset, SumIsInt
    <3>3. QED
      BY <1>1, <2>1, <2>2, <2>3, <2>6, <3>1, <3>2
  <2>7. QED
    BY <2>1, <2>2, <2>3, <2>6
<1>3. QED
  BY <1>2 DEF TradedIsReserved

\* A step that concerns the fund, the row and the tasks of one order.
LEMMA OneOrderKeepsFunds ==
  ASSUME FundInv, NEW o \in Orders,
         released' \in [Entries -> Nat], cut \subseteq cut', cut' \subseteq Orders,
         \A p \in Orders \ {o} :
           /\ pc'[p] = pc[p] /\ status'[p] = status[p]
           /\ p \in Entries => released'[p] = released[p]
           /\ p \in Exits => credits'[p] = credits[p],
         \A g \in Engines, e \in Entries \ {o} : Releasing(g, e)' <=> Releasing(g, e),
         o \in Entries => FundOK(o)',
         o \in Exits => (o \notin cut' /\ status'[o] = "failed" => credits'[o] = 0),
         TradedIsReserved'
  PROVE  FundInv'
<1>1. ASSUME NEW e \in Entries
      PROVE  FundOK(e)'
  <2>1. CASE e = o
    BY <2>1
  <2>2. CASE e # o
    <3>1. FundOK(e) /\ e \in Orders /\ (Uncut(ContractOf[e])' => Uncut(ContractOf[e]))
      BY UncutBefore DEF FundInv, Orders
    <3>2. pc'[e] = pc[e] /\ status'[e] = status[e] /\ released'[e] = released[e]
      BY <2>2, <3>1
    <3>3. \A g \in Engines : Releasing(g, e)' <=> Releasing(g, e)
      BY <2>2
    <3> HIDE DEF Releasing
    <3>4. QED
      BY <3>1, <3>2, <3>3 DEF FundOK
  <2>3. QED
    BY <2>1, <2>2
<1>2. FailedExitsUncredited'
  BY DEF FundInv, FailedExitsUncredited, Orders
<1>3. QED
  BY <1>1, <1>2 DEF FundInv

\* A step of a task that releases nothing and leaves the reconcilers alone.
LEMMA TaskKeepsFunds ==
  ASSUME FundInv, NEW o \in Orders, pc[o] # "done", RowInv, RecWrites,
         UNCHANGED <<rec, credits, traded, released>>,
         cut \subseteq cut', cut' \subseteq Orders,
         \A p \in Orders \ {o} : pc'[p] = pc[p] /\ status'[p] = status[p],
         \/ /\ status'[o] = status[o]
            /\ pc'[o] # "released" /\ (o \in Entries /\ pc[o] = "released" => o \in cut')
         \/ status[o] = "pending" /\ status'[o] = "open" /\ pc[o] # "released"
         \/ /\ status[o] = "pending" /\ status'[o] = "failed" /\ CreditedAtMostOnce
            /\ o \in Entries => pc[o] = "released"
         \/ o \in Exits /\ status'[o] = "pending" /\ status[o] = "none"
  PROVE  FundInv'
<1>1. OrderOK(o) /\ status[o] # "failed"
  BY DEF RowInv, OrderOK
<1>2. /\ \A g \in Engines : \A e : Releasing(g, e)' <=> Releasing(g, e)
      /\ released \in [Entries -> Nat] /\ TradedIsReserved
  BY DEF Releasing, FundInv
<1>3. TradedIsReserved'
  <2>1. \A e \in Entries : status'[e] = "none" <=> status[e] = "none"
    BY LedgerAssumption DEF Orders
  <2>2. QED
    BY <1>2, <2>1, TradedUnchanged
<1>4. ASSUME o \in Entries
      PROVE  FundOK(o)'
  <2>1. FundOK(o) /\ o \notin Exits /\ (Uncut(ContractOf[o])' => Uncut(ContractOf[o]))
    BY <1>4, LedgerAssumption, UncutBefore DEF FundInv
  <2>2. o \notin cut' => \A g \in Engines : ~Releasing(g, o)
    BY <1>1, <2>1 DEF FundOK
  <2> HIDE DEF Releasing
  <2>3. QED
    BY <1>1, <1>2, <1>4, <2>1, <2>2 DEF FundOK
<1>5. o \in Exits => (o \notin cut' /\ status'[o] = "failed" => credits'[o] = 0)
  BY <1>1 DEF CreditedAtMostOnce
<1>6. QED
  BY <1>2, <1>3, <1>4, <1>5, OneOrderKeepsFunds

\* The trader's steps: a rejected entry is released first and failed next, and
\* nobody else writes its row in between.
LEMMA TraderKeepsFunds ==
  ASSUME TypeOK, RecWrites, RowInv, FundInv, NEW e \in Entries, TraderStep(e)
  PROVE  FundInv'
<1>1. /\ FundOK(e) /\ OrderOK(e) /\ e \in Orders /\ e \notin Exits
      /\ released \in [Entries -> Nat] /\ TradedIsReserved /\ cut \subseteq Orders
      /\ pc \in [Orders -> PCs]
      /\ Uncut(ContractOf[e]) => e \notin cut
  BY LedgerAssumption, UncutEntry DEF FundInv, RowInv, OrderTypes, Orders
<1>2. CASE ReserveEntry(e)
  <2>1. pc[e] = "verified" /\ status[e] = "none" /\ UNCHANGED <<rec, released, cut>>
    BY <1>1, <1>2 DEF ReserveEntry, OrderOK
  <2>2. CASE CreatePendingOpen(e) /\ Goto(e, "placing")
    <3>1. /\ pc'[e] = "placing" /\ status'[e] = "pending" /\ UNCHANGED credits
          /\ \A p \in Orders \ {e} : pc'[p] = pc[p] /\ status'[p] = status[p]
      BY <1>1, <2>2 DEF CreatePendingOpen, SetStatus, Goto, TypeOK
    <3>2. TradedIsReserved'
      <4>1. CASE released[e] = 0
        BY <1>1, <2>1, <2>2, <4>1, ReserveKeepsTraded
      <4>2. CASE released[e] # 0
        <5>1. ~Uncut(ContractOf[e])
          BY <1>1, <2>1, <4>2 DEF FundOK
        <5>2. \A c : Uncut(c)' <=> Uncut(c)
          BY <2>1 DEF Uncut
        <5>3. \A c \in Contracts : c # ContractOf[e] =>
                traded'[c] = traded[c] /\ ReservedOf(c)' = ReservedOf(c)
          BY <1>1, <2>1, <2>2, <3>1 DEF CreatePendingOpen, ConsumeFund, ReservedOf, TypeOK, Orders
        <5>4. QED
          BY <1>1, <5>1, <5>2, <5>3 DEF TradedIsReserved
      <4>3. QED
        BY <4>1, <4>2
    <3>3. \A g \in Engines : \A f : Releasing(g, f)' <=> Releasing(g, f)
      BY <2>1 DEF Releasing
    <3>4. FundOK(e)'
      <4>1. Uncut(ContractOf[e])' <=> Uncut(ContractOf[e])
        BY <2>1 DEF Uncut
      <4> HIDE DEF Releasing
      <4>2. QED
        BY <1>1, <2>1, <3>1, <3>3, <4>1 DEF FundOK
    <3> HIDE DEF Releasing
    <3>5. QED
      BY <1>1, <2>1, <3>1, <3>2, <3>3, <3>4, OneOrderKeepsFunds
  <2>3. CASE UNCHANGED ledgerVars /\ Goto(e, "done")
    BY <1>1, <2>1, <2>3, TaskKeepsFunds DEF ledgerVars, Goto
  <2>4. QED
    BY <1>1, <1>2, <2>2, <2>3 DEF ReserveEntry, Refused, DbError
<1>3. CASE ReleaseRejected(e)
  <2>1. /\ pc[e] = "rejected" /\ status[e] = "pending"
        /\ UNCHANGED <<rec, status, credits>>
        /\ pc'[e] = "released" /\ \A p \in Orders \ {e} : pc'[p] = pc[p]
    BY <1>1, <1>3 DEF ReleaseRejected, OrderOK, TryRelease, ReleaseReserved, Refused, DbError,
                      ledgerVars, Goto
  <2>2. e \notin cut => released[e] = 0 /\ \A g \in Engines : ~Releasing(g, e)
    BY <1>1, <2>1 DEF FundOK
  <2>3. \A g \in Engines : \A f : Releasing(g, f)' <=> Releasing(g, f)
    BY <2>1 DEF Releasing
  <2> HIDE DEF Releasing
  <2>4. CASE /\ ReleaseReserved(e) /\ released' = [released EXCEPT ![e] = @ + 1]
             /\ UNCHANGED cut
    <3>1. /\ released' \in [Entries -> Nat] /\ released'[e] = released[e] + 1
          /\ \A p \in Entries \ {e} : released'[p] = released[p]
      BY <1>1, <2>4
    <3>2. Uncut(ContractOf[e])' => Uncut(ContractOf[e])
      BY <2>4, UncutBefore
    <3>3. TradedIsReserved'
      BY <1>1, <2>1, <2>2, <2>4, <3>2, ReleaseKeepsTraded DEF ReleaseReserved
    <3>4. FundOK(e)'
      BY <2>1, <2>2, <2>3, <2>4, <3>1 DEF FundOK
    <3>5. QED
      BY <1>1, <2>1, <2>3, <2>4, <3>1, <3>3, <3>4, OneOrderKeepsFunds
  <2>5. CASE /\ UNCHANGED <<ledgerVars, released>>
             /\ \/ cut' = cut \cup {e}
                \/ UNCHANGED cut /\ ~CanRelease(ContractOf[e], Fund[e])
    <3>1. TradedIsReserved'
      BY <1>1, <2>5, TradedUnchanged DEF ledgerVars
    <3>2. cut' = cut => ~Uncut(ContractOf[e])' \/ e \in cut
      <4>1. ASSUME cut' = cut, Uncut(ContractOf[e])'
            PROVE  FALSE
        <5>1. Uncut(ContractOf[e])
          BY <4>1, UncutBefore
        <5>2. e \notin cut
          BY <5>1, UncutEntry
        <5>3. CanRelease(ContractOf[e], Fund[e])
          BY <1>1, <2>1, <2>2, <5>1, <5>2, ReservedCanBeReleased
        <5>4. QED
          BY <2>5, <4>1, <5>2, <5>3
      <4>2. QED
        BY <4>1
    <3>3. FundOK(e)'
      BY <2>1, <2>2, <2>3, <2>5, <3>2 DEF FundOK
    <3>4. QED
      BY <1>1, <2>1, <2>3, <2>5, <3>1, <3>3, OneOrderKeepsFunds
  <2>6. QED
    BY <1>3, <2>4, <2>5 DEF ReleaseRejected, TryRelease, Refused, DbError
<1>4. QED
  BY <1>2, <1>3 DEF TraderStep

\* Placing an order and recording the answer.
LEMMA PlacementKeepsFunds ==
  ASSUME TypeOK, CreditedAtMostOnce, RecWrites, RowInv, FundInv,
         NEW o \in Orders, PlacementStep(o)
  PROVE  FundInv'
<1>1. OrderOK(o) /\ pc \in [Orders -> PCs] /\ cut \subseteq Orders
  BY DEF FundInv, RowInv, OrderTypes
<1> USE <1>1 DEF Goto, TypeOK, ledgerVars, SetStatus, Refused, DbError
<1>2. CASE PlaceOrder(o)
  BY <1>2, TaskKeepsFunds DEF PlaceOrder
<1>3. CASE RecordAccepted(o)
  BY <1>3, TaskKeepsFunds DEF RecordAccepted, TryPlaced, RecordPlaced, MarkPlaced
<1>4. CASE FailRejected(o)
  BY <1>4, TaskKeepsFunds DEF FailRejected, RecordFailed, MarkFailed, OrderOK
<1>5. QED
  BY <1>2, <1>3, <1>4 DEF PlacementStep

\* Steps that write no row of an entry that exists.
LEMMA OtherTasksKeepFunds ==
  ASSUME TypeOK, RecWrites, RowInv, FundInv,
         \/ \E g \in Engines, e \in Entries : VerifyContract(g, e)
         \/ \E e \in Entries : HandlerDropped(e)
         \/ \E g \in Engines : SweepStep(g)
         \/ \E o \in Orders : ExchangeFinishes(o) \/ Age(o)
         \/ UNCHANGED vars
  PROVE  FundInv'
<1>1. pc \in [Orders -> PCs] /\ cut \subseteq Orders /\ \A o \in Orders : OrderOK(o)
  BY DEF FundInv, RowInv, OrderTypes
<1>2. ASSUME NEW g \in Engines, NEW e \in Entries, VerifyContract(g, e)
      PROVE  FundInv'
  BY <1>1, <1>2, TaskKeepsFunds DEF VerifyContract, Goto, ledgerVars, Orders
<1>3. ASSUME NEW e \in Entries, HandlerDropped(e)
      PROVE  FundInv'
  BY <1>1, <1>3, TaskKeepsFunds DEF HandlerDropped, Goto, ledgerVars, Orders, InTask
<1>4. ASSUME NEW g \in Engines, NEW x \in Exits, SweepExit(g, x)
      PROVE  FundInv'
  BY <1>1, <1>4, TaskKeepsFunds DEF SweepExit, Goto, ReserveExit, SetStatus, TypeOK, Orders
<1>5. ASSUME UNCHANGED <<status, traded, credits, pc, rec, released, cut>>
      PROVE  FundInv'
  <2>1. TradedIsReserved'
    BY <1>5, TradedUnchanged DEF FundInv
  <2>2. QED
    BY <1>5, <2>1 DEF FundInv, FundOK, FailedExitsUncredited, Releasing, Uncut
<1>6. ASSUME NEW g \in Engines, SweepStart(g) \/ \E e \in Entries : SweepSkip(g, e)
      PROVE  FundInv'
  BY <1>5, <1>6 DEF SweepStart, SweepSkip, ledgerVars
<1>7. ASSUME NEW o \in Orders, ExchangeFinishes(o) \/ Age(o)
      PROVE  FundInv'
  BY <1>5, <1>7 DEF ExchangeFinishes, Age, ledgerVars, taskVars
<1>8. CASE UNCHANGED vars
  BY <1>5, <1>8 DEF vars, ledgerVars, taskVars
<1>9. QED
  BY <1>2, <1>3, <1>4, <1>6, <1>7, <1>8 DEF SweepStep

\* A crash cuts what stands half way, and nothing else.
LEMMA CrashKeepsFunds ==
  ASSUME TypeOK, RecWrites, RowInv, FundInv, NEW g \in Engines, Crash(g)
  PROVE  FundInv'
<1>1. /\ UNCHANGED <<status, traded, credits, released>>
      /\ \A o \in Orders : pc'[o] = pc[o] \/ (owner[o] = g /\ pc'[o] = "done")
      /\ cut \subseteq cut' /\ cut' \subseteq Orders
      /\ \A e \in Entries : owner[e] = g /\ pc[e] = "released" => e \in cut'
      /\ \A e \in Entries : Releasing(g, e) => e \in cut'
      /\ \A h \in Engines : \A e \in Entries : Releasing(h, e)' <=> (h # g /\ Releasing(h, e))
  BY EngineAssumption DEF Crash, FundInv, RecWrites, Releasing, RecIdle, ledgerVars, Orders
<1>2. ASSUME NEW e \in Entries
      PROVE  FundOK(e)'
  <2>1. FundOK(e) /\ e \in Orders /\ (Uncut(ContractOf[e])' => Uncut(ContractOf[e]))
    BY <1>1, UncutBefore DEF FundInv, Orders
  <2> HIDE DEF Releasing
  <2>2. QED
    BY <1>1, <2>1 DEF FundOK
<1>3. TradedIsReserved'
  BY <1>1, TradedUnchanged DEF FundInv
<1>4. FailedExitsUncredited'
  BY <1>1 DEF FundInv, FailedExitsUncredited
<1>5. QED
  BY <1>1, <1>2, <1>3, <1>4 DEF FundInv

\* A pass of a reconciler begins, looks a row up, or ends: it had nothing to
\* release in hand, and has nothing to release after it.
LEMMA LookupKeepsFunds ==
  ASSUME RecWrites, FundInv, NEW g \in Engines,
         \/ PendingPass(g) \/ OpenPass(g) \/ PassDone(g)
         \/ \E o \in Orders : PendingLookup(g, o) \/ OpenLookup(g, o)
  PROVE  FundInv'
<1>1. /\ UNCHANGED <<pc, status, traded, credits, released, cut>>
      /\ rec[g].act = "none"
  BY DEF PendingPass, OpenPass, PassDone, PendingLookup, OpenLookup, Resting, ledgerVars
<1>2. rec'[g].act # "release" /\ \A h \in Engines \ {g} : rec'[h] = rec[h]
  <2>1. CASE PendingPass(g) \/ OpenPass(g) \/ PassDone(g)
    <3>1. CASE PendingPass(g)
      BY <3>1 DEF PendingPass, Reconcile, RecWrites, RecIdle
    <3>2. CASE OpenPass(g)
      BY <1>1, <3>2 DEF OpenPass, Reconcile, RecWrites
    <3>3. CASE PassDone(g)
      BY <3>3 DEF PassDone, Reconcile, RecWrites, RecIdle
    <3>4. QED
      BY <2>1, <3>1, <3>2, <3>3
  <2>2. ASSUME NEW o \in Orders, PendingLookup(g, o)
        PROVE  rec'[g].act # "release" /\ \A h \in Engines \ {g} : rec'[h] = rec[h]
    <3>1. PICK reply \in LookupReplies(o) :
            Reconcile(g, [rec[g] EXCEPT !.todo = @ \ {o}, !.act = PendingVerdict(o, reply),
                            !.cur = IF PendingVerdict(o, reply) = "none" THEN None ELSE o])
      BY <2>2 DEF PendingLookup
    <3>2. PendingVerdict(o, reply) # "release"
      BY DEF PendingVerdict
    <3>3. QED
      BY <3>1, <3>2 DEF Reconcile, RecWrites
  <2>3. ASSUME NEW o \in Orders, OpenLookup(g, o)
        PROVE  rec'[g].act # "release" /\ \A h \in Engines \ {g} : rec'[h] = rec[h]
    <3>1. OrderOutcome(o) # "release"
      BY DEF OrderOutcome
    <3>2. CASE Reconcile(g, [rec[g] EXCEPT !.todo = @ \ {o}])
      BY <1>1, <3>2 DEF Reconcile, RecWrites
    <3>3. CASE Reconcile(g, [rec[g] EXCEPT !.todo = @ \ {o}, !.act = OrderOutcome(o),
                               !.cur = IF OrderOutcome(o) = "none" THEN None ELSE o])
      BY <3>1, <3>3 DEF Reconcile, RecWrites
    <3>4. QED
      BY <2>3, <3>2, <3>3 DEF OpenLookup
  <2>4. QED
    BY <2>1, <2>2, <2>3
<1>3. \A h \in Engines : \A e : Releasing(h, e)' <=> Releasing(h, e)
  BY <1>1, <1>2 DEF Releasing
<1>4. TradedIsReserved'
  BY <1>1, TradedUnchanged DEF FundInv
<1> HIDE DEF Releasing
<1>5. QED
  BY <1>1, <1>3, <1>4 DEF FundInv, FundOK, FailedExitsUncredited, Uncut

\* What a reconciler knows of the order it is about to write.
LEMMA OrderInHand ==
  ASSUME TypeOK, RecWrites, RowInv, FundInv, NEW g \in Engines, rec[g].act # "none"
  PROVE  /\ rec[g].cur \in Orders
         /\ rec[g].cur \in Entries => FundOK(rec[g].cur) /\ rec[g].cur \notin Exits
         /\ OrderOK(rec[g].cur) /\ WriteOK(g)
         /\ released \in [Entries -> Nat] /\ TradedIsReserved /\ cut \subseteq Orders
  BY LedgerAssumption DEF RecWrites, RowInv, FundInv, Orders

\* A write of a reconciler releases nothing but by FailPending's second half.
LEMMA WrittenReleases ==
  ASSUME RecWrites, NEW g \in Engines, Written(g)
  PROVE  \A h \in Engines, e \in Entries : Releasing(h, e)' <=> (h # g /\ Releasing(h, e))
  BY DEF RecWrites, Written, Reconcile, Releasing

\* A write that releases nothing and credits only the exit in hand.
LEMMA WriteKeepsFunds ==
  ASSUME TypeOK, RecWrites, RowInv, FundInv, NEW g \in Engines, NEW o \in Orders,
         o = rec[g].cur, rec[g].act \notin {"none", "release"}, Written(g),
         UNCHANGED <<pc, traded, released, cut>>,
         \A p \in Orders \ {o} :
           status'[p] = status[p] /\ (p \in Exits => credits'[p] = credits[p]),
         \/ status'[o] = status[o] /\ UNCHANGED credits
         \/ status[o] = "pending" /\ status'[o] = "open" /\ exch[o] # "absent"
         \/ status[o] = "open" /\ status'[o] = "filled"
  PROVE  FundInv'
<1>1. /\ o \in Entries => FundOK(o) /\ o \notin Exits
      /\ OrderOK(o)
      /\ released \in [Entries -> Nat] /\ TradedIsReserved /\ cut \subseteq Orders
  BY OrderInHand
<1>2. \A h \in Engines : \A e \in Entries : Releasing(h, e)' <=> Releasing(h, e)
  BY WrittenReleases DEF Releasing
<1>3. TradedIsReserved'
  <2>1. \A e \in Entries : status'[e] = "none" <=> status[e] = "none"
    BY DEF Orders
  <2>2. QED
    BY <1>1, <2>1, TradedUnchanged
<1>4. o \in Entries => FundOK(o)'
  <2>1. Uncut(ContractOf[o])' <=> Uncut(ContractOf[o])
    BY DEF Uncut
  <2>2. status[o] = "pending" /\ exch[o] # "absent" => pc[o] # "released"
    BY <1>1 DEF OrderOK
  <2> HIDE DEF Releasing
  <2>3. QED
    BY <1>1, <1>2, <2>1, <2>2 DEF FundOK
<1>5. o \in Exits => (o \notin cut' /\ status'[o] = "failed" => credits'[o] = 0)
  BY DEF FundInv, FailedExitsUncredited
<1> HIDE DEF Releasing
<1>6. QED
  BY <1>1, <1>2, <1>3, <1>4, <1>5, OneOrderKeepsFunds

\* record_placed opens the row of an order that was found, and a fill is recorded
\* for an open row: the fund stays with the entry, an exit's credit is its own.
LEMMA PlaceAndFillKeepFunds ==
  ASSUME TypeOK, RecWrites, RowInv, FundInv, NEW g \in Engines,
         PlaceFound(g) \/ SettleFilled(g)
  PROVE  FundInv'
<1>1. rec[g].act \in {"place", "fill"}
  BY DEF PlaceFound, SettleFilled
<1>2. PICK o \in Orders : o = rec[g].cur
  BY <1>1, OrderInHand
<1>3. (o \in Entries => o \notin Exits) /\ WriteOK(g)
  BY <1>1, <1>2, OrderInHand
<1>4. CASE PlaceFound(g)
  BY <1>1, <1>2, <1>3, <1>4, WriteKeepsFunds
     DEF PlaceFound, TryPlaced, RecordPlaced, MarkPlaced, SetStatus, Refused, DbError, ledgerVars,
         TypeOK, WriteOK
<1>5. CASE SettleFilled(g)
  <2>1. Written(g) /\ UNCHANGED <<pc, released, cut>>
    BY <1>5 DEF SettleFilled
  <2>2. \/ RecordFilledEntry(o)
        \/ o \in Exits /\ \E raw \in RawPnl : SettleFilledExit(o, raw)
        \/ UNCHANGED ledgerVars
    BY <1>2, <1>5 DEF SettleFilled, Refused, DbError
  <2>3. CASE RecordFilledEntry(o)
    BY <1>1, <1>2, <2>1, <2>3, WriteKeepsFunds
       DEF RecordFilledEntry, MarkFilled, SetStatus, TypeOK
  <2>4. ASSUME NEW raw \in RawPnl, o \in Exits, SettleFilledExit(o, raw)
        PROVE  FundInv'
    BY <1>1, <1>2, <2>1, <2>4, WriteKeepsFunds
       DEF SettleFilledExit, RecordFilledExit, MarkFilled, SetStatus, TypeOK
  <2>5. CASE UNCHANGED ledgerVars
    BY <1>1, <1>2, <2>1, <2>5, WriteKeepsFunds DEF ledgerVars
  <2>6. QED
    BY <2>2, <2>3, <2>4, <2>5
<1>6. QED
  BY <1>4, <1>5

\* The pending pass fails a row: if it is still pending the release is then in
\* hand, and nobody else's.
LEMMA FailPendingKeepsFunds ==
  ASSUME TypeOK, CreditedAtMostOnce, RecWrites, RowInv, FundInv,
         NEW g \in Engines, FailPending(g)
  PROVE  FundInv'
<1>1. rec[g].act = "fail"
  BY DEF FailPending
<1>2. PICK o \in Orders : o = rec[g].cur
  BY <1>1, OrderInHand
<1>3. /\ o \in Entries => FundOK(o) /\ o \notin Exits
      /\ pc[o] = "done" /\ status[o] # "none"
      /\ released \in [Entries -> Nat] /\ TradedIsReserved /\ cut \subseteq Orders
  BY <1>1, <1>2, OrderInHand DEF WriteOK
<1>4. CASE DbError /\ Written(g) /\ UNCHANGED cut
  BY <1>1, <1>2, <1>4, WriteKeepsFunds DEF FailPending, DbError, ledgerVars
<1>5. CASE ~(DbError /\ Written(g) /\ UNCHANGED cut)
  <2>1. /\ UNCHANGED <<pc, released, credits, traded>>
        /\ \A p \in Orders \ {o} : status'[p] = status[p]
        /\ status'[o] = "failed"
        /\ cut' = IF status[o] = "pending" THEN cut ELSE cut \cup {o}
    BY <1>2, <1>5 DEF FailPending, RecordFailed, MarkFailed, SetStatus, TypeOK
  <2>2. /\ \A h \in Engines \ {g} : rec'[h] = rec[h]
        /\ o \in Entries => rec'[g].act = "release" /\ rec'[g].cur = o
        /\ o \notin Entries => rec'[g].act = "none"
    BY <1>2, <1>5 DEF FailPending, Written, Reconcile, RecWrites
  <2>3. \A h \in Engines, e \in Entries :
          Releasing(h, e)' <=> Releasing(h, e) \/ (h = g /\ e = o)
    BY <1>1, <1>2, <2>2 DEF Releasing
  <2>4. TradedIsReserved'
    <3>1. \A e \in Entries : status'[e] = "none" <=> status[e] = "none"
      BY <1>3, <2>1 DEF Orders
    <3>2. QED
      BY <1>3, <2>1, <3>1, TradedUnchanged
  <2> HIDE DEF Releasing
  <2>5. o \in Entries => FundOK(o)'
    <3>1. status[o] = "pending" /\ o \in Entries /\ o \notin cut =>
            released[o] = 0 /\ \A h \in Engines : ~Releasing(h, o)
      BY <1>3 DEF FundOK
    <3>2. QED
      BY <1>3, <2>1, <2>3, <3>1 DEF FundOK
  <2>6. o \in Exits => (o \notin cut' /\ status'[o] = "failed" => credits'[o] = 0)
    BY <2>1 DEF CreditedAtMostOnce
  <2>7. QED
    BY <1>3, <2>1, <2>3, <2>4, <2>5, <2>6, OneOrderKeepsFunds
<1>6. QED
  BY <1>4, <1>5

\* The release that goes with a failed entry.  Where nothing was cut its
\* reservation is still counted in total_traded_fund, so it is not refused.
LEMMA ReleasePendingKeepsFunds ==
  ASSUME TypeOK, RecWrites, RowInv, FundInv, NEW g \in Engines, ReleasePending(g)
  PROVE  FundInv'
<1>1. rec[g].act = "release"
  BY DEF ReleasePending
<1>2. PICK e \in Entries : e = rec[g].cur
  BY <1>1 DEF RecWrites
<1>3. /\ FundOK(e) /\ e \in Orders /\ e \notin Exits /\ Releasing(g, e)
      /\ released \in [Entries -> Nat] /\ TradedIsReserved /\ cut \subseteq Orders
      /\ Uncut(ContractOf[e]) => e \notin cut
  BY <1>1, <1>2, OrderInHand, UncutEntry DEF Releasing, Orders
<1>4. /\ e \notin cut => status[e] = "failed" /\ released[e] = 0
      /\ \A h \in Engines : e \notin cut /\ Releasing(h, e) => h = g
  BY <1>3 DEF FundOK
<1>5. /\ UNCHANGED <<pc, status, credits>>
      /\ \A h \in Engines, f \in Entries : Releasing(h, f)' <=> (h # g /\ Releasing(h, f))
      /\ \A f \in Entries : Releasing(g, f) => f = e
  BY <1>2, WrittenReleases DEF ReleasePending, TryRelease, ReleaseReserved, Refused, DbError,
                               ledgerVars, Releasing
<1> HIDE DEF Releasing
<1>6. CASE /\ ReleaseReserved(e) /\ released' = [released EXCEPT ![e] = @ + 1]
           /\ UNCHANGED cut
  <2>1. /\ released' \in [Entries -> Nat] /\ released'[e] = released[e] + 1
        /\ \A p \in Entries \ {e} : released'[p] = released[p]
    BY <1>3, <1>6
  <2>2. Uncut(ContractOf[e])' => Uncut(ContractOf[e])
    BY <1>6, UncutBefore
  <2>3. TradedIsReserved'
    <3>1. CASE status[e] # "none"
      BY <1>3, <1>4, <1>5, <1>6, <2>2, <3>1, ReleaseKeepsTraded DEF ReleaseReserved
    <3>2. CASE status[e] = "none"
      <4>1. ~Uncut(ContractOf[e]) /\ \A c : Uncut(c)' <=> Uncut(c)
        BY <1>3, <1>4, <1>6, <3>2 DEF Uncut
      <4>2. \A c \in Contracts : c # ContractOf[e] =>
              traded'[c] = traded[c] /\ ReservedOf(c)' = ReservedOf(c)
        BY <1>5, <1>6, <2>1 DEF ReleaseReserved, ReleaseFund, ReservedOf, TypeOK
      <4>3. QED
        BY <1>3, <4>1, <4>2 DEF TradedIsReserved
    <3>3. QED
      BY <3>1, <3>2
  <2>4. FundOK(e)'
    BY <1>4, <1>5, <1>6, <2>1 DEF FundOK
  <2>5. QED
    BY <1>3, <1>5, <1>6, <2>1, <2>3, <2>4, OneOrderKeepsFunds
<1>7. CASE /\ UNCHANGED <<ledgerVars, released>>
           /\ \/ cut' = cut \cup {e}
              \/ UNCHANGED cut /\ ~CanRelease(ContractOf[e], Fund[e])
  <2>1. TradedIsReserved'
    BY <1>3, <1>7, TradedUnchanged DEF ledgerVars
  <2>2. Uncut(ContractOf[e])' => FALSE
    <3>1. ASSUME Uncut(ContractOf[e])'
          PROVE  FALSE
      <4>1. e \notin cut' /\ Uncut(ContractOf[e])
        BY <1>7, <3>1, UncutBefore DEF Uncut
      <4>2. CanRelease(ContractOf[e], Fund[e])
        BY <1>3, <1>4, <4>1, ReservedCanBeReleased
      <4>3. QED
        BY <1>7, <4>1, <4>2
    <3>2. QED
      BY <3>1
  <2>3. FundOK(e)'
    BY <1>4, <1>5, <1>7, <2>2 DEF FundOK
  <2>4. QED
    BY <1>3, <1>5, <1>7, <2>1, <2>3, OneOrderKeepsFunds DEF ledgerVars
<1>8. QED
  BY <1>2, <1>6, <1>7 DEF ReleasePending, TryRelease, Refused, DbError

\* A cancellation: an entry's fund is released in the same transaction.
LEMMA SettleCancelledKeepsFunds ==
  ASSUME TypeOK, RecWrites, RowInv, FundInv, NEW g \in Engines, SettleCancelled(g)
  PROVE  FundInv'
<1>1. rec[g].act = "cancel"
  BY DEF SettleCancelled
<1>2. PICK o \in Orders : o = rec[g].cur
  BY <1>1, OrderInHand
<1>3. /\ o \in Entries => FundOK(o) /\ o \notin Exits
      /\ o \notin Entries => o \in Exits
      /\ released \in [Entries -> Nat] /\ TradedIsReserved /\ cut \subseteq Orders
      /\ o \in Entries /\ Uncut(ContractOf[o]) => o \notin cut
  BY <1>1, <1>2, OrderInHand, UncutEntry DEF Orders
<1>4. UNCHANGED <<pc, cut>> /\ Written(g)
  BY DEF SettleCancelled
<1>5. CASE UNCHANGED ledgerVars /\ UNCHANGED released
  BY <1>1, <1>2, <1>4, <1>5, WriteKeepsFunds DEF ledgerVars
<1>6. CASE /\ RecordCancelled(o)
           /\ released' = IF o \in Entries THEN [released EXCEPT ![o] = @ + 1] ELSE released
  <2>1. /\ status[o] = "open" /\ status'[o] = "cancelled" /\ UNCHANGED credits
        /\ \A p \in Orders \ {o} : status'[p] = status[p]
    BY <1>6 DEF RecordCancelled, MarkCancelled, SetStatus, TypeOK
  <2>2. \A e \in Entries : status'[e] = "none" <=> status[e] = "none"
    BY <2>1 DEF Orders
  <2>3. \A h \in Engines, e \in Entries : Releasing(h, e)' <=> Releasing(h, e)
    BY <1>1, <1>4, WrittenReleases DEF Releasing
  <2> HIDE DEF Releasing
  <2>4. CASE o \in Entries
    <3>1. o \notin cut => released[o] = 0
      BY <1>3, <2>1, <2>4 DEF FundOK
    <3>2. /\ released' = [released EXCEPT ![o] = @ + 1]
          /\ ReleaseFund(ContractOf[o], Fund[o])
      BY <1>6, <2>4 DEF RecordCancelled
    <3>3. Uncut(ContractOf[o])' <=> Uncut(ContractOf[o])
      BY <1>4 DEF Uncut
    <3>4. TradedIsReserved'
      BY <1>3, <1>4, <2>1, <2>2, <2>4, <3>1, <3>2, <3>3, ReleaseKeepsTraded
    <3>5. /\ released' \in [Entries -> Nat] /\ released'[o] = released[o] + 1
          /\ \A p \in Entries \ {o} : released'[p] = released[p]
      BY <1>3, <2>4, <3>2
    <3>6. FundOK(o)'
      BY <1>3, <1>4, <2>1, <2>3, <2>4, <3>1, <3>3, <3>5 DEF FundOK
    <3>7. QED
      BY <1>3, <1>4, <2>1, <2>3, <2>4, <3>4, <3>5, <3>6, OneOrderKeepsFunds
  <2>5. CASE o \notin Entries
    <3>1. UNCHANGED <<released, traded>>
      BY <1>6, <2>5 DEF RecordCancelled
    <3>2. TradedIsReserved'
      BY <1>3, <1>4, <2>2, <3>1, TradedUnchanged
    <3>3. QED
      BY <1>3, <1>4, <2>1, <2>3, <2>5, <3>1, <3>2, OneOrderKeepsFunds
  <2>6. QED
    BY <2>4, <2>5
<1>7. QED
  BY <1>2, <1>5, <1>6 DEF SettleCancelled, Refused, DbError

\* FundInv is inductive, for any number of engines and with every fault.
LEMMA StepKeepsFundInv ==
  ASSUME TypeOK, CreditedAtMostOnce, RecWrites, RowInv, FundInv, [Next]_vars
  PROVE  FundInv'
<1>1. ASSUME NEW g \in Engines, ReconcilerStep(g)
      PROVE  FundInv'
  <2>1. CASE \/ PendingPass(g) \/ OpenPass(g) \/ PassDone(g)
             \/ \E o \in Orders : PendingLookup(g, o) \/ OpenLookup(g, o)
    BY <2>1, LookupKeepsFunds
  <2>2. QED
    BY <1>1, <2>1, PlaceAndFillKeepFunds, FailPendingKeepsFunds, ReleasePendingKeepsFunds,
       SettleCancelledKeepsFunds DEF ReconcilerStep
<1>2. QED
  BY <1>1, OtherTasksKeepFunds, TraderKeepsFunds, PlacementKeepsFunds, CrashKeepsFunds DEF Next

\* Who has to release an entry's fund is decided at every moment, unless the
\* entry's failure was cut in two; and where nothing was cut total_traded_fund is
\* the sum of the reservations that were not given back.
THEOREM EngineFundInv == Spec => []FundInv
<1>1. Init => FundInv
  <2>1. ASSUME Init, NEW c \in Contracts
        PROVE  traded[c] = 0 /\ ReservedOf(c) = {}
    BY <2>1 DEF Init, LedgerInit, ReservedOf, Orders
  <2>2. Init => TradedIsReserved
    BY <2>1, SumEmpty DEF TradedIsReserved
  <2>3. ASSUME Init
        PROVE  /\ released \in [Entries -> Nat] /\ cut \subseteq Orders
               /\ \A e \in Entries : FundOK(e)
               /\ FailedExitsUncredited
    BY <2>3 DEF Init, LedgerInit, RecIdle, FundOK, FailedExitsUncredited, Releasing, Orders
  <2>4. QED
    BY <2>2, <2>3 DEF FundInv
<1>2. TypeOK /\ CreditedAtMostOnce /\ RecWrites /\ RowInv /\ FundInv /\ [Next]_vars => FundInv'
  BY StepKeepsFundInv
<1>3. Spec => []TypeOK
  BY EngineImplementsLedger, LedgerTypeCorrect, PTL
<1>4. QED
  BY <1>1, <1>2, <1>3, EngineRecWrites, EngineRowInv, EngineCreditedAtMostOnce, PTL DEF Spec

\* The balance of a contract is explained by its rows (README "Fund accounting")
\* whenever no task of it stands between a failed entry and its release, and none
\* was stopped there: for any number of engines, and with every fault elsewhere.
THEOREM EngineFundsMatchRows == Spec => []FundsMatchRows
<1>1. ASSUME TypeOK, FundsConserved, CreditedAtMostOnce, FundInv, NEW c \in Contracts, Uncut(c),
             \A e \in Entries : ContractOf[e] = c => ~HalfWay(e)
      PROVE  available[c] = InitFund[c] - SumFunctionOnSet(Fund, Holding(c))
                                        + SumFunctionOnSet(Proceeds, ClosedOf(c))
  <2>1. Holding(c) = ReservedOf(c)
    <3>1. ASSUME NEW e \in Entries, ContractOf[e] = c
          PROVE  (status[e] \in {"pending", "open", "filled"})
                   <=> (status[e] # "none" /\ released[e] = 0)
      <4>1. /\ FundOK(e) /\ e \notin cut /\ status[e] \in Statuses
            /\ pc[e] # "released" /\ ~\E g \in Engines : Releasing(g, e)
        BY <1>1, <3>1, UncutEntry DEF FundInv, TypeOK, Orders, HalfWay
      <4> HIDE DEF Releasing
      <4>2. QED
        BY <1>1, <3>1, <4>1 DEF FundOK, Statuses
    <3>2. QED
      BY <3>1 DEF Holding, ReservedOf
  <2>2. ClosedOf(c) = CreditedExits(c)
    <3>1. ASSUME NEW x \in Exits, ContractOf[EntryOf[x]] = c
          PROVE  (status[x] = "filled") <=> (credits[x] > 0)
      <4>1. x \notin cut
        BY <1>1, <3>1, LedgerAssumption DEF Uncut
      <4>2. QED
        BY <1>1, <4>1 DEF FundInv, FailedExitsUncredited, CreditedAtMostOnce, TypeOK, Statuses, Orders
    <3>2. QED
      BY <3>1 DEF ClosedOf, CreditedExits
  <2>3. traded[c] = SumFunctionOnSet(Fund, Holding(c))
    BY <1>1, <2>1 DEF FundInv, TradedIsReserved
  <2>4. credited[c] = SumFunctionOnSet(Proceeds, ClosedOf(c))
    BY <1>1, <2>2 DEF FundsConserved, CreditsExplained
  <2>5. available[c] + traded[c] = InitFund[c] + credited[c]
    BY <1>1 DEF FundsConserved, FundsMoved
  <2>6. /\ available[c] \in Int /\ traded[c] \in Int /\ credited[c] \in Int
        /\ InitFund[c] \in Int
    BY <1>1, LedgerAssumption DEF TypeOK
  <2>7. available[c] = InitFund[c] - traded[c] + credited[c]
    BY <2>5, <2>6
  <2>8. QED
    BY <2>3, <2>4, <2>7
<1>2. TypeOK /\ FundsConserved /\ CreditedAtMostOnce /\ FundInv => FundsMatchRows
  BY <1>1 DEF FundsMatchRows
<1>3. Spec => []TypeOK
  BY EngineImplementsLedger, LedgerTypeCorrect, PTL
<1>4. QED
  BY <1>2, <1>3, EngineFundsConserved, EngineCreditedAtMostOnce, EngineFundInv, PTL

\* The trader, the pending pass and the open pass together give a reservation back
\* at most once, and a second release has one of few causes: the first transaction
\* of a failure was not followed by the second (a crash, a dropped handler, a
\* database error), or two reconcilers failed the row.
SecondReleaseHasCause == \A e \in Entries : released[e] > 1 => e \in cut

\* No other fault and no interleaving leads to a second release.
THEOREM EngineSecondReleaseHasCause == Spec => []SecondReleaseHasCause
<1>1. TypeOK /\ FundInv => SecondReleaseHasCause
  <2>1. ASSUME TypeOK, FundInv, NEW e \in Entries, e \notin cut
        PROVE  released[e] \in {0, 1}
    <3>1. FundOK(e) /\ status[e] \in Statuses
      BY <2>1 DEF FundInv, TypeOK, Orders
    <3>2. QED
      BY <2>1, <3>1 DEF FundOK, Statuses
  <2>2. QED
    BY <2>1 DEF SecondReleaseHasCause
<1>2. QED
  BY <1>1, EngineImplementsLedger, LedgerTypeCorrect, EngineFundInv, PTL

\* An entry rejected or never placed gives its fund back.
THEOREM EngineFailedEntryReleased == Spec => []FailedEntryReleased
<1>1. FundInv => FailedEntryReleased
  BY UncutEntry DEF FundInv, FundOK, FailedEntryReleased, HalfWay
<1>2. QED
  BY <1>1, EngineFundInv, PTL
=============================================================================
