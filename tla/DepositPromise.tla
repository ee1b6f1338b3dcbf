--------------------------- MODULE DepositPromise ---------------------------
(***************************************************************************)
(* What the deposit worker promises for each deposit, whatever the number  *)
(* of workers, failures and restarts: a ticket, then one credit of the     *)
(* amount KuCoin received, then at most one transfer of that amount to the *)
(* trade account.  A deposit is the text of a transaction hash, which the  *)
(* unique index compares as it stands, while the RPC reads hex in either   *)
(* case: one transaction may have the rows of several texts, and the       *)
(* promise is that at most one of them is credited.                        *)
(***************************************************************************)
EXTENDS Integers

CONSTANTS
  Deposits,  \* texts of transaction hashes (the unique tx_hash column)
  TxOf,      \* the on-chain transaction each text names
  Wallets,   \* wallet addresses of users
  WalletOf,  \* from_address of each deposit's transaction
  KcAmount   \* amount KuCoin credited to the platform for each deposit

ASSUME DepositAssumption ==
  /\ DOMAIN TxOf = Deposits
  /\ WalletOf \in [Deposits -> Wallets]
  /\ KcAmount \in [Deposits -> Nat \ {0}]

VARIABLES
  status,   \* status column of each deposit row ("none" before it exists)
  balance,  \* balance column of each user
  moved     \* amount moved Main -> Trade for each deposit

promiseVars == <<status, balance, moved>>

PromiseInit ==
  /\ status = [d \in Deposits |-> "none"]
  /\ balance = [u \in Wallets |-> 0]
  /\ moved = [d \in Deposits |-> 0]

Ticket(d) ==
  /\ status[d] = "none"
  /\ status' = [status EXCEPT ![d] = "pending"]
  /\ UNCHANGED <<balance, moved>>

\* No text of the transaction of d is credited.
Uncredited(d) == \A e \in Deposits : TxOf[e] = TxOf[d] => status[e] # "confirmed"

Credit(d) ==
  /\ status[d] = "pending"
  /\ Uncredited(d)
  /\ status' = [status EXCEPT ![d] = "confirmed"]
  /\ balance' = [balance EXCEPT ![WalletOf[d]] = @ + KcAmount[d]]
  /\ UNCHANGED moved

Move(d) ==
  /\ status[d] = "confirmed"
  /\ moved[d] = 0
  /\ moved' = [moved EXCEPT ![d] = KcAmount[d]]
  /\ UNCHANGED <<status, balance>>

PromiseNext == \E d \in Deposits : Ticket(d) \/ Credit(d) \/ Move(d)

PromiseSpec == PromiseInit /\ [][PromiseNext]_promiseVars
=============================================================================
