----------------------------- MODULE SignalPromise -----------------------------
(***************************************************************************)
(* What publishing a signal promises while one trade engine runs: the      *)
(* contracts are traded only on what the analyzer asked for, and at most   *)
(* once.  The promise starts afresh with the engine: the ids it has seen   *)
(* are kept in its memory.                                                 *)
(***************************************************************************)
EXTENDS SequencesExt

VARIABLES
  asked,   \* ids the analyzer has signalled
  traded   \* ids the running engine has traded on, in turn

PromiseInit == asked = {} /\ traded = <<>>

Ask == asked \subseteq asked' /\ UNCHANGED traded

Trade(id) ==
  /\ ~Contains(traded, id)
  /\ traded' = Append(traded, id)
  /\ UNCHANGED asked

Restart == traded' = <<>> /\ UNCHANGED asked

PromiseNext == Ask \/ (\E id \in asked : Trade(id)) \/ Restart

PromiseSpec == PromiseInit /\ [][PromiseNext]_<<asked, traded>>
=============================================================================
