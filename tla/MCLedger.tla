------------------------------ MODULE MCLedger ------------------------------
(* Two contracts; one of them with two entries, the first of which may be   *)
(* exited twice.  The second entry of c1 does not fit beside the first      *)
(* unless the first is released or closed with a profit.                    *)
EXTENDS Ledger, TLC

CONSTANTS c1, c2, e1, e2, e3, x1, x2

MCContracts == {c1, c2}
MCEntries == {e1, e2, e3}
MCExits == {x1, x2}
MCInitFund == (c1 :> 3) @@ (c2 :> 1)
MCContractOf == (e1 :> c1) @@ (e2 :> c1) @@ (e3 :> c2)
MCEntryOf == (x1 :> e1) @@ (x2 :> e1)
MCFund == (e1 :> 2) @@ (e2 :> 2) @@ (e3 :> 1)
MCRawPnl == {-3, 1}
=============================================================================
