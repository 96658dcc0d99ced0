------------------------------ MODULE MCLedger ------------------------------
(***************************************************************************)
(* Small ledgers for TLC: two players, one of whom referred the other.     *)
(***************************************************************************)
EXTENDS Ledger

CONSTANTS alice, bob

\* The referrer row was written by hand and refers the player to itself.
SelfReferrer == [u \in Users |-> IF u = bob THEN alice ELSE u]
=============================================================================
