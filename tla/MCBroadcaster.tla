---------------------------- MODULE MCBroadcaster ----------------------------
(***************************************************************************)
(* Model checking of module Broadcaster: transactions that no search looks *)
(* for are interchangeable.                                                *)
(***************************************************************************)
EXTENDS Broadcaster, TLC

Unsearched == Permutations(TxIDs \ UNION Matches)

==============================================================================
