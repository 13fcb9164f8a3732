----------------------------- MODULE MCWatcher -----------------------------
(***************************************************************************)
(* The walker on a chain of four heights with two branches, and transfers  *)
(* on the trunk, on both branches at different heights, and on one only.   *)
(***************************************************************************)
EXTENDS Watcher, TLC

CONSTANTS p1, p2, p3

TrunkAndBranches == (p1 :> {<<1, 1>>}) @@ (p2 :> {<<2, 1>>, <<3, 2>>}) @@ (p3 :> {<<3, 1>>})
=============================================================================
