------------------------------ MODULE MCStore ------------------------------
(***************************************************************************)
(* Model checking of Store.  Two records of size 1 fill a segment by       *)
(* count, one of size 4 by bytes, and one of size 5 never fits, so both    *)
(* rotations and both refusals happen; the store limit is reached within a *)
(* run; three runs leave two crashes and a third open behind them.         *)
(***************************************************************************)
EXTENDS Store
=============================================================================
