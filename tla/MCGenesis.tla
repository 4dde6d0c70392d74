------------------------------ MODULE MCGenesis ------------------------------
(* Model checking of Genesis.                                              *)
EXTENDS Genesis
=============================================================================
