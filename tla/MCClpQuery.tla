----------------------------- MODULE MCClpQuery -----------------------------
(* The pools of MCCLP with the queries for them.                           *)
EXTENDS MCCLP, ClpQuery
=============================================================================
