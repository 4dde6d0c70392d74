------------------------------ MODULE MCSpammer ------------------------------
(* Instances of Spammer for TLC.                                           *)
EXTENDS Spammer

CONSTANTS spam0, spam1

TwoSpammers == <<spam0, spam1>>
=============================================================================
