----------------------------- MODULE MCProcess ------------------------------
(* Small instances of Process for TLC: process p is fed and tailed, q has  *)
(* no runner.                                                              *)
EXTENDS Process

CONSTANTS p, q
=============================================================================
