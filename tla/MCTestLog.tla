------------------------------ MODULE MCTestLog ------------------------------
(* A small instance of TestLog: two goroutines, the handlers of a test       *)
(* logger and one derived by the test, two values of an attribute, and a     *)
(* write of two lines around an empty one.                                   *)
EXTENDS TestLog

CONSTANTS root, logger, h1, p1, p2, m1, m2, blank, v1, v2

MCHandlers == {root, logger, h1}
MCProcs    == {p1, p2}
MCVals     == {v1, v2}
MCWrites   == {<<m1, blank, m2>>}
=============================================================================
