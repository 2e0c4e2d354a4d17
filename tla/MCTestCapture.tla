----------------------------- MODULE MCTestCapture -----------------------------
(***************************************************************************)
(* Durations in units of 50 ms: long enough for a capture, a bounce and a  *)
(* second edge within one run.                                             *)
(***************************************************************************)
EXTENDS TestCapture

Short == [t \in Types |-> 6]

\* Two runs of one test; or two tests, one beside the other or one after the other.
RunsToWatch == {[tested |-> {"SwitchTest"}, until |-> 39, edges |-> 3],
                [tested |-> Types, until |-> 24, edges |-> 2]}

TwoRuns == {[tested |-> {"SwitchTest"}, until |-> 34, edges |-> 4]}
===============================================================================
