----------------------------- MODULE TestHandover -----------------------------
(***************************************************************************)
(* What the intake of tests promises: a test is requested once, requests   *)
(* keep their order, and they are handed to the test manager in passes,    *)
(* each of which starts with the first request and skips none.             *)
(*                                                                         *)
(*   requested   the tests the user asked for                              *)
(*   handed      everything the manager was given, pass after pass         *)
(***************************************************************************)
EXTENDS Sequences, SequencesExt

CONSTANT Tests

VARIABLES requested, handed

vars == <<requested, handed>>

Init == requested = <<>> /\ handed = <<>>

Request == /\ \E t \in Tests \ Range(requested) : requested' = Append(requested, t)
           /\ UNCHANGED handed

\* The first request opens a pass, any other follows its predecessor.
HandOver == /\ \E k \in DOMAIN requested :
                 /\ k > 1 => handed # <<>> /\ Last(handed) = requested[k - 1]
                 /\ handed' = Append(handed, requested[k])
            /\ UNCHANGED requested

Next == Request \/ HandOver

Spec == Init /\ [][Next]_vars
===============================================================================
