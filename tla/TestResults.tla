------------------------------ MODULE TestResults ------------------------------
(***************************************************************************)
(* What a session promises about results.  A kind of test is run only when *)
(* a test of that kind is on the list.  A test is done once, and only      *)
(* after a run of its kind has yielded valid data, which are not lost      *)
(* before.  The list only grows, and what is on it stays as it was asked   *)
(* for.  It is not promised that each test has a run of its own: the data  *)
(* of one run may serve several tests of its kind.                         *)
(*                                                                         *)
(*   listed    the tests handed over, and which of them are done           *)
(*   running   the kinds of test that run                                  *)
(*   proven    the kinds that have yielded valid data                      *)
(***************************************************************************)
EXTENDS SequencesExt

CONSTANT Kinds

VARIABLES listed, running, proven

vars == <<listed, running, proven>>

Init == listed = <<>> /\ running = {} /\ proven = {}

\* Tests are handed over, all of them pending.
List == /\ IsPrefix(listed, listed')
        /\ \A i \in DOMAIN listed' \ DOMAIN listed : ~listed'[i].done
        /\ UNCHANGED <<running, proven>>

Begin(k) == /\ k \notin running
            /\ \E i \in DOMAIN listed : listed[i].type = k
            /\ running' = running \union {k}
            /\ UNCHANGED <<listed, proven>>

\* A run ends without valid data, or with them.
Fail(k) == /\ k \in running
           /\ running' = running \ {k}
           /\ UNCHANGED <<listed, proven>>

Succeed(k) == /\ k \in running
              /\ running' = running \ {k}
              /\ proven' = proven \union {k}
              /\ UNCHANGED listed

Finish(i) == /\ ~listed[i].done
             /\ listed[i].type \in proven
             /\ listed' = [listed EXCEPT ![i].done = TRUE]
             /\ UNCHANGED <<running, proven>>

Next == \/ List
        \/ \E k \in Kinds : Begin(k) \/ Fail(k) \/ Succeed(k)
        \/ \E i \in DOMAIN listed : Finish(i)

Spec == Init /\ [][Next]_vars
===============================================================================
