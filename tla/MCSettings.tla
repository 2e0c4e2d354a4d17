------------------------------- MODULE MCSettings -------------------------------
(***************************************************************************)
(* A few forms: ratings that grow, shrink, have a fraction or are not      *)
(* divisible by four, numbers below zero or too large for an int,          *)
(* fields that are rejected first, last or alone, and an empty form.       *)
(***************************************************************************)
EXTENDS WebRequests

Form(type, entries) ==
  [type |-> type,
   entries |-> [i \in DOMAIN entries |->
                  [field |-> entries[i][1],
                   number |-> [whole |-> entries[i][2], tenths |-> entries[i][3]]]]]

\* -1 is read as -1, which no unsigned type has, -0.5 as -1 and five tenths, which
\* is cut to 0.
SomeForms ==
  { Form("SPEC", << <<"RatingVa", 101, 5>> >>),
    Form("SPEC", << <<"RatingVa", 3999, 0>>, <<"RatedCurrent", 23, 0>> >>),
    Form("SPEC", << <<"RatingVa", 4001, 0>>, <<"AvgSwitchTime", -1, 5>> >>),
    Form("TEST", << <<"BACKUP_TestDuration", -1, 0>>, <<"MaxRetest", 536870912, 0>> >>),
    Form("TEST", <<>>) }

\* 2^30 for 2^32.  What cannot be converted becomes 0, or 2^29: a backup may last that
\* long; as an int, 2^29 is negative.
Values30 == 1073741824
SomeOutOfRange == {0, 536870912}
===============================================================================
