----------------------------- MODULE MCTestSession -----------------------------
(***************************************************************************)
(* Small sessions: which tests are wanted, which commands are given.       *)
(***************************************************************************)
EXTENDS TestSession

OneTest  == << [type |-> "SwitchTest", load |-> "LOAD_25P"] >>
TwoTypes == << [type |-> "SwitchTest", load |-> "LOAD_25P"],
               [type |-> "BackupTest", load |-> "LOAD_50P"] >>

AnyCommand == {"AUTO", "MANUAL", "START", "STOP", "PAUSE"}

TwoCommands == {[wanted |-> OneTest, commands |-> <<AnyCommand, AnyCommand>>]}
AutoStart   == {[wanted |-> TwoTypes, commands |-> <<{"AUTO"}, {"START"}>>]}
ManySessions == AutoStart \union
  {[wanted |-> OneTest, commands |-> <<AnyCommand, AnyCommand, AnyCommand>>]}
===============================================================================
