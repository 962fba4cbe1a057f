----------------------------- MODULE MCLauncher -----------------------------
(* The resident's launcher, started twice, for TLC.                        *)
EXTENDS LocalStack
CONSTANTS c1, c2, w1

StartOrder == <<"gateway", "irodori", "runtime">>
StopOrder == <<"runtime", "gateway", "irodori">>
Starts == [c \in Commands |-> "start"]
=============================================================================
