----------------------------- MODULE MCResident -----------------------------
(***************************************************************************)
(* What a resident does beside speaking, and the launchers that start and  *)
(* stop it; a behaviour of this module is one of one part, the others      *)
(* resting in an initial state:                                            *)
(*   tools       ToolExecution, tools of an agent with approvals           *)
(*   candidates  Participation, what the resident says unasked             *)
(*   launcher    LocalStack, two starts of the resident and its watcher    *)
(*   stack       LocalStack, the integration environment and its stop      *)
(***************************************************************************)
EXTENDS ToolExecution, Participation, LocalStack, TLC

CONSTANTS
  fine,          \* the path inside the workspace; the others are sensitive
  b1, b2, q1, g1 \* commands of the launchers, a watcher

VARIABLES
  stackProcs, stackDisk, stackLock, stackAct, stackMonitor, stackKills,
  part    \* whose behaviour it is

Where == [p \in Paths |-> IF p = fine THEN "inside" ELSE "sensitive"]

\* The window of the resident, its gateway and its watcher ...
InOrder == <<"gateway", "runtime">>
Backwards == <<"runtime", "gateway">>
AllStart == [c \in Commands |-> "start"]

\* ... and Karte, the gateway and the runtime, with processes of their own.
S == INSTANCE LocalStack WITH
  Resident <- FALSE, Apps <- {"karte", "runtime"},
  Order <- <<"karte", "gateway", "runtime">>, Closing <- <<"runtime", "karte", "gateway">>,
  Commands <- {b1, q1}, Does <- [c \in {b1, q1} |-> IF c = q1 THEN "stop" ELSE "start"],
  Watchers <- {}, MaxProcesses <- 3, MaxKills <- 1,
  procs <- stackProcs, disk <- stackDisk, lock <- stackLock, act <- stackAct,
  monitor <- stackMonitor, kills <- stackKills

ASSUME ThreadsAssumption /\ PathsAssumption /\ OutputAssumption
ASSUME OpsAssumption /\ LimitsAssumption
ASSUME LaunchersAssumption /\ ClosingAssumption
ASSUME S!LaunchersAssumption /\ S!ClosingAssumption

otherStack == <<stackProcs, stackDisk, stackLock, stackAct, stackMonitor, stackKills>>
all == <<toolVars, participationVars, stackVars, otherStack, part>>

InitOne ==
  /\ ToolInit /\ ParticipationInit /\ StackInit /\ S!StackInit
  /\ \/ part = "tools"
     \/ part \in {"candidates", "launcher", "stack"} /\ \A p \in Paths : files[p] = "missing"

NextOne ==
  \/ part = "tools" /\ ToolNext /\ UNCHANGED <<participationVars, stackVars, otherStack, part>>
  \/ part = "candidates" /\ ParticipationNext /\ UNCHANGED <<toolVars, stackVars, otherStack, part>>
  \/ part = "launcher" /\ StackNext /\ UNCHANGED <<toolVars, participationVars, otherStack, part>>
  \/ part = "stack" /\ S!StackNext /\ UNCHANGED <<toolVars, participationVars, stackVars, part>>

SpecOne == InitOne /\ [][NextOne]_all

\* WindowsFirst of either launcher, stated and explained in LocalStack.
WindowsAlwaysFirst == WindowsFirst /\ S!WindowsFirst
=============================================================================
