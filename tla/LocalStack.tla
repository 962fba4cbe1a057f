----------------------------- MODULE LocalStack -----------------------------
(***************************************************************************)
(* scripts/integration_stack.py and scripts/resident_app.py: the launchers *)
(* that start and stop the services and the windows of one machine.  A     *)
(* command holds the lifecycle lock from its first step to its last, and   *)
(* keeps what it started in processes.json.  A service is found by its     *)
(* port, a window by its program.  The resident's launcher also undoes a   *)
(* start that failed, and leaves a watcher that stops the services once    *)
(* the window is closed.                                                   *)
(*                                                                         *)
(* Abstractions.  A process stands for its pid together with the start     *)
(* time and name that ps shows: `reused' says that the pid is another      *)
(* program's by now.  Looking at a process and signaling it is one step,   *)
(* and so is opening a window and recording it.  A deadline may be over at *)
(* any time.  Models that the desktop manages, the warming up of the       *)
(* speech service, the worker of the recognizer (which ends with its       *)
(* window) and the fixture of the Karte are left out; what may fail in     *)
(* these steps is a wait that fails.                                       *)
(***************************************************************************)
EXTENDS Naturals, Sequences, FiniteSets

CONSTANTS Resident,     \* resident_app.py; else integration_stack.py
          Ports,        \* the services, started with ensure_service
          Apps,         \* the windows
          Order,        \* both, in the order they are started
          Closing,      \* both, in the order they are stopped
          Commands,     \* invocations of a launcher
          Does,         \* "start" or "stop", of a command
          Watchers,     \* at most so many watchers
          Tries,        \* attempts of a watcher, 6
          MaxProcesses, \* bound on the processes
          MaxKills,     \* bound on the commands that are killed
          Nobody        \* neither command nor watcher

Names  == Ports \cup Apps
Actors == Commands \cup Watchers

LaunchersAssumption ==
  /\ Resident \in BOOLEAN /\ Ports \cap Apps = {} /\ "runtime" \in Apps
  /\ Order \in Seq(Names) /\ Closing \in Seq(Names)
  /\ Does \in [Commands -> {"start", "stop"}]
  /\ Commands \cap Watchers = {} /\ Nobody \notin Actors

\* Windows are asked to close before the services are; the resident, which
\* alone leaves watchers, has one window.
ClosingAssumption ==
  /\ \A n \in Apps, i \in DOMAIN Closing :
       Closing[i] \in Ports => \E j \in 1 .. i - 1 : Closing[j] = n
  /\ Watchers # {} => Apps = {"runtime"}

VARIABLES
  procs,     \* all processes that ever were, by number
  disk,      \* processes.json: a record of every name
  lock,      \* who holds lifecycle.lock
  act,       \* the commands and the watchers
  monitor,   \* monitor.json: the latest watcher
  kills

stackVars == <<procs, disk, lock, act, monitor, kills>>

\* Process 0 stands for none.
NoRecord == [proc |-> 0, started |-> FALSE]
Records  == [Names -> [proc : 0..MaxProcesses, started : BOOLEAN]]

Nothing == [n \in Names |-> NoRecord]
Resting == [pc |-> "idle", step |-> 1, proc |-> 0, child |-> FALSE, mem |-> Nothing,
            before |-> Nothing, app |-> NoRecord, tries |-> 0]

-----------------------------------------------------------------------------
\* process_identity: a process that runs, and has the identity recorded.
Alive(p) == p # 0 /\ procs[p].state \in {"starting", "bound", "ready", "closing"}

RunningAs(n) == {p \in DOMAIN procs : procs[p].name = n /\ Alive(p)}
Owners(n) == {p \in RunningAs(n) : procs[p].state \in {"bound", "ready"}}

\* What listener may return: at most one process owns a port, and one that was
\* told to end may own it until it is gone.
Listener(n) ==
  IF Owners(n) # {} THEN Owners(n)
  ELSE {0} \cup {p \in RunningAs(n) : procs[p].state = "closing"}

New(n, who) == [name |-> n, state |-> "starting", by |-> who]
Spawned(n, who) == Append(procs, New(n, who))
Become(p, s) == procs' = [procs EXCEPT ![p].state = s]

Set(a, r) == act' = [act EXCEPT ![a] = r]
Over(pc)  == [Resting EXCEPT !.pc = pc]
Release   == lock' = Nobody
KeepLock  == UNCHANGED <<lock, monitor, kills>>

-----------------------------------------------------------------------------
(* A command begins *)

\* owned_or_free of every port, before anything is started.
Seen == {seen \in [Ports -> 0..MaxProcesses] : \A n \in Ports : seen[n] \in Listener(n)}
Foreign(seen) == \E n \in Ports : seen[n] \notin {0, disk[n].proc}

\* A second window of one program is an error.
Found == [n \in Names |-> IF n \in Apps /\ RunningAs(n) # {}
                          THEN [proc |-> CHOOSE p \in RunningAs(n) : TRUE, started |-> FALSE]
                          ELSE NoRecord]

BeginStart(c) ==
  /\ act[c].pc = "idle" /\ Does[c] = "start" /\ lock = Nobody
  /\ \E seen \in Seen :
     IF \/ Resident /\ Foreign(seen)
        \/ ~Resident /\ \E n \in Apps : Cardinality(RunningAs(n)) > 1
     THEN Set(c, Over("failed")) /\ UNCHANGED lock
     ELSE /\ Set(c, [act[c] EXCEPT !.pc = "start", !.before = disk,
                                   !.mem = IF Resident THEN disk ELSE Found])
          /\ lock' = c
  /\ UNCHANGED <<procs, disk, monitor, kills>>

BeginStop(c) ==
  /\ act[c].pc = "idle" /\ Does[c] = "stop" /\ lock = Nobody
  /\ Set(c, [act[c] EXCEPT !.pc = "stop", !.mem = disk])
  /\ lock' = c
  /\ UNCHANGED <<procs, disk, monitor, kills>>

\* exclusive does not wait.
Refused(c) ==
  /\ act[c].pc = "idle" /\ lock # Nobody
  /\ Set(c, Over("failed"))
  /\ UNCHANGED <<procs, disk, lock, monitor, kills>>

-----------------------------------------------------------------------------
(* start, service by service *)

Due(c) == Order[act[c].step]

\* remember: the record is written before the next service is looked at.
Recorded_late(c, r) == disk   \* mutant
Recorded(c, r) == [act[c].mem EXCEPT ![Due(c)] = r]
Remember(c, r, pc, step) ==
  /\ Set(c, [act[c] EXCEPT !.pc = pc, !.step = step, !.proc = 0,
                           !.child = FALSE, !.mem[Due(c)] = r])
  /\ disk' = Recorded(c, r)

Starting(c, names) ==
  act[c].pc = "start" /\ act[c].step <= Len(Order) /\ Due(c) \in names

\* ensure_service looks for the owner of the port, or starts the service.
EnsureService(c) ==
  /\ Starting(c, Ports)
  /\ \E p \in Listener(Due(c)) :
     IF p # 0
     THEN /\ Set(c, [act[c] EXCEPT !.pc = "ready", !.proc = p, !.child = FALSE])
          /\ UNCHANGED procs
     ELSE /\ Len(procs) < MaxProcesses
          /\ Set(c, [act[c] EXCEPT !.pc = "ready", !.proc = Len(procs) + 1, !.child = TRUE])
          /\ procs' = Spawned(Due(c), c)
  /\ UNCHANGED disk /\ KeepLock

\* It answers, and still is the one that was found or started.
Ready(c) ==
  /\ act[c].pc = "ready" /\ procs[act[c].proc].state = "ready"
  /\ Remember(c, [proc |-> act[c].proc, started |-> act[c].child], "start", act[c].step + 1)
  /\ UNCHANGED procs /\ KeepLock

\* open_app; the resident's launcher goes by its own record.
OpenApp(c) ==
  LET name == Due(c)
      open == IF Resident THEN {p \in {act[c].mem[name].proc} : Alive(p)} ELSE RunningAs(name)
  IN
  /\ Starting(c, Apps)
  /\ IF open # {}
     THEN /\ \E p \in open :
               Remember(c, IF Resident THEN act[c].mem[name]
                                       ELSE [proc |-> p, started |-> FALSE], "window", act[c].step)
          /\ UNCHANGED procs
     ELSE /\ Len(procs) < MaxProcesses
          /\ Remember(c, [proc |-> Len(procs) + 1, started |-> TRUE], "window", act[c].step)
          /\ procs' = Spawned(name, c)
  /\ KeepLock

\* wait_for_karte and the wait for the recognizer, without which the resident's
\* launcher goes on.
WindowReady(c) ==
  LET p == act[c].mem[Due(c)].proc IN
  /\ act[c].pc = "window" /\ Alive(p)
  /\ Resident \/ procs[p].state = "ready"
  /\ Set(c, [act[c] EXCEPT !.pc = "start", !.step = @ + 1])
  /\ UNCHANGED <<procs, disk>> /\ KeepLock

-----------------------------------------------------------------------------
(* The end of start *)

\* monitor_matches: the latest watcher lives and watches this window.
Watched(c) ==
  monitor # Nobody /\ act[monitor].pc \notin {"idle", "end"}
                   /\ act[monitor].app.proc = act[c].mem["runtime"].proc

Finish(c) ==
  /\ act[c].pc = "start" /\ act[c].step > Len(Order)
  /\ LET done == [act EXCEPT ![c] = Over("done")] IN
     IF ~Resident \/ Watched(c)
     THEN act' = done /\ UNCHANGED monitor
     ELSE \E w \in Watchers :
            /\ act[w].pc = "idle"
            /\ act' = [done EXCEPT ![w].pc = "new", ![w].app = act[c].mem["runtime"]]
            /\ monitor' = w
  /\ Release /\ UNCHANGED <<procs, disk, kills>>

\* What the start that failed is taken to have created: every record it changed.
Created(c) == [n \in Names |-> IF disk[n] # act[c].before[n] THEN disk[n] ELSE NoRecord]

\* A child exited, another process answers, a window is gone, a deadline is over
\* or a check failed.  A child that was started is ended first.
Fails(c) ==
  /\ act[c].pc \in {"start", "ready", "window"}
  /\ IF act[c].pc = "ready" /\ act[c].child THEN Become(act[c].proc, "gone")
                                            ELSE UNCHANGED procs
  /\ IF Resident
     THEN Set(c, [act[c] EXCEPT !.pc = "undo", !.step = 1, !.proc = 0,
                                !.child = FALSE, !.mem = Created(c)]) /\ UNCHANGED lock
     ELSE Set(c, Over("failed")) /\ Release
  /\ UNCHANGED <<disk, monitor, kills>>

-----------------------------------------------------------------------------
(* stop_services: by stop, by a start that failed and by a watcher *)

\* A watcher tries again; its attempts are counted.
Ended(a, fine) ==
  /\ Release
  /\ Set(a, IF a \in Commands THEN Over(IF fine /\ act[a].pc = "stop" THEN "done" ELSE "failed")
            ELSE IF fine \/ act[a].tries + 1 = Tries THEN Over("end")
            ELSE [Over("try") EXCEPT !.app = act[a].app, !.tries = act[a].tries + 1])

InStop(a) == act[a].pc \in {"stop", "undo"}
Victim(a) == act[a].mem[Closing[act[a].step]].proc
NextVictim(a) == Set(a, [act[a] EXCEPT !.step = @ + 1, !.proc = 0])

\* No record, or the process is gone.
Skip(a) ==
  /\ InStop(a) /\ act[a].step <= Len(Closing)
  /\ Victim(a) # 0 => procs[Victim(a)].state = "gone"
  /\ NextVictim(a)
  /\ UNCHANGED <<procs, disk>> /\ KeepLock

\* SIGTERM for a service, quit for a window.
Signal(a) ==
  /\ InStop(a) /\ act[a].step <= Len(Closing) /\ Alive(Victim(a)) /\ act[a].proc = 0
  /\ Become(Victim(a), "closing")
  /\ Set(a, [act[a] EXCEPT !.proc = Victim(a)])
  /\ UNCHANGED disk /\ KeepLock

\* Its pid is another program's, or it has not closed in time.
StopFails(a) ==
  /\ InStop(a) /\ act[a].step <= Len(Closing) /\ Victim(a) # 0
  /\ procs[Victim(a)].state = "reused" \/ (act[a].proc # 0 /\ Alive(Victim(a)))
  /\ Ended(a, FALSE)
  /\ UNCHANGED <<procs, disk, monitor, kills>>

Stopped(a) ==
  /\ InStop(a) /\ act[a].step > Len(Closing)
  /\ Ended(a, TRUE)
  /\ UNCHANGED <<procs, disk, monitor, kills>>

-----------------------------------------------------------------------------
(* watch *)

\* The watcher reads the records without the lock.
WatchReads(w) ==
  /\ act[w].pc = "new"
  /\ Set(w, IF disk["runtime"].proc = act[w].app.proc
              THEN [act[w] EXCEPT !.pc = "watch", !.app = disk["runtime"]]
              ELSE Over("end"))
  /\ UNCHANGED <<procs, disk, lock, monitor, kills>>

WindowGone(w) ==
  /\ act[w].pc = "watch" /\ ~Alive(act[w].app.proc)
  /\ Set(w, [act[w] EXCEPT !.pc = "try"])
  /\ UNCHANGED <<procs, disk, lock, monitor, kills>>

\* Under the lock: another window may have been opened since.
Replaced_ignored(w) == FALSE   \* mutant
Replaced(w) == disk["runtime"] # act[w].app
TakeOver(w) ==
  /\ act[w].pc = "try" /\ lock = Nobody
  /\ IF Replaced(w)
     THEN Set(w, Over("end")) /\ UNCHANGED lock
     ELSE Set(w, [act[w] EXCEPT !.pc = "stop", !.mem = disk]) /\ lock' = w
  /\ UNCHANGED <<procs, disk, monitor, kills>>

\* The lock is held; after the last attempt the watcher is done.
TryLater(w) ==
  /\ act[w].pc = "try" /\ lock # Nobody
  /\ Set(w, IF act[w].tries + 1 = Tries THEN Over("end") ELSE [act[w] EXCEPT !.tries = @ + 1])
  /\ UNCHANGED <<procs, disk, lock, monitor, kills>>

-----------------------------------------------------------------------------
(* Processes, and what is done to them from outside *)

\* A service binds its port, or finds it taken and exits; a window comes up.
Comes(p) ==
  \/ /\ procs[p].state = "starting" /\ procs[p].name \in Ports
     /\ \E owner \in Listener(procs[p].name) : Become(p, IF owner = 0 THEN "bound" ELSE "gone")
  \/ procs[p].state = "starting" /\ procs[p].name \in Apps /\ Become(p, "ready")
  \/ procs[p].state = "bound" /\ Become(p, "ready")

\* It ends, by a fault, because it was told to, or because the user closes it.
Goes(p) == Alive(p) /\ Become(p, "gone")

\* The user keeps a window open that was asked to quit.
StaysOpen(p) == procs[p].state = "closing" /\ procs[p].name \in Apps /\ Become(p, "ready")

\* The pid of a recorded process comes back as another program's.
Reused(p) ==
  /\ procs[p].state = "gone" /\ \E n \in Names : disk[n].proc = p
  /\ Become(p, "reused")

\* Another program takes a port, or the user opens a window of the release by
\* hand, which a resident build refuses.
Other(n) ==
  /\ Len(procs) < MaxProcesses /\ RunningAs(n) = {}
  /\ n \in Ports \/ ~Resident
  /\ procs' = Append(procs, [name |-> n, state |-> "ready", by |-> Nobody])

Outside ==
  /\ \/ \E p \in DOMAIN procs : Comes(p) \/ Goes(p) \/ StaysOpen(p) \/ Reused(p)
     \/ \E n \in Names : Other(n)
  /\ UNCHANGED <<disk, lock, act, monitor, kills>>

\* A launcher is killed: the lock is free, what it started runs on.
Killed(c) ==
  /\ kills < MaxKills /\ act[c].pc \in {"start", "ready", "window", "undo", "stop"}
  /\ Set(c, [Over("killed") EXCEPT !.proc = act[c].proc, !.child = act[c].child])
  /\ kills' = kills + 1 /\ Release
  /\ UNCHANGED <<procs, disk, monitor>>

-----------------------------------------------------------------------------
StackInit ==
  /\ procs = <<>> /\ disk = Nothing /\ lock = Nobody /\ monitor = Nobody /\ kills = 0
  /\ act = [a \in Actors |-> Resting]

Command(c) ==
  \/ BeginStart(c) \/ BeginStop(c) \/ Refused(c)
  \/ EnsureService(c) \/ Ready(c) \/ OpenApp(c) \/ WindowReady(c)
  \/ Finish(c) \/ Fails(c) \/ Killed(c)
StopServices(a) == Skip(a) \/ Signal(a) \/ StopFails(a) \/ Stopped(a)
WatchStep(w) == WatchReads(w) \/ WindowGone(w) \/ TakeOver(w) \/ TryLater(w)

StackNext ==
  \/ \E c \in Commands : Command(c)
  \/ \E a \in Actors : StopServices(a)
  \/ \E w \in Watchers : WatchStep(w)
  \/ Outside

StackSpec == StackInit /\ [][StackNext]_stackVars

-----------------------------------------------------------------------------
(* Properties *)

\* resident_app: what the launcher started and what still runs can be found: it
\* is in processes.json, or the start that waits for it, or was killed while it
\* waited, had it in hand.  A failed start leaves nothing behind that a later
\* stop, or the watcher, would not find.
StartedIsRecorded ==
  \A p \in DOMAIN procs :
    procs[p].by # Nobody /\ procs[p].state \in {"starting", "bound", "ready"} =>
      \/ \E n \in Names : disk[n].proc = p
      \/ \E c \in Commands : act[c].child /\ act[c].proc = p

Signaled(p) == p \in DOMAIN procs /\ procs[p].state # "closing" /\ procs'[p].state = "closing"
By(a) == act[a].proc = 0 /\ act'[a].proc # 0

\* stop and the watcher end a service only when the recorded windows are gone,
\* so that a window that is kept open keeps what it needs; and a watcher never
\* closes a window, whatever was started between the end of its own window and
\* the moment it got the lock.
WindowsFirstStep ==
  \A p \in DOMAIN procs : Signaled(p) =>
    \A a \in Actors : By(a) /\ act[a].pc = "stop" =>
      /\ procs[p].name \in Ports => \A n \in Apps : ~Alive(disk[n].proc)
      /\ a \in Watchers => procs[p].name \in Ports
WindowsFirst == [][WindowsFirstStep]_stackVars

\* test_failed_start_rolls_back_only_new_services: a start that fails stops
\* nothing that ran before it and was recorded.
RollbackOnlyNew ==
  [][\A p \in DOMAIN procs : Signaled(p) =>
       \A c \in Commands : By(c) /\ act[c].pc = "undo" =>
         \A n \in Names : act[c].before[n].proc # p]_stackVars
=============================================================================
