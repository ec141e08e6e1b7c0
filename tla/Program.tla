------------------------------ MODULE Program ------------------------------
(***************************************************************************)
(* The life of the program: run in src/mapper.rs sets up the entries of    *)
(* the configuration's [map] one after the other, each with its task, main *)
(* waits for a signal, and Closer::close broadcasts to the tasks and waits *)
(* for all of them.  An error during the set-up ends the program: the      *)
(* runtime is dropped, and with it the tasks that are already running,     *)
(* wherever they are.  A task may also panic, in a watcher, and ends       *)
(* without a word.  Mapper has what a task does between its start and the  *)
(* broadcast, and Setup what the configuration has to do with an error.    *)
(***************************************************************************)
CONSTANT Entries    \* the entries of the map

VARIABLES
    stage,      \* setup, running, closing, exited; failed: run or main has
                \* returned an error, killed: and the runtime is gone;
                \* crashed: close has panicked
    task,       \* how far the entry has come, or its task has
    port,       \* its port mapping; "stuck" once the gateway did not remove it
    client      \* its NAT client's tasks

vars == <<stage, task, port, client>>

TypeOK ==
    /\ stage \in {"setup", "running", "closing", "exited", "failed", "killed", "crashed"}
    /\ task \in [Entries -> {"todo", "adding", "building", "running", "removing",
                             "done", "panicked"}]
    /\ port \in [Entries -> {"none", "mapped", "stuck"}]
    /\ client \in [Entries -> {"none", "up", "closed"}]

Init ==
    /\ stage = "setup"
    /\ task = [e \in Entries |-> "todo"]
    /\ port = [e \in Entries |-> "none"]
    /\ client = [e \in Entries |-> "none"]
-----------------------------------------------------------------------------
\* No entry is being set up: the next one, in any order, can be.
BetweenEntries ==
    stage = "setup" /\ \A e \in Entries : task[e] \notin {"adding", "building"}

\* The url and the watchers' metadata of the entry are in order; it has a port
\* mapped on the gateway or not.
Check(e) ==
    /\ BetweenEntries /\ task[e] = "todo"
    /\ \E step \in {"adding", "building"} : task' = [task EXCEPT ![e] = step]
    /\ UNCHANGED <<stage, port, client>>

AddPortOk(e) ==
    /\ stage = "setup" /\ task[e] = "adding"
    /\ task' = [task EXCEPT ![e] = "building"]
    /\ port' = [port EXCEPT ![e] = "mapped"]
    /\ UNCHANGED <<stage, client>>

\* The answer of the gateway may have been lost.
AddPortErr(e) ==
    /\ stage = "setup" /\ task[e] = "adding"
    /\ stage' = "failed"
    /\ \/ port' = [port EXCEPT ![e] = "mapped"]
       \/ UNCHANGED port
    /\ UNCHANGED <<task, client>>

\* Mapper::new_tcp, new_udp; the task subscribes to the broadcast and starts.
BuildOk(e) ==
    /\ stage = "setup" /\ task[e] = "building"
    /\ task' = [task EXCEPT ![e] = "running"]
    /\ client' = [client EXCEPT ![e] = "up"]
    /\ UNCHANGED <<stage, port>>

\* A watcher, the gateway, the next entry or its client is not as it should be.
SetupErr ==
    /\ stage = "setup"
    /\ \A e \in Entries : task[e] # "adding"
    /\ Entries = {} \/ \E e \in Entries : task[e] \in {"todo", "building"}
    /\ stage' = "failed"
    /\ UNCHANGED <<task, port, client>>

SetupOk ==
    /\ stage = "setup"
    /\ \A e \in Entries : task[e] \notin {"todo", "adding", "building"}
    /\ stage' = "running"
    /\ UNCHANGED <<task, port, client>>
-----------------------------------------------------------------------------
\* The broadcast is received by the tasks there are.
Receivers == {e \in Entries : task[e] = "running"}

\* trap_signals returns, and close sends: to nobody, and the unwrap panics.
Signal ==
    /\ stage = "running"
    /\ stage' = IF Receivers # {} THEN "closing" ELSE "crashed"
    /\ UNCHANGED <<task, port, client>>

SignalErr ==
    /\ stage = "running"
    /\ stage' = "failed"
    /\ UNCHANGED <<task, port, client>>

\* Slips the checks must notice: close does not wait for the tasks; it waits
\* for one that panicked.
ExitUnjoined ==
    /\ stage = "closing"
    /\ stage' = "exited"
    /\ UNCHANGED <<task, port, client>>

ExitAllDone ==
    /\ stage = "closing"
    /\ \A e \in Entries : task[e] = "done"
    /\ stage' = "exited"
    /\ UNCHANGED <<task, port, client>>

\* join_all: every task has ended, in whatever way.
Exit ==
    /\ stage = "closing"
    /\ \A e \in Entries : task[e] \in {"done", "panicked"}
    /\ stage' = "exited"
    /\ UNCHANGED <<task, port, client>>

\* The runtime is dropped at the end of main, its tasks with it.
Kill ==
    /\ stage = "failed"
    /\ stage' = "killed"
    /\ UNCHANGED <<task, port, client>>
-----------------------------------------------------------------------------
Alive == stage \in {"setup", "running", "closing", "failed"}

Panic(e) ==
    /\ Alive /\ task[e] = "running"
    /\ task' = [task EXCEPT ![e] = "panicked"]
    /\ UNCHANGED <<stage, port, client>>

\* close.recv: the broadcast, or its sender was dropped with run or main.
CloseRecv(e) ==
    /\ stage \in {"closing", "failed"} /\ task[e] = "running"
    /\ task' = [task EXCEPT ![e] = "removing"]
    /\ UNCHANGED <<stage, port, client>>

\* A slip: the mapping's state and the client's are mixed up.
RemovedSwapped(e) ==
    /\ Alive /\ task[e] = "removing"
    /\ task' = [task EXCEPT ![e] = "done"]
    /\ port' = [port EXCEPT ![e] = "closed"]
    /\ client' = [client EXCEPT ![e] = "none"]
    /\ UNCHANGED stage

\* remove_port has returned, and its error, if any, is ignored.
Removed(e) ==
    /\ Alive /\ task[e] = "removing"
    /\ IF port[e] = "mapped"
          THEN port' \in {[port EXCEPT ![e] = "none"], [port EXCEPT ![e] = "stuck"]}
          ELSE UNCHANGED port
    /\ task' = [task EXCEPT ![e] = "done"]
    /\ client' = [client EXCEPT ![e] = "closed"]
    /\ UNCHANGED stage

Next ==
    \/ \E e \in Entries :
        \/ Check(e) \/ AddPortOk(e) \/ AddPortErr(e) \/ BuildOk(e)
        \/ Panic(e) \/ CloseRecv(e) \/ Removed(e)
    \/ SetupErr \/ SetupOk
    \/ Signal \/ SignalErr \/ Exit \/ Kill

(***************************************************************************)
(* Tasks are scheduled, remove_port returns, and so does join_all.         *)
(***************************************************************************)
Fairness ==
    /\ WF_vars(\E e \in Entries : CloseRecv(e))
    /\ WF_vars(\E e \in Entries : Removed(e))
    /\ WF_vars(Exit)

Spec == Init /\ [][Next]_vars /\ Fairness
-----------------------------------------------------------------------------
(***************************************************************************)
(* When the program exits in order, it leaves no port mapping and no       *)
(* client behind, except where the gateway refused the removal or the task *)
(* had panicked (Closer::close, the task's close branch).                  *)
(***************************************************************************)
CleanExit ==
    stage = "exited" =>
        \A e \in Entries :
            task[e] # "panicked" => port[e] # "mapped" /\ client[e] = "closed"

(***************************************************************************)
(* Once closing, the program exits, whichever tasks panic on the way: the  *)
(* one broadcast reaches every task, those busy or in a panic included.    *)
(***************************************************************************)
ShutdownEnds == stage = "closing" ~> stage = "exited"

(***************************************************************************)
(* "self.close.send(()).unwrap()" (Closer::close) asserts that somebody    *)
(* receives the broadcast.                                                 *)
(***************************************************************************)
CloseIsHeard == stage # "crashed"
=============================================================================
