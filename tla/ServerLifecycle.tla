--------------------------- MODULE ServerLifecycle ---------------------------
(***************************************************************************)
(* The life of the protocol servers in real-time mode (_run_realtime of    *)
(* cli.py): they are started one after the other, each as a task that is   *)
(* looked at once after a short settling time; then the engine runs until  *)
(* a SIGTERM cancels the main task; then they are stopped in reverse order.*)
(*                                                                         *)
(* A start() that takes longer than the settling time goes on beside       *)
(* everything that follows: the publisher retries its broker for seconds,  *)
(* the OPC-UA server builds its node tree.  A SIGTERM may come at every    *)
(* await, also during start-up and during the shutdown itself.  Tasks only *)
(* interleave where the main task awaits.                                  *)
(***************************************************************************)
EXTENDS Naturals

CONSTANTS Modbus, Opcua, Mqtt,  \* number of servers of each protocol
          MaxAttempts,          \* connection attempts of a publisher
          MaxSignals            \* SIGTERMs (bound of the model)

ASSUME LifecycleAssumption ==
  /\ Modbus \in Nat /\ Opcua \in Nat /\ Mqtt \in Nat
  /\ Modbus + Opcua + Mqtt > 0
  /\ MaxAttempts \in Nat \ {0}
  /\ MaxSignals \in Nat

K == Modbus + Opcua + Mqtt
Server == 1..K

\* Started in this order, if enabled in the configuration.
Kind(i) == IF i <= Modbus THEN "modbus" ELSE IF i <= Modbus + Opcua THEN "opcua" ELSE "mqtt"

VARIABLES main,           \* what the main task awaits, or is about to do
          kept,           \* the first `kept` servers are in the list to be stopped
          cursor,         \* server that is being stopped
          task,           \* task[i]: the task that runs start() of server i
          attempts,       \* attempts[i]: failed connections of publisher i
          run,            \* run[i]: whether server i serves, or died serving
          up,             \* protocols that /health shows as up
          status,         \* status that /health shows
          signals,        \* SIGTERMs so far
          raised,         \* an exception has left the finally block
          calm            \* history: every server of the list had started when
                          \* the shutdown began, and none was left since

health == <<up, status>>
tasks == <<task, attempts>>
history == <<signals, raised, calm>>
vars == <<main, kept, cursor, tasks, run, health, history>>

\* The main task is suspended, and others may run.
Suspended == main \in {"settle", "serve", "closing", "halting", "farewell", "returned"}

Pending(i) == task[i] \in {"new", "starting", "waiting"}

-----------------------------------------------------------------------------
(***************************************************************************)
(* start() of each server.  A Modbus server awaits nothing, its socket is  *)
(* bound by a task of its own, which may die.                              *)
(***************************************************************************)
StartModbus(i) ==
  /\ Kind(i) = "modbus"
  /\ task[i] = "new"
  /\ task' = [task EXCEPT ![i] = "done"]
  /\ run' = [run EXCEPT ![i] = "on"]
  /\ UNCHANGED attempts

\* It fails, too, if stop() has meanwhile dropped the server.
BeginOpcua(i) ==
  /\ Kind(i) = "opcua"
  /\ task[i] = "new"
  /\ task' = [task EXCEPT ![i] = "starting"]
  /\ UNCHANGED <<attempts, run>>

FinishOpcua(i) ==
  /\ Kind(i) = "opcua"
  /\ task[i] = "starting"
  /\ \/ task' = [task EXCEPT ![i] = "done"] /\ run' = [run EXCEPT ![i] = "on"]
     \/ task' = [task EXCEPT ![i] = "failed"] /\ UNCHANGED run
  /\ UNCHANGED attempts

\* A retry waits a second or more: longer than the settling time of its task.
MayConnect(i) ==
  /\ Kind(i) = "mqtt"
  /\ \/ task[i] = "new"
     \/ task[i] = "waiting" /\ ~ (main = "settle" /\ i = kept + 1)

Connect(i) ==
  /\ MayConnect(i)
  /\ task' = [task EXCEPT ![i] = "done"]
  /\ run' = [run EXCEPT ![i] = "on"]
  /\ UNCHANGED attempts

\* Mutant of FailToConnect: the attempts are counted anew, and never given up.
FailForever(i) ==
  /\ MayConnect(i)
  /\ attempts' = [attempts EXCEPT ![i] = (@ + 1) % MaxAttempts]
  /\ task' = [task EXCEPT ![i] = "waiting"]
  /\ UNCHANGED run

FailToConnect(i) ==
  /\ MayConnect(i)
  /\ attempts' = [attempts EXCEPT ![i] = @ + 1]
  /\ task' = [task EXCEPT ![i] = IF attempts'[i] = MaxAttempts THEN "failed" ELSE "waiting"]
  /\ UNCHANGED run

Starting(i) ==
  /\ Suspended
  /\ \/ StartModbus(i) \/ BeginOpcua(i) \/ FinishOpcua(i)
     \/ Connect(i) \/ FailToConnect(i)
  /\ UNCHANGED <<main, kept, cursor, health, history>>

\* serve_forever of a Modbus server ends with an exception that nobody sees.
Die(i) ==
  /\ Suspended
  /\ Kind(i) = "modbus"
  /\ run[i] = "on"
  /\ run' = [run EXCEPT ![i] = "dead"]
  /\ UNCHANGED <<main, kept, cursor, tasks, health, history>>

-----------------------------------------------------------------------------
(***************************************************************************)
(* The main task: start-up.                                                *)
(***************************************************************************)
\* Mutant of Unwind: the server started last is left out.
UnwindShort ==
  /\ main' = "stop"
  /\ cursor' = IF kept > 0 THEN kept - 1 ELSE 0
  /\ status' = "stopping"
  /\ calm' = (\A i \in 1..kept : task[i] = "done")
  /\ UNCHANGED <<kept, tasks, run, up>>

\* The finally block of _run_realtime begins.
Unwind ==
  /\ main' = "stop"
  /\ cursor' = kept
  /\ status' = "stopping"
  /\ calm' = (\A i \in 1..kept : task[i] = "done")
  /\ UNCHANGED <<kept, tasks, run, up>>

\* The settling time is over: the task is done, or still starting.  The next
\* server is started, or the engine runs.
Settled ==
  /\ main = "settle"
  /\ task[kept + 1] \notin {"new", "failed"}
  /\ kept' = kept + 1
  /\ up' = IF kept' = K \/ Kind(kept' + 1) # Kind(kept') THEN up \union {Kind(kept')} ELSE up
  /\ IF kept' = K
       THEN main' = "serve" /\ status' = "running" /\ UNCHANGED task
       ELSE task' = [task EXCEPT ![kept' + 1] = "new"] /\ UNCHANGED <<main, status>>
  /\ UNCHANGED <<cursor, attempts, run, history>>

\* _start_server raises: start() has failed within the settling time.
StartFailed ==
  /\ main = "settle"
  /\ task[kept + 1] = "failed"
  /\ Unwind
  /\ UNCHANGED <<signals, raised>>

\* A tick of the engine raises.
EngineFails ==
  /\ main = "serve"
  /\ Unwind
  /\ UNCHANGED <<signals, raised>>

-----------------------------------------------------------------------------
(***************************************************************************)
(* The main task: shutdown.  stop() first cancels the loop of the server   *)
(* and awaits it (closing), then the server itself (halting).  stop() of a *)
(* publisher has no second await, and none at all when start() is not done.*)
(***************************************************************************)
\* Mutant of StopNext: the loop over the servers does not advance.
StopAgain == main' = "stop" /\ cursor' = cursor

StopNext == main' = "stop" /\ cursor' = cursor - 1

BeginStop ==
  /\ main = "stop"
  /\ cursor > 0
  /\ IF task[cursor] = "done"
       THEN main' = "closing" /\ UNCHANGED cursor
     ELSE IF Kind(cursor) = "opcua"
       THEN main' = "halting" /\ UNCHANGED cursor
     ELSE StopNext
  /\ UNCHANGED <<kept, tasks, run, health, history>>

LoopClosed ==
  IF Kind(cursor) = "mqtt"
    THEN /\ StopNext
         /\ run' = [run EXCEPT ![cursor] = "off"]
    ELSE main' = "halting" /\ UNCHANGED <<cursor, run>>

Close ==
  /\ main = "closing"
  /\ LoopClosed
  /\ UNCHANGED <<kept, tasks, health, history>>

Halt ==
  /\ main = "halting"
  /\ run' = [run EXCEPT ![cursor] = "off"]
  /\ StopNext
  /\ UNCHANGED <<kept, tasks, health, history>>

\* stop() raises: what the server died of, or an OPC-UA server that is not
\* started.  A connection error is suppressed and the next server is stopped;
\* anything else leaves the rest of the finally block undone.
HaltRaises ==
  /\ main = "halting"
  /\ run[cursor] = "dead" \/ task[cursor] # "done"
  /\ \/ StopNext /\ UNCHANGED raised
     \/ main' = "returned" /\ raised' = TRUE /\ UNCHANGED cursor
  /\ calm' = (calm /\ ~ raised')
  /\ UNCHANGED <<kept, tasks, run, health, signals>>

\* Mutant of CancelStarts: tasks that are still starting are left alone.
CancelStartsNot == UNCHANGED task

CancelStarts ==
  task' = [i \in Server |-> IF i <= kept /\ Pending(i) THEN "cancelled" ELSE task[i]]

Farewell ==
  /\ main = "stop"
  /\ cursor = 0
  /\ CancelStarts
  /\ main' = "farewell"
  /\ UNCHANGED <<kept, cursor, attempts, run, health, history>>

\* The health task has ended.
Return ==
  /\ main = "farewell"
  /\ main' = "returned"
  /\ UNCHANGED <<kept, cursor, tasks, run, health, history>>

\* asyncio.run cancels every task that is left.
Exit ==
  /\ main = "returned"
  /\ main' = "exited"
  /\ task' = [i \in Server |-> IF Pending(i) THEN "cancelled" ELSE task[i]]
  /\ run' = [i \in Server |-> "off"]
  /\ UNCHANGED <<kept, cursor, attempts, health, history>>

-----------------------------------------------------------------------------
(***************************************************************************)
(* A SIGTERM cancels the main task at the await it is at.                  *)
(***************************************************************************)
Signal ==
  /\ signals < MaxSignals
  /\ signals' = signals + 1
  /\ UNCHANGED raised

\* CancelledError ends start-up, or the run of the engine.
EndRun ==
  /\ main \in {"settle", "serve"}
  /\ Signal
  /\ Unwind

\* stop() suppresses it where it awaits its loop, ...
InterruptClosing ==
  /\ main = "closing"
  /\ Signal
  /\ LoopClosed
  /\ UNCHANGED <<kept, tasks, health, calm>>

\* ... and _run_realtime where stop() awaits the server, which is left as it is.
InterruptHalting ==
  /\ main = "halting"
  /\ Signal
  /\ calm' = FALSE
  /\ StopNext
  /\ UNCHANGED <<kept, tasks, run, health>>

InterruptFarewell ==
  /\ main = "farewell"
  /\ Signal
  /\ main' = "returned"
  /\ UNCHANGED <<kept, cursor, tasks, run, health, calm>>

-----------------------------------------------------------------------------
Init ==
  /\ main = "settle"
  /\ kept = 0
  /\ cursor = 0
  /\ task = [i \in Server |-> IF i = 1 THEN "new" ELSE "none"]
  /\ attempts = [i \in Server |-> 0]
  /\ run = [i \in Server |-> "off"]
  /\ up = {}
  /\ status = "starting"
  /\ signals = 0
  /\ raised = FALSE
  /\ calm = FALSE

MainStep ==
  \/ Settled \/ StartFailed
  \/ BeginStop \/ Close \/ Halt \/ HaltRaises \/ Farewell \/ Return \/ Exit

Sigterm == EndRun \/ InterruptClosing \/ InterruptHalting \/ InterruptFarewell

Next ==
  \/ MainStep
  \/ EngineFails
  \/ \E i \in Server : Starting(i) \/ Die(i)
  \/ Sigterm

Spec == Init /\ [][Next]_vars

\* Tasks are scheduled, connection attempts and awaited stops come to an end.
FairSpec == Spec /\ WF_vars(MainStep) /\ \A i \in Server : WF_vars(Starting(i))

-----------------------------------------------------------------------------
LifecycleTypeOK ==
  /\ main \in {"settle", "serve", "stop", "closing", "halting", "farewell", "returned", "exited"}
  /\ kept \in 0..K
  /\ cursor \in 0..K
  /\ task \in [Server -> {"none", "new", "starting", "waiting", "done", "failed", "cancelled"}]
  /\ attempts \in [Server -> 0..MaxAttempts]
  /\ run \in [Server -> {"off", "on", "dead"}]
  /\ up \in SUBSET {"modbus", "opcua", "mqtt"}
  /\ status \in {"starting", "running", "stopping"}
  /\ signals \in 0..MaxSignals
  /\ raised \in BOOLEAN
  /\ calm \in BOOLEAN

\* If every server of the list had started when the shutdown began, none of
\* them still serves when _run_realtime returns: whatever ended the run, a
\* signal, a failed start or the engine, and whatever came in between, but
\* for an error other than of the connection, or a second signal while a
\* server (not its loop) is awaited.
CalmShutdown == main = "returned" /\ calm => \A i \in 1..kept : run[i] # "on"

\* A server whose start() is still retrying when all servers have been stopped
\* does not come up behind the back of the shutdown.
Joins(i) == run[i] # "on" /\ run'[i] = "on"
NobodyJoins ==
  [][~ raised /\ main \in {"farewell", "returned"} => \A i \in 1..kept : ~ Joins(i)]_vars

\* The process ends once it has begun to stop, however slow the brokers are
\* and however often it is told to.
ShutdownCompletes == (status = "stopping") ~> (main = "exited")

\* Every start() comes to an end, also when its broker never answers.
StartsEnd == \A i \in Server : Pending(i) ~> task[i] \in {"done", "failed", "cancelled"}

=============================================================================
