---------------------------- MODULE ServerProofs ----------------------------
(***************************************************************************)
(* Proofs about the servers.                                               *)
(*                                                                         *)
(* ServerLifecycle, for any number of servers, connection attempts and     *)
(* signals: the type invariant, that a calm shutdown leaves no server      *)
(* running, and that no start comes up behind its end.                     *)
(*                                                                         *)
(* ModbusEndpoint, for any configuration, scan cycles and values: the      *)
(* registers stay words of their blocks, nothing the server wrote is taken *)
(* for a client's write, and what a client reads is of one scan.           *)
(***************************************************************************)
EXTENDS ServerLifecycle, ModbusEndpoint, TLAPS

-----------------------------------------------------------------------------
(* Start and shutdown: the types. *)

Booting == main \in {"settle", "serve"}
Stopping == main \in {"closing", "halting"}

\* The servers are started one after the other, and a start whose attempts
\* are used up is over.
StartInv ==
  /\ main = "settle" => kept < K /\ \A i \in Server : i > kept + 1 => task[i] = "none"
  /\ Stopping => cursor > 0
  /\ \A i \in Server : task[i] = "none" \/ Pending(i) => attempts[i] < MaxAttempts

TypeInv == LifecycleTypeOK /\ StartInv

\* The steps of a task that runs start().
LEMMA StartingSteps ==
  ASSUME TypeInv, NEW i \in Server, Starting(i)
  PROVE  /\ UNCHANGED <<main, kept, cursor, up, status, signals, raised, calm>>
         /\ Suspended /\ Pending(i)
         /\ attempts' \in [Server -> 0..MaxAttempts]
         /\ \E t \in {"starting", "waiting", "done", "failed"} : task' = [task EXCEPT ![i] = t]
         /\ run' = run \/ (run' = [run EXCEPT ![i] = "on"])
         /\ \A j \in Server : j # i => attempts'[j] = attempts[j]
         /\ Pending(i)' => attempts'[i] < MaxAttempts
<1> USE LifecycleAssumption DEF TypeInv, LifecycleTypeOK, StartInv
<1>1. UNCHANGED <<main, kept, cursor, up, status, signals, raised, calm>> /\ Suspended
  BY DEF Starting, health, history
<1>2. CASE StartModbus(i) \/ BeginOpcua(i) \/ FinishOpcua(i) \/ Connect(i)
  <2>1. Pending(i) /\ attempts' = attempts
    BY <1>2 DEF StartModbus, BeginOpcua, FinishOpcua, Connect, MayConnect, Pending
  <2>2. /\ \E t \in {"starting", "waiting", "done", "failed"} : task' = [task EXCEPT ![i] = t]
        /\ run' = run \/ (run' = [run EXCEPT ![i] = "on"])
    BY <1>2 DEF StartModbus, BeginOpcua, FinishOpcua, Connect
  <2>3. QED BY <1>1, <2>1, <2>2
<1>3. CASE FailToConnect(i)
  <2>1. Pending(i) /\ run' = run BY <1>3 DEF FailToConnect, MayConnect, Pending
  <2>2. attempts' = [attempts EXCEPT ![i] = attempts[i] + 1] /\ attempts[i] < MaxAttempts
    BY <1>3, <2>1 DEF FailToConnect
  <2>3. attempts'[i] \in 0..MaxAttempts BY <2>2
  <2>4. task' = [task EXCEPT ![i] = IF attempts'[i] = MaxAttempts THEN "failed" ELSE "waiting"]
    BY <1>3 DEF FailToConnect
  <2>5. Pending(i)' => attempts'[i] < MaxAttempts BY <2>3, <2>4 DEF Pending
  <2>6. QED BY <1>1, <2>1, <2>2, <2>3, <2>4, <2>5
<1>4. QED BY <1>2, <1>3 DEF Starting

\* The shutdown begins.
LEMMA UnwindTypes ==
  ASSUME TypeInv, Unwind, signals' \in 0..MaxSignals, raised' \in BOOLEAN
  PROVE  TypeInv'
<1> USE DEF TypeInv, LifecycleTypeOK
<1>1. /\ main' = "stop" /\ cursor' = kept /\ status' = "stopping"
      /\ UNCHANGED <<kept, task, attempts, run, up>>
  BY DEF Unwind, tasks
<1>2. calm' \in BOOLEAN BY DEF Unwind
<1>3. LifecycleTypeOK' BY <1>1, <1>2
<1>4. StartInv' BY <1>1 DEF StartInv, Stopping, Pending
<1>5. QED BY <1>3, <1>4

\* The next server is started, or the engine runs.
LEMMA SettledTypes == ASSUME TypeInv, Settled PROVE TypeInv'
<1> USE LifecycleAssumption DEF TypeInv, LifecycleTypeOK
<1>1. /\ main = "settle" /\ kept' = kept + 1 /\ kept < K /\ K \in Nat
      /\ UNCHANGED <<cursor, attempts, run, signals, raised, calm>>
  BY DEF Settled, StartInv, history, K
<1>2. up' \in SUBSET {"modbus", "opcua", "mqtt"} BY DEF Settled, Kind
<1>3. CASE kept' = K
  <2>1. main' = "serve" /\ status' = "running" /\ task' = task BY <1>3 DEF Settled
  <2>2. LifecycleTypeOK' BY <1>1, <1>2, <2>1
  <2>3. StartInv' BY <1>1, <2>1 DEF StartInv, Stopping, Pending
  <2>4. QED BY <2>2, <2>3
<1>4. CASE kept' # K
  <2>1. main' = "settle" /\ status' = status /\ task' = [task EXCEPT ![kept' + 1] = "new"]
    BY <1>1, <1>4 DEF Settled
  <2>2. kept' + 1 \in Server /\ kept' < K /\ kept' \in 0..K BY <1>1, <1>4 DEF Server
  <2>3. LifecycleTypeOK' BY <1>1, <1>2, <2>1, <2>2
  <2>4. task[kept' + 1] = "none" BY <1>1, <2>2 DEF StartInv
  <2>5. \A i \in Server : i > kept' + 1 => task'[i] = "none"
    BY <1>1, <2>1, <2>2 DEF StartInv, Server
  <2>6. \A i \in Server : task'[i] = "none" \/ Pending(i)' => attempts'[i] < MaxAttempts
    BY <1>1, <2>1, <2>2, <2>4 DEF StartInv, Pending
  <2>7. StartInv' BY <2>1, <2>2, <2>5, <2>6 DEF StartInv, Stopping
  <2>8. QED BY <2>3, <2>7
<1>5. QED BY <1>3, <1>4

\* The steps of the shutdown, in which no server is started.
ShutdownStep ==
  \/ BeginStop \/ Close \/ Halt \/ HaltRaises \/ Farewell \/ Return \/ Exit
  \/ InterruptClosing \/ InterruptHalting \/ InterruptFarewell

\* A step of the shutdown keeps the types.
LEMMA ShutdownTypes == ASSUME TypeInv, ShutdownStep PROVE TypeInv'
<1> USE LifecycleAssumption DEF TypeInv, LifecycleTypeOK
<1>1. main \in {"stop", "closing", "halting", "farewell", "returned"} /\ UNCHANGED <<kept, attempts, up, status>>
  BY DEF ShutdownStep, BeginStop, Close, Halt, HaltRaises, Farewell, Return, Exit,
         InterruptClosing, InterruptHalting, InterruptFarewell, tasks, health
<1>2. main' \in {"stop", "closing", "halting", "farewell", "returned", "exited"}
  BY DEF ShutdownStep, BeginStop, Close, LoopClosed, StopNext, Halt, HaltRaises, Farewell, Return,
         Exit, InterruptClosing, InterruptHalting, InterruptFarewell
<1>3. cursor' \in 0..K /\ (main' \in {"closing", "halting"} => cursor' > 0)
  <2>1. \/ cursor' = cursor /\ (main' \in {"closing", "halting"} => cursor > 0)
        \/ cursor > 0 /\ cursor' = cursor - 1 /\ main' = "stop"
    BY DEF ShutdownStep, BeginStop, Close, LoopClosed, StopNext, Halt, HaltRaises, Farewell,
           Return, Exit, InterruptClosing, InterruptHalting, InterruptFarewell, StartInv, Stopping
  <2>2. K \in Nat BY DEF K
  <2>3. QED BY <2>1, <2>2
<1>4. run' \in [Server -> {"off", "on", "dead"}]
  BY DEF ShutdownStep, BeginStop, Close, LoopClosed, Halt, HaltRaises, Farewell,
         Return, Exit, InterruptClosing, InterruptHalting, InterruptFarewell
<1>5. /\ task' \in [Server -> {"none", "new", "starting", "waiting", "done", "failed", "cancelled"}]
      /\ \A i \in Server : task'[i] \in {task[i], "cancelled"}
  <2>1. \/ task' = task \/ CancelStarts
        \/ task' = [i \in Server |-> IF Pending(i) THEN "cancelled" ELSE task[i]]
    BY DEF ShutdownStep, BeginStop, Close, LoopClosed, Halt, HaltRaises, Farewell,
           Return, Exit, InterruptClosing, InterruptHalting, InterruptFarewell, tasks
  <2>2. CASE task' = task BY <2>2
  <2>3. CASE CancelStarts BY <2>3 DEF CancelStarts
  <2>4. CASE task' = [i \in Server |-> IF Pending(i) THEN "cancelled" ELSE task[i]] BY <2>4
  <2>5. QED BY <2>1, <2>2, <2>3, <2>4
<1>6. signals' \in 0..MaxSignals
  <2>1. signals' = signals \/ Signal
    BY DEF ShutdownStep, BeginStop, Close, LoopClosed, Halt, HaltRaises, Farewell,
           Return, Exit, InterruptClosing, InterruptHalting, InterruptFarewell, history
  <2>2. QED BY <2>1 DEF Signal
<1>7. raised' \in BOOLEAN
  BY DEF ShutdownStep, BeginStop, Close, LoopClosed, Halt, HaltRaises, Farewell, Signal,
         Return, Exit, InterruptClosing, InterruptHalting, InterruptFarewell, history
<1>8. calm' \in BOOLEAN
  BY DEF ShutdownStep, BeginStop, Close, LoopClosed, Halt, HaltRaises, Farewell,
         Return, Exit, InterruptClosing, InterruptHalting, InterruptFarewell, history
<1>9. LifecycleTypeOK' BY <1>1, <1>2, <1>3, <1>4, <1>5, <1>6, <1>7, <1>8
<1>10. StartInv'
  <2>1. \A i \in Server : task'[i] = "none" \/ Pending(i)' => attempts'[i] < MaxAttempts
    BY <1>1, <1>5 DEF StartInv, Pending
  <2>2. QED BY <1>2, <1>3, <2>1 DEF StartInv, Stopping
<1>11. QED BY <1>9, <1>10

\* Every step is one of these.
LEMMA StepKinds ==
  ASSUME [Next]_vars
  PROVE  \/ \E i \in Server : Starting(i)
         \/ \E i \in Server : Die(i)
         \/ Settled
         \/ Unwind /\ Booting /\ raised' = raised /\ (signals' = signals \/ Signal)
         \/ ShutdownStep
         \/ UNCHANGED vars
BY DEF Next, MainStep, Sigterm, StartFailed, EngineFails, EndRun, Signal, ShutdownStep, Booting

\* The type invariant of ServerLifecycle holds.
LEMMA Typed == Spec => []TypeInv
<1> USE LifecycleAssumption
<1>1. ASSUME Init PROVE TypeInv
  <2>1. K \in Nat \ {0} BY DEF K
  <2>2. raised \in BOOLEAN /\ calm \in BOOLEAN BY <1>1 DEF Init
  <2>3. LifecycleTypeOK BY <1>1, <2>1, <2>2 DEF Init, LifecycleTypeOK
  <2>4. StartInv BY <1>1, <2>1 DEF Init, StartInv, Stopping, Server
  <2>5. QED BY <2>3, <2>4 DEF TypeInv
<1>2. ASSUME TypeInv, [Next]_vars PROVE TypeInv'
  <2> USE <1>2 DEF TypeInv, LifecycleTypeOK
  <2>1. ASSUME NEW i \in Server, Starting(i) PROVE TypeInv'
    <3>1. PICK t \in {"starting", "waiting", "done", "failed"} : task' = [task EXCEPT ![i] = t]
      BY <2>1, StartingSteps
    <3>2. /\ UNCHANGED <<main, kept, cursor, up, status, signals, raised, calm>>
          /\ Pending(i)
          /\ attempts' \in [Server -> 0..MaxAttempts]
          /\ run' = run \/ (run' = [run EXCEPT ![i] = "on"])
          /\ \A j \in Server : j # i => attempts'[j] = attempts[j]
          /\ Pending(i)' => attempts'[i] < MaxAttempts
      BY <2>1, StartingSteps
    <3>3. raised' \in BOOLEAN /\ calm' \in BOOLEAN BY <3>2
    <3>4. run' \in [Server -> {"off", "on", "dead"}] BY <3>2
    <3>5. LifecycleTypeOK' BY <3>1, <3>2, <3>3, <3>4
    <3>6. \A j \in Server : task'[j] = "none" \/ Pending(j)' => attempts'[j] < MaxAttempts
      BY <3>1, <3>2 DEF StartInv, Pending
    <3>7. \A j \in Server : task[j] = "none" => task'[j] = "none"
      BY <3>1, <3>2 DEF Pending
    <3>8. StartInv' BY <3>2, <3>6, <3>7 DEF StartInv, Stopping
    <3>9. QED BY <3>5, <3>8
  <2>2. ASSUME NEW i \in Server, Die(i) PROVE TypeInv'
    <3>1. /\ UNCHANGED <<main, kept, cursor, task, attempts, up, status, signals>>
          /\ run' = [run EXCEPT ![i] = "dead"]
      BY <2>2 DEF Die, tasks, health, history
    <3>2. raised' \in BOOLEAN /\ calm' \in BOOLEAN BY <2>2 DEF Die, history
    <3>3. LifecycleTypeOK' BY <3>1, <3>2
    <3>4. StartInv' BY <3>1 DEF StartInv, Stopping, Pending
    <3>5. QED BY <3>3, <3>4
  <2>3. CASE Settled BY <2>3, SettledTypes
  <2>4. CASE Unwind /\ Booting /\ raised' = raised /\ (signals' = signals \/ Signal)
    <3>1. signals' \in 0..MaxSignals BY <2>4 DEF Signal
    <3>2. QED BY <2>4, <3>1, UnwindTypes
  <2>5. CASE ShutdownStep BY <2>5, ShutdownTypes
  <2>6. CASE UNCHANGED vars
    <3>1. UNCHANGED <<main, kept, cursor, task, attempts, run, up, status, signals>>
      BY <2>6 DEF vars, tasks, health, history
    <3>2. raised' \in BOOLEAN /\ calm' \in BOOLEAN BY <2>6 DEF vars, history
    <3>3. LifecycleTypeOK' BY <3>1, <3>2
    <3>4. StartInv' BY <3>1 DEF StartInv, Stopping, Pending
    <3>5. QED BY <3>3, <3>4
  <2>7. QED BY <2>1, <2>2, <2>3, <2>4, <2>5, <2>6, StepKinds
<1>3. QED BY <1>1, <1>2, PTL DEF Spec

\* The type invariant of ServerLifecycle holds.
THEOREM LifecycleTyped == Spec => []LifecycleTypeOK
BY Typed, PTL DEF TypeInv

-----------------------------------------------------------------------------
(* The shutdown. *)

\* A calm shutdown has stopped every server behind the cursor, and all of them
\* at its end; with its end the starts of the list are over.
CalmInv ==
  /\ ~ Booting => cursor <= kept
  /\ calm => ~ Booting /\ \A i \in 1..kept : task[i] = "done"
  /\ calm /\ main \in {"stop", "closing", "halting"} => \A i \in cursor+1..kept : run[i] # "on"
  /\ calm /\ main \in {"farewell", "returned"} => \A i \in 1..kept : run[i] # "on"
  /\ main \in {"farewell", "returned"} /\ ~ raised => \A i \in 1..kept : ~ Pending(i)

\* A server that has not started is none of those that a calm shutdown stops.
LEMMA CalmStarting ==
  ASSUME TypeInv, CalmInv, NEW i \in Server, Starting(i) PROVE CalmInv'
<1> USE DEF TypeInv, LifecycleTypeOK
<1>1. /\ UNCHANGED <<main, kept, cursor, calm, raised>> /\ Pending(i)
      /\ run' = run \/ (run' = [run EXCEPT ![i] = "on"])
  BY StartingSteps
<1>2. PICK t \in {"starting", "waiting", "done", "failed"} : task' = [task EXCEPT ![i] = t]
  BY StartingSteps
<1>3. 1..kept \subseteq Server /\ kept \in Nat /\ cursor \in Nat BY LifecycleAssumption DEF Server, K
<1>4. calm => i \notin 1..kept BY <1>1 DEF CalmInv, Pending
<1>5. \A j \in Server : j # i => run'[j] = run[j] /\ task'[j] = task[j] BY <1>1, <1>2
<1>6. main \in {"farewell", "returned"} /\ ~ raised => i \notin 1..kept BY <1>1 DEF CalmInv
<1>7. \A j \in Server : j # i => (Pending(j)' <=> Pending(j)) BY <1>5 DEF Pending
<1>8. cursor+1..kept \subseteq 1..kept BY <1>3
<1>9. Booting' <=> Booting BY <1>1 DEF Booting
<1>10. (~ Booting => cursor <= kept)' BY <1>1, <1>9 DEF CalmInv
<1>11. (calm => ~ Booting /\ \A j \in 1..kept : task[j] = "done")'
  BY <1>1, <1>3, <1>4, <1>5, <1>9 DEF CalmInv
<1>12. calm => \A j \in 1..kept : run'[j] = run[j] BY <1>3, <1>4, <1>5
<1>13. (calm /\ main \in {"stop", "closing", "halting"} => \A j \in cursor+1..kept : run[j] # "on")'
  BY <1>1, <1>8, <1>12 DEF CalmInv
<1>14. (calm /\ main \in {"farewell", "returned"} => \A j \in 1..kept : run[j] # "on")'
  BY <1>1, <1>12 DEF CalmInv
<1>15. (main \in {"farewell", "returned"} /\ ~ raised => \A j \in 1..kept : ~ Pending(j))'
  BY <1>1, <1>3, <1>6, <1>7 DEF CalmInv
<1>16. QED BY ONLY <1>10, <1>11, <1>13, <1>14, <1>15 DEF CalmInv

\* A step of the shutdown leaves behind it only servers that it has stopped.
LEMMA CalmShutdownStep ==
  ASSUME TypeInv, CalmInv, ShutdownStep PROVE CalmInv'
<1> USE DEF TypeInv, LifecycleTypeOK, CalmInv, Booting
<1>1. 1..kept \subseteq Server /\ kept \in Nat /\ cursor \in 0..kept
  BY LifecycleAssumption DEF Server, K, ShutdownStep, BeginStop, Close, Halt, HaltRaises, Farewell,
     Return, Exit, InterruptClosing, InterruptHalting, InterruptFarewell
<1>2. ASSUME cursor > 0 PROVE \A i \in cursor..kept : i = cursor \/ i \in cursor+1..kept
  BY <1>1, <1>2
<1>3. CASE BeginStop
  <2>1. /\ UNCHANGED <<kept, task, run, calm, raised>> /\ main = "stop" /\ cursor > 0
        /\ calm => main' = "closing" /\ cursor' = cursor
        /\ main' \in {"stop", "closing", "halting"} /\ cursor' \in {cursor, cursor - 1}
    BY <1>1, <1>3 DEF BeginStop, StopNext, tasks, history
  <2>2. cursor' <= kept' /\ main' \notin {"settle", "serve", "farewell", "returned"}
    BY <1>1, <2>1
  <2>3. CASE calm
    <3>1. main' = "closing" /\ cursor' = cursor /\ kept' = kept /\ run' = run /\ task' = task
      BY <2>1, <2>3
    <3>2. QED BY <2>1, <2>2, <2>3, <3>1
  <2>4. CASE ~ calm
    <3>1. ~ calm' BY <2>1, <2>4
    <3>2. QED BY <2>2, <3>1
  <2>5. QED BY <2>3, <2>4
<1>4. ASSUME Close \/ InterruptClosing PROVE CalmInv'
  <2>1. /\ UNCHANGED <<kept, task, calm, raised>> /\ main = "closing"
        /\ cursor > 0
        /\ \/ main' = "stop" /\ cursor' = cursor - 1 /\ run' = [run EXCEPT ![cursor] = "off"]
           \/ main' = "halting" /\ UNCHANGED <<cursor, run>>
    BY <1>4 DEF Close, InterruptClosing, LoopClosed, StopNext, Signal, tasks, history,
                StartInv, Stopping
  <2>2. CASE main' = "halting" /\ UNCHANGED <<cursor, run>> BY <1>1, <2>1, <2>2
  <2>3. CASE main' = "stop" /\ cursor' = cursor - 1 /\ run' = [run EXCEPT ![cursor] = "off"]
    <3>1. \A i \in cursor+1..kept : run'[i] = run[i] BY <1>1, <2>3
    <3>2. run'[cursor] = "off" BY <1>1, <2>1, <2>3
    <3>3. calm => \A i \in cursor..kept : run'[i] # "on" BY <1>2, <2>1, <3>1, <3>2
    <3>4. cursor'+1 = cursor /\ cursor' <= kept BY <1>1, <2>1, <2>3
    <3>5. QED BY <1>1, <2>1, <2>3, <3>3, <3>4
  <2>4. QED BY <2>1, <2>2, <2>3
<1>5. CASE Halt
  <2>1. /\ UNCHANGED <<kept, task, calm, raised>> /\ main = "halting" /\ cursor > 0
        /\ main' = "stop" /\ cursor' = cursor - 1 /\ run' = [run EXCEPT ![cursor] = "off"]
    BY <1>5 DEF Halt, StopNext, tasks, history, StartInv, Stopping
  <2>2. \A i \in cursor+1..kept : run'[i] = run[i] BY <1>1, <2>1
  <2>3. run'[cursor] = "off" BY <1>1, <2>1
  <2>4. calm => \A i \in cursor..kept : run'[i] # "on" BY <1>2, <2>1, <2>2, <2>3
  <2>5. cursor'+1 = cursor /\ cursor' <= kept BY <1>1, <2>1
  <2>6. QED BY <1>1, <2>1, <2>4, <2>5
<1>6. CASE HaltRaises
  <2>1. /\ UNCHANGED <<kept, task, run>> /\ main = "halting" /\ cursor > 0
        /\ run[cursor] = "dead" \/ task[cursor] # "done"
        /\ calm' = (calm /\ ~ raised')
    BY <1>6 DEF HaltRaises, tasks, StartInv, Stopping
  <2>2. calm => run[cursor] # "on" BY <1>1, <2>1
  <2>3. \/ main' = "stop" /\ cursor' = cursor - 1
        \/ main' = "returned" /\ raised' = TRUE /\ cursor' = cursor
    BY <1>6 DEF HaltRaises, StopNext
  <2>4. CASE main' = "stop" /\ cursor' = cursor - 1
    <3>1. calm => \A i \in cursor..kept : run'[i] # "on" BY <1>2, <2>1, <2>2
    <3>2. cursor'+1 = cursor /\ cursor' <= kept BY <1>1, <2>1, <2>4
    <3>3. QED BY <1>1, <2>1, <2>4, <3>1, <3>2
  <2>5. CASE main' = "returned" /\ raised' = TRUE /\ cursor' = cursor BY <1>1, <2>1, <2>5
  <2>6. QED BY <2>3, <2>4, <2>5
<1>7. CASE Farewell
  <2>1. /\ UNCHANGED <<kept, cursor, run, calm, raised>> /\ main = "stop" /\ main' = "farewell"
        /\ cursor = 0
        /\ task' = [i \in Server |-> IF i <= kept /\ Pending(i) THEN "cancelled" ELSE task[i]]
    BY <1>7 DEF Farewell, CancelStarts, history
  <2>2. \A i \in 1..kept : ~ Pending(i)' /\ (task[i] = "done" => task'[i] = "done")
    BY <1>1, <2>1 DEF Pending
  <2>3. QED BY <1>1, <2>1, <2>2
<1>8. CASE Return \/ InterruptFarewell
  <2>1. UNCHANGED <<kept, cursor, task, run, calm, raised>> /\ main = "farewell" /\ main' = "returned"
    BY <1>8 DEF Return, InterruptFarewell, Signal, tasks, history
  <2>2. QED BY <1>1, <2>1 DEF Pending
<1>9. CASE Exit
  <2>1. /\ UNCHANGED <<kept, cursor, calm>> /\ main = "returned" /\ main' = "exited"
        /\ task' = [i \in Server |-> IF Pending(i) THEN "cancelled" ELSE task[i]]
    BY <1>9 DEF Exit, history
  <2>2. \A i \in 1..kept : task[i] = "done" => task'[i] = "done" BY <1>1, <2>1 DEF Pending
  <2>3. QED BY <1>1, <2>1, <2>2
<1>10. CASE InterruptHalting
  <2>1. /\ calm' = FALSE /\ kept' = kept /\ cursor' = cursor - 1 /\ cursor > 0 /\ main' = "stop"
    BY <1>10 DEF InterruptHalting, StopNext, StartInv, Stopping
  <2>2. QED BY <1>1, <2>1
<1>11. QED BY <1>3, <1>4, <1>5, <1>6, <1>7, <1>8, <1>9, <1>10 DEF ShutdownStep

\* The invariant of the calm end holds in every reachable state.
LEMMA Calm == Spec => [](TypeInv /\ CalmInv)
<1>1. Init => CalmInv BY DEF Init, CalmInv, Booting
<1>2. ASSUME TypeInv, CalmInv, [Next]_vars PROVE CalmInv'
  <2> USE <1>2
  <2>1. ASSUME NEW i \in Server, Starting(i) PROVE CalmInv' BY <2>1, CalmStarting
  <2>2. ASSUME NEW i \in Server, Die(i) PROVE CalmInv'
    <3>1. /\ UNCHANGED <<main, kept, cursor, task, raised, calm>>
          /\ run' = [run EXCEPT ![i] = "dead"]
      BY <2>2 DEF Die, tasks, history
    <3>2. \A j \in 1..K : run'[j] = "on" => run[j] = "on"
      BY <3>1 DEF TypeInv, LifecycleTypeOK, Server
    <3>3. 1..kept \subseteq 1..K /\ cursor+1..kept \subseteq 1..K
      BY LifecycleAssumption DEF TypeInv, LifecycleTypeOK, K
    <3>4. QED BY <3>1, <3>2, <3>3 DEF CalmInv, Booting, Pending
  <2>3. CASE Settled
    <3>1. main' \in {"settle", "serve"} /\ main = "settle" /\ calm' = calm
      BY <2>3 DEF Settled, history
    <3>2. QED BY <3>1 DEF CalmInv, Booting
  <2>4. CASE Unwind /\ Booting
    <3>1. /\ main' = "stop" /\ cursor' = kept /\ kept' = kept /\ task' = task /\ kept \in Nat
          /\ calm' => \A i \in 1..kept : task[i] = "done"
      BY <2>4, LifecycleAssumption DEF Unwind, tasks, TypeInv, LifecycleTypeOK, K
    <3>2. QED BY <3>1 DEF CalmInv, Booting
  <2>5. CASE ShutdownStep BY <2>5, CalmShutdownStep
  <2>6. CASE UNCHANGED vars
    BY <2>6 DEF vars, tasks, history, CalmInv, Booting, Pending
  <2>7. QED BY <2>1, <2>2, <2>3, <2>4, <2>5, <2>6, StepKinds
<1>3. QED BY <1>1, <1>2, Typed, PTL DEF Spec

\* None of the servers that had all started still serves when _run_realtime
\* returns, whatever came in between.
THEOREM CalmHolds == Spec => []CalmShutdown
<1>1. TypeInv /\ CalmInv => CalmShutdown BY DEF CalmInv, CalmShutdown
<1>2. QED BY <1>1, Calm, PTL

\* No start of the list comes up once the servers have been stopped.
THEOREM NobodyJoinsHolds == Spec => NobodyJoins
<1> DEFINE A == ~ raised /\ main \in {"farewell", "returned"} => \A i \in 1..kept : ~ Joins(i)
<1>1. ASSUME TypeInv, CalmInv, [Next]_vars PROVE [A]_vars
  <2> SUFFICES ASSUME ~ raised, main \in {"farewell", "returned"}, NEW i \in 1..kept, Joins(i)
               PROVE  FALSE
    OBVIOUS
  <2>1. i \in Server /\ ~ Pending(i)
    BY <1>1, LifecycleAssumption DEF CalmInv, TypeInv, LifecycleTypeOK, Server, K
  <2>2. ASSUME NEW j \in Server, Starting(j) PROVE FALSE
    <3>1. Pending(j) /\ (run' = run \/ run' = [run EXCEPT ![j] = "on"]) BY <1>1, <2>2, StartingSteps
    <3>2. j # i BY <2>1, <3>1
    <3>3. QED BY <1>1, <2>1, <3>1, <3>2 DEF Joins, TypeInv, LifecycleTypeOK
  <2>3. CASE ~ \E j \in Server : Starting(j)
    <3>1. \A j \in Server : run'[j] = "on" => run[j] = "on"
      <4>1. run \in [Server -> {"off", "on", "dead"}] BY <1>1 DEF TypeInv, LifecycleTypeOK
      <4>2. CASE \E j \in Server : Die(j) BY <4>1, <4>2 DEF Die
      <4>3. CASE Settled BY <4>3 DEF Settled
      <4>4. CASE Unwind BY <4>4 DEF Unwind
      <4>5. CASE ShutdownStep
        BY <4>1, <4>5 DEF ShutdownStep, BeginStop, Close, LoopClosed, Halt, HaltRaises, Farewell,
                  Return, Exit, InterruptClosing, InterruptHalting, InterruptFarewell
      <4>6. CASE UNCHANGED vars BY <4>6 DEF vars
      <4>7. QED BY <1>1, <2>3, <4>2, <4>3, <4>4, <4>5, <4>6, StepKinds
    <3>2. QED BY <2>1, <3>1 DEF Joins
  <2>4. QED BY <2>2, <2>3
<1>2. QED BY <1>1, Calm, PTL DEF Spec, NobodyJoins

-----------------------------------------------------------------------------
(* The Modbus endpoint: register map and encodings. *)

Types == {"float32", "uint32", "uint16", "int16"}
Orders == {"ABCD", "CDAB"}
Entry == [signal : Signals, address : Nat, type : Types, order : Orders, writable : BOOLEAN]

\* Entries of a block share no cell: a register belongs to one signal.
CellsApart(entries) == \A e, f \in entries : Cells(e) \intersect Cells(f) # {} => e = f

\* The fields of a configured signal.
LEMMA ConfigTypes ==
  ASSUME NEW i \in 1..Len(Config)
  PROVE  /\ Config[i].signal \in Signals
         /\ Config[i].hr \in Address /\ Config[i].ir \in Address
         /\ Config[i].slave \in Address /\ Config[i].slaveIr \in Address
         /\ Config[i].type \in Types /\ Config[i].order \in Orders
         /\ Config[i].writable \in BOOLEAN
  BY EndpointAssumption DEF Signals, Types, Orders

\* The entries built from the configuration.
LEMMA EntryTypes ==
  /\ HrEntries \subseteq Entry
  /\ IrEntries \subseteq Entry
  /\ \A d \in Slaves : SlaveEntries(d) \subseteq Entry
<1>1. ASSUME NEW e \in HrEntries PROVE e \in Entry
  <2>1. PICK i \in Mapped : Config[i].hr # Absent /\ e = HrEntry(i) BY DEF HrEntries
  <2>2. i \in 1..Len(Config) BY DEF Mapped
  <2>3. Config[i].hr \in Nat BY <2>1, <2>2, ConfigTypes DEF Address
  <2>4. QED BY <2>1, <2>2, <2>3, ConfigTypes DEF HrEntry, Entry
<1>2. ASSUME NEW c, NEW a \in Nat, NEW type \in {"int16", "float32"}, c.signal \in Signals
      PROVE  IrEntry(c, a, type) \in Entry
  BY <1>2 DEF IrEntry, Entry, Types, Orders
<1>3. ASSUME NEW e \in IrEntries PROVE e \in Entry
  <2>1. PICK i \in Mapped :
          /\ Config[i].ir # Absent
          /\ e = IrEntry(Config[i], Config[i].ir, IF Config[i].irWords = 1 THEN "int16" ELSE "float32")
    BY DEF IrEntries
  <2>2. i \in 1..Len(Config) BY DEF Mapped
  <2>3. Config[i].ir \in Nat /\ Config[i].signal \in Signals
    BY <2>1, <2>2, ConfigTypes DEF Address
  <2>4. QED BY <1>2, <2>1, <2>3
<1>4. ASSUME NEW d \in Slaves, NEW e \in SlaveEntries(d) PROVE e \in Entry
  <2>1. PICK i \in Mapped : HasSlave(i) /\ e = IrEntry(Config[i], SlaveAddress(Config[i]), "int16")
    BY DEF SlaveEntries
  <2>2. i \in 1..Len(Config) BY DEF Mapped
  <2>3. SlaveAddress(Config[i]) \in Nat /\ Config[i].signal \in Signals
    BY <2>1, <2>2, ConfigTypes DEF Address, HasSlave, SlaveAddress
  <2>4. QED BY <1>2, <2>1, <2>3
<1>5. QED BY <1>1, <1>3, <1>4

\* An entry lies within the block of its entries.
LEMMA CellsInBlock ==
  ASSUME NEW entries, NEW e \in entries, e \in Entry
  PROVE  /\ Cells(e) \subseteq Block(entries) /\ Cells(e) \subseteq Nat
         /\ \A k \in 1..Width(e) : e.address + k - 1 \in Cells(e)
         /\ \A a \in Cells(e) : a - e.address + 1 \in 1..Width(e)
<1>1. Width(e) \in {1, 2} /\ e.address \in Nat BY DEF Width, Entry
<1>2. 0..(e.address + 1) \subseteq Block(entries) BY DEF Block
<1>3. Cells(e) \subseteq 0..(e.address + 1) BY <1>1 DEF Cells
<1>4. QED BY <1>1, <1>2, <1>3 DEF Cells

\* A value is split into words that are natural numbers.
LEMMA Words ==
  ASSUME NEW v \in Nat
  PROVE  v \div Word \in Nat /\ v % Word \in Nat
  BY EndpointAssumption

\* A value becomes as many words as its type is wide.
LEMMA EncodeTypes ==
  ASSUME NEW e \in Entry, NEW v \in Nat
  PROVE  Encode(e.type, e.order, v) \in [1..Width(e) -> Nat]
<1> DEFINE w == Encode(e.type, e.order, v)
<1>0. Word \in Nat /\ Word > 1 BY EndpointAssumption
<1>1. ASSUME NEW a \in Nat, NEW b \in Nat
      PROVE  Ordered(e.order, <<a, b>>) \in [1..2 -> Nat]
  <2>1. <<a, b>> \in [1..2 -> Nat] /\ <<b, a>> \in [1..2 -> Nat] OBVIOUS
  <2>2. <<a, b>>[1] = a /\ <<a, b>>[2] = b OBVIOUS
  <2>3. QED BY <2>1, <2>2 DEF Ordered
<1>2. ASSUME NEW a \in Nat PROVE <<a>> \in [1..1 -> Nat] OBVIOUS
<1>3. CASE e.type = "float32"
  <2>1. w = Ordered(e.order, <<v \div Word, v % Word>>) BY <1>3 DEF Encode, Pair
  <2>2. Width(e) = 2 BY <1>3 DEF Width
  <2>3. QED BY <1>1, <2>1, <2>2, Words
<1>4. CASE e.type = "uint32"
  <2> DEFINE c == Clamp(v, 0, Word * Word - 1)
  <2>1. w = Ordered(e.order, <<c \div Word, c % Word>>) BY <1>4 DEF Encode, Pair
  <2>2. Width(e) = 2 BY <1>4 DEF Width
  <2>3. Word * Word - 1 \in Nat
    <3>1. Word * Word \in Nat /\ Word * Word >= 1 BY <1>0
    <3>2. QED BY <3>1
  <2>4. c \in Nat BY <2>3 DEF Clamp
  <2> HIDE DEF c
  <2>5. QED BY <1>1, <2>1, <2>2, <2>4, Words
<1>5. CASE e.type = "uint16"
  <2>1. w = <<v % Word>> BY <1>5 DEF Encode
  <2>2. Width(e) = 1 BY <1>5 DEF Width
  <2>3. QED BY <1>2, <2>1, <2>2, Words
<1>6. CASE e.type = "int16"
  <2> DEFINE c == Clamp(v, - (Word \div 2), Word \div 2 - 1)
  <2>1. w = <<c % Word>> BY <1>6 DEF Encode
  <2>2. Width(e) = 1 BY <1>6 DEF Width
  <2>3. c \in Int BY <1>0 DEF Clamp
  <2> HIDE DEF c
  <2>4. c % Word \in Nat BY <1>0, <2>3
  <2>5. QED BY <1>2, <2>1, <2>2, <2>4
<1>7. QED BY <1>3, <1>4, <1>5, <1>6 DEF Entry, Types

\* The words of a register give a value again.
LEMMA DecodeTypes ==
  ASSUME NEW e \in HrEntries, NEW words \in [1..Width(e) -> Nat]
  PROVE  Decode(e.type, e.order, words) \in Nat
<1>1. e \in Entry /\ e.type \in {"float32", "uint32", "uint16"}
  <2>1. PICK i \in 1..Len(Config) : e = HrEntry(i) BY DEF HrEntries, Mapped
  <2>2. QED BY <2>1, EntryTypes, EndpointAssumption DEF HrEntry
<1>2. CASE e.type \in {"float32", "uint32"}
  <2>1. Width(e) = 2 BY <1>2 DEF Width
  <2>2. words[1] \in Nat /\ words[2] \in Nat BY <2>1
  <2>3. Ordered(e.order, words)[1] \in Nat /\ Ordered(e.order, words)[2] \in Nat
    BY <2>2 DEF Ordered
  <2>4. Decode(e.type, e.order, words)
          = Ordered(e.order, words)[1] * Word + Ordered(e.order, words)[2]
    BY <1>2 DEF Decode
  <2>5. \A a, b \in Nat : a * Word + b \in Nat BY EndpointAssumption
  <2>6. QED BY <2>3, <2>4, <2>5
<1>3. CASE e.type = "uint16"
  <2>1. Width(e) = 1 BY <1>3 DEF Width
  <2>2. Decode(e.type, e.order, words) = words[1] BY <1>3 DEF Decode
  <2>3. QED BY <2>1, <2>2
<1>4. QED BY <1>1, <1>2, <1>3


-----------------------------------------------------------------------------
(* The types of store and registers.                                       *)

Reading == [Signals -> Nat \union {Absent}]

RegisterType ==
  /\ store \in Reading /\ outputs \in Reading /\ scanned \in Reading
  /\ hr \in [Block(HrEntries) -> Nat]
  /\ DOMAIN ir = Block(IrEntries)
  /\ DOMAIN slaveIr = Slaves
  /\ \A d \in Slaves : DOMAIN slaveIr[d] = Block(SlaveEntries(d))
  /\ DOMAIN lastSync = HrEntries
  /\ \A e \in HrEntries : lastSync[e] = Nothing \/ lastSync[e] \in [1..Width(e) -> Nat]

\* The words of an entry are those of its cells.
LEMMA RegsTypes ==
  ASSUME RegisterType, NEW e \in HrEntries
  PROVE  /\ Regs(e) \in [1..Width(e) -> Nat]
         /\ \A k \in 1..Width(e) : Regs(e)[k] = hr[e.address + k - 1]
<1>1. e \in Entry BY EntryTypes
<1>2. \A k \in 1..Width(e) : e.address + k - 1 \in Block(HrEntries)
  BY <1>1, CellsInBlock
<1>3. QED BY <1>2 DEF Regs, RegisterType

\* What clients wrote is taken into the store, where nothing gets lost.
LEMMA TakenTypes ==
  ASSUME RegisterType
  PROVE  /\ Taken \in Reading
         /\ \A s \in Signals : store[s] # Absent => Taken[s] # Absent
         /\ \A e \in HrEntries : Changed(e) => Taken[e.signal] # Absent
<1> DEFINE written(s) == {e \in HrEntries : e.signal = s /\ Changed(e)}
<1>1. ASSUME NEW s \in Signals, written(s) # {} PROVE Taken[s] \in Nat
  <2> DEFINE e == CHOOSE x \in written(s) : TRUE
  <2>1. e \in written(s) BY <1>1
  <2>2. Taken[s] = Decode(e.type, e.order, Regs(e)) BY <1>1 DEF Taken
  <2> HIDE DEF e
  <2>3. QED BY <2>1, <2>2, RegsTypes, DecodeTypes
<1>2. ASSUME NEW s \in Signals, written(s) = {} PROVE Taken[s] = store[s]
  BY <1>2 DEF Taken
<1>3. Taken = [s \in Signals |-> Taken[s]] BY DEF Taken
<1>4. Absent \notin Nat BY DEF Absent
<1>5. \A s \in Signals : Taken[s] \in Nat \union {Absent}
  BY <1>1, <1>2 DEF RegisterType, Reading
<1>6. \A e \in HrEntries : e.signal \in Signals /\ (Changed(e) => e \in written(e.signal))
  BY EntryTypes DEF Entry
<1> HIDE DEF written
<1>7. Taken \in Reading BY <1>3, <1>5 DEF Reading
<1>8. QED BY <1>1, <1>2, <1>4, <1>6, <1>7

\* The value last taken of a signal that was taken at all.
LEMMA HeldTypes ==
  ASSUME RegisterType, NEW s \in Signals, Taken[s] # Absent
  PROVE  Held(s) \in Nat
  BY TakenTypes DEF Held, RegisterType, Reading

\* The cells of an entry get the words of its value, when no other entry has
\* a share in them.
LEMMA FilledCells ==
  ASSUME NEW entries \in SUBSET Entry, CellsApart(entries), NEW block, NEW e \in entries,
         NEW a \in Cells(e), a \in DOMAIN block
  PROVE  Filled(block, entries)[a]
           = IF Present(e) THEN Encode(e.type, e.order, Held(e.signal))[a - e.address + 1]
             ELSE block[a]
<1> DEFINE here == {x \in entries : Present(x) /\ a \in Cells(x)}
<1>1. \A x \in here : x = e BY DEF CellsApart
<1>2. CASE Present(e)
  <2>1. here = {e} BY <1>1, <1>2
  <2>2. (CHOOSE x \in here : TRUE) = e BY <2>1
  <2>3. Filled(block, entries)[a]
          = Encode((CHOOSE x \in here : TRUE).type, (CHOOSE x \in here : TRUE).order,
                   Held((CHOOSE x \in here : TRUE).signal))[a - (CHOOSE x \in here : TRUE).address + 1]
    BY <2>1 DEF Filled
  <2>4. QED BY <1>2, <2>2, <2>3
<1>3. CASE ~ Present(e)
  <2>1. here = {} BY <1>1, <1>3
  <2>2. QED BY <1>3, <2>1 DEF Filled
<1>4. QED BY <1>2, <1>3

\* A block whose entries are filled from the store is a block.
LEMMA FilledTypes ==
  ASSUME RegisterType, NEW entries \in SUBSET Entry, NEW block \in [Block(entries) -> Nat]
  PROVE  Filled(block, entries) \in [Block(entries) -> Nat]
<1> SUFFICES ASSUME NEW a \in Block(entries) PROVE Filled(block, entries)[a] \in Nat
  BY DEF Filled
<1> DEFINE here == {x \in entries : Present(x) /\ a \in Cells(x)}
           e == CHOOSE x \in here : TRUE
<1>1. CASE here = {} BY <1>1 DEF Filled
<1>2. CASE here # {}
  <2>1. e \in here BY <1>2
  <2>2. Filled(block, entries)[a] = Encode(e.type, e.order, Held(e.signal))[a - e.address + 1]
    BY <1>2 DEF Filled
  <2> HIDE DEF e
  <2>3. e \in Entry /\ e \in entries /\ Present(e) /\ a \in Cells(e) BY <2>1
  <2>4. Held(e.signal) \in Nat BY <2>3, HeldTypes DEF Present, Entry
  <2>5. a - e.address + 1 \in 1..Width(e) BY <2>3, CellsInBlock
  <2>6. Encode(e.type, e.order, Held(e.signal)) \in [1..Width(e) -> Nat]
    BY <2>3, <2>4, EncodeTypes
  <2>7. QED BY <2>2, <2>5, <2>6
<1>3. QED BY <1>1, <1>2

\* An endpoint that is constructed has the types.
LEMMA InitTypes == ASSUME EndpointInit PROVE RegisterType
<1>1. [s \in Signals |-> Absent] \in Reading BY DEF Reading
<1>2. [a \in Block(HrEntries) |-> 0] \in [Block(HrEntries) -> Nat] OBVIOUS
<1>3. QED BY <1>1, <1>2 DEF EndpointInit, RegisterType, Nothing

\* A synchronisation keeps the types.
LEMMA SyncTypes == ASSUME RegisterType, Sync PROVE RegisterType'
<1>1. store' \in Reading BY TakenTypes DEF Sync, SyncHoldingRegisters
<1>2. outputs' \in Reading /\ scanned' \in Reading BY TakenTypes DEF Sync, RegisterType
<1>3. hr' \in [Block(HrEntries) -> Nat]
  <2>1. hr \in [Block(HrEntries) -> Nat] BY DEF RegisterType
  <2>2. QED BY <2>1, FilledTypes, EntryTypes DEF Sync, SyncHoldingRegisters
<1>4. DOMAIN ir' = Block(IrEntries) BY DEF Sync, SyncInputRegisters, Filled, RegisterType
<1>5. DOMAIN slaveIr' = Slaves /\ \A d \in Slaves : DOMAIN slaveIr'[d] = Block(SlaveEntries(d))
  BY DEF Sync, SyncSecondarySlaves, Filled, RegisterType
<1>6. DOMAIN lastSync' = HrEntries BY DEF Sync, SyncHoldingRegisters
<1>7. ASSUME NEW e \in HrEntries
      PROVE  lastSync'[e] = Nothing \/ lastSync'[e] \in [1..Width(e) -> Nat]
  <2>1. CASE e.writable /\ Present(e)
    <3>1. e \in Entry /\ e.signal \in Signals BY EntryTypes DEF Entry
    <3>2. Held(e.signal) \in Nat BY <2>1, <3>1, HeldTypes DEF Present
    <3>3. lastSync'[e] = Encode(e.type, e.order, Held(e.signal))
      BY <2>1 DEF Sync, SyncHoldingRegisters
    <3>4. QED BY <3>1, <3>2, <3>3, EncodeTypes
  <2>2. CASE ~ (e.writable /\ Present(e))
    <3>1. lastSync'[e] = lastSync[e] BY <2>2 DEF Sync, SyncHoldingRegisters
    <3>2. QED BY <3>1 DEF RegisterType
  <2>3. QED BY <2>1, <2>2
<1>8. QED BY <1>1, <1>2, <1>3, <1>4, <1>5, <1>6, <1>7 DEF RegisterType

\* What a client can put into the registers: words.
LEMMA WriteTypes ==
  ASSUME RegisterType, ClientWrites
  PROVE  \E code, address \in Int, n \in Nat : \E words \in [1..n -> Nat] :
           Len(words) = n /\ Write(code, address, words)
<1>1. CASE \E e \in HrEntries, v \in Requested : Write(16, e.address, Encode(e.type, e.order, v))
  <2>1. PICK e \in HrEntries, v \in Requested : Write(16, e.address, Encode(e.type, e.order, v))
    BY <1>1
  <2>2. e \in Entry /\ v \in Nat BY EntryTypes, EndpointAssumption
  <2>3. Encode(e.type, e.order, v) \in [1..Width(e) -> Nat] BY <2>2, EncodeTypes
  <2>4. Width(e) \in Nat /\ e.address \in Int BY <2>2 DEF Width, Entry
  <2>5. Len(Encode(e.type, e.order, v)) = Width(e) BY <2>3, <2>4
  <2>6. QED BY <2>1, <2>3, <2>4, <2>5
<1>2. CASE \E a \in DOMAIN hr, code \in {6, 16} : Write(code, a, <<1>>)
  <2>1. PICK a \in DOMAIN hr, code \in {6, 16} : Write(code, a, <<1>>) BY <1>2
  <2>2. a \in Int BY <2>1 DEF RegisterType, Block
  <2>3. <<1>> \in [1..1 -> Nat] /\ Len(<<1>>) = 1 OBVIOUS
  <2>4. \E words \in [1..1 -> Nat] : Len(words) = 1 /\ Write(code, a, words) BY <2>1, <2>3
  <2>5. code \in Int /\ 1 \in Nat OBVIOUS
  <2>6. QED BY <2>2, <2>4, <2>5
<1>3. QED BY <1>1, <1>2 DEF ClientWrites

\* So does every step.
LEMMA TypesStep == ASSUME RegisterType, [EndpointNext]_endpointVars PROVE RegisterType'
<1>1. ASSUME NEW gap \in Gaps, EngineWrites(gap) PROVE RegisterType'
  <2>1. store' \in Reading BY <1>1, EndpointAssumption DEF EngineWrites, Reading
  <2>2. QED BY <1>1, <2>1 DEF EngineWrites, RegisterType, blocks, Regs
<1>2. CASE Skip BY <1>2 DEF Skip, RegisterType, blocks
<1>3. CASE ClientWrites
  <2>1. PICK code, address \in Int, n \in Nat : \E words \in [1..n -> Nat] :
           Len(words) = n /\ Write(code, address, words)
    BY <1>3, WriteTypes
  <2>2. PICK words \in [1..n -> Nat] : Len(words) = n /\ Write(code, address, words) BY <2>1
  <2>3. hr' \in [Block(HrEntries) -> Nat]
    <3>1. \A a \in address..(address + n - 1) : a - address + 1 \in 1..n OBVIOUS
    <3>2. QED BY <2>2, <3>1 DEF Write, RegisterType
  <2>4. QED BY <2>2, <2>3 DEF Write, RegisterType
<1>4. CASE UNCHANGED endpointVars BY <1>4 DEF endpointVars, blocks, RegisterType
<1>5. QED BY <1>1, <1>2, <1>3, <1>4, SyncTypes DEF EndpointNext

\* Type correctness of the registers: for every configuration, word size and
\* scan cycle the holding and input blocks of _sync_registers keep their
\* addresses, and a remembered synchronisation has the width of its entry.
THEOREM RegistersTyped == EndpointSpec => []RegisterType
<1>1. EndpointInit => RegisterType BY InitTypes
<1>2. RegisterType /\ [EndpointNext]_endpointVars => RegisterType' BY TypesStep
<1>3. QED BY <1>1, <1>2, PTL DEF EndpointSpec


-----------------------------------------------------------------------------
(* What the server takes for a client's write.                             *)

\* Where a writable entry differs from what was last put there, a client has
\* written since the last update.
EchoInv ==
  \A e \in HrEntries : e.writable /\ lastSync[e] # Nothing =>
    \A k \in 1..Width(e) : hr[e.address + k - 1] # lastSync[e][k] => e.address + k - 1 \in asked

\* After a synchronisation a register differs from what the server remembers
\* only if a client wrote it since.
LEMMA EchoSync ==
  ASSUME CellsApart(HrEntries), RegisterType, EchoInv, Sync PROVE EchoInv'
<1> SUFFICES ASSUME NEW e \in HrEntries, e.writable, lastSync'[e] # Nothing, NEW k \in 1..Width(e)
             PROVE  hr'[e.address + k - 1] = lastSync'[e][k]
  BY DEF EchoInv
<1> DEFINE a == e.address + k - 1
<1>1. e \in Entry /\ HrEntries \in SUBSET Entry BY EntryTypes
<1>2. e.address \in Nat /\ Width(e) \in Nat BY <1>1 DEF Entry, Width
<1>3. a \in Cells(e) /\ a \in Block(HrEntries) /\ a - e.address + 1 = k
  BY <1>1, <1>2, CellsInBlock
<1>4. hr'[a] = IF Present(e) THEN Encode(e.type, e.order, Held(e.signal))[k] ELSE hr[a]
  <2>1. DOMAIN hr = Block(HrEntries) BY DEF RegisterType
  <2>2. Filled(hr, HrEntries)[a]
          = IF Present(e) THEN Encode(e.type, e.order, Held(e.signal))[a - e.address + 1] ELSE hr[a]
    BY <1>1, <1>3, <2>1, FilledCells
  <2>3. QED BY <1>3, <2>2 DEF Sync, SyncHoldingRegisters
<1>5. CASE Present(e)
  BY <1>4, <1>5 DEF Sync, SyncHoldingRegisters
<1>6. CASE ~ Present(e)
  <2>1. lastSync'[e] = lastSync[e] BY <1>6 DEF Sync, SyncHoldingRegisters
  <2>2. Regs(e) = lastSync[e]
    BY <1>6, <2>1, TakenTypes DEF Present, Changed
  <2>3. Regs(e)[k] = hr[a] BY RegsTypes
  <2>4. QED BY <1>4, <1>6, <2>1, <2>2, <2>3
<1>7. QED BY <1>5, <1>6

\* So it is after every step.
LEMMA EchoStep ==
  ASSUME CellsApart(HrEntries), RegisterType, EchoInv, [EndpointNext]_endpointVars
  PROVE  EchoInv'
<1>1. CASE Sync BY <1>1, EchoSync
<1>2. CASE ClientWrites
  <2>1. PICK code, address \in Int, n \in Nat : \E words \in [1..n -> Nat] :
           Len(words) = n /\ Write(code, address, words)
    BY <1>2, WriteTypes
  <2>2. PICK words \in [1..n -> Nat] : Len(words) = n /\ Write(code, address, words) BY <2>1
  <2>3. /\ asked' = asked \union address..(address + n - 1) /\ lastSync' = lastSync
        /\ \A a \in DOMAIN hr : a \notin address..(address + n - 1) => hr'[a] = hr[a]
    BY <2>2 DEF Write
  <2> SUFFICES ASSUME NEW e \in HrEntries, e.writable, lastSync[e] # Nothing, NEW k \in 1..Width(e),
                      hr'[e.address + k - 1] # lastSync[e][k]
               PROVE  e.address + k - 1 \in asked'
    BY <2>3 DEF EchoInv
  <2>4. e.address + k - 1 \in DOMAIN hr BY EntryTypes, CellsInBlock DEF RegisterType
  <2>5. QED BY <2>3, <2>4 DEF EchoInv
<1>3. CASE (\E gap \in Gaps : EngineWrites(gap)) \/ Skip \/ UNCHANGED endpointVars
  BY <1>3 DEF EngineWrites, Skip, endpointVars, blocks, EchoInv
<1>4. QED BY <1>1, <1>2, <1>3 DEF EndpointNext

\* When no two entries share a register, a change that the server takes for a
\* client's write is one, for every register map, encoding and scan cycle.
THEOREM EchoHolds == ASSUME CellsApart(HrEntries) PROVE EndpointSpec => []NoEcho
<1>1. EndpointInit => EchoInv BY DEF EndpointInit, EchoInv
<1>2. RegisterType /\ EchoInv /\ [EndpointNext]_endpointVars => EchoInv' BY EchoStep
<1>3. RegisterType /\ EchoInv => NoEcho
  <2> SUFFICES ASSUME RegisterType, EchoInv, NEW e \in HrEntries, Changed(e)
               PROVE  Cells(e) \intersect asked # {}
    BY DEF NoEcho
  <2>1. e.writable /\ lastSync[e] # Nothing /\ Regs(e) # lastSync[e] BY DEF Changed
  <2>2. lastSync[e] \in [1..Width(e) -> Nat] BY <2>1 DEF RegisterType
  <2>3. Regs(e) \in [1..Width(e) -> Nat] BY RegsTypes
  <2>4. PICK k \in 1..Width(e) : Regs(e)[k] # lastSync[e][k]
    <3>1. Regs(e) = [k \in 1..Width(e) |-> Regs(e)[k]] BY <2>3
    <3>2. lastSync[e] = [k \in 1..Width(e) |-> lastSync[e][k]] BY <2>2
    <3>3. QED BY <2>1, <3>1, <3>2
  <2>5. hr[e.address + k - 1] # lastSync[e][k] BY <2>4, RegsTypes
  <2>6. e.address + k - 1 \in asked BY <2>1, <2>5 DEF EchoInv
  <2>7. e.address + k - 1 \in Cells(e) BY EntryTypes, CellsInBlock
  <2>8. QED BY <2>6, <2>7
<1>4. QED BY <1>1, <1>2, <1>3, RegistersTyped, PTL DEF EndpointSpec


-----------------------------------------------------------------------------
(* What clients read.                                                      *)

AllApart ==
  /\ CellsApart(HrEntries) /\ CellsApart(IrEntries)
  /\ \A d \in Slaves : CellsApart(SlaveEntries(d))

\* The cells of a block hold the values of the last scan, except some.
HoldsScan(block, entries, but) ==
  \A e \in entries : scanned[e.signal] # Absent =>
    \A a \in Cells(e) \ but :
      block[a] = Encode(e.type, e.order, scanned[e.signal])[a - e.address + 1]

\* What the scan cycle holds back is the last scan, and nothing of it has
\* left the store since.
CycleInv ==
  /\ Cycles # {} => outputs = scanned
  /\ \A s \in Signals : scanned[s] # Absent => store[s] # Absent

ScanInv ==
  /\ CycleInv
  /\ HoldsScan(hr, HrEntries, asked)
  /\ HoldsScan(ir, IrEntries, {})
  /\ \A d \in Slaves : HoldsScan(slaveIr[d], SlaveEntries(d), {})

\* What a synchronisation writes of a signal is what the scan has latched.
LEMMA HeldIsScanned ==
  ASSUME RegisterType, CycleInv, Sync, NEW s \in Signals, scanned'[s] # Absent
  PROVE  Taken[s] # Absent /\ Held(s) = scanned'[s]
<1>1. CASE Scans BY <1>1 DEF Sync, Held
<1>2. CASE ~ Scans
  <2>1. scanned' = scanned /\ Cycles # {} BY <1>2 DEF Sync, Scans
  <2>2. outputs[s] = scanned[s] /\ outputs[s] # Absent BY <2>1 DEF CycleInv
  <2>3. store[s] # Absent BY <2>1 DEF CycleInv
  <2>4. QED BY <1>2, <2>1, <2>2, <2>3, TakenTypes DEF Held
<1>3. QED BY <1>1, <1>2

\* After an update a block holds the last scan in all of its cells.
LEMMA SyncedBlock ==
  ASSUME RegisterType, CycleInv, Sync, NEW entries \in SUBSET Entry, CellsApart(entries),
         NEW block, DOMAIN block = Block(entries), NEW e \in entries, scanned'[e.signal] # Absent,
         NEW a \in Cells(e)
  PROVE  Filled(block, entries)[a] = Encode(e.type, e.order, scanned'[e.signal])[a - e.address + 1]
<1>1. e.signal \in Signals /\ e \in Entry BY DEF Entry
<1>2. a \in DOMAIN block BY <1>1, CellsInBlock
<1>3. Present(e) /\ Held(e.signal) = scanned'[e.signal] BY <1>1, HeldIsScanned DEF Present
<1>4. QED BY <1>2, <1>3, FilledCells

\* A synchronisation writes every cell from one scan of its controller.
LEMMA ScanSync == ASSUME AllApart, RegisterType, CycleInv, Sync PROVE ScanInv'
<1>1. CycleInv'
  <2>1. Cycles # {} => outputs' = scanned' BY DEF Sync, CycleInv
  <2>2. \A s \in Signals : scanned'[s] # Absent => store'[s] # Absent
    BY HeldIsScanned DEF Sync, SyncHoldingRegisters
  <2>3. QED BY <2>1, <2>2 DEF CycleInv
<1>2. HoldsScan(hr, HrEntries, asked)'
  <2>1. hr' = Filled(hr, HrEntries) BY DEF Sync, SyncHoldingRegisters
  <2>2. \A e \in HrEntries : scanned'[e.signal] # Absent =>
          \A a \in Cells(e) :
            hr'[a] = Encode(e.type, e.order, scanned'[e.signal])[a - e.address + 1]
    BY <2>1, SyncedBlock, EntryTypes DEF AllApart, RegisterType
  <2>3. QED BY <2>2 DEF HoldsScan
<1>3. HoldsScan(ir, IrEntries, {})'
  <2>1. ir' = Filled(ir, IrEntries) BY DEF Sync, SyncInputRegisters
  <2>2. \A e \in IrEntries : scanned'[e.signal] # Absent =>
          \A a \in Cells(e) :
            ir'[a] = Encode(e.type, e.order, scanned'[e.signal])[a - e.address + 1]
    BY <2>1, SyncedBlock, EntryTypes DEF AllApart, RegisterType
  <2>3. QED BY <2>2 DEF HoldsScan
<1>4. ASSUME NEW d \in Slaves PROVE HoldsScan(slaveIr[d], SlaveEntries(d), {})'
  <2>1. slaveIr'[d] = Filled(slaveIr[d], SlaveEntries(d)) BY DEF Sync, SyncSecondarySlaves
  <2>2. DOMAIN slaveIr[d] = Block(SlaveEntries(d)) BY DEF RegisterType
  <2>3. SlaveEntries(d) \in SUBSET Entry /\ CellsApart(SlaveEntries(d)) BY EntryTypes DEF AllApart
  <2>4. \A e \in SlaveEntries(d) : scanned'[e.signal] # Absent =>
          \A a \in Cells(e) :
            slaveIr'[d][a] = Encode(e.type, e.order, scanned'[e.signal])[a - e.address + 1]
    BY <2>1, <2>2, <2>3, SyncedBlock
  <2>5. QED BY <2>4 DEF HoldsScan
<1>5. QED BY <1>1, <1>2, <1>3, <1>4 DEF ScanInv

\* No other step mixes two scans.
LEMMA ScanStep ==
  ASSUME AllApart, RegisterType, ScanInv, [EndpointNext]_endpointVars PROVE ScanInv'
<1>1. CASE Sync BY <1>1, ScanSync DEF ScanInv
<1>2. CASE ClientWrites
  <2>1. PICK code, address \in Int, n \in Nat : \E words \in [1..n -> Nat] :
           Len(words) = n /\ Write(code, address, words)
    BY <1>2, WriteTypes
  <2>2. PICK words \in [1..n -> Nat] : Len(words) = n /\ Write(code, address, words) BY <2>1
  <2>3. /\ asked' = asked \union address..(address + n - 1)
        /\ \A a \in DOMAIN hr : a \notin address..(address + n - 1) => hr'[a] = hr[a]
        /\ UNCHANGED <<store, outputs, scanned, ir, slaveIr>>
    BY <2>2 DEF Write
  <2>4. \A e \in HrEntries : Cells(e) \subseteq DOMAIN hr
    BY EntryTypes, CellsInBlock DEF RegisterType
  <2>5. HoldsScan(hr, HrEntries, asked)' BY <2>3, <2>4 DEF HoldsScan, ScanInv
  <2>6. QED BY <2>3, <2>5 DEF ScanInv, CycleInv, HoldsScan
<1>3. ASSUME NEW gap \in Gaps, EngineWrites(gap) PROVE ScanInv'
  <2>1. UNCHANGED <<outputs, scanned, hr, ir, slaveIr, asked>> BY <1>3 DEF EngineWrites, blocks
  <2>2. \A s \in Signals : store'[s] # Absent
    BY <1>3, EndpointAssumption DEF EngineWrites, Absent
  <2>3. QED BY <2>1, <2>2 DEF ScanInv, CycleInv, HoldsScan
<1>4. CASE Skip \/ UNCHANGED endpointVars
  BY <1>4 DEF Skip, endpointVars, blocks, ScanInv, CycleInv, HoldsScan
<1>5. QED BY <1>1, <1>2, <1>3, <1>4 DEF EndpointNext

\* The words of a device at an entry.
WordsAt(d, code, e) == [k \in 1..Width(e) |-> Cell(d, code, e.address + k - 1)]

\* A read that returns a value returns those words, whole or cut off.
LEMMA ReadsOf ==
  ASSUME NEW unit, NEW d, Routes(unit) = {d}, NEW code, NEW e,
         WordsAt(d, code, e) \in [1..Width(e) -> Nat]
  PROVE  \A r \in Reads(unit, code, e) : r = SubSeq(WordsAt(d, code, e), 1, Len(r))
<1> DEFINE n == Width(e)
           full == WordsAt(d, code, e)
           words == [k \in 1..n |-> Cell(d, code, e.address + k - 1)]
<1>1. n \in Nat BY DEF Width
<1>2. words = full BY DEF WordsAt
<1>3. full \in [1..n -> Nat] OBVIOUS
<1> HIDE DEF full
<1>4. full \in Seq(Nat) /\ Len(full) = n BY <1>1, <1>3
<1>5. SubSeq(full, 1, Len(full)) = full BY <1>4
<1>6. \A m \in Truncated(n) : SubSeq(full, 1, m) = SubSeq(full, 1, Len(SubSeq(full, 1, m)))
  <2> SUFFICES ASSUME NEW m \in 1..(n - 1) PROVE Len(SubSeq(full, 1, m)) = m BY DEF Truncated
  <2>1. QED BY <1>1, <1>4
<1>7. Reads(unit, code, e) \subseteq {full} \union {SubSeq(full, 1, m) : m \in Truncated(n)}
  <2>1. Replies(unit, code, e.address, n) =
          IF ~ (e.address..(e.address + n - 1) \subseteq Readable(d, code)) THEN {IllegalAddress}
          ELSE IF d = Main THEN Injected(words, n) ELSE {words}
    BY DEF Replies
  <2>2. Injected(words, n) \subseteq Exceptions \union {full} \union {SubSeq(full, 1, m) : m \in Truncated(n)}
    BY <1>2 DEF Injected, Exceptions
  <2>3. IllegalAddress \in Exceptions BY DEF Exceptions
  <2> HIDE DEF words
  <2>4. QED BY <1>2, <2>1, <2>2, <2>3 DEF Reads
<1>8. \A r \in Reads(unit, code, e) : r = SubSeq(full, 1, Len(r)) BY <1>5, <1>6, <1>7
<1>9. QED BY <1>8 DEF full

\* An entry whose cells hold the last scan shows it.
LEMMA ShowsEntry ==
  ASSUME RegisterType, NEW unit, NEW d, Routes(unit) = {d}, NEW code \in {3, 4},
         NEW e \in Entry, scanned[e.signal] # Absent,
         \A a \in Cells(e) :
           Cell(d, code, a) = Encode(e.type, e.order, scanned[e.signal])[a - e.address + 1]
  PROVE  Shows(unit, code, e)
<1> DEFINE full == Encode(e.type, e.order, scanned[e.signal])
<1>1. scanned[e.signal] \in Nat BY DEF RegisterType, Reading, Entry
<1>2. full \in [1..Width(e) -> Nat] BY <1>1, EncodeTypes
<1>3. \A k \in 1..Width(e) : Cell(d, code, e.address + k - 1) = full[k]
  <2> TAKE k \in 1..Width(e)
  <2>1. e.address \in Nat /\ Width(e) \in Nat BY DEF Entry, Width
  <2>2. e.address + k - 1 \in Cells(e) BY <2>1 DEF Cells
  <2>3. (e.address + k - 1) - e.address + 1 = k BY <2>1
  <2>4. QED BY <2>2, <2>3
<1> HIDE DEF full
<1>4. \A r \in Reads(unit, code, e) : r = SubSeq(full, 1, Len(r))
  <2>1. full = [k \in 1..Width(e) |-> full[k]] BY <1>2
  <2>2. WordsAt(d, code, e) = full BY <2>1, <1>3 DEF WordsAt
  <2>3. QED BY <1>2, <2>2, ReadsOf
<1>5. QED BY <1>4 DEF Shows, full

\* What a client reads of one controller is from one scan of it, through
\* every unit, for every configuration whose registers are reachable and
\* belong to one signal each.
THEOREM ScanHolds ==
  ASSUME Reachable, AllApart PROVE EndpointSpec => []OneScan
<1>1. EndpointInit => ScanInv
  <2> SUFFICES ASSUME EndpointInit PROVE ScanInv OBVIOUS
  <2>1. \A s \in Signals : scanned[s] = Absent /\ outputs = scanned BY DEF EndpointInit
  <2>2. HrEntries \subseteq Entry /\ IrEntries \subseteq Entry
        /\ \A d \in Slaves : SlaveEntries(d) \subseteq Entry
    BY EntryTypes
  <2>3. \A e \in Entry : scanned[e.signal] = Absent BY <2>1 DEF Entry
  <2>4. HoldsScan(hr, HrEntries, asked) BY <2>2, <2>3 DEF HoldsScan
  <2>5. HoldsScan(ir, IrEntries, {}) BY <2>2, <2>3 DEF HoldsScan
  <2>6. \A d \in Slaves : HoldsScan(slaveIr[d], SlaveEntries(d), {})
    BY <2>2, <2>3 DEF HoldsScan
  <2>7. CycleInv BY <2>1 DEF CycleInv, EndpointInit
  <2>8. QED BY <2>4, <2>5, <2>6, <2>7 DEF ScanInv
<1>2. RegisterType /\ ScanInv /\ [EndpointNext]_endpointVars => ScanInv' BY ScanStep
<1>3. RegisterType /\ ScanInv => OneScan
  <2> SUFFICES ASSUME RegisterType, ScanInv, NEW unit \in Units, NEW d \in Routes(unit)
               PROVE  \/ /\ d = Main
                         /\ \A e \in HrEntries : Shows(unit, 3, e)
                         /\ \A e \in IrEntries : Shows(unit, 4, e)
                      \/ /\ d # Main
                         /\ \A e \in SlaveEntries(d) : Shows(unit, 4, e)
    BY DEF OneScan
  <2>1. Routes(unit) = {d} BY DEF Reachable
  <2>2. d \in Slaves \union {Main} BY DEF Routes
  <2>3. ASSUME d = Main, NEW e \in HrEntries PROVE Shows(unit, 3, e)
    <3>1. CASE scanned[e.signal] # Absent /\ Cells(e) \intersect asked = {}
      <4>1. \A a \in Cells(e) :
              Cell(d, 3, a) = Encode(e.type, e.order, scanned[e.signal])[a - e.address + 1]
        BY <2>3, <3>1 DEF Cell, ScanInv, HoldsScan
      <4>2. QED BY <2>1, <3>1, <4>1, EntryTypes, ShowsEntry
    <3>2. CASE ~ (scanned[e.signal] # Absent /\ Cells(e) \intersect asked = {})
      BY <3>2 DEF Shows
    <3>3. QED BY <3>1, <3>2
  <2>4. ASSUME d = Main, NEW e \in IrEntries PROVE Shows(unit, 4, e)
    <3>1. CASE scanned[e.signal] # Absent
      <4>1. \A a \in Cells(e) :
              Cell(d, 4, a) = Encode(e.type, e.order, scanned[e.signal])[a - e.address + 1]
        BY <2>4, <3>1 DEF Cell, ScanInv, HoldsScan
      <4>2. QED BY <2>1, <3>1, <4>1, EntryTypes, ShowsEntry
    <3>2. CASE scanned[e.signal] = Absent BY <3>2 DEF Shows
    <3>3. QED BY <3>1, <3>2
  <2>5. ASSUME d # Main, NEW e \in SlaveEntries(d) PROVE Shows(unit, 4, e)
    <3>1. CASE scanned[e.signal] # Absent
      <4>1. \A a \in Cells(e) :
              Cell(d, 4, a) = Encode(e.type, e.order, scanned[e.signal])[a - e.address + 1]
        BY <2>2, <2>5, <3>1 DEF Cell, ScanInv, HoldsScan
      <4>2. QED BY <2>1, <2>2, <2>5, <3>1, <4>1, EntryTypes, ShowsEntry
    <3>2. CASE scanned[e.signal] = Absent BY <3>2 DEF Shows
    <3>3. QED BY <3>1, <3>2
  <2>6. QED BY <2>3, <2>4, <2>5
<1>4. QED BY <1>1, <1>2, <1>3, RegistersTyped, PTL DEF EndpointSpec

=============================================================================
