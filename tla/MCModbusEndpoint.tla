-------------------------- MODULE MCModbusEndpoint --------------------------
(* The oven gateway: a state with a coil and a discrete input, a writable    *)
(* setpoint that is served by a secondary slave as well, and a signal of     *)
(* other equipment.                                                          *)
EXTENDS ModbusEndpoint, TLC

Configured(signal, equipment) ==
  [signal |-> signal, equipment |-> equipment, enabled |-> TRUE, hr |-> -1, type |-> "float32",
   order |-> "ABCD", writable |-> FALSE, ir |-> -1, irWords |-> 1, slave |-> -1, slaveIr |-> -1,
   coil |-> -1, coilValue |-> -1, di |-> -1, diMode |-> "gt_zero", diValue |-> -1]

MCConfig ==
  <<[Configured("oven.state", "oven") EXCEPT !.hr = 0, !.type = "uint16", !.coil = 0, !.coilValue = 2,
                                             !.di = 0, !.diMode = "modulo"],
    [Configured("setpoint", "oven") EXCEPT !.hr = 1, !.order = "CDAB", !.writable = TRUE,
                                           !.ir = 0, !.slave = 11, !.slaveIr = 1],
    [Configured("speed", "mixer") EXCEPT !.hr = 5]>>

Store(state, setpoint, speed) ==
  [s \in Signals |-> CASE s = "oven.state" -> state [] s = "setpoint" -> setpoint [] OTHER -> speed]

MCValues == {Store(2, 6, 0), Store(2, 9, 1), Store(5, 6, 1)}

\* In steps of 5 ms, the jitter rounded.
MCCycleOf ==
  ("S7-1500" :> {2}) @@ ("S7-1200" :> {4, 5}) @@ ("CompactLogix" :> {3}) @@
  ("Eurotherm" :> {20, 22}) @@ ("Danfoss" :> {20, 22}) @@ ("PM5560" :> {10, 11})

=============================================================================
