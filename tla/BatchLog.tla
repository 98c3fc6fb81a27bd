------------------------------ MODULE BatchLog ------------------------------
(***************************************************************************)
(* What a batch run promises to whoever reads its file: one entry per tick *)
(* is recorded, the entries in the file are a prefix of those recorded and *)
(* never become fewer, and a run that ends well has kept every one.        *)
(***************************************************************************)
EXTENDS Naturals, Sequences

VARIABLES log,      \* what the run recorded, one entry per tick
          kept,     \* how many entries a reader of the file gets
          fault,    \* a write failed, or the process was killed
          status    \* "open", "closed" or "broken"

vars == <<log, kept, fault, status>>

Init == log = <<>> /\ kept = 0 /\ fault = FALSE /\ status = "open"

\* A tick is recorded; it and all before it may be kept at once.
Record ==
  /\ status = "open" /\ ~ fault
  /\ Len(log') = Len(log) + 1
  /\ \A i \in 1..Len(log) : log'[i] = log[i]
  /\ kept' \in kept..Len(log')
  /\ fault' \in BOOLEAN
  /\ UNCHANGED status

\* The run ends well.
Close ==
  /\ status = "open" /\ ~ fault
  /\ kept' = Len(log)
  /\ status' = "closed"
  /\ UNCHANGED <<log, fault>>

\* The run ends badly, because a write failed or the process was killed; what
\* it has written until then may still become readable.
Break ==
  /\ status = "open"
  /\ kept' \in kept..Len(log)
  /\ fault' = TRUE
  /\ status' = "broken"
  /\ UNCHANGED log

Next == Record \/ Close \/ Break

Spec == Init /\ [][Next]_vars

=============================================================================
