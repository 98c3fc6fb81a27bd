----------------------------- MODULE MCFollowers ----------------------------
(***************************************************************************)
(* Followers with the intervals of the two shipped configurations, in      *)
(* ticks of 0.5 s: the press runs twice as often as its followers, the     *)
(* sealer less often than the filler, the checkweigher as often.           *)
(***************************************************************************)
EXTENDS Followers, TLC

IntervalC ==
  [press |-> 1, laminator |-> 2, vibration |-> 2, energy |-> 2,
   filler |-> 2, qc |-> 2, sealer |-> 3]

SpeedsC == {1, 2}
ItemTimeC == 1 :> 2 @@ 2 :> 1

=============================================================================
