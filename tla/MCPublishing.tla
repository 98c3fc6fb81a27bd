----------------------------- MODULE MCPublishing -----------------------------
(* A configuration with an event-driven topic, a timed one and a vibration   *)
(* topic for three axes, one of which is published more seldom.              *)
EXTENDS Publishing

Configured(signal, equipment, enabled, topic, axis, interval) ==
  [signal |-> signal, equipment |-> equipment, enabled |-> enabled,
   topic |-> topic, axis |-> axis, interval |-> interval]

MCConfig ==
  <<Configured("state", "coder", TRUE, "coder/state", "none", 1),
    Configured("ink", "motor", TRUE, "motor/ink", "none", 2),
    Configured("x", "motor", TRUE, "vibration/main", "x", 2),
    Configured("y", "motor", TRUE, "vibration/main", "y", 1),
    Configured("z", "motor", TRUE, "vibration/main", "z", 1)>>

Good(v) == [value |-> v, quality |-> "good"]

\* The sensor disconnect injector writes its sentinel with a bad quality, the
\* intermittent fault with the default one.
Spoilt(quality) == [value |-> "sentinel", quality |-> quality]

MCReadings ==
  [eq \in {"coder", "motor"} |->
     IF eq = "coder"
     THEN [{"state"} -> {Good("printing"), Good("ready")}]
     ELSE LET fine == [s \in {"ink", "x", "y", "z"} |-> Good("fine")]
          IN {fine, [fine EXCEPT !["ink"] = Spoilt("good"), !["x"] = Spoilt("good"),
                                 !["y"] = Spoilt("bad")]}]

=============================================================================
