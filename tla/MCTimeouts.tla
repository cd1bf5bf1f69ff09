----------------------------- MODULE MCTimeouts -----------------------------
(* Instances of the timeouts for TLC.                                      *)
EXTENDS Timeouts

TwoCyclic == <<"slow", "fast">>
Intervals ==
  [h \in {"slow", "fast", "tcp", "app"} |->
     CASE h = "slow" -> 3 [] h = "fast" -> 2 [] h = "tcp" -> 2 [] h = "app" -> 1]
=============================================================================
