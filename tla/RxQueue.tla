------------------------------- MODULE RxQueue ------------------------------
(***************************************************************************)
(* What the receive path promises about frames, with no ring, pointers or  *)
(* flags: frames, numbered in the order of their arrival, wait until they  *)
(* are taken; each one is taken once; and a frame that waits sees fewer    *)
(* than Size later frames accepted, so fewer than Size can overtake it.    *)
(***************************************************************************)
EXTENDS Integers

CONSTANTS
  Size,      \* buffers of the receiver
  MaxFrames  \* bound on the frames that arrive

VARIABLES
  next,      \* number of the next frame
  waiting,   \* accepted and not yet taken
  taken      \* taken by the driver

queueVars == <<next, waiting, taken>>

Init ==
  /\ next = 0
  /\ waiting = {}
  /\ taken = {}

Accept ==
  /\ next < MaxFrames
  /\ \A w \in waiting : next < w + Size
  /\ waiting' = waiting \cup {next}
  /\ next' = next + 1
  /\ UNCHANGED taken

Take ==
  \E f \in waiting :
    /\ \A w \in waiting : f < w + Size
    /\ waiting' = waiting \ {f}
    /\ f \notin taken
    /\ taken' = taken \cup {f}
    /\ UNCHANGED next

Next == Accept \/ Take

Spec == Init /\ [][Next]_queueVars
=============================================================================
