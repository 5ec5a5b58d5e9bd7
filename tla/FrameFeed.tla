------------------------------ MODULE FrameFeed ------------------------------
(***************************************************************************)
(* What the listeners of Ethernet_Handler may expect of the frames that    *)
(* arrive: each frame that finds room is shown to every listener, in the   *)
(* order the listeners were added, before the next one is shown to any.    *)
(***************************************************************************)
EXTENDS Naturals, Sequences

CONSTANTS
  Frames,       \* contents of a frame
  Listeners,    \* number of listeners
  Capacity      \* frames that find room

VARIABLES
  buffered,     \* frames that arrived and that not all listeners have seen
  turn,         \* how many listeners have seen the first of them
  seen          \* what was shown last: <<listener, frame>>

vars == <<buffered, turn, seen>>

Init == buffered = <<>> /\ turn = 0 /\ seen = <<>>

Arrive(f) ==
  /\ Len(buffered) < Capacity
  /\ buffered' = Append(buffered, f)
  /\ UNCHANGED <<turn, seen>>

Show ==
  /\ buffered # <<>> /\ turn < Listeners
  /\ turn' = turn + 1
  /\ seen' = <<turn + 1, Head(buffered)>>
  /\ UNCHANGED buffered

Release ==
  /\ buffered # <<>> /\ turn = Listeners
  /\ buffered' = Tail(buffered)
  /\ turn' = 0
  /\ UNCHANGED seen

Next == (\E f \in Frames : Arrive(f)) \/ Show \/ Release

Spec == Init /\ [][Next]_vars

\* No frame waits for the next one to arrive.
FairSpec == Spec /\ WF_vars(Show \/ Release)
==============================================================================
