------------------------------- MODULE FramePool -------------------------------
(***************************************************************************)
(* What mem/pageframe promises the rest of the kernel: a pool of frames     *)
(* from which, until it is opened, frames are only withdrawn; once open a   *)
(* frame leaves it when it is granted, to one holder, and never returns.    *)
(***************************************************************************)
CONSTANT Frames

VARIABLES open, free, held

vars == <<open, free, held>>

Init == open = FALSE /\ free = Frames /\ held = {}

Withdraw == ~open /\ free' \subseteq free /\ UNCHANGED <<open, held>>

Open == ~open /\ open' = TRUE /\ UNCHANGED <<free, held>>

Grant(f) ==
  /\ open
  /\ f \in free
  /\ free' = free \ {f}
  /\ held' = held \cup {f}
  /\ UNCHANGED open

Next == Withdraw \/ Open \/ \E f \in Frames : Grant(f)

Spec == Init /\ [][Next]_vars
=============================================================================
