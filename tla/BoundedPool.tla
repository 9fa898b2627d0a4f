----------------------------- MODULE BoundedPool -----------------------------
(***************************************************************************)
(* What the buffer pool promises: a store of at most Limit buffers, each   *)
(* either free or out with a caller, in which every call takes effect at   *)
(* one instant.  The promise is kept until the pool is misused or fails it; *)
(* nothing is promised after that.                                         *)
(***************************************************************************)
EXTENDS Naturals

CONSTANT Limit

VARIABLES free, out, kept

storeVars == <<free, out, kept>>

Init == free = 0 /\ out = 0 /\ kept = TRUE

\* A caller gets a free buffer, ...
Take == free > 0 /\ free' = free - 1 /\ out' = out + 1

\* ... or a new one while there is room for it, ...
Grow == free + out < Limit /\ out' = out + 1 /\ UNCHANGED free

\* ... and brings it back.
Return == out > 0 /\ out' = out - 1 /\ free' = free + 1

\* Buffers are made in advance, and given up.
Stock == free + out < Limit /\ free' = free + 1 /\ UNCHANGED out

Trim == free' = 0 /\ UNCHANGED out

Next ==
    \/ kept /\ kept' /\ (Take \/ Grow \/ Return \/ Stock \/ Trim)
    \/ ~kept'

Spec == Init /\ [][Next]_storeVars
=============================================================================
