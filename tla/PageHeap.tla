------------------------------ MODULE PageHeap ------------------------------
(***************************************************************************)
(* What the virtual page allocator promises (core/inc/memory.h,            *)
(* MMU_alloc_pages and MMU_free_pages): an allocated page is never handed  *)
(* out again, it gets a frame of its own when it is first touched, and     *)
(* the frame is free for others when the page is freed.                    *)
(***************************************************************************)
CONSTANTS Pages, Frames

VARIABLES
  live,      \* pages handed out and not freed
  retired,   \* pages freed
  backing    \* the frame of each live page that has been touched

Init ==
  /\ live = {} /\ retired = {}
  /\ backing = [v \in {} |-> 0]

Allocate(v) ==
  /\ v \notin live \cup retired
  /\ live' = live \cup {v}
  /\ UNCHANGED <<retired, backing>>

Touch(v, f) ==
  /\ v \in live \ DOMAIN backing
  /\ \A w \in DOMAIN backing : backing[w] # f
  /\ backing' = [w \in DOMAIN backing \cup {v} |-> IF w = v THEN f ELSE backing[w]]
  /\ UNCHANGED <<live, retired>>

Retire(v) ==
  /\ v \in live
  /\ live' = live \ {v}
  /\ retired' = retired \cup {v}
  /\ backing' = [w \in DOMAIN backing \ {v} |-> backing[w]]

Next ==
  \E v \in Pages : Allocate(v) \/ Retire(v) \/ \E f \in Frames : Touch(v, f)

Spec == Init /\ [][Next]_<<live, retired, backing>>
=============================================================================
