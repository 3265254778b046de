--------------------------- MODULE FrameAllocator ---------------------------
(***************************************************************************)
(* What a page frame allocator promises its callers (core/inc/memory.h:    *)
(* MMU_pf_alloc, MMU_pf_free): every frame is free or has one owner, an    *)
(* allocation hands out a free frame, and it answers NULL only when at     *)
(* most one frame is free.                                                 *)
(***************************************************************************)
CONSTANTS Usable, NULL

VARIABLES free, owned, ret

Init ==
  /\ free = Usable
  /\ owned = {}
  /\ ret = NULL

Alloc(f) ==
  /\ f \in free
  /\ free' = free \ {f}
  /\ owned' = owned \cup {f}
  /\ ret' = f

AllocFails ==
  /\ \A f, g \in free : f = g
  /\ ret' = NULL
  /\ UNCHANGED <<free, owned>>

Free(f) ==
  /\ f \in owned
  /\ owned' = owned \ {f}
  /\ free' = free \cup {f}
  /\ UNCHANGED ret

Next ==
  \/ AllocFails
  \/ \E f \in Usable : Alloc(f) \/ Free(f)

Spec == Init /\ [][Next]_<<free, owned, ret>>
=============================================================================
