----------------------------- MODULE MCChannel ------------------------------
(* One channel with two sending threads.                                   *)
EXTENDS Channel

MCSlotIdx == {1, 2}

(* One slot: a second frame in flight finds the free ring empty. *)
MCOneSlot == {1}
=============================================================================
