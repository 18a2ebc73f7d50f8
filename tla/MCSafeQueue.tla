---------------------------- MODULE MCSafeQueue ----------------------------
(* The list seen as a channel: what push_data took over, and what the      *)
(* caller of pop_data got, until free_queue.                               *)
EXTENDS SafeQueue, TLC

(* Addresses are interchangeable. *)
NodeSymmetry == Permutations(Nodes)

Channel == INSTANCE FrameChannel WITH
             Frames <- 1..MaxItems,
             open   <- ~freed,
             sent   <- pushed,
             got    <- popped

(* When callers take turns the linked list, node by node, is a FIFO: it     *)
(* hands back what was pushed, in order, once.                             *)
ImplementsChannel == Channel!Spec

=============================================================================
