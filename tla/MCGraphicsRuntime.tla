-------------------------- MODULE MCGraphicsRuntime --------------------------
(***************************************************************************)
(* TLC instances of GraphicsRuntime: the capability sets callers present   *)
(* and the streams they submit.                                            *)
(***************************************************************************)
EXTENDS GraphicsRuntime, TLC

(* An application that may draw, one that may not, and an administrator.   *)
MCCapSets == {{"GpuMemoryAlloc", "GpuCommandSubmit"},
              {"GpuMemoryAlloc"},
              {"GpuAdmin"}}

(* A stream that is always valid, one that never is, and one that is as    *)
(* long as resource 1 lives.                                               *)
MCOpSeqs == {<<>>, <<Stream!Draw>>, <<Stream!Copy(1, 1)>>}

(* Empty submissions are enough where the streams do not matter.           *)
MCNoOps == {<<>>}

(* Buffers of one byte.                                                    *)
MCKinds == {[type |-> "Buffer", size |-> 1]}

(* Nothing tells one GPU from another.                                     *)
Gpus == Permutations(Gpu)

-----------------------------------------------------------------------------
(***************************************************************************)
(* Statements of the documentation, each checked by a run of its own.      *)
(***************************************************************************)

(***************************************************************************)
(* The runtime owns the memory accounting (graphics_runtime lib.rs:4): an  *)
(* allocation it made belongs to a resource that can still be freed.       *)
(***************************************************************************)
AllocationsAreOwned == DOMAIN allocations \subseteq DOMAIN resources

(***************************************************************************)
(* "A timeline belonging to a recovered device simply stops advancing (its *)
(* `device` no longer resolves)" (graphics_runtime lib.rs:364-366).        *)
(***************************************************************************)
RecoveredTimelinesStop ==
  [][\A t \in DOMAIN timelines :
       ~IsDevice(timelineDevice[t]) => timelines'[t] = timelines[t]]_vars

=============================================================================
