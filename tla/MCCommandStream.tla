--------------------------- MODULE MCCommandStream ---------------------------
(***************************************************************************)
(* validate_stream and translate_ops against what they are for, over every *)
(* stream of at most MaxOps operations recorded against objects that may   *)
(* since have been freed or belong to another device.                      *)
(***************************************************************************)
EXTENDS CommandStream, FiniteSets

CONSTANTS Device,     \* graphics devices
          PipelineId, ResourceId,
          MaxOps      \* bound: the length of a stream

VARIABLES ops,        \* the stream being recorded
          pipelines, resources  \* the live objects: id -> [device]

vars == <<ops, pipelines, resources>>

Tables(ids) == UNION {[S -> [device : Device]] : S \in SUBSET ids}

Init ==
  /\ ops = <<>>
  /\ pipelines \in Tables(PipelineId)
  /\ resources \in Tables(ResourceId)

(* The application records one more operation, on any handle it ever had.  *)
Record ==
  /\ Len(ops) < MaxOps
  /\ \E op \in GraphicsOp(PipelineId, ResourceId) : ops' = Push(ops, op)
  /\ UNCHANGED <<pipelines, resources>>

Next == Record

Spec == Init /\ [][Next]_vars

-----------------------------------------------------------------------------
(* What a stream must satisfy, said without the loop.                      *)
DrawsHavePipeline(d) ==
  \A i \in DOMAIN ops : ops[i].op \in {"Draw", "Dispatch"} =>
    \E j \in 1 .. i - 1 :
      /\ ops[j].op = "BindPipeline"
      /\ ops[j].pipeline \in DOMAIN pipelines
      /\ pipelines[ops[j].pipeline].device = d

BindingsAreLocal(d) ==
  \A i \in DOMAIN ops :
    /\ ops[i].op = "BindPipeline" =>
         \E p \in DOMAIN pipelines : p = ops[i].pipeline /\ pipelines[p].device = d
    /\ ops[i].op = "BindResource" =>
         \E r \in DOMAIN resources : r = ops[i].resource /\ resources[r].device = d

CopiesAreLive ==
  \A i \in DOMAIN ops : ops[i].op = "Copy" =>
    \E s, t \in DOMAIN resources : s = ops[i].src /\ t = ops[i].dst

(***************************************************************************)
(* validate_stream accepts exactly the streams in which every draw or      *)
(* dispatch comes after the binding of a live pipeline of the stream's own *)
(* device, every binding is to a live object of that device and every copy *)
(* is between live resources (graphics_runtime lib.rs:50-104).             *)
(***************************************************************************)
ValidationIsExact ==
  \A d \in Device :
    ValidateStream(ops, d, pipelines, resources)
      <=> DrawsHavePipeline(d) /\ BindingsAreLocal(d) /\ CopiesAreLive

(***************************************************************************)
(* translate_ops drops the bindings and nothing else, and keeps the order: *)
(* the driver's k-th operation is the k-th one of the stream that is not a *)
(* binding (graphics_runtime lib.rs:106-135).                              *)
(***************************************************************************)
TranslationKeepsOrder ==
  LET kept == {i \in DOMAIN ops :
                 ops[i].op \in {"Draw", "Dispatch", "Copy", "Barrier"}}
      rank(i) == Cardinality({j \in kept : j <= i})
  IN  /\ Len(TranslateOps(ops)) = Cardinality(kept)
      /\ \A i \in kept : TranslateOps(ops)[rank(i)] = ops[i]

=============================================================================
