---------------------------- MODULE CommandStream ----------------------------
(***************************************************************************)
(* The command stream an application records (crates/graphics_api) and the *)
(* two passes graphics_runtime makes over it at submit: validate_stream    *)
(* against the tables of live objects, and translate_ops, which leaves the *)
(* operations a driver executes.  Vertex counts, workgroup counts and      *)
(* binding slots are left out: no check looks at them.                     *)
(***************************************************************************)
EXTENDS Integers, Sequences

(* enum GraphicsOp; push appends one to the stream.                        *)
BindPipeline(p) == [op |-> "BindPipeline", pipeline |-> p]
BindResource(r) == [op |-> "BindResource", resource |-> r]
Copy(s, d)      == [op |-> "Copy", src |-> s, dst |-> d]
Draw            == [op |-> "Draw"]
Dispatch        == [op |-> "Dispatch"]
Barrier         == [op |-> "Barrier"]

Push(ops, op) == Append(ops, op)

GraphicsOp(pipelineIds, resourceIds) ==
  {BindPipeline(p) : p \in pipelineIds}
    \cup {BindResource(r) : r \in resourceIds}
    \cup {Copy(s, d) : s, d \in resourceIds}
    \cup {Draw, Dispatch, Barrier}

-----------------------------------------------------------------------------
(* Bug: a bound object is looked up, and whose it is does not matter.      *)
OwnedByAnyone(table, id, device) == id \in DOMAIN table

(* A live object of this device, in the table of its kind.                 *)
OwnedBy(table, id, device) == id \in DOMAIN table /\ table[id].device = device

(* One iteration of validate_stream's loop, which has seen a valid         *)
(* BindPipeline if bound: is this operation let through?                   *)
OpAllowed(op, bound, device, pipelines, resources) ==
  /\ op.op = "BindPipeline" => OwnedBy(pipelines, op.pipeline, device)
  /\ op.op = "BindResource" => OwnedBy(resources, op.resource, device)
  /\ op.op \in {"Draw", "Dispatch"} => bound
  /\ op.op = "Copy" => {op.src, op.dst} \subseteq DOMAIN resources

(* The loop: what bound_pipeline is after n operations, or that one of     *)
(* them was answered with Err.                                             *)
ValidateStream(ops, device, pipelines, resources) ==
  LET after[n \in 0 .. Len(ops)] ==
        IF n = 0 THEN "None"
        ELSE LET bound == after[n - 1] IN
             IF \/ bound = "Err"
                \/ ~OpAllowed(ops[n], bound = "Some", device, pipelines, resources)
             THEN "Err"
             ELSE IF ops[n].op = "BindPipeline" THEN "Some" ELSE bound
  IN  after[Len(ops)] # "Err"

(* Bug: barriers are dropped with the bindings.                            *)
ExecutedWithoutBarriers(op) == op.op \in {"Draw", "Dispatch", "Copy"}

(* Bindings are runtime state: they do not reach the driver.               *)
Executed(op) == op.op \notin {"BindPipeline", "BindResource"}

(* filter_map and collect: what was collected after n operations.          *)
TranslateOps(ops) ==
  LET driverOps[n \in 0 .. Len(ops)] ==
        IF n = 0 THEN <<>>
        ELSE IF Executed(ops[n]) THEN Append(driverOps[n - 1], ops[n])
        ELSE driverOps[n - 1]
  IN  driverOps[Len(ops)]

=============================================================================
