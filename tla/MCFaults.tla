------------------------------- MODULE MCFaults -------------------------------
(***************************************************************************)
(* TLC instance of GraphicsRuntime that remembers whose context a fault    *)
(* was.  The program records a fault with the GPU, where several devices   *)
(* share it; the documentation speaks of the context.                      *)
(***************************************************************************)
EXTENDS MCGraphicsRuntime

VARIABLE broken  \* the devices with a submission of their own that faulted
                 \* the GPU

FaultInit == Init /\ broken = {}

(* A submission of the device call' names faults its GPU in this step.     *)
Breaks == call'.op = "submit" /\ faulted' # faulted

FaultNext ==
  /\ Next
  /\ broken' = IF Breaks THEN broken \cup {call'.actor} ELSE broken

FaultSpec == FaultInit /\ [][FaultNext]_<<vars, broken>>

-----------------------------------------------------------------------------

=============================================================================
