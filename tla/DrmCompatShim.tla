---------------------------- MODULE DrmCompatShim ----------------------------
(***************************************************************************)
(* DrmCompatShim of crates/graphics_compat/src/lib.rs: the DRM requests of *)
(* a Mesa winsys, answered by the runtime, beside the runtime's own        *)
(* callers.  Module Display has the rest of the runtime, so that this      *)
(* module is the whole of the system above the driver.                     *)
(*                                                                         *)
(* MODE_GETRESOURCES answers an empty list without looking at anything and *)
(* is no step.                                                             *)
(***************************************************************************)
EXTENDS Display

VARIABLE export  \* what is observed: the handle PRIME_HANDLE_TO_FD was asked
                 \* for last, with what it named at the time

NeverCreated == 0   \* a handle the runtime never gave
Nothing == [device |-> 0]

ShimInit == DisplayInit /\ export = <<NeverCreated, Nothing>>

Names(h) == IF h \in DOMAIN resources THEN resources[h] ELSE Nothing

GemCreate(d, size) ==
  /\ CreateResource(d, [type |-> "Buffer", size |-> size])
  /\ UNCHANGED <<displayVars, export>>

(* Any resource, whoever made it.                                          *)
GemClose(h) == FreeResource(h) /\ UNCHANGED <<displayVars, export>>

(* The handle comes back as the descriptor; nothing is looked up.          *)
PrimeHandleToFd(h) ==
  /\ export' = <<h, Names(h)>>
  /\ UNCHANGED <<vars, displayVars>>

ShimCall ==
  \/ \E d \in Device, kind \in Kinds :
       kind.type = "Buffer" /\ GemCreate(d, kind.size)
  \/ \E h \in 1 .. MaxAllocs : GemClose(h)
  \/ \E h \in {NeverCreated} \cup 1 .. issued : PrimeHandleToFd(h)

ShimNext == (DisplayNext /\ UNCHANGED export) \/ ShimCall

ShimSpec == ShimInit /\ [][ShimNext]_<<vars, displayVars, export>>

-----------------------------------------------------------------------------
ShimTypeOK ==
  /\ DisplayTypeOK
  /\ export[1] \in {NeverCreated} \cup 1 .. issued

(***************************************************************************)
(* A descriptor that was given out never changes what it stands for: as    *)
(* long as it names anything it names the resource it was exported for,    *)
(* and one exported for a handle that named nothing, closed or never       *)
(* created, never comes to name anything, although the export looks no     *)
(* handle up (graphics_compat lib.rs:94).                                  *)
(***************************************************************************)
ExportsNeverRebind ==
  Names(export[1]) # Nothing => Names(export[1]) = export[2]

=============================================================================
