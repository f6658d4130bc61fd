------------------------------- MODULE MCSystem -------------------------------
(***************************************************************************)
(* TLC instance of the whole runtime with its display side and the DRM     *)
(* shim.                                                                   *)
(***************************************************************************)
EXTENDS DrmCompatShim, TLC

(* One caller that may have devices and recover them.                      *)
MCCapSets == {{"GpuMemoryAlloc", "GpuAdmin"}}

(* Nothing tells one connector, or one GPU, from another.                  *)
Alike == Permutations(Connector) \cup Permutations(Gpu)

Image(width, height, depth, format) ==
  [type |-> "Image", width |-> width, height |-> height, depth |-> depth,
   format |-> format]

(* With a usize of 16 values: a buffer, an image of two layers that fits,  *)
(* and one of 24 bytes, which is given 8.                                  *)
MCKinds == {[type |-> "Buffer", size |-> 3],
            Image(1, 1, 2, "Rgba8Unorm"),
            Image(1, 3, 1, "Rgba16Float")}

MCNoStreams == {}

=============================================================================
