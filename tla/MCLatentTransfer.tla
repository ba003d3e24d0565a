-------------------------- MODULE MCLatentTransfer --------------------------
(***************************************************************************)
(* A small instance of LatentTransfer.  All sizes are scaled down by about *)
(* 250, so that a second has 4 ticks and the smallest packet 2 bytes, and  *)
(* the ids on the wire wrap after two.                                     *)
(***************************************************************************)
EXTENDS LatentTransfer, TLC

CONSTANTS t1, t2, t3, v1

MCSizeOf == t1 :> 5 @@ t2 :> 1 @@ t3 :> 3
\* Less than the minimum, in the middle of the range of packet sizes, and more.
MCRateOf == t1 :> 40 @@ t2 :> 1 @@ t3 :> 6
\* Two transfers of one resource, and a persistent one.
MCVMOf == t1 :> v1 @@ t2 :> NoVM @@ t3 :> v1
=============================================================================
