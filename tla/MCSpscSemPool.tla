--------------------------- MODULE MCSpscSemPool ---------------------------
(***************************************************************************)
(* SpscSemPool for TLC: the values of the constants and why they are so.   *)
(***************************************************************************)
EXTENDS SpscSemPool

(* One work request with the getter, one in put and one in the ring.       *)
MCElenum == 3

(* tryget may succeed, fail and succeed, or fail for good.                 *)
MCGetTryNum == 2

(* Two instants in a second: from one of them the deadline of timeget      *)
(* stays within the second, from the other tv_nsec overflows.              *)
MCNsPerSec == 2
MCGetWaitTime == 1
=============================================================================
