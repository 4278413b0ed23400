-------------------------- MODULE MCZoneAllocator --------------------------
(***************************************************************************)
(* Instances of ZoneAllocator for TLC.  w1 writes a write-ahead log; the   *)
(* other writers do not.                                                   *)
(***************************************************************************)
EXTENDS ZoneAllocator, TLC

CONSTANTS w1, w2, w3, s1

(* The writers that are neither for a log nor direct are interchangeable.  *)
PlainWriters == Permutations({w2, w3})

=============================================================================
