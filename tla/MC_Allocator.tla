---------------------------- MODULE MC_Allocator ----------------------------
(* Three block addresses, a client asking for 4 or 16 bytes, and an array  *)
(* of 8-byte elements grown to 1, 2, 4 or 7 elements; usable sizes exact  *)
(* or 12 bytes over (more than one element, not two); a 64-byte limit and *)
(* a 32-byte threshold against none.  The *_Overflow instances take the   *)
(* element sizes and requests whose int product wraps.                    *)
EXTENDS Allocator, TLC

CONSTANTS b1, b2, b3

MCSizeMax == 2147483647
MCMaxAlloc == 1073741824
MCLimits == {MCSizeMax, 64}
MCThresholds == {MCSizeMax, 32}

\* Block addresses are interchangeable.
Symmetry == Permutations({b1, b2, b3})

====
