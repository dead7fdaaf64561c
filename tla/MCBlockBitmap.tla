--------------------------- MODULE MCBlockBitmap ---------------------------
(***************************************************************************)
(* Instances of BlockBitmap: one byte of bitmap, which is what             *)
(* MemoryManager creates, and up to eight blocks asked for.                *)
(***************************************************************************)
EXTENDS BlockBitmap, TLC

CONSTANTS t1, t2

ThreadSymmetry == Permutations({t1, t2})
=============================================================================
