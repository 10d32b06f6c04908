------------------------- MODULE MCCheckpointResume -------------------------
(***************************************************************************)
(* Instance of CheckpointResume for TLC: the behaviours up to the first    *)
(* step on stale data, which is where its properties end.                  *)
(***************************************************************************)
EXTENDS CheckpointResume, TLC

Symmetry == Permutations(Resumer)

UpToStale == ~stale
=============================================================================
