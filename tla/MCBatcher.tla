----------------------------- MODULE MCBatcher -----------------------------
(* Small instances of the batcher. Even times have a midpoint between them.    *)
EXTENDS Batcher

CONSTANTS temperature, pressure
=============================================================================
