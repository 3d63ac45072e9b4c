--------------------------- MODULE MCSharedMemory ---------------------------
(* An instance of SharedMemory for TLC. *)
EXTENDS SharedMemory

CONSTANTS s1, c1

OneServer == {s1}
OneClient == {c1}
=============================================================================
