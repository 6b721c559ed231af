--------------------------- MODULE MCSliceThread ---------------------------
(* A small pool of workers, with fewer and with more jobs than threads.    *)
EXTENDS SliceThread
=============================================================================
