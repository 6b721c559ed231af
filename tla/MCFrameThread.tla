--------------------------- MODULE MCFrameThread ---------------------------
(* Small instances of FrameThread.                                         *)
EXTENDS FrameThread

MCBothKinds == {"serial", "threadsafe"}
=============================================================================
