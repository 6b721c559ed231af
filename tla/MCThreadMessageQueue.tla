------------------------ MODULE MCThreadMessageQueue ------------------------
(* A queue with more senders and receivers than places.                    *)
EXTENDS ThreadMessageQueue
=============================================================================
