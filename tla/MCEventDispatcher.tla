------------------------- MODULE MCEventDispatcher -------------------------
(* EventDispatcher on small sets of threads and events.                    *)
EXTENDS EventDispatcher, TLC
=============================================================================
