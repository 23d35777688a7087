------------------------------ MODULE MCBreaker ------------------------------
(* Two requests at a time, and a window of four of which two are judged.     *)
EXTENDS BreakerRecovery
=============================================================================
