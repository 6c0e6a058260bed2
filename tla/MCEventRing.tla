----------------------------- MODULE MCEventRing -----------------------------
(* A ring of four slots, of which three can be used, for events of two      *)
(* octets; three events tell reordered, lost and mixed up events apart.     *)
EXTENDS EventRing
=============================================================================
