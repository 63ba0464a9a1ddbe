------------------------------- MODULE MCLabs -------------------------------
(* The three threads of red_blue_purple.c by themselves. *)
EXTENDS MutexLabs

ColoursSpec == ColoursInit /\ [][\E t \in DOMAIN at : MutexStep(t)]_pvars
=============================================================================
