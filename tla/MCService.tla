----------------------------- MODULE MCService -----------------------------
(* Instances of ServiceLifecycle for TLC; the .cfg files choose whether a  *)
(* client keeps the service bound and how many environment events there    *)
(* are.                                                                    *)
EXTENDS ServiceLifecycle
============================================================================
