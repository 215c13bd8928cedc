----------------------------- MODULE MCGuardWatch -----------------------------
(* A small instance of GuardWatch: two pids, an image and a system path. *)
EXTENDS GuardWatch
==============================================================================
