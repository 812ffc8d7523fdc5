-------------------------- MODULE MCAutoResumePass --------------------------
(* AutoResumePass on small instances. *)
EXTENDS AutoResumePass, TLC
=============================================================================
