------------------------------ MODULE MCSupport ------------------------------
(* One thread and one worker: what the classifier makes of an answer of the *)
(* model that is not valid.                                                 *)
EXTENDS SupportPipeline
=============================================================================
