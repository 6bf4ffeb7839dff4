------------------------------ MODULE MCWorker ------------------------------
(* An instance of Worker for TLC; its constants are numbers.               *)
EXTENDS Worker

=============================================================================
