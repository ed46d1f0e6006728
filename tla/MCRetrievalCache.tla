-------------------------- MODULE MCRetrievalCache ---------------------------
(* Instances of RetrievalCache for TLC. *)
EXTENDS RetrievalCache
=============================================================================
