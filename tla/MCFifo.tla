------------------------------- MODULE MCFifo -------------------------------
(* TLC instance of Fifo: one writer task, one reader task, Size slots. *)
EXTENDS Fifo
=============================================================================
