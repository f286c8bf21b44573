------------------------------ MODULE MCEsp12 ------------------------------
(* Esp12 with the commands that esp12.cpp queues. *)
EXTENDS Esp12

MCCmd == EspCmd
=============================================================================
