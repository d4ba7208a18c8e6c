----------------------------- MODULE MCChannel -----------------------------
(* Instances of Channel for TLC. *)
EXTENDS Channel

\* insert_mem_ch: written by the main loop, which owns it, and by the event
\* callback.
MCPayloads == {1}
MCSizes == {8, 16}
=============================================================================
