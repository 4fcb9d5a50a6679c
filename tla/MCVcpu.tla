------------------------------- MODULE MCVcpu -------------------------------
(* Channels 0, 3 and 61 and a guest of two instructions. *)
EXTENDS VcpuLoop

MCChannels == {0, 3, 61}
=============================================================================
