---------------------------- MODULE MCValueFile ----------------------------
(* Two connections: the run under way, and one that lost its own.          *)
EXTENDS ValueFile

FaultsOf(cut, kill, reboot) == [cut |-> cut, kill |-> kill, reboot |-> reboot]
OneOfEach == FaultsOf(1, 1, 1)
OneCut == FaultsOf(1, 0, 0)
=============================================================================
