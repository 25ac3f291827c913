------------------------------ MODULE MCAttach ------------------------------
(* Three builds: the second has another text for the same image, the third *)
(* another image.                                                          *)
EXTENDS Attach

MCVersions == << [image |-> 1, text |-> 1], [image |-> 1, text |-> 2], [image |-> 2, text |-> 2] >>

FaultsOf(break, reboot, stop, start, publish, retire) ==
  [break |-> break, reboot |-> reboot, stop |-> stop, start |-> start,
   publish |-> publish, retire |-> retire]
Everything == FaultsOf(2, 1, 1, 1, 2, 1)
BreaksOnly == FaultsOf(1, 0, 0, 0, 1, 0)
=============================================================================
