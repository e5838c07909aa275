------------------------------ MODULE MCBringUp ------------------------------
(* Configurations and candidate values for TLC. *)
EXTENDS BringUp

Base == [order |-> "Default", band |-> "5G", endpoints |-> 3, channelOk |-> TRUE,
         authorized |-> TRUE, channel36 |-> TRUE, power |-> TRUE, kick |-> TRUE]

MCConfigs ==
  {Base,
   [Base EXCEPT !.order = "Linux", !.band = "2G", !.channel36 = FALSE, !.power = FALSE],
   [Base EXCEPT !.kick = FALSE, !.channelOk = FALSE],
   [Base EXCEPT !.kick = FALSE, !.authorized = FALSE],
   [Base EXCEPT !.endpoints = 5]}

(* The outer two disagree, across the sign change; the zero one agrees with both. *)
MCCandidates == {<<2045, 1>>, <<1, 2>>, <<0, 0>>}
=============================================================================
