------------------------------ MODULE MCXmodem ------------------------------
(* Xmodem on small instances: the pairs of flavors each run starts with. *)
EXTENDS XmodemInv

StopAndWaitSetups == {<<"X_NORMAL", "X_NORMAL">>, <<"X_1K", "X_1K">>}
SameFlavor == {<<f, f>> : f \in Flavors}
SenderFallsBack == {<<f, "X_NORMAL">> : f \in Flavors}
GSetups == {<<"X_1K_G", "X_1K_G">>}
CrcSetups == {<<"X_CRC", "X_CRC">>}
PromptSetups == SameFlavor \cup SenderFallsBack
FaultSetups ==
  {<<"X_NORMAL", "X_NORMAL">>, <<"X_1K", "X_CRC">>, <<"X_1K_G", "X_1K_G">>, <<"X_1K_G", "X_CRC">>}
=============================================================================
