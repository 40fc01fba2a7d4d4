------------------------------ MODULE MCDialer ------------------------------
(* Dialer on small phonebooks. *)
EXTENDS Dialer

Mixed == <<"TELNET", "MODEM", "SHELL">>
TwoModems == <<"MODEM", "MODEM">>
Hosts == <<"TELNET", "SOCKET">>
=============================================================================
