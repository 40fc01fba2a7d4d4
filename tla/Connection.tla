----------------------------- MODULE Connection -----------------------------
(***************************************************************************)
(* The connection to the remote side: q_child_tty_fd and the flags of      *)
(* netclient.c, modem.c and qodem.c that describe it, with the functions   *)
(* that close it.  A function that can meet a failing assert() has its     *)
(* assertions in an operator of its own, which its callers test.           *)
(***************************************************************************)
EXTENDS Integers

VARIABLES
  fd,          \* what q_child_tty_fd is: "none" (-1), "sock", "pty" or "tty"
  serial_open, \* q_status.serial_open
  pending,     \* netclient.c's pending: net_connect_finish() is to be called
  connected,   \* netclient.c's connected
  online,      \* q_status.online
  method,      \* q_status.dial_method
  child,       \* q_child_pid # -1
  exited,      \* q_child_exited
  closer,      \* close_function: "none", "net" or "shell"
  crash        \* "none", or the function whose assert() has failed

connVars == <<fd, serial_open, pending, connected, online, method, child,
              exited, closer>>

(* rlogin is as telnet here; ssh is left out. *)
NetMethods == {"TELNET", "SOCKET"}
Methods    == NetMethods \cup {"MODEM", "SHELL"}

(* The functions with an assertion that could fail. *)
Asserting == {"close_serial_port", "dial_out", "net_connect_start", "close_dial_entry",
              "close_connection", "cleanup_connection", "dial_success"}

ConnInit ==
  /\ fd = "none" /\ serial_open = FALSE /\ online = FALSE /\ method = "SHELL"
  /\ pending = FALSE /\ connected = FALSE
  /\ child = FALSE /\ exited = FALSE /\ closer = "none" /\ crash = "none"

ConnTypeOK ==
  /\ fd \in {"none", "sock", "pty", "tty"}
  /\ serial_open \in BOOLEAN /\ pending \in BOOLEAN /\ connected \in BOOLEAN
  /\ online \in BOOLEAN /\ child \in BOOLEAN /\ exited \in BOOLEAN
  /\ method \in Methods
  /\ closer \in {"none", "net", "shell"}
  /\ crash \in {"none"} \cup Asserting

-----------------------------------------------------------------------------
(* close_serial_port() *)
CloseSerialAsserts == fd # "none"

(* Mutant: the status line still says online. *)
CloseSerialStaysOnline ==
  /\ fd' = "none" /\ serial_open' = FALSE
  /\ UNCHANGED <<pending, connected, online, method, child, exited, closer>>

CloseSerial ==
  /\ fd' = "none" /\ serial_open' = FALSE /\ online' = FALSE
  /\ UNCHANGED <<pending, connected, method, child, exited, closer>>

(* net_close(): shutdown() only, and nothing at all unless connected. *)
NetCloseAsserts == connected => fd # "none"

(***************************************************************************)
(* cleanup_connection() calls close_function: close_network_connection()   *)
(* or close_shell_connection().  conn is the value of connected before it; *)
(* only net_force_close(), used for "SOCKET", sets it to FALSE.            *)
(***************************************************************************)
CleanupAsserts ==
  /\ closer # "none"
  /\ closer = "net" => method = "SOCKET" \/ NetCloseAsserts
  /\ closer = "shell" => child /\ fd # "none"

Cleanup(conn) ==
  /\ fd' = "none" /\ online' = FALSE
  /\ child' = (child /\ closer = "net")
  /\ connected' = (conn /\ ~(closer = "net" /\ method = "SOCKET"))
  /\ UNCHANGED <<serial_open, pending, method, exited, closer>>

(***************************************************************************)
(* close_connection(): a socket is cleaned up at once, a telnet connection *)
(* is shut down, a shell is sent SIGHUP; their end of file comes later.    *)
(***************************************************************************)
CloseAsserts ==
  IF connected THEN IF method = "SOCKET" THEN CleanupAsserts ELSE NetCloseAsserts
  ELSE child

CloseConnection ==
  IF connected /\ method = "SOCKET" THEN Cleanup(FALSE) ELSE UNCHANGED connVars
=============================================================================
