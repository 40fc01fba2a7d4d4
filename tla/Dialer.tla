------------------------------- MODULE Dialer -------------------------------
(***************************************************************************)
(* The phonebook's dialer: dialling an entry, waiting for the connection   *)
(* with a timeout, cycling through the tagged entries until one answers    *)
(* (phonebook.c, dialer.c), opening and losing the connection (netclient.c *)
(* modem.c, qodem.c).                                                      *)
(*                                                                         *)
(* The main loop calls refresh_handler(), data_handler() and               *)
(* keyboard_handler() in turn.  An action is one effect of one such call,  *)
(* or something the remote side, the clock or the user does.               *)
(***************************************************************************)
EXTENDS Connection, FiniteSets

CONSTANTS
  MethodOf,    \* the phonebook: the method of its entries 1, 2, ...
  NEntries,
  ConnectTime, \* Q_OPTION_DIAL_CONNECT_TIME, in seconds
  BetweenTime, \* Q_OPTION_DIAL_BETWEEN_TIME
  ExtendTime,  \* what the X key adds, 10
  MaxElapsed,  \* bound on the seconds counted in one state
  MaxKeys,     \* bound on the keys pressed
  LookupTimes, \* seconds getaddrinfo() may block for
  IdleTimeout  \* an idle timeout is set

ASSUME DialerAssumption ==
  /\ NEntries \in Nat \ {0} /\ MethodOf \in [1..NEntries -> Methods]
  /\ ConnectTime \in Nat \ {0} /\ BetweenTime \in Nat \ {0} /\ ExtendTime \in Nat
  /\ MaxElapsed \in Nat /\ MaxElapsed > ConnectTime /\ MaxElapsed > BetweenTime
  /\ MaxElapsed >= 3 /\ MaxKeys \in Nat
  /\ LookupTimes \subseteq 0..MaxElapsed /\ IdleTimeout \in BOOLEAN

VARIABLES
  prog,        \* q_program_state
  dstate,      \* q_dial_state
  entry,       \* q_current_dial_entry, NoEntry for NULL
  sel,         \* q_phonebook.selected_entry
  tagged,      \* the tagged entries; q_phonebook.tagged is their number
  elapsed,     \* now - q_dialer_cycle_start_time
  modem,       \* modem_state; "REFUSED" is SENT_DIAL_STRING after a refusal
  keys         \* keys pressed

bookVars == <<sel, tagged>>
dialVars == <<prog, dstate, entry, elapsed>>
vars == <<connVars, crash, bookVars, dialVars, modem, keys>>

Entries == 1..NEntries
NoEntry == 0
HoldStates == {"CYCLE", "LINE_BUSY", "MANUAL_CYCLE", "KILLED"}
OverStates == {"USER_ABORTED", "NO_NUMBERS_LEFT"}
DialStates == HoldStates \cup OverStates \cup {"DIALING", "BETWEEN_PAUSE", "CONNECTED"}

Init ==
  /\ ConnInit
  /\ prog = "PHONEBOOK" /\ dstate = "DIALING" /\ entry = NoEntry
  /\ sel \in Entries /\ tagged \in SUBSET Entries
  /\ elapsed = 0 /\ modem = "INIT" /\ keys = 0

(* assert() ends the program. *)
Fail(where) ==
  crash' = where /\ UNCHANGED <<connVars, bookVars, dialVars, modem>>

-----------------------------------------------------------------------------
(* The first tagged entry at or after entry e, the last one being followed *)
(* by the first; sel when none is tagged.                                  *)
TaggedFrom(e, T) ==
  IF T = {} THEN sel
  ELSE CHOOSE f \in T : \A g \in T : (f - e) % NEntries <= (g - e) % NEntries

(* cycle_redialer_number() *)
CycleNumber(T) == TaggedFrom(sel + 1, T)

(***************************************************************************)
(* do_dialer() with q_current_dial_entry = e: an open serial port is       *)
(* closed first, then dial_out() asserts that nothing is open.             *)
(***************************************************************************)
OnlineAfterSerial == online /\ ~serial_open

(* A modem: open_serial_port() may fail, with the port open or not. *)
DialModem ==
  /\ method' = "MODEM" /\ closer' = "none" /\ modem' = "INIT"
  /\ online' = OnlineAfterSerial
  /\ \/ /\ fd' = "tty" /\ serial_open' = TRUE
        /\ prog' = "DIALER" /\ dstate' = "DIALING" /\ elapsed' = 0
     \/ /\ fd' \in {"none", "tty"} /\ serial_open' = (fd' = "tty")
        /\ UNCHANGED <<prog, dstate, elapsed>>
  /\ UNCHANGED <<pending, connected, child, exited, tagged, crash>>

(***************************************************************************)
(* net_connect_start(): the dialer is shown, the host is looked up, which  *)
(* blocks, and connect() is begun.  The screen is refreshed after the      *)
(* lookup; a lookup of just ConnectTime seconds then cycles, although the  *)
(* socket is opened all the same.  The lookup and connect() may fail, and  *)
(* so may socket(), for every address found, which is not reported.        *)
(***************************************************************************)
DialNet(e) ==
  /\ prog' = "DIALER"
  /\ method' = MethodOf[e] /\ closer' = "net"
  /\ serial_open' = FALSE /\ online' = OnlineAfterSerial
  /\ \/ /\ fd' = "sock" /\ pending' = TRUE
        /\ \E t \in LookupTimes :
             IF t = ConnectTime THEN dstate' = "CYCLE" /\ elapsed' = 0
             ELSE dstate' = "DIALING" /\ elapsed' = t
     \/ /\ fd' = "none" /\ pending' \in {pending, FALSE}
        /\ dstate' = "LINE_BUSY" /\ elapsed' = 0
     \/ /\ fd' = "none" /\ UNCHANGED pending
        /\ dstate' = "DIALING" /\ elapsed' \in LookupTimes
  /\ UNCHANGED <<connected, child, exited, tagged, modem, crash>>

(***************************************************************************)
(* A spawned process: dial_success() at once, which shows the console      *)
(* unless a connect() is pending.  When forkpty() fails nothing is shown.  *)
(***************************************************************************)
DialShell(e) ==
  /\ method' = "SHELL" /\ closer' = "shell" /\ exited' = FALSE
  /\ serial_open' = FALSE
  /\ \/ /\ fd' = "pty" /\ child' = TRUE /\ online' = TRUE
        /\ dstate' = "CONNECTED" /\ elapsed' = 0
        /\ tagged' = tagged \ {e}
        /\ prog' = IF pending THEN prog ELSE "CONSOLE"
     \/ /\ fd' = "none" /\ online' = OnlineAfterSerial
        /\ UNCHANGED <<child, prog, dstate, elapsed, tagged>>
  /\ UNCHANGED <<pending, connected, modem, crash>>

Dial(e) ==
  IF serial_open /\ ~CloseSerialAsserts THEN Fail("close_serial_port")
  ELSE IF ~serial_open /\ fd # "none" THEN Fail("dial_out")
  ELSE IF MethodOf[e] \in NetMethods /\ connected THEN Fail("net_connect_start")
  ELSE /\ sel' = e /\ entry' = e
       /\ \/ MethodOf[e] = "MODEM" /\ DialModem
          \/ MethodOf[e] \in NetMethods /\ DialNet(e)
          \/ MethodOf[e] = "SHELL" /\ DialShell(e)

-----------------------------------------------------------------------------
(***************************************************************************)
(* close_dial_entry(): the serial port is closed; a socket is only         *)
(* forgotten, and pending stays as it is, while connect() is in progress.  *)
(***************************************************************************)
CloseEntryAsserts ==
  IF MethodOf[entry] = "MODEM" THEN CloseSerialAsserts ELSE NetCloseAsserts

CloseEntry ==
  IF MethodOf[entry] = "MODEM" THEN CloseSerial
  ELSE /\ fd' = "none"
       /\ UNCHANGED <<serial_open, pending, connected, online, method, child,
                      exited, closer>>

(* What an operation does besides closing the entry that is being dialled. *)
ClosingEntry(Action) ==
  IF CloseEntryAsserts THEN CloseEntry /\ Action /\ UNCHANGED crash
  ELSE Fail("close_dial_entry")

BackToPhonebook ==
  ClosingEntry(/\ prog' = "PHONEBOOK" /\ entry' = NoEntry
               /\ UNCHANGED <<dstate, elapsed, bookVars, modem>>)

(***************************************************************************)
(* phonebook_refresh() on the dialer screen: what is due in each state.    *)
(***************************************************************************)
HoldOver ==
  /\ dstate \in HoldStates /\ elapsed >= 1
  /\ dstate' = "BETWEEN_PAUSE" /\ elapsed' = 0
  /\ UNCHANGED <<connVars, crash, bookVars, prog, entry, modem>>

(* Mutant: the number is not cycled before it is dialled again. *)
RedialSame ==
  dstate = "BETWEEN_PAUSE" /\ elapsed >= BetweenTime /\ Dial(sel)

Redial ==
  dstate = "BETWEEN_PAUSE" /\ elapsed >= BetweenTime /\ Dial(CycleNumber(tagged))

DialTimeout ==
  /\ dstate = "DIALING" /\ elapsed = ConnectTime
  /\ ClosingEntry(/\ dstate' = "CYCLE" /\ elapsed' = 0
                  /\ UNCHANGED <<bookVars, prog, entry, modem>>)

ShowConsole ==
  /\ prog' = "CONSOLE"
  /\ UNCHANGED <<connVars, crash, bookVars, dstate, entry, elapsed, modem>>

Refresh ==
  /\ prog = "DIALER" /\ crash = "none"
  /\ \/ HoldOver
     \/ Redial
     \/ DialTimeout
     \/ dstate = "CONNECTED" /\ elapsed >= 3 /\ ShowConsole
     \/ dstate \in OverStates /\ elapsed >= 1 /\ BackToPhonebook
  /\ UNCHANGED keys

(***************************************************************************)
(* A second passes.  The main loop comes round in 20 ms, so that nothing   *)
(* that is due waits for the next second.                                  *)
(***************************************************************************)
Due ==
  \/ dstate \in HoldStates \cup OverStates /\ elapsed >= 1
  \/ dstate = "BETWEEN_PAUSE" /\ elapsed >= BetweenTime
  \/ dstate = "DIALING" /\ elapsed = ConnectTime
  \/ dstate = "CONNECTED" /\ elapsed >= 3

Tick ==
  /\ prog = "DIALER" /\ crash = "none" /\ elapsed < MaxElapsed /\ ~Due
  /\ elapsed' = elapsed + 1
  /\ UNCHANGED <<connVars, crash, bookVars, prog, dstate, entry, modem, keys>>

-----------------------------------------------------------------------------
(***************************************************************************)
(* dialer_keyboard_handler(): any key when connected, else K, C, X, ESC.   *)
(***************************************************************************)
(* Mutant: nothing stays selected when the last number is killed. *)
KillNumberForgets ==
  LET T == tagged \ {sel} IN
  ClosingEntry(/\ tagged' = T /\ sel' = IF T = {} THEN NoEntry ELSE CycleNumber(T)
               /\ dstate' = IF T = {} THEN "NO_NUMBERS_LEFT" ELSE "KILLED"
               /\ elapsed' = 0
               /\ UNCHANGED <<prog, entry, modem>>)

KillNumber ==
  LET T == tagged \ {sel} IN
  ClosingEntry(/\ tagged' = T /\ sel' = CycleNumber(T)
               /\ dstate' = IF T = {} THEN "NO_NUMBERS_LEFT" ELSE "KILLED"
               /\ elapsed' = 0
               /\ UNCHANGED <<prog, entry, modem>>)

CycleKey ==
  ClosingEntry(/\ IF dstate \in {"MANUAL_CYCLE", "BETWEEN_PAUSE"}
                    THEN elapsed' = BetweenTime /\ UNCHANGED dstate
                    ELSE elapsed' = 0 /\ dstate' = "MANUAL_CYCLE"
               /\ UNCHANGED <<bookVars, prog, entry, modem>>)

ExtendKey ==
  /\ elapsed' = elapsed - ExtendTime
  /\ UNCHANGED <<connVars, crash, bookVars, prog, dstate, entry, modem>>

(* ESC: a second one does not wait for the second to pass. *)
(* Mutant: the second ESC forgets the entry and stays in the dialer. *)
AbortKeyStays ==
  IF dstate \in OverStates
    THEN ClosingEntry(entry' = NoEntry /\ UNCHANGED <<prog, dstate, elapsed, bookVars, modem>>)
  ELSE /\ dstate' = "USER_ABORTED" /\ elapsed' = 0
       /\ UNCHANGED <<connVars, crash, bookVars, prog, entry, modem>>

AbortKey ==
  IF dstate \in OverStates THEN BackToPhonebook
  ELSE /\ dstate' = "USER_ABORTED" /\ elapsed' = 0
       /\ UNCHANGED <<connVars, crash, bookVars, prog, entry, modem>>

DialerKey ==
  /\ prog = "DIALER"
  /\ IF dstate = "CONNECTED" THEN ShowConsole
     ELSE KillNumber \/ CycleKey \/ ExtendKey \/ AbortKey

(***************************************************************************)
(* The keys of the phonebook and of the console that matter here.  ENTER   *)
(* dials, from the selected entry on the first that is tagged, and only    *)
(* selects it when the program is online.                                  *)
(***************************************************************************)
PhonebookKey ==
  /\ prog = "PHONEBOOK"
  /\ \/ /\ IF online THEN sel' = TaggedFrom(sel, tagged)
                          /\ UNCHANGED <<connVars, crash, tagged, dialVars, modem>>
           ELSE Dial(TaggedFrom(sel, tagged))
     \/ /\ sel' \in Entries \ {sel}
        /\ UNCHANGED <<connVars, crash, tagged, dialVars, modem>>
     \/ /\ tagged' = IF sel \in tagged THEN tagged \ {sel} ELSE tagged \cup {sel}
        /\ UNCHANGED <<connVars, crash, sel, dialVars, modem>>
     \/ ShowConsole

(* Alt-D shows the phonebook; Alt-H hangs up. *)
HangUp ==
  /\ online \/ serial_open
  /\ IF serial_open
       THEN IF CloseSerialAsserts THEN CloseSerial /\ UNCHANGED crash
            ELSE Fail("close_serial_port")
     ELSE IF CloseAsserts THEN CloseConnection /\ UNCHANGED crash
     ELSE Fail("close_connection")
  /\ UNCHANGED <<bookVars, dialVars, modem>>

ConsoleKey ==
  /\ prog = "CONSOLE"
  /\ \/ /\ prog' = "PHONEBOOK"
        /\ UNCHANGED <<connVars, crash, bookVars, dstate, entry, elapsed, modem>>
     \/ HangUp

Key ==
  /\ crash = "none" /\ keys < MaxKeys /\ keys' = keys + 1
  /\ DialerKey \/ PhonebookKey \/ ConsoleKey

-----------------------------------------------------------------------------
(***************************************************************************)
(* data_handler(): when a connect() is pending and q_child_tty_fd is ready *)
(* net_connect_finish() is called, whatever q_child_tty_fd is.  A pty or a *)
(* serial port is always ready, and getsockopt() fails on it.              *)
(***************************************************************************)
NetFails ==
  /\ fd' = "none" /\ pending' = FALSE
  /\ dstate' = "LINE_BUSY" /\ elapsed' = 0
  /\ UNCHANGED <<serial_open, connected, online, method, child, exited, closer,
                 crash, bookVars, prog, entry, modem>>

NetSucceeds ==
  IF entry = NoEntry THEN Fail("dial_success")
  ELSE /\ pending' = FALSE /\ connected' = TRUE /\ online' = TRUE
       /\ prog' = "CONSOLE" /\ dstate' = "CONNECTED" /\ elapsed' = 2
       /\ tagged' = tagged \ {entry}
       /\ UNCHANGED <<fd, serial_open, method, child, exited, closer, crash, sel,
                      entry, modem>>

NetConnectFinish ==
  /\ crash = "none" /\ prog \in {"DIALER", "CONSOLE"}
  /\ pending /\ fd # "none"
  /\ NetFails \/ (fd = "sock" /\ NetSucceeds)
  /\ UNCHANGED keys

(***************************************************************************)
(* modem_data(): AT is sent first, then what the modem answers is read.  A *)
(* modem answers a dial string once, with CONNECT or with a refusal.       *)
(***************************************************************************)
ModemData ==
  /\ crash = "none" /\ prog = "DIALER" /\ MethodOf[entry] = "MODEM"
  /\ \/ /\ modem = "INIT" /\ modem' = "SENT_AT"
        /\ UNCHANGED <<connVars, tagged, dstate, elapsed>>
     \/ /\ fd = "tty" /\ ~pending
        /\ \/ /\ modem = "SENT_AT" /\ modem' = "SENT_DIAL_STRING"
              /\ UNCHANGED <<connVars, tagged, dstate, elapsed>>
           \/ /\ modem = "SENT_DIAL_STRING"
              /\ modem' = "REFUSED" /\ dstate' = "LINE_BUSY" /\ elapsed' = 0
              /\ UNCHANGED <<connVars, tagged>>
           \/ /\ modem = "SENT_DIAL_STRING" /\ modem' = "CONNECTED"
              /\ dstate' = "CONNECTED" /\ elapsed' = 0
              /\ online' = TRUE /\ tagged' = tagged \ {entry}
              /\ UNCHANGED <<fd, serial_open, pending, connected, method, child,
                             exited, closer>>
  /\ UNCHANGED <<crash, sel, prog, entry, keys>>

(***************************************************************************)
(* process_incoming_data() reads an end of file.  telnet_read() clears     *)
(* connected at an orderly end, not at ECONNRESET.                         *)
(***************************************************************************)
Eof ==
  /\ crash = "none" /\ prog \in {"DIALER", "CONSOLE"}
  /\ serial_open \/ online
  /\ fd # "none" /\ ~pending
  /\ IF ~serial_open /\ ~CleanupAsserts THEN Fail("cleanup_connection")
     ELSE /\ IF serial_open THEN CloseSerial
             ELSE \E conn \in IF fd = "sock" THEN {FALSE, connected} ELSE {connected} :
                    Cleanup(conn)
          /\ prog' = IF prog = "DIALER" THEN "PHONEBOOK" ELSE prog
          /\ entry' = NoEntry
          /\ UNCHANGED <<crash, bookVars, dstate, elapsed, modem>>
  /\ UNCHANGED keys

(* The modem drops its carrier; the connection has been idle too long. *)
CarrierLost ==
  /\ crash = "none" /\ online /\ serial_open
  /\ IF CloseSerialAsserts THEN CloseSerial /\ UNCHANGED crash
     ELSE Fail("close_serial_port")
  /\ UNCHANGED <<bookVars, dialVars, modem, keys>>

IdleClose ==
  /\ crash = "none" /\ IdleTimeout /\ fd # "none"
  /\ IF serial_open THEN CloseSerial /\ UNCHANGED crash
     ELSE IF CloseAsserts THEN CloseConnection /\ UNCHANGED crash
     ELSE Fail("close_connection")
  /\ UNCHANGED <<bookVars, dialVars, modem, keys>>

(* The spawned process exits, and child_is_dead() notices it. *)
ChildExits ==
  /\ crash = "none" /\ child /\ ~exited /\ exited' = TRUE
  /\ UNCHANGED <<fd, serial_open, pending, connected, online, method, child, closer>>
  /\ UNCHANGED <<crash, bookVars, dialVars, modem, keys>>

ChildReaped ==
  /\ crash = "none" /\ child /\ exited
  /\ IF CloseAsserts /\ CleanupAsserts
       THEN Cleanup(connected /\ method # "SOCKET") /\ UNCHANGED crash
     ELSE Fail("cleanup_connection")
  /\ UNCHANGED <<bookVars, dialVars, modem, keys>>

Data == ModemData \/ Eof \/ CarrierLost \/ IdleClose \/ ChildExits \/ ChildReaped

Next == Refresh \/ Tick \/ Key \/ NetConnectFinish \/ Data

(***************************************************************************)
(* The main loop runs for ever and time passes.  Nothing is assumed of the *)
(* remote side, which may never answer, nor of the user.                   *)
(***************************************************************************)
Spec == Init /\ [][Next]_vars /\ WF_vars(Refresh) /\ WF_vars(Tick)

-----------------------------------------------------------------------------
TypeOK ==
  /\ ConnTypeOK
  /\ prog \in {"PHONEBOOK", "DIALER", "CONSOLE"} /\ dstate \in DialStates
  /\ entry \in Entries \cup {NoEntry} /\ sel \in Entries /\ tagged \subseteq Entries
  /\ elapsed \in Int /\ elapsed <= MaxElapsed
  /\ modem \in {"INIT", "SENT_AT", "SENT_DIAL_STRING", "REFUSED", "CONNECTED"}
  /\ keys \in 0..MaxKeys

(***************************************************************************)
(* While the dialer is shown q_current_dial_entry is not NULL, which       *)
(* phonebook_refresh() and process_incoming_data() assert.                 *)
(***************************************************************************)
DialerHasEntry == prog = "DIALER" => entry # NoEntry

(***************************************************************************)
(* A program that says it is online has an open line, or else it has a     *)
(* spawned process whose pty was closed under it (net_connect_finish()).   *)
(***************************************************************************)
OnlineHasLine == online => fd # "none" \/ child

(***************************************************************************)
(* Why: a connection that is up while the dialer goes on, or while an old  *)
(* connect() is still pending, is a spawned process; and the modem of an   *)
(* entry that is shown as connected has answered CONNECT.                  *)
(***************************************************************************)
OnlineWhileDialing ==
  /\ prog = "DIALER" /\ dstate # "CONNECTED" /\ online => child
  /\ pending /\ online => child

ModemAnswered ==
  prog = "DIALER" /\ dstate = "CONNECTED" /\ MethodOf[entry] = "MODEM"
    => modem = "CONNECTED"

(* The inductive invariant of the dialer. *)
DialerInv ==
  TypeOK /\ DialerHasEntry /\ OnlineHasLine /\ OnlineWhileDialing /\ ModemAnswered

(***************************************************************************)
(* As long as the user lets the dialer run, every tagged entry is dialled. *)
(***************************************************************************)
EveryTaggedTried ==
  \A e \in Entries :
    (prog = "DIALER" /\ e \in tagged)
      ~> (entry = e \/ e \notin tagged \/ prog # "DIALER" \/ crash # "none")

(* No assert() of the dialer and of the connection functions fails. *)
DialerAsserts == crash = "none"
=============================================================================
