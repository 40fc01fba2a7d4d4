---------------------------- MODULE DialerProofs ----------------------------
(***************************************************************************)
(* The dialer is safe for every phonebook, every setting of its times and  *)
(* any number of keys: its types, and the two safety invariants.           *)
(***************************************************************************)
EXTENDS Dialer, WellFoundedInduction, TLAPS

(* A set of naturals that is not empty has a least element. *)
LEMMA LeastNatural ==
  ASSUME NEW S \in SUBSET Nat, S # {}
  PROVE  \E x \in S : \A y \in S : x <= y
  <1>1. PICK x \in S : \A y \in S : ~(<<y, x>> \in OpToRel(<, Nat))
    BY NatLessThanWellFounded, WFMin, Zenon
  <1>2. \A y \in S : ~(y < x)
    BY <1>1 DEF OpToRel
  <1> QED
    BY <1>2

(* TaggedFrom finds a tagged entry when there is one. *)
LEMMA TaggedFromIn ==
  ASSUME NEW e \in Int, NEW T \in SUBSET Entries, T # {}
  PROVE  TaggedFrom(e, T) \in T
  <1> DEFINE D == {(f - e) % NEntries : f \in T}
  <1>1. D \in SUBSET Nat /\ D # {}
    <2>1. \A f \in T : f \in Int
      BY DEF Entries
    <2>2. NEntries \in Nat /\ NEntries > 0
      BY DialerAssumption DEF DialerAssumption
    <2>3. \A x \in Int : x % NEntries \in Nat
      BY <2>2
    <2> QED
      BY <2>1, <2>3
  <1>2. PICK d \in D : \A y \in D : d <= y
    BY <1>1, LeastNatural
  <1>3. \E f \in T : \A g \in T : (f - e) % NEntries <= (g - e) % NEntries
    BY <1>2
  <1> QED
    BY <1>3, Zenon DEF TaggedFrom

(* So does a cycle through the tagged entries, or it stays where it is. *)
LEMMA TaggedFromType ==
  ASSUME NEW e \in Int, NEW T \in SUBSET Entries, sel \in Entries
  PROVE  TaggedFrom(e, T) \in Entries
  <1>1. CASE T = {}
    BY <1>1 DEF TaggedFrom
  <1>2. CASE T # {}
    BY <1>2, TaggedFromIn
  <1> QED
    BY <1>1, <1>2

(* A failed assertion changes nothing else. *)
LEMMA FailSafe ==
  ASSUME DialerInv, NEW w \in Asserting, Fail(w), keys' \in 0..MaxKeys
  PROVE  DialerInv'
  BY DEF DialerInv, TypeOK, ConnTypeOK, Fail, connVars, bookVars, dialVars, DialerHasEntry,
         OnlineHasLine, OnlineWhileDialing, ModemAnswered

-----------------------------------------------------------------------------
(***************************************************************************)
(* Dialling an entry, from the phonebook when the program is offline or    *)
(* from the dialer when its pause is over.                                 *)
(***************************************************************************)
MayDial ==
  \/ prog = "DIALER" /\ dstate = "BETWEEN_PAUSE"
  \/ prog = "PHONEBOOK" /\ ~online

LEMMA DialSafe ==
  ASSUME DialerInv, MayDial, NEW e \in Entries, Dial(e), keys' \in 0..MaxKeys
  PROVE  DialerInv'
  <1> USE DEF DialerInv
  <1>1. CASE \E w \in Asserting : Fail(w)
    BY <1>1, FailSafe
  <1> SUFFICES ASSUME ~(\E w \in Asserting : Fail(w))
               PROVE  DialerInv'
    BY <1>1
  <1>2. sel' = e /\ entry' = e /\ e # NoEntry
    BY DialerAssumption DEF DialerAssumption, Dial, Asserting, Entries, NoEntry
  <1>3. \/ MethodOf[e] = "MODEM" /\ DialModem
        \/ MethodOf[e] \in NetMethods /\ DialNet(e)
        \/ MethodOf[e] = "SHELL" /\ DialShell(e)
    BY DEF Dial, Asserting
  <1>4. CASE MethodOf[e] = "MODEM" /\ DialModem
    <2>1. TypeOK'
      <3>1. ConnTypeOK'
        BY <1>4, DialerAssumption
           DEF DialerAssumption, DialModem, OnlineAfterSerial, TypeOK, ConnTypeOK, Methods
      <3>2. prog' \in {"PHONEBOOK", "DIALER", "CONSOLE"} /\ dstate' \in DialStates
        BY <1>4 DEF DialModem, TypeOK, DialStates, HoldStates
      <3>3. elapsed' \in Int /\ elapsed' <= MaxElapsed
        BY <1>4, DialerAssumption DEF DialerAssumption, DialModem, TypeOK
      <3>4. tagged' \subseteq Entries
        BY <1>4 DEF DialModem, TypeOK
      <3> QED
        BY <1>2, <1>4, <3>1, <3>2, <3>3, <3>4 DEF DialModem, TypeOK
    <2>2. DialerHasEntry'
      BY <1>2 DEF DialerHasEntry
    <2>3. OnlineHasLine' /\ OnlineWhileDialing'
      BY <1>4 DEF DialModem, OnlineAfterSerial, MayDial, TypeOK, ConnTypeOK, OnlineHasLine,
                  OnlineWhileDialing
    <2>4. ModemAnswered'
      BY <1>2, <1>4 DEF DialModem, MayDial, ModemAnswered
    <2> QED
      BY <2>1, <2>2, <2>3, <2>4
  <1>5. CASE MethodOf[e] \in NetMethods /\ DialNet(e)
    <2>1. TypeOK'
      <3>1. ConnTypeOK'
        BY <1>5, DialerAssumption
           DEF DialerAssumption, DialNet, OnlineAfterSerial, TypeOK, ConnTypeOK, Methods, NetMethods
      <3>2. prog' \in {"PHONEBOOK", "DIALER", "CONSOLE"} /\ dstate' \in DialStates
        BY <1>5 DEF DialNet, TypeOK, DialStates, HoldStates
      <3>3. elapsed' \in Int /\ elapsed' <= MaxElapsed
        <4>1. \A t \in LookupTimes \cup {0} : t \in Int /\ t <= MaxElapsed
          BY DialerAssumption DEF DialerAssumption
        <4>2. elapsed' \in LookupTimes \cup {0}
          BY <1>5 DEF DialNet
        <4> QED
          BY <4>1, <4>2
      <3>4. tagged' \subseteq Entries
        BY <1>5 DEF DialNet, TypeOK
      <3> QED
        BY <1>2, <1>5, <3>1, <3>2, <3>3, <3>4 DEF DialNet, TypeOK
    <2>2. DialerHasEntry'
      BY <1>2 DEF DialerHasEntry
    <2>3. OnlineHasLine' /\ OnlineWhileDialing'
      BY <1>5 DEF DialNet, OnlineAfterSerial, MayDial, TypeOK, ConnTypeOK, OnlineHasLine,
                  OnlineWhileDialing
    <2>4. ModemAnswered'
      BY <1>2, <1>5 DEF DialNet, MayDial, ModemAnswered, NetMethods
    <2> QED
      BY <2>1, <2>2, <2>3, <2>4
  <1>6. CASE MethodOf[e] = "SHELL" /\ DialShell(e)
    <2>1. TypeOK'
      <3>1. ConnTypeOK'
        BY <1>6, DialerAssumption
           DEF DialerAssumption, DialShell, OnlineAfterSerial, TypeOK, ConnTypeOK, Methods
      <3>2. prog' \in {"PHONEBOOK", "DIALER", "CONSOLE"} /\ dstate' \in DialStates
        BY <1>6 DEF DialShell, TypeOK, DialStates, HoldStates
      <3>3. elapsed' \in Int /\ elapsed' <= MaxElapsed
        BY <1>6, DialerAssumption DEF DialerAssumption, DialShell, TypeOK
      <3>4. tagged' \subseteq Entries
        BY <1>6 DEF DialShell, TypeOK
      <3> QED
        BY <1>2, <1>6, <3>1, <3>2, <3>3, <3>4 DEF DialShell, TypeOK
    <2>2. DialerHasEntry'
      BY <1>2 DEF DialerHasEntry
    <2>3. OnlineHasLine' /\ OnlineWhileDialing'
      BY <1>6 DEF DialShell, OnlineAfterSerial, MayDial, TypeOK, ConnTypeOK, OnlineHasLine,
                  OnlineWhileDialing
    <2>4. ModemAnswered'
      BY <1>2, <1>6 DEF DialShell, MayDial, ModemAnswered
    <2> QED
      BY <2>1, <2>2, <2>3, <2>4
  <1> QED
    BY <1>3, <1>4, <1>5, <1>6

-----------------------------------------------------------------------------
(* Closing a connection leaves the program offline, or with a process. *)
LEMMA CloseEntrySafe ==
  ASSUME DialerInv, prog = "DIALER", dstate # "CONNECTED", CloseEntry, UNCHANGED crash
  PROVE  ConnTypeOK' /\ (online' => child')
  BY DEF DialerInv, TypeOK, ConnTypeOK, CloseEntry, CloseSerial, OnlineWhileDialing

LEMMA CloseSerialSafe ==
  ASSUME DialerInv, CloseSerial, UNCHANGED crash
  PROVE  ConnTypeOK' /\ ~online'
  BY DEF DialerInv, TypeOK, ConnTypeOK, CloseSerial

LEMMA CleanupSafe ==
  ASSUME DialerInv, NEW c \in BOOLEAN, Cleanup(c), UNCHANGED crash
  PROVE  ConnTypeOK' /\ ~online'
  BY DEF DialerInv, TypeOK, ConnTypeOK, Cleanup

(* The connection functions alone, whatever the dialer shows. *)
LEMMA ClosedSafe ==
  ASSUME DialerInv, ConnTypeOK', online' => child',
         UNCHANGED <<bookVars, dialVars, modem>>, keys' \in 0..MaxKeys
  PROVE  DialerInv'
  <1>1. TypeOK'
    BY DEF DialerInv, TypeOK, bookVars, dialVars
  <1>2. OnlineHasLine' /\ OnlineWhileDialing'
    BY DEF OnlineHasLine, OnlineWhileDialing
  <1>3. DialerHasEntry' /\ ModemAnswered'
    BY DEF DialerInv, DialerHasEntry, ModemAnswered, dialVars
  <1> QED
    BY <1>1, <1>2, <1>3 DEF DialerInv

LEMMA CloseConnectionSafe ==
  ASSUME DialerInv, CloseConnection, UNCHANGED <<crash, bookVars, dialVars, modem>>,
         keys' \in 0..MaxKeys
  PROVE  DialerInv'
  <1>1. CASE connected /\ method = "SOCKET"
    BY <1>1, CleanupSafe, ClosedSafe DEF CloseConnection
  <1>2. CASE ~(connected /\ method = "SOCKET")
    <2>1. UNCHANGED connVars
      BY <1>2 DEF CloseConnection
    <2> QED
      BY <2>1 DEF DialerInv, TypeOK, ConnTypeOK, connVars, bookVars, dialVars, DialerHasEntry,
                  OnlineHasLine, OnlineWhileDialing, ModemAnswered
  <1> QED
    BY <1>1, <1>2

-----------------------------------------------------------------------------
(***************************************************************************)
(* The operations of the dialer that close the entry.  None is possible in *)
(* state CONNECTED, in which a network connection or a modem may be up.    *)
(***************************************************************************)
LEMMA BackToPhonebookSafe ==
  ASSUME DialerInv, prog = "DIALER", dstate # "CONNECTED", BackToPhonebook,
         keys' \in 0..MaxKeys
  PROVE  DialerInv'
  <1>1. CASE Fail("close_dial_entry")
    BY <1>1, FailSafe DEF Asserting
  <1>2. CASE CloseEntry /\ UNCHANGED crash /\ prog' = "PHONEBOOK" /\ entry' = NoEntry
             /\ UNCHANGED <<dstate, elapsed, bookVars, modem>>
    <2>1. ConnTypeOK' /\ (online' => child')
      BY <1>2, CloseEntrySafe
    <2> QED
      BY <1>2, <2>1 DEF DialerInv, TypeOK, bookVars, DialerHasEntry, OnlineHasLine,
                        OnlineWhileDialing, ModemAnswered
  <1> QED
    BY <1>1, <1>2 DEF BackToPhonebook, ClosingEntry

LEMMA DialTimeoutSafe ==
  ASSUME DialerInv, prog = "DIALER", DialTimeout, keys' \in 0..MaxKeys
  PROVE  DialerInv'
  <1>1. CASE Fail("close_dial_entry")
    BY <1>1, FailSafe DEF Asserting
  <1>2. CASE CloseEntry /\ UNCHANGED crash /\ dstate' = "CYCLE" /\ elapsed' = 0
             /\ UNCHANGED <<bookVars, prog, entry, modem>>
    <2>1. ConnTypeOK' /\ (online' => child')
      BY <1>2, CloseEntrySafe DEF DialTimeout
    <2> QED
      BY <1>2, <2>1, DialerAssumption
         DEF DialerAssumption, DialerInv, TypeOK, bookVars, DialStates, HoldStates,
             DialerHasEntry, OnlineHasLine, OnlineWhileDialing, ModemAnswered
  <1> QED
    BY <1>1, <1>2 DEF DialTimeout, ClosingEntry

LEMMA KillNumberSafe ==
  ASSUME DialerInv, prog = "DIALER", dstate # "CONNECTED", KillNumber, keys' \in 0..MaxKeys
  PROVE  DialerInv'
  <1> DEFINE T == tagged \ {sel}
  <1>1. CASE Fail("close_dial_entry")
    BY <1>1, FailSafe DEF Asserting
  <1>2. CASE /\ CloseEntry /\ UNCHANGED crash
             /\ tagged' = T /\ sel' = CycleNumber(T)
             /\ dstate' = IF T = {} THEN "NO_NUMBERS_LEFT" ELSE "KILLED"
             /\ elapsed' = 0
             /\ UNCHANGED <<prog, entry, modem>>
    <2>1. ConnTypeOK' /\ (online' => child')
      BY <1>2, CloseEntrySafe
    <2>2. T \in SUBSET Entries /\ sel \in Entries /\ sel + 1 \in Int
      BY DialerAssumption DEF DialerAssumption, DialerInv, TypeOK, Entries
    <2>3. sel' \in Entries /\ tagged' \subseteq Entries
      BY <1>2, <2>2, TaggedFromType DEF CycleNumber
    <2>4. dstate' \in DialStates /\ dstate' # "CONNECTED"
      BY <1>2 DEF DialStates, HoldStates, OverStates
    <2>5. TypeOK'
      BY <1>2, <2>1, <2>3, <2>4, DialerAssumption DEF DialerAssumption, DialerInv, TypeOK
    <2> QED
      BY <1>2, <2>1, <2>4, <2>5 DEF DialerInv, DialerHasEntry, OnlineHasLine,
                                    OnlineWhileDialing, ModemAnswered
  <1> QED
    BY <1>1, <1>2 DEF KillNumber, ClosingEntry

LEMMA CycleKeySafe ==
  ASSUME DialerInv, prog = "DIALER", dstate # "CONNECTED", CycleKey, keys' \in 0..MaxKeys
  PROVE  DialerInv'
  <1>1. CASE Fail("close_dial_entry")
    BY <1>1, FailSafe DEF Asserting
  <1>2. CASE /\ CloseEntry /\ UNCHANGED crash
             /\ IF dstate \in {"MANUAL_CYCLE", "BETWEEN_PAUSE"}
                  THEN elapsed' = BetweenTime /\ UNCHANGED dstate
                  ELSE elapsed' = 0 /\ dstate' = "MANUAL_CYCLE"
             /\ UNCHANGED <<bookVars, prog, entry, modem>>
    <2>1. ConnTypeOK' /\ (online' => child')
      BY <1>2, CloseEntrySafe
    <2>2. dstate' \in DialStates /\ dstate' # "CONNECTED"
      BY <1>2 DEF DialStates, HoldStates
    <2>3. elapsed' \in Int /\ elapsed' <= MaxElapsed
      BY <1>2, DialerAssumption DEF DialerAssumption
    <2>4. TypeOK'
      BY <1>2, <2>1, <2>2, <2>3 DEF DialerInv, TypeOK, bookVars
    <2> QED
      BY <1>2, <2>1, <2>2, <2>4 DEF DialerInv, DialerHasEntry, OnlineHasLine,
                                    OnlineWhileDialing, ModemAnswered
  <1> QED
    BY <1>1, <1>2 DEF CycleKey, ClosingEntry

-----------------------------------------------------------------------------
(* A step that leaves the connection and the phonebook alone. *)
LEMMA ScreenSafe ==
  ASSUME DialerInv, UNCHANGED <<connVars, crash, bookVars, entry, modem>>,
         prog' \in {prog, "PHONEBOOK", "CONSOLE"},
         dstate' \in DialStates, dstate = "CONNECTED" <=> dstate' = "CONNECTED",
         elapsed' \in Int, elapsed' <= MaxElapsed, keys' \in 0..MaxKeys
  PROVE  DialerInv'
  <1>1. TypeOK'
    BY DEF DialerInv, TypeOK, ConnTypeOK, connVars, bookVars
  <1> QED
    BY <1>1 DEF DialerInv, connVars, DialerHasEntry, OnlineHasLine, OnlineWhileDialing,
                ModemAnswered

(* phonebook_refresh() on the dialer screen. *)
LEMMA RefreshSafe ==
  ASSUME DialerInv, Refresh
  PROVE  DialerInv'
  <1>1. keys' \in 0..MaxKeys /\ prog = "DIALER"
    BY DEF DialerInv, TypeOK, Refresh
  <1>2. elapsed \in Int /\ elapsed <= MaxElapsed /\ 0 \in Int /\ 0 <= MaxElapsed
    BY DialerAssumption DEF DialerAssumption, DialerInv, TypeOK
  <1>3. CASE HoldOver
    BY <1>1, <1>2, <1>3, ScreenSafe DEF HoldOver, DialStates, HoldStates
  <1>4. CASE Redial
    <2>1. CycleNumber(tagged) \in Entries
      BY TaggedFromType, DialerAssumption
         DEF DialerAssumption, CycleNumber, DialerInv, TypeOK, Entries
    <2> QED
      BY <1>1, <1>4, <2>1, DialSafe DEF Redial, MayDial
  <1>5. CASE DialTimeout
    BY <1>1, <1>5, DialTimeoutSafe
  <1>6. CASE dstate = "CONNECTED" /\ elapsed >= 3 /\ ShowConsole
    BY <1>1, <1>2, <1>6, ScreenSafe DEF ShowConsole, DialerInv, TypeOK
  <1>7. CASE dstate \in OverStates /\ elapsed >= 1 /\ BackToPhonebook
    BY <1>1, <1>7, BackToPhonebookSafe DEF OverStates
  <1> QED
    BY <1>3, <1>4, <1>5, <1>6, <1>7 DEF Refresh

(* The keys of the dialer. *)
LEMMA DialerKeySafe ==
  ASSUME DialerInv, DialerKey, keys' \in 0..MaxKeys
  PROVE  DialerInv'
  <1>1. elapsed \in Int /\ elapsed <= MaxElapsed /\ dstate \in DialStates
        /\ 0 \in Int /\ 0 <= MaxElapsed /\ prog = "DIALER"
    BY DialerAssumption DEF DialerAssumption, DialerInv, TypeOK, DialerKey
  <1>2. CASE dstate = "CONNECTED" /\ ShowConsole
    BY <1>1, <1>2, ScreenSafe DEF ShowConsole
  <1>3. CASE dstate # "CONNECTED" /\ KillNumber
    BY <1>1, <1>3, KillNumberSafe
  <1>4. CASE dstate # "CONNECTED" /\ CycleKey
    BY <1>1, <1>4, CycleKeySafe
  <1>5. CASE dstate # "CONNECTED" /\ ExtendKey
    <2>1. elapsed' \in Int /\ elapsed' <= MaxElapsed
      BY <1>1, <1>5, DialerAssumption DEF DialerAssumption, ExtendKey
    <2> QED
      BY <1>1, <1>5, <2>1, ScreenSafe DEF ExtendKey
  <1>6. CASE dstate # "CONNECTED" /\ AbortKey
    <2>1. CASE dstate \in OverStates
      BY <1>1, <1>6, <2>1, BackToPhonebookSafe DEF AbortKey
    <2>2. CASE dstate \notin OverStates
      BY <1>1, <1>6, <2>2, ScreenSafe DEF AbortKey, DialStates, OverStates
    <2> QED
      BY <2>1, <2>2
  <1> QED
    BY <1>2, <1>3, <1>4, <1>5, <1>6 DEF DialerKey

(* The keys of the phonebook. *)
LEMMA PhonebookKeySafe ==
  ASSUME DialerInv, PhonebookKey, keys' \in 0..MaxKeys
  PROVE  DialerInv'
  <1>1. sel \in Entries /\ sel \in Int /\ tagged \in SUBSET Entries /\ prog = "PHONEBOOK"
    BY DEF DialerInv, TypeOK, PhonebookKey, Entries
  <1>2. TaggedFrom(sel, tagged) \in Entries
    BY <1>1, TaggedFromType
  <1>3. CASE ~online /\ Dial(TaggedFrom(sel, tagged))
    BY <1>1, <1>2, <1>3, DialSafe DEF MayDial
  <1>4. CASE /\ sel' \in Entries /\ tagged' \subseteq Entries
             /\ UNCHANGED <<connVars, crash, dialVars, modem>>
    <2>1. TypeOK'
      BY <1>4 DEF DialerInv, TypeOK, ConnTypeOK, connVars, dialVars
    <2> QED
      BY <1>4, <2>1 DEF DialerInv, connVars, dialVars, DialerHasEntry, OnlineHasLine,
                        OnlineWhileDialing, ModemAnswered
  <1>5. CASE ShowConsole
    BY <1>5, ScreenSafe DEF ShowConsole, DialerInv, TypeOK
  <1>6. \/ ~online /\ Dial(TaggedFrom(sel, tagged))
        \/ /\ sel' \in Entries /\ tagged' \subseteq Entries
           /\ UNCHANGED <<connVars, crash, dialVars, modem>>
        \/ ShowConsole
    BY <1>1, <1>2 DEF PhonebookKey
  <1> QED
    BY <1>3, <1>4, <1>5, <1>6

(* The keys of the console: the phonebook, and hanging up. *)
LEMMA ConsoleKeySafe ==
  ASSUME DialerInv, ConsoleKey, keys' \in 0..MaxKeys
  PROVE  DialerInv'
  <1>1. CASE /\ prog' = "PHONEBOOK"
             /\ UNCHANGED <<connVars, crash, bookVars, dstate, entry, elapsed, modem>>
    BY <1>1, ScreenSafe DEF DialerInv, TypeOK
  <1>2. CASE HangUp
    <2>1. CASE \E w \in Asserting : Fail(w)
      BY <2>1, FailSafe
    <2>2. CASE CloseSerial /\ UNCHANGED crash
      BY <1>2, <2>2, CloseSerialSafe, ClosedSafe DEF HangUp
    <2>3. CASE CloseConnection /\ UNCHANGED crash
      BY <1>2, <2>3, CloseConnectionSafe DEF HangUp
    <2> QED
      BY <1>2, <2>1, <2>2, <2>3 DEF HangUp, Asserting
  <1> QED
    BY <1>1, <1>2 DEF ConsoleKey

LEMMA KeySafe ==
  ASSUME DialerInv, Key
  PROVE  DialerInv'
  <1>1. keys' \in 0..MaxKeys
    BY DialerAssumption DEF DialerAssumption, DialerInv, TypeOK, Key
  <1> QED
    BY <1>1, DialerKeySafe, PhonebookKeySafe, ConsoleKeySafe DEF Key

-----------------------------------------------------------------------------
(* The end of a connect(). *)
LEMMA NetConnectFinishSafe ==
  ASSUME DialerInv, NetConnectFinish
  PROVE  DialerInv'
  <1>1. keys' \in 0..MaxKeys /\ pending /\ fd # "none"
    BY DEF DialerInv, TypeOK, NetConnectFinish
  <1>2. CASE NetFails
    <2>1. TypeOK'
      <3>1. ConnTypeOK'
        BY <1>2 DEF DialerInv, TypeOK, ConnTypeOK, NetFails
      <3>2. elapsed' \in Int /\ elapsed' <= MaxElapsed /\ dstate' \in DialStates
        BY <1>2, DialerAssumption DEF DialerAssumption, NetFails, DialStates, HoldStates
      <3> QED
        BY <1>1, <1>2, <3>1, <3>2 DEF DialerInv, TypeOK, NetFails, bookVars
    <2> QED
      BY <1>1, <1>2, <2>1 DEF DialerInv, NetFails, DialerHasEntry, OnlineHasLine,
                              OnlineWhileDialing, ModemAnswered
  <1>3. CASE NetSucceeds
    <2>1. CASE Fail("dial_success")
      BY <1>1, <2>1, FailSafe DEF Asserting
    <2>2. CASE entry # NoEntry
      <3>1. TypeOK'
        <4>1. ConnTypeOK'
          BY <1>3, <2>2 DEF DialerInv, TypeOK, ConnTypeOK, NetSucceeds
        <4>2. elapsed' \in Int /\ elapsed' <= MaxElapsed /\ dstate' \in DialStates
          BY <1>3, <2>2, DialerAssumption DEF DialerAssumption, NetSucceeds, DialStates
        <4> QED
          BY <1>1, <1>3, <2>2, <4>1, <4>2 DEF DialerInv, TypeOK, NetSucceeds
      <3> QED
        BY <1>1, <1>3, <2>2, <3>1
           DEF DialerInv, NetSucceeds, DialerHasEntry, OnlineHasLine, OnlineWhileDialing,
               ModemAnswered
    <2> QED
      BY <1>3, <2>1, <2>2 DEF NetSucceeds
  <1> QED
    BY <1>2, <1>3 DEF NetConnectFinish

(* The modem answers. *)
LEMMA ModemDataSafe ==
  ASSUME DialerInv, ModemData
  PROVE  DialerInv'
  <1>1. UNCHANGED <<crash, sel, prog, entry, keys>> /\ prog = "DIALER"
        /\ MethodOf[entry] = "MODEM" /\ 0 <= MaxElapsed /\ 0 \in Int
    BY DialerAssumption DEF DialerAssumption, ModemData
  <1>2. CASE /\ modem # "CONNECTED" /\ modem' \in {"SENT_AT", "SENT_DIAL_STRING"}
             /\ UNCHANGED <<connVars, tagged, dstate, elapsed>>
    BY <1>1, <1>2 DEF DialerInv, TypeOK, ConnTypeOK, connVars, DialerHasEntry, OnlineHasLine,
                      OnlineWhileDialing, ModemAnswered
  <1>3. CASE /\ modem = "SENT_DIAL_STRING" /\ modem' = "REFUSED"
             /\ dstate' = "LINE_BUSY" /\ elapsed' = 0 /\ UNCHANGED <<connVars, tagged>>
    BY <1>1, <1>3 DEF DialerInv, TypeOK, ConnTypeOK, connVars, DialStates, HoldStates,
                      DialerHasEntry, OnlineHasLine, OnlineWhileDialing, ModemAnswered
  <1>4. CASE /\ fd = "tty" /\ ~pending /\ modem' = "CONNECTED"
             /\ dstate' = "CONNECTED" /\ elapsed' = 0
             /\ online' = TRUE /\ tagged' = tagged \ {entry}
             /\ UNCHANGED <<fd, serial_open, pending, connected, method, child, exited, closer>>
    <2>1. TypeOK'
      BY <1>1, <1>4 DEF DialerInv, TypeOK, ConnTypeOK, DialStates
    <2> QED
      BY <1>1, <1>4, <2>1 DEF DialerInv, DialerHasEntry, OnlineHasLine, OnlineWhileDialing,
                              ModemAnswered
  <1> QED
    BY <1>2, <1>3, <1>4 DEF ModemData

(* The connection ends: it is read to its end, lost, idle or its process dies. *)
LEMMA EofSafe ==
  ASSUME DialerInv, Eof
  PROVE  DialerInv'
  <1>1. keys' \in 0..MaxKeys
    BY DEF DialerInv, TypeOK, Eof
  <1>2. CASE Fail("cleanup_connection")
    BY <1>1, <1>2, FailSafe DEF Asserting
  <1>3. CASE /\ CloseSerial \/ \E c \in BOOLEAN : Cleanup(c)
             /\ prog' = IF prog = "DIALER" THEN "PHONEBOOK" ELSE prog
             /\ entry' = NoEntry
             /\ UNCHANGED <<crash, bookVars, dstate, elapsed, modem>>
    <2>1. ConnTypeOK' /\ ~online'
      BY <1>3, CloseSerialSafe, CleanupSafe
    <2>2. prog' \in {"PHONEBOOK", "CONSOLE"}
      BY <1>3 DEF DialerInv, TypeOK
    <2>3. TypeOK'
      BY <1>1, <1>3, <2>1, <2>2 DEF DialerInv, TypeOK, bookVars
    <2> QED
      BY <2>1, <2>2, <2>3 DEF DialerInv, DialerHasEntry, OnlineHasLine, OnlineWhileDialing,
                              ModemAnswered
  <1>4. connected \in BOOLEAN
    BY DEF DialerInv, TypeOK, ConnTypeOK
  <1>5. (\E c \in IF fd = "sock" THEN {FALSE, connected} ELSE {connected} : Cleanup(c))
          => \E c \in BOOLEAN : Cleanup(c)
    BY <1>4
  <1> QED
    BY <1>2, <1>3, <1>5 DEF Eof

LEMMA LostSafe ==
  ASSUME DialerInv, CarrierLost \/ IdleClose \/ ChildExits \/ ChildReaped
  PROVE  DialerInv'
  <1>1. keys' \in 0..MaxKeys /\ UNCHANGED <<bookVars, dialVars, modem>>
    BY DEF DialerInv, TypeOK, CarrierLost, IdleClose, ChildExits, ChildReaped
  <1>2. CASE \E w \in Asserting : Fail(w)
    BY <1>1, <1>2, FailSafe
  <1>3. CASE CloseSerial /\ UNCHANGED crash
    BY <1>1, <1>3, CloseSerialSafe, ClosedSafe
  <1>4. CASE CloseConnection /\ UNCHANGED crash
    BY <1>1, <1>4, CloseConnectionSafe
  <1>5. CASE ChildExits
    BY <1>1, <1>5 DEF DialerInv, TypeOK, ConnTypeOK, ChildExits, bookVars, dialVars,
                      DialerHasEntry, OnlineHasLine, OnlineWhileDialing, ModemAnswered
  <1>6. CASE Cleanup(connected /\ method # "SOCKET") /\ UNCHANGED crash
    <2>1. (connected /\ method # "SOCKET") \in BOOLEAN
      OBVIOUS
    <2> QED
      BY <1>1, <1>6, <2>1, CleanupSafe, ClosedSafe
  <1> QED
    BY <1>2, <1>3, <1>4, <1>5, <1>6 DEF CarrierLost, IdleClose, ChildReaped, Asserting

-----------------------------------------------------------------------------
(* The invariant holds at first and every step keeps it. *)
LEMMA DialerInit ==
  ASSUME Init
  PROVE  DialerInv
  <1>1. ConnTypeOK
    BY DEF Init, ConnInit, ConnTypeOK, Methods
  <1>2. elapsed \in Int /\ elapsed <= MaxElapsed /\ keys \in 0..MaxKeys
    BY DialerAssumption DEF DialerAssumption, Init
  <1>3. TypeOK
    BY <1>1, <1>2 DEF Init, TypeOK, DialStates
  <1> QED
    BY <1>3 DEF Init, ConnInit, DialerInv, DialerHasEntry, OnlineHasLine, OnlineWhileDialing,
                ModemAnswered

LEMMA DialerNext ==
  ASSUME DialerInv, [Next]_vars
  PROVE  DialerInv'
  <1>1. CASE Refresh
    BY <1>1, RefreshSafe
  <1>2. CASE Tick
    <2>1. elapsed' \in Int /\ elapsed' <= MaxElapsed
      BY <1>2, DialerAssumption DEF DialerAssumption, DialerInv, TypeOK, Tick
    <2> QED
      BY <1>2, <2>1, ScreenSafe DEF DialerInv, TypeOK, Tick
  <1>3. CASE Key
    BY <1>3, KeySafe
  <1>4. CASE NetConnectFinish
    BY <1>4, NetConnectFinishSafe
  <1>5. CASE Data
    BY <1>5, ModemDataSafe, EofSafe, LostSafe DEF Data
  <1>6. CASE UNCHANGED vars
    BY <1>6 DEF vars, connVars, bookVars, dialVars, DialerInv, TypeOK, ConnTypeOK,
                DialerHasEntry, OnlineHasLine, OnlineWhileDialing, ModemAnswered
  <1> QED
    BY <1>1, <1>2, <1>3, <1>4, <1>5, <1>6 DEF Next

(***************************************************************************)
(* The inductive invariant of the dialer, for every phonebook, every       *)
(* setting of the times and any number of keys.                            *)
(***************************************************************************)
THEOREM DialerInvariance == Spec => []DialerInv
  BY DialerInit, DialerNext, PTL DEF Spec

(***************************************************************************)
(* The dialer always has an entry when it is shown: the assertions on      *)
(* q_current_dial_entry in phonebook_refresh() and process_incoming_data() *)
(* hold, whatever the user, the clock and the remote side do.              *)
(***************************************************************************)
THEOREM DialerEntry == Spec => []DialerHasEntry
  <1>1. DialerInv => DialerHasEntry
    BY DEF DialerInv
  <1> QED
    BY <1>1, DialerInvariance, PTL

(***************************************************************************)
(* q_status.online is true only with an open line or a spawned process.    *)
(***************************************************************************)
THEOREM DialerOnline == Spec => []OnlineHasLine
  <1>1. DialerInv => OnlineHasLine
    BY DEF DialerInv
  <1> QED
    BY <1>1, DialerInvariance, PTL
=============================================================================
