---------------------------- MODULE KermitSender ----------------------------
(***************************************************************************)
(* kermit() of the sending end (source/kermit.c).  An action is one round  *)
(* of its loop: decode_input_bytes(), check_for_repeat(), move_windows(),  *)
(* the handler of the state, encode_output_packet().  Each of these is an  *)
(* operator on the record of the sender's state.                           *)
(***************************************************************************)
EXTENDS KermitLine

CONSTANT KTimeoutMax   \* status.timeout_max (5)

ASSUME KTimeoutAssumption == KTimeoutMax \in Nat \ {0}

VARIABLES
  opt,    \* the options of both programs and what may happen, see Kermit
  s       \* status, session_parms, the output window and the packets at hand

(***************************************************************************)
(* kermit_start().  mode stands for session_parms: "new" before they are   *)
(* negotiated, then "stream" or "window", and "plain" when the ACK of S    *)
(* had no parameters.  in is input_packet and pkt output_packet, None when *)
(* parsed_ok is FALSE.                                                     *)
(***************************************************************************)
SStatus ==
  [state |-> "INIT", xfer |-> "RUN", mode |-> "new", seq |-> 0, f |-> 1, pos |-> 0,
   win |-> <<>>, skip |-> FALSE, skips |-> 0, timeouts |-> 0, called |-> FALSE,
   in |-> None, pkt |-> None, out |-> <<>>]

SStreams(q) == q.mode = "stream" \/ (q.mode = "new" /\ opt.ss)
SWindowing(q) == q.mode \in {"new", "window"}
SCheck(q) == IF q.mode \in {"stream", "window"} THEN 3 ELSE 1

(* negotiate_send_init(), the same at both ends *)
Negotiated == IF opt.ss /\ opt.rs THEN "stream" ELSE "window"

(* The output window is full: the handler is not called. *)
SFull(q) ==
  ~SStreams(q) /\ Len(q.win) = IF q.mode = "window" THEN Window ELSE 1

Unacked(win) == {i \in DOMAIN win : ~win[i].acked}

SPacket(q, t, k, a) == Packet(t, q.seq % SeqMod, k, q.f, a, SCheck(q))

SInitPacket == Packet("S", 0, "parms", 0, 0, 1)

(* stop_file_transfer(Q_TRANSFER_STATE_ABORT) *)
SAbort(q) == [q EXCEPT !.state = "ABORT", !.xfer = "ABORT"]

(* and error_packet() *)
SError(q) == [SAbort(q) EXCEPT !.pkt = SPacket(q, "E", "", 0)]

-----------------------------------------------------------------------------
(* decode_input_bytes() of a packet that is accepted *)
SDecode(q, m) ==
  IF m.t = "E" THEN [SAbort(q) EXCEPT !.in = m]
  ELSE IF m.t = "NAK" /\ q.mode = "stream" /\ q.state \in {"SDW", "SZ"} THEN SError(q)
  ELSE [q EXCEPT !.in = m]

(***************************************************************************)
(* check_for_repeat().  A NAK of the packet that is next says that all     *)
(* before it have come: it becomes an ACK, without data.                   *)
(***************************************************************************)
SRepeat(q) ==
  LET slots   == {i \in DOMAIN q.win : q.win[i].m.q = q.in.q}
      i       == CHOOSE j \in slots : TRUE
      implied == Packet("ACK", q.seq % SeqMod, "", 0, 0, 0)
  IN  IF q.in = None \/ (SStreams(q) /\ q.state = "SDW") THEN q
      ELSE IF slots = {}
        THEN IF q.in.t = "NAK" /\ q.in.q = (q.seq + 1) % SeqMod
               THEN [q EXCEPT !.win = <<>>, !.in = implied] ELSE q
        ELSE CASE q.in.t = "ACK" -> [q EXCEPT !.win[i].acked = TRUE]
               [] q.in.t = "NAK" -> [q EXCEPT !.out = Append(@, q.win[i].m), !.in = None]
               [] OTHER -> [SError(q) EXCEPT !.in = None]

(* Mutant: nothing leaves a window all of which is acknowledged. *)
SMoveWindowsIfAny(q) ==
  [q EXCEPT !.win = IF Unacked(@) = {} THEN @ ELSE SubSeq(@, Min(Unacked(@)), Len(@))]

(* move_windows() *)
SMoveWindows(q) ==
  [q EXCEPT !.win = IF Unacked(@) = {} THEN <<>> ELSE SubSeq(@, Min(Unacked(@)), Len(@))]

-----------------------------------------------------------------------------
(* send_S() when first_S, or when it is asked for again *)
SendInit(q) == [q EXCEPT !.state = "S", !.seq = 0, !.pkt = SInitPacket]

(* send_file_header(), in the state it leads to *)
SendFileHeader(q) == [q EXCEPT !.state = "SF", !.pkt = SPacket(q, "F", "", 0)]

(* send_S() *)
SendS(q) ==
  CASE q.in = None -> q
    [] q.in.t = "NAK" -> SendInit(q)
    [] q.in.t = "ACK" ->
         SendFileHeader([q EXCEPT !.seq = @ + 1,
                                  !.mode = IF q.in.k = "parms" THEN Negotiated ELSE "plain"])
    [] OTHER -> SError(q)

(***************************************************************************)
(* send_SF().  A "plain" sender never gets here: its check type is not the *)
(* receiver's.                                                             *)
(***************************************************************************)
SendSF(q) ==
  CASE q.in = None -> q
    [] q.in.t = "ACK" ->
         LET p == [q EXCEPT !.state = "SA", !.seq = @ + 1]
         IN  [p EXCEPT !.pkt = SPacket(p, "A", "", 0)]
    [] OTHER -> SError(q)

(***************************************************************************)
(* send_SD_next_packet(); the file is read, and its position moves, when   *)
(* the packet is encoded.                                                  *)
(***************************************************************************)
SendNext(q) ==
  LET p == [q EXCEPT !.seq = @ + 1]
  IN  IF q.pos = Size[q.f] \/ q.skip
        THEN [p EXCEPT !.pkt = SPacket(p, "Z", IF q.skip THEN "D" ELSE "", 0),
                       !.skip = FALSE, !.state = "SZ"]
        ELSE [p EXCEPT !.pkt = SPacket(p, "D", "", q.pos + 1), !.pos = @ + 1]

(* send_SA(), and on into send_SDW() *)
SendSA(q) ==
  CASE q.in = None -> q
    [] q.in.t = "ACK" ->
         SendNext([q EXCEPT !.state = "SDW", !.pos = IF q.in.k = "pos" THEN q.in.a ELSE @])
    [] OTHER -> SError(q)

(* send_SDW() *)
SendSDW(q) ==
  CASE q.in = None -> SendNext(q)
    [] q.in.t = "ACK" -> SendNext([q EXCEPT !.skip = @ \/ q.in.k = "X"])
    [] OTHER -> SError(q)

(* setup_for_next_file(), and on into send_SB() *)
SetupForNextFile(q) ==
  LET p == [q EXCEPT !.seq = @ + 1, !.f = @ + 1]
  IN  IF p.f <= NFiles THEN SendFileHeader([p EXCEPT !.pos = 0])
      ELSE [p EXCEPT !.state = "SB", !.pkt = SPacket(p, "B", "", 0)]

(* send_SZ(): in windowing it waits until all is acknowledged. *)
SendSZ(q) ==
  CASE q.in = None -> q
    [] q.in.t = "ACK" -> IF SWindowing(q) /\ q.win # <<>> THEN q ELSE SetupForNextFile(q)
    [] OTHER -> SError(q)

(* send_SB() *)
SendSB(q) ==
  CASE q.in = None -> q
    [] q.in.t = "ACK" -> [q EXCEPT !.state = "COMPLETE", !.xfer = "END"]
    [] OTHER -> SError(q)

(* kermit_send() *)
KermitSend(q) ==
  CASE q.state = "INIT" -> SendInit(q)
    [] q.state = "S"    -> SendS(q)
    [] q.state = "SF"   -> SendSF(q)
    [] q.state = "SA"   -> SendSA(q)
    [] q.state = "SDW"  -> SendSDW(q)
    [] q.state = "SZ"   -> SendSZ(q)
    [] q.state = "SB"   -> SendSB(q)
    [] OTHER -> q

(* encode_output_packet(), and the packet goes to the output window. *)
SEncode(q) ==
  IF q.pkt = None THEN q
  ELSE [q EXCEPT !.out = Append(@, q.pkt), !.pkt = None,
                 !.win = IF SStreams(q) THEN <<[m |-> q.pkt, acked |-> TRUE]>>
                         ELSE Append(@, [m |-> q.pkt, acked |-> FALSE])]

(* A round of the loop of kermit() *)
SRound(q) ==
  Thru(q, LAMBDA a : Thru(SRepeat(a), LAMBDA b : Thru(SMoveWindows(b), LAMBDA p :
    IF SFull(p) THEN p ELSE Thru(KermitSend(p), SEncode))))

-----------------------------------------------------------------------------
(* The call is over, or the round: the output is sent. *)
SDone(q) == [q EXCEPT !.in = None, !.pkt = None, !.out = <<>>]

SReturn(q) ==
  \E p \in {q} : s' = SDone(p) /\ toR' = toR \o p.out /\ UNCHANGED <<faults, opt>>

SRunning == s.xfer = "RUN" /\ s.called

(* A round without input would change nothing. *)
SResting == SDone(SRound(s)) = s

(* The first call does not look at its input. *)
SFirst(q) == SRound([q EXCEPT !.called = TRUE])

SFirstCall ==
  /\ s.xfer = "RUN" /\ ~s.called
  /\ SReturn(SFirst(s)) /\ toS' \in Tossed(toS, 0)

SInput ==
  /\ SRunning /\ toS # <<>> /\ ~Starved(toS)
  /\ LET m == Head(toS)
     IN  IF m.x = "noise" THEN SReturn(SRound(s)) /\ toS' = Tail(toS)
         ELSE IF Accepted(m, SCheck(s)) THEN SReturn(SRound(SDecode(s, m))) /\ toS' = Tail(toS)
         ELSE SReturn(SRound(s)) /\ toS' \in AfterBad(toS)

SIdle == SRunning /\ ~SResting /\ SReturn(SRound(s)) /\ UNCHANGED toS

(* Mutant: the time is not looked at. *)
STimedOutNever == SRound(s)

(***************************************************************************)
(* check_timeout() and handle_timeout(), and the rest of the call.  The    *)
(* error packet waits for a place in the output window, and so is lost if  *)
(* that is full.                                                           *)
(***************************************************************************)
STimedOut ==
  LET p == [s EXCEPT !.timeouts = @ + 1]
      a == IF p.timeouts >= KTimeoutMax THEN SError(p) ELSE p
      resent == [a EXCEPT !.out = Append(@, a.win[Min(Unacked(a.win))].m)]
      b == IF ~SWindowing(a) \/ a.win = <<>> THEN a
           ELSE IF Unacked(a.win) = {} THEN [a EXCEPT !.xfer = "CRASH"] ELSE resent
  IN  SRound(b)

(***************************************************************************)
(* The main loop calls kermit() many times before the five seconds are     *)
(* over: a call that finds them over comes after one that had no effect.   *)
(***************************************************************************)
SCanTimeout ==
  SRunning /\ SResting /\ ~(s.mode = "stream" /\ s.state = "SDW")

(* The user ends the transfer, or wants the file to be skipped. *)
SUserAbort == s.xfer = "RUN" /\ s' = SAbort(s) /\ UNCHANGED <<klineVars, opt>>

SUserSkip ==
  /\ SRunning /\ s.skips = 0
  /\ s' = [s EXCEPT !.skip = TRUE, !.skips = 1] /\ UNCHANGED <<klineVars, opt>>
=============================================================================
