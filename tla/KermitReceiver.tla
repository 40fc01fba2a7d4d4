--------------------------- MODULE KermitReceiver ---------------------------
(***************************************************************************)
(* kermit() of the receiving end (source/kermit.c).  An action is one      *)
(* round of its loop: decode_input_bytes(), check_for_repeat(),            *)
(* save_input_packet(), the handler of the state, encode_output_packet().  *)
(***************************************************************************)
EXTENDS KermitSender

VARIABLE r   \* status, session_parms, the windows, the files, the packets at hand

rkVars == <<r>>

(* A packet in the input window; acked is FALSE while it is still to come. *)
Slot(q, acked, m) == [q |-> q, acked |-> acked, t |-> m.t, f |-> m.f, a |-> m.a]

EmptyWindow == [j \in 0..(Window - 1) |-> Slot(0, FALSE, None)]

(***************************************************************************)
(* kermit_start().  f is the file of file_name and open the one of         *)
(* file_stream, 0 when they are NULL.  The input window is a ring: its     *)
(* first slot is begin, the next one free i, and n are in use.  last is    *)
(* the output window: the last packet sent that was no NAK.  text is       *)
(* text_mode.  got is what the file opened for each upload holds (0 for a  *)
(* unit of another file) and done the files reported as complete.          *)
(***************************************************************************)
RStatus(disk) ==
  [state |-> "INIT", xfer |-> "RUN", mode |-> "new", seq |-> 0, f |-> 0, open |-> 0,
   slots |-> EmptyWindow, begin |-> 0, i |-> 0, n |-> 0, last |-> None,
   skip |-> FALSE, skips |-> 0, timeouts |-> 0, called |-> FALSE, text |-> FALSE,
   got |-> disk, done |-> {}, in |-> None, pkt |-> None, out |-> <<>>]

RStreams(q) == q.mode = "stream"
RCheck(q) == IF q.mode = "new" THEN 1 ELSE 3
RWindow(q) == IF q.mode = "window" THEN Window ELSE 1

(* stop_file_transfer() also closes the file: kermit_stop(). *)
RAbort(q) == [q EXCEPT !.state = "ABORT", !.xfer = "ABORT", !.open = 0, !.f = 0]

(* and error_packet() *)
RError(q) ==
  [RAbort(q) EXCEPT !.pkt = Packet("E", q.seq % SeqMod, "", 0, 0, RCheck(q))]

(* Mutant: the ACK of S has the check type that was just negotiated. *)
RAckWithNewCheck(q, k, a) ==
  [q EXCEPT !.pkt = Packet("ACK", q.in.q, k, 0, a, RCheck(q))]

(* ack_packet_param(), ack_file_packet() *)
RAckWith(q, k, a) ==
  [q EXCEPT !.pkt = Packet("ACK", q.in.q, k, 0, a, IF q.seq = 0 THEN 1 ELSE RCheck(q))]

(* ack_packet() *)
RAck(q, really) ==
  IF q.skip THEN [RAckWith(q, "X", 0) EXCEPT !.skip = FALSE]
  ELSE IF really \/ ~RStreams(q) THEN RAckWith(q, "", 0) ELSE q

-----------------------------------------------------------------------------
(* The slots in use, in order, are At(q, 0) to At(q, q.n - 1). *)
Place(q, j) == (q.begin + j) % RWindow(q)
At(q, j) == q.slots[Place(q, j)]

Gaps(q) == {j \in 0..(q.n - 1) : ~At(q, j).acked}

(* The sequence number of the last slot, in use or not *)
SeqEnd(q) == q.slots[(q.i + RWindow(q) - 1) % RWindow(q)].q

(* window_next_packet_seq() *)
IsNext(q, v) == q.n = 0 \/ v = (SeqEnd(q) + 1) % SeqMod

(* fwrite() of the data of slots to file_stream *)
Write(q, slots) ==
  LET data == SelectSeq(slots, LAMBDA c : c.t = "D")
  IN  IF data = <<>> THEN q
      ELSE IF q.open = 0 THEN [q EXCEPT !.xfer = "CRASH"]
      ELSE [q EXCEPT !.got[q.open] =
              @ \o [j \in DOMAIN data |-> IF data[j].f = q.open THEN data[j].a ELSE 0]]

WriteFirst(q) == IF At(q, 0).acked THEN Write(q, <<At(q, 0)>>) ELSE q

(* Mutant: the number of slots in use is not updated. *)
RollOffUncounted(q, k) == [q EXCEPT !.begin = Place(q, k)]

RollOff(q, k) == [q EXCEPT !.begin = Place(q, k), !.n = @ - k]

RollOffIfFull(q) ==
  IF At(q, 0).acked /\ q.n = RWindow(q) THEN RollOff(q, 1) ELSE q

(* Mutant: packets that are still to come are passed over. *)
WindowSaveAllWithGaps(q) ==
  LET all  == [j \in 1..q.n |-> At(q, j - 1)]
      come == SelectSeq(all, LAMBDA c : c.acked)
  IN  Thru(Write(q, come), LAMBDA w : RollOff(w, q.n))

(* window_save_all(): up to the first packet that is still to come *)
WindowSaveAll(q) ==
  LET k == IF Gaps(q) = {} THEN q.n ELSE Min(Gaps(q))
  IN  Thru(Write(q, [j \in 1..k |-> At(q, j - 1)]), LAMBDA w : RollOff(w, k))

(* The next free slot is taken. *)
TakeSlot(q, c) ==
  [q EXCEPT !.slots[q.i] = c, !.i = (@ + 1) % RWindow(q), !.n = @ + 1]

(***************************************************************************)
(* nak_packet(), with input_packet.seq = v.  It asks for the first packet  *)
(* that is missing, or for the one after the last; where that is looked up *)
(* as the slot before i = 0 it takes slot n - 1, and the number is sent as *)
(* an unsigned char (4 * 64), not modulo SeqMod.  When v is the packet     *)
(* after the last one and the window is full, its first slot is written    *)
(* and makes room.                                                         *)
(***************************************************************************)
NakPacket(q, v) ==
  LET seq == IF q.seq = 0 /\ v = 0 THEN 0
             ELSE IF q.n = 0 THEN q.seq + 1
             ELSE IF Gaps(q) # {} THEN At(q, Min(Gaps(q))).q
             ELSE q.slots[IF q.i = 0 THEN q.n - 1 ELSE q.i - 1].q + 1
      p   == [q EXCEPT !.pkt = Packet("NAK", seq % (4 * SeqMod), "", 0, 0, 1)]
  IN  IF RStreams(q) \/ ~IsNext(q, v) \/ q.n < RWindow(q) THEN p
      ELSE IF ~At(q, 0).acked THEN [p EXCEPT !.pkt = None]
      ELSE Thru(WriteFirst(p), LAMBDA w : TakeSlot(RollOff(w, 1), Slot(v, FALSE, None)))

-----------------------------------------------------------------------------
(* Mutant: a file that is there is refused. *)
OpenNewFileOnly(q) ==
  IF q.text \/ q.got[q.f] # <<>> THEN RAckWith(q, "N", 0)
  ELSE [(IF q.in.t = "A" THEN RAckWith(q, "pos", 0) ELSE q) EXCEPT !.open = q.f]

(***************************************************************************)
(* open_receive_file(), for an A packet or for data that comes before it:  *)
(* a file that is there is appended to, and the sender of A told where.  A *)
(* text file is refused, which the sender does not notice.                 *)
(***************************************************************************)
OpenReceiveFile(q) ==
  IF q.text THEN RAckWith(q, "N", 0)
  ELSE [(IF q.in.t = "A" THEN RAckWith(q, "pos", Len(q.got[q.f])) ELSE q) EXCEPT !.open = q.f]

(* decode_data_field() opens the file when data comes before it is open. *)
DecodeDataField(q) ==
  IF q.in.t = "D" /\ q.state = "RDW" /\ q.open = 0 THEN OpenReceiveFile(q) ELSE q

(* decode_input_bytes() of a packet that is accepted, with the attributes  *)
(* of A.                                                                   *)
RDecode(q, m) ==
  CASE m.t = "E" -> [RAbort(q) EXCEPT !.in = m]
    [] m.t = "F" -> [q EXCEPT !.in = m, !.f = m.f]
    [] m.t = "A" -> [q EXCEPT !.in = m, !.text = opt.text]
    [] OTHER -> DecodeDataField([q EXCEPT !.in = m])

(* check_for_repeat(): what was answered last is answered again. *)
RRepeat(q) ==
  IF q.in # None /\ ~(RStreams(q) /\ q.state = "RDW") /\ q.last # None /\ q.last.q = q.in.q
    THEN [q EXCEPT !.out = Append(@, q.last), !.in = None]
    ELSE q

(* find_input_slot(), case 2: are there packets missing before v? *)
IsLost(q, v) ==
  LET end == SeqEnd(q)
      ws  == (end + RWindow(q)) % SeqMod
  IN  \/ ws > end + 2 /\ end + 2 <= v /\ v <= ws
      \/ ws < end + 2 /\ (v >= end + 2 \/ v <= ws)

(***************************************************************************)
(* It asks for the first of them, writes what it can and takes a slot for  *)
(* each that is missing and one for the packet, as far as there is room.   *)
(* The packet is not acknowledged.                                         *)
(***************************************************************************)
SaveAfterLost(q) ==
  Thru(NakPacket(q, (SeqEnd(q) + 1) % SeqMod), LAMBDA a : Thru(WindowSaveAll(a), LAMBDA p :
    LET next    == (SeqEnd(p) + 1) % SeqMod
        room    == RWindow(p) - p.n
        missing == Min({room, (q.in.q - next + SeqMod) % SeqMod})
        taken   == Min({room, missing + 1})
        off(j)  == (j - p.i + RWindow(p)) % RWindow(p)
        new(o)  == IF o < missing THEN Slot((next + o) % SeqMod, FALSE, None)
                   ELSE Slot(q.in.q, TRUE, q.in)
    IN  [p EXCEPT !.in = None, !.n = @ + taken, !.i = (@ + taken) % RWindow(p),
                  !.slots = [j \in DOMAIN @ |->
                               IF j < RWindow(p) /\ off(j) < taken THEN new(off(j))
                               ELSE p.slots[j]]]))

(* save_input_packet() to slot j *)
SaveTo(q, j) ==
  LET c == Slot(q.in.q, TRUE, q.in)
  IN  IF j # q.i THEN [q EXCEPT !.slots[j] = c]
      ELSE IF q.n < RWindow(q) THEN [TakeSlot(q, c) EXCEPT !.seq = @ + 1]
      ELSE [q EXCEPT !.slots[j] = c, !.seq = @ + 1]

(***************************************************************************)
(* save_input_packet() and find_input_slot().  A packet in order also      *)
(* writes the first packet of the window, which leaves the window only if  *)
(* that is full.                                                           *)
(***************************************************************************)
SaveInputPacket(q) ==
  LET same == {j \in 0..(q.n - 1) : At(q, j).q = q.in.q}
  IN  CASE q.in = None -> q
        [] q.in # None /\ q.n = 0 -> SaveTo(q, q.i)
        [] q.in # None /\ q.n > 0 /\ IsNext(q, q.in.q) ->
             Thru(WriteFirst(q), LAMBDA w : Thru(RollOffIfFull(w), LAMBDA p : SaveTo(p, p.i)))
        [] q.in # None /\ q.n > 0 /\ ~IsNext(q, q.in.q) /\ IsLost(q, q.in.q) -> SaveAfterLost(q)
        [] OTHER -> IF same = {} THEN [q EXCEPT !.in = None] ELSE SaveTo(q, Place(q, Min(same)))

-----------------------------------------------------------------------------
(* receive_R(), negotiate_send_init() and ack_send_init() *)
ReceiveR(q) ==
  CASE q.in = None -> q
    [] q.in.t = "S" ->
         LET p == [q EXCEPT !.mode = Negotiated, !.seq = 0, !.state = "RF"]
             w == IF p.mode = "stream" THEN p
                  ELSE [p EXCEPT !.slots = EmptyWindow, !.begin = 0, !.i = 0, !.n = 0]
         IN  RAckWith(w, "parms", 0)
    [] OTHER -> RError(q)

(* receive_RF() *)
ReceiveRF(q) ==
  CASE q.in = None -> q
    [] q.in.t = "F" -> [RAckWith(q, "name", 0) EXCEPT !.state = "RDW"]
    [] q.in.t = "B" -> [RAck(q, TRUE) EXCEPT !.state = "COMPLETE", !.xfer = "END"]
    [] OTHER -> RError(q)

(* The file is closed, which fails when it was never opened. *)
CloseFile(q, whole) ==
  IF q.open = 0 THEN [q EXCEPT !.xfer = "CRASH"]
  ELSE [RAck(q, TRUE) EXCEPT !.open = 0, !.f = 0, !.state = "RF",
                             !.done = IF whole THEN @ \cup {q.open} ELSE @]

(* Mutant: the window is not looked at. *)
ReceiveEOFAtOnce(q) == CloseFile(q, q.in.k # "D")

(* receive_RDW() of an EOF packet *)
ReceiveEOF(q) ==
  IF q.in.k = "D" THEN CloseFile(q, FALSE)
  ELSE IF RStreams(q) THEN CloseFile(q, TRUE)
  ELSE Thru(WindowSaveAll(q), LAMBDA p :
         IF p.xfer = "CRASH" THEN p
         ELSE IF p.n > 0 THEN NakPacket(p, q.in.q) ELSE CloseFile(p, TRUE))

(* receive_RDW() *)
ReceiveRDW(q) ==
  CASE q.in = None -> q
    [] q.in.t = "Z" -> ReceiveEOF(q)
    [] q.in.t = "D" -> RAck(q, FALSE)
    [] q.in.t = "A" -> IF q.open = 0 THEN OpenReceiveFile(q) ELSE q
    [] OTHER -> RError(q)

(* kermit_receive() *)
KermitReceive(q) ==
  CASE q.xfer = "CRASH"  -> q
    [] q.xfer # "CRASH" /\ q.state = "INIT" -> [q EXCEPT !.state = "R"]
    [] q.xfer # "CRASH" /\ q.state = "R"    -> ReceiveR(q)
    [] q.xfer # "CRASH" /\ q.state = "RF"   -> ReceiveRF(q)
    [] q.xfer # "CRASH" /\ q.state = "RDW"  -> ReceiveRDW(q)
    [] OTHER -> q

(* encode_output_packet(), and the packet goes to the output window. *)
REncode(q) ==
  IF q.pkt = None \/ q.xfer = "CRASH" THEN q
  ELSE [q EXCEPT !.out = Append(@, q.pkt), !.last = IF q.pkt.t = "NAK" THEN @ ELSE q.pkt]

(* A round of the loop of kermit() *)
RRound(q) ==
  Thru(q, LAMBDA a : Thru(RRepeat(a), LAMBDA b : Thru(SaveInputPacket(b), LAMBDA c :
    Thru(KermitReceive(c), REncode))))

-----------------------------------------------------------------------------
RReturn(q) ==
  \E p \in {q} :
    /\ r' = [p EXCEPT !.in = None, !.pkt = None, !.out = <<>>]
    /\ toS' = toS \o p.out /\ UNCHANGED <<faults, opt>>

RRunning == r.xfer = "RUN" /\ r.called

(* The first call asks for S and does not look at its input. *)
RFirstCall ==
  /\ r.xfer = "RUN" /\ ~r.called
  /\ RReturn(RRound(NakPacket([r EXCEPT !.called = TRUE], 0)))
  /\ toR' \in Tossed(toR, 0)

RInput ==
  /\ RRunning /\ toR # <<>> /\ ~Starved(toR)
  /\ LET m == Head(toR)
     IN  IF m.x = "noise" THEN RReturn(r) /\ toR' = Tail(toR)
         ELSE IF Accepted(m, RCheck(r)) THEN RReturn(RRound(RDecode(r, m))) /\ toR' = Tail(toR)
         ELSE RReturn(RRound(NakPacket(r, SeqSeen(m)))) /\ toR' \in AfterBad(toR)

(***************************************************************************)
(* check_timeout() and handle_timeout().  Where the last slot is the one   *)
(* before i = 0, the slot after the end of the window is read: g is what   *)
(* happens to be there.  The NAK takes the place of the error packet.      *)
(***************************************************************************)
RTimedOut(g) ==
  LET q == [r EXCEPT !.timeouts = @ + 1]
      v == CASE q.n = 0 -> q.seq
             [] Gaps(q) # {} -> At(q, Min(Gaps(q))).q
             [] OTHER -> IF q.i = 0 THEN g ELSE q.slots[q.i - 1].q
  IN  RRound(NakPacket(IF q.timeouts >= KTimeoutMax THEN RAbort(q) ELSE q, v))

(* What the values there may do: be 0, be the number that is next, or none *)
Garbage == {0, (SeqEnd(r) + 1) % SeqMod, SeqMod}

RCanTimeout == RRunning /\ ~(RStreams(r) /\ r.state = "RDW")

(* The user ends the transfer, or wants the file to be skipped. *)
RUserAbort == r.xfer = "RUN" /\ r' = RAbort(r) /\ UNCHANGED <<klineVars, opt>>

RUserSkip ==
  /\ RRunning /\ r.skips = 0
  /\ r' = [r EXCEPT !.skip = TRUE, !.skips = 1] /\ UNCHANGED <<klineVars, opt>>
=============================================================================
