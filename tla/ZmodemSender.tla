---------------------------- MODULE ZmodemSender ----------------------------
(***************************************************************************)
(* zmodem_send(): the sending end of a Zmodem transfer, from               *)
(* zmodem_start() until the transfer stops.                                *)
(*                                                                         *)
(* A call of zmodem() takes the input there is into packet_buffer and      *)
(* repeats the handler of the current state until one returns Q_TRUE; only *)
(* then is its output sent.  SCall begins a call and each later action is  *)
(* one handler.  An end in a call looks at nothing but its own state, so   *)
(* no other end or fault comes between: turn holds the end that is in a    *)
(* call, and both when their timers have expired together.                 *)
(***************************************************************************)
EXTENDS ZmodemLine

CONSTANTS
  BlockMax,     \* ZMODEM_BLOCK_SIZE, 1024 bytes
  BlockMin,     \* the smallest block size, 32 bytes
  DownAfter,    \* blocks since the last confirmation that halve it, 3
  GiveUpAfter,  \* and that end the transfer at the smallest size, 10
  UpAfter,      \* what must be confirmed before it is doubled, 8196 bytes
  WindowReliable, WindowUnreliable,  \* blocks before an ACK is asked, 32 and 4
  ZTimeoutMax,  \* timeout_max, 5
  ZErrorsMax    \* consecutive errors that end the transfer, 15

ASSUME ZSenderAssumption ==
  /\ BlockMax \in Nat \ {0} /\ BlockMin \in 1..BlockMax
  /\ DownAfter \in Nat \ {0} /\ GiveUpAfter \in Nat \ {0} /\ UpAfter \in Nat
  /\ WindowReliable \in Nat \ {0} /\ WindowUnreliable \in Nat \ {0}
  /\ ZTimeoutMax \in Nat \ {0} /\ ZErrorsMax \in Nat \ {0}
  \* halving and doubling lead from block size to block size
  /\ \E B \in SUBSET (BlockMin..BlockMax) :
       BlockMax \in B /\ \A b \in B : /\ b > BlockMin => b \div 2 \in B
                                      /\ 2 * b <= BlockMax => 2 * b \in B

VARIABLES
  s,           \* status, packet_buffer and the output of the call
  turn,        \* the ends that are in a call, of "s" and "r"
  opt          \* options of the two programs; they never change

(* zmodem_start(); waiting_for_ack keeps what the last transfer left in it. *)
SStatus(stale) ==
  [state |-> "INIT", xfer |-> "RUN", f |-> 1, pos |-> 0, block |-> BlockMax,
   ackreq |-> FALSE, waiting |-> stale, streaming |-> FALSE,
   conf |-> 0, last |-> 0, down |-> 0, reliable |-> TRUE,
   count |-> WindowReliable, errs |-> 0, timeouts |-> 0, esc |-> FALSE,
   buf |-> <<>>, out |-> <<>>]

-----------------------------------------------------------------------------
(* What the functions that handlers call do to the status q. *)

(***************************************************************************)
(* stop_file_transfer().  It calls zmodem_stop(), so that file_name and    *)
(* file_stream are NULL whenever the transfer has stopped.                 *)
(***************************************************************************)
Stop(q, x) == [q EXCEPT !.xfer = x]

Abort(q) == Stop([q EXCEPT !.state = "ABORT"], "ABORT")

(* A failed assert(), abort(), a NULL pointer, or a loop without end. *)
Crash(q) == [q EXCEPT !.xfer = "CRASH"]

(* stats_increment_errors(), n times *)
Errors(q, n) ==
  LET p == [q EXCEPT !.errs = @ + n]
  IN  IF p.errs >= ZErrorsMax /\ p.state # "ZDATA" THEN Abort(p) ELSE p

SErrors(q, n) == [Errors(q, n) EXCEPT !.reliable = FALSE]

Put(q, m) == [q EXCEPT !.out = Built(@, m)]
PutData(q, m) == [q EXCEPT !.out = Append(@, m)]
Drop(q) == [q EXCEPT !.buf = Tail(@)]
Cleared(q) == [q EXCEPT !.buf = <<>>]

(* build_packet() of a header that is not always a hex one *)
SHeader(q, t, a) == Header(t, a, q.esc)

(* block_size_down() and block_size_up() *)
BlockDown(q) ==
  LET outstanding == (q.conf - q.last) \div q.block
      p == IF outstanding >= DownAfter /\ q.block > BlockMin
             THEN [q EXCEPT !.block = @ \div 2, !.down = q.conf] ELSE q
      g == IF outstanding >= GiveUpAfter /\ p.block = BlockMin THEN Abort(p) ELSE p
  IN  [g EXCEPT !.count = WindowUnreliable, !.last = q.conf]

BlockUp(q) ==
  [q EXCEPT !.last = q.conf,
            !.block = IF q.conf - q.down <= UpAfter THEN @
                      ELSE IF 2 * @ > BlockMax THEN BlockMax ELSE 2 * @]

(***************************************************************************)
(* The second half of send_zdata(): the next block, or the empty ZCRCW     *)
(* that asks the receiver where it is.  A short read is the last block.    *)
(***************************************************************************)
Window(q) == IF q.reliable THEN WindowReliable ELSE WindowUnreliable

(* Mutant: the window is one block too long. *)
NextBlockLate(q) ==
  LET n    == IF Size[q.f] - q.pos < q.block THEN Size[q.f] - q.pos ELSE q.block
      last == n < q.block
      full == ~last /\ q.count = 0
      e    == IF last THEN "W" ELSE IF full THEN "Q" ELSE "G"
      p    == [q EXCEPT !.pos = q.pos + n, !.errs = 0,
                        !.waiting = last \/ full,
                        !.streaming = @ \/ full,
                        !.count = IF last THEN @ ELSE IF full THEN Window(q) ELSE @ - 1]
  IN  PutData(p, Subpacket("DATA", q.f, q.pos, n, e))

NextBlock(q) ==
  LET n    == IF Size[q.f] - q.pos < q.block THEN Size[q.f] - q.pos ELSE q.block
      last == n < q.block
      full == ~last /\ q.count = 1
      e    == IF last THEN "W" ELSE IF full THEN "Q" ELSE "G"
      p    == [q EXCEPT !.pos = q.pos + n, !.errs = 0,
                        !.waiting = last \/ full,
                        !.streaming = @ \/ full,
                        !.count = IF last THEN @ ELSE IF full THEN Window(q) ELSE @ - 1]
  IN  PutData(p, Subpacket("DATA", q.f, q.pos, n, e))

Stream(q) ==
  IF q.waiting THEN q
  ELSE IF q.ackreq THEN PutData([q EXCEPT !.waiting = TRUE], Subpacket("DATA", q.f, q.pos, 0, "W"))
  ELSE NextBlock(q)

-----------------------------------------------------------------------------
(* A handler returns Q_TRUE: the output is sent and the call is over. *)
SReturn(q) ==
  /\ s' = [q EXCEPT !.out = <<>>]
  /\ toR' = toR \o q.out /\ turn' = turn \ {"s"}
  /\ UNCHANGED <<faults, opt>>

SWaits == {"ZRQINIT_WAIT", "ZSINIT_WAIT", "ZFILE_WAIT", "ZEOF_WAIT", "ZFIN_WAIT"}

(* Nothing happens in a call without input. *)
SResting(q) ==
  \/ q.state \in SWaits /\ Starved(q.buf)
  \/ q.state = "ZDATA" /\ IF q.buf = <<>> THEN q.waiting ELSE Starved(q.buf)
  \/ q.state \in {"ABORT", "COMPLETE"} \/ q.xfer = "CRASH"

(* A handler returns Q_FALSE: the loop goes on, or ends when the next      *)
(* handler has nothing to do.                                              *)
SLoop(q) ==
  IF SResting(q) THEN SReturn(q)
  ELSE s' = q /\ UNCHANGED <<toR, turn, faults, opt>>

SStep == "s" \in turn /\ s.xfer # "CRASH"

(* The call is given the first k messages that have arrived. *)
SCall(k) ==
  /\ turn = {} /\ s.xfer = "RUN" /\ k \in 0..Len(toS)
  /\ k > 0 \/ ~SResting(s)
  /\ s' = [s EXCEPT !.buf = @ \o SubSeq(toS, 1, k)]
  /\ toS' = SubSeq(toS, k + 1, Len(toS))
  /\ turn' = {"s"} /\ UNCHANGED <<toR, faults, opt>>

(* What was received is not a whole header. *)
SDone == SStep /\ SResting(s) /\ SReturn(s) /\ UNCHANGED toS

(* States in which the sender sends and then waits. *)
SRequests == {"ZRQINIT", "ZSINIT", "ZFILE", "ZEOF", "ZFIN"}

WaitFor(st) ==
  [ZRQINIT |-> "ZRQINIT_WAIT", ZSINIT |-> "ZSINIT_WAIT", ZFILE |-> "ZFILE_WAIT",
   ZEOF |-> "ZEOF_WAIT", ZFIN |-> "ZFIN_WAIT"][st]

(* The state a ZNAK or a timeout leads back to. *)
Retry(st) == CHOOSE rq \in SRequests : WaitFor(rq) = st

(***************************************************************************)
(* send_zrqinit(), send_zsinit(), send_zfile(), send_zeof(), send_zfin().  *)
(* The data of ZSINIT has a 16-bit CRC, whatever its header says.          *)
(***************************************************************************)
Request(q) ==
  [ZRQINIT |-> <<Header("ZRQINIT", 0, TRUE)>>,
   ZSINIT  |-> <<Header("ZSINIT", 0, FALSE), Subpacket("ATTN", 0, 0, 1, "W")>>,
   ZFILE   |-> <<SHeader(q, "ZFILE", 0), Subpacket("NAME", q.f, 0, 1, "W")>>,
   ZEOF    |-> <<SHeader(q, "ZEOF", Size[IF q.f > NFiles THEN NFiles ELSE q.f])>>,
   ZFIN    |-> <<SHeader(q, "ZFIN", 0)>>][q.state]

NeedsZsinit(q) == ~q.esc /\ opt.sesc

(* send_zfile() takes the length of file_name, which may be NULL by now. *)
SSend ==
  /\ SStep /\ s.state \in SRequests
  /\ s.state = "ZFILE" => s.xfer = "RUN"
  /\ s.state = "ZSINIT" => NeedsZsinit(s)
  /\ SReturn([Cleared(s) EXCEPT !.out = Built(@, Request(s)[1]) \o Tail(Request(s)),
                                  !.state = WaitFor(@)])
  /\ toS' \in Rest(toS)

SSendNoName ==
  /\ SStep /\ s.state = "ZFILE" /\ s.xfer = "ABORT"
  /\ SReturn(Crash(s)) /\ UNCHANGED toS

SSkipZsinit ==
  /\ SStep /\ s.state = "ZSINIT" /\ ~NeedsZsinit(s)
  /\ SLoop([Cleared(s) EXCEPT !.state = "ZFILE"])
  /\ toS' \in Rest(toS)

SBegin ==
  /\ SStep /\ s.state = "INIT"
  /\ SLoop([s EXCEPT !.state = "ZRQINIT"]) /\ UNCHANGED toS

-----------------------------------------------------------------------------
(* The state is one in which parse_packet() is called. *)
SParses == SStep /\ s.state \in SWaits \cup {"ZDATA"} /\ s.buf # <<>>

(* Bytes that are no header are discarded; when no more follow, the       *)
(* handler returns.                                                        *)
SJunk ==
  /\ SParses /\ ~IsHeader(s.buf[1])
  /\ IF Len(s.buf) = 1 THEN SReturn(Drop(s)) ELSE SLoop(Drop(s))
  /\ UNCHANGED toS

(* A header that is damaged, or bytes that look like the start of one. *)
SGarbled ==
  /\ SParses
  /\ IF IsHeader(s.buf[1])
       THEN /\ Parsed(s.buf) \in {"CRCERROR", "INVALID"}
            /\ SReturn(Put(Cleared(SErrors(s, IF Parsed(s.buf) = "INVALID" THEN 1 ELSE 2)),
                           SHeader(s, "ZNAK", 0)))
       ELSE /\ MayLookLikeHeader(s.buf[1])
            /\ SReturn(Put(Cleared(SErrors(s, 1)), SHeader(s, "ZNAK", 0)))
  /\ toS' \in Rest(toS)

(***************************************************************************)
(* A good header, in one of the states st.  Of those that are handled, two *)
(* never come from zmodem_receive(): the ZACK of ZSINIT, whose data it can *)
(* only find damaged, and a ZSKIP in the middle of a file.                 *)
(***************************************************************************)
SGets(st, types) ==
  /\ SParses /\ s.state \in st
  /\ IsHeader(s.buf[1]) /\ Parsed(s.buf) = "OK" /\ s.buf[1].t \in types

Unhandled(st) ==
  LET all == {"ZRINIT", "ZCHALLENGE", "ZACK", "ZRPOS", "ZSKIP", "ZCRC", "ZNAK", "ZFIN"}
  IN  all \ (CASE st = "ZRQINIT_WAIT" -> {"ZRINIT", "ZCHALLENGE", "ZNAK"}
               [] st = "ZSINIT_WAIT"  -> {"ZACK", "ZNAK"}
               [] st = "ZFILE_WAIT"   -> {"ZRPOS", "ZCRC", "ZSKIP", "ZNAK"}
               [] st = "ZDATA"        -> {"ZSKIP", "ZRPOS", "ZACK", "ZNAK"}
               [] st = "ZEOF_WAIT"    -> {"ZRINIT", "ZNAK"}
               [] st = "ZFIN_WAIT"    -> {"ZFIN", "ZRINIT", "ZNAK"})

SUnexpected ==
  /\ SGets(SWaits \cup {"ZDATA"}, Unhandled(s.state))
  /\ SReturn(Abort(Drop(s))) /\ UNCHANGED toS

(* ZNAK: the request again, even when the error was one too many. *)
SNak ==
  /\ SGets(SWaits, {"ZNAK"})
  /\ SLoop([SErrors(Drop(s), 1) EXCEPT !.state = Retry(s.state)])
  /\ UNCHANGED toS

(* Mutant: timeouts are not counted. *)
CheckTimeoutUncounted(q) == q

(* check_timeout(), when there is nothing in packet_buffer *)
CheckTimeout(q) ==
  LET p == [q EXCEPT !.timeouts = @ + 1]
  IN  IF p.timeouts >= ZTimeoutMax THEN Abort(Errors(p, 1)) ELSE Errors(p, 1)

SCanTimeout ==
  /\ s.xfer = "RUN" /\ s.buf = <<>>
  /\ s.state \in SWaits \/ (s.state = "ZDATA" /\ s.waiting)

(* The request again, or, from send_zdata(), the question where to go on. *)
STimedOut ==
  LET p == [CheckTimeout(s) EXCEPT !.reliable = FALSE]
  IN  IF s.state = "ZDATA" THEN Stream([p EXCEPT !.ackreq = TRUE, !.waiting = FALSE])
      ELSE [p EXCEPT !.state = Retry(s.state)]

-----------------------------------------------------------------------------
(* send_zrqinit_wait() *)
SGetsZrinit ==
  /\ SGets({"ZRQINIT_WAIT"}, {"ZRINIT"})
  /\ SLoop([Drop(s) EXCEPT !.esc = @ \/ s.buf[1].a = 1, !.state = "ZSINIT"])
  /\ UNCHANGED toS

(* Mutant: the number is not sent back. *)
SZchallengeZero ==
  /\ SGets({"ZRQINIT_WAIT"}, {"ZCHALLENGE"})
  /\ SLoop(Put(Drop(s), SHeader(s, "ZACK", 0))) /\ UNCHANGED toS

SGetsZchallenge ==
  /\ SGets({"ZRQINIT_WAIT"}, {"ZCHALLENGE"})
  /\ SLoop(Put(Drop(s), SHeader(s, "ZACK", s.buf[1].a))) /\ UNCHANGED toS

(* setup_for_next_file(), from send_zfile_wait() and send_zeof_wait() *)
NextFile(q) ==
  [q EXCEPT !.f = @ + 1, !.state = IF q.f = NFiles THEN "ZFIN" ELSE "ZFILE",
            !.conf = IF q.f = NFiles THEN @ ELSE 0,
            !.last = IF q.f = NFiles THEN @ ELSE 0]

SGetsZskip ==
  /\ SGets({"ZFILE_WAIT"}, {"ZSKIP"})
  /\ SLoop(NextFile(Drop(s))) /\ UNCHANGED toS

(* send_zfile_wait(): the CRC of the first a units. *)
SGetsZcrc ==
  /\ SGets({"ZFILE_WAIT"}, {"ZCRC"})
  /\ LET a == s.buf[1].a
         n == IF a > Size[s.f] THEN Size[s.f] ELSE a
     IN  SLoop(Put(Drop(s), FileHeader("ZCRC", s.f, n, s.esc)))
  /\ UNCHANGED toS

SGetsZrpos ==
  /\ SGets({"ZFILE_WAIT"}, {"ZRPOS"})
  /\ LET a == s.buf[1].a
     IN  IF a > Size[s.f] THEN SReturn(Abort(Drop(s)))
         ELSE SLoop(Put([Drop(s) EXCEPT !.pos = a, !.state = "ZDATA", !.ackreq = FALSE],
                        SHeader(s, "ZDATA", a)))
  /\ UNCHANGED toS

(* send_zdata() is told of an error, or a second time where to go on. *)
(* Mutant: what the receiver says of its position is not taken over. *)
RepositionedInPlace(q, a) == Put([q EXCEPT !.conf = a], SHeader(q, "ZDATA", a))

Repositioned(q, a) == Put([q EXCEPT !.pos = a, !.conf = a], SHeader(q, "ZDATA", a))

SDataZrpos ==
  /\ SGets({"ZDATA"}, {"ZRPOS"})
  /\ LET a == s.buf[1].a
         first == [Cleared(SErrors(s, 1)) EXCEPT !.ackreq = TRUE, !.waiting = FALSE,
                     !.out = <<>>, !.streaming = FALSE]
         again == [Drop(s) EXCEPT !.ackreq = FALSE, !.waiting = FALSE]
         p == IF s.ackreq THEN again ELSE BlockDown([first EXCEPT !.conf = a])
     IN  IF a > Size[s.f] THEN SReturn(Abort(IF s.ackreq THEN again ELSE first))
         ELSE IF p.state = "ABORT" THEN SReturn(p)
         ELSE SReturn(Stream(Repositioned(p, a)))
  /\ IF s.ackreq THEN UNCHANGED toS ELSE toS' \in Rest(toS)

(* send_zdata(): the answer to ZCRCQ or ZCRCW. *)
SDataZack ==
  /\ SGets({"ZDATA"}, {"ZACK"})
  /\ LET a == s.buf[1].a
         p == [Drop(s) EXCEPT !.ackreq = FALSE, !.waiting = FALSE]
         q == BlockUp([p EXCEPT !.pos = a, !.conf = a])
     IN  IF a > Size[s.f] THEN SLoop([p EXCEPT !.state = "ZEOF"])
         ELSE IF a = Size[s.f] THEN SLoop([q EXCEPT !.state = "ZEOF"])
         ELSE SReturn(Stream(IF q.streaming THEN q
                             ELSE Put([q EXCEPT !.streaming = TRUE], SHeader(q, "ZDATA", a))))
  /\ UNCHANGED toS

(***************************************************************************)
(* send_zdata(): a ZNAK sets the state to ZRPOS, which is one of the       *)
(* receiver's: the next call ends in abort().                              *)
(***************************************************************************)
SDataNak ==
  /\ SGets({"ZDATA"}, {"ZNAK"})
  /\ SReturn(Stream([SErrors(Drop(s), 1) EXCEPT !.state = "ZRPOS"]))
  /\ UNCHANGED toS

SNeverState ==
  /\ SStep /\ s.state = "ZRPOS"
  /\ SReturn(Crash(s)) /\ UNCHANGED toS

SDataNext ==
  /\ SStep /\ s.state = "ZDATA" /\ s.buf = <<>> /\ ~s.waiting
  /\ SReturn(Stream(s)) /\ UNCHANGED toS

(* send_zeof_wait() *)
SGetsEofAnswer ==
  /\ SGets({"ZEOF_WAIT"}, {"ZRINIT"})
  /\ SLoop(NextFile(Drop(s))) /\ UNCHANGED toS

(* send_zfin_wait() *)
SFinished ==
  /\ SGets({"ZFIN_WAIT"}, {"ZFIN"})
  /\ SReturn(Stop([Drop(s) EXCEPT !.state = "COMPLETE", !.out = <<>>], "END"))
  /\ UNCHANGED toS

SFinAgain ==
  /\ SGets({"ZFIN_WAIT"}, {"ZRINIT"})
  /\ SLoop([SErrors(Drop(s), 1) EXCEPT !.state = "ZFIN"]) /\ UNCHANGED toS

SUserAbort ==
  /\ turn = {} /\ s.xfer = "RUN"
  /\ s' = Stop(s, "ABORT") /\ UNCHANGED <<toR, toS, faults, turn, opt>>

SHandle ==
  \/ SDone \/ SSend \/ SSendNoName \/ SSkipZsinit \/ SBegin
  \/ SJunk \/ SGarbled \/ SUnexpected \/ SNak
  \/ SGetsZrinit \/ SGetsZchallenge \/ SGetsZskip \/ SGetsZcrc
  \/ SGetsZrpos \/ SDataZrpos \/ SDataZack \/ SDataNak \/ SNeverState
  \/ SDataNext \/ SGetsEofAnswer \/ SFinished \/ SFinAgain
=============================================================================
