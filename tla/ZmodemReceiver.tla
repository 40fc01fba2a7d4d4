--------------------------- MODULE ZmodemReceiver ---------------------------
(***************************************************************************)
(* zmodem_receive(): the receiving end of a Zmodem transfer.  As in        *)
(* ZmodemSender, RCall begins a call of zmodem() and each later action is  *)
(* one handler; the output is sent when the call is over.                  *)
(***************************************************************************)
EXTENDS ZmodemSender

VARIABLES
  r,      \* status, packet, packet_buffer and the output of the call
  got,    \* what the file opened for each upload holds: its units, 0 for others
  there,  \* files of which the download directory holds one of that name
  done    \* files that were closed as complete, or skipped because they are

rVars == <<r, got, there, done>>

(***************************************************************************)
(* zmodem_start(); prior_state keeps what the last transfer left in it.    *)
(* c is packet.use_crc32, f the file of file_name and file_stream, 0 when  *)
(* they are NULL.                                                          *)
(***************************************************************************)
RStatus(prior) ==
  [state |-> "INIT", prior |-> prior, xfer |-> "RUN", f |-> 0, pos |-> 0,
   c |-> FALSE, errs |-> 0, timeouts |-> 0, chal |-> 0,
   esc |-> FALSE, buf |-> <<>>, out |-> <<>>]

RWaits == {"ZCHALLENGE_WAIT", "ZRINIT_WAIT", "ZCRC_WAIT", "ZRPOS_WAIT"}

-----------------------------------------------------------------------------
(* The first subpacket whose end decode_zdata_bytes() finds, 0 if none:    *)
(* all bytes before it are taken for its data.                             *)
SubAt(q) ==
  LET ends == {i \in 1..Len(q.buf) : HasEnd(q.buf[i])}
      i    == CHOOSE j \in ends : \A k \in ends : j <= k
  IN  IF ends = {} THEN 0
      \* two bytes of a 32-bit CRC are still to come
      ELSE IF q.c /\ q.buf[i].t = "ATTN" /\ i = Len(q.buf) THEN 0 ELSE i

(* The CRC is the one of the kind the header announced. *)
CrcOk(q) ==
  SubAt(q) = 1 /\ q.buf[1].x = "ok" /\ q.c = (q.buf[1].t # "ATTN")

RHeader(q, t, a) == Header(t, a, q.esc)

(* build_packet() leaves the size of its CRC in packet. *)
Answer(q, m) == [Put(q, m) EXCEPT !.c = (m.e = "C")]

-----------------------------------------------------------------------------
RReturn(q) ==
  /\ r' = [q EXCEPT !.out = <<>>]
  /\ toS' = toS \o q.out /\ turn' = turn \ {"r"}
  /\ UNCHANGED <<faults, opt>>

RResting(q) ==
  \/ q.state \in RWaits /\ Starved(q.buf)
  \/ q.state = "ZDATA" /\ SubAt(q) = 0
  \/ q.state \in {"ABORT", "COMPLETE"} \/ q.xfer = "CRASH"

RLoop(q) ==
  IF RResting(q) THEN RReturn(q)
  ELSE r' = q /\ UNCHANGED <<toS, turn, faults, opt>>

RStep == "r" \in turn /\ r.xfer # "CRASH"

RKeep == UNCHANGED <<got, there, done>>

RCall(k) ==
  /\ turn = {} /\ r.xfer = "RUN" /\ k \in 0..Len(toR)
  /\ k > 0 \/ ~RResting(r)
  /\ r' = [r EXCEPT !.buf = @ \o SubSeq(toR, 1, k)]
  /\ toR' = SubSeq(toR, k + 1, Len(toR))
  /\ turn' = {"r"} /\ RKeep /\ UNCHANGED <<toS, faults, opt>>

RDone == RStep /\ RResting(r) /\ RReturn(r) /\ RKeep /\ UNCHANGED toR

RBegin ==
  /\ RStep /\ r.state = "INIT"
  /\ RLoop([r EXCEPT !.state = IF opt.chal THEN "ZCHALLENGE" ELSE "ZRINIT"])
  /\ RKeep /\ UNCHANGED toR

(* receive_zchallenge(): a new random number every time. *)
RChallenge ==
  /\ RStep /\ r.state = "ZCHALLENGE"
  /\ RReturn(Answer([Cleared(r) EXCEPT !.chal = @ + 1, !.state = "ZCHALLENGE_WAIT"],
                    Header("ZCHALLENGE", r.chal + 1, TRUE)))
  /\ RKeep /\ toR' \in Rest(toR)

(* receive_zrinit() *)
RSendZrinit ==
  /\ RStep /\ r.state = "ZRINIT"
  /\ RReturn(Answer([Cleared(r) EXCEPT !.esc = opt.resc, !.state = "ZRINIT_WAIT"],
                    Header("ZRINIT", IF opt.resc THEN 1 ELSE 0, TRUE)))
  /\ RKeep /\ toR' \in Rest(toR)

(* receive_zcrc(): the CRC of the file that is there already, which it     *)
(* reads whether file_stream is still open or not.                         *)
RSendZcrc ==
  /\ RStep /\ r.state = "ZCRC"
  /\ IF r.xfer = "RUN"
       THEN /\ RReturn(Answer([Cleared(r) EXCEPT !.state = "ZCRC_WAIT"],
                              Header("ZCRC", Len(got[r.f]), TRUE)))
            /\ toR' \in Rest(toR)
       ELSE RReturn(Crash(r)) /\ UNCHANGED toR
  /\ RKeep

(* receive_zrpos() *)
RSendZrpos ==
  /\ RStep /\ r.state = "ZRPOS"
  /\ RReturn(Answer([Cleared(r) EXCEPT !.state = "ZRPOS_WAIT"],
                    Header("ZRPOS", r.pos, TRUE)))
  /\ RKeep /\ toR' \in Rest(toR)

(***************************************************************************)
(* receive_zskip() closes the file, so it can be done only once; ZRINIT_   *)
(* WAIT comes back here all the same, and then fclose() is given NULL.     *)
(***************************************************************************)
RSendZskip ==
  /\ RStep /\ r.state = "ZSKIP"
  /\ IF r.f # 0 /\ r.xfer = "RUN"
       THEN /\ RReturn(Answer([Cleared(r) EXCEPT !.f = 0, !.prior = "ZSKIP",
                                                 !.state = "ZRINIT_WAIT"],
                              RHeader(r, "ZSKIP", 0)))
            /\ done' = done \cup {r.f} /\ toR' \in Rest(toR)
       ELSE RReturn(Crash(r)) /\ UNCHANGED <<done, toR>>
  /\ UNCHANGED <<got, there>>

(* The state that follows ZFIN_WAIT *)
RFinish ==
  /\ RStep /\ r.state = "ZFIN_WAIT"
  /\ RReturn(Stop([r EXCEPT !.state = "COMPLETE"], "END"))
  /\ RKeep /\ UNCHANGED toR

-----------------------------------------------------------------------------
RParses == RStep /\ r.state \in RWaits /\ r.buf # <<>>

RJunk ==
  /\ RParses /\ ~IsHeader(r.buf[1])
  /\ IF Len(r.buf) = 1 THEN RReturn(Drop(r)) ELSE RLoop(Drop(r))
  /\ RKeep /\ UNCHANGED toR

(* receive_zrpos_wait() does not complain of what may be old data. *)
Lenient == r.state = "ZRPOS_WAIT" /\ r.prior = "ZRPOS_WAIT"

Znak(q, n) == Answer(Cleared(Errors(q, n)), RHeader(q, "ZNAK", 0))

RGarbled ==
  /\ RParses /\ ~Lenient
  /\ IF IsHeader(r.buf[1])
       THEN /\ Parsed(r.buf) \in {"CRCERROR", "INVALID"}
            /\ RReturn(Znak(r, IF Parsed(r.buf) = "INVALID" THEN 1 ELSE 2))
       ELSE MayLookLikeHeader(r.buf[1]) /\ RReturn(Znak(r, 1))
  /\ RKeep /\ toR' \in Rest(toR)

(***************************************************************************)
(* ... and does not discard it either: the same header is parsed again     *)
(* until the errors run out, or, when they are not counted, for ever.      *)
(***************************************************************************)
RGarbledAgain ==
  /\ RParses /\ Lenient /\ IsHeader(r.buf[1])
  /\ \/ /\ Parsed(r.buf) = "CRCERROR"
        /\ RReturn(Abort([r EXCEPT !.errs = ZErrorsMax]))
     \/ Parsed(r.buf) = "INVALID" /\ RReturn(Crash(r))
  /\ RKeep /\ UNCHANGED toR

RGets(st, types) ==
  /\ RParses /\ r.state \in st
  /\ IsHeader(r.buf[1]) /\ Parsed(r.buf) = "OK" /\ r.buf[1].t \in types

RUnhandled(st) ==
  LET all == {"ZRQINIT", "ZSINIT", "ZFILE", "ZDATA", "ZEOF", "ZFIN", "ZNAK", "ZACK", "ZCRC"}
  IN  all \ (CASE st = "ZCHALLENGE_WAIT" -> {"ZACK", "ZNAK", "ZRQINIT"}
               [] st = "ZRINIT_WAIT" -> {"ZFIN", "ZRQINIT", "ZSINIT", "ZFILE", "ZNAK"}
               [] st = "ZCRC_WAIT"   -> {"ZCRC", "ZNAK", "ZFILE"}
               [] st = "ZRPOS_WAIT"  -> {"ZEOF", "ZDATA", "ZNAK"})

RUnexpected ==
  /\ RGets(RWaits, RUnhandled(r.state))
  /\ RReturn(Abort(Drop(r))) /\ RKeep /\ UNCHANGED toR

(* What a ZNAK or a timeout leads back to *)
RRetry(q) ==
  [ZCHALLENGE_WAIT |-> "ZCHALLENGE", ZCRC_WAIT |-> "ZCRC", ZRPOS_WAIT |-> "ZRPOS",
   ZRINIT_WAIT |-> IF q.prior = "ZSKIP" THEN "ZSKIP" ELSE "ZRINIT"][q.state]

RNak ==
  /\ RGets(RWaits, {"ZNAK"})
  /\ RLoop([Errors(Drop(r), 1) EXCEPT !.state = RRetry(r)]) /\ RKeep /\ UNCHANGED toR

(* Not in ZDATA, and not with part of a header in packet_buffer. *)
RCanTimeout == r.xfer = "RUN" /\ r.buf = <<>> /\ r.state \in RWaits

RTimedOut == [CheckTimeout(r) EXCEPT !.state = RRetry(r)]

(* receive_zchallenge_wait() *)
RGetsZack ==
  /\ RGets({"ZCHALLENGE_WAIT"}, {"ZACK"})
  /\ IF r.buf[1].a = r.chal THEN RLoop([Drop(r) EXCEPT !.state = "ZRINIT"])
     ELSE RReturn(Abort(Errors(Drop(r), 1)))
  /\ RKeep /\ UNCHANGED toR

(* receive_zchallenge_wait() and receive_zrinit_wait() *)
RGetsZrqinit ==
  /\ RGets({"ZCHALLENGE_WAIT", "ZRINIT_WAIT"}, {"ZRQINIT"})
  /\ RLoop([Drop(r) EXCEPT !.state = IF @ = "ZRINIT_WAIT" THEN "ZRINIT" ELSE "ZCHALLENGE"])
  /\ RKeep /\ UNCHANGED toR

RGetsZfin ==
  /\ RGets({"ZRINIT_WAIT"}, {"ZFIN"})
  /\ RLoop(Answer([Drop(r) EXCEPT !.state = "ZFIN_WAIT"], RHeader(r, "ZFIN", 0)))
  /\ RKeep /\ UNCHANGED toR

(* A header that data follows *)
RGetsDataHeader ==
  /\ RGets({"ZRINIT_WAIT"}, {"ZSINIT", "ZFILE"}) \/ RGets({"ZRPOS_WAIT"}, {"ZDATA"})
  /\ RLoop([Drop(r) EXCEPT !.prior = r.state, !.state = "ZDATA",
                           !.c = (r.buf[1].e = "C")])
  /\ RKeep /\ UNCHANGED toR

-----------------------------------------------------------------------------
(* A new file, beside the one of that name that is there. *)
Renamed(f) == got' = [got EXCEPT ![f] = <<>>]

(* receive_zfile(): the size of a file that is there says what to do. *)
RFile ==
  /\ RStep /\ r.state = "ZFILE"
  /\ LET n == Len(got[r.f])
         new == r.f \notin there \/ n > Size[r.f]
     IN  /\ IF n > Size[r.f] THEN Renamed(r.f) ELSE UNCHANGED got
         /\ RLoop([r EXCEPT !.pos = IF new THEN 0 ELSE n,
                            !.state = IF new THEN "ZRPOS" ELSE "ZCRC"])
  /\ there' = there \cup {r.f} /\ UNCHANGED <<toR, done>>

(* Mutant: the size is not looked at any more once the CRC agrees. *)
RGetsZcrcSkips ==
  /\ RGets({"ZCRC_WAIT"}, {"ZCRC"})
  /\ IF r.buf[1].f = r.f /\ got[r.f] = [i \in 1..r.buf[1].a |-> i]
       THEN RLoop([Drop(r) EXCEPT !.state = "ZSKIP"]) /\ UNCHANGED got
       ELSE RLoop([Drop(r) EXCEPT !.pos = 0, !.state = "ZRPOS"]) /\ Renamed(r.f)
  /\ UNCHANGED <<toR, there, done>>

(* Mutant: a new file is begun, but not at its start. *)
RGetsZcrcKeepsPos ==
  /\ RGets({"ZCRC_WAIT"}, {"ZCRC"})
  /\ LET m == r.buf[1]
         same == m.f = r.f /\ got[r.f] = [i \in 1..m.a |-> i]
     IN  IF same
           THEN /\ RLoop([Drop(r) EXCEPT !.state = IF r.pos = Size[r.f] THEN "ZSKIP" ELSE "ZRPOS"])
                /\ UNCHANGED got
           ELSE RLoop([Drop(r) EXCEPT !.state = "ZRPOS"]) /\ Renamed(r.f)
  /\ UNCHANGED <<toR, there, done>>

(* receive_zcrc_wait(): resume, skip, or begin a new file. *)
RGetsZcrc ==
  /\ RGets({"ZCRC_WAIT"}, {"ZCRC"})
  /\ LET m == r.buf[1]
         same == m.f = r.f /\ got[r.f] = [i \in 1..m.a |-> i]
     IN  IF same
           THEN /\ RLoop([Drop(r) EXCEPT !.state = IF r.pos = Size[r.f] THEN "ZSKIP" ELSE "ZRPOS"])
                /\ UNCHANGED got
           ELSE RLoop([Drop(r) EXCEPT !.pos = 0, !.state = "ZRPOS"]) /\ Renamed(r.f)
  /\ UNCHANGED <<toR, there, done>>

(* receive_zcrc_wait(): the sender is thought not to know ZCRC. *)
RGetsZfileAgain ==
  /\ RGets({"ZCRC_WAIT"}, {"ZFILE"})
  /\ RLoop([Errors(Drop(r), 1) EXCEPT !.state = "ZRPOS"])
  /\ RKeep /\ UNCHANGED toR

(* receive_zrpos_wait(): the end of the file, if it is where ZEOF says. *)
RGetsZeof ==
  /\ RGets({"ZRPOS_WAIT"}, {"ZEOF"})
  /\ IF r.buf[1].a = r.pos
       THEN /\ RLoop(Answer([Drop(r) EXCEPT !.f = 0, !.state = "ZRINIT_WAIT"],
                            Header("ZRINIT", 0, TRUE)))
            /\ done' = done \cup {r.f}
       ELSE RLoop([Errors(Drop(r), 1) EXCEPT !.state = "ZRPOS"]) /\ UNCHANGED done
  /\ UNCHANGED <<toR, got, there>>

-----------------------------------------------------------------------------
RDataStep == RStep /\ r.state = "ZDATA" /\ SubAt(r) # 0

(* receive_zdata(): file data.  Where ZDATA said it begins is not looked at. *)
RWrite ==
  /\ RDataStep /\ CrcOk(r) /\ r.prior = "ZRPOS_WAIT"
  /\ LET m == r.buf[1]
         units == [i \in 1..m.n |-> IF m.f = r.f THEN m.a + i ELSE 0]
         p == [Drop(r) EXCEPT !.pos = @ + m.n, !.errs = 0,
                              !.state = IF m.e = "W" THEN "ZRPOS_WAIT" ELSE "ZDATA"]
     IN  /\ got' = [got EXCEPT ![r.f] = @ \o units]
         /\ RLoop(IF m.e = "G" THEN p ELSE Answer(p, RHeader(r, "ZACK", p.pos)))
  /\ UNCHANGED <<toR, there, done>>

(* receive_zdata(): the data of ZFILE *)
RName ==
  /\ RDataStep /\ CrcOk(r) /\ r.prior = "ZRINIT_WAIT"
  /\ RLoop([Drop(r) EXCEPT !.f = r.buf[1].f, !.state = "ZFILE"])
  /\ RKeep /\ UNCHANGED toR

(* A CRC error; the data of ZSINIT, a 16-bit CRC behind a binary header,   *)
(* always has one.                                                         *)
RDataCrcError ==
  /\ RDataStep /\ ~CrcOk(r)
  /\ RReturn(Answer(Cleared([Errors(r, 1) EXCEPT !.state = r.prior]),
                    IF r.prior = "ZRPOS_WAIT" THEN Header("ZRPOS", r.pos, TRUE)
                                              ELSE RHeader(r, "ZNAK", 0)))
  /\ RKeep /\ toR' \in Rest(toR)

RUserAbort ==
  /\ turn = {} /\ r.xfer = "RUN"
  /\ r' = Stop(r, "ABORT") /\ RKeep /\ UNCHANGED <<toR, toS, faults, turn, opt>>

RHandle ==
  \/ RDone \/ RBegin \/ RChallenge \/ RSendZrinit \/ RSendZcrc \/ RSendZrpos \/ RSendZskip
  \/ RFinish \/ RJunk \/ RGarbled \/ RGarbledAgain \/ RUnexpected \/ RNak
  \/ RGetsZack \/ RGetsZrqinit \/ RGetsZfin \/ RGetsDataHeader \/ RFile
  \/ RGetsZcrc \/ RGetsZfileAgain \/ RGetsZeof \/ RWrite \/ RName
  \/ RDataCrcError
=============================================================================
