---------------------------- MODULE ZmodemProofs ----------------------------
(***************************************************************************)
(* The types of a Zmodem transfer, and that zmodem_receive() always knows  *)
(* where it writes: for every list of files, block size, setup and noise.  *)
(***************************************************************************)
EXTENDS Zmodem, SequenceTheorems, WellFoundedInduction, TLAPS

MsgTypes ==
  SubTypes \cup {"ZRQINIT", "ZRINIT", "ZSINIT", "ZFILE", "ZDATA", "ZEOF", "ZFIN", "ZNAK",
                "ZACK", "ZCRC", "ZRPOS", "ZSKIP", "ZCHALLENGE"}

(* What is done to a message *)
Damages == {"ok", "bad", "type", "noise", "cut", "tail"}

Msg == [t : MsgTypes, f : 0..NFiles, a : Nat, n : Nat, e : {"B", "C", "G", "Q", "W"}, x : Damages]

(* A sender q that has sent ZSINIT comes no further: its data is never     *)
(* accepted, as SGets says.                                                *)
InZsinit(q) == q.state \in {"ZSINIT", "ZSINIT_WAIT", "ABORT"} /\ ~q.esc /\ opt.sesc

(***************************************************************************)
(* What may come from a sender q: a name and data belong to a file, and    *)
(* the data of ZSINIT is never read behind a hex header, which has a       *)
(* 16-bit CRC as that data has.                                            *)
(***************************************************************************)
FromSender(q) ==
  {m \in Msg : /\ m.t \in {"NAME", "DATA"} => m.f # 0
               /\ m.t = "ATTN" => InZsinit(q)
               /\ m.t = "ZFILE" /\ m.e # "C" => q.esc
               /\ m.t = "ZSINIT" => m.e = "C"}

(* The set of block sizes that halving and doubling lead to *)
Blocks ==
  CHOOSE B \in SUBSET (BlockMin..BlockMax) :
    BlockMax \in B /\ \A b \in B : /\ b > BlockMin => b \div 2 \in B
                                   /\ 2 * b <= BlockMax => 2 * b \in B

Xfers == {"RUN", "END", "ABORT", "CRASH"}

(* The state is any, as it is in the code. *)
IsSender(q) ==
  q \in [state : {q.state}, xfer : Xfers, f : 1..(NFiles + 1), pos : Nat, block : Blocks,
         ackreq : BOOLEAN, waiting : BOOLEAN, streaming : BOOLEAN,
         conf : Nat, last : Nat, down : Nat, reliable : BOOLEAN,
         count : Nat \ {0}, errs : Nat, timeouts : Nat, esc : BOOLEAN,
         buf : Seq(Msg), out : Seq(Msg)]

(* The states from the start to the answer to the last ZEOF *)
FileStates ==
  {"INIT", "ZRQINIT", "ZRQINIT_WAIT", "ZSINIT", "ZSINIT_WAIT",
   "ZFILE", "ZFILE_WAIT", "ZDATA", "ZRPOS", "ZEOF", "ZEOF_WAIT"}

(* There is a file to send, and the sender is not beyond its end. *)
InFile(q) ==
  /\ q.state \in FileStates => q.f <= NFiles
  /\ q.state \in {"ZDATA", "ZRPOS"} => q.pos <= Size[q.f]

IsReceiver(q) ==
  q \in [state : {q.state}, prior : {q.prior}, xfer : Xfers, f : 0..NFiles, pos : Nat,
         c : BOOLEAN, errs : Nat, timeouts : Nat, chal : Nat, esc : BOOLEAN,
         buf : Seq(Msg), out : Seq(Msg)]

(* The receiver has a file open, and knows how long it is. *)
Opened(q) ==
  \/ q.state \in {"ZCRC", "ZCRC_WAIT", "ZRPOS", "ZRPOS_WAIT"}
  \/ q.state = "ZDATA" /\ q.prior = "ZRPOS_WAIT"

(***************************************************************************)
(* The receiver q, with files g in a directory that holds h: a subpacket   *)
(* that it waits for is one of ZFILE or of ZDATA.                          *)
(***************************************************************************)
Placed(q, g, h) ==
  /\ Opened(q) \/ q.state = "ZFILE" => q.f # 0
  /\ Opened(q) => q.pos = Len(g[q.f]) /\ q.f \in h
  /\ q.state = "ZDATA" => q.prior \in {"ZRINIT_WAIT", "ZRPOS_WAIT"}

(* A hex header before a name: the sender escapes control characters. *)
HexName(q, p) == q.state = "ZDATA" /\ q.prior = "ZRINIT_WAIT" /\ ~q.c => p.esc

(* The inductive invariant *)
SenderInv ==
  /\ IsSender(s) /\ InFile(s) /\ s.out \in Seq(FromSender(s))
  /\ toR \in Seq(FromSender(s)) /\ toS \in Seq(Msg)
  /\ turn \subseteq {"s", "r"} /\ {opt.sesc, opt.resc} \subseteq BOOLEAN

FilesInv ==
  /\ got \in [1..NFiles -> Seq(Nat)] /\ \A f \in (1..NFiles) \ there : got[f] = <<>>
  /\ there \subseteq 1..NFiles /\ done \subseteq 1..NFiles

ReceiverInv ==
  /\ IsReceiver(r) /\ Placed(r, got, there) /\ r.buf \in Seq(FromSender(s)) /\ HexName(r, s)
  /\ FilesInv

ZInv == SenderInv /\ ReceiverInv

-----------------------------------------------------------------------------
(* The messages *)

LEMMA BlockSizes ==
  /\ Blocks \subseteq BlockMin..BlockMax /\ BlockMax \in Blocks
  /\ \A b \in Blocks : /\ b \in Nat \ {0}
                       /\ b > BlockMin => b \div 2 \in Blocks
                       /\ 2 * b <= BlockMax => 2 * b \in Blocks
  <1>1. /\ Blocks \in SUBSET (BlockMin..BlockMax)
        /\ BlockMax \in Blocks
        /\ \A b \in Blocks : /\ b > BlockMin => b \div 2 \in Blocks
                             /\ 2 * b <= BlockMax => 2 * b \in Blocks
    BY ZSenderAssumption DEF Blocks
  <1>2. \A b \in Blocks : b \in Nat \ {0}
    BY <1>1, ZSenderAssumption
  <1>. QED
    BY <1>1, <1>2

LEMMA SpoiltMsg ==
  ASSUME NEW q, NEW x \in Damages
  PROVE  /\ \A m \in Msg : Spoilt(m, x) \in Msg
         /\ \A m \in FromSender(q) : Spoilt(m, x) \in FromSender(q)
  BY DEF Msg, FromSender, Spoilt

(* A set of messages in which damage stays *)
Closed(S) == \A m \in S : \A x \in Damages : Spoilt(m, x) \in S

LEMMA MsgClosed == Closed(Msg)
  BY SpoiltMsg DEF Closed

LEMMA FromSenderClosed == \A q : Closed(FromSender(q)) /\ FromSender(q) \subseteq Msg
  BY SpoiltMsg DEF Closed, FromSender

LEMMA RestType ==
  ASSUME NEW S, Closed(S), NEW line \in Seq(S), NEW l \in Rest(line)
  PROVE  l \in Seq(S)
  <1>1. CASE line = <<>>
    BY <1>1 DEF Rest
  <1>2. CASE line # <<>>
    <2>1. line[1] \in S /\ 1 \in 1..Len(line)
      BY <1>2
    <2>2. l = line \/ \E x \in {"bad", "tail"} : l = [line EXCEPT ![1] = Spoilt(@, x)]
      BY <1>2 DEF Rest
    <2>3. \A x \in {"bad", "tail"} : Spoilt(line[1], x) \in S
      BY <2>1 DEF Closed, Damages
    <2>4. ASSUME NEW m \in S PROVE [line EXCEPT ![1] = m] \in Seq(S)
      BY <2>1, <2>4, ExceptSeq
    <2>. QED
      BY <2>2, <2>3, <2>4
  <1>. QED
    BY <1>1, <1>2

LEMMA BuiltType ==
  ASSUME NEW S, Closed(S), NEW out \in Seq(S), NEW m \in S
  PROVE  Built(out, m) \in Seq(S)
  <1>1. Spoilt(m, "tail") \in S /\ Spoilt(m, "noise") \in S
    BY DEF Closed, Damages
  <1>2. CASE out = <<>> \/ m.e = "B"
    BY <1>1, <1>2 DEF Built
  <1>3. CASE out # <<>> /\ m.e # "B"
    <2>1. out[1] \in S /\ 1 \in 1..Len(out)
      BY <1>3
    <2>2. Spoilt(out[1], "type") \in S
      BY <2>1 DEF Closed, Damages
    <2>. DEFINE o == IF out[1].e = "B" THEN [out EXCEPT ![1] = Spoilt(@, "type")] ELSE out
    <2>3. [out EXCEPT ![1] = Spoilt(@, "type")] \in Seq(S)
      BY <2>1, <2>2, ExceptSeq
    <2>4. o \in Seq(S)
      BY <2>3
    <2>5. Built(out, m) = Append(o, Spoilt(m, "noise"))
      BY <1>3 DEF Built
    <2>. HIDE DEF o
    <2>. QED
      BY <1>1, <2>4, <2>5
  <1>. QED
    BY <1>2, <1>3

LEMMA HeaderMsg ==
  ASSUME NEW t \in MsgTypes, NEW a \in Nat, NEW hex
  PROVE  /\ Header(t, a, hex) \in Msg /\ Header(t, a, hex).t = t
         /\ Header(t, a, hex).f = 0 /\ Header(t, a, hex).a = a
         /\ Header(t, a, hex).e = IF hex THEN "B" ELSE "C"
  BY ZLineAssumption DEF Header, Msg, Damages

LEMMA FixedHeaderMsg ==
  ASSUME NEW t \in MsgTypes, NEW a \in Nat
  PROVE  /\ Header(t, a, TRUE) \in Msg /\ Header(t, a, TRUE).t = t /\ Header(t, a, TRUE).e = "B"
         /\ Header(t, a, FALSE) \in Msg /\ Header(t, a, FALSE).t = t
         /\ Header(t, a, FALSE).e = "C"
  BY ZLineAssumption DEF Header, Msg, Damages

(* q is a later state of sender p: what p could send q can. *)
Later(p, q) == (p.esc => q.esc) /\ (InZsinit(p) => InZsinit(q))

LEMMA LaterMessages ==
  ASSUME NEW p, NEW q, Later(p, q)
  PROVE  FromSender(p) \subseteq FromSender(q) /\ Seq(FromSender(p)) \subseteq Seq(FromSender(q))
  <1>1. FromSender(p) \subseteq FromSender(q)
    BY DEF FromSender, Later
  <1>. QED
    BY <1>1, SeqMonotonic

-----------------------------------------------------------------------------
(* The functions that handlers of the sender call *)

(* A sender whose output may come from the sender z *)
Fine(q, z) == IsSender(q) /\ q.out \in Seq(FromSender(z))

(* p is where q is. *)
Same(p, q) == p.f = q.f /\ p.pos = q.pos /\ p.esc = q.esc

LEMMA ErrorsFine ==
  ASSUME NEW z, NEW q, Fine(q, z), NEW n \in Nat
  PROVE  /\ Fine(Errors(q, n), z) /\ Same(Errors(q, n), q)
         /\ Errors(q, n).state \in {q.state, "ABORT"}
         /\ Fine(SErrors(q, n), z) /\ Same(SErrors(q, n), q)
         /\ SErrors(q, n).state \in {q.state, "ABORT"}
         /\ Errors(q, n).buf = q.buf /\ SErrors(q, n).buf = q.buf
  <1>. DEFINE p == [q EXCEPT !.errs = @ + n]
  <1>1. Fine(p, z) /\ Same(p, q) /\ p.state = q.state /\ p.buf = q.buf
    <2>. DEFINE v == q.errs + n
    <2>1. v \in Nat
      BY DEF Fine, IsSender
    <2>. HIDE DEF v
    <2>2. p = [q EXCEPT !.errs = v]
      BY DEF v
    <2>. QED
      BY <2>1, <2>2 DEF Fine, IsSender, Same
  <1>. HIDE DEF p
  <1>2. Fine(Abort(p), z) /\ Same(Abort(p), q) /\ Abort(p).state = "ABORT" /\ Abort(p).buf = q.buf
    BY <1>1 DEF Fine, IsSender, Same, Abort, Stop, Xfers
  <1>3. Errors(q, n) \in {p, Abort(p)}
    BY DEF Errors, p
  <1>4. /\ Fine(Errors(q, n), z) /\ Same(Errors(q, n), q)
        /\ Errors(q, n).state \in {q.state, "ABORT"} /\ Errors(q, n).buf = q.buf
    BY <1>1, <1>2, <1>3
  <1>. DEFINE g == Errors(q, n)
  <1>. HIDE DEF g
  <1>5. [g EXCEPT !.reliable = FALSE] = SErrors(q, n)
    BY DEF SErrors, g
  <1>6. Fine(g, z) /\ Same(g, q) /\ g.state \in {q.state, "ABORT"} /\ g.buf = q.buf
    BY <1>4 DEF g
  <1>7. LET w == [g EXCEPT !.reliable = FALSE]
        IN  Fine(w, z) /\ Same(w, q) /\ w.state = g.state /\ w.buf = q.buf
    BY <1>6 DEF Fine, IsSender, Same
  <1>. QED
    BY <1>4, <1>5, <1>6, <1>7

LEMMA PutFine ==
  ASSUME NEW z, NEW q, Fine(q, z), NEW m \in FromSender(z)
  PROVE  /\ Fine(Put(q, m), z) /\ Same(Put(q, m), q) /\ Put(q, m).state = q.state
         /\ Fine(PutData(q, m), z) /\ Same(PutData(q, m), q) /\ PutData(q, m).state = q.state
  <1>1. FromSender(z) \subseteq Msg /\ Seq(FromSender(z)) \subseteq Seq(Msg)
    BY FromSenderClosed, SeqMonotonic
  <1>2. Built(q.out, m) \in Seq(FromSender(z)) /\ Append(q.out, m) \in Seq(FromSender(z))
    BY BuiltType, FromSenderClosed DEF Fine
  <1>3. ASSUME NEW o \in Seq(FromSender(z))
        PROVE  LET p == [q EXCEPT !.out = o] IN Fine(p, z) /\ Same(p, q) /\ p.state = q.state
    BY <1>1, <1>3 DEF Fine, IsSender, Same
  <1>4. Put(q, m) = [q EXCEPT !.out = Built(q.out, m)]
        /\ PutData(q, m) = [q EXCEPT !.out = Append(q.out, m)]
    BY DEF Put, PutData
  <1>. DEFINE a == Built(q.out, m)
              b == Append(q.out, m)
  <1>. HIDE DEF a, b
  <1>5. a \in Seq(FromSender(z)) /\ b \in Seq(FromSender(z))
        /\ Put(q, m) = [q EXCEPT !.out = a] /\ PutData(q, m) = [q EXCEPT !.out = b]
    BY <1>2, <1>4 DEF a, b
  <1>. QED
    BY <1>3, <1>5

(* Behind the first message *)
LEMMA DropFine ==
  ASSUME NEW z, NEW q, Fine(q, z), q.buf # <<>>
  PROVE  Fine(Drop(q), z) /\ Same(Drop(q), q) /\ Drop(q).state = q.state /\ q.buf[1] \in Msg
  <1>. DEFINE v == Tail(q.buf)
  <1>1. v \in Seq(Msg) /\ q.buf[1] \in Msg
    BY DEF Fine, IsSender
  <1>2. Drop(q) = [q EXCEPT !.buf = v]
    BY DEF Drop
  <1>. HIDE DEF v
  <1>. QED
    BY <1>1, <1>2 DEF Fine, IsSender, Same

LEMMA ClearedFine ==
  ASSUME NEW z, NEW q, Fine(q, z)
  PROVE  Fine(Cleared(q), z) /\ Same(Cleared(q), q) /\ Cleared(q).state = q.state
  <1>1. <<>> \in Seq(Msg)
    OBVIOUS
  <1>. QED
    BY <1>1 DEF Fine, IsSender, Same, Cleared

LEMMA AbortFine ==
  ASSUME NEW z, NEW q, Fine(q, z)
  PROVE  Fine(Abort(q), z) /\ Same(Abort(q), q) /\ Abort(q).state = "ABORT"
  BY DEF Fine, IsSender, Same, Abort, Stop, Xfers

LEMMA BlockFine ==
  ASSUME NEW z, NEW q, Fine(q, z)
  PROVE  /\ Fine(BlockDown(q), z) /\ Same(BlockDown(q), q)
         /\ BlockDown(q).state \in {q.state, "ABORT"}
         /\ Fine(BlockUp(q), z) /\ Same(BlockUp(q), q) /\ BlockUp(q).state = q.state
  <1>. DEFINE half == [q EXCEPT !.block = @ \div 2, !.down = q.conf]
  <1>0. q.block \in Blocks
    BY DEF Fine, IsSender
  <1>1. q.block > BlockMin => Fine(half, z) /\ Same(half, q) /\ half.state = q.state
    <2>. DEFINE v == q.block \div 2
    <2>1. q.block > BlockMin => v \in Blocks
      BY <1>0, BlockSizes
    <2>. HIDE DEF v
    <2>2. half = [q EXCEPT !.block = v, !.down = q.conf]
      BY DEF v
    <2>. QED
      BY <2>1, <2>2 DEF Fine, IsSender, Same
  <1>. HIDE DEF half
  <1>2. PICK p : /\ p \in {q, half} /\ Fine(p, z) /\ Same(p, q) /\ p.state = q.state
                 /\ \E g \in {p, Abort(p)} :
                      BlockDown(q) = [g EXCEPT !.count = WindowUnreliable, !.last = q.conf]
    <2>1. CASE (q.conf - q.last) \div q.block >= DownAfter /\ q.block > BlockMin
      BY <1>1, <2>1 DEF BlockDown, half
    <2>2. CASE ~((q.conf - q.last) \div q.block >= DownAfter /\ q.block > BlockMin)
      BY <2>2 DEF BlockDown, Same
    <2>. QED
      BY <2>1, <2>2
  <1>3. PICK g \in {p, Abort(p)} :
           BlockDown(q) = [g EXCEPT !.count = WindowUnreliable, !.last = q.conf]
    BY <1>2
  <1>4. Fine(g, z) /\ Same(g, q) /\ g.state \in {q.state, "ABORT"}
    BY <1>2, <1>3, AbortFine DEF Same
  <1>5. LET w == [g EXCEPT !.count = WindowUnreliable, !.last = q.conf]
        IN  Fine(w, z) /\ Same(w, q) /\ w.state = g.state
    BY <1>4, ZSenderAssumption DEF Fine, IsSender, Same
  <1>6. ASSUME NEW b \in Blocks
        PROVE  LET w == [q EXCEPT !.last = q.conf, !.block = b]
               IN  Fine(w, z) /\ Same(w, q) /\ w.state = q.state
    BY <1>6 DEF Fine, IsSender, Same
  <1>7. \E b \in Blocks : BlockUp(q) = [q EXCEPT !.last = q.conf, !.block = b]
    <2>. DEFINE b == IF q.conf - q.down <= UpAfter THEN q.block
                     ELSE IF 2 * q.block > BlockMax THEN BlockMax ELSE 2 * q.block
    <2>1. b \in Blocks
      <3>1. q.block \in Nat /\ BlockMax \in Nat /\ BlockMax \in Blocks
            /\ (2 * q.block <= BlockMax => 2 * q.block \in Blocks)
        BY <1>0, BlockSizes, ZSenderAssumption
      <3>. QED
        BY <1>0, <3>1
    <2>2. BlockUp(q) = [q EXCEPT !.last = q.conf, !.block = b]
      BY DEF BlockUp
    <2>. QED
      BY <2>1, <2>2
  <1>. QED
    BY <1>3, <1>4, <1>5, <1>6, <1>7

(* send_zdata() sends the next block, which lies in the file. *)
LEMMA NextBlockFine ==
  ASSUME NEW z, NEW q, Fine(q, z), q.f \in 1..NFiles, q.pos <= Size[q.f]
  PROVE  /\ Fine(NextBlock(q), z) /\ NextBlock(q).state = q.state
         /\ NextBlock(q).f = q.f /\ NextBlock(q).esc = q.esc
         /\ NextBlock(q).pos <= Size[q.f]
  <1>. DEFINE n    == IF Size[q.f] - q.pos < q.block THEN Size[q.f] - q.pos ELSE q.block
              last == n < q.block
              full == ~last /\ q.count = 1
              e    == IF last THEN "W" ELSE IF full THEN "Q" ELSE "G"
              pos  == q.pos + n
              strm == q.streaming \/ full
              wait == last \/ full
              cnt  == IF last THEN q.count ELSE IF full THEN Window(q) ELSE q.count - 1
              p    == [q EXCEPT !.pos = pos, !.errs = 0, !.waiting = wait,
                                !.streaming = strm, !.count = cnt]
              m    == Subpacket("DATA", q.f, q.pos, n, e)
  <1>1. NextBlock(q) = PutData(p, m)
    BY DEF NextBlock
  <1>2. Size[q.f] \in Nat /\ q.pos \in Nat /\ q.block \in Nat \ {0} /\ q.count \in Nat \ {0}
    BY ZLineAssumption, BlockSizes DEF Fine, IsSender
  <1>3. n \in Nat /\ pos \in Nat /\ pos <= Size[q.f]
    BY <1>2
  <1>4. Window(q) \in Nat \ {0}
    BY ZSenderAssumption DEF Window
  <1>5. cnt \in Nat \ {0} /\ wait \in BOOLEAN /\ strm \in BOOLEAN
    BY <1>2, <1>4
  <1>6. m \in FromSender(z)
    <2>1. e \in {"B", "C", "G", "Q", "W"}
      OBVIOUS
    <2>. HIDE DEF n, e
    <2>. QED
      BY <1>2, <1>3, <2>1 DEF Subpacket, FromSender, Msg, MsgTypes, SubTypes, Damages
  <1>. HIDE DEF n, last, full, e, pos, strm, wait, cnt, m
  <1>7. Fine(p, z) /\ p.state = q.state /\ p.f = q.f /\ p.esc = q.esc /\ p.pos = pos
    BY <1>3, <1>5 DEF Fine, IsSender
  <1>. HIDE DEF p
  <1>. QED
    BY <1>1, <1>3, <1>6, <1>7, PutFine DEF Same

LEMMA StreamFine ==
  ASSUME NEW z, NEW q, Fine(q, z), q.f \in 1..NFiles, q.pos <= Size[q.f]
  PROVE  /\ Fine(Stream(q), z) /\ Stream(q).state = q.state
         /\ Stream(q).f = q.f /\ Stream(q).esc = q.esc
         /\ Stream(q).pos <= Size[q.f]
  <1>. DEFINE p == [q EXCEPT !.waiting = TRUE]
              m == Subpacket("DATA", q.f, q.pos, 0, "W")
  <1>1. Fine(p, z) /\ Same(p, q) /\ p.state = q.state
    BY DEF Fine, IsSender, Same
  <1>2. m \in FromSender(z)
    BY DEF Fine, IsSender, Subpacket, FromSender, Msg, MsgTypes, SubTypes, Damages
  <1>3. Stream(q) \in {q, PutData(p, m), NextBlock(q)}
    BY DEF Stream
  <1>. HIDE DEF p, m
  <1>4. Fine(PutData(p, m), z) /\ Same(PutData(p, m), p) /\ PutData(p, m).state = p.state
    BY <1>1, <1>2, PutFine
  <1>. QED
    BY <1>1, <1>3, <1>4, NextBlockFine DEF Same

(* The state that a ZNAK or a timeout leads back to *)
LEMMA RetryOf ==
  /\ Retry("ZRQINIT_WAIT") = "ZRQINIT" /\ Retry("ZSINIT_WAIT") = "ZSINIT"
  /\ Retry("ZFILE_WAIT") = "ZFILE" /\ Retry("ZEOF_WAIT") = "ZEOF" /\ Retry("ZFIN_WAIT") = "ZFIN"
  <1>1. /\ WaitFor("ZRQINIT") = "ZRQINIT_WAIT" /\ WaitFor("ZSINIT") = "ZSINIT_WAIT"
        /\ WaitFor("ZFILE") = "ZFILE_WAIT" /\ WaitFor("ZEOF") = "ZEOF_WAIT"
        /\ WaitFor("ZFIN") = "ZFIN_WAIT"
    BY DEF WaitFor
  <1>. QED
    BY <1>1 DEF Retry, SRequests

LEMMA RetryState ==
  ASSUME NEW q, InFile(q), q.state \in SWaits, NEW p, Same(p, q), p.state = Retry(q.state)
  PROVE  InFile(p) /\ Later(q, p)
  BY RetryOf DEF InFile, FileStates, SWaits, Same, Later, InZsinit

(***************************************************************************)
(* A handler of the sender ends with the state q: all that remains to show *)
(* of it.                                                                  *)
(***************************************************************************)
LEMMA SenderMove ==
  ASSUME ZInv, NEW q, Fine(q, q), InFile(q), Later(s, q), SReturn(q) \/ SLoop(q),
         toS' \in Seq(Msg), UNCHANGED rVars
  PROVE  ZInv'
  <1>1. /\ toR \in Seq(FromSender(q)) /\ r.buf \in Seq(FromSender(q))
        /\ toR \o q.out \in Seq(FromSender(q)) /\ <<>> \in Seq(FromSender(q))
        /\ <<>> \in Seq(Msg)
    BY LaterMessages DEF ZInv, SenderInv, ReceiverInv, Fine
  <1>. DEFINE p == [q EXCEPT !.out = <<>>]
  <1>2. IsSender(p) /\ InFile(p) /\ FromSender(p) = FromSender(q) /\ p.esc = q.esc /\ p.out = <<>>
    BY <1>1 DEF Fine, IsSender, InFile, FromSender, InZsinit
  <1>. HIDE DEF p
  <1>3. /\ s' \in {q, p} /\ toR' \in {toR, toR \o q.out}
        /\ turn' \subseteq turn /\ opt' = opt
    BY DEF SReturn, SLoop, p
  <1>4. FromSender(s)' = FromSender(q) /\ s'.esc = q.esc
    BY <1>2, <1>3 DEF FromSender, InZsinit
  <1>5. SenderInv'
    BY <1>1, <1>2, <1>3, <1>4 DEF ZInv, SenderInv, Fine
  <1>6. ReceiverInv'
    <2>1. FilesInv'
      BY DEF ZInv, ReceiverInv, FilesInv, rVars
    <2>2. HexName(r, s)' /\ r'.buf \in Seq(FromSender(s)')
      BY <1>1, <1>4 DEF ZInv, ReceiverInv, rVars, HexName, Later
    <2>3. IsReceiver(r)' /\ Placed(r, got, there)'
      BY DEF ZInv, ReceiverInv, rVars, IsReceiver, Placed, Opened
    <2>. QED
      BY <2>1, <2>2, <2>3 DEF ReceiverInv
  <1>. QED
    BY <1>5, <1>6 DEF ZInv

-----------------------------------------------------------------------------
(* The steps of the sender *)

LEMMA SenderStart ==
  ASSUME ZInv
  PROVE  /\ IsSender(s) /\ InFile(s) /\ toS \in Seq(Msg) /\ Later(s, s)
         /\ s.esc \in BOOLEAN /\ opt.sesc \in BOOLEAN
         /\ \A z : Later(s, z) => Fine(s, z)
         /\ \A l \in Rest(toS) : l \in Seq(Msg)
  <1>1. ASSUME NEW z, Later(s, z) PROVE Fine(s, z)
    BY <1>1, LaterMessages DEF ZInv, SenderInv, Fine
  <1>2. \A l \in Rest(toS) : l \in Seq(Msg)
    BY RestType, MsgClosed DEF ZInv, SenderInv
  <1>. QED
    BY <1>1, <1>2 DEF ZInv, SenderInv, Later, IsSender

(* The header q starts with, and the data that follows it *)
LEMMA RequestFine ==
  ASSUME NEW q, IsSender(q), InFile(q), q.state \in SRequests,
         q.state = "ZSINIT" => ~q.esc /\ opt.sesc,
         NEW z, z.esc = q.esc, z.state = WaitFor(q.state)
  PROVE  Request(q)[1] \in FromSender(z) /\ Tail(Request(q)) \in Seq(FromSender(z))
  <1>. DEFINE S == FromSender(z)
  <1>1. ASSUME NEW m \in S, Request(q) = <<m>>
        PROVE  Request(q)[1] \in S /\ Tail(Request(q)) \in Seq(S)
    BY <1>1
  <1>2. ASSUME NEW m \in S, NEW d \in S, Request(q) = <<m, d>>
        PROVE  Request(q)[1] \in S /\ Tail(Request(q)) \in Seq(S)
    <2>1. Tail(<<m, d>>) = <<d>>
      OBVIOUS
    <2>. HIDE DEF S
    <2>. QED
      BY <1>2, <2>1
  <1>3. \A t \in {"ZRQINIT", "ZEOF", "ZFIN"} : \A a \in Nat : \A hex : Header(t, a, hex) \in S
    BY HeaderMsg DEF FromSender, MsgTypes, SubTypes
  <1>4. NFiles \in 1..NFiles /\ NFiles \in Nat /\ q.f \in 1..(NFiles + 1)
        /\ \A f \in 1..NFiles : Size[f] \in Nat
    BY ZLineAssumption DEF IsSender
  <1>5. CASE q.state = "ZRQINIT"
    <2>1. Header("ZRQINIT", 0, TRUE) \in S
      <3>1. "ZRQINIT" \in MsgTypes /\ "ZRQINIT" \notin SubTypes
        BY DEF MsgTypes, SubTypes
      <3>2. /\ Header("ZRQINIT", 0, TRUE) \in Msg /\ Header("ZRQINIT", 0, TRUE).t = "ZRQINIT"
            /\ Header("ZRQINIT", 0, TRUE).e = "B"
        BY <3>1, FixedHeaderMsg
      <3>. QED
        BY <3>1, <3>2 DEF FromSender
    <2>2. Request(q) = <<Header("ZRQINIT", 0, TRUE)>>
      BY <1>5 DEF Request, Header
    <2>. QED
      BY <1>1, <2>1, <2>2
  <1>6. CASE q.state = "ZFIN"
    BY <1>1, <1>3, <1>6 DEF Request, SHeader
  <1>7. CASE q.state = "ZEOF"
    <2>1. Size[IF q.f > NFiles THEN NFiles ELSE q.f] \in Nat
      BY <1>4
    <2>. QED
      BY <1>1, <1>3, <1>7, <2>1 DEF Request, SHeader
  <1>8. CASE q.state = "ZSINIT"
    <2>1. z.state = "ZSINIT_WAIT"
      BY <1>8 DEF WaitFor
    <2>2. Header("ZSINIT", 0, FALSE) \in S
      <3>1. "ZSINIT" \in MsgTypes /\ "ZSINIT" \notin SubTypes
        BY DEF MsgTypes, SubTypes
      <3>2. /\ Header("ZSINIT", 0, FALSE) \in Msg /\ Header("ZSINIT", 0, FALSE).t = "ZSINIT"
            /\ Header("ZSINIT", 0, FALSE).e = "C"
        BY <3>1, FixedHeaderMsg
      <3>. QED
        BY <3>1, <3>2 DEF FromSender
    <2>3. Subpacket("ATTN", 0, 0, 1, "W") \in S
      BY <1>4, <1>8, <2>1 DEF Subpacket, FromSender, Msg, MsgTypes, SubTypes, Damages, InZsinit
    <2>4. Request(q) = <<Header("ZSINIT", 0, FALSE), Subpacket("ATTN", 0, 0, 1, "W")>>
      BY <1>8 DEF Request, Header
    <2>. QED
      BY <1>2, <2>2, <2>3, <2>4
  <1>9. CASE q.state = "ZFILE"
    <2>1. q.f \in 1..NFiles
      BY <1>4, <1>9 DEF InFile, FileStates
    <2>2. SHeader(q, "ZFILE", 0) \in S
      BY HeaderMsg DEF SHeader, FromSender, MsgTypes, SubTypes
    <2>3. Subpacket("NAME", q.f, 0, 1, "W") \in S
      BY <2>1 DEF Subpacket, FromSender, Msg, MsgTypes, SubTypes, Damages
    <2>4. Request(q) = <<SHeader(q, "ZFILE", 0), Subpacket("NAME", q.f, 0, 1, "W")>>
      BY <1>9 DEF Request
    <2>. QED
      BY <1>2, <2>2, <2>3, <2>4
  <1>. QED
    BY <1>5, <1>6, <1>7, <1>8, <1>9 DEF SRequests

LEMMA SSendInv ==
  ASSUME ZInv, SSend, UNCHANGED rVars
  PROVE  ZInv'
  <1>. DEFINE c == Cleared(s)
              w == WaitFor(s.state)
              o == Built(s.out, Request(s)[1]) \o Tail(Request(s))
              q == [c EXCEPT !.out = o, !.state = w]
  <1>1. s.state \in SRequests /\ (s.state = "ZSINIT" => ~s.esc /\ opt.sesc)
    BY DEF SSend, NeedsZsinit
  <1>2. IsSender(s) /\ InFile(s)
    BY SenderStart
  <1>3. IsSender(c) /\ c.state = s.state /\ c.esc = s.esc /\ c.f = s.f /\ c.pos = s.pos
        /\ c.out = s.out
    BY ClearedFine, SenderStart DEF Fine, Same, Cleared, IsSender
  <1>4. SReturn(q) /\ toS' \in Rest(toS)
    BY <1>3 DEF SSend
  <1>. HIDE DEF c
  <1>5. q.esc = s.esc /\ q.state = w /\ q.f = s.f /\ q.pos = s.pos /\ q.out = o
    BY <1>3 DEF IsSender
  <1>6. InFile(q) /\ Later(s, q)
    BY <1>1, <1>2, <1>5 DEF SRequests, WaitFor, InFile, FileStates, Later, InZsinit
  <1>. HIDE DEF q, w
  <1>7. Request(s)[1] \in FromSender(q) /\ Tail(Request(s)) \in Seq(FromSender(q))
    BY <1>1, <1>2, <1>5, RequestFine DEF w
  <1>8. o \in Seq(FromSender(q)) /\ o \in Seq(Msg)
    <2>1. s.out \in Seq(FromSender(q))
      BY <1>6, SenderStart DEF Fine
    <2>2. Built(s.out, Request(s)[1]) \in Seq(FromSender(q))
      BY <1>7, <2>1, BuiltType, FromSenderClosed
    <2>. QED
      BY <1>7, <2>2, SeqMonotonic, FromSenderClosed
  <1>. HIDE DEF o
  <1>9. Fine(q, q)
    BY <1>3, <1>5, <1>8 DEF Fine, IsSender, q
  <1>. QED
    BY <1>4, <1>6, <1>9, SenderMove, SenderStart

(* Headers that any sender may send *)
LEMMA PlainHeader ==
  ASSUME NEW z, NEW q, NEW t \in {"ZNAK", "ZACK", "ZDATA"}, NEW a \in Nat
  PROVE  SHeader(q, t, a) \in FromSender(z)
  BY HeaderMsg DEF SHeader, FromSender, MsgTypes, SubTypes

(* What a handler that has read a header begins with *)
LEMMA SGetsStart ==
  ASSUME ZInv, NEW st, NEW types, SGets(st, types)
  PROVE  /\ s.state \in st /\ s.buf[1] \in Msg /\ s.buf[1].a \in Nat
         /\ \A z : Later(s, z) => Fine(Drop(s), z)
         /\ Same(Drop(s), s) /\ Drop(s).state = s.state
  <1>1. s.state \in st /\ s.buf # <<>>
    BY DEF SGets, SParses
  <1>2. \A z : Later(s, z) => Fine(s, z)
    BY SenderStart
  <1>3. Fine(s, s)
    BY SenderStart
  <1>4. s.buf[1] \in Msg /\ Same(Drop(s), s) /\ Drop(s).state = s.state
    BY <1>1, <1>3, DropFine
  <1>5. \A z : Later(s, z) => Fine(Drop(s), z)
    BY <1>1, <1>2, DropFine
  <1>. QED
    BY <1>1, <1>4, <1>5 DEF Msg

(* A handler that stays in its state or aborts *)
LEMMA SameLater ==
  ASSUME NEW p, NEW q, Same(q, p), q.state \in {p.state, "ABORT"}, InFile(p)
  PROVE  InFile(q) /\ Later(p, q)
  BY DEF InFile, FileStates, Later, InZsinit, Same

LEMMA SDoneInv ==
  ASSUME ZInv, SDone \/ SSendNoName \/ SNeverState \/ SJunk, UNCHANGED rVars
  PROVE  ZInv'
  <1>1. toS' \in Seq(Msg)
    BY SenderStart DEF SDone, SSendNoName, SNeverState, SJunk
  <1>2. Fine(s, s) /\ InFile(s) /\ Later(s, s)
    BY SenderStart
  <1>3. CASE SDone
    BY <1>1, <1>2, <1>3, SenderMove DEF SDone
  <1>4. CASE SSendNoName \/ SNeverState
    <2>1. Fine(Crash(s), Crash(s)) /\ InFile(Crash(s)) /\ Later(s, Crash(s))
      <3>. DEFINE q == Crash(s)
      <3>1. q = [s EXCEPT !.xfer = "CRASH"] /\ "CRASH" \in Xfers
        BY DEF Crash, Xfers
      <3>. HIDE DEF q
      <3>2. IsSender(q) /\ q.state = s.state /\ q.f = s.f /\ q.pos = s.pos /\ q.esc = s.esc
            /\ q.out = s.out
        BY <1>2, <3>1 DEF Fine, IsSender
      <3>3. Later(s, q) /\ InFile(q)
        BY <1>2, <3>2 DEF Later, InZsinit, InFile
      <3>4. s.out \in Seq(FromSender(q))
        BY <1>2, <3>3, LaterMessages DEF Fine
      <3>. QED
        BY <3>2, <3>3, <3>4 DEF Fine, q
    <2>. QED
      BY <1>1, <1>4, <2>1, SenderMove DEF SSendNoName, SNeverState
  <1>5. CASE SJunk
    <2>1. s.buf # <<>>
      BY <1>5 DEF SJunk, SParses
    <2>2. Same(Drop(s), s) /\ Drop(s).state = s.state
      BY <1>2, <2>1, DropFine
    <2>3. InFile(Drop(s)) /\ Later(s, Drop(s))
      BY <1>2, <2>2, SameLater
    <2>4. Fine(Drop(s), Drop(s))
      BY <2>1, <2>3, SenderStart, DropFine
    <2>. QED
      BY <1>1, <1>5, <2>3, <2>4, SenderMove DEF SJunk
  <1>. QED
    BY <1>3, <1>4, <1>5


(* A sender that escapes, or need not say so, goes on to the first file. *)
LEMMA SSkipZsinitInv ==
  ASSUME ZInv, SSkipZsinit \/ SBegin, UNCHANGED rVars
  PROVE  ZInv'
  <1>1. toS' \in Seq(Msg)
    BY SenderStart DEF SSkipZsinit, SBegin
  <1>2. InFile(s) /\ \A z : Later(s, z) => Fine(s, z)
    BY SenderStart
  <1>3. CASE SSkipZsinit
    <2>. DEFINE c == Cleared(s)
                q == [c EXCEPT !.state = "ZFILE"]
    <2>1. s.state = "ZSINIT" /\ (s.esc \/ ~opt.sesc) /\ SLoop(q)
      BY <1>3 DEF SSkipZsinit, NeedsZsinit
    <2>2. c.f = s.f /\ c.esc = s.esc /\ \A z : Later(s, z) => Fine(c, z)
      BY <1>2, ClearedFine, SenderStart DEF Same
    <2>. HIDE DEF c
    <2>3. IsSender(c)
      BY <2>2, SenderStart DEF Fine
    <2>4. q.f = s.f /\ q.esc = s.esc /\ q.state = "ZFILE" /\ q.out = c.out /\ IsSender(q)
      BY <2>2, <2>3 DEF IsSender
    <2>. HIDE DEF q
    <2>5. InFile(q) /\ Later(s, q)
      BY <1>2, <2>1, <2>4 DEF InFile, FileStates, Later, InZsinit
    <2>6. Fine(q, q)
      BY <2>2, <2>4, <2>5 DEF Fine
    <2>. QED
      BY <1>1, <2>1, <2>5, <2>6, SenderMove
  <1>4. CASE SBegin
    <2>. DEFINE q == [s EXCEPT !.state = "ZRQINIT"]
    <2>1. s.state = "INIT" /\ SLoop(q)
      BY <1>4 DEF SBegin
    <2>2. q.f = s.f /\ q.esc = s.esc /\ q.state = "ZRQINIT" /\ q.out = s.out /\ IsSender(q)
      BY SenderStart DEF IsSender
    <2>. HIDE DEF q
    <2>3. InFile(q) /\ Later(s, q)
      BY <1>2, <2>1, <2>2 DEF InFile, FileStates, Later, InZsinit
    <2>4. Fine(q, q)
      BY <1>2, <2>2, <2>3 DEF Fine
    <2>. QED
      BY <1>1, <2>1, <2>3, <2>4, SenderMove
  <1>. QED
    BY <1>3, <1>4

LEMMA SGarbledInv ==
  ASSUME ZInv, SGarbled, UNCHANGED rVars
  PROVE  ZInv'
  <1>1. PICK n \in {1, 2} : SReturn(Put(Cleared(SErrors(s, n)), SHeader(s, "ZNAK", 0)))
    BY DEF SGarbled
  <1>. DEFINE e == SErrors(s, n)
              c == Cleared(e)
              q == Put(c, SHeader(s, "ZNAK", 0))
  <1>2. Fine(s, s) /\ InFile(s) /\ toS' \in Seq(Msg) /\ n \in Nat
    BY SenderStart DEF SGarbled
  <1>3. \A z : SHeader(s, "ZNAK", 0) \in FromSender(z)
    BY PlainHeader
  <1>4. \A z : Fine(s, z) => Fine(e, z) /\ Same(e, s) /\ e.state \in {s.state, "ABORT"}
    BY <1>2, ErrorsFine
  <1>. HIDE DEF e
  <1>5. \A z : Fine(e, z) => Fine(c, z) /\ Same(c, e) /\ c.state = e.state
    BY ClearedFine
  <1>. HIDE DEF c
  <1>6. \A z : Fine(c, z) => Fine(q, z) /\ Same(q, c) /\ q.state = c.state
    BY <1>3, PutFine
  <1>7. SReturn(q)
    BY <1>1 DEF c, e
  <1>. HIDE DEF q
  <1>8. InFile(q) /\ Later(s, q)
    BY <1>2, <1>4, <1>5, <1>6, SameLater DEF Same
  <1>9. Fine(q, q)
    BY <1>4, <1>5, <1>6, <1>8, SenderStart
  <1>. QED
    BY <1>2, <1>7, <1>8, <1>9, SenderMove

LEMMA SUnexpectedInv ==
  ASSUME ZInv, SUnexpected, UNCHANGED rVars
  PROVE  ZInv'
  <1>. DEFINE d == Drop(s)
              q == Abort(d)
  <1>1. InFile(s) /\ toS' \in Seq(Msg) /\ SReturn(q) /\ \E st, ty : SGets(st, ty)
    BY SenderStart DEF SUnexpected
  <1>2. Same(d, s) /\ \A z : Later(s, z) => Fine(d, z)
    BY <1>1, SGetsStart
  <1>. HIDE DEF d
  <1>3. \A z : Later(s, z) => Fine(q, z) /\ Same(q, d) /\ q.state = "ABORT"
    BY <1>2, AbortFine
  <1>. HIDE DEF q
  <1>4. InFile(q) /\ Later(s, q)
    BY <1>1, <1>2, <1>3, SenderStart, SameLater DEF Same
  <1>. QED
    BY <1>1, <1>3, <1>4, SenderMove

(* ZNAK, and ZRINIT in answer to ZFIN: the request again *)
LEMMA SAgainInv ==
  ASSUME ZInv, SNak \/ SFinAgain, UNCHANGED rVars
  PROVE  ZInv'
  <1>. DEFINE d == Drop(s)
              e == SErrors(d, 1)
              q == [e EXCEPT !.state = Retry(s.state)]
  <1>1. /\ InFile(s) /\ toS' \in Seq(Msg) /\ SLoop(q) /\ s.state \in SWaits
        /\ \E st, ty : SGets(st, ty)
    <2>1. CASE SNak
      BY <2>1, SGetsStart, SenderStart DEF SNak
    <2>2. CASE SFinAgain
      <3>1. s.state = "ZFIN_WAIT" /\ SLoop([e EXCEPT !.state = "ZFIN"])
            /\ \E st, ty : SGets(st, ty)
        BY <2>2, SGetsStart DEF SFinAgain
      <3>2. Retry(s.state) = "ZFIN"
        BY <3>1, RetryOf
      <3>. QED
        BY <2>2, <3>1, <3>2, SenderStart DEF SFinAgain, SWaits
    <2>. QED
      BY <2>1, <2>2
  <1>2. Same(d, s) /\ \A z : Later(s, z) => Fine(d, z)
    BY <1>1, SGetsStart
  <1>. HIDE DEF d
  <1>3. \A z : Later(s, z) => Fine(e, z) /\ Same(e, d)
    BY <1>2, ErrorsFine
  <1>. HIDE DEF e
  <1>4. ASSUME NEW z, Fine(e, z)
        PROVE  Fine(q, z) /\ Same(q, e) /\ q.state = Retry(s.state)
    BY <1>4 DEF Fine, IsSender, Same
  <1>. HIDE DEF q
  <1>5. Same(q, s) /\ q.state = Retry(s.state)
    BY <1>2, <1>3, <1>4, SenderStart DEF Same
  <1>6. InFile(q) /\ Later(s, q)
    BY <1>1, <1>5, RetryState
  <1>. QED
    BY <1>1, <1>3, <1>4, <1>6, SenderMove

LEMMA SGetsZrinitInv ==
  ASSUME ZInv, SGetsZrinit, UNCHANGED rVars
  PROVE  ZInv'
  <1>. DEFINE d == Drop(s)
              b == d.esc \/ s.buf[1].a = 1
              q == [d EXCEPT !.esc = b, !.state = "ZSINIT"]
  <1>1. /\ InFile(s) /\ toS' \in Seq(Msg) /\ SLoop(q) /\ s.state = "ZRQINIT_WAIT"
        /\ \E st, ty : SGets(st, ty)
    BY SenderStart, SGetsStart DEF SGetsZrinit
  <1>2. Same(d, s) /\ \A z : Later(s, z) => Fine(d, z)
    BY <1>1, SGetsStart
  <1>3. IsSender(d) /\ b \in BOOLEAN /\ (d.esc => b)
    BY <1>2, SenderStart DEF Fine, IsSender
  <1>. HIDE DEF d, b
  <1>4. /\ IsSender(q) /\ q.state = "ZSINIT" /\ q.f = d.f /\ q.pos = d.pos /\ q.esc = b
        /\ q.out = d.out
    BY <1>3 DEF IsSender
  <1>. HIDE DEF q
  <1>5. InFile(q) /\ Later(s, q)
    BY <1>1, <1>2, <1>3, <1>4 DEF InFile, FileStates, Later, InZsinit, Same
  <1>6. Fine(q, q)
    BY <1>2, <1>4, <1>5 DEF Fine
  <1>. QED
    BY <1>1, <1>5, <1>6, SenderMove

(* ZCHALLENGE and ZCRC are answered. *)
LEMMA SAnswerInv ==
  ASSUME ZInv, SGetsZchallenge \/ SGetsZcrc, UNCHANGED rVars
  PROVE  ZInv'
  <1>. DEFINE d == Drop(s)
  <1>1. InFile(s) /\ toS' \in Seq(Msg) /\ \E st, ty : SGets(st, ty)
    BY SenderStart DEF SGetsZchallenge, SGetsZcrc
  <1>2. Same(d, s) /\ d.state = s.state /\ \A z : Later(s, z) => Fine(d, z)
    BY <1>1, SGetsStart
  <1>3. PICK m : SLoop(Put(d, m)) /\ \A z : m \in FromSender(z)
    <2>1. CASE SGetsZchallenge
      <3>1. s.buf[1].a \in Nat
        BY <1>1, SGetsStart
      <3>. QED
        BY <2>1, <3>1, PlainHeader DEF SGetsZchallenge
    <2>2. CASE SGetsZcrc
      <3>. DEFINE a == s.buf[1].a
                  n == IF a > Size[s.f] THEN Size[s.f] ELSE a
      <3>1. a \in Nat /\ s.state = "ZFILE_WAIT" /\ s.f \in 1..(NFiles + 1) /\ NFiles \in Nat
        BY <2>2, SGetsStart, SenderStart, ZLineAssumption DEF SGetsZcrc, IsSender
      <3>2. s.f \in 1..NFiles
        BY <1>1, <3>1 DEF InFile, FileStates
      <3>3. n \in Nat
        BY <3>1, <3>2, ZLineAssumption
      <3>. HIDE DEF n
      <3>4. \A z : FileHeader("ZCRC", s.f, n, s.esc) \in FromSender(z)
        BY <3>2, <3>3 DEF FileHeader, Header, FromSender, Msg, MsgTypes, SubTypes, Damages
      <3>5. SLoop(Put(d, FileHeader("ZCRC", s.f, n, s.esc)))
        BY <2>2 DEF SGetsZcrc, n
      <3>. QED
        BY <3>4, <3>5
    <2>. QED
      BY <2>1, <2>2
  <1>. DEFINE q == Put(d, m)
  <1>. HIDE DEF d
  <1>4. \A z : Later(s, z) => Fine(q, z) /\ Same(q, d) /\ q.state = d.state
    BY <1>2, <1>3, PutFine
  <1>. HIDE DEF q
  <1>5. InFile(q) /\ Later(s, q)
    BY <1>1, <1>2, <1>4, SenderStart, SameLater DEF Same
  <1>. QED
    BY <1>1, <1>3, <1>4, <1>5, SenderMove DEF q

(* setup_for_next_file(): another file, or none and ZFIN *)
LEMMA SNextFileInv ==
  ASSUME ZInv, SGetsZskip \/ SGetsEofAnswer, UNCHANGED rVars
  PROVE  ZInv'
  <1>. DEFINE d == Drop(s)
              q == NextFile(d)
  <1>1. /\ InFile(s) /\ toS' \in Seq(Msg) /\ SLoop(q) /\ s.state \in {"ZFILE_WAIT", "ZEOF_WAIT"}
        /\ \E st, ty : SGets(st, ty)
    BY SenderStart, SGetsStart DEF SGetsZskip, SGetsEofAnswer
  <1>2. Same(d, s) /\ d.state = s.state /\ \A z : Later(s, z) => Fine(d, z)
    BY <1>1, SGetsStart
  <1>3. IsSender(d) /\ d.f \in 1..NFiles /\ NFiles \in Nat
    BY <1>1, <1>2, SenderStart, ZLineAssumption DEF Fine, IsSender, Same, InFile, FileStates
  <1>. HIDE DEF d
  <1>. DEFINE f == d.f + 1
              st == IF d.f = NFiles THEN "ZFIN" ELSE "ZFILE"
              cf == IF d.f = NFiles THEN d.conf ELSE 0
              la == IF d.f = NFiles THEN d.last ELSE 0
  <1>4. /\ f \in 1..(NFiles + 1) /\ (st # "ZFIN" => f <= NFiles) /\ st \in {"ZFIN", "ZFILE"}
        /\ cf \in Nat /\ la \in Nat
    BY <1>3 DEF IsSender
  <1>5. q = [d EXCEPT !.f = f, !.state = st, !.conf = cf, !.last = la]
    BY DEF NextFile
  <1>. HIDE DEF f, st, cf, la
  <1>6. IsSender(q) /\ q.state = st /\ q.f = f /\ q.esc = d.esc /\ q.out = d.out
    BY <1>3, <1>4, <1>5 DEF IsSender
  <1>. HIDE DEF q
  <1>7. InFile(q) /\ Later(s, q)
    BY <1>1, <1>2, <1>4, <1>6 DEF InFile, FileStates, Later, InZsinit, Same
  <1>8. Fine(q, q)
    BY <1>2, <1>6, <1>7 DEF Fine
  <1>. QED
    BY <1>1, <1>7, <1>8, SenderMove

LEMMA SFinishedInv ==
  ASSUME ZInv, SFinished, UNCHANGED rVars
  PROVE  ZInv'
  <1>. DEFINE d == Drop(s)
              q == Stop([d EXCEPT !.state = "COMPLETE", !.out = <<>>], "END")
  <1>1. /\ InFile(s) /\ toS' \in Seq(Msg) /\ SReturn(q) /\ s.state = "ZFIN_WAIT"
        /\ \E st, ty : SGets(st, ty)
    BY SenderStart, SGetsStart DEF SFinished
  <1>2. Same(d, s) /\ \A z : Later(s, z) => Fine(d, z)
    BY <1>1, SGetsStart
  <1>3. IsSender(d) /\ <<>> \in Seq(Msg)
    BY <1>2, SenderStart DEF Fine
  <1>. HIDE DEF d
  <1>4. IsSender(q) /\ q.state = "COMPLETE" /\ q.esc = d.esc /\ q.out = <<>>
    BY <1>3 DEF IsSender, Stop, Xfers
  <1>. HIDE DEF q
  <1>5. InFile(q) /\ Later(s, q) /\ Fine(q, q)
    BY <1>1, <1>2, <1>4 DEF InFile, FileStates, Later, InZsinit, Same, Fine
  <1>. QED
    BY <1>1, <1>5, SenderMove

(* A sender q that has a file and a place in it *)
InData(q) == q.f \in 1..NFiles /\ q.pos <= Size[q.f]

(* send_zdata(): the state is ZDATA or leads nowhere. *)
LEMMA DataLater ==
  ASSUME NEW p, p.state \in {"ZFILE_WAIT", "ZDATA"}, NEW q, q.esc = p.esc,
         q.state \in {"ZDATA", "ZRPOS", "ABORT"}, InData(q)
  PROVE  InFile(q) /\ Later(p, q)
  BY ZLineAssumption DEF InData, InFile, FileStates, Later, InZsinit

LEMMA SGetsZrposInv ==
  ASSUME ZInv, SGetsZrpos, UNCHANGED rVars
  PROVE  ZInv'
  <1>. DEFINE d == Drop(s)
              a == s.buf[1].a
              p == [d EXCEPT !.pos = a, !.state = "ZDATA", !.ackreq = FALSE]
              q == Put(p, SHeader(s, "ZDATA", a))
  <1>1. /\ InFile(s) /\ toS' \in Seq(Msg) /\ s.state = "ZFILE_WAIT" /\ a \in Nat
        /\ \E st, ty : SGets(st, ty)
        /\ IF a > Size[s.f] THEN SReturn(Abort(d)) ELSE SLoop(q)
    BY SenderStart, SGetsStart DEF SGetsZrpos
  <1>2. Same(d, s) /\ \A z : Later(s, z) => Fine(d, z)
    BY <1>1, SGetsStart
  <1>3. IsSender(d) /\ s.f \in 1..NFiles /\ Size[s.f] \in Nat
    BY <1>1, <1>2, SenderStart, ZLineAssumption DEF Fine, IsSender, InFile, FileStates
  <1>4. \A z : SHeader(s, "ZDATA", a) \in FromSender(z)
    BY <1>1, PlainHeader
  <1>. HIDE DEF d, a
  <1>5. CASE a > Size[s.f]
    <2>1. \A z : Later(s, z) => Fine(Abort(d), z) /\ Same(Abort(d), d) /\ Abort(d).state = "ABORT"
      BY <1>2, AbortFine
    <2>2. InFile(Abort(d)) /\ Later(s, Abort(d))
      BY <1>1, <1>2, <2>1, SenderStart, SameLater DEF Same
    <2>. QED
      BY <1>1, <1>5, <2>1, <2>2, SenderMove
  <1>6. CASE ~(a > Size[s.f])
    <2>1. ASSUME NEW z, Fine(d, z)
          PROVE  Fine(p, z) /\ p.f = d.f /\ p.pos = a /\ p.esc = d.esc /\ p.state = "ZDATA"
      BY <1>1, <2>1 DEF Fine, IsSender
    <2>. HIDE DEF p
    <2>2. \A z : Fine(p, z) => Fine(q, z) /\ Same(q, p) /\ q.state = p.state
      BY <1>4, PutFine
    <2>. HIDE DEF q
    <2>3. q.f = s.f /\ q.pos = a /\ q.esc = s.esc /\ q.state = "ZDATA"
      BY <1>2, <2>1, <2>2, SenderStart DEF Same
    <2>4. InData(q)
      BY <1>1, <1>3, <1>6, <2>3 DEF InData
    <2>5. InFile(q) /\ Later(s, q)
      BY <1>1, <2>3, <2>4, DataLater
    <2>. QED
      BY <1>1, <1>2, <1>6, <2>1, <2>2, <2>5, SenderMove
  <1>. QED
    BY <1>5, <1>6

(* A handler of ZDATA that streams *)
LEMMA StreamMove ==
  ASSUME ZInv, s.state = "ZDATA", NEW q, q.esc = s.esc, q.state \in {"ZDATA", "ZRPOS", "ABORT"},
         InData(q), \A z : Later(s, z) => Fine(q, z),
         SReturn(Stream(q)), toS' \in Seq(Msg), UNCHANGED rVars
  PROVE  ZInv'
  <1>. DEFINE p == Stream(q)
  <1>1. \A z : Fine(q, z) => /\ Fine(p, z) /\ p.state = q.state /\ p.f = q.f /\ p.esc = q.esc
                             /\ p.pos <= Size[q.f]
    BY StreamFine DEF InData
  <1>. HIDE DEF p
  <1>2. p.state = q.state /\ p.esc = q.esc /\ InData(p)
    BY <1>1, SenderStart DEF InData
  <1>3. InFile(p) /\ Later(s, p)
    BY <1>2, DataLater
  <1>. QED
    BY <1>1, <1>3, SenderMove DEF p

(* The place in the file when a handler of ZDATA begins *)
LEMMA DataStart ==
  ASSUME ZInv, s.state = "ZDATA"
  PROVE  InData(s) /\ Size[s.f] \in Nat /\ s.f \in 1..NFiles
  BY SenderStart, ZLineAssumption DEF InFile, FileStates, InData, IsSender

LEMMA SDataNextInv ==
  ASSUME ZInv, SDataNext \/ SDataNak, UNCHANGED rVars
  PROVE  ZInv'
  <1>1. s.state = "ZDATA" /\ toS' \in Seq(Msg)
    BY SGetsStart, SenderStart DEF SDataNext, SDataNak
  <1>2. CASE SDataNext
    BY <1>1, <1>2, DataStart, SenderStart, StreamMove DEF SDataNext
  <1>3. CASE SDataNak
    <2>. DEFINE d == Drop(s)
                e == SErrors(d, 1)
                q == [e EXCEPT !.state = "ZRPOS"]
    <2>1. Same(d, s) /\ \A z : Later(s, z) => Fine(d, z)
      BY <1>3, SGetsStart DEF SDataNak
    <2>2. SReturn(Stream(q))
      BY <1>3 DEF SDataNak
    <2>. HIDE DEF d
    <2>3. \A z : Later(s, z) => Fine(e, z) /\ Same(e, d)
      BY <2>1, ErrorsFine
    <2>. HIDE DEF e
    <2>4. ASSUME NEW z, Fine(e, z)
          PROVE  Fine(q, z) /\ Same(q, e) /\ q.state = "ZRPOS"
      BY <2>4 DEF Fine, IsSender, Same
    <2>. HIDE DEF q
    <2>5. Same(q, s) /\ q.state = "ZRPOS"
      BY <2>1, <2>3, <2>4, SenderStart DEF Same
    <2>6. InData(q)
      BY <1>1, <2>5, DataStart DEF InData, Same
    <2>. QED
      BY <1>1, <2>2, <2>3, <2>4, <2>5, <2>6, StreamMove DEF Same
  <1>. QED
    BY <1>2, <1>3

LEMMA RepositionedFine ==
  ASSUME NEW z, NEW q, Fine(q, z), NEW a \in Nat
  PROVE  /\ Fine(Repositioned(q, a), z) /\ Repositioned(q, a).state = q.state
         /\ Repositioned(q, a).f = q.f /\ Repositioned(q, a).esc = q.esc
         /\ Repositioned(q, a).pos = a
  <1>. DEFINE p == [q EXCEPT !.pos = a, !.conf = a]
  <1>1. Fine(p, z) /\ p.state = q.state /\ p.f = q.f /\ p.esc = q.esc /\ p.pos = a
    BY DEF Fine, IsSender
  <1>2. Repositioned(q, a) = Put(p, SHeader(q, "ZDATA", a))
    BY DEF Repositioned
  <1>. HIDE DEF p
  <1>3. SHeader(q, "ZDATA", a) \in FromSender(z)
    BY PlainHeader
  <1>4. /\ Fine(Repositioned(q, a), z) /\ Same(Repositioned(q, a), p)
        /\ Repositioned(q, a).state = p.state
    BY <1>1, <1>2, <1>3, PutFine
  <1>. QED
    BY <1>1, <1>4 DEF Same

LEMMA SDataZrposInv ==
  ASSUME ZInv, SDataZrpos, UNCHANGED rVars
  PROVE  ZInv'
  <1>. DEFINE a == s.buf[1].a
              c == Cleared(SErrors(s, 1))
              first == [c EXCEPT !.ackreq = TRUE, !.waiting = FALSE, !.out = <<>>,
                                 !.streaming = FALSE]
              again == [Drop(s) EXCEPT !.ackreq = FALSE, !.waiting = FALSE]
              p == IF s.ackreq THEN again ELSE BlockDown([first EXCEPT !.conf = a])
              h == IF s.ackreq THEN again ELSE first
  <1>1. /\ InFile(s) /\ toS' \in Seq(Msg) /\ s.state = "ZDATA" /\ a \in Nat
        /\ \E st, ty : SGets(st, ty)
    BY SenderStart, SGetsStart DEF SDataZrpos
  <1>2. IF a > Size[s.f] THEN SReturn(Abort(h))
        ELSE IF p.state = "ABORT" THEN SReturn(p) ELSE SReturn(Stream(Repositioned(p, a)))
    BY DEF SDataZrpos
  <1>3. \A z : Later(s, z) => /\ Fine(first, z) /\ Same(first, s)
                              /\ first.state \in {"ZDATA", "ABORT"}
    <2>1. ASSUME NEW z, Fine(s, z)
          PROVE  Fine(c, z) /\ Same(c, s) /\ c.state \in {"ZDATA", "ABORT"}
      <3>. DEFINE e == SErrors(s, 1)
      <3>1. Fine(e, z) /\ Same(e, s) /\ e.state \in {"ZDATA", "ABORT"}
        BY <1>1, <2>1, ErrorsFine
      <3>. HIDE DEF e
      <3>2. Fine(Cleared(e), z) /\ Same(Cleared(e), e) /\ Cleared(e).state = e.state
        BY <3>1, ClearedFine
      <3>. QED
        BY <3>1, <3>2 DEF e, Same
    <2>. HIDE DEF c
    <2>2. ASSUME NEW z, Fine(c, z)
          PROVE  Fine(first, z) /\ Same(first, c) /\ first.state = c.state
      <3>1. <<>> \in Seq(Msg) /\ <<>> \in Seq(FromSender(z))
        OBVIOUS
      <3>. QED
        BY <2>2, <3>1 DEF Fine, IsSender, Same
    <2>. HIDE DEF first
    <2>. QED
      BY <2>1, <2>2, SenderStart DEF Same
  <1>4. \A z : Later(s, z) => /\ Fine(again, z) /\ Same(again, s)
                              /\ again.state \in {"ZDATA", "ABORT"}
    <2>. DEFINE d == Drop(s)
    <2>1. Same(d, s) /\ d.state = "ZDATA" /\ \A z : Later(s, z) => Fine(d, z)
      BY <1>1, SGetsStart
    <2>. HIDE DEF d
    <2>2. ASSUME NEW z, Fine(d, z)
          PROVE  LET w == [d EXCEPT !.ackreq = FALSE, !.waiting = FALSE]
                 IN  Fine(w, z) /\ Same(w, d) /\ w.state = d.state
      BY <2>2 DEF Fine, IsSender, Same
    <2>. QED
      BY <2>1, <2>2 DEF Same, d
  <1>. HIDE DEF first, again
  <1>5. \A z : Later(s, z) => Fine(h, z) /\ Same(h, s) /\ h.state \in {"ZDATA", "ABORT"}
    BY <1>3, <1>4
  <1>6. \A z : Later(s, z) => Fine(p, z) /\ Same(p, s) /\ p.state \in {"ZDATA", "ABORT"}
    <2>. DEFINE g == [first EXCEPT !.conf = a]
    <2>1. ASSUME NEW z, Fine(first, z) PROVE Fine(g, z) /\ Same(g, first) /\ g.state = first.state
      <3>. HIDE DEF a
      <3>. QED
        BY <1>1, <2>1 DEF Fine, IsSender, Same
    <2>. HIDE DEF g
    <2>2. \A z : Fine(g, z) => Fine(BlockDown(g), z) /\ Same(BlockDown(g), g)
                               /\ BlockDown(g).state \in {g.state, "ABORT"}
      BY BlockFine
    <2>3. p \in {again, BlockDown(g)}
      BY DEF g
    <2>. QED
      BY <1>3, <1>4, <2>1, <2>2, <2>3 DEF Same
  <1>. HIDE DEF a, p, h
  <1>7. CASE a > Size[s.f]
    <2>1. \A z : Later(s, z) => Fine(Abort(h), z) /\ Same(Abort(h), h) /\ Abort(h).state = "ABORT"
      BY <1>5, AbortFine
    <2>2. InFile(Abort(h)) /\ Later(s, Abort(h))
      BY <1>1, <1>5, <2>1, SenderStart, SameLater DEF Same
    <2>. QED
      BY <1>1, <1>2, <1>7, <2>1, <2>2, SenderMove
  <1>8. CASE ~(a > Size[s.f]) /\ p.state = "ABORT"
    <2>1. InFile(p) /\ Later(s, p)
      BY <1>1, <1>6, <1>8, SenderStart, SameLater
    <2>. QED
      BY <1>1, <1>2, <1>6, <1>8, <2>1, SenderMove
  <1>9. CASE ~(a > Size[s.f]) /\ p.state # "ABORT"
    <2>. DEFINE q == Repositioned(p, a)
    <2>1. \A z : Fine(p, z) => /\ Fine(q, z) /\ q.state = p.state /\ q.f = p.f /\ q.esc = p.esc
                               /\ q.pos = a
      BY <1>1, RepositionedFine
    <2>2. q.state = "ZDATA" /\ q.f = s.f /\ q.esc = s.esc /\ q.pos = a
          /\ \A z : Later(s, z) => Fine(q, z)
      BY <1>6, <1>9, <2>1, SenderStart DEF Same
    <2>. HIDE DEF q
    <2>3. InData(q)
      BY <1>1, <1>9, <2>2, DataStart DEF InData
    <2>. QED
      BY <1>1, <1>2, <1>9, <2>2, <2>3, StreamMove DEF q
  <1>. QED
    BY <1>7, <1>8, <1>9

LEMMA SDataZackInv ==
  ASSUME ZInv, SDataZack, UNCHANGED rVars
  PROVE  ZInv'
  <1>. DEFINE a == s.buf[1].a
              d == Drop(s)
              p == [d EXCEPT !.ackreq = FALSE, !.waiting = FALSE]
              b == [p EXCEPT !.pos = a, !.conf = a]
              q == BlockUp(b)
              g == [q EXCEPT !.streaming = TRUE]
              w == Put(g, SHeader(q, "ZDATA", a))
  <1>1. /\ InFile(s) /\ toS' \in Seq(Msg) /\ s.state = "ZDATA" /\ a \in Nat
        /\ \E st, ty : SGets(st, ty)
    BY SenderStart, SGetsStart DEF SDataZack
  <1>2. IF a > Size[s.f] THEN SLoop([p EXCEPT !.state = "ZEOF"])
        ELSE IF a = Size[s.f] THEN SLoop([q EXCEPT !.state = "ZEOF"])
        ELSE SReturn(Stream(IF q.streaming THEN q ELSE w))
    BY DEF SDataZack
  <1>3. Same(d, s) /\ d.state = "ZDATA" /\ \A z : Later(s, z) => Fine(d, z)
    BY <1>1, SGetsStart
  <1>. HIDE DEF d
  <1>4. ASSUME NEW z, Fine(d, z) PROVE Fine(p, z) /\ Same(p, d) /\ p.state = d.state
    BY <1>4 DEF Fine, IsSender, Same
  <1>. HIDE DEF p, a
  <1>5. ASSUME NEW z, Fine(p, z)
        PROVE  Fine(b, z) /\ b.f = p.f /\ b.esc = p.esc /\ b.pos = a /\ b.state = p.state
    BY <1>1, <1>5 DEF Fine, IsSender
  <1>. HIDE DEF b
  <1>6. \A z : Fine(b, z) => Fine(q, z) /\ Same(q, b) /\ q.state = b.state
    BY BlockFine
  <1>. HIDE DEF q
  <1>7. /\ \A z : Later(s, z) => Fine(p, z) /\ Fine(q, z)
        /\ Same(p, s) /\ q.f = s.f /\ q.esc = s.esc /\ q.pos = a /\ q.state = "ZDATA"
    BY <1>3, <1>4, <1>5, <1>6, SenderStart DEF Same
  <1>8. ASSUME NEW o, \A z : Later(s, z) => Fine(o, z), o.f = s.f, o.esc = s.esc,
               SLoop([o EXCEPT !.state = "ZEOF"])
        PROVE  ZInv'
    <2>. DEFINE e == [o EXCEPT !.state = "ZEOF"]
    <2>1. ASSUME NEW z, Fine(o, z) PROVE Fine(e, z) /\ Same(e, o) /\ e.state = "ZEOF"
      BY <2>1 DEF Fine, IsSender, Same
    <2>2. SLoop(e)
      BY <1>8
    <2>. HIDE DEF e
    <2>3. e.f = s.f /\ e.esc = s.esc /\ e.state = "ZEOF"
      BY <1>8, <2>1, SenderStart DEF Same
    <2>4. InFile(e) /\ Later(s, e)
      BY <1>1, <2>3, DataStart, ZLineAssumption DEF InFile, FileStates, Later, InZsinit
    <2>. QED
      BY <1>1, <1>8, <2>1, <2>2, <2>4, SenderMove
  <1>9. CASE a > Size[s.f]
    BY <1>2, <1>7, <1>8, <1>9 DEF Same
  <1>10. CASE ~(a > Size[s.f]) /\ a = Size[s.f]
    BY <1>2, <1>7, <1>8, <1>10
  <1>11. CASE ~(a > Size[s.f]) /\ a # Size[s.f]
    <2>1. ASSUME NEW z, Fine(q, z) PROVE Fine(g, z) /\ Same(g, q) /\ g.state = q.state
      BY <2>1 DEF Fine, IsSender, Same
    <2>. HIDE DEF g
    <2>2. \A z : SHeader(q, "ZDATA", a) \in FromSender(z)
      BY <1>1, PlainHeader
    <2>3. \A z : Fine(g, z) => Fine(w, z) /\ Same(w, g) /\ w.state = g.state
      BY <2>2, PutFine
    <2>. HIDE DEF w
    <2>. DEFINE x == IF q.streaming THEN q ELSE w
    <2>4. x \in {q, w} /\ SReturn(Stream(x))
      BY <1>2, <1>11
    <2>. HIDE DEF x
    <2>5. x.f = s.f /\ x.esc = s.esc /\ x.pos = a /\ x.state = "ZDATA"
          /\ \A z : Later(s, z) => Fine(x, z)
      BY <1>7, <2>1, <2>3, <2>4, SenderStart DEF Same
    <2>6. InData(x)
      BY <1>1, <1>11, <2>5, DataStart DEF InData
    <2>. QED
      BY <1>1, <2>4, <2>5, <2>6, StreamMove
  <1>. QED
    BY <1>9, <1>10, <1>11

LEMMA SHandleInv ==
  ASSUME ZInv, SHandle, UNCHANGED rVars
  PROVE  ZInv'
  BY SDoneInv, SSendInv, SSkipZsinitInv, SGarbledInv, SUnexpectedInv, SAgainInv, SGetsZrinitInv,
     SAnswerInv, SNextFileInv, SGetsZrposInv, SDataZrposInv, SDataZackInv, SDataNextInv,
     SFinishedInv
  DEF SHandle

-----------------------------------------------------------------------------
(* The functions that handlers of the receiver call *)

(* A receiver that has read what the sender has sent *)
RFine(q) == IsReceiver(q) /\ q.buf \in Seq(FromSender(s))

RSame(p, q) == p.f = q.f /\ p.pos = q.pos /\ p.prior = q.prior

LEMMA RErrorsFine ==
  ASSUME NEW q, RFine(q), NEW n \in Nat
  PROVE  /\ RFine(Errors(q, n)) /\ RSame(Errors(q, n), q) /\ Errors(q, n).c = q.c
         /\ Errors(q, n).state \in {q.state, "ABORT"}
  <1>. DEFINE v == q.errs + n
              p == [q EXCEPT !.errs = v]
  <1>1. v \in Nat /\ Errors(q, n) \in {p, Abort(p)}
    BY DEF Errors, RFine, IsReceiver
  <1>. HIDE DEF v
  <1>2. RFine(p) /\ RSame(p, q) /\ p.state = q.state /\ p.c = q.c
    BY <1>1 DEF RFine, IsReceiver, RSame
  <1>. HIDE DEF p
  <1>3. RFine(Abort(p)) /\ RSame(Abort(p), q) /\ Abort(p).state = "ABORT" /\ Abort(p).c = q.c
    BY <1>2 DEF RFine, IsReceiver, RSame, Abort, Stop, Xfers
  <1>. QED
    BY <1>1, <1>2, <1>3

LEMMA RAbortFine ==
  ASSUME NEW q, RFine(q)
  PROVE  /\ RFine(Abort(q)) /\ RSame(Abort(q), q) /\ Abort(q).state = "ABORT"
         /\ RFine(Crash(q)) /\ RSame(Crash(q), q) /\ Crash(q).state = q.state
         /\ Crash(q).c = q.c
  BY DEF RFine, IsReceiver, RSame, Abort, Stop, Crash, Xfers

LEMMA RDropFine ==
  ASSUME NEW q, RFine(q), q.buf # <<>>
  PROVE  /\ RFine(Drop(q)) /\ RSame(Drop(q), q) /\ Drop(q).state = q.state /\ Drop(q).c = q.c
         /\ q.buf[1] \in FromSender(s) /\ q.buf[1] \in Msg
  <1>. DEFINE v == Tail(q.buf)
  <1>1. v \in Seq(FromSender(s)) /\ v \in Seq(Msg) /\ q.buf[1] \in FromSender(s) /\ q.buf[1] \in Msg
    BY FromSenderClosed DEF RFine, IsReceiver
  <1>2. Drop(q) = [q EXCEPT !.buf = v]
    BY DEF Drop
  <1>. HIDE DEF v
  <1>. QED
    BY <1>1, <1>2 DEF RFine, IsReceiver, RSame

LEMMA RClearedFine ==
  ASSUME NEW q, RFine(q)
  PROVE  RFine(Cleared(q)) /\ RSame(Cleared(q), q) /\ Cleared(q).state = q.state
  <1>1. <<>> \in Seq(Msg) /\ <<>> \in Seq(FromSender(s))
    OBVIOUS
  <1>. QED
    BY <1>1 DEF RFine, IsReceiver, RSame, Cleared

LEMMA AnswerFine ==
  ASSUME NEW q, RFine(q), NEW m \in Msg
  PROVE  RFine(Answer(q, m)) /\ RSame(Answer(q, m), q) /\ Answer(q, m).state = q.state
  <1>. DEFINE o == Built(q.out, m)
              b == (m.e = "C")
              p == [q EXCEPT !.out = o]
  <1>1. o \in Seq(Msg) /\ b \in BOOLEAN
    BY BuiltType, MsgClosed DEF RFine, IsReceiver
  <1>2. Answer(q, m) = [p EXCEPT !.c = b]
    BY DEF Answer, Put
  <1>. HIDE DEF o, b
  <1>3. RFine(p) /\ RSame(p, q) /\ p.state = q.state
    BY <1>1 DEF RFine, IsReceiver, RSame
  <1>. HIDE DEF p
  <1>4. LET w == [p EXCEPT !.c = b] IN RFine(w) /\ RSame(w, p) /\ w.state = p.state
    BY <1>1, <1>3 DEF RFine, IsReceiver, RSame
  <1>. QED
    BY <1>2, <1>3, <1>4 DEF RSame

(* The receiver is set to another state. *)
LEMMA RStateFine ==
  ASSUME NEW q, RFine(q), NEW st
  PROVE  LET w == [q EXCEPT !.state = st]
         IN  RFine(w) /\ RSame(w, q) /\ w.state = st /\ w.c = q.c
  BY DEF RFine, IsReceiver, RSame

(* States in which no file is open *)
LEMMA Unplaced ==
  ASSUME NEW q, q.state \notin {"ZFILE", "ZCRC", "ZCRC_WAIT", "ZRPOS", "ZRPOS_WAIT", "ZDATA"}, NEW g, NEW h
  PROVE  Placed(q, g, h) /\ HexName(q, s)
  BY DEF Placed, Opened, HexName

(* The same file stays open. *)
LEMMA StillOpen ==
  ASSUME NEW p, NEW g, NEW h, Placed(p, g, h), Opened(p), NEW q, Opened(q), q.f = p.f, q.pos = p.pos
  PROVE  Placed(q, g, h) /\ HexName(q, s)
  BY DEF Placed, Opened, HexName

(* The state stays as well, or the receiver aborts. *)
LEMMA SamePlaced ==
  ASSUME NEW p, NEW g, NEW h, Placed(p, g, h), HexName(p, s), NEW q, RSame(q, p),
         q.state = p.state \/ q.state = "ABORT", q.state = "ZDATA" => q.c = p.c
  PROVE  Placed(q, g, h) /\ HexName(q, s)
  BY DEF Placed, Opened, HexName, RSame

(* All that remains to show of a handler of the receiver *)
LEMMA ReceiverMove ==
  ASSUME ZInv, NEW q, RFine(q), Placed(q, got', there'), HexName(q, s), RReturn(q) \/ RLoop(q),
         toR' \in Seq(FromSender(s)), FilesInv', UNCHANGED s
  PROVE  ZInv'
  <1>. DEFINE p == [q EXCEPT !.out = <<>>]
  <1>1. <<>> \in Seq(Msg) /\ toS \o q.out \in Seq(Msg)
    BY DEF ZInv, SenderInv, RFine, IsReceiver
  <1>2. RFine(p) /\ RSame(p, q) /\ p.state = q.state /\ p.c = q.c
    BY <1>1 DEF RFine, IsReceiver, RSame
  <1>3. Placed(p, got', there') /\ HexName(p, s)
    BY <1>2 DEF Placed, Opened, HexName, RSame
  <1>. HIDE DEF p
  <1>4. r' \in {q, p} /\ toS' \in {toS, toS \o q.out} /\ turn' \subseteq turn /\ opt' = opt
    BY DEF RReturn, RLoop, p
  <1>5. FromSender(s)' = FromSender(s)
    BY <1>4 DEF FromSender, InZsinit
  <1>6. SenderInv'
    <2>1. IsSender(s)' /\ InFile(s)'
      BY DEF ZInv, SenderInv, IsSender, InFile
    <2>. QED
      BY <1>1, <1>4, <1>5, <2>1 DEF ZInv, SenderInv
  <1>7. IsReceiver(r') /\ Placed(r', got', there') /\ HexName(r', s) /\ r'.buf \in Seq(FromSender(s))
    BY <1>2, <1>3, <1>4 DEF RFine
  <1>8. IsReceiver(r)' /\ Placed(r, got, there)' /\ HexName(r, s)'
    BY <1>7 DEF IsReceiver, Placed, Opened, HexName
  <1>. QED
    BY <1>5, <1>6, <1>7, <1>8 DEF ZInv, ReceiverInv

-----------------------------------------------------------------------------
(* The steps of the receiver *)

LEMMA ReceiverStart ==
  ASSUME ZInv
  PROVE  /\ RFine(r) /\ Placed(r, got, there) /\ HexName(r, s) /\ toR \in Seq(FromSender(s)) /\ FilesInv
         /\ \A l \in Rest(toR) : l \in Seq(FromSender(s))
         /\ r.pos \in Nat /\ r.f \in 0..NFiles /\ opt.resc \in BOOLEAN
  <1>1. \A l \in Rest(toR) : l \in Seq(FromSender(s))
    BY RestType, FromSenderClosed DEF ZInv, SenderInv
  <1>. QED
    BY <1>1 DEF ZInv, SenderInv, ReceiverInv, RFine, IsReceiver

LEMMA KeepFiles ==
  ASSUME ZInv, RKeep
  PROVE  FilesInv' /\ got' = got /\ there' = there
  BY DEF RKeep, ZInv, ReceiverInv, FilesInv

LEMMA RGetsStart ==
  ASSUME ZInv, NEW st, NEW types, RGets(st, types)
  PROVE  /\ r.state \in st /\ r.buf[1].t \in types
         /\ RFine(Drop(r)) /\ RSame(Drop(r), r) /\ Drop(r).state = r.state /\ Drop(r).c = r.c
         /\ r.buf[1] \in FromSender(s) /\ r.buf[1] \in Msg
  <1>1. r.state \in st /\ r.buf[1].t \in types /\ r.buf # <<>>
    BY DEF RGets, RParses
  <1>. QED
    BY <1>1, ReceiverStart, RDropFine

(* Nothing but the receiver's own state changes, and no file is open. *)
LEMMA UnplacedMove ==
  ASSUME ZInv, RKeep, UNCHANGED s, toR' \in Seq(FromSender(s)),
         NEW q, RFine(q), RReturn(q) \/ RLoop(q),
         q.state \notin {"ZFILE", "ZCRC", "ZCRC_WAIT", "ZRPOS", "ZRPOS_WAIT", "ZDATA"}
  PROVE  ZInv'
  BY Unplaced, KeepFiles, ReceiverMove

(* ... or the same is. *)
LEMMA OpenMove ==
  ASSUME ZInv, RKeep, UNCHANGED s, toR' \in Seq(FromSender(s)),
         NEW q, RFine(q), RReturn(q) \/ RLoop(q),
         Opened(r), Opened(q), q.f = r.f, q.pos = r.pos
  PROVE  ZInv'
  <1>1. Placed(q, got, there) /\ HexName(q, s)
    BY ReceiverStart, StillOpen
  <1>. QED
    BY <1>1, KeepFiles, ReceiverMove

(* ... or the state is. *)
LEMMA SameMove ==
  ASSUME ZInv, RKeep, UNCHANGED s, toR' \in Seq(FromSender(s)),
         NEW q, RFine(q), RReturn(q) \/ RLoop(q), RSame(q, r),
         q.state = r.state \/ q.state = "ABORT", q.state = "ZDATA" => q.c = r.c
  PROVE  ZInv'
  <1>1. Placed(q, got, there) /\ HexName(q, s)
    BY ReceiverStart, SamePlaced
  <1>. QED
    BY <1>1, KeepFiles, ReceiverMove

LEMMA RDoneInv ==
  ASSUME ZInv, RDone \/ RBegin \/ RFinish, UNCHANGED s
  PROVE  ZInv'
  <1>1. RFine(r) /\ RKeep /\ toR' \in Seq(FromSender(s))
    BY ReceiverStart DEF RDone, RBegin, RFinish
  <1>2. CASE RDone
    BY <1>1, <1>2, SameMove DEF RDone, RSame
  <1>3. CASE RBegin
    <2>1. PICK st \in {"ZCHALLENGE", "ZRINIT"} : RLoop([r EXCEPT !.state = st])
      BY <1>3 DEF RBegin
    <2>. DEFINE q == [r EXCEPT !.state = st]
    <2>2. RFine(q) /\ q.state = st
      BY <1>1, RStateFine
    <2>. HIDE DEF q
    <2>. QED
      BY <1>1, <2>1, <2>2, UnplacedMove DEF q
  <1>4. CASE RFinish
    <2>. DEFINE p == [r EXCEPT !.state = "COMPLETE"]
                q == Stop(p, "END")
    <2>1. RReturn(q)
      BY <1>4 DEF RFinish
    <2>2. RFine(p) /\ p.state = "COMPLETE"
      BY <1>1, RStateFine
    <2>. HIDE DEF p
    <2>3. RFine(q) /\ q.state = "COMPLETE"
      BY <2>2 DEF Stop, RFine, IsReceiver, Xfers
    <2>. HIDE DEF q
    <2>. QED
      BY <1>1, <2>1, <2>3, UnplacedMove
  <1>. QED
    BY <1>2, <1>3, <1>4

(* receive_zchallenge() and receive_zrinit() *)
LEMMA RGreetInv ==
  ASSUME ZInv, RChallenge \/ RSendZrinit, UNCHANGED s
  PROVE  ZInv'
  <1>. DEFINE c == Cleared(r)
  <1>1. RKeep /\ toR' \in Seq(FromSender(s)) /\ c.chal \in Nat /\ r.chal \in Nat
        /\ opt.resc \in BOOLEAN
    BY ReceiverStart DEF RChallenge, RSendZrinit, RFine, IsReceiver, Cleared
  <1>2. RFine(c)
    BY ReceiverStart, RClearedFine
  <1>3. PICK p, m : RReturn(Answer(p, m)) /\ RFine(p) /\ m \in Msg
                    /\ p.state \in {"ZCHALLENGE_WAIT", "ZRINIT_WAIT"}
    <2>1. CASE RChallenge
      <3>. DEFINE v == c.chal + 1
                  p == [c EXCEPT !.chal = v, !.state = "ZCHALLENGE_WAIT"]
                  m == Header("ZCHALLENGE", r.chal + 1, TRUE)
      <3>1. RReturn(Answer(p, m))
        BY <2>1 DEF RChallenge
      <3>2. v \in Nat /\ m \in Msg
        <4>1. v \in Nat /\ r.chal + 1 \in Nat /\ "ZCHALLENGE" \in MsgTypes
          BY <1>1 DEF MsgTypes
        <4>. QED
          BY <4>1, FixedHeaderMsg
      <3>. HIDE DEF v, c, m
      <3>3. RFine(p) /\ p.state = "ZCHALLENGE_WAIT"
        BY <1>2, <3>2 DEF RFine, IsReceiver
      <3>. HIDE DEF p
      <3>. QED
        BY <3>1, <3>2, <3>3
    <2>2. CASE RSendZrinit
      <3>. DEFINE p == [c EXCEPT !.esc = opt.resc, !.state = "ZRINIT_WAIT"]
                  m == Header("ZRINIT", IF opt.resc THEN 1 ELSE 0, TRUE)
      <3>1. RReturn(Answer(p, m))
        BY <2>2 DEF RSendZrinit
      <3>2. m \in Msg
        BY FixedHeaderMsg DEF MsgTypes, SubTypes
      <3>. HIDE DEF c, m
      <3>3. RFine(p) /\ p.state = "ZRINIT_WAIT"
        BY <1>1, <1>2 DEF RFine, IsReceiver
      <3>. HIDE DEF p
      <3>. QED
        BY <3>1, <3>2, <3>3
    <2>. QED
      BY <2>1, <2>2
  <1>4. RFine(Answer(p, m)) /\ Answer(p, m).state = p.state
    BY <1>3, AnswerFine
  <1>. QED
    BY <1>1, <1>3, <1>4, UnplacedMove

(* receive_zcrc() and receive_zrpos() *)
LEMMA RAskInv ==
  ASSUME ZInv, RSendZcrc \/ RSendZrpos, UNCHANGED s
  PROVE  ZInv'
  <1>1. RKeep /\ toR' \in Seq(FromSender(s)) /\ Opened(r) /\ RFine(r)
    BY ReceiverStart DEF RSendZcrc, RSendZrpos, Opened
  <1>2. CASE RReturn(Crash(r))
    BY <1>1, <1>2, RAbortFine, SameMove
  <1>3. CASE ~RReturn(Crash(r))
    <2>. DEFINE c == Cleared(r)
    <2>1. PICK st, m : RReturn(Answer([c EXCEPT !.state = st], m)) /\ m \in Msg
                       /\ st \in {"ZCRC_WAIT", "ZRPOS_WAIT"}
      <3>1. CASE RSendZcrc
        <4>1. r.f \in 1..NFiles
          BY <1>1, ReceiverStart, ZLineAssumption DEF Placed
        <4>2. Len(got[r.f]) \in Nat
          BY <4>1, ReceiverStart DEF FilesInv
        <4>3. Header("ZCRC", Len(got[r.f]), TRUE) \in Msg
          BY <4>2, FixedHeaderMsg DEF MsgTypes, SubTypes
        <4>. QED
          BY <1>3, <3>1, <4>3 DEF RSendZcrc
      <3>2. CASE RSendZrpos
        <4>1. Header("ZRPOS", r.pos, TRUE) \in Msg
          BY ReceiverStart, FixedHeaderMsg DEF MsgTypes, SubTypes
        <4>. QED
          BY <3>2, <4>1 DEF RSendZrpos
      <3>. QED
        BY <3>1, <3>2
    <2>2. RFine(c) /\ RSame(c, r)
      BY <1>1, RClearedFine
    <2>. DEFINE p == [c EXCEPT !.state = st]
                q == Answer(p, m)
    <2>. HIDE DEF c
    <2>3. RFine(p) /\ RSame(p, c) /\ p.state = st
      BY <2>2, RStateFine
    <2>. HIDE DEF p
    <2>4. RFine(q) /\ RSame(q, p) /\ q.state = st
      BY <2>1, <2>3, AnswerFine
    <2>5. RReturn(q)
      BY <2>1 DEF p
    <2>. HIDE DEF q
    <2>6. Opened(q) /\ q.f = r.f /\ q.pos = r.pos
      BY <2>1, <2>2, <2>3, <2>4 DEF Opened, RSame
    <2>. QED
      BY <1>1, <2>4, <2>5, <2>6, OpenMove
  <1>. QED
    BY <1>2, <1>3

(* receive_zskip(), which reports the file as done *)
LEMMA RSendZskipInv ==
  ASSUME ZInv, RSendZskip, UNCHANGED s
  PROVE  ZInv'
  <1>1. RFine(r) /\ toR' \in Seq(FromSender(s)) /\ UNCHANGED <<got, there>>
    BY ReceiverStart DEF RSendZskip
  <1>2. done' \subseteq 1..NFiles
    <2>1. done \subseteq 1..NFiles /\ r.f \in 0..NFiles /\ NFiles \in Nat
      BY ReceiverStart, ZLineAssumption DEF FilesInv
    <2>2. done' = done \/ (r.f # 0 /\ done' = done \cup {r.f})
      BY DEF RSendZskip
    <2>3. r.f # 0 => r.f \in 1..NFiles
      BY <2>1
    <2>. QED
      BY <2>1, <2>2, <2>3
  <1>3. FilesInv'
    BY <1>1, <1>2, ReceiverStart DEF FilesInv
  <1>4. CASE RReturn(Crash(r))
    <2>1. Placed(Crash(r), got, there) /\ HexName(Crash(r), s)
      BY <1>1, ReceiverStart, RAbortFine, SamePlaced
    <2>. QED
      BY <1>1, <1>3, <1>4, <2>1, RAbortFine, ReceiverMove
  <1>5. CASE ~RReturn(Crash(r))
    <2>. DEFINE c == Cleared(r)
                p == [c EXCEPT !.f = 0, !.prior = "ZSKIP", !.state = "ZRINIT_WAIT"]
                q == Answer(p, RHeader(r, "ZSKIP", 0))
    <2>1. RReturn(q)
      BY <1>5 DEF RSendZskip
    <2>2. RFine(c)
      BY <1>1, RClearedFine
    <2>. HIDE DEF c
    <2>3. RFine(p) /\ p.state = "ZRINIT_WAIT"
      <3>1. 0 \in 0..NFiles
        BY ZLineAssumption
      <3>. QED
        BY <2>2, <3>1 DEF RFine, IsReceiver
    <2>. HIDE DEF p
    <2>4. RHeader(r, "ZSKIP", 0) \in Msg
      BY HeaderMsg DEF RHeader, MsgTypes, SubTypes
    <2>5. RFine(q) /\ q.state = "ZRINIT_WAIT"
      BY <2>3, <2>4, AnswerFine
    <2>. HIDE DEF q
    <2>. QED
      BY <1>1, <1>3, <2>1, <2>5, Unplaced, ReceiverMove
  <1>. QED
    BY <1>4, <1>5

(* Bytes that are no header, and damaged ones *)
LEMMA RGarbledInv ==
  ASSUME ZInv, RJunk \/ RGarbled \/ RGarbledAgain, UNCHANGED s
  PROVE  ZInv'
  <1>1. /\ RFine(r) /\ RKeep /\ toR' \in Seq(FromSender(s)) /\ r.buf # <<>>
        /\ r.state \in RWaits
    BY ReceiverStart DEF RJunk, RGarbled, RGarbledAgain, RParses
  <1>2. CASE RJunk
    <2>1. RFine(Drop(r)) /\ RSame(Drop(r), r) /\ Drop(r).state = r.state /\ Drop(r).c = r.c
      BY <1>1, RDropFine
    <2>. QED
      BY <1>1, <1>2, <2>1, SameMove DEF RJunk
  <1>3. CASE RGarbled
    <2>1. PICK n \in {1, 2} : RReturn(Znak(r, n))
      BY <1>3 DEF RGarbled
    <2>. DEFINE e == Errors(r, n)
                c == Cleared(e)
                q == Answer(c, RHeader(r, "ZNAK", 0))
    <2>2. RReturn(q)
      BY <2>1 DEF Znak
    <2>3. RFine(e) /\ RSame(e, r) /\ e.state \in {r.state, "ABORT"}
      BY <1>1, <2>1, RErrorsFine
    <2>. HIDE DEF e
    <2>4. RFine(c) /\ RSame(c, e) /\ c.state = e.state
      BY <2>3, RClearedFine
    <2>. HIDE DEF c
    <2>5. RHeader(r, "ZNAK", 0) \in Msg
      BY HeaderMsg DEF RHeader, MsgTypes, SubTypes
    <2>6. RFine(q) /\ RSame(q, c) /\ q.state = c.state
      BY <2>4, <2>5, AnswerFine
    <2>. HIDE DEF q
    <2>7. RSame(q, r) /\ (q.state = r.state \/ q.state = "ABORT") /\ q.state # "ZDATA"
      BY <1>1, <2>3, <2>4, <2>6 DEF RSame, RWaits
    <2>. QED
      BY <1>1, <2>2, <2>6, <2>7, SameMove
  <1>4. CASE RGarbledAgain
    <2>. DEFINE e == [r EXCEPT !.errs = ZErrorsMax]
    <2>1. RReturn(Abort(e)) \/ RReturn(Crash(r))
      BY <1>4 DEF RGarbledAgain
    <2>2. RFine(e) /\ RSame(e, r)
      BY <1>1, ZSenderAssumption DEF RFine, IsReceiver, RSame
    <2>. HIDE DEF e
    <2>3. CASE RReturn(Abort(e))
      <3>1. RFine(Abort(e)) /\ RSame(Abort(e), r) /\ Abort(e).state = "ABORT"
        BY <2>2, RAbortFine DEF RSame
      <3>. QED
        BY <1>1, <2>3, <3>1, SameMove
    <2>4. CASE RReturn(Crash(r))
      BY <1>1, <2>4, RAbortFine, SameMove
    <2>. QED
      BY <2>1, <2>3, <2>4
  <1>. QED
    BY <1>2, <1>3, <1>4

LEMMA RUnexpectedInv ==
  ASSUME ZInv, RUnexpected, UNCHANGED s
  PROVE  ZInv'
  <1>. DEFINE d == Drop(r)
  <1>1. RKeep /\ toR' \in Seq(FromSender(s)) /\ RReturn(Abort(d)) /\ \E st, ty : RGets(st, ty)
    BY ReceiverStart DEF RUnexpected
  <1>2. RFine(d)
    BY <1>1, RGetsStart
  <1>. HIDE DEF d
  <1>3. RFine(Abort(d)) /\ Abort(d).state = "ABORT"
    BY <1>2, RAbortFine
  <1>. QED
    BY <1>1, <1>3, UnplacedMove

(* Back to the request *)
LEMMA RRetryPlaced ==
  ASSUME NEW p, p.state \in RWaits, NEW g, NEW h, Placed(p, g, h), NEW q, q.f = p.f, q.pos = p.pos,
         q.state = RRetry(p)
  PROVE  Placed(q, g, h) /\ HexName(q, s)
  BY DEF RWaits, RRetry, Placed, Opened, HexName

LEMMA RNakInv ==
  ASSUME ZInv, RNak, UNCHANGED s
  PROVE  ZInv'
  <1>. DEFINE d == Drop(r)
              e == Errors(d, 1)
              q == [e EXCEPT !.state = RRetry(r)]
  <1>1. /\ RKeep /\ toR' \in Seq(FromSender(s)) /\ RLoop(q) /\ r.state \in RWaits
        /\ \E st, ty : RGets(st, ty)
    BY ReceiverStart, RGetsStart DEF RNak
  <1>2. RFine(d) /\ RSame(d, r)
    BY <1>1, RGetsStart
  <1>. HIDE DEF d
  <1>3. RFine(e) /\ RSame(e, d)
    BY <1>2, RErrorsFine
  <1>. HIDE DEF e
  <1>4. RFine(q) /\ RSame(q, e) /\ q.state = RRetry(r)
    BY <1>3, RStateFine
  <1>. HIDE DEF q
  <1>5. Placed(q, got, there) /\ HexName(q, s)
    BY <1>1, <1>2, <1>3, <1>4, ReceiverStart, RRetryPlaced DEF RSame
  <1>. QED
    BY <1>1, <1>4, <1>5, KeepFiles, ReceiverMove

(* receive_zchallenge_wait() and receive_zrinit_wait(), as long as no data *)
(* follows                                                                 *)
LEMMA RGreetedInv ==
  ASSUME ZInv, RGetsZack \/ RGetsZrqinit \/ RGetsZfin, UNCHANGED s
  PROVE  ZInv'
  <1>. DEFINE d == Drop(r)
  <1>1. RKeep /\ toR' \in Seq(FromSender(s)) /\ \E st, ty : RGets(st, ty)
    BY ReceiverStart DEF RGetsZack, RGetsZrqinit, RGetsZfin
  <1>2. RFine(d) /\ d.state = r.state
    BY <1>1, RGetsStart
  <1>3. ASSUME NEW st \in {"ZRINIT", "ZCHALLENGE"}, RLoop([d EXCEPT !.state = st])
        PROVE  ZInv'
    <2>. DEFINE q == [d EXCEPT !.state = st]
    <2>. HIDE DEF d
    <2>1. RFine(q) /\ q.state = st
      BY <1>2, RStateFine
    <2>2. RLoop(q)
      BY <1>3
    <2>. HIDE DEF q
    <2>. QED
      BY <1>1, <2>1, <2>2, UnplacedMove
  <1>4. CASE RGetsZack
    <2>1. CASE RLoop([d EXCEPT !.state = "ZRINIT"])
      BY <1>3, <2>1
    <2>2. CASE RReturn(Abort(Errors(d, 1)))
      <3>. HIDE DEF d
      <3>. DEFINE e == Errors(d, 1)
      <3>1. RFine(e)
        BY <1>2, RErrorsFine
      <3>. HIDE DEF e
      <3>2. RFine(Abort(e)) /\ Abort(e).state = "ABORT"
        BY <3>1, RAbortFine
      <3>. QED
        BY <1>1, <2>2, <3>2, UnplacedMove DEF e
    <2>. QED
      BY <1>4, <2>1, <2>2 DEF RGetsZack
  <1>5. CASE RGetsZrqinit
    BY <1>3, <1>5 DEF RGetsZrqinit
  <1>6. CASE RGetsZfin
    <2>. DEFINE p == [d EXCEPT !.state = "ZFIN_WAIT"]
                q == Answer(p, RHeader(r, "ZFIN", 0))
    <2>1. RLoop(q)
      BY <1>6 DEF RGetsZfin
    <2>. HIDE DEF d
    <2>2. RFine(p) /\ p.state = "ZFIN_WAIT"
      BY <1>2, RStateFine
    <2>3. RHeader(r, "ZFIN", 0) \in Msg
      BY HeaderMsg DEF RHeader, MsgTypes, SubTypes
    <2>. HIDE DEF p
    <2>4. RFine(q) /\ q.state = "ZFIN_WAIT"
      BY <2>2, <2>3, AnswerFine
    <2>. HIDE DEF q
    <2>. QED
      BY <1>1, <2>1, <2>4, UnplacedMove
  <1>. QED
    BY <1>4, <1>5, <1>6
(* A header that data follows: behind ZFILE its kind tells that the sender *)
(* escapes control characters.                                             *)
LEMMA RGetsDataHeaderInv ==
  ASSUME ZInv, RGetsDataHeader, UNCHANGED s
  PROVE  ZInv'
  <1>. DEFINE d == Drop(r)
              b == (r.buf[1].e = "C")
              q == [d EXCEPT !.prior = r.state, !.state = "ZDATA", !.c = b]
  <1>1. /\ RKeep /\ toR' \in Seq(FromSender(s)) /\ RLoop(q)
        /\ RGets({"ZRINIT_WAIT"}, {"ZSINIT", "ZFILE"}) \/ RGets({"ZRPOS_WAIT"}, {"ZDATA"})
    BY ReceiverStart DEF RGetsDataHeader
  <1>2. /\ RFine(d) /\ RSame(d, r) /\ r.buf[1] \in FromSender(s)
        /\ \/ r.state = "ZRINIT_WAIT" /\ r.buf[1].t \in {"ZSINIT", "ZFILE"}
           \/ r.state = "ZRPOS_WAIT"
    BY <1>1, RGetsStart
  <1>. HIDE DEF d
  <1>3. b \in BOOLEAN
    BY DEF b
  <1>4. RFine(q) /\ q.f = r.f /\ q.pos = r.pos /\ q.state = "ZDATA" /\ q.prior = r.state
        /\ q.c = b
    <2>. HIDE DEF b
    <2>. QED
      BY <1>2, <1>3 DEF RFine, IsReceiver, RSame
  <1>. HIDE DEF q
  <1>5. CASE r.state = "ZRPOS_WAIT"
    <2>1. Opened(r) /\ Opened(q)
      BY <1>4, <1>5 DEF Opened
    <2>. QED
      BY <1>1, <1>4, <2>1, OpenMove
  <1>6. CASE r.state = "ZRINIT_WAIT" /\ r.buf[1].t \in {"ZSINIT", "ZFILE"}
    <2>1. r.buf[1].e # "C" => s.esc
      BY <1>2, <1>6 DEF FromSender
    <2>2. Placed(q, got, there) /\ HexName(q, s)
      BY <1>4, <1>6, <2>1 DEF Placed, Opened, HexName
    <2>. QED
      BY <1>1, <1>4, <2>2, KeepFiles, ReceiverMove
  <1>. QED
    BY <1>2, <1>5, <1>6

(* receive_zcrc_wait(): the sender is thought not to know ZCRC. *)
LEMMA RGetsZfileAgainInv ==
  ASSUME ZInv, RGetsZfileAgain, UNCHANGED s
  PROVE  ZInv'
  <1>. DEFINE d == Drop(r)
              e == Errors(d, 1)
              q == [e EXCEPT !.state = "ZRPOS"]
  <1>1. RKeep /\ toR' \in Seq(FromSender(s)) /\ RLoop(q) /\ RGets({"ZCRC_WAIT"}, {"ZFILE"})
    BY ReceiverStart DEF RGetsZfileAgain
  <1>2. RFine(d) /\ RSame(d, r) /\ r.state = "ZCRC_WAIT"
    BY <1>1, RGetsStart
  <1>. HIDE DEF d
  <1>3. RFine(e) /\ RSame(e, d)
    BY <1>2, RErrorsFine
  <1>. HIDE DEF e
  <1>4. RFine(q) /\ q.f = e.f /\ q.pos = e.pos /\ q.state = "ZRPOS"
    BY <1>3 DEF RFine, IsReceiver
  <1>. HIDE DEF q
  <1>5. Opened(r) /\ Opened(q) /\ q.f = r.f /\ q.pos = r.pos
    BY <1>2, <1>3, <1>4 DEF Opened, RSame
  <1>. QED
    BY <1>1, <1>4, <1>5, OpenMove

(* A file is open. *)
LEMMA OpenFile ==
  ASSUME ZInv, Opened(r) \/ r.state = "ZFILE"
  PROVE  /\ r.f \in 1..NFiles /\ got[r.f] \in Seq(Nat) /\ Len(got[r.f]) \in Nat
         /\ Opened(r) => r.pos = Len(got[r.f]) /\ r.f \in there
         /\ got \in [1..NFiles -> Seq(Nat)] /\ Size[r.f] \in Nat
  <1>1. r.f # 0 /\ r.f \in 0..NFiles /\ NFiles \in Nat
    BY ReceiverStart, ZLineAssumption DEF Placed
  <1>2. r.f \in 1..NFiles
    BY <1>1
  <1>3. got \in [1..NFiles -> Seq(Nat)] /\ got[r.f] \in Seq(Nat)
    BY <1>2, ReceiverStart DEF FilesInv
  <1>. QED
    BY <1>2, <1>3, ReceiverStart, ZLineAssumption DEF Placed

(* What a file that is open holds is replaced. *)
LEMMA FileWrite ==
  ASSUME ZInv, NEW f \in 1..NFiles, NEW c \in Seq(Nat), f \in there \/ c = <<>>,
         got' = [got EXCEPT ![f] = c], UNCHANGED <<there, done>>
  PROVE  FilesInv' /\ got'[f] = c
  BY ReceiverStart DEF FilesInv

(* receive_zfile(): a new file is empty, and one that is there is kept. *)
LEMMA RFileInv ==
  ASSUME ZInv, RFile, UNCHANGED s
  PROVE  ZInv'
  <1>. DEFINE n    == Len(got[r.f])
              new  == r.f \notin there \/ n > Size[r.f]
              pos  == IF new THEN 0 ELSE n
              st   == IF new THEN "ZRPOS" ELSE "ZCRC"
              q    == [r EXCEPT !.pos = pos, !.state = st]
  <1>1. /\ r.state = "ZFILE" /\ RLoop(q) /\ UNCHANGED <<toR, done>>
        /\ there' = there \cup {r.f}
        /\ IF n > Size[r.f] THEN Renamed(r.f) ELSE UNCHANGED got
    BY DEF RFile
  <1>2. /\ r.f \in 1..NFiles /\ got[r.f] \in Seq(Nat) /\ n \in Nat
        /\ got \in [1..NFiles -> Seq(Nat)] /\ Size[r.f] \in Nat
    BY <1>1, OpenFile
  <1>3. FilesInv
    BY ReceiverStart
  <1>4. pos \in Nat /\ st \in {"ZRPOS", "ZCRC"}
    BY <1>2
  <1>5. got' \in [1..NFiles -> Seq(Nat)] /\ Len(got'[r.f]) = pos
        /\ \A f \in 1..NFiles : f # r.f => got'[f] = got[f]
    <2>1. CASE n > Size[r.f]
      <3>1. got' = [got EXCEPT ![r.f] = <<>>] /\ pos = 0
        BY <1>1, <2>1 DEF Renamed
      <3>. QED
        BY <1>2, <3>1
    <2>2. CASE ~(n > Size[r.f])
      <3>1. got' = got /\ (r.f \notin there => got[r.f] = <<>>)
        BY <1>1, <1>2, <1>3, <2>2 DEF FilesInv
      <3>. QED
        BY <1>2, <2>2, <3>1
    <2>. QED
      BY <2>1, <2>2
  <1>6. FilesInv'
    BY <1>1, <1>2, <1>3, <1>5 DEF FilesInv
  <1>. HIDE DEF pos, st
  <1>7. RFine(q) /\ q.state = st /\ q.pos = pos /\ q.f = r.f
    BY <1>4, ReceiverStart DEF RFine, IsReceiver
  <1>. HIDE DEF q
  <1>8. Placed(q, got', there') /\ HexName(q, s)
    BY <1>1, <1>2, <1>4, <1>5, <1>7 DEF Placed, Opened, HexName
  <1>. QED
    BY <1>1, <1>6, <1>7, <1>8, ReceiverStart, ReceiverMove

(* receive_zcrc_wait(): a file that is begun anew is written from its      *)
(* start.                                                                  *)
LEMMA RGetsZcrcInv ==
  ASSUME ZInv, RGetsZcrc, UNCHANGED s
  PROVE  ZInv'
  <1>. DEFINE d == Drop(r)
  <1>1. UNCHANGED <<toR, there, done>> /\ RGets({"ZCRC_WAIT"}, {"ZCRC"})
    BY DEF RGetsZcrc
  <1>2. RFine(d) /\ RSame(d, r) /\ r.state = "ZCRC_WAIT"
    BY <1>1, RGetsStart
  <1>3. Opened(r)
    BY <1>2 DEF Opened
  <1>4. r.f \in 1..NFiles /\ r.pos = Len(got[r.f]) /\ r.f \in there
        /\ got \in [1..NFiles -> Seq(Nat)]
    BY <1>3, OpenFile
  <1>5. \/ UNCHANGED got /\ \E st \in {"ZSKIP", "ZRPOS"} : RLoop([d EXCEPT !.state = st])
        \/ Renamed(r.f) /\ RLoop([d EXCEPT !.pos = 0, !.state = "ZRPOS"])
    BY DEF RGetsZcrc
  <1>. HIDE DEF d
  <1>6. CASE UNCHANGED got /\ \E st \in {"ZSKIP", "ZRPOS"} : RLoop([d EXCEPT !.state = st])
    <2>1. PICK st \in {"ZSKIP", "ZRPOS"} : RLoop([d EXCEPT !.state = st])
      BY <1>6
    <2>. DEFINE q == [d EXCEPT !.state = st]
    <2>2. RFine(q) /\ RSame(q, d) /\ q.state = st /\ RLoop(q)
      BY <1>2, <2>1, RStateFine
    <2>. HIDE DEF q
    <2>3. Placed(q, got, there) /\ HexName(q, s)
      BY <1>2, <1>4, <2>1, <2>2 DEF Placed, Opened, HexName, RSame
    <2>4. RKeep
      BY <1>1, <1>6 DEF RKeep
    <2>. QED
      BY <1>1, <2>2, <2>3, <2>4, KeepFiles, ReceiverStart, ReceiverMove
  <1>7. CASE Renamed(r.f) /\ RLoop([d EXCEPT !.pos = 0, !.state = "ZRPOS"])
    <2>. DEFINE q == [d EXCEPT !.pos = 0, !.state = "ZRPOS"]
    <2>1. RFine(q) /\ q.f = r.f /\ q.pos = 0 /\ q.state = "ZRPOS" /\ RLoop(q)
      BY <1>2, <1>7 DEF RFine, IsReceiver, RSame
    <2>. HIDE DEF q
    <2>2. FilesInv' /\ got'[r.f] = <<>>
      <3>1. got' = [got EXCEPT ![r.f] = <<>>] /\ <<>> \in Seq(Nat)
        BY <1>7 DEF Renamed
      <3>. QED
        BY <1>1, <1>4, <3>1, FileWrite
    <2>3. Placed(q, got', there') /\ HexName(q, s)
      BY <1>1, <1>4, <2>1, <2>2 DEF Placed, Opened, HexName
    <2>. QED
      BY <1>1, <2>1, <2>2, <2>3, ReceiverStart, ReceiverMove
  <1>. QED
    BY <1>5, <1>6, <1>7

(* receive_zrpos_wait(): the file is reported as done, or asked for again. *)
LEMMA RGetsZeofInv ==
  ASSUME ZInv, RGetsZeof, UNCHANGED s
  PROVE  ZInv'
  <1>. DEFINE d == Drop(r)
  <1>1. UNCHANGED <<toR, got, there>> /\ RGets({"ZRPOS_WAIT"}, {"ZEOF"})
    BY DEF RGetsZeof
  <1>2. RFine(d) /\ RSame(d, r) /\ r.state = "ZRPOS_WAIT"
    BY <1>1, RGetsStart
  <1>3. Opened(r)
    BY <1>2 DEF Opened
  <1>4. r.f \in 1..NFiles
    BY <1>3, OpenFile
  <1>5. CASE r.buf[1].a = r.pos
    <2>. DEFINE p == [d EXCEPT !.f = 0, !.state = "ZRINIT_WAIT"]
                q == Answer(p, Header("ZRINIT", 0, TRUE))
    <2>1. RLoop(q) /\ done' = done \cup {r.f}
      BY <1>5 DEF RGetsZeof
    <2>. HIDE DEF d
    <2>2. 0 \in 0..NFiles
      BY ZLineAssumption
    <2>3. RFine(p) /\ p.state = "ZRINIT_WAIT"
      BY <1>2, <2>2 DEF RFine, IsReceiver
    <2>4. Header("ZRINIT", 0, TRUE) \in Msg
      BY FixedHeaderMsg DEF MsgTypes, SubTypes
    <2>. HIDE DEF p
    <2>5. RFine(q) /\ q.state = "ZRINIT_WAIT"
      BY <2>3, <2>4, AnswerFine
    <2>. HIDE DEF q
    <2>6. FilesInv'
      BY <1>1, <1>4, <2>1, ReceiverStart DEF FilesInv
    <2>. QED
      BY <1>1, <2>1, <2>5, <2>6, Unplaced, ReceiverStart, ReceiverMove
  <1>6. CASE r.buf[1].a # r.pos
    <2>. DEFINE e == Errors(d, 1)
                q == [e EXCEPT !.state = "ZRPOS"]
    <2>1. RLoop(q) /\ RKeep
      BY <1>1, <1>6 DEF RGetsZeof, RKeep
    <2>. HIDE DEF d
    <2>2. RFine(e) /\ RSame(e, d)
      BY <1>2, RErrorsFine
    <2>. HIDE DEF e
    <2>3. RFine(q) /\ RSame(q, e) /\ q.state = "ZRPOS"
      BY <2>2, RStateFine
    <2>. HIDE DEF q
    <2>4. Opened(q) /\ q.f = r.f /\ q.pos = r.pos
      BY <1>2, <2>2, <2>3 DEF Opened, RSame
    <2>. QED
      BY <1>1, <1>3, <2>1, <2>3, <2>4, ReceiverStart, OpenMove
  <1>. QED
    BY <1>5, <1>6

-----------------------------------------------------------------------------
(* Subpackets *)

(* The natural numbers are well-ordered. *)
LEMMA Minimum ==
  ASSUME NEW T, T \subseteq Nat, T # {}
  PROVE  \E x \in T : \A y \in T : x <= y
  <1>. DEFINE Less == {ss \in Nat \X Nat : ss[1] < ss[2]}
  <1>1. OpToRel(<, Nat) = Less
    BY Zenon DEF OpToRel
  <1>. HIDE DEF Less
  <1>2. \E x \in T : \A y \in T : ~ (<<y, x>> \in Less)
    BY <1>1, NatLessThanWellFounded, WFMin, Zenon
  <1>3. PICK x \in T : \A y \in T : ~ (<<y, x>> \in Less)
    BY <1>2
  <1>4. ASSUME NEW a \in Nat, NEW b \in Nat, a < b
        PROVE  <<a, b>> \in Less
    BY <1>4 DEF Less
  <1>5. ASSUME NEW y \in T
        PROVE  x <= y
    <2>1. x \in Nat /\ y \in Nat /\ ~(y < x)
      BY <1>3, <1>4
    <2>. QED
      BY <2>1
  <1>. QED
    BY <1>5

(* The subpacket that decode_zdata_bytes() finds is in packet_buffer. *)
LEMMA SubAtEnd ==
  ASSUME NEW q, SubAt(q) # 0
  PROVE  SubAt(q) \in 1..Len(q.buf) /\ HasEnd(q.buf[SubAt(q)])
  <1>. DEFINE ends == {i \in 1..Len(q.buf) : HasEnd(q.buf[i])}
              j    == CHOOSE j \in ends : \A k \in ends : j <= k
  <1>1. ends # {} /\ SubAt(q) = j
    BY DEF SubAt
  <1>2. ends \subseteq Nat
    OBVIOUS
  <1>3. j \in ends
    <2>. HIDE DEF ends
    <2>. QED
      BY <1>1, <1>2, Minimum
  <1>. QED
    BY <1>1, <1>3

LEMMA Accepted ==
  ASSUME ZInv, CrcOk(r)
  PROVE  r.buf # <<>> /\ HasEnd(r.buf[1]) /\ r.buf[1] \in FromSender(s) /\ r.buf[1] \in Msg
         /\ r.c = (r.buf[1].t # "ATTN")
  <1>1. SubAt(r) = 1 /\ r.c = (r.buf[1].t # "ATTN")
    BY DEF CrcOk
  <1>2. 1 \in 1..Len(r.buf) /\ HasEnd(r.buf[1])
    BY <1>1, SubAtEnd
  <1>3. r.buf # <<>> /\ RFine(r)
    BY <1>2, ReceiverStart
  <1>. QED
    BY <1>1, <1>2, <1>3, RDropFine

(* receive_zdata(): what is written makes the file longer by as much as    *)
(* file_position moves.                                                    *)
LEMMA RWriteInv ==
  ASSUME ZInv, RWrite, UNCHANGED s
  PROVE  ZInv'
  <1>. DEFINE m     == r.buf[1]
              units == [i \in 1..m.n |-> IF m.f = r.f THEN m.a + i ELSE 0]
              d     == Drop(r)
              pos   == d.pos + m.n
              st    == IF m.e = "W" THEN "ZRPOS_WAIT" ELSE "ZDATA"
              p     == [d EXCEPT !.pos = pos, !.errs = 0, !.state = st]
              q     == Answer(p, RHeader(r, "ZACK", p.pos))
  <1>1. /\ CrcOk(r) /\ r.state = "ZDATA" /\ r.prior = "ZRPOS_WAIT"
        /\ got' = [got EXCEPT ![r.f] = @ \o units] /\ (RLoop(p) \/ RLoop(q))
        /\ UNCHANGED <<toR, there, done>>
    BY DEF RWrite, RDataStep
  <1>2. r.buf # <<>> /\ m \in Msg
    BY <1>1, Accepted
  <1>3. RFine(d) /\ RSame(d, r)
    BY <1>2, ReceiverStart, RDropFine
  <1>4. Opened(r)
    BY <1>1 DEF Opened
  <1>5. /\ r.f \in 1..NFiles /\ got[r.f] \in Seq(Nat) /\ r.pos = Len(got[r.f])
        /\ r.f \in there
    BY <1>4, OpenFile
  <1>. DEFINE c == got[r.f] \o units
  <1>6. c \in Seq(Nat) /\ Len(c) = r.pos + m.n
    <2>1. m.n \in Nat /\ m.a \in Nat
      BY <1>2 DEF Msg
    <2>2. \A i \in 1..m.n : (IF m.f = r.f THEN m.a + i ELSE 0) \in Nat
      BY <2>1
    <2>. HIDE DEF m
    <2>3. units \in Seq(Nat) /\ Len(units) = m.n
      BY <2>1, <2>2
    <2>. HIDE DEF units
    <2>. QED
      BY <1>5, <2>3, ConcatProperties
  <1>7. FilesInv' /\ got'[r.f] = c
    <2>1. got' = [got EXCEPT ![r.f] = c]
      BY <1>1
    <2>. HIDE DEF c
    <2>. QED
      BY <1>1, <1>5, <1>6, <2>1, FileWrite
  <1>8. pos \in Nat /\ pos = Len(c)
    <2>1. m.n \in Nat /\ r.pos \in Nat /\ d.pos = r.pos
      BY <1>2, <1>3, ReceiverStart DEF Msg, RSame
    <2>. HIDE DEF c, m, d
    <2>. QED
      BY <1>6, <2>1
  <1>. HIDE DEF c, m, d, pos
  <1>9. RFine(p) /\ p.f = r.f /\ p.pos = pos /\ p.prior = "ZRPOS_WAIT"
        /\ p.state \in {"ZRPOS_WAIT", "ZDATA"}
    <2>1. st \in {"ZRPOS_WAIT", "ZDATA"}
      OBVIOUS
    <2>. HIDE DEF st
    <2>. QED
      BY <1>1, <1>3, <1>8, <2>1 DEF RFine, IsReceiver, RSame
  <1>. HIDE DEF p
  <1>10. RHeader(r, "ZACK", p.pos) \in Msg
    BY <1>8, <1>9, HeaderMsg DEF RHeader, MsgTypes, SubTypes
  <1>11. RFine(q) /\ RSame(q, p) /\ q.state = p.state
    BY <1>9, <1>10, AnswerFine
  <1>. HIDE DEF q
  <1>12. \E w \in {p, q} : RLoop(w)
    BY <1>1
  <1>13. ASSUME NEW w \in {p, q} PROVE RFine(w) /\ Placed(w, got', there') /\ HexName(w, s)
    <2>1. RFine(w) /\ w.f = r.f /\ w.pos = pos /\ w.prior = "ZRPOS_WAIT"
          /\ w.state \in {"ZRPOS_WAIT", "ZDATA"}
      BY <1>9, <1>11 DEF RSame
    <2>2. r.f # 0
      BY <1>5
    <2>. QED
      BY <1>1, <1>5, <1>7, <1>8, <2>1, <2>2 DEF Placed, Opened, HexName
  <1>. QED
    BY <1>1, <1>7, <1>12, <1>13, ReceiverStart, ReceiverMove

(* receive_zdata(): a name that is accepted is one. *)
LEMMA RNameInv ==
  ASSUME ZInv, RName, UNCHANGED s
  PROVE  ZInv'
  <1>. DEFINE m == r.buf[1]
              d == Drop(r)
              q == [d EXCEPT !.f = m.f, !.state = "ZFILE"]
  <1>1. /\ CrcOk(r) /\ r.state = "ZDATA" /\ r.prior = "ZRINIT_WAIT"
        /\ RLoop(q) /\ RKeep /\ toR' \in Seq(FromSender(s))
    BY ReceiverStart DEF RName, RDataStep
  <1>2. /\ r.buf # <<>> /\ m \in Msg /\ m \in FromSender(s) /\ HasEnd(m)
        /\ r.c = (m.t # "ATTN")
    BY <1>1, Accepted
  <1>3. m.t # "ATTN"
    <2>1. SUFFICES ASSUME m.t = "ATTN" PROVE FALSE
      OBVIOUS
    <2>2. InZsinit(s)
      BY <1>2, <2>1 DEF FromSender
    <2>3. s.esc
      BY <1>1, <1>2, <2>1, ReceiverStart DEF HexName
    <2>. QED
      BY <2>2, <2>3 DEF InZsinit
  <1>4. m.f # 0 /\ m.f \in 0..NFiles
    BY <1>2, <1>3 DEF HasEnd, IsSub, SubTypes, FromSender, Msg
  <1>5. RFine(d)
    BY <1>2, ReceiverStart, RDropFine
  <1>. HIDE DEF m, d
  <1>6. RFine(q) /\ q.f = m.f /\ q.state = "ZFILE"
    BY <1>4, <1>5 DEF RFine, IsReceiver
  <1>. HIDE DEF q
  <1>7. Placed(q, got, there) /\ HexName(q, s)
    BY <1>4, <1>6 DEF Placed, Opened, HexName
  <1>. QED
    BY <1>1, <1>6, <1>7, KeepFiles, ReceiverMove

(* receive_zdata(): back to where the subpacket was announced *)
LEMMA RDataCrcErrorInv ==
  ASSUME ZInv, RDataCrcError, UNCHANGED s
  PROVE  ZInv'
  <1>. DEFINE e == Errors(r, 1)
              p == [e EXCEPT !.state = r.prior]
              c == Cleared(p)
              m == IF r.prior = "ZRPOS_WAIT" THEN Header("ZRPOS", r.pos, TRUE)
                                             ELSE RHeader(r, "ZNAK", 0)
              q == Answer(c, m)
  <1>1. r.state = "ZDATA" /\ RReturn(q) /\ RKeep /\ toR' \in Seq(FromSender(s))
    BY ReceiverStart DEF RDataCrcError, RDataStep
  <1>2. RFine(e) /\ RSame(e, r)
    BY ReceiverStart, RErrorsFine
  <1>. HIDE DEF e
  <1>3. RFine(p) /\ RSame(p, e) /\ p.state = r.prior
    BY <1>2, RStateFine
  <1>. HIDE DEF p
  <1>4. RFine(c) /\ RSame(c, p) /\ c.state = p.state
    BY <1>3, RClearedFine
  <1>. HIDE DEF c
  <1>5. m \in Msg
    <2>1. Header("ZRPOS", r.pos, TRUE) \in Msg
      BY ReceiverStart, FixedHeaderMsg DEF MsgTypes, SubTypes
    <2>2. RHeader(r, "ZNAK", 0) \in Msg
      BY HeaderMsg DEF RHeader, MsgTypes, SubTypes
    <2>. QED
      BY <2>1, <2>2
  <1>. HIDE DEF m
  <1>6. RFine(q) /\ RSame(q, c) /\ q.state = c.state
    BY <1>4, <1>5, AnswerFine
  <1>. HIDE DEF q
  <1>7. q.f = r.f /\ q.pos = r.pos /\ q.state = r.prior
    BY <1>2, <1>3, <1>4, <1>6 DEF RSame
  <1>8. CASE r.prior = "ZRPOS_WAIT"
    <2>1. Opened(r) /\ Opened(q)
      BY <1>1, <1>7, <1>8 DEF Opened
    <2>. QED
      BY <1>1, <1>6, <1>7, <2>1, OpenMove
  <1>9. CASE r.prior = "ZRINIT_WAIT"
    BY <1>1, <1>6, <1>7, <1>9, UnplacedMove
  <1>. QED
    BY <1>1, <1>8, <1>9, ReceiverStart DEF Placed

LEMMA RHandleInv ==
  ASSUME ZInv, RHandle, UNCHANGED s
  PROVE  ZInv'
  BY RDoneInv, RGreetInv, RAskInv, RSendZskipInv, RGarbledInv, RUnexpectedInv, RNakInv,
     RGreetedInv, RGetsDataHeaderInv, RFileInv, RGetsZcrcInv, RGetsZfileAgainInv, RGetsZeofInv,
     RWriteInv, RNameInv, RDataCrcErrorInv
  DEF RHandle

-----------------------------------------------------------------------------
(* The calls of zmodem(), the timeouts, the users and the line *)

(* Both ends may change, the line only by what is read. *)
LEMMA EndsMove ==
  ASSUME ZInv, NEW q, q = s', IsSender(q), InFile(q), Later(s, q), q.out \in Seq(FromSender(q)),
         NEW p, p = r', RFine(p), Placed(p, got, there), HexName(p, s),
         toR' \in Seq(FromSender(s)), toS' \in Seq(Msg), turn' \subseteq {"s", "r"},
         UNCHANGED <<opt, got, there, done>>
  PROVE  ZInv'
  <1>1. toR' \in Seq(FromSender(q)) /\ p.buf \in Seq(FromSender(q))
    BY LaterMessages DEF RFine
  <1>2. FromSender(s)' = FromSender(q)
    BY DEF FromSender, InZsinit
  <1>3. SenderInv'
    <2>1. IsSender(s)' /\ InFile(s)'
      BY DEF IsSender, InFile
    <2>. QED
      BY <1>1, <1>2, <2>1 DEF ZInv, SenderInv
  <1>4. ReceiverInv'
    <2>1. IsReceiver(r)' /\ Placed(r, got, there)' /\ FilesInv'
      BY DEF RFine, IsReceiver, Placed, Opened, ZInv, ReceiverInv, FilesInv
    <2>2. HexName(r, s)'
      BY DEF HexName, Later
    <2>. QED
      BY <1>1, <1>2, <2>1, <2>2 DEF ReceiverInv
  <1>. QED
    BY <1>3, <1>4 DEF ZInv

LEMMA SCallInv ==
  ASSUME ZInv, NEW k \in 0..Len(toS), SCall(k), UNCHANGED rVars
  PROVE  ZInv'
  <1>. DEFINE b == s.buf \o SubSeq(toS, 1, k)
              q == [s EXCEPT !.buf = b]
  <1>1. s' = q /\ toS' = SubSeq(toS, k + 1, Len(toS)) /\ turn' = {"s"}
        /\ UNCHANGED <<toR, opt, r, got, there, done>>
    BY DEF SCall, rVars
  <1>2. toS \in Seq(Msg) /\ s.buf \in Seq(Msg) /\ k \in Nat /\ k <= Len(toS)
    BY SenderStart DEF IsSender
  <1>3. SubSeq(toS, 1, k) \in Seq(Msg) /\ SubSeq(toS, k + 1, Len(toS)) \in Seq(Msg)
    BY <1>2
  <1>4. b \in Seq(Msg)
    BY <1>2, <1>3
  <1>. HIDE DEF b
  <1>5. IsSender(q) /\ Same(q, s) /\ q.state = s.state /\ q.out = s.out
    BY <1>4, SenderStart DEF IsSender, Same
  <1>. HIDE DEF q
  <1>6. InFile(q) /\ Later(s, q) /\ q.out \in Seq(FromSender(q))
    <2>1. InFile(q) /\ Later(s, q)
      BY <1>5, SenderStart DEF InFile, Later, InZsinit, Same
    <2>. QED
      BY <1>5, <2>1, LaterMessages DEF ZInv, SenderInv
  <1>. QED
    BY <1>1, <1>3, <1>5, <1>6, ReceiverStart, EndsMove

LEMMA RCallInv ==
  ASSUME ZInv, NEW k \in 0..Len(toR), RCall(k), UNCHANGED s
  PROVE  ZInv'
  <1>. DEFINE b == r.buf \o SubSeq(toR, 1, k)
              q == [r EXCEPT !.buf = b]
  <1>1. r' = q /\ toR' = SubSeq(toR, k + 1, Len(toR)) /\ turn' = {"r"}
        /\ UNCHANGED <<toS, opt, got, there, done>>
    BY DEF RCall, RKeep
  <1>2. toR \in Seq(FromSender(s)) /\ r.buf \in Seq(FromSender(s)) /\ k \in Nat /\ k <= Len(toR)
    BY ReceiverStart DEF RFine
  <1>3. SubSeq(toR, 1, k) \in Seq(FromSender(s)) /\ SubSeq(toR, k + 1, Len(toR)) \in Seq(FromSender(s))
    BY <1>2
  <1>4. b \in Seq(FromSender(s)) /\ b \in Seq(Msg)
    <2>1. b \in Seq(FromSender(s))
      BY <1>2, <1>3
    <2>. QED
      BY <2>1, FromSenderClosed, SeqMonotonic
  <1>. HIDE DEF b
  <1>5. RFine(q) /\ RSame(q, r) /\ q.state = r.state /\ q.c = r.c
    BY <1>4, ReceiverStart DEF RFine, IsReceiver, RSame
  <1>. HIDE DEF q
  <1>6. Placed(q, got, there) /\ HexName(q, s)
    BY <1>5, ReceiverStart, SamePlaced
  <1>7. s.out \in Seq(FromSender(s)) /\ toS \in Seq(Msg)
    BY DEF ZInv, SenderInv
  <1>. QED
    BY <1>1, <1>3, <1>5, <1>6, <1>7, SenderStart, EndsMove

(* A user ends the transfer. *)
LEMMA UserAbortInv ==
  ASSUME ZInv, \/ SUserAbort /\ UNCHANGED rVars
               \/ RUserAbort /\ UNCHANGED s
  PROVE  ZInv'
  <1>1. toR \in Seq(FromSender(s)) /\ toS \in Seq(Msg) /\ turn \subseteq {"s", "r"}
        /\ s.out \in Seq(FromSender(s))
    BY DEF ZInv, SenderInv
  <1>2. CASE SUserAbort /\ UNCHANGED rVars
    <2>. DEFINE q == Stop(s, "ABORT")
    <2>1. s' = q /\ UNCHANGED <<toR, toS, turn, opt, r, got, there, done>>
      BY <1>2 DEF SUserAbort, rVars
    <2>2. IsSender(q) /\ Same(q, s) /\ q.state \in {s.state, "ABORT"} /\ q.out = s.out
      BY SenderStart DEF IsSender, Same, Stop, Xfers
    <2>. HIDE DEF q
    <2>3. InFile(q) /\ Later(s, q)
      BY <2>2, SenderStart DEF InFile, FileStates, Later, InZsinit, Same
    <2>4. q.out \in Seq(FromSender(q))
      BY <1>1, <2>2, <2>3, LaterMessages
    <2>. QED
      BY <1>1, <2>1, <2>2, <2>3, <2>4, ReceiverStart, EndsMove
  <1>3. CASE RUserAbort /\ UNCHANGED s
    <2>. DEFINE q == Stop(r, "ABORT")
    <2>1. r' = q /\ UNCHANGED <<toR, toS, turn, opt, s, got, there, done>>
      BY <1>3 DEF RUserAbort, RKeep
    <2>2. RFine(q) /\ RSame(q, r) /\ q.state = r.state /\ q.c = r.c
      BY ReceiverStart DEF RFine, IsReceiver, RSame, Stop, Xfers
    <2>. HIDE DEF q
    <2>3. Placed(q, got, there) /\ HexName(q, s)
      BY <2>2, ReceiverStart, SamePlaced
    <2>. QED
      BY <1>1, <2>1, <2>2, <2>3, SenderStart, EndsMove
  <1>. QED
    BY <1>2, <1>3

(* check_timeout() *)
LEMMA CheckTimeoutFine ==
  ASSUME NEW z, NEW q, Fine(q, z)
  PROVE  /\ Fine(CheckTimeout(q), z) /\ Same(CheckTimeout(q), q)
         /\ CheckTimeout(q).state \in {q.state, "ABORT"}
  <1>. DEFINE v == q.timeouts + 1
              p == [q EXCEPT !.timeouts = v]
              e == Errors(p, 1)
  <1>1. v \in Nat
    BY DEF Fine, IsSender
  <1>2. CheckTimeout(q) \in {e, Abort(e)}
    BY DEF CheckTimeout
  <1>. HIDE DEF v
  <1>3. Fine(p, z) /\ Same(p, q) /\ p.state = q.state
    BY <1>1 DEF Fine, IsSender, Same
  <1>. HIDE DEF p
  <1>4. Fine(e, z) /\ Same(e, p) /\ e.state \in {p.state, "ABORT"}
    BY <1>3, ErrorsFine
  <1>. HIDE DEF e
  <1>5. Fine(Abort(e), z) /\ Same(Abort(e), e) /\ Abort(e).state = "ABORT"
    BY <1>4, AbortFine
  <1>. QED
    BY <1>2, <1>3, <1>4, <1>5 DEF Same

LEMMA RCheckTimeoutFine ==
  ASSUME NEW q, RFine(q)
  PROVE  RFine(CheckTimeout(q)) /\ RSame(CheckTimeout(q), q)
  <1>. DEFINE v == q.timeouts + 1
              p == [q EXCEPT !.timeouts = v]
              e == Errors(p, 1)
  <1>1. v \in Nat
    BY DEF RFine, IsReceiver
  <1>2. CheckTimeout(q) \in {e, Abort(e)}
    BY DEF CheckTimeout
  <1>. HIDE DEF v
  <1>3. RFine(p) /\ RSame(p, q)
    BY <1>1 DEF RFine, IsReceiver, RSame
  <1>. HIDE DEF p
  <1>4. RFine(e) /\ RSame(e, p)
    BY <1>3, RErrorsFine
  <1>. HIDE DEF e
  <1>5. RFine(Abort(e)) /\ RSame(Abort(e), e)
    BY <1>4, RAbortFine
  <1>. QED
    BY <1>2, <1>3, <1>4, <1>5 DEF RSame

(* The sender sends its request or its next block again. *)
LEMMA STimedOutFine ==
  ASSUME ZInv, SCanTimeout, NEW q, q = STimedOut
  PROVE  IsSender(q) /\ InFile(q) /\ Later(s, q) /\ q.out \in Seq(FromSender(q))
  <1>. DEFINE c == CheckTimeout(s)
              p == [c EXCEPT !.reliable = FALSE]
              w == [p EXCEPT !.ackreq = TRUE, !.waiting = FALSE]
              b == [p EXCEPT !.state = Retry(s.state)]
  <1>1. q = IF s.state = "ZDATA" THEN Stream(w) ELSE b
    BY DEF STimedOut
  <1>2. s.state \in SWaits \/ s.state = "ZDATA"
    BY DEF SCanTimeout
  <1>3. \A z : Later(s, z) => Fine(c, z) /\ Same(c, s) /\ c.state \in {s.state, "ABORT"}
    BY SenderStart, CheckTimeoutFine
  <1>. HIDE DEF c
  <1>4. \A z : Later(s, z) => Fine(p, z) /\ Same(p, s) /\ p.state \in {s.state, "ABORT"}
    BY <1>3 DEF Fine, IsSender, Same
  <1>. HIDE DEF p
  <1>5. CASE s.state = "ZDATA"
    <2>1. \A z : Later(s, z) => Fine(w, z) /\ Same(w, s) /\ w.state \in {"ZDATA", "ABORT"}
      BY <1>4, <1>5 DEF Fine, IsSender, Same
    <2>. HIDE DEF w
    <2>2. w.f \in 1..NFiles /\ w.pos <= Size[w.f] /\ w.esc = s.esc
          /\ w.state \in {"ZDATA", "ABORT"}
      <3>1. s.f <= NFiles /\ s.f \in 1..(NFiles + 1) /\ s.pos <= Size[s.f]
        BY <1>5, SenderStart DEF InFile, FileStates, IsSender
      <3>2. s.f \in 1..NFiles
        BY <3>1, ZLineAssumption
      <3>. QED
        BY <2>1, <3>1, <3>2, SenderStart DEF Same
    <2>3. \A z : Later(s, z) => Fine(q, z) /\ q.state = w.state /\ q.f = w.f /\ q.esc = w.esc
                                /\ q.pos <= Size[w.f]
      BY <1>1, <1>5, <2>1, <2>2, StreamFine
    <2>4. q.state = w.state /\ q.f = w.f /\ q.esc = w.esc /\ q.pos <= Size[w.f]
      BY <2>3, SenderStart
    <2>5. InFile(q) /\ Later(s, q)
      BY <1>5, <2>2, <2>4 DEF InFile, FileStates, Later, InZsinit
    <2>. QED
      BY <2>3, <2>5 DEF Fine
  <1>6. CASE s.state \in SWaits
    <2>1. s.state # "ZDATA"
      BY <1>6 DEF SWaits
    <2>2. \A z : Later(s, z) => Fine(b, z) /\ Same(b, s) /\ b.state = Retry(s.state)
      BY <1>4 DEF Fine, IsSender, Same
    <2>. HIDE DEF b
    <2>3. Same(b, s) /\ b.state = Retry(s.state)
      BY <2>2, SenderStart
    <2>4. InFile(b) /\ Later(s, b)
      BY <1>6, <2>3, SenderStart, RetryState
    <2>. QED
      BY <1>1, <2>1, <2>2, <2>4 DEF Fine
  <1>. QED
    BY <1>2, <1>5, <1>6

LEMMA RTimedOutFine ==
  ASSUME ZInv, RCanTimeout, NEW q, q = RTimedOut
  PROVE  RFine(q) /\ Placed(q, got, there) /\ HexName(q, s)
  <1>. DEFINE c == CheckTimeout(r)
  <1>1. r.state \in RWaits /\ q = [c EXCEPT !.state = RRetry(r)]
    BY DEF RCanTimeout, RTimedOut
  <1>2. RFine(c) /\ RSame(c, r)
    BY ReceiverStart, RCheckTimeoutFine
  <1>. HIDE DEF c
  <1>3. RFine(q) /\ RSame(q, c) /\ q.state = RRetry(r)
    BY <1>1, <1>2, RStateFine
  <1>4. q.f = r.f /\ q.pos = r.pos
    BY <1>2, <1>3 DEF RSame
  <1>. QED
    BY <1>1, <1>3, <1>4, ReceiverStart, RRetryPlaced

LEMMA TimeoutInv ==
  ASSUME ZInv, Timeout
  PROVE  ZInv'
  <1>1. /\ (SCanTimeout /\ s' = STimedOut) \/ s' = s
        /\ (RCanTimeout /\ r' = RTimedOut) \/ r' = r
        /\ turn' \subseteq {"s", "r"} /\ UNCHANGED <<toR, toS, opt, got, there, done>>
    BY DEF Timeout, zlineVars
  <1>2. toR \in Seq(FromSender(s)) /\ toS \in Seq(Msg) /\ s.out \in Seq(FromSender(s))
    BY DEF ZInv, SenderInv
  <1>. DEFINE q == s'
              p == r'
  <1>3. IsSender(q) /\ InFile(q) /\ Later(s, q) /\ q.out \in Seq(FromSender(q))
    BY <1>1, <1>2, SenderStart, STimedOutFine
  <1>4. RFine(p) /\ Placed(p, got, there) /\ HexName(p, s)
    BY <1>1, ReceiverStart, RTimedOutFine
  <1>. HIDE DEF q, p
  <1>. QED
    BY <1>1, <1>2, <1>3, <1>4, EndsMove DEF q, p

LEMMA LineNoiseInv ==
  ASSUME ZInv, LineNoise, UNCHANGED <<s, turn, opt, rVars>>
  PROVE  ZInv'
  <1>1. toR \in Seq(FromSender(s)) /\ toS \in Seq(Msg) /\ s.out \in Seq(FromSender(s))
        /\ turn \subseteq {"s", "r"} /\ UNCHANGED <<s, turn, opt, r, got, there, done>>
    BY DEF ZInv, SenderInv, rVars
  <1>2. \A m : Damage(m) \subseteq Damages
    BY ZLineAssumption DEF Damage, Damages
  <1>3. ASSUME NEW S, Closed(S), NEW l \in Seq(S), NEW i \in 1..Len(l), NEW x \in Damages
        PROVE  [l EXCEPT ![i] = Spoilt(@, x)] \in Seq(S)
    <2>1. l[i] \in S
      BY <1>3
    <2>2. Spoilt(l[i], x) \in S
      BY <1>3, <2>1 DEF Closed
    <2>. QED
      BY <1>3, <2>2, ExceptSeq
  <1>4. toR' \in Seq(FromSender(s)) /\ toS' \in Seq(Msg)
    <2>1. CASE \E i \in 1..Len(toR) : \E k \in Damage(toR[i]) :
                 toR' = [toR EXCEPT ![i] = Spoilt(@, k)] /\ UNCHANGED toS
      <3>1. PICK i \in 1..Len(toR), k \in Damages : toR' = [toR EXCEPT ![i] = Spoilt(@, k)]
        BY <1>2, <2>1
      <3>. QED
        BY <1>1, <1>3, <2>1, <3>1, FromSenderClosed
    <2>2. CASE \E i \in 1..Len(toS) : \E k \in Damage(toS[i]) :
                 toS' = [toS EXCEPT ![i] = Spoilt(@, k)] /\ UNCHANGED toR
      <3>1. PICK i \in 1..Len(toS), k \in Damages : toS' = [toS EXCEPT ![i] = Spoilt(@, k)]
        BY <1>2, <2>2
      <3>. QED
        BY <1>1, <1>3, <2>2, <3>1, MsgClosed
    <2>. QED
      BY <2>1, <2>2 DEF LineNoise
  <1>. QED
    BY <1>1, <1>4, SenderStart, ReceiverStart, EndsMove

-----------------------------------------------------------------------------
(* The specification *)

LEMMA InitInv ==
  ASSUME ZInit
  PROVE  ZInv
  <1>1. PICK p \in ZSetups :
           /\ opt = [sesc |-> p.sesc, resc |-> p.resc, chal |-> p.chal,
                     noisy |-> p.noisy, keys |-> p.keys, auto |-> p.auto]
           /\ s = [SStatus(p.waiting) EXCEPT !.state = IF p.auto THEN "ZRQINIT_WAIT" ELSE @]
           /\ r = RStatus(p.prior)
           /\ toR = IF p.auto THEN Consoled ELSE <<>>
           /\ there = DOMAIN p.disk
           /\ got = [f \in 1..NFiles |-> IF f \in there THEN p.disk[f] ELSE <<>>]
    BY DEF ZInit
  <1>2. /\ {p.sesc, p.resc, p.waiting} \subseteq BOOLEAN /\ DOMAIN p.disk \subseteq 1..NFiles
        /\ \A f \in DOMAIN p.disk : p.disk[f] \in Seq(Nat)
    BY ZSetupAssumption
  <1>3. turn = {} /\ done = {} /\ toS = <<>>
    BY DEF ZInit
  <1>4. NFiles \in Nat \ {0} /\ 1 \in 1..(NFiles + 1) /\ 0 \in 0..NFiles /\ 1 <= NFiles
    BY ZLineAssumption
  <1>5. \A S : <<>> \in Seq(S)
    OBVIOUS
  <1>6. /\ IsSender(s) /\ s.state \in {"INIT", "ZRQINIT_WAIT"} /\ s.f = 1
        /\ s.out = <<>>
    <2>. DEFINE st == IF p.auto THEN "ZRQINIT_WAIT" ELSE "INIT"
    <2>1. s = [SStatus(p.waiting) EXCEPT !.state = st] /\ st \in {"INIT", "ZRQINIT_WAIT"}
      BY <1>1 DEF SStatus
    <2>. HIDE DEF st
    <2>2. WindowReliable \in Nat \ {0} /\ BlockMax \in Blocks /\ p.waiting \in BOOLEAN
      BY <1>2, ZSenderAssumption, BlockSizes
    <2>. QED
      BY <1>4, <1>5, <2>1, <2>2 DEF SStatus, IsSender, Xfers
  <1>7. InFile(s)
    BY <1>4, <1>6 DEF InFile
  <1>8. toR \in Seq(FromSender(s))
    <2>1. Header("ZRQINIT", 0, TRUE) \in FromSender(s)
      BY FixedHeaderMsg DEF FromSender, MsgTypes, SubTypes
    <2>2. Spoilt(Header("ZRQINIT", 0, TRUE), "tail") \in FromSender(s)
      BY <2>1, SpoiltMsg DEF Damages
    <2>. DEFINE m == Spoilt(Header("ZRQINIT", 0, TRUE), "tail")
    <2>3. Consoled = <<m>> /\ m \in FromSender(s)
      BY <2>2 DEF Consoled
    <2>. HIDE DEF m
    <2>4. Consoled \in Seq(FromSender(s))
      BY <2>3
    <2>. QED
      BY <1>1, <1>5, <2>4
  <1>9. SenderInv
    BY <1>1, <1>2, <1>3, <1>5, <1>6, <1>7, <1>8 DEF SenderInv
  <1>10. IsReceiver(r) /\ r.state = "INIT" /\ r.buf = <<>>
    BY <1>1, <1>4, <1>5 DEF RStatus, IsReceiver, Xfers
  <1>11. FilesInv
    <2>1. \A f \in 1..NFiles : (IF f \in there THEN p.disk[f] ELSE <<>>) \in Seq(Nat)
      BY <1>1, <1>2, <1>5
    <2>. QED
      BY <1>1, <1>2, <1>3, <2>1 DEF FilesInv
  <1>12. ReceiverInv
    BY <1>5, <1>10, <1>11, Unplaced DEF ReceiverInv
  <1>. QED
    BY <1>9, <1>12 DEF ZInv

LEMMA NextInv ==
  ASSUME ZInv, [ZNext]_zmodemVars
  PROVE  ZInv'
  <1>1. CASE SenderStep
    BY <1>1, SHandleInv, SCallInv DEF SenderStep
  <1>2. CASE ReceiverStep
    BY <1>2, RHandleInv, RCallInv DEF ReceiverStep
  <1>3. CASE Timeout
    BY <1>3, TimeoutInv
  <1>4. CASE Environment
    BY <1>4, LineNoiseInv, UserAbortInv DEF Environment
  <1>5. CASE UNCHANGED zmodemVars
    <2>1. UNCHANGED <<toR, toS, turn, opt, s, r, got, there, done>>
      BY <1>5 DEF zmodemVars, zlineVars, rVars
    <2>2. toR' \in Seq(FromSender(s)) /\ toS' \in Seq(Msg) /\ turn' \subseteq {"s", "r"}
          /\ s.out \in Seq(FromSender(s))
      BY <2>1 DEF ZInv, SenderInv
    <2>. QED
      BY <2>1, <2>2, SenderStart, ReceiverStart, EndsMove
  <1>. QED
    BY <1>1, <1>2, <1>3, <1>4, <1>5 DEF ZNext

(* The inductive invariant holds. *)
THEOREM ZmodemInvariant == ZSpec => []ZInv
  <1>1. ZInit => ZInv
    BY InitInv
  <1>2. ZInv /\ [ZNext]_zmodemVars => ZInv'
    BY NextInv
  <1>. QED
    BY <1>1, <1>2, PTL DEF ZSpec

(***************************************************************************)
(* The types of a transfer: block_size stays between its bounds whatever   *)
(* is halved and doubled, send_zdata() never counts its window below one,  *)
(* and receive_zcrc() and receive_zrpos() find a file_stream.              *)
(***************************************************************************)
THEOREM ZmodemTypes == ZSpec => []ZTypeOK
  <1>1. ZInv => ZTypeOK
    <2>1. SUFFICES ASSUME ZInv PROVE ZTypeOK
      OBVIOUS
    <2>2. IsSender(s) /\ s.block \in BlockMin..BlockMax
      BY <2>1, SenderStart, BlockSizes DEF IsSender
    <2>3. IsReceiver(r) /\ Placed(r, got, there) /\ FilesInv
      BY <2>1, ReceiverStart DEF RFine
    <2>4. turn \subseteq {"s", "r"}
      BY <2>1 DEF ZInv, SenderInv
    <2>. QED
      BY <2>2, <2>3, <2>4
      DEF ZTypeOK, IsSender, IsReceiver, Xfers, FilesInv, Placed, Opened
  <1>. QED
    BY <1>1, ZmodemInvariant, PTL

(***************************************************************************)
(* Through new, resumed, renamed and refused files, damaged subpackets and *)
(* timeouts, zmodem_receive() writes at the file_position it reports.      *)
(***************************************************************************)
THEOREM Position == ZSpec => []PosIsLength
  <1>1. ZInv => PosIsLength
    BY ReceiverStart DEF PosIsLength, Receiving, Placed, Opened
  <1>. QED
    BY <1>1, ZmodemInvariant, PTL
=============================================================================
