---------------------------- MODULE TelnetProofs ----------------------------
(***************************************************************************)
(* The parser of telnet_read() is in one state only, at both ends and      *)
(* whatever they are sent, and it undoes what telnet_write() does to a     *)
(* byte.                                                                   *)
(***************************************************************************)
EXTENDS Telnet, TLAPS

(* nvt and state of one end; the contents of its buffers do not matter. *)
IsNvt(n) ==
  n \in [init : BOOLEAN, on : SUBSET Options, iac : BOOLEAN, dowill : Verbs \cup {""},
         sub : BOOLEAN, sb : {n.sb}, rcr : BOOLEAN, wcr : {n.wcr}, wbuf : {n.wbuf},
         msg : BOOLEAN, connected : BOOLEAN, bare : BOOLEAN, out : {n.out}, in : {n.in}]

(* The parser waits for one thing at a time. *)
Parser(n) == IsNvt(n) /\ (n.dowill # "" => ~n.iac /\ ~n.sub)

(* p is n after a part of a call that does not start the negotiation again *)
(* and leaves write_buffer alone.                                          *)
Parsed(n, p) == Parser(p) /\ p.init = n.init /\ p.wbuf = n.wbuf

-----------------------------------------------------------------------------
LEMMA SubResponseParsed ==
  ASSUME NEW n, Parser(n), NEW o, NEW data
  PROVE  Parsed(n, SubResponse(n, o, data))
  BY DEF Parser, IsNvt, Parsed, SubResponse

LEMMA SubnegParsed ==
  ASSUME NEW n, Parser(n), n.sub, NEW ch
  PROVE  Parsed(n, SubnegByte(n, ch))
  <1>. DEFINE p == [n EXCEPT !.iac = FALSE, !.sub = FALSE]
  <1>1. Parsed(n, p)
    BY DEF Parser, IsNvt, Parsed
  <1>2. Parsed(n, [n EXCEPT !.iac = TRUE]) /\ Parsed(n, [n EXCEPT !.sb = Append(@, ch)])
        /\ Parsed(n, n)
    BY DEF Parser, IsNvt, Parsed
  <1>. HIDE DEF p
  <1>3. Parsed(n, HandleSubneg(p))
    BY <1>1, SubResponseParsed DEF HandleSubneg, Parsed
  <1>4. SubnegByte(n, ch) \in {HandleSubneg(p), n, [n EXCEPT !.iac = TRUE],
                               [n EXCEPT !.sb = Append(@, ch)]}
    BY DEF SubnegByte, p
  <1>. QED
    BY <1>2, <1>3, <1>4

(* An option is answered, and noted only if it is one of Options. *)
LEMMA OptionParsed ==
  ASSUME NEW n, Parser(n), NEW o, NEW size
  PROVE  Parsed(n, OptionByte(n, o, size))
  <1>. DEFINE p == [n EXCEPT !.dowill = ""]
              yes == [p EXCEPT !.on = @ \cup {o}]
              no == [p EXCEPT !.on = @ \ {o}]
  <1>1. Parsed(n, p) /\ Parsed(n, no) /\ (o \in Options => Parsed(n, yes))
    BY DEF Parser, IsNvt, Parsed
  <1>. HIDE DEF p, yes, no
  <1>2. ASSUME NEW a, Parsed(n, a), NEW verb PROVE Parsed(n, Respond(a, verb, o))
    BY <1>2 DEF Parser, IsNvt, Parsed, Respond
  <1>3. ASSUME NEW a, Parsed(n, a) PROVE Parsed(n, SendNaws(a, size))
    BY <1>3, SubResponseParsed DEF SendNaws, Parsed
  <1>4. \/ OptionByte(n, o, size) \in {Respond(p, "WONT", o), Respond(p, "DONT", o), no}
        \/ /\ o \in Options
           /\ OptionByte(n, o, size) \in {SendNaws(Respond(yes, "WILL", o), size),
                                          SendNaws(yes, size), yes, Respond(yes, "WILL", o)}
    BY DEF OptionByte, Refuse, Options, p, yes, no
  <1>. QED
    BY <1>1, <1>2, <1>3, <1>4

LEMMA AsciiParsed ==
  ASSUME NEW n, Parser(n), NEW ch
  PROVE  Parsed(n, AsciiByte(n, ch))
  <1>1. Parsed(n, n) /\ Parsed(n, [n EXCEPT !.rcr = FALSE]) /\ Parsed(n, [n EXCEPT !.rcr = TRUE])
    BY DEF Parser, IsNvt, Parsed
  <1>2. ASSUME NEW a, Parsed(n, a), NEW bytes PROVE Parsed(n, Deliver(a, bytes))
    BY <1>2 DEF Parser, IsNvt, Parsed, Deliver
  <1>. DEFINE p == [n EXCEPT !.rcr = FALSE]
  <1>3. AsciiByte(n, ch) \in
          {n, [n EXCEPT !.rcr = TRUE], Deliver(p, <<"CR", "LF">>), Deliver(p, <<"LF">>),
           Deliver(p, <<"CR">>), Deliver(n, <<"CR", NUL>>), Deliver(p, <<"CR", ch>>),
           Deliver(p, <<ch>>)}
    BY DEF AsciiByte
  <1>. HIDE DEF p
  <1>4. Parsed(n, p)
    BY <1>1 DEF p
  <1>. QED
    BY <1>1, <1>2, <1>3, <1>4

(* Whatever byte telnet_read() is given, the parser is in one state. *)
LEMMA ReadByteParsed ==
  ASSUME NEW n, Parser(n), NEW ch, NEW size
  PROVE  Parsed(n, ReadByte(n, ch, size))
  <1>1. CASE n.sub
    BY <1>1, SubnegParsed DEF ReadByte
  <1>2. CASE ~n.sub /\ n.dowill # ""
    BY <1>2, OptionParsed DEF ReadByte
  <1>3. CASE ~n.sub /\ n.dowill = "" /\ ch = "IAC"
    BY <1>3 DEF ReadByte, Deliver, Parser, IsNvt, Parsed
  <1>4. CASE ~n.sub /\ n.dowill = "" /\ ch # "IAC" /\ n.iac
    <2>1. ReadByte(n, ch, size) = CommandByte(n, ch)
      BY <1>4 DEF ReadByte
    <2>2. Parsed(n, CommandByte(n, ch))
      BY <1>4 DEF CommandByte, Parser, IsNvt, Parsed, Verbs
    <2>. QED
      BY <2>1, <2>2
  <1>5. CASE ~n.sub /\ n.dowill = "" /\ ch # "IAC" /\ ~n.iac
    <2>1. ReadByte(n, ch, size) \in {Deliver(n, <<ch>>), AsciiByte(n, ch)}
      BY <1>5 DEF ReadByte
    <2>2. Parsed(n, Deliver(n, <<ch>>))
      BY DEF Deliver, Parser, IsNvt, Parsed
    <2>. QED
      BY <2>1, <2>2, AsciiParsed
  <1>. QED
    BY <1>1, <1>2, <1>3, <1>4, <1>5 DEF Parser, IsNvt

-----------------------------------------------------------------------------
(***************************************************************************)
(* The inductive invariant: what TTypeOK says, with the rest of the state  *)
(* of the parser.  An end that has not begun has nothing in write_buffer,  *)
(* and only a full socket leaves something there.                          *)
(***************************************************************************)
EndOK(n) ==
  /\ Parser(n)
  /\ n.init => n.on = {} /\ n.wbuf = <<>>
  /\ n.wbuf # <<>> => blocks > 0

TelnetInv ==
  /\ blocks \in 0..MaxBlocks /\ resized \in BOOLEAN /\ down \in [{"c", "h"} -> BOOLEAN]
  /\ nvt = [e \in {"c", "h"} |-> nvt[e]]
  /\ \A e \in {"c", "h"} : EndOK(nvt[e])

(* telnet_send_options() *)
LEMMA SendOptionsOK ==
  ASSUME NEW n, Parser(n), NEW host
  PROVE  LET p == SendOptions(n, host) IN Parser(p) /\ ~p.init /\ p.wbuf = n.wbuf
  <1>. DEFINE o == SendOptions(n, host).out
              no == FALSE
              p == [n EXCEPT !.init = no, !.out = o]
  <1>1. SendOptions(n, host) = p
    BY Zenon DEF SendOptions, Parser, IsNvt
  <1>2. ~no /\ no \in BOOLEAN
    OBVIOUS
  <1>. HIDE DEF o, no
  <1>3. Parser(p) /\ ~p.init /\ p.wbuf = n.wbuf
    BY <1>2 DEF Parser, IsNvt
  <1>. QED
    BY <1>1, <1>3

LEMMA StartedOK ==
  ASSUME TelnetInv, NEW e \in {"c", "h"}
  PROVE  Parser(Started(e)) /\ ~Started(e).init /\ Started(e).wbuf = nvt[e].wbuf
  <1>. DEFINE n == nvt[e]
              host == (e = "h")
  <1>1. Parser(n)
    BY DEF TelnetInv, EndOK
  <1>2. Started(e) = IF n.init THEN SendOptions(n, host) ELSE n
    BY DEF Started
  <1>. HIDE DEF n, host
  <1>3. Parser(Started(e)) /\ ~Started(e).init /\ Started(e).wbuf = n.wbuf
    BY <1>1, <1>2, SendOptionsOK
  <1>. QED
    BY <1>3 DEF n

(* Of a call at end e nothing remains but what n says. *)
LEMMA ReturnOK ==
  ASSUME TelnetInv, NEW e \in {"c", "h"}, NEW n, Parser(n), ~n.init,
         nvt' = [nvt EXCEPT ![e] = [n EXCEPT !.out = <<>>, !.in = <<>>]],
         blocks' \in 0..MaxBlocks, blocks' >= blocks, n.wbuf # <<>> => blocks' > 0
  PROVE  nvt' = [d \in {"c", "h"} |-> nvt'[d]] /\ \A d \in {"c", "h"} : EndOK(nvt[d])'
  <1>. DEFINE p == [n EXCEPT !.out = <<>>, !.in = <<>>]
  <1>1. Parser(p) /\ ~p.init /\ p.wbuf = n.wbuf
    BY DEF Parser, IsNvt
  <1>. HIDE DEF p
  <1>2. nvt' = [d \in {"c", "h"} |-> IF d = e THEN p ELSE nvt[d]]
    BY DEF TelnetInv, p
  <1>3. blocks \in Nat /\ blocks' \in Nat
    BY DEF TelnetInv
  <1>4. ASSUME NEW d \in {"c", "h"}
        PROVE  /\ Parser(nvt'[d])
               /\ nvt'[d].init => nvt'[d].on = {} /\ nvt'[d].wbuf = <<>>
               /\ nvt'[d].wbuf # <<>> => blocks' > 0
    <2>1. /\ Parser(nvt[d])
          /\ nvt[d].init => nvt[d].on = {} /\ nvt[d].wbuf = <<>>
          /\ nvt[d].wbuf # <<>> => blocks > 0
      BY DEF TelnetInv, EndOK
    <2>2. CASE d = e
      BY <1>1, <1>2, <2>2
    <2>3. CASE d # e
      BY <1>2, <1>3, <2>1, <2>3
    <2>. QED
      BY <2>2, <2>3
  <1>. QED
    BY <1>2, <1>4 DEF EndOK

(* telnet_write() does not touch the parser. *)
LEMMA WriteParser ==
  ASSUME NEW n, Parser(n), NEW b, NEW push, NEW m
  PROVE  /\ Parser(WriteAll(n, b, push).n) /\ WriteAll(n, b, push).n.wbuf = <<>>
         /\ WriteAll(n, b, push).n.init = n.init
         /\ Parser(WriteSome(n, b, push, m).n) /\ WriteSome(n, b, push, m).n.init = n.init
  <1>1. BareCR(n, b, push) \in BOOLEAN
    BY DEF BareCR
  <1>. DEFINE wrote(buf, cr, out) == [n EXCEPT !.wbuf = buf, !.wcr = cr, !.out = out,
                                               !.bare = @ \/ BareCR(n, b, push)]
  <1>2. ASSUME NEW buf, NEW cr, NEW out
        PROVE  Parser(wrote(buf, cr, out)) /\ wrote(buf, cr, out).wbuf = buf
               /\ wrote(buf, cr, out).init = n.init
    BY <1>1 DEF Parser, IsNvt
  <1>. DEFINE w == Parts(n, b, push)
  <1>3. /\ WriteAll(n, b, push) = AllSent(n, b, push, w)
        /\ \E cr, out : AllSent(n, b, push, w).n = wrote(<<>>, cr, out)
    <2>1. WriteAll(n, b, push) = AllSent(n, b, push, w)
      BY DEF WriteAll, Thru
    <2>2. AllSent(n, b, push, w).n = wrote(<<>>, w.cr, n.out \o Bytes(w.parts))
      BY DEF AllSent
    <2>. QED
      BY <2>1, <2>2
  <1>4. WriteSome(n, b, push, m) = PartlySent(n, b, push, m, w.parts)
    BY DEF WriteSome, Thru
  <1>5. PICK buf, cr, out : PartlySent(n, b, push, m, w.parts).n = wrote(buf, cr, out)
    BY DEF PartlySent
  <1>. HIDE DEF wrote, w
  <1>. QED
    BY <1>2, <1>3, <1>4, <1>5

(* qodem_write() calls telnet_write() again and nothing else. *)
LEMMA WriteAgainParser ==
  ASSUME NEW w, Parser(w.n), NEW b
  PROVE  Parser(WriteAgain(w, b)) /\ WriteAgain(w, b).init = w.n.init
  <1>1. WriteAgain(w, b) = w.n \/ \E a, push : WriteAgain(w, b) = WriteAll(w.n, a, push).n
    BY DEF WriteAgain
  <1>2. ASSUME NEW a, NEW push
        PROVE  Parser(WriteAll(w.n, a, push).n) /\ WriteAll(w.n, a, push).n.init = w.n.init
    BY WriteParser
  <1>. QED
    BY <1>1, <1>2

-----------------------------------------------------------------------------
LEMMA TelnetInit == TInit => TelnetInv
  <1>. SUFFICES ASSUME TInit PROVE TelnetInv
    OBVIOUS
  <1>1. Parser(Nvt) /\ Nvt.on = {} /\ Nvt.wbuf = <<>>
    BY DEF Nvt, Parser, IsNvt
  <1>. QED
    <2>1. blocks \in 0..MaxBlocks
      BY TelnetAssumption DEF TInit
    <2>2. nvt = [e \in {"c", "h"} |-> Nvt]
      BY DEF TInit
    <2>3. \A e \in {"c", "h"} : EndOK(nvt[e])
      BY <1>1, <2>2 DEF EndOK
    <2>. QED
      BY <2>1, <2>2, <2>3 DEF TInit, TelnetInv

LEMMA ReadInv ==
  ASSUME TelnetInv, NEW e \in {"c", "h"}, Read(e)
  PROVE  TelnetInv'
  <1>. DEFINE n == ReadByte(Started(e), Head(net[e]), setup.size)
  <1>1. Parser(n) /\ ~n.init /\ n.wbuf = nvt[e].wbuf
    BY StartedOK, ReadByteParsed DEF Parsed
  <1>2. /\ nvt' = [nvt EXCEPT ![e] = [n EXCEPT !.out = <<>>, !.in = <<>>]]
        /\ UNCHANGED <<down, resized, blocks>>
    BY DEF Read
  <1>3. blocks' \in 0..MaxBlocks /\ blocks' >= blocks /\ (nvt[e].wbuf # <<>> => blocks' > 0)
    BY <1>2, TelnetAssumption DEF TelnetInv, EndOK
  <1>. HIDE DEF n
  <1>4. nvt' = [d \in {"c", "h"} |-> nvt'[d]] /\ \A d \in {"c", "h"} : EndOK(nvt[d])'
    BY <1>1, <1>2, <1>3, ReturnOK
  <1>. QED
    BY <1>2, <1>4 DEF TelnetInv

LEMMA ReadEndInv ==
  ASSUME TelnetInv, NEW e \in {"c", "h"}, ReadEnd(e)
  PROVE  TelnetInv'
  <1>. DEFINE n == Started(e)
              q == ReadByte(n, "closed", setup.size)
  <1>1. Parser(n) /\ ~n.init /\ n.wbuf = nvt[e].wbuf
    BY StartedOK
  <1>2. Parser(q) /\ ~q.init /\ q.wbuf = nvt[e].wbuf
    BY <1>1, ReadByteParsed DEF Parsed
  <1>3. PICK p : /\ p \in {[n EXCEPT !.connected = FALSE], [n EXCEPT !.msg = TRUE],
                             [q EXCEPT !.msg = TRUE]}
                 /\ nvt' = [nvt EXCEPT ![e] = [p EXCEPT !.out = <<>>, !.in = <<>>]]
    BY DEF ReadEnd, Return
  <1>4. UNCHANGED <<resized, blocks>> /\ down' \in [{"c", "h"} -> BOOLEAN]
    BY DEF ReadEnd, TelnetInv
  <1>5. blocks' \in 0..MaxBlocks /\ blocks' >= blocks /\ (nvt[e].wbuf # <<>> => blocks' > 0)
    BY <1>4, TelnetAssumption DEF TelnetInv, EndOK
  <1>. HIDE DEF n, q
  <1>6. Parser(p) /\ ~p.init /\ p.wbuf = nvt[e].wbuf
    <2>1. CASE p = [n EXCEPT !.connected = FALSE]
      BY <1>1, <2>1 DEF Parser, IsNvt
    <2>2. CASE p = [n EXCEPT !.msg = TRUE]
      BY <1>1, <2>2 DEF Parser, IsNvt
    <2>3. CASE p = [q EXCEPT !.msg = TRUE]
      BY <1>2, <2>3 DEF Parser, IsNvt
    <2>. QED
      BY <1>3, <2>1, <2>2, <2>3
  <1>7. nvt' = [d \in {"c", "h"} |-> nvt'[d]] /\ \A d \in {"c", "h"} : EndOK(nvt[d])'
    BY <1>3, <1>4, <1>5, <1>6, ReturnOK
  <1>. QED
    BY <1>4, <1>7 DEF TelnetInv

LEMMA WriteInv ==
  ASSUME TelnetInv, NEW e \in {"c", "h"}, Write(e)
  PROVE  TelnetInv'
  <1>. DEFINE n == WriteAll(Started(e), Head(todo[e]), setup.console).n
  <1>1. Parser(n) /\ ~n.init /\ n.wbuf = <<>>
    BY StartedOK, WriteParser
  <1>2. /\ nvt' = [nvt EXCEPT ![e] = [n EXCEPT !.out = <<>>, !.in = <<>>]]
        /\ UNCHANGED <<down, resized, blocks>>
    BY DEF Write, Return
  <1>3. blocks' \in 0..MaxBlocks /\ blocks' >= blocks
    BY <1>2, TelnetAssumption DEF TelnetInv
  <1>. HIDE DEF n
  <1>4. nvt' = [d \in {"c", "h"} |-> nvt'[d]] /\ \A d \in {"c", "h"} : EndOK(nvt[d])'
    BY <1>1, <1>2, <1>3, ReturnOK
  <1>. QED
    BY <1>2, <1>4 DEF TelnetInv

LEMMA WriteFullInv ==
  ASSUME TelnetInv, NEW e \in {"c", "h"}, WriteFull(e)
  PROVE  TelnetInv'
  <1>. DEFINE b == Head(todo[e])
  <1>1. PICK m : LET w == WriteSome(Started(e), b, setup.console, m)
                 IN  Return(e, IF setup.console THEN WriteAgain(w, b) ELSE w.n)
    BY DEF WriteFull
  <1>. DEFINE w == WriteSome(Started(e), b, setup.console, m)
              n == IF setup.console THEN WriteAgain(w, b) ELSE w.n
  <1>2. Parser(w.n) /\ ~w.n.init
    BY StartedOK, WriteParser
  <1>3. nvt' = [nvt EXCEPT ![e] = [n EXCEPT !.out = <<>>, !.in = <<>>]]
    BY <1>1 DEF Return
  <1>. HIDE DEF b, w
  <1>4. Parser(n) /\ ~n.init
    BY <1>2, WriteAgainParser
  <1>. HIDE DEF n
  <1>5. UNCHANGED <<down, resized>> /\ blocks' = blocks + 1 /\ blocks < MaxBlocks
        /\ blocks \in 0..MaxBlocks
    BY DEF WriteFull, TelnetInv
  <1>6. blocks' \in 0..MaxBlocks /\ blocks' >= blocks /\ blocks' > 0
    BY <1>5, TelnetAssumption
  <1>7. nvt' = [d \in {"c", "h"} |-> nvt'[d]] /\ \A d \in {"c", "h"} : EndOK(nvt[d])'
    BY <1>3, <1>4, <1>6, ReturnOK
  <1>. QED
    BY <1>5, <1>6, <1>7 DEF TelnetInv

(* The screen is only resized where the window size was negotiated, thus   *)
(* by an end that has begun.                                               *)
LEMMA ResizeInv ==
  ASSUME TelnetInv, Resize
  PROVE  TelnetInv'
  <1>. DEFINE n == SendNaws(nvt["c"], setup.size)
  <1>1. Parser(nvt["c"]) /\ ~nvt["c"].init /\ (nvt["c"].wbuf # <<>> => blocks > 0)
        /\ blocks \in 0..MaxBlocks
    BY DEF Resize, TelnetInv, EndOK
  <1>2. Parser(n) /\ ~n.init /\ n.wbuf = nvt["c"].wbuf
    BY <1>1, SubResponseParsed DEF SendNaws, Parsed
  <1>3. /\ nvt' = [nvt EXCEPT !["c"] = [n EXCEPT !.out = <<>>, !.in = <<>>]]
        /\ UNCHANGED <<down, blocks>> /\ resized' = TRUE
    BY DEF Resize, Return
  <1>. HIDE DEF n
  <1>4. blocks' \in 0..MaxBlocks /\ blocks' >= blocks
    BY <1>1, <1>3, TelnetAssumption
  <1>5. nvt' = [d \in {"c", "h"} |-> nvt'[d]] /\ \A d \in {"c", "h"} : EndOK(nvt[d])'
    BY <1>1, <1>2, <1>3, <1>4, ReturnOK
  <1>. QED
    BY <1>3, <1>4, <1>5 DEF TelnetInv

LEMMA TelnetStep == TelnetInv /\ [TNext]_telnetVars => TelnetInv'
  <1>. SUFFICES ASSUME TelnetInv, [TNext]_telnetVars PROVE TelnetInv'
    OBVIOUS
  <1>1. ASSUME NEW e \in {"c", "h"}, HangUp(e) PROVE TelnetInv'
    BY <1>1 DEF HangUp, TelnetInv, EndOK
  <1>2. CASE Server
    BY <1>2 DEF Server, ServerSend, ServerRead, TelnetInv, EndOK
  <1>3. CASE UNCHANGED telnetVars
    BY <1>3 DEF telnetVars, TelnetInv, EndOK
  <1>. QED
    BY <1>1, <1>2, <1>3, ReadInv, ReadEndInv, WriteInv, WriteFullInv, ResizeInv DEF TNext

(***************************************************************************)
(* The types of a telnet connection, and that the parser of telnet_read()  *)
(* is in one state only: for every setup, screen size and text, and        *)
(* whatever a server sends.  Bytes remain in write_buffer only if the      *)
(* socket was full.                                                        *)
(***************************************************************************)
THEOREM TelnetTypes == TSpec => []TTypeOK
  <1>1. TelnetInv => TTypeOK
    BY DEF TelnetInv, EndOK, Parser, IsNvt, TTypeOK
  <1>. QED
    BY TelnetInit, TelnetStep, <1>1, PTL DEF TSpec

-----------------------------------------------------------------------------
(* The parser of telnet_read() waits for a byte of the user or for IAC. *)
Ground(n) == ~n.sub /\ n.dowill = "" /\ ~n.iac

(* telnet_read() gets the bytes of a sequence of two. *)
ReadTwo(n, ch, ch2, size) == ReadByte(ReadByte(n, ch, size), ch2, size)

(***************************************************************************)
(* In binary mode telnet_read() undoes what telnet_write() does to a byte: *)
(* IAC is doubled and sent at once, any other byte is collected as it is;  *)
(* reading either gives the byte back and leaves the parser as it was.     *)
(***************************************************************************)
THEOREM BinaryByte ==
  ASSUME NEW n, Parser(n), Ground(n), Binary(n), NEW a, NEW ch, NEW size
  PROVE  IF ch = "IAC"
           THEN /\ BinaryOut(a, ch) = Flush(a, <<"IAC", "IAC">>, a.cr)
                /\ ReadTwo(n, "IAC", "IAC", size) = Deliver(n, <<ch>>)
           ELSE /\ BinaryOut(a, ch) = More(a, <<ch>>)
                /\ ReadByte(n, ch, size) = Deliver(n, <<ch>>)
  <1>1. CASE ch = "IAC"
    <2>1. ReadByte(n, "IAC", size) = [n EXCEPT !.iac = TRUE]
      BY DEF ReadByte, Ground
    <2>. DEFINE p == [n EXCEPT !.iac = TRUE]
    <2>2. ~p.sub /\ p.dowill = "" /\ p.iac /\ [p EXCEPT !.iac = FALSE] = n
      BY DEF Parser, IsNvt, Ground
    <2>. HIDE DEF p
    <2>3. ReadByte(p, "IAC", size) = Deliver(n, <<"IAC">>)
      BY <2>2 DEF ReadByte
    <2>. QED
      BY <1>1, <2>1, <2>3 DEF ReadTwo, BinaryOut, p
  <1>2. CASE ch # "IAC"
    BY <1>2 DEF ReadByte, BinaryOut, Ground
  <1>. QED
    BY <1>1, <1>2

(***************************************************************************)
(* No command comes through: telnet_read() delivers nothing of what it     *)
(* reads inside a command, an option or a sub-negotiation, but the second  *)
(* byte of a doubled IAC; and an option ends the command.                  *)
(***************************************************************************)
THEOREM CommandsSilent ==
  ASSUME NEW n, Parser(n), ~Ground(n), NEW ch, NEW size,
         ~(ch = "IAC" /\ n.iac /\ ~n.sub)
  PROVE  /\ ReadByte(n, ch, size).in = n.in
         /\ n.dowill # "" => Ground(ReadByte(n, ch, size))
  <1>1. ASSUME NEW p, IsNvt(p), NEW o, NEW data
        PROVE  SubResponse(p, o, data).in = p.in /\ SubResponse(p, o, data).dowill = p.dowill
               /\ SubResponse(p, o, data).iac = p.iac /\ SubResponse(p, o, data).sub = p.sub
               /\ IsNvt(SubResponse(p, o, data))
    BY <1>1 DEF IsNvt, SubResponse
  <1>2. CASE n.sub
    <2>. DEFINE p == [n EXCEPT !.iac = FALSE, !.sub = FALSE]
    <2>1. IsNvt(p) /\ p.in = n.in
      BY DEF Parser, IsNvt
    <2>. HIDE DEF p
    <2>2. HandleSubneg(p).in = n.in
      BY <1>1, <2>1 DEF HandleSubneg
    <2>3. SubnegByte(n, ch) \in {HandleSubneg(p), n, [n EXCEPT !.iac = TRUE],
                                 [n EXCEPT !.sb = Append(@, ch)]}
      BY DEF SubnegByte, p
    <2>4. [n EXCEPT !.iac = TRUE].in = n.in /\ [n EXCEPT !.sb = Append(@, ch)].in = n.in
      BY DEF Parser, IsNvt
    <2>. QED
      BY <1>2, <2>2, <2>3, <2>4 DEF ReadByte, Parser
  <1>3. CASE n.dowill # ""
    <2>. DEFINE p == [n EXCEPT !.dowill = ""]
                yes == [p EXCEPT !.on = @ \cup {ch}]
                no == [p EXCEPT !.on = @ \ {ch}]
                Quiet(q) == IsNvt(q) /\ q.in = n.in /\ Ground(q)
    <2>1. Quiet(p) /\ Quiet(no) /\ (ch \in Options => Quiet(yes))
      BY <1>3 DEF Parser, IsNvt, Ground
    <2>. HIDE DEF p, yes, no
    <2>2. ASSUME NEW q, Quiet(q), NEW verb PROVE Quiet(Respond(q, verb, ch))
      BY <2>2 DEF IsNvt, Ground, Respond
    <2>3. ASSUME NEW q, Quiet(q) PROVE Quiet(SendNaws(q, size))
      <3>1. PICK data : SendNaws(q, size) = SubResponse(q, "31", data)
        BY DEF SendNaws
      <3>. DEFINE w == SubResponse(q, "31", data)
      <3>2. IsNvt(q) /\ q.in = n.in /\ Ground(q)
        BY <2>3
      <3>3. w.in = q.in /\ w.dowill = q.dowill /\ w.iac = q.iac /\ w.sub = q.sub /\ IsNvt(w)
        BY <1>1, <3>2
      <3>. HIDE DEF w
      <3>4. Quiet(w)
        BY <3>2, <3>3 DEF Ground
      <3>. QED
        BY <3>1, <3>4 DEF w
    <2>4. \/ OptionByte(n, ch, size) \in {Respond(p, "WONT", ch), Respond(p, "DONT", ch), no}
          \/ /\ ch \in Options
             /\ OptionByte(n, ch, size) \in {SendNaws(Respond(yes, "WILL", ch), size),
                                             SendNaws(yes, size), yes, Respond(yes, "WILL", ch)}
      BY DEF OptionByte, Refuse, Options, p, yes, no
    <2>. HIDE DEF Quiet
    <2>5. Quiet(OptionByte(n, ch, size))
      BY <2>1, <2>2, <2>3, <2>4
    <2>6. ReadByte(n, ch, size) = OptionByte(n, ch, size)
      BY <1>3 DEF ReadByte, Parser
    <2>. QED
      BY <2>5, <2>6 DEF Quiet
  <1>4. CASE ~n.sub /\ n.dowill = ""
    <2>1. ReadByte(n, ch, size) = CommandByte(n, ch)
      BY <1>4 DEF ReadByte, Ground
    <2>2. CommandByte(n, ch).in = n.in
      BY DEF CommandByte, Parser, IsNvt, Verbs
    <2>. QED
      BY <1>4, <2>1, <2>2
  <1>. QED
    BY <1>2, <1>3, <1>4
=============================================================================
