----------------------------- MODULE TelnetNvt ------------------------------
(***************************************************************************)
(* The telnet protocol of one end (source/netclient.c): the parser of      *)
(* telnet_read(), the answers it gives, and the encoding of telnet_write().*)
(* A byte is a string: a command by its name, an option by its number, and *)
(* the bytes CR, LF, NUL (which is option 0) and those of the user.        *)
(***************************************************************************)
EXTENDS Integers, SequencesExt

NUL == "0"

(* Binary, echo, suppress go-ahead, terminal type, window size, terminal   *)
(* speed, environment *)
Options == {"0", "1", "3", "24", "31", "32", "39"}
Verbs == {"WILL", "WONT", "DO", "DONT"}

(***************************************************************************)
(* reset_nvt().  on are the options in force (go_ahead is "3" \notin on);  *)
(* out is what raw_write() sends and in what is returned to the caller.    *)
(* bare is no variable of the code: in ASCII mode a CR was written that    *)
(* was neither followed by LF nor pushed out.                              *)
(***************************************************************************)
Nvt ==
  [init |-> TRUE, on |-> {}, iac |-> FALSE, dowill |-> "", sub |-> FALSE, sb |-> <<>>,
   rcr |-> FALSE, wcr |-> FALSE, wbuf |-> <<>>, msg |-> FALSE, connected |-> TRUE,
   bare |-> FALSE, out |-> <<>>, in |-> <<>>]

Binary(n) == "0" \in n.on

Command(verb, o) == <<"IAC", verb, o>>

Respond(n, verb, o) == [n EXCEPT !.out = @ \o Command(verb, o)]

(* telnet_refuse(): also WONT and DONT are answered. *)
Refuse(n, verb, o) == Respond(n, IF verb = "DO" THEN "WONT" ELSE "DONT", o)

(* telnet_send_options(); none is in force yet. *)
SendOptions(n, host) ==
  LET both   == Command("DO", "0") \o Command("WILL", "0") \o Command("DO", "3") \o Command("WILL", "3")
      server == Command("DONT", "1") \o Command("WILL", "1")
      client == Command("WILL", "31") \o Command("WILL", "24") \o Command("WILL", "39")
  IN  [n EXCEPT !.init = FALSE, !.out = both \o IF host THEN server ELSE client]

Subneg(o, data) == <<"IAC", "SB", o>> \o data \o <<"IAC", "SE">>

SubResponse(n, o, data) == [n EXCEPT !.out = @ \o Subneg(o, data)]

(* telnet_send_naws(): columns and lines, two bytes each *)
NawsData(size) ==
  FlattenSeq([j \in DOMAIN size |-> IF size[j] = "IAC" THEN <<"IAC", "IAC">> ELSE <<size[j]>>])

SendNaws(n, size) == SubResponse(n, "31", NawsData(size))

(* handle_subneg(): SEND (1) is answered with IS (0). *)
HandleSubneg(n) ==
  IF Len(n.sb) > 1 /\ n.sb[1] \in {"24", "32", "39"} /\ n.sb[2] = "1"
    THEN SubResponse(n, n.sb[1], <<"0">>)
    ELSE n

-----------------------------------------------------------------------------
(* Mutant: the end of the sub-negotiation is not noticed. *)
SubnegByteStays(n, ch) ==
  CASE ch = "SE" -> IF n.iac THEN HandleSubneg([n EXCEPT !.iac = FALSE]) ELSE n
    [] ch = "IAC" /\ ~n.iac -> [n EXCEPT !.iac = TRUE]
    [] OTHER -> [n EXCEPT !.sb = Append(@, ch)]

(* In a sub-negotiation; iac stays set behind a doubled IAC. *)
SubnegByte(n, ch) ==
  CASE ch = "SE" -> IF n.iac THEN HandleSubneg([n EXCEPT !.iac = FALSE, !.sub = FALSE]) ELSE n
    [] ch = "IAC" /\ ~n.iac -> [n EXCEPT !.iac = TRUE]
    [] OTHER -> [n EXCEPT !.sb = Append(@, ch)]

(* Mutant: what the other end offers is not noted. *)
OptionByteIgnoresWill(n, o, size) ==
  LET verb == n.dowill
      p    == [n EXCEPT !.dowill = ""]
      yes  == [p EXCEPT !.on = @ \cup {o}]
  IN  CASE o \notin Options -> Refuse(p, verb, o)
        [] o = "31" /\ verb = "WILL" -> SendNaws(Respond(yes, "WILL", o), size)
        [] o = "31" /\ verb = "DO" -> SendNaws(yes, size)
        [] o \in Options \ {"31"} /\ verb = "WILL" -> p
        [] o \in Options \ {"31"} /\ verb = "DO" -> Respond(yes, "WILL", o)
        [] OTHER -> [p EXCEPT !.on = @ \ {o}]

(* The option of a DO, DONT, WILL or WONT.  The window size is the other   *)
(* way round: WILL is answered with WILL, and DO with the size alone.      *)
OptionByte(n, o, size) ==
  LET verb == n.dowill
      p    == [n EXCEPT !.dowill = ""]
      yes  == [p EXCEPT !.on = @ \cup {o}]
  IN  CASE o \notin Options -> Refuse(p, verb, o)
        [] o = "31" /\ verb = "WILL" -> SendNaws(Respond(yes, "WILL", o), size)
        [] o = "31" /\ verb = "DO" -> SendNaws(yes, size)
        [] o \in Options \ {"31"} /\ verb = "WILL" -> yes
        [] o \in Options \ {"31"} /\ verb = "DO" -> Respond(yes, "WILL", o)
        [] OTHER -> [p EXCEPT !.on = @ \ {o}]

(* Mutant: iac stays set behind WILL and the like. *)
CommandByteKeepsIac(n, ch) ==
  LET p == [n EXCEPT !.iac = FALSE]
  IN  CASE ch = "SB" -> [p EXCEPT !.sub = TRUE, !.sb = <<>>]
        [] ch \in Verbs -> [n EXCEPT !.dowill = ch]
        [] OTHER -> p

(* The byte after IAC *)
CommandByte(n, ch) ==
  LET p == [n EXCEPT !.iac = FALSE]
  IN  CASE ch = "SB" -> [p EXCEPT !.sub = TRUE, !.sb = <<>>]
        [] ch \in Verbs -> [p EXCEPT !.dowill = ch]
        [] OTHER -> p

Deliver(n, bytes) == [n EXCEPT !.in = @ \o bytes]

(* CR waits for the next byte: CR LF is both, CR NUL is CR. *)
AsciiByte(n, ch) ==
  LET p == [n EXCEPT !.rcr = FALSE]
  IN  CASE ch = "LF" -> Deliver(p, IF n.rcr THEN <<"CR", "LF">> ELSE <<"LF">>)
        [] ch = NUL  -> IF n.rcr THEN Deliver(p, <<"CR">>) ELSE n
        [] ch = "CR" -> IF n.rcr THEN Deliver(n, <<"CR", NUL>>) ELSE [n EXCEPT !.rcr = TRUE]
        [] OTHER     -> Deliver(p, IF n.rcr THEN <<"CR", ch>> ELSE <<ch>>)

(* A byte that telnet_read() has received *)
ReadByte(n, ch, size) ==
  CASE n.sub -> SubnegByte(n, ch)
    [] ~n.sub /\ n.dowill # "" -> OptionByte(n, ch, size)
    [] ~n.sub /\ n.dowill = "" /\ ch = "IAC" ->
         IF n.iac THEN Deliver([n EXCEPT !.iac = FALSE], <<"IAC">>) ELSE [n EXCEPT !.iac = TRUE]
    [] ~n.sub /\ n.dowill = "" /\ ch # "IAC" /\ n.iac -> CommandByte(n, ch)
    [] OTHER -> IF Binary(n) THEN Deliver(n, <<ch>>) ELSE AsciiByte(n, ch)

-----------------------------------------------------------------------------
(***************************************************************************)
(* telnet_write() collects bytes in cur and sends them (flush) behind an   *)
(* IAC, a CR that is followed by CR or LF, and at the end.  Each such part *)
(* has the number i of bytes of the caller up to there and write_cr.       *)
(***************************************************************************)
(* Op of a value that is computed once *)
Thru(v, Op(_)) == CHOOSE y \in {Op(x) : x \in {v}} : TRUE

Part(i, b, cr) == [i |-> i, b |-> b, cr |-> cr]

More(a, b) == [a EXCEPT !.i = @ + 1, !.cur = @ \o b]
Flush(a, b, cr) ==
  [i |-> a.i + 1, cur |-> <<>>, cr |-> cr, parts |-> Append(a.parts, Part(a.i + 1, a.cur \o b, cr))]

(* Mutant: an IAC is not doubled. *)
BinaryOutPlain(a, ch) == More(a, <<ch>>)

BinaryOut(a, ch) ==
  IF ch = "IAC" THEN Flush(a, <<"IAC", "IAC">>, a.cr) ELSE More(a, <<ch>>)

(* Before any other byte write_cr stays set, and the CR comes later. *)
AsciiOut(a, ch) ==
  CASE ch = "CR"  -> IF a.cr THEN Flush(a, <<"CR", NUL>>, TRUE) ELSE [More(a, <<>>) EXCEPT !.cr = TRUE]
    [] ch = "LF"  -> IF a.cr THEN Flush(a, <<"CR", "LF">>, FALSE) ELSE More(a, <<"LF">>)
    [] ch = "IAC" -> Flush(a, IF a.cr THEN <<"CR", NUL, "IAC", "IAC">> ELSE <<"IAC", "IAC">>, FALSE)
    [] OTHER      -> More(a, <<ch>>)

OutByte(n, a, ch) == IF Binary(n) THEN BinaryOut(a, ch) ELSE AsciiOut(a, ch)

(* The loop over b: what is left of the last call comes first. *)
Collected(n, b) ==
  LET first == IF n.wbuf = <<>> THEN <<>> ELSE <<Part(0, n.wbuf, n.wcr)>>
      upto[j \in 0..Len(b)] ==
        IF j = 0 THEN [i |-> 0, cur |-> <<>>, cr |-> n.wcr, parts |-> first]
        ELSE Thru(upto[j - 1], LAMBDA a : OutByte(n, a, b[j]))
  IN  upto

(* A CR from the console or the host is pushed out at the end. *)
Ended(a, push) ==
  LET last == IF a.cr /\ push THEN Append(a.cur, "CR") ELSE a.cur
  IN  [parts |-> IF last = <<>> THEN a.parts
                 ELSE Append(a.parts, Part(a.i, last, a.cr /\ ~push)),
       cr    |-> a.cr /\ ~push]

Parts(n, b, push) == Thru(Collected(n, b)[Len(b)], LAMBDA a : Ended(a, push))

Bytes(parts) == FlattenSeq([j \in DOMAIN parts |-> parts[j].b])

BareCR(n, b, push) ==
  /\ ~Binary(n)
  /\ \E j \in DOMAIN b : b[j] = "CR" /\ IF j < Len(b) THEN b[j + 1] # "LF" ELSE ~push

(* All is sent.  Returned is the number of bytes up to the last flush. *)
AllSent(n, b, push, w) ==
  [n    |-> [n EXCEPT !.wbuf = <<>>, !.wcr = w.cr, !.out = @ \o Bytes(w.parts),
                      !.bare = @ \/ BareCR(n, b, push)],
   sent |-> IF w.parts = <<>> THEN 0 ELSE Last(w.parts).i]

WriteAll(n, b, push) == Thru(Parts(n, b, push), LAMBDA w : AllSent(n, b, push, w))

(* Mutant: what was not sent is forgotten. *)
WriteSomeForgets(n, b, push, m) ==
  LET w == Parts(n, b, push)
  IN  [n    |-> [n EXCEPT !.wbuf = <<>>, !.out = @ \o SubSeq(Bytes(w.parts), 1, m)],
       sent |-> IF m > 0 THEN Last(w.parts).i ELSE 0]

(***************************************************************************)
(* The socket takes m bytes, fewer than there are, and then refuses.  A    *)
(* part that was taken in part counts as sent, and the next one is put in  *)
(* the buffer before that is refused.  What the buffer holds beyond sent   *)
(* is encoded again by the next call.                                      *)
(***************************************************************************)
PartlySent(n, b, push, m, ps) ==
  LET upto(j) == Bytes(SubSeq(ps, 1, j))
      k    == CHOOSE j \in DOMAIN ps : Len(upto(j)) > m /\ Len(upto(j - 1)) <= m
      part == m > Len(upto(k - 1))
      f    == IF part /\ k < Len(ps) THEN k + 1 ELSE k
  IN  [n    |-> [n EXCEPT !.wbuf = SubSeq(upto(f), m + 1, Len(upto(f))), !.wcr = ps[f].cr,
                          !.out = @ \o SubSeq(upto(k), 1, m),
                          !.bare = @ \/ BareCR(n, b, push)],
       sent |-> IF part THEN ps[k].i ELSE IF k > 1 THEN ps[k - 1].i ELSE 0]

WriteSome(n, b, push, m) ==
  Thru(Parts(n, b, push).parts, LAMBDA ps : PartlySent(n, b, push, m, ps))
=============================================================================
