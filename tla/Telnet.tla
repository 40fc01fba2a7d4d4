------------------------------- MODULE Telnet -------------------------------
(***************************************************************************)
(* A telnet connection of the client "c": to another qodem whose host mode *)
(* accepted it, or to a telnet server that is no qodem, both "h".  Bytes   *)
(* are neither lost nor reordered between them.  telnet_read() takes all   *)
(* that it has received, so it is modelled byte by byte.                   *)
(***************************************************************************)
EXTENDS TelnetNvt

CONSTANTS
  TChars,     \* the bytes
  TSetups,    \* the connections, see TInit
  MaxBlocks   \* how often a socket is full

Other(e) == IF e = "c" THEN "h" ELSE "c"

ASSUME TelnetAssumption ==
  /\ MaxBlocks \in Nat
  \* "closed" is no byte but the message that telnet_read() returns at the end
  /\ Options \cup Verbs \cup {"IAC", "SB", "SE", "CR", "LF"} \subseteq TChars /\ "closed" \notin TChars
  /\ \A p \in TSetups :
       /\ DOMAIN p = {"host", "console", "full", "hangs", "size", "resize", "sends", "text", "asks"}
       /\ p.console \in BOOLEAN /\ p.sends \in [{"c", "h"} -> Seq(Seq(TChars))]
       \* the high bytes of a screen's columns and lines are small
       /\ p.size \in Seq(TChars) /\ Len(p.size) = 4 /\ {p.size[1], p.size[3]} \cap {"IAC", "SE"} = {}
       /\ p.host => \A e \in {"c", "h"} : p.text[e] = FlattenSeq(p.sends[Other(e)])

VARIABLES
  setup,   \* the member of TSetups
  nvt,     \* nvt, state, connected, subneg_buffer and write_buffer of each end
  net,     \* the bytes on their way to each end
  todo,    \* the buffers each end has still to write
  got,     \* what telnet_read() of each end returned, and all that a server got
  down,    \* has an end shut down its side of the socket?
  resized, \* has the user changed the size of the screen?
  blocks   \* how often a socket was full

telnetVars == <<setup, nvt, net, todo, got, down, resized, blocks>>

Qodems == IF setup.host THEN {"c", "h"} ELSE {"c"}

(***************************************************************************)
(* host: "h" is a qodem; console: the ends are in the console and in host  *)
(* mode, where qodem_write() waits for the socket, not in a file transfer; *)
(* full: sockets may be full; hangs: the ends that may hang up; size: what *)
(* the screen's columns and lines are; resize: the user changes them;      *)
(* sends: the buffers the ends write, or the messages of the server; text: *)
(* what the ends should read of them; asks: what a server must be answered.*)
(***************************************************************************)
TInit ==
  /\ setup \in TSetups
  /\ nvt = [e \in {"c", "h"} |-> Nvt] /\ todo = setup.sends
  /\ net = [e \in {"c", "h"} |-> <<>>] /\ got = [e \in {"c", "h"} |-> <<>>]
  /\ down = [e \in {"c", "h"} |-> FALSE] /\ resized = FALSE /\ blocks = 0

(* The end of a call: n is the state, its out is sent unless the side is   *)
(* shut down, its in goes to the caller.                                   *)
Return(e, n) ==
  /\ nvt' = [nvt EXCEPT ![e] = [n EXCEPT !.out = <<>>, !.in = <<>>]]
  /\ net' = [net EXCEPT ![Other(e)] = IF down[e] THEN @ ELSE @ \o n.out]
  /\ got' = [got EXCEPT ![e] = @ \o n.in]

Started(e) == IF nvt[e].init THEN SendOptions(nvt[e], e = "h") ELSE nvt[e]

(* telnet_read() *)
Read(e) ==
  /\ e \in Qodems /\ nvt[e].connected /\ net[e] # <<>>
  /\ \E n \in {ReadByte(Started(e), Head(net[e]), setup.size)} :
       /\ nvt' = [nvt EXCEPT ![e] = [n EXCEPT !.out = <<>>, !.in = <<>>]]
       /\ net' = [net EXCEPT ![e] = Tail(@),
                             ![Other(e)] = IF down[e] THEN @ ELSE @ \o n.out]
       /\ got' = [got EXCEPT ![e] = @ \o n.in]
  /\ UNCHANGED <<setup, todo, down, resized, blocks>>

(* Mutant: the end of file is taken for no data. *)
ReadEndForgets(e) ==
  /\ e \in Qodems /\ nvt[e].connected /\ net[e] = <<>> /\ down[Other(e)]
  /\ Return(e, Started(e))
  /\ UNCHANGED <<setup, todo, down, resized, blocks>>

(***************************************************************************)
(* telnet_read() at the end of file: first it returns its message, which   *)
(* there is none of in host mode, and at the next call the end.  The       *)
(* connection is then cleaned up, which closes the socket.                 *)
(***************************************************************************)
ReadEnd(e) ==
  /\ e \in Qodems /\ nvt[e].connected /\ net[e] = <<>> /\ down[Other(e)]
  /\ LET n == Started(e)
     IN  IF n.msg
           THEN /\ Return(e, [n EXCEPT !.connected = FALSE])
                /\ down' = [down EXCEPT ![e] = TRUE]
           ELSE /\ LET p == IF e = "h" /\ setup.console THEN n
                             ELSE ReadByte(n, "closed", setup.size)
                   IN  Return(e, [p EXCEPT !.msg = TRUE])
                /\ UNCHANGED down
  /\ UNCHANGED <<setup, todo, resized, blocks>>

-----------------------------------------------------------------------------
CanWrite(e) ==
  /\ e \in Qodems /\ nvt[e].connected /\ ~down[e] /\ todo[e] # <<>>
  /\ setup.host \/ ~down["h"]

(* process_incoming_data() keeps what was not sent. *)
Remaining(bufs, sent) ==
  LET b == Head(bufs)
  IN  IF sent = Len(b) THEN Tail(bufs) ELSE <<SubSeq(b, sent + 1, Len(b))>> \o Tail(bufs)

(* qodem_write(), or the call of it in process_incoming_data() *)
Write(e) ==
  /\ CanWrite(e)
  /\ \E w \in {WriteAll(Started(e), Head(todo[e]), setup.console)} :
       /\ Return(e, w.n)
       /\ todo' = [todo EXCEPT ![e] = Remaining(@, w.sent)]
  /\ UNCHANGED <<setup, down, resized, blocks>>

(* In the console qodem_write() calls telnet_write() again with all of the *)
(* buffer; where some of it was sent, from the wrong place and beyond it.  *)
WriteAgain(w, b) ==
  LET left == Len(b) - w.sent
  IN  IF left = 0 THEN w.n
      ELSE IF left = Len(b) THEN WriteAll(w.n, b, TRUE).n
      ELSE WriteAll(w.n, SubSeq(b, left + 1, Len(b)) \o [j \in 1..left |-> "junk"], TRUE).n

(* The same with a socket that is full after m bytes *)
WriteFull(e) ==
  /\ setup.full /\ blocks < MaxBlocks /\ CanWrite(e)
  /\ LET b == Head(todo[e])
         all == Bytes(Parts(nvt[e], b, setup.console).parts)
     IN  \E m \in 0..(Len(all) - 1) : \E w \in {WriteSome(Started(e), b, setup.console, m)} :
           /\ Return(e, IF setup.console THEN WriteAgain(w, b) ELSE w.n)
           /\ todo' = [todo EXCEPT ![e] = IF setup.console THEN Tail(@) ELSE Remaining(@, w.sent)]
  /\ blocks' = blocks + 1
  /\ UNCHANGED <<setup, down, resized>>

(* telnet_resize_screen() *)
Resize ==
  /\ ~resized /\ setup.resize /\ nvt["c"].connected /\ "31" \in nvt["c"].on
  /\ Return("c", SendNaws(nvt["c"], setup.size)) /\ resized' = TRUE
  /\ UNCHANGED <<setup, todo, down, blocks>>

(* net_close(), or the server ends *)
HangUp(e) ==
  /\ e \in setup.hangs /\ nvt[e].connected /\ ~down[e]
  /\ e \in Qodems \/ todo[e] = <<>>
  /\ down' = [down EXCEPT ![e] = TRUE]
  /\ UNCHANGED <<setup, nvt, net, todo, got, resized, blocks>>

(* The server sends its messages and reads, but does not answer. *)
ServerSend ==
  /\ ~setup.host /\ todo["h"] # <<>>
  /\ net' = [net EXCEPT !["c"] = @ \o Head(todo["h"])]
  /\ todo' = [todo EXCEPT !["h"] = Tail(@)]
  /\ UNCHANGED <<setup, nvt, got, down, resized, blocks>>

ServerRead ==
  /\ ~setup.host /\ net["h"] # <<>>
  /\ got' = [got EXCEPT !["h"] = @ \o net["h"]] /\ net' = [net EXCEPT !["h"] = <<>>]
  /\ UNCHANGED <<setup, nvt, todo, down, resized, blocks>>

Server == ServerSend \/ ServerRead

TNext ==
  \/ \E e \in {"c", "h"} : Read(e) \/ ReadEnd(e) \/ Write(e) \/ WriteFull(e) \/ HangUp(e)
  \/ Resize \/ Server

(* Each main loop polls its socket and sends what it has; a server lives. *)
TFairness ==
  /\ \A e \in {"c", "h"} : WF_telnetVars(Read(e) \/ ReadEnd(e)) /\ WF_telnetVars(Write(e))
  /\ WF_telnetVars(Server)

TSpec == TInit /\ [][TNext]_telnetVars /\ TFairness

-----------------------------------------------------------------------------
(* The types of the variables, and that the parser is in one state only. *)
TTypeOK ==
  /\ blocks \in 0..MaxBlocks /\ resized \in BOOLEAN /\ down \in [{"c", "h"} -> BOOLEAN]
  /\ \A e \in {"c", "h"} :
       /\ nvt[e].on \subseteq Options /\ nvt[e].dowill \in Verbs \cup {""}
       /\ nvt[e].init => nvt[e].on = {} /\ nvt[e].wbuf = <<>>
       /\ nvt[e].dowill # "" => ~nvt[e].iac /\ ~nvt[e].sub
       /\ nvt[e].wbuf # <<>> => blocks > 0

(* What was read, without the message about the end *)
Data(e) ==
  IF got[e] # <<>> /\ Last(got[e]) = "closed" THEN Front(got[e]) ELSE got[e]

(***************************************************************************)
(* The channel is 8-bit clean: what an end reads is what the other wrote,  *)
(* from its start, whatever is negotiated in between and whichever way the *)
(* two are in binary mode: no command comes through, no byte is taken for  *)
(* one.  Not so once a socket was full, or once a CR was written in ASCII  *)
(* mode without LF.                                                        *)
(***************************************************************************)
TClean ==
  \A e \in Qodems : blocks = 0 /\ ~nvt[Other(e)].bare => IsPrefix(Data(e), setup.text[e])

(***************************************************************************)
(* d is text, read from its start, where now and then some bytes come      *)
(* again: each byte of d is the one that follows in text, or one before    *)
(* it.  at[i] are the places of text where the i-th byte of d can be from. *)
(***************************************************************************)
Repeats(d, text) ==
  LET at[i \in 0..Len(d)] ==
        IF i = 0 THEN {0}
        ELSE {k \in DOMAIN text : text[k] = d[i] /\ \E p \in at[i - 1] : k <= p + 1}
  IN  at[Len(d)] # {}

(* What an answer could separate from its double, and in the console also  *)
(* what makes telnet_write() return before the end of its buffer *)
Broken == IF setup.console THEN {"IAC", "CR"} ELSE {"IAC"}

(***************************************************************************)
(* With a socket that was full telnet_write() sends bytes again that it    *)
(* has kept in write_buffer, but it leaves none out, in the middle of a    *)
(* CR LF or between two buffers of a transfer.  Not so when there is an    *)
(* IAC among them, nor in the console when there is a CR: qodem_write()    *)
(* then goes on at a wrong place of its buffer (WriteAgain).               *)
(***************************************************************************)
TNoGap ==
  \A e \in Qodems :
    setup.full /\ ~nvt[Other(e)].bare /\ ToSet(setup.text[e]) \cap Broken = {} =>
      Repeats(Data(e), setup.text[e])

(***************************************************************************)
(* Two qodems come to an agreement.  Their negotiation does not end: WILL  *)
(* is answered with WILL where the window size is concerned, but that is   *)
(* all, and at any time one of them only is on its way.                    *)
(***************************************************************************)
TSettles ==
  setup.host /\ setup.hangs = {} /\ ~setup.full =>
    <>[](/\ nvt["c"].on = {"0", "1", "3", "31"} /\ nvt["h"].on = {"0", "3", "24", "31", "39"}
         /\ Len(SelectSeq(net["c"] \o net["h"], LAMBDA ch : ch \in Verbs)) <= 1)

(* All that is written arrives, and a server's requests are answered. *)
TArrives ==
  setup.hangs = {} /\ ~setup.full =>
    /\ <>(\A e \in Qodems : nvt[Other(e)].bare \/ Data(e) = setup.text[e])
    /\ <>(\A a \in setup.asks : \E i \in DOMAIN got["h"] :
            i + Len(a) - 1 <= Len(got["h"]) /\ SubSeq(got["h"], i, i + Len(a) - 1) = a)

(* When one end hangs up both are closed in the end. *)
TCloses == \A e \in {"c", "h"} : down[e] ~> (\A q \in Qodems : ~nvt[q].connected)
=============================================================================
