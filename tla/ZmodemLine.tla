----------------------------- MODULE ZmodemLine -----------------------------
(***************************************************************************)
(* The line between zmodem_send() and zmodem_receive(), and the headers    *)
(* and data subpackets that travel on it (source/zmodem.c).                *)
(*                                                                         *)
(* parse_packet() and decode_zdata_bytes() leave a packet that is not all  *)
(* there in packet_buffer and wait, so a packet is one message, whatever   *)
(* the line cuts it into; what can be seen of the cuts is that a packet    *)
(* loses its first part when packet_buffer is emptied (Rest), and that one *)
(* whose end is lost ("cut") stays in packet_buffer.                       *)
(*                                                                         *)
(* A file is a number of units, each less than or equal to a block; a unit *)
(* is known by its place, from 1.                                          *)
(***************************************************************************)
EXTENDS Integers, Sequences

CONSTANTS
  NFiles,      \* files of the upload list
  Size,        \* their sizes
  NoiseKinds,  \* what noise may do to a message, see Damage
  MaxFaults    \* bound on the messages that noise changes

ASSUME ZLineAssumption ==
  /\ NFiles \in Nat \ {0}
  /\ Size \in [1..NFiles -> Nat]
  /\ NoiseKinds \subseteq {"bad", "type", "noise", "cut"}
  /\ MaxFaults \in Nat

VARIABLES
  toR, toS,    \* messages on their way to the receiver and to the sender
  faults       \* messages that noise has changed

zlineVars == <<toR, toS, faults>>

-----------------------------------------------------------------------------
(***************************************************************************)
(* A message has a type t, a file f, an argument a, a number of units n    *)
(* and an encoding e: "B" for a hex header (a 16-bit CRC), "C" for a       *)
(* binary one (32 bits), and G, Q or W for ZCRCG, ZCRCQ and ZCRCW, which   *)
(* end a data subpacket.  x is what noise has done to it.                  *)
(***************************************************************************)
SubTypes == {"DATA", "NAME", "ATTN"}

Header(t, a, hex) ==
  [t |-> t, f |-> 0, a |-> a, n |-> 0, e |-> IF hex THEN "B" ELSE "C", x |-> "ok"]

FileHeader(t, f, a, hex) == [Header(t, a, hex) EXCEPT !.f = f]

Subpacket(t, f, a, n, e) ==
  [t |-> t, f |-> f, a |-> a, n |-> n, e |-> e, x |-> "ok"]

IsSub(m) == m.t \in SubTypes

(* parse_packet() sees a header; it discards the bytes before it. *)
IsHeader(m) == ~IsSub(m) /\ m.x \notin {"noise", "tail"}

(* Damaged bytes may look like the start of one. *)
MayLookLikeHeader(m) == m.x # "tail"

(* decode_zdata_bytes() finds the end of a subpacket. *)
HasEnd(m) == IsSub(m) /\ m.x \in {"ok", "bad"}

(***************************************************************************)
(* What parse_packet() makes of the header at the front of the buffer.     *)
(* The type is looked at before the CRC is, and a header that lacks its    *)
(* end takes it from what comes next.                                      *)
(***************************************************************************)
Parsed(b) == IF b[1].x = "ok" THEN "OK"
             ELSE IF b[1].x = "type" THEN "INVALID"
             ELSE IF b[1].x = "cut" /\ Len(b) = 1 THEN "NODATA" ELSE "CRCERROR"

(* Nothing to do with buffer b until more comes. *)
Starved(b) == b # <<>> => IsHeader(b[1]) /\ Parsed(b) = "NODATA"

-----------------------------------------------------------------------------
Spoilt(m, x) == [m EXCEPT !.x = x]

(***************************************************************************)
(* packet_buffer is emptied: of the message behind it, a part may already  *)
(* have been there.  The part that is left of a subpacket may have its     *)
(* end.  (That it looks like the start of a header counts as noise.)       *)
(***************************************************************************)
Rest(line) ==
  IF line = <<>> THEN {line}
  ELSE {line} \cup {[line EXCEPT ![1] = Spoilt(@, x)] :
                      x \in IF IsSub(line[1]) THEN {"bad", "tail"} ELSE {"tail"}}

(***************************************************************************)
(* build_packet() writes the start of a header (all of a hex one) to the   *)
(* start of the output, whatever is there, and the rest to its end.  What  *)
(* lies between are old bytes of the buffer, taken to hold no ZPAD.        *)
(***************************************************************************)
Built(out, m) ==
  IF out = <<>> THEN <<m>>
  ELSE IF m.e = "B" THEN <<m, Spoilt(m, "tail")>>
  ELSE Append(IF out[1].e = "B" THEN [out EXCEPT ![1] = Spoilt(@, "type")] ELSE out,
              Spoilt(m, "noise"))

(***************************************************************************)
(* Line noise: the CRC disagrees ("bad"), the type is none ("type", headers*)
(* only), the message cannot be recognised as one any more ("noise"), or   *)
(* its end is missing ("cut", headers only).                               *)
(***************************************************************************)
Damage(m) == NoiseKinds \cap IF IsSub(m) THEN {"bad", "noise"}
                             ELSE {"bad", "type", "noise", "cut"}

LineNoise ==
  /\ faults < MaxFaults /\ faults' = faults + 1
  /\ \/ \E i \in 1..Len(toR) : \E k \in Damage(toR[i]) :
          toR' = [toR EXCEPT ![i] = Spoilt(@, k)] /\ UNCHANGED toS
     \/ \E i \in 1..Len(toS) : \E k \in Damage(toS[i]) :
          toS' = [toS EXCEPT ![i] = Spoilt(@, k)] /\ UNCHANGED toR
=============================================================================
