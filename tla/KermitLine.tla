----------------------------- MODULE KermitLine -----------------------------
(***************************************************************************)
(* The line between the two ends of a Kermit transfer, and the packets     *)
(* that travel on it (source/kermit.c).                                    *)
(*                                                                         *)
(* decode_input_bytes() leaves a packet that is not all there in           *)
(* packet_buffer, so a packet is one message, whatever the line cuts it    *)
(* into.  A packet it rejects it discards with all that is in              *)
(* packet_buffer: whole packets that follow, and the first part of one     *)
(* more (Tossed).                                                          *)
(*                                                                         *)
(* A file is a number of units, each of them what one D packet carries; a  *)
(* unit is known by its place, from 1.                                     *)
(***************************************************************************)
EXTENDS Integers, Sequences, FiniteSetsExt

CONSTANTS
  NFiles,      \* files of the upload list
  Size,        \* their sizes
  SeqMod,      \* sequence numbers are sent modulo this (64)
  Window,      \* WINDO of both ends (30)
  NoiseKinds,  \* what noise may do to a packet, see LineNoise
  MaxFaults    \* bound on the packets that noise changes

(* The sizes the algorithms of the windows need. *)
ASSUME KLineAssumption ==
  /\ NFiles \in Nat \ {0}
  /\ Size \in [1..NFiles -> Nat]
  /\ Window \in Nat /\ Window > 2
  /\ SeqMod \in Nat /\ SeqMod > 2 * Window
  /\ NoiseKinds \subseteq {"bad", "len", "noise", "cut"}
  /\ MaxFaults \in Nat

VARIABLES
  toR, toS,    \* packets on their way to the receiver and to the sender
  faults       \* packets that noise has changed

klineVars == <<toR, toS, faults>>

-----------------------------------------------------------------------------
(***************************************************************************)
(* A packet has a type t, a sequence number q, a check type c, a file f    *)
(* and an argument a; k tells the data fields apart that the other end     *)
(* does: "parms" of ACK(0), "name" and "pos" and "N" of the ACKs of F and  *)
(* A, "X" in an ACK and "D" in a Z of a file to be skipped.  x is what     *)
(* noise has done to the packet.                                           *)
(***************************************************************************)
Packet(t, q, k, f, a, c) ==
  [t |-> t, q |-> q, k |-> k, f |-> f, a |-> a, c |-> c, x |-> "ok"]

None == Packet("none", 0, "", 0, 0, 0)

(***************************************************************************)
(* decode_input_bytes() accepts m, at an end whose check type is c: S is   *)
(* always sent with type 1, and a NAK tells its type by its length.        *)
(***************************************************************************)
Accepted(m, c) ==
  /\ m.x = "ok" /\ m.q < SeqMod
  /\ m.t \in {"S", "NAK"} \/ m.c = c

(* input_packet.seq after a packet was rejected: the length comes first. *)
SeqSeen(m) == IF m.x = "len" THEN 0 ELSE m.q

(* The packet at the front lacks its end, and nothing follows. *)
Starved(line) == line = <<>> \/ (Len(line) = 1 /\ line[1].x = "cut")

(* Op(v): the next stage of what a round does, with v evaluated once *)
Thru(v, Op(_)) == CHOOSE w \in {Op(u) : u \in {v}} : TRUE

-----------------------------------------------------------------------------
Spoilt(m, x) == [m EXCEPT !.x = x]

(* The first part of the packet at the front may have been discarded. *)
Rest(line) ==
  {line} \cup IF line = <<>> THEN {} ELSE {[line EXCEPT ![1] = Spoilt(@, "noise")]}

(* The first k packets, or more, are discarded. *)
Tossed(line, k) ==
  UNION {Rest(SubSeq(line, j + 1, Len(line))) : j \in k..Len(line)}

(***************************************************************************)
(* Of a packet that is rejected; one with too great a length takes in what *)
(* follows first.                                                          *)
(***************************************************************************)
AfterBad(line) == Tossed(line, IF line[1].x = "cut" THEN 2 ELSE 1)

(***************************************************************************)
(* Line noise: the check disagrees ("bad"), the length is none ("len") or  *)
(* too great ("cut"), or the MARK is not there ("noise").                  *)
(***************************************************************************)
LineNoise ==
  /\ faults < MaxFaults /\ faults' = faults + 1
  /\ \E k \in NoiseKinds :
       \/ \E i \in DOMAIN toR : toR' = [toR EXCEPT ![i] = Spoilt(@, k)] /\ UNCHANGED toS
       \/ \E i \in DOMAIN toS : toS' = [toS EXCEPT ![i] = Spoilt(@, k)] /\ UNCHANGED toR
=============================================================================
