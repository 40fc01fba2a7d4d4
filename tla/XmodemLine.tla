----------------------------- MODULE XmodemLine -----------------------------
(***************************************************************************)
(* The line between an Xmodem sender and an Xmodem receiver, and the       *)
(* blocks that travel on it (source/xmodem.c).                             *)
(*                                                                         *)
(* A block is cut into pieces, so that a handler can be given any part of  *)
(* it: a read() returns whatever has arrived.  Piece 1 is the header (SOH  *)
(* or STX, sequence number, complement); the others are data and check     *)
(* bytes.  The lengths of the three kinds of block, 132, 133 and 1029      *)
(* bytes in the code, are SumLen, CrcLen and LongLen pieces.  EOT is a     *)
(* block of one piece.  The content of a block is its number in the file.  *)
(***************************************************************************)
EXTENDS Integers, Sequences

CONSTANTS
  NBlocks,     \* blocks of the file, the padded last one included
  SeqMod,      \* current_block_sequence_i is an unsigned char: 256
  SumLen,      \* pieces of a 128-byte block with a checksum (128 + 4)
  CrcLen,      \* pieces of a 128-byte block with a CRC (128 + 5)
  LongLen,     \* pieces of a 1K block, XMODEM_MAX_BLOCK_SIZE (1024 + 5)
  TailShort,   \* the last read of the file returns at most 128 bytes
  NoiseKinds,  \* what line noise may do to a piece, see Noise
  MaxFaults,   \* bound on the faults of the line and of the disks
  DiskFaults   \* reading or writing the file may fail

ASSUME LineAssumption ==
  /\ NBlocks \in Nat \ {0}
  /\ SeqMod \in Nat /\ SeqMod >= 2
  /\ SumLen \in Nat /\ CrcLen \in Nat /\ LongLen \in Nat
  /\ 1 < SumLen /\ SumLen < CrcLen /\ CrcLen < LongLen
  /\ TailShort \in BOOLEAN /\ DiskFaults \in BOOLEAN
  /\ NoiseKinds \subseteq {"hdr", "both", "one"}
  /\ MaxFaults \in Nat

VARIABLES
  toR,         \* pieces on their way from the sender to the receiver
  toS,         \* control bytes on their way from the receiver to the sender
  faults       \* faults so far

lineVars == <<toR, toS, faults>>

-----------------------------------------------------------------------------
(* XMODEM_FLAVOR *)
Flavors == {"X_RELAXED", "X_NORMAL", "X_CRC", "X_1K", "X_1K_G"}

Checksum(f) == f \in {"X_RELAXED", "X_NORMAL"}
IsG(f)      == f = "X_1K_G"
Is1K(f)     == f \in {"X_1K", "X_1K_G"}

(* The byte that starts the transfer in each flavor. *)
FirstByte(f) ==
  IF Checksum(f) THEN "NAK" ELSE IF IsG(f) THEN "G" ELSE "C"

(* The block size construct_block() chooses. *)
BlockLen(f, b) ==
  IF Checksum(f) THEN SumLen
  ELSE IF f = "X_CRC" \/ (TailShort /\ b = NBlocks) THEN CrcLen
  ELSE LongLen

Noise   == {"hdr", "both", "one"}
Pieces  == [b: 1..(NBlocks + 1), o: 1..LongLen, l: 1..LongLen,
            x: {"ok"} \cup Noise]
Control == {"NAK", "ACK", "CAN", "C", "G", "noise"}
ControlBytes == [c: Control, n: Nat]

(* Block b as it is put on the line by a sender of flavor f. *)
Block(f, b) ==
  [i \in 1..BlockLen(f, b) |->
     [b |-> b, o |-> i, l |-> BlockLen(f, b), x |-> "ok"]]

(* EOT carries, as bookkeeping, the number after that of the last block. *)
EOT == [b |-> NBlocks + 1, o |-> 1, l |-> 1, x |-> "ok"]

-----------------------------------------------------------------------------
(***************************************************************************)
(* What current_block holds.  An ACK carries the number of the block it    *)
(* answers as bookkeeping; no handler reads it.  The code takes every lone *)
(* byte 4 for EOT; pieces have no values, so here it is a real one.        *)
(***************************************************************************)
IsSOH(p) == p.o = 1 /\ p.x # "hdr" /\ p.l \in {SumLen, CrcLen}
IsSTX(p) == p.o = 1 /\ p.x # "hdr" /\ p.l = LongLen
IsEOT(p) == p.l = 1 /\ p.x = "ok"

(* The first l pieces of c are the l pieces of one block. *)
Whole(c, l) ==
  /\ Len(c) >= l
  /\ \A i \in 1..l : c[i].b = c[1].b /\ c[i].l = l /\ c[i].o = i

(***************************************************************************)
(* What damage the check bytes miss.  The checksum is compared whole.  The *)
(* two CRC bytes are compared with "&&": a block is refused only when BOTH *)
(* differ, so damage that leaves one of them right ("one") is not seen.    *)
(***************************************************************************)
Undetected(f) == IF Checksum(f) THEN {"ok"} ELSE {"ok", "one"}

(***************************************************************************)
(* verify_block(): the size, the header, the sequence number and the check *)
(* bytes of current_block, for a receiver of flavor f that expects         *)
(* sequence number seq.  The DUPLICATE BLOCK test that follows them in the *)
(* code compares the number just found equal to seq with seq - 1, so it    *)
(* never fires.                                                            *)
(***************************************************************************)
VerifyLen(f, c) ==
  IF Checksum(f) THEN SumLen
  ELSE IF f = "X_CRC" \/ IsSOH(c[1]) THEN CrcLen ELSE LongLen

(* Mutant: the sequence number is not looked at. *)
VerifyBlockAnySequence(f, seq, c) ==
  /\ Len(c) \in IF Checksum(f) THEN {SumLen}
                ELSE IF f = "X_CRC" THEN {CrcLen} ELSE {CrcLen, LongLen}
  /\ IsSOH(c[1]) \/ (Is1K(f) /\ IsSTX(c[1]))
  /\ Whole(c, VerifyLen(f, c))
  /\ \A i \in 1..VerifyLen(f, c) : c[i].x \in Undetected(f)

VerifyBlock(f, seq, c) ==
  /\ Len(c) \in IF Checksum(f) THEN {SumLen}
                ELSE IF f = "X_CRC" THEN {CrcLen} ELSE {CrcLen, LongLen}
  /\ IsSOH(c[1]) \/ (Is1K(f) /\ IsSTX(c[1]))
  /\ c[1].b % SeqMod = seq
  /\ Whole(c, VerifyLen(f, c))
  /\ \A i \in 1..VerifyLen(f, c) : c[i].x \in Undetected(f)

(* What verify_block() appends to the file: a block number, 0 for bytes    *)
(* that are not those of the file.                                         *)
Content(f, c) ==
  IF \A i \in 1..VerifyLen(f, c) : c[i].x = "ok" THEN c[1].b ELSE 0

-----------------------------------------------------------------------------
(* Sequence s without its elements i to j. *)
Without(s, i, j) ==
  [k \in 1..(Len(s) - (j - i + 1)) |-> IF k < i THEN s[k] ELSE s[k + (j - i + 1)]]

(* Sequence s after its first k elements have been read. *)
After(s, k) == [i \in 1..(Len(s) - k) |-> s[i + k]]

Fault == faults < MaxFaults /\ faults' = faults + 1

(* The line loses some bytes in a row, in one direction. *)
LosePieces ==
  \E i \in 1..Len(toR) : \E j \in i..Len(toR) :
    toR' = Without(toR, i, j) /\ UNCHANGED toS

LoseControl ==
  \E i \in 1..Len(toS) : \E j \in i..Len(toS) :
    toS' = Without(toS, i, j) /\ UNCHANGED toR

(* The damage noise can do: a header byte is destroyed, or other bytes are *)
(* changed so that both or only one of the CRC bytes disagree.             *)
Damage(p) == NoiseKinds \cap IF p.o = 1 THEN {"hdr", "both"} ELSE {"both", "one"}

(* Line noise changes a piece, or turns a control byte into another byte   *)
(* that is none of them.                                                   *)
GarblePiece ==
  \E i \in 1..Len(toR) : \E x \in Damage(toR[i]) :
    toR' = [toR EXCEPT ![i] = [@ EXCEPT !.x = x]] /\ UNCHANGED toS

GarbleControl ==
  /\ NoiseKinds # {}
  /\ \E i \in 1..Len(toS) : toS' = [toS EXCEPT ![i] = [@ EXCEPT !.c = "noise"]]
  /\ UNCHANGED toR

LineFault == Fault /\ (LosePieces \/ LoseControl \/ GarblePiece \/ GarbleControl)

LineInit == toR = <<>> /\ toS = <<>> /\ faults = 0
LineTypeOK ==
  /\ toR \in Seq(Pieces)
  /\ toS \in Seq(ControlBytes)
  /\ faults \in 0..MaxFaults
=============================================================================
