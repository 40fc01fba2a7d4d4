------------------------------ MODULE XmodemInv ------------------------------
(***************************************************************************)
(* Why an Xmodem transfer is safe: the inductive invariant of the flavors  *)
(* that wait for an ACK (all but X_1K_G).                                  *)
(***************************************************************************)
EXTENDS Xmodem

(* The position of the sender: PURGE_INPUT will go back to s_prior. *)
SPos == IF s_state = "PURGE_INPUT" THEN s_prior ELSE s_state

(* What the sender's state says of the block it has sent last. *)
SenderPosition ==
  /\ SPos = "INIT" => s_blk = 0
  /\ SPos = "BLOCK" => s_blk < NBlocks
  /\ SPos \in {"LAST_BLOCK", "EOT_ACK"} => s_blk = NBlocks

(* The types, with what they need to be inductive. *)
TypeInv == TypeOK /\ SenderPosition

(* The sender has sent the block the receiver expects, or the one before. *)
Window == r_num - 1 <= s_blk /\ s_blk <= r_num

(***************************************************************************)
(* When fwrite() fails, verify_block() refuses a block of which a part may *)
(* be in the file already.  Apart from such torn blocks the file is still  *)
(* the file sent: its blocks in order, none of them repeated, none left    *)
(* out.                                                                    *)
(***************************************************************************)
Consecutive(f) ==
  \A i \in 1..Len(f) : f[i] # 0 =>
    /\ \A j \in 1..Len(f) : j < i => f[j] < f[i]
    /\ \A b \in 1..(f[i] - 1) : \E j \in 1..Len(f) : j < i /\ f[j] = b

GoodBlocksInOrder == Consecutive(r_file)

(* The blocks that have been written are those before the one expected. *)
HasBefore(f, n) ==
  /\ \A i \in 1..Len(f) : f[i] < n
  /\ \A b \in 1..(n - 1) : \E i \in 1..Len(f) : f[i] = b

BlocksWritten == GoodBlocksInOrder /\ HasBefore(r_file, r_num)

(* If the disk does not fail they are the file, from its start. *)
FileWritten ==
  BlocksWritten /\ (~DiskFaults => Len(r_file) = r_num - 1 /\ PrefixDelivered)

(***************************************************************************)
(* A piece is of the block the receiver expects or of the one before it,   *)
(* or it is an EOT, the receiver has the whole file and the sender is past *)
(* its last block.                                                         *)
(***************************************************************************)
EotSent == SPos \in {"EOT_ACK", "COMPLETE", "ABORT"} /\ r_num = NBlocks + 1

PieceOK(p) ==
  /\ p.x # "one"
  /\ p.l = 1 <=> p.b = NBlocks + 1
  /\ p.b >= r_num - 1
  /\ p.b <= s_blk \/ (p.b = NBlocks + 1 /\ EotSent)

PiecesOK ==
  /\ \A i \in 1..Len(cur) : PieceOK(cur[i])
  /\ \A i \in 1..Len(toR) : PieceOK(toR[i])

(* The pieces are received in the order of their blocks. *)
Ordered(s) == \A i, j \in 1..Len(s) : i <= j => s[i].b <= s[j].b

InOrder ==
  /\ \A i \in 1..Len(cur), j \in 1..Len(toR) : cur[i].b <= toR[j].b
  /\ Ordered(toR)

(***************************************************************************)
(* An ACK answers a block the sender has not yet seen acknowledged, of     *)
(* those the receiver has written, or the EOT; each answers another one.   *)
(***************************************************************************)
AckOK(a) ==
  a.c = "ACK" =>
    /\ a.n >= 1 /\ a.n >= s_blk
    /\ a.n < r_num \/ (a.n = NBlocks + 1 /\ r_xfer = "END")
    /\ SPos = "EOT_ACK" => a.n > NBlocks

AcksOrdered(s) ==
  \A i, j \in 1..Len(s) :
    i < j /\ s[i].c = "ACK" /\ s[j].c = "ACK" => s[i].n < s[j].n

AcksOK == AcksOrdered(toS) /\ \A i \in 1..Len(toS) : AckOK(toS[i])

(* EOT is sent after the last ACK, and success is reported after EOT. *)
EndOK ==
  /\ SPos = "EOT_ACK" => r_num = NBlocks + 1
  /\ r_xfer = "END" => r_num = NBlocks + 1
  /\ s_xfer = "END" => r_xfer = "END"

(***************************************************************************)
(* When it holds: the damage to blocks is such that verify_block() finds   *)
(* it, and both ends wait for ACKs.                                        *)
(***************************************************************************)
SoundLine ==
  /\ "one" \notin NoiseKinds
  /\ \A p \in Setups : ~IsG(p[1]) /\ ~IsG(p[2])

(* The disks do not fail either. *)
Reliable == SoundLine /\ ~DiskFaults

NoG == ~IsG(s_flavor) /\ ~IsG(r_flavor)

(* The inductive invariant of a transfer over a SoundLine. *)
SafeInv ==
  /\ TypeOK /\ NoG /\ SenderPosition /\ Window /\ FileWritten
  /\ PiecesOK /\ InOrder /\ AcksOK /\ EndOK

-----------------------------------------------------------------------------
(***************************************************************************)
(* Retries are bounded while a transfer runs.  check_timeout() counts an   *)
(* error without looking at errors_max, so error_count may pass it, by as  *)
(* much as there were timeouts and no more.                                *)
(***************************************************************************)
RetriesBounded ==
  /\ s_xfer = "RUN" => s_timeouts < TimeoutLimit(s_flavor) /\ s_errors < ErrorsMax + s_timeouts
  /\ r_xfer = "RUN" => r_timeouts < TimeoutLimit(r_flavor) + FirstMax
                       /\ r_errors < ErrorsMax + r_timeouts

(***************************************************************************)
(* The timeouts before the first block are counted by the same counter,    *)
(* with a limit of their own; PURGE_INPUT never goes back to them.         *)
(***************************************************************************)
RetryInv ==
  /\ RetriesBounded
  /\ r_state = "INIT" => r_timeouts = 0
  /\ r_state = "FIRST_BLOCK" => r_timeouts < FirstMax
  /\ r_state = "PURGE_INPUT" => r_prior = "BLOCK"
=============================================================================
