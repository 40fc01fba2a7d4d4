--------------------------- MODULE XmodemReceiver ---------------------------
(***************************************************************************)
(* xmodem_receive(): the receiving end of an Xmodem transfer, between      *)
(* xmodem_start() and the moment the transfer stops.  As in XmodemSender,  *)
(* an action is one call of xmodem() with a prefix of toR, or with no      *)
(* input, made only while the transfer runs.                               *)
(***************************************************************************)
EXTENDS XmodemSender

CONSTANT FirstMax   \* tries of the enhanced flavor before the fallback, 5

ASSUME FirstAssumption == FirstMax \in Nat \ {0}

VARIABLES
  r_state,     \* state
  r_prior,     \* prior_state
  r_flavor,    \* flavor
  r_first,     \* first_byte
  r_num,       \* current_block_number; its low byte is current_block_sequence_i
  cur,         \* current_block[0 .. current_block_n - 1]
  r_file,      \* what has been written to the file: block numbers, 0 for
               \* bytes that are not those of the block expected there
  r_timeouts,  \* timeout_count
  r_errors,    \* q_transfer_stats.error_count
  r_xfer       \* q_transfer_stats.state, or "CRASH" after a failed assert()

rVars == <<r_state, r_prior, r_flavor, r_first, r_num, cur, r_file,
           r_timeouts, r_errors, r_xfer>>

RStates == {"INIT", "FIRST_BLOCK", "BLOCK", "PURGE_INPUT", "COMPLETE", "ABORT"}

(* xmodem_start(..., Q_FALSE, f) *)
RInit(f) ==
  /\ r_state = "INIT" /\ r_prior = "INIT"
  /\ r_flavor = f /\ r_first = FirstByte(f)
  /\ r_num = 1 /\ cur = <<>> /\ r_file = <<>>
  /\ r_timeouts = 0 /\ r_errors = 0 /\ r_xfer = "RUN"

-----------------------------------------------------------------------------
(* The call reads the first k pieces on the line; it writes a byte c. *)
RRead(k) == k \in 1..Len(toR) /\ toR' = After(toR, k)
RPut(c, n) == toS' = Append(toS, [c |-> c, n |-> n])

RStop(st, x) == r_state' = st /\ r_xfer' = x

Input(k) == [i \in 1..k |-> toR[i]]

(* INIT sends first_byte and drops what is in the input. *)
RBegin(k) ==
  /\ r_xfer = "RUN" /\ r_state = "INIT"
  /\ \/ k = 0 /\ UNCHANGED toR
     \/ RRead(k)
  /\ r_state' = IF Checksum(r_flavor) THEN "BLOCK" ELSE "FIRST_BLOCK"
  /\ RPut(r_first, 0)
  /\ UNCHANGED <<r_prior, r_flavor, r_first, r_num, cur, r_file, r_timeouts,
                 r_errors, r_xfer, faults>>

(***************************************************************************)
(* FIRST_BLOCK, three seconds without a byte: first_byte again.  The last  *)
(* try falls back to plain Xmodem through PURGE_INPUT; its NAK is          *)
(* overwritten by first_byte, which stays that of the enhanced flavor, and *)
(* an abort by stats_increment_errors() leaves state at PURGE_INPUT.       *)
(***************************************************************************)
RFirstTimeout ==
  /\ r_xfer = "RUN" /\ r_state = "FIRST_BLOCK"
  /\ r_timeouts' = r_timeouts + 1
  /\ r_errors' = r_errors + 1
  /\ r_xfer' = IF r_errors + 1 >= ErrorsMax THEN "ABORT" ELSE r_xfer
  /\ IF r_timeouts + 1 >= FirstMax
       THEN /\ r_state' = "PURGE_INPUT" /\ r_prior' = "BLOCK"
            /\ r_flavor' = "X_NORMAL"
       ELSE /\ r_state' = IF r_errors + 1 >= ErrorsMax THEN "ABORT" ELSE r_state
            /\ UNCHANGED <<r_prior, r_flavor>>
  /\ RPut(r_first, 0)
  /\ UNCHANGED <<r_first, r_num, cur, r_file, toR, faults>>

(***************************************************************************)
(* BLOCK, timeout_length without a byte: check_timeout(), then first_byte. *)
(* Before the first block PURGE_INPUT is left at once; later it will send  *)
(* a NAK as well.  current_block keeps what it holds.                      *)
(***************************************************************************)
(* Mutant: the timeout runs only until the first block has come. *)
RTimeoutFirstBlockOnly ==
  /\ r_xfer = "RUN" /\ r_state = "BLOCK" /\ r_num = 1
  /\ r_timeouts' = r_timeouts + 1
  /\ r_errors' = r_errors + 1
  /\ IF r_timeouts + 1 >= TimeoutLimit(r_flavor)
       THEN RPut("CAN", 0) /\ RStop("ABORT", "ABORT")
       ELSE RPut(r_first, 0) /\ UNCHANGED <<r_state, r_xfer>>
  /\ UNCHANGED <<r_prior, r_flavor, r_first, r_num, cur, r_file, toR, faults>>

RTimeout ==
  /\ r_xfer = "RUN" /\ r_state = "BLOCK"
  /\ r_timeouts' = r_timeouts + 1
  /\ r_errors' = r_errors + 1
  /\ IF r_timeouts + 1 >= TimeoutLimit(r_flavor)
       THEN /\ RPut("CAN", 0) /\ RStop("ABORT", "ABORT")
            /\ UNCHANGED r_prior
       ELSE /\ RPut(r_first, 0) /\ UNCHANGED r_xfer
            /\ r_prior' = "BLOCK"
            /\ r_state' = IF r_num = 1 THEN "BLOCK" ELSE "PURGE_INPUT"
  /\ UNCHANGED <<r_flavor, r_first, r_num, cur, r_file, toR, faults>>

-----------------------------------------------------------------------------
(* BLOCK with input; FIRST_BLOCK becomes BLOCK as soon as there is some. *)
RReading == r_xfer = "RUN" /\ r_state \in {"FIRST_BLOCK", "BLOCK"}

(* More than a block: purge.  What current_block holds already stays. *)
TooMuch(k) == Len(cur) + k > LongLen

RTooMuch(k) ==
  /\ RReading /\ ~IsG(r_flavor) /\ RRead(k) /\ TooMuch(k)
  /\ r_prior' = "BLOCK" /\ r_state' = "PURGE_INPUT"
  /\ UNCHANGED <<r_flavor, r_first, r_num, cur, r_file, r_timeouts, r_errors,
                 r_xfer, toS, faults>>

(* Not yet a whole block in current_block. *)
(* Mutant: a whole block is taken for one that lacks a byte. *)
WaitingForOneMore(f, c) ==
  IF Checksum(f) THEN Len(c) <= SumLen
  ELSE Len(c) <= CrcLen \/ (Is1K(f) /\ IsSTX(c[1]) /\ Len(c) <= LongLen)

Waiting(f, c) ==
  IF Checksum(f) THEN Len(c) < SumLen
  ELSE Len(c) < CrcLen \/ (Is1K(f) /\ IsSTX(c[1]) /\ Len(c) < LongLen)

AtEot(c) == Len(c) = 1 /\ IsEOT(c[1])

(* What the G flavors still take from the input to make a whole block. *)
GNeeds == IF cur # <<>> /\ IsSOH(cur[1]) THEN CrcLen ELSE LongLen

(* The input is kept in current_block until there is a whole block. *)
RCollect(k) ==
  /\ RReading /\ RRead(k)
  /\ IF IsG(r_flavor) THEN Len(cur) + k < GNeeds
     ELSE ~TooMuch(k) /\ Waiting(r_flavor, cur \o Input(k))
  /\ ~AtEot(cur \o Input(k))
  /\ cur' = cur \o Input(k)
  /\ r_state' = "BLOCK"
  /\ UNCHANGED <<r_prior, r_flavor, r_first, r_num, r_file, r_timeouts,
                 r_errors, r_xfer, toS, faults>>

(* EOT: the padding is cut off the file and EOT is acknowledged. *)
REot ==
  /\ RReading /\ RRead(1) /\ AtEot(cur \o Input(1))
  /\ cur' = <<>>
  /\ RStop("COMPLETE", "END")
  /\ RPut("ACK", NBlocks + 1)
  /\ UNCHANGED <<r_prior, r_flavor, r_first, r_num, r_file, r_timeouts,
                 r_errors, faults>>

(* The input fills current_block: non-G takes it all, G what is missing. *)
RFilled(k) ==
  /\ RReading /\ RRead(k)
  /\ IF IsG(r_flavor) THEN Len(cur) + k = GNeeds
     ELSE ~TooMuch(k) /\ ~Waiting(r_flavor, cur \o Input(k))

(* verify_block() accepts and fwrite() succeeds: ACK, except for G. *)
RAccept(k) ==
  /\ RFilled(k)
  /\ VerifyBlock(r_flavor, r_num % SeqMod, cur \o Input(k))
  /\ r_file' = Append(r_file, Content(r_flavor, cur \o Input(k)))
  /\ r_num' = r_num + 1
  /\ cur' = <<>> /\ r_state' = "BLOCK"
  /\ IF IsG(r_flavor) THEN UNCHANGED toS ELSE RPut("ACK", r_num)
  /\ UNCHANGED <<r_prior, r_flavor, r_first, r_timeouts, r_errors, r_xfer, faults>>

(***************************************************************************)
(* verify_block() refuses: the block is thrown away and asked for again,   *)
(* after stats_increment_errors(); for G this is the end.                  *)
(***************************************************************************)
RRefused(k) ==
  /\ r_errors' = r_errors + 1
  /\ IF IsG(r_flavor) \/ r_errors + 1 >= ErrorsMax
       THEN /\ RStop("ABORT", "ABORT") /\ UNCHANGED r_prior
            /\ cur' = IF IsG(r_flavor) THEN <<>> ELSE cur \o Input(k)
       ELSE /\ r_state' = "PURGE_INPUT" /\ r_prior' = "BLOCK"
            /\ cur' = <<>> /\ UNCHANGED r_xfer
  /\ UNCHANGED <<r_flavor, r_first, r_num, r_timeouts, toS>>

RRefuse(k) ==
  /\ RFilled(k)
  /\ ~VerifyBlock(r_flavor, r_num % SeqMod, cur \o Input(k))
  /\ RRefused(k) /\ UNCHANGED <<r_file, faults>>

(* fwrite() is short on a good block; part of it may be in the file. *)
RWriteError(k) ==
  /\ DiskFaults /\ RFilled(k) /\ Fault
  /\ VerifyBlock(r_flavor, r_num % SeqMod, cur \o Input(k))
  /\ r_file' \in {r_file, Append(r_file, 0)}
  /\ RRefused(k)

(* assert(current_block_n < n) *)
RAssertFails(k) ==
  /\ RReading /\ IsG(r_flavor) /\ RRead(k) /\ Len(cur) >= GNeeds
  /\ r_xfer' = "CRASH"
  /\ UNCHANGED <<r_state, r_prior, r_flavor, r_first, r_num, cur, r_file,
                 r_timeouts, r_errors, toS, faults>>

(* PURGE_INPUT drops the input until a call finds none; then a NAK. *)
RPurge(k) ==
  /\ r_xfer = "RUN" /\ r_state = "PURGE_INPUT" /\ RRead(k)
  /\ UNCHANGED <<rVars, toS, faults>>

RNak ==
  /\ r_xfer = "RUN" /\ r_state = "PURGE_INPUT"
  /\ r_state' = r_prior
  /\ RPut("NAK", 0)
  /\ UNCHANGED <<r_prior, r_flavor, r_first, r_num, cur, r_file, r_timeouts,
                 r_errors, r_xfer, toR, faults>>

RUserAbort ==
  /\ r_xfer = "RUN" /\ r_xfer' = "ABORT"
  /\ UNCHANGED <<r_state, r_prior, r_flavor, r_first, r_num, cur, r_file,
                 r_timeouts, r_errors, lineVars>>

RHandle(k) ==
  \/ RTooMuch(k) \/ RCollect(k) \/ RAccept(k) \/ RRefuse(k) \/ RWriteError(k)
  \/ RAssertFails(k) \/ RPurge(k)

RTypeOK ==
  /\ r_state \in RStates /\ r_prior \in RStates /\ r_flavor \in Flavors
  /\ r_first \in {"NAK", "C", "G"}
  /\ r_num \in Nat \ {0}
  /\ cur \in Seq(Pieces) /\ Len(cur) <= LongLen
  /\ r_file \in Seq(0..(NBlocks + 1))
  /\ r_timeouts \in Nat /\ r_errors \in Nat
  /\ r_xfer \in Xfer \cup {"CRASH"}
=============================================================================
