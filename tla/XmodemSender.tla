---------------------------- MODULE XmodemSender ----------------------------
(***************************************************************************)
(* xmodem_send(): the sending end of an Xmodem transfer, between           *)
(* xmodem_start() and the moment the transfer stops.                       *)
(*                                                                         *)
(* Each action is one call of xmodem().  A call is given the bytes that    *)
(* have arrived, any prefix of toS, or none at all.  protocol_process_data *)
(* calls xmodem() only while the transfer runs, so every action has        *)
(* s_xfer = "RUN" as a guard, whatever xmodem.c's own state says.          *)
(***************************************************************************)
EXTENDS XmodemLine

CONSTANTS
  TimeoutMax,  \* timeout_max: timeouts before the transfer is aborted, 10
  RelaxFactor, \* how many times more of them X_RELAXED allows, 10
  ErrorsMax    \* errors_max: errors before the transfer is aborted, 15

ASSUME LimitAssumption ==
  /\ TimeoutMax \in Nat \ {0}
  /\ RelaxFactor \in Nat \ {0}
  /\ ErrorsMax \in Nat \ {0}

VARIABLES
  s_state,     \* state
  s_prior,     \* prior_state
  s_flavor,    \* flavor
  s_blk,       \* number of the block in current_block, 0 when it holds none
  s_timeouts,  \* timeout_count
  s_errors,    \* q_transfer_stats.error_count
  s_xfer       \* q_transfer_stats.state

sVars == <<s_state, s_prior, s_flavor, s_blk, s_timeouts, s_errors, s_xfer>>

Xfer == {"RUN", "END", "ABORT"}
SStates == {"INIT", "BLOCK", "LAST_BLOCK", "EOT_ACK", "PURGE_INPUT",
            "COMPLETE", "ABORT"}

TimeoutLimit(f) == IF f = "X_RELAXED" THEN RelaxFactor * TimeoutMax ELSE TimeoutMax

(* xmodem_start(..., Q_TRUE, f) *)
SInit(f) ==
  /\ s_state = "INIT" /\ s_prior = "INIT" /\ s_flavor = f /\ s_blk = 0
  /\ s_timeouts = 0 /\ s_errors = 0 /\ s_xfer = "RUN"

-----------------------------------------------------------------------------
(* The call reads the first k control bytes that are on the line. *)
SRead(k) == k \in 1..Len(toS) /\ toS' = After(toS, k)

(* stop_file_transfer(x) with state = st *)
SStop(st, x) == s_state' = st /\ s_xfer' = x

(***************************************************************************)
(* A byte that is not the ACK waited for in state st: the block will be    *)
(* sent again once the input is clear.  stats_increment_errors() aborts    *)
(* the transfer at errors_max.                                             *)
(***************************************************************************)
(* Mutant: one error more than errors_max. *)
SRefusedOnceMore(st) ==
  /\ s_prior' = st
  /\ s_errors' = s_errors + 1
  /\ IF s_errors + 1 > ErrorsMax
       THEN SStop("ABORT", "ABORT")
       ELSE s_state' = "PURGE_INPUT" /\ UNCHANGED s_xfer
  /\ UNCHANGED <<s_blk, s_timeouts, toR>>

SRefused(st) ==
  /\ s_prior' = st
  /\ s_errors' = s_errors + 1
  /\ IF s_errors + 1 >= ErrorsMax
       THEN SStop("ABORT", "ABORT")
       ELSE s_state' = "PURGE_INPUT" /\ UNCHANGED s_xfer
  /\ UNCHANGED <<s_blk, s_timeouts, toR>>

(* construct_block() with flavor f, and the block is put on the line. *)
SSendNext(f) ==
  /\ s_blk' = s_blk + 1
  /\ s_state' = IF s_blk + 1 = NBlocks THEN "LAST_BLOCK" ELSE "BLOCK"
  /\ toR' = toR \o Block(f, s_blk + 1)
  /\ UNCHANGED <<s_prior, s_timeouts, s_errors, s_xfer, faults>>

(* construct_block() cannot read the file: stats_file_cancelled(). *)
SReadError ==
  /\ DiskFaults /\ Fault
  /\ SStop("ABORT", "ABORT")
  /\ UNCHANGED <<s_prior, s_blk, s_timeouts, s_errors, toR>>

SNextBlock(f) == SSendNext(f) \/ SReadError

-----------------------------------------------------------------------------
(* CAN is looked for before anything else, in every state. *)
SCancelled(k) ==
  /\ s_xfer = "RUN" /\ SRead(k) /\ toS[1].c = "CAN"
  /\ SStop("ABORT", "ABORT")
  /\ UNCHANGED <<s_prior, s_flavor, s_blk, s_timeouts, s_errors, toR, faults>>

(***************************************************************************)
(* INIT waits for the byte that starts the transfer; the enhanced flavors  *)
(* take a NAK too and fall back to plain Xmodem.  The byte is overwritten  *)
(* with an ACK and the BLOCK state takes over in the same call.  There an  *)
(* ACK counts only when it is the single byte of the input.                *)
(***************************************************************************)
Starts(f, c) == c = FirstByte(f) \/ (c = "NAK" /\ ~Checksum(f))
StartFlavor(f, c) == IF c = FirstByte(f) THEN f ELSE "X_NORMAL"

SStart(k) ==
  /\ s_xfer = "RUN" /\ s_state = "INIT" /\ SRead(k)
  /\ Starts(s_flavor, toS[1].c)
  /\ s_flavor' = StartFlavor(s_flavor, toS[1].c)
  /\ IF k = 1 \/ IsG(s_flavor')
       THEN SNextBlock(s_flavor')
       ELSE SRefused("BLOCK") /\ UNCHANGED faults

SNotStarted(k) ==
  /\ s_xfer = "RUN" /\ s_state = "INIT" /\ SRead(k)
  /\ toS[1].c # "CAN" /\ ~Starts(s_flavor, toS[1].c)
  /\ UNCHANGED <<sVars, toR, faults>>

(* BLOCK: an ACK alone in the input is the go-ahead for the next block. *)
(* Mutant: any single byte is the go-ahead. *)
AckedByAnyByte(k) == k = 1

Acked(k) == k = 1 /\ toS[1].c = "ACK"

SBlockAcked ==
  /\ s_xfer = "RUN" /\ s_state = "BLOCK" /\ ~IsG(s_flavor)
  /\ SRead(1) /\ Acked(1)
  /\ SNextBlock(s_flavor)
  /\ UNCHANGED s_flavor

(* The G flavors need no ACK: whatever is in the input, or nothing. *)
SStream(k) ==
  /\ s_xfer = "RUN" /\ s_state = "BLOCK" /\ IsG(s_flavor)
  /\ \/ k = 0 /\ UNCHANGED toS
     \/ SRead(k) /\ toS[1].c # "CAN"
  /\ SNextBlock(s_flavor)
  /\ UNCHANGED s_flavor

(* BLOCK and LAST_BLOCK: a NAK, line noise, or more than one byte. *)
SBlockRefused(k) ==
  /\ s_xfer = "RUN" /\ s_state \in {"BLOCK", "LAST_BLOCK"} /\ ~IsG(s_flavor)
  /\ SRead(k) /\ toS[1].c # "CAN" /\ ~Acked(k)
  /\ SRefused(s_state)
  /\ UNCHANGED <<s_flavor, faults>>

(* PURGE_INPUT drops the input until a call finds none, ... *)
SPurge(k) ==
  /\ s_xfer = "RUN" /\ s_state = "PURGE_INPUT"
  /\ SRead(k) /\ toS[1].c # "CAN"
  /\ UNCHANGED <<sVars, toR, faults>>

(* ... and then sends current_block again.                                 *)
SResend ==
  /\ s_xfer = "RUN" /\ s_state = "PURGE_INPUT"
  /\ s_state' = s_prior
  /\ toR' = IF s_prior \in {"BLOCK", "LAST_BLOCK"} /\ s_blk > 0
              THEN toR \o Block(s_flavor, s_blk) ELSE toR
  /\ UNCHANGED <<s_prior, s_flavor, s_blk, s_timeouts, s_errors, s_xfer, toS, faults>>

(* LAST_BLOCK: the last block is acknowledged (G: assumed to be). *)
(* Mutant: EOT follows the last block without waiting for its ACK. *)
SSendEotUnacked(k) ==
  /\ s_xfer = "RUN" /\ s_state = "LAST_BLOCK"
  /\ SRead(k) /\ toS[1].c # "CAN"
  /\ s_state' = "EOT_ACK"
  /\ toR' = Append(toR, EOT)
  /\ UNCHANGED <<s_prior, s_flavor, s_blk, s_timeouts, s_errors, s_xfer, faults>>

SSendEot(k) ==
  /\ s_xfer = "RUN" /\ s_state = "LAST_BLOCK"
  /\ \/ SRead(k) /\ toS[1].c # "CAN" /\ (Acked(k) \/ IsG(s_flavor))
     \/ k = 0 /\ IsG(s_flavor) /\ UNCHANGED toS
  /\ s_state' = "EOT_ACK"
  /\ toR' = Append(toR, EOT)
  /\ UNCHANGED <<s_prior, s_flavor, s_blk, s_timeouts, s_errors, s_xfer, faults>>

(* EOT_ACK: an ACK in front of the input ends the transfer. *)
(* Mutant: whatever answers EOT is taken for its ACK. *)
SDoneOnAnyByte(k) ==
  /\ s_xfer = "RUN" /\ s_state = "EOT_ACK" /\ SRead(k) /\ toS[1].c # "CAN"
  /\ SStop("COMPLETE", "END")
  /\ UNCHANGED <<s_prior, s_flavor, s_blk, s_timeouts, s_errors, toR, faults>>

SDone(k) ==
  /\ s_xfer = "RUN" /\ s_state = "EOT_ACK" /\ SRead(k) /\ toS[1].c = "ACK"
  /\ SStop("COMPLETE", "END")
  /\ UNCHANGED <<s_prior, s_flavor, s_blk, s_timeouts, s_errors, toR, faults>>

SNotDone(k) ==
  /\ s_xfer = "RUN" /\ s_state = "EOT_ACK"
  /\ SRead(k) /\ toS[1].c \notin {"CAN", "ACK"}
  /\ UNCHANGED <<sVars, toR, faults>>

(***************************************************************************)
(* check_timeout(): no byte for twice timeout_length.  In BLOCK the caller *)
(* then sets PURGE_INPUT even when the limit was reached and the transfer  *)
(* aborted; in EOT_ACK it sends EOT once more, in that case too.           *)
(***************************************************************************)
(* Mutant: EOT_ACK has no timeout. *)
STimeoutNotAfterEot ==
  /\ s_xfer = "RUN" /\ s_state \in {"INIT", "BLOCK", "LAST_BLOCK"} /\ ~IsG(s_flavor)
  /\ s_timeouts' = s_timeouts + 1 /\ s_errors' = s_errors + 1
  /\ IF s_timeouts + 1 >= TimeoutLimit(s_flavor)
       THEN SStop("ABORT", "ABORT") /\ UNCHANGED s_prior
       ELSE s_state' = "PURGE_INPUT" /\ s_prior' = s_state /\ UNCHANGED s_xfer
  /\ UNCHANGED <<s_flavor, s_blk, toS, toR, faults>>

STimeout ==
  /\ s_xfer = "RUN"
  /\ s_state \in {"INIT", "BLOCK", "LAST_BLOCK", "EOT_ACK"}
  /\ ~(IsG(s_flavor) /\ s_state \in {"BLOCK", "LAST_BLOCK"})
  /\ s_timeouts' = s_timeouts + 1
  /\ s_errors' = s_errors + 1
  /\ IF s_timeouts + 1 >= TimeoutLimit(s_flavor)
       THEN /\ SStop(IF s_state = "BLOCK" THEN "PURGE_INPUT" ELSE "ABORT", "ABORT")
            /\ s_prior' = IF s_state = "BLOCK" THEN "BLOCK" ELSE s_prior
       ELSE /\ s_state' = "PURGE_INPUT" /\ s_prior' = s_state
            /\ UNCHANGED s_xfer
  /\ toR' = IF s_state = "EOT_ACK" THEN Append(toR, EOT) ELSE toR
  /\ UNCHANGED <<s_flavor, s_blk, toS, faults>>

(* The user presses ESC or ` on the transfer screen: nothing is sent. *)
SUserAbort ==
  /\ s_xfer = "RUN" /\ s_xfer' = "ABORT"
  /\ UNCHANGED <<s_state, s_prior, s_flavor, s_blk, s_timeouts, s_errors, lineVars>>

SHandle(k) ==
  \/ SCancelled(k) \/ SStart(k) \/ SNotStarted(k) \/ SBlockRefused(k)
  \/ SPurge(k) \/ SSendEot(k) \/ SDone(k) \/ SNotDone(k)

STypeOK ==
  /\ s_state \in SStates /\ s_prior \in SStates /\ s_flavor \in Flavors
  /\ s_blk \in 0..NBlocks
  /\ s_timeouts \in Nat /\ s_errors \in Nat
  /\ s_xfer \in Xfer
=============================================================================
