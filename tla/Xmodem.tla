------------------------------- MODULE Xmodem -------------------------------
(***************************************************************************)
(* An Xmodem transfer: xmodem_send() on one side of the line and           *)
(* xmodem_receive() on the other, both of source/xmodem.c.                 *)
(***************************************************************************)
EXTENDS XmodemReceiver

CONSTANTS
  Setups,      \* the pairs <<sender's flavor, receiver's flavor>> to start with
  UserAborts,  \* a user may end the transfer from the keyboard
  PromptLine   \* nothing stays on the line for as long as a timeout

ASSUME SetupAssumption ==
  /\ Setups \subseteq Flavors \X Flavors
  /\ UserAborts \in BOOLEAN /\ PromptLine \in BOOLEAN

vars == <<lineVars, sVars, rVars>>

Init ==
  /\ LineInit
  /\ \E p \in Setups : SInit(p[1]) /\ RInit(p[2])

(***************************************************************************)
(* On a prompt line a timeout means that the line is silent: all bytes     *)
(* have been read and neither end is about to answer.                      *)
(***************************************************************************)
Silent ==
  /\ r_xfer = "RUN" => toR = <<>> /\ r_state \in {"FIRST_BLOCK", "BLOCK"}
  /\ s_xfer = "RUN" => /\ toS = <<>> /\ s_state # "PURGE_INPUT"
                       /\ ~(IsG(s_flavor) /\ s_state \in {"BLOCK", "LAST_BLOCK"})

TimeoutPossible == PromptLine => Silent

SenderStep ==
  /\ \/ \E k \in 0..Len(toS) : SHandle(k) \/ SStream(k)
     \/ SBlockAcked
     \/ SResend
     \/ TimeoutPossible /\ STimeout
  /\ UNCHANGED rVars

ReceiverStep ==
  /\ \/ \E k \in 0..Len(toR) : RBegin(k) \/ RHandle(k)
     \/ REot
     \/ RNak
     \/ TimeoutPossible /\ (RFirstTimeout \/ RTimeout)
  /\ UNCHANGED sVars

Environment ==
  \/ LineFault /\ UNCHANGED <<sVars, rVars>>
  \/ UserAborts /\ SUserAbort /\ UNCHANGED rVars
  \/ UserAborts /\ RUserAbort /\ UNCHANGED sVars

Next == SenderStep \/ ReceiverStep \/ Environment

(***************************************************************************)
(* Each program's main loop calls protocol_process_data() again and again, *)
(* with or without input, so an end that can take a step takes one.        *)
(***************************************************************************)
Fairness == WF_vars(SenderStep) /\ WF_vars(ReceiverStep)

Spec == Init /\ [][Next]_vars /\ Fairness

-----------------------------------------------------------------------------
(* The types of the variables of both ends and of the line. *)
TypeOK == LineTypeOK /\ STypeOK /\ RTypeOK

(***************************************************************************)
(* What verify_block() has written is the file from its start, block after *)
(* block: nothing lost, repeated, reordered or damaged, whatever is lost,  *)
(* damaged and retransmitted on the line.                                  *)
(***************************************************************************)
PrefixDelivered == \A i \in 1..Len(r_file) : r_file[i] = i

(***************************************************************************)
(* An end that reports success (stats_file_complete_ok()) is right: the    *)
(* receiver has the whole file, and the sender knows that it has.          *)
(***************************************************************************)
SuccessIsReal ==
  /\ r_xfer = "END" => Len(r_file) = NBlocks
  /\ s_xfer = "END" => r_xfer = "END"

(* The assert(current_block_n < n) of xmodem_receive() never fails. *)
NoAssertFails == r_xfer # "CRASH"

(***************************************************************************)
(* Seen from outside, the transfer is that of FileTransfer: blocks are     *)
(* delivered in order, and an end stops once and for all.                  *)
(***************************************************************************)
Status(x) == IF x = "CRASH" THEN "ABORT" ELSE x

Abstract == INSTANCE FileTransfer
  WITH N <- NBlocks, got <- r_file,
       sender <- Status(s_xfer), receiver <- Status(r_xfer)

RefinesFileTransfer == Abstract!ATSpec

(* Every transfer ends: timeouts and error counts run out at both ends. *)
Termination == <>[](s_xfer # "RUN") /\ <>[](r_xfer # "RUN")

(***************************************************************************)
(* On a prompt line without faults, and when nobody interrupts it, every   *)
(* transfer succeeds, however the line cuts the blocks into pieces.        *)
(***************************************************************************)
Succeeds == <>(s_xfer = "END" /\ r_xfer = "END")
=============================================================================
