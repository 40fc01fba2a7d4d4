---------------------------- MODULE FileTransfer ----------------------------
(***************************************************************************)
(* What a file transfer promises: the receiver is given the file block by  *)
(* block, from the start; it can report success only with the whole file,  *)
(* the sender only after the receiver; either can give up at any moment;   *)
(* and an end that has stopped stays stopped.                              *)
(***************************************************************************)
EXTENDS Integers, Sequences

CONSTANT N               \* the number of blocks of the file

VARIABLES got, sender, receiver

fileVars == <<got, sender, receiver>>

ATInit == got = <<>> /\ sender = "RUN" /\ receiver = "RUN"

Deliver ==
  /\ receiver = "RUN" /\ Len(got) < N
  /\ got' = Append(got, Len(got) + 1)
  /\ UNCHANGED <<sender, receiver>>

ReceiverEnds ==
  /\ receiver = "RUN" /\ Len(got) = N
  /\ receiver' = "END"
  /\ UNCHANGED <<got, sender>>

SenderEnds ==
  /\ sender = "RUN" /\ receiver = "END"
  /\ sender' = "END"
  /\ UNCHANGED <<got, receiver>>

SenderGivesUp ==
  /\ sender = "RUN" /\ sender' = "ABORT"
  /\ UNCHANGED <<got, receiver>>

ReceiverGivesUp ==
  /\ receiver = "RUN" /\ receiver' = "ABORT"
  /\ UNCHANGED <<got, sender>>

ATNext ==
  Deliver \/ ReceiverEnds \/ SenderEnds \/ SenderGivesUp \/ ReceiverGivesUp

ATSpec == ATInit /\ [][ATNext]_fileVars
=============================================================================
