------------------------------- MODULE Kermit -------------------------------
(***************************************************************************)
(* A Kermit transfer of the files of an upload list: kermit() of           *)
(* source/kermit.c at both ends of the line, one sending and one           *)
(* receiving.                                                              *)
(***************************************************************************)
EXTENDS KermitReceiver

CONSTANTS
  KSetups,      \* the ways to start, see KInit
  KPromptLine   \* nothing stays on the line for as long as a timeout

ASSUME KSetupAssumption ==
  /\ \A p \in KSetups : DOMAIN p = {"ss", "rs", "text", "noisy", "keys", "auto", "disk"}
  /\ KPromptLine \in BOOLEAN

kermitVars == <<klineVars, opt, s, rkVars>>

(***************************************************************************)
(* The option kermit_streaming of the sender and of the receiver, whether  *)
(* the files are text that the receiver is to convert, whether there is    *)
(* noise, what the users do ("abort", "skip"), whether the receiver is     *)
(* started by check_kermit_autostart(), which takes the S packet from the  *)
(* line, and what the download directory holds of each file.               *)
(***************************************************************************)
KInit ==
  /\ faults = 0 /\ toS = <<>> /\ toR = <<>>
  /\ \E p \in KSetups :
       /\ opt = [ss |-> p.ss, rs |-> p.rs, text |-> p.text, noisy |-> p.noisy,
                 keys |-> p.keys, auto |-> p.auto]
       /\ s = IF p.auto THEN SDone(SFirst(SStatus)) ELSE SStatus
       /\ r = RStatus(p.disk)

SenderStep == (SFirstCall \/ SInput \/ SIdle) /\ UNCHANGED r

ReceiverStep == (RFirstCall \/ RInput) /\ UNCHANGED s

(***************************************************************************)
(* On a prompt line a timeout means that the line is silent: all has been  *)
(* read and neither end is about to send.  Both timers run five seconds,   *)
(* so they may expire at once, and the packets cross on the line.          *)
(***************************************************************************)
Silent ==
  /\ r.xfer = "RUN" => Starved(toR) /\ r.called
  /\ s.xfer = "RUN" => Starved(toS) /\ s.called /\ SResting

Timeout ==
  /\ KPromptLine => Silent
  /\ \E e \in SUBSET {"s", "r"} \ {{}} :
       /\ IF "s" \in e THEN SCanTimeout /\ s' = SDone(STimedOut) /\ toR' = toR \o STimedOut.out
          ELSE UNCHANGED <<s, toR>>
       /\ IF "r" \in e
            THEN RCanTimeout /\ \E g \in Garbage : RReturn(RTimedOut(g))
            ELSE UNCHANGED <<r, toS, faults, opt>>

Users ==
  \/ opt.keys = "abort" /\ SUserAbort /\ UNCHANGED r
  \/ opt.keys = "abort" /\ RUserAbort /\ UNCHANGED s
  \/ opt.keys = "skip" /\ SUserSkip /\ UNCHANGED r
  \/ opt.keys = "skip" /\ RUserSkip /\ UNCHANGED s

Noise == opt.noisy /\ LineNoise /\ UNCHANGED <<opt, s, r>>

KNext == SenderStep \/ ReceiverStep \/ Timeout \/ Users \/ Noise

(* Each program's main loop calls kermit() again and again, and time goes on. *)
KFairness ==
  WF_kermitVars(SenderStep) /\ WF_kermitVars(ReceiverStep) /\ WF_kermitVars(Timeout)

KSpec == KInit /\ [][KNext]_kermitVars /\ KFairness

-----------------------------------------------------------------------------
Ends == {"RUN", "END", "ABORT", "CRASH"}

(* The types of the variables, and what the windows hold when. *)
KTypeOK ==
  /\ s.xfer \in Ends /\ s.mode \in {"new", "stream", "window", "plain"}
  /\ s.seq \in Nat /\ s.f \in 1..(NFiles + 1) /\ Len(s.win) <= Window
  /\ r.xfer \in Ends /\ r.mode \in {"new", "stream", "window"}
  /\ r.seq \in Nat /\ r.f \in 0..NFiles /\ r.open \in 0..NFiles /\ r.done \subseteq 1..NFiles
  /\ r.begin \in 0..(RWindow(r) - 1) /\ r.n \in 0..RWindow(r)
  /\ r.i = Place(r, r.n)

(* The users skip a file in a transfer that uses windows. *)
SkipInWindow == opt.keys = "skip" /\ Negotiated = "window"

(* Every unit is one of the file, and all that are before it there have    *)
(* been written before it.                                                 *)
NoneLeftOut(file) ==
  \A i \in DOMAIN file :
    file[i] > 0 /\ \A u \in 1..(file[i] - 1) : \E j \in 1..(i - 1) : file[j] = u

(***************************************************************************)
(* What the receiver writes is the file sent, from its start, wherever the *)
(* sequence numbers and the window wrap around: without noise each unit    *)
(* once and in order; with noise, when NAKs and timeouts send packets      *)
(* again, find_input_slot() and nak_packet() may write a unit again, but   *)
(* no unit is written before those that precede it, and none of another    *)
(* file.                                                                   *)
(***************************************************************************)
KContent ==
  ~SkipInWindow =>
    \A f \in 1..NFiles :
      /\ NoneLeftOut(r.got[f])
      /\ ~opt.noisy => \A i \in DOMAIN r.got[f] : r.got[f][i] = i

(***************************************************************************)
(* A file reported as complete has all its units, and an end of a transfer *)
(* that is told of success has success: with nothing skipped, all files    *)
(* are complete.  With noise the sender cannot be sure: send_SB() takes    *)
(* any ACK, a late one too, for the one of B.                              *)
(***************************************************************************)
KWhole ==
  ~SkipInWindow =>
    /\ \A f \in r.done : {r.got[f][i] : i \in DOMAIN r.got[f]} = 1..Size[f]
    /\ r.xfer = "END" \/ (s.xfer = "END" /\ ~opt.noisy) =>
         opt.keys = "skip" \/ r.done = 1..NFiles

(***************************************************************************)
(* handle_timeout() of the sender never comes to its abort(): when the     *)
(* timer expires, a window that is not empty has a packet that was not     *)
(* acknowledged, in whatever mode and order the answers came.              *)
(***************************************************************************)
TimeoutFindsPacket == s.xfer # "CRASH"

(***************************************************************************)
(* The receiver crashes only for the files refused and the files skipped,  *)
(* and when noise or a sender that is gone makes it abort: the file is     *)
(* then closed, but the packet at hand, or the NAK of the timeout, still   *)
(* moves the window, which writes.                                         *)
(***************************************************************************)
KNoCrash ==
  r.xfer = "CRASH" =>
    \/ opt.text \/ SkipInWindow
    \/ r.state = "ABORT" /\ (opt.noisy \/ opt.keys = "abort")

(***************************************************************************)
(* Every transfer ends, but for a receiver that waits for streaming data,  *)
(* which has no timeout, and a sender that took a NAK for the answer to S. *)
(***************************************************************************)
KTermination ==
  /\ <>[](s.xfer # "RUN" \/ s.mode = "plain")
  /\ <>[](r.xfer # "RUN" \/ r.mode = "stream")

(* A download that was started by autostart, meets no noise and is not     *)
(* interrupted succeeds.                                                   *)
KSucceeds ==
  opt.auto /\ ~opt.noisy /\ ~opt.text /\ opt.keys = "none" =>
    <>(s.xfer = "END" /\ r.xfer = "END" /\ r.done = 1..NFiles)
=============================================================================
