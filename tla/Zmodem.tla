------------------------------- MODULE Zmodem -------------------------------
(***************************************************************************)
(* A Zmodem transfer of the files of an upload list: zmodem_send() at one  *)
(* end of the line and zmodem_receive() at the other, both of              *)
(* source/zmodem.c.                                                        *)
(***************************************************************************)
EXTENDS ZmodemReceiver

CONSTANTS
  ZSetups,      \* the ways to start, see ZInit
  ZPromptLine   \* nothing stays on the line for as long as a timeout

ASSUME ZSetupAssumption ==
  /\ \A p \in ZSetups :
       /\ DOMAIN p = {"sesc", "resc", "chal", "noisy", "keys",
                      "auto", "waiting", "prior", "disk"}
       /\ {p.sesc, p.resc, p.waiting} \subseteq BOOLEAN
       /\ DOMAIN p.disk \subseteq 1..NFiles
       /\ \A f \in DOMAIN p.disk : p.disk[f] \in Seq(Nat)
  /\ ZPromptLine \in BOOLEAN

(* The console has seen the first part of ZRQINIT. *)
Consoled == <<Spoilt(Header("ZRQINIT", 0, TRUE), "tail")>>

zmodemVars == <<zlineVars, s, turn, opt, rVars>>

(***************************************************************************)
(* The options zmodem_escape_ctrl of both programs and zmodem_zchallenge   *)
(* of the receiver, whether there is noise, whether a user may end the     *)
(* transfer from the keyboard, whether the receiver is started by          *)
(* check_zmodem_autostart(), what waiting_for_ack and prior_state were     *)
(* left at by an earlier transfer, and the files that are in the download  *)
(* directory: a function from some of the uploads to what a file of that   *)
(* name holds.                                                             *)
(***************************************************************************)
ZInit ==
  /\ turn = {} /\ done = {} /\ faults = 0 /\ toS = <<>>
  /\ \E p \in ZSetups :
       /\ opt = [sesc |-> p.sesc, resc |-> p.resc, chal |-> p.chal,
                 noisy |-> p.noisy, keys |-> p.keys, auto |-> p.auto]
       /\ s = [SStatus(p.waiting) EXCEPT !.state = IF p.auto THEN "ZRQINIT_WAIT" ELSE @]
       /\ r = RStatus(p.prior)
       /\ toR = IF p.auto THEN Consoled ELSE <<>>
       /\ there = DOMAIN p.disk
       /\ got = [f \in 1..NFiles |-> IF f \in there THEN p.disk[f] ELSE <<>>]

SenderStep ==
  (SHandle \/ \E k \in 0..Len(toS) : SCall(k)) /\ UNCHANGED rVars

ReceiverStep ==
  (RHandle \/ \E k \in 0..Len(toR) : RCall(k)) /\ UNCHANGED s

(***************************************************************************)
(* On a prompt line a timeout means that the line is silent: all has been  *)
(* read and neither end is about to answer.  Both timers run ten seconds,  *)
(* so they may expire at once, and the answers cross on the line.          *)
(***************************************************************************)
Silent ==
  /\ r.xfer = "RUN" => toR = <<>> /\ RResting(r)
  /\ s.xfer = "RUN" => toS = <<>> /\ SResting(s)

Timeout ==
  /\ turn = {} /\ (ZPromptLine => Silent)
  /\ \E e \in SUBSET {"s", "r"} \ {{}} :
       /\ turn' = e
       /\ IF "s" \in e THEN SCanTimeout /\ s' = STimedOut ELSE UNCHANGED s
       /\ IF "r" \in e THEN RCanTimeout /\ r' = RTimedOut ELSE UNCHANGED r
  /\ UNCHANGED <<zlineVars, opt, got, there, done>>

Environment ==
  \/ turn = {} /\ opt.noisy /\ LineNoise /\ UNCHANGED <<s, turn, opt, rVars>>
  \/ opt.keys /\ SUserAbort /\ UNCHANGED rVars
  \/ opt.keys /\ RUserAbort /\ UNCHANGED s

ZNext == SenderStep \/ ReceiverStep \/ Timeout \/ Environment

(* Each program's main loop calls zmodem() again and again, and time goes on. *)
ZFairness ==
  WF_zmodemVars(SenderStep) /\ WF_zmodemVars(ReceiverStep) /\ WF_zmodemVars(Timeout)

ZSpec == ZInit /\ [][ZNext]_zmodemVars /\ ZFairness

-----------------------------------------------------------------------------
(* The types of the variables, and what is NULL when. *)
ZTypeOK ==
  /\ turn \subseteq {"s", "r"} /\ done \subseteq 1..NFiles /\ there \subseteq 1..NFiles
  /\ s.xfer \in {"RUN", "END", "ABORT", "CRASH"} /\ s.f \in 1..(NFiles + 1)
  /\ s.pos \in Nat /\ s.block \in BlockMin..BlockMax /\ s.count \in Nat \ {0}
  /\ r.xfer \in {"RUN", "END", "ABORT", "CRASH"} /\ r.f \in 0..NFiles
  /\ r.pos \in Nat
  /\ r.state \in {"ZCRC_WAIT", "ZRPOS_WAIT", "ZCRC", "ZRPOS"} => r.f # 0

(* The receiver is past the question what to do with a file that is there. *)
Receiving ==
  r.state \in {"ZRPOS", "ZRPOS_WAIT"} \/ (r.state = "ZDATA" /\ r.prior = "ZRPOS_WAIT")

(* Every unit is one of the file, and all that are before it there have    *)
(* been written before it.                                                 *)
NoneLeftOut(file) ==
  \A i \in DOMAIN file :
    file[i] > 0 /\ \A u \in 1..(file[i] - 1) : \E j \in 1..(i - 1) : file[j] = u

Written == done \cup (IF Receiving THEN {r.f} ELSE {})

(***************************************************************************)
(* The file_position that receive_zrpos() and receive_zdata() report, and  *)
(* that ZEOF is compared with, is where the next block will be written:    *)
(* the end of the file, be it new, resumed or renamed.                     *)
(***************************************************************************)
PosIsLength == Receiving => r.pos = Len(got[r.f])

(***************************************************************************)
(* receive_zdata() is never told where a subpacket belongs, yet without    *)
(* noise what it writes is the file sent, from its start: the receiver's   *)
(* file_position and the sender's stay together through resumed, skipped   *)
(* and renamed files, cut packets and timeouts that cross.  With noise it  *)
(* may write a block twice, but never one before those that precede it,    *)
(* and none of another file.                                               *)
(***************************************************************************)
ContentGood ==
  \A f \in Written :
    /\ NoneLeftOut(got[f])
    /\ ~opt.noisy => \A i \in DOMAIN got[f] : got[f][i] = i

(* A file that receive_zrpos_wait() reports as complete is the file sent. *)
DoneIsGood == \A f \in done : got[f] = [i \in 1..Size[f] |-> i]

(* A file reported as done is complete: ZEOF was believed only at its end. *)
DoneIsWhole ==
  /\ \A f \in done : Len(got[f]) = Size[f]
  /\ s.xfer = "END" => done = 1..NFiles

(***************************************************************************)
(* Every transfer ends, but for an end that holds the start of a packet    *)
(* whose end never comes: it does not look at its timer then.              *)
(***************************************************************************)
ZTermination ==
  /\ <>[](s.xfer # "RUN" \/ s.buf # <<>>)
  /\ <>[](r.xfer # "RUN" \/ r.buf # <<>> \/ r.state = "ZDATA")

(***************************************************************************)
(* A download that was started by autostart, meets no noise and is not     *)
(* interrupted succeeds, whatever is in the download directory, and leaves *)
(* all files whole.                                                        *)
(***************************************************************************)
ZSucceeds ==
  opt.auto /\ ~opt.noisy /\ ~opt.keys => <>(s.xfer = "END" /\ r.xfer = "END" /\ done = 1..NFiles)
=============================================================================
