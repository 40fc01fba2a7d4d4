---------------------------- MODULE XmodemProofs ----------------------------
(***************************************************************************)
(* Theorems about Xmodem.tla, for every number of blocks, every modulus of *)
(* the sequence numbers, all block lengths and all limits.                 *)
(***************************************************************************)
EXTENDS XmodemInv, SequenceTheorems, TLAPS

USE LineAssumption, LimitAssumption, FirstAssumption, SetupAssumption

-----------------------------------------------------------------------------
(* Facts about the operators on sequences. *)

LEMMA SeqOfFun ==
  ASSUME NEW S, NEW n \in Nat, NEW f \in [1..n -> S]
  PROVE  f \in Seq(S) /\ Len(f) = n
  <1>1. f \in Seq(S)
    BY SeqDef
  <1>2. DOMAIN f = 1..n /\ DOMAIN f = 1..Len(f) /\ Len(f) \in Nat
    BY <1>1, LenProperties
  <1>. QED
    BY <1>1, <1>2

(* A call that reads k of the bytes on the line leaves the others. *)
LEMMA AfterProperties ==
  ASSUME NEW S, NEW s \in Seq(S), NEW k \in 0..Len(s)
  PROVE  /\ After(s, k) \in Seq(S)
         /\ Len(After(s, k)) = Len(s) - k
         /\ \A i \in 1..(Len(s) - k) : After(s, k)[i] = s[i + k]
  <1>. DEFINE n == Len(s) - k
  <1>1. Len(s) \in Nat /\ n \in Nat
    BY LenProperties
  <1>2. After(s, k) \in [1..n -> S]
    BY <1>1, ElementOfSeq DEF After
  <1>3. After(s, k) \in Seq(S) /\ Len(After(s, k)) = n
    BY <1>1, <1>2, SeqOfFun
  <1>. QED
    BY <1>1, <1>3 DEF After

(* Losing bytes of the line keeps the others, in their order. *)
LEMMA WithoutProperties ==
  ASSUME NEW S, NEW s \in Seq(S), NEW i \in 1..Len(s), NEW j \in i..Len(s)
  PROVE  /\ Without(s, i, j) \in Seq(S)
         /\ Len(Without(s, i, j)) = Len(s) - (j - i + 1)
         /\ \A k \in 1..(Len(s) - (j - i + 1)) :
              Without(s, i, j)[k] = IF k < i THEN s[k] ELSE s[k + (j - i + 1)]
  <1>. DEFINE n == Len(s) - (j - i + 1)
  <1>1. Len(s) \in Nat /\ n \in Nat
    BY LenProperties
  <1>2. \A k \in 1..n : k \in 1..Len(s) /\ (~(k < i) => k + (j - i + 1) \in 1..Len(s))
    BY <1>1
  <1>3. Without(s, i, j) \in [1..n -> S]
    BY <1>1, <1>2, ElementOfSeq DEF Without
  <1>4. Without(s, i, j) \in Seq(S) /\ Len(Without(s, i, j)) = n
    BY <1>1, <1>3, SeqOfFun
  <1>. QED
    BY <1>1, <1>4 DEF Without

(* The pieces of a block, and those of the EOT, are pieces. *)
LEMMA BlockProperties ==
  ASSUME NEW f \in Flavors, NEW b \in 1..NBlocks
  PROVE  /\ Block(f, b) \in Seq(Pieces)
         /\ \A i \in 1..Len(Block(f, b)) :
              /\ Block(f, b)[i].b = b /\ Block(f, b)[i].x = "ok"
              /\ Block(f, b)[i].l > 1
         /\ EOT \in Pieces
  <1>. DEFINE n == BlockLen(f, b)
  <1>1. n \in Nat /\ n > 1 /\ n \in 1..LongLen
    BY DEF BlockLen
  <1>2. Block(f, b) \in [1..n -> Pieces]
    BY <1>1 DEF Block, Pieces, Noise
  <1>3. Block(f, b) \in Seq(Pieces) /\ Len(Block(f, b)) = n
    BY <1>1, <1>2, SeqOfFun
  <1>4. EOT \in Pieces
    BY DEF EOT, Pieces, Noise
  <1>. QED
    BY <1>1, <1>3, <1>4 DEF Block

(* The bytes a call of xmodem() is given, after those in current_block. *)
LEMMA CollectProperties ==
  ASSUME LineTypeOK, RTypeOK, NEW k \in 1..Len(toR)
  PROVE  /\ cur \o Input(k) \in Seq(Pieces)
         /\ Len(cur \o Input(k)) = Len(cur) + k
         /\ \A i \in 1..(Len(cur) + k) : (cur \o Input(k))[i] =
              IF i <= Len(cur) THEN cur[i] ELSE toR[i - Len(cur)]
  <1>1. toR \in Seq(Pieces) /\ cur \in Seq(Pieces) /\ Len(toR) \in Nat /\ Len(cur) \in Nat
    BY LenProperties DEF LineTypeOK, RTypeOK
  <1>2. Input(k) \in [1..k -> Pieces]
    BY <1>1, ElementOfSeq DEF Input
  <1>3. Input(k) \in Seq(Pieces) /\ Len(Input(k)) = k
    BY <1>1, <1>2, SeqOfFun
  <1>4. \A i \in 1..(Len(cur) + k) : ~(i <= Len(cur)) => i - Len(cur) \in 1..k
    BY <1>1
  <1>5. \A i \in 1..k : Input(k)[i] = toR[i]
    BY DEF Input
  <1>6. /\ cur \o Input(k) \in Seq(Pieces)
        /\ Len(cur \o Input(k)) = Len(cur) + k
        /\ \A i \in 1..(Len(cur) + k) : (cur \o Input(k))[i] =
             IF i <= Len(cur) THEN cur[i] ELSE Input(k)[i - Len(cur)]
    BY <1>1, <1>3, ConcatProperties
  <1>. QED
    BY <1>4, <1>5, <1>6

-----------------------------------------------------------------------------
(* Type correctness, for all flavors and with all faults. *)

LEMMA ReadControl ==
  ASSUME LineTypeOK, NEW k, SRead(k)
  PROVE  toS' \in Seq(ControlBytes) /\ toS[1] \in ControlBytes
  <1>1. toS \in Seq(ControlBytes) /\ Len(toS) \in Nat /\ k \in 0..Len(toS)
        /\ toS' = After(toS, k) /\ 1 \in 1..Len(toS)
    BY LenProperties DEF LineTypeOK, SRead
  <1>. QED
    BY <1>1, AfterProperties, ElementOfSeq

LEMMA ReadPieces ==
  ASSUME LineTypeOK, NEW k, RRead(k)
  PROVE  toR' \in Seq(Pieces)
  <1>1. toR \in Seq(Pieces) /\ Len(toR) \in Nat /\ k \in 0..Len(toR)
        /\ toR' = After(toR, k)
    BY LenProperties DEF LineTypeOK, RRead
  <1>. QED
    BY <1>1, AfterProperties

LEMMA NextBlockType ==
  ASSUME TypeInv, NEW f \in Flavors, SPos \in {"INIT", "BLOCK"},
         s_state # "PURGE_INPUT", SNextBlock(f), s_flavor' \in Flavors,
         toS' \in Seq(ControlBytes)
  PROVE  LineTypeOK' /\ STypeOK' /\ SenderPosition'
  <1>1. s_blk \in Nat /\ s_blk + 1 \in 1..NBlocks
    BY DEF TypeInv, TypeOK, STypeOK, SenderPosition
  <1>2. CASE SSendNext(f)
    <2>1. toR' \in Seq(Pieces)
      BY <1>1, <1>2, BlockProperties, ConcatProperties
      DEF SSendNext, TypeInv, TypeOK, LineTypeOK
    <2>. QED
      BY <1>1, <1>2, <2>1
      DEF SSendNext, TypeInv, TypeOK, LineTypeOK, STypeOK, SenderPosition, SPos, SStates
  <1>3. CASE SReadError
    BY <1>3 DEF SReadError, Fault, SStop, TypeInv, TypeOK, LineTypeOK, STypeOK,
                SenderPosition, SPos, SStates, Xfer
  <1>. QED
    BY <1>2, <1>3 DEF SNextBlock

LEMMA RefusedType ==
  ASSUME TypeInv, NEW st \in {"BLOCK", "LAST_BLOCK"}, SRefused(st),
         st = "BLOCK" => s_blk < NBlocks, st = "LAST_BLOCK" => s_blk = NBlocks
  PROVE  /\ s_state' \in SStates /\ s_prior' \in SStates /\ s_xfer' \in Xfer
         /\ s_blk' = s_blk /\ s_timeouts' = s_timeouts /\ s_errors' \in Nat
         /\ toR' = toR /\ SenderPosition'
  BY DEF SRefused, SStop, TypeInv, TypeOK, STypeOK, SenderPosition, SPos, SStates, Xfer

LEMMA SenderType ==
  ASSUME TypeInv, SenderStep
  PROVE  LineTypeOK' /\ STypeOK' /\ SenderPosition'
  <1>. USE DEF TypeInv, TypeOK
  <1>1. ASSUME NEW k, SCancelled(k) PROVE LineTypeOK' /\ STypeOK' /\ SenderPosition'
    BY <1>1, ReadControl
    DEF SCancelled, SStop, LineTypeOK, STypeOK, SenderPosition, SPos, SStates, Xfer
  <1>2. ASSUME NEW k, SStart(k) PROVE LineTypeOK' /\ STypeOK' /\ SenderPosition'
    <2>1. s_flavor' \in Flavors /\ SPos = "INIT" /\ s_blk = 0 /\ s_state # "PURGE_INPUT"
      BY <1>2 DEF SStart, StartFlavor, STypeOK, Flavors, SPos, SenderPosition
    <2>2. toS' \in Seq(ControlBytes)
      BY <1>2, ReadControl DEF SStart
    <2>3. CASE SNextBlock(s_flavor')
      BY <2>1, <2>2, <2>3, NextBlockType
    <2>4. CASE SRefused("BLOCK") /\ UNCHANGED faults
      BY <2>1, <2>2, <2>4, RefusedType DEF LineTypeOK, STypeOK
    <2>. QED
      BY <1>2, <2>3, <2>4 DEF SStart
  <1>3. ASSUME NEW k, SNotStarted(k) \/ SPurge(k) \/ SNotDone(k)
        PROVE  LineTypeOK' /\ STypeOK' /\ SenderPosition'
    BY <1>3, ReadControl
    DEF SNotStarted, SPurge, SNotDone, LineTypeOK, STypeOK, SenderPosition, SPos, sVars
  <1>4. CASE SBlockAcked \/ \E k \in 0..Len(toS) : SStream(k)
    <2>1. s_flavor' \in Flavors /\ s_flavor \in Flavors /\ SPos = "BLOCK"
          /\ s_state # "PURGE_INPUT" /\ SNextBlock(s_flavor)
      BY <1>4 DEF SBlockAcked, SStream, STypeOK, SPos
    <2>2. toS' \in Seq(ControlBytes)
      BY <1>4, ReadControl DEF SBlockAcked, SStream, LineTypeOK
    <2>. QED
      BY <2>1, <2>2, NextBlockType
  <1>5. ASSUME NEW k, SBlockRefused(k) PROVE LineTypeOK' /\ STypeOK' /\ SenderPosition'
    <2>1. s_state \in {"BLOCK", "LAST_BLOCK"} /\ SRefused(s_state)
          /\ (s_state = "BLOCK" => s_blk < NBlocks)
          /\ (s_state = "LAST_BLOCK" => s_blk = NBlocks)
      BY <1>5 DEF SBlockRefused, SenderPosition, SPos
    <2>2. toS' \in Seq(ControlBytes)
      BY <1>5, ReadControl DEF SBlockRefused
    <2>. QED
      BY <1>5, <2>1, <2>2, RefusedType DEF SBlockRefused, LineTypeOK, STypeOK
  <1>6. CASE SResend
    <2>1. toR' \in Seq(Pieces)
      BY <1>6, BlockProperties, ConcatProperties DEF SResend, LineTypeOK, STypeOK
    <2>. QED
      BY <1>6, <2>1 DEF SResend, LineTypeOK, STypeOK, SenderPosition, SPos, SStates
  <1>7. ASSUME NEW k, SSendEot(k) PROVE LineTypeOK' /\ STypeOK' /\ SenderPosition'
    <2>1. toR' \in Seq(Pieces)
      BY <1>7, BlockProperties, AppendProperties DEF SSendEot, LineTypeOK, STypeOK
    <2>2. toS' \in Seq(ControlBytes)
      BY <1>7, ReadControl DEF SSendEot, LineTypeOK
    <2>. QED
      BY <1>7, <2>1, <2>2 DEF SSendEot, LineTypeOK, STypeOK, SenderPosition, SPos, SStates
  <1>8. ASSUME NEW k, SDone(k) PROVE LineTypeOK' /\ STypeOK' /\ SenderPosition'
    BY <1>8, ReadControl
    DEF SDone, SStop, LineTypeOK, STypeOK, SenderPosition, SPos, SStates, Xfer
  <1>9. CASE STimeout
    <2>1. toR' \in Seq(Pieces)
      BY <1>9, BlockProperties, AppendProperties DEF STimeout, LineTypeOK, STypeOK
    <2>. QED
      BY <1>9, <2>1
      DEF STimeout, SStop, LineTypeOK, STypeOK, SenderPosition, SPos, SStates, Xfer
  <1>. QED
    BY <1>1, <1>2, <1>3, <1>4, <1>5, <1>6, <1>7, <1>8, <1>9 DEF SenderStep, SHandle

LEMMA PutControl ==
  ASSUME LineTypeOK, NEW c \in Control, NEW n \in Nat, RPut(c, n)
  PROVE  toS' \in Seq(ControlBytes)
  BY AppendProperties DEF LineTypeOK, RPut, ControlBytes

(* What a handler appends to the file is a block number or 0. *)
LEMMA AcceptType ==
  ASSUME TypeInv, NEW k, RFilled(k), NEW seq, VerifyBlock(r_flavor, seq, cur \o Input(k))
  PROVE  Append(r_file, Content(r_flavor, cur \o Input(k))) \in Seq(0..(NBlocks + 1))
  <1>. DEFINE c == cur \o Input(k)
  <1>1. k \in 1..Len(toR) /\ Len(cur) \in Nat /\ Len(toR) \in Nat
    BY LenProperties DEF RFilled, RRead, TypeInv, TypeOK, LineTypeOK, RTypeOK
  <1>2. c \in Seq(Pieces) /\ 1 \in 1..Len(c)
    BY <1>1, CollectProperties DEF TypeInv, TypeOK
  <1>3. c[1] \in Pieces
    BY <1>2, ElementOfSeq
  <1>. HIDE DEF c
  <1>4. c[1].b \in 0..(NBlocks + 1)
    BY <1>3 DEF Pieces
  <1>5. Content(r_flavor, c) \in 0..(NBlocks + 1)
    BY <1>4 DEF Content
  <1>. QED
    BY <1>5, AppendProperties DEF TypeInv, TypeOK, RTypeOK, c

LEMMA ReceiverType ==
  ASSUME TypeInv, ReceiverStep
  PROVE  LineTypeOK' /\ RTypeOK'
  <1>. USE DEF TypeInv, TypeOK
  <1>a. "NAK" \in Control /\ "ACK" \in Control /\ "CAN" \in Control /\ r_first \in Control
        /\ 0 \in Nat /\ NBlocks + 1 \in Nat /\ r_num \in Nat
    BY DEF Control, RTypeOK
  <1>b. <<>> \in Seq(Pieces) /\ Len(<<>>) = 0 /\ 0 <= LongLen
    BY EmptySeq
  <1>1. ASSUME NEW k, RBegin(k) PROVE LineTypeOK' /\ RTypeOK'
    <2>1. toR' \in Seq(Pieces)
      BY <1>1, ReadPieces DEF RBegin, LineTypeOK
    <2>2. toS' \in Seq(ControlBytes)
      BY <1>1, <1>a, PutControl DEF RBegin
    <2>. QED
      BY <1>1, <2>1, <2>2 DEF RBegin, LineTypeOK, RTypeOK, RStates
  <1>2. CASE RFirstTimeout
    <2>1. toS' \in Seq(ControlBytes)
      BY <1>2, <1>a, PutControl DEF RFirstTimeout
    <2>. QED
      BY <1>2, <2>1 DEF RFirstTimeout, LineTypeOK, RTypeOK, RStates, Xfer, Flavors
  <1>3. CASE RTimeout
    <2>1. toS' \in Seq(ControlBytes)
      BY <1>3, <1>a, PutControl DEF RTimeout
    <2>. QED
      BY <1>3, <2>1 DEF RTimeout, RStop, LineTypeOK, RTypeOK, RStates, Xfer
  <1>4. ASSUME NEW k, RTooMuch(k) \/ RPurge(k) \/ RAssertFails(k)
        PROVE  LineTypeOK' /\ RTypeOK'
    <2>1. toR' \in Seq(Pieces)
      BY <1>4, ReadPieces DEF RTooMuch, RPurge, RAssertFails
    <2>. QED
      BY <1>4, <2>1
      DEF RTooMuch, RPurge, RAssertFails, rVars, LineTypeOK, RTypeOK, RStates, Xfer
  <1>5. ASSUME NEW k, RCollect(k) PROVE LineTypeOK' /\ RTypeOK'
    <2>1. toR' \in Seq(Pieces) /\ k \in 1..Len(toR)
      BY <1>5, ReadPieces DEF RCollect, RRead
    <2>2. cur' \in Seq(Pieces) /\ Len(cur') = Len(cur) + k /\ Len(cur) \in Nat /\ k \in Nat
      BY <1>5, <2>1, CollectProperties, LenProperties DEF RCollect, RTypeOK, LineTypeOK
    <2>3. Len(cur') <= LongLen
      BY <1>5, <2>2 DEF RCollect, TooMuch, GNeeds
    <2>. QED
      BY <1>5, <2>1, <2>2, <2>3 DEF RCollect, LineTypeOK, RTypeOK, RStates
  <1>6. CASE REot
    <2>1. toR' \in Seq(Pieces)
      BY <1>6, ReadPieces DEF REot
    <2>2. toS' \in Seq(ControlBytes)
      BY <1>6, <1>a, PutControl DEF REot
    <2>. QED
      BY <1>6, <1>b, <2>1, <2>2 DEF REot, RStop, LineTypeOK, RTypeOK, RStates, Xfer
  <1>7. ASSUME NEW k, RAccept(k) PROVE LineTypeOK' /\ RTypeOK'
    <2>1. toR' \in Seq(Pieces)
      BY <1>7, ReadPieces DEF RAccept, RFilled
    <2>2. toS' \in Seq(ControlBytes)
      BY <1>7, <1>a, PutControl DEF RAccept, LineTypeOK
    <2>3. r_file' \in Seq(0..(NBlocks + 1))
      BY <1>7, AcceptType DEF RAccept
    <2>. QED
      BY <1>7, <1>b, <2>1, <2>2, <2>3 DEF RAccept, LineTypeOK, RTypeOK, RStates
  <1>8. ASSUME NEW k, RRefuse(k) \/ RWriteError(k) PROVE LineTypeOK' /\ RTypeOK'
    <2>1. toR' \in Seq(Pieces) /\ k \in 1..Len(toR) /\ RFilled(k) /\ RRefused(k)
      BY <1>8, ReadPieces DEF RRefuse, RWriteError, RFilled, RRead
    <2>a. Len(cur) \in Nat /\ k \in Nat
      BY <2>1, LenProperties DEF RTypeOK, LineTypeOK
    <2>2. cur \o Input(k) \in Seq(Pieces) /\ Len(cur \o Input(k)) = Len(cur) + k
      BY <2>1, CollectProperties
    <2>3. Len(cur) + k <= LongLen
      BY <2>1, <2>2, <2>a DEF RFilled, TooMuch, GNeeds
    <2>4. cur' \in Seq(Pieces) /\ Len(cur') <= LongLen
      BY <2>1, <2>2, <2>3, <1>b DEF RRefused
    <2>5. Append(r_file, 0) \in Seq(0..(NBlocks + 1)) /\ r_file \in Seq(0..(NBlocks + 1))
      BY AppendProperties DEF RTypeOK
    <2>6. r_file' \in Seq(0..(NBlocks + 1))
      BY <1>8, <2>5 DEF RRefuse, RWriteError
    <2>7. faults' \in 0..MaxFaults
      BY <1>8 DEF RRefuse, RWriteError, Fault, LineTypeOK
    <2>. QED
      BY <2>1, <2>4, <2>6, <2>7 DEF RRefused, RStop, LineTypeOK, RTypeOK, RStates, Xfer
  <1>9. CASE RNak
    <2>1. toS' \in Seq(ControlBytes)
      BY <1>9, <1>a, PutControl DEF RNak
    <2>. QED
      BY <1>9, <2>1 DEF RNak, LineTypeOK, RTypeOK
  <1>. QED
    BY <1>1, <1>2, <1>3, <1>4, <1>5, <1>6, <1>7, <1>8, <1>9 DEF ReceiverStep, RHandle

LEMMA FaultType ==
  ASSUME LineTypeOK, LineFault
  PROVE  LineTypeOK'
  <1>0. faults' \in 0..MaxFaults
    BY LineAssumption DEF LineFault, Fault, LineTypeOK
  <1>1. CASE LosePieces
    BY <1>1, WithoutProperties DEF LineFault, Fault, LosePieces, LineTypeOK
  <1>2. CASE LoseControl
    BY <1>2, WithoutProperties DEF LineFault, Fault, LoseControl, LineTypeOK
  <1>3. CASE GarblePiece
    <2>1. PICK i \in 1..Len(toR) : \E x \in Damage(toR[i]) :
            toR' = [toR EXCEPT ![i] = [@ EXCEPT !.x = x]]
      BY <1>3 DEF GarblePiece
    <2>2. PICK x \in Damage(toR[i]) : toR' = [toR EXCEPT ![i] = [toR[i] EXCEPT !.x = x]]
      BY <2>1
    <2>3. toR[i] \in Pieces /\ x \in Noise
      BY ElementOfSeq DEF LineTypeOK, Damage, Noise
    <2>4. [toR[i] EXCEPT !.x = x] \in Pieces
      BY <2>3 DEF Pieces
    <2>5. toR' \in Seq(Pieces)
      BY <2>2, <2>4, ExceptSeq DEF LineTypeOK
    <2>. QED
      BY <1>0, <1>3, <2>5 DEF GarblePiece, LineTypeOK
  <1>4. CASE GarbleControl
    <2>1. PICK i \in 1..Len(toS) : toS' = [toS EXCEPT ![i] = [toS[i] EXCEPT !.c = "noise"]]
      BY <1>4 DEF GarbleControl
    <2>2. toS[i] \in ControlBytes
      BY ElementOfSeq DEF LineTypeOK
    <2>3. [toS[i] EXCEPT !.c = "noise"] \in ControlBytes
      BY <2>2 DEF ControlBytes, Control
    <2>4. toS' \in Seq(ControlBytes)
      BY <2>1, <2>3, ExceptSeq DEF LineTypeOK
    <2>. QED
      BY <1>0, <1>4, <2>4 DEF GarbleControl, LineTypeOK
  <1>. QED
    BY <1>1, <1>2, <1>3, <1>4 DEF LineFault

LEMMA TypeInvInit == Init => TypeInv
  <1>. SUFFICES ASSUME Init PROVE TypeInv
    OBVIOUS
  <1>1. PICK p \in Setups : LineInit /\ SInit(p[1]) /\ RInit(p[2])
    BY DEF Init
  <1>2. p[1] \in Flavors /\ p[2] \in Flavors
    BY <1>1
  <1>3. FirstByte(p[2]) \in {"NAK", "C", "G"}
    BY DEF FirstByte
  <1>. QED
    BY <1>1, <1>2, <1>3, EmptySeq
    DEF LineInit, SInit, RInit, TypeInv, TypeOK, LineTypeOK, STypeOK, RTypeOK,
        SenderPosition, SPos, SStates, RStates, Xfer

LEMMA TypeInvStep == TypeInv /\ [Next]_vars => TypeInv'
  <1>. SUFFICES ASSUME TypeInv, [Next]_vars PROVE TypeInv'
    OBVIOUS
  <1>. USE DEF TypeInv, TypeOK
  <1>1. CASE SenderStep
    BY <1>1, SenderType DEF SenderStep, rVars, RTypeOK
  <1>2. CASE ReceiverStep
    BY <1>2, ReceiverType DEF ReceiverStep, sVars, STypeOK, SenderPosition, SPos
  <1>3. CASE LineFault /\ UNCHANGED <<sVars, rVars>>
    BY <1>3, FaultType DEF sVars, rVars, STypeOK, RTypeOK, SenderPosition, SPos
  <1>4. CASE UserAborts /\ SUserAbort /\ UNCHANGED rVars
    BY <1>4 DEF SUserAbort, lineVars, rVars, LineTypeOK, STypeOK, RTypeOK,
                SenderPosition, SPos, Xfer
  <1>5. CASE UserAborts /\ RUserAbort /\ UNCHANGED sVars
    BY <1>5 DEF RUserAbort, lineVars, sVars, LineTypeOK, STypeOK, RTypeOK,
                SenderPosition, SPos, Xfer
  <1>6. CASE UNCHANGED vars
    BY <1>6 DEF vars, lineVars, sVars, rVars, LineTypeOK, STypeOK, RTypeOK,
                SenderPosition, SPos
  <1>. QED
    BY <1>1, <1>2, <1>3, <1>4, <1>5, <1>6 DEF Next, Environment

(***************************************************************************)
(* In every transfer, of any flavor and with any faults, the variables of  *)
(* xmodem.c keep their types: the sender constructs no block after the     *)
(* last one and current_block does not overflow.                           *)
(***************************************************************************)
THEOREM TypeCorrect == Spec => []TypeOK
  <1>1. TypeInv => TypeOK
    BY DEF TypeInv
  <1>. QED
    BY <1>1, TypeInvInit, TypeInvStep, PTL DEF Spec

-----------------------------------------------------------------------------
(* The limits of check_timeout() are positive, and no fallback lowers one. *)
LEMMA Limits ==
  /\ \A f \in Flavors : TimeoutLimit(f) \in Nat /\ TimeoutLimit(f) >= 1
  /\ \A f \in Flavors, c \in Control :
       Starts(f, c) => TimeoutLimit(StartFlavor(f, c)) = TimeoutLimit(f)
  /\ ErrorsMax \in Nat /\ ErrorsMax >= 1 /\ FirstMax \in Nat /\ FirstMax >= 1
  <1>1. TimeoutMax \in Nat /\ RelaxFactor \in Nat /\ TimeoutMax >= 1 /\ RelaxFactor >= 1
    BY LimitAssumption
  <1>2. RelaxFactor * TimeoutMax \in Nat /\ RelaxFactor * TimeoutMax >= 1
    BY <1>1
  <1>3. \A f \in Flavors : TimeoutLimit(f) \in Nat /\ TimeoutLimit(f) >= 1
    BY <1>1, <1>2 DEF TimeoutLimit
  <1>4. \A f \in Flavors, c \in Control :
          Starts(f, c) => TimeoutLimit(StartFlavor(f, c)) = TimeoutLimit(f)
    BY DEF Starts, StartFlavor, TimeoutLimit, Checksum, FirstByte, Flavors
  <1>. QED
    BY <1>3, <1>4, LimitAssumption, FirstAssumption

LEMMA SenderRetries ==
  ASSUME TypeInv, RetryInv, SenderStep
  PROVE  RetryInv'
  <1>. USE DEF TypeInv, TypeOK
  <1>a. s_timeouts \in Nat /\ s_errors \in Nat /\ s_flavor \in Flavors
    BY DEF STypeOK
  <1>b. s_timeouts < TimeoutLimit(s_flavor) /\ s_errors < ErrorsMax + s_timeouts /\ s_xfer = "RUN"
    <2>1. s_xfer = "RUN"
      BY DEF SenderStep, SHandle, SCancelled, SStart, SNotStarted, SBlockAcked, SStream,
             SBlockRefused, SPurge, SResend, SSendEot, SDone, SNotDone, STimeout
    <2>. QED
      BY <2>1 DEF RetryInv, RetriesBounded
  <1>c. UNCHANGED rVars
    BY DEF SenderStep
  <1>. SUFFICES s_xfer' = "RUN" => /\ s_timeouts' < TimeoutLimit(s_flavor')
                                   /\ s_errors' < ErrorsMax + s_timeouts'
    BY <1>c DEF RetryInv, RetriesBounded, rVars
  <1>1. ASSUME NEW k, SCancelled(k) \/ SDone(k) PROVE s_xfer' # "RUN"
    BY <1>1 DEF SCancelled, SDone, SStop
  <1>2. CASE UNCHANGED <<s_flavor, s_timeouts, s_errors>>
    BY <1>2, <1>b
  <1>3. ASSUME NEW k, SNotStarted(k) \/ SPurge(k) \/ SSendEot(k) \/ SNotDone(k)
        PROVE UNCHANGED <<s_flavor, s_timeouts, s_errors>>
    BY <1>3 DEF SNotStarted, SPurge, SSendEot, SNotDone, sVars
  <1>4. CASE SResend
    BY <1>2, <1>4 DEF SResend
  <1>5. ASSUME NEW st, SRefused(st), TimeoutLimit(s_flavor') = TimeoutLimit(s_flavor)
        PROVE  s_xfer' = "RUN" => /\ s_timeouts' < TimeoutLimit(s_flavor')
                                  /\ s_errors' < ErrorsMax + s_timeouts'
    BY <1>5, <1>a, <1>b, Limits DEF SRefused, SStop
  <1>6. ASSUME NEW k, SStart(k)
        PROVE  s_xfer' = "RUN" => /\ s_timeouts' < TimeoutLimit(s_flavor')
                                  /\ s_errors' < ErrorsMax + s_timeouts'
    <2>0. 1 \in 1..Len(toS)
      BY <1>6, LenProperties DEF SStart, SRead, LineTypeOK
    <2>1. toS[1] \in ControlBytes
      BY <2>0, ElementOfSeq DEF LineTypeOK
    <2>2. toS[1].c \in Control
      BY <2>1 DEF ControlBytes
    <2>3. TimeoutLimit(s_flavor') = TimeoutLimit(s_flavor)
      BY <1>6, <1>a, <2>2, Limits DEF SStart
    <2>4. CASE SNextBlock(s_flavor')
      BY <1>b, <2>3, <2>4 DEF SNextBlock, SSendNext, SReadError, SStop
    <2>. QED
      BY <1>5, <1>6, <2>3, <2>4 DEF SStart
  <1>7. ASSUME NEW k, SStream(k) \/ SBlockAcked
        PROVE  UNCHANGED <<s_flavor, s_timeouts, s_errors>>
    BY <1>7 DEF SStream, SBlockAcked, SNextBlock, SSendNext, SReadError
  <1>8. ASSUME NEW k, SBlockRefused(k)
        PROVE  s_xfer' = "RUN" => /\ s_timeouts' < TimeoutLimit(s_flavor')
                                  /\ s_errors' < ErrorsMax + s_timeouts'
    BY <1>5, <1>8 DEF SBlockRefused
  <1>9. CASE STimeout
    BY <1>9, <1>a, <1>b, Limits DEF STimeout, SStop
  <1>. QED
    BY <1>1, <1>2, <1>3, <1>4, <1>6, <1>7, <1>8, <1>9 DEF SenderStep, SHandle

LEMMA ReceiverRetries ==
  ASSUME TypeInv, RetryInv, ReceiverStep
  PROVE  RetryInv'
  <1>. USE DEF TypeInv, TypeOK
  <1>a. r_timeouts \in Nat /\ r_errors \in Nat /\ r_flavor \in Flavors
        /\ TimeoutLimit(r_flavor) \in Nat /\ TimeoutLimit(r_flavor) >= 1
        /\ TimeoutLimit("X_NORMAL") \in Nat /\ TimeoutLimit("X_NORMAL") >= 1
        /\ ErrorsMax \in Nat /\ ErrorsMax >= 1 /\ FirstMax \in Nat /\ FirstMax >= 1
    BY Limits DEF RTypeOK, Flavors
  <1>b. r_xfer = "RUN"
    BY DEF ReceiverStep, RBegin, RFirstTimeout, RTimeout, RHandle, RReading, RTooMuch,
           RCollect, REot, RFilled, RAccept, RRefuse, RWriteError, RAssertFails, RPurge, RNak
  <1>c. r_timeouts < TimeoutLimit(r_flavor) + FirstMax /\ r_errors < ErrorsMax + r_timeouts
    BY <1>b DEF RetryInv, RetriesBounded
  <1>d. UNCHANGED sVars
    BY DEF ReceiverStep
  <1>. DEFINE Bounded == r_xfer' = "RUN" => /\ r_timeouts' < TimeoutLimit(r_flavor') + FirstMax
                                            /\ r_errors' < ErrorsMax + r_timeouts'
              Phases == /\ r_state' = "INIT" => r_timeouts' = 0
                        /\ r_state' = "FIRST_BLOCK" => r_timeouts' < FirstMax
                        /\ r_state' = "PURGE_INPUT" => r_prior' = "BLOCK"
  <1>. SUFFICES Bounded /\ Phases
    BY <1>d DEF RetryInv, RetriesBounded, sVars
  <1>1. ASSUME NEW k, RBegin(k) PROVE Bounded /\ Phases
    BY <1>1, <1>a, <1>c DEF RBegin, RetryInv
  <1>2. CASE RFirstTimeout
    <2>1. r_timeouts < FirstMax
      BY <1>2 DEF RFirstTimeout, RetryInv
    <2>. QED
      BY <1>2, <1>a, <1>c, <2>1 DEF RFirstTimeout
  <1>3. CASE RTimeout
    BY <1>3, <1>a, <1>c DEF RTimeout, RStop
  <1>4. ASSUME NEW k, RTooMuch(k) \/ RPurge(k) \/ RCollect(k) \/ RAccept(k) \/ RAssertFails(k)
        PROVE  Bounded /\ Phases
    BY <1>4, <1>c
    DEF RTooMuch, RPurge, RCollect, RAccept, RAssertFails, RFilled, RReading, rVars, RetryInv
  <1>5. ASSUME NEW k, RRefuse(k) \/ RWriteError(k) PROVE Bounded /\ Phases
    <2>1. RRefused(k)
      BY <1>5 DEF RRefuse, RWriteError
    <2>. QED
      BY <1>a, <1>c, <2>1 DEF RRefused, RStop
  <1>6. CASE REot
    BY <1>6 DEF REot, RStop
  <1>7. CASE RNak
    BY <1>7, <1>c DEF RNak, RetryInv
  <1>. QED
    BY <1>1, <1>2, <1>3, <1>4, <1>5, <1>6, <1>7 DEF ReceiverStep, RHandle

(***************************************************************************)
(* Whatever happens, a transfer that runs has not used up its retries:     *)
(* check_timeout() and stats_increment_errors() stop it at their limits.   *)
(***************************************************************************)
THEOREM Retries == Spec => []RetriesBounded
  <1>1. Init => RetryInv
    <2>. SUFFICES ASSUME Init PROVE RetryInv
      OBVIOUS
    <2>1. PICK p \in Setups : SInit(p[1]) /\ RInit(p[2])
      BY DEF Init
    <2>2. p[1] \in Flavors /\ p[2] \in Flavors
      BY <2>1, SetupAssumption
    <2>. QED
      BY <2>1, <2>2, Limits DEF SInit, RInit, RetryInv, RetriesBounded
  <1>2. TypeInv /\ RetryInv /\ [Next]_vars => RetryInv'
    <2>. SUFFICES ASSUME TypeInv, RetryInv, [Next]_vars PROVE RetryInv'
      OBVIOUS
    <2>1. CASE UNCHANGED <<sVars, rVars>>
      BY <2>1 DEF sVars, rVars, RetryInv, RetriesBounded
    <2>2. CASE SUserAbort /\ UNCHANGED rVars
      BY <2>2 DEF SUserAbort, rVars, RetryInv, RetriesBounded
    <2>3. CASE RUserAbort /\ UNCHANGED sVars
      BY <2>3 DEF RUserAbort, sVars, RetryInv, RetriesBounded
    <2>. QED
      BY <2>1, <2>2, <2>3, SenderRetries, ReceiverRetries DEF Next, Environment, vars
  <1>3. RetryInv => RetriesBounded
    BY DEF RetryInv
  <1>. QED
    BY <1>1, <1>2, <1>3, TypeInvInit, TypeInvStep, PTL DEF Spec
=============================================================================
