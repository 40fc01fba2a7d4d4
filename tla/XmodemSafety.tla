---------------------------- MODULE XmodemSafety ----------------------------
(***************************************************************************)
(* The safety of Xmodem transfers that wait for ACKs: what is written is   *)
(* the file, a report of success is right, and the transfer implements     *)
(* FileTransfer.                                                           *)
(***************************************************************************)
EXTENDS XmodemProofs

-----------------------------------------------------------------------------
(* Reading, losing and adding pieces keeps their order. *)

LEMMA AfterOrdered ==
  ASSUME NEW s \in Seq(Pieces), NEW k \in 0..Len(s), Ordered(s)
  PROVE  Ordered(After(s, k))
  <1>1. Len(s) \in Nat
    BY LenProperties
  <1>2. Len(After(s, k)) = Len(s) - k
        /\ \A i \in 1..(Len(s) - k) : After(s, k)[i] = s[i + k] /\ i + k \in 1..Len(s)
    BY <1>1, AfterProperties
  <1>. QED
    BY <1>1, <1>2 DEF Ordered

LEMMA AfterAcksOrdered ==
  ASSUME NEW s \in Seq(ControlBytes), NEW k \in 0..Len(s), AcksOrdered(s)
  PROVE  AcksOrdered(After(s, k))
  <1>1. Len(s) \in Nat
    BY LenProperties
  <1>2. Len(After(s, k)) = Len(s) - k
        /\ \A i \in 1..(Len(s) - k) : After(s, k)[i] = s[i + k] /\ i + k \in 1..Len(s)
    BY <1>1, AfterProperties
  <1>. QED
    BY <1>1, <1>2 DEF AcksOrdered

LEMMA WithoutOrdered ==
  ASSUME NEW s \in Seq(Pieces), NEW i \in 1..Len(s), NEW j \in i..Len(s), Ordered(s)
  PROVE  Ordered(Without(s, i, j))
  <1>1. Len(s) \in Nat
    BY LenProperties
  <1>. DEFINE t == Without(s, i, j)
              g(k) == IF k < i THEN k ELSE k + (j - i + 1)
  <1>2. Len(t) = Len(s) - (j - i + 1)
        /\ \A k \in 1..(Len(s) - (j - i + 1)) : t[k] = s[g(k)]
    BY WithoutProperties
  <1>3. \A k, l \in 1..(Len(s) - (j - i + 1)) :
          g(k) \in 1..Len(s) /\ (k <= l => g(k) <= g(l)) /\ (k < l => g(k) < g(l))
    BY <1>1
  <1>. HIDE DEF t, g
  <1>4. Ordered(t)
    BY <1>1, <1>2, <1>3 DEF Ordered
  <1>. QED
    BY <1>4 DEF t

LEMMA WithoutAcksOrdered ==
  ASSUME NEW s \in Seq(ControlBytes), NEW i \in 1..Len(s), NEW j \in i..Len(s),
         AcksOrdered(s)
  PROVE  AcksOrdered(Without(s, i, j))
  <1>1. Len(s) \in Nat
    BY LenProperties
  <1>. DEFINE t == Without(s, i, j)
              g(k) == IF k < i THEN k ELSE k + (j - i + 1)
  <1>2. Len(t) = Len(s) - (j - i + 1)
        /\ \A k \in 1..(Len(s) - (j - i + 1)) : t[k] = s[g(k)]
    BY WithoutProperties
  <1>3. \A k, l \in 1..(Len(s) - (j - i + 1)) :
          g(k) \in 1..Len(s) /\ (k <= l => g(k) <= g(l)) /\ (k < l => g(k) < g(l))
    BY <1>1
  <1>. HIDE DEF t, g
  <1>4. AcksOrdered(t)
    BY <1>1, <1>2, <1>3 DEF AcksOrdered
  <1>. QED
    BY <1>4 DEF t

LEMMA ConcatOrdered ==
  ASSUME NEW s \in Seq(Pieces), NEW t \in Seq(Pieces), NEW b \in Int, Ordered(s),
         \A i \in 1..Len(s) : s[i].b <= b,
         \A i \in 1..Len(t) : t[i].b = b
  PROVE  Ordered(s \o t)
  <1>1. Len(s) \in Nat /\ Len(t) \in Nat
    BY LenProperties
  <1>2. \A i \in 1..Len(s \o t) :
          /\ i \in Int
          /\ i <= Len(s) => (s \o t)[i] = s[i] /\ i \in 1..Len(s)
          /\ i > Len(s) => (s \o t)[i].b = b
    BY <1>1, ConcatProperties
  <1>. QED
    BY <1>1, <1>2 DEF Ordered

LEMMA DivMod ==
  ASSUME NEW m \in Nat, m >= 2, NEW n \in Nat
  PROVE  n \div m \in Int /\ n % m \in Int /\ n = m * (n \div m) + (n % m)
  <1>1. n \div m \in Int
    OBVIOUS
  <1>2. n % m \in Int
    OBVIOUS
  <1>3. n = m * (n \div m) + (n % m)
    OBVIOUS
  <1>. QED
    BY <1>1, <1>2, <1>3

(* Two numbers in a row are told apart modulo 2 or more. *)
LEMMA NextMod ==
  ASSUME NEW m \in Nat, m >= 2, NEW n \in Nat
  PROVE  n % m # (n + 1) % m
  <1>. SUFFICES ASSUME n % m = (n + 1) % m PROVE FALSE
    OBVIOUS
  <1>1. PICK p \in Int, r \in Int : r = n % m /\ n = m * p + r
    BY DivMod
  <1>a. n + 1 \in Nat
    OBVIOUS
  <1>b. (n + 1) \div m \in Int /\ n + 1 = m * ((n + 1) \div m) + ((n + 1) % m)
    BY <1>a, DivMod
  <1>2. PICK q \in Int : n + 1 = m * q + r
    <2>. WITNESS (n + 1) \div m \in Int
    <2>. QED
      BY <1>1, <1>b
  <1>3. m * (q - p) = 1
    BY <1>1, <1>2
  <1>4. q - p >= 1 \/ q - p <= 0
    OBVIOUS
  <1>. QED
    BY <1>3, <1>4

-----------------------------------------------------------------------------
(* The steps of the sender. *)

(* What SafeInv says beyond the types, which TypeInvStep preserves. *)
Safe == /\ NoG /\ Window /\ FileWritten
        /\ PiecesOK /\ InOrder /\ AcksOK /\ EndOK

LEMMA Lengths ==
  ASSUME TypeOK
  PROVE  /\ toR \in Seq(Pieces) /\ toS \in Seq(ControlBytes) /\ cur \in Seq(Pieces)
         /\ Len(toR) \in Nat /\ Len(toS) \in Nat /\ Len(cur) \in Nat /\ Len(r_file) \in Nat
         /\ s_blk \in Nat /\ s_blk <= NBlocks /\ r_num \in Nat /\ r_num >= 1
         /\ NBlocks \in Nat /\ NBlocks >= 1
  <1>1. toR \in Seq(Pieces) /\ toS \in Seq(ControlBytes) /\ cur \in Seq(Pieces)
        /\ r_file \in Seq(0..(NBlocks + 1))
    BY DEF TypeOK, LineTypeOK, RTypeOK
  <1>2. Len(toR) \in Nat /\ Len(toS) \in Nat /\ Len(cur) \in Nat /\ Len(r_file) \in Nat
    BY <1>1, LenProperties
  <1>3. s_blk \in Nat /\ s_blk <= NBlocks /\ r_num \in Nat /\ r_num >= 1
    BY DEF TypeOK, STypeOK, RTypeOK
  <1>. QED
    BY <1>1, <1>2, <1>3, LineAssumption

(* The type of a piece, and of a control byte. *)
LEMMA Elements ==
  ASSUME TypeOK
  PROVE  /\ \A i \in 1..Len(toR) : toR[i] \in Pieces /\ toR[i].b \in Nat
         /\ \A i \in 1..Len(cur) : cur[i] \in Pieces /\ cur[i].b \in Nat
         /\ \A i \in 1..Len(toS) : toS[i] \in ControlBytes /\ toS[i].n \in Nat
  <1>1. \A i \in 1..Len(toR) : toR[i] \in Pieces
    BY Lengths, ElementOfSeq
  <1>2. \A i \in 1..Len(cur) : cur[i] \in Pieces
    BY Lengths, ElementOfSeq
  <1>3. \A i \in 1..Len(toS) : toS[i] \in ControlBytes
    BY Lengths, ElementOfSeq
  <1>4. \A p \in Pieces : p.b \in Nat
    BY DEF Pieces
  <1>5. \A c \in ControlBytes : c.n \in Nat
    BY DEF ControlBytes
  <1>. QED
    BY <1>1, <1>2, <1>3, <1>4, <1>5

(* The sender has read k bytes: those that remain were there before. *)
LEMMA ReadAcks ==
  ASSUME TypeOK, AcksOK, NEW k, SRead(k)
  PROVE  /\ k \in 1..Len(toS) /\ 1 \in 1..Len(toS)
         /\ AcksOrdered(toS')
         /\ Len(toS') = Len(toS) - k
         /\ \A i \in 1..Len(toS') : toS'[i] = toS[i + k] /\ i + k \in 1..Len(toS)
  <1>1. toS \in Seq(ControlBytes) /\ Len(toS) \in Nat /\ k \in 0..Len(toS)
        /\ toS' = After(toS, k) /\ k \in 1..Len(toS)
    BY Lengths DEF SRead
  <1>2. Len(toS') = Len(toS) - k /\ \A i \in 1..(Len(toS) - k) : toS'[i] = toS[i + k]
    BY <1>1, AfterProperties
  <1>3. AcksOrdered(toS')
    BY <1>1, AfterAcksOrdered DEF AcksOK
  <1>. QED
    BY <1>1, <1>2, <1>3

(* Where the sender stands between the last block and the end. *)
LEMMA EotSentKept ==
  ASSUME EotSent, UNCHANGED rVars,
         SPos' \in {"EOT_ACK", "COMPLETE", "ABORT"} \/ SPos' = SPos
  PROVE  EotSent'
  BY DEF EotSent, rVars

(* A call that reads bytes and sends nothing. *)
LEMMA SenderReads ==
  ASSUME TypeOK, Safe, NEW k, SRead(k), UNCHANGED <<toR, s_blk, rVars>>,
         SPos' = "EOT_ACK" => SPos = "EOT_ACK",
         SPos' \in {"EOT_ACK", "COMPLETE", "ABORT"} \/ ~EotSent,
         ~IsG(s_flavor'), s_xfer' = "END" => r_xfer = "END"
  PROVE  Safe'
  <1>. USE DEF Safe
  <1>1. AcksOK'
    <2>1. ASSUME NEW i \in 1..Len(toS') PROVE AckOK(toS[i])'
      <3>1. toS'[i] = toS[i + k] /\ AckOK(toS[i + k])
        BY ReadAcks DEF AcksOK
      <3>. QED
        BY <3>1 DEF AckOK, rVars
    <2>. QED
      BY <2>1, ReadAcks DEF AcksOK
  <1>2. EndOK'
    BY DEF EndOK, rVars
  <1>3. NoG' /\ Window' /\ FileWritten'
    BY DEF NoG, Window, FileWritten, BlocksWritten, GoodBlocksInOrder, PrefixDelivered, rVars
  <1>4. PiecesOK' /\ InOrder'
    BY DEF PiecesOK, PieceOK, InOrder, Ordered, EotSent, rVars
  <1>. QED
    BY <1>1, <1>2, <1>3, <1>4

(***************************************************************************)
(* The sender puts pieces t of block b on the line: the block it has just  *)
(* constructed, the same block again, or an EOT.                           *)
(***************************************************************************)
LEMMA SenderPuts ==
  ASSUME TypeOK, Safe, s_blk' \in Nat, s_blk' >= s_blk, UNCHANGED rVars,
         NEW t \in Seq(Pieces), NEW b \in Nat, toR' = toR \o t,
         \A i \in 1..Len(t) : t[i].b = b /\ t[i].x = "ok" /\ (t[i].l = 1 <=> b = NBlocks + 1),
         b <= NBlocks + 1, b >= r_num - 1,
         IF b = NBlocks + 1 THEN EotSent' ELSE b = s_blk' /\ ~EotSent,
         EotSent => EotSent'
  PROVE  PiecesOK' /\ InOrder'
  <1>. USE DEF Safe
  <1>a. \A p : PieceOK(p) /\ p.b \in Nat => p.b <= b
    BY Lengths DEF PieceOK
  <1>1. /\ \A i \in 1..Len(toR) : toR[i].b <= b
        /\ \A i \in 1..Len(cur) : cur[i].b <= b
    BY <1>a, Elements DEF PiecesOK
  <1>2. Len(toR) \in Nat /\ Len(t) \in Nat
    BY Lengths, LenProperties
  <1>3. Len(toR') = Len(toR) + Len(t)
        /\ \A i \in 1..Len(toR') :
             IF i <= Len(toR) THEN toR'[i] = toR[i] /\ i \in 1..Len(toR)
             ELSE toR'[i] = t[i - Len(toR)] /\ i - Len(toR) \in 1..Len(t)
    BY <1>2, Lengths, ConcatProperties
  <1>4. Ordered(toR')
    <2>1. toR \in Seq(Pieces) /\ b \in Int /\ Ordered(toR)
      BY Lengths DEF InOrder
    <2>. QED
      BY <1>1, <2>1, ConcatOrdered
  <1>5. InOrder'
    BY <1>1, <1>3, <1>4 DEF InOrder, rVars
  <1>6. \A i \in 1..Len(toR) : PieceOK(toR[i]) /\ toR[i].b \in Nat
    BY Elements DEF PiecesOK
  <1>7. \A i \in 1..Len(cur) : PieceOK(cur[i]) /\ cur[i].b \in Nat
    BY Elements DEF PiecesOK
  <1>8. r_num' = r_num /\ cur' = cur /\ s_blk \in Nat /\ r_num \in Nat
    BY Lengths DEF rVars
  <1>9. ASSUME NEW i \in 1..Len(toR') PROVE PieceOK(toR[i])'
    <2>1. CASE i <= Len(toR)
      BY <1>3, <1>6, <1>8, <2>1 DEF PieceOK
    <2>2. CASE ~(i <= Len(toR))
      BY <1>3, <1>8, <2>2 DEF PieceOK
    <2>. QED
      BY <2>1, <2>2
  <1>10. ASSUME NEW i \in 1..Len(cur') PROVE PieceOK(cur[i])'
    BY <1>7, <1>8 DEF PieceOK
  <1>. QED
    BY <1>5, <1>9, <1>10 DEF PiecesOK

(* The parts of Safe that the sender's messages do not touch. *)
LEMMA SenderFrame ==
  ASSUME TypeOK, Safe, UNCHANGED rVars, ~IsG(s_flavor')
  PROVE  NoG' /\ FileWritten'
  BY DEF Safe, NoG, FileWritten, BlocksWritten, GoodBlocksInOrder, PrefixDelivered, rVars

(* An ACK that is read lets the sender go on to the next block. *)
LEMMA SenderSendsNext ==
  ASSUME TypeInv, Safe, NEW f \in Flavors, ~IsG(f), s_flavor' = f, SRead(1),
         \/ s_state = "INIT" /\ toS[1].c # "ACK"
         \/ s_state = "BLOCK" /\ toS[1].c = "ACK",
         s_xfer = "RUN", SSendNext(f), UNCHANGED rVars
  PROVE  Safe'
  <1>. USE DEF Safe, TypeInv
  <1>1. s_blk < NBlocks /\ s_blk \in Nat /\ SPos \in {"INIT", "BLOCK"} /\ ~EotSent
        /\ s_blk' = s_blk + 1 /\ (SPos = "INIT" => s_blk = 0)
    BY Lengths DEF SenderPosition, SPos, EotSent, SSendNext
  <1>2. 1 \in 1..Len(toS) /\ AckOK(toS[1]) /\ toS[1].n \in Nat
    BY ReadAcks, Elements DEF AcksOK
  <1>3. s_blk + 1 <= r_num /\ r_num \in Nat /\ r_num - 1 <= s_blk
    <2>1. CASE toS[1].c = "ACK"
      BY <1>1, <1>2, <2>1, Lengths DEF AckOK, EndOK, Window
    <2>2. CASE s_state = "INIT"
      BY <1>1, <2>2, Lengths DEF SPos, Window
    <2>. QED
      BY <2>1, <2>2
  <1>4. Window'
    BY <1>1, <1>3 DEF Window, rVars
  <1>5. PiecesOK' /\ InOrder'
    <2>. DEFINE t == Block(f, s_blk + 1)
                b == s_blk + 1
    <2>1. t \in Seq(Pieces) /\ b \in Nat /\ b <= NBlocks
          /\ \A i \in 1..Len(t) : t[i].b = b /\ t[i].x = "ok" /\ t[i].l > 1
      BY <1>1, BlockProperties, Lengths
    <2>2. \A i \in 1..Len(t) : t[i].b = b /\ t[i].x = "ok" /\ (t[i].l = 1 <=> b = NBlocks + 1)
      BY <2>1, Lengths
    <2>3. toR' = toR \o t /\ b = s_blk' /\ s_blk' >= s_blk /\ s_blk' \in Nat
      BY <1>1 DEF SSendNext
    <2>. HIDE DEF t, b
    <2>4. b <= NBlocks + 1 /\ b # NBlocks + 1 /\ b >= r_num - 1
      BY <1>1, <1>3, <2>1, Lengths DEF b
    <2>. QED
      BY <1>1, <2>1, <2>2, <2>3, <2>4, SenderPuts
  <1>6. AcksOK'
    <2>1. SPos' # "EOT_ACK"
      BY DEF SSendNext, SPos
    <2>2. ASSUME NEW i \in 1..Len(toS') PROVE AckOK(toS[i])'
      <3>1. toS'[i] = toS[i + 1] /\ AckOK(toS[i + 1]) /\ i + 1 \in 1..Len(toS)
            /\ i \in Nat /\ 1 < i + 1 /\ 1 \in 1..Len(toS)
        <4>1. /\ 1 \in 1..Len(toS)
              /\ \A j \in 1..Len(toS') : toS'[j] = toS[j + 1] /\ j + 1 \in 1..Len(toS)
          BY ReadAcks
        <4>2. toS'[i] = toS[i + 1] /\ i + 1 \in 1..Len(toS)
          BY <4>1
        <4>3. AckOK(toS[i + 1])
          BY <4>2 DEF AcksOK
        <4>4. i \in Nat /\ 1 < i + 1
          OBVIOUS
        <4>. QED
          BY <4>1, <4>2, <4>3, <4>4
      <3>2. toS[i + 1].n \in Nat
        BY <3>1, Elements
      <3>3. CASE toS[i + 1].c = "ACK" /\ toS[1].c = "ACK"
        <4>1. toS[1].n < toS[i + 1].n
          BY <3>1, <3>3 DEF AcksOK, AcksOrdered
        <4>2. toS[i + 1].n >= s_blk + 1
          BY <1>1, <1>2, <3>2, <3>3, <4>1 DEF AckOK
        <4>. QED
          BY <1>1, <2>1, <3>1, <4>2 DEF AckOK, rVars
      <3>4. CASE toS[i + 1].c = "ACK" /\ toS[1].c # "ACK"
        <4>1. s_blk = 0
          BY <1>1, <3>4 DEF SPos
        <4>. QED
          BY <1>1, <2>1, <3>1, <3>2, <4>1 DEF AckOK, rVars
      <3>. QED
        BY <3>1, <3>3, <3>4 DEF AckOK
    <2>. QED
      BY <2>2, ReadAcks DEF AcksOK
  <1>7. EndOK'
    BY DEF EndOK, SSendNext, SPos, rVars
  <1>. QED
    BY <1>4, <1>5, <1>6, <1>7, SenderFrame

(* current_block goes out again. *)
LEMMA SenderResends ==
  ASSUME TypeInv, Safe, SResend, UNCHANGED rVars
  PROVE  Safe'
  <1>. USE DEF Safe, TypeInv
  <1>1. SPos' = SPos
    BY DEF SResend, SPos
  <1>2. s_blk' = s_blk /\ toS' = toS /\ s_xfer' = s_xfer /\ s_flavor' = s_flavor
    BY DEF SResend
  <1>3. SPos' = "EOT_ACK" => SPos = "EOT_ACK"
    BY <1>1
  <1>4. EotSent => EotSent'
    BY <1>1 DEF EotSent, rVars
  <1>5. AcksOK' /\ EndOK' /\ Window'
    BY <1>2, <1>3 DEF AcksOK, AckOK, EndOK, Window, rVars
  <1>6. CASE toR' = toR
    BY <1>2, <1>4, <1>5, <1>6, SenderFrame
    DEF NoG, PiecesOK, PieceOK, InOrder, rVars
  <1>7. CASE s_prior \in {"BLOCK", "LAST_BLOCK"} /\ s_blk > 0
             /\ toR' = toR \o Block(s_flavor, s_blk)
    <2>. DEFINE t == Block(s_flavor, s_blk)
    <2>1. s_flavor \in Flavors /\ s_blk \in 1..NBlocks
      BY <1>7, Lengths DEF TypeOK, STypeOK
    <2>2. t \in Seq(Pieces)
          /\ \A i \in 1..Len(t) : t[i].b = s_blk /\ t[i].x = "ok" /\ t[i].l > 1
      BY <2>1, BlockProperties
    <2>3. \A i \in 1..Len(t) :
            t[i].b = s_blk /\ t[i].x = "ok" /\ (t[i].l = 1 <=> s_blk = NBlocks + 1)
      BY <2>1, <2>2, Lengths
    <2>4. ~EotSent /\ s_blk \in Nat /\ s_blk <= NBlocks + 1 /\ s_blk # NBlocks + 1
          /\ s_blk >= r_num - 1
      BY <1>7, Lengths DEF EotSent, SPos, SResend, Window
    <2>5. PiecesOK' /\ InOrder'
      <3>. HIDE DEF t
      <3>. QED
        BY <1>2, <1>7, <2>2, <2>3, <2>4, SenderPuts DEF t
    <2>. QED
      BY <1>2, <1>5, <2>5, SenderFrame DEF NoG
  <1>. QED
    BY <1>6, <1>7 DEF SResend

(* An EOT goes out: the first, or another one after a timeout. *)
LEMMA SenderPutsEot ==
  ASSUME TypeInv, Safe, toR' = Append(toR, EOT), UNCHANGED <<s_blk, rVars>>,
         EotSent', ~IsG(s_flavor')
  PROVE  PiecesOK' /\ InOrder' /\ Window' /\ NoG' /\ FileWritten'
  <1>. USE DEF Safe, TypeInv
  <1>. DEFINE t == <<EOT>>
  <1>1. EOT \in Pieces
    BY LineAssumption DEF EOT, Pieces, Noise
  <1>2. t \in Seq(Pieces) /\ Len(t) = 1 /\ t[1] = EOT
    <2>1. <<>> \in Seq(Pieces) /\ Len(<<>>) = 0 /\ t = Append(<<>>, EOT)
      BY EmptySeq
    <2>. QED
      BY <1>1, <2>1, AppendProperties
  <1>3. toR' = toR \o t
    BY <1>1, Lengths, AppendIsConcat
  <1>4. EOT.b = NBlocks + 1 /\ EOT.x = "ok" /\ EOT.l = 1
    BY DEF EOT
  <1>. HIDE DEF t
  <1>5. \A i \in 1..Len(t) : t[i].b = NBlocks + 1 /\ t[i].x = "ok"
                             /\ (t[i].l = 1 <=> NBlocks + 1 = NBlocks + 1)
    BY <1>2, <1>4
  <1>6. NBlocks + 1 \in Nat /\ NBlocks + 1 >= r_num - 1 /\ s_blk' \in Nat /\ s_blk' >= s_blk
        /\ NBlocks + 1 <= NBlocks + 1
    BY Lengths DEF Window
  <1>7. PiecesOK' /\ InOrder'
    BY <1>2, <1>3, <1>5, <1>6, SenderPuts
  <1>. QED
    BY <1>7, SenderFrame DEF Window, rVars

(* construct_block() cannot read the file: the sender gives up. *)
LEMMA ReadErrorSafe ==
  ASSUME TypeInv, Safe, SReadError, NEW k, SRead(k), UNCHANGED rVars, ~IsG(s_flavor')
  PROVE  Safe'
  <1>1. UNCHANGED <<toR, s_blk>> /\ s_xfer' = "ABORT" /\ SPos' = "ABORT"
    BY DEF SReadError, SStop, SPos
  <1>. QED
    BY <1>1, SenderReads DEF TypeInv

LEMMA SenderSafe ==
  ASSUME SoundLine, TypeInv, Safe, SenderStep
  PROVE  Safe'
  <1>. USE DEF TypeInv
  <1>a. UNCHANGED rVars /\ ~IsG(s_flavor) /\ (s_xfer = "END" => r_xfer = "END")
    BY DEF SenderStep, Safe, NoG, EndOK
  <1>1. ASSUME NEW k, SCancelled(k) PROVE Safe'
    <2>1. SRead(k) /\ UNCHANGED <<toR, s_blk, s_flavor>> /\ s_xfer' = "ABORT" /\ SPos' = "ABORT"
      BY <1>1 DEF SCancelled, SStop, SPos
    <2>. QED
      BY <1>a, <2>1, SenderReads
  <1>2. ASSUME NEW k, SStart(k) PROVE Safe'
    <2>1. s_flavor' \in Flavors /\ ~IsG(s_flavor') /\ SRead(k) /\ s_state = "INIT"
          /\ s_xfer = "RUN" /\ toS[1].c # "ACK" /\ ~EotSent
      BY <1>2, <1>a DEF SStart, Starts, StartFlavor, FirstByte, IsG, TypeOK, STypeOK,
                        Flavors, EotSent, SPos
    <2>2. CASE SSendNext(s_flavor') /\ k = 1
      BY <1>a, <2>1, <2>2, SenderSendsNext
    <2>3. CASE SRefused("BLOCK")
      <3>1. UNCHANGED <<toR, s_blk>> /\ SPos' \in {"BLOCK", "ABORT"} /\ s_xfer' # "END"
        BY <2>1, <2>3 DEF SRefused, SStop, SPos
      <3>. QED
        BY <1>a, <2>1, <3>1, SenderReads
    <2>4. CASE SReadError
      BY <1>a, <2>1, <2>4, ReadErrorSafe
    <2>. QED
      BY <1>2, <2>1, <2>2, <2>3, <2>4 DEF SStart, SNextBlock
  <1>3. ASSUME NEW k, SNotStarted(k) \/ SPurge(k) \/ SNotDone(k) PROVE Safe'
    <2>1. SRead(k) /\ UNCHANGED <<toR, s_blk, s_flavor, s_xfer>> /\ SPos' = SPos
      BY <1>3 DEF SNotStarted, SPurge, SNotDone, sVars, SPos
    <2>2. SPos \in {"EOT_ACK", "COMPLETE", "ABORT"} \/ ~EotSent
      BY DEF EotSent
    <2>. QED
      BY <1>a, <2>1, <2>2, SenderReads
  <1>4. CASE SBlockAcked
    <2>1. s_flavor \in Flavors /\ s_flavor' = s_flavor /\ SRead(1) /\ s_state = "BLOCK"
          /\ toS[1].c = "ACK" /\ s_xfer = "RUN" /\ SNextBlock(s_flavor)
      BY <1>4 DEF SBlockAcked, Acked, TypeOK, STypeOK
    <2>2. CASE SSendNext(s_flavor)
      BY <1>a, <2>1, <2>2, SenderSendsNext
    <2>3. CASE SReadError
      BY <1>a, <2>1, <2>3, ReadErrorSafe
    <2>. QED
      BY <2>1, <2>2, <2>3 DEF SNextBlock
  <1>5. ASSUME NEW k, SStream(k) PROVE FALSE
    BY <1>5, <1>a DEF SStream
  <1>6. ASSUME NEW k, SBlockRefused(k) PROVE Safe'
    <2>1. SRead(k) /\ UNCHANGED <<toR, s_blk, s_flavor>> /\ s_xfer' # "END"
          /\ SPos' \in {"BLOCK", "LAST_BLOCK", "ABORT"} /\ ~EotSent
      BY <1>6 DEF SBlockRefused, SRefused, SStop, SPos, EotSent
    <2>. QED
      BY <1>a, <2>1, SenderReads
  <1>7. CASE SResend
    BY <1>a, <1>7, SenderResends
  <1>8. ASSUME NEW k, SSendEot(k) PROVE Safe'
    <2>1. SRead(k) /\ k = 1 /\ toS[1].c = "ACK" /\ s_state = "LAST_BLOCK" /\ s_xfer = "RUN"
          /\ toR' = Append(toR, EOT) /\ s_state' = "EOT_ACK"
          /\ UNCHANGED <<s_blk, s_flavor, s_xfer>>
      BY <1>8, <1>a DEF SSendEot, Acked
    <2>2. s_blk = NBlocks /\ SPos' = "EOT_ACK" /\ SPos = "LAST_BLOCK"
      BY <2>1 DEF SenderPosition, SPos
    <2>3. 1 \in 1..Len(toS) /\ AckOK(toS[1]) /\ toS[1].n \in Nat
      BY <2>1, ReadAcks, Elements DEF Safe, AcksOK
    <2>4. r_num = NBlocks + 1
      BY <2>1, <2>2, <2>3, Lengths DEF AckOK, Safe, EndOK, Window
    <2>5. PiecesOK' /\ InOrder' /\ Window' /\ NoG' /\ FileWritten'
      <3>1. EotSent'
        BY <1>a, <2>2, <2>4 DEF EotSent, rVars
      <3>. QED
        BY <1>a, <2>1, <3>1, SenderPutsEot
    <2>6. EndOK'
      BY <1>a, <2>1, <2>4 DEF EndOK, rVars, Safe
    <2>7. ASSUME NEW i \in 1..Len(toS') PROVE AckOK(toS[i])'
      <3>1. toS'[i] = toS[i + 1] /\ AckOK(toS[i + 1]) /\ i + 1 \in 1..Len(toS)
            /\ 1 < i + 1 /\ 1 \in 1..Len(toS)
        <4>1. /\ 1 \in 1..Len(toS) /\ AcksOK
              /\ \A j \in 1..Len(toS') : toS'[j] = toS[j + 1] /\ j + 1 \in 1..Len(toS)
          BY <2>1, ReadAcks DEF Safe
        <4>2. toS'[i] = toS[i + 1] /\ i + 1 \in 1..Len(toS)
          BY <4>1
        <4>3. AckOK(toS[i + 1])
          BY <4>1, <4>2 DEF AcksOK
        <4>4. 1 < i + 1
          OBVIOUS
        <4>. QED
          BY <4>1, <4>2, <4>3, <4>4
      <3>2. toS[i + 1].n \in Nat
        BY <3>1, Elements
      <3>3. toS[i + 1].c = "ACK" => toS[i + 1].n > NBlocks
        BY <2>1, <2>2, <2>3, <3>1, <3>2, Lengths DEF AcksOK, AcksOrdered, AckOK, Safe
      <3>. QED
        BY <1>a, <2>1, <3>1, <3>3 DEF AckOK, rVars
    <2>8. AcksOK'
      BY <2>1, <2>7, ReadAcks DEF AcksOK, Safe
    <2>. QED
      BY <2>5, <2>6, <2>8 DEF Safe
  <1>9. ASSUME NEW k, SDone(k) PROVE Safe'
    <2>1. SRead(k) /\ UNCHANGED <<toR, s_blk, s_flavor>> /\ SPos' = "COMPLETE"
          /\ toS[1].c = "ACK" /\ SPos = "EOT_ACK"
      BY <1>9 DEF SDone, SStop, SPos
    <2>2. 1 \in 1..Len(toS) /\ AckOK(toS[1]) /\ toS[1].n \in Nat
      BY <2>1, ReadAcks, Elements DEF Safe, AcksOK
    <2>3. r_xfer = "END"
      BY <2>1, <2>2, Lengths DEF AckOK, Safe, EndOK
    <2>. QED
      BY <1>a, <2>1, <2>3, SenderReads
  <1>10. CASE STimeout
    <2>1. UNCHANGED <<s_blk, s_flavor, toS>> /\ s_xfer' # "END"
      BY <1>10 DEF STimeout, SStop
    <2>2. SPos' = SPos \/ SPos' = "ABORT"
      BY <1>10 DEF STimeout, SStop, SPos
    <2>3. EotSent => EotSent'
      BY <1>a, <2>2 DEF EotSent, rVars
    <2>4. AcksOK' /\ EndOK'
      BY <1>a, <2>1, <2>2 DEF Safe, AcksOK, AckOK, EndOK, rVars
    <2>5. CASE s_state = "EOT_ACK" /\ toR' = Append(toR, EOT)
      <3>1. EotSent'
        BY <2>3, <2>5 DEF EotSent, SPos, Safe, EndOK
      <3>. QED
        BY <1>a, <2>1, <2>4, <2>5, <3>1, SenderPutsEot DEF Safe
    <2>6. CASE toR' = toR
      BY <1>a, <2>1, <2>3, <2>4, <2>6, SenderFrame
      DEF Safe, Window, PiecesOK, PieceOK, InOrder, rVars
    <2>. QED
      BY <1>10, <2>5, <2>6 DEF STimeout
  <1>. QED
    BY <1>1, <1>2, <1>3, <1>4, <1>5, <1>6, <1>7, <1>8, <1>9, <1>10 DEF SenderStep, SHandle

-----------------------------------------------------------------------------
(* The steps of the receiver. *)

(* What the receiver's steps leave alone. *)
LEMMA SenderUnchanged ==
  ASSUME UNCHANGED sVars
  PROVE  SPos' = SPos /\ s_blk' = s_blk /\ s_xfer' = s_xfer /\ s_flavor' = s_flavor
  BY DEF sVars, SPos

(* A byte other than an ACK goes to the sender, or none at all. *)
LEMMA NoAckPut ==
  ASSUME TypeOK, AcksOK, UNCHANGED <<sVars, r_num>>, r_xfer = "RUN",
         \/ toS' = toS
         \/ \E c \in Control \ {"ACK"} : RPut(c, 0)
  PROVE  AcksOK'
  <1>1. CASE toS' = toS
    BY <1>1, SenderUnchanged DEF AcksOK, AckOK
  <1>2. ASSUME NEW c \in Control \ {"ACK"}, RPut(c, 0) PROVE AcksOK'
    <2>. DEFINE e == [c |-> c, n |-> 0]
    <2>1. e \in ControlBytes /\ e.c # "ACK" /\ toS' = Append(toS, e)
      BY <1>2 DEF ControlBytes, RPut
    <2>. HIDE DEF e
    <2>2. Len(toS') = Len(toS) + 1 /\ toS'[Len(toS) + 1] = e
          /\ \A i \in 1..Len(toS) : toS'[i] = toS[i]
      BY <2>1, Lengths, AppendProperties
    <2>3. \A i \in 1..Len(toS') : i = Len(toS) + 1 \/ i \in 1..Len(toS)
      BY <2>2, Lengths
    <2>4. ASSUME NEW i \in 1..Len(toS') PROVE AckOK(toS[i])'
      <3>1. CASE i = Len(toS) + 1
        BY <2>1, <2>2, <3>1 DEF AckOK
      <3>2. CASE i \in 1..Len(toS)
        BY <2>2, <3>2, SenderUnchanged DEF AcksOK, AckOK
      <3>. QED
        BY <2>3, <3>1, <3>2
    <2>5. AcksOrdered(toS')
      BY <2>1, <2>2, <2>3 DEF AcksOK, AcksOrdered
    <2>. QED
      BY <2>4, <2>5 DEF AcksOK
  <1>. QED
    BY <1>1, <1>2

(* An ACK goes to the sender, for a later block than those before it. *)
LEMMA AckPut ==
  ASSUME TypeOK, AcksOK, UNCHANGED sVars, r_xfer = "RUN", NEW n \in Nat, RPut("ACK", n),
         n >= 1, n >= s_blk, n >= r_num, SPos = "EOT_ACK" => n > NBlocks,
         r_num' \in Nat, r_num' >= r_num,
         n < r_num' \/ (n = NBlocks + 1 /\ r_xfer' = "END")
  PROVE  AcksOK'
  <1>. DEFINE e == [c |-> "ACK", n |-> n]
  <1>1. e \in ControlBytes /\ e.c = "ACK" /\ e.n = n /\ toS' = Append(toS, e)
    BY DEF ControlBytes, Control, RPut
  <1>. HIDE DEF e
  <1>2. Len(toS') = Len(toS) + 1 /\ toS'[Len(toS) + 1] = e
        /\ \A i \in 1..Len(toS) : toS'[i] = toS[i]
    BY <1>1, Lengths, AppendProperties
  <1>3. \A i \in 1..Len(toS') : i = Len(toS) + 1 \/ i \in 1..Len(toS)
    BY <1>2, Lengths
  <1>4. \A i \in 1..Len(toS) : AckOK(toS[i]) /\ toS[i].n \in Nat /\ (toS[i].c = "ACK" => toS[i].n < r_num)
    BY Elements DEF AcksOK, AckOK
  <1>5. ASSUME NEW i \in 1..Len(toS') PROVE AckOK(toS[i])'
    <2>1. CASE i = Len(toS) + 1
      BY <1>1, <1>2, <2>1, SenderUnchanged DEF AckOK
    <2>2. CASE i \in 1..Len(toS)
      BY <1>2, <1>4, <2>2, Lengths, SenderUnchanged DEF AckOK
    <2>. QED
      BY <1>3, <2>1, <2>2
  <1>6. ASSUME NEW i \in 1..Len(toS'), NEW j \in 1..Len(toS'), i < j,
               toS'[i].c = "ACK", toS'[j].c = "ACK"
        PROVE  toS'[i].n < toS'[j].n
    <2>1. i \in 1..Len(toS)
      BY <1>2, <1>6, Lengths
    <2>2. CASE j = Len(toS) + 1
      BY <1>1, <1>2, <1>4, <1>6, <2>1, <2>2, Lengths
    <2>3. CASE j \in 1..Len(toS)
      BY <1>2, <1>6, <2>1, <2>3 DEF AcksOK, AcksOrdered
    <2>. QED
      BY <1>3, <2>2, <2>3
  <1>. QED
    BY <1>5, <1>6 DEF AcksOK, AcksOrdered

(* The receiver has read k pieces: those that remain were there before. *)
LEMMA ReadRest ==
  ASSUME TypeOK, InOrder, NEW k, RRead(k)
  PROVE  /\ k \in 1..Len(toR) /\ Ordered(toR')
         /\ Len(toR') = Len(toR) - k
         /\ \A i \in 1..Len(toR') : toR'[i] = toR[i + k] /\ i + k \in 1..Len(toR)
  <1>1. toR \in Seq(Pieces) /\ Len(toR) \in Nat /\ k \in 0..Len(toR)
        /\ toR' = After(toR, k) /\ k \in 1..Len(toR)
    BY Lengths DEF RRead
  <1>2. Len(toR') = Len(toR) - k /\ \A i \in 1..(Len(toR) - k) : toR'[i] = toR[i + k]
    BY <1>1, AfterProperties
  <1>3. Ordered(toR')
    BY <1>1, AfterOrdered DEF InOrder
  <1>. QED
    BY <1>1, <1>2, <1>3

(* current_block, with what has been read, once this is in order. *)
LEMMA CollectedOK ==
  ASSUME TypeOK, Safe, NEW k \in 1..Len(toR)
  PROVE  /\ Len(cur \o Input(k)) = Len(cur) + k
         /\ \A i \in 1..(Len(cur) + k) :
              /\ PieceOK((cur \o Input(k))[i])
              /\ (cur \o Input(k))[i] \in Pieces
              /\ \A j \in (k + 1)..Len(toR) : (cur \o Input(k))[i].b <= toR[j].b
  <1>. DEFINE c == cur \o Input(k)
  <1>1. c \in Seq(Pieces) /\ Len(c) = Len(cur) + k
        /\ \A i \in 1..(Len(cur) + k) :
             c[i] = IF i <= Len(cur) THEN cur[i] ELSE toR[i - Len(cur)]
    BY CollectProperties DEF TypeOK
  <1>2. Len(cur) \in Nat /\ Len(toR) \in Nat /\ k \in Nat
    BY Lengths
  <1>. HIDE DEF c
  <1>3. ASSUME NEW i \in 1..(Len(cur) + k)
        PROVE  /\ PieceOK(c[i]) /\ c[i] \in Pieces
               /\ \A j \in (k + 1)..Len(toR) : c[i].b <= toR[j].b
    <2>1. CASE i <= Len(cur)
      <3>1. c[i] = cur[i] /\ i \in 1..Len(cur)
        BY <1>1, <1>2, <2>1
      <3>2. \A j \in (k + 1)..Len(toR) : j \in 1..Len(toR)
        BY <1>2
      <3>. QED
        BY <3>1, <3>2, Elements DEF Safe, PiecesOK, InOrder
    <2>2. CASE ~(i <= Len(cur))
      <3>1. c[i] = toR[i - Len(cur)] /\ i - Len(cur) \in 1..Len(toR) /\ i - Len(cur) <= k
            /\ i - Len(cur) \in Int
        BY <1>1, <1>2, <2>2
      <3>2. \A j \in (k + 1)..Len(toR) : j \in 1..Len(toR) /\ i - Len(cur) <= j
        BY <1>2, <3>1
      <3>. QED
        BY <3>1, <3>2, Elements DEF Safe, PiecesOK, InOrder, Ordered
    <2>. QED
      BY <2>1, <2>2
  <1>. QED
    BY <1>1, <1>3 DEF c

(* What is written is the block expected, ... *)
LEMMA ConsecutiveAppend ==
  ASSUME NEW f \in Seq(Nat), NEW n \in Nat \ {0}, Consecutive(f), HasBefore(f, n)
  PROVE  Consecutive(Append(f, n)) /\ HasBefore(Append(f, n), n + 1)
  <1>. DEFINE g == Append(f, n)
              m == Len(f)
  <1>1. m \in Nat /\ \A i \in 1..m : f[i] \in Nat
    BY LenProperties, ElementOfSeq
  <1>2. Len(g) = m + 1 /\ g[m + 1] = n /\ \A i \in 1..m : g[i] = f[i]
    BY AppendProperties
  <1>. HIDE DEF g, m
  <1>3. \A i \in 1..Len(g) : i = m + 1 \/ i \in 1..m
    BY <1>1, <1>2
  <1>4. \A i \in 1..m : i \in 1..Len(g) /\ i < m + 1 /\ g[i] < n
    BY <1>1, <1>2 DEF HasBefore, m
  <1>5. \A b \in 1..(n - 1) : \E i \in 1..m : g[i] = b
    BY <1>2 DEF HasBefore, m
  <1>6. ASSUME NEW i \in 1..Len(g), g[i] # 0
        PROVE  /\ \A j \in 1..Len(g) : j < i => g[j] < g[i]
               /\ \A b \in 1..(g[i] - 1) : \E j \in 1..Len(g) : j < i /\ g[j] = b
    <2>1. CASE i = m + 1
      BY <1>1, <1>2, <1>3, <1>4, <1>5, <2>1
    <2>2. CASE i \in 1..m
      <3>1. /\ \A j \in 1..m : j < i => f[j] < f[i]
            /\ \A b \in 1..(f[i] - 1) : \E j \in 1..m : j < i /\ f[j] = b
        BY <1>2, <1>6, <2>2 DEF Consecutive, m
      <3>2. \A j \in 1..Len(g) : j < i => j \in 1..m
        BY <1>1, <1>3, <2>2
      <3>. QED
        BY <1>2, <1>4, <2>2, <3>1, <3>2
    <2>. QED
      BY <1>3, <2>1, <2>2
  <1>7. Consecutive(g)
    BY <1>6 DEF Consecutive
  <1>8. \A i \in 1..Len(g) : g[i] < n + 1
    BY <1>1, <1>2, <1>3, <1>4
  <1>9. ASSUME NEW b \in 1..((n + 1) - 1) PROVE \E i \in 1..Len(g) : g[i] = b
    <2>1. CASE b = n
      <3>. m + 1 \in 1..Len(g) /\ g[m + 1] = b
        BY <1>1, <1>2, <2>1
      <3>. QED
        OBVIOUS
    <2>2. CASE b \in 1..(n - 1)
      BY <1>4, <1>5, <2>2
    <2>. QED
      BY <2>1, <2>2
  <1>10. HasBefore(g, n + 1)
    BY <1>8, <1>9 DEF HasBefore
  <1>. QED
    BY <1>7, <1>10 DEF g

(* ... or, when fwrite() fails, a part of it that will be written again. *)
LEMMA TornAppend ==
  ASSUME NEW f \in Seq(Nat), NEW n \in Nat \ {0}, Consecutive(f), HasBefore(f, n)
  PROVE  Consecutive(Append(f, 0)) /\ HasBefore(Append(f, 0), n)
  <1>. DEFINE g == Append(f, 0)
              m == Len(f)
  <1>1. m \in Nat /\ \A i \in 1..m : f[i] \in Nat
    BY LenProperties, ElementOfSeq
  <1>2. Len(g) = m + 1 /\ g[m + 1] = 0 /\ \A i \in 1..m : g[i] = f[i]
    BY AppendProperties
  <1>. HIDE DEF g, m
  <1>3. \A i \in 1..Len(g) : i = m + 1 \/ i \in 1..m
    BY <1>1, <1>2
  <1>4. \A i \in 1..m : i \in 1..Len(g) /\ i < m + 1
    BY <1>1, <1>2
  <1>5. ASSUME NEW i \in 1..Len(g), g[i] # 0
        PROVE  /\ \A j \in 1..Len(g) : j < i => g[j] < g[i]
               /\ \A b \in 1..(g[i] - 1) : \E j \in 1..Len(g) : j < i /\ g[j] = b
    <2>1. i \in 1..m
      BY <1>2, <1>3, <1>5
    <2>2. /\ \A j \in 1..m : j < i => f[j] < f[i]
          /\ \A b \in 1..(f[i] - 1) : \E j \in 1..m : j < i /\ f[j] = b
      BY <1>2, <1>5, <2>1 DEF Consecutive, m
    <2>3. \A j \in 1..Len(g) : j < i => j \in 1..m
      BY <1>1, <1>3, <2>1
    <2>. QED
      BY <1>2, <1>4, <2>1, <2>2, <2>3
  <1>6. Consecutive(g)
    BY <1>5 DEF Consecutive
  <1>7. \A i \in 1..Len(g) : g[i] < n
    BY <1>2, <1>3 DEF HasBefore, m
  <1>8. \A b \in 1..(n - 1) : \E i \in 1..Len(g) : g[i] = b
    BY <1>2, <1>4 DEF HasBefore, m
  <1>. QED
    BY <1>6, <1>7, <1>8 DEF HasBefore, g

LEMMA FileIsSeq ==
  ASSUME TypeOK
  PROVE  /\ r_file \in Seq(Nat) /\ Len(r_file) \in Nat /\ r_num \in Nat \ {0}
         /\ \A n : /\ Len(Append(r_file, n)) = Len(r_file) + 1
                   /\ Append(r_file, n)[Len(r_file) + 1] = n
                   /\ \A i \in 1..Len(r_file) : Append(r_file, n)[i] = r_file[i]
  <1>1. r_file \in Seq(0..(NBlocks + 1)) /\ r_num \in Nat \ {0} /\ NBlocks \in Nat
    BY LineAssumption DEF TypeOK, RTypeOK
  <1>. QED
    BY <1>1

LEMMA AppendedBlock ==
  ASSUME TypeOK, FileWritten, r_file' = Append(r_file, r_num), r_num' = r_num + 1
  PROVE  FileWritten'
  <1>1. BlocksWritten'
    BY FileIsSeq, ConsecutiveAppend DEF FileWritten, BlocksWritten, GoodBlocksInOrder
  <1>2. ASSUME ~DiskFaults PROVE Len(r_file') = r_num' - 1 /\ PrefixDelivered'
    <2>1. Len(r_file) = r_num - 1 /\ \A i \in 1..Len(r_file) : r_file[i] = i
      BY <1>2 DEF FileWritten, PrefixDelivered
    <2>. QED
      BY <2>1, FileIsSeq DEF PrefixDelivered
  <1>. QED
    BY <1>1, <1>2 DEF FileWritten

LEMMA AppendedTorn ==
  ASSUME TypeOK, FileWritten, DiskFaults, r_file' = Append(r_file, 0), r_num' = r_num
  PROVE  FileWritten'
  BY FileIsSeq, TornAppend DEF FileWritten, BlocksWritten, GoodBlocksInOrder

NoBlockWritten ==
  /\ UNCHANGED r_num
  /\ \/ UNCHANGED r_file
     \/ DiskFaults /\ r_file' = Append(r_file, 0)

(***************************************************************************)
(* A call that reads pieces, or none, writes no block to the file, and     *)
(* leaves in current_block what it held, the input added to it or nothing. *)
(***************************************************************************)
LEMMA ReceiverReads ==
  ASSUME TypeOK, Safe, UNCHANGED sVars, NoBlockWritten,
         \/ toR' = toR /\ cur' = cur
         \/ \E k : RRead(k) /\ cur' \in {cur, <<>>, cur \o Input(k)}
  PROVE  PiecesOK' /\ InOrder' /\ Window' /\ FileWritten'
  <1>. USE DEF Safe
  <1>1. Window' /\ FileWritten'
    <2>1. Window' /\ r_num' = r_num
      BY SenderUnchanged DEF Window, NoBlockWritten
    <2>2. CASE UNCHANGED r_file
      BY <2>1, <2>2 DEF FileWritten, BlocksWritten, GoodBlocksInOrder, PrefixDelivered
    <2>. QED
      BY <2>1, <2>2, AppendedTorn DEF NoBlockWritten
  <1>2. CASE toR' = toR /\ cur' = cur
    BY <1>1, <1>2, SenderUnchanged DEF PiecesOK, PieceOK, EotSent, InOrder, NoBlockWritten
  <1>3. ASSUME NEW k, RRead(k), cur' \in {cur, <<>>, cur \o Input(k)}
        PROVE  PiecesOK' /\ InOrder'
    <2>1. k \in 1..Len(toR) /\ Ordered(toR') /\ Len(toR') = Len(toR) - k
          /\ \A i \in 1..Len(toR') : toR'[i] = toR[i + k] /\ i + k \in 1..Len(toR)
                                     /\ i + k \in (k + 1)..Len(toR)
      BY <1>3, ReadRest, Lengths
    <2>2. Len(<<>>) = 0
      BY EmptySeq
    <2>3. \A i \in 1..Len(cur') :
            PieceOK(cur'[i]) /\ \A j \in 1..Len(toR') : cur'[i].b <= toR'[j].b
      <3>1. CASE cur' = cur
        BY <2>1, <3>1 DEF PiecesOK, InOrder
      <3>2. CASE cur' = <<>>
        BY <2>2, <3>2
      <3>3. CASE cur' = cur \o Input(k)
        BY <2>1, <3>3, CollectedOK
      <3>. QED
        BY <1>3, <3>1, <3>2, <3>3
    <2>4. InOrder'
      BY <2>1, <2>3 DEF InOrder
    <2>5. \A i \in 1..Len(toR') : PieceOK(toR'[i])
      BY <2>1 DEF PiecesOK
    <2>6. PiecesOK'
      BY <2>3, <2>5, SenderUnchanged DEF PiecesOK, PieceOK, EotSent, NoBlockWritten
    <2>. QED
      BY <2>4, <2>6
  <1>. QED
    BY <1>1, <1>2, <1>3

(***************************************************************************)
(* verify_block() accepts only the block that is expected: of the two that *)
(* can be on the line it is the one with the right sequence number.        *)
(***************************************************************************)
LEMMA AcceptedIsExpected ==
  ASSUME TypeInv, Safe, NEW k \in 1..Len(toR),
         VerifyBlock(r_flavor, r_num % SeqMod, cur \o Input(k))
  PROVE  /\ Content(r_flavor, cur \o Input(k)) = r_num
         /\ r_num <= s_blk
         /\ \A j \in (k + 1)..Len(toR) : r_num <= toR[j].b
  <1>. DEFINE c == cur \o Input(k)
  <1>1. Len(c) = Len(cur) + k /\ Len(cur) + k \in Nat /\ Len(cur) + k >= 1
        /\ \A i \in 1..(Len(cur) + k) :
             PieceOK(c[i]) /\ c[i] \in Pieces /\ \A j \in (k + 1)..Len(toR) : c[i].b <= toR[j].b
    <2>1. TypeOK
      BY DEF TypeInv
    <2>2. Len(cur) \in Nat /\ Len(toR) \in Nat
      BY <2>1, Lengths
    <2>3. Len(cur) + k \in Nat /\ Len(cur) + k >= 1
      BY <2>2
    <2>. QED
      BY <2>1, <2>3, CollectedOK
  <1>. HIDE DEF c
  <1>2. VerifyBlock(r_flavor, r_num % SeqMod, c)
    BY DEF c
  <1>3. PieceOK(c[1]) /\ c[1] \in Pieces /\ \A j \in (k + 1)..Len(toR) : c[1].b <= toR[j].b
    BY <1>1
  <1>4. c[1].b \in Nat /\ c[1].l \in Nat
    BY <1>3 DEF Pieces
  <1>5. c[1].l # 1
    BY <1>2, LineAssumption DEF VerifyBlock, IsSOH, IsSTX
  <1>6. c[1].b <= s_blk /\ c[1].b >= r_num - 1 /\ s_blk <= r_num /\ s_blk \in Nat
        /\ r_num \in Nat /\ r_num >= 1
    BY <1>3, <1>5, Lengths DEF PieceOK, Safe, Window, TypeInv
  <1>7. c[1].b % SeqMod = r_num % SeqMod
    BY <1>2 DEF VerifyBlock
  <1>8. c[1].b # r_num - 1
    <2>. SUFFICES ASSUME c[1].b = r_num - 1 PROVE FALSE
      OBVIOUS
    <2>1. c[1].b + 1 = r_num /\ SeqMod \in Nat /\ SeqMod >= 2
      BY <1>4, <1>6, LineAssumption
    <2>2. c[1].b % SeqMod # (c[1].b + 1) % SeqMod
      BY <1>4, <2>1, NextMod
    <2>. QED
      BY <1>7, <2>1, <2>2
  <1>9. c[1].b = r_num
    BY <1>4, <1>6, <1>8
  <1>10. \A i \in 1..VerifyLen(r_flavor, c) : c[i].x = "ok"
    <2>1. VerifyLen(r_flavor, c) \in Nat /\ Len(c) >= VerifyLen(r_flavor, c)
      BY <1>2, LineAssumption DEF VerifyBlock, Whole, VerifyLen
    <2>2. \A i \in 1..VerifyLen(r_flavor, c) : i \in 1..(Len(cur) + k)
      BY <1>1, <2>1
    <2>3. \A i \in 1..VerifyLen(r_flavor, c) :
            c[i].x \in Undetected(r_flavor) /\ PieceOK(c[i])
      BY <1>1, <1>2, <2>2 DEF VerifyBlock
    <2>. QED
      BY <2>3 DEF PieceOK, Undetected
  <1>11. Content(r_flavor, c) = r_num
    BY <1>9, <1>10 DEF Content
  <1>. QED
    BY <1>3, <1>6, <1>9, <1>11 DEF c

LEMMA AcceptSafe ==
  ASSUME TypeInv, Safe, NEW k, RAccept(k), UNCHANGED sVars
  PROVE  Safe' /\ r_file' = Append(r_file, r_num) /\ r_num <= NBlocks
  <1>. USE DEF TypeInv
  <1>1. RRead(k) /\ k \in 1..Len(toR) /\ r_xfer = "RUN" /\ ~IsG(r_flavor)
        /\ VerifyBlock(r_flavor, r_num % SeqMod, cur \o Input(k))
    BY DEF RAccept, RFilled, RRead, RReading, Safe, NoG
  <1>2. Content(r_flavor, cur \o Input(k)) = r_num /\ r_num <= s_blk
        /\ \A j \in (k + 1)..Len(toR) : r_num <= toR[j].b
    BY <1>1, AcceptedIsExpected
  <1>3. r_num' = r_num + 1 /\ cur' = <<>> /\ r_file' = Append(r_file, r_num)
        /\ RPut("ACK", r_num) /\ UNCHANGED <<r_flavor, r_xfer>>
    BY <1>1, <1>2 DEF RAccept
  <1>4. r_num \in Nat /\ r_num >= 1 /\ s_blk \in Nat /\ s_blk <= NBlocks /\ NBlocks \in Nat
        /\ s_blk <= r_num /\ r_num <= NBlocks
    BY <1>2, Lengths DEF Safe, Window
  <1>5. SPos # "EOT_ACK" /\ ~EotSent
    BY <1>4 DEF Safe, EndOK, EotSent
  <1>6. Window' /\ NoG'
    BY <1>2, <1>3, <1>4, SenderUnchanged DEF Window, NoG, Safe
  <1>7. FileWritten'
    BY <1>3, <1>4, AppendedBlock DEF Safe
  <1>8. PiecesOK' /\ InOrder'
    <2>1. Ordered(toR') /\ Len(toR') = Len(toR) - k
          /\ \A i \in 1..Len(toR') : toR'[i] = toR[i + k] /\ i + k \in 1..Len(toR)
                                     /\ i + k \in (k + 1)..Len(toR)
      BY <1>1, ReadRest, Lengths DEF Safe
    <2>2. Len(cur') = 0
      BY <1>3, EmptySeq
    <2>3. ASSUME NEW i \in 1..Len(toR') PROVE PieceOK(toR[i])'
      <3>1. PieceOK(toR[i + k]) /\ toR'[i] = toR[i + k] /\ r_num <= toR[i + k].b
            /\ toR[i + k].b \in Nat
        BY <1>2, <2>1, Elements DEF Safe, PiecesOK
      <3>. QED
        BY <1>3, <1>4, <1>5, <3>1, SenderUnchanged DEF PieceOK
    <2>. QED
      BY <2>1, <2>2, <2>3 DEF PiecesOK, InOrder
  <1>9. AcksOK'
    BY <1>1, <1>3, <1>4, <1>5, AckPut DEF Safe
  <1>10. EndOK'
    BY <1>1, <1>3, <1>5, SenderUnchanged DEF EndOK, Safe
  <1>. QED
    BY <1>3, <1>4, <1>6, <1>7, <1>8, <1>9, <1>10 DEF Safe

LEMMA EotSafe ==
  ASSUME TypeInv, Safe, REot, UNCHANGED sVars
  PROVE  Safe' /\ r_num = NBlocks + 1
  <1>. USE DEF TypeInv
  <1>1. RRead(1) /\ 1 \in 1..Len(toR) /\ AtEot(cur \o Input(1)) /\ r_xfer = "RUN"
        /\ cur' = <<>> /\ RPut("ACK", NBlocks + 1) /\ r_xfer' = "END"
        /\ UNCHANGED <<r_num, r_file, r_flavor>>
    BY DEF REot, RRead, RReading, RStop
  <1>. DEFINE c == cur \o Input(1)
  <1>2. Len(c) = Len(cur) + 1 /\ PieceOK(c[1]) /\ c[1] \in Pieces
    <2>1. Len(cur) \in Nat
      BY Lengths
    <2>2. 1 \in 1..(Len(cur) + 1)
      BY <2>1
    <2>3. /\ Len(c) = Len(cur) + 1
          /\ \A i \in 1..(Len(cur) + 1) : PieceOK(c[i]) /\ c[i] \in Pieces
      BY <1>1, CollectedOK
    <2>. QED
      BY <2>2, <2>3
  <1>. HIDE DEF c
  <1>3. c[1].l = 1
    BY <1>1 DEF AtEot, IsEOT, c
  <1>4. c[1].b = NBlocks + 1 /\ s_blk \in Nat /\ s_blk <= NBlocks /\ NBlocks \in Nat /\ r_num \in Nat
    BY <1>2, <1>3, Lengths DEF PieceOK
  <1>5. r_num = NBlocks + 1
    BY <1>2, <1>4 DEF PieceOK, EotSent
  <1>6. AcksOK'
    BY <1>1, <1>4, <1>5, AckPut DEF Safe
  <1>7. PiecesOK' /\ InOrder' /\ Window' /\ FileWritten'
    <2>1. NoBlockWritten
      BY <1>1 DEF NoBlockWritten
    <2>2. \E k : RRead(k) /\ cur' \in {cur, <<>>, cur \o Input(k)}
      BY <1>1
    <2>. QED
      BY <2>1, <2>2, ReceiverReads
  <1>8. EndOK' /\ NoG'
    BY <1>1, <1>5, SenderUnchanged DEF EndOK, NoG, Safe
  <1>. QED
    BY <1>5, <1>6, <1>7, <1>8 DEF Safe

(* The steps of the receiver that write no block to the file. *)
ReceiverSteady ==
  /\ NoBlockWritten
  /\ \/ toR' = toR /\ cur' = cur
     \/ \E k : RRead(k) /\ cur' \in {cur, <<>>, cur \o Input(k)}
  /\ toS' = toS \/ \E c \in Control \ {"ACK"} : RPut(c, 0)
  /\ r_xfer = "RUN" /\ r_xfer' # "END" /\ ~IsG(r_flavor')

LEMMA SteadySafe ==
  ASSUME TypeInv, Safe, ReceiverSteady, UNCHANGED sVars
  PROVE  Safe'
  <1>1. PiecesOK' /\ InOrder' /\ Window' /\ FileWritten'
    BY ReceiverReads DEF ReceiverSteady, TypeInv
  <1>2. AcksOK'
    BY NoAckPut DEF ReceiverSteady, NoBlockWritten, TypeInv, Safe
  <1>3. EndOK' /\ NoG'
    BY SenderUnchanged DEF EndOK, NoG, Safe, ReceiverSteady, NoBlockWritten
  <1>. QED
    BY <1>1, <1>2, <1>3 DEF Safe

LEMMA ReceiverSteps ==
  ASSUME SoundLine, TypeInv, Safe, ReceiverStep
  PROVE  REot \/ (\E k : RAccept(k)) \/ ReceiverSteady
  <1>. USE DEF TypeInv
  <1>a. ~IsG(r_flavor) /\ ~IsG("X_NORMAL")
        /\ {r_first, "NAK", "CAN"} \subseteq Control \ {"ACK"}
    BY DEF Safe, NoG, IsG, TypeOK, RTypeOK, Control
  <1>1. ASSUME NEW k, RBegin(k) PROVE ReceiverSteady
    BY <1>1, <1>a DEF RBegin, ReceiverSteady, NoBlockWritten
  <1>2. CASE RFirstTimeout
    BY <1>2, <1>a DEF RFirstTimeout, ReceiverSteady, NoBlockWritten
  <1>3. CASE RTimeout
    BY <1>3, <1>a DEF RTimeout, RStop, ReceiverSteady, NoBlockWritten
  <1>4. ASSUME NEW k, RTooMuch(k) \/ RPurge(k) PROVE ReceiverSteady
    BY <1>4, <1>a DEF RTooMuch, RPurge, RReading, rVars, ReceiverSteady, NoBlockWritten
  <1>5. ASSUME NEW k, RCollect(k) PROVE ReceiverSteady
    BY <1>5, <1>a DEF RCollect, RReading, ReceiverSteady, NoBlockWritten
  <1>6. ASSUME NEW k, RRefuse(k) PROVE ReceiverSteady
    BY <1>6, <1>a DEF RRefuse, RRefused, RFilled, RReading, RStop, ReceiverSteady, NoBlockWritten
  <1>7. ASSUME NEW k, RWriteError(k) PROVE ReceiverSteady
    BY <1>7, <1>a DEF RWriteError, RRefused, RFilled, RReading, RStop, ReceiverSteady, NoBlockWritten
  <1>9. ASSUME NEW k, RAssertFails(k) PROVE FALSE
    BY <1>9, <1>a DEF RAssertFails
  <1>8. CASE RNak
    BY <1>8, <1>a DEF RNak, ReceiverSteady, NoBlockWritten
  <1>. QED
    BY <1>1, <1>2, <1>3, <1>4, <1>5, <1>6, <1>7, <1>8, <1>9 DEF ReceiverStep, RHandle

LEMMA ReceiverSafe ==
  ASSUME SoundLine, TypeInv, Safe, ReceiverStep
  PROVE  Safe'
  <1>1. UNCHANGED sVars
    BY DEF ReceiverStep
  <1>. QED
    BY <1>1, ReceiverSteps, AcceptSafe, EotSafe, SteadySafe

-----------------------------------------------------------------------------
(* The faults of the line. *)

LEMMA FaultSafe ==
  ASSUME SoundLine, TypeInv, Safe, LineFault, UNCHANGED <<sVars, rVars>>
  PROVE  Safe'
  <1>. USE DEF TypeInv
  <1>a. NoG' /\ Window' /\ FileWritten' /\ EndOK'
    BY SenderUnchanged
    DEF Safe, NoG, Window, FileWritten, BlocksWritten, GoodBlocksInOrder, PrefixDelivered, EndOK, rVars
  <1>b. cur' = cur /\ r_num' = r_num /\ r_xfer' = r_xfer
    BY DEF rVars
  <1>1. CASE LosePieces
    <2>a. PICK i \in 1..Len(toR) : \E j \in i..Len(toR) :
            toR' = Without(toR, i, j) /\ toS' = toS
      BY <1>1 DEF LosePieces
    <2>1. PICK j \in i..Len(toR) : toR' = Without(toR, i, j) /\ toS' = toS
      BY <2>a
    <2>2. Ordered(toR')
      BY <2>1, Lengths, WithoutOrdered DEF Safe, InOrder
    <2>3. \A n \in 1..Len(toR') : \E m \in 1..Len(toR) : toR'[n] = toR[m]
      <3>1. Len(toR') = Len(toR) - (j - i + 1)
            /\ \A n \in 1..(Len(toR) - (j - i + 1)) :
                 toR'[n] = IF n < i THEN toR[n] ELSE toR[n + (j - i + 1)]
        BY <2>1, Lengths, WithoutProperties
      <3>2. \A n \in 1..Len(toR') :
              n \in 1..Len(toR) /\ (~(n < i) => n + (j - i + 1) \in 1..Len(toR))
        BY <3>1, Lengths
      <3>. QED
        BY <3>1, <3>2
    <2>. QED
      BY SMTT(30), <1>a, <1>b, <2>1, <2>2, <2>3, SenderUnchanged
      DEF Safe, PiecesOK, PieceOK, EotSent, InOrder, AcksOK, AckOK
  <1>2. CASE LoseControl
    <2>a. PICK i \in 1..Len(toS) : \E j \in i..Len(toS) :
            toS' = Without(toS, i, j) /\ toR' = toR
      BY <1>2 DEF LoseControl
    <2>1. PICK j \in i..Len(toS) : toS' = Without(toS, i, j) /\ toR' = toR
      BY <2>a
    <2>2. AcksOrdered(toS')
      BY <2>1, Lengths, WithoutAcksOrdered DEF Safe, AcksOK
    <2>3. \A n \in 1..Len(toS') : \E m \in 1..Len(toS) : toS'[n] = toS[m]
      <3>1. Len(toS') = Len(toS) - (j - i + 1)
            /\ \A n \in 1..(Len(toS) - (j - i + 1)) :
                 toS'[n] = IF n < i THEN toS[n] ELSE toS[n + (j - i + 1)]
        BY <2>1, Lengths, WithoutProperties
      <3>2. \A n \in 1..Len(toS') :
              n \in 1..Len(toS) /\ (~(n < i) => n + (j - i + 1) \in 1..Len(toS))
        BY <3>1, Lengths
      <3>. QED
        BY <3>1, <3>2
    <2>. QED
      BY <1>a, <1>b, <2>1, <2>2, <2>3, SenderUnchanged
      DEF Safe, PiecesOK, PieceOK, EotSent, InOrder, AcksOK, AckOK
  <1>3. CASE GarblePiece
    <2>1. PICK i \in 1..Len(toR) : \E x \in Damage(toR[i]) :
            toR' = [toR EXCEPT ![i] = [toR[i] EXCEPT !.x = x]]
      BY <1>3 DEF GarblePiece
    <2>2. PICK x \in Damage(toR[i]) : toR' = [toR EXCEPT ![i] = [toR[i] EXCEPT !.x = x]]
      BY <2>1
    <2>3. x # "one" /\ x \in Noise /\ toS' = toS /\ toR[i] \in Pieces
      BY <1>3, LineAssumption, Elements DEF Damage, SoundLine, Noise, GarblePiece
    <2>. DEFINE p == [toR[i] EXCEPT !.x = x]
    <2>4. p \in Pieces /\ p.b = toR[i].b /\ p.l = toR[i].l /\ p.x = x
      BY <2>3 DEF Pieces
    <2>. HIDE DEF p
    <2>5. Len(toR') = Len(toR)
          /\ \A j \in 1..Len(toR) : toR'[j] = IF j = i THEN p ELSE toR[j]
      BY <2>2, <2>4, Lengths, ExceptSeq DEF p
    <2>6. \A j \in 1..Len(toR') :
            /\ toR'[j].b = toR[j].b /\ toR'[j].l = toR[j].l
            /\ toR'[j].x # "one"
      BY <2>3, <2>4, <2>5 DEF Safe, PiecesOK, PieceOK
    <2>. QED
      BY <1>a, <1>b, <2>3, <2>5, <2>6, SenderUnchanged
      DEF Safe, PiecesOK, PieceOK, EotSent, InOrder, Ordered, AcksOK, AckOK
  <1>4. CASE GarbleControl
    <2>1. PICK i \in 1..Len(toS) : toS' = [toS EXCEPT ![i] = [toS[i] EXCEPT !.c = "noise"]]
      BY <1>4 DEF GarbleControl
    <2>. DEFINE e == [toS[i] EXCEPT !.c = "noise"]
    <2>2. e \in ControlBytes /\ e.c = "noise"
      BY Elements DEF ControlBytes, Control
    <2>. HIDE DEF e
    <2>3a. toS' = [toS EXCEPT ![i] = e] /\ toR' = toR
      BY <1>4, <2>1 DEF GarbleControl, e
    <2>3b. Len(toS') = Len(toS)
           /\ \A j \in 1..Len(toS) : toS'[j] = IF j = i THEN e ELSE toS[j]
      BY <2>2, <2>3a, Lengths, ExceptSeq
    <2>3. Len(toS') = Len(toS) /\ toR' = toR
          /\ \A j \in 1..Len(toS) : toS'[j] = IF j = i THEN e ELSE toS[j]
      BY <2>3a, <2>3b
    <2>4. \A j \in 1..Len(toS') : toS'[j].c = "ACK" => toS'[j] = toS[j]
      BY <2>2, <2>3
    <2>. QED
      BY <1>a, <1>b, <2>3, <2>4, SenderUnchanged
      DEF Safe, PiecesOK, PieceOK, EotSent, InOrder, AcksOK, AcksOrdered, AckOK
  <1>. QED
    BY <1>1, <1>2, <1>3, <1>4 DEF LineFault

-----------------------------------------------------------------------------
(* The theorems. *)

LEMMA SafeInit ==
  ASSUME SoundLine, Init
  PROVE  Safe
  <1>1. PICK p \in Setups : LineInit /\ SInit(p[1]) /\ RInit(p[2])
    BY DEF Init
  <1>2. ~IsG(p[1]) /\ ~IsG(p[2])
    BY DEF SoundLine
  <1>3. Len(<<>>) = 0
    BY EmptySeq
  <1>. QED
    BY <1>1, <1>2, <1>3
    DEF Safe, LineInit, SInit, RInit, NoG, Window, FileWritten, BlocksWritten, GoodBlocksInOrder, Consecutive, HasBefore,
        PrefixDelivered, PiecesOK, InOrder, Ordered, AcksOK, AcksOrdered, EndOK, SPos

LEMMA SafeStep ==
  ASSUME SoundLine, TypeInv, Safe, [Next]_vars
  PROVE  Safe'
  <1>1. CASE SenderStep
    BY <1>1, SenderSafe
  <1>2. CASE ReceiverStep
    BY <1>2, ReceiverSafe
  <1>3. CASE LineFault /\ UNCHANGED <<sVars, rVars>>
    BY <1>3, FaultSafe
  <1>4. CASE SUserAbort /\ UNCHANGED rVars
    BY <1>4 DEF SUserAbort, lineVars, rVars, Safe, NoG, Window, FileWritten, BlocksWritten, GoodBlocksInOrder, PrefixDelivered,
                PiecesOK, PieceOK, EotSent, InOrder, AcksOK, AckOK, EndOK, SPos
  <1>5. CASE RUserAbort /\ UNCHANGED sVars
    BY <1>5, SenderUnchanged
    DEF RUserAbort, lineVars, Safe, NoG, Window, FileWritten, BlocksWritten, GoodBlocksInOrder, PrefixDelivered,
        PiecesOK, PieceOK, EotSent, InOrder, AcksOK, AckOK, EndOK
  <1>6. CASE UNCHANGED vars
    BY <1>6, SenderUnchanged
    DEF vars, lineVars, rVars, Safe, NoG, Window, FileWritten, BlocksWritten, GoodBlocksInOrder, PrefixDelivered,
        PiecesOK, PieceOK, EotSent, InOrder, AcksOK, AckOK, EndOK
  <1>. QED
    BY <1>1, <1>2, <1>3, <1>4, <1>5, <1>6 DEF Next, Environment

(***************************************************************************)
(* The inductive invariant: what is on the line and in current_block       *)
(* belongs to one of two blocks, and each ACK answers a block of its own.  *)
(***************************************************************************)
THEOREM Invariance == ASSUME SoundLine PROVE Spec => []SafeInv
  <1>1. Init => TypeInv /\ Safe
    BY TypeInvInit, SafeInit
  <1>2. TypeInv /\ Safe /\ [Next]_vars => (TypeInv /\ Safe)'
    BY TypeInvStep, SafeStep
  <1>3. TypeInv /\ Safe => SafeInv
    BY DEF TypeInv, Safe, SafeInv
  <1>. QED
    BY <1>1, <1>2, <1>3, PTL DEF Spec

(***************************************************************************)
(* Whatever the line loses or damages, and however often blocks are sent   *)
(* again, verify_block() writes the blocks of the file in their order,     *)
(* each once: for files of any length, although the sequence numbers wrap. *)
(***************************************************************************)
THEOREM Delivery == ASSUME Reliable PROVE Spec => []PrefixDelivered
  <1>a. SoundLine /\ ~DiskFaults
    BY DEF Reliable
  <1>1. SafeInv => PrefixDelivered
    BY <1>a DEF SafeInv, FileWritten
  <1>2. Spec => []SafeInv
    BY <1>a, Invariance
  <1>. QED
    BY <1>1, <1>2, PTL

(***************************************************************************)
(* When fwrite() fails and a block is torn, the file still has the other   *)
(* blocks in their order, each once, and none is left out.                 *)
(***************************************************************************)
THEOREM GoodBlocks == ASSUME SoundLine PROVE Spec => []GoodBlocksInOrder
  <1>1. SafeInv => GoodBlocksInOrder
    BY DEF SafeInv, FileWritten, BlocksWritten
  <1>. QED
    BY <1>1, Invariance, PTL

(***************************************************************************)
(* stats_file_complete_ok() is called by the receiver only when the whole  *)
(* file is written, and by the sender only after the receiver.             *)
(***************************************************************************)
THEOREM Success == ASSUME Reliable PROVE Spec => []SuccessIsReal
  <1>a. SoundLine /\ ~DiskFaults
    BY DEF Reliable
  <1>1. SafeInv => SuccessIsReal
    BY <1>a, Lengths DEF SafeInv, SuccessIsReal, EndOK, FileWritten
  <1>2. Spec => []SafeInv
    BY <1>a, Invariance
  <1>. QED
    BY <1>1, <1>2, PTL

-----------------------------------------------------------------------------
(* The refinement. *)

LEMMA SenderEffect ==
  ASSUME TypeInv, SenderStep
  PROVE  /\ s_xfer = "RUN" /\ s_xfer' \in Xfer
         /\ UNCHANGED <<r_file, r_xfer>>
  BY DEF SenderStep, rVars, SHandle, SCancelled, SStart, SNotStarted, SBlockAcked,
         SStream, SBlockRefused, SPurge, SResend, SSendEot, SDone, SNotDone, STimeout,
         SNextBlock, SSendNext, SReadError, SRefused, SStop, sVars, Xfer

LEMMA RefinementStep ==
  ASSUME Reliable, TypeInv, Safe, [Next]_vars
  PROVE  [Abstract!ATNext]_(Abstract!fileVars)
  <1>. USE DEF Abstract!ATNext, Abstract!fileVars, Status
  <1>a. SoundLine /\ ~DiskFaults
    BY DEF Reliable
  <1>1. CASE SenderStep
    <2>1. s_xfer = "RUN" /\ s_xfer' \in Xfer /\ UNCHANGED <<r_file, r_xfer>>
      BY <1>1, SenderEffect
    <2>2. s_xfer' = "END" => r_xfer = "END"
      BY <1>1, <1>a, <2>1, SenderSafe DEF Safe, EndOK
    <2>. QED
      BY <2>1, <2>2 DEF Xfer, Abstract!SenderEnds, Abstract!SenderGivesUp
  <1>2. CASE ReceiverStep
    <2>1. UNCHANGED sVars
      BY <1>2 DEF ReceiverStep
    <2>a. Len(r_file) = r_num - 1 /\ r_num \in Nat /\ NBlocks \in Nat
      BY <1>a, LineAssumption DEF Safe, FileWritten, TypeInv, TypeOK, RTypeOK
    <2>2. CASE REot
      <3>1. r_num = NBlocks + 1
        BY <2>1, <2>2, EotSafe
      <3>2. r_xfer = "RUN" /\ r_xfer' = "END" /\ UNCHANGED <<r_file, s_xfer>>
        BY <2>1, <2>2 DEF REot, RReading, RStop, sVars
      <3>. QED
        BY <2>a, <3>1, <3>2 DEF Abstract!ReceiverEnds
    <2>3. ASSUME NEW k, RAccept(k) PROVE Abstract!Deliver
      <3>1. r_file' = Append(r_file, r_num) /\ r_num <= NBlocks
        BY <2>1, <2>3, AcceptSafe
      <3>2. r_xfer = "RUN" /\ UNCHANGED <<r_xfer, s_xfer>>
        BY <2>1, <2>3 DEF RAccept, RFilled, RReading, sVars
      <3>3. Len(r_file) + 1 = r_num /\ Len(r_file) < NBlocks
        BY <2>a, <3>1
      <3>. QED
        BY <3>1, <3>2, <3>3 DEF Abstract!Deliver
    <2>4. CASE ReceiverSteady
      <3>1. r_xfer' \in Xfer \cup {"CRASH"}
        BY TypeInvStep DEF TypeInv, TypeOK, RTypeOK
      <3>. QED
        BY <1>a, <2>1, <2>4, <3>1
        DEF ReceiverSteady, NoBlockWritten, sVars, Xfer, Abstract!ReceiverGivesUp
    <2>. QED
      BY <1>2, <1>a, <2>2, <2>3, <2>4, ReceiverSteps
  <1>3. CASE Environment
    BY <1>3 DEF Environment, SUserAbort, RUserAbort, sVars, rVars,
                Abstract!SenderGivesUp, Abstract!ReceiverGivesUp
  <1>4. CASE UNCHANGED vars
    BY <1>4 DEF vars, sVars, rVars
  <1>. QED
    BY <1>1, <1>2, <1>3, <1>4 DEF Next

(***************************************************************************)
(* A transfer of xmodem.c implements FileTransfer: every call of xmodem()  *)
(* is one of its steps, or invisible.                                      *)
(***************************************************************************)
THEOREM Refinement == ASSUME Reliable PROVE Spec => RefinesFileTransfer
  <1>a. SoundLine
    BY DEF Reliable
  <1>1. Init => Abstract!ATInit
    BY DEF Init, SInit, RInit, Abstract!ATInit, Status
  <1>2. Init => TypeInv /\ Safe
    BY <1>a, TypeInvInit, SafeInit
  <1>3. TypeInv /\ Safe /\ [Next]_vars => (TypeInv /\ Safe)'
    BY <1>a, TypeInvStep, SafeStep
  <1>4. TypeInv /\ Safe /\ [Next]_vars => [Abstract!ATNext]_(Abstract!fileVars)
    BY RefinementStep
  <1>. QED
    BY <1>1, <1>2, <1>3, <1>4, PTL DEF Spec, RefinesFileTransfer, Abstract!ATSpec
=============================================================================
