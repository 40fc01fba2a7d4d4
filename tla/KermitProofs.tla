---------------------------- MODULE KermitProofs ----------------------------
(***************************************************************************)
(* The types of a Kermit transfer, the rings of its windows, and that the  *)
(* sender always has a packet to send again when its timer expires: for    *)
(* every list of files, window, modulus, setup and noise.                  *)
(***************************************************************************)
EXTENDS Kermit, SequenceTheorems, WellFoundedInduction, TLAPS

(* A packet: an F packet is of a file of the list. *)
IsPacket(m) ==
  /\ m \in [t : {m.t}, q : Nat, k : {m.k}, f : 0..(NFiles + 1), a : {m.a}, c : {m.c}, x : {m.x}]
  /\ m.t = "F" => m.f <= NFiles

IsLine(l) == l \in Seq({l[i] : i \in 1..Len(l)}) /\ \A i \in 1..Len(l) : IsPacket(l[i])

IsWindow(w) ==
  /\ w \in Seq({w[i] : i \in 1..Len(w)})
  /\ \A i \in 1..Len(w) : w[i] \in [m : {w[i].m}, acked : BOOLEAN] /\ IsPacket(w[i].m)

(* The sender's record, its fields that matter and its packets *)
IsSender(q) ==
  /\ q \in [state : {q.state}, xfer : {"RUN", "END", "ABORT"},
            mode : {"new", "stream", "window", "plain"},
            seq : Nat, f : 1..(NFiles + 1), pos : {q.pos}, win : {q.win}, skip : {q.skip},
            skips : {q.skips}, timeouts : Nat, called : {q.called}, in : {q.in}, pkt : {q.pkt},
            out : {q.out}]
  /\ IsWindow(q.win) /\ IsPacket(q.in) /\ IsPacket(q.pkt) /\ IsLine(q.out)

(* There is a file to send, and nothing is negotiated before S is answered. *)
InFile(q) ==
  /\ q.state \in {"INIT", "S", "SF", "SA", "SDW", "SZ"} => q.f <= NFiles
  /\ q.state \in {"INIT", "S"} => q.mode = "new"

(* The output window: what is streamed counts as acknowledged. *)
WinLimit(q) == IF q.mode = "window" THEN Window ELSE 1

WinOK(q) == Len(q.win) <= WinLimit(q) /\ (SStreams(q) => Unacked(q.win) = {})

SenderOK(q) == IsSender(q) /\ InFile(q) /\ WinOK(q)

(* A packet in the input window *)
IsSlot(c) == c \in [q : Nat, acked : {c.acked}, t : {c.t}, f : {c.f}, a : {c.a}]

IsReceiver(q) ==
  /\ q \in [state : {q.state}, xfer : Ends, mode : {"new", "stream", "window"}, seq : Nat,
            f : 0..NFiles, open : 0..NFiles, slots : {q.slots}, begin : {q.begin}, i : {q.i},
            n : {q.n}, last : {q.last}, skip : {q.skip}, skips : {q.skips}, timeouts : Nat,
            called : {q.called}, text : {q.text}, got : {q.got}, done : SUBSET (1..NFiles),
            in : {q.in}, pkt : {q.pkt}, out : {q.out}]
  /\ IsPacket(q.last) /\ IsPacket(q.in) /\ IsPacket(q.pkt) /\ IsLine(q.out)
  /\ q.state \in {"INIT", "R"} => q.mode = "new"

(* The input window is a ring. *)
IsRing(q) ==
  /\ q.slots = [j \in 0..(Window - 1) |-> q.slots[j]] /\ \A j \in 0..(Window - 1) : IsSlot(q.slots[j])
  /\ q.begin \in 0..(RWindow(q) - 1) /\ q.n \in 0..RWindow(q) /\ q.i = Place(q, q.n)

ReceiverOK(q) == IsReceiver(q) /\ IsRing(q)

(* The inductive invariant *)
KInv ==
  /\ SenderOK(s) /\ s.in = None /\ s.pkt = None /\ s.out = <<>>
  /\ ReceiverOK(r) /\ r.in = None /\ r.pkt = None /\ r.out = <<>>
  /\ IsLine(toR) /\ IsLine(toS)

-----------------------------------------------------------------------------
(* Packets, lines and windows *)

(* The natural numbers are well-ordered. *)
LEMMA Minimum ==
  ASSUME NEW T, T \subseteq Nat, T # {}
  PROVE  Min(T) \in T /\ \A y \in T : Min(T) <= y
  <1>. DEFINE Less == {ss \in Nat \X Nat : ss[1] < ss[2]}
  <1>1. OpToRel(<, Nat) = Less
    BY Zenon DEF OpToRel
  <1>. HIDE DEF Less
  <1>2. \E x \in T : \A y \in T : ~ (<<y, x>> \in Less)
    BY <1>1, NatLessThanWellFounded, WFMin, Zenon
  <1>3. PICK x \in T : \A y \in T : ~ (<<y, x>> \in Less)
    BY <1>2
  <1>4. ASSUME NEW a \in Nat, NEW b \in Nat, a < b
        PROVE  <<a, b>> \in Less
    BY <1>4 DEF Less
  <1>5. ASSUME NEW y \in T
        PROVE  x <= y
    <2>1. x \in Nat /\ y \in Nat /\ ~(y < x)
      BY <1>3, <1>4
    <2>. QED
      BY <2>1
  <1>6. \E z \in T : \A y \in T : z <= y
    BY <1>5
  <1>. QED
    BY <1>6 DEF Min

LEMMA PacketType ==
  ASSUME NEW t, NEW q \in Nat, NEW k, NEW f \in 0..(NFiles + 1), NEW a, NEW c,
         t = "F" => f <= NFiles
  PROVE  IsPacket(Packet(t, q, k, f, a, c))
  BY DEF IsPacket, Packet

LEMMA NoneType == IsPacket(None) /\ None.t = "none"
  <1>1. 0 \in 0..(NFiles + 1) /\ 0 \in Nat
    BY KLineAssumption
  <1>2. None.t = "none"
    BY DEF None, Packet
  <1>. QED
    BY <1>1, <1>2, PacketType DEF None

LEMMA SpoiltType ==
  ASSUME NEW m, IsPacket(m), NEW x
  PROVE  IsPacket(Spoilt(m, x))
  BY DEF IsPacket, Spoilt

LEMMA LineSet ==
  ASSUME NEW S, \A m \in S : IsPacket(m), NEW l \in Seq(S)
  PROVE  IsLine(l)
  BY DEF IsLine

LEMMA LineElements ==
  ASSUME NEW l, IsLine(l)
  PROVE  \E S : l \in Seq(S) /\ \A m \in S : IsPacket(m)
  BY DEF IsLine

LEMMA EmptyLine == IsLine(<<>>)
  <1>1. <<>> \in Seq({}) /\ \A m \in {} : IsPacket(m)
    OBVIOUS
  <1>. QED
    BY <1>1, LineSet

LEMMA AppendLine ==
  ASSUME NEW l, IsLine(l), NEW m, IsPacket(m)
  PROVE  IsLine(Append(l, m))
  <1>1. PICK S : l \in Seq(S) /\ \A e \in S : IsPacket(e)
    BY LineElements
  <1>2. Append(l, m) \in Seq(S \cup {m})
    BY <1>1
  <1>. QED
    BY <1>1, <1>2, LineSet

LEMMA ConcatLine ==
  ASSUME NEW l, IsLine(l), NEW k, IsLine(k)
  PROVE  IsLine(l \o k)
  <1>1. PICK S : l \in Seq(S) /\ \A m \in S : IsPacket(m)
    BY LineElements
  <1>2. PICK T : k \in Seq(T) /\ \A m \in T : IsPacket(m)
    BY LineElements
  <1>3. l \in Seq(S \cup T) /\ k \in Seq(S \cup T)
    BY <1>1, <1>2
  <1>4. l \o k \in Seq(S \cup T)
    BY <1>3
  <1>. QED
    BY <1>1, <1>2, <1>4, LineSet

LEMMA HeadTailLine ==
  ASSUME NEW l, IsLine(l), l # <<>>
  PROVE  IsPacket(Head(l)) /\ IsLine(Tail(l)) /\ Head(l) = l[1]
  <1>1. PICK S : l \in Seq(S) /\ \A m \in S : IsPacket(m)
    BY LineElements
  <1>2. Tail(l) \in Seq(S) /\ Head(l) \in S /\ Head(l) = l[1]
    BY <1>1
  <1>. QED
    BY <1>1, <1>2, LineSet

LEMMA ExceptLine ==
  ASSUME NEW l, IsLine(l), NEW i \in 1..Len(l), NEW x
  PROVE  IsLine([l EXCEPT ![i] = Spoilt(@, x)])
  <1>1. PICK S : l \in Seq(S) /\ \A m \in S : IsPacket(m)
    BY LineElements
  <1>2. IsPacket(Spoilt(l[i], x))
    BY <1>1, SpoiltType
  <1>. DEFINE m == Spoilt(l[i], x)
  <1>. HIDE DEF m
  <1>3. [l EXCEPT ![i] = m] \in Seq(S \cup {m})
    <2>1. l \in Seq(S \cup {m})
      BY <1>1
    <2>. QED
      BY <2>1, ExceptSeq
  <1>4. IsLine([l EXCEPT ![i] = m])
    BY <1>1, <1>2, <1>3, LineSet DEF m
  <1>. QED
    BY <1>4 DEF m

(* What is left of a line when some of it is discarded *)
LEMMA TossedLine ==
  ASSUME NEW l, IsLine(l), NEW k \in Nat, NEW t \in Tossed(l, k)
  PROVE  IsLine(t)
  <1>1. PICK j \in k..Len(l) : t \in Rest(SubSeq(l, j + 1, Len(l)))
    BY DEF Tossed
  <1>. DEFINE u == SubSeq(l, j + 1, Len(l))
  <1>2. IsLine(u)
    <2>1. PICK S : l \in Seq(S) /\ \A m \in S : IsPacket(m)
      BY LineElements
    <2>2. u \in Seq(S)
      BY <1>1, <2>1
    <2>. HIDE DEF u
    <2>. QED
      BY <2>1, <2>2, LineSet
  <1>. HIDE DEF u
  <1>3. t \in Rest(u)
    BY <1>1 DEF u
  <1>4. CASE u = <<>> \/ t = u
    BY <1>2, <1>3, <1>4 DEF Rest
  <1>5. CASE u # <<>> /\ t # u
    <2>1. 1 \in 1..Len(u)
      BY <1>2, <1>5 DEF IsLine
    <2>2. t = [u EXCEPT ![1] = Spoilt(@, "noise")]
      BY <1>3, <1>5 DEF Rest
    <2>. QED
      BY <1>2, <2>1, <2>2, ExceptLine
  <1>. QED
    BY <1>4, <1>5

LEMMA AfterBadLine ==
  ASSUME NEW l, IsLine(l), NEW t \in AfterBad(l)
  PROVE  IsLine(t)
  <1>1. t \in Tossed(l, 1) \/ t \in Tossed(l, 2)
    BY DEF AfterBad
  <1>. QED
    BY <1>1, TossedLine

LEMMA WindowSet ==
  ASSUME NEW S, \A c \in S : c \in [m : {c.m}, acked : BOOLEAN] /\ IsPacket(c.m), NEW w \in Seq(S)
  PROVE  IsWindow(w)
  BY DEF IsWindow

LEMMA WindowElements ==
  ASSUME NEW w, IsWindow(w)
  PROVE  \E S : w \in Seq(S) /\ \A c \in S : c \in [m : {c.m}, acked : BOOLEAN] /\ IsPacket(c.m)
  BY DEF IsWindow

LEMMA EmptyWin == IsWindow(<<>>) /\ Unacked(<<>>) = {} /\ Len(<<>>) = 0
  <1>1. <<>> \in Seq({}) /\ Unacked(<<>>) = {} /\ Len(<<>>) = 0
    BY DEF Unacked
  <1>. QED
    BY <1>1, WindowSet

(* The packets that were not acknowledged *)
LEMMA UnackedIn ==
  ASSUME NEW w, IsWindow(w)
  PROVE  /\ Unacked(w) \subseteq 1..Len(w) /\ Len(w) \in Nat /\ Unacked(w) \subseteq Nat
         /\ Unacked(w) # {} => Min(Unacked(w)) \in 1..Len(w) /\ w # <<>>
         /\ Len(w) = 0 => w = <<>>
  <1>1. Unacked(w) \subseteq 1..Len(w) /\ Len(w) \in Nat /\ (Len(w) = 0 => w = <<>>)
    BY DEF Unacked, IsWindow
  <1>2. Unacked(w) # {} => Min(Unacked(w)) \in Unacked(w)
    BY <1>1, Minimum
  <1>. QED
    BY <1>1, <1>2

-----------------------------------------------------------------------------
(* The sender *)

LEMMA Sizes ==
  /\ NFiles \in Nat \ {0} /\ Window \in Nat /\ Window > 2 /\ SeqMod \in Nat \ {0}
  /\ \A x \in Nat : x % SeqMod \in Nat
  <1>1. SeqMod \in Nat \ {0}
    BY KLineAssumption
  <1>. QED
    BY <1>1, KLineAssumption

LEMMA SPacketType ==
  ASSUME NEW q, IsSender(q), NEW t, NEW k, NEW a, t = "F" => q.f <= NFiles
  PROVE  IsPacket(SPacket(q, t, k, a))
  <1>1. q.seq % SeqMod \in Nat /\ q.f \in 0..(NFiles + 1)
    BY Sizes DEF IsSender
  <1>. QED
    BY <1>1, PacketType DEF SPacket

(* The window and the mode stay. *)
SameWin(p, q) == p.win = q.win /\ p.mode = q.mode

LEMMA WinStays ==
  ASSUME NEW q, WinOK(q), NEW p, SameWin(p, q)
  PROVE  WinOK(p) /\ WinLimit(p) = WinLimit(q) /\ SStreams(p) = SStreams(q)
  BY DEF WinOK, WinLimit, SStreams, SameWin

LEMMA SErrorOK ==
  ASSUME NEW q, SenderOK(q)
  PROVE  /\ SenderOK(SAbort(q)) /\ SameWin(SAbort(q), q) /\ SAbort(q).state = "ABORT"
         /\ SenderOK(SError(q)) /\ SameWin(SError(q), q) /\ SError(q).state = "ABORT"
         /\ SAbort(q).in = q.in /\ SError(q).in = q.in
  <1>. DEFINE p == SAbort(q)
              m == SPacket(q, "E", "", 0)
              e == [p EXCEPT !.pkt = m]
  <1>1. IsSender(p) /\ SameWin(p, q) /\ p.state = "ABORT" /\ p.in = q.in
    BY DEF SenderOK, IsSender, SAbort, SameWin
  <1>2. IsPacket(m) /\ SError(q) = e
    BY SPacketType DEF SError, SenderOK
  <1>. HIDE DEF p, m
  <1>3. IsSender(e) /\ SameWin(e, q) /\ e.state = "ABORT" /\ e.in = q.in
    BY <1>1, <1>2 DEF IsSender, SameWin
  <1>. HIDE DEF e
  <1>4. InFile(p) /\ InFile(e) /\ WinOK(p) /\ WinOK(e)
    BY <1>1, <1>3, WinStays DEF SenderOK, InFile
  <1>. QED
    BY <1>1, <1>2, <1>3, <1>4 DEF SenderOK, p

LEMMA SDecodeOK ==
  ASSUME NEW q, SenderOK(q), NEW m, IsPacket(m)
  PROVE  SenderOK(SDecode(q, m))
  <1>1. ASSUME NEW p, SenderOK(p) PROVE SenderOK([p EXCEPT !.in = m])
    BY <1>1 DEF SenderOK, IsSender, InFile, WinOK, WinLimit, SStreams
  <1>. QED
    BY <1>1, SErrorOK DEF SDecode

(* check_for_repeat() *)
LEMMA SRepeatOK ==
  ASSUME NEW q, SenderOK(q)
  PROVE  SenderOK(SRepeat(q)) /\ (q.in = None => SRepeat(q) = q)
  <1>. DEFINE sl == {j \in DOMAIN q.win : q.win[j].m.q = q.in.q}
              i  == CHOOSE j \in sl : TRUE
              a  == Packet("ACK", q.seq % SeqMod, "", 0, 0, 0)
              w1 == [q EXCEPT !.win = <<>>, !.in = a]
              w2 == [q EXCEPT !.win[i].acked = TRUE]
              w3 == [q EXCEPT !.out = Append(@, q.win[i].m), !.in = None]
              w4 == [SError(q) EXCEPT !.in = None]
  <1>1. SRepeat(q) \in {q, w1, w4} \/ (sl # {} /\ SRepeat(q) \in {w2, w3})
    BY DEF SRepeat
  <1>2. q.in = None => SRepeat(q) = q
    BY DEF SRepeat
  <1>3. SenderOK(w1)
    <2>1. IsPacket(a)
      <3>1. q.seq % SeqMod \in Nat /\ 0 \in 0..(NFiles + 1)
        BY Sizes DEF SenderOK, IsSender
      <3>. QED
        BY <3>1, PacketType
    <2>. HIDE DEF a
    <2>. DEFINE v == <<>>
    <2>2. IsWindow(v) /\ Unacked(v) = {} /\ Len(v) = 0
      BY EmptyWin
    <2>3. w1 = [q EXCEPT !.win = v, !.in = a]
      OBVIOUS
    <2>. HIDE DEF v
    <2>4. IsSender(w1) /\ InFile(w1) /\ w1.win = v
      BY <2>1, <2>2, <2>3 DEF SenderOK, IsSender, InFile
    <2>. HIDE DEF w1
    <2>5. WinOK(w1)
      BY <2>2, <2>4, Sizes DEF WinOK, WinLimit
    <2>. QED
      BY <2>4, <2>5 DEF SenderOK
  <1>4. SenderOK(w4)
    <2>. DEFINE e == SError(q)
    <2>1. SenderOK(e)
      BY SErrorOK
    <2>. HIDE DEF e
    <2>2. SenderOK([e EXCEPT !.in = None])
      BY <2>1, NoneType DEF SenderOK, IsSender, InFile, WinOK, WinLimit, SStreams
    <2>. QED
      BY <2>2 DEF e
  <1>5. ASSUME sl # {} PROVE i \in 1..Len(q.win) /\ IsPacket(q.win[i].m)
    <2>1. i \in DOMAIN q.win
      BY <1>5
    <2>. HIDE DEF i
    <2>. QED
      BY <2>1 DEF SenderOK, IsSender, IsWindow
  <1>6. ASSUME sl # {} PROVE SenderOK(w3)
    <2>. DEFINE o == Append(q.out, q.win[i].m)
    <2>1. IsLine(o)
      BY <1>5, <1>6, AppendLine DEF SenderOK, IsSender
    <2>. HIDE DEF o
    <2>2. SenderOK([q EXCEPT !.out = o, !.in = None])
      BY <2>1, NoneType DEF SenderOK, IsSender, InFile, WinOK, WinLimit, SStreams
    <2>. QED
      BY <2>2 DEF o
  <1>7. ASSUME sl # {} PROVE SenderOK(w2)
    <2>1. i \in 1..Len(q.win)
      BY <1>5, <1>7
    <2>. HIDE DEF i
    <2>. DEFINE c == [q.win[i] EXCEPT !.acked = TRUE]
                v == [q.win EXCEPT ![i] = c]
    <2>2. PICK S : q.win \in Seq(S)
                   /\ \A e \in S : e \in [m : {e.m}, acked : BOOLEAN] /\ IsPacket(e.m)
      BY WindowElements DEF SenderOK, IsSender
    <2>3. c \in [m : {c.m}, acked : BOOLEAN] /\ IsPacket(c.m) /\ c.acked = TRUE
      <3>1. q.win[i] \in S
        BY <2>1, <2>2
      <3>. QED
        BY <2>2, <3>1
    <2>. HIDE DEF c
    <2>4. v \in Seq(S \cup {c}) /\ Len(v) = Len(q.win)
      <3>1. q.win \in Seq(S \cup {c})
        BY <2>2
      <3>. QED
        BY <2>1, <3>1, ExceptSeq
    <2>5. IsWindow(v)
      BY <2>2, <2>3, <2>4, WindowSet
    <2>6. Unacked(v) \subseteq Unacked(q.win)
      <3>1. DOMAIN v = DOMAIN q.win /\ \A j \in DOMAIN v : v[j] = IF j = i THEN c ELSE q.win[j]
        BY <2>2
      <3>. QED
        BY <2>3, <3>1 DEF Unacked
    <2>7. w2 = [q EXCEPT !.win = v]
      BY DEF SenderOK, IsSender, c
    <2>. HIDE DEF v
    <2>8. SenderOK([q EXCEPT !.win = v])
      BY <2>4, <2>5, <2>6 DEF SenderOK, IsSender, InFile, WinOK, WinLimit, SStreams
    <2>. QED
      BY <2>7, <2>8
  <1>. QED
    BY <1>1, <1>2, <1>3, <1>4, <1>6, <1>7

(* move_windows(): what is left starts with a packet not acknowledged. *)
LEMMA SMoveWindowsOK ==
  ASSUME NEW q, SenderOK(q)
  PROVE  LET p == SMoveWindows(q)
         IN  /\ SenderOK(p) /\ p.mode = q.mode /\ p.in = q.in /\ p.state = q.state
             /\ SStreams(p) => p.win = <<>>
             /\ p.win = <<>> \/ Unacked(q.win) # {}
             /\ p = [q EXCEPT !.win = p.win]
  <1>. DEFINE u == Unacked(q.win)
              v == IF u = {} THEN <<>> ELSE SubSeq(q.win, Min(u), Len(q.win))
              p == [q EXCEPT !.win = v]
  <1>1. SMoveWindows(q) = p
    BY DEF SMoveWindows
  <1>2. IsWindow(q.win)
    BY DEF SenderOK, IsSender
  <1>3. IsWindow(v) /\ Len(v) <= Len(q.win) /\ (u = {} => v = <<>>) /\ Len(q.win) \in Nat
    <2>1. CASE u = {}
      BY <1>2, <2>1, EmptyWin, UnackedIn
    <2>2. CASE u # {}
      <3>1. Min(u) \in 1..Len(q.win) /\ Len(q.win) \in Nat
        BY <1>2, <2>2, UnackedIn
      <3>2. PICK S : q.win \in Seq(S)
                     /\ \A e \in S : e \in [m : {e.m}, acked : BOOLEAN] /\ IsPacket(e.m)
        BY <1>2, WindowElements
      <3>. HIDE DEF u
      <3>3. v \in Seq(S) /\ Len(v) <= Len(q.win)
        BY <2>2, <3>1, <3>2
      <3>. HIDE DEF v
      <3>. QED
        BY <2>2, <3>1, <3>2, <3>3, WindowSet
    <2>. QED
      BY <2>1, <2>2
  <1>. HIDE DEF v
  <1>4. IsSender(p) /\ InFile(p) /\ p.mode = q.mode /\ p.in = q.in /\ p.state = q.state
        /\ p.win = v
    BY <1>3 DEF SenderOK, IsSender, InFile
  <1>. HIDE DEF p
  <1>5. SStreams(p) => v = <<>>
    BY <1>3, <1>4 DEF SenderOK, WinOK, SStreams
  <1>6. WinOK(p)
    <2>1. WinLimit(p) = WinLimit(q) /\ WinLimit(q) \in Nat
      BY <1>4, Sizes DEF WinLimit
    <2>2. Len(q.win) <= WinLimit(q) /\ Len(v) \in Nat
      BY <1>3, UnackedIn DEF SenderOK, WinOK
    <2>3. Len(v) <= WinLimit(p)
      BY <1>3, <2>1, <2>2
    <2>. QED
      BY <1>4, <1>5, <2>3, EmptyWin DEF WinOK
  <1>7. p = [q EXCEPT !.win = p.win]
    BY <1>4 DEF p
  <1>. QED
    BY <1>1, <1>3, <1>4, <1>5, <1>6, <1>7 DEF SenderOK

(***************************************************************************)
(* There is room in the window for what the handler sends; when streaming  *)
(* it is empty.                                                            *)
(***************************************************************************)
Sendable(q) ==
  SenderOK(q) /\ Len(q.win) < WinLimit(q) /\ (SStreams(q) => q.win = <<>>)

LEMMA SendableStays ==
  ASSUME NEW q, Sendable(q), NEW p, IsSender(p), InFile(p), SameWin(p, q)
  PROVE  Sendable(p)
  BY WinStays DEF Sendable, SenderOK, SameWin

(* send_S() *)
LEMMA SendSOK ==
  ASSUME NEW q, Sendable(q), q.state \in {"INIT", "S"}
  PROVE  Sendable(SendInit(q)) /\ Sendable(SendS(q))
  <1>. DEFINE mo == IF q.in.k = "parms" THEN Negotiated ELSE "plain"
              v  == q.seq + 1
              p  == [q EXCEPT !.seq = v, !.mode = mo]
              m  == SPacket(p, "F", "", 0)
              f  == [p EXCEPT !.state = "SF", !.pkt = m]
  <1>1. /\ IsSender(q) /\ InFile(q) /\ WinOK(q) /\ Len(q.win) < 1 /\ Len(q.win) \in Nat
        /\ SStreams(q) => q.win = <<>>
    <2>1. IsSender(q) /\ InFile(q) /\ WinOK(q) /\ (SStreams(q) => q.win = <<>>)
          /\ Len(q.win) < WinLimit(q)
      BY DEF Sendable, SenderOK
    <2>2. q.mode = "new" /\ Len(q.win) \in Nat
      BY <2>1, UnackedIn DEF InFile, IsSender
    <2>. QED
      BY <2>1, <2>2 DEF WinLimit
  <1>2. q.mode = "new" /\ q.f <= NFiles
    BY <1>1 DEF InFile
  <1>3. Sendable(SendInit(q))
    <2>. DEFINE i == [q EXCEPT !.state = "S", !.seq = 0, !.pkt = SInitPacket]
    <2>1. IsPacket(SInitPacket)
      <3>1. 0 \in Nat /\ 0 \in 0..(NFiles + 1)
        BY Sizes
      <3>. QED
        BY <3>1, PacketType DEF SInitPacket
    <2>2. IsSender(i) /\ InFile(i) /\ SameWin(i, q)
      BY <1>1, <1>2, <2>1 DEF IsSender, InFile, SameWin
    <2>. HIDE DEF i
    <2>3. Sendable(i)
      BY <2>2, SendableStays
    <2>. QED
      BY <2>3 DEF SendInit, i
  <1>4. mo \in {"stream", "window", "plain"} /\ (mo = "stream" => opt.ss) /\ v \in Nat
    BY <1>1 DEF Negotiated, IsSender
  <1>. HIDE DEF mo, v
  <1>5. IsSender(p) /\ p.f = q.f /\ p.win = q.win /\ p.mode = mo
    BY <1>1, <1>4 DEF IsSender
  <1>. HIDE DEF p
  <1>6. IsPacket(m)
    BY <1>2, <1>5, SPacketType
  <1>. HIDE DEF m
  <1>7. IsSender(f) /\ f.win = q.win /\ f.mode = mo /\ f.state = "SF" /\ f.f = q.f
    BY <1>5, <1>6 DEF IsSender
  <1>. HIDE DEF f
  <1>8. Sendable(f)
    <2>1. SStreams(f) => f.win = <<>>
      BY <1>1, <1>2, <1>4, <1>7 DEF SStreams
    <2>2. Len(f.win) < WinLimit(f)
      BY <1>1, <1>7, Sizes DEF WinLimit
    <2>3. Len(f.win) <= WinLimit(f)
      BY <1>1, <1>7, Sizes DEF WinLimit
    <2>. QED
      BY <1>2, <1>7, <2>1, <2>2, <2>3, EmptyWin DEF Sendable, SenderOK, InFile, WinOK
  <1>9. q.in.t = "ACK" => SendS(q) = f
    <2>1. q.in.t = "ACK" => q.in # None /\ q.in.t # "NAK"
      BY NoneType
    <2>. QED
      BY <2>1 DEF SendS, SendFileHeader, f, m, p, v, mo
  <1>10. Sendable(SError(q))
    BY SErrorOK, SendableStays DEF Sendable, SenderOK
  <1>11. q.in.t # "ACK" => SendS(q) \in {q, SendInit(q), SError(q)}
    BY DEF SendS
  <1>. QED
    BY <1>3, <1>8, <1>9, <1>10, <1>11

(* The next sequence number *)
LEMMA NextSeq ==
  ASSUME NEW q, Sendable(q), NEW p, p = [q EXCEPT !.seq = @ + 1]
  PROVE  /\ IsSender(p) /\ SameWin(p, q) /\ p.f = q.f /\ p.pos = q.pos /\ p.state = q.state
         /\ p.skip = q.skip
  <1>. DEFINE v == q.seq + 1
  <1>1. IsSender(q) /\ v \in Nat /\ p = [q EXCEPT !.seq = v]
    BY DEF Sendable, SenderOK, IsSender
  <1>. HIDE DEF v
  <1>. QED
    BY <1>1 DEF IsSender, SameWin

(* send_SF() *)
LEMMA SendSFOK ==
  ASSUME NEW q, Sendable(q), q.state = "SF"
  PROVE  Sendable(SendSF(q))
  <1>. DEFINE n == [q EXCEPT !.seq = @ + 1]
              p == [q EXCEPT !.state = "SA", !.seq = @ + 1]
              m == SPacket(p, "A", "", 0)
              g == [p EXCEPT !.pkt = m]
  <1>1. q.f <= NFiles /\ IsSender(q)
    BY DEF Sendable, SenderOK, InFile
  <1>2. IsSender(n) /\ SameWin(n, q) /\ n.f = q.f /\ p = [n EXCEPT !.state = "SA"]
    BY <1>1, NextSeq DEF IsSender
  <1>. HIDE DEF n
  <1>3. SendSF(q) \in {q, g, SError(q)}
    BY DEF SendSF
  <1>. HIDE DEF p
  <1>4. IsSender(p) /\ SameWin(p, q) /\ p.f = q.f /\ p.state = "SA"
    BY <1>2 DEF IsSender, SameWin
  <1>5. IsPacket(m)
    BY <1>1, <1>4, SPacketType
  <1>. HIDE DEF m
  <1>6. IsSender(g) /\ InFile(g) /\ SameWin(g, q)
    BY <1>1, <1>4, <1>5 DEF IsSender, InFile, SameWin
  <1>. HIDE DEF g
  <1>7. Sendable(g) /\ Sendable(SError(q))
    BY <1>6, SErrorOK, SendableStays DEF Sendable, SenderOK
  <1>. QED
    BY <1>3, <1>7

(* send_SD_next_packet() *)
LEMMA SendNextOK ==
  ASSUME NEW q, Sendable(q), q.state = "SDW"
  PROVE  Sendable(SendNext(q))
  <1>. DEFINE p == [q EXCEPT !.seq = @ + 1]
              y == SPacket(p, "Z", IF q.skip THEN "D" ELSE "", 0)
              z == [p EXCEPT !.pkt = y, !.skip = FALSE, !.state = "SZ"]
              e == SPacket(p, "D", "", q.pos + 1)
              d == [p EXCEPT !.pkt = e, !.pos = @ + 1]
  <1>1. q.f <= NFiles /\ SendNext(q) \in {z, d}
    BY DEF Sendable, SenderOK, InFile, SendNext
  <1>2. IsSender(p) /\ SameWin(p, q) /\ p.f = q.f /\ p.state = "SDW"
    BY NextSeq
  <1>. HIDE DEF p
  <1>3. IsPacket(y) /\ IsPacket(e)
    BY <1>2, SPacketType
  <1>. HIDE DEF y, e
  <1>4. IsSender(z) /\ InFile(z) /\ SameWin(z, q)
    BY <1>1, <1>2, <1>3 DEF IsSender, InFile, SameWin
  <1>5. IsSender(d) /\ InFile(d) /\ SameWin(d, q)
    <2>. DEFINE v == p.pos + 1
    <2>1. d = [p EXCEPT !.pkt = e, !.pos = v]
      BY <1>2 DEF IsSender
    <2>. HIDE DEF v, d
    <2>. QED
      BY <1>1, <1>2, <1>3, <2>1 DEF IsSender, InFile, SameWin
  <1>. HIDE DEF z, d
  <1>. QED
    BY <1>1, <1>4, <1>5, SendableStays

(* send_SA() and send_SDW() *)
LEMMA SendSDWOK ==
  ASSUME NEW q, Sendable(q)
  PROVE  /\ q.state = "SA" => Sendable(SendSA(q))
         /\ q.state = "SDW" => Sendable(SendSDW(q))
  <1>1. IsSender(q) /\ InFile(q)
    BY DEF Sendable, SenderOK
  <1>2. Sendable(SError(q))
    BY SErrorOK, SendableStays DEF Sendable, SenderOK
  <1>3. ASSUME q.state = "SA" PROVE Sendable(SendSA(q))
    <2>. DEFINE pos == IF q.in.k = "pos" THEN q.in.a ELSE q.pos
                p   == [q EXCEPT !.state = "SDW", !.pos = pos]
    <2>1. SendSA(q) \in {q, SendNext(p), SError(q)}
      BY <1>1 DEF SendSA, IsSender
    <2>. HIDE DEF pos
    <2>2. IsSender(p) /\ InFile(p) /\ SameWin(p, q) /\ p.state = "SDW"
      BY <1>1, <1>3 DEF IsSender, InFile, SameWin
    <2>. HIDE DEF p
    <2>3. Sendable(SendNext(p))
      BY <2>2, SendableStays, SendNextOK
    <2>. QED
      BY <1>2, <2>1, <2>3
  <1>4. ASSUME q.state = "SDW" PROVE Sendable(SendSDW(q))
    <2>. DEFINE sk == q.skip \/ q.in.k = "X"
                p  == [q EXCEPT !.skip = sk]
    <2>1. SendSDW(q) \in {SendNext(q), SendNext(p), SError(q)}
      BY <1>1 DEF SendSDW, IsSender
    <2>. HIDE DEF sk
    <2>2. IsSender(p) /\ InFile(p) /\ SameWin(p, q) /\ p.state = "SDW"
      BY <1>1, <1>4 DEF IsSender, InFile, SameWin
    <2>. HIDE DEF p
    <2>3. Sendable(SendNext(p)) /\ Sendable(SendNext(q))
      BY <1>4, <2>2, SendableStays, SendNextOK
    <2>. QED
      BY <1>2, <2>1, <2>3
  <1>. QED
    BY <1>3, <1>4

(* setup_for_next_file() *)
LEMMA SendSZOK ==
  ASSUME NEW q, Sendable(q), q.state = "SZ"
  PROVE  Sendable(SendSZ(q))
  <1>. DEFINE f == q.f + 1
              n == [q EXCEPT !.seq = @ + 1]
              p == [q EXCEPT !.seq = @ + 1, !.f = @ + 1]
              y == [p EXCEPT !.pos = 0]
              m == SPacket(y, "F", "", 0)
              z == [y EXCEPT !.state = "SF", !.pkt = m]
              e == SPacket(p, "B", "", 0)
              b == [p EXCEPT !.state = "SB", !.pkt = e]
  <1>1. q.f \in 1..(NFiles + 1) /\ q.f <= NFiles /\ IsSender(q)
    BY DEF Sendable, SenderOK, InFile, IsSender
  <1>2. f \in 1..(NFiles + 1)
    BY <1>1, Sizes
  <1>3. SetupForNextFile(q) = IF f <= NFiles THEN z ELSE b
    BY <1>1 DEF SetupForNextFile, SendFileHeader, IsSender
  <1>4. p = [n EXCEPT !.f = f]
    BY <1>1 DEF IsSender
  <1>5. IsSender(n) /\ SameWin(n, q)
    BY NextSeq
  <1>. HIDE DEF n, p, f
  <1>6. IsSender(p) /\ SameWin(p, q) /\ p.f = f
    BY <1>2, <1>4, <1>5 DEF IsSender, SameWin
  <1>7. IsSender(y) /\ SameWin(y, q) /\ y.f = f
    BY <1>6 DEF IsSender, SameWin
  <1>. HIDE DEF y
  <1>8. IsPacket(e) /\ (f <= NFiles => IsPacket(m))
    BY <1>6, <1>7, SPacketType
  <1>. HIDE DEF e, m
  <1>9. IsSender(b) /\ InFile(b) /\ SameWin(b, q)
    BY <1>6, <1>8 DEF IsSender, InFile, SameWin
  <1>10. f <= NFiles => IsSender(z) /\ InFile(z) /\ SameWin(z, q)
    BY <1>7, <1>8 DEF IsSender, InFile, SameWin
  <1>. HIDE DEF b, z
  <1>11. Sendable(SetupForNextFile(q)) /\ Sendable(SError(q))
    BY <1>3, <1>9, <1>10, SErrorOK, SendableStays DEF Sendable, SenderOK
  <1>12. SendSZ(q) \in {q, SetupForNextFile(q), SError(q)}
    BY DEF SendSZ
  <1>. QED
    BY <1>11, <1>12

LEMMA SendSBOK ==
  ASSUME NEW q, Sendable(q), q.state = "SB"
  PROVE  Sendable(SendSB(q))
  <1>. DEFINE p == [q EXCEPT !.state = "COMPLETE", !.xfer = "END"]
  <1>1. IsSender(p) /\ InFile(p) /\ SameWin(p, q)
    BY DEF Sendable, SenderOK, IsSender, InFile, SameWin
  <1>2. SendSB(q) \in {q, p, SError(q)}
    BY DEF SendSB
  <1>. HIDE DEF p
  <1>3. Sendable(p) /\ Sendable(SError(q))
    BY <1>1, SErrorOK, SendableStays DEF Sendable, SenderOK
  <1>. QED
    BY <1>2, <1>3

(* kermit_send() *)
LEMMA KermitSendOK ==
  ASSUME NEW q, Sendable(q)
  PROVE  Sendable(KermitSend(q))
  <1>1. CASE q.state = "INIT"
    BY <1>1, SendSOK DEF KermitSend
  <1>2. CASE q.state = "S"
    BY <1>2, SendSOK DEF KermitSend
  <1>3. CASE q.state = "SF"
    BY <1>3, SendSFOK DEF KermitSend
  <1>4. CASE q.state = "SA"
    BY <1>4, SendSDWOK DEF KermitSend
  <1>5. CASE q.state = "SDW"
    BY <1>5, SendSDWOK DEF KermitSend
  <1>6. CASE q.state = "SZ"
    BY <1>6, SendSZOK DEF KermitSend
  <1>7. CASE q.state = "SB"
    BY <1>7, SendSBOK DEF KermitSend
  <1>8. CASE q.state \notin {"INIT", "S", "SF", "SA", "SDW", "SZ", "SB"}
    BY <1>8 DEF KermitSend
  <1>. QED
    BY <1>1, <1>2, <1>3, <1>4, <1>5, <1>6, <1>7, <1>8

(* encode_output_packet() *)
LEMMA SEncodeOK ==
  ASSUME NEW q, Sendable(q)
  PROVE  SenderOK(SEncode(q))
  <1>1. CASE q.pkt = None
    BY <1>1 DEF SEncode, Sendable
  <1>2. CASE q.pkt # None
    <2>1. IsSender(q) /\ InFile(q) /\ WinOK(q) /\ Len(q.win) < WinLimit(q) /\ IsWindow(q.win)
      BY DEF Sendable, SenderOK, IsSender
    <2>2. PICK S : q.win \in Seq(S)
                   /\ \A e \in S : e \in [m : {e.m}, acked : BOOLEAN] /\ IsPacket(e.m)
      BY <2>1, WindowElements
    <2>. DEFINE o == Append(q.out, q.pkt)
                c == [m |-> q.pkt, acked |-> TRUE]
                d == [m |-> q.pkt, acked |-> FALSE]
                v == IF SStreams(q) THEN <<c>> ELSE Append(q.win, d)
                p == [q EXCEPT !.out = o, !.pkt = None, !.win = v]
    <2>3. SEncode(q) = p
      BY <1>2, <2>1 DEF SEncode, IsSender
    <2>4. IsLine(o)
      BY <2>1, AppendLine DEF IsSender
    <2>5. IsPacket(q.pkt) /\ c.m = q.pkt /\ d.m = q.pkt /\ c.acked = TRUE
          /\ c \in [m : {c.m}, acked : BOOLEAN] /\ d \in [m : {d.m}, acked : BOOLEAN]
      BY <2>1 DEF IsSender
    <2>. HIDE DEF c, d
    <2>6. CASE SStreams(q)
      <3>1. v = <<c>> /\ v \in Seq({c}) /\ Len(v) = 1 /\ DOMAIN v = {1} /\ v[1] = c
        BY <2>6
      <3>2. IsWindow(v)
        BY <2>5, <3>1, WindowSet
      <3>3. Unacked(v) = {}
        BY <2>5, <3>1 DEF Unacked
      <3>. HIDE DEF v, o
      <3>4. IsSender(p) /\ InFile(p) /\ p.mode = q.mode /\ p.win = v
        BY <2>1, <2>4, <3>2, NoneType DEF IsSender, InFile
      <3>. HIDE DEF p
      <3>5. WinOK(p)
        BY <3>1, <3>3, <3>4, Sizes DEF WinOK, WinLimit
      <3>. QED
        BY <2>3, <3>4, <3>5 DEF SenderOK
    <2>7. CASE ~SStreams(q)
      <3>1. v = Append(q.win, d)
        BY <2>7
      <3>2. v \in Seq(S \cup {d}) /\ Len(v) = Len(q.win) + 1 /\ Len(q.win) \in Nat
        BY <2>2, <3>1
      <3>3. IsWindow(v)
        BY <2>2, <2>5, <3>2, WindowSet
      <3>. HIDE DEF v, o
      <3>4. IsSender(p) /\ InFile(p) /\ p.mode = q.mode /\ p.win = v
        BY <2>1, <2>4, <3>3, NoneType DEF IsSender, InFile
      <3>. HIDE DEF p
      <3>5. WinLimit(p) = WinLimit(q) /\ WinLimit(q) \in Nat /\ ~SStreams(p)
        BY <2>7, <3>4, Sizes DEF WinLimit, SStreams
      <3>6. Len(p.win) <= WinLimit(p)
        BY <2>1, <3>2, <3>4, <3>5
      <3>. QED
        BY <2>3, <3>4, <3>5, <3>6 DEF SenderOK, WinOK
    <2>. QED
      BY <2>6, <2>7
  <1>. QED
    BY <1>1, <1>2

(* A round of the loop of kermit() *)
LEMMA SRoundIs ==
  ASSUME NEW q
  PROVE  LET p == SMoveWindows(SRepeat(q))
         IN  SRound(q) = IF SFull(p) THEN p ELSE SEncode(KermitSend(p))
  BY DEF SRound, Thru

LEMMA SRoundOK ==
  ASSUME NEW q, SenderOK(q)
  PROVE  SenderOK(SRound(q))
  <1>. DEFINE b == SRepeat(q)
              p == SMoveWindows(b)
  <1>1. SenderOK(b)
    BY SRepeatOK
  <1>. HIDE DEF b
  <1>2. SenderOK(p) /\ (SStreams(p) => p.win = <<>>)
    BY <1>1, SMoveWindowsOK
  <1>3. SRound(q) = IF SFull(p) THEN p ELSE SEncode(KermitSend(p))
    BY SRoundIs DEF b
  <1>. HIDE DEF p
  <1>4. ASSUME ~SFull(p) PROVE Sendable(p)
    <2>1. Len(p.win) \in Nat /\ WinLimit(p) \in Nat /\ Len(p.win) <= WinLimit(p)
          /\ WinLimit(p) > 0
      BY <1>2, UnackedIn, Sizes DEF SenderOK, IsSender, WinOK, WinLimit
    <2>2. CASE SStreams(p)
      BY <1>2, <2>1, <2>2, EmptyWin DEF Sendable
    <2>3. CASE ~SStreams(p)
      <3>1. Len(p.win) # WinLimit(p)
        BY <1>4, <2>3 DEF SFull, WinLimit
      <3>. QED
        BY <1>2, <2>1, <2>3, <3>1 DEF Sendable
    <2>. QED
      BY <2>2, <2>3
  <1>5. ~SFull(p) => SenderOK(SEncode(KermitSend(p)))
    BY <1>4, KermitSendOK, SEncodeOK
  <1>. QED
    BY <1>2, <1>3, <1>5

LEMMA SDoneOK ==
  ASSUME NEW q, SenderOK(q)
  PROVE  /\ SenderOK(SDone(q)) /\ IsLine(q.out)
         /\ SDone(q).in = None /\ SDone(q).pkt = None /\ SDone(q).out = <<>>
  <1>. DEFINE o == <<>>
              p == [q EXCEPT !.in = None, !.pkt = None, !.out = o]
  <1>1. IsLine(o) /\ IsPacket(None) /\ SDone(q) = p /\ o = <<>>
    BY EmptyLine, NoneType DEF SDone
  <1>. HIDE DEF o
  <1>2. IsSender(p) /\ InFile(p) /\ SameWin(p, q) /\ p.in = None /\ p.pkt = None /\ p.out = o
    BY <1>1 DEF SenderOK, IsSender, InFile, SameWin
  <1>. HIDE DEF p
  <1>3. WinOK(p) /\ IsLine(q.out)
    BY <1>2, WinStays DEF SenderOK, IsSender
  <1>. QED
    BY <1>1, <1>2, <1>3 DEF SenderOK

(* Without input all but send_SDW() wait. *)
LEMMA NoInput ==
  ASSUME NEW q, q.in = None
  PROVE  /\ SendS(q) = q /\ SendSF(q) = q /\ SendSA(q) = q /\ SendSZ(q) = q /\ SendSB(q) = q
         /\ SendSDW(q) = SendNext(q)
  <1>1. q.in.t # "ACK" /\ q.in.t # "NAK"
    BY NoneType
  <1>. QED
    BY <1>1 DEF SendS, SendSF, SendSA, SendSZ, SendSB, SendSDW

(***************************************************************************)
(* A round without input that changes nothing leaves no window of which    *)
(* all is acknowledged.                                                    *)
(***************************************************************************)
LEMMA RestingWindow ==
  ASSUME SenderOK(s), s.in = None, s.pkt = None, SResting
  PROVE  s.win = <<>> \/ Unacked(s.win) # {}
  <1>. DEFINE p == SMoveWindows(s)
              g == KermitSend(p)
  <1>1. SUFFICES ASSUME s.win # <<>>, Unacked(s.win) = {} PROVE FALSE
    OBVIOUS
  <1>2. SRound(s) = IF SFull(p) THEN p ELSE SEncode(g)
    BY SRepeatOK, SRoundIs
  <1>3. /\ p.win = <<>> /\ p = [s EXCEPT !.win = <<>>] /\ p.in = None /\ SenderOK(p)
        /\ p.state = s.state
    BY <1>1, SMoveWindowsOK
  <1>4. p.pkt = None /\ p.seq = s.seq /\ p.seq \in Nat /\ IsSender(p)
    BY <1>3 DEF SenderOK, IsSender
  <1>. HIDE DEF p
  <1>5. SDone(SRound(s)) = s /\ IsSender(s)
    BY DEF SResting, SenderOK
  <1>6. CASE SRound(s) = p
    <2>1. SDone(p).win = p.win
      BY <1>4 DEF SDone, IsSender
    <2>. QED
      BY <1>1, <1>3, <1>5, <1>6, <2>1
  <1>7. CASE SRound(s) # p
    <2>1. SRound(s) = SEncode(g)
      BY <1>2, <1>7
    <2>2. CASE p.state = "INIT"
      <3>1. g = [p EXCEPT !.state = "S", !.seq = 0, !.pkt = SInitPacket]
        BY <2>2 DEF KermitSend, SendInit
      <3>2. g.state = "S" /\ g \in [DOMAIN p -> {g[x] : x \in DOMAIN p}] /\ "state" \in DOMAIN p
            /\ DOMAIN g = DOMAIN p
        BY <1>4, <3>1 DEF IsSender
      <3>. HIDE DEF g
      <3>3. SDone(SEncode(g)).state = "S"
        BY <1>4, <3>2 DEF SEncode, SDone, IsSender
      <3>. QED
        BY <1>3, <1>5, <2>1, <2>2, <3>3
    <2>3. CASE p.state = "SDW"
      <3>1. g = SendNext(p)
        BY <1>3, <2>3, NoInput DEF KermitSend
      <3>2. g.seq = p.seq + 1
        BY <1>4, <3>1 DEF SendNext, IsSender
      <3>. HIDE DEF g
      <3>3. SDone(SEncode(g)).seq = g.seq
        BY DEF SEncode, SDone
      <3>. QED
        BY <1>4, <1>5, <2>1, <3>2, <3>3
    <2>4. CASE p.state \notin {"INIT", "SDW"}
      <3>1. g = p
        BY <1>3, <2>4, NoInput DEF KermitSend
      <3>. HIDE DEF g
      <3>2. SEncode(g) = p
        BY <1>4, <3>1 DEF SEncode
      <3>. QED
        BY <1>7, <2>1, <3>2
    <2>. QED
      BY <2>2, <2>3, <2>4
  <1>. QED
    BY <1>6, <1>7

(* handle_timeout() finds a packet to send again. *)
LEMMA STimedOutOK ==
  ASSUME SenderOK(s), s.in = None, s.pkt = None, SCanTimeout
  PROVE  SenderOK(STimedOut)
  <1>. DEFINE v == s.timeouts + 1
              p == [s EXCEPT !.timeouts = v]
              a == IF p.timeouts >= KTimeoutMax THEN SError(p) ELSE p
              m == a.win[Min(Unacked(a.win))].m
              t == [a EXCEPT !.out = Append(@, m)]
              c == [a EXCEPT !.xfer = "CRASH"]
              b == IF ~SWindowing(a) \/ a.win = <<>> THEN a
                   ELSE IF Unacked(a.win) = {} THEN c ELSE t
  <1>1. STimedOut = SRound(b)
    BY DEF STimedOut, SenderOK, IsSender
  <1>2. v \in Nat
    BY DEF SenderOK, IsSender
  <1>. HIDE DEF v
  <1>3. SenderOK(p) /\ SameWin(p, s)
    <2>1. IsSender(p) /\ InFile(p) /\ SameWin(p, s)
      BY <1>2 DEF SenderOK, IsSender, InFile, SameWin
    <2>. HIDE DEF p
    <2>. QED
      BY <2>1, WinStays DEF SenderOK
  <1>. HIDE DEF p
  <1>4. SenderOK(a) /\ a.win = s.win
    BY <1>3, SErrorOK DEF SameWin
  <1>. HIDE DEF a
  <1>5. a.win = <<>> \/ Unacked(a.win) # {}
    BY <1>4, RestingWindow DEF SCanTimeout
  <1>6. ASSUME Unacked(a.win) # {} PROVE SenderOK(t)
    <2>. DEFINE o == Append(a.out, m)
    <2>1. IsPacket(m)
      <3>1. IsWindow(a.win)
        BY <1>4 DEF SenderOK, IsSender
      <3>2. Min(Unacked(a.win)) \in 1..Len(a.win)
        BY <1>6, <3>1, UnackedIn
      <3>. QED
        BY <3>1, <3>2 DEF IsWindow
    <2>2. IsLine(o) /\ t = [a EXCEPT !.out = o]
      BY <1>4, <2>1, AppendLine DEF SenderOK, IsSender
    <2>. HIDE DEF o, t
    <2>3. IsSender(t) /\ InFile(t) /\ SameWin(t, a)
      BY <1>4, <2>2 DEF SenderOK, IsSender, InFile, SameWin
    <2>. QED
      BY <1>4, <2>3, WinStays DEF SenderOK
  <1>7. b = a \/ (Unacked(a.win) # {} /\ b = t)
    BY <1>5
  <1>. HIDE DEF b, t
  <1>. QED
    BY <1>1, <1>4, <1>6, <1>7, SRoundOK

(* kermit() of the sender is over with the state q. *)
LEMMA SReturnInv ==
  ASSUME KInv, NEW q, SenderOK(q), s' = SDone(q), toR' = toR \o q.out, IsLine(toS'),
         UNCHANGED <<opt, r>>
  PROVE  KInv'
  <1>. DEFINE p == SDone(q)
  <1>1. SenderOK(p) /\ IsLine(q.out) /\ p.in = None /\ p.pkt = None /\ p.out = <<>>
    BY SDoneOK
  <1>. HIDE DEF p
  <1>2. s' = p /\ IsLine(toR')
    BY <1>1, ConcatLine DEF p, KInv
  <1>3. SenderOK(s)' /\ s'.in = None /\ s'.pkt = None /\ s'.out = <<>>
    BY <1>1, <1>2 DEF SenderOK, IsSender, InFile, WinOK, WinLimit, SStreams
  <1>4. IsLine(toR)' /\ IsLine(toS)'
    BY <1>2 DEF IsLine
  <1>5. ReceiverOK(r)' /\ r'.in = None /\ r'.pkt = None /\ r'.out = <<>>
    BY DEF KInv, ReceiverOK, IsReceiver, IsRing, RWindow, Place
  <1>. QED
    BY <1>3, <1>4, <1>5 DEF KInv

LEMMA SenderStepInv ==
  ASSUME KInv, SenderStep
  PROVE  KInv'
  <1>1. SenderOK(s) /\ IsLine(toS) /\ UNCHANGED r
    BY DEF KInv, SenderStep
  <1>2. ASSUME NEW q, SenderOK(q), SReturn(q), IsLine(toS') PROVE KInv'
    <2>1. s' = SDone(q) /\ toR' = toR \o q.out /\ opt' = opt
      BY <1>2 DEF SReturn
    <2>. QED
      BY <1>1, <1>2, <2>1, SReturnInv
  <1>3. SenderOK(SRound(s))
    BY <1>1, SRoundOK
  <1>4. CASE SFirstCall
    <2>. DEFINE q == [s EXCEPT !.called = TRUE]
    <2>1. IsSender(q) /\ InFile(q) /\ SameWin(q, s)
      BY <1>1 DEF SenderOK, IsSender, InFile, SameWin
    <2>2. SFirst(s) = SRound(q)
      BY DEF SFirst
    <2>. HIDE DEF q
    <2>3. SenderOK(SFirst(s))
      BY <1>1, <2>1, <2>2, WinStays, SRoundOK DEF SenderOK
    <2>4. IsLine(toS') /\ SReturn(SFirst(s))
      BY <1>1, <1>4, TossedLine DEF SFirstCall
    <2>. QED
      BY <1>2, <2>3, <2>4
  <1>5. CASE SInput
    <2>. DEFINE m == Head(toS)
    <2>1. IsPacket(m) /\ IsLine(Tail(toS))
      BY <1>1, <1>5, HeadTailLine DEF SInput
    <2>2. \/ SReturn(SRound(s)) /\ (toS' = Tail(toS) \/ toS' \in AfterBad(toS))
          \/ SReturn(SRound(SDecode(s, m))) /\ toS' = Tail(toS)
      BY <1>5 DEF SInput
    <2>. HIDE DEF m
    <2>3. IsLine(toS')
      BY <1>1, <2>1, <2>2, AfterBadLine
    <2>4. SenderOK(SRound(SDecode(s, m)))
      BY <1>1, <2>1, SDecodeOK, SRoundOK
    <2>. QED
      BY <1>2, <1>3, <2>2, <2>3, <2>4
  <1>6. CASE SIdle
    BY <1>1, <1>2, <1>3, <1>6 DEF SIdle
  <1>. QED
    BY <1>4, <1>5, <1>6 DEF SenderStep

-----------------------------------------------------------------------------
(* The rings *)

LEMMA ModRange ==
  ASSUME NEW w \in Nat \ {0}, NEW x \in Int
  PROVE  x % w \in 0..(w - 1)
  OBVIOUS

LEMMA ModSame ==
  ASSUME NEW w \in Nat \ {0}, NEW x \in 0..(w - 1)
  PROVE  x % w = x
  OBVIOUS

LEMMA ModWrap ==
  ASSUME NEW w \in Nat \ {0}, NEW x \in w..(2 * w - 1)
  PROVE  x % w = x - w
  OBVIOUS

(* A step of the end of a ring of size w that begins at b *)
LEMMA RingEnd ==
  ASSUME NEW w \in Nat \ {0}, NEW b \in 0..(w - 1), NEW n \in 0..w, NEW k \in 0..(w - n)
  PROVE  (((b + n) % w) + k) % w = (b + (n + k)) % w
  <1>. DEFINE x == b + n
              y == b + (n + k)
  <1>1. CASE x < w
    <2>1. x \in 0..(w - 1) /\ y = x + k
      BY <1>1
    <2>. HIDE DEF x, y
    <2>2. x % w = x
      BY <2>1, ModSame
    <2>3. ((x % w) + k) % w = y % w
      BY <2>1, <2>2
    <2>. QED
      BY <2>3 DEF x, y
  <1>2. CASE x >= w
    <2>1. x \in w..(2 * w - 1) /\ y \in w..(2 * w - 1) /\ x - w + k = y - w /\ y - w \in 0..(w - 1)
      BY <1>2
    <2>. HIDE DEF x, y
    <2>2. x % w = x - w /\ y % w = y - w /\ (y - w) % w = y - w
      BY <2>1, ModSame, ModWrap
    <2>3. ((x % w) + k) % w = y % w
      BY <2>1, <2>2
    <2>. QED
      BY <2>3 DEF x, y
  <1>. QED
    BY <1>1, <1>2

(* ... and of its begin *)
LEMMA RingBegin ==
  ASSUME NEW w \in Nat \ {0}, NEW b \in 0..(w - 1), NEW n \in 0..w, NEW k \in 0..n
  PROVE  (b + n) % w = (((b + k) % w) + (n - k)) % w
  <1>. DEFINE x == b + k
              y == b + n
              l == n - k
  <1>0. l \in Int
    OBVIOUS
  <1>1. CASE x < w
    <2>1. x \in 0..(w - 1) /\ y = x + l
      BY <1>1
    <2>. HIDE DEF x, y, l
    <2>2. x % w = x
      BY <2>1, ModSame
    <2>3. y % w = ((x % w) + l) % w
      BY <2>1, <2>2
    <2>. QED
      BY <2>3 DEF x, y, l
  <1>2. CASE x >= w
    <2>1. x \in w..(2 * w - 1) /\ y \in w..(2 * w - 1) /\ x - w + l = y - w /\ y - w \in 0..(w - 1)
      BY <1>2
    <2>. HIDE DEF x, y, l
    <2>2. x % w = x - w /\ y % w = y - w /\ (y - w) % w = y - w
      BY <2>1, ModSame, ModWrap
    <2>3. y % w = ((x % w) + l) % w
      BY <1>0, <2>1, <2>2
    <2>. QED
      BY <2>3 DEF x, y, l
  <1>. QED
    BY <1>1, <1>2

LEMMA RingSize ==
  ASSUME NEW q
  PROVE  RWindow(q) \in Nat \ {0} /\ RWindow(q) <= Window
         /\ 0..(RWindow(q) - 1) \subseteq 0..(Window - 1)
  <1>1. RWindow(q) \in {Window, 1} /\ Window \in Nat /\ Window > 2
    BY Sizes DEF RWindow
  <1>. QED
    BY <1>1

(* The slots, the end and the gaps of a ring *)
LEMMA RingSlots ==
  ASSUME NEW q, IsRing(q)
  PROVE  /\ \A j \in Nat : Place(q, j) \in 0..(RWindow(q) - 1) /\ IsSlot(At(q, j)) /\ At(q, j).q \in Nat
         /\ q.n \in 0..RWindow(q) /\ q.n \in Nat /\ q.i \in 0..(RWindow(q) - 1)
         /\ SeqEnd(q) \in Nat
         /\ Gaps(q) \subseteq 0..(q.n - 1)
         /\ Gaps(q) # {} => Min(Gaps(q)) \in 0..(q.n - 1) /\ q.n > 0
  <1>. DEFINE w == RWindow(q)
  <1>1. w \in Nat \ {0} /\ 0..(w - 1) \subseteq 0..(Window - 1)
    BY RingSize
  <1>2. q.begin \in 0..(w - 1) /\ q.n \in 0..w /\ q.i = Place(q, q.n)
    BY DEF IsRing
  <1>3. Place(q, q.n) = (q.begin + q.n) % w /\ \A j : Place(q, j) = (q.begin + j) % w
    BY DEF Place
  <1>4. ASSUME NEW j \in Nat PROVE (q.begin + j) % w \in 0..(w - 1)
    <2>. DEFINE x == q.begin + j
    <2>. HIDE DEF w
    <2>1. x \in Int
      BY <1>1, <1>2
    <2>. HIDE DEF x
    <2>2. x % w \in 0..(w - 1)
      BY <1>1, <2>1, ModRange
    <2>. QED
      BY <2>2 DEF x
  <1>5. (q.i + w - 1) % w \in 0..(w - 1) /\ q.i \in 0..(w - 1) /\ q.n \in Nat
    <2>1. q.i \in 0..(w - 1) /\ q.n \in Nat
      BY <1>1, <1>2, <1>3, <1>4
    <2>. HIDE DEF w
    <2>. DEFINE x == q.i + w - 1
    <2>2. x \in Int
      BY <1>1, <2>1
    <2>. HIDE DEF x
    <2>3. x % w \in 0..(w - 1)
      BY <1>1, <2>2, ModRange
    <2>. QED
      BY <2>1, <2>3 DEF x
  <1>6. \A j \in 0..(w - 1) : IsSlot(q.slots[j]) /\ q.slots[j].q \in Nat
    BY <1>1 DEF IsRing, IsSlot
  <1>7. \A j \in Nat : Place(q, j) \in 0..(w - 1) /\ IsSlot(At(q, j)) /\ At(q, j).q \in Nat
    BY <1>3, <1>4, <1>6 DEF At
  <1>8. SeqEnd(q) \in Nat
    BY <1>5, <1>6 DEF SeqEnd
  <1>9. Gaps(q) \subseteq 0..(q.n - 1) /\ Gaps(q) \subseteq Nat
    BY DEF Gaps
  <1>10. Gaps(q) # {} => Min(Gaps(q)) \in Gaps(q)
    BY <1>9, Minimum
  <1>11. Gaps(q) # {} => Min(Gaps(q)) \in 0..(q.n - 1) /\ q.n > 0
    BY <1>5, <1>9, <1>10
  <1>. QED
    BY <1>2, <1>5, <1>7, <1>8, <1>9, <1>11

-----------------------------------------------------------------------------
(* The receiver *)

SameRing(p, q) ==
  p.slots = q.slots /\ p.begin = q.begin /\ p.i = q.i /\ p.n = q.n /\ p.mode = q.mode

LEMMA RingStays ==
  ASSUME NEW q, IsRing(q), NEW p, SameRing(p, q)
  PROVE  IsRing(p) /\ RWindow(p) = RWindow(q)
  BY DEF IsRing, SameRing, RWindow, Place

(* The packets at hand, the state and the end of the transfer *)
SameInput(p, q) == p.in = q.in /\ p.mode = q.mode /\ p.state = q.state

LEMMA RollOffOK ==
  ASSUME NEW q, ReceiverOK(q), NEW k \in 0..q.n
  PROVE  /\ ReceiverOK(RollOff(q, k)) /\ SameInput(RollOff(q, k), q)
         /\ RollOff(q, k).n = q.n - k
  <1>. DEFINE b == Place(q, k)
              v == q.n - k
              p == [q EXCEPT !.begin = b, !.n = v]
              w == RWindow(q)
  <1>1. IsReceiver(q) /\ IsRing(q) /\ w \in Nat \ {0}
    BY RingSize DEF ReceiverOK
  <1>2. q.n \in 0..w /\ q.begin \in 0..(w - 1) /\ q.i = (q.begin + q.n) % w
        /\ b = (q.begin + k) % w /\ k \in Nat
    BY <1>1, RingSlots DEF IsRing, Place
  <1>3. b \in 0..(w - 1)
    BY <1>1, <1>2, RingSlots
  <1>4. q.i = (b + v) % w /\ v \in 0..w
    <2>. HIDE DEF w, b
    <2>1. v \in 0..w /\ k \in 0..q.n
      BY <1>1, <1>2
    <2>2. (q.begin + q.n) % w = (((q.begin + k) % w) + (q.n - k)) % w
      BY <1>1, <1>2, RingBegin
    <2>. HIDE DEF v
    <2>3. (q.begin + q.n) % w = (((q.begin + k) % w) + v) % w
      BY <2>2 DEF v
    <2>. QED
      BY <1>2, <2>1, <2>3
  <1>5. RollOff(q, k) = p
    BY <1>1 DEF RollOff, IsReceiver
  <1>. HIDE DEF b, v
  <1>6. /\ IsReceiver(p) /\ SameInput(p, q) /\ p.begin = b /\ p.n = v /\ p.i = q.i
        /\ p.slots = q.slots
    BY <1>1 DEF IsReceiver, SameInput
  <1>. HIDE DEF p
  <1>7. IsRing(p)
    BY <1>1, <1>3, <1>4, <1>6 DEF IsRing, Place, RWindow, SameInput
  <1>. QED
    BY <1>5, <1>6, <1>7 DEF ReceiverOK, v

LEMMA TakeSlotOK ==
  ASSUME NEW q, ReceiverOK(q), q.n < RWindow(q), NEW c, IsSlot(c)
  PROVE  ReceiverOK(TakeSlot(q, c)) /\ SameInput(TakeSlot(q, c), q)
  <1>. DEFINE d == [q.slots EXCEPT ![q.i] = c]
              i == (q.i + 1) % RWindow(q)
              v == q.n + 1
              p == [q EXCEPT !.slots = d, !.i = i, !.n = v]
              w == RWindow(q)
  <1>1. IsReceiver(q) /\ IsRing(q) /\ w \in Nat \ {0}
    BY RingSize DEF ReceiverOK
  <1>2. q.n \in 0..w /\ q.begin \in 0..(w - 1) /\ q.i = (q.begin + q.n) % w
        /\ q.i \in 0..(w - 1)
    BY <1>1, RingSlots DEF IsRing, Place
  <1>3. i = (q.begin + v) % w /\ v \in 0..w
    <2>1. q.n < w
      OBVIOUS
    <2>. HIDE DEF w
    <2>2. 1 \in 0..(w - q.n)
      BY <1>1, <1>2, <2>1
    <2>3. (((q.begin + q.n) % w) + 1) % w = (q.begin + (q.n + 1)) % w
      BY <1>1, <1>2, <2>2, RingEnd
    <2>. QED
      BY <1>1, <1>2, <2>1, <2>3 DEF w
  <1>4. TakeSlot(q, c) = p
    BY <1>1 DEF TakeSlot, IsReceiver
  <1>5. d = [j \in 0..(Window - 1) |-> d[j]] /\ \A j \in 0..(Window - 1) : IsSlot(d[j])
    BY <1>1 DEF IsRing
  <1>. HIDE DEF d, i, v
  <1>6. /\ IsReceiver(p) /\ SameInput(p, q) /\ p.begin = q.begin /\ p.n = v /\ p.i = i
        /\ p.slots = d
    BY <1>1 DEF IsReceiver, SameInput
  <1>. HIDE DEF p
  <1>7. IsRing(p)
    BY <1>2, <1>3, <1>5, <1>6 DEF IsRing, Place, RWindow, SameInput
  <1>. QED
    BY <1>4, <1>6, <1>7 DEF ReceiverOK

(* A slot in use is replaced. *)
LEMMA PutSlotOK ==
  ASSUME NEW q, ReceiverOK(q), NEW j, NEW c, IsSlot(c), NEW n \in Nat
  PROVE  /\ ReceiverOK([q EXCEPT !.slots[j] = c])
         /\ ReceiverOK([q EXCEPT !.slots[j] = c, !.seq = n])
  <1>. DEFINE d == [q.slots EXCEPT ![j] = c]
              p == [q EXCEPT !.slots = d]
              e == [q EXCEPT !.slots = d, !.seq = n]
  <1>1. IsReceiver(q) /\ IsRing(q)
    BY DEF ReceiverOK
  <1>2. [q EXCEPT !.slots[j] = c] = p /\ [q EXCEPT !.slots[j] = c, !.seq = n] = e
    BY <1>1 DEF IsReceiver
  <1>3. d = [k \in 0..(Window - 1) |-> d[k]] /\ \A k \in 0..(Window - 1) : IsSlot(d[k])
    BY <1>1 DEF IsRing
  <1>. HIDE DEF d
  <1>4. IsReceiver(p) /\ p.slots = d /\ p.begin = q.begin /\ p.n = q.n /\ p.i = q.i
        /\ p.mode = q.mode
    BY <1>1 DEF IsReceiver
  <1>5. IsReceiver(e) /\ e.slots = d /\ e.begin = q.begin /\ e.n = q.n /\ e.i = q.i
        /\ e.mode = q.mode
    BY <1>1 DEF IsReceiver
  <1>. HIDE DEF p, e
  <1>6. IsRing(p) /\ IsRing(e)
    BY <1>1, <1>3, <1>4, <1>5 DEF IsRing, Place, RWindow
  <1>. QED
    BY <1>2, <1>4, <1>5, <1>6 DEF ReceiverOK

LEMMA SlotType ==
  ASSUME NEW v \in Nat, NEW acked, NEW m
  PROVE  IsSlot(Slot(v, acked, m))
  BY DEF IsSlot, Slot

(* What is done to the file and to the window leaves the rest. *)
LEMMA WriteOK ==
  ASSUME NEW q, ReceiverOK(q), NEW slots
  PROVE  /\ ReceiverOK(Write(q, slots)) /\ SameInput(Write(q, slots), q)
         /\ SameRing(Write(q, slots), q)
  <1>. DEFINE data == SelectSeq(slots, LAMBDA c : c.t = "D")
              g == [q.got EXCEPT ![q.open] =
                      @ \o [j \in DOMAIN data |-> IF data[j].f = q.open THEN data[j].a ELSE 0]]
              p == [q EXCEPT !.got = g]
              c == [q EXCEPT !.xfer = "CRASH"]
  <1>1. IsReceiver(q) /\ IsRing(q)
    BY DEF ReceiverOK
  <1>2. Write(q, slots) \in {q, c, p}
    BY <1>1 DEF Write, IsReceiver
  <1>. HIDE DEF g
  <1>3. IsReceiver(p) /\ SameInput(p, q) /\ SameRing(p, q)
    BY <1>1 DEF IsReceiver, SameInput, SameRing
  <1>4. IsReceiver(c) /\ SameInput(c, q) /\ SameRing(c, q)
    BY <1>1 DEF IsReceiver, SameInput, SameRing, Ends
  <1>5. SameInput(q, q) /\ SameRing(q, q)
    BY DEF SameInput, SameRing
  <1>. HIDE DEF p, c
  <1>6. IsRing(p) /\ IsRing(c)
    BY <1>1, <1>3, <1>4, RingStays
  <1>. QED
    BY <1>1, <1>2, <1>3, <1>4, <1>5, <1>6 DEF ReceiverOK

LEMMA WriteFirstOK ==
  ASSUME NEW q, ReceiverOK(q)
  PROVE  ReceiverOK(WriteFirst(q)) /\ SameInput(WriteFirst(q), q) /\ SameRing(WriteFirst(q), q)
  <1>1. SameInput(q, q) /\ SameRing(q, q)
    BY DEF SameInput, SameRing
  <1>. QED
    BY <1>1, WriteOK DEF WriteFirst

LEMMA RollOffIfFullOK ==
  ASSUME NEW q, ReceiverOK(q)
  PROVE  ReceiverOK(RollOffIfFull(q)) /\ SameInput(RollOffIfFull(q), q)
  <1>1. q.n = RWindow(q) => 1 \in 0..q.n
    BY RingSize
  <1>2. SameInput(q, q)
    BY DEF SameInput
  <1>3. CASE RollOffIfFull(q) = q
    BY <1>2, <1>3
  <1>4. CASE RollOffIfFull(q) # q
    BY <1>1, <1>4, RollOffOK DEF RollOffIfFull
  <1>. QED
    BY <1>3, <1>4

LEMMA WindowSaveAllOK ==
  ASSUME NEW q, ReceiverOK(q)
  PROVE  ReceiverOK(WindowSaveAll(q)) /\ SameInput(WindowSaveAll(q), q)
  <1>. DEFINE k == IF Gaps(q) = {} THEN q.n ELSE Min(Gaps(q))
              w == Write(q, [j \in 1..k |-> At(q, j - 1)])
  <1>1. WindowSaveAll(q) = RollOff(w, k)
    BY DEF WindowSaveAll, Thru
  <1>2. k \in 0..q.n
    BY RingSlots DEF ReceiverOK
  <1>3. ReceiverOK(w) /\ SameInput(w, q) /\ w.n = q.n
    BY WriteOK DEF SameRing
  <1>. HIDE DEF k, w
  <1>4. ReceiverOK(RollOff(w, k)) /\ SameInput(RollOff(w, k), w)
    BY <1>2, <1>3, RollOffOK
  <1>. QED
    BY <1>1, <1>3, <1>4 DEF SameInput

(* A packet to send is put in the record. *)
LEMMA PutPktOK ==
  ASSUME NEW q, ReceiverOK(q), NEW m, IsPacket(m)
  PROVE  LET p == [q EXCEPT !.pkt = m]
         IN  ReceiverOK(p) /\ SameInput(p, q) /\ SameRing(p, q) /\ p.pkt = m
  <1>. DEFINE p == [q EXCEPT !.pkt = m]
  <1>1. IsReceiver(p) /\ SameInput(p, q) /\ SameRing(p, q) /\ p.pkt = m
    BY DEF ReceiverOK, IsReceiver, SameInput, SameRing
  <1>. HIDE DEF p
  <1>2. ReceiverOK(p) /\ SameInput(p, q) /\ SameRing(p, q) /\ p.pkt = m
    BY <1>1, RingStays DEF ReceiverOK
  <1>. QED
    BY <1>2 DEF p

LEMMA NakPacketOK ==
  ASSUME NEW q, ReceiverOK(q), NEW v \in Nat
  PROVE  ReceiverOK(NakPacket(q, v)) /\ SameInput(NakPacket(q, v), q)
  <1>. DEFINE seq == IF q.seq = 0 /\ v = 0 THEN 0
                     ELSE IF q.n = 0 THEN q.seq + 1
                     ELSE IF Gaps(q) # {} THEN At(q, Min(Gaps(q))).q
                     ELSE q.slots[IF q.i = 0 THEN q.n - 1 ELSE q.i - 1].q + 1
              num == seq % (4 * SeqMod)
              m == Packet("NAK", num, "", 0, 0, 1)
              p == [q EXCEPT !.pkt = m]
              z == [p EXCEPT !.pkt = None]
              c == Slot(v, FALSE, None)
              w == WriteFirst(p)
              o == RollOff(w, 1)
              t == TakeSlot(o, c)
  <1>0. IsReceiver(q) /\ IsRing(q) /\ q.seq \in Nat
    BY DEF ReceiverOK, IsReceiver
  <1>1. seq \in Nat
    <2>1. CASE q.n = 0 \/ Gaps(q) # {} \/ (q.seq = 0 /\ v = 0)
      <3>1. Gaps(q) # {} => Min(Gaps(q)) \in Nat
        BY <1>0, RingSlots
      <3>2. Gaps(q) # {} => At(q, Min(Gaps(q))).q \in Nat
        BY <1>0, <3>1, RingSlots
      <3>. QED
        BY <1>0, <2>1, <3>2
    <2>2. CASE q.n # 0 /\ Gaps(q) = {} /\ ~(q.seq = 0 /\ v = 0)
      <3>. DEFINE x == IF q.i = 0 THEN q.n - 1 ELSE q.i - 1
      <3>1. q.n \in 0..RWindow(q) /\ q.i \in 0..(RWindow(q) - 1) /\ RWindow(q) \in Nat \ {0}
        BY <1>0, RingSlots, RingSize
      <3>2. x \in 0..(RWindow(q) - 1)
        BY <2>2, <3>1
      <3>3. x \in 0..(Window - 1)
        BY <3>2, RingSize
      <3>. HIDE DEF x
      <3>4. q.slots[x].q \in Nat
        BY <1>0, <3>3 DEF IsRing, IsSlot
      <3>5. seq = q.slots[x].q + 1
        BY <2>2 DEF x
      <3>. QED
        BY <3>4, <3>5
    <2>. QED
      BY <2>1, <2>2
  <1>. HIDE DEF seq
  <1>2. IsPacket(m)
    <2>1. 0 \in 0..(NFiles + 1) /\ 4 * SeqMod \in Nat \ {0}
      BY Sizes
    <2>2. num \in Nat
      BY <1>1, <2>1
    <2>. HIDE DEF num
    <2>. QED
      BY <2>1, <2>2, PacketType
  <1>3. NakPacket(q, v) \in {p, z} \/ (q.n >= RWindow(q) /\ NakPacket(q, v) = t)
    <2>. DEFINE b == q.n < RWindow(q)
    <2>1. b \/ q.n >= RWindow(q)
      BY <1>0, RingSlots, RingSize
    <2>. HIDE DEF b
    <2>. DEFINE h == Thru(w, LAMBDA u : TakeSlot(RollOff(u, 1), c))
    <2>2. NakPacket(q, v) = IF RStreams(q) \/ ~IsNext(q, v) \/ b THEN p
                            ELSE IF ~At(q, 0).acked THEN z ELSE h
      BY Zenon DEF NakPacket, b, seq, num
    <2>. HIDE DEF w, c
    <2>3. h = t
      BY DEF Thru
    <2>. HIDE DEF m, p, z, t, h
    <2>. QED
      BY <2>1, <2>2, <2>3
  <1>. HIDE DEF m
  <1>4. ReceiverOK(p) /\ SameInput(p, q) /\ SameRing(p, q)
    BY <1>2, PutPktOK
  <1>. HIDE DEF p
  <1>5. ReceiverOK(z) /\ SameInput(z, p)
    BY <1>4, PutPktOK, NoneType
  <1>6. IsSlot(c)
    BY SlotType
  <1>7. ASSUME q.n >= RWindow(q) PROVE ReceiverOK(t) /\ SameInput(t, q)
    <2>1. ReceiverOK(w) /\ SameInput(w, q) /\ w.n = q.n /\ RWindow(w) = RWindow(q)
      BY <1>4, WriteFirstOK DEF SameInput, SameRing, RWindow
    <2>. HIDE DEF w
    <2>2. w.n \in 0..RWindow(w) /\ RWindow(w) \in Nat \ {0}
      BY <2>1, RingSlots, RingSize DEF ReceiverOK
    <2>3. 1 \in 0..w.n
      BY <1>7, <2>1, <2>2
    <2>4. ReceiverOK(o) /\ SameInput(o, w) /\ o.n = w.n - 1
      BY <2>1, <2>3, RollOffOK
    <2>. HIDE DEF o, c
    <2>5. RWindow(o) = RWindow(w)
      BY <2>4 DEF SameInput, RWindow
    <2>6. o.n < RWindow(o)
      BY <2>2, <2>4, <2>5
    <2>7. ReceiverOK(t) /\ SameInput(t, o)
      BY <1>6, <2>4, <2>6, TakeSlotOK
    <2>. QED
      BY <2>1, <2>4, <2>7 DEF SameInput
  <1>. HIDE DEF t, z
  <1>. QED
    BY <1>3, <1>4, <1>5, <1>7 DEF SameInput

LEMMA PutInOK ==
  ASSUME NEW q, ReceiverOK(q), NEW m, IsPacket(m)
  PROVE  ReceiverOK([q EXCEPT !.in = m])
  <1>. DEFINE p == [q EXCEPT !.in = m]
  <1>1. IsReceiver(p) /\ SameRing(p, q)
    BY DEF ReceiverOK, IsReceiver, SameRing
  <1>. HIDE DEF p
  <1>2. ReceiverOK(p)
    BY <1>1, RingStays DEF ReceiverOK
  <1>. QED
    BY <1>2 DEF p

(* kermit_stop() and error_packet() *)
LEMMA RErrorOK ==
  ASSUME NEW q, ReceiverOK(q)
  PROVE  ReceiverOK(RAbort(q)) /\ ReceiverOK(RError(q))
  <1>. DEFINE p == RAbort(q)
              m == Packet("E", q.seq % SeqMod, "", 0, 0, RCheck(q))
  <1>1. 0 \in 0..NFiles /\ 0 \in 0..(NFiles + 1) /\ q.seq % SeqMod \in Nat
    BY Sizes DEF ReceiverOK, IsReceiver
  <1>2. IsReceiver(p) /\ SameRing(p, q)
    <2>. DEFINE z == 0
                u == [q EXCEPT !.state = "ABORT", !.xfer = "ABORT"]
    <2>1. z \in 0..NFiles /\ p = [u EXCEPT !.open = z, !.f = z]
      BY <1>1 DEF RAbort
    <2>2. IsReceiver(q) /\ "ABORT" \in Ends
      BY DEF ReceiverOK, Ends
    <2>3. IsReceiver(u) /\ SameRing(u, q)
      BY <2>2 DEF IsReceiver, SameRing
    <2>. HIDE DEF z, u, p
    <2>4. IsReceiver(p) /\ SameRing(p, u)
      BY <2>1, <2>3 DEF IsReceiver, SameRing
    <2>. QED
      BY <2>3, <2>4 DEF SameRing
  <1>3. IsPacket(m) /\ RError(q) = [p EXCEPT !.pkt = m]
    BY <1>1, PacketType DEF RError
  <1>. HIDE DEF p, m
  <1>4. ReceiverOK(p)
    BY <1>2, RingStays DEF ReceiverOK
  <1>5. ReceiverOK([p EXCEPT !.pkt = m])
    BY <1>3, <1>4, PutPktOK
  <1>. QED
    BY <1>3, <1>4, <1>5 DEF p

(* check_for_repeat() *)
LEMMA RRepeatOK ==
  ASSUME NEW q, ReceiverOK(q)
  PROVE  ReceiverOK(RRepeat(q))
  <1>. DEFINE o == Append(q.out, q.last)
              p == [q EXCEPT !.out = o, !.in = None]
  <1>1. IsLine(o) /\ RRepeat(q) \in {p, q}
    BY AppendLine DEF RRepeat, ReceiverOK, IsReceiver
  <1>. HIDE DEF o
  <1>2. IsReceiver(p) /\ SameRing(p, q)
    BY <1>1, NoneType DEF ReceiverOK, IsReceiver, SameRing
  <1>. HIDE DEF p
  <1>. QED
    BY <1>1, <1>2, RingStays DEF ReceiverOK

LEMMA NextSeqOK ==
  ASSUME NEW q, ReceiverOK(q)
  PROVE  [q EXCEPT !.seq = @ + 1] = [q EXCEPT !.seq = q.seq + 1] /\ ReceiverOK([q EXCEPT !.seq = @ + 1])
  <1>. DEFINE n == q.seq + 1
              p == [q EXCEPT !.seq = n]
  <1>1. n \in Nat /\ p = [q EXCEPT !.seq = @ + 1]
    BY DEF ReceiverOK, IsReceiver
  <1>. HIDE DEF n
  <1>2. IsReceiver(p) /\ SameRing(p, q)
    BY <1>1 DEF ReceiverOK, IsReceiver, SameRing
  <1>. HIDE DEF p
  <1>3. ReceiverOK(p)
    BY <1>2, RingStays DEF ReceiverOK
  <1>. QED
    BY <1>1, <1>3 DEF p, n

LEMMA SaveToOK ==
  ASSUME NEW q, ReceiverOK(q), NEW j
  PROVE  ReceiverOK(SaveTo(q, j))
  <1>. DEFINE c == Slot(q.in.q, TRUE, q.in)
              n == q.seq + 1
              d == [q EXCEPT !.slots[j] = c]
              e == [q EXCEPT !.slots[j] = c, !.seq = n]
              t == TakeSlot(q, c)
              u == [t EXCEPT !.seq = @ + 1]
  <1>1. q.in.q \in Nat /\ n \in Nat
    BY DEF ReceiverOK, IsReceiver, IsPacket
  <1>2. IsSlot(c)
    BY <1>1, SlotType
  <1>3. SaveTo(q, j) \in {d, e} \/ (q.n < RWindow(q) /\ SaveTo(q, j) = u)
    <2>. DEFINE b == q.n < RWindow(q)
                x == [q EXCEPT !.slots[j] = c, !.seq = @ + 1]
    <2>1. x = e
      BY DEF ReceiverOK, IsReceiver
    <2>. HIDE DEF b
    <2>2. SaveTo(q, j) = IF j # q.i THEN d ELSE IF b THEN u ELSE x
      BY Zenon DEF SaveTo, b
    <2>3. b => q.n < RWindow(q)
      BY DEF b
    <2>. HIDE DEF d, e, u, x
    <2>. QED
      BY <2>1, <2>2, <2>3
  <1>. HIDE DEF c, n
  <1>4. ReceiverOK(d) /\ ReceiverOK(e)
    BY <1>1, <1>2, PutSlotOK
  <1>5. ASSUME q.n < RWindow(q) PROVE ReceiverOK(u)
    <2>1. ReceiverOK(t)
      BY <1>2, <1>5, TakeSlotOK
    <2>. HIDE DEF t
    <2>. QED
      BY <2>1, NextSeqOK
  <1>. HIDE DEF d, e, u
  <1>. QED
    BY <1>3, <1>4, <1>5

(* The smaller of two numbers *)
LEMMA MinOfTwo ==
  ASSUME NEW x \in Nat, NEW y \in Nat
  PROVE  Min({x, y}) \in 0..x
  <1>1. {x, y} \subseteq Nat /\ {x, y} # {}
    OBVIOUS
  <1>2. Min({x, y}) \in {x, y} /\ \A z \in {x, y} : Min({x, y}) <= z
    BY <1>1, Minimum
  <1>. QED
    BY <1>2

(* k slots more are in use. *)
LEMMA TakeSlotsOK ==
  ASSUME NEW q, ReceiverOK(q), NEW k \in 0..(RWindow(q) - q.n), NEW d,
         d = [j \in 0..(Window - 1) |-> d[j]], \A j \in 0..(Window - 1) : IsSlot(d[j])
  PROVE  ReceiverOK([q EXCEPT !.in = None, !.n = q.n + k, !.i = (q.i + k) % RWindow(q), !.slots = d])
  <1>. DEFINE w == RWindow(q)
              i == (q.i + k) % w
              v == q.n + k
              p == [q EXCEPT !.in = None, !.n = v, !.i = i, !.slots = d]
  <1>1. IsReceiver(q) /\ IsRing(q) /\ w \in Nat \ {0}
    BY RingSize DEF ReceiverOK
  <1>2. q.n \in 0..w /\ q.begin \in 0..(w - 1) /\ q.i = (q.begin + q.n) % w
    BY <1>1, RingSlots DEF IsRing, Place
  <1>3. i = (q.begin + v) % w /\ v \in 0..w
    <2>1. k \in 0..(w - q.n)
      OBVIOUS
    <2>. HIDE DEF w
    <2>2. (((q.begin + q.n) % w) + k) % w = (q.begin + (q.n + k)) % w
      BY <1>1, <1>2, <2>1, RingEnd
    <2>3. i = (q.begin + v) % w
      BY <1>2, <2>2
    <2>4. v \in 0..w
      BY <1>1, <1>2, <2>1
    <2>. QED
      BY <2>3, <2>4
  <1>. HIDE DEF i, v
  <1>4. /\ IsReceiver(p) /\ p.mode = q.mode /\ p.begin = q.begin /\ p.n = v /\ p.i = i
        /\ p.slots = d
    BY <1>1, NoneType DEF IsReceiver
  <1>. HIDE DEF p
  <1>5. IsRing(p)
    BY <1>2, <1>3, <1>4 DEF IsRing, Place, RWindow
  <1>6. ReceiverOK(p)
    BY <1>4, <1>5 DEF ReceiverOK
  <1>. QED
    BY <1>6 DEF p, i, v

LEMMA SaveAfterLostOK ==
  ASSUME NEW q, ReceiverOK(q)
  PROVE  ReceiverOK(SaveAfterLost(q))
  <1>. DEFINE v == (SeqEnd(q) + 1) % SeqMod
              a == NakPacket(q, v)
              p == WindowSaveAll(a)
              next == (SeqEnd(p) + 1) % SeqMod
              room == RWindow(p) - p.n
              dist == (q.in.q - next + SeqMod) % SeqMod
              missing == Min({room, dist})
              taken == Min({room, missing + 1})
              off(j) == (j - p.i + RWindow(p)) % RWindow(p)
              new(o) == IF o < missing THEN Slot((next + o) % SeqMod, FALSE, None)
                        ELSE Slot(q.in.q, TRUE, q.in)
              d == [j \in DOMAIN p.slots |->
                      IF j < RWindow(p) /\ off(j) < taken THEN new(off(j)) ELSE p.slots[j]]
              e == [p EXCEPT !.in = None, !.n = p.n + taken, !.i = (p.i + taken) % RWindow(p),
                             !.slots = d]
  <1>1. v \in Nat /\ q.in.q \in Nat
    BY Sizes, RingSlots DEF ReceiverOK, IsReceiver, IsPacket
  <1>. HIDE DEF v
  <1>2. ReceiverOK(a)
    BY <1>1, NakPacketOK
  <1>. HIDE DEF a
  <1>3. ReceiverOK(p)
    BY <1>2, WindowSaveAllOK
  <1>4. SaveAfterLost(q) = e
    <2>. DEFINE F(u) ==
           LET nx == (SeqEnd(u) + 1) % SeqMod
               rm == RWindow(u) - u.n
               ms == Min({rm, (q.in.q - nx + SeqMod) % SeqMod})
               tk == Min({rm, ms + 1})
               of(j) == (j - u.i + RWindow(u)) % RWindow(u)
               nw(o) == IF o < ms THEN Slot((nx + o) % SeqMod, FALSE, None)
                        ELSE Slot(q.in.q, TRUE, q.in)
           IN  [u EXCEPT !.in = None, !.n = @ + tk, !.i = (@ + tk) % RWindow(u),
                         !.slots = [j \in DOMAIN @ |->
                                      IF j < RWindow(u) /\ of(j) < tk THEN nw(of(j)) ELSE u.slots[j]]]
    <2>1. IsReceiver(p)
      BY <1>3 DEF ReceiverOK
    <2>2. SaveAfterLost(q) = Thru(a, LAMBDA b : Thru(WindowSaveAll(b), LAMBDA u : F(u)))
      BY Zenon DEF SaveAfterLost, v, a
    <2>3. F(p) = e
      BY <2>1 DEF IsReceiver
    <2>. HIDE DEF F, e
    <2>4. Thru(a, LAMBDA b : Thru(WindowSaveAll(b), LAMBDA u : F(u))) = F(p)
      BY DEF Thru
    <2>. QED
      BY <2>2, <2>3, <2>4
  <1>. HIDE DEF p
  <1>5. next \in Nat
    BY <1>3, Sizes, RingSlots DEF ReceiverOK
  <1>6. room \in Nat /\ RWindow(p) \in Nat \ {0} /\ p.i \in Nat
    BY <1>3, RingSlots, RingSize DEF ReceiverOK
  <1>. HIDE DEF next, room
  <1>7. dist \in Nat
    <2>. DEFINE x == q.in.q - next + SeqMod
    <2>1. x \in Int
      BY <1>1, <1>5, Sizes
    <2>. HIDE DEF x
    <2>2. x % SeqMod \in 0..(SeqMod - 1)
      BY <2>1, Sizes, ModRange
    <2>. QED
      BY <2>2, Sizes DEF x
  <1>. HIDE DEF dist
  <1>8. missing \in 0..room
    BY <1>6, <1>7, MinOfTwo
  <1>. HIDE DEF missing
  <1>9. taken \in 0..room
    <2>1. missing + 1 \in Nat
      BY <1>6, <1>8
    <2>. QED
      BY <1>6, <2>1, MinOfTwo
  <1>. HIDE DEF taken
  <1>10. ASSUME NEW o \in Int PROVE IsSlot(new(o))
    <2>. DEFINE x == next + o
    <2>1. x \in Int
      BY <1>5
    <2>. HIDE DEF x
    <2>2. x % SeqMod \in Nat
      BY <2>1, Sizes, ModRange
    <2>. QED
      BY <1>1, <2>2, SlotType DEF x
  <1>. HIDE DEF new
  <1>11. ASSUME NEW j \in 0..(Window - 1) PROVE off(j) \in Int
    <2>. DEFINE x == j - p.i + RWindow(p)
    <2>1. x \in Int
      BY <1>6
    <2>. HIDE DEF x
    <2>2. x % RWindow(p) \in 0..(RWindow(p) - 1)
      BY <1>6, <2>1, ModRange
    <2>. QED
      BY <1>6, <2>2 DEF x
  <1>. HIDE DEF off
  <1>12. d = [j \in 0..(Window - 1) |-> d[j]] /\ \A j \in 0..(Window - 1) : IsSlot(d[j])
    <2>1. DOMAIN p.slots = 0..(Window - 1) /\ \A j \in 0..(Window - 1) : IsSlot(p.slots[j])
      BY <1>3 DEF ReceiverOK, IsRing
    <2>. QED
      BY <1>10, <1>11, <2>1
  <1>. HIDE DEF d
  <1>13. ReceiverOK(e)
    <2>1. taken \in 0..(RWindow(p) - p.n)
      BY <1>9 DEF room
    <2>. QED
      BY <1>3, <1>12, <2>1, TakeSlotsOK
  <1>. QED
    BY <1>4, <1>13

(* save_input_packet() and find_input_slot() *)
LEMMA SaveInputPacketOK ==
  ASSUME NEW q, ReceiverOK(q)
  PROVE  ReceiverOK(SaveInputPacket(q))
  <1>. DEFINE w == WriteFirst(q)
              p == RollOffIfFull(w)
              same == {j \in 0..(q.n - 1) : At(q, j).q = q.in.q}
              e == [q EXCEPT !.in = None]
              h == Thru(w, LAMBDA x : Thru(RollOffIfFull(x), LAMBDA y : SaveTo(y, y.i)))
  <1>1. h = SaveTo(p, p.i)
    BY DEF Thru
  <1>2. SaveInputPacket(q) \in {q, SaveTo(q, q.i), h, SaveAfterLost(q), e, SaveTo(q, Place(q, Min(same)))}
    <2>. DEFINE b == q.n > 0
    <2>. HIDE DEF h
    <2>1. SaveInputPacket(q) =
            CASE q.in = None -> q
              [] q.in # None /\ q.n = 0 -> SaveTo(q, q.i)
              [] q.in # None /\ b /\ IsNext(q, q.in.q) -> h
              [] q.in # None /\ b /\ ~IsNext(q, q.in.q) /\ IsLost(q, q.in.q) -> SaveAfterLost(q)
              [] OTHER -> IF same = {} THEN e ELSE SaveTo(q, Place(q, Min(same)))
      BY Zenon DEF SaveInputPacket, h
    <2>2. q.n \in Nat /\ (b => q.n # 0)
      BY RingSlots DEF ReceiverOK
    <2>. HIDE DEF b, e, same
    <2>. QED
      BY <2>1, <2>2
  <1>3. ReceiverOK(p)
    BY WriteFirstOK, RollOffIfFullOK
  <1>4. ReceiverOK(e)
    BY PutInOK, NoneType
  <1>. HIDE DEF p, e, same, h
  <1>. QED
    BY <1>1, <1>2, <1>3, <1>4, SaveToOK, SaveAfterLostOK

(* ack_packet_param(), ack_file_packet(), ack_packet() *)
LEMMA RAckWithOK ==
  ASSUME NEW q, ReceiverOK(q), NEW k, NEW a
  PROVE  ReceiverOK(RAckWith(q, k, a)) /\ SameInput(RAckWith(q, k, a), q) /\ SameRing(RAckWith(q, k, a), q)
  <1>. DEFINE m == Packet("ACK", q.in.q, k, 0, a, IF q.seq = 0 THEN 1 ELSE RCheck(q))
  <1>1. RAckWith(q, k, a) = [q EXCEPT !.pkt = m]
    BY DEF RAckWith
  <1>2. IsPacket(m)
    <2>1. 0 \in 0..(NFiles + 1) /\ q.in.q \in Nat
      BY Sizes DEF ReceiverOK, IsReceiver, IsPacket
    <2>. QED
      BY <2>1, PacketType
  <1>. HIDE DEF m
  <1>. QED
    BY <1>1, <1>2, PutPktOK

LEMMA RAckOK ==
  ASSUME NEW q, ReceiverOK(q), NEW really
  PROVE  ReceiverOK(RAck(q, really)) /\ SameInput(RAck(q, really), q) /\ SameRing(RAck(q, really), q)
  <1>. DEFINE x == RAckWith(q, "X", 0)
              z == FALSE
              p == [x EXCEPT !.skip = z]
  <1>1. RAck(q, really) \in {p, q, RAckWith(q, "", 0)}
    BY DEF RAck
  <1>2. ReceiverOK(x) /\ SameInput(x, q) /\ SameRing(x, q)
    BY RAckWithOK
  <1>. HIDE DEF x, z
  <1>3. IsReceiver(p) /\ SameInput(p, x) /\ SameRing(p, x)
    BY <1>2 DEF ReceiverOK, IsReceiver, SameInput, SameRing
  <1>. HIDE DEF p
  <1>4. ReceiverOK(p) /\ SameInput(p, q) /\ SameRing(p, q)
    BY <1>2, <1>3, RingStays DEF ReceiverOK, SameInput, SameRing
  <1>5. SameInput(q, q) /\ SameRing(q, q)
    BY DEF SameInput, SameRing
  <1>. QED
    BY <1>1, <1>4, <1>5, RAckWithOK

LEMMA EmptyWindowOK ==
  LET v == EmptyWindow
  IN  v = [j \in 0..(Window - 1) |-> v[j]] /\ \A j \in 0..(Window - 1) : IsSlot(v[j])
  <1>. DEFINE c == Slot(0, FALSE, None)
              v == EmptyWindow
  <1>1. IsSlot(c) /\ v = [j \in 0..(Window - 1) |-> c]
    BY SlotType DEF EmptyWindow
  <1>. HIDE DEF c, v
  <1>2. v = [j \in 0..(Window - 1) |-> v[j]] /\ \A j \in 0..(Window - 1) : IsSlot(v[j])
    BY <1>1
  <1>. QED
    BY <1>2 DEF v

(* receive_R(): streaming keeps the window of one slot. *)
LEMMA ReceiveROK ==
  ASSUME NEW q, ReceiverOK(q), q.state = "R"
  PROVE  ReceiverOK(ReceiveR(q))
  <1>. DEFINE z == 0
              p == [q EXCEPT !.mode = Negotiated, !.seq = z, !.state = "RF"]
              v == EmptyWindow
              e == [p EXCEPT !.slots = v, !.begin = z, !.i = z, !.n = z]
              w == IF p.mode = "stream" THEN p ELSE e
  <1>1. z = 0 /\ z \in Nat /\ Negotiated \in {"stream", "window"}
    BY DEF Negotiated
  <1>2. ReceiveR(q) \in {q, RError(q), RAckWith(w, "parms", 0)}
    BY Zenon DEF ReceiveR
  <1>. HIDE DEF z
  <1>3. /\ IsReceiver(p) /\ p.mode = Negotiated /\ q.mode = "new" /\ p.slots = q.slots
        /\ p.begin = q.begin /\ p.i = q.i /\ p.n = q.n
    BY <1>1 DEF ReceiverOK, IsReceiver
  <1>. HIDE DEF p
  <1>4. ASSUME p.mode = "stream" PROVE IsRing(p)
    BY <1>3, <1>4 DEF ReceiverOK, IsRing, RWindow, Place
  <1>5. v = [j \in 0..(Window - 1) |-> v[j]] /\ \A j \in 0..(Window - 1) : IsSlot(v[j])
    BY EmptyWindowOK
  <1>. HIDE DEF v
  <1>6. IsReceiver(e) /\ e.slots = v /\ e.begin = z /\ e.i = z /\ e.n = z
    BY <1>3 DEF IsReceiver
  <1>. HIDE DEF e
  <1>7. IsRing(e)
    <2>1. RWindow(e) \in Nat \ {0}
      BY RingSize
    <2>2. (0 + 0) % RWindow(e) = 0
      BY <2>1
    <2>. QED
      BY <1>1, <1>5, <1>6, <2>1, <2>2 DEF IsRing, Place
  <1>8. ReceiverOK(w)
    BY <1>3, <1>4, <1>6, <1>7 DEF ReceiverOK
  <1>. HIDE DEF w
  <1>. QED
    BY <1>2, <1>8, RErrorOK, RAckWithOK

(* A state after "R" *)
LEMMA PutStateOK ==
  ASSUME NEW q, ReceiverOK(q), NEW x \in {"RF", "RDW", "COMPLETE"}, NEW y \in Ends
  PROVE  ReceiverOK([q EXCEPT !.state = x, !.xfer = y])
  <1>. DEFINE p == [q EXCEPT !.state = x, !.xfer = y]
  <1>1. IsReceiver(p) /\ SameRing(p, q)
    BY DEF ReceiverOK, IsReceiver, SameRing
  <1>. HIDE DEF p
  <1>2. ReceiverOK(p)
    BY <1>1, RingStays DEF ReceiverOK
  <1>. QED
    BY <1>2 DEF p

(* receive_RF() *)
LEMMA ReceiveRFOK ==
  ASSUME NEW q, ReceiverOK(q)
  PROVE  ReceiverOK(ReceiveRF(q))
  <1>. DEFINE x == RAckWith(q, "name", 0)
              y == RAck(q, TRUE)
              p == [x EXCEPT !.state = "RDW"]
              e == [y EXCEPT !.state = "COMPLETE", !.xfer = "END"]
  <1>1. ReceiveRF(q) \in {q, p, e, RError(q)}
    BY Zenon DEF ReceiveRF
  <1>2. ReceiverOK(x) /\ ReceiverOK(y)
    BY RAckWithOK, RAckOK
  <1>. HIDE DEF x, y
  <1>3. p = [x EXCEPT !.state = "RDW", !.xfer = x.xfer] /\ x.xfer \in Ends /\ "END" \in Ends
    BY <1>2 DEF ReceiverOK, IsReceiver, Ends
  <1>4. ReceiverOK(p) /\ ReceiverOK(e)
    BY <1>2, <1>3, PutStateOK
  <1>. HIDE DEF p, e
  <1>. QED
    BY <1>1, <1>4, RErrorOK

(* open_receive_file() *)
LEMMA OpenReceiveFileOK ==
  ASSUME NEW q, ReceiverOK(q)
  PROVE  ReceiverOK(OpenReceiveFile(q))
  <1>. DEFINE x == RAckWith(q, "pos", Len(q.got[q.f]))
              g == q.f
              p == [x EXCEPT !.open = g]
              e == [q EXCEPT !.open = g]
  <1>1. OpenReceiveFile(q) \in {p, e, RAckWith(q, "N", 0)}
    BY Zenon DEF OpenReceiveFile
  <1>2. ReceiverOK(x) /\ g \in 0..NFiles
    BY RAckWithOK DEF ReceiverOK, IsReceiver
  <1>. HIDE DEF x, g
  <1>3. IsReceiver(p) /\ SameRing(p, x) /\ IsReceiver(e) /\ SameRing(e, q)
    BY <1>2 DEF ReceiverOK, IsReceiver, SameRing
  <1>. HIDE DEF p, e
  <1>. QED
    BY <1>1, <1>2, <1>3, RingStays, RAckWithOK DEF ReceiverOK

(* decode_input_bytes(): the file of an F packet is in the list. *)
LEMMA RDecodeOK ==
  ASSUME NEW q, ReceiverOK(q), NEW m, IsPacket(m)
  PROVE  ReceiverOK(RDecode(q, m))
  <1>1. ReceiverOK([q EXCEPT !.in = m]) /\ ReceiverOK([RAbort(q) EXCEPT !.in = m])
    BY RErrorOK, PutInOK
  <1>2. ASSUME m.t = "F" PROVE ReceiverOK([q EXCEPT !.in = m, !.f = m.f])
    <2>. DEFINE g == m.f
                p == [q EXCEPT !.in = m, !.f = g]
    <2>1. g \in 0..NFiles
      BY <1>2, Sizes DEF IsPacket
    <2>. HIDE DEF g
    <2>2. IsReceiver(p) /\ SameRing(p, q)
      BY <2>1 DEF ReceiverOK, IsReceiver, SameRing
    <2>. HIDE DEF p
    <2>3. ReceiverOK(p)
      BY <2>2, RingStays DEF ReceiverOK
    <2>. QED
      BY <2>3 DEF p, g
  <1>3. ReceiverOK([q EXCEPT !.in = m, !.text = opt.text])
    <2>. DEFINE b == opt.text
                p == [q EXCEPT !.in = m, !.text = b]
    <2>. HIDE DEF b
    <2>1. IsReceiver(p) /\ SameRing(p, q)
      BY DEF ReceiverOK, IsReceiver, SameRing
    <2>. HIDE DEF p
    <2>2. ReceiverOK(p)
      BY <2>1, RingStays DEF ReceiverOK
    <2>. QED
      BY <2>2 DEF p, b
  <1>4. ReceiverOK(DecodeDataField([q EXCEPT !.in = m]))
    BY <1>1, OpenReceiveFileOK DEF DecodeDataField
  <1>. QED
    BY <1>1, <1>2, <1>3, <1>4 DEF RDecode

LEMMA CloseFileOK ==
  ASSUME NEW q, ReceiverOK(q), NEW whole
  PROVE  ReceiverOK(CloseFile(q, whole))
  <1>. DEFINE c == [q EXCEPT !.xfer = "CRASH"]
              y == RAck(q, TRUE)
              z == 0
              d == IF whole THEN y.done \cup {q.open} ELSE y.done
              p == [y EXCEPT !.open = z, !.f = z, !.state = "RF", !.done = d]
  <1>1. ReceiverOK(y)
    BY RAckOK
  <1>2. CloseFile(q, whole) = c \/ (q.open # 0 /\ CloseFile(q, whole) = p)
    <2>. DEFINE h == [y EXCEPT !.open = 0, !.f = 0, !.state = "RF",
                               !.done = IF whole THEN @ \cup {q.open} ELSE @]
    <2>1. CloseFile(q, whole) = IF q.open = 0 THEN c ELSE h
      BY Zenon DEF CloseFile
    <2>. HIDE DEF y
    <2>2. h = p
      BY <1>1 DEF ReceiverOK, IsReceiver
    <2>. HIDE DEF c, h, p
    <2>. QED
      BY <2>1, <2>2
  <1>. HIDE DEF y
  <1>3. IsReceiver(c) /\ SameRing(c, q)
    BY DEF ReceiverOK, IsReceiver, SameRing, Ends
  <1>4. q.open # 0 => d \in SUBSET (1..NFiles)
    BY <1>1, Sizes DEF ReceiverOK, IsReceiver
  <1>5. z \in 0..NFiles
    BY Sizes
  <1>. HIDE DEF d, z
  <1>6. q.open # 0 => IsReceiver(p) /\ SameRing(p, y)
    BY <1>1, <1>4, <1>5 DEF ReceiverOK, IsReceiver, SameRing
  <1>. HIDE DEF c, p
  <1>. QED
    BY <1>1, <1>2, <1>3, <1>6, RingStays DEF ReceiverOK

(* receive_RDW() *)
LEMMA ReceiveRDWOK ==
  ASSUME NEW q, ReceiverOK(q)
  PROVE  ReceiverOK(ReceiveRDW(q))
  <1>. DEFINE F(x) == IF x.xfer = "CRASH" THEN x
                      ELSE IF x.n > 0 THEN NakPacket(x, q.in.q) ELSE CloseFile(x, TRUE)
              p == WindowSaveAll(q)
              h == F(p)
  <1>1. ReceiveEOF(q) \in {CloseFile(q, FALSE), CloseFile(q, TRUE), h}
    <2>. DEFINE g == Thru(p, LAMBDA x : F(x))
    <2>1. ReceiveEOF(q) \in {CloseFile(q, FALSE), CloseFile(q, TRUE), g}
      BY Zenon DEF ReceiveEOF
    <2>. HIDE DEF F, p
    <2>2. g = h
      BY DEF Thru
    <2>. HIDE DEF g, h
    <2>. QED
      BY <2>1, <2>2, Zenon
  <1>2. ReceiverOK(p) /\ q.in.q \in Nat
    BY WindowSaveAllOK DEF ReceiverOK, IsReceiver, IsPacket
  <1>. HIDE DEF p
  <1>3. ReceiverOK(h)
    BY <1>2, NakPacketOK, CloseFileOK
  <1>. HIDE DEF h
  <1>4. ReceiverOK(ReceiveEOF(q))
    BY <1>1, <1>3, CloseFileOK
  <1>5. ReceiveRDW(q) \in {q, ReceiveEOF(q), RAck(q, FALSE), OpenReceiveFile(q), RError(q)}
    BY Zenon DEF ReceiveRDW
  <1>. QED
    BY <1>4, <1>5, RAckOK, OpenReceiveFileOK, RErrorOK

(* kermit_receive() *)
LEMMA KermitReceiveOK ==
  ASSUME NEW q, ReceiverOK(q)
  PROVE  ReceiverOK(KermitReceive(q))
  <1>. DEFINE p == [q EXCEPT !.state = "R"]
  <1>1. \/ KermitReceive(q) \in {q, ReceiveRF(q), ReceiveRDW(q)}
        \/ q.state = "INIT" /\ KermitReceive(q) = p
        \/ q.state = "R" /\ KermitReceive(q) = ReceiveR(q)
    BY DEF KermitReceive
  <1>2. ASSUME q.state = "INIT" PROVE ReceiverOK(p)
    <2>1. IsReceiver(p) /\ SameRing(p, q)
      BY <1>2 DEF ReceiverOK, IsReceiver, SameRing
    <2>. HIDE DEF p
    <2>. QED
      BY <2>1, RingStays DEF ReceiverOK
  <1>. HIDE DEF p
  <1>. QED
    BY <1>1, <1>2, ReceiveROK, ReceiveRFOK, ReceiveRDWOK

(* encode_output_packet() *)
LEMMA REncodeOK ==
  ASSUME NEW q, ReceiverOK(q)
  PROVE  ReceiverOK(REncode(q))
  <1>. DEFINE o == Append(q.out, q.pkt)
              m == IF q.pkt.t = "NAK" THEN q.last ELSE q.pkt
              p == [q EXCEPT !.out = o, !.last = m]
  <1>1. REncode(q) \in {q, p} /\ IsLine(o) /\ IsPacket(m)
    BY AppendLine DEF REncode, ReceiverOK, IsReceiver
  <1>. HIDE DEF o, m
  <1>2. IsReceiver(p) /\ SameRing(p, q)
    BY <1>1 DEF ReceiverOK, IsReceiver, SameRing
  <1>. HIDE DEF p
  <1>. QED
    BY <1>1, <1>2, RingStays DEF ReceiverOK

(* A round of the loop of kermit() *)
LEMMA RRoundOK ==
  ASSUME NEW q, ReceiverOK(q)
  PROVE  ReceiverOK(RRound(q))
  <1>1. RRound(q) = REncode(KermitReceive(SaveInputPacket(RRepeat(q))))
    BY DEF RRound, Thru
  <1>. QED
    BY <1>1, RRepeatOK, SaveInputPacketOK, KermitReceiveOK, REncodeOK

RDone(q) == [q EXCEPT !.in = None, !.pkt = None, !.out = <<>>]

LEMMA RDoneOK ==
  ASSUME NEW q, ReceiverOK(q)
  PROVE  /\ ReceiverOK(RDone(q)) /\ IsLine(q.out)
         /\ RDone(q).in = None /\ RDone(q).pkt = None /\ RDone(q).out = <<>>
  <1>. DEFINE o == <<>>
              p == [q EXCEPT !.in = None, !.pkt = None, !.out = o]
  <1>1. IsLine(o) /\ IsPacket(None) /\ RDone(q) = p /\ o = <<>>
    BY EmptyLine, NoneType DEF RDone
  <1>. HIDE DEF o
  <1>2. IsReceiver(p) /\ SameRing(p, q) /\ p.in = None /\ p.pkt = None /\ p.out = o
    BY <1>1 DEF ReceiverOK, IsReceiver, SameRing
  <1>. HIDE DEF p
  <1>3. ReceiverOK(p) /\ IsLine(q.out)
    BY <1>2, RingStays DEF ReceiverOK, IsReceiver
  <1>. QED
    BY <1>1, <1>2, <1>3

(* handle_timeout(), whatever is read after the end of the window *)
LEMMA RTimedOutOK ==
  ASSUME ReceiverOK(r), NEW g \in Garbage
  PROVE  ReceiverOK(RTimedOut(g))
  <1>. DEFINE n == r.timeouts + 1
              q == [r EXCEPT !.timeouts = n]
              v == CASE q.n = 0 -> q.seq
                     [] Gaps(q) # {} -> At(q, Min(Gaps(q))).q
                     [] OTHER -> IF q.i = 0 THEN g ELSE q.slots[q.i - 1].q
              a == IF q.timeouts >= KTimeoutMax THEN RAbort(q) ELSE q
  <1>1. RTimedOut(g) = RRound(NakPacket(a, v))
    BY DEF RTimedOut, ReceiverOK, IsReceiver
  <1>2. n \in Nat /\ g \in Nat
    <2>1. SeqEnd(r) \in Nat
      BY RingSlots DEF ReceiverOK
    <2>. QED
      BY <2>1, Sizes DEF ReceiverOK, IsReceiver, Garbage
  <1>. HIDE DEF n
  <1>3. ReceiverOK(q)
    <2>1. IsReceiver(q) /\ SameRing(q, r)
      BY <1>2 DEF ReceiverOK, IsReceiver, SameRing
    <2>. HIDE DEF q
    <2>. QED
      BY <2>1, RingStays DEF ReceiverOK
  <1>. HIDE DEF q
  <1>4. ReceiverOK(a)
    BY <1>3, RErrorOK
  <1>5. v \in Nat
    <2>0. q.seq \in Nat /\ IsRing(q)
      BY <1>3 DEF ReceiverOK, IsReceiver
    <2>1. Gaps(q) # {} => At(q, Min(Gaps(q))).q \in Nat /\ q.n # 0
      <3>1. Gaps(q) # {} => Min(Gaps(q)) \in Nat /\ q.n # 0
        BY <2>0, RingSlots
      <3>. QED
        BY <2>0, <3>1, RingSlots
    <2>2. q.i # 0 => q.slots[q.i - 1].q \in Nat
      <3>1. q.i \in 0..(RWindow(q) - 1)
        BY <2>0, RingSlots
      <3>2. q.i # 0 => q.i - 1 \in 0..(RWindow(q) - 1)
        BY <3>1, RingSize
      <3>3. q.i # 0 => q.i - 1 \in 0..(Window - 1)
        BY <3>2, RingSize
      <3>. QED
        BY <2>0, <3>3 DEF IsRing, IsSlot
    <2>. QED
      BY <1>2, <2>0, <2>1, <2>2
  <1>. HIDE DEF a, v
  <1>. QED
    BY <1>1, <1>4, <1>5, NakPacketOK, RRoundOK

-----------------------------------------------------------------------------
(* The steps *)

(* The next state of each end is one that is in order. *)
LEMMA SenderPrime ==
  ASSUME NEW q, SenderOK(q), s' = q, opt' = opt, q.in = None, q.pkt = None, q.out = <<>>
  PROVE  SenderOK(s)' /\ s'.in = None /\ s'.pkt = None /\ s'.out = <<>>
  BY DEF SenderOK, IsSender, InFile, WinOK, WinLimit, SStreams

LEMMA ReceiverPrime ==
  ASSUME NEW q, ReceiverOK(q), r' = q, q.in = None, q.pkt = None, q.out = <<>>
  PROVE  ReceiverOK(r)' /\ r'.in = None /\ r'.pkt = None /\ r'.out = <<>>
  BY DEF ReceiverOK, IsReceiver, IsRing, RWindow, Place

LEMMA LinePrime ==
  ASSUME IsLine(toR'), IsLine(toS')
  PROVE  IsLine(toR)' /\ IsLine(toS)'
  BY DEF IsLine

LEMMA RReturnIs ==
  ASSUME NEW q, ReceiverOK(q), RReturn(q), IsLine(toS)
  PROVE  /\ ReceiverOK(r)' /\ r'.in = None /\ r'.pkt = None /\ r'.out = <<>>
         /\ IsLine(toS') /\ opt' = opt
  <1>. DEFINE p == RDone(q)
  <1>1. r' = p /\ toS' = toS \o q.out /\ opt' = opt
    BY DEF RReturn, RDone
  <1>2. ReceiverOK(p) /\ IsLine(q.out) /\ p.in = None /\ p.pkt = None /\ p.out = <<>>
    BY RDoneOK
  <1>. HIDE DEF p
  <1>. QED
    BY <1>1, <1>2, ReceiverPrime, ConcatLine

LEMMA ReceiverStepInv ==
  ASSUME KInv, ReceiverStep
  PROVE  KInv'
  <1>1. ReceiverOK(r) /\ IsLine(toR) /\ IsLine(toS) /\ s' = s
    BY DEF KInv, ReceiverStep
  <1>2. ASSUME NEW q, ReceiverOK(q), RReturn(q), IsLine(toR') PROVE KInv'
    <2>1. /\ ReceiverOK(r)' /\ r'.in = None /\ r'.pkt = None /\ r'.out = <<>>
          /\ IsLine(toS') /\ opt' = opt
      BY <1>1, <1>2, RReturnIs
    <2>2. SenderOK(s)' /\ s'.in = None /\ s'.pkt = None /\ s'.out = <<>>
      BY <1>1, <2>1, SenderPrime DEF KInv
    <2>. QED
      BY <1>2, <2>1, <2>2, LinePrime DEF KInv
  <1>3. CASE RFirstCall
    <2>. DEFINE z == TRUE
                q == [r EXCEPT !.called = z]
    <2>1. RReturn(RRound(NakPacket(q, 0))) /\ toR' \in Tossed(toR, 0)
      BY <1>3 DEF RFirstCall
    <2>. HIDE DEF z
    <2>2. IsReceiver(q) /\ SameRing(q, r)
      BY <1>1 DEF ReceiverOK, IsReceiver, SameRing
    <2>. HIDE DEF q
    <2>3. ReceiverOK(RRound(NakPacket(q, 0)))
      BY <1>1, <2>2, RingStays, NakPacketOK, RRoundOK DEF ReceiverOK
    <2>4. IsLine(toR')
      BY <1>1, <2>1, TossedLine
    <2>. QED
      BY <1>2, <2>1, <2>3, <2>4
  <1>4. CASE RInput
    <2>. DEFINE m == Head(toR)
    <2>1. IsPacket(m) /\ IsLine(Tail(toR))
      BY <1>1, <1>4, HeadTailLine DEF RInput
    <2>2. \/ RReturn(r) /\ toR' = Tail(toR)
          \/ RReturn(RRound(RDecode(r, m))) /\ toR' = Tail(toR)
          \/ RReturn(RRound(NakPacket(r, SeqSeen(m)))) /\ toR' \in AfterBad(toR)
      BY <1>4 DEF RInput
    <2>. HIDE DEF m
    <2>3. IsLine(toR')
      BY <1>1, <2>1, <2>2, AfterBadLine
    <2>4. ReceiverOK(RRound(RDecode(r, m)))
      BY <1>1, <2>1, RDecodeOK, RRoundOK
    <2>5. ReceiverOK(RRound(NakPacket(r, SeqSeen(m))))
      <3>1. SeqSeen(m) \in Nat
        BY <2>1 DEF SeqSeen, IsPacket
      <3>. QED
        BY <1>1, <3>1, NakPacketOK, RRoundOK
    <2>. QED
      BY <1>1, <1>2, <2>2, <2>3, <2>4, <2>5
  <1>. QED
    BY <1>3, <1>4 DEF ReceiverStep

(* The timers of one end or of both *)
LEMMA TimeoutInv ==
  ASSUME KInv, Timeout
  PROVE  KInv'
  <1>1. PICK e \in SUBSET {"s", "r"} \ {{}} :
          /\ IF "s" \in e THEN SCanTimeout /\ s' = SDone(STimedOut) /\ toR' = toR \o STimedOut.out
             ELSE UNCHANGED <<s, toR>>
          /\ IF "r" \in e THEN RCanTimeout /\ \E g \in Garbage : RReturn(RTimedOut(g))
             ELSE UNCHANGED <<r, toS, faults, opt>>
    BY DEF Timeout
  <1>2. SenderOK(s) /\ s.in = None /\ s.pkt = None /\ s.out = <<>> /\ ReceiverOK(r)
        /\ r.in = None /\ r.pkt = None /\ r.out = <<>> /\ IsLine(toR) /\ IsLine(toS)
    BY DEF KInv
  <1>3. /\ ReceiverOK(r)' /\ r'.in = None /\ r'.pkt = None /\ r'.out = <<>>
        /\ IsLine(toS') /\ opt' = opt
    <2>1. CASE "r" \in e
      <3>1. PICK g \in Garbage : RReturn(RTimedOut(g))
        BY <1>1, <2>1
      <3>. QED
        BY <1>2, <3>1, RTimedOutOK, RReturnIs
    <2>2. CASE "r" \notin e
      <3>1. r' = r /\ toS' = toS /\ opt' = opt
        BY <1>1, <2>2
      <3>. QED
        BY <1>2, <3>1, ReceiverPrime
    <2>. QED
      BY <2>1, <2>2
  <1>4. SenderOK(s)' /\ s'.in = None /\ s'.pkt = None /\ s'.out = <<>> /\ IsLine(toR')
    <2>1. CASE "s" \in e
      <3>. DEFINE q == SDone(STimedOut)
      <3>1. SCanTimeout /\ s' = q /\ toR' = toR \o STimedOut.out
        BY <1>1, <2>1
      <3>2. SenderOK(STimedOut)
        BY <1>2, <3>1, STimedOutOK
      <3>3. SenderOK(q) /\ IsLine(STimedOut.out) /\ q.in = None /\ q.pkt = None /\ q.out = <<>>
        BY <3>2, SDoneOK
      <3>. HIDE DEF q
      <3>. QED
        BY <1>2, <1>3, <3>1, <3>3, SenderPrime, ConcatLine
    <2>2. CASE "s" \notin e
      <3>1. s' = s /\ toR' = toR
        BY <1>1, <2>2
      <3>. QED
        BY <1>2, <1>3, <3>1, SenderPrime
    <2>. QED
      BY <2>1, <2>2
  <1>. QED
    BY <1>3, <1>4, LinePrime DEF KInv

(* The users *)
LEMMA UsersInv ==
  ASSUME KInv, Users
  PROVE  KInv'
  <1>1. SenderOK(s) /\ s.in = None /\ s.pkt = None /\ s.out = <<>> /\ ReceiverOK(r)
        /\ r.in = None /\ r.pkt = None /\ r.out = <<>> /\ IsLine(toR) /\ IsLine(toS)
    BY DEF KInv
  <1>2. toR' = toR /\ toS' = toS /\ opt' = opt
    BY DEF Users, SUserAbort, SUserSkip, RUserAbort, RUserSkip, klineVars
  <1>3. ASSUME NEW q, SenderOK(q), q.in = None, q.pkt = None, q.out = <<>>, s' = q, r' = r
        PROVE  KInv'
    <2>1. SenderOK(s)' /\ s'.in = None /\ s'.pkt = None /\ s'.out = <<>>
      BY <1>2, <1>3, SenderPrime
    <2>2. ReceiverOK(r)' /\ r'.in = None /\ r'.pkt = None /\ r'.out = <<>>
      BY <1>1, <1>3, ReceiverPrime
    <2>. QED
      BY <1>1, <1>2, <2>1, <2>2, LinePrime DEF KInv
  <1>4. ASSUME NEW q, ReceiverOK(q), q.in = None, q.pkt = None, q.out = <<>>, r' = q, s' = s
        PROVE  KInv'
    <2>1. SenderOK(s)' /\ s'.in = None /\ s'.pkt = None /\ s'.out = <<>>
      BY <1>1, <1>2, <1>4, SenderPrime
    <2>2. ReceiverOK(r)' /\ r'.in = None /\ r'.pkt = None /\ r'.out = <<>>
      BY <1>4, ReceiverPrime
    <2>. QED
      BY <1>1, <1>2, <2>1, <2>2, LinePrime DEF KInv
  <1>5. CASE SUserAbort /\ UNCHANGED r
    <2>1. SAbort(s).in = None /\ SAbort(s).pkt = None /\ SAbort(s).out = <<>>
      BY <1>1 DEF SAbort, SenderOK, IsSender
    <2>. QED
      BY <1>1, <1>3, <1>5, <2>1, SErrorOK DEF SUserAbort
  <1>6. CASE RUserAbort /\ UNCHANGED s
    <2>1. RAbort(r).in = None /\ RAbort(r).pkt = None /\ RAbort(r).out = <<>>
      BY <1>1 DEF RAbort, ReceiverOK, IsReceiver
    <2>. QED
      BY <1>1, <1>4, <1>6, <2>1, RErrorOK DEF RUserAbort
  <1>7. CASE SUserSkip /\ UNCHANGED r
    <2>. DEFINE z == TRUE
                q == [s EXCEPT !.skip = z, !.skips = 1]
    <2>1. s' = q /\ r' = r
      BY <1>7 DEF SUserSkip
    <2>. HIDE DEF z
    <2>2. IsSender(q) /\ InFile(q) /\ SameWin(q, s) /\ q.in = None /\ q.pkt = None /\ q.out = <<>>
      BY <1>1 DEF SenderOK, IsSender, InFile, SameWin
    <2>. HIDE DEF q
    <2>3. SenderOK(q)
      BY <1>1, <2>2, WinStays DEF SenderOK
    <2>. QED
      BY <1>3, <2>1, <2>2, <2>3
  <1>8. CASE RUserSkip /\ UNCHANGED s
    <2>. DEFINE z == TRUE
                q == [r EXCEPT !.skip = z, !.skips = 1]
    <2>1. r' = q /\ s' = s
      BY <1>8 DEF RUserSkip
    <2>. HIDE DEF z
    <2>2. IsReceiver(q) /\ SameRing(q, r) /\ q.in = None /\ q.pkt = None /\ q.out = <<>>
      BY <1>1 DEF ReceiverOK, IsReceiver, SameRing
    <2>. HIDE DEF q
    <2>3. ReceiverOK(q)
      BY <1>1, <2>2, RingStays DEF ReceiverOK
    <2>. QED
      BY <1>4, <2>1, <2>2, <2>3
  <1>. QED
    BY <1>5, <1>6, <1>7, <1>8 DEF Users

(* Noise spoils a packet of either line. *)
LEMMA NoiseInv ==
  ASSUME KInv, Noise
  PROVE  KInv'
  <1>1. s' = s /\ r' = r /\ opt' = opt /\ IsLine(toR) /\ IsLine(toS)
    BY DEF Noise, KInv
  <1>2. PICK k \in NoiseKinds :
          \/ \E i \in DOMAIN toR : toR' = [toR EXCEPT ![i] = Spoilt(@, k)] /\ UNCHANGED toS
          \/ \E i \in DOMAIN toS : toS' = [toS EXCEPT ![i] = Spoilt(@, k)] /\ UNCHANGED toR
    BY DEF Noise, LineNoise
  <1>3. DOMAIN toR = 1..Len(toR) /\ DOMAIN toS = 1..Len(toS)
    BY <1>1 DEF IsLine
  <1>4. IsLine(toR') /\ IsLine(toS')
    <2>1. CASE \E i \in DOMAIN toR : toR' = [toR EXCEPT ![i] = Spoilt(@, k)] /\ UNCHANGED toS
      <3>1. PICK i \in 1..Len(toR) : toR' = [toR EXCEPT ![i] = Spoilt(@, k)] /\ UNCHANGED toS
        BY <1>3, <2>1
      <3>2. IsLine([toR EXCEPT ![i] = Spoilt(@, k)])
        BY <1>1, ExceptLine
      <3>. QED
        BY <1>1, <3>1, <3>2, Zenon
    <2>2. CASE \E i \in DOMAIN toS : toS' = [toS EXCEPT ![i] = Spoilt(@, k)] /\ UNCHANGED toR
      <3>1. PICK i \in 1..Len(toS) : toS' = [toS EXCEPT ![i] = Spoilt(@, k)] /\ UNCHANGED toR
        BY <1>3, <2>2
      <3>2. IsLine([toS EXCEPT ![i] = Spoilt(@, k)])
        BY <1>1, ExceptLine
      <3>. QED
        BY <1>1, <3>1, <3>2, Zenon
    <2>. QED
      BY <1>2, <2>1, <2>2
  <1>5. SenderOK(s)' /\ s'.in = None /\ s'.pkt = None /\ s'.out = <<>>
    BY <1>1, SenderPrime DEF KInv
  <1>6. ReceiverOK(r)' /\ r'.in = None /\ r'.pkt = None /\ r'.out = <<>>
    BY <1>1, ReceiverPrime DEF KInv
  <1>. QED
    BY <1>4, <1>5, <1>6, LinePrime DEF KInv

(* kermit_start() of both ends *)
LEMMA StartInv ==
  ASSUME KInit
  PROVE  KInv
  <1>1. PICK p \in KSetups : s = (IF p.auto THEN SDone(SFirst(SStatus)) ELSE SStatus)
                             /\ r = RStatus(p.disk)
    BY DEF KInit
  <1>2. toR = <<>> /\ toS = <<>>
    BY DEF KInit
  <1>3. ASSUME NEW q, NEW b,
               q = [state |-> "INIT", xfer |-> "RUN", mode |-> "new", seq |-> 0, f |-> 1, pos |-> 0,
                    win |-> <<>>, skip |-> FALSE, skips |-> 0, timeouts |-> 0, called |-> b,
                    in |-> None, pkt |-> None, out |-> <<>>]
        PROVE  SenderOK(q) /\ q.in = None /\ q.pkt = None /\ q.out = <<>>
    <2>. DEFINE e == <<>>
                z == 0
                g == 1
                c == FALSE
    <2>1. /\ IsWindow(e) /\ IsLine(e) /\ Unacked(e) = {} /\ Len(e) = 0 /\ IsPacket(None)
          /\ z \in Nat /\ g \in 1..(NFiles + 1) /\ g <= NFiles /\ e = <<>>
      BY EmptyWin, EmptyLine, NoneType, Sizes
    <2>2. q = [state |-> "INIT", xfer |-> "RUN", mode |-> "new", seq |-> z, f |-> g, pos |-> z,
               win |-> e, skip |-> c, skips |-> z, timeouts |-> z, called |-> b,
               in |-> None, pkt |-> None, out |-> e]
      BY <1>3
    <2>. HIDE DEF e, z, g, c
    <2>3. /\ IsSender(q) /\ InFile(q) /\ q.in = None /\ q.pkt = None /\ q.out = e /\ q.win = e
          /\ q.mode = "new"
      BY <2>1, <2>2 DEF IsSender, InFile
    <2>4. WinOK(q)
      BY <2>1, <2>3, Sizes DEF WinOK, WinLimit
    <2>. QED
      BY <2>1, <2>3, <2>4 DEF SenderOK
  <1>4. SenderOK(s) /\ s.in = None /\ s.pkt = None /\ s.out = <<>>
    <2>1. CASE s = SStatus
      <3>. DEFINE c == FALSE
      <3>1. s = [state |-> "INIT", xfer |-> "RUN", mode |-> "new", seq |-> 0, f |-> 1, pos |-> 0,
                 win |-> <<>>, skip |-> FALSE, skips |-> 0, timeouts |-> 0, called |-> c,
                 in |-> None, pkt |-> None, out |-> <<>>]
        BY <2>1 DEF SStatus
      <3>. HIDE DEF c
      <3>. QED
        BY <1>3, <3>1
    <2>2. CASE s = SDone(SFirst(SStatus))
      <3>. DEFINE c == TRUE
                  q == [SStatus EXCEPT !.called = c]
      <3>1. q = [state |-> "INIT", xfer |-> "RUN", mode |-> "new", seq |-> 0, f |-> 1, pos |-> 0,
                 win |-> <<>>, skip |-> FALSE, skips |-> 0, timeouts |-> 0, called |-> c,
                 in |-> None, pkt |-> None, out |-> <<>>]
        <4>. DEFINE h == FALSE
                    e == <<>>
        <4>1. SStatus = [state |-> "INIT", xfer |-> "RUN", mode |-> "new", seq |-> 0, f |-> 1,
                         pos |-> 0, win |-> e, skip |-> h, skips |-> 0, timeouts |-> 0,
                         called |-> h, in |-> None, pkt |-> None, out |-> e]
          BY DEF SStatus
        <4>. HIDE DEF c, h, e
        <4>2. q = [state |-> "INIT", xfer |-> "RUN", mode |-> "new", seq |-> 0, f |-> 1,
                   pos |-> 0, win |-> e, skip |-> h, skips |-> 0, timeouts |-> 0,
                   called |-> c, in |-> None, pkt |-> None, out |-> e]
          BY <4>1
        <4>. QED
          BY <4>2 DEF h, e
      <3>2. s = SDone(SRound(q))
        BY <2>2 DEF SFirst
      <3>. HIDE DEF c, q
      <3>3. SenderOK(q)
        BY <1>3, <3>1
      <3>. QED
        BY <3>2, <3>3, SRoundOK, SDoneOK
    <2>. QED
      BY <1>1, <2>1, <2>2
  <1>5. ReceiverOK(r) /\ r.in = None /\ r.pkt = None /\ r.out = <<>>
    <2>. DEFINE e == <<>>
                z == 0
                c == FALSE
                v == EmptyWindow
                d == {}
                g == p.disk
    <2>1. /\ IsLine(e) /\ IsPacket(None) /\ z = 0 /\ z \in Nat /\ z \in 0..NFiles /\ e = <<>>
          /\ d \in SUBSET (1..NFiles)
      BY EmptyLine, NoneType, Sizes
    <2>2. r = [state |-> "INIT", xfer |-> "RUN", mode |-> "new", seq |-> z, f |-> z, open |-> z,
               slots |-> v, begin |-> z, i |-> z, n |-> z, last |-> None,
               skip |-> c, skips |-> z, timeouts |-> z, called |-> c, text |-> c,
               got |-> g, done |-> d, in |-> None, pkt |-> None, out |-> e]
      BY <1>1 DEF RStatus
    <2>3. v = [j \in 0..(Window - 1) |-> v[j]] /\ \A j \in 0..(Window - 1) : IsSlot(v[j])
      BY EmptyWindowOK
    <2>. HIDE DEF e, z, c, v, d, g
    <2>4. /\ IsReceiver(r) /\ r.in = None /\ r.pkt = None /\ r.out = e
          /\ r.slots = v /\ r.begin = z /\ r.i = z /\ r.n = z
      BY <2>1, <2>2 DEF IsReceiver, Ends
    <2>5. RWindow(r) \in Nat \ {0}
      BY RingSize
    <2>6. (0 + 0) % RWindow(r) = 0
      BY <2>5
    <2>7. IsRing(r)
      BY <2>1, <2>3, <2>4, <2>5, <2>6 DEF IsRing, Place
    <2>. QED
      BY <2>1, <2>4, <2>7 DEF ReceiverOK
  <1>. QED
    BY <1>2, <1>4, <1>5, EmptyLine DEF KInv

LEMMA NextInv ==
  ASSUME KInv, [KNext]_kermitVars
  PROVE  KInv'
  <1>1. CASE UNCHANGED kermitVars
    <2>1. s' = s /\ r' = r /\ opt' = opt /\ toR' = toR /\ toS' = toS
      BY <1>1 DEF kermitVars, klineVars, rkVars
    <2>2. SenderOK(s)' /\ s'.in = None /\ s'.pkt = None /\ s'.out = <<>>
      BY <2>1, SenderPrime DEF KInv
    <2>3. ReceiverOK(r)' /\ r'.in = None /\ r'.pkt = None /\ r'.out = <<>>
      BY <2>1, ReceiverPrime DEF KInv
    <2>. QED
      BY <2>1, <2>2, <2>3, LinePrime DEF KInv
  <1>2. CASE KNext
    BY <1>2, SenderStepInv, ReceiverStepInv, TimeoutInv, UsersInv, NoiseInv DEF KNext
  <1>. QED
    BY <1>1, <1>2

-----------------------------------------------------------------------------
(* Whatever the setup, the noise, the users and the timers do, both ends,  *)
(* their windows and the line stay in order.                               *)
THEOREM KermitInvariant == KSpec => []KInv
  <1>1. KInit => KInv
    BY StartInv
  <1>2. KInv /\ [KNext]_kermitVars => KInv'
    BY NextInv
  <1>. QED
    BY <1>1, <1>2, PTL DEF KSpec

(***************************************************************************)
(* Type correctness of both ends: in particular the input window of the    *)
(* receiver is a ring whatever save_input_packet(), nak_packet() and       *)
(* window_save_all() do to it, its end n slots after its begin, and the    *)
(* output window of the sender never holds more than it may.               *)
(***************************************************************************)
THEOREM KermitTypes == KSpec => []KTypeOK
  <1>1. KInv => KTypeOK
    <2>1. SUFFICES ASSUME KInv PROVE KTypeOK
      OBVIOUS
    <2>2. Len(s.win) <= Window
      <3>1. Len(s.win) \in Nat /\ WinLimit(s) \in Nat /\ WinLimit(s) <= Window
            /\ Len(s.win) <= WinLimit(s) /\ Window \in Nat
        BY <2>1, UnackedIn, Sizes DEF KInv, SenderOK, IsSender, WinOK, WinLimit
      <3>. QED
        BY <3>1
    <2>3. s.xfer \in Ends /\ s.mode \in {"new", "stream", "window", "plain"}
          /\ s.seq \in Nat /\ s.f \in 1..(NFiles + 1)
      BY <2>1 DEF KInv, SenderOK, IsSender, Ends
    <2>4. /\ r.xfer \in Ends /\ r.mode \in {"new", "stream", "window"} /\ r.seq \in Nat
          /\ r.f \in 0..NFiles /\ r.open \in 0..NFiles /\ r.done \subseteq 1..NFiles
      BY <2>1 DEF KInv, ReceiverOK, IsReceiver
    <2>5. r.begin \in 0..(RWindow(r) - 1) /\ r.n \in 0..RWindow(r) /\ r.i = Place(r, r.n)
      BY <2>1 DEF KInv, ReceiverOK, IsRing
    <2>. QED
      BY <2>2, <2>3, <2>4, <2>5 DEF KTypeOK
  <1>. QED
    BY <1>1, KermitInvariant, PTL

(* The abort() of the sender's handle_timeout() is never reached. *)
THEOREM SenderTimeout == KSpec => []TimeoutFindsPacket
  <1>1. KInv => TimeoutFindsPacket
    BY DEF KInv, SenderOK, IsSender, TimeoutFindsPacket
  <1>. QED
    BY <1>1, KermitInvariant, PTL
=============================================================================
