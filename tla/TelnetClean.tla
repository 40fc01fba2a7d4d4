---------------------------- MODULE TelnetClean -----------------------------
(***************************************************************************)
(* What an end of a telnet connection between two qodems reads is what the *)
(* other one wrote.                                                        *)
(***************************************************************************)
EXTENDS TelnetProofs, SequenceFacts

(* What is sent; a message for the user may be taken for an option. *)
Line == TChars \cup {"closed"}

(***************************************************************************)
(* What matters of the parser of an end to the bytes that it delivers: what*)
(* it waits for, whether it is in binary mode, and the bytes d delivered.  *)
(***************************************************************************)
Waits(n) ==
  IF n.sub THEN (IF n.iac THEN "SBIAC" ELSE "SB")
  ELSE IF n.dowill # "" THEN n.dowill ELSE IF n.iac THEN "IAC" ELSE ""

Mode(n) == IF Binary(n) THEN "binary" ELSE "ascii"

At(st, mode, d) == [st |-> st, mode |-> mode, data |-> d]

View(n, d) == At(Waits(n), Mode(n), d)

(* Between two commands, in binary mode; and at the start *)
Neutral(d) == At("", "binary", d)
Fresh == At("", "ascii", <<>>)

(* A byte of the user comes only in binary mode. *)
Legal(v, ch) == v.st # "" \/ ch = "IAC" \/ v.mode = "binary"

(* The effect of a byte *)
StepSt(st, ch) ==
  CASE st = "SB"    -> IF ch = "IAC" THEN "SBIAC" ELSE "SB"
    [] st = "SBIAC" -> IF ch = "SE" THEN "" ELSE "SBIAC"
    [] st \in Verbs -> ""
    [] st = "IAC"   -> IF ch \in Verbs \cup {"SB"} THEN ch ELSE ""
    [] OTHER        -> IF ch = "IAC" THEN "IAC" ELSE ""

StepMode(st, mode, ch) ==
  IF st \in Verbs /\ ch = "0" THEN (IF st \in {"WILL", "DO"} THEN "binary" ELSE "ascii") ELSE mode

StepOut(st, ch) ==
  IF (st = "" /\ ch # "IAC") \/ (st = "IAC" /\ ch = "IAC") THEN <<ch>> ELSE <<>>

Step(v, ch) == At(StepSt(v.st, ch), StepMode(v.st, v.mode, ch), v.data \o StepOut(v.st, ch))

(* The parser comes from v to u with the bytes of line. *)
Run(run, v, line, u) ==
  /\ run[0] = v /\ run[Len(line)] = u
  /\ \A k \in 1..Len(line) : Legal(run[k - 1], line[k]) /\ run[k] = Step(run[k - 1], line[k])

Path(v, line, u) == \E run : Run(run, v, line, u)

-----------------------------------------------------------------------------
LEMMA PathEmpty ==
  ASSUME NEW v
  PROVE  Path(v, <<>>, v)
  <1>1. Run([k \in {0} |-> v], v, <<>>, v)
    BY DEF Run
  <1>. QED
    BY <1>1 DEF Path

LEMMA PathCat ==
  ASSUME NEW v, NEW u, NEW w, NEW a \in Seq(Line), NEW b \in Seq(Line),
         Path(v, a, u), Path(u, b, w)
  PROVE  Path(v, a \o b, w)
  <1>. DEFINE n == Len(a)
              m == Len(b)
  <1>1. n \in Nat /\ m \in Nat /\ Len(a \o b) = n + m
        /\ \A i \in 1..(n + m) : (a \o b)[i] = IF i <= n THEN a[i] ELSE b[i - n]
    BY LenProperties, ConcatProperties
  <1>2. PICK f : Run(f, v, a, u)
    BY DEF Path
  <1>3. PICK g : Run(g, u, b, w)
    BY DEF Path
  <1>. DEFINE h == [k \in 0..(n + m) |-> IF k <= n THEN f[k] ELSE g[k - n]]
              line == a \o b
  <1>4. h[0] = v
    BY <1>1, <1>2 DEF Run
  <1>5. h[n + m] = w /\ f[n] = g[0]
    <2>1. CASE m = 0
      BY <1>1, <1>2, <1>3, <2>1 DEF Run
    <2>2. CASE m # 0
      <3>1. h[n + m] = g[m] /\ f[n] = u /\ g[0] = u /\ g[m] = w
        <4>1. n + m \in 0..(n + m) /\ ~(n + m <= n) /\ (n + m) - n = m
          BY <1>1, <2>2
        <4>. QED
          BY <4>1, <1>2, <1>3 DEF Run
      <3>. QED
        BY <3>1
    <2>. QED
      BY <2>1, <2>2
  <1>6. ASSUME NEW k \in 1..(n + m)
        PROVE  Legal(h[k - 1], line[k]) /\ h[k] = Step(h[k - 1], line[k])
    <2>1. CASE k <= n
      <3>1. k \in 1..n /\ h[k - 1] = f[k - 1] /\ h[k] = f[k] /\ line[k] = a[k]
        BY <1>1, <2>1
      <3>. QED
        BY <1>2, <3>1 DEF Run
    <2>2. CASE k > n
      <3>1. k - n \in 1..m /\ (k - n) - 1 = (k - 1) - n
        BY <1>1, <2>2
      <3>2. h[k] = g[k - n] /\ line[k] = b[k - n]
        BY <1>1, <2>2
      <3>3. h[k - 1] = g[(k - n) - 1]
        <4>1. CASE k - 1 = n
          BY <1>1, <1>5, <4>1
        <4>2. CASE k - 1 # n
          BY <1>1, <2>2, <4>2
        <4>. QED
          BY <4>1, <4>2
      <3>. QED
        BY <1>3, <3>1, <3>2, <3>3 DEF Run
    <2>. QED
      BY <1>1, <2>1, <2>2
  <1>7. Run(h, v, line, w)
    <2>. HIDE DEF h, line
    <2>1. Len(line) = n + m
      BY <1>1 DEF line
    <2>. HIDE DEF n, m
    <2>. QED
      BY <1>4, <1>5, <1>6, <2>1 DEF Run
  <1>. QED
    BY <1>7 DEF Path

LEMMA PathOne ==
  ASSUME NEW v, NEW ch, Legal(v, ch)
  PROVE  Path(v, <<ch>>, Step(v, ch))
  <1>. DEFINE f == [k \in 0..1 |-> IF k = 0 THEN v ELSE Step(v, ch)]
  <1>1. f[0] = v /\ f[1] = Step(v, ch)
    OBVIOUS
  <1>. HIDE DEF f
  <1>2. Run(f, v, <<ch>>, Step(v, ch))
    BY <1>1 DEF Run
  <1>. QED
    BY <1>2 DEF Path

LEMMA PathTail ==
  ASSUME NEW v, NEW u, NEW line \in Seq(Line), line # <<>>, Path(v, line, u)
  PROVE  Legal(v, Head(line)) /\ Path(Step(v, Head(line)), Tail(line), u)
  <1>. DEFINE n == Len(line)
              t == Tail(line)
              c == Head(line)
  <1>1. /\ n \in Nat \ {0} /\ Len(t) = n - 1 /\ line[1] = c
        /\ \A i \in 1..(n - 1) : t[i] = line[i + 1]
    BY HeadTailProperties, EmptySeq
  <1>2. PICK f : Run(f, v, line, u)
    BY DEF Path
  <1>. DEFINE g == [k \in 0..(n - 1) |-> f[k + 1]]
  <1>3. Legal(v, c) /\ f[1] = Step(v, c)
    <2>1. 1 \in 1..n /\ 1 - 1 = 0
      BY <1>1
    <2>2. f[0] = v /\ Legal(f[1 - 1], line[1]) /\ f[1] = Step(f[1 - 1], line[1])
      BY <1>2, <2>1 DEF Run
    <2>. QED
      BY <1>1, <2>1, <2>2
  <1>4. g[0] = Step(v, c) /\ g[n - 1] = u
    BY <1>1, <1>2, <1>3 DEF Run
  <1>5. ASSUME NEW k \in 1..(n - 1)
        PROVE  Legal(g[k - 1], t[k]) /\ g[k] = Step(g[k - 1], t[k])
    <2>1. k + 1 \in 1..n /\ (k + 1) - 1 = k /\ g[k - 1] = f[k] /\ g[k] = f[k + 1] /\ t[k] = line[k + 1]
      BY <1>1
    <2>. QED
      BY <1>2, <2>1 DEF Run
  <1>6. Run(g, Step(v, c), t, u)
    <2>. HIDE DEF g, t, c, n
    <2>. QED
      BY <1>1, <1>4, <1>5 DEF Run
  <1>. QED
    BY <1>3, <1>6 DEF Path

(* s begins with x. *)
Begins(x, s) == \E t \in Seq(Line) : s = x \o t

(* What is delivered is not taken back. *)
LEMMA PathGrows ==
  ASSUME NEW v, NEW x \in Seq(Line), v.data = x, NEW u, NEW line \in Seq(Line), Path(v, line, u)
  PROVE  Begins(x, u.data)
  <1>1. PICK f : Run(f, v, line, u)
    BY DEF Path
  <1>. DEFINE n == Len(line)
              g == [k \in 0..n |-> f[k].data]
  <1>2. n \in Nat
    BY LenProperties
  <1>3. ASSUME NEW k \in Nat, k + 1 <= n
        PROVE  \E o \in Seq(Line) : g[k + 1] = g[k] \o o
    <2>1. k + 1 \in 1..n /\ (k + 1) - 1 = k /\ k \in 0..n /\ k + 1 \in 0..n
      BY <1>2, <1>3
    <2>. DEFINE c == line[k + 1]
                o == StepOut(f[k].st, c)
    <2>2. f[k + 1] = Step(f[(k + 1) - 1], c)
      BY <1>1, <2>1 DEF Run
    <2>3. f[k + 1] = Step(f[k], c)
      BY <2>1, <2>2
    <2>4. Step(f[k], c).data = f[k].data \o o
      BY DEF Step, At
    <2>5. o \in Seq(Line)
      <3>1. c \in Line
        BY <2>1, ElementOfSeq
      <3>. HIDE DEF c
      <3>2. <<c>> \in Seq(Line) /\ <<>> \in Seq(Line)
        BY <3>1
      <3>. QED
        BY <3>2 DEF StepOut
    <2>. HIDE DEF o
    <2>. QED
      BY <2>1, <2>3, <2>4, <2>5
  <1>4. g[0] = x /\ g[n] = u.data
    BY <1>1, <1>2 DEF Run
  <1>. HIDE DEF g
  <1>. DEFINE S == {k \in Nat : k <= n => Begins(x, g[k])}
  <1>5. 0 \in S
    <2>1. g[0] = x \o <<>> /\ <<>> \in Seq(Line)
      BY <1>4, ConcatEmptySeq
    <2>2. Begins(x, g[0])
      BY <2>1 DEF Begins
    <2>. QED
      BY <2>2
  <1>6. ASSUME NEW k \in Nat, k \in S PROVE k + 1 \in S
    <2>. SUFFICES ASSUME k + 1 <= n PROVE Begins(x, g[k + 1])
      OBVIOUS
    <2>5. Begins(x, g[k])
      BY <1>2, <1>6
    <2>1. PICK t \in Seq(Line) : g[k] = x \o t
      BY <2>5 DEF Begins
    <2>2. PICK o \in Seq(Line) : g[k + 1] = g[k] \o o
      BY <1>3
    <2>3. (x \o t) \o o = x \o (t \o o)
      BY ConcatAssociative
    <2>4. t \o o \in Seq(Line)
      BY ConcatProperties
    <2>. QED
      BY <2>1, <2>2, <2>3, <2>4 DEF Begins
  <1>. HIDE DEF S
  <1>7. n \in S
    BY <1>2, <1>5, <1>6, Induction
  <1>8. Begins(x, g[n])
    BY <1>2, <1>7 DEF S
  <1>. QED
    BY <1>4, <1>8

-----------------------------------------------------------------------------
(* In binary mode the bytes x deliver b, and no more, whatever was before. *)
Says(x, b) ==
  /\ x \in Seq(Line) /\ b \in Seq(Line)
  /\ \A d \in Seq(Line) : Path(Neutral(d), x, Neutral(d \o b))

LEMMA SaysEmpty == Says(<<>>, <<>>)
  <1>1. ASSUME NEW d \in Seq(Line) PROVE Path(Neutral(d), <<>>, Neutral(d \o <<>>))
    BY PathEmpty, ConcatEmptySeq
  <1>. QED
    BY <1>1 DEF Says

LEMMA SaysCat ==
  ASSUME NEW x, NEW b, Says(x, b), NEW y, NEW c, Says(y, c)
  PROVE  Says(x \o y, b \o c)
  <1>1. x \in Seq(Line) /\ y \in Seq(Line) /\ b \in Seq(Line) /\ c \in Seq(Line)
    BY DEF Says
  <1>2. x \o y \in Seq(Line) /\ b \o c \in Seq(Line)
    BY <1>1, ConcatProperties
  <1>3. ASSUME NEW d \in Seq(Line) PROVE Path(Neutral(d), x \o y, Neutral(d \o (b \o c)))
    <2>1. d \o b \in Seq(Line) /\ (d \o b) \o c = d \o (b \o c)
      <3>1. d \o b \in Seq(Line)
        BY <1>1, ConcatProperties
      <3>2. (d \o b) \o c = d \o (b \o c)
        BY <1>1, ConcatAssociative
      <3>. QED
        BY <3>1, <3>2
    <2>2. Path(Neutral(d), x, Neutral(d \o b)) /\ Path(Neutral(d \o b), y, Neutral((d \o b) \o c))
      BY <2>1 DEF Says
    <2>. QED
      BY <1>1, <2>1, <2>2, PathCat
  <1>. QED
    BY <1>2, <1>3 DEF Says

(* A byte of the user *)
LEMMA SaysByte ==
  ASSUME NEW ch \in Line, ch # "IAC"
  PROVE  Says(<<ch>>, <<ch>>)
  <1>1. ASSUME NEW d \in Seq(Line) PROVE Path(Neutral(d), <<ch>>, Neutral(d \o <<ch>>))
    <2>1. Legal(Neutral(d), ch) /\ Step(Neutral(d), ch) = Neutral(d \o <<ch>>)
      BY DEF Legal, Step, StepSt, StepMode, StepOut, Neutral, At, Verbs
    <2>. QED
      BY <2>1, PathOne
  <1>. QED
    BY <1>1 DEF Says

(* IAC, and bytes that end in a state like that of the start *)
LEMMA IacNamed == "IAC" \in Line /\ "SB" \in Line /\ "SE" \in Line /\ "CR" \in Line
                  /\ "LF" \in Line /\ Verbs \subseteq Line /\ Options \subseteq Line
  BY TelnetAssumption DEF Line

LEMMA PathTwo ==
  ASSUME NEW v, NEW a \in Line, NEW b \in Line, Legal(v, a), Legal(Step(v, a), b)
  PROVE  Path(v, <<a, b>>, Step(Step(v, a), b))
  <1>1. <<a, b>> = <<a>> \o <<b>> /\ <<a>> \in Seq(Line) /\ <<b>> \in Seq(Line)
    BY Two
  <1>. QED
    BY <1>1, PathOne, PathCat

LEMMA PathThree ==
  ASSUME NEW v, NEW a \in Line, NEW b \in Line, NEW c \in Line,
         Legal(v, a), Legal(Step(v, a), b), Legal(Step(Step(v, a), b), c)
  PROVE  Path(v, <<a, b, c>>, Step(Step(Step(v, a), b), c))
  <1>1. <<a, b, c>> = <<a, b>> \o <<c>> /\ <<a, b>> \in Seq(Line) /\ <<c>> \in Seq(Line)
    BY Three
  <1>2. Path(v, <<a, b>>, Step(Step(v, a), b))
    BY PathTwo
  <1>3. Path(Step(Step(v, a), b), <<c>>, Step(Step(Step(v, a), b), c))
    BY PathOne
  <1>. QED
    BY <1>1, <1>2, <1>3, PathCat

LEMMA SaysIac == Says(<<"IAC", "IAC">>, <<"IAC">>)
  <1>1. ASSUME NEW d \in Seq(Line) PROVE Path(Neutral(d), <<"IAC", "IAC">>, Neutral(d \o <<"IAC">>))
    <2>1. Step(Neutral(d), "IAC") = At("IAC", "binary", d)
      <3>1. d \o <<>> = d
        BY ConcatEmptySeq
      <3>. QED
        BY <3>1 DEF Step, StepSt, StepMode, StepOut, Neutral, At, Verbs
    <2>2. Step(At("IAC", "binary", d), "IAC") = Neutral(d \o <<"IAC">>)
      BY DEF Step, StepSt, StepMode, StepOut, Neutral, At, Verbs
    <2>3. Legal(Neutral(d), "IAC") /\ Legal(At("IAC", "binary", d), "IAC")
      BY DEF Legal
    <2>. QED
      BY <2>1, <2>2, <2>3, PathTwo, IacNamed
  <1>. QED
    BY <1>1, IacNamed DEF Says

(* A command: binary mode is only ended by WONT and DONT. *)
LEMMA Commanded ==
  ASSUME NEW mode \in {"ascii", "binary"}, NEW d \in Seq(Line), NEW verb \in Verbs, NEW o \in Line
  PROVE  Path(At("", mode, d), Command(verb, o), At("", StepMode(verb, mode, o), d))
  <1>. DEFINE v == At("", mode, d)
              v1 == At("IAC", mode, d)
              v2 == At(verb, mode, d)
  <1>1. d \o <<>> = d
    BY ConcatEmptySeq
  <1>2. Step(v, "IAC") = v1
    BY <1>1 DEF Step, StepSt, StepMode, StepOut, At, Verbs
  <1>3. Step(v1, verb) = v2
    BY <1>1 DEF Step, StepSt, StepMode, StepOut, At, Verbs
  <1>4. Step(v2, o) = At("", StepMode(verb, mode, o), d)
    <2>1. StepSt(verb, o) = ""
      BY DEF StepSt, Verbs
    <2>2. StepOut(verb, o) = <<>>
      BY DEF StepOut, Verbs
    <2>. QED
      BY <1>1, <2>1, <2>2 DEF Step, At
  <1>5. Legal(v, "IAC") /\ Legal(v1, verb) /\ Legal(v2, o)
    BY DEF Legal, At, Verbs
  <1>. HIDE DEF v, v1, v2
  <1>6. Path(v, Command(verb, o), Step(v2, o))
    BY <1>2, <1>3, <1>5, PathThree, IacNamed DEF Command
  <1>. QED
    BY <1>4, <1>6 DEF v

LEMMA SaysCommand ==
  ASSUME NEW verb \in Verbs, NEW o \in Line, o = "0" => verb \in {"WILL", "DO"}
  PROVE  Says(Command(verb, o), <<>>)
  <1>1. ASSUME NEW d \in Seq(Line) PROVE Path(Neutral(d), Command(verb, o), Neutral(d \o <<>>))
    <2>1. d \o <<>> = d /\ StepMode(verb, "binary", o) = "binary"
      BY ConcatEmptySeq DEF StepMode
    <2>. QED
      BY <2>1, Commanded DEF Neutral
  <1>2. Command(verb, o) \in Seq(Line)
    BY IacNamed DEF Command
  <1>. QED
    BY <1>1, <1>2 DEF Says

-----------------------------------------------------------------------------
(* The bytes of a sub-negotiation; IAC is doubled.  A doubled IAC leaves   *)
(* the parser waiting for SE: see SubnegByte.                              *)
Escaped(c) == IF c = "IAC" THEN <<"IAC", "IAC">> ELSE <<c>>

Within(d, st) == At(st, "binary", d)

Inside == {"SB", "SBIAC"}
InOrOut == {"SB", "SBIAC", ""}

LEMMA EscapedType ==
  ASSUME NEW c \in Line
  PROVE  Escaped(c) \in Seq(Line)
  <1>1. <<c>> \in Seq(Line) /\ <<"IAC", "IAC">> \in Seq(Line)
    BY IacNamed
  <1>. QED
    BY <1>1 DEF Escaped

LEMMA SubBegins ==
  ASSUME NEW d \in Seq(Line), NEW o \in Line, o # "IAC"
  PROVE  Path(Neutral(d), <<"IAC", "SB", o>>, Within(d, "SB"))
  <1>. DEFINE v == Neutral(d)
              v1 == Within(d, "IAC")
              v2 == Within(d, "SB")
  <1>1. d \o <<>> = d
    BY ConcatEmptySeq
  <1>2. Step(v, "IAC") = v1 /\ Step(v1, "SB") = v2 /\ Step(v2, o) = v2
    BY <1>1 DEF Step, StepSt, StepMode, StepOut, Neutral, Within, At, Verbs
  <1>3. Legal(v, "IAC") /\ Legal(v1, "SB") /\ Legal(v2, o)
    BY DEF Legal, Within, At
  <1>. HIDE DEF v, v1, v2
  <1>4. Path(v, <<"IAC", "SB", o>>, v2)
    BY <1>2, <1>3, PathThree, IacNamed
  <1>. QED
    BY <1>4 DEF v, v2

LEMMA SubGoesOn ==
  ASSUME NEW d \in Seq(Line), NEW st \in Inside, NEW c \in Line
  PROVE  /\ \E st2 \in InOrOut : Path(Within(d, st), Escaped(c), Within(d, st2))
         /\ c # "SE" => \E st2 \in Inside : Path(Within(d, st), Escaped(c), Within(d, st2))
  <1>. USE DEF Inside, InOrOut
  <1>1. d \o <<>> = d
    BY ConcatEmptySeq
  <1>2. ASSUME NEW s2 \in {"SB", "SBIAC"}, NEW b
        PROVE  /\ Legal(Within(d, s2), b)
               /\ Step(Within(d, s2), b) =
                    Within(d, IF s2 = "SB" THEN (IF b = "IAC" THEN "SBIAC" ELSE "SB")
                              ELSE IF b = "SE" THEN "" ELSE "SBIAC")
    BY <1>1 DEF Legal, Step, StepSt, StepMode, StepOut, Within, At, Verbs
  <1>3. CASE c = "IAC"
    <2>1. Step(Within(d, st), "IAC") = Within(d, "SBIAC") /\ Legal(Within(d, st), "IAC")
      BY <1>2
    <2>2. Step(Within(d, "SBIAC"), "IAC") = Within(d, "SBIAC") /\ Legal(Within(d, "SBIAC"), "IAC")
      BY <1>2
    <2>3. Path(Within(d, st), <<"IAC", "IAC">>, Within(d, "SBIAC"))
      BY <2>1, <2>2, PathTwo, IacNamed
    <2>. QED
      BY <1>3, <2>3 DEF Escaped
  <1>4. CASE c # "IAC"
    <2>1. Path(Within(d, st), <<c>>, Step(Within(d, st), c))
      BY <1>2, PathOne
    <2>2. Escaped(c) = <<c>>
      BY <1>4 DEF Escaped
    <2>3. CASE st = "SB"
      BY <1>2, <1>4, <2>1, <2>2, <2>3
    <2>4. CASE st = "SBIAC" /\ c = "SE"
      <3>1. Step(Within(d, st), c) = Within(d, "")
        BY <1>2, <2>4
      <3>. QED
        BY <2>1, <2>2, <2>4, <3>1
    <2>5. CASE st = "SBIAC" /\ c # "SE"
      <3>1. Step(Within(d, st), c) = Within(d, "SBIAC")
        BY <1>2, <2>5
      <3>. QED
        BY <2>1, <2>2, <2>5, <3>1
    <2>. QED
      BY <2>3, <2>4, <2>5
  <1>. QED
    BY <1>3, <1>4

(* IAC SE ends it; if SE among the data has done so, it is no command. *)
LEMMA SubEnds ==
  ASSUME NEW d \in Seq(Line), NEW st \in InOrOut
  PROVE  Path(Within(d, st), <<"IAC", "SE">>, Neutral(d))
  <1>. USE DEF InOrOut
  <1>. DEFINE st2 == IF st = "" THEN "IAC" ELSE "SBIAC"
  <1>1. d \o <<>> = d
    BY ConcatEmptySeq
  <1>2. Step(Within(d, st), "IAC") = Within(d, st2) /\ Step(Within(d, st2), "SE") = Neutral(d)
    BY <1>1 DEF Step, StepSt, StepMode, StepOut, Neutral, Within, At, Verbs
  <1>3. Legal(Within(d, st), "IAC") /\ Legal(Within(d, st2), "SE")
    BY DEF Legal, Within, At
  <1>. HIDE DEF st2
  <1>. QED
    BY <1>2, <1>3, PathTwo, IacNamed

(* One byte of data: the answers of handle_subneg() *)
LEMMA SaysSubOne ==
  ASSUME NEW o \in Line, o # "IAC"
  PROVE  Says(Subneg(o, <<"0">>), <<>>)
  <1>1. "0" \in Line
    BY IacNamed DEF Options
  <1>2. <<"IAC", "SB", o>> \in Seq(Line) /\ <<"0">> \in Seq(Line) /\ <<"IAC", "SE">> \in Seq(Line)
    BY <1>1, IacNamed
  <1>3. <<"IAC", "SB", o>> \o <<"0">> \in Seq(Line)
        /\ (<<"IAC", "SB", o>> \o <<"0">>) \o <<"IAC", "SE">> \in Seq(Line)
    BY <1>2, ConcatProperties
  <1>4. ASSUME NEW d \in Seq(Line)
        PROVE  Path(Neutral(d), (<<"IAC", "SB", o>> \o <<"0">>) \o <<"IAC", "SE">>, Neutral(d \o <<>>))
    <2>1. d \o <<>> = d /\ Escaped("0") = <<"0">>
      BY ConcatEmptySeq DEF Escaped
    <2>2. PICK st \in InOrOut : Path(Within(d, "SB"), <<"0">>, Within(d, st))
      BY <1>1, <2>1, SubGoesOn DEF Inside
    <2>3. Path(Neutral(d), <<"IAC", "SB", o>> \o <<"0">>, Within(d, st))
      BY <1>2, <2>2, SubBegins, PathCat
    <2>4. Path(Neutral(d), (<<"IAC", "SB", o>> \o <<"0">>) \o <<"IAC", "SE">>, Neutral(d))
      BY <1>2, <1>3, <2>3, SubEnds, PathCat
    <2>. QED
      BY <2>1, <2>4
  <1>. QED
    BY <1>3, <1>4 DEF Says, Subneg

(* The window size *)
IsSize(size) ==
  size \in Seq(Line) /\ Len(size) = 4 /\ {size[1], size[3]} \cap {"IAC", "SE"} = {}

LEMMA NawsFour ==
  ASSUME NEW size \in Seq(Line), Len(size) = 4
  PROVE  /\ NawsData(size) = ((Escaped(size[1]) \o Escaped(size[2])) \o Escaped(size[3])) \o Escaped(size[4])
         /\ \A j \in 1..4 : size[j] \in Line /\ Escaped(size[j]) \in Seq(Line)
  <1>. DEFINE s == [j \in DOMAIN size |-> IF size[j] = "IAC" THEN <<"IAC", "IAC">> ELSE <<size[j]>>]
              E(j) == Escaped(size[j])
  <1>1. ASSUME NEW j \in 1..4 PROVE size[j] \in Line /\ E(j) \in Seq(Line)
    BY EscapedType, ElementOfSeq
  <1>2. DOMAIN size = 1..4
    BY LenProperties
  <1>3. s = [j \in 1..4 |-> E(j)]
    BY <1>2 DEF Escaped
  <1>. HIDE DEF E, s
  <1>. DEFINE t == Append(Append(Append(Append(<<>>, E(1)), E(2)), E(3)), E(4))
              Q == Seq(Seq(Line))
  <1>4. E(1) \in Seq(Line) /\ E(2) \in Seq(Line) /\ E(3) \in Seq(Line) /\ E(4) \in Seq(Line)
    BY <1>1
  <1>5. /\ <<>> \in Q /\ Append(<<>>, E(1)) \in Q /\ Append(Append(<<>>, E(1)), E(2)) \in Q
        /\ Append(Append(Append(<<>>, E(1)), E(2)), E(3)) \in Q
    BY <1>4, AppendProperties
  <1>6. s = t
    <2>1. s \in Q /\ Len(s) = 4
      <3>1. s \in [1..4 -> Seq(Line)]
        BY <1>1, <1>3
      <3>. QED
        BY <3>1, FunctionSeq
    <2>2. t \in Q /\ Len(t) = 4 /\ t[1] = E(1) /\ t[2] = E(2) /\ t[3] = E(3) /\ t[4] = E(4)
      BY <1>4
    <2>3. \A j \in 1..4 : s[j] = t[j]
      BY <1>3, <2>2
    <2>. HIDE DEF t, Q
    <2>4. s = t
      BY <2>1, <2>2, <2>3, SeqEqual DEF Q
    <2>. QED
      BY <2>4
  <1>7. FlattenSeq(t) = (((<<>> \o E(1)) \o E(2)) \o E(3)) \o E(4)
    <2>. DEFINE a == Append(<<>>, E(1))
                b == Append(a, E(2))
                c == Append(b, E(3))
    <2>1. FlattenSeq(a) = <<>> \o E(1)
      BY <1>4, <1>5, FlattenAppend, FlattenEmpty
    <2>2. FlattenSeq(b) = FlattenSeq(a) \o E(2)
      BY <1>4, <1>5, FlattenAppend
    <2>3. FlattenSeq(c) = FlattenSeq(b) \o E(3)
      BY <1>4, <1>5, FlattenAppend
    <2>4. FlattenSeq(t) = FlattenSeq(c) \o E(4)
      BY <1>4, <1>5, FlattenAppend
    <2>. HIDE DEF t, a, b, c
    <2>. QED
      BY <2>1, <2>2, <2>3, <2>4
  <1>8. <<>> \o E(1) = E(1)
    BY <1>4, ConcatEmptySeq
  <1>. QED
    BY <1>1, <1>6, <1>7, <1>8 DEF NawsData, E, s

LEMMA SaysNaws ==
  ASSUME NEW size, IsSize(size)
  PROVE  Says(Subneg("31", NawsData(size)), <<>>)
  <1>. DEFINE E(j) == Escaped(size[j])
              b == <<"IAC", "SB", "31">>
              e == <<"IAC", "SE">>
              x == ((E(1) \o E(2)) \o E(3)) \o E(4)
              C == Seq(Line)
  <1>1. size \in Seq(Line) /\ Len(size) = 4 /\ size[1] # "SE" /\ size[3] # "SE"
        /\ size[1] # "IAC" /\ size[3] # "IAC"
    BY DEF IsSize
  <1>2. NawsData(size) = x /\ \A j \in 1..4 : size[j] \in Line /\ E(j) \in C
    BY <1>1, NawsFour
  <1>3. b \in C /\ e \in C /\ "31" \in Line
    BY IacNamed DEF Options
  <1>4. E(1) \in C /\ E(2) \in C /\ E(3) \in C /\ E(4) \in C
    BY <1>2
  <1>5. ASSUME NEW d \in C
        PROVE  Path(Neutral(d), (b \o x) \o e, Neutral(d \o <<>>))
    <2>1. Path(Neutral(d), b, Within(d, "SB"))
      BY <1>3, SubBegins
    <2>2. Path(Within(d, "SB"), E(1), Within(d, "SB"))
      <3>1. Step(Within(d, "SB"), size[1]) = Within(d, "SB") /\ Legal(Within(d, "SB"), size[1])
        <4>1. d \o <<>> = d
          BY ConcatEmptySeq
        <4>. QED
          BY <1>1, <4>1 DEF Legal, Step, StepSt, StepMode, StepOut, Within, At, Verbs
      <3>2. Escaped(size[1]) = <<size[1]>>
        BY <1>1 DEF Escaped
      <3>. QED
        BY <3>1, <3>2, PathOne
    <2>3. PICK s2 \in Inside : Path(Within(d, "SB"), E(2), Within(d, s2))
      <3>. DEFINE s2 == IF size[2] = "IAC" THEN "SBIAC" ELSE "SB"
      <3>1. Path(Within(d, "SB"), E(2), Within(d, s2))
        <4>1. d \o <<>> = d
          BY ConcatEmptySeq
        <4>2. ASSUME NEW c PROVE Legal(Within(d, "SB"), c) /\ Legal(Within(d, "SBIAC"), c)
          BY DEF Legal, Within, At
        <4>3. CASE size[2] = "IAC"
          <5>1. Step(Within(d, "SB"), "IAC") = Within(d, "SBIAC")
                /\ Step(Within(d, "SBIAC"), "IAC") = Within(d, "SBIAC")
            BY <4>1 DEF Step, StepSt, StepMode, StepOut, Within, At, Verbs
          <5>2. Path(Within(d, "SB"), <<"IAC", "IAC">>, Within(d, "SBIAC"))
            BY <4>2, <5>1, PathTwo, IacNamed
          <5>. QED
            BY <4>3, <5>2 DEF Escaped
        <4>4. CASE size[2] # "IAC"
          <5>1. Step(Within(d, "SB"), size[2]) = Within(d, "SB")
            BY <4>1, <4>4 DEF Step, StepSt, StepMode, StepOut, Within, At, Verbs
          <5>2. Path(Within(d, "SB"), <<size[2]>>, Within(d, "SB"))
            BY <4>2, <5>1, PathOne
          <5>. QED
            BY <4>4, <5>2 DEF Escaped
        <4>. QED
          BY <4>3, <4>4
      <3>2. s2 \in Inside
        BY DEF Inside
      <3>. HIDE DEF s2, E
      <3>. QED
        BY <3>1, <3>2
    <2>4. PICK s3 \in Inside : Path(Within(d, s2), E(3), Within(d, s3))
      BY <1>1, <1>2, <2>3, SubGoesOn
    <2>5. PICK s4 \in InOrOut : Path(Within(d, s3), E(4), Within(d, s4))
      BY <1>2, <2>4, SubGoesOn
    <2>6. Path(Within(d, s4), e, Neutral(d))
      BY SubEnds
    <2>. HIDE DEF E, b, e, C
    <2>7. Path(Within(d, "SB"), E(1) \o E(2), Within(d, s2)) /\ E(1) \o E(2) \in C
      BY <1>4, <2>2, <2>3, PathCat, ConcatProperties DEF C
    <2>8. Path(Within(d, "SB"), (E(1) \o E(2)) \o E(3), Within(d, s3)) /\ (E(1) \o E(2)) \o E(3) \in C
      BY <1>4, <2>7, <2>4, PathCat, ConcatProperties DEF C
    <2>9. Path(Within(d, "SB"), x, Within(d, s4)) /\ x \in C
      BY <1>4, <2>8, <2>5, PathCat, ConcatProperties DEF C
    <2>. HIDE DEF x
    <2>10. Path(Neutral(d), b \o x, Within(d, s4)) /\ b \o x \in C
      BY <1>3, <2>1, <2>9, PathCat, ConcatProperties DEF C
    <2>11. Path(Neutral(d), (b \o x) \o e, Neutral(d))
      BY <1>3, <2>6, <2>10, PathCat DEF C
    <2>12. d \o <<>> = d
      BY ConcatEmptySeq DEF C
    <2>. QED
      BY <2>11, <2>12
  <1>6. (b \o x) \o e \in C
    BY <1>3, <1>4, ConcatProperties
  <1>7. <<>> \in C
    OBVIOUS
  <1>. QED
    BY <1>2, <1>5, <1>6, <1>7 DEF Says, Subneg

-----------------------------------------------------------------------------
(* telnet_send_options() takes an end that was sent nothing yet to binary  *)
(* mode, before any byte of the user.                                      *)
LEMMA OptionsPath ==
  ASSUME NEW n, IsNvt(n), NEW host
  PROVE  SendOptions(n, host).out \in Seq(Line) /\ Path(Fresh, SendOptions(n, host).out, Neutral(<<>>))
  <1>. DEFINE b1 == Command("DO", "0")
              b2 == Command("WILL", "0")
              b3 == Command("DO", "3")
              b4 == Command("WILL", "3")
              s1 == Command("DONT", "1")
              s2 == Command("WILL", "1")
              k1 == Command("WILL", "31")
              k2 == Command("WILL", "24")
              k3 == Command("WILL", "39")
              both == ((b1 \o b2) \o b3) \o b4
              server == s1 \o s2
              client == (k1 \o k2) \o k3
              e == <<>>
  <1>1. SendOptions(n, host).out = both \o IF host THEN server ELSE client
    BY DEF SendOptions, IsNvt
  <1>2. /\ {"0", "1", "3", "31", "24", "39"} \subseteq Line
        /\ "DO" \in Verbs /\ "DONT" \in Verbs /\ "WILL" \in Verbs
    BY IacNamed DEF Options, Verbs
  <1>3. /\ Says(b2, e) /\ Says(b3, e) /\ Says(b4, e) /\ Says(s1, e) /\ Says(s2, e)
        /\ Says(k1, e) /\ Says(k2, e) /\ Says(k3, e)
    BY <1>2, SaysCommand
  <1>4. b1 \in Seq(Line) /\ Path(Fresh, b1, Neutral(e))
    <2>1. StepMode("DO", "ascii", "0") = "binary"
      BY DEF StepMode, Verbs
    <2>2. e \in Seq(Line)
      OBVIOUS
    <2>. QED
      BY <1>2, <2>1, <2>2, Commanded, SaysCommand DEF Fresh, Neutral, Says
  <1>. HIDE DEF b1, b2, b3, b4, s1, s2, k1, k2, k3
  <1>5. e \o e = e /\ e \in Seq(Line)
    BY ConcatEmptySeq
  <1>6. Says(server, e)
    BY <1>3, <1>5, SaysCat
  <1>7. Says(client, e)
    <2>1. Says(k1 \o k2, e)
      BY <1>3, <1>5, SaysCat
    <2>. QED
      BY <1>3, <1>5, <2>1, SaysCat
  <1>8. ASSUME NEW a \in Seq(Line), Path(Fresh, a, Neutral(e)), NEW b, Says(b, e)
        PROVE  a \o b \in Seq(Line) /\ Path(Fresh, a \o b, Neutral(e))
    <2>1. b \in Seq(Line) /\ Path(Neutral(e), b, Neutral(e))
      BY <1>5, <1>8 DEF Says
    <2>. QED
      BY <1>8, <2>1, PathCat, ConcatProperties
  <1>. HIDE DEF e, server, client
  <1>9. b1 \o b2 \in Seq(Line) /\ Path(Fresh, b1 \o b2, Neutral(e))
    BY <1>3, <1>4, <1>8
  <1>10. (b1 \o b2) \o b3 \in Seq(Line) /\ Path(Fresh, (b1 \o b2) \o b3, Neutral(e))
    BY <1>3, <1>8, <1>9
  <1>11. both \in Seq(Line) /\ Path(Fresh, both, Neutral(e))
    BY <1>3, <1>8, <1>10
  <1>. HIDE DEF both
  <1>12. ASSUME NEW x, Says(x, e) PROVE both \o x \in Seq(Line) /\ Path(Fresh, both \o x, Neutral(e))
    BY <1>8, <1>11, <1>12
  <1>. QED
    BY <1>1, <1>6, <1>7, <1>12 DEF e

-----------------------------------------------------------------------------
(* b is a, except that something is sent that delivers nothing. *)
Alike(a, b) ==
  /\ IsNvt(a) /\ IsNvt(b) /\ b.iac = a.iac /\ b.dowill = a.dowill /\ b.sub = a.sub /\ b.on = a.on
  /\ b.rcr = a.rcr /\ b.in = a.in /\ b.wcr = a.wcr /\ b.bare = a.bare /\ b.msg = a.msg

Answers(a, b) ==
  Alike(a, b) /\ a.out \in Seq(Line) /\ \E y : Says(y, <<>>) /\ b.out = a.out \o y

LEMMA AnswersNothing ==
  ASSUME NEW a, IsNvt(a), a.out \in Seq(Line)
  PROVE  Answers(a, a)
  <1>1. a.out = a.out \o <<>>
    BY ConcatEmptySeq
  <1>. QED
    BY <1>1, SaysEmpty DEF Answers, Alike

LEMMA AnswersMore ==
  ASSUME NEW a, NEW b, Answers(a, b), NEW y, Says(y, <<>>), NEW c, c = [b EXCEPT !.out = @ \o y]
  PROVE  Answers(a, c)
  <1>1. PICK x : Says(x, <<>>) /\ b.out = a.out \o x
    BY DEF Answers
  <1>2. x \in Seq(Line) /\ y \in Seq(Line) /\ a.out \in Seq(Line)
    BY <1>1 DEF Says, Answers
  <1>3. IsNvt(b) /\ Alike(a, b)
    BY DEF Answers, Alike
  <1>4. c.out = b.out \o y /\ Alike(b, c)
    BY <1>3 DEF IsNvt, Alike
  <1>5. Alike(a, c)
    BY <1>3, <1>4 DEF Alike
  <1>6. <<>> \o <<>> = <<>>
    BY ConcatEmptySeq
  <1>7. Says(x \o y, <<>>)
    BY <1>1, <1>6, SaysCat
  <1>. DEFINE o == a.out
  <1>8. o \in Seq(Line)
    BY <1>2
  <1>. HIDE DEF o
  <1>9. (o \o x) \o y = o \o (x \o y)
    BY <1>2, <1>8, ConcatAssociative
  <1>10. c.out = a.out \o (x \o y)
    BY <1>1, <1>4, <1>9 DEF o
  <1>. QED
    BY <1>2, <1>5, <1>7, <1>10 DEF Answers

LEMMA AnswersRespond ==
  ASSUME NEW a, NEW b, Answers(a, b), NEW verb \in Verbs, NEW o \in Line,
         o = "0" => verb \in {"WILL", "DO"}
  PROVE  Answers(a, Respond(b, verb, o))
  BY SaysCommand, AnswersMore DEF Respond

LEMMA AnswersNaws ==
  ASSUME NEW a, NEW b, Answers(a, b), NEW size, IsSize(size)
  PROVE  Answers(a, SendNaws(b, size))
  BY SaysNaws, AnswersMore DEF SendNaws, SubResponse

(* handle_subneg() *)
LEMMA AnswersSubneg ==
  ASSUME NEW a, NEW b, Answers(a, b)
  PROVE  Answers(a, HandleSubneg(b))
  <1>. DEFINE o == b.sb[1]
  <1>1. o \in {"24", "32", "39"} => Says(Subneg(o, <<"0">>), <<>>)
    BY SaysSubOne, IacNamed DEF Options
  <1>2. HandleSubneg(b) = b \/ (o \in {"24", "32", "39"} /\ HandleSubneg(b) = SubResponse(b, o, <<"0">>))
    BY DEF HandleSubneg
  <1>. HIDE DEF o
  <1>3. Says(Subneg(o, <<"0">>), <<>>) => Answers(a, SubResponse(b, o, <<"0">>))
    BY AnswersMore DEF SubResponse
  <1>. QED
    BY <1>1, <1>2, <1>3

(* q is n after the byte ch, without what is answered to it. *)
Reads(n, ch, q) ==
  /\ IsNvt(q) /\ q.out = n.out /\ q.wcr = n.wcr /\ q.bare = n.bare /\ q.msg = n.msg
  /\ Legal(View(n, <<>>), ch) /\ ~n.rcr =>
       /\ ~q.rcr /\ q.in = StepOut(Waits(n), ch)
       /\ Waits(q) = StepSt(Waits(n), ch) /\ Mode(q) = StepMode(Waits(n), Mode(n), ch)

LEMMA ReadSub ==
  ASSUME NEW n, Parser(n), n.in = <<>>, n.out \in Seq(Line), NEW ch \in Line, n.sub
  PROVE  \E q : Reads(n, ch, q) /\ Answers(q, SubnegByte(n, ch))
  <1>1. n.dowill = ""
    BY DEF Parser, IsNvt
  <1>2. StepOut(Waits(n), ch) = <<>> /\ StepMode(Waits(n), Mode(n), ch) = Mode(n)
    BY DEF StepOut, StepMode, Waits, Verbs
  <1>3. CASE ch = "SE" /\ n.iac
    <2>. DEFINE q == [n EXCEPT !.iac = FALSE, !.sub = FALSE]
    <2>1. IsNvt(q) /\ q.out = n.out /\ q.wcr = n.wcr /\ q.bare = n.bare /\ q.msg = n.msg
          /\ q.rcr = n.rcr /\ q.in = n.in /\ q.on = n.on /\ ~q.sub /\ ~q.iac /\ q.dowill = ""
      BY <1>1 DEF Parser, IsNvt
    <2>2. SubnegByte(n, ch) = HandleSubneg(q)
      BY <1>3 DEF SubnegByte
    <2>. HIDE DEF q
    <2>3. Waits(q) = "" /\ StepSt(Waits(n), ch) = ""
      BY <1>3, <2>1 DEF Waits, StepSt
    <2>4. Mode(q) = Mode(n)
      BY <2>1 DEF Mode, Binary
    <2>5. Reads(n, ch, q)
      BY <1>2, <2>1, <2>3, <2>4 DEF Reads
    <2>6. Answers(q, HandleSubneg(q))
      BY <2>1, AnswersNothing, AnswersSubneg
    <2>. QED
      BY <2>2, <2>5, <2>6
  <1>4. CASE ~(ch = "SE" /\ n.iac)
    <2>. DEFINE q == SubnegByte(n, ch)
    <2>1. q = IF ch = "IAC" /\ ~n.iac THEN [n EXCEPT !.iac = TRUE]
              ELSE IF ch = "SE" THEN n ELSE [n EXCEPT !.sb = Append(@, ch)]
      BY <1>4 DEF SubnegByte
    <2>2. IsNvt(q) /\ q.out = n.out /\ q.wcr = n.wcr /\ q.bare = n.bare /\ q.msg = n.msg
          /\ q.rcr = n.rcr /\ q.in = n.in /\ q.on = n.on /\ q.sub
          /\ (q.iac <=> n.iac \/ ch = "IAC")
      <3>1. CASE ch = "IAC" /\ ~n.iac
        <4>1. q = [n EXCEPT !.iac = TRUE]
          BY <2>1, <3>1
        <4>. HIDE DEF q
        <4>. QED
          BY <3>1, <4>1 DEF Parser, IsNvt
      <3>2. CASE ~(ch = "IAC" /\ ~n.iac) /\ ch = "SE"
        <4>1. q = n
          BY <2>1, <3>2
        <4>. HIDE DEF q
        <4>. QED
          BY <1>4, <3>2, <4>1 DEF Parser
      <3>3. CASE ~(ch = "IAC" /\ ~n.iac) /\ ch # "SE"
        <4>1. q = [n EXCEPT !.sb = Append(@, ch)]
          BY <2>1, <3>3
        <4>. HIDE DEF q
        <4>. QED
          BY <3>3, <4>1 DEF Parser, IsNvt
      <3>. QED
        BY <3>1, <3>2, <3>3
    <2>. HIDE DEF q
    <2>3. Waits(q) = StepSt(Waits(n), ch)
      <3>1. Waits(q) = IF q.iac THEN "SBIAC" ELSE "SB"
        BY <2>2 DEF Waits
      <3>2. Waits(n) = IF n.iac THEN "SBIAC" ELSE "SB"
        BY DEF Waits
      <3>3. StepSt("SB", ch) = (IF ch = "IAC" THEN "SBIAC" ELSE "SB")
            /\ StepSt("SBIAC", ch) = (IF ch = "SE" THEN "" ELSE "SBIAC")
        BY DEF StepSt, Verbs
      <3>4. CASE n.iac
        BY <1>4, <2>2, <3>1, <3>2, <3>3, <3>4
      <3>5. CASE ~n.iac
        BY <2>2, <3>1, <3>2, <3>3, <3>5
      <3>. QED
        BY <3>4, <3>5
    <2>4. Mode(q) = Mode(n)
      BY <2>2 DEF Mode, Binary
    <2>5. Reads(n, ch, q)
      BY <1>2, <2>2, <2>3, <2>4 DEF Reads
    <2>6. Answers(q, q)
      BY <2>2, AnswersNothing
    <2>. QED
      BY <2>5, <2>6 DEF q
  <1>. QED
    BY <1>3, <1>4

(* Of the options only the one of binary mode matters here. *)
LEMMA ReadOption ==
  ASSUME NEW n, Parser(n), n.in = <<>>, n.out \in Seq(Line), NEW ch \in Line,
         n.dowill # "", NEW size, IsSize(size)
  PROVE  \E q : Reads(n, ch, q) /\ Answers(q, OptionByte(n, ch, size))
  <1>. DEFINE p == [n EXCEPT !.dowill = ""]
              yes == [p EXCEPT !.on = @ \cup {ch}]
              no == [p EXCEPT !.on = @ \ {ch}]
              verb == n.dowill
              Kept(q) == /\ IsNvt(q) /\ q.out = n.out /\ q.wcr = n.wcr /\ q.bare = n.bare /\ q.msg = n.msg
                         /\ q.rcr = n.rcr /\ q.in = n.in /\ ~q.sub /\ ~q.iac /\ q.dowill = ""
  <1>1. verb \in Verbs /\ ~n.sub /\ ~n.iac
    BY DEF Parser, IsNvt
  <1>2. /\ Kept(p) /\ p.on = n.on /\ Kept(no) /\ no.on = n.on \ {ch}
        /\ (ch \in Options => Kept(yes) /\ yes.on = n.on \cup {ch})
    BY <1>1 DEF Parser, IsNvt
  <1>3. Waits(n) = verb /\ StepOut(verb, ch) = <<>> /\ StepSt(verb, ch) = ""
    BY <1>1 DEF Waits, StepOut, StepSt, Verbs
  <1>4. /\ ch \notin Options => OptionByte(n, ch, size) = Refuse(p, verb, ch)
        /\ ch \in Options /\ verb \notin {"WILL", "DO"} => OptionByte(n, ch, size) = no
        /\ ch \in Options /\ verb \in {"WILL", "DO"} =>
             OptionByte(n, ch, size) \in {yes, Respond(yes, "WILL", ch), SendNaws(yes, size),
                                          SendNaws(Respond(yes, "WILL", ch), size)}
    <2>1. "31" \in Options
      BY DEF Options
    <2>2. CASE ch \notin Options
      BY <2>1, <2>2 DEF OptionByte
    <2>3. CASE ch \in Options /\ verb \notin {"WILL", "DO"}
      BY <2>3 DEF OptionByte
    <2>4. CASE ch \in Options /\ verb \in {"WILL", "DO"}
      BY <2>4 DEF OptionByte
    <2>. QED
      BY <2>2, <2>3, <2>4
  <1>. HIDE DEF p, yes, no, verb
  <1>5. ASSUME NEW q, Kept(q), StepMode(verb, Mode(n), ch) = Mode(q) PROVE Reads(n, ch, q)
    <2>1. Waits(q) = ""
      BY <1>5 DEF Waits
    <2>. QED
      BY <1>3, <1>5, <2>1 DEF Reads
  <1>6. CASE ch \notin Options
    <2>1. ch # "0"
      BY <1>6 DEF Options
    <2>2. Reads(n, ch, p)
      <3>1. Mode(p) = Mode(n)
        BY <1>2 DEF Mode, Binary
      <3>. QED
        BY <1>2, <1>5, <2>1, <3>1 DEF StepMode
    <2>3. Answers(p, Refuse(p, verb, ch))
      <3>1. Answers(p, p)
        BY <1>2, AnswersNothing
      <3>2. "WONT" \in Verbs /\ "DONT" \in Verbs
        BY DEF Verbs
      <3>. QED
        BY <2>1, <3>1, <3>2, AnswersRespond DEF Refuse
    <2>. QED
      BY <1>4, <1>6, <2>2, <2>3
  <1>7. CASE ch \in Options /\ verb \notin {"WILL", "DO"}
    <2>1. Reads(n, ch, no)
      <3>1. Mode(no) = StepMode(verb, Mode(n), ch)
        BY <1>1, <1>2, <1>7 DEF Mode, Binary, StepMode
      <3>. QED
        BY <1>2, <1>5, <3>1
    <2>2. Answers(no, no)
      BY <1>2, AnswersNothing
    <2>. QED
      BY <1>4, <1>7, <2>1, <2>2
  <1>8. CASE ch \in Options /\ verb \in {"WILL", "DO"}
    <2>1. Reads(n, ch, yes)
      <3>1. Mode(yes) = StepMode(verb, Mode(n), ch)
        BY <1>1, <1>2, <1>8 DEF Mode, Binary, StepMode
      <3>. QED
        BY <1>2, <1>5, <1>8, <3>1
    <2>2. Answers(yes, yes)
      BY <1>2, <1>8, AnswersNothing
    <2>3. Answers(yes, Respond(yes, "WILL", ch))
      BY <2>2, AnswersRespond DEF Verbs
    <2>4. Answers(yes, SendNaws(yes, size)) /\ Answers(yes, SendNaws(Respond(yes, "WILL", ch), size))
      BY <2>2, <2>3, AnswersNaws
    <2>. QED
      BY <1>4, <1>8, <2>1, <2>2, <2>3, <2>4
  <1>. QED
    BY <1>6, <1>7, <1>8

LEMMA ReadPlain ==
  ASSUME NEW n, Parser(n), n.in = <<>>, n.out \in Seq(Line), NEW ch \in Line,
         n.dowill = "", ~n.sub, NEW size
  PROVE  \E q : Reads(n, ch, q) /\ Answers(q, ReadByte(n, ch, size))
  <1>. DEFINE q == ReadByte(n, ch, size)
  <1>. DEFINE Kept(p) == IsNvt(p) /\ p.out = n.out /\ p.wcr = n.wcr /\ p.bare = n.bare /\ p.msg = n.msg
              Seen(p) == Legal(View(n, <<>>), ch) /\ ~n.rcr =>
                           /\ ~p.rcr /\ p.in = StepOut(Waits(n), ch) /\ Waits(p) = StepSt(Waits(n), ch)
                           /\ Mode(p) = StepMode(Waits(n), Mode(n), ch)
  <1>1. /\ StepSt("IAC", ch) = (IF ch \in Verbs \cup {"SB"} THEN ch ELSE "")
        /\ StepSt("", ch) = (IF ch = "IAC" THEN "IAC" ELSE "")
    BY DEF StepSt, Verbs
  <1>2. StepMode("IAC", Mode(n), ch) = Mode(n) /\ StepMode("", Mode(n), ch) = Mode(n)
    BY DEF StepMode, Verbs
  <1>3. /\ StepOut("IAC", ch) = (IF ch = "IAC" THEN <<ch>> ELSE <<>>)
        /\ StepOut("", ch) = (IF ch = "IAC" THEN <<>> ELSE <<ch>>)
    BY DEF StepOut
  <1>4. Waits(n) = IF n.iac THEN "IAC" ELSE ""
    BY DEF Waits
  <1>5. <<>> \o <<ch>> = <<ch>>
    BY One
  <1>6. ASSUME ch = "IAC" PROVE Kept(q) /\ Seen(q)
    <2>1. q = IF n.iac THEN Deliver([n EXCEPT !.iac = FALSE], <<"IAC">>) ELSE [n EXCEPT !.iac = TRUE]
      BY <1>6 DEF ReadByte
    <2>2. CASE n.iac
      <3>1. q = Deliver([n EXCEPT !.iac = FALSE], <<ch>>)
        BY <1>6, <2>1, <2>2
      <3>. HIDE DEF q
      <3>2. Kept(q) /\ q.rcr = n.rcr /\ q.in = <<ch>> /\ q.on = n.on /\ ~q.iac /\ ~q.sub /\ q.dowill = ""
        BY <1>5, <3>1 DEF Deliver, Parser, IsNvt
      <3>3. Waits(q) = "" /\ Mode(q) = Mode(n)
        BY <3>2 DEF Waits, Mode, Binary
      <3>4. "IAC" \notin Verbs \cup {"SB"}
        BY DEF Verbs
      <3>. QED
        BY <1>1, <1>2, <1>3, <1>4, <1>6, <2>2, <3>2, <3>3, <3>4
    <2>3. CASE ~n.iac
      <3>1. q = [n EXCEPT !.iac = TRUE]
        BY <2>1, <2>3
      <3>. HIDE DEF q
      <3>2. Kept(q) /\ q.rcr = n.rcr /\ q.in = <<>> /\ q.on = n.on /\ q.iac /\ ~q.sub /\ q.dowill = ""
        BY <3>1 DEF Parser, IsNvt
      <3>3. Waits(q) = "IAC" /\ Mode(q) = Mode(n)
        BY <3>2 DEF Waits, Mode, Binary
      <3>. QED
        BY <1>1, <1>2, <1>3, <1>4, <1>6, <2>3, <3>2, <3>3
    <2>. QED
      BY <2>2, <2>3
  <1>7. ASSUME ch # "IAC" /\ n.iac PROVE Kept(q) /\ Seen(q)
    <2>1. q = CommandByte(n, ch)
      BY <1>7 DEF ReadByte
    <2>. HIDE DEF q
    <2>2. Kept(q) /\ q.rcr = n.rcr /\ q.in = <<>> /\ q.on = n.on /\ ~q.iac
          /\ (q.sub <=> ch = "SB") /\ q.dowill = (IF ch \in Verbs THEN ch ELSE "")
      <3>1. CASE ch = "SB"
        <4>1. q = [n EXCEPT !.iac = FALSE, !.sub = TRUE, !.sb = <<>>] /\ ch \notin Verbs
          BY <2>1, <3>1 DEF CommandByte, Verbs, Parser, IsNvt
        <4>. QED
          BY <3>1, <4>1 DEF Parser, IsNvt
      <3>2. CASE ch \in Verbs
        <4>1. q = [n EXCEPT !.iac = FALSE, !.dowill = ch] /\ ch # "SB"
          BY <2>1, <3>2 DEF CommandByte, Verbs, Parser, IsNvt
        <4>. QED
          BY <3>2, <4>1 DEF Parser, IsNvt
      <3>3. CASE ch # "SB" /\ ch \notin Verbs
        <4>1. q = [n EXCEPT !.iac = FALSE]
          BY <2>1, <3>3 DEF CommandByte
        <4>. QED
          BY <3>3, <4>1 DEF Parser, IsNvt
      <3>. QED
        BY <3>1, <3>2, <3>3
    <2>3. Mode(q) = Mode(n)
      BY <2>2 DEF Mode, Binary
    <2>4. Waits(q) = IF ch \in Verbs \cup {"SB"} THEN ch ELSE ""
      BY <2>2 DEF Waits, Verbs
    <2>. QED
      BY <1>1, <1>2, <1>3, <1>4, <1>7, <2>2, <2>3, <2>4
  <1>8. ASSUME ch # "IAC" /\ ~n.iac PROVE Kept(q) /\ Seen(q)
    <2>1. q = IF Binary(n) THEN Deliver(n, <<ch>>) ELSE AsciiByte(n, ch)
      BY <1>8 DEF ReadByte
    <2>2. CASE Binary(n)
      <3>1. q = Deliver(n, <<ch>>)
        BY <2>1, <2>2
      <3>. HIDE DEF q
      <3>2. Kept(q) /\ q.rcr = n.rcr /\ q.in = <<ch>> /\ q.on = n.on /\ ~q.iac /\ ~q.sub /\ q.dowill = ""
        BY <1>5, <1>8, <3>1 DEF Deliver, Parser, IsNvt
      <3>3. Waits(q) = "" /\ Mode(q) = Mode(n)
        BY <3>2 DEF Waits, Mode, Binary
      <3>. QED
        BY <1>1, <1>2, <1>3, <1>4, <1>8, <3>2, <3>3
    <2>3. CASE ~Binary(n)
      <3>1. q = AsciiByte(n, ch)
        BY <2>1, <2>3
      <3>. DEFINE p == [n EXCEPT !.rcr = FALSE]
      <3>2. q \in {n, [n EXCEPT !.rcr = TRUE], Deliver(p, <<"CR", "LF">>), Deliver(p, <<"LF">>),
                   Deliver(p, <<"CR">>), Deliver(n, <<"CR", NUL>>), Deliver(p, <<"CR", ch>>),
                   Deliver(p, <<ch>>)}
        BY <3>1 DEF AsciiByte
      <3>3. Kept(n) /\ Kept([n EXCEPT !.rcr = TRUE]) /\ Kept(p)
        BY DEF Parser, IsNvt
      <3>4. ASSUME NEW a, Kept(a), NEW bytes PROVE Kept(Deliver(a, bytes))
        BY <3>4 DEF Deliver, IsNvt
      <3>5. ~Legal(View(n, <<>>), ch)
        BY <1>4, <1>8, <2>3 DEF Legal, View, At, Mode
      <3>. HIDE DEF q, p, Kept
      <3>6. Kept(q)
        BY <3>2, <3>3, <3>4
      <3>. QED
        BY <3>5, <3>6
    <2>. QED
      BY <2>2, <2>3
  <1>9. Kept(q) /\ Seen(q)
    BY <1>6, <1>7, <1>8
  <1>. HIDE DEF q
  <1>10. Reads(n, ch, q)
    BY <1>9 DEF Reads
  <1>11. Answers(q, q)
    BY <1>9, AnswersNothing
  <1>. QED
    BY <1>10, <1>11 DEF q

(* What was sent is followed by something that delivers nothing. *)
Silent(n, p) == \E y : Says(y, <<>>) /\ p.out = n.out \o y

(* telnet_read(): a byte is answered with what delivers nothing, and taken *)
(* as Step says.                                                           *)
LEMMA ReadStep ==
  ASSUME NEW n, Parser(n), n.in = <<>>, n.out \in Seq(Line), NEW ch \in Line,
         NEW size, IsSize(size), NEW p, p = ReadByte(n, ch, size), NEW d \in Seq(Line)
  PROVE  /\ p.wcr = n.wcr /\ p.bare = n.bare /\ p.msg = n.msg
         /\ Silent(n, p)
         /\ Legal(View(n, d), ch) /\ ~n.rcr =>
              ~p.rcr /\ p.in \in Seq(Line) /\ View(p, d \o p.in) = Step(View(n, d), ch)
  <1>1. PICK q : Reads(n, ch, q) /\ Answers(q, p)
    <2>1. CASE n.sub
      BY <2>1, ReadSub DEF ReadByte
    <2>2. CASE ~n.sub /\ n.dowill # ""
      BY <2>2, ReadOption DEF ReadByte
    <2>3. CASE ~n.sub /\ n.dowill = ""
      BY <2>3, ReadPlain
    <2>. QED
      BY <2>1, <2>2, <2>3
  <1>2. p.wcr = n.wcr /\ p.bare = n.bare /\ p.msg = n.msg
    BY <1>1 DEF Reads, Answers, Alike
  <1>3. Silent(n, p)
    BY <1>1 DEF Reads, Answers, Silent
  <1>4. ASSUME Legal(View(n, d), ch), ~n.rcr
        PROVE  ~p.rcr /\ p.in \in Seq(Line) /\ View(p, d \o p.in) = Step(View(n, d), ch)
    <2>1. Legal(View(n, <<>>), ch)
      BY <1>4 DEF Legal, View, At
    <2>2. ~q.rcr /\ q.in = StepOut(Waits(n), ch) /\ Waits(q) = StepSt(Waits(n), ch)
          /\ Mode(q) = StepMode(Waits(n), Mode(n), ch)
      BY <1>1, <1>4, <2>1 DEF Reads
    <2>3. p.iac = q.iac /\ p.dowill = q.dowill /\ p.sub = q.sub /\ p.on = q.on /\ p.rcr = q.rcr /\ p.in = q.in
      BY <1>1 DEF Answers, Alike
    <2>4. ~p.rcr /\ p.in = StepOut(Waits(n), ch) /\ Waits(p) = Waits(q) /\ Mode(p) = Mode(q)
      BY <2>2, <2>3 DEF Waits, Mode, Binary
    <2>5. StepOut(Waits(n), ch) \in Seq(Line)
      <3>1. <<ch>> \in Seq(Line) /\ <<>> \in Seq(Line)
        BY One
      <3>. QED
        BY <3>1 DEF StepOut
    <2>6. View(p, d \o p.in) = Step(View(n, d), ch)
      BY <2>2, <2>4 DEF View, Step, At
    <2>. QED
      BY <2>4, <2>5, <2>6
  <1>. QED
    BY <1>2, <1>3, <1>4

-----------------------------------------------------------------------------
(* The loop of telnet_write(), as far as the byte k *)
First(n) ==
  [i |-> 0, cur |-> <<>>, cr |-> n.wcr,
   parts |-> IF n.wbuf = <<>> THEN <<>> ELSE <<Part(0, n.wbuf, n.wcr)>>]

Collecting(n, b, k, f) ==
  f = [j \in 0..k |-> IF j = 0 THEN First(n) ELSE Thru(f[j - 1], LAMBDA a : OutByte(n, a, b[j]))]

LEMMA CollectingExists ==
  ASSUME NEW n, NEW b
  PROVE  \A k \in Nat : \E f : Collecting(n, b, k, f)
  <1>. DEFINE Next1(a, j) == Thru(a, LAMBDA x : OutByte(n, x, b[j]))
              S == {k \in Nat : \E f : Collecting(n, b, k, f)}
  <1>0. ASSUME NEW k, NEW f
        PROVE  Collecting(n, b, k, f) <=> f = [j \in 0..k |-> IF j = 0 THEN First(n) ELSE Next1(f[j - 1], j)]
    BY DEF Collecting
  <1>. HIDE DEF Next1
  <1>1. 0 \in S
    <2>. DEFINE f == [j \in 0..0 |-> First(n)]
    <2>1. f = [j \in 0..0 |-> IF j = 0 THEN First(n) ELSE Next1(f[j - 1], j)]
      OBVIOUS
    <2>. HIDE DEF f
    <2>. QED
      BY <1>0, <2>1
  <1>2. ASSUME NEW k \in Nat, k \in S PROVE k + 1 \in S
    <2>1. PICK f : Collecting(n, b, k, f)
      BY <1>2
    <2>2. f = [j \in 0..k |-> IF j = 0 THEN First(n) ELSE Next1(f[j - 1], j)]
      BY <1>0, <2>1
    <2>3. \A j \in 0..k : f[j] = IF j = 0 THEN First(n) ELSE Next1(f[j - 1], j)
      BY <2>2
    <2>. DEFINE g == [j \in 0..(k + 1) |-> IF j <= k THEN f[j] ELSE Next1(f[k], k + 1)]
    <2>4. ASSUME NEW j \in 0..(k + 1)
          PROVE  g[j] = IF j = 0 THEN First(n) ELSE Next1(g[j - 1], j)
      <3>1. CASE j <= k
        <4>1. j \in 0..k /\ g[j] = f[j] /\ (j # 0 => g[j - 1] = f[j - 1])
          BY <3>1
        <4>. QED
          BY <2>3, <4>1
      <3>2. CASE j = k + 1
        <4>1. g[j] = Next1(f[k], k + 1) /\ g[j - 1] = f[k] /\ j # 0
          BY <3>2
        <4>. QED
          BY <3>2, <4>1
      <3>. QED
        BY <3>1, <3>2
    <2>5. g = [j \in 0..(k + 1) |-> g[j]]
      OBVIOUS
    <2>. HIDE DEF g
    <2>6. g = [j \in 0..(k + 1) |-> IF j = 0 THEN First(n) ELSE Next1(g[j - 1], j)]
      BY <2>4, <2>5
    <2>7. Collecting(n, b, k + 1, g)
      BY <1>0, <2>6
    <2>8. k + 1 \in Nat
      OBVIOUS
    <2>. QED
      BY <2>7, <2>8
  <1>. HIDE DEF S
  <1>3. \A k \in Nat : k \in S
    BY <1>1, <1>2, Induction
  <1>. QED
    BY <1>3 DEF S

LEMMA CollectedSteps ==
  ASSUME NEW n, NEW b \in Seq(Line)
  PROVE  /\ Collected(n, b)[0] = First(n)
         /\ \A j \in 1..Len(b) : Collected(n, b)[j] = OutByte(n, Collected(n, b)[j - 1], b[j])
  <1>1. Len(b) \in Nat
    BY LenProperties
  <1>2. \E f : Collecting(n, b, Len(b), f)
    BY <1>1, CollectingExists
  <1>3. Collected(n, b) = CHOOSE f : Collecting(n, b, Len(b), f)
    BY Zenon DEF Collected, Collecting, First
  <1>. DEFINE f == Collected(n, b)
  <1>4. Collecting(n, b, Len(b), f)
    BY <1>2, <1>3, Zenon
  <1>. HIDE DEF f
  <1>5. ASSUME NEW j \in 0..Len(b)
        PROVE  f[j] = IF j = 0 THEN First(n) ELSE Thru(f[j - 1], LAMBDA a : OutByte(n, a, b[j]))
    BY <1>4 DEF Collecting
  <1>6. ASSUME NEW a, NEW ch PROVE Thru(a, LAMBDA x : OutByte(n, x, ch)) = OutByte(n, a, ch)
    BY DEF Thru
  <1>7. f[0] = First(n)
    <2>1. 0 \in 0..Len(b)
      BY <1>1
    <2>. QED
      BY <2>1, <1>4 DEF Collecting
  <1>8. ASSUME NEW j \in 1..Len(b) PROVE f[j] = OutByte(n, f[j - 1], b[j])
    <2>1. j \in 0..Len(b) /\ j # 0
      BY <1>1
    <2>. DEFINE c == b[j]
                a == f[j - 1]
    <2>2. f[j] = Thru(a, LAMBDA x : OutByte(n, x, c))
      BY <1>5, <2>1
    <2>3. Thru(a, LAMBDA x : OutByte(n, x, c)) = OutByte(n, a, c)
      BY <1>6
    <2>. QED
      BY <2>2, <2>3
  <1>. QED
    BY <1>7, <1>8 DEF f

PartSet == [i : Nat, b : Seq(Line), cr : BOOLEAN]
IsAcc(a) == a \in [i : Nat, cur : Seq(Line), cr : BOOLEAN, parts : Seq(PartSet)]

LEMMA BytesAppend ==
  ASSUME NEW ps \in Seq(PartSet), NEW p \in PartSet
  PROVE  Bytes(ps) \in Seq(Line) /\ Bytes(Append(ps, p)) = Bytes(ps) \o p.b
  <1>. DEFINE s == [j \in DOMAIN ps |-> ps[j].b]
              qs == Append(ps, p)
              t == [j \in DOMAIN qs |-> qs[j].b]
              x == p.b
              n == Len(ps)
  <1>1. n \in Nat /\ DOMAIN ps = 1..n /\ \A j \in 1..n : ps[j] \in PartSet
    BY LenProperties, ElementOfSeq
  <1>2. x \in Seq(Line)
    BY DEF PartSet
  <1>3. s \in [1..n -> Seq(Line)]
    BY <1>1 DEF PartSet
  <1>4. s \in Seq(Seq(Line)) /\ Len(s) = n
    BY <1>1, <1>3, FunctionSeq
  <1>5. DOMAIN qs = 1..(n + 1) /\ qs[n + 1] = p /\ \A j \in 1..n : qs[j] = ps[j]
    BY <1>1, AppendProperties, LenProperties
  <1>6. t = Append(s, x)
    <2>1. t \in [1..(n + 1) -> Seq(Line)]
      <3>1. ASSUME NEW j \in 1..(n + 1) PROVE qs[j] \in PartSet
        <4>1. j \in 1..n \/ j = n + 1
          BY <1>1
        <4>. QED
          BY <1>1, <1>5, <4>1
      <3>. HIDE DEF qs
      <3>. QED
        BY <1>5, <3>1 DEF PartSet
    <2>2. n + 1 \in Nat
      BY <1>1
    <2>3. t \in Seq(Seq(Line)) /\ Len(t) = n + 1
      BY <2>1, <2>2, FunctionSeq
    <2>. DEFINE r == Append(s, x)
    <2>4. r \in Seq(Seq(Line)) /\ Len(r) = n + 1 /\ r[n + 1] = x /\ \A j \in 1..n : r[j] = s[j]
      BY <1>2, <1>4, AppendProperties
    <2>5. ASSUME NEW j \in 1..(n + 1) PROVE t[j] = r[j]
      <3>1. t[j] = qs[j].b
        BY <1>5
      <3>2. CASE j \in 1..n
        BY <1>1, <1>5, <2>4, <3>1, <3>2
      <3>3. CASE j = n + 1
        BY <1>5, <2>4, <3>1, <3>3
      <3>. QED
        BY <1>1, <3>2, <3>3
    <2>. HIDE DEF t, r
    <2>6. t = r
      BY <2>3, <2>4, <2>5, SeqEqual
    <2>. QED
      BY <2>6 DEF r
  <1>7. Bytes(ps) = FlattenSeq(s) /\ Bytes(Append(ps, p)) = FlattenSeq(t)
    BY DEF Bytes
  <1>. HIDE DEF s, t, x
  <1>8. FlattenSeq(s) \in Seq(Line) /\ FlattenSeq(Append(s, x)) = FlattenSeq(s) \o x
    BY <1>2, <1>4, FlattenType, FlattenAppend
  <1>. QED
    BY <1>6, <1>7, <1>8 DEF x

LEMMA BytesEmpty == Bytes(<<>>) = <<>>
  <1>1. [j \in DOMAIN <<>> |-> <<>>[j].b] = <<>>
    OBVIOUS
  <1>. QED
    BY <1>1, FlattenEmpty DEF Bytes

(* What More and Flush do to the accumulated bytes *)
Sent(a) == Bytes(a.parts) \o a.cur

LEMMA MoreSent ==
  ASSUME NEW a, IsAcc(a), NEW x \in Seq(Line), NEW m, m = More(a, x)
  PROVE  /\ IsAcc(m) /\ m.i = a.i + 1 /\ m.cr = a.cr /\ m.parts = a.parts /\ m.cur = a.cur \o x
         /\ Sent(a) \in Seq(Line) /\ Sent(m) = Sent(a) \o x
  <1>. DEFINE c == a.cur
              ps == a.parts
  <1>1. c \in Seq(Line) /\ ps \in Seq(PartSet)
    BY DEF IsAcc
  <1>2. /\ IsAcc(m) /\ m.i = a.i + 1 /\ m.cr = a.cr /\ m.parts = a.parts /\ m.cur = c \o x
    <2>1. c \o x \in Seq(Line)
      BY <1>1, ConcatProperties
    <2>. DEFINE y == c \o x
                k == a.i + 1
    <2>2. m = [a EXCEPT !.i = k, !.cur = y]
      BY DEF IsAcc, More
    <2>3. k \in Nat /\ y \in Seq(Line)
      BY <2>1 DEF IsAcc
    <2>. HIDE DEF y, k
    <2>4. IsAcc(m) /\ m.i = k /\ m.cr = a.cr /\ m.parts = a.parts /\ m.cur = y
      BY <2>2, <2>3 DEF IsAcc
    <2>. QED
      BY <2>4 DEF y, k
  <1>. HIDE DEF c, ps
  <1>3. Bytes(ps) \in Seq(Line)
    <2>1. [i |-> 0, b |-> <<>>, cr |-> FALSE] \in PartSet
      BY DEF PartSet
    <2>. QED
      BY <1>1, <2>1, BytesAppend
  <1>4. (Bytes(ps) \o c) \o x = Bytes(ps) \o (c \o x) /\ Bytes(ps) \o c \in Seq(Line)
    BY <1>1, <1>3, ConcatAssociative, ConcatProperties
  <1>. QED
    BY <1>2, <1>4 DEF Sent, c, ps

(* m is a once the bytes x were flushed. *)
Flushed(a, x, cr, m) ==
  /\ IsAcc(m) /\ m.i = a.i + 1 /\ m.cr = cr /\ m.cur = <<>>
  /\ m.parts # <<>> /\ Last(m.parts).i = a.i + 1
  /\ Sent(a) \in Seq(Line) /\ Sent(m) = Sent(a) \o x

LEMMA FlushSent ==
  ASSUME NEW a, IsAcc(a), NEW x \in Seq(Line), NEW cr \in BOOLEAN, NEW m, m = Flush(a, x, cr)
  PROVE  Flushed(a, x, cr, m)
  <1>. DEFINE c == a.cur
              ps == a.parts
              p == Part(a.i + 1, c \o x, cr)
  <1>1. c \in Seq(Line) /\ ps \in Seq(PartSet) /\ a.i + 1 \in Nat
    BY DEF IsAcc
  <1>2. c \o x \in Seq(Line)
    BY <1>1, ConcatProperties
  <1>3. p \in PartSet /\ p.b = c \o x /\ p.i = a.i + 1
    BY <1>1, <1>2 DEF PartSet, Part
  <1>4. m = [i |-> a.i + 1, cur |-> <<>>, cr |-> cr, parts |-> Append(ps, p)]
    BY DEF Flush
  <1>. HIDE DEF c, ps, p
  <1>5. Append(ps, p) \in Seq(PartSet) /\ Append(ps, p) # <<>> /\ Last(Append(ps, p)) = p
    BY <1>1, <1>3, AppendProperties DEF Last
  <1>6. IsAcc(m) /\ m.i = a.i + 1 /\ m.cr = cr /\ m.cur = <<>> /\ m.parts = Append(ps, p)
    BY <1>1, <1>4, <1>5 DEF IsAcc
  <1>7. Bytes(ps) \in Seq(Line) /\ Bytes(Append(ps, p)) = Bytes(ps) \o (c \o x)
    BY <1>1, <1>3, BytesAppend
  <1>8. Bytes(Append(ps, p)) \o <<>> = Bytes(ps) \o (c \o x)
    <2>1. Bytes(ps) \o (c \o x) \in Seq(Line)
      BY <1>2, <1>7, ConcatProperties
    <2>. QED
      BY <1>7, <2>1, ConcatEmptySeq
  <1>9. (Bytes(ps) \o c) \o x = Bytes(ps) \o (c \o x)
    BY <1>1, <1>7, ConcatAssociative
  <1>10. Bytes(ps) \o c \in Seq(Line)
    BY <1>1, <1>7, ConcatProperties
  <1>. QED
    BY <1>3, <1>5, <1>6, <1>8, <1>9, <1>10 DEF Flushed, Sent, c, ps

(* The bytes of the text b, as far as the byte j *)
LEMMA PrefixGrows ==
  ASSUME NEW b \in Seq(Line), NEW j \in Nat, j + 1 <= Len(b)
  PROVE  /\ SubSeq(b, 1, j + 1) = SubSeq(b, 1, j) \o <<b[j + 1]>> /\ b[j + 1] \in Line
         /\ SubSeq(b, 1, j) \in Seq(Line)
  <1>. DEFINE s == SubSeq(b, 1, j)
              ch == b[j + 1]
              t == SubSeq(b, 1, j + 1)
              u == s \o <<ch>>
  <1>1. Len(b) \in Nat /\ j + 1 \in 1..Len(b) /\ ch \in Line
    BY LenProperties, ElementOfSeq
  <1>2. s \in Seq(Line) /\ Len(s) = j /\ \A k \in 1..j : s[k] = b[k]
    BY <1>1
  <1>3. t \in Seq(Line) /\ Len(t) = j + 1 /\ \A k \in 1..(j + 1) : t[k] = b[k]
    BY <1>1
  <1>. HIDE DEF s, t
  <1>4. <<ch>> \in Seq(Line) /\ Len(<<ch>>) = 1 /\ <<ch>>[1] = ch
    BY <1>1, One
  <1>. HIDE DEF ch
  <1>5. u \in Seq(Line) /\ Len(u) = j + 1
        /\ \A k \in 1..(j + 1) : u[k] = IF k <= j THEN s[k] ELSE <<ch>>[k - j]
    BY <1>2, <1>4, ConcatProperties
  <1>. HIDE DEF u
  <1>6. ASSUME NEW k \in 1..(j + 1) PROVE t[k] = u[k]
    <2>1. CASE k <= j
      BY <1>2, <1>3, <1>5, <2>1
    <2>2. CASE k = j + 1
      <3>1. u[k] = <<ch>>[1]
        BY <1>5, <2>2
      <3>2. t[k] = b[j + 1]
        BY <1>3, <2>2
      <3>. QED
        BY <1>4, <3>1, <3>2 DEF ch
    <2>3. k <= j \/ k = j + 1
      OBVIOUS
    <2>. QED
      BY <2>1, <2>2, <2>3
  <1>7. t = u
    BY <1>3, <1>5, <1>6, SeqEqual
  <1>. QED
    BY <1>1, <1>2, <1>7 DEF s, t, u, ch

Encoded(n, b, j, a) ==
  /\ IsAcc(a) /\ a.i = j
  /\ a.cr => ~Binary(n) /\ j > 0 /\ b[j] = "CR"
  /\ Says(IF a.cr THEN Sent(a) \o <<"CR">> ELSE Sent(a), SubSeq(b, 1, j))
  /\ a.cur = <<>> /\ ~a.cr => \/ j = 0 /\ a.parts = <<>>
                              \/ a.parts # <<>> /\ Last(a.parts).i = j

LEMMA OutByteType ==
  ASSUME NEW n, NEW a, IsAcc(a), NEW ch \in Line
  PROVE  IsAcc(OutByte(n, a, ch)) /\ OutByte(n, a, ch).i = a.i + 1
  <1>. DEFINE m == OutByte(n, a, ch)
              h == More(a, <<>>)
  <1>1. /\ <<ch>> \in Seq(Line) /\ <<>> \in Seq(Line) /\ <<"LF">> \in Seq(Line)
        /\ <<"IAC", "IAC">> \in Seq(Line) /\ <<"CR", NUL>> \in Seq(Line)
        /\ <<"CR", "LF">> \in Seq(Line) /\ <<"CR", NUL, "IAC", "IAC">> \in Seq(Line)
    BY IacNamed, One DEF NUL, Options
  <1>2. a.cr \in BOOLEAN /\ TRUE \in BOOLEAN /\ FALSE \in BOOLEAN
    BY DEF IsAcc
  <1>3. \/ m = More(a, <<ch>>) \/ m = More(a, <<"LF">>) \/ m = [h EXCEPT !.cr = TRUE]
        \/ m = Flush(a, <<"IAC", "IAC">>, a.cr) \/ m = Flush(a, <<"CR", NUL>>, TRUE)
        \/ m = Flush(a, <<"CR", "LF">>, FALSE) \/ m = Flush(a, <<"CR", NUL, "IAC", "IAC">>, FALSE)
        \/ m = Flush(a, <<"IAC", "IAC">>, FALSE)
    BY DEF OutByte, BinaryOut, AsciiOut
  <1>4. IsAcc(h) /\ h.i = a.i + 1
    <2>. DEFINE e == <<>>
    <2>1. e \in Seq(Line)
      OBVIOUS
    <2>. HIDE DEF e
    <2>2. IsAcc(More(a, e)) /\ More(a, e).i = a.i + 1
      BY <2>1, MoreSent
    <2>. QED
      BY <2>2 DEF e
  <1>. HIDE DEF m, h
  <1>5. IsAcc([h EXCEPT !.cr = TRUE]) /\ [h EXCEPT !.cr = TRUE].i = a.i + 1
    BY <1>4 DEF IsAcc
  <1>6. ASSUME NEW x \in Seq(Line), NEW cr \in BOOLEAN
        PROVE  IsAcc(More(a, x)) /\ More(a, x).i = a.i + 1
               /\ IsAcc(Flush(a, x, cr)) /\ Flush(a, x, cr).i = a.i + 1
    BY MoreSent, FlushSent DEF Flushed
  <1>7. IsAcc(m) /\ m.i = a.i + 1
    BY <1>1, <1>2, <1>3, <1>5, <1>6
  <1>. QED
    BY <1>7 DEF m

(* The cases of the loop: a byte that stays as it is, IAC, CR, CR LF *)
LEMMA CodeMore ==
  ASSUME NEW a, IsAcc(a), ~a.cr, NEW B, Says(Sent(a), B), NEW ch \in Line, ch # "IAC"
  PROVE  LET m == More(a, <<ch>>) IN ~m.cr /\ m.cur # <<>> /\ Says(Sent(m), B \o <<ch>>)
  <1>. DEFINE m == More(a, <<ch>>)
              c == a.cur
              x == <<ch>>
  <1>1. x \in Seq(Line) /\ Says(x, x) /\ Len(x) = 1
    BY One, SaysByte
  <1>. HIDE DEF x
  <1>2. LET k == More(a, x) IN k.cr = a.cr /\ k.cur = a.cur \o x /\ Sent(k) = Sent(a) \o x
    BY <1>1, MoreSent
  <1>3. c \in Seq(Line)
    BY DEF IsAcc
  <1>. HIDE DEF c
  <1>4. c \o x # <<>>
    BY <1>3, LongerByOne DEF x
  <1>5. Says(Sent(a) \o x, B \o x)
    BY <1>1, SaysCat
  <1>. QED
    BY <1>2, <1>4, <1>5 DEF c, x

LEMMA CodeFlush ==
  ASSUME NEW a, IsAcc(a), NEW x \in Seq(Line)
  PROVE  LET m == Flush(a, x, FALSE)
         IN  ~m.cr /\ m.parts # <<>> /\ Last(m.parts).i = a.i + 1 /\ Sent(m) = Sent(a) \o x
  <1>1. Flushed(a, x, FALSE, Flush(a, x, FALSE))
    BY FlushSent
  <1>. QED
    BY <1>1 DEF Flushed

LEMMA CodeIac ==
  ASSUME NEW a, IsAcc(a), NEW B, Says(Sent(a), B)
  PROVE  LET m == Flush(a, <<"IAC", "IAC">>, FALSE)
         IN  ~m.cr /\ m.parts # <<>> /\ Last(m.parts).i = a.i + 1 /\ Says(Sent(m), B \o <<"IAC">>)
  <1>. DEFINE x == <<"IAC", "IAC">>
  <1>1. x \in Seq(Line) /\ Says(x, <<"IAC">>)
    BY SaysIac DEF Says
  <1>. HIDE DEF x
  <1>2. LET m == Flush(a, x, FALSE)
        IN  ~m.cr /\ m.parts # <<>> /\ Last(m.parts).i = a.i + 1 /\ Sent(m) = Sent(a) \o x
    BY <1>1, CodeFlush
  <1>3. Says(Sent(a) \o x, B \o <<"IAC">>)
    BY <1>1, SaysCat
  <1>. QED
    BY <1>2, <1>3 DEF x

LEMMA CodeCrLf ==
  ASSUME NEW a, IsAcc(a), NEW B, Says(Sent(a) \o <<"CR">>, B)
  PROVE  LET m == Flush(a, <<"CR", "LF">>, FALSE)
         IN  ~m.cr /\ m.parts # <<>> /\ Last(m.parts).i = a.i + 1 /\ Says(Sent(m), B \o <<"LF">>)
  <1>. DEFINE x == <<"CR", "LF">>
              c == <<"CR">>
              l == <<"LF">>
              s == Sent(a)
  <1>1. x = c \o l /\ c \in Seq(Line) /\ l \in Seq(Line) /\ x \in Seq(Line)
    BY Two, IacNamed
  <1>2. Says(l, l)
    BY SaysByte, IacNamed
  <1>3. Says(s \o c, B)
    OBVIOUS
  <1>. HIDE DEF x, c, l
  <1>4. s \in Seq(Line)
    BY <1>1, MoreSent
  <1>5. LET m == Flush(a, x, FALSE)
        IN  ~m.cr /\ m.parts # <<>> /\ Last(m.parts).i = a.i + 1 /\ Sent(m) = s \o x
    BY <1>1, CodeFlush
  <1>. HIDE DEF s
  <1>6. (s \o c) \o l = s \o (c \o l)
    BY <1>1, <1>4, ConcatAssociative
  <1>7. Says((s \o c) \o l, B \o l)
    BY <1>2, <1>3, SaysCat
  <1>. QED
    BY <1>1, <1>5, <1>6, <1>7 DEF x, l

LEMMA CodeCr ==
  ASSUME NEW a, IsAcc(a), NEW B, Says(Sent(a), B)
  PROVE  LET m == [More(a, <<>>) EXCEPT !.cr = TRUE] IN m.cr /\ Says(Sent(m) \o <<"CR">>, B \o <<"CR">>)
  <1>. DEFINE e == <<>>
              h == More(a, e)
              m == [h EXCEPT !.cr = TRUE]
              s == Sent(a)
  <1>1. e \in Seq(Line) /\ s \in Seq(Line)
    BY DEF Says
  <1>. HIDE DEF e
  <1>2. IsAcc(h) /\ Sent(h) = s \o e
    BY <1>1, MoreSent
  <1>. HIDE DEF h
  <1>3. m.cr /\ m.cur = h.cur /\ m.parts = h.parts
    BY <1>2 DEF IsAcc
  <1>. HIDE DEF m
  <1>4. Sent(m) = Sent(h)
    BY <1>3 DEF Sent
  <1>. HIDE DEF s
  <1>5. s \o e = s
    BY <1>1, ConcatEmptySeq DEF e
  <1>6. Says(<<"CR">>, <<"CR">>)
    BY SaysByte, IacNamed
  <1>7. Says(Sent(m) \o <<"CR">>, B \o <<"CR">>)
    BY <1>2, <1>4, <1>5, <1>6, SaysCat DEF s
  <1>. QED
    BY <1>3, <1>7 DEF m, h, e

LEMMA EncodedStep ==
  ASSUME NEW n, NEW b \in Seq(Line), NEW push, ~BareCR(n, b, push), NEW j \in Nat, j + 1 <= Len(b),
         NEW a, Encoded(n, b, j, a)
  PROVE  Encoded(n, b, j + 1, OutByte(n, a, b[j + 1]))
  <1>. DEFINE ch == b[j + 1]
              B == SubSeq(b, 1, j)
              m == OutByte(n, a, ch)
  <1>1. SubSeq(b, 1, j + 1) = B \o <<ch>> /\ ch \in Line /\ B \in Seq(Line)
    BY PrefixGrows
  <1>2. IsAcc(a) /\ a.i = j /\ a.cr \in BOOLEAN
    BY DEF Encoded, IsAcc
  <1>3. Says(IF a.cr THEN Sent(a) \o <<"CR">> ELSE Sent(a), B)
        /\ (a.cr => ~Binary(n) /\ j > 0 /\ b[j] = "CR")
    BY DEF Encoded
  <1>4. IsAcc(m) /\ m.i = j + 1
    BY <1>1, <1>2, OutByteType
  <1>5. a.cr => ch = "LF"
    <2>1. a.cr => j \in DOMAIN b /\ j < Len(b)
      BY <1>3, LenProperties
    <2>. QED
      BY <1>3, <2>1 DEF BareCR
  <1>6. b[j + 1] = ch /\ j + 1 > 0
    OBVIOUS
  <1>. HIDE DEF ch, B
  <1>7. CASE ~a.cr /\ ch # "IAC" /\ (Binary(n) \/ ch # "CR")
    <2>1. m = More(a, <<ch>>)
      BY <1>7 DEF OutByte, BinaryOut, AsciiOut
    <2>2. ~m.cr /\ m.cur # <<>> /\ Says(Sent(m), B \o <<ch>>)
      BY <1>1, <1>2, <1>3, <1>7, <2>1, CodeMore
    <2>. HIDE DEF m
    <2>3. Encoded(n, b, j + 1, m)
      BY <1>1, <1>4, <2>2 DEF Encoded
    <2>. QED
      BY <2>3 DEF m, ch
  <1>8. CASE ~a.cr /\ ch = "IAC"
    <2>1. m = Flush(a, <<"IAC", "IAC">>, FALSE)
      BY <1>2, <1>8 DEF OutByte, BinaryOut, AsciiOut
    <2>2. ~m.cr /\ m.parts # <<>> /\ Last(m.parts).i = j + 1 /\ Says(Sent(m), B \o <<ch>>)
      BY <1>2, <1>3, <1>8, <2>1, CodeIac
    <2>. HIDE DEF m
    <2>3. Encoded(n, b, j + 1, m)
      BY <1>1, <1>4, <2>2 DEF Encoded
    <2>. QED
      BY <2>3 DEF m, ch
  <1>9. CASE a.cr
    <2>1. m = Flush(a, <<"CR", "LF">>, FALSE)
      BY <1>3, <1>5, <1>9 DEF OutByte, AsciiOut
    <2>2. ~m.cr /\ m.parts # <<>> /\ Last(m.parts).i = j + 1 /\ Says(Sent(m), B \o <<ch>>)
      BY <1>2, <1>3, <1>5, <1>9, <2>1, CodeCrLf
    <2>. HIDE DEF m
    <2>3. Encoded(n, b, j + 1, m)
      BY <1>1, <1>4, <2>2 DEF Encoded
    <2>. QED
      BY <2>3 DEF m, ch
  <1>10. CASE ~a.cr /\ ~Binary(n) /\ ch = "CR"
    <2>1. m = [More(a, <<>>) EXCEPT !.cr = TRUE]
      BY <1>10 DEF OutByte, AsciiOut
    <2>2. m.cr /\ Says(Sent(m) \o <<"CR">>, B \o <<ch>>)
      BY <1>2, <1>3, <1>10, <2>1, CodeCr
    <2>. HIDE DEF m
    <2>3. Encoded(n, b, j + 1, m)
      BY <1>1, <1>4, <1>6, <1>10, <2>2 DEF Encoded
    <2>. QED
      BY <2>3 DEF m, ch
  <1>. QED
    BY <1>7, <1>8, <1>9, <1>10

LEMMA CollectedEncoded ==
  ASSUME NEW n, n.wbuf = <<>>, n.wcr \in BOOLEAN, NEW b \in Seq(Line), NEW push
  PROVE  LET a == Collected(n, b)[Len(b)]
         IN  IsAcc(a) /\ a.i = Len(b) /\ (~n.wcr /\ ~BareCR(n, b, push) => Encoded(n, b, Len(b), a))
  <1>. DEFINE u == Collected(n, b)
              Good(j) == IsAcc(u[j]) /\ u[j].i = j /\ (~n.wcr /\ ~BareCR(n, b, push) => Encoded(n, b, j, u[j]))
              S == {j \in Nat : j <= Len(b) => Good(j)}
              z == First(n)
  <1>1. u[0] = z /\ \A j \in 1..Len(b) : u[j] = OutByte(n, u[j - 1], b[j])
    BY CollectedSteps
  <1>2. Len(b) \in Nat
    BY LenProperties
  <1>. HIDE DEF u
  <1>3. 0 \in S
    <2>1. z = [i |-> 0, cur |-> <<>>, cr |-> n.wcr, parts |-> <<>>]
      BY DEF First
    <2>2. IsAcc(z) /\ z.i = 0 /\ z.cur = <<>> /\ z.parts = <<>> /\ (z.cr <=> n.wcr)
      <3>1. <<>> \in Seq(Line) /\ <<>> \in Seq(PartSet)
        OBVIOUS
      <3>. QED
        BY <2>1, <3>1 DEF IsAcc
    <2>. HIDE DEF z
    <2>3. Sent(z) = <<>>
      <3>1. <<>> \o <<>> = <<>>
        BY ConcatEmptySeq
      <3>. QED
        BY <2>2, <3>1, BytesEmpty DEF Sent
    <2>4. SubSeq(b, 1, 0) = <<>>
      OBVIOUS
    <2>5. ~n.wcr => Encoded(n, b, 0, z)
      BY <2>2, <2>3, <2>4, SaysEmpty DEF Encoded
    <2>. QED
      BY <1>1, <2>2, <2>5
  <1>4. ASSUME NEW j \in Nat, j \in S PROVE j + 1 \in S
    <2>. SUFFICES ASSUME j + 1 <= Len(b) PROVE Good(j + 1)
      OBVIOUS
    <2>1. Good(j)
      BY <1>2, <1>4
    <2>2. j + 1 \in 1..Len(b) /\ (j + 1) - 1 = j /\ b[j + 1] \in Line
      BY <1>2, ElementOfSeq
    <2>3. u[j + 1] = OutByte(n, u[j], b[j + 1])
      BY <1>1, <2>2
    <2>4. IsAcc(u[j + 1]) /\ u[j + 1].i = j + 1
      BY <2>1, <2>2, <2>3, OutByteType
    <2>5. ASSUME ~n.wcr, ~BareCR(n, b, push) PROVE Encoded(n, b, j + 1, u[j + 1])
      BY <2>1, <2>3, <2>5, EncodedStep
    <2>. QED
      BY <2>4, <2>5
  <1>. HIDE DEF S, Good
  <1>5. Len(b) \in S
    BY <1>2, <1>3, <1>4, Induction
  <1>6. Good(Len(b))
    BY <1>2, <1>5 DEF S
  <1>. QED
    BY <1>6 DEF Good, u

(* The end of telnet_write() *)
LEMMA EndedParts ==
  ASSUME NEW a, IsAcc(a), NEW push \in BOOLEAN, NEW w, w = Ended(a, push)
  PROVE  /\ w.parts \in Seq(PartSet) /\ Bytes(w.parts) \in Seq(Line) /\ w.cr \in BOOLEAN
         /\ w.cr <=> a.cr /\ ~push
         /\ Bytes(w.parts) = IF a.cr /\ push THEN Sent(a) \o <<"CR">> ELSE Sent(a)
         /\ (a.cr /\ push) \/ a.cur # <<>> => w.parts # <<>> /\ Last(w.parts).i = a.i
         /\ ~(a.cr /\ push) /\ a.cur = <<>> => w.parts = a.parts
  <1>. DEFINE c == a.cur
              ps == a.parts
              last == IF a.cr /\ push THEN Append(c, "CR") ELSE c
              cr == a.cr /\ ~push
              p == Part(a.i, last, cr)
  <1>1. c \in Seq(Line) /\ ps \in Seq(PartSet) /\ a.i \in Nat /\ a.cr \in BOOLEAN /\ cr \in BOOLEAN
    BY DEF IsAcc
  <1>2. w.parts = (IF last = <<>> THEN ps ELSE Append(ps, p)) /\ w.cr = cr
    <2>1. Ended(a, push) = [parts |-> IF last = <<>> THEN ps ELSE Append(ps, p), cr |-> cr]
      BY DEF Ended
    <2>. HIDE DEF ps, last, p, cr
    <2>. QED
      BY <2>1
  <1>3. Append(c, "CR") \in Seq(Line) /\ Append(c, "CR") # <<>> /\ Append(c, "CR") = c \o <<"CR">>
    <2>. DEFINE x == "CR"
    <2>1. x \in Line /\ c \in Seq(Line)
      BY <1>1, IacNamed
    <2>. HIDE DEF x, c
    <2>2. Append(c, x) \in Seq(Line) /\ Append(c, x) # <<>>
      BY <2>1, AppendProperties
    <2>3. Append(c, x) = c \o <<x>>
      BY <2>1, AppendIsConcat
    <2>. QED
      BY <2>2, <2>3 DEF x
  <1>4. last \in Seq(Line) /\ (last = <<>> <=> ~(a.cr /\ push) /\ c = <<>>)
    BY <1>1, <1>3
  <1>5. p \in PartSet /\ p.b = last /\ p.i = a.i
    BY <1>1, <1>4 DEF PartSet, Part
  <1>6. Bytes(ps) \in Seq(Line) /\ Bytes(Append(ps, p)) = Bytes(ps) \o last
    BY <1>1, <1>5, BytesAppend
  <1>7. Append(ps, p) \in Seq(PartSet) /\ Append(ps, p) # <<>> /\ Last(Append(ps, p)) = p
    BY <1>1, <1>5, AppendProperties DEF Last
  <1>8. Bytes(w.parts) = Bytes(ps) \o last
    <2>1. CASE last = <<>>
      BY <1>2, <1>6, <2>1, ConcatEmptySeq
    <2>2. CASE last # <<>>
      BY <1>2, <1>6, <2>2
    <2>. QED
      BY <2>1, <2>2
  <1>9. Bytes(ps) \o last = IF a.cr /\ push THEN Sent(a) \o <<"CR">> ELSE Sent(a)
    <2>. DEFINE s == Bytes(ps)
                k == <<"CR">>
    <2>1. s \in Seq(Line) /\ k \in Seq(Line)
      BY <1>6, One, IacNamed
    <2>. HIDE DEF s, k
    <2>2. (s \o c) \o k = s \o (c \o k)
      <3>. HIDE DEF c
      <3>. QED
        BY <1>1, <2>1, ConcatAssociative
    <2>3. Sent(a) = s \o c
      BY DEF Sent, s
    <2>4. CASE a.cr /\ push
      <3>1. last = c \o k
        BY <1>3, <2>4 DEF k
      <3>. QED
        BY <2>2, <2>3, <2>4, <3>1 DEF s, k
    <2>5. CASE ~(a.cr /\ push)
      <3>1. last = c
        BY <2>5
      <3>. QED
        BY <2>3, <2>5, <3>1 DEF s
    <2>. QED
      BY <2>4, <2>5
  <1>10. Bytes(ps) \o last \in Seq(Line)
    BY <1>4, <1>6, ConcatProperties
  <1>. HIDE DEF last, p, cr
  <1>11. w.parts \in Seq(PartSet) /\ Bytes(w.parts) \in Seq(Line) /\ w.cr \in BOOLEAN
    BY <1>1, <1>2, <1>7, <1>8, <1>10
  <1>12. (a.cr /\ push) \/ c # <<>> => w.parts # <<>> /\ Last(w.parts).i = a.i
    BY <1>2, <1>4, <1>5, <1>7
  <1>13. ~(a.cr /\ push) /\ c = <<>> => w.parts = ps
    BY <1>2, <1>4
  <1>14. w.cr <=> a.cr /\ ~push
    BY <1>2 DEF cr
  <1>. QED
    BY <1>8, <1>9, <1>11, <1>12, <1>13, <1>14

(***************************************************************************)
(* telnet_write() sends bytes y.  Where no CR of b is bare they deliver b, *)
(* all of b counts as sent, and nothing is kept back.                      *)
(***************************************************************************)
LEMMA Written ==
  ASSUME NEW n, IsNvt(n), n.wbuf = <<>>, n.wcr \in BOOLEAN, NEW b \in Seq(Line), NEW push \in BOOLEAN
  PROVE  LET w == WriteAll(n, b, push)
         IN  /\ w.n.wcr \in BOOLEAN /\ w.sent \in Nat /\ (w.n.bare <=> n.bare \/ BareCR(n, b, push))
             /\ w.n.iac = n.iac /\ w.n.dowill = n.dowill /\ w.n.sub = n.sub /\ w.n.on = n.on
             /\ w.n.rcr = n.rcr /\ w.n.in = n.in /\ w.n.msg = n.msg
             /\ \E y \in Seq(Line) :
                  /\ w.n.out = n.out \o y
                  /\ ~n.wcr /\ ~BareCR(n, b, push) => ~w.n.wcr /\ Says(y, b) /\ w.sent = Len(b)
  <1>. DEFINE a == Collected(n, b)[Len(b)]
              w == Ended(a, push)
              v == WriteAll(n, b, push)
              y == Bytes(w.parts)
              bare == BareCR(n, b, push)
  <1>1. /\ IsAcc(a) /\ a.i = Len(b) /\ (~n.wcr /\ ~bare => Encoded(n, b, Len(b), a))
    BY CollectedEncoded
  <1>2. v = AllSent(n, b, push, w)
    BY DEF WriteAll, Parts, Thru
  <1>3. bare \in BOOLEAN
    BY DEF BareCR
  <1>. HIDE DEF a
  <1>4. v.n = [n EXCEPT !.wbuf = <<>>, !.wcr = w.cr, !.out = @ \o y, !.bare = @ \/ bare]
        /\ v.sent = IF w.parts = <<>> THEN 0 ELSE Last(w.parts).i
    BY <1>2 DEF AllSent
  <1>5. /\ w.parts \in Seq(PartSet) /\ y \in Seq(Line) /\ w.cr \in BOOLEAN
        /\ w.cr <=> a.cr /\ ~push
        /\ y = IF a.cr /\ push THEN Sent(a) \o <<"CR">> ELSE Sent(a)
        /\ (a.cr /\ push) \/ a.cur # <<>> => w.parts # <<>> /\ Last(w.parts).i = a.i
        /\ ~(a.cr /\ push) /\ a.cur = <<>> => w.parts = a.parts
    BY <1>1, EndedParts
  <1>. HIDE DEF w, v, y, bare
  <1>6. /\ v.n.wcr = w.cr /\ v.n.out = n.out \o y /\ (v.n.bare <=> n.bare \/ bare)
        /\ v.n.iac = n.iac /\ v.n.dowill = n.dowill /\ v.n.sub = n.sub /\ v.n.on = n.on
        /\ v.n.rcr = n.rcr /\ v.n.in = n.in /\ v.n.msg = n.msg
    <2>. DEFINE c == w.cr
                o == n.out \o y
                x == n.bare \/ bare
    <2>1. v.n = [n EXCEPT !.wbuf = <<>>, !.wcr = c, !.out = o, !.bare = x]
      BY <1>4
    <2>. HIDE DEF c, o, x
    <2>2. /\ v.n.wcr = c /\ v.n.out = o /\ v.n.bare = x
          /\ v.n.iac = n.iac /\ v.n.dowill = n.dowill /\ v.n.sub = n.sub /\ v.n.on = n.on
          /\ v.n.rcr = n.rcr /\ v.n.in = n.in /\ v.n.msg = n.msg
      BY <2>1 DEF IsNvt
    <2>. QED
      BY <2>2 DEF c, o, x
  <1>7. v.sent \in Nat
    <2>1. CASE w.parts = <<>>
      BY <1>4, <2>1
    <2>2. CASE w.parts # <<>>
      <3>. DEFINE ps == w.parts
      <3>1. ps \in Seq(PartSet) /\ ps # <<>>
        BY <1>5, <2>2
      <3>. HIDE DEF ps
      <3>2. Last(ps) \in PartSet
        BY <3>1, LenProperties, ElementOfSeq DEF Last
      <3>. QED
        BY <1>4, <2>2, <3>2 DEF PartSet, ps
    <2>. QED
      BY <2>1, <2>2
  <1>8. ASSUME ~n.wcr, ~bare PROVE ~v.n.wcr /\ Says(y, b) /\ v.sent = Len(b)
    <2>1. /\ a.cr => ~Binary(n) /\ Len(b) > 0 /\ b[Len(b)] = "CR"
          /\ Says(IF a.cr THEN Sent(a) \o <<"CR">> ELSE Sent(a), SubSeq(b, 1, Len(b)))
          /\ a.cur = <<>> /\ ~a.cr => \/ Len(b) = 0 /\ a.parts = <<>>
                                      \/ a.parts # <<>> /\ Last(a.parts).i = Len(b)
      BY <1>1, <1>8 DEF Encoded
    <2>2. SubSeq(b, 1, Len(b)) = b
      OBVIOUS
    <2>3. a.cr => push
      <3>1. a.cr => Len(b) \in DOMAIN b
        BY <2>1, LenProperties
      <3>. QED
        BY <1>8, <2>1, <3>1 DEF bare, BareCR
    <2>4. a.cr \in BOOLEAN
      BY <1>1 DEF IsAcc
    <2>5. Says(y, b)
      BY <1>5, <2>1, <2>2, <2>3
    <2>6. ~v.n.wcr
      BY <1>5, <1>6, <2>3
    <2>7. v.sent = Len(b)
      BY <1>1, <1>4, <1>5, <2>1, <2>3
    <2>. QED
      BY <2>5, <2>6, <2>7
  <1>. QED
    BY <1>5, <1>6, <1>7, <1>8 DEF v, bare

-----------------------------------------------------------------------------
(***************************************************************************)
(* The inductive invariant of a connection of two qodems whose sockets     *)
(* were not full.  d is what the end e has delivered.  Before the other    *)
(* end w has begun nothing is on its way; then what is on its way takes e  *)
(* to binary mode, between two commands, with x delivered, and what w has  *)
(* still to write completes x to the text.                                 *)
(***************************************************************************)
Unstarted(e, d) ==
  /\ net[e] = <<>> /\ View(nvt[e], d) = Fresh
  /\ (nvt[Other(e)].init /\ FlattenSeq(todo[Other(e)]) = setup.text[e]) \/ down[Other(e)]

Flowing(e, d) ==
  \E x \in Seq(Line) :
    /\ Path(View(nvt[e], d), net[e], Neutral(x)) /\ ~nvt[Other(e)].init
    /\ x \o FlattenSeq(todo[Other(e)]) = setup.text[e]

Carries(e) ==
  \E d \in Seq(Line) :
    /\ got[e] = d \/ (got[e] = Append(d, "closed") /\ nvt[e].msg)
    /\ Unstarted(e, d) \/ Flowing(e, d)

Link(e) == ~nvt[Other(e)].bare => ~nvt[Other(e)].wcr /\ ~nvt[e].rcr /\ Carries(e)

LineType ==
  /\ net \in [{"c", "h"} -> Seq(Line)] /\ todo \in [{"c", "h"} -> Seq(Seq(Line))]
  /\ got = [e \in {"c", "h"} |-> got[e]]
  /\ \A e \in {"c", "h"} :
       /\ nvt[e].out = <<>> /\ nvt[e].in = <<>> /\ nvt[e].wcr \in BOOLEAN
       /\ nvt[e].msg => down[Other(e)] /\ net[e] = <<>>

CleanInv ==
  /\ TelnetInv /\ setup \in TSetups
  /\ setup.host /\ blocks = 0 => LineType /\ \A e \in {"c", "h"} : Link(e)

(* The texts are sequences of bytes. *)
LEMMA SetupType ==
  ASSUME NEW p \in TSetups
  PROVE  /\ p.sends \in [{"c", "h"} -> Seq(Seq(Line))] /\ IsSize(p.size) /\ p.console \in BOOLEAN
         /\ p.host => \A e \in {"c", "h"} : p.text[e] = FlattenSeq(p.sends[Other(e)])
  <1>1. TChars \subseteq Line
    BY DEF Line
  <1>2. Seq(TChars) \subseteq Seq(Line)
    BY <1>1, SeqMonotonic
  <1>3. Seq(Seq(TChars)) \subseteq Seq(Seq(Line))
    BY <1>2, SeqMonotonic
  <1>4. /\ p.sends \in [{"c", "h"} -> Seq(Seq(TChars))] /\ p.console \in BOOLEAN
        /\ p.size \in Seq(TChars) /\ Len(p.size) = 4 /\ {p.size[1], p.size[3]} \cap {"IAC", "SE"} = {}
        /\ p.host => \A e \in {"c", "h"} : p.text[e] = FlattenSeq(p.sends[Other(e)])
    BY TelnetAssumption
  <1>5. p.sends \in [{"c", "h"} -> Seq(Seq(Line))]
    BY <1>3, <1>4
  <1>6. IsSize(p.size)
    BY <1>2, <1>4 DEF IsSize
  <1>. QED
    BY <1>4, <1>5, <1>6

LEMMA Others ==
  ASSUME NEW e \in {"c", "h"}
  PROVE  Other(e) \in {"c", "h"} /\ Other(e) # e /\ Other(Other(e)) = e
         /\ \A f \in {"c", "h"} : f = e \/ f = Other(e)
  BY DEF Other

LEMMA CleanStart == TInit => CleanInv
  <1>. SUFFICES ASSUME TInit PROVE CleanInv
    OBVIOUS
  <1>1. TelnetInv /\ setup \in TSetups
    BY TelnetInit DEF TInit
  <1>. SUFFICES ASSUME setup.host PROVE LineType /\ \A e \in {"c", "h"} : Link(e)
    BY <1>1 DEF CleanInv
  <1>2. /\ nvt = [e \in {"c", "h"} |-> Nvt] /\ todo = setup.sends
        /\ net = [e \in {"c", "h"} |-> <<>>] /\ got = [e \in {"c", "h"} |-> <<>>]
    BY DEF TInit
  <1>3. /\ Nvt.out = <<>> /\ Nvt.in = <<>> /\ Nvt.wcr = FALSE /\ Nvt.msg = FALSE /\ Nvt.init = TRUE
        /\ Nvt.rcr = FALSE /\ Nvt.iac = FALSE /\ Nvt.sub = FALSE /\ Nvt.dowill = "" /\ Nvt.on = {}
    BY DEF Nvt
  <1>4. View(Nvt, <<>>) = Fresh
    BY <1>3 DEF View, Waits, Mode, Binary, Fresh
  <1>5. /\ setup.sends \in [{"c", "h"} -> Seq(Seq(Line))]
        /\ \A e \in {"c", "h"} : setup.text[e] = FlattenSeq(setup.sends[Other(e)])
    BY <1>1, SetupType
  <1>6. LineType
    <2>1. net \in [{"c", "h"} -> Seq(Line)] /\ todo \in [{"c", "h"} -> Seq(Seq(Line))]
      <3>1. <<>> \in Seq(Line)
        OBVIOUS
      <3>. QED
        BY <1>2, <1>5, <3>1
    <2>2. got = [e \in {"c", "h"} |-> got[e]]
      BY <1>2
    <2>3. ASSUME NEW e \in {"c", "h"}
          PROVE  nvt[e].out = <<>> /\ nvt[e].in = <<>> /\ nvt[e].wcr \in BOOLEAN /\ ~nvt[e].msg
      BY <1>2, <1>3
    <2>. QED
      BY <2>1, <2>2, <2>3 DEF LineType
  <1>7. ASSUME NEW e \in {"c", "h"} PROVE Link(e)
    <2>1. Unstarted(e, <<>>)
      BY <1>2, <1>3, <1>4, <1>5, Others DEF Unstarted
    <2>2. <<>> \in Seq(Line) /\ got[e] = <<>>
      BY <1>2
    <2>3. Carries(e)
      BY <2>1, <2>2 DEF Carries
    <2>4. ~nvt[Other(e)].wcr /\ ~nvt[e].rcr
      BY <1>2, <1>3, Others
    <2>. QED
      BY <2>3, <2>4 DEF Link
  <1>. QED
    BY <1>6, <1>7
-----------------------------------------------------------------------------
(* A call at the end e: n is the state, left is what it leaves on its way. *)
Moves(e, n, left) ==
  /\ nvt' = [nvt EXCEPT ![e] = [n EXCEPT !.out = <<>>, !.in = <<>>]]
  /\ net' = [net EXCEPT ![e] = left, ![Other(e)] = IF down[e] THEN @ ELSE @ \o n.out]
  /\ got' = [got EXCEPT ![e] = @ \o n.in]

(* p is n without what was sent and returned. *)
Kept(p, n) ==
  /\ IsNvt(p) /\ p.out = <<>> /\ p.in = <<>>
  /\ p.iac = n.iac /\ p.dowill = n.dowill /\ p.sub = n.sub /\ p.on = n.on /\ p.init = n.init
  /\ p.rcr = n.rcr /\ p.wcr = n.wcr /\ p.bare = n.bare /\ p.msg = n.msg

LEMMA KeptView ==
  ASSUME NEW p, NEW n, Kept(p, n), NEW d
  PROVE  View(p, d) = View(n, d)
  BY DEF Kept, View, Waits, Mode, Binary

LEMMA ReturnMoves ==
  ASSUME LineType, NEW e \in {"c", "h"}, NEW n, Return(e, n)
  PROVE  Moves(e, n, net[e])
  <1>. DEFINE w == Other(e)
              more == IF down[e] THEN net[w] ELSE net[w] \o n.out
  <1>1. w \in {"c", "h"} /\ w # e
    BY Others
  <1>2. net = [f \in {"c", "h"} |-> net[f]]
    BY DEF LineType
  <1>3. net' = [net EXCEPT ![w] = more]
    BY DEF Return
  <1>. HIDE DEF w, more
  <1>4. net' = [net EXCEPT ![e] = net[e], ![w] = more]
    BY <1>1, <1>2, <1>3
  <1>. QED
    BY <1>1, <1>4 DEF Return, Moves, w, more

LEMMA Moved ==
  ASSUME TelnetInv, LineType, NEW e \in {"c", "h"}, NEW n, IsNvt(n), n.out \in Seq(Line),
         NEW left \in Seq(Line), Moves(e, n, left)
  PROVE  /\ Kept(nvt'[e], n) /\ nvt'[Other(e)] = nvt[Other(e)]
         /\ net' \in [{"c", "h"} -> Seq(Line)] /\ net'[e] = left
         /\ net'[Other(e)] = IF down[e] THEN net[Other(e)] ELSE net[Other(e)] \o n.out
         /\ got' = [f \in {"c", "h"} |-> got'[f]] /\ got'[e] = got[e] \o n.in
         /\ got'[Other(e)] = got[Other(e)]
  <1>. DEFINE w == Other(e)
              more == IF down[e] THEN net[w] ELSE net[w] \o n.out
              p == [n EXCEPT !.out = <<>>, !.in = <<>>]
              g == got[e] \o n.in
  <1>1. w \in {"c", "h"} /\ w # e /\ \A f \in {"c", "h"} : f = e \/ f = w
    BY Others
  <1>2. Kept(p, n)
    BY DEF IsNvt, Kept
  <1>3. net \in [{"c", "h"} -> Seq(Line)]
    BY DEF LineType
  <1>4. more \in Seq(Line)
    <2>1. net[w] \in Seq(Line)
      BY <1>1, <1>3
    <2>. QED
      BY <2>1, ConcatProperties
  <1>5. net' = [net EXCEPT ![e] = left, ![w] = more]
    BY <1>1 DEF Moves
  <1>. DEFINE ends == {"c", "h"}
  <1>6. got = [f \in ends |-> got[f]] /\ nvt = [f \in ends |-> nvt[f]]
    BY DEF LineType, TelnetInv
  <1>7. nvt' = [nvt EXCEPT ![e] = p] /\ got' = [got EXCEPT ![e] = g]
    BY DEF Moves
  <1>8. e \in ends /\ w \in ends /\ net \in [ends -> Seq(Line)]
    BY <1>1, <1>3
  <1>. HIDE DEF w, more, p, g, ends
  <1>9. nvt'[e] = p /\ nvt'[w] = nvt[w]
    BY <1>1, <1>6, <1>7, <1>8
  <1>10. net' \in [ends -> Seq(Line)] /\ net'[e] = left /\ net'[w] = more
    BY <1>1, <1>4, <1>5, <1>8
  <1>11. got' = [f \in ends |-> IF f = e THEN g ELSE got[f]]
    BY <1>6, <1>7
  <1>12. got' = [f \in ends |-> got'[f]] /\ got'[e] = g /\ got'[w] = got[w]
    BY <1>1, <1>8, <1>11
  <1>. QED
    BY <1>2, <1>9, <1>10, <1>12 DEF w, more, g, ends
(* p is n once it has begun: the options are to be sent, if they were not. *)
Begun(p, n) ==
  /\ Parser(p) /\ ~p.init /\ p.in = <<>> /\ p.out \in Seq(Line) /\ p.wbuf = n.wbuf
  /\ p.iac = n.iac /\ p.dowill = n.dowill /\ p.sub = n.sub /\ p.on = n.on
  /\ p.rcr = n.rcr /\ p.wcr = n.wcr /\ p.bare = n.bare /\ p.msg = n.msg
  /\ IF n.init THEN Path(Fresh, p.out, Neutral(<<>>)) ELSE p.out = <<>>

LEMMA BegunView ==
  ASSUME NEW p, NEW n, Begun(p, n), NEW d
  PROVE  View(p, d) = View(n, d)
  BY DEF Begun, View, Waits, Mode, Binary

LEMMA OptionsBegin ==
  ASSUME NEW n, Parser(n), n.in = <<>>, n.init, NEW host
  PROVE  Begun(SendOptions(n, host), n)
  <1>. DEFINE p == SendOptions(n, host)
              o == p.out
              no == FALSE
  <1>1. Parser(p) /\ ~p.init /\ p.wbuf = n.wbuf
    BY SendOptionsOK
  <1>2. o \in Seq(Line) /\ Path(Fresh, o, Neutral(<<>>))
    BY OptionsPath DEF Parser
  <1>3. p = [n EXCEPT !.init = no, !.out = o]
    BY Zenon DEF SendOptions, Parser, IsNvt
  <1>. HIDE DEF p, o, no
  <1>4. /\ p.in = n.in /\ p.iac = n.iac /\ p.dowill = n.dowill /\ p.sub = n.sub /\ p.on = n.on
        /\ p.rcr = n.rcr /\ p.wcr = n.wcr /\ p.bare = n.bare /\ p.msg = n.msg /\ p.out = o
    BY <1>3 DEF Parser, IsNvt
  <1>5. Begun(p, n)
    BY <1>1, <1>2, <1>4 DEF Begun
  <1>. QED
    BY <1>5 DEF p

LEMMA StartedBegun ==
  ASSUME TelnetInv, LineType, NEW e \in {"c", "h"}
  PROVE  Begun(Started(e), nvt[e])
  <1>. DEFINE n == nvt[e]
              host == (e = "h")
  <1>1. Parser(n) /\ n.in = <<>> /\ n.out = <<>>
    BY DEF TelnetInv, EndOK, LineType
  <1>2. Started(e) = IF n.init THEN SendOptions(n, host) ELSE n
    BY DEF Started
  <1>. HIDE DEF n, host
  <1>3. CASE n.init
    BY <1>1, <1>2, <1>3, OptionsBegin DEF n
  <1>4. CASE ~n.init
    <2>1. <<>> \in Seq(Line)
      OBVIOUS
    <2>2. Begun(n, n)
      BY <1>1, <1>4, <2>1 DEF Begun
    <2>. QED
      BY <1>2, <1>4, <2>2 DEF n
  <1>. QED
    BY <1>3, <1>4

(***************************************************************************)
(* The end w sends y behind the options, if these were not sent yet, and y *)
(* delivers b: then b was taken from what w has to write.                  *)
(***************************************************************************)
LEMMA SenderLink ==
  ASSUME TelnetInv, LineType, NEW w \in {"c", "h"}, NEW e, e = Other(w), Link(e),
         FlattenSeq(todo'[w]) \in Seq(Line),
         NEW o \in Seq(Line),
         IF nvt[w].init THEN Path(Fresh, o, Neutral(<<>>)) ELSE o = <<>>,
         NEW y \in Seq(Line), NEW b \in Seq(Line),
         ~nvt'[w].bare =>
           /\ ~nvt[w].bare /\ ~nvt'[w].wcr /\ Says(y, b)
           /\ FlattenSeq(todo[w]) = b \o FlattenSeq(todo'[w]),
         ~nvt'[w].init, nvt'[e] = nvt[e], got'[e] = got[e], setup' = setup,
         net'[e] = IF down[w] THEN net[e] ELSE net[e] \o (o \o y),
         down[w] => down'[w] /\ todo'[w] = todo[w]
  PROVE  Link(e)'
  <1>. DEFINE t == FlattenSeq(todo'[w])
  <1>1. e \in {"c", "h"} /\ Other(e) = w /\ net[e] \in Seq(Line)
    BY Others DEF LineType
  <1>. SUFFICES ASSUME ~nvt'[w].bare PROVE ~nvt'[w].wcr /\ ~nvt'[e].rcr /\ Carries(e)'
    BY <1>1 DEF Link
  <1>2. Says(y, b) /\ FlattenSeq(todo[w]) = b \o t /\ ~nvt[e].rcr /\ Carries(e)
    BY <1>1 DEF Link
  <1>3. PICK d \in Seq(Line) :
          /\ got[e] = d \/ (got[e] = Append(d, "closed") /\ nvt[e].msg)
          /\ Unstarted(e, d) \/ Flowing(e, d)
    BY <1>2 DEF Carries
  <1>. HIDE DEF t
  <1>4. CASE down[w]
    <2>1. net'[e] = net[e] /\ down'[w] /\ todo'[w] = todo[w]
      BY <1>4
    <2>2. Unstarted(e, d) => Unstarted(e, d)'
      BY <1>1, <2>1 DEF Unstarted
    <2>3. Flowing(e, d) => Flowing(e, d)'
      BY <1>1, <2>1 DEF Flowing
    <2>4. Carries(e)'
      BY <1>3, <2>2, <2>3 DEF Carries
    <2>. QED
      BY <1>2, <2>4
  <1>5. CASE ~down[w]
    <2>1. net'[e] = net[e] \o (o \o y)
      BY <1>5
    <2>2. ASSUME Unstarted(e, d) PROVE Flowing(e, d)'
      <3>1. net[e] = <<>> /\ View(nvt[e], d) = Fresh /\ nvt[w].init
            /\ FlattenSeq(todo[w]) = setup.text[e]
        BY <1>1, <1>5, <2>2 DEF Unstarted
      <3>2. Path(Fresh, o, Neutral(<<>>))
        BY <3>1
      <3>3. Path(Neutral(<<>>), y, Neutral(<<>> \o b)) /\ <<>> \o b = b
        <4>1. <<>> \in Seq(Line)
          OBVIOUS
        <4>. QED
          BY <1>2, <4>1, ConcatEmptySeq DEF Says
      <3>4. Path(Fresh, o \o y, Neutral(b))
        BY <3>2, <3>3, PathCat
      <3>5. net'[e] = o \o y
        <4>. DEFINE z == o \o y
        <4>1. z \in Seq(Line)
          BY ConcatProperties
        <4>. HIDE DEF z
        <4>2. <<>> \o z = z
          BY <4>1, ConcatEmptySeq
        <4>. QED
          BY <2>1, <3>1, <4>2 DEF z
      <3>6. Path(View(nvt'[e], d), net'[e], Neutral(b)) /\ ~nvt'[w].init /\ b \o t = setup'.text[e]
        BY <1>2, <3>1, <3>4, <3>5
      <3>. QED
        BY <1>1, <3>6 DEF Flowing, t
    <2>3. ASSUME Flowing(e, d) PROVE Flowing(e, d)'
      <3>1. PICK x \in Seq(Line) :
              /\ Path(View(nvt[e], d), net[e], Neutral(x)) /\ ~nvt[w].init
              /\ x \o FlattenSeq(todo[w]) = setup.text[e]
        BY <1>1, <2>3 DEF Flowing
      <3>2. o \o y = y
        BY <3>1, ConcatEmptySeq
      <3>3. net'[e] = net[e] \o y
        BY <2>1, <3>2
      <3>4. Path(Neutral(x), y, Neutral(x \o b))
        BY <1>2 DEF Says
      <3>5. Path(View(nvt[e], d), net'[e], Neutral(x \o b))
        <4>. DEFINE v == View(nvt[e], d)
                    k == net[e]
        <4>1. Path(v, k, Neutral(x)) /\ k \in Seq(Line)
          BY <1>1, <3>1
        <4>. HIDE DEF v, k
        <4>2. Path(v, k \o y, Neutral(x \o b))
          BY <3>4, <4>1, PathCat
        <4>. QED
          BY <3>3, <4>2 DEF v, k
      <3>6. x \o b \in Seq(Line) /\ (x \o b) \o t = setup'.text[e]
        <4>1. t \in Seq(Line)
          BY DEF t
        <4>2. (x \o b) \o t = x \o (b \o t)
          BY <4>1, ConcatAssociative, SMTT(30)
        <4>. QED
          BY <1>2, <3>1, <4>2, ConcatProperties
      <3>7. Path(View(nvt'[e], d), net'[e], Neutral(x \o b)) /\ ~nvt'[w].init
        BY <3>5
      <3>. QED
        BY <1>1, <3>6, <3>7 DEF Flowing, t
    <2>4. Carries(e)'
      BY <1>3, <2>2, <2>3 DEF Carries
    <2>. QED
      BY <1>2, <2>4
  <1>. QED
    BY <1>4, <1>5
(* Two parsers look alike. *)
SameView(a, b) == \A d : View(a, d) = View(b, d)

(* A call at the end e that reads nothing *)
LEMMA StillLink ==
  ASSUME NEW e \in {"c", "h"}, Link(e), nvt'[Other(e)] = nvt[Other(e)], todo'[Other(e)] = todo[Other(e)],
         down[Other(e)] => down'[Other(e)], setup' = setup, net'[e] = net[e],
         got'[e] = got[e] \o <<>>, nvt'[e].rcr = nvt[e].rcr, nvt[e].msg => nvt'[e].msg,
         SameView(nvt'[e], nvt[e])
  PROVE  Link(e)'
  <1>. SUFFICES ASSUME ~nvt'[Other(e)].bare
               PROVE  ~nvt'[Other(e)].wcr /\ ~nvt'[e].rcr /\ Carries(e)'
    BY DEF Link
  <1>1. ~nvt'[Other(e)].wcr /\ ~nvt'[e].rcr /\ Carries(e)
    BY DEF Link
  <1>2. PICK d \in Seq(Line) :
          /\ got[e] = d \/ (got[e] = Append(d, "closed") /\ nvt[e].msg)
          /\ Unstarted(e, d) \/ Flowing(e, d)
    BY <1>1 DEF Carries
  <1>3. got'[e] = got[e]
    <2>. DEFINE g == got[e]
    <2>1. g \in Seq(Line)
      <3>1. "closed" \in Line
        BY DEF Line
      <3>. QED
        BY <1>2, <3>1, AppendProperties
    <2>. HIDE DEF g
    <2>2. g \o <<>> = g
      BY <2>1, ConcatEmptySeq
    <2>. QED
      BY <2>2 DEF g
  <1>4. Unstarted(e, d) => Unstarted(e, d)'
    BY DEF Unstarted, SameView
  <1>5. Flowing(e, d) => Flowing(e, d)'
    BY DEF Flowing, SameView
  <1>6. Carries(e)'
    BY <1>2, <1>3, <1>4, <1>5 DEF Carries
  <1>. QED
    BY <1>1, <1>6

(* telnet_read() takes the first of the bytes on their way. *)
LEMMA ReaderLink ==
  ASSUME NEW e \in {"c", "h"}, Link(e), LineType, nvt'[Other(e)] = nvt[Other(e)],
         todo'[Other(e)] = todo[Other(e)], setup' = setup, net[e] # <<>>, net'[e] = Tail(net[e]),
         NEW n, Begun(n, nvt[e]), NEW size, IsSize(size), NEW p, p = ReadByte(n, Head(net[e]), size),
         Kept(nvt'[e], p), got'[e] = got[e] \o p.in
  PROVE  Link(e)'
  <1>. DEFINE k == net[e]
              ch == Head(k)
  <1>. SUFFICES ASSUME ~nvt'[Other(e)].bare
               PROVE  ~nvt'[Other(e)].wcr /\ ~nvt'[e].rcr /\ Carries(e)'
    BY DEF Link
  <1>1. ~nvt'[Other(e)].wcr /\ ~nvt[e].rcr /\ Carries(e)
    BY DEF Link
  <1>2. k \in Seq(Line) /\ k # <<>> /\ ~nvt[e].msg
    BY DEF LineType
  <1>3. PICK d \in Seq(Line) : got[e] = d /\ (Unstarted(e, d) \/ Flowing(e, d))
    BY <1>1, <1>2 DEF Carries
  <1>4. PICK x \in Seq(Line) :
          /\ Path(View(nvt[e], d), k, Neutral(x)) /\ ~nvt[Other(e)].init
          /\ x \o FlattenSeq(todo[Other(e)]) = setup.text[e]
    BY <1>2, <1>3 DEF Unstarted, Flowing
  <1>. HIDE DEF k
  <1>5. View(n, d) = View(nvt[e], d)
    BY BegunView
  <1>6. ch \in Line /\ Tail(k) \in Seq(Line)
    BY <1>2, HeadTailProperties
  <1>7. Legal(View(n, d), ch) /\ Path(Step(View(n, d), ch), Tail(k), Neutral(x))
    <2>. DEFINE v == View(nvt[e], d)
    <2>1. Path(v, k, Neutral(x))
      BY <1>4
    <2>. HIDE DEF v
    <2>2. Legal(v, Head(k)) /\ Path(Step(v, Head(k)), Tail(k), Neutral(x))
      BY <1>2, <2>1, PathTail
    <2>. QED
      BY <1>5, <2>2 DEF v
  <1>8. Parser(n) /\ n.in = <<>> /\ n.out \in Seq(Line) /\ ~n.rcr
    BY <1>1 DEF Begun
  <1>9. p = ReadByte(n, ch, size)
    BY DEF k
  <1>. HIDE DEF ch
  <1>10. ~p.rcr /\ p.in \in Seq(Line) /\ View(p, d \o p.in) = Step(View(n, d), ch)
    BY <1>6, <1>7, <1>8, <1>9, ReadStep
  <1>. DEFINE g == d \o p.in
  <1>11. g \in Seq(Line) /\ got'[e] = g
    BY <1>3, <1>10, ConcatProperties
  <1>12. View(nvt'[e], g) = View(p, g) /\ ~nvt'[e].rcr
    <2>. HIDE DEF g
    <2>1. View(nvt'[e], g) = View(p, g)
      BY KeptView
    <2>2. ~nvt'[e].rcr
      BY <1>10 DEF Kept
    <2>. QED
      BY <2>1, <2>2
  <1>13. Path(View(nvt'[e], g), net'[e], Neutral(x))
    BY <1>7, <1>10, <1>12 DEF k
  <1>. HIDE DEF g
  <1>14. Flowing(e, g)'
    BY <1>4, <1>13 DEF Flowing
  <1>15. Carries(e)'
    BY <1>11, <1>14 DEF Carries
  <1>. QED
    BY <1>1, <1>12, <1>15

(* The message about the end is delivered, and nothing else. *)
LEMMA ReadClosed ==
  ASSUME NEW n, Parser(n), n.in = <<>>, Waits(n) = "", ~n.rcr, NEW size
  PROVE  LET p == ReadByte(n, "closed", size)
         IN  p.in = <<"closed">> /\ ~p.rcr /\ SameView(p, n)
  <1>. DEFINE p == ReadByte(n, "closed", size)
              yes == [n EXCEPT !.in = <<"closed">>]
              no == [n EXCEPT !.rcr = FALSE, !.in = <<"closed">>]
  <1>1. ~n.sub /\ n.dowill = "" /\ ~n.iac
    BY DEF Waits, Parser, IsNvt, Verbs
  <1>2. <<>> \o <<"closed">> = <<"closed">>
    BY One
  <1>3. p = IF Binary(n) THEN Deliver(n, <<"closed">>) ELSE AsciiByte(n, "closed")
    BY <1>1 DEF ReadByte
  <1>4. Deliver(n, <<"closed">>) = yes
    BY <1>2 DEF Deliver
  <1>5. AsciiByte(n, "closed") = Deliver([n EXCEPT !.rcr = FALSE], <<"closed">>)
    BY DEF AsciiByte, NUL
  <1>6. Deliver([n EXCEPT !.rcr = FALSE], <<"closed">>) = no
    BY <1>2 DEF Deliver, Parser, IsNvt
  <1>7. p = yes \/ p = no
    BY <1>3, <1>4, <1>5, <1>6
  <1>. HIDE DEF p
  <1>8. p.in = <<"closed">> /\ ~p.rcr /\ p.sub = n.sub /\ p.iac = n.iac /\ p.dowill = n.dowill /\ p.on = n.on
    BY <1>7 DEF Parser, IsNvt
  <1>9. SameView(p, n)
    BY <1>8 DEF View, Waits, Mode, Binary, SameView
  <1>. QED
    BY <1>8, <1>9 DEF p

LEMMA PathNone ==
  ASSUME NEW v, NEW u, Path(v, <<>>, u)
  PROVE  v = u
  BY DEF Path, Run

(* telnet_read() returns the message at the end of the bytes. *)
LEMMA CloserLink ==
  ASSUME NEW e \in {"c", "h"}, Link(e), nvt'[Other(e)] = nvt[Other(e)],
         todo'[Other(e)] = todo[Other(e)], down[Other(e)] => down'[Other(e)], setup' = setup,
         net[e] = <<>>, net'[e] = <<>>, ~nvt[e].msg, nvt'[e].msg,
         NEW n, Begun(n, nvt[e]), NEW size, NEW p, p = ReadByte(n, "closed", size),
         SameView(nvt'[e], p), nvt'[e].rcr = p.rcr, got'[e] = got[e] \o p.in
  PROVE  Link(e)'
  <1>. SUFFICES ASSUME ~nvt'[Other(e)].bare
               PROVE  ~nvt'[Other(e)].wcr /\ ~nvt'[e].rcr /\ Carries(e)'
    BY DEF Link
  <1>1. ~nvt'[Other(e)].wcr /\ ~nvt[e].rcr /\ Carries(e)
    BY DEF Link
  <1>2. PICK d \in Seq(Line) : got[e] = d /\ (Unstarted(e, d) \/ Flowing(e, d))
    BY <1>1 DEF Carries
  <1>3. Waits(nvt[e]) = ""
    <2>1. CASE Unstarted(e, d)
      BY <2>1 DEF Unstarted, View, Fresh, At
    <2>2. CASE Flowing(e, d)
      <3>1. PICK x : Path(View(nvt[e], d), <<>>, Neutral(x))
        BY <2>2 DEF Flowing
      <3>2. View(nvt[e], d) = Neutral(x)
        BY <3>1, PathNone
      <3>. QED
        BY <3>2 DEF View, Neutral, At
    <2>. QED
      BY <1>2, <2>1, <2>2
  <1>4. Parser(n) /\ n.in = <<>> /\ Waits(n) = "" /\ ~n.rcr
    BY <1>1, <1>3 DEF Begun, Waits
  <1>5. p.in = <<"closed">> /\ ~p.rcr /\ SameView(p, n)
    BY <1>4, ReadClosed
  <1>6. View(nvt'[e], d) = View(nvt[e], d) /\ ~nvt'[e].rcr
    BY <1>5, BegunView DEF SameView
  <1>7. got'[e] = Append(d, "closed")
    <2>1. "closed" \in Line
      BY DEF Line
    <2>2. Append(d, "closed") = d \o <<"closed">>
      BY <2>1, AppendIsConcat
    <2>. QED
      BY <1>2, <1>5, <2>2
  <1>8. Unstarted(e, d) => Unstarted(e, d)'
    BY <1>6 DEF Unstarted
  <1>9. Flowing(e, d) => Flowing(e, d)'
    BY <1>6 DEF Flowing
  <1>10. Carries(e)'
    BY <1>2, <1>7, <1>8, <1>9 DEF Carries
  <1>. QED
    BY <1>1, <1>6, <1>10

(* The types after a call *)
LEMMA MovedType ==
  ASSUME TelnetInv, LineType, NEW e \in {"c", "h"}, NEW n, IsNvt(n), n.out \in Seq(Line),
         NEW left \in Seq(Line), Moves(e, n, left), n.wcr \in BOOLEAN,
         n.msg => down'[Other(e)] /\ left = <<>>, down[e] => down'[e],
         todo' \in [{"c", "h"} -> Seq(Seq(Line))]
  PROVE  LineType'
  <1>. DEFINE w == Other(e)
  <1>1. w \in {"c", "h"} /\ Other(w) = e /\ \A f \in {"c", "h"} : f = e \/ f = w
    BY Others
  <1>2. /\ Kept(nvt'[e], n) /\ nvt'[w] = nvt[w]
        /\ net' \in [{"c", "h"} -> Seq(Line)] /\ net'[e] = left
        /\ net'[w] = IF down[e] THEN net[w] ELSE net[w] \o n.out
        /\ got' = [f \in {"c", "h"} |-> got'[f]]
    BY Moved
  <1>. HIDE DEF w
  <1>3. /\ nvt'[e].out = <<>> /\ nvt'[e].in = <<>> /\ nvt'[e].wcr \in BOOLEAN
        /\ nvt'[e].msg => down'[w] /\ net'[e] = <<>>
    BY <1>2 DEF Kept, w
  <1>4. /\ nvt'[w].out = <<>> /\ nvt'[w].in = <<>> /\ nvt'[w].wcr \in BOOLEAN
        /\ nvt'[w].msg => down'[e] /\ net'[w] = <<>>
    <2>1. /\ nvt[w].out = <<>> /\ nvt[w].in = <<>> /\ nvt[w].wcr \in BOOLEAN
          /\ nvt[w].msg => down[e] /\ net[w] = <<>>
      BY <1>1 DEF LineType
    <2>. QED
      BY <1>2, <2>1
  <1>5. ASSUME NEW f \in {"c", "h"}
        PROVE  /\ nvt'[f].out = <<>> /\ nvt'[f].in = <<>> /\ nvt'[f].wcr \in BOOLEAN
               /\ nvt'[f].msg => down'[Other(f)] /\ net'[f] = <<>>
    <2>1. CASE f = e
      BY <1>3, <2>1 DEF w
    <2>2. CASE f = w
      BY <1>1, <1>4, <2>2
    <2>. QED
      BY <1>1, <2>1, <2>2
  <1>. QED
    BY <1>2, <1>5 DEF LineType
-----------------------------------------------------------------------------
(* What is flattened when the head, or nothing, is taken from a sequence *)
LEMMA FlattenHead ==
  ASSUME NEW s \in Seq(Seq(Line)), s # <<>>
  PROVE  /\ Head(s) \in Seq(Line) /\ Tail(s) \in Seq(Seq(Line))
         /\ FlattenSeq(s) = Head(s) \o FlattenSeq(Tail(s))
  <1>. DEFINE h == Head(s)
              t == Tail(s)
  <1>1. h \in Seq(Line) /\ t \in Seq(Seq(Line)) /\ s = <<h>> \o t
    BY HeadTailProperties
  <1>. HIDE DEF h, t
  <1>2. FlattenSeq(<<h>> \o t) = h \o FlattenSeq(t)
    BY <1>1, FlattenCons
  <1>. QED
    BY <1>1, <1>2 DEF h, t

(* The end e writes nothing of what it has to write, but may answer. *)
LEMMA AnswerLink ==
  ASSUME TelnetInv, LineType, NEW e \in {"c", "h"}, Link(Other(e)),
         NEW n, Begun(n, nvt[e]), NEW p, ~p.init, p.wcr = n.wcr, p.bare = n.bare,
         Silent(n, p),
         Kept(nvt'[e], p), nvt'[Other(e)] = nvt[Other(e)], got'[Other(e)] = got[Other(e)],
         net'[Other(e)] = IF down[e] THEN net[Other(e)] ELSE net[Other(e)] \o p.out,
         setup' = setup, todo' = todo, down[e] => down'[e]
  PROVE  Link(Other(e))'
  <1>. DEFINE w == Other(e)
              o == n.out
              t == todo[e]
              none == <<>>
  <1>1. PICK y : Says(y, <<>>) /\ p.out = n.out \o y
    BY DEF Silent
  <1>2. (IF nvt[e].init THEN Path(Fresh, o, Neutral(<<>>)) ELSE o = <<>>) /\ o \in Seq(Line)
    BY DEF Begun
  <1>3. ~nvt'[e].init /\ nvt'[e].bare = nvt[e].bare /\ nvt'[e].wcr = nvt[e].wcr
    BY DEF Kept, Begun
  <1>4. ~nvt[e].bare => ~nvt[e].wcr
    BY Others DEF Link
  <1>5. FlattenSeq(t) \in Seq(Line) /\ none \o FlattenSeq(t) = FlattenSeq(t) /\ none \in Seq(Line)
    <2>1. t \in Seq(Seq(Line))
      BY DEF LineType
    <2>2. FlattenSeq(t) \in Seq(Line)
      BY <2>1, FlattenType
    <2>. QED
      BY <2>2, ConcatEmptySeq
  <1>6. net'[w] = IF down[e] THEN net[w] ELSE net[w] \o (o \o y)
    BY <1>1
  <1>7. y \in Seq(Line) /\ Says(y, none)
    BY <1>1 DEF Says
  <1>8. FlattenSeq(todo'[e]) \in Seq(Line) /\ FlattenSeq(todo[e]) = none \o FlattenSeq(todo'[e])
    BY <1>5
  <1>9. w = Other(e) /\ Link(w) /\ nvt'[w] = nvt[w] /\ got'[w] = got[w]
    OBVIOUS
  <1>. HIDE DEF o, t, w, none
  <1>10. Link(w)'
    BY <1>2, <1>3, <1>4, <1>5, <1>6, <1>7, <1>8, <1>9, SenderLink
  <1>. QED
    BY <1>10 DEF w

LEMMA ReadAnswers ==
  ASSUME NEW n, Parser(n), n.in = <<>>, n.out \in Seq(Line), NEW ch \in Line,
         NEW size, IsSize(size), NEW p, p = ReadByte(n, ch, size)
  PROVE  /\ p.wcr = n.wcr /\ p.bare = n.bare /\ p.msg = n.msg
         /\ Silent(n, p)
  <1>1. PICK d \in Seq(Line) : TRUE
    BY EmptySeq
  <1>2. /\ p.wcr = n.wcr /\ p.bare = n.bare /\ p.msg = n.msg
        /\ Silent(n, p)
        /\ Legal(View(n, d), ch) /\ ~n.rcr =>
             ~p.rcr /\ p.in \in Seq(Line) /\ View(p, d \o p.in) = Step(View(n, d), ch)
    BY ReadStep
  <1>. QED
    BY <1>2

(* p is n, but for connected and msg. *)
LEMMA Flagged ==
  ASSUME NEW n, Parser(n), ~n.init, n.out \in Seq(Line), NEW p,
         p = [n EXCEPT !.connected = FALSE] \/ p = [n EXCEPT !.msg = TRUE]
  PROVE  /\ Parser(p) /\ ~p.init /\ p.wcr = n.wcr /\ p.bare = n.bare /\ p.rcr = n.rcr /\ p.in = n.in
         /\ p.out = n.out /\ Silent(n, p) /\ (n.msg => p.msg) /\ SameView(p, n)
  <1>1. /\ Parser(p) /\ ~p.init /\ p.wcr = n.wcr /\ p.bare = n.bare /\ p.rcr = n.rcr /\ p.in = n.in
        /\ p.out = n.out /\ (n.msg => p.msg)
        /\ p.sub = n.sub /\ p.iac = n.iac /\ p.dowill = n.dowill /\ p.on = n.on
    BY DEF Parser, IsNvt
  <1>2. SameView(p, n)
    BY <1>1 DEF View, Waits, Mode, Binary, SameView
  <1>3. Silent(n, p)
    <2>. DEFINE o == n.out
    <2>1. o \in Seq(Line)
      OBVIOUS
    <2>. HIDE DEF o
    <2>2. o = o \o <<>>
      BY <2>1, ConcatEmptySeq
    <2>3. p.out = n.out \o <<>>
      BY <1>1, <2>2 DEF o
    <2>. QED
      BY <2>3, SaysEmpty DEF Silent
  <1>. QED
    BY <1>1, <1>2, <1>3

LEMMA SilentType ==
  ASSUME NEW n, NEW p, n.out \in Seq(Line), Silent(n, p)
  PROVE  p.out \in Seq(Line)
  BY ConcatProperties DEF Silent, Says

(* p is n, but for what is sent and delivers nothing, and for the parser. *)
Replies(n, p) == IsNvt(p) /\ ~p.init /\ p.wcr = n.wcr /\ p.bare = n.bare /\ Silent(n, p)

(* What follows of a call at the end e with the result p *)
Answered(e, p, left) ==
  /\ LineType' /\ Link(Other(e))'
  /\ Kept(nvt'[e], p) /\ nvt'[Other(e)] = nvt[Other(e)] /\ net'[e] = left
  /\ got'[e] = got[e] \o p.in

(* A call at the end e that writes nothing, but may answer *)
LEMMA MovesAnswer ==
  ASSUME TelnetInv, LineType, NEW e \in {"c", "h"}, Link(Other(e)),
         NEW n, Begun(n, nvt[e]), NEW p, Replies(n, p),
         NEW left \in Seq(Line), Moves(e, p, left), p.msg => down'[Other(e)] /\ left = <<>>,
         down[e] => down'[e], setup' = setup, todo' = todo
  PROVE  Answered(e, p, left)
  <1>1. n.out \in Seq(Line) /\ n.wcr = nvt[e].wcr
    BY DEF Begun
  <1>. USE DEF Replies
  <1>2. p.out \in Seq(Line) /\ p.wcr \in BOOLEAN
    BY <1>1, SilentType DEF LineType
  <1>3. todo' \in [{"c", "h"} -> Seq(Seq(Line))]
    BY DEF LineType
  <1>4. LineType'
    BY <1>2, <1>3, MovedType
  <1>5. /\ Kept(nvt'[e], p) /\ nvt'[Other(e)] = nvt[Other(e)] /\ net'[e] = left
        /\ net'[Other(e)] = IF down[e] THEN net[Other(e)] ELSE net[Other(e)] \o p.out
        /\ got'[e] = got[e] \o p.in /\ got'[Other(e)] = got[Other(e)]
    BY <1>2, Moved
  <1>6. Link(Other(e))'
    BY <1>5, AnswerLink
  <1>. QED
    BY <1>4, <1>5, <1>6 DEF Answered

(* telnet_read() *)
LEMMA ReadLinks ==
  ASSUME TelnetInv, setup \in TSetups, LineType, NEW e \in {"c", "h"}, Link(e), Link(Other(e)), Read(e)
  PROVE  LineType' /\ Link(e)' /\ Link(Other(e))'
  <1>. DEFINE w == Other(e)
              n == Started(e)
              ch == Head(net[e])
              p == ReadByte(n, ch, setup.size)
              left == Tail(net[e])
  <1>1. /\ net[e] # <<>> /\ Moves(e, p, left) /\ setup' = setup /\ todo' = todo /\ down' = down
    BY DEF Read, Moves
  <1>2. IsSize(setup.size)
    BY SetupType
  <1>3. Begun(n, nvt[e])
    BY StartedBegun
  <1>4. ch \in Line /\ left \in Seq(Line)
    BY <1>1, HeadTailProperties DEF LineType
  <1>5. Parsed(n, p)
    BY <1>3, ReadByteParsed DEF Begun
  <1>6. w \in {"c", "h"} /\ Other(w) = e
    BY Others
  <1>. HIDE DEF n, p, left
  <1>7. Parser(n) /\ n.in = <<>> /\ n.out \in Seq(Line) /\ ~n.init /\ n.wcr = nvt[e].wcr
        /\ n.bare = nvt[e].bare /\ n.msg = nvt[e].msg
    BY <1>3 DEF Begun
  <1>8. IsNvt(p) /\ ~p.init
    BY <1>5, <1>7 DEF Parsed, Parser
  <1>9. p.wcr = n.wcr /\ p.bare = n.bare /\ p.msg = n.msg /\ Silent(n, p)
    <2>. DEFINE size == setup.size
    <2>1. p = ReadByte(n, ch, size) /\ IsSize(size)
      BY <1>2 DEF p
    <2>. HIDE DEF ch, size
    <2>. QED
      BY <1>4, <1>7, <2>1, ReadAnswers
  <1>10. ~p.msg
    BY <1>1, <1>7, <1>9 DEF LineType
  <1>11. /\ LineType' /\ Link(w)' /\ Kept(nvt'[e], p) /\ nvt'[w] = nvt[w] /\ net'[e] = left
         /\ got'[e] = got[e] \o p.in
    <2>1. Replies(n, p)
      BY <1>8, <1>9 DEF Replies
    <2>2. Answered(e, p, left)
      BY <1>1, <1>3, <1>4, <1>10, <2>1, MovesAnswer
    <2>. QED
      BY <2>2 DEF Answered
  <1>12. Link(e)'
    BY <1>1, <1>2, <1>3, <1>11, ReaderLink DEF p, left
  <1>. QED
    BY <1>11, <1>12

(* telnet_read() at the end of file *)
LEMMA ReadEndLinks ==
  ASSUME TelnetInv, setup \in TSetups, LineType, NEW e \in {"c", "h"}, Link(e), Link(Other(e)), ReadEnd(e)
  PROVE  LineType' /\ Link(e)' /\ Link(Other(e))'
  <1>. DEFINE w == Other(e)
              n == Started(e)
              q == ReadByte(n, "closed", setup.size)
  <1>1. /\ net[e] = <<>> /\ down[w] /\ setup' = setup /\ todo' = todo
    BY DEF ReadEnd
  <1>2. PICK p : /\ Return(e, p)
                 /\ \/ p = [n EXCEPT !.connected = FALSE] /\ n.msg
                    \/ p = [n EXCEPT !.msg = TRUE]
                    \/ p = [q EXCEPT !.msg = TRUE] /\ ~n.msg
                 /\ down' = down \/ down' = [down EXCEPT ![e] = TRUE]
    BY DEF ReadEnd
  <1>3. Begun(n, nvt[e])
    BY StartedBegun
  <1>4. Parsed(n, q)
    BY <1>3, ReadByteParsed DEF Begun
  <1>5. w \in {"c", "h"} /\ w # e
    BY Others
  <1>6. down'[w] /\ (down[e] => down'[e])
    BY <1>1, <1>2, <1>5 DEF TelnetInv
  <1>7. Moves(e, p, net[e])
    BY <1>2, ReturnMoves
  <1>8. Parser(n) /\ n.in = <<>> /\ n.out \in Seq(Line) /\ ~n.init /\ n.msg = nvt[e].msg /\ n.rcr = nvt[e].rcr
    BY <1>3 DEF Begun
  <1>9. /\ q.wcr = n.wcr /\ q.bare = n.bare /\ Silent(n, q)
    <2>. DEFINE size == setup.size
                ch == "closed"
    <2>1. q = ReadByte(n, ch, size) /\ IsSize(size) /\ ch \in Line
      BY SetupType DEF Line
    <2>. HIDE DEF n, q, ch, size
    <2>. QED
      BY <1>8, <2>1, ReadAnswers
  <1>10. <<>> \in Seq(Line)
    OBVIOUS
  <1>11. Parser(q) /\ ~q.init
    BY <1>4, <1>8 DEF Parsed
  <1>. HIDE DEF n, q
  <1>12. CASE p = [q EXCEPT !.msg = TRUE] /\ ~n.msg
    <2>1. q.out \in Seq(Line)
      BY <1>8, <1>9, SilentType
    <2>2. /\ Parser(p) /\ ~p.init /\ p.wcr = q.wcr /\ p.bare = q.bare /\ p.rcr = q.rcr /\ p.in = q.in
          /\ p.out = q.out /\ SameView(p, q)
      BY <1>11, <1>12, <2>1, Flagged
    <2>3. p.msg
      BY <1>11, <1>12 DEF Parser, IsNvt
    <2>4. IsNvt(p) /\ p.wcr = n.wcr /\ p.bare = n.bare /\ Silent(n, p)
      BY <1>9, <2>2 DEF Silent, Parser
    <2>5. /\ LineType' /\ Link(w)' /\ Kept(nvt'[e], p) /\ nvt'[w] = nvt[w] /\ net'[e] = <<>>
          /\ got'[e] = got[e] \o p.in
      <3>1. Replies(n, p)
        BY <2>2, <2>4 DEF Replies
      <3>2. Answered(e, p, net[e])
        BY <1>1, <1>3, <1>6, <1>7, <1>10, <3>1, MovesAnswer
      <3>. QED
        BY <1>1, <3>2 DEF Answered
    <2>6. nvt'[e].msg /\ nvt'[e].rcr = q.rcr /\ got'[e] = got[e] \o q.in
      BY <2>2, <2>3, <2>5 DEF Kept
    <2>7. SameView(nvt'[e], q)
      BY <2>2, <2>5, KeptView DEF SameView
    <2>8. ~nvt[e].msg /\ q = ReadByte(n, "closed", setup.size)
      BY <1>8, <1>12 DEF q
    <2>9. Link(e)'
      <3>. DEFINE size == setup.size
      <3>1. /\ nvt'[w] = nvt[w] /\ todo'[w] = todo[w] /\ (down[w] => down'[w]) /\ setup' = setup
            /\ net[e] = <<>> /\ net'[e] = <<>> /\ ~nvt[e].msg /\ nvt'[e].msg
        BY <1>1, <1>6, <2>5, <2>6, <2>8
      <3>2. q = ReadByte(n, "closed", size)
        BY <2>8
      <3>. HIDE DEF size
      <3>. QED
        BY <1>3, <2>6, <2>7, <3>1, <3>2, CloserLink
    <2>. QED
      BY <2>5, <2>9
  <1>13. CASE p = [n EXCEPT !.connected = FALSE] \/ p = [n EXCEPT !.msg = TRUE]
    <2>1. /\ Parser(p) /\ ~p.init /\ p.wcr = n.wcr /\ p.bare = n.bare /\ p.rcr = n.rcr /\ p.in = <<>>
          /\ Silent(n, p) /\ (n.msg => p.msg) /\ SameView(p, n)
      BY <1>8, <1>13, Flagged
    <2>2. IsNvt(p)
      BY <2>1 DEF Parser
    <2>3. /\ LineType' /\ Link(w)' /\ Kept(nvt'[e], p) /\ nvt'[w] = nvt[w] /\ net'[e] = net[e]
          /\ got'[e] = got[e] \o p.in
      <3>1. Replies(n, p)
        BY <2>1, <2>2 DEF Replies
      <3>2. Answered(e, p, net[e])
        BY <1>1, <1>3, <1>6, <1>7, <1>10, <3>1, MovesAnswer
      <3>. QED
        BY <1>1, <3>2 DEF Answered
    <2>4. /\ nvt'[e].rcr = nvt[e].rcr /\ (nvt[e].msg => nvt'[e].msg) /\ got'[e] = got[e] \o <<>>
      BY <1>8, <2>1, <2>3 DEF Kept
    <2>5. SameView(nvt'[e], nvt[e])
      BY <1>3, <2>1, <2>3, KeptView, BegunView DEF SameView
    <2>6. Link(e)'
      BY <1>1, <1>6, <2>3, <2>4, <2>5, StillLink
    <2>. QED
      BY <2>3, <2>6
  <1>. QED
    BY <1>2, <1>12, <1>13

LEMMA RemainingType ==
  ASSUME NEW bufs \in Seq(Seq(Line)), bufs # <<>>, NEW sent \in Nat
  PROVE  Remaining(bufs, sent) \in Seq(Seq(Line))
  <1>. DEFINE b == Head(bufs)
              t == Tail(bufs)
              r == SubSeq(b, sent + 1, Len(b))
  <1>1. b \in Seq(Line) /\ t \in Seq(Seq(Line))
    BY FlattenHead
  <1>2. Remaining(bufs, sent) = IF sent = Len(b) THEN t ELSE <<r>> \o t
    BY DEF Remaining
  <1>. HIDE DEF b, t
  <1>3. r \in Seq(Line)
    BY <1>1
  <1>. HIDE DEF r
  <1>4. <<r>> \in Seq(Seq(Line))
    BY <1>3
  <1>5. <<r>> \o t \in Seq(Seq(Line))
    BY <1>1, <1>4, ConcatProperties
  <1>. QED
    BY <1>1, <1>2, <1>5

(* telnet_write() *)
LEMMA WriteLinks ==
  ASSUME TelnetInv, setup \in TSetups, LineType, NEW e \in {"c", "h"}, Link(e), Link(Other(e)), Write(e),
         blocks = 0
  PROVE  LineType' /\ Link(e)' /\ Link(Other(e))'
  <1>. DEFINE f == Other(e)
              n == Started(e)
              bufs == todo[e]
              b == Head(bufs)
              push == setup.console
              w == WriteAll(n, b, push)
              p == w.n
              bare == BareCR(n, b, push)
  <1>1. /\ bufs # <<>> /\ ~down[e] /\ Return(e, p) /\ todo' = [todo EXCEPT ![e] = Remaining(bufs, w.sent)]
        /\ setup' = setup /\ down' = down
    BY DEF Write, CanWrite
  <1>2. push \in BOOLEAN
    BY SetupType
  <1>3. Begun(n, nvt[e])
    BY StartedBegun
  <1>4. /\ Parser(n) /\ IsNvt(n) /\ n.in = <<>> /\ n.out \in Seq(Line) /\ ~n.init
        /\ n.msg = nvt[e].msg /\ n.rcr = nvt[e].rcr /\ n.wcr = nvt[e].wcr /\ n.bare = nvt[e].bare
        /\ n.wbuf = nvt[e].wbuf
    BY <1>3 DEF Begun, Parser
  <1>5. n.wbuf = <<>> /\ n.wcr \in BOOLEAN
    BY <1>4 DEF TelnetInv, EndOK, LineType
  <1>6. bufs \in Seq(Seq(Line)) /\ todo \in [{"c", "h"} -> Seq(Seq(Line))]
    BY DEF LineType
  <1>7. b \in Seq(Line) /\ Tail(bufs) \in Seq(Seq(Line)) /\ FlattenSeq(bufs) = b \o FlattenSeq(Tail(bufs))
    BY <1>1, <1>6, FlattenHead
  <1>8. Moves(e, p, net[e])
    BY <1>1, ReturnMoves
  <1>9. f \in {"c", "h"} /\ f # e /\ Other(f) = e /\ net[e] \in Seq(Line)
    BY Others DEF LineType
  <1>10. Parser(p) /\ p.init = n.init
    BY <1>4, WriteParser
  <1>. HIDE DEF n, bufs, b, push
  <1>11. /\ p.wcr \in BOOLEAN /\ w.sent \in Nat /\ (p.bare <=> n.bare \/ bare)
         /\ p.iac = n.iac /\ p.dowill = n.dowill /\ p.sub = n.sub /\ p.on = n.on
         /\ p.rcr = n.rcr /\ p.in = n.in /\ p.msg = n.msg
         /\ \E y \in Seq(Line) :
              /\ p.out = n.out \o y
              /\ ~n.wcr /\ ~bare => ~p.wcr /\ Says(y, b) /\ w.sent = Len(b)
    BY <1>2, <1>4, <1>5, <1>7, Written
  <1>. HIDE DEF w, p, bare
  <1>12. PICK y \in Seq(Line) :
           /\ p.out = n.out \o y
           /\ ~n.wcr /\ ~bare => ~p.wcr /\ Says(y, b) /\ w.sent = Len(b)
    BY <1>11
  <1>13. IsNvt(p) /\ ~p.init /\ p.out \in Seq(Line)
    BY <1>4, <1>10, <1>12, ConcatProperties DEF Parser
  <1>14. /\ Kept(nvt'[e], p) /\ nvt'[f] = nvt[f] /\ net'[e] = net[e] /\ net'[f] = net[f] \o p.out
         /\ got'[e] = got[e] \o p.in /\ got'[f] = got[f]
    <2>. DEFINE left == net[e]
    <2>1. Moves(e, p, left) /\ left \in Seq(Line)
      BY <1>8, <1>9
    <2>. HIDE DEF left
    <2>2. /\ Kept(nvt'[e], p) /\ nvt'[f] = nvt[f] /\ net'[e] = left
          /\ net'[f] = IF down[e] THEN net[f] ELSE net[f] \o p.out
          /\ got'[e] = got[e] \o p.in /\ got'[f] = got[f]
      BY <1>13, <2>1, Moved
    <2>. QED
      BY <1>1, <2>2 DEF left
  <1>. DEFINE r == Remaining(bufs, w.sent)
  <1>15. r \in Seq(Seq(Line))
    BY <1>1, <1>6, <1>11, RemainingType
  <1>16. r = Tail(bufs) \/ w.sent # Len(b)
    BY DEF Remaining, b
  <1>. HIDE DEF r
  <1>17. /\ todo' \in [{"c", "h"} -> Seq(Seq(Line))] /\ todo'[e] = r /\ todo'[f] = todo[f]
    BY <1>1, <1>6, <1>9, <1>15 DEF r
  <1>18. LineType'
    <2>1. p.msg => down'[f] /\ net[e] = <<>>
      BY <1>1, <1>4, <1>11 DEF LineType
    <2>. QED
      BY <1>1, <1>8, <1>9, <1>11, <1>13, <1>17, <2>1, MovedType
  <1>19. Link(e)'
    <2>1. /\ nvt'[e].rcr = nvt[e].rcr /\ (nvt[e].msg => nvt'[e].msg) /\ got'[e] = got[e] \o <<>>
      BY <1>4, <1>11, <1>14 DEF Kept
    <2>2. SameView(p, n)
      BY <1>11 DEF SameView, View, Waits, Mode, Binary
    <2>3. SameView(nvt'[e], nvt[e])
      BY <1>3, <1>14, <2>2, KeptView, BegunView DEF SameView
    <2>. QED
      BY <1>1, <1>14, <1>17, <2>1, <2>3, StillLink
  <1>20. Link(f)'
    <2>. DEFINE o == n.out
    <2>1. (IF nvt[e].init THEN Path(Fresh, o, Neutral(<<>>)) ELSE o = <<>>) /\ o \in Seq(Line)
      BY <1>3 DEF Begun
    <2>2. ~nvt'[e].init /\ nvt'[e].bare = p.bare /\ nvt'[e].wcr = p.wcr
      BY <1>13, <1>14 DEF Kept
    <2>3. ~nvt[e].bare => ~nvt[e].wcr
      BY <1>9 DEF Link
    <2>4. FlattenSeq(todo'[e]) \in Seq(Line)
      BY <1>15, <1>17, FlattenType
    <2>5. ~nvt'[e].bare =>
            /\ ~nvt[e].bare /\ ~nvt'[e].wcr /\ Says(y, b)
            /\ FlattenSeq(todo[e]) = b \o FlattenSeq(todo'[e])
      <3>. SUFFICES ASSUME ~nvt'[e].bare
                   PROVE  /\ ~nvt[e].bare /\ ~nvt'[e].wcr /\ Says(y, b)
                          /\ FlattenSeq(todo[e]) = b \o FlattenSeq(todo'[e])
        OBVIOUS
      <3>1. ~nvt[e].bare /\ ~bare /\ ~n.wcr
        BY <1>4, <1>11, <2>2, <2>3
      <3>2. ~p.wcr /\ Says(y, b) /\ w.sent = Len(b)
        BY <1>12, <3>1
      <3>3. todo'[e] = Tail(bufs)
        BY <1>16, <1>17, <3>2
      <3>. QED
        BY <1>7, <2>2, <3>1, <3>2, <3>3 DEF bufs
    <2>6. net'[f] = IF down[e] THEN net[f] ELSE net[f] \o (o \o y)
      BY <1>1, <1>12, <1>14
    <2>7. f = Other(e) /\ Link(f) /\ nvt'[f] = nvt[f] /\ got'[f] = got[f]
      BY <1>14
    <2>. HIDE DEF o, f
    <2>. QED
      BY <1>1, <1>7, <2>1, <2>2, <2>4, <2>5, <2>6, <2>7, SenderLink
  <1>. QED
    BY <1>18, <1>19, <1>20

(* telnet_resize_screen() *)
LEMMA ResizeLinks ==
  ASSUME TelnetInv, setup \in TSetups, LineType, NEW e, e = "c", Link(e), Link(Other(e)), Resize
  PROVE  LineType' /\ Link(e)' /\ Link(Other(e))'
  <1>. DEFINE f == Other(e)
              n == nvt[e]
              size == setup.size
              p == SendNaws(n, size)
  <1>1. e \in {"c", "h"} /\ Return(e, p) /\ setup' = setup /\ todo' = todo /\ down' = down /\ n.on # {}
    BY DEF Resize
  <1>2. Parser(n) /\ ~n.init /\ n.in = <<>> /\ n.out = <<>> /\ (n.msg => down[f] /\ net[e] = <<>>)
    BY <1>1 DEF TelnetInv, EndOK, LineType
  <1>3. Begun(n, n)
    BY <1>2 DEF Begun
  <1>4. IsSize(size) /\ net[e] \in Seq(Line)
    BY <1>1, SetupType DEF LineType
  <1>5. Moves(e, p, net[e])
    BY <1>1, ReturnMoves
  <1>6. Parser(p) /\ p.init = n.init
    BY <1>2, SubResponseParsed DEF SendNaws, Parsed
  <1>. HIDE DEF n, size
  <1>7. Answers(n, p)
    <2>1. Answers(n, n)
      <3>1. IsNvt(n) /\ n.out \in Seq(Line)
        BY <1>3 DEF Begun, Parser
      <3>. QED
        BY <3>1, AnswersNothing
    <2>. QED
      BY <1>4, <2>1, AnswersNaws DEF p
  <1>. HIDE DEF p
  <1>8. Silent(n, p) /\ SameView(p, n) /\ IsNvt(p) /\ ~p.init /\ p.rcr = n.rcr /\ p.in = n.in
        /\ p.wcr = n.wcr /\ p.bare = n.bare /\ p.msg = n.msg
    <2>1. Alike(n, p) /\ Silent(n, p)
      BY <1>7 DEF Answers, Silent
    <2>2. SameView(p, n)
      BY <2>1 DEF Alike, SameView, View, Waits, Mode, Binary
    <2>. QED
      BY <1>2, <1>6, <2>1, <2>2 DEF Alike
  <1>9. /\ LineType' /\ Link(f)' /\ Kept(nvt'[e], p) /\ nvt'[f] = nvt[f] /\ net'[e] = net[e]
        /\ got'[e] = got[e] \o p.in
    <2>1. Begun(n, nvt[e])
      BY <1>3 DEF n
    <2>2. Replies(n, p)
      BY <1>8 DEF Replies
    <2>3. p.msg => down'[f] /\ net[e] = <<>>
      BY <1>1, <1>2, <1>8
    <2>4. Answered(e, p, net[e])
      BY <1>1, <1>4, <1>5, <2>1, <2>2, <2>3, MovesAnswer
    <2>. QED
      BY <2>4 DEF Answered
  <1>10. /\ nvt'[e].rcr = nvt[e].rcr /\ (nvt[e].msg => nvt'[e].msg) /\ got'[e] = got[e] \o <<>>
    BY <1>2, <1>8, <1>9 DEF Kept, n
  <1>11. SameView(nvt'[e], nvt[e])
    BY <1>8, <1>9, KeptView DEF SameView, n
  <1>12. Link(e)'
    BY <1>1, <1>9, <1>10, <1>11, StillLink
  <1>. QED
    BY <1>9, <1>12

(* net_close() *)
LEMMA HangUpLinks ==
  ASSUME TelnetInv, LineType, NEW a \in {"c", "h"}, HangUp(a), NEW e \in {"c", "h"}, Link(e)
  PROVE  LineType' /\ Link(e)'
  <1>1. UNCHANGED <<setup, nvt, net, todo, got>> /\ \A w \in {"c", "h"} : down[w] => down'[w]
    BY DEF HangUp, TelnetInv
  <1>2. LineType'
    BY <1>1, Others DEF LineType
  <1>3. ASSUME NEW d PROVE (Unstarted(e, d) => Unstarted(e, d)') /\ (Flowing(e, d) => Flowing(e, d)')
    BY <1>1, Others DEF Unstarted, Flowing
  <1>4. Link(e)'
    BY <1>1, <1>3 DEF Link, Carries
  <1>. QED
    BY <1>2, <1>4

LEMMA CleanStep == CleanInv /\ [TNext]_telnetVars => CleanInv'
  <1>. SUFFICES ASSUME CleanInv, [TNext]_telnetVars PROVE CleanInv'
    OBVIOUS
  <1>1. TelnetInv /\ TelnetInv' /\ setup \in TSetups
    BY TelnetStep DEF CleanInv
  <1>2. setup' = setup
    BY DEF TNext, Read, ReadEnd, Write, WriteFull, HangUp, Resize, Server, ServerSend, ServerRead,
           telnetVars
  <1>3. blocks \in Nat
    BY <1>1, TelnetAssumption DEF TelnetInv
  <1>. SUFFICES ASSUME setup.host, blocks' = 0 PROVE LineType' /\ \A e \in {"c", "h"} : Link(e)'
    BY <1>1, <1>2 DEF CleanInv
  <1>4. ASSUME NEW a \in {"c", "h"}, LineType' /\ Link(a)' /\ Link(Other(a))'
        PROVE  LineType' /\ \A e \in {"c", "h"} : Link(e)'
    BY <1>4, Others
  <1>5. ASSUME blocks = 0 PROVE LineType /\ \A e \in {"c", "h"} : Link(e) /\ Link(Other(e))
    BY <1>5, Others DEF CleanInv
  <1>6. ASSUME NEW a \in {"c", "h"}, Read(a) PROVE LineType' /\ \A e \in {"c", "h"} : Link(e)'
    <2>1. blocks = 0
      BY <1>6 DEF Read
    <2>2. LineType' /\ Link(a)' /\ Link(Other(a))'
      BY <1>1, <1>5, <1>6, <2>1, ReadLinks
    <2>. QED
      BY <1>4, <2>2
  <1>7. ASSUME NEW a \in {"c", "h"}, ReadEnd(a) PROVE LineType' /\ \A e \in {"c", "h"} : Link(e)'
    <2>1. blocks = 0
      BY <1>7 DEF ReadEnd
    <2>2. LineType' /\ Link(a)' /\ Link(Other(a))'
      BY <1>1, <1>5, <1>7, <2>1, ReadEndLinks
    <2>. QED
      BY <1>4, <2>2
  <1>8. ASSUME NEW a \in {"c", "h"}, Write(a) PROVE LineType' /\ \A e \in {"c", "h"} : Link(e)'
    <2>1. blocks = 0
      BY <1>8 DEF Write
    <2>2. LineType' /\ Link(a)' /\ Link(Other(a))'
      BY <1>1, <1>5, <1>8, <2>1, WriteLinks
    <2>. QED
      BY <1>4, <2>2
  <1>9. ASSUME NEW a \in {"c", "h"}, WriteFull(a) PROVE FALSE
    BY <1>3, <1>9 DEF WriteFull
  <1>10. ASSUME NEW a \in {"c", "h"}, HangUp(a) PROVE LineType' /\ \A e \in {"c", "h"} : Link(e)'
    <2>1. blocks = 0
      BY <1>10 DEF HangUp
    <2>. QED
      BY <1>1, <1>5, <1>10, <2>1, HangUpLinks
  <1>11. CASE Resize
    <2>1. blocks = 0
      BY <1>11 DEF Resize
    <2>. DEFINE a == "c"
    <2>2. a \in {"c", "h"} /\ a = "c"
      OBVIOUS
    <2>. HIDE DEF a
    <2>3. LineType' /\ Link(a)' /\ Link(Other(a))'
      BY <1>1, <1>5, <1>11, <2>1, <2>2, ResizeLinks
    <2>. QED
      BY <1>4, <2>2, <2>3
  <1>12. CASE Server
    BY <1>12 DEF Server, ServerSend, ServerRead
  <1>13. CASE UNCHANGED telnetVars
    <2>1. UNCHANGED <<setup, nvt, net, todo, got, down, blocks>>
      BY <1>13 DEF telnetVars
    <2>2. LineType /\ \A e \in {"c", "h"} : Link(e)
      BY <1>5, <2>1
    <2>3. LineType'
      BY <2>1, <2>2 DEF LineType
    <2>4. ASSUME NEW e \in {"c", "h"} PROVE Link(e)'
      <3>1. Link(e)
        BY <2>2
      <3>. QED
        BY <2>1, <3>1 DEF Link, Carries, Unstarted, Flowing
    <2>. QED
      BY <2>3, <2>4
  <1>. QED
    BY <1>6, <1>7, <1>8, <1>9, <1>10, <1>11, <1>12, <1>13 DEF TNext

-----------------------------------------------------------------------------
LEMMA PrefixCat ==
  ASSUME NEW d \in Seq(Line), NEW t \in Seq(Line)
  PROVE  IsPrefix(d, d \o t)
  <1>. DEFINE s == d \o t
              a == SubSeq(d, 1, Len(d))
              b == SubSeq(s, 1, Len(d))
  <1>1. s \in Seq(Line) /\ Len(s) = Len(d) + Len(t) /\ \A i \in 1..Len(d) : s[i] = d[i]
    BY ConcatProperties
  <1>2. Len(d) \in Nat /\ Len(t) \in Nat
    BY LenProperties
  <1>. HIDE DEF s
  <1>3. Len(d) <= Len(s)
    BY <1>1, <1>2
  <1>4. a \in Seq(Line) /\ b \in Seq(Line) /\ Len(a) = Len(d) /\ Len(b) = Len(d)
        /\ \A i \in 1..Len(d) : a[i] = d[i] /\ b[i] = s[i]
    BY <1>1, <1>2
  <1>. HIDE DEF a, b
  <1>5. a = b
    BY <1>1, <1>4, SeqEqual
  <1>. QED
    BY <1>3, <1>5 DEF IsPrefix, a, b, s

(* What is left without the last *)
LEMMA FrontCat ==
  ASSUME NEW d \in Seq(Line), d # <<>>
  PROVE  Front(d) \in Seq(Line) /\ Last(d) \in Line /\ d = Front(d) \o <<Last(d)>>
  <1>. DEFINE f == Front(d)
              c == Last(d)
              s == Append(f, c)
  <1>1. Len(d) \in Nat /\ Len(d) # 0
    BY LenProperties, EmptySeq
  <1>2. f \in Seq(Line) /\ Len(f) = Len(d) - 1 /\ \A i \in 1..(Len(d) - 1) : f[i] = d[i]
    <2>. DEFINE m == Len(d) - 1
    <2>1. m \in Nat /\ m <= Len(d) /\ f = SubSeq(d, 1, m)
      BY <1>1 DEF Front
    <2>. HIDE DEF m, f
    <2>2. f \in Seq(Line) /\ Len(f) = m
      BY <2>1
    <2>3. \A i \in 1..m : f[i] = d[i]
      BY <2>1
    <2>. QED
      BY <2>2, <2>3 DEF m
  <1>3. c \in Line /\ c = d[Len(d)]
    BY <1>1, ElementOfSeq DEF Last
  <1>. HIDE DEF f, c
  <1>4. s \in Seq(Line) /\ Len(s) = Len(f) + 1 /\ s[Len(f) + 1] = c /\ \A i \in 1..Len(f) : s[i] = f[i]
    BY <1>2, <1>3, AppendProperties
  <1>5. s = f \o <<c>>
    BY <1>2, <1>3, AppendIsConcat
  <1>. HIDE DEF s
  <1>6. \A i \in 1..Len(d) : s[i] = d[i]
    BY <1>1, <1>2, <1>3, <1>4
  <1>7. s = d
    BY <1>1, <1>2, <1>4, <1>6, SeqEqual
  <1>. QED
    BY <1>2, <1>3, <1>5, <1>7 DEF f, c

LEMMA FrontAppend ==
  ASSUME NEW d \in Seq(Line), NEW c \in Line
  PROVE  Append(d, c) # <<>> /\ Last(Append(d, c)) = c /\ Front(Append(d, c)) = d
  <1>. DEFINE s == Append(d, c)
              f == SubSeq(s, 1, Len(s) - 1)
  <1>1. s \in Seq(Line) /\ s # <<>> /\ Len(s) = Len(d) + 1 /\ s[Len(s)] = c /\ Len(d) \in Nat
        /\ \A i \in 1..Len(d) : s[i] = d[i]
    BY AppendProperties, LenProperties
  <1>. HIDE DEF s
  <1>2. f \in Seq(Line) /\ Len(f) = Len(d) /\ \A i \in 1..Len(d) : f[i] = s[i]
    BY <1>1
  <1>. HIDE DEF f
  <1>3. f = d
    BY <1>1, <1>2, SeqEqual
  <1>. QED
    BY <1>1, <1>3 DEF Last, Front, f, s

(* What is returned is a part of the text, from its start. *)
LEMMA CarriedPrefix ==
  ASSUME NEW e \in {"c", "h"}, LineType, Carries(e), setup.text[e] \in Seq(Line)
  PROVE  IsPrefix(Data(e), setup.text[e])
  <1>. DEFINE x == setup.text[e]
  <1>1. PICK d \in Seq(Line) :
          /\ got[e] = d \/ got[e] = Append(d, "closed")
          /\ Unstarted(e, d) \/ Flowing(e, d)
    BY DEF Carries
  <1>2. PICK t \in Seq(Line) : x = d \o t
    <2>1. CASE Unstarted(e, d)
      <3>1. View(nvt[e], d).data = d /\ Fresh.data = <<>>
        BY DEF View, Fresh, At
      <3>2. d = <<>>
        BY <2>1, <3>1 DEF Unstarted
      <3>. HIDE DEF x
      <3>3. x \in Seq(Line)
        BY DEF x
      <3>4. x = <<>> \o x
        BY <3>3, ConcatEmptySeq
      <3>. QED
        BY <3>2, <3>3, <3>4
    <2>2. CASE Flowing(e, d)
      <3>1. PICK u \in Seq(Line) :
              Path(View(nvt[e], d), net[e], Neutral(u)) /\ u \o FlattenSeq(todo[Other(e)]) = x
        BY <2>2 DEF Flowing
      <3>2. View(nvt[e], d).data = d /\ Neutral(u).data = u
        BY DEF View, Neutral, At
      <3>. DEFINE rest == FlattenSeq(todo[Other(e)])
                  v == View(nvt[e], d)
                  k == net[e]
                  z == Neutral(u)
      <3>3. rest \in Seq(Line) /\ k \in Seq(Line)
        BY Others, FlattenType DEF LineType
      <3>4. Path(v, k, z) /\ v.data = d /\ z.data = u /\ u \o rest = x
        BY <3>1, <3>2
      <3>. HIDE DEF rest, v, k, z
      <3>5. Begins(d, z.data)
        BY <3>3, <3>4, PathGrows
      <3>6. PICK t \in Seq(Line) : u = d \o t
        BY <3>4, <3>5 DEF Begins
      <3>7. (d \o t) \o rest = d \o (t \o rest)
        BY <3>3, ConcatAssociative, SMTT(30)
      <3>8. t \o rest \in Seq(Line)
        BY <3>3, ConcatProperties
      <3>. QED
        BY <3>4, <3>6, <3>7, <3>8
    <2>. QED
      BY <1>1, <2>1, <2>2
  <1>. HIDE DEF x
  <1>3. CASE Data(e) = d
    BY <1>2, <1>3, PrefixCat DEF x
  <1>4. CASE d # <<>> /\ Data(e) = Front(d)
    <2>. DEFINE f == Front(d)
                c == <<Last(d)>>
    <2>1. f \in Seq(Line) /\ c \in Seq(Line) /\ d = f \o c
      BY <1>4, FrontCat, One
    <2>. HIDE DEF f, c
    <2>2. (f \o c) \o t = f \o (c \o t) /\ c \o t \in Seq(Line)
      BY <2>1, ConcatAssociative, ConcatProperties
    <2>3. IsPrefix(f, f \o (c \o t))
      BY <2>1, <2>2, PrefixCat
    <2>. QED
      BY <1>2, <1>4, <2>1, <2>2, <2>3 DEF x, f
  <1>5. Data(e) = d \/ (d # <<>> /\ Data(e) = Front(d))
    <2>1. CASE got[e] = d
      BY <2>1 DEF Data
    <2>2. CASE got[e] = Append(d, "closed")
      <3>1. "closed" \in Line
        BY DEF Line
      <3>2. got[e] # <<>> /\ Last(got[e]) = "closed" /\ Front(got[e]) = d
        BY <2>2, <3>1, FrontAppend
      <3>. QED
        BY <3>2 DEF Data
    <2>. QED
      BY <1>1, <2>1, <2>2
  <1>. QED
    BY <1>3, <1>4, <1>5

(***************************************************************************)
(* A telnet connection of two qodems is 8-bit clean as long as no socket   *)
(* was full and no CR was written alone in ASCII mode: what telnet_read()  *)
(* of an end has returned is what telnet_write() of the other was given,   *)
(* from its start.  So for all texts, IACs among them, all screen sizes,   *)
(* buffers of any length, with and without a resize or a hang-up, and in   *)
(* whatever order options, answers and bytes of the user come.             *)
(***************************************************************************)
THEOREM TelnetIsClean == TSpec => [](setup.host => TClean)
  <1>1. CleanInv => (setup.host => TClean)
    <2>. SUFFICES ASSUME CleanInv, setup.host, NEW e \in Qodems, blocks = 0, ~nvt[Other(e)].bare
                 PROVE  IsPrefix(Data(e), setup.text[e])
      BY DEF TClean
    <2>1. e \in {"c", "h"} /\ LineType /\ Link(e) /\ setup \in TSetups
      BY DEF Qodems, CleanInv
    <2>2. Carries(e)
      BY <2>1 DEF Link
    <2>3. setup.text[e] \in Seq(Line)
      <3>1. setup.text[e] = FlattenSeq(setup.sends[Other(e)]) /\ setup.sends[Other(e)] \in Seq(Seq(Line))
        BY <2>1, SetupType, Others
      <3>. QED
        BY <3>1, FlattenType
    <2>. QED
      BY <2>1, <2>2, <2>3, CarriedPrefix
  <1>. QED
    BY CleanStart, CleanStep, <1>1, PTL DEF TSpec
=============================================================================
