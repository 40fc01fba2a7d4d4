--------------------------- MODULE SequenceFacts ----------------------------
(***************************************************************************)
(* Induction over the natural numbers for sets, and what follows from it   *)
(* about the sequences that the models concatenate.                        *)
(***************************************************************************)
EXTENDS Integers, SequencesExt, SequenceTheorems, WellFoundedInduction, TLAPS

(* A set of natural numbers that is not empty has a least one. *)
LEMMA LeastNumber ==
  ASSUME NEW T, T \subseteq Nat, T # {}
  PROVE  \E x \in T : \A y \in T : y >= x
  <1>. DEFINE R == {ss \in Nat \X Nat : ss[1] < ss[2]}
  <1>1. IsWellFoundedOn(R, Nat)
    BY NatLessThanWellFounded DEF OpToRel
  <1>2. PICK x \in T : \A y \in T : ~ (<<y, x>> \in R)
    <2>. HIDE DEF R
    <2>. QED
      BY <1>1, WFMin
  <1>3. \A y \in T : ~(y < x)
    BY <1>2
  <1>. QED
    BY <1>3

(* Induction: a set that holds 0, and n + 1 with each n, holds all numbers. *)
LEMMA Induction ==
  ASSUME NEW S, 0 \in S, \A n \in Nat : n \in S => n + 1 \in S
  PROVE  \A n \in Nat : n \in S
  <1>. SUFFICES ASSUME Nat \ S # {} PROVE FALSE
    OBVIOUS
  <1>1. PICK x \in Nat \ S : \A y \in Nat \ S : y >= x
    BY LeastNumber
  <1>2. x # 0 /\ x - 1 \in Nat /\ x - 1 \in S
    BY <1>1
  <1>. QED
    BY <1>2

-----------------------------------------------------------------------------
(* FlattenSeq(), as far as the first k sequences *)
Flattening(seqs, k, f) ==
  f = [i \in 1..k |-> IF i = 1 THEN seqs[i] ELSE f[i-1] \o seqs[i]]

LEMMA FlatteningExists ==
  ASSUME NEW seqs
  PROVE  \A k \in Nat : \E f : Flattening(seqs, k, f)
  <1>. DEFINE S == {k \in Nat : \E f : Flattening(seqs, k, f)}
  <1>1. 0 \in S
    <2>1. Flattening(seqs, 0, [i \in 1..0 |-> 0])
      BY DEF Flattening
    <2>. QED
      BY <2>1
  <1>2. ASSUME NEW k \in Nat, k \in S PROVE k + 1 \in S
    <2>1. PICK f : Flattening(seqs, k, f)
      BY <1>2
    <2>. DEFINE g == [i \in 1..(k + 1) |-> IF i <= k THEN f[i]
                                           ELSE IF i = 1 THEN seqs[i] ELSE f[k] \o seqs[i]]
    <2>2. ASSUME NEW i \in 1..(k + 1)
          PROVE  g[i] = IF i = 1 THEN seqs[i] ELSE g[i-1] \o seqs[i]
      <3>1. CASE i <= k
        <4>1. i \in 1..k /\ g[i] = f[i] /\ (i # 1 => i - 1 \in 1..k /\ g[i-1] = f[i-1])
          BY <3>1
        <4>2. f[i] = IF i = 1 THEN seqs[i] ELSE f[i-1] \o seqs[i]
          BY <2>1, <4>1 DEF Flattening
        <4>. QED
          BY <4>1, <4>2
      <3>2. CASE i = k + 1
        <4>1. g[i] = IF i = 1 THEN seqs[i] ELSE f[k] \o seqs[i]
          BY <3>2
        <4>2. i # 1 => g[i-1] = f[k]
          BY <3>2
        <4>. QED
          BY <4>1, <4>2
      <3>. QED
        BY <3>1, <3>2
    <2>3. Flattening(seqs, k + 1, g)
      <3>1. g = [i \in 1..(k + 1) |-> g[i]]
        OBVIOUS
      <3>. HIDE DEF g
      <3>. QED
        BY <2>2, <3>1 DEF Flattening
    <2>. QED
      BY <2>3
  <1>. HIDE DEF S
  <1>3. \A k \in Nat : k \in S
    BY <1>1, <1>2, Induction
  <1>. QED
    BY <1>3 DEF S

LEMMA FlattenUnfolds ==
  ASSUME NEW T, NEW s \in Seq(T), s # <<>>
  PROVE  \E f : Flattening(s, Len(s), f) /\ FlattenSeq(s) = f[Len(s)]
  <1>. DEFINE f == CHOOSE g : Flattening(s, Len(s), g)
  <1>1. Len(s) \in Nat /\ Len(s) # 0
    OBVIOUS
  <1>2. \E g : Flattening(s, Len(s), g)
    BY <1>1, FlatteningExists
  <1>3. Flattening(s, Len(s), f)
    BY <1>2, Zenon
  <1>4. FlattenSeq(s) = f[Len(s)]
    BY <1>1, Zenon DEF FlattenSeq, Flattening
  <1>. HIDE DEF f
  <1>. QED
    BY <1>3, <1>4

(* Of no sequences *)
LEMMA FlattenEmpty == FlattenSeq(<<>>) = <<>>
  BY DEF FlattenSeq

(* Of sequences of elements of T; one more is added at the end. *)
LEMMA FlattenAppend ==
  ASSUME NEW T, NEW s \in Seq(Seq(T)), NEW x \in Seq(T)
  PROVE  FlattenSeq(Append(s, x)) = FlattenSeq(s) \o x
  <1>. DEFINE n == Len(s)
              t == Append(s, x)
  <1>1. t \in Seq(Seq(T)) /\ t # <<>> /\ Len(t) = n + 1 /\ n \in Nat /\ t[n + 1] = x
        /\ \A i \in 1..n : t[i] = s[i]
    BY AppendProperties, LenProperties, EmptySeq
  <1>. HIDE DEF t
  <1>2. PICK f : Flattening(t, n + 1, f) /\ FlattenSeq(t) = f[n + 1]
    BY <1>1, FlattenUnfolds
  <1>3. \A i \in 1..(n + 1) : f[i] = IF i = 1 THEN t[i] ELSE f[i-1] \o t[i]
    BY <1>2 DEF Flattening
  <1>4. CASE s = <<>>
    <2>1. n = 0 /\ FlattenSeq(s) = <<>>
      BY <1>4, FlattenEmpty
    <2>2. FlattenSeq(t) = x
      BY <1>1, <1>2, <1>3, <2>1
    <2>. QED
      BY <2>1, <2>2 DEF t
  <1>5. CASE s # <<>>
    <2>1. PICK g : Flattening(s, n, g) /\ FlattenSeq(s) = g[n]
      BY <1>5, FlattenUnfolds
    <2>2. \A i \in 1..n : g[i] = IF i = 1 THEN s[i] ELSE g[i-1] \o s[i]
      BY <2>1 DEF Flattening
    <2>3. n >= 1
      BY <1>5
    <2>. DEFINE S == {k \in Nat : k \in 1..n => f[k] = g[k]}
    <2>4. 0 \in S
      OBVIOUS
    <2>5. ASSUME NEW k \in Nat, k \in S PROVE k + 1 \in S
      <3>. SUFFICES ASSUME k + 1 \in 1..n PROVE f[k + 1] = g[k + 1]
        OBVIOUS
      <3>1. f[k + 1] = (IF k + 1 = 1 THEN s[k + 1] ELSE f[k] \o s[k + 1])
            /\ g[k + 1] = (IF k + 1 = 1 THEN s[k + 1] ELSE g[k] \o s[k + 1])
        <4>1. k + 1 \in 1..(n + 1) /\ (k + 1) - 1 = k
          BY <1>1
        <4>. QED
          BY <1>1, <1>3, <2>2, <4>1
      <3>2. k + 1 # 1 => f[k] = g[k]
        BY <2>5, <1>1
      <3>. QED
        BY <3>1, <3>2
    <2>. HIDE DEF S
    <2>6. n \in S
      BY <1>1, <2>4, <2>5, Induction
    <2>7. f[n] = g[n]
      BY <1>1, <2>3, <2>6 DEF S
    <2>8. f[n + 1] = f[n] \o x
      <3>1. n + 1 \in 1..(n + 1) /\ n + 1 # 1 /\ (n + 1) - 1 = n
        BY <1>1, <2>3
      <3>. QED
        BY <1>1, <1>3, <3>1
    <2>. QED
      BY <1>2, <2>1, <2>7, <2>8 DEF t
  <1>. QED
    BY <1>4, <1>5
(* Every sequence is of some length, and a longer one is one with one      *)
(* more element: induction over sequences.                                 *)
LEMMA SequenceInduction ==
  ASSUME NEW T, NEW P, <<>> \in P,
         \A s \in Seq(T) : s \in P => \A x \in T : Append(s, x) \in P
  PROVE  \A s \in Seq(T) : s \in P
  <1>. DEFINE S == {k \in Nat : \A s \in Seq(T) : Len(s) = k => s \in P}
  <1>1. 0 \in S
    BY EmptySeq, LenProperties
  <1>2. ASSUME NEW k \in Nat, k \in S PROVE k + 1 \in S
    <2>. SUFFICES ASSUME NEW s \in Seq(T), Len(s) = k + 1 PROVE s \in P
      OBVIOUS
    <2>1. s # <<>>
      OBVIOUS
    <2>2. PICK t \in Seq(T), x \in T : s = Append(t, x)
      BY <2>1, SequenceEmptyOrAppend
    <2>3. Len(t) = k
      BY <2>2, AppendProperties, LenProperties
    <2>. QED
      BY <1>2, <2>2, <2>3
  <1>. HIDE DEF S
  <1>3. \A k \in Nat : k \in S
    BY <1>1, <1>2, Induction
  <1>. QED
    BY <1>3, LenProperties DEF S

LEMMA FlattenType ==
  ASSUME NEW T
  PROVE  \A s \in Seq(Seq(T)) : FlattenSeq(s) \in Seq(T)
  <1>. DEFINE P == {s \in Seq(Seq(T)) : FlattenSeq(s) \in Seq(T)}
  <1>1. <<>> \in P
    BY FlattenEmpty, EmptySeq
  <1>2. ASSUME NEW s \in Seq(Seq(T)), s \in P, NEW x \in Seq(T) PROVE Append(s, x) \in P
    BY <1>2, FlattenAppend, AppendProperties, ConcatProperties
  <1>. HIDE DEF P
  <1>3. \A s \in Seq(Seq(T)) : s \in P
    BY <1>1, <1>2, SequenceInduction
  <1>. QED
    BY <1>3 DEF P

(* One more is added at the front. *)
LEMMA FlattenCons ==
  ASSUME NEW T, NEW x \in Seq(T)
  PROVE  \A s \in Seq(Seq(T)) : FlattenSeq(<<x>> \o s) = x \o FlattenSeq(s)
  <1>. DEFINE P == {s \in Seq(Seq(T)) : FlattenSeq(<<x>> \o s) = x \o FlattenSeq(s)}
  <1>1. <<>> \in P
    <2>1. <<x>> \o <<>> = <<x>> /\ <<x>> = Append(<<>>, x) /\ <<>> \in Seq(Seq(T))
      OBVIOUS
    <2>2. FlattenSeq(Append(<<>>, x)) = <<>> \o x
      BY <2>1, FlattenAppend, FlattenEmpty
    <2>3. <<>> \o x = x /\ x \o <<>> = x
      BY ConcatEmptySeq
    <2>. QED
      BY <2>1, <2>2, <2>3, FlattenEmpty
  <1>2. ASSUME NEW s \in Seq(Seq(T)), s \in P, NEW y \in Seq(T) PROVE Append(s, y) \in P
    <2>1. <<x>> \o Append(s, y) = Append(<<x>> \o s, y) /\ <<x>> \o s \in Seq(Seq(T))
      <3>1. <<x>> \in Seq(Seq(T)) /\ <<y>> \in Seq(Seq(T))
        OBVIOUS
      <3>2. <<x>> \o s \in Seq(Seq(T))
        BY <3>1, ConcatProperties
      <3>3. Append(s, y) = s \o <<y>> /\ Append(<<x>> \o s, y) = (<<x>> \o s) \o <<y>>
        BY <3>2, AppendIsConcat
      <3>. QED
        BY <3>1, <3>2, <3>3, ConcatAssociative
    <2>2. FlattenSeq(<<x>> \o Append(s, y)) = (x \o FlattenSeq(s)) \o y
      BY <1>2, <2>1, FlattenAppend
    <2>3. FlattenSeq(Append(s, y)) = FlattenSeq(s) \o y /\ FlattenSeq(s) \in Seq(T)
      BY FlattenAppend, FlattenType
    <2>4. (x \o FlattenSeq(s)) \o y = x \o (FlattenSeq(s) \o y)
      BY <2>3, ConcatAssociative
    <2>. QED
      BY <2>2, <2>3, <2>4, AppendProperties
  <1>. HIDE DEF P
  <1>3. \A s \in Seq(Seq(T)) : s \in P
    BY <1>1, <1>2, SequenceInduction
  <1>. QED
    BY <1>3 DEF P

-----------------------------------------------------------------------------
(* Sequences of one, of two and of three *)
LEMMA One ==
  ASSUME NEW T, NEW a \in T
  PROVE  <<a>> \in Seq(T) /\ <<>> \o <<a>> = <<a>>
  <1>1. <<a>> \in Seq(T)
    OBVIOUS
  <1>. QED
    BY <1>1, ConcatEmptySeq

LEMMA Two ==
  ASSUME NEW T, NEW a \in T, NEW b \in T
  PROVE  <<a, b>> = <<a>> \o <<b>> /\ <<a, b>> \in Seq(T) /\ <<a>> \in Seq(T) /\ <<b>> \in Seq(T)
  <1>. DEFINE s == <<a>> \o <<b>>
              t == <<a, b>>
  <1>1. <<a>> \in Seq(T)
    OBVIOUS
  <1>2. <<b>> \in Seq(T)
    OBVIOUS
  <1>3. t \in Seq(T) /\ Len(t) = 2 /\ t[1] = a /\ t[2] = b
    OBVIOUS
  <1>4. Len(s) = 2
    BY <1>1, <1>2
  <1>5. s[1] = a /\ s[2] = b
    BY <1>1, <1>2
  <1>6. s \in Seq(T)
    BY <1>1, <1>2
  <1>. HIDE DEF s, t
  <1>7. \A i \in 1..Len(s) : s[i] = t[i]
    BY <1>3, <1>4, <1>5
  <1>8. s = t
    BY <1>3, <1>4, <1>6, <1>7, SeqEqual
  <1>. QED
    BY <1>1, <1>2, <1>3, <1>8 DEF s, t

LEMMA Three ==
  ASSUME NEW T, NEW a \in T, NEW b \in T, NEW c \in T
  PROVE  <<a, b, c>> = <<a, b>> \o <<c>> /\ <<a, b, c>> \in Seq(T) /\ <<a, b>> \in Seq(T) /\ <<c>> \in Seq(T)
  <1>. DEFINE s == <<a, b>> \o <<c>>
              t == <<a, b, c>>
  <1>1. <<a, b>> \in Seq(T)
    OBVIOUS
  <1>2. <<c>> \in Seq(T)
    OBVIOUS
  <1>3. t \in Seq(T) /\ Len(t) = 3 /\ t[1] = a /\ t[2] = b /\ t[3] = c
    OBVIOUS
  <1>4. Len(s) = 3
    BY <1>1, <1>2
  <1>5. s[1] = a /\ s[2] = b /\ s[3] = c
    BY <1>1, <1>2
  <1>6. s \in Seq(T)
    BY <1>1, <1>2
  <1>. HIDE DEF s, t
  <1>7. \A i \in 1..Len(s) : s[i] = t[i]
    BY <1>3, <1>4, <1>5
  <1>8. s = t
    BY <1>3, <1>4, <1>6, <1>7, SeqEqual
  <1>. QED
    BY <1>1, <1>2, <1>3, <1>8 DEF s, t


(* A function on 1..n is a sequence. *)
LEMMA FunctionSeq ==
  ASSUME NEW T, NEW n \in Nat, NEW f \in [1..n -> T]
  PROVE  f \in Seq(T) /\ Len(f) = n
  <1>1. f \in Seq(T)
    OBVIOUS
  <1>2. Len(f) \in Nat /\ DOMAIN f = 1..Len(f) /\ DOMAIN f = 1..n
    BY <1>1, LenProperties
  <1>. QED
    BY <1>1, <1>2

LEMMA LongerByOne ==
  ASSUME NEW T, NEW c \in Seq(T), NEW a \in T
  PROVE  c \o <<a>> # <<>>
  <1>1. <<a>> \in Seq(T)
    BY One
  <1>. QED
    BY <1>1, AppendIsConcat, AppendProperties
=============================================================================
