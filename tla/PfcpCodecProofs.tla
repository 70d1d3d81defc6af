-------------------------- MODULE PfcpCodecProofs --------------------------
(***************************************************************************)
(* Proofs about PfcpCodec: whatever the builders are given, and wherever   *)
(* the network cuts a datagram or adds an IE to it, the decoders read what *)
(* was written or a beginning of it.                                       *)
(*                                                                         *)
(* The argument goes from the octets up.                                   *)
(*                                                                         *)
(*   1. iter_ies and FlattenSeq are recursive functions; each is shown to  *)
(*      satisfy its equation, by the least number at which it would not.   *)
(*   2. iter_ies reads back every list of IEs that append_ie wrote         *)
(*      (IterWire), and of a list cut at any octet a beginning (IterCut).  *)
(*   3. A grouped IE and a message are lists of IEs of distinct types in a *)
(*      fixed order (Group). The parsers look IEs up by type, so each rule *)
(*      is read back field by field (UrrRead, FarRead, PdrRead, ...).      *)
(*   4. A datagram that started as a message brings its header and a       *)
(*      beginning of its IEs, all of them when it was not cut (ReadBack).  *)
(*   5. Every decoder reads that beginning as a beginning of the request,  *)
(*      or finds a mandatory IE missing (RequestDecoded); every answer to  *)
(*      it has the form the requester checks (AnswerSent, AnswerReceived). *)
(*   6. The inductive invariant CodecInv says that the datagram under way, *)
(*      what was read of it and what was answered stem from the request.   *)
(***************************************************************************)
EXTENDS PfcpCodec, TLAPS, WellFoundedInduction

-----------------------------------------------------------------------------

(* Induction over data. The library states induction with an operator for  *)
(* the claim; here the claim is a set, and the least number outside of it  *)
(* is the counterexample.                                                  *)

(* A set of numbers has a least one.                                       *)
LEMMA Least ==
    ASSUME NEW T \in SUBSET Nat, T # {}
    PROVE  \E x \in T : \A y \in T : x <= y
<1> DEFINE R == OpToRel(<, Nat)
<1>1. IsWellFoundedOn(R, Nat)
  BY NatLessThanWellFounded
<1>2. \A y, x \in Nat : y < x => <<y, x>> \in R
  BY DEF OpToRel
<1> HIDE DEF R
<1>3. PICK x \in T : \A y \in T : ~(<<y, x>> \in R)
  BY <1>1, WFMin
<1>4. \A y \in T : ~(y < x) /\ y \in Nat /\ x \in Nat
  BY <1>2, <1>3
<1>5. QED BY <1>4

(* Induction, with a set for the numbers the claim holds of.               *)
LEMMA Induction ==
    ASSUME NEW S, 0 \in S, \A n \in Nat : n \in S => n + 1 \in S
    PROVE  Nat \subseteq S
<1> SUFFICES ASSUME Nat \ S # {} PROVE FALSE
  OBVIOUS
<1>1. PICK x \in Nat \ S : \A y \in Nat \ S : x <= y
  BY Least
<1>2. x # 0 /\ x - 1 \in Nat /\ x - 1 \in S
  BY <1>1
<1>3. x - 1 + 1 \in S /\ x - 1 + 1 = x
  BY <1>2
<1>4. QED BY <1>1, <1>3

-----------------------------------------------------------------------------
(* FlattenSeq, unfolded. A builder that writes one IE per element of a     *)
(* list is a FlattenSeq of sequences of octets.                            *)

(* What FlattenSeq of the community modules recurses with, named.          *)
Flat(seqs) ==
    CHOOSE f : f = [i \in 1..Len(seqs) |-> IF i = 1 THEN seqs[i] ELSE f[i-1] \o seqs[i]]

(* FlattenSeq is the last value of that recursive function.                *)
LEMMA FlattenIsFlat ==
    ASSUME NEW seqs
    PROVE  FlattenSeq(seqs) = IF Len(seqs) = 0 THEN seqs ELSE Flat(seqs)[Len(seqs)]
BY DEF FlattenSeq, Flat

(* The recursive function exists: it satisfies its own equation.           *)
LEMMA FlatEquation ==
    ASSUME NEW S, NEW seqs \in Seq(Seq(S))
    PROVE  Flat(seqs) = [i \in 1..Len(seqs) |-> IF i = 1 THEN seqs[i] ELSE Flat(seqs)[i-1] \o seqs[i]]
<1> DEFINE G(n, f) == f = [i \in 1..n |-> IF i = 1 THEN seqs[i] ELSE f[i-1] \o seqs[i]]
           T == {n \in Nat : n <= Len(seqs) => \E f : G(n, f)}
<1>0. \A n : n \in T <=> n \in Nat /\ (n <= Len(seqs) => \E f : G(n, f))
  <2> HIDE DEF G
  <2>1. QED OBVIOUS
<1>1. 0 \in T
  <2>1. G(0, [i \in 1..0 |-> 0])
    OBVIOUS
  <2>2. QED BY <2>1, <1>0
<1>2. ASSUME NEW n \in Nat, n \in T PROVE n + 1 \in T
  <2> SUFFICES ASSUME n + 1 <= Len(seqs) PROVE \E f : G(n + 1, f)
    <3> HIDE DEF G, T
    <3>1. QED BY <1>0
  <2>0. n <= Len(seqs)
    OBVIOUS
  <2>1. PICK f : G(n, f)
    <3> HIDE DEF G, T
    <3>1. QED BY <1>0, <1>2, <2>0
  <2> DEFINE g == [i \in 1..n+1 |-> IF i <= n THEN f[i] ELSE IF i = 1 THEN seqs[i] ELSE f[i-1] \o seqs[i]]
             h == [i \in 1..n+1 |-> IF i = 1 THEN seqs[i] ELSE g[i-1] \o seqs[i]]
  <2>2. DOMAIN g = 1..n+1 /\ DOMAIN h = 1..n+1
    OBVIOUS
  <2>3. ASSUME NEW i \in 1..n+1 PROVE g[i] = h[i]
    <3>1. CASE i <= n
      <4>1. f[i] = IF i = 1 THEN seqs[i] ELSE f[i-1] \o seqs[i]
        <5>1. i \in 1..n
          BY <3>1
        <5>2. QED BY <2>1, <5>1
      <4>2. i # 1 => i - 1 \in 1..n+1 /\ i - 1 <= n
        BY <3>1
      <4>3. QED BY <3>1, <4>1, <4>2
    <3>2. CASE i = n + 1
      <4>1. i # 1 => i - 1 \in 1..n+1 /\ i - 1 <= n
        BY <3>2
      <4>2. QED BY <3>2, <4>1
    <3>3. QED BY <3>1, <3>2
  <2>4. g = h
    BY <2>2, <2>3, ZenonT(60)
  <2>5. G(n + 1, g)
    BY <2>4
  <2>6. QED
    <3> HIDE DEF G, g
    <3>1. QED BY <2>5
<1>3. Nat \subseteq T
  <2> HIDE DEF T
  <2>1. QED BY <1>1, <1>2, Induction
<1>4. \E f : G(Len(seqs), f)
  <2> HIDE DEF G, T
  <2>1. QED BY <1>0, <1>3
<1>5. QED BY <1>4 DEF Flat

(* The first value is the first sequence.                                  *)
LEMMA FlatFirst ==
    ASSUME NEW S, NEW seqs \in Seq(Seq(S)), Len(seqs) # 0
    PROVE  Flat(seqs)[1] = seqs[1]
<1> DEFINE F == Flat(seqs)
           H == [i \in 1..Len(seqs) |-> IF i = 1 THEN seqs[i] ELSE F[i-1] \o seqs[i]]
<1>1. F = H
  BY FlatEquation
<1> HIDE DEF F
<1>2. H[1] = seqs[1]
  OBVIOUS
<1>3. QED BY <1>1, <1>2 DEF F

(* Every later value adds one sequence to the value before it.             *)
LEMMA FlatNext ==
    ASSUME NEW S, NEW seqs \in Seq(Seq(S)), NEW k \in 1..Len(seqs), k # 1
    PROVE  Flat(seqs)[k] = Flat(seqs)[k - 1] \o seqs[k]
<1> DEFINE F == Flat(seqs)
           H == [i \in 1..Len(seqs) |-> IF i = 1 THEN seqs[i] ELSE F[i-1] \o seqs[i]]
<1>1. F = H
  BY FlatEquation
<1> HIDE DEF F
<1>2. H[k] = F[k - 1] \o seqs[k]
  OBVIOUS
<1>3. QED BY <1>1, <1>2 DEF F

(* Induction on sequences, built up at the end.                            *)
LEMMA SeqInduction ==
    ASSUME NEW S, NEW P, <<>> \in P, \A s \in Seq(S), x \in S : s \in P => s \o <<x>> \in P
    PROVE  Seq(S) \subseteq P
<1> DEFINE T == {n \in Nat : \A s \in Seq(S) : Len(s) = n => s \in P}
<1>1. 0 \in T
  <2>1. \A s \in Seq(S) : Len(s) = 0 => s = <<>>
    OBVIOUS
  <2>2. QED BY <2>1
<1>2. ASSUME NEW n \in Nat, n \in T PROVE n + 1 \in T
  <2> SUFFICES ASSUME NEW s \in Seq(S), Len(s) = n + 1 PROVE s \in P
    OBVIOUS
  <2> DEFINE t == SubSeq(s, 1, n)
  <2>1. t \in Seq(S) /\ Len(t) = n /\ s[n + 1] \in S
    OBVIOUS
  <2>2. s = t \o <<s[n + 1]>>
    OBVIOUS
  <2>3. t \in P
    BY <1>2, <2>1
  <2> HIDE DEF t
  <2>4. QED BY <2>1, <2>2, <2>3
<1>3. Nat \subseteq T
  <2> HIDE DEF T
  <2>1. QED BY <1>1, <1>2, Induction
<1>4. QED BY <1>3

(* What is flattened so far is a sequence over the same set.               *)
LEMMA FlatType ==
    ASSUME NEW S, NEW seqs \in Seq(Seq(S))
    PROVE  \A i \in 1..Len(seqs) : Flat(seqs)[i] \in Seq(S)
<1> DEFINE T == {n \in Nat : \A k \in 1..Len(seqs) : k <= n => Flat(seqs)[k] \in Seq(S)}
<1>1. 0 \in T
  OBVIOUS
<1>2. ASSUME NEW n \in Nat, n \in T PROVE n + 1 \in T
  <2> SUFFICES ASSUME NEW k \in 1..Len(seqs), k <= n + 1 PROVE Flat(seqs)[k] \in Seq(S)
    OBVIOUS
  <2>1. CASE k = 1
    BY <2>1, FlatFirst
  <2>2. CASE k # 1
    <3>1. k - 1 \in 1..Len(seqs) /\ k - 1 <= n
      BY <2>2
    <3>2. Flat(seqs)[k - 1] \in Seq(S) /\ seqs[k] \in Seq(S)
      BY <1>2, <3>1
    <3>3. Flat(seqs)[k] = Flat(seqs)[k - 1] \o seqs[k]
      BY <2>2, FlatNext
    <3>4. QED BY <3>2, <3>3
  <2>3. QED BY <2>1, <2>2
<1>3. Nat \subseteq T
  <2> HIDE DEF T
  <2>1. QED BY <1>1, <1>2, Induction
<1>4. Len(seqs) \in T
  <2> HIDE DEF T
  <2>1. Len(seqs) \in Nat
    OBVIOUS
  <2>2. QED BY <1>3, <2>1
<1>5. QED BY <1>4

(* The first m values depend on the first m sequences only.                *)
LEMMA FlatAgree ==
    ASSUME NEW S, NEW s \in Seq(Seq(S)), NEW t \in Seq(Seq(S)), NEW m \in Nat,
           m <= Len(s), m <= Len(t), \A i \in 1..m : s[i] = t[i]
    PROVE  \A i \in 1..m : Flat(s)[i] = Flat(t)[i]
<1> DEFINE T == {n \in Nat : \A k \in 1..m : k <= n => Flat(s)[k] = Flat(t)[k]}
<1>1. 0 \in T
  OBVIOUS
<1>2. ASSUME NEW n \in Nat, n \in T PROVE n + 1 \in T
  <2> SUFFICES ASSUME NEW k \in 1..m, k <= n + 1 PROVE Flat(s)[k] = Flat(t)[k]
    OBVIOUS
  <2>1. k \in 1..Len(s) /\ k \in 1..Len(t) /\ s[k] = t[k]
    OBVIOUS
  <2>2. CASE k = 1
    BY <2>1, <2>2, FlatFirst
  <2>3. CASE k # 1
    <3>1. k - 1 \in 1..m /\ k - 1 <= n
      BY <2>3
    <3>2. Flat(s)[k - 1] = Flat(t)[k - 1]
      BY <1>2, <3>1
    <3>3. /\ Flat(s)[k] = Flat(s)[k - 1] \o s[k]
          /\ Flat(t)[k] = Flat(t)[k - 1] \o t[k]
      BY <2>1, <2>3, FlatNext
    <3>4. QED BY <2>1, <3>2, <3>3
  <2>4. QED BY <2>2, <2>3
<1>3. Nat \subseteq T
  <2> HIDE DEF T
  <2>1. QED BY <1>1, <1>2, Induction
<1>4. m \in T
  BY <1>3
<1>5. QED BY <1>4

(* Nothing flattened is nothing.                                           *)
LEMMA FlattenEmpty == FlattenSeq(<<>>) = <<>>
BY FlattenIsFlat

(* Flattening gives a sequence over the same set.                          *)
LEMMA FlattenType ==
    ASSUME NEW S, NEW seqs \in Seq(Seq(S))
    PROVE  FlattenSeq(seqs) \in Seq(S)
<1>1. CASE Len(seqs) = 0
  <2>1. seqs = <<>> /\ <<>> \in Seq(S)
    BY <1>1
  <2>2. FlattenSeq(seqs) = <<>>
    BY <2>1, FlattenEmpty
  <2>3. QED BY <2>1, <2>2
<1>2. CASE Len(seqs) # 0
  <2> DEFINE k == Len(seqs)
  <2>1. FlattenSeq(seqs) = Flat(seqs)[k] /\ k \in 1..Len(seqs)
    BY <1>2, FlattenIsFlat
  <2> HIDE DEF k
  <2>2. QED BY <2>1, FlatType
<1>3. QED BY <1>1, <1>2

(* One more sequence flattened is concatenated at the end.                 *)
LEMMA FlattenAppend ==
    ASSUME NEW S, NEW s \in Seq(Seq(S)), NEW x \in Seq(S)
    PROVE  FlattenSeq(s \o <<x>>) = FlattenSeq(s) \o x
<1> DEFINE t == s \o <<x>>
           k == Len(t)
<1>1. /\ t \in Seq(Seq(S)) /\ k \in 1..Len(t) /\ t[k] = x /\ k - 1 = Len(s)
      /\ \A i \in 1..Len(s) : s[i] = t[i]
  OBVIOUS
<1> HIDE DEF t
<1>2. FlattenSeq(t) = Flat(t)[k]
  BY <1>1, FlattenIsFlat
<1>3. CASE k = 1
  <2>1. s = <<>>
    BY <1>1, <1>3
  <2>2. Flat(t)[1] = x /\ <<>> \o x = x
    BY <1>1, <1>3, FlatFirst
  <2>3. QED BY <1>2, <1>3, <2>1, <2>2, FlattenEmpty DEF t
<1>4. CASE k # 1
  <2>1. Len(s) \in Nat /\ Len(s) <= k /\ Len(s) \in 1..Len(s) /\ Len(s) # 0
    BY <1>1, <1>4, SMTT(60)
  <2>2. FlattenSeq(s) = Flat(s)[Len(s)]
    BY <2>1, FlattenIsFlat
  <2>3. \A i \in 1..Len(s) : Flat(s)[i] = Flat(t)[i]
    <3> DEFINE m == Len(s)
    <3>1. m \in Nat /\ m <= Len(s) /\ m <= Len(t) /\ \A i \in 1..m : s[i] = t[i]
      BY <1>1, <2>1
    <3> HIDE DEF m
    <3>2. \A i \in 1..m : Flat(s)[i] = Flat(t)[i]
      BY <1>1, <3>1, FlatAgree
    <3>3. QED BY <3>2 DEF m
  <2>4. Flat(t)[Len(s)] = Flat(s)[Len(s)]
    BY <2>1, <2>3
  <2>5. Flat(t)[k] = Flat(t)[k - 1] \o t[k]
    <3> HIDE DEF k
    <3>1. QED BY <1>1, <1>4, FlatNext
  <2>6. QED BY <1>1, <1>2, <2>2, <2>4, <2>5 DEF t
<1>5. QED BY <1>3, <1>4

(* One sequence flattened is that sequence.                                *)
LEMMA FlattenOne ==
    ASSUME NEW S, NEW x \in Seq(S)
    PROVE  FlattenSeq(<<x>>) = x
<1>1. <<>> \in Seq(Seq(S)) /\ <<>> \o <<x>> = <<x>> /\ <<>> \o x = x
  OBVIOUS
<1>2. FlattenSeq(<<>> \o <<x>>) = FlattenSeq(<<>>) \o x
  BY <1>1, FlattenAppend
<1>3. QED BY <1>1, <1>2, FlattenEmpty

(* Concatenation is associative, with the empty sequence as its unit.      *)
LEMMA ConcatFacts ==
    ASSUME NEW S, NEW a \in Seq(S), NEW b \in Seq(S), NEW c \in Seq(S)
    PROVE  /\ a \o b \in Seq(S) /\ (a \o b) \o c = a \o (b \o c)
           /\ a \o <<>> = a /\ <<>> \o a = a
OBVIOUS

(* Two lists flattened as one are the two flattened, concatenated.         *)
LEMMA FlattenConcat ==
    ASSUME NEW S, NEW s \in Seq(Seq(S)), NEW t \in Seq(Seq(S))
    PROVE  FlattenSeq(s \o t) = FlattenSeq(s) \o FlattenSeq(t)
<1> DEFINE P == {u \in Seq(Seq(S)) : FlattenSeq(s \o u) = FlattenSeq(s) \o FlattenSeq(u)}
<1>1. <<>> \in P
  <2>1. <<>> \in Seq(Seq(S)) /\ s \o <<>> = s
    OBVIOUS
  <2>2. FlattenSeq(s) \in Seq(S)
    BY FlattenType
  <2>3. FlattenSeq(s) \o <<>> = FlattenSeq(s)
    BY <2>2
  <2>4. QED BY <2>1, <2>3, FlattenEmpty
<1>2. ASSUME NEW u \in Seq(Seq(S)), NEW x \in Seq(S), u \in P PROVE u \o <<x>> \in P
  <2>1. <<x>> \in Seq(Seq(S)) /\ s \o u \in Seq(Seq(S)) /\ u \o <<x>> \in Seq(Seq(S))
    OBVIOUS
  <2>2. s \o (u \o <<x>>) = (s \o u) \o <<x>>
    BY <2>1, ConcatFacts, SMTT(60)
  <2>3. FlattenSeq((s \o u) \o <<x>>) = FlattenSeq(s \o u) \o x
    BY <2>1, FlattenAppend
  <2>4. FlattenSeq(u \o <<x>>) = FlattenSeq(u) \o x
    BY FlattenAppend
  <2>5. FlattenSeq(s) \in Seq(S) /\ FlattenSeq(u) \in Seq(S)
    BY FlattenType
  <2>6. (FlattenSeq(s) \o FlattenSeq(u)) \o x = FlattenSeq(s) \o (FlattenSeq(u) \o x)
    BY <2>5, ConcatFacts, SMTT(60)
  <2>7. FlattenSeq(s \o u) = FlattenSeq(s) \o FlattenSeq(u)
    BY <1>2
  <2>8. QED BY <2>1, <2>2, <2>3, <2>4, <2>6, <2>7
<1>3. Seq(Seq(S)) \subseteq P
  <2> HIDE DEF P
  <2>1. QED BY <1>1, <1>2, SeqInduction
<1>4. QED BY <1>3

-----------------------------------------------------------------------------

-----------------------------------------------------------------------------
(* iter_ies, unfolded: a loop that takes one IE at a time off a buffer.    *)

(* An IE begins at octet i and ends inside the buffer.                     *)
WholeAt(buf, i) == i < Len(buf) /\ i + 1 + buf[i + 1] <= Len(buf)
(* The IE that begins at octet i.                                          *)
IeAt(buf, i) == [ie_type |-> buf[i], value |-> SubSeq(buf, i + 2, i + 1 + buf[i + 1])]
(* Where the octets behind that IE begin.                                  *)
After(buf, i) == i + 2 + buf[i + 1]
(* The recursive function behind iter_ies: the IEs from octet i on.        *)
Iter(buf) ==
    CHOOSE f : f = [i \in 1..Len(buf) + 1 |->
                        IF ~WholeAt(buf, i) THEN <<>> ELSE <<IeAt(buf, i)>> \o f[After(buf, i)]]

(* iter_ies reads from the first octet on.                                 *)
LEMMA IterIes == ASSUME NEW buf PROVE iter_ies(buf) = Iter(buf)[1]
BY DEF iter_ies, Iter, WholeAt, IeAt, After

(* A whole IE ends inside the buffer, and reading advances.                *)
LEMMA AfterFacts ==
    ASSUME NEW buf \in Seq(Nat), NEW i \in 1..Len(buf) + 1, WholeAt(buf, i)
    PROVE  After(buf, i) \in 1..Len(buf) + 1 /\ After(buf, i) > i
<1>1. Len(buf) \in Nat /\ i < Len(buf) /\ i + 1 \in 1..Len(buf)
  BY DEF WholeAt
<1>2. buf[i + 1] \in Nat
  BY <1>1
<1> DEFINE v == buf[i + 1]
<1>3. i + 1 + v <= Len(buf) /\ After(buf, i) = i + 2 + v /\ v \in Nat
  BY <1>1, <1>2 DEF WholeAt, After
<1> HIDE DEF v
<1>4. QED BY <1>1, <1>3

(* The loop of iter_ies is well founded: the function satisfies its        *)
(* equation.                                                               *)
LEMMA IterEquation ==
    ASSUME NEW buf \in Seq(Nat)
    PROVE  Iter(buf) = [i \in 1..Len(buf) + 1 |->
                          IF ~WholeAt(buf, i) THEN <<>> ELSE <<IeAt(buf, i)>> \o Iter(buf)[After(buf, i)]]
<1> DEFINE L == Len(buf) + 1
           D(n) == {j \in 1..L : L < j + n}
           G(n, f) == f = [i \in D(n) |-> IF ~WholeAt(buf, i) THEN <<>> ELSE <<IeAt(buf, i)>> \o f[After(buf, i)]]
           T == {n \in Nat : \E f : G(n, f)}
<1>a. L \in Nat
  OBVIOUS
<1>b. \A i \in 1..L : WholeAt(buf, i) => After(buf, i) \in 1..L /\ After(buf, i) > i
  BY AfterFacts
<1> HIDE DEF L
<1>0. \A n : n \in T <=> n \in Nat /\ \E f : G(n, f)
  <2> HIDE DEF G
  <2>1. QED OBVIOUS
<1>1. 0 \in T
  <2>1. D(0) = {}
    BY <1>a
  <2>2. G(0, [i \in {} |-> 0])
    <3> HIDE DEF D
    <3>1. QED BY <2>1
  <2>3. QED
    <3> HIDE DEF G, T
    <3>1. QED BY <2>2, <1>0
<1>2. ASSUME NEW n \in Nat, n \in T PROVE n + 1 \in T
  <2>1. PICK f : G(n, f)
    <3> HIDE DEF G, T
    <3>1. QED BY <1>0, <1>2
  <2> DEFINE E(i) == IF ~WholeAt(buf, i) THEN <<>> ELSE <<IeAt(buf, i)>> \o f[After(buf, i)]
             g == [i \in D(n + 1) |-> E(i)]
             h == [i \in D(n + 1) |-> IF ~WholeAt(buf, i) THEN <<>> ELSE <<IeAt(buf, i)>> \o g[After(buf, i)]]
  <2>2. \A i \in D(n) : i \in D(n + 1) /\ f[i] = E(i)
    <3>1. \A i \in D(n) : i \in D(n + 1)
      BY <1>a
    <3> HIDE DEF D
    <3>2. QED BY <2>1, <3>1
  <2>3. \A i \in D(n + 1) : WholeAt(buf, i) => After(buf, i) \in D(n)
    <3> SUFFICES ASSUME NEW i \in D(n + 1), WholeAt(buf, i) PROVE After(buf, i) \in D(n)
      OBVIOUS
    <3>1. i \in 1..L /\ L < i + n + 1
      BY <1>a
    <3>2. After(buf, i) \in 1..L /\ After(buf, i) > i
      BY <1>b, <3>1
    <3>3. QED BY <1>a, <3>1, <3>2
  <2>4. \A i \in D(n) : g[i] = f[i]
    <3> HIDE DEF D, E
    <3>1. QED BY <2>2
  <2>5. \A i \in D(n + 1) : g[i] = h[i]
    <3> SUFFICES ASSUME NEW i \in D(n + 1) PROVE g[i] = h[i]
      OBVIOUS
    <3> HIDE DEF D
    <3>1. g[i] = E(i)
      OBVIOUS
    <3>2. h[i] = IF ~WholeAt(buf, i) THEN <<>> ELSE <<IeAt(buf, i)>> \o g[After(buf, i)]
      OBVIOUS
    <3>3. WholeAt(buf, i) => g[After(buf, i)] = f[After(buf, i)]
      BY <2>3, <2>4
    <3> HIDE DEF g, h
    <3>4. QED BY <3>1, <3>2, <3>3
  <2>6. g = h
    <3> HIDE DEF D
    <3>1. QED BY <2>5
  <2>7. G(n + 1, g)
    BY <2>6
  <2>8. QED
    <3> HIDE DEF G, T, g
    <3>1. n + 1 \in Nat
      OBVIOUS
    <3>2. QED BY <2>7, <1>0, <3>1
<1>3. Nat \subseteq T
  <2> HIDE DEF T
  <2>1. QED BY <1>1, <1>2, Induction
<1>4. \E f : G(L, f)
  <2> HIDE DEF G, T
  <2>1. QED BY <1>a, <1>0, <1>3
<1>5. D(L) = 1..L
  BY <1>a
<1>6. QED
  <2> HIDE DEF D
  <2>1. QED BY <1>4, <1>5 DEF Iter, L

(* The equation, octet by octet: the loop stops or takes one IE and goes   *)
(* on.                                                                     *)
LEMMA IterAt ==
    ASSUME NEW buf \in Seq(Nat), NEW i \in 1..Len(buf) + 1
    PROVE  /\ ~WholeAt(buf, i) => Iter(buf)[i] = <<>>
           /\ WholeAt(buf, i) => Iter(buf)[i] = <<IeAt(buf, i)>> \o Iter(buf)[After(buf, i)]
<1> DEFINE F == Iter(buf)
           H == [j \in 1..Len(buf) + 1 |->
                    IF ~WholeAt(buf, j) THEN <<>> ELSE <<IeAt(buf, j)>> \o F[After(buf, j)]]
<1>1. F = H
  BY IterEquation
<1> HIDE DEF F
<1>2. H[i] = IF ~WholeAt(buf, i) THEN <<>> ELSE <<IeAt(buf, i)>> \o F[After(buf, i)]
  OBVIOUS
<1>3. QED BY <1>1, <1>2 DEF F

(* An information element: its type and the octets of its value.           *)
IE == [ie_type : Nat, value : Seq(Nat)]

(* What is read at an octet is an IE.                                      *)
LEMMA IeAtType ==
    ASSUME NEW buf \in Seq(Nat), NEW i \in 1..Len(buf) + 1, WholeAt(buf, i)
    PROVE  IeAt(buf, i) \in IE
<1>1. i \in 1..Len(buf) /\ i + 1 \in 1..Len(buf) /\ Len(buf) \in Nat
  BY DEF WholeAt
<1>2. buf[i] \in Nat /\ buf[i + 1] \in Nat
  BY <1>1
<1>3. SubSeq(buf, i + 2, i + 1 + buf[i + 1]) \in Seq(Nat)
  BY <1>1, <1>2, SMTT(60) DEF WholeAt
<1>4. QED BY <1>2, <1>3 DEF IeAt, IE

(* iter_ies yields a list of IEs from any octets.                          *)
LEMMA IterType ==
    ASSUME NEW buf \in Seq(Nat)
    PROVE  iter_ies(buf) \in Seq(IE)
<1> DEFINE L == Len(buf) + 1
           T == {n \in Nat : \A j \in 1..L : L < j + n => Iter(buf)[j] \in Seq(IE)}
<1>0. L \in Nat /\ 1 \in 1..L
  OBVIOUS
<1>a. \A i \in 1..L : WholeAt(buf, i) => After(buf, i) \in 1..L /\ After(buf, i) > i
  BY AfterFacts
<1>b. \A i \in 1..L : /\ ~WholeAt(buf, i) => Iter(buf)[i] = <<>>
                      /\ WholeAt(buf, i) => Iter(buf)[i] = <<IeAt(buf, i)>> \o Iter(buf)[After(buf, i)]
  BY IterAt
<1>c. \A i \in 1..L : WholeAt(buf, i) => IeAt(buf, i) \in IE
  BY IeAtType
<1> HIDE DEF L
<1>1. 0 \in T
  BY <1>0
<1>2. ASSUME NEW n \in Nat, n \in T PROVE n + 1 \in T
  <2> SUFFICES ASSUME NEW j \in 1..L, L < j + (n + 1) PROVE Iter(buf)[j] \in Seq(IE)
    OBVIOUS
  <2>1. CASE WholeAt(buf, j)
    <3> DEFINE k == After(buf, j)
    <3>1. k \in 1..L /\ k > j
      BY <1>a, <2>1
    <3> HIDE DEF k
    <3>2. L < k + n
      BY <1>0, <3>1
    <3>3. Iter(buf)[k] \in Seq(IE)
      BY <1>2, <3>1, <3>2
    <3>4. <<IeAt(buf, j)>> \o Iter(buf)[k] \in Seq(IE)
      BY <1>c, <2>1, <3>3
    <3>5. QED BY <1>b, <2>1, <3>4 DEF k
  <2>2. CASE ~WholeAt(buf, j)
    <3>1. Iter(buf)[j] = <<>>
      BY <1>b, <2>2
    <3>2. QED BY <3>1
  <2>3. QED BY <2>1, <2>2
<1>3. Nat \subseteq T
  <2> HIDE DEF T
  <2>1. QED BY <1>1, <1>2, Induction
<1>4. L \in T
  <2> HIDE DEF T
  <2>1. QED BY <1>0, <1>3
<1>5. Iter(buf)[1] \in Seq(IE)
  BY <1>0, <1>4
<1>6. QED BY <1>5, IterIes

(* What is read behind some octets does not depend on them.                *)
LEMMA IterShift ==
    ASSUME NEW a \in Seq(Nat), NEW b \in Seq(Nat)
    PROVE  Iter(a \o b)[Len(a) + 1] = Iter(b)[1]
<1> DEFINE L == Len(b) + 1
           w == a \o b
           A == Len(a)
           T == {n \in Nat : \A j \in 1..L : L < j + n => Iter(w)[A + j] = Iter(b)[j]}
<1>0. /\ L \in Nat /\ 1 \in 1..L /\ A \in Nat /\ w \in Seq(Nat)
      /\ \A j \in 1..L : A + j \in 1..Len(w) + 1
  OBVIOUS
<1>a. \A j \in 1..L : WholeAt(w, A + j) <=> WholeAt(b, j)
  <2> SUFFICES ASSUME NEW j \in 1..L PROVE WholeAt(w, A + j) <=> WholeAt(b, j)
    OBVIOUS
  <2>1. CASE j < Len(b)
    <3>1. j + 1 \in 1..Len(b) /\ w[A + j + 1] = b[j + 1] /\ b[j + 1] \in Nat /\ Len(w) = A + Len(b)
      BY <2>1, SMTT(60)
    <3>2. QED BY <2>1, <3>1, SMTT(60) DEF WholeAt
  <2>2. CASE ~(j < Len(b))
    BY <2>2 DEF WholeAt
  <2>3. QED BY <2>1, <2>2
<1>b. \A j \in 1..L : WholeAt(b, j) => IeAt(w, A + j) = IeAt(b, j) /\ After(w, A + j) = A + After(b, j)
  <2> SUFFICES ASSUME NEW j \in 1..L, WholeAt(b, j)
               PROVE  IeAt(w, A + j) = IeAt(b, j) /\ After(w, A + j) = A + After(b, j)
    OBVIOUS
  <2>1. /\ j \in 1..Len(b) /\ j + 1 \in 1..Len(b) /\ w[A + j] = b[j] /\ w[A + j + 1] = b[j + 1]
        /\ b[j + 1] \in Nat /\ j + 1 + b[j + 1] <= Len(b)
    BY SMTT(60) DEF WholeAt
  <2>2. After(w, A + j) = A + After(b, j)
    BY <2>1, SMTT(60) DEF After
  <2>3. SubSeq(w, A + j + 2, A + j + 1 + b[j + 1]) = SubSeq(b, j + 2, j + 1 + b[j + 1])
    <3> DEFINE v == b[j + 1]
               e == j + 1 + v
    <3>1. v \in Nat /\ j \in Nat /\ A \in Nat /\ e \in Nat /\ e <= Len(b)
      BY <2>1, SMTT(60)
    <3>2. \A n \in Nat : A + j + 1 + n = A + (j + 1 + n) /\ A + j + 2 = A + (j + 2)
      BY <3>1
    <3>3. \A k, m \in Nat : k >= 1 /\ m <= Len(b) => SubSeq(w, A + k, A + m) = SubSeq(b, k, m)
      OBVIOUS
    <3>4. j + 2 \in Nat /\ j + 2 >= 1
      BY <3>1
    <3>5. A + j + 1 + v = A + e /\ A + j + 2 = A + (j + 2)
      <4> HIDE DEF v, A
      <4>1. QED BY <3>1, <3>2
    <3> HIDE DEF e
    <3>6. SubSeq(w, A + (j + 2), A + e) = SubSeq(b, j + 2, e)
      BY <3>1, <3>3, <3>4
    <3>7. QED BY <3>5, <3>6 DEF e
  <2>4. QED BY <2>1, <2>2, <2>3 DEF IeAt
<1> HIDE DEF L, A, w
<1>1. 0 \in T
  BY <1>0
<1>2. ASSUME NEW n \in Nat, n \in T PROVE n + 1 \in T
  <2> SUFFICES ASSUME NEW j \in 1..L, L < j + (n + 1) PROVE Iter(w)[A + j] = Iter(b)[j]
    OBVIOUS
  <2> DEFINE i == A + j
  <2>0. i \in 1..Len(w) + 1 /\ (WholeAt(w, i) <=> WholeAt(b, j)) /\ j \in 1..Len(b) + 1
    BY <1>0, <1>a DEF L
  <2>1. CASE WholeAt(b, j)
    <3> DEFINE k == After(b, j)
    <3>1. k \in 1..L /\ k > j
      BY <2>0, <2>1, AfterFacts DEF L
    <3>2. IeAt(w, i) = IeAt(b, j) /\ After(w, i) = A + k
      BY <1>b, <2>1
    <3> HIDE DEF k, i
    <3>3. L < k + n
      BY <1>0, <3>1
    <3>4. Iter(w)[A + k] = Iter(b)[k]
      BY <1>2, <3>1, <3>3
    <3>5. Iter(b)[j] = <<IeAt(b, j)>> \o Iter(b)[k]
      BY <2>0, <2>1, IterAt DEF k
    <3>6. Iter(w)[i] = <<IeAt(w, i)>> \o Iter(w)[After(w, i)]
      BY <1>0, <2>0, <2>1, IterAt
    <3>7. QED BY <3>2, <3>4, <3>5, <3>6 DEF i
  <2>2. CASE ~WholeAt(b, j)
    <3> HIDE DEF i
    <3>1. Iter(w)[i] = <<>> /\ Iter(b)[j] = <<>>
      BY <1>0, <2>0, <2>2, IterAt
    <3>2. QED BY <3>1 DEF i
  <2>3. QED BY <2>1, <2>2
<1>3. Nat \subseteq T
  <2> HIDE DEF T
  <2>1. QED BY <1>1, <1>2, Induction
<1>4. L \in T
  <2> HIDE DEF T
  <2>1. QED BY <1>0, <1>3
<1>5. Iter(w)[A + 1] = Iter(b)[1]
  BY <1>0, <1>4
<1>6. QED BY <1>5 DEF A, w

-----------------------------------------------------------------------------
(* Sequences: parts of them and their concatenations.                      *)

(* The elements of a concatenation, by index.                              *)
LEMMA ConcatAt ==
    ASSUME NEW S, NEW a \in Seq(S), NEW b \in Seq(S)
    PROVE  /\ a \o b \in Seq(S) /\ Len(a) \in Nat /\ Len(b) \in Nat /\ Len(a \o b) = Len(a) + Len(b)
           /\ \A i \in 1..Len(a) : (a \o b)[i] = a[i]
           /\ \A i \in 1..Len(b) : (a \o b)[Len(a) + i] = b[i]
OBVIOUS

(* Sequences of one length with the same elements are equal.               *)
LEMMA SameSeq ==
    ASSUME NEW S, NEW s \in Seq(S), NEW t \in Seq(S), Len(s) = Len(t),
           \A i \in 1..Len(s) : s[i] = t[i]
    PROVE  s = t
OBVIOUS

(* The elements of a part of a sequence, by index.                         *)
LEMMA SubSeqFacts ==
    ASSUME NEW S, NEW s \in Seq(S), NEW m \in Nat, NEW n \in Nat, m >= 1, n <= Len(s), m <= n + 1
    PROVE  /\ SubSeq(s, m, n) \in Seq(S) /\ Len(SubSeq(s, m, n)) = n - m + 1
           /\ \A i \in 1..(n - m + 1) : SubSeq(s, m, n)[i] = s[m + i - 1]
OBVIOUS

(* The part from the first to the last element is the whole.               *)
LEMMA SubSeqWhole ==
    ASSUME NEW S, NEW s \in Seq(S)
    PROVE  SubSeq(s, 1, Len(s)) = s
OBVIOUS

(* A part of a concatenation inside its left operand.                      *)
LEMMA SubSeqLeft ==
    ASSUME NEW S, NEW a \in Seq(S), NEW b \in Seq(S), NEW m \in Nat, NEW n \in Nat,
           m >= 1, n <= Len(a), m <= n + 1
    PROVE  SubSeq(a \o b, m, n) = SubSeq(a, m, n)
<1> DEFINE w == a \o b
<1>1. w \in Seq(S) /\ Len(a) \in Nat /\ n <= Len(w) /\ \A i \in 1..Len(a) : w[i] = a[i]
  OBVIOUS
<1> HIDE DEF w
<1>2. /\ SubSeq(w, m, n) \in Seq(S) /\ Len(SubSeq(w, m, n)) = n - m + 1
      /\ \A i \in 1..(n - m + 1) : SubSeq(w, m, n)[i] = w[m + i - 1]
  BY <1>1, SubSeqFacts, SMTT(60)
<1>3. /\ SubSeq(a, m, n) \in Seq(S) /\ Len(SubSeq(a, m, n)) = n - m + 1
      /\ \A i \in 1..(n - m + 1) : SubSeq(a, m, n)[i] = a[m + i - 1]
  BY <1>1, SubSeqFacts, SMTT(60)
<1>4. \A i \in 1..(n - m + 1) : m + i - 1 \in 1..Len(a)
  BY <1>1
<1>5. \A i \in 1..(n - m + 1) : SubSeq(w, m, n)[i] = SubSeq(a, m, n)[i]
  BY <1>1, <1>2, <1>3, <1>4
<1>6. SubSeq(w, m, n) = SubSeq(a, m, n)
  BY <1>2, <1>3, <1>5, SameSeq
<1>7. QED BY <1>6 DEF w

(* A part of a concatenation inside its right operand.                     *)
LEMMA SubSeqRight ==
    ASSUME NEW S, NEW a \in Seq(S), NEW b \in Seq(S), NEW m \in Nat, NEW n \in Nat,
           m >= 1, n <= Len(b), m <= n + 1
    PROVE  SubSeq(a \o b, Len(a) + m, Len(a) + n) = SubSeq(b, m, n)
<1> DEFINE w == a \o b
           M == Len(a) + m
           N == Len(a) + n
<1>1. w \in Seq(S) /\ Len(a) \in Nat /\ Len(b) \in Nat /\ Len(w) = Len(a) + Len(b) /\ \A i \in 1..Len(b) : w[Len(a) + i] = b[i]
  OBVIOUS
<1>2. M \in Nat /\ N \in Nat /\ M >= 1 /\ N <= Len(w) /\ M <= N + 1 /\ N - M + 1 = n - m + 1
  BY <1>1
<1>3. \A i \in 1..(n - m + 1) : m + i - 1 \in 1..Len(b) /\ M + i - 1 = Len(a) + (m + i - 1)
  BY <1>1
<1> HIDE DEF w, M, N
<1>4. /\ SubSeq(w, M, N) \in Seq(S) /\ Len(SubSeq(w, M, N)) = n - m + 1
      /\ \A i \in 1..(n - m + 1) : SubSeq(w, M, N)[i] = w[M + i - 1]
  <2>1. /\ SubSeq(w, M, N) \in Seq(S) /\ Len(SubSeq(w, M, N)) = N - M + 1
        /\ \A i \in 1..(N - M + 1) : SubSeq(w, M, N)[i] = w[M + i - 1]
    BY <1>1, <1>2, SubSeqFacts
  <2>2. QED BY <1>2, <2>1
<1>5. /\ SubSeq(b, m, n) \in Seq(S) /\ Len(SubSeq(b, m, n)) = n - m + 1
      /\ \A i \in 1..(n - m + 1) : SubSeq(b, m, n)[i] = b[m + i - 1]
  BY <1>1, SubSeqFacts
<1>6. \A i \in 1..(n - m + 1) : SubSeq(w, M, N)[i] = SubSeq(b, m, n)[i]
  BY <1>1, <1>3, <1>4, <1>5, ZenonT(60)
<1>7. SubSeq(w, M, N) = SubSeq(b, m, n)
  BY <1>4, <1>5, <1>6, SameSeq
<1>8. QED BY <1>7 DEF w, M, N

(* Behind its left operand, a concatenation is its right operand.          *)
LEMMA DropFirst ==
    ASSUME NEW S, NEW a \in Seq(S), NEW b \in Seq(S), NEW m, NEW n,
           m = Len(a) + 1, n = Len(a) + Len(b)
    PROVE  SubSeq(a \o b, m, n) = b
<1> DEFINE k == Len(b)
<1>1. k \in Nat /\ 1 \in Nat /\ 1 >= 1 /\ k <= Len(b) /\ 1 <= k + 1
  OBVIOUS
<1>2. SubSeq(b, 1, k) = b
  BY SubSeqWhole
<1>3. n = Len(a) + k
  OBVIOUS
<1> HIDE DEF k
<1>4. SubSeq(a \o b, Len(a) + 1, Len(a) + k) = SubSeq(b, 1, k)
  BY <1>1, SubSeqRight
<1>5. QED BY <1>2, <1>3, <1>4

(* A beginning of a concatenation that reaches into its right operand.     *)
LEMMA SubSeqOver ==
    ASSUME NEW S, NEW a \in Seq(S), NEW b \in Seq(S), NEW n \in Nat, n <= Len(b)
    PROVE  SubSeq(a \o b, 1, Len(a) + n) = a \o SubSeq(b, 1, n) /\ SubSeq(b, 1, n) \in Seq(S)
<1> DEFINE w == a \o b
           N == Len(a) + n
           c == SubSeq(b, 1, n)
           d == a \o c
<1>1. /\ w \in Seq(S) /\ Len(a) \in Nat /\ Len(b) \in Nat /\ Len(w) = Len(a) + Len(b)
      /\ \A i \in 1..Len(b) : w[Len(a) + i] = b[i]
      /\ \A i \in 1..Len(a) : w[i] = a[i]
  OBVIOUS
<1>2. c \in Seq(S) /\ Len(c) = n /\ \A i \in 1..n : c[i] = b[i]
  OBVIOUS
<1> HIDE DEF c, w
<1>3. /\ d \in Seq(S) /\ Len(d) = N
      /\ \A i \in 1..n : d[Len(a) + i] = c[i]
      /\ \A i \in 1..Len(a) : d[i] = a[i]
  <2>1. /\ d \in Seq(S) /\ Len(d) = Len(a) + Len(c)
        /\ \A i \in 1..Len(c) : d[Len(a) + i] = c[i]
        /\ \A i \in 1..Len(a) : d[i] = a[i]
    <3>1. d \in Seq(S)
      BY <1>2
    <3>2. Len(d) = Len(a) + Len(c)
      BY <1>2, SMTT(60)
    <3>3. \A i \in 1..Len(c) : d[Len(a) + i] = c[i]
      BY <1>2
    <3>4. \A i \in 1..Len(a) : d[i] = a[i]
      BY <1>2
    <3> HIDE DEF d
    <3>5. QED BY <3>1, <3>2, <3>3, <3>4
  <2> HIDE DEF d
  <2>2. QED BY <1>2, <2>1
<1> HIDE DEF d
<1>4. N \in Nat /\ N <= Len(w) /\ 1 <= N + 1
  BY <1>1
<1>5. \A i \in 1..N : i \in 1..Len(a) \/ (i - Len(a) \in 1..n /\ i = Len(a) + (i - Len(a)))
  BY <1>1
<1> HIDE DEF N
<1>6. /\ SubSeq(w, 1, N) \in Seq(S) /\ Len(SubSeq(w, 1, N)) = N
      /\ \A i \in 1..N : SubSeq(w, 1, N)[i] = w[i]
  BY <1>1, <1>4
<1>7. ASSUME NEW i \in 1..N PROVE w[i] = d[i]
  <2>1. CASE i \in 1..Len(a)
    BY <1>1, <1>3, <2>1
  <2>2. CASE i - Len(a) \in 1..n
    <3> DEFINE j == i - Len(a)
    <3>1. j \in 1..n /\ j \in 1..Len(b) /\ i = Len(a) + j
      BY <1>1, <2>2
    <3> HIDE DEF j
    <3>2. w[Len(a) + j] = b[j] /\ d[Len(a) + j] = c[j] /\ c[j] = b[j]
      BY <1>1, <1>2, <1>3, <3>1
    <3>3. QED BY <3>1, <3>2
  <2>3. QED BY <1>5, <2>1, <2>2
<1>8. SubSeq(w, 1, N) = d
  BY <1>3, <1>6, <1>7, SameSeq
<1>9. QED BY <1>2, <1>8 DEF w, N, c, d

(* What stands before the k-th element.                                    *)
Before(s, k) == SubSeq(s, 1, k - 1)
(* What stands behind the k-th element.                                    *)
Behind(s, k) == SubSeq(s, k + 1, Len(s))

(* A sequence, split at one of its elements.                               *)
LEMMA SplitAt ==
    ASSUME NEW S, NEW s \in Seq(S), NEW k \in 1..Len(s)
    PROVE  /\ Before(s, k) \in Seq(S) /\ Behind(s, k) \in Seq(S)
           /\ s = (Before(s, k) \o <<s[k]>>) \o Behind(s, k)
           /\ \A j \in 1..Len(Before(s, k)) : j \in 1..Len(s) /\ j < k /\ Before(s, k)[j] = s[j]
           /\ \A j \in 1..Len(Behind(s, k)) : k + j \in 1..Len(s) /\ k + j > k /\ Behind(s, k)[j] = s[k + j]
<1> DEFINE n == Len(s)
           p == SubSeq(s, 1, k - 1)
           q == SubSeq(s, k + 1, n)
           x == s[k]
           l == p \o <<x>>
           t == l \o q
<1>1. n \in Nat /\ x \in S /\ <<x>> \in Seq(S) /\ k \in Nat /\ k >= 1 /\ k <= n
  OBVIOUS
<1>2. p \in Seq(S) /\ Len(p) = k - 1 /\ \A j \in 1..k - 1 : p[j] = s[j]
  BY <1>1
<1>3. q \in Seq(S) /\ Len(q) = n - k /\ \A j \in 1..n - k : q[j] = s[k + j]
  <2>1. k + 1 \in Nat /\ n \in Nat /\ k + 1 >= 1 /\ n <= Len(s) /\ k + 1 <= n + 1
    BY <1>1
  <2>2. q \in Seq(S) /\ Len(q) = n - (k + 1) + 1
    BY <2>1
  <2>3. \A j \in 1..n - k : q[j] = s[k + 1 + j - 1]
    BY <1>1
  <2>4. n - (k + 1) + 1 = n - k /\ \A j \in 1..n - k : k + 1 + j - 1 = k + j
    BY <1>1
  <2> HIDE DEF q, n
  <2>5. QED BY <2>2, <2>3, <2>4
<1>n. Len(s) = n
  OBVIOUS
<1> HIDE DEF p, q, n
<1>4. /\ l \in Seq(S) /\ Len(l) = k
      /\ \A j \in 1..k - 1 : l[j] = p[j]
      /\ l[k] = x
  BY <1>1, <1>2
<1> HIDE DEF l, x
<1>5. /\ t \in Seq(S) /\ Len(t) = n
      /\ \A j \in 1..k : t[j] = l[j]
      /\ \A j \in 1..n - k : t[k + j] = q[j]
  <2>1. t \in Seq(S)
    BY <1>3, <1>4
  <2>2. Len(t) = n
    BY <1>1, <1>3, <1>4, SMTT(60)
  <2>3. \A j \in 1..k : t[j] = l[j]
    BY <1>1, <1>3, <1>4
  <2>4. \A j \in 1..n - k : t[k + j] = q[j]
    BY <1>1, <1>3, <1>4
  <2> HIDE DEF t
  <2>5. QED BY <2>1, <2>2, <2>3, <2>4
<1> HIDE DEF t
<1>6. ASSUME NEW i \in 1..n PROVE s[i] = t[i]
  <2>1. CASE i < k
    <3>1. i \in 1..k - 1 /\ i \in 1..k
      BY <1>1, <2>1
    <3>2. QED BY <1>2, <1>4, <1>5, <3>1
  <2>2. CASE i = k
    <3>1. k \in 1..k
      BY <1>1
    <3>2. QED BY <1>4, <1>5, <2>2, <3>1 DEF x
  <2>3. CASE i > k
    <3> DEFINE j == i - k
    <3>1. j \in 1..n - k /\ i = k + j
      BY <1>1, <2>3
    <3> HIDE DEF j
    <3>2. QED BY <1>3, <1>5, <3>1
  <2>4. QED BY <1>1, <2>1, <2>2, <2>3
<1>7. s = t
  BY <1>n, <1>5, <1>6, SameSeq
<1>8. s = (p \o <<s[k]>>) \o q
  BY <1>7 DEF t, l, x
<1>9. \A j \in 1..Len(p) : j \in 1..Len(s) /\ j < k /\ p[j] = s[j]
  <2>1. \A j \in 1..k - 1 : j \in 1..n /\ j < k
    BY <1>1
  <2>2. QED BY <1>2, <1>n, <2>1
<1>10. \A j \in 1..Len(q) : k + j \in 1..Len(s) /\ k + j > k /\ q[j] = s[k + j]
  <2>1. \A j \in 1..n - k : k + j \in 1..n /\ k + j > k
    BY <1>1
  <2>2. QED BY <1>3, <1>n, <2>1
<1>11. p = Before(s, k) /\ q = Behind(s, k)
  BY DEF p, q, Before, Behind, n
<1>12. QED BY <1>2, <1>3, <1>8, <1>9, <1>10, <1>11

(* Every element of either side of the split is another one than the k-th. *)
LEMMA Elsewhere ==
    ASSUME NEW S, NEW s \in Seq(S), NEW k \in DOMAIN s
    PROVE  /\ \A j \in DOMAIN Before(s, k) : \E m \in DOMAIN s : m # k /\ Before(s, k)[j] = s[m]
           /\ \A j \in DOMAIN Behind(s, k) : \E m \in DOMAIN s : m # k /\ Behind(s, k)[j] = s[m]
<1> DEFINE p == Before(s, k)
           q == Behind(s, k)
<1>0. k \in 1..Len(s) /\ k \in Nat
  OBVIOUS
<1>1. p \in Seq(S) /\ q \in Seq(S)
  BY <1>0, SplitAt
<1>2. \A j \in 1..Len(p) : j \in 1..Len(s) /\ j < k /\ p[j] = s[j]
  BY <1>0, SplitAt
<1>3. \A j \in 1..Len(q) : k + j \in 1..Len(s) /\ k + j > k /\ q[j] = s[k + j]
  BY <1>0, SplitAt
<1> HIDE DEF p, q
<1>4. DOMAIN p = 1..Len(p) /\ DOMAIN q = 1..Len(q) /\ DOMAIN s = 1..Len(s)
  BY <1>1
<1>5. ASSUME NEW j \in DOMAIN p PROVE \E m \in DOMAIN s : m # k /\ p[j] = s[m]
  <2>1. j \in DOMAIN s /\ j # k /\ p[j] = s[j]
    BY <1>0, <1>2, <1>4
  <2>2. QED BY <2>1
<1>6. ASSUME NEW j \in DOMAIN q PROVE \E m \in DOMAIN s : m # k /\ q[j] = s[m]
  <2> DEFINE m == k + j
  <2>1. m \in DOMAIN s /\ m # k /\ q[j] = s[m]
    BY <1>0, <1>3, <1>4
  <2> HIDE DEF m
  <2>2. QED BY <2>1
<1>7. QED BY <1>5, <1>6 DEF p, q

(* Induction on sequences, built up at the front.                          *)
LEMMA FrontInduction ==
    ASSUME NEW S, NEW P, <<>> \in P, \A s \in Seq(S), x \in S : s \in P => <<x>> \o s \in P
    PROVE  Seq(S) \subseteq P
<1> DEFINE T == {n \in Nat : \A s \in Seq(S) : Len(s) = n => s \in P}
<1>1. 0 \in T
  <2>1. \A s \in Seq(S) : Len(s) = 0 => s = <<>>
    OBVIOUS
  <2>2. QED BY <2>1
<1>2. ASSUME NEW n \in Nat, n \in T PROVE n + 1 \in T
  <2> SUFFICES ASSUME NEW s \in Seq(S), Len(s) = n + 1 PROVE s \in P
    OBVIOUS
  <2> DEFINE t == SubSeq(s, 2, n + 1)
  <2>1. t \in Seq(S) /\ Len(t) = n /\ s[1] \in S
    OBVIOUS
  <2>2. s = <<s[1]>> \o t
    OBVIOUS
  <2>3. t \in P
    BY <1>2, <2>1
  <2> HIDE DEF t
  <2>4. QED BY <2>1, <2>2, <2>3
<1>3. Nat \subseteq T
  <2> HIDE DEF T
  <2>1. QED BY <1>1, <1>2, Induction
<1>4. QED BY <1>3

-----------------------------------------------------------------------------
(* What is built element by element of a list.                             *)

(* Each, with a function for what is built.                                *)
EachOf(g, list) == FlattenSeq([i \in DOMAIN list |-> g[list[i]]])

(* What is flattened is a list of sequences.                               *)
LEMMA EachOfSeqs ==
    ASSUME NEW S, NEW R, NEW g \in [S -> Seq(R)], NEW list \in Seq(S)
    PROVE  [i \in DOMAIN list |-> g[list[i]]] \in Seq(Seq(R))
<1>1. DOMAIN list = 1..Len(list) /\ Len(list) \in Nat
  OBVIOUS
<1>2. \A i \in 1..Len(list) : g[list[i]] \in Seq(R)
  BY <1>1
<1>3. QED BY <1>1, <1>2

(* What is built from a list is a sequence over the built elements.        *)
LEMMA EachOfType ==
    ASSUME NEW S, NEW R, NEW g \in [S -> Seq(R)], NEW list \in Seq(S)
    PROVE  EachOf(g, list) \in Seq(R)
<1> DEFINE s == [i \in DOMAIN list |-> g[list[i]]]
<1>1. s \in Seq(Seq(R))
  BY EachOfSeqs, ZenonT(60)
<1> HIDE DEF s
<1>2. FlattenSeq(s) \in Seq(R)
  BY <1>1, FlattenType
<1>3. QED BY <1>2 DEF EachOf, s

(* From nothing, nothing is built.                                         *)
LEMMA EachOfEmpty ==
    ASSUME NEW g PROVE EachOf(g, <<>>) = <<>>
<1>1. [i \in DOMAIN <<>> |-> g[<<>>[i]]] = <<>>
  OBVIOUS
<1>2. QED BY <1>1, FlattenEmpty DEF EachOf

(* From one element, what the function gives it is built.                  *)
LEMMA EachOfOne ==
    ASSUME NEW S, NEW R, NEW g \in [S -> Seq(R)], NEW x \in S
    PROVE  EachOf(g, <<x>>) = g[x]
<1>1. [i \in DOMAIN <<x>> |-> g[<<x>>[i]]] = <<g[x]>>
  OBVIOUS
<1>2. g[x] \in Seq(R)
  OBVIOUS
<1>3. QED BY <1>1, <1>2, FlattenOne DEF EachOf

(* Two lists build what each of them builds, concatenated.                 *)
LEMMA EachOfConcat ==
    ASSUME NEW S, NEW R, NEW g \in [S -> Seq(R)], NEW a \in Seq(S), NEW b \in Seq(S)
    PROVE  EachOf(g, a \o b) = EachOf(g, a) \o EachOf(g, b)
<1> DEFINE A(l) == [i \in DOMAIN l |-> g[l[i]]]
<1>1. A(a \o b) = A(a) \o A(b)
  <2> DEFINE x == A(a \o b)
             y == A(a) \o A(b)
  <2>0. A(a) \in Seq(Seq(R)) /\ A(b) \in Seq(Seq(R)) /\ a \o b \in Seq(S)
    <3>1. A(a) \in Seq(Seq(R))
      BY EachOfSeqs, ZenonT(60)
    <3>2. A(b) \in Seq(Seq(R))
      BY EachOfSeqs, ZenonT(60)
    <3>3. a \o b \in Seq(S)
      OBVIOUS
    <3> HIDE DEF A
    <3>4. QED BY <3>1, <3>2, <3>3
  <2>1. x \in Seq(Seq(R)) /\ y \in Seq(Seq(R))
    <3> HIDE DEF A
    <3>1. A(a \o b) \in Seq(Seq(R))
      BY <2>0, EachOfSeqs, SMTT(60) DEF A
    <3>2. QED BY <2>0, <3>1
  <2>2. Len(A(a)) = Len(a) /\ Len(A(b)) = Len(b) /\ Len(x) = Len(a) + Len(b)
    BY <2>0
  <2>3. Len(y) = Len(a) + Len(b)
    <3> HIDE DEF A
    <3>1. QED BY <2>0, <2>2, SMTT(60)
  <2>4. ASSUME NEW i \in 1..Len(a) + Len(b) PROVE x[i] = y[i]
    <3>0. x[i] = g[(a \o b)[i]]
      OBVIOUS
    <3>1. CASE i <= Len(a)
      <4>1. y[i] = A(a)[i]
        <5> HIDE DEF A
        <5>1. QED BY <2>0, <2>2, <3>1
      <4>2. i \in 1..Len(a) /\ (a \o b)[i] = a[i]
        BY <3>1
      <4>3. QED BY <3>0, <4>1, <4>2
    <3>2. CASE i > Len(a)
      <4> DEFINE j == i - Len(a)
      <4>1. j \in 1..Len(b) /\ (a \o b)[i] = b[j]
        BY <3>2
      <4>2. y[i] = A(b)[j]
        <5> HIDE DEF A
        <5> DEFINE u == A(a)
                   v == A(b)
        <5>1. u \in Seq(Seq(R)) /\ v \in Seq(Seq(R)) /\ i = Len(u) + j /\ j \in 1..Len(v)
          BY <2>0, <2>2, <4>1
        <5> HIDE DEF u, v, j
        <5>2. (u \o v)[Len(u) + j] = v[j]
          BY <5>1, SMTT(60)
        <5>3. QED BY <5>1, <5>2 DEF u, v
      <4> HIDE DEF j
      <4>3. A(b)[j] = g[b[j]]
        BY <4>1
      <4>4. QED BY <3>0, <4>1, <4>2, <4>3
    <3>3. QED BY <3>1, <3>2
  <2>5. x = y
    <3> HIDE DEF x, y
    <3>1. QED BY <2>1, <2>2, <2>3, <2>4
  <2>6. QED BY <2>5
<1>2. A(a) \in Seq(Seq(R)) /\ A(b) \in Seq(Seq(R))
  BY EachOfSeqs, ZenonT(60)
<1>3. FlattenSeq(A(a) \o A(b)) = FlattenSeq(A(a)) \o FlattenSeq(A(b))
  <2> HIDE DEF A
  <2>1. QED BY <1>2, FlattenConcat
<1>4. QED BY <1>1, <1>3 DEF EachOf

(* The facts about EachOf, together.                                       *)
LEMMA EachOfFacts ==
    ASSUME NEW S, NEW R, NEW g \in [S -> Seq(R)]
    PROVE  /\ EachOf(g, <<>>) = <<>>
           /\ \A x \in S : EachOf(g, <<x>>) = g[x]
           /\ \A a, b \in Seq(S) : EachOf(g, a \o b) = EachOf(g, a) \o EachOf(g, b)
           /\ \A a \in Seq(S) : EachOf(g, a) \in Seq(R)
<1>1. \A x \in S : EachOf(g, <<x>>) = g[x]
  BY EachOfOne
<1>2. \A a, b \in Seq(S) : EachOf(g, a \o b) = EachOf(g, a) \o EachOf(g, b)
  BY EachOfConcat
<1>3. \A a \in Seq(S) : EachOf(g, a) \in Seq(R)
  BY EachOfType
<1>4. QED BY <1>1, <1>2, <1>3, EachOfEmpty

(* A function that keeps every element of a list keeps the list.           *)
LEMMA EachOfAll ==
    ASSUME NEW S, NEW R, NEW g \in [S -> Seq(R)], NEW list \in Seq(S),
           \A i \in DOMAIN list : g[list[i]] = <<list[i]>>
    PROVE  EachOf(g, list) = list
<1> DEFINE P == {s \in Seq(S) : (\A i \in DOMAIN s : g[s[i]] = <<s[i]>>) => EachOf(g, s) = s}
<1>0. /\ \A x \in S : EachOf(g, <<x>>) = g[x]
      /\ \A a, b \in Seq(S) : EachOf(g, a \o b) = EachOf(g, a) \o EachOf(g, b)
  BY EachOfFacts, SMTT(60)
<1>1. <<>> \in P
  BY EachOfEmpty
<1>2. ASSUME NEW s \in Seq(S), NEW x \in S, s \in P PROVE s \o <<x>> \in P
  <2> DEFINE t == s \o <<x>>
  <2>0. t \in Seq(S) /\ <<x>> \in Seq(S)
    OBVIOUS
  <2> SUFFICES ASSUME \A i \in DOMAIN t : g[t[i]] = <<t[i]>> PROVE EachOf(g, t) = t
    BY <2>0
  <2>1. \A i \in DOMAIN s : i \in DOMAIN t /\ t[i] = s[i]
    OBVIOUS
  <2>2. Len(t) \in DOMAIN t /\ t[Len(t)] = x
    OBVIOUS
  <2>3. EachOf(g, s) = s
    BY <1>2, <2>1
  <2>4. g[x] = <<x>>
    BY <2>2
  <2>5. EachOf(g, <<x>>) = g[x]
    BY <1>0
  <2>6. EachOf(g, t) = EachOf(g, s) \o EachOf(g, <<x>>)
    BY <1>0, <2>0
  <2>7. QED BY <2>3, <2>4, <2>5, <2>6
<1>3. Seq(S) \subseteq P
  <2> HIDE DEF P
  <2>1. QED BY <1>1, <1>2, SeqInduction
<1>4. QED BY <1>3

(* A function that drops every element of a list drops the list.           *)
LEMMA EachOfNone ==
    ASSUME NEW S, NEW R, NEW g \in [S -> Seq(R)], NEW list \in Seq(S),
           \A i \in DOMAIN list : g[list[i]] = <<>>
    PROVE  EachOf(g, list) = <<>>
<1> DEFINE P == {s \in Seq(S) : (\A i \in DOMAIN s : g[s[i]] = <<>>) => EachOf(g, s) = <<>>}
<1>0. /\ \A x \in S : EachOf(g, <<x>>) = g[x]
      /\ \A a, b \in Seq(S) : EachOf(g, a \o b) = EachOf(g, a) \o EachOf(g, b)
  BY EachOfFacts, SMTT(60)
<1>1. <<>> \in P
  BY EachOfEmpty
<1>2. ASSUME NEW s \in Seq(S), NEW x \in S, s \in P PROVE s \o <<x>> \in P
  <2> DEFINE t == s \o <<x>>
  <2>0. t \in Seq(S) /\ <<x>> \in Seq(S)
    OBVIOUS
  <2> SUFFICES ASSUME \A i \in DOMAIN t : g[t[i]] = <<>> PROVE EachOf(g, t) = <<>>
    BY <2>0
  <2>1. \A i \in DOMAIN s : i \in DOMAIN t /\ t[i] = s[i]
    OBVIOUS
  <2>2. Len(t) \in DOMAIN t /\ t[Len(t)] = x
    OBVIOUS
  <2>3. EachOf(g, s) = <<>>
    BY <1>2, <2>1
  <2>4. g[x] = <<>>
    BY <2>2
  <2>5. EachOf(g, <<x>>) = g[x]
    BY <1>0
  <2>6. EachOf(g, t) = EachOf(g, s) \o EachOf(g, <<x>>)
    BY <1>0, <2>0
  <2>7. QED BY <2>3, <2>4, <2>5, <2>6
<1>3. Seq(S) \subseteq P
  <2> HIDE DEF P
  <2>1. QED BY <1>1, <1>2, SeqInduction
<1>4. QED BY <1>3

-----------------------------------------------------------------------------
(* IEs on the wire: what append_ie writes, iter_ies reads.                 *)

(* The octets of an IE.                                                    *)
Bytes == [ie \in IE |-> append_ie(ie.ie_type, ie.value)]
(* The octets of a list of IEs, as append_ie writes them one behind the    *)
(* other.                                                                  *)
Wire(ies) == EachOf(Bytes, ies)

(* An IE on the wire: its type, the length of its value, its value.        *)
LEMMA BytesFacts ==
    ASSUME NEW ie \in IE
    PROVE  /\ Bytes[ie] = <<ie.ie_type, Len(ie.value)>> \o ie.value
           /\ Bytes[ie] \in Seq(Nat) /\ Len(Bytes[ie]) = 2 + Len(ie.value)
           /\ Bytes[ie][1] = ie.ie_type /\ Bytes[ie][2] = Len(ie.value)
           /\ SubSeq(Bytes[ie], 3, 2 + Len(ie.value)) = ie.value
<1> DEFINE t == ie.ie_type
           v == ie.value
           h == <<t, Len(v)>>
<1>1. t \in Nat /\ v \in Seq(Nat) /\ Len(v) \in Nat
  BY DEF IE
<1>2. Bytes[ie] = h \o v
  BY DEF Bytes, append_ie
<1>3. h \in Seq(Nat) /\ Len(h) = 2 /\ h[1] = t /\ h[2] = Len(v)
  BY <1>1
<1> HIDE DEF h, t, v
<1>4. /\ h \o v \in Seq(Nat) /\ Len(h \o v) = 2 + Len(v) /\ (h \o v)[1] = h[1] /\ (h \o v)[2] = h[2]
  <2>1. /\ h \o v \in Seq(Nat) /\ Len(h \o v) = Len(h) + Len(v) /\ \A i \in 1..Len(h) : (h \o v)[i] = h[i]
    BY <1>1, <1>3, ConcatAt, ZenonT(60)
  <2>2. 1 \in 1..Len(h) /\ 2 \in 1..Len(h)
    BY <1>3
  <2>3. QED BY <1>3, <2>1, <2>2
<1>5. SubSeq(h \o v, 3, 2 + Len(v)) = v
  <2> DEFINE m == 3
             n == 2 + Len(v)
  <2>1. m = Len(h) + 1 /\ n = Len(h) + Len(v)
    BY <1>1, <1>3
  <2> HIDE DEF m, n
  <2>2. SubSeq(h \o v, m, n) = v
    <3>1. h \in Seq(Nat) /\ v \in Seq(Nat)
      BY <1>1, <1>3
    <3>2. QED BY <2>1, <3>1, DropFirst
  <2>3. QED BY <2>2 DEF m, n
<1>6. QED BY <1>2, <1>3, <1>4, <1>5 DEF h, t, v

(* Every IE has its octets.                                                *)
LEMMA BytesType == Bytes \in [IE -> Seq(Nat)]
<1>1. \A ie \in IE : Bytes[ie] \in Seq(Nat)
  BY BytesFacts
<1>2. Bytes = [ie \in IE |-> Bytes[ie]]
  BY DEF Bytes
<1>3. QED BY <1>1, <1>2

(* The facts about EachOf, for the octets of IEs.                          *)
LEMMA WireFacts ==
    /\ Wire(<<>>) = <<>>
    /\ \A x \in IE : Wire(<<x>>) = Bytes[x]
    /\ \A a, b \in Seq(IE) : Wire(a \o b) = Wire(a) \o Wire(b)
    /\ \A a \in Seq(IE) : Wire(a) \in Seq(Nat)
BY BytesType, EachOfFacts DEF Wire

(* iter_ies takes a whole IE off the front and goes on behind it.          *)
LEMMA IterCons ==
    ASSUME NEW ie \in IE, NEW rest \in Seq(Nat)
    PROVE  iter_ies(Bytes[ie] \o rest) = <<ie>> \o iter_ies(rest)
<1> DEFINE a == Bytes[ie]
           w == a \o rest
           n == Len(ie.value)
<1>1. /\ a \in Seq(Nat) /\ Len(a) = 2 + n /\ a[1] = ie.ie_type /\ a[2] = n
      /\ SubSeq(a, 3, 2 + n) = ie.value
  BY BytesFacts
<1>2. n \in Nat /\ ie = [ie_type |-> ie.ie_type, value |-> ie.value]
  BY DEF IE
<1> HIDE DEF a, n
<1>3. w \in Seq(Nat) /\ Len(w) = 2 + n + Len(rest) /\ Len(rest) \in Nat /\ w[1] = a[1] /\ w[2] = n
  <2>1. /\ w \in Seq(Nat) /\ Len(w) = Len(a) + Len(rest) /\ Len(rest) \in Nat
        /\ \A i \in 1..Len(a) : w[i] = a[i]
    BY <1>1, ConcatAt, ZenonT(60)
  <2>2. 1 \in 1..Len(a) /\ 2 \in 1..Len(a)
    BY <1>1, <1>2
  <2> HIDE DEF w
  <2>3. QED BY <1>1, <2>1, <2>2
<1>4. SubSeq(w, 3, 2 + n) = SubSeq(a, 3, 2 + n)
  <2>1. 2 + n \in Nat /\ 2 + n <= Len(a) /\ 3 <= (2 + n) + 1
    BY <1>1, <1>2
  <2>2. QED BY <1>1, <2>1, SubSeqLeft
<1> HIDE DEF w
<1>5. WholeAt(w, 1) /\ 1 \in 1..Len(w) + 1
  BY <1>2, <1>3 DEF WholeAt
<1>6. IeAt(w, 1) = ie
  <2>1. w[1] = ie.ie_type /\ w[1 + 1] = n /\ SubSeq(w, 1 + 2, 1 + 1 + n) = ie.value
    BY <1>1, <1>3, <1>4
  <2>2. QED BY <1>2, <2>1 DEF IeAt
<1>7. After(w, 1) = Len(a) + 1
  BY <1>1, <1>2, <1>3, SMTT(60) DEF After
<1>8. Iter(w)[1] = <<IeAt(w, 1)>> \o Iter(w)[After(w, 1)]
  BY <1>3, <1>5, IterAt
<1>9. Iter(w)[Len(a) + 1] = Iter(rest)[1]
  BY <1>1, IterShift DEF w
<1>10. QED BY <1>6, <1>7, <1>8, <1>9, IterIes DEF w, a

(* iter_ies stops at octets that are no whole IE.                          *)
LEMMA IterShort ==
    ASSUME NEW b \in Seq(Nat), ~WholeAt(b, 1)
    PROVE  iter_ies(b) = <<>>
<1>1. 1 \in 1..Len(b) + 1
  OBVIOUS
<1>2. QED BY <1>1, IterAt, IterIes

(* iter_ies of nothing yields nothing.                                     *)
LEMMA IterEmpty == iter_ies(<<>>) = <<>>
<1>1. <<>> \in Seq(Nat) /\ ~WholeAt(<<>>, 1)
  BY DEF WholeAt
<1>2. QED BY <1>1, IterShort

(* iter_ies reads back the IEs that append_ie wrote, all and in order.     *)
LEMMA IterWire ==
    ASSUME NEW ies \in Seq(IE)
    PROVE  iter_ies(Wire(ies)) = ies
<1> DEFINE P == {s \in Seq(IE) : iter_ies(Wire(s)) = s}
<1>1. <<>> \in P
  BY WireFacts, IterEmpty
<1>2. ASSUME NEW s \in Seq(IE), NEW x \in IE, s \in P PROVE <<x>> \o s \in P
  <2>1. <<x>> \in Seq(IE) /\ <<x>> \o s \in Seq(IE)
    OBVIOUS
  <2>2. Wire(<<x>> \o s) = Bytes[x] \o Wire(s) /\ Wire(s) \in Seq(Nat)
    BY <2>1, WireFacts
  <2>3. iter_ies(Bytes[x] \o Wire(s)) = <<x>> \o iter_ies(Wire(s))
    BY <2>2, IterCons
  <2>4. iter_ies(Wire(s)) = s
    BY <1>2
  <2>5. QED BY <2>1, <2>2, <2>3, <2>4
<1>3. Seq(IE) \subseteq P
  <2> HIDE DEF P
  <2>1. QED BY <1>1, <1>2, FrontInduction
<1>4. QED BY <1>3

(* Of a body cut at any octet, iter_ies reads a beginning of its IEs:      *)
(* never a part of one, never another.                                     *)
LEMMA IterCut ==
    ASSUME NEW ies \in Seq(IE), NEW n \in 0..Len(Wire(ies))
    PROVE  \E p, q \in Seq(IE) : ies = p \o q /\ iter_ies(SubSeq(Wire(ies), 1, n)) = p
<1> DEFINE Cuts(s) == \A m \in Nat : m <= Len(Wire(s)) =>
               \E p, q \in Seq(IE) : s = p \o q /\ iter_ies(SubSeq(Wire(s), 1, m)) = p
           P == {s \in Seq(IE) : Cuts(s)}
<1>0. \A s \in Seq(IE) : Wire(s) \in Seq(Nat) /\ Len(Wire(s)) \in Nat
  <2>1. \A s \in Seq(IE) : Wire(s) \in Seq(Nat)
    BY WireFacts
  <2>2. QED BY <2>1
<1>e. <<>> \in Seq(IE)
  OBVIOUS
<1>1. <<>> \in P
  <2> SUFFICES ASSUME NEW m \in Nat, m <= Len(Wire(<<>>))
               PROVE  \E p, q \in Seq(IE) : <<>> = p \o q /\ iter_ies(SubSeq(Wire(<<>>), 1, m)) = p
    BY <1>e
  <2>1. SubSeq(Wire(<<>>), 1, m) = <<>>
    BY WireFacts
  <2>2. <<>> = <<>> \o <<>>
    OBVIOUS
  <2>3. QED BY <2>1, <2>2, <1>e, IterEmpty
<1>2. ASSUME NEW s \in Seq(IE), NEW x \in IE, s \in P PROVE <<x>> \o s \in P
  <2>1. <<x>> \in Seq(IE) /\ <<x>> \o s \in Seq(IE)
    OBVIOUS
  <2> DEFINE t == <<x>> \o s
             a == Bytes[x]
             r == Wire(s)
  <2>2. Wire(t) = a \o r /\ r \in Seq(Nat) /\ a \in Seq(Nat)
    BY <2>1, WireFacts, BytesFacts
  <2>s. Cuts(s)
    <3> HIDE DEF Cuts
    <3>1. QED BY <1>2
  <2> SUFFICES ASSUME NEW m \in Nat, m <= Len(Wire(t))
               PROVE  \E p, q \in Seq(IE) : t = p \o q /\ iter_ies(SubSeq(Wire(t), 1, m)) = p
    <3>1. Cuts(t) => t \in P
      <4> HIDE DEF Cuts
      <4>1. QED BY <2>1
    <3> HIDE DEF P
    <3>2. QED BY <3>1
  <2> HIDE DEF a, r
  <2>3. CASE m >= Len(a)
    <3> DEFINE j == m - Len(a)
    <3>1. j \in Nat /\ j <= Len(r)
      BY <2>2, <2>3
    <3>2. SubSeq(a \o r, 1, m) = a \o SubSeq(r, 1, j) /\ SubSeq(r, 1, j) \in Seq(Nat)
      <4>1. m = Len(a) + j /\ Len(a) \in Nat
        BY <2>2, <2>3
      <4> HIDE DEF j
      <4>2. \A i \in Nat : i <= Len(r) => /\ SubSeq(a \o r, 1, Len(a) + i) = a \o SubSeq(r, 1, i)
                                          /\ SubSeq(r, 1, i) \in Seq(Nat)
        BY <2>2, SubSeqOver
      <4>3. QED BY <3>1, <4>1, <4>2
    <3> HIDE DEF j
    <3>3. PICK p, q \in Seq(IE) : s = p \o q /\ iter_ies(SubSeq(r, 1, j)) = p
      BY <2>s, <3>1 DEF r
    <3>4. iter_ies(a \o SubSeq(r, 1, j)) = <<x>> \o p
      BY <3>2, <3>3, IterCons DEF a
    <3>5. <<x>> \o p \in Seq(IE) /\ t = (<<x>> \o p) \o q
      BY <3>3, SMTT(60)
    <3>6. QED BY <2>2, <3>2, <3>4, <3>5
  <2>4. CASE m < Len(a)
    <3> DEFINE b == SubSeq(a \o r, 1, m)
    <3>1. /\ Len(a) = 2 + Len(x.value) /\ a[2] = Len(x.value) /\ Len(x.value) \in Nat
      <4>1. Len(x.value) \in Nat
        BY DEF IE
      <4>2. QED BY <4>1, BytesFacts DEF a
    <3>2. b \in Seq(Nat) /\ Len(b) = m /\ (m >= 2 => b[2] = a[2])
      <4>1. b = SubSeq(a, 1, m)
        BY <2>2, <2>4, SubSeqLeft
      <4>2. SubSeq(a, 1, m) \in Seq(Nat) /\ Len(SubSeq(a, 1, m)) = m /\ (m >= 2 => SubSeq(a, 1, m)[2] = a[2])
        BY <2>2, <2>4, SMTT(60)
      <4>3. QED BY <4>1, <4>2
    <3> HIDE DEF b
    <3>3. ~WholeAt(b, 1)
      BY <2>4, <3>1, <3>2 DEF WholeAt
    <3>4. iter_ies(b) = <<>>
      BY <3>2, <3>3, IterShort
    <3>5. t = <<>> \o t
      BY <2>1
    <3>6. iter_ies(SubSeq(Wire(t), 1, m)) = <<>>
      BY <2>2, <3>4 DEF b
    <3> HIDE DEF t
    <3>7. t \in Seq(IE)
      BY <2>1 DEF t
    <3>8. WITNESS <<>> \in Seq(IE), t \in Seq(IE)
    <3>9. QED BY <3>5, <3>6
  <2>5. Len(a) \in Nat
    BY <2>2
  <2>6. m >= Len(a) \/ m < Len(a)
    BY <2>5
  <2> HIDE DEF t
  <2>7. QED BY <2>3, <2>4, <2>6
<1>3. Seq(IE) \subseteq P
  <2> HIDE DEF P
  <2>1. QED BY <1>1, <1>2, FrontInduction
<1>4. Cuts(ies)
  <2> HIDE DEF Cuts
  <2>1. QED BY <1>3
<1>5. n \in Nat /\ n <= Len(Wire(ies))
  BY <1>0
<1>6. QED BY <1>4, <1>5

(* Concatenation as an operator of its own, so that equations between      *)
(* concatenations are read as equations and not element by element.        *)
Cat(a, b) == a \o b

(* The laws of concatenation.                                              *)
LEMMA CatFacts ==
    ASSUME NEW S
    PROVE  /\ \A a, b \in Seq(S) : Cat(a, b) \in Seq(S) /\ Len(Cat(a, b)) = Len(a) + Len(b)
           /\ \A a \in Seq(S) : Cat(a, <<>>) = a /\ Cat(<<>>, a) = a
           /\ \A a, b, c \in Seq(S) : Cat(Cat(a, b), c) = Cat(a, Cat(b, c))
<1>1. ASSUME NEW a \in Seq(S), NEW b \in Seq(S) PROVE Cat(a, b) \in Seq(S) /\ Len(Cat(a, b)) = Len(a) + Len(b)
  BY DEF Cat
<1>2. ASSUME NEW a \in Seq(S) PROVE Cat(a, <<>>) = a /\ Cat(<<>>, a) = a
  BY DEF Cat
<1>3. ASSUME NEW a \in Seq(S), NEW b \in Seq(S), NEW c \in Seq(S) PROVE Cat(Cat(a, b), c) = Cat(a, Cat(b, c))
  BY DEF Cat
<1>4. QED BY <1>1, <1>2, <1>3

(* A concatenation is empty only when both operands are.                   *)
LEMMA CatEmpty ==
    ASSUME NEW S, NEW a \in Seq(S), NEW b \in Seq(S), Cat(a, b) = <<>>
    PROVE  a = <<>> /\ b = <<>>
<1>1. Len(a) + Len(b) = 0 /\ Len(a) \in Nat /\ Len(b) \in Nat
  <2>1. Len(Cat(a, b)) = Len(a) + Len(b)
    BY CatFacts
  <2>2. Len(<<>>) = 0 /\ Len(a) \in Nat /\ Len(b) \in Nat
    OBVIOUS
  <2>3. QED BY <2>1, <2>2
<1>2. QED BY <1>1

(* FlattenConcat, for Cat.                                                 *)
LEMMA FlattenCat ==
    ASSUME NEW S, NEW s \in Seq(Seq(S)), NEW t \in Seq(Seq(S))
    PROVE  FlattenSeq(Cat(s, t)) = Cat(FlattenSeq(s), FlattenSeq(t))
BY FlattenConcat DEF Cat

-----------------------------------------------------------------------------
(* The IEs of one type among others.                                       *)

(* What the filter for a type makes of one IE.                             *)
KeepType(T) == [ie \in IE |-> If(ie.ie_type = T, <<ie>>)]

(* The filter gives each IE a list of IEs.                                 *)
LEMMA KeepTypeType == ASSUME NEW T PROVE KeepType(T) \in [IE -> Seq(IE)]
<1>1. \A ie \in IE : <<ie>> \in Seq(IE) /\ <<>> \in Seq(IE)
  OBVIOUS
<1>2. \A ie \in IE : If(ie.ie_type = T, <<ie>>) \in Seq(IE)
  BY <1>1 DEF If
<1>3. QED BY <1>2 DEF KeepType

(* OfType keeps the IEs of one type.                                       *)
LEMMA OfTypeIsEach ==
    ASSUME NEW ies \in Seq(IE), NEW T
    PROVE  OfType(ies, T) = EachOf(KeepType(T), ies)
<1> DEFINE a == [i \in DOMAIN ies |-> If(ies[i].ie_type = T, <<ies[i]>>)]
           b == [i \in DOMAIN ies |-> KeepType(T)[ies[i]]]
<1>1. \A i \in DOMAIN ies : ies[i] \in IE
  OBVIOUS
<1>2. a = b
  BY <1>1 DEF KeepType
<1>3. QED BY <1>2 DEF OfType, Keep, Each, EachOf

(* OfType, built up from single IEs and concatenations.                    *)
LEMMA OfTypeFacts ==
    ASSUME NEW T
    PROVE  /\ OfType(<<>>, T) = <<>>
           /\ \A x \in IE : OfType(<<x>>, T) = If(x.ie_type = T, <<x>>)
           /\ \A a, b \in Seq(IE) : OfType(Cat(a, b), T) = Cat(OfType(a, T), OfType(b, T))
           /\ \A a \in Seq(IE) : OfType(a, T) \in Seq(IE)
<1> DEFINE g == KeepType(T)
<1>1. g \in [IE -> Seq(IE)] /\ \A x \in IE : g[x] = If(x.ie_type = T, <<x>>)
  BY KeepTypeType DEF KeepType
<1>2. \A a \in Seq(IE) : OfType(a, T) = EachOf(g, a)
  BY OfTypeIsEach
<1> HIDE DEF g
<1>3. /\ EachOf(g, <<>>) = <<>>
      /\ \A x \in IE : EachOf(g, <<x>>) = g[x]
      /\ \A a, b \in Seq(IE) : EachOf(g, a \o b) = EachOf(g, a) \o EachOf(g, b)
      /\ \A a \in Seq(IE) : EachOf(g, a) \in Seq(IE)
  BY <1>1, EachOfFacts
<1>4. OfType(<<>>, T) = <<>>
  <2>1. <<>> \in Seq(IE)
    OBVIOUS
  <2>2. QED BY <1>2, <1>3, <2>1
<1>5. \A x \in IE : OfType(<<x>>, T) = If(x.ie_type = T, <<x>>)
  <2>1. \A x \in IE : <<x>> \in Seq(IE)
    OBVIOUS
  <2>2. QED BY <1>1, <1>2, <1>3, <2>1
<1>6. ASSUME NEW a \in Seq(IE), NEW b \in Seq(IE)
      PROVE  OfType(Cat(a, b), T) = Cat(OfType(a, T), OfType(b, T))
  <2>1. a \o b \in Seq(IE)
    OBVIOUS
  <2>2. OfType(a \o b, T) = EachOf(g, a) \o EachOf(g, b)
    BY <1>2, <1>3, <2>1
  <2>3. QED BY <1>2, <2>2 DEF Cat
<1>7. \A a \in Seq(IE) : OfType(a, T) \in Seq(IE)
  BY <1>2, <1>3
<1>8. QED BY <1>4, <1>5, <1>6, <1>7

(* OfType of two lists, one behind the other.                              *)
LEMMA OfTypeConcat ==
    ASSUME NEW a \in Seq(IE), NEW b \in Seq(IE), NEW T
    PROVE  OfType(Cat(a, b), T) = Cat(OfType(a, T), OfType(b, T))
BY OfTypeFacts, ZenonT(60)

(* OfType of three lists, one behind the other.                            *)
LEMMA OfTypeAround ==
    ASSUME NEW a \in Seq(IE), NEW b \in Seq(IE), NEW c \in Seq(IE), NEW T
    PROVE  OfType(Cat(Cat(a, b), c), T) = Cat(Cat(OfType(a, T), OfType(b, T)), OfType(c, T))
<1>1. Cat(a, b) \in Seq(IE)
  BY CatFacts
<1>2. QED BY <1>1, OfTypeConcat

(* Every IE of the list has type T.                                        *)
AllOf(ies, T) == \A i \in DOMAIN ies : ies[i].ie_type = T
(* No IE of the list has type T.                                           *)
NoneOf(ies, T) == \A i \in DOMAIN ies : ies[i].ie_type # T

(* A list of IEs of one type is kept whole.                                *)
LEMMA OfTypeAll ==
    ASSUME NEW ies \in Seq(IE), NEW T, AllOf(ies, T)
    PROVE  OfType(ies, T) = ies
<1> DEFINE g == KeepType(T)
<1>1. \A i \in DOMAIN ies : ies[i] \in IE
  OBVIOUS
<1>2. \A i \in DOMAIN ies : g[ies[i]] = <<ies[i]>>
  BY <1>1 DEF KeepType, AllOf, If
<1>3. g \in [IE -> Seq(IE)]
  BY KeepTypeType
<1> HIDE DEF g
<1>4. EachOf(g, ies) = ies
  BY <1>2, <1>3, EachOfAll
<1>5. QED BY <1>4, OfTypeIsEach DEF g

(* A list without a type leaves nothing of it.                             *)
LEMMA OfTypeNone ==
    ASSUME NEW ies \in Seq(IE), NEW T, NoneOf(ies, T)
    PROVE  OfType(ies, T) = <<>>
<1> DEFINE g == KeepType(T)
<1>1. \A i \in DOMAIN ies : ies[i] \in IE
  OBVIOUS
<1>2. \A i \in DOMAIN ies : g[ies[i]] = <<>>
  BY <1>1 DEF KeepType, NoneOf, If
<1>3. g \in [IE -> Seq(IE)]
  BY KeepTypeType
<1> HIDE DEF g
<1>4. EachOf(g, ies) = <<>>
  BY <1>2, <1>3, EachOfNone
<1>5. QED BY <1>4, OfTypeIsEach DEF g

(* A type occurs in a list when an IE of it is found.                      *)
LEMMA TypesFacts ==
    ASSUME NEW ies \in Seq(IE), NEW T
    PROVE  T \in Types(ies) <=> OfType(ies, T) # <<>>
<1>1. ASSUME T \notin Types(ies) PROVE OfType(ies, T) = <<>>
  <2>1. NoneOf(ies, T)
    BY <1>1 DEF Types, NoneOf
  <2>2. QED BY <2>1, OfTypeNone
<1>2. ASSUME T \in Types(ies) PROVE OfType(ies, T) # <<>>
  <2>1. PICK i \in DOMAIN ies : ies[i].ie_type = T
    BY <1>2 DEF Types
  <2> DEFINE x == ies[i]
  <2>2. i \in 1..Len(ies) /\ x \in IE /\ <<x>> \in Seq(IE) /\ x.ie_type = T
    BY <2>1
  <2> DEFINE p == Before(ies, i)
             q == Behind(ies, i)
             o == <<x>>
  <2>3. p \in Seq(IE) /\ q \in Seq(IE) /\ ies = Cat(Cat(p, o), q)
    BY <2>2, SplitAt DEF Cat
  <2>4. o \in Seq(IE) /\ o # <<>> /\ OfType(o, T) = o
    BY <2>2, OfTypeFacts DEF If
  <2> HIDE DEF p, q, o
  <2>5. OfType(ies, T) = Cat(Cat(OfType(p, T), o), OfType(q, T))
    BY <2>3, <2>4, OfTypeAround
  <2>6. OfType(p, T) \in Seq(IE) /\ OfType(q, T) \in Seq(IE)
    BY <2>3, OfTypeFacts
  <2>7. Cat(OfType(p, T), o) \in Seq(IE)
    BY <2>4, <2>6, CatFacts
  <2>8. QED BY <2>4, <2>5, <2>6, <2>7, CatEmpty
<1>3. QED BY <1>1, <1>2

-----------------------------------------------------------------------------

(* A list of IEs made of segments.                                         *)
LEMMA NoneInSegments ==
    ASSUME NEW segs \in Seq(Seq(IE)), NEW T, \A k \in DOMAIN segs : OfType(segs[k], T) = <<>>
    PROVE  OfType(FlattenSeq(segs), T) = <<>>
<1> DEFINE P == {s \in Seq(Seq(IE)) : (\A k \in DOMAIN s : OfType(s[k], T) = <<>>) => OfType(FlattenSeq(s), T) = <<>>}
<1>1. <<>> \in P
  <2>1. OfType(FlattenSeq(<<>>), T) = <<>>
    BY FlattenEmpty, OfTypeFacts
  <2>2. QED BY <2>1
<1>2. ASSUME NEW s \in Seq(Seq(IE)), NEW x \in Seq(IE), s \in P PROVE s \o <<x>> \in P
  <2> DEFINE t == s \o <<x>>
  <2>0. t \in Seq(Seq(IE))
    OBVIOUS
  <2> SUFFICES ASSUME \A k \in DOMAIN t : OfType(t[k], T) = <<>> PROVE OfType(FlattenSeq(t), T) = <<>>
    BY <2>0
  <2>1. \A k \in DOMAIN s : k \in DOMAIN t /\ t[k] = s[k]
    OBVIOUS
  <2>2. Len(t) \in DOMAIN t /\ t[Len(t)] = x
    OBVIOUS
  <2>3. OfType(FlattenSeq(s), T) = <<>>
    BY <1>2, <2>1
  <2>4. OfType(x, T) = <<>>
    BY <2>2
  <2>5. FlattenSeq(t) = Cat(FlattenSeq(s), x)
    BY FlattenAppend DEF Cat
  <2>6. FlattenSeq(s) \in Seq(IE)
    BY FlattenType
  <2> HIDE DEF t
  <2>7. OfType(FlattenSeq(t), T) = Cat(<<>>, <<>>)
    BY <2>3, <2>4, <2>5, <2>6, OfTypeConcat
  <2>8. Cat(<<>>, <<>>) = <<>>
    BY DEF Cat
  <2>9. QED BY <2>7, <2>8
<1>3. Seq(Seq(IE)) \subseteq P
  <2> HIDE DEF P
  <2>1. QED BY <1>1, <1>2, SeqInduction
<1>4. QED BY <1>3

(* When only the k-th segment holds a type, its IEs are those of the list. *)
LEMMA SegmentOfType ==
    ASSUME NEW segs \in Seq(Seq(IE)), NEW T, NEW k \in DOMAIN segs,
           \A j \in DOMAIN segs : j # k => OfType(segs[j], T) = <<>>
    PROVE  OfType(FlattenSeq(segs), T) = OfType(segs[k], T)
<1> DEFINE x == segs[k]
           o == <<x>>
           p == Before(segs, k)
           q == Behind(segs, k)
<1>1. k \in 1..Len(segs) /\ x \in Seq(IE) /\ o \in Seq(Seq(IE)) /\ FlattenSeq(o) = x
  BY FlattenOne
<1>2. p \in Seq(Seq(IE)) /\ q \in Seq(Seq(IE)) /\ segs = Cat(Cat(p, o), q)
  BY <1>1, SplitAt DEF Cat
<1>3. /\ \A j \in DOMAIN p : \E m \in DOMAIN segs : m # k /\ p[j] = segs[m]
      /\ \A j \in DOMAIN q : \E m \in DOMAIN segs : m # k /\ q[j] = segs[m]
  BY Elsewhere
<1> HIDE DEF x, o, p, q
<1>4. \A j \in DOMAIN p : OfType(p[j], T) = <<>>
  BY <1>3
<1>5. \A j \in DOMAIN q : OfType(q[j], T) = <<>>
  BY <1>3
<1>6. OfType(FlattenSeq(p), T) = <<>> /\ OfType(FlattenSeq(q), T) = <<>>
  BY <1>2, <1>4, <1>5, NoneInSegments
<1>7. FlattenSeq(segs) = Cat(Cat(FlattenSeq(p), x), FlattenSeq(q))
  <2>1. Cat(p, o) \in Seq(Seq(IE))
    BY <1>1, <1>2, CatFacts
  <2>2. FlattenSeq(Cat(p, o)) = Cat(FlattenSeq(p), x)
    BY <1>1, <1>2, FlattenCat
  <2>3. FlattenSeq(Cat(Cat(p, o), q)) = Cat(FlattenSeq(Cat(p, o)), FlattenSeq(q))
    BY <1>2, <2>1, FlattenCat
  <2>4. QED BY <1>2, <2>2, <2>3
<1>8. FlattenSeq(p) \in Seq(IE) /\ FlattenSeq(q) \in Seq(IE)
  BY <1>2, FlattenType
<1>9. OfType(FlattenSeq(segs), T) = Cat(Cat(<<>>, OfType(x, T)), <<>>)
  BY <1>1, <1>6, <1>7, <1>8, OfTypeAround
<1>10. OfType(x, T) \in Seq(IE)
  BY <1>1, OfTypeFacts
<1>11. Cat(Cat(<<>>, OfType(x, T)), <<>>) = OfType(x, T)
  BY <1>10, CatFacts
<1>12. QED BY <1>9, <1>11 DEF x

(* Of two splits of one sequence, one lies in front of the other.          *)
LEMMA TwoSplits ==
    ASSUME NEW S, NEW p \in Seq(S), NEW q \in Seq(S), NEW a \in Seq(S), NEW b \in Seq(S),
           Cat(p, q) = Cat(a, b)
    PROVE  \/ \E c \in Seq(S) : a = Cat(p, c)
           \/ \E c \in Seq(S) : p = Cat(a, c) /\ b = Cat(c, q)
<1> DEFINE w == p \o q
<1>0. Len(p) \in Nat /\ Len(q) \in Nat /\ Len(a) \in Nat /\ Len(b) \in Nat
  OBVIOUS
<1>1. w \in Seq(S) /\ Len(w) = Len(p) + Len(q) /\ Len(w) = Len(a) + Len(b)
  <2>1. w = a \o b
    BY DEF Cat
  <2>2. w \in Seq(S) /\ Len(w) = Len(p) + Len(q)
    OBVIOUS
  <2>3. Len(a \o b) = Len(a) + Len(b)
    OBVIOUS
  <2> HIDE DEF w
  <2>4. QED BY <2>1, <2>2, <2>3
<1>2. /\ \A i \in 1..Len(p) : w[i] = p[i]
      /\ \A i \in 1..Len(q) : w[Len(p) + i] = q[i]
  <2>1. \A y, z \in Seq(S) : /\ \A i \in 1..Len(y) : (y \o z)[i] = y[i]
                            /\ \A i \in 1..Len(z) : (y \o z)[Len(y) + i] = z[i]
    <3>1. ASSUME NEW y \in Seq(S), NEW z \in Seq(S) PROVE \A i \in 1..Len(y) : (y \o z)[i] = y[i]
      OBVIOUS
    <3>2. ASSUME NEW y \in Seq(S), NEW z \in Seq(S) PROVE \A i \in 1..Len(z) : (y \o z)[Len(y) + i] = z[i]
      OBVIOUS
    <3>3. QED BY <3>1, <3>2
  <2>2. QED BY <2>1
<1>3. /\ \A i \in 1..Len(a) : w[i] = a[i]
      /\ \A i \in 1..Len(b) : w[Len(a) + i] = b[i]
  <2>1. w = a \o b
    BY DEF Cat
  <2>2. /\ \A i \in 1..Len(a) : (a \o b)[i] = a[i]
        /\ \A i \in 1..Len(b) : (a \o b)[Len(a) + i] = b[i]
    OBVIOUS
  <2>3. QED BY <2>1, <2>2
<1> HIDE DEF w
<1>4. CASE Len(p) <= Len(a)
  <2> DEFINE c == SubSeq(a, Len(p) + 1, Len(a))
  <2>1. c \in Seq(S) /\ Len(c) = Len(a) - Len(p) /\ \A i \in 1..Len(c) : c[i] = a[Len(p) + i]
    BY <1>0, <1>4, SMTT(60)
  <2> HIDE DEF c
  <2>2. Len(p \o c) = Len(a) /\ p \o c \in Seq(S)
    BY <1>0, <2>1
  <2>3. ASSUME NEW i \in 1..Len(a) PROVE a[i] = (p \o c)[i]
    <3>1. CASE i <= Len(p)
      <4>1. i \in 1..Len(p)
        BY <1>0, <3>1
      <4>2. (p \o c)[i] = p[i]
        BY <2>1, <4>1
      <4>3. QED BY <1>2, <1>3, <4>1, <4>2
    <3>2. CASE i > Len(p)
      <4> DEFINE j == i - Len(p)
      <4>1. j \in 1..Len(c) /\ i = Len(p) + j
        BY <1>0, <2>1, <3>2
      <4> HIDE DEF j
      <4>2. (p \o c)[Len(p) + j] = c[j]
        BY <2>1, <4>1
      <4>3. QED BY <2>1, <4>1, <4>2
    <3>3. i <= Len(p) \/ i > Len(p)
      BY <1>0
    <3>4. QED BY <3>1, <3>2, <3>3
  <2>4. a = Cat(p, c)
    BY <2>2, <2>3, SameSeq DEF Cat
  <2>5. QED BY <2>1, <2>4
<1>5. CASE Len(p) > Len(a)
  <2> DEFINE c == SubSeq(p, Len(a) + 1, Len(p))
  <2>1. c \in Seq(S) /\ Len(c) = Len(p) - Len(a) /\ \A i \in 1..Len(c) : c[i] = p[Len(a) + i]
    BY <1>0, <1>5
  <2> HIDE DEF c
  <2>2. Len(a \o c) = Len(p) /\ a \o c \in Seq(S)
    BY <1>0, <2>1
  <2>3. ASSUME NEW i \in 1..Len(p) PROVE p[i] = (a \o c)[i]
    <3>1. CASE i <= Len(a)
      <4>1. i \in 1..Len(a)
        BY <1>0, <3>1
      <4>2. (a \o c)[i] = a[i]
        BY <2>1, <4>1
      <4>3. QED BY <1>2, <1>3, <4>1, <4>2
    <3>2. CASE i > Len(a)
      <4> DEFINE j == i - Len(a)
      <4>1. j \in 1..Len(c) /\ i = Len(a) + j
        BY <1>0, <2>1, <3>2
      <4> HIDE DEF j
      <4>2. (a \o c)[Len(a) + j] = c[j]
        BY <2>1, <4>1
      <4>3. QED BY <2>1, <4>1, <4>2
    <3>3. i <= Len(a) \/ i > Len(a)
      BY <1>0
    <3>4. QED BY <3>1, <3>2, <3>3
  <2>4. p = Cat(a, c)
    BY <2>2, <2>3, SameSeq DEF Cat
  <2>5. b = Cat(c, q)
    <3>0. Cat(a, Cat(c, q)) = Cat(a, b)
      <4>1. Cat(a, Cat(c, q)) = Cat(Cat(a, c), q)
        BY <2>1, CatFacts
      <4>2. QED BY <2>4, <4>1
    <3>1. Cat(c, q) \in Seq(S)
      BY <2>1, CatFacts
    <3>2. \A y, z \in Seq(S) : Cat(a, y) = Cat(a, z) => y = z
      <4> SUFFICES ASSUME NEW y \in Seq(S), NEW z \in Seq(S), Cat(a, y) = Cat(a, z) PROVE y = z
        OBVIOUS
      <4>0. a \o y = a \o z
        BY DEF Cat
      <4>1. Len(Cat(a, y)) = Len(a) + Len(y) /\ Len(Cat(a, z)) = Len(a) + Len(z) /\ Len(y) \in Nat /\ Len(z) \in Nat
        <5>1. Len(Cat(a, y)) = Len(a) + Len(y)
          BY CatFacts
        <5>2. Len(Cat(a, z)) = Len(a) + Len(z)
          BY CatFacts
        <5>3. Len(y) \in Nat /\ Len(z) \in Nat
          OBVIOUS
        <5>4. QED BY <5>1, <5>2, <5>3, Zenon
      <4>2. Len(y) = Len(z)
        BY <1>0, <4>1
      <4>3. \A i \in 1..Len(y) : (a \o y)[Len(a) + i] = y[i]
        OBVIOUS
      <4>4. \A i \in 1..Len(z) : (a \o z)[Len(a) + i] = z[i]
        OBVIOUS
      <4>5. \A i \in 1..Len(y) : y[i] = z[i]
        BY <4>0, <4>2, <4>3, <4>4
      <4>6. QED BY <4>2, <4>5, SameSeq
    <3>3. QED BY <3>0, <3>1, <3>2
  <2>6. QED BY <2>1, <2>4, <2>5
<1>6. Len(p) <= Len(a) \/ Len(p) > Len(a)
  BY <1>0
<1>7. QED BY <1>4, <1>5, <1>6

(* A beginning that reaches type U holds every IE of the type T before it. *)
LEMMA InOrder ==
    ASSUME NEW p \in Seq(IE), NEW q \in Seq(IE), NEW a \in Seq(IE), NEW b \in Seq(IE),
           Cat(p, q) = Cat(a, b), NEW T, NEW U, OfType(a, U) = <<>>, OfType(b, T) = <<>>,
           OfType(p, U) # <<>>
    PROVE  OfType(p, T) = OfType(a, T)
<1>0. \/ \E c \in Seq(IE) : a = Cat(p, c)
      \/ \E c \in Seq(IE) : p = Cat(a, c) /\ b = Cat(c, q)
  BY TwoSplits, SMTT(60)
<1>1. CASE \E c \in Seq(IE) : a = Cat(p, c)
  <2>1. PICK c \in Seq(IE) : a = Cat(p, c)
    BY <1>1
  <2>2. Cat(OfType(p, U), OfType(c, U)) = <<>>
    BY <2>1, OfTypeConcat
  <2>3. OfType(p, U) \in Seq(IE) /\ OfType(c, U) \in Seq(IE)
    BY <2>1, OfTypeFacts
  <2>4. QED BY <2>2, <2>3, CatEmpty
<1>2. CASE \E c \in Seq(IE) : p = Cat(a, c) /\ b = Cat(c, q)
  <2>1. PICK c \in Seq(IE) : p = Cat(a, c) /\ b = Cat(c, q)
    BY <1>2
  <2>2. Cat(OfType(c, T), OfType(q, T)) = <<>>
    BY <2>1, OfTypeConcat
  <2>3. OfType(c, T) \in Seq(IE) /\ OfType(q, T) \in Seq(IE) /\ OfType(a, T) \in Seq(IE)
    BY <2>1, OfTypeFacts
  <2>4. OfType(c, T) = <<>>
    BY <2>2, <2>3, CatEmpty
  <2>5. OfType(p, T) = Cat(OfType(a, T), OfType(c, T))
    BY <2>1, OfTypeConcat
  <2>6. Cat(OfType(a, T), <<>>) = OfType(a, T)
    BY <2>3, CatFacts
  <2>7. QED BY <2>4, <2>5, <2>6
<1>3. QED BY <1>0, <1>1, <1>2

-----------------------------------------------------------------------------
(* Groups: the IEs of a grouped IE, or of a message, type by type in the   *)
(* order in which the builder writes them.                                 *)

(* One IE.                                                                 *)
Ie(T, v) == [ie_type |-> T, value |-> v]
(* One IE of type T for every value.                                       *)
Listed(T, vs) == [i \in DOMAIN vs |-> Ie(T, vs[i])]
(* The octets an IE may carry.                                             *)
Values == Seq(Nat)

(* The fields and the octets of an IE.                                     *)
LEMMA IeFacts ==
    ASSUME NEW T \in Nat, NEW v \in Values
    PROVE  /\ Ie(T, v) \in IE /\ Ie(T, v).ie_type = T /\ Ie(T, v).value = v
           /\ Bytes[Ie(T, v)] = append_ie(T, v)
BY DEF Ie, IE, Bytes, Values

(* The IEs of a list of values.                                            *)
LEMMA ListedFacts ==
    ASSUME NEW T \in Nat, NEW vs \in Seq(Values)
    PROVE  /\ Listed(T, vs) \in Seq(IE) /\ Len(Listed(T, vs)) = Len(vs)
           /\ DOMAIN Listed(T, vs) = DOMAIN vs
           /\ \A i \in DOMAIN vs : Listed(T, vs)[i] = Ie(T, vs[i]) /\ vs[i] \in Values
           /\ AllOf(Listed(T, vs), T)
           /\ \A U : U # T => NoneOf(Listed(T, vs), U)
<1>1. DOMAIN vs = 1..Len(vs) /\ Len(vs) \in Nat /\ \A i \in DOMAIN vs : vs[i] \in Values
  OBVIOUS
<1>2. \A i \in DOMAIN vs : Ie(T, vs[i]) \in IE /\ Ie(T, vs[i]).ie_type = T
  BY <1>1, IeFacts
<1>3. Listed(T, vs) \in Seq(IE) /\ Len(Listed(T, vs)) = Len(vs)
  BY <1>1, <1>2 DEF Listed
<1>4. DOMAIN Listed(T, vs) = DOMAIN vs /\ \A i \in DOMAIN vs : Listed(T, vs)[i] = Ie(T, vs[i])
  BY DEF Listed
<1>5. AllOf(Listed(T, vs), T)
  BY <1>2, <1>4 DEF AllOf
<1>6. \A U : U # T => NoneOf(Listed(T, vs), U)
  BY <1>2, <1>4 DEF NoneOf
<1>7. QED BY <1>1, <1>3, <1>4, <1>5, <1>6

(* They all have their type and no other.                                  *)
LEMMA ListedOfType ==
    ASSUME NEW T \in Nat, NEW vs \in Seq(Values)
    PROVE  /\ OfType(Listed(T, vs), T) = Listed(T, vs)
           /\ \A U : U # T => OfType(Listed(T, vs), U) = <<>>
BY ListedFacts, OfTypeAll, OfTypeNone

(* Their octets are those append_ie writes for each value.                 *)
LEMMA ListedWire ==
    ASSUME NEW T \in Nat, NEW vs \in Seq(Values)
    PROVE  Wire(Listed(T, vs)) = FlattenSeq([i \in DOMAIN vs |-> append_ie(T, vs[i])])
<1> DEFINE a == [i \in DOMAIN Listed(T, vs) |-> Bytes[Listed(T, vs)[i]]]
           b == [i \in DOMAIN vs |-> append_ie(T, vs[i])]
<1>1. \A i \in DOMAIN vs : Bytes[Listed(T, vs)[i]] = append_ie(T, vs[i])
  BY ListedFacts, IeFacts
<1>2. DOMAIN Listed(T, vs) = DOMAIN vs
  BY ListedFacts
<1>3. a = b
  BY <1>1, <1>2
<1>4. QED BY <1>3 DEF Wire, EachOf

(* The IE of a single value.                                               *)
LEMMA ListedOne ==
    ASSUME NEW T \in Nat, NEW v \in Values
    PROVE  Listed(T, <<v>>) = <<Ie(T, v)>> /\ Wire(Listed(T, <<v>>)) = append_ie(T, v)
<1>1. Listed(T, <<v>>) = <<Ie(T, v)>>
  BY DEF Listed
<1>2. Wire(<<Ie(T, v)>>) = append_ie(T, v)
  BY IeFacts, WireFacts
<1>3. QED BY <1>1, <1>2

(* No values, no IEs.                                                      *)
LEMMA ListedNone ==
    ASSUME NEW T
    PROVE  Listed(T, <<>>) = <<>> /\ Wire(Listed(T, <<>>)) = <<>>
<1>1. Listed(T, <<>>) = <<>>
  BY DEF Listed
<1>2. QED BY <1>1, WireFacts

-----------------------------------------------------------------------------
(* A grouped IE or a message body: IEs of the types ts, in that order.     *)
Segs(ts, vss) == [k \in DOMAIN ts |-> Listed(ts[k], vss[k])]
(* The IEs of a group.                                                     *)
Group(ts, vss) == FlattenSeq(Segs(ts, vss))
(* Its beginning: the first n types.                                       *)
Upto(ts, vss, n) == Wire(FlattenSeq(SubSeq(Segs(ts, vss), 1, n)))
(* A list of types with the values of each.                                *)
GroupOf(ts, vss) == ts \in Seq(Nat) /\ vss \in Seq(Seq(Values)) /\ Len(ts) = Len(vss)

(* A group has one segment for every type.                                 *)
LEMMA SegsFacts ==
    ASSUME NEW ts, NEW vss, GroupOf(ts, vss)
    PROVE  /\ Segs(ts, vss) \in Seq(Seq(IE)) /\ Len(Segs(ts, vss)) = Len(ts)
           /\ DOMAIN Segs(ts, vss) = DOMAIN ts /\ DOMAIN ts = 1..Len(ts) /\ Len(ts) \in Nat
           /\ \A k \in DOMAIN ts : /\ Segs(ts, vss)[k] = Listed(ts[k], vss[k]) /\ ts[k] \in Nat
                                   /\ vss[k] \in Seq(Values) /\ Listed(ts[k], vss[k]) \in Seq(IE)
<1>1. /\ DOMAIN ts = 1..Len(ts) /\ Len(ts) \in Nat /\ DOMAIN vss = 1..Len(ts)
      /\ \A k \in DOMAIN ts : ts[k] \in Nat /\ vss[k] \in Seq(Values)
  BY DEF GroupOf
<1>2. \A k \in DOMAIN ts : Listed(ts[k], vss[k]) \in Seq(IE)
  BY <1>1, ListedFacts
<1>3. Segs(ts, vss) \in Seq(Seq(IE)) /\ Len(Segs(ts, vss)) = Len(ts)
  BY <1>1, <1>2 DEF Segs
<1>4. DOMAIN Segs(ts, vss) = DOMAIN ts /\ \A k \in DOMAIN ts : Segs(ts, vss)[k] = Listed(ts[k], vss[k])
  BY DEF Segs
<1>5. QED BY <1>1, <1>2, <1>3, <1>4

(* A group is a list of IEs.                                               *)
LEMMA GroupType ==
    ASSUME NEW ts, NEW vss, GroupOf(ts, vss)
    PROVE  Group(ts, vss) \in Seq(IE)
BY SegsFacts, FlattenType DEF Group

(* The IEs of a type are those of its segment.                             *)
LEMMA GroupOfType ==
    ASSUME NEW ts, NEW vss, GroupOf(ts, vss), NEW k \in DOMAIN ts,
           \A j \in DOMAIN ts : j # k => ts[j] # ts[k]
    PROVE  OfType(Group(ts, vss), ts[k]) = Listed(ts[k], vss[k])
<1> DEFINE s == Segs(ts, vss)
           T == ts[k]
<1>1. /\ s \in Seq(Seq(IE)) /\ DOMAIN s = DOMAIN ts
      /\ \A j \in DOMAIN ts : /\ s[j] = Listed(ts[j], vss[j]) /\ ts[j] \in Nat
                              /\ vss[j] \in Seq(Values) /\ Listed(ts[j], vss[j]) \in Seq(IE)
  BY SegsFacts
<1>2. \A j \in DOMAIN s : j # k => OfType(s[j], T) = <<>>
  <2> HIDE DEF s
  <2> SUFFICES ASSUME NEW j \in DOMAIN s, j # k PROVE OfType(s[j], T) = <<>>
    OBVIOUS
  <2>1. j \in DOMAIN ts /\ T # ts[j]
    BY <1>1
  <2> HIDE DEF T
  <2>2. OfType(Listed(ts[j], vss[j]), T) = <<>>
    BY <1>1, <2>1, ListedOfType
  <2>3. QED BY <1>1, <2>1, <2>2
<1>3. OfType(s[k], T) = Listed(T, vss[k])
  BY <1>1, ListedOfType
<1> HIDE DEF s, T
<1>4. OfType(FlattenSeq(s), T) = OfType(s[k], T)
  BY <1>1, <1>2, SegmentOfType
<1>5. QED BY <1>3, <1>4 DEF Group, s, T

(* A type outside the group has no IE in it.                               *)
LEMMA GroupOtherType ==
    ASSUME NEW ts, NEW vss, GroupOf(ts, vss), NEW T, \A j \in DOMAIN ts : ts[j] # T
    PROVE  OfType(Group(ts, vss), T) = <<>>
<1> DEFINE s == Segs(ts, vss)
<1>1. /\ s \in Seq(Seq(IE)) /\ DOMAIN s = DOMAIN ts
      /\ \A j \in DOMAIN ts : /\ s[j] = Listed(ts[j], vss[j]) /\ ts[j] \in Nat
                              /\ vss[j] \in Seq(Values)
  BY SegsFacts
<1>2. \A j \in DOMAIN s : OfType(s[j], T) = <<>>
  BY <1>1, ListedOfType, SMTT(60)
<1> HIDE DEF s
<1>3. OfType(FlattenSeq(s), T) = <<>>
  BY <1>1, <1>2, NoneInSegments
<1>4. QED BY <1>3 DEF Group, s

(* A group's octets, type by type.                                         *)
LEMMA UptoFacts ==
    ASSUME NEW ts, NEW vss, GroupOf(ts, vss)
    PROVE  /\ Upto(ts, vss, 0) = <<>>
           /\ \A n \in 1..Len(ts) : /\ Upto(ts, vss, n) = Cat(Upto(ts, vss, n - 1), Wire(Listed(ts[n], vss[n])))
                                    /\ Upto(ts, vss, n) \in Seq(Nat)
           /\ Upto(ts, vss, Len(ts)) = Wire(Group(ts, vss))
<1> DEFINE s == Segs(ts, vss)
           F(n) == SubSeq(s, 1, n)
<1>1. /\ s \in Seq(Seq(IE)) /\ DOMAIN s = DOMAIN ts /\ Len(s) = Len(ts) /\ DOMAIN ts = 1..Len(ts) /\ Len(ts) \in Nat
      /\ \A k \in DOMAIN ts : s[k] = Listed(ts[k], vss[k]) /\ Listed(ts[k], vss[k]) \in Seq(IE)
  BY SegsFacts
<1> HIDE DEF s
<1>2. Upto(ts, vss, 0) = <<>>
  <2>1. F(0) = <<>>
    BY <1>1
  <2>2. Wire(FlattenSeq(<<>>)) = <<>>
    BY FlattenEmpty, WireFacts
  <2>3. QED BY <2>1, <2>2 DEF Upto, s
<1>3. ASSUME NEW n \in 1..Len(ts)
      PROVE  /\ Upto(ts, vss, n) = Cat(Upto(ts, vss, n - 1), Wire(Listed(ts[n], vss[n])))
             /\ Upto(ts, vss, n) \in Seq(Nat)
  <2> DEFINE x == Listed(ts[n], vss[n])
             f == F(n - 1)
             g == F(n)
  <2>1. x \in Seq(IE) /\ s[n] = x
    BY <1>1
  <2>2. f \in Seq(Seq(IE)) /\ g \in Seq(Seq(IE)) /\ g = f \o <<s[n]>>
    <3>1. n \in Nat /\ n - 1 \in Nat /\ n <= Len(s) /\ n >= 1
      BY <1>1
    <3>2. QED BY <1>1, <3>1
  <2> HIDE DEF x, f, g
  <2>3. FlattenSeq(g) = Cat(FlattenSeq(f), x)
    BY <2>1, <2>2, FlattenAppend DEF Cat
  <2>4. FlattenSeq(f) \in Seq(IE) /\ FlattenSeq(g) \in Seq(IE)
    BY <2>2, FlattenType
  <2>5. Wire(Cat(FlattenSeq(f), x)) = Cat(Wire(FlattenSeq(f)), Wire(x))
    BY <2>1, <2>4, WireFacts DEF Cat
  <2>6. Upto(ts, vss, n) = Wire(FlattenSeq(g)) /\ Upto(ts, vss, n - 1) = Wire(FlattenSeq(f))
    BY DEF Upto, s, f, g
  <2>7. Wire(FlattenSeq(g)) \in Seq(Nat)
    BY <2>4, WireFacts
  <2>8. QED BY <2>3, <2>5, <2>6, <2>7 DEF x
<1>4. Upto(ts, vss, Len(ts)) = Wire(Group(ts, vss))
  <2>1. F(Len(s)) = s
    BY <1>1, SubSeqWhole
  <2>2. QED BY <1>1, <2>1 DEF Upto, Group, s
<1>5. QED BY <1>2, <1>3, <1>4

(* The octets of the k-th type's IEs.                                      *)
Part(ts, vss, k) == Wire(Listed(ts[k], vss[k]))

(* The octets of a type's IEs are octets.                                  *)
LEMMA PartType ==
    ASSUME NEW ts, NEW vss, GroupOf(ts, vss)
    PROVE  \A k \in 1..Len(ts) : Part(ts, vss, k) \in Seq(Nat)
BY SegsFacts, WireFacts DEF Part

(* The builders concatenate from the left: groups of two to thirteen       *)
(* types.                                                                  *)
LEMMA Built ==
    ASSUME NEW ts, NEW vss, GroupOf(ts, vss)
    PROVE  LET P(k) == Part(ts, vss, k)
               B    == Wire(Group(ts, vss))
           IN  /\ Len(ts) = 2 => B = Cat(P(1), P(2))
               /\ Len(ts) = 3 => B = Cat(Cat(P(1), P(2)), P(3))
               /\ Len(ts) = 4 => B = Cat(Cat(Cat(P(1), P(2)), P(3)), P(4))
               /\ Len(ts) = 5 => B = Cat(Cat(Cat(Cat(P(1), P(2)), P(3)), P(4)), P(5))
               /\ Len(ts) = 6 => B = Cat(Cat(Cat(Cat(Cat(P(1), P(2)), P(3)), P(4)), P(5)), P(6))
               /\ Len(ts) = 13 => B =
                    Cat(Cat(Cat(Cat(Cat(Cat(Cat(Cat(Cat(Cat(Cat(Cat(P(1), P(2)), P(3)), P(4)), P(5)), P(6)),
                        P(7)), P(8)), P(9)), P(10)), P(11)), P(12)), P(13))
<1> DEFINE P(k) == Part(ts, vss, k)
           B    == Wire(Group(ts, vss))
           U(n) == Upto(ts, vss, n)
<1>1. U(Len(ts)) = B
  BY UptoFacts
<1>2. U(0) = <<>>
  BY UptoFacts
<1>3. \A n \in 1..Len(ts) : U(n) = Cat(U(n - 1), P(n))
  BY UptoFacts DEF Part
<1>4. \A n \in 1..Len(ts) : P(n) \in Seq(Nat)
  BY PartType
<1>5. \A n \in 1..Len(ts) : Cat(<<>>, P(n)) = P(n)
  BY <1>4, CatFacts
<1>6. Len(ts) \in Nat
  BY SegsFacts
<1> HIDE DEF P, U, B
<1>7. ASSUME Len(ts) >= 2 PROVE U(1) = P(1) /\ U(2) = Cat(P(1), P(2))
  <2>1. 1 \in 1..Len(ts) /\ 2 \in 1..Len(ts) /\ 1 - 1 = 0 /\ 2 - 1 = 1
    BY <1>6, <1>7
  <2>2. U(1) = Cat(U(1 - 1), P(1)) /\ U(2) = Cat(U(2 - 1), P(2))
    BY <1>3, <2>1
  <2>3. QED BY <1>2, <1>5, <2>1, <2>2
<1>8. \A m, n \in Nat : n = m + 1 /\ n >= 1 /\ Len(ts) >= n => U(n) = Cat(U(m), P(n))
  <2> SUFFICES ASSUME NEW m \in Nat, NEW n \in Nat, n = m + 1, n >= 1, Len(ts) >= n PROVE U(n) = Cat(U(m), P(n))
    OBVIOUS
  <2>1. n \in 1..Len(ts) /\ n - 1 = m
    BY <1>6
  <2>2. QED BY <1>3, <2>1
<1>9. /\ Len(ts) >= 3 => U(3) = Cat(U(2), P(3))
      /\ Len(ts) >= 4 => U(4) = Cat(U(3), P(4))
      /\ Len(ts) >= 5 => U(5) = Cat(U(4), P(5))
      /\ Len(ts) >= 6 => U(6) = Cat(U(5), P(6))
  BY <1>8
<1>10. /\ Len(ts) >= 7 => U(7) = Cat(U(6), P(7))
       /\ Len(ts) >= 8 => U(8) = Cat(U(7), P(8))
       /\ Len(ts) >= 9 => U(9) = Cat(U(8), P(9))
       /\ Len(ts) >= 10 => U(10) = Cat(U(9), P(10))
       /\ Len(ts) >= 11 => U(11) = Cat(U(10), P(11))
       /\ Len(ts) >= 12 => U(12) = Cat(U(11), P(12))
       /\ Len(ts) >= 13 => U(13) = Cat(U(12), P(13))
  BY <1>8
<1>11. /\ Len(ts) = 2 => B = Cat(P(1), P(2))
       /\ Len(ts) = 3 => B = Cat(Cat(P(1), P(2)), P(3))
       /\ Len(ts) = 4 => B = Cat(Cat(Cat(P(1), P(2)), P(3)), P(4))
       /\ Len(ts) = 5 => B = Cat(Cat(Cat(Cat(P(1), P(2)), P(3)), P(4)), P(5))
       /\ Len(ts) = 6 => B = Cat(Cat(Cat(Cat(Cat(P(1), P(2)), P(3)), P(4)), P(5)), P(6))
  <2>1. Len(ts) = 2 => B = Cat(P(1), P(2))
    BY <1>1, <1>7
  <2>2. Len(ts) = 3 => B = Cat(Cat(P(1), P(2)), P(3))
    BY <1>1, <1>7, <1>9
  <2>3. Len(ts) = 4 => B = Cat(Cat(Cat(P(1), P(2)), P(3)), P(4))
    BY <1>1, <1>7, <1>9
  <2>4. Len(ts) = 5 => B = Cat(Cat(Cat(Cat(P(1), P(2)), P(3)), P(4)), P(5))
    BY <1>1, <1>7, <1>9
  <2>5. Len(ts) = 6 => B = Cat(Cat(Cat(Cat(Cat(P(1), P(2)), P(3)), P(4)), P(5)), P(6))
    BY <1>1, <1>7, <1>9
  <2>6. QED BY <2>1, <2>2, <2>3, <2>4, <2>5
<1>12. Len(ts) = 13 => B =
            Cat(Cat(Cat(Cat(Cat(Cat(Cat(Cat(Cat(Cat(Cat(Cat(P(1), P(2)), P(3)), P(4)), P(5)), P(6)),
                P(7)), P(8)), P(9)), P(10)), P(11)), P(12)), P(13))
  BY <1>1, <1>7, <1>9, <1>10
<1>13. QED BY <1>11, <1>12 DEF P, B

-----------------------------------------------------------------------------

-----------------------------------------------------------------------------
(* Reading single values with the loops of the parsers.                    *)

(* An option is empty or holds one value.                                  *)
LEMMA OptionCases ==
    ASSUME NEW S, NEW o \in Option(S)
    PROVE  o = <<>> \/ \E x \in S : o = <<x>>
<1>1. o \in Seq(S) /\ Len(o) <= 1 /\ Len(o) \in Nat
  BY DEF Option
<1>2. CASE Len(o) = 0
  BY <1>1, <1>2
<1>3. CASE Len(o) = 1
  <2>1. o[1] \in S /\ o = <<o[1]>>
    BY <1>1, <1>3
  <2>2. QED BY <2>1
<1>4. Len(o) = 0 \/ Len(o) = 1
  <2> DEFINE n == Len(o)
  <2>1. n \in Nat /\ n <= 1
    BY <1>1
  <2> HIDE DEF n
  <2>2. n = 0 \/ n = 1
    BY <2>1
  <2>3. QED BY <2>2 DEF n
<1>5. QED BY <1>2, <1>3, <1>4

(* A value that is long enough passes the length test of a parser.         *)
LEMMA OfLengthFacts ==
    ASSUME NEW T \in Nat, NEW v \in Values, NEW n, Len(v) >= n
    PROVE  /\ OfLength(<<Ie(T, v)>>, n) = <<Ie(T, v)>>
           /\ OfLength(<<>>, n) = <<>>
<1> DEFINE x == Ie(T, v)
<1>1. x.value = v /\ x \in IE
  BY IeFacts
<1> HIDE DEF x
<1>2. [i \in DOMAIN <<x>> |-> If(Len(<<x>>[i].value) >= n, <<<<x>>[i]>>)] = <<<<x>>>>
  BY <1>1 DEF If
<1>3. FlattenSeq(<<<<x>>>>) = <<x>>
  <2>1. <<x>> \in Seq(IE)
    BY <1>1
  <2>2. QED BY <2>1, FlattenOne
<1>4. [i \in DOMAIN <<>> |-> If(Len(<<>>[i].value) >= n, <<<<>>[i]>>)] = <<>>
  OBVIOUS
<1>5. QED BY <1>2, <1>3, <1>4, FlattenEmpty DEF OfLength, Keep, Each, x

(* The last of one element.                                                *)
LEMMA LastOne ==
    ASSUME NEW x
    PROVE  Last(<<x>>) = x
BY DEF Last

(* The parsers' loop over a single IE of a type leaves its first field.    *)
LEMMA ReadOne ==
    ASSUME NEW ies, NEW T \in Nat, NEW v \in Values, Len(v) >= 1, OfType(ies, T) = Listed(T, <<v>>)
    PROVE  LastId(ies, T) = <<v[1]>> /\ \A d : LastField(ies, T, d) = v[1]
<1> DEFINE x == Ie(T, v)
           o == <<x>>
<1>1. OfType(ies, T) = o
  BY ListedOne
<1>2. OfLength(o, 1) = o
  BY OfLengthFacts
<1>3. Last(o) = x /\ x.value = v /\ o # <<>>
  BY LastOne, IeFacts
<1> HIDE DEF o, x
<1>4. QED BY <1>1, <1>2, <1>3 DEF LastId, LastField, Some, None

(* Without an IE of the type the loop leaves the default.                  *)
LEMMA ReadNone ==
    ASSUME NEW ies, NEW T \in Nat, OfType(ies, T) = <<>>
    PROVE  LastId(ies, T) = <<>> /\ \A d : LastField(ies, T, d) = d
<1>1. OfLength(<<>>, 1) = <<>>
  <2>1. <<0>> \in Values /\ Len(<<0>>) >= 1
    BY DEF Values
  <2>2. QED BY <2>1, OfLengthFacts
<1>2. QED BY <1>1 DEF LastId, LastField, None

(* An option of a number, read with LastId.                                *)
LEMMA ReadOption ==
    ASSUME NEW ies, NEW T \in Nat, NEW o \in Option(Nat),
           OfType(ies, T) = Listed(T, [i \in DOMAIN o |-> <<o[i]>>])
    PROVE  LastId(ies, T) = o
<1>1. CASE o = <<>>
  <2>1. [i \in DOMAIN o |-> <<o[i]>>] = <<>>
    BY <1>1
  <2>2. OfType(ies, T) = <<>>
    BY <2>1, ListedNone
  <2>3. QED BY <1>1, <2>2, ReadNone
<1>2. CASE \E x \in Nat : o = <<x>>
  <2>1. PICK x \in Nat : o = <<x>>
    BY <1>2
  <2> DEFINE v == <<x>>
  <2>2. [i \in DOMAIN o |-> <<o[i]>>] = <<v>> /\ v \in Values /\ Len(v) >= 1 /\ v[1] = x
    BY <2>1 DEF Values
  <2> HIDE DEF v
  <2>3. LastId(ies, T) = <<v[1]>>
    BY <2>2, ReadOne
  <2>4. QED BY <2>1, <2>2, <2>3
<1>3. QED BY <1>1, <1>2, OptionCases

(* The nested IEs of a single group.                                       *)
LEMMA InsideOne ==
    ASSUME NEW ies, NEW T \in Nat, NEW v \in Values, OfType(ies, T) = Listed(T, <<v>>)
    PROVE  Inside(ies, T) = iter_ies(v)
<1> DEFINE x == Ie(T, v)
           y == iter_ies(v)
<1>1. OfType(ies, T) = <<x>>
  BY ListedOne
<1>2. x.value = v
  BY IeFacts
<1>3. y \in Seq(IE)
  BY IterType DEF Values
<1> HIDE DEF x
<1>4. [i \in DOMAIN <<x>> |-> iter_ies(<<x>>[i].value)] = <<y>>
  BY <1>2
<1> HIDE DEF y
<1>5. FlattenSeq(<<y>>) = y
  BY <1>3, FlattenOne
<1>6. QED BY <1>1, <1>4, <1>5 DEF Inside, Each, y

(* The IEs of a group, read back.                                          *)
Distinct(ts) == \A j, k \in DOMAIN ts : j # k => ts[j] # ts[k]

(* Of a group whose types differ, iter_ies reads back every type's values. *)
LEMMA GroupRead ==
    ASSUME NEW ts, NEW vss, GroupOf(ts, vss), Distinct(ts)
    PROVE  /\ Wire(Group(ts, vss)) \in Values
           /\ iter_ies(Wire(Group(ts, vss))) = Group(ts, vss)
           /\ \A k \in DOMAIN ts : OfType(Group(ts, vss), ts[k]) = Listed(ts[k], vss[k])
           /\ \A T : (\A k \in DOMAIN ts : ts[k] # T) => OfType(Group(ts, vss), T) = <<>>
<1>1. Group(ts, vss) \in Seq(IE)
  BY GroupType
<1>2. Wire(Group(ts, vss)) \in Values /\ iter_ies(Wire(Group(ts, vss))) = Group(ts, vss)
  BY <1>1, WireFacts, IterWire DEF Values
<1>3. ASSUME NEW k \in DOMAIN ts PROVE OfType(Group(ts, vss), ts[k]) = Listed(ts[k], vss[k])
  BY GroupOfType DEF Distinct
<1>4. ASSUME NEW T, \A k \in DOMAIN ts : ts[k] # T PROVE OfType(Group(ts, vss), T) = <<>>
  BY <1>4, GroupOtherType
<1>5. QED BY <1>2, <1>3, <1>4

(* A list of one value.                                                    *)
LEMMA OneValue ==
    ASSUME NEW v \in Values
    PROVE  <<v>> \in Seq(Values)
OBVIOUS

(* Values of one to five octets.                                           *)
LEMMA ShortValues ==
    /\ \A a \in Nat : <<a>> \in Values
    /\ \A a, b \in Nat : <<a, b>> \in Values
    /\ \A a, b, c \in Nat : <<a, b, c>> \in Values
    /\ \A a, b, c, d \in Nat : <<a, b, c, d>> \in Values
    /\ \A a, b, c, d, e \in Nat : <<a, b, c, d, e>> \in Values
BY DEF Values

-----------------------------------------------------------------------------

-----------------------------------------------------------------------------
(* URRs: add_create_urr, add_update_urr and parse_create_urr.              *)

(* Create/Update URR: the types of its IEs, in the order add_create_urr    *)
(* writes them.                                                            *)
UrrTs == <<PFCP_IE_URR_ID, PFCP_IE_MEASUREMENT_METHOD, PFCP_IE_REPORTING_TRIGGERS,
           PFCP_IE_VOLUME_THRESHOLD, PFCP_IE_MEASUREMENT_PERIOD>>
(* The values of each of them.                                             *)
UrrVss(u) == <<<<<<u.urr_id>>>>, <<<<u.measurement_method>>>>, <<<<u.reporting_triggers, 0>>>>,
               [i \in DOMAIN u.volume_threshold_total |-> <<1, u.volume_threshold_total[i]>>],
               [i \in DOMAIN u.measurement_period |-> <<u.measurement_period[i]>>]>>

(* An option is a sequence.                                                *)
LEMMA OptionSeq ==
    ASSUME NEW S, NEW o \in Option(S)
    PROVE  o \in Seq(S) /\ DOMAIN o = 1..Len(o) /\ Len(o) \in Nat /\ \A i \in DOMAIN o : o[i] \in S
BY DEF Option

(* A function on 1..n with its values in R is a sequence over R.           *)
LEMMA MappedSeq ==
    ASSUME NEW R, NEW n \in Nat, NEW f, f = [i \in 1..n |-> f[i]], \A i \in 1..n : f[i] \in R
    PROVE  f \in Seq(R)
OBVIOUS

(* The values a list is turned into, and their octets.                     *)
LEMMA MappedValues ==
    ASSUME NEW T \in Nat, NEW S, NEW list \in Seq(S), NEW f,
           f = [i \in DOMAIN list |-> f[i]], \A i \in DOMAIN list : f[i] \in Values
    PROVE  /\ f \in Seq(Values)
           /\ Wire(Listed(T, f)) = FlattenSeq([i \in DOMAIN list |-> append_ie(T, f[i])])
<1> DEFINE n == Len(list)
<1>0. DOMAIN list = 1..n /\ n \in Nat
  OBVIOUS
<1> HIDE DEF n
<1>1. f \in Seq(Values)
  BY <1>0, MappedSeq
<1>2. DOMAIN f = DOMAIN list
  OBVIOUS
<1>3. QED BY <1>1, <1>2, ListedWire

(* An option of a number as one field, or as the second of two.            *)
LEMMA OptionValues ==
    ASSUME NEW T \in Nat, NEW o \in Option(Nat)
    PROVE  /\ [i \in DOMAIN o |-> <<o[i]>>] \in Seq(Values)
           /\ Wire(Listed(T, [i \in DOMAIN o |-> <<o[i]>>])) = FlattenSeq([i \in DOMAIN o |-> append_ie(T, <<o[i]>>)])
           /\ \A k \in Nat : 
                 /\ [i \in DOMAIN o |-> <<k, o[i]>>] \in Seq(Values)
                 /\ Wire(Listed(T, [i \in DOMAIN o |-> <<k, o[i]>>]))
                        = FlattenSeq([i \in DOMAIN o |-> append_ie(T, <<k, o[i]>>)])
<1>1. o \in Seq(Nat) /\ \A i \in DOMAIN o : o[i] \in Nat
  BY OptionSeq
<1>2. ASSUME NEW f, f = [i \in DOMAIN o |-> f[i]], \A i \in DOMAIN o : f[i] \in Values
      PROVE  f \in Seq(Values) /\ Wire(Listed(T, f)) = FlattenSeq([i \in DOMAIN o |-> append_ie(T, f[i])])
  <2>1. o \in Seq(Nat)
    BY <1>1
  <2>2. f = [i \in DOMAIN o |-> f[i]] /\ \A i \in DOMAIN o : f[i] \in Values
    BY <1>2
  <2>3. QED BY <2>1, <2>2, MappedValues, ZenonT(60)
<1>3. /\ [i \in DOMAIN o |-> <<o[i]>>] \in Seq(Values)
      /\ Wire(Listed(T, [i \in DOMAIN o |-> <<o[i]>>])) = FlattenSeq([i \in DOMAIN o |-> append_ie(T, <<o[i]>>)])
  <2> DEFINE f == [i \in DOMAIN o |-> <<o[i]>>]
  <2>1. f = [i \in DOMAIN o |-> f[i]] /\ \A i \in DOMAIN o : f[i] = <<o[i]>>
    OBVIOUS
  <2> HIDE DEF f
  <2>2. \A i \in DOMAIN o : f[i] \in Values
    BY <1>1, <2>1, ShortValues
  <2>3. f \in Seq(Values) /\ Wire(Listed(T, f)) = FlattenSeq([i \in DOMAIN o |-> append_ie(T, f[i])])
    <3>1. f = [i \in DOMAIN o |-> f[i]]
      BY <2>1
    <3>2. QED BY <2>2, <3>1, <1>2
  <2>4. [i \in DOMAIN o |-> append_ie(T, f[i])] = [i \in DOMAIN o |-> append_ie(T, <<o[i]>>)]
    BY <2>1
  <2>5. QED BY <2>3, <2>4 DEF f
<1>4. ASSUME NEW k \in Nat
      PROVE  /\ [i \in DOMAIN o |-> <<k, o[i]>>] \in Seq(Values)
             /\ Wire(Listed(T, [i \in DOMAIN o |-> <<k, o[i]>>])) = FlattenSeq([i \in DOMAIN o |-> append_ie(T, <<k, o[i]>>)])
  <2> DEFINE f == [i \in DOMAIN o |-> <<k, o[i]>>]
  <2>1. f = [i \in DOMAIN o |-> f[i]] /\ \A i \in DOMAIN o : f[i] = <<k, o[i]>>
    OBVIOUS
  <2> HIDE DEF f
  <2>2. \A i \in DOMAIN o : f[i] \in Values
    BY <1>1, <2>1, ShortValues
  <2>3. f \in Seq(Values) /\ Wire(Listed(T, f)) = FlattenSeq([i \in DOMAIN o |-> append_ie(T, f[i])])
    <3>1. f = [i \in DOMAIN o |-> f[i]]
      BY <2>1
    <3>2. QED BY <2>2, <3>1, <1>2
  <2>4. [i \in DOMAIN o |-> append_ie(T, f[i])] = [i \in DOMAIN o |-> append_ie(T, <<k, o[i]>>)]
    BY <2>1
  <2>5. QED BY <2>3, <2>4 DEF f
<1>5. QED BY <1>3, <1>4

(* The IEs of a URR are a group.                                           *)
LEMMA UrrGroup ==
    ASSUME NEW u \in UrrParams
    PROVE  GroupOf(UrrTs, UrrVss(u)) /\ Distinct(UrrTs) /\ Len(UrrTs) = 5 /\ DOMAIN UrrTs = 1..5
<1> DEFINE a == [i \in DOMAIN u.volume_threshold_total |-> <<1, u.volume_threshold_total[i]>>]
           b == [i \in DOMAIN u.measurement_period |-> <<u.measurement_period[i]>>]
<1>1. /\ u.urr_id \in Nat /\ u.measurement_method \in Nat /\ u.reporting_triggers \in Nat
      /\ u.volume_threshold_total \in Option(Nat) /\ u.measurement_period \in Option(Nat)
  BY DEF UrrParams
<1>2. a \in Seq(Values)
  BY <1>1, OptionValues DEF PFCP_IE_VOLUME_THRESHOLD
<1>3. b \in Seq(Values)
  BY <1>1, OptionValues
<1>4. <<<<u.urr_id>>>> \in Seq(Values) /\ <<<<u.measurement_method>>>> \in Seq(Values) /\ <<<<u.reporting_triggers, 0>>>> \in Seq(Values)
  BY <1>1, ShortValues, OneValue
<1> HIDE DEF a, b
<1>5. UrrVss(u) \in Seq(Seq(Values)) /\ Len(UrrVss(u)) = 5
  BY <1>2, <1>3, <1>4 DEF UrrVss, a, b
<1>6. UrrTs \in Seq(Nat) /\ Len(UrrTs) = 5 /\ DOMAIN UrrTs = 1..5
  BY DEF UrrTs, PFCP_IE_URR_ID, PFCP_IE_MEASUREMENT_METHOD, PFCP_IE_REPORTING_TRIGGERS,
         PFCP_IE_VOLUME_THRESHOLD, PFCP_IE_MEASUREMENT_PERIOD
<1>7. Distinct(UrrTs)
  BY DEF Distinct, UrrTs, PFCP_IE_URR_ID, PFCP_IE_MEASUREMENT_METHOD, PFCP_IE_REPORTING_TRIGGERS,
         PFCP_IE_VOLUME_THRESHOLD, PFCP_IE_MEASUREMENT_PERIOD
<1>8. QED BY <1>5, <1>6, <1>7 DEF GroupOf

(* The builder of URRs writes that group.                                  *)
LEMMA UrrBuilt ==
    ASSUME NEW u \in UrrParams
    PROVE  UrrFields(u) = Wire(Group(UrrTs, UrrVss(u)))
<1> DEFINE vt == u.volume_threshold_total
           mp == u.measurement_period
           a == [i \in DOMAIN vt |-> <<1, vt[i]>>]
           b == [i \in DOMAIN mp |-> <<mp[i]>>]
           P(k) == Part(UrrTs, UrrVss(u), k)
<1>1. Wire(Group(UrrTs, UrrVss(u))) = Cat(Cat(Cat(Cat(P(1), P(2)), P(3)), P(4)), P(5))
  BY UrrGroup, Built
<1>2. /\ u.urr_id \in Nat /\ u.measurement_method \in Nat /\ u.reporting_triggers \in Nat
      /\ vt \in Option(Nat) /\ mp \in Option(Nat)
  BY DEF UrrParams
<1>3. P(1) = append_ie(PFCP_IE_URR_ID, <<u.urr_id>>)
  BY <1>2, ShortValues, ListedOne, ZenonT(60) DEF Part, UrrTs, UrrVss, PFCP_IE_URR_ID
<1>4. P(2) = append_ie(PFCP_IE_MEASUREMENT_METHOD, <<u.measurement_method>>)
  BY <1>2, ShortValues, ListedOne DEF Part, UrrTs, UrrVss, PFCP_IE_MEASUREMENT_METHOD
<1>5. P(3) = append_ie(PFCP_IE_REPORTING_TRIGGERS, <<u.reporting_triggers, 0>>)
  BY <1>2, ShortValues, ListedOne DEF Part, UrrTs, UrrVss, PFCP_IE_REPORTING_TRIGGERS
<1>6. P(4) = FlattenSeq([i \in DOMAIN vt |-> append_ie(PFCP_IE_VOLUME_THRESHOLD, <<1, vt[i]>>)])
  <2>1. P(4) = Wire(Listed(PFCP_IE_VOLUME_THRESHOLD, a))
    BY DEF Part, UrrTs, UrrVss
  <2>2. PFCP_IE_VOLUME_THRESHOLD \in Nat /\ 1 \in Nat
    BY DEF PFCP_IE_VOLUME_THRESHOLD
  <2>3. Wire(Listed(PFCP_IE_VOLUME_THRESHOLD, a))
            = FlattenSeq([i \in DOMAIN vt |-> append_ie(PFCP_IE_VOLUME_THRESHOLD, <<1, vt[i]>>)])
    <3> HIDE DEF vt
    <3>1. QED BY <1>2, <2>2, OptionValues, ZenonT(60)
  <2>4. QED BY <2>1, <2>3
<1>7. P(5) = FlattenSeq([i \in DOMAIN mp |-> append_ie(PFCP_IE_MEASUREMENT_PERIOD, <<mp[i]>>)])
  <2>1. P(5) = Wire(Listed(PFCP_IE_MEASUREMENT_PERIOD, b))
    BY DEF Part, UrrTs, UrrVss
  <2>2. QED BY <1>2, <2>1, OptionValues, ZenonT(60) DEF PFCP_IE_MEASUREMENT_PERIOD
<1> DEFINE Q == Cat(Cat(Cat(Cat(append_ie(PFCP_IE_URR_ID, <<u.urr_id>>),
                   append_ie(PFCP_IE_MEASUREMENT_METHOD, <<u.measurement_method>>)),
                   append_ie(PFCP_IE_REPORTING_TRIGGERS, <<u.reporting_triggers, 0>>)),
                   FlattenSeq([i \in DOMAIN vt |-> append_ie(PFCP_IE_VOLUME_THRESHOLD, <<1, vt[i]>>)])),
                   FlattenSeq([i \in DOMAIN mp |-> append_ie(PFCP_IE_MEASUREMENT_PERIOD, <<mp[i]>>)]))
<1>8. UrrFields(u) = Q
  BY Zenon DEF UrrFields, Cat, Given, Each
<1>9. Wire(Group(UrrTs, UrrVss(u))) = Q
  <2> HIDE DEF P
  <2>1. QED BY <1>1, <1>3, <1>4, <1>5, <1>6, <1>7
<1>10. QED BY <1>8, <1>9

(* The IEs found in a URR, type by type.                                   *)
LEMMA UrrTypes ==
    ASSUME NEW u \in UrrParams
    PROVE  LET ies == iter_ies(UrrFields(u))
           IN  /\ UrrFields(u) \in Values
               /\ OfType(ies, PFCP_IE_URR_ID) = Listed(PFCP_IE_URR_ID, <<<<u.urr_id>>>>)
               /\ OfType(ies, PFCP_IE_MEASUREMENT_METHOD) = Listed(PFCP_IE_MEASUREMENT_METHOD, <<<<u.measurement_method>>>>)
               /\ OfType(ies, PFCP_IE_REPORTING_TRIGGERS) = Listed(PFCP_IE_REPORTING_TRIGGERS, <<<<u.reporting_triggers, 0>>>>)
               /\ OfType(ies, PFCP_IE_VOLUME_THRESHOLD) = Listed(PFCP_IE_VOLUME_THRESHOLD,
                      [i \in DOMAIN u.volume_threshold_total |-> <<1, u.volume_threshold_total[i]>>])
               /\ OfType(ies, PFCP_IE_MEASUREMENT_PERIOD) = Listed(PFCP_IE_MEASUREMENT_PERIOD,
                      [i \in DOMAIN u.measurement_period |-> <<u.measurement_period[i]>>])
<1> DEFINE g == Group(UrrTs, UrrVss(u))
<1>1. UrrFields(u) \in Values /\ iter_ies(UrrFields(u)) = g
  BY UrrGroup, UrrBuilt, GroupRead
<1>2. \A k \in 1..5 : OfType(g, UrrTs[k]) = Listed(UrrTs[k], UrrVss(u)[k])
  BY UrrGroup, GroupRead
<1>3. 1 \in 1..5 /\ 2 \in 1..5 /\ 3 \in 1..5 /\ 4 \in 1..5 /\ 5 \in 1..5
  OBVIOUS
<1> HIDE DEF g
<1>4. /\ OfType(g, UrrTs[1]) = Listed(UrrTs[1], UrrVss(u)[1])
      /\ OfType(g, UrrTs[2]) = Listed(UrrTs[2], UrrVss(u)[2])
      /\ OfType(g, UrrTs[3]) = Listed(UrrTs[3], UrrVss(u)[3])
      /\ OfType(g, UrrTs[4]) = Listed(UrrTs[4], UrrVss(u)[4])
      /\ OfType(g, UrrTs[5]) = Listed(UrrTs[5], UrrVss(u)[5])
  BY <1>2, <1>3
<1>5. QED BY <1>1, <1>4 DEF UrrTs, UrrVss

(* parse_create_urr reads back every URR that the builder writes.          *)
LEMMA UrrRead ==
    ASSUME NEW u \in UrrParams
    PROVE  parse_create_urr(UrrFields(u)) = <<u>>
<1> DEFINE ies == iter_ies(UrrFields(u))
           vt == u.volume_threshold_total
           mp == u.measurement_period
           a == [i \in DOMAIN vt |-> <<1, vt[i]>>]
           th == OfType(ies, PFCP_IE_VOLUME_THRESHOLD)
           read == Parsed(parse_volume_threshold, th)
<1>1. /\ u.urr_id \in Nat /\ u.measurement_method \in Nat /\ u.reporting_triggers \in Nat
      /\ vt \in Option(Nat) /\ mp \in Option(Nat)
      /\ u = [urr_id |-> u.urr_id, measurement_method |-> u.measurement_method,
              reporting_triggers |-> u.reporting_triggers, volume_threshold_total |-> vt,
              measurement_period |-> mp]
  BY DEF UrrParams
<1>2. /\ OfType(ies, PFCP_IE_URR_ID) = Listed(PFCP_IE_URR_ID, <<<<u.urr_id>>>>)
      /\ OfType(ies, PFCP_IE_MEASUREMENT_METHOD) = Listed(PFCP_IE_MEASUREMENT_METHOD, <<<<u.measurement_method>>>>)
      /\ OfType(ies, PFCP_IE_REPORTING_TRIGGERS) = Listed(PFCP_IE_REPORTING_TRIGGERS, <<<<u.reporting_triggers, 0>>>>)
      /\ th = Listed(PFCP_IE_VOLUME_THRESHOLD, a)
      /\ OfType(ies, PFCP_IE_MEASUREMENT_PERIOD) = Listed(PFCP_IE_MEASUREMENT_PERIOD, [i \in DOMAIN mp |-> <<mp[i]>>])
  BY UrrTypes
<1> HIDE DEF ies, vt, mp, th
<1>3. LastField(ies, PFCP_IE_URR_ID, 0) = u.urr_id
  <2> DEFINE v == <<u.urr_id>>
  <2>1. v \in Values /\ Len(v) >= 1 /\ v[1] = u.urr_id /\ PFCP_IE_URR_ID \in Nat
    BY <1>1, ShortValues DEF PFCP_IE_URR_ID
  <2> HIDE DEF v
  <2>2. QED BY <1>2, <2>1, ReadOne DEF v
<1>4. LastField(ies, PFCP_IE_MEASUREMENT_METHOD, 0) = u.measurement_method
  <2> DEFINE v == <<u.measurement_method>>
  <2>1. v \in Values /\ Len(v) >= 1 /\ v[1] = u.measurement_method /\ PFCP_IE_MEASUREMENT_METHOD \in Nat
    BY <1>1, ShortValues DEF PFCP_IE_MEASUREMENT_METHOD
  <2> HIDE DEF v
  <2>2. QED BY <1>2, <2>1, ReadOne DEF v
<1>5. LastField(ies, PFCP_IE_REPORTING_TRIGGERS, 0) = u.reporting_triggers
  <2> DEFINE v == <<u.reporting_triggers, 0>>
  <2>1. v \in Values /\ Len(v) >= 1 /\ v[1] = u.reporting_triggers /\ PFCP_IE_REPORTING_TRIGGERS \in Nat
    BY <1>1, ShortValues DEF PFCP_IE_REPORTING_TRIGGERS
  <2> HIDE DEF v
  <2>2. QED BY <1>2, <2>1, ReadOne DEF v
<1>6. LastId(ies, PFCP_IE_MEASUREMENT_PERIOD) = mp
  <2>1. PFCP_IE_MEASUREMENT_PERIOD \in Nat
    BY DEF PFCP_IE_MEASUREMENT_PERIOD
  <2>2. QED BY <1>1, <1>2, <2>1, ReadOption
<1>7. /\ AllParse(parse_volume_threshold, th)
      /\ (IF read = <<>> THEN None ELSE Last(read)) = vt
  <2>1. CASE vt = <<>>
    <3>1. a = <<>>
      BY <2>1
    <3>2. th = <<>>
      BY <1>2, <3>1, ListedNone
    <3>3. QED BY <2>1, <3>2 DEF AllParse, Parsed, None
  <2>2. CASE \E x \in Nat : vt = <<x>>
    <3>1. PICK x \in Nat : vt = <<x>>
      BY <2>2
    <3> DEFINE v == <<1, x>>
               y == Ie(PFCP_IE_VOLUME_THRESHOLD, v)
    <3>2. a = <<v>> /\ v \in Values
      BY <3>1, ShortValues
    <3>3. th = <<y>> /\ y.value = v
      BY <1>2, <3>2, ListedOne, IeFacts, SMTT(60) DEF PFCP_IE_VOLUME_THRESHOLD
    <3>4. parse_volume_threshold(v) = <<<<x>>>>
      BY <3>1 DEF parse_volume_threshold, Bit, Ok, Some
    <3> HIDE DEF y, v
    <3>5. DOMAIN th = {1} /\ th[1].value = v
      BY <3>3
    <3>6. AllParse(parse_volume_threshold, th)
      BY <3>4, <3>5 DEF AllParse, Err
    <3>7. read = <<<<x>>>>
      BY <3>3, <3>4 DEF Parsed
    <3>8. QED BY <3>1, <3>6, <3>7, LastOne
  <2>3. QED BY <1>1, <2>1, <2>2, OptionCases
<1> HIDE DEF read, a
<1>8. QED BY <1>1, <1>3, <1>4, <1>5, <1>6, <1>7 DEF parse_create_urr, ies, th, read, Ok

(* The parsers' loop over a single IE of one field leaves that field.      *)
LEMMA ReadField ==
    ASSUME NEW ies, NEW T \in Nat, NEW a \in Nat, OfType(ies, T) = Listed(T, <<<<a>>>>)
    PROVE  LastId(ies, T) = <<a>> /\ \A d : LastField(ies, T, d) = a
<1> DEFINE v == <<a>>
<1>1. v \in Values /\ Len(v) >= 1 /\ v[1] = a /\ OfType(ies, T) = Listed(T, <<v>>)
  BY ShortValues
<1> HIDE DEF v
<1>2. QED BY <1>1, ReadOne

-----------------------------------------------------------------------------

-----------------------------------------------------------------------------
(* FARs: add_create_far, add_update_far and their parsers.                 *)

(* An Outer Header Creation.                                               *)
OhcParams == [teid : Nat, peer_addr : Nat]
(* Forwarding Parameters: the types of its IEs.                            *)
FwdTs == <<PFCP_IE_DESTINATION_INTERFACE, PFCP_IE_OUTER_HEADER_CREATION>>
(* The values of an Outer Header Creation.                                 *)
OhcValues(o) == [i \in DOMAIN o |-> <<1, o[i].teid, o[i].peer_addr>>]
(* The values of the Forwarding Parameters.                                *)
FwdVss(f) == <<<<<<f.dest_interface>>>>, OhcValues(f.outer_header_creation)>>
(* The octets of the Forwarding Parameters.                                *)
Fwd(f) == Wire(Group(FwdTs, FwdVss(f)))
(* Create/Update FAR: the types of its IEs.                                *)
FarTs(parameters) == <<PFCP_IE_FAR_ID, PFCP_IE_APPLY_ACTION, parameters>>
(* The values of each of them.                                             *)
FarVss(f) == <<<<<<f.far_id>>>>, <<<<f.apply_action>>>>, <<Fwd(f)>>>>

(* The fields of a FAR; an interface fits the four bits it is read with.   *)
LEMMA FarFacts ==
    ASSUME NEW f \in FarParams
    PROVE  /\ f.far_id \in Nat /\ f.apply_action \in Nat /\ f.dest_interface \in Nat
           /\ f.dest_interface % 16 = f.dest_interface
           /\ f.outer_header_creation \in Option(OhcParams)
           /\ f = [far_id |-> f.far_id, apply_action |-> f.apply_action,
                   dest_interface |-> f.dest_interface,
                   outer_header_creation |-> f.outer_header_creation]
BY DEF FarParams, OhcParams, Interfaces

(* The octets of an Outer Header Creation.                                 *)
LEMMA OhcFacts ==
    ASSUME NEW T \in Nat, NEW o \in Option(OhcParams)
    PROVE  /\ OhcValues(o) \in Seq(Values)
           /\ Wire(Listed(T, OhcValues(o))) = FlattenSeq([i \in DOMAIN o |-> append_ie(T, <<1, o[i].teid, o[i].peer_addr>>)])
<1> DEFINE f == OhcValues(o)
<1>1. o \in Seq(OhcParams) /\ \A i \in DOMAIN o : o[i] \in OhcParams
  BY OptionSeq
<1>2. f = [i \in DOMAIN o |-> f[i]]
  BY DEF OhcValues
<1>3. \A i \in DOMAIN o : f[i] = <<1, o[i].teid, o[i].peer_addr>>
  BY DEF OhcValues
<1> HIDE DEF f
<1>4. \A i \in DOMAIN o : o[i].teid \in Nat /\ o[i].peer_addr \in Nat
  BY <1>1 DEF OhcParams
<1>5. \A i \in DOMAIN o : f[i] \in Values
  BY <1>3, <1>4, ShortValues, ZenonT(60)
<1>6. f \in Seq(Values) /\ Wire(Listed(T, f)) = FlattenSeq([i \in DOMAIN o |-> append_ie(T, f[i])])
  BY <1>1, <1>2, <1>5, MappedValues, ZenonT(60)
<1>7. [i \in DOMAIN o |-> append_ie(T, f[i])] = [i \in DOMAIN o |-> append_ie(T, <<1, o[i].teid, o[i].peer_addr>>)]
  BY <1>3
<1>8. QED BY <1>6, <1>7 DEF f

(* The IEs of the Forwarding Parameters are a group.                       *)
LEMMA FwdGroup ==
    ASSUME NEW f \in FarParams
    PROVE  GroupOf(FwdTs, FwdVss(f)) /\ Distinct(FwdTs) /\ Len(FwdTs) = 2 /\ DOMAIN FwdTs = 1..2 /\ Fwd(f) \in Values
<1>1. <<<<f.dest_interface>>>> \in Seq(Values) /\ OhcValues(f.outer_header_creation) \in Seq(Values)
  BY FarFacts, ShortValues, OneValue, OhcFacts
<1>2. FwdVss(f) \in Seq(Seq(Values)) /\ Len(FwdVss(f)) = 2
  BY <1>1 DEF FwdVss
<1>3. FwdTs \in Seq(Nat) /\ Len(FwdTs) = 2 /\ DOMAIN FwdTs = 1..2 /\ Distinct(FwdTs)
  BY DEF Distinct, FwdTs, PFCP_IE_DESTINATION_INTERFACE, PFCP_IE_OUTER_HEADER_CREATION
<1>4. GroupOf(FwdTs, FwdVss(f))
  BY <1>2, <1>3 DEF GroupOf
<1>5. QED BY <1>3, <1>4, GroupRead DEF Fwd

(* The IEs of a FAR are a group.                                           *)
LEMMA FarGroup ==
    ASSUME NEW f \in FarParams,
           NEW T \in {PFCP_IE_FORWARDING_PARAMETERS, PFCP_IE_UPDATE_FORWARDING_PARAMETERS}
    PROVE  GroupOf(FarTs(T), FarVss(f)) /\ Distinct(FarTs(T)) /\ Len(FarTs(T)) = 3 /\ DOMAIN FarTs(T) = 1..3 /\ T \in Nat
<1>1. <<<<f.far_id>>>> \in Seq(Values) /\ <<<<f.apply_action>>>> \in Seq(Values) /\ <<Fwd(f)>> \in Seq(Values)
  BY FarFacts, ShortValues, OneValue, FwdGroup
<1>2. FarVss(f) \in Seq(Seq(Values)) /\ Len(FarVss(f)) = 3
  BY <1>1 DEF FarVss
<1>3. T \in Nat /\ T # PFCP_IE_FAR_ID /\ T # PFCP_IE_APPLY_ACTION
  BY DEF PFCP_IE_FORWARDING_PARAMETERS, PFCP_IE_UPDATE_FORWARDING_PARAMETERS, PFCP_IE_FAR_ID, PFCP_IE_APPLY_ACTION
<1>4. FarTs(T) \in Seq(Nat) /\ Len(FarTs(T)) = 3 /\ DOMAIN FarTs(T) = 1..3 /\ Distinct(FarTs(T))
  BY <1>3 DEF Distinct, FarTs, PFCP_IE_FAR_ID, PFCP_IE_APPLY_ACTION
<1>5. QED BY <1>2, <1>3, <1>4 DEF GroupOf

(* The builder of FARs writes the inner group.                             *)
LEMMA FwdBuilt ==
    ASSUME NEW f \in FarParams
    PROVE  Fwd(f) = append_ie(PFCP_IE_DESTINATION_INTERFACE, <<f.dest_interface>>)
                    \o Given(LAMBDA o : append_ie(PFCP_IE_OUTER_HEADER_CREATION, <<1, o.teid, o.peer_addr>>),
                             f.outer_header_creation)
<1> DEFINE o == f.outer_header_creation
           P(k) == Part(FwdTs, FwdVss(f), k)
           x == append_ie(PFCP_IE_DESTINATION_INTERFACE, <<f.dest_interface>>)
           y == FlattenSeq([i \in DOMAIN o |-> append_ie(PFCP_IE_OUTER_HEADER_CREATION, <<1, o[i].teid, o[i].peer_addr>>)])
<1>1. Fwd(f) = Cat(P(1), P(2))
  BY FwdGroup, Built DEF Fwd
<1>2. P(1) = x
  BY FarFacts, ShortValues, ListedOne DEF Part, FwdTs, FwdVss, PFCP_IE_DESTINATION_INTERFACE
<1>3. P(2) = y
  <2>1. P(2) = Wire(Listed(PFCP_IE_OUTER_HEADER_CREATION, OhcValues(o)))
    BY DEF Part, FwdTs, FwdVss
  <2>2. PFCP_IE_OUTER_HEADER_CREATION \in Nat
    BY DEF PFCP_IE_OUTER_HEADER_CREATION
  <2>3. QED BY <2>1, <2>2, FarFacts, OhcFacts
<1>4. Fwd(f) = Cat(x, y)
  <2> HIDE DEF P, x, y
  <2>1. QED BY <1>1, <1>2, <1>3
<1>5. QED BY <1>4, Zenon DEF Cat, Given, Each

(* The builder of FARs writes the outer group.                             *)
LEMMA FarBuilt ==
    ASSUME NEW f \in FarParams,
           NEW T \in {PFCP_IE_FORWARDING_PARAMETERS, PFCP_IE_UPDATE_FORWARDING_PARAMETERS}
    PROVE  FarFields(f, T) = Wire(Group(FarTs(T), FarVss(f)))
<1> DEFINE P(k) == Part(FarTs(T), FarVss(f), k)
           x == append_ie(PFCP_IE_FAR_ID, <<f.far_id>>)
           y == append_ie(PFCP_IE_APPLY_ACTION, <<f.apply_action>>)
           z == append_ie(T, Fwd(f))
<1>1. Wire(Group(FarTs(T), FarVss(f))) = Cat(Cat(P(1), P(2)), P(3))
  BY FarGroup, Built
<1>2. P(1) = x
  BY FarFacts, ShortValues, ListedOne, ZenonT(60) DEF Part, FarTs, FarVss, PFCP_IE_FAR_ID
<1>3. P(2) = y
  BY FarFacts, ShortValues, ListedOne DEF Part, FarTs, FarVss, PFCP_IE_APPLY_ACTION
<1>4. P(3) = z
  BY FarGroup, FwdGroup, ListedOne DEF Part, FarTs, FarVss
<1>5. Wire(Group(FarTs(T), FarVss(f))) = Cat(Cat(x, y), z)
  <2> HIDE DEF P, x, y, z
  <2>1. QED BY <1>1, <1>2, <1>3, <1>4
<1>6. FarFields(f, T) = Cat(Cat(x, y), z)
  BY FwdBuilt, Zenon DEF Cat, FarFields
<1>7. QED BY <1>5, <1>6

(* The IEs found in a FAR, type by type.                                   *)
LEMMA FarTypes ==
    ASSUME NEW f \in FarParams,
           NEW T \in {PFCP_IE_FORWARDING_PARAMETERS, PFCP_IE_UPDATE_FORWARDING_PARAMETERS}
    PROVE  LET ies == iter_ies(FarFields(f, T))
               fwd == iter_ies(Fwd(f))
           IN  /\ FarFields(f, T) \in Values
               /\ OfType(ies, PFCP_IE_FAR_ID) = Listed(PFCP_IE_FAR_ID, <<<<f.far_id>>>>)
               /\ OfType(ies, PFCP_IE_APPLY_ACTION) = Listed(PFCP_IE_APPLY_ACTION, <<<<f.apply_action>>>>)
               /\ OfType(ies, T) = Listed(T, <<Fwd(f)>>)
               /\ OfType(fwd, PFCP_IE_DESTINATION_INTERFACE) = Listed(PFCP_IE_DESTINATION_INTERFACE, <<<<f.dest_interface>>>>)
               /\ OfType(fwd, PFCP_IE_OUTER_HEADER_CREATION)
                     = Listed(PFCP_IE_OUTER_HEADER_CREATION, OhcValues(f.outer_header_creation))
<1> DEFINE ts == FarTs(T)
           vss == FarVss(f)
           g == Group(ts, vss)
           us == FwdTs
           wss == FwdVss(f)
           h == Group(us, wss)
<1>1. FarFields(f, T) \in Values /\ iter_ies(FarFields(f, T)) = g
  BY FarGroup, FarBuilt, GroupRead
<1>2. iter_ies(Fwd(f)) = h
  BY FwdGroup, GroupRead DEF Fwd
<1>3. \A k \in 1..3 : OfType(g, ts[k]) = Listed(ts[k], vss[k])
  BY FarGroup, GroupRead
<1>4. \A k \in 1..2 : OfType(h, us[k]) = Listed(us[k], wss[k])
  BY FwdGroup, GroupRead
<1>5. 1 \in 1..3 /\ 2 \in 1..3 /\ 3 \in 1..3 /\ 1 \in 1..2 /\ 2 \in 1..2
  OBVIOUS
<1> HIDE DEF g, h
<1>6. /\ OfType(g, ts[1]) = Listed(ts[1], vss[1])
      /\ OfType(g, ts[2]) = Listed(ts[2], vss[2])
      /\ OfType(g, ts[3]) = Listed(ts[3], vss[3])
  <2> HIDE DEF ts, vss
  <2>1. QED BY <1>3, <1>5
<1>7. /\ OfType(h, us[1]) = Listed(us[1], wss[1])
      /\ OfType(h, us[2]) = Listed(us[2], wss[2])
  <2> HIDE DEF us, wss
  <2>1. QED BY <1>4, <1>5
<1>8. QED BY <1>1, <1>2, <1>6, <1>7 DEF FarTs, FarVss, FwdTs, FwdVss

(* parse_create_far and parse_update_far read back every FAR that the      *)
(* builders write.                                                         *)
LEMMA FarRead ==
    ASSUME NEW f \in FarParams,
           NEW T \in {PFCP_IE_FORWARDING_PARAMETERS, PFCP_IE_UPDATE_FORWARDING_PARAMETERS}
    PROVE  ParseFar(FarFields(f, T), T) = <<AsFar(f)>>
<1> DEFINE ies == iter_ies(FarFields(f, T))
           fwd == Inside(ies, T)
           acts == OfType(ies, PFCP_IE_APPLY_ACTION)
           ohcs == OfType(fwd, PFCP_IE_OUTER_HEADER_CREATION)
           dest == LastId(fwd, PFCP_IE_DESTINATION_INTERFACE)
           o == f.outer_header_creation
           rd == Parsed(parse_outer_header_creation, ohcs)
<1>1. /\ OfType(ies, PFCP_IE_FAR_ID) = Listed(PFCP_IE_FAR_ID, <<<<f.far_id>>>>)
      /\ acts = Listed(PFCP_IE_APPLY_ACTION, <<<<f.apply_action>>>>)
      /\ OfType(ies, T) = Listed(T, <<Fwd(f)>>)
      /\ OfType(iter_ies(Fwd(f)), PFCP_IE_DESTINATION_INTERFACE) = Listed(PFCP_IE_DESTINATION_INTERFACE, <<<<f.dest_interface>>>>)
      /\ OfType(iter_ies(Fwd(f)), PFCP_IE_OUTER_HEADER_CREATION) = Listed(PFCP_IE_OUTER_HEADER_CREATION, OhcValues(o))
  BY FarTypes
<1>2. T \in Nat /\ Fwd(f) \in Values
  BY FarGroup, FwdGroup
<1> HIDE DEF ies, acts, ohcs
<1>3. fwd = iter_ies(Fwd(f))
  BY <1>1, <1>2, InsideOne
<1> HIDE DEF fwd
<1>4. LastField(ies, PFCP_IE_FAR_ID, 0) = f.far_id
  BY <1>1, FarFacts, ReadField DEF PFCP_IE_FAR_ID
<1>5. AllParse(parse_apply_action, acts) /\ LastField(acts, PFCP_IE_APPLY_ACTION, 0) = f.apply_action
  <2> DEFINE v == <<f.apply_action>>
             y == Ie(PFCP_IE_APPLY_ACTION, v)
  <2>0. v \in Values /\ PFCP_IE_APPLY_ACTION \in Nat /\ acts = Listed(PFCP_IE_APPLY_ACTION, <<v>>)
    BY <1>1, FarFacts, ShortValues DEF PFCP_IE_APPLY_ACTION
  <2>1. acts = <<y>> /\ y.value = v
    <3> HIDE DEF v
    <3>1. QED BY <2>0, ListedOne, IeFacts
  <2>2. parse_apply_action(v) # Err
    BY DEF parse_apply_action, Ok, Err
  <2>3. OfType(acts, PFCP_IE_APPLY_ACTION) = Listed(PFCP_IE_APPLY_ACTION, <<<<f.apply_action>>>>)
    BY <1>1, FarFacts, ShortValues, OneValue, ListedOfType DEF PFCP_IE_APPLY_ACTION
  <2>4. LastField(acts, PFCP_IE_APPLY_ACTION, 0) = f.apply_action
    BY <2>3, FarFacts, ReadField DEF PFCP_IE_APPLY_ACTION
  <2> HIDE DEF v, y
  <2>5. AllParse(parse_apply_action, acts)
    BY <2>1, <2>2 DEF AllParse
  <2>6. QED BY <2>4, <2>5
<1>6. dest = <<f.dest_interface>>
  <2>1. PFCP_IE_DESTINATION_INTERFACE \in Nat
    BY DEF PFCP_IE_DESTINATION_INTERFACE
  <2>2. QED BY <1>1, <1>3, <2>1, FarFacts, ReadField
<1>7. [i \in DOMAIN dest |-> dest[i] % 16] = <<f.dest_interface>>
  <2>1. f.dest_interface % 16 = f.dest_interface
    BY FarFacts
  <2>2. QED BY <1>6, <2>1
<1>8. AllParse(parse_outer_header_creation, ohcs) /\ LastOf(rd) = o
  <2>0. ohcs = Listed(PFCP_IE_OUTER_HEADER_CREATION, OhcValues(o)) /\ o \in Option(OhcParams)
    BY <1>1, <1>3, FarFacts DEF ohcs
  <2> HIDE DEF o
  <2>1. CASE o = <<>>
    <3>1. OhcValues(o) = <<>>
      BY <2>1 DEF OhcValues
    <3>2. ohcs = <<>>
      BY <2>0, <3>1, ListedNone
    <3>3. QED BY <2>1, <3>2 DEF AllParse, Parsed, LastOf, None
  <2>2. CASE \E x \in OhcParams : o = <<x>>
    <3>1. PICK x \in OhcParams : o = <<x>>
      BY <2>2
    <3> DEFINE v == <<1, x.teid, x.peer_addr>>
               y == Ie(PFCP_IE_OUTER_HEADER_CREATION, v)
    <3>a. x.teid \in Nat /\ x.peer_addr \in Nat /\ x = [teid |-> x.teid, peer_addr |-> x.peer_addr]
      BY <3>1 DEF OhcParams
    <3>2. OhcValues(o) = <<v>> /\ v \in Values
      BY <3>1, <3>a, ShortValues DEF OhcValues
    <3>3. ohcs = <<y>> /\ y.value = v
      BY <2>0, <3>2, ListedOne, IeFacts DEF PFCP_IE_OUTER_HEADER_CREATION
    <3>4. parse_outer_header_creation(v) = <<x>>
      BY <3>a DEF parse_outer_header_creation, Ok
    <3> HIDE DEF y, v
    <3>5. DOMAIN ohcs = {1} /\ ohcs[1].value = v
      BY <3>3
    <3>6. AllParse(parse_outer_header_creation, ohcs)
      BY <3>4, <3>5 DEF AllParse, Err
    <3>7. rd = <<x>>
      BY <3>3, <3>4 DEF Parsed
    <3>8. QED BY <3>1, <3>6, <3>7, LastOne DEF LastOf, Some
  <2>3. QED BY <2>0, <2>1, <2>2, OptionCases
<1> HIDE DEF rd, dest, o
<1>9. AsFar(f) = [far_id |-> f.far_id, apply_action |-> f.apply_action,
                  dest_interface |-> <<f.dest_interface>>, outer_header_creation |-> o]
  BY FarFacts DEF AsFar, Some, o
<1>10. QED BY <1>4, <1>5, <1>7, <1>8, <1>9 DEF ParseFar, ies, fwd, acts, ohcs, dest, rd, Ok

(* A list of one IE, as the parsers go through it.                         *)
LEMMA OneIe ==
    ASSUME NEW ies, NEW T \in Nat, NEW v \in Values, ies = Listed(T, <<v>>)
    PROVE  /\ ies = <<Ie(T, v)>> /\ ies # <<>> /\ DOMAIN ies = {1}
           /\ ies[1].value = v /\ ies[1].ie_type = T
<1> DEFINE x == Ie(T, v)
<1>1. ies = <<x>>
  BY ListedOne
<1>2. x.value = v /\ x.ie_type = T
  BY IeFacts
<1> HIDE DEF x
<1>3. QED BY <1>1, <1>2 DEF x

(* The IEs nested in an IE.                                                *)
IterOf == [ie \in IE |-> iter_ies(ie.value)]
(* The SDF filters that the parser of a PDR collects from one of its IEs.  *)
SdfOf == [ie \in IE |-> OfType(IF ie.ie_type = PFCP_IE_PDI THEN iter_ies(ie.value) ELSE <<ie>>,
                               PFCP_IE_SDF_FILTER)]

(* The nested IEs of an IE are a list of IEs.                              *)
LEMMA IterOfType == IterOf \in [IE -> Seq(IE)]
<1>1. ASSUME NEW x \in IE PROVE iter_ies(x.value) \in Seq(IE)
  BY IterType DEF IE
<1>2. QED BY <1>1 DEF IterOf

(* The SDF filters of an IE are a list of IEs.                             *)
LEMMA SdfOfType == SdfOf \in [IE -> Seq(IE)]
<1>1. ASSUME NEW x \in IE
      PROVE OfType(IF x.ie_type = PFCP_IE_PDI THEN iter_ies(x.value) ELSE <<x>>, PFCP_IE_SDF_FILTER) \in Seq(IE)
  <2>1. iter_ies(x.value) \in Seq(IE) /\ <<x>> \in Seq(IE)
    BY IterType DEF IE
  <2>2. QED BY <2>1, OfTypeFacts
<1>2. QED BY <1>1 DEF SdfOf

(* Inside goes through the IEs of a type.                                  *)
LEMMA InsideIsEach ==
    ASSUME NEW ies \in Seq(IE), NEW T
    PROVE  Inside(ies, T) = EachOf(IterOf, OfType(ies, T))
<1> DEFINE o == OfType(ies, T)
<1>1. o \in Seq(IE)
  BY OfTypeFacts
<1> HIDE DEF o
<1>2. \A i \in DOMAIN o : o[i] \in IE
  BY <1>1
<1>3. \A i \in DOMAIN o : iter_ies(o[i].value) = IterOf[o[i]]
  BY <1>2 DEF IterOf
<1>4. [i \in DOMAIN o |-> iter_ies(o[i].value)] = [i \in DOMAIN o |-> IterOf[o[i]]]
  BY <1>3
<1>5. QED BY <1>4 DEF Inside, Each, EachOf, o

(* SdfFilters goes through all IEs.                                        *)
LEMMA SdfIsEach ==
    ASSUME NEW ies \in Seq(IE)
    PROVE  SdfFilters(ies) = EachOf(SdfOf, ies)
<1> DEFINE F(ie) == OfType(IF ie.ie_type = PFCP_IE_PDI THEN iter_ies(ie.value) ELSE <<ie>>, PFCP_IE_SDF_FILTER)
<1>1. \A i \in DOMAIN ies : ies[i] \in IE
  OBVIOUS
<1>2. \A x \in IE : F(x) = SdfOf[x]
  BY DEF SdfOf
<1>a. SdfFilters(ies) = FlattenSeq([i \in DOMAIN ies |-> F(ies[i])])
  BY DEF SdfFilters, Each
<1> HIDE DEF F
<1>3. [i \in DOMAIN ies |-> F(ies[i])] = [i \in DOMAIN ies |-> SdfOf[ies[i]]]
  BY <1>1, <1>2
<1>4. QED BY <1>a, <1>3 DEF EachOf

(* EachOfFacts, for Cat.                                                   *)
LEMMA EachOfCat ==
    ASSUME NEW S, NEW R, NEW g \in [S -> Seq(R)]
    PROVE  /\ EachOf(g, <<>>) = <<>>
           /\ \A x \in S : EachOf(g, <<x>>) = g[x]
           /\ \A a, b \in Seq(S) : EachOf(g, Cat(a, b)) = Cat(EachOf(g, a), EachOf(g, b))
           /\ \A a \in Seq(S) : EachOf(g, a) \in Seq(R)
BY EachOfFacts DEF Cat

(* SDF filters that stand in the PDI only are those of the PDI.            *)
LEMMA SdfInside ==
    ASSUME NEW ies \in Seq(IE), OfType(ies, PFCP_IE_SDF_FILTER) = <<>>
    PROVE  SdfFilters(ies) = OfType(Inside(ies, PFCP_IE_PDI), PFCP_IE_SDF_FILTER)
<1> DEFINE Q == PFCP_IE_SDF_FILTER
           D == PFCP_IE_PDI
           G(s) == EachOf(SdfOf, s)
           H(s) == EachOf(IterOf, s)
           O(s) == OfType(s, Q)
           K(s) == OfType(s, D)
           P == {s \in Seq(IE) : O(s) = <<>> => G(s) = O(H(K(s)))}
<1>1. /\ G(<<>>) = <<>> /\ \A x \in IE : G(<<x>>) = SdfOf[x]
      /\ \A a, b \in Seq(IE) : G(Cat(a, b)) = Cat(G(a), G(b))
      /\ \A a \in Seq(IE) : G(a) \in Seq(IE)
  BY SdfOfType, EachOfCat
<1>2. /\ H(<<>>) = <<>> /\ \A x \in IE : H(<<x>>) = IterOf[x]
      /\ \A a, b \in Seq(IE) : H(Cat(a, b)) = Cat(H(a), H(b))
      /\ \A a \in Seq(IE) : H(a) \in Seq(IE)
  BY IterOfType, EachOfCat
<1>3. /\ O(<<>>) = <<>> /\ \A x \in IE : O(<<x>>) = If(x.ie_type = Q, <<x>>)
      /\ \A a, b \in Seq(IE) : O(Cat(a, b)) = Cat(O(a), O(b))
      /\ \A a \in Seq(IE) : O(a) \in Seq(IE)
  BY OfTypeFacts
<1>4. /\ K(<<>>) = <<>> /\ \A x \in IE : K(<<x>>) = If(x.ie_type = D, <<x>>)
      /\ \A a, b \in Seq(IE) : K(Cat(a, b)) = Cat(K(a), K(b))
      /\ \A a \in Seq(IE) : K(a) \in Seq(IE)
  BY OfTypeFacts
<1>5. \A x \in IE : SdfOf[x] = O(IF x.ie_type = D THEN IterOf[x] ELSE <<x>>) /\ IterOf[x] \in Seq(IE)
  BY IterOfType DEF SdfOf, IterOf
<1>6. D # Q
  BY DEF PFCP_IE_PDI, PFCP_IE_SDF_FILTER
<1>e. <<>> \in Seq(IE)
  OBVIOUS
<1> HIDE DEF Q, D, G, H, O, K
<1>7. <<>> \in P
  BY <1>1, <1>2, <1>3, <1>4, <1>e
<1>8. ASSUME NEW s \in Seq(IE), NEW x \in IE, s \in P PROVE s \o <<x>> \in P
  <2> DEFINE y == <<x>>
             t == Cat(s, y)
  <2>0. /\ y \in Seq(IE) /\ G(y) = SdfOf[x] /\ H(y) = IterOf[x]
        /\ K(y) = If(x.ie_type = D, y) /\ O(y) \in Seq(IE) /\ O(s) \in Seq(IE)
        /\ K(y) \in Seq(IE) /\ K(s) \in Seq(IE)
    <3>1. y \in Seq(IE)
      OBVIOUS
    <3>2. G(y) = SdfOf[x]
      BY <1>1
    <3>3. H(y) = IterOf[x]
      BY <1>2
    <3>4. K(y) = If(x.ie_type = D, y)
      BY <1>4
    <3> HIDE DEF y
    <3>5. O(y) \in Seq(IE) /\ O(s) \in Seq(IE) /\ K(y) \in Seq(IE) /\ K(s) \in Seq(IE)
      BY <1>3, <1>4, <3>1
    <3>6. QED BY <3>1, <3>2, <3>3, <3>4, <3>5
  <2>1. t = s \o <<x>> /\ t \in Seq(IE)
    BY DEF Cat
  <2>2. SUFFICES ASSUME O(t) = <<>> PROVE G(t) = O(H(K(t)))
    BY <2>1
  <2> HIDE DEF y
  <2>3. O(t) = Cat(O(s), O(y)) /\ G(t) = Cat(G(s), G(y)) /\ K(t) = Cat(K(s), K(y))
    BY <1>1, <1>3, <1>4, <2>0
  <2> HIDE DEF t
  <2>4. O(s) = <<>> /\ O(y) = <<>>
    <3> DEFINE a == O(s)
               b == O(y)
    <3>1. a \in Seq(IE) /\ b \in Seq(IE) /\ Cat(a, b) = <<>>
      BY <2>0, <2>2, <2>3
    <3> HIDE DEF a, b
    <3>2. a = <<>> /\ b = <<>>
      BY <3>1, CatEmpty
    <3>3. QED BY <3>2 DEF a, b
  <2>5. G(s) = O(H(K(s)))
    BY <1>8, <2>4
  <2>6. H(K(s)) \in Seq(IE) /\ H(K(y)) \in Seq(IE)
    BY <1>2, <2>0
  <2>8. H(K(t)) = Cat(H(K(s)), H(K(y)))
    BY <1>2, <2>0, <2>3
  <2>9. O(H(K(t))) = Cat(O(H(K(s))), O(H(K(y))))
    BY <1>3, <2>6, <2>8
  <2>10. SdfOf[x] = O(H(K(y)))
    <3>1. CASE x.ie_type = D
      <4>1. H(K(y)) = IterOf[x]
        BY <2>0, <3>1 DEF If
      <4>3. QED BY <1>5, <3>1, <4>1
    <3>2. CASE x.ie_type # D
      <4>1. K(y) = <<>>
        BY <2>0, <3>2 DEF If
      <4>2. O(H(K(y))) = <<>>
        BY <1>2, <1>3, <4>1
      <4>3. QED BY <1>5, <2>4, <3>2, <4>2 DEF y
    <3>3. QED BY <3>1, <3>2
  <2>11. QED BY <2>0, <2>3, <2>5, <2>9, <2>10
<1>9. Seq(IE) \subseteq P
  <2> HIDE DEF P
  <2>1. QED BY <1>7, <1>8, SeqInduction
<1>10. G(ies) = O(H(K(ies)))
  BY <1>9 DEF O, Q
<1>11. K(ies) = OfType(ies, PFCP_IE_PDI)
  BY DEF K, D
<1>12. QED BY <1>10, <1>11, SdfIsEach, InsideIsEach DEF G, H, O, Q

-----------------------------------------------------------------------------
(* PDRs: add_create_pdr and parse_create_pdr.                              *)

(* The PDI of a PDR: the types of its IEs.                                 *)
PdiTs == <<PFCP_IE_SOURCE_INTERFACE, PFCP_IE_FTEID, PFCP_IE_UE_IP_ADDRESS, PFCP_IE_SDF_FILTER>>
(* The value of an IE that is written when a flag is set.                  *)
FlagValues(flag, v) == IF flag THEN <<v>> ELSE <<>>
(* The values of an SDF Filter.                                            *)
SdfValues(o) == [i \in DOMAIN o |-> <<o[i].proto, o[i].src_ip, o[i].dst_ip, o[i].src_port, o[i].dst_port>>]
(* The values of a UE IP Address.                                          *)
UeValues(o) == [i \in DOMAIN o |-> <<2, o[i]>>]
(* The values of an IE of one field.                                       *)
IdValues(o) == [i \in DOMAIN o |-> <<o[i]>>]
(* The values of the PDI's IEs.                                            *)
PdiVss(p) == <<<<<<p.source_interface>>>>, FlagValues(p.fteid_choose, <<4, 0>>),
               UeValues(p.ue_ip), SdfValues(p.sdf_filter)>>
(* Create PDR: the types of its IEs, in the order add_create_pdr writes    *)
(* them.                                                                   *)
PdrTs == <<PFCP_IE_PDR_ID, PFCP_IE_PRECEDENCE, PFCP_IE_PDI, PFCP_IE_FAR_ID, PFCP_IE_URR_ID,
           PFCP_IE_OUTER_HEADER_REMOVAL>>
(* The values of each of them.                                             *)
PdrVss(p) == <<<<<<p.pdr_id>>>>, <<<<p.precedence>>>>, <<PdiOf(p)>>, <<<<p.far_id>>>>,
               IdValues(p.urr_id), FlagValues(p.outer_header_removal, <<0>>)>>
(* The octets of a PDR.                                                    *)
PdrFields(p) == Wire(Group(PdrTs, PdrVss(p)))

(* The fields of a PDR; an interface fits the four bits it is read with.   *)
LEMMA PdrFacts ==
    ASSUME NEW p \in PdrParams
    PROVE  /\ p.pdr_id \in Nat /\ p.precedence \in Nat /\ p.source_interface \in Nat /\ p.far_id \in Nat
           /\ p.source_interface % 16 = p.source_interface
           /\ p.fteid_choose \in BOOLEAN /\ p.outer_header_removal \in BOOLEAN
           /\ p.ue_ip \in Option(Nat) /\ p.urr_id \in Option(Nat)
           /\ p.sdf_filter \in Option(SdfFilterParams)
BY DEF PdrParams, Interfaces

(* The octets of an IE that depends on a flag.                             *)
LEMMA FlagFacts ==
    ASSUME NEW T \in Nat, NEW v \in Values, NEW flag
    PROVE  /\ FlagValues(flag, v) \in Seq(Values)
           /\ Wire(Listed(T, FlagValues(flag, v))) = If(flag, append_ie(T, v))
<1>1. CASE flag
  BY <1>1, ListedOne, OneValue DEF FlagValues, If
<1>2. CASE ~flag
  BY <1>2, ListedNone DEF FlagValues, If
<1>3. QED BY <1>1, <1>2

(* The octets of an SDF Filter.                                            *)
LEMMA SdfFacts ==
    ASSUME NEW T \in Nat, NEW o \in Option(SdfFilterParams)
    PROVE  /\ SdfValues(o) \in Seq(Values)
           /\ Wire(Listed(T, SdfValues(o))) = FlattenSeq([i \in DOMAIN o |->
                append_ie(T, <<o[i].proto, o[i].src_ip, o[i].dst_ip, o[i].src_port, o[i].dst_port>>)])
<1> DEFINE f == SdfValues(o)
           V(x) == <<x.proto, x.src_ip, x.dst_ip, x.src_port, x.dst_port>>
<1>1. o \in Seq(SdfFilterParams) /\ \A i \in DOMAIN o : o[i] \in SdfFilterParams
  BY OptionSeq
<1>2. f = [i \in DOMAIN o |-> f[i]] /\ \A i \in DOMAIN o : f[i] = V(o[i])
  BY DEF SdfValues
<1>3. \A x \in SdfFilterParams : V(x) \in Values
  BY ShortValues DEF SdfFilterParams
<1> HIDE DEF f, V
<1>4. \A i \in DOMAIN o : f[i] \in Values
  BY <1>1, <1>2, <1>3
<1>5. f \in Seq(Values) /\ Wire(Listed(T, f)) = FlattenSeq([i \in DOMAIN o |-> append_ie(T, f[i])])
  BY <1>1, <1>2, <1>4, MappedValues, SMTT(60)
<1>6. [i \in DOMAIN o |-> append_ie(T, f[i])] = [i \in DOMAIN o |-> append_ie(T, V(o[i]))]
  BY <1>2
<1>7. QED BY <1>5, <1>6 DEF f, V

(* The octets of an IE of one field, and of a UE IP Address.               *)
LEMMA IdFacts ==
    ASSUME NEW T \in Nat, NEW o \in Option(Nat)
    PROVE  /\ IdValues(o) \in Seq(Values) /\ UeValues(o) \in Seq(Values)
           /\ Wire(Listed(T, IdValues(o))) = FlattenSeq([i \in DOMAIN o |-> append_ie(T, <<o[i]>>)])
           /\ Wire(Listed(T, UeValues(o))) = FlattenSeq([i \in DOMAIN o |-> append_ie(T, <<2, o[i]>>)])
BY OptionValues DEF IdValues, UeValues

(* The IEs of a PDI are a group.                                           *)
LEMMA PdiGroup ==
    ASSUME NEW p \in PdrParams
    PROVE  GroupOf(PdiTs, PdiVss(p)) /\ Distinct(PdiTs) /\ Len(PdiTs) = 4 /\ DOMAIN PdiTs = 1..4
<1>1. <<<<p.source_interface>>>> \in Seq(Values)
  BY PdrFacts, ShortValues, OneValue
<1>2. FlagValues(p.fteid_choose, <<4, 0>>) \in Seq(Values)
  <2>1. 0 \in Nat /\ <<4, 0>> \in Values
    BY ShortValues
  <2>2. QED BY <2>1, FlagFacts
<1>3. UeValues(p.ue_ip) \in Seq(Values) /\ SdfValues(p.sdf_filter) \in Seq(Values)
  <2>1. 0 \in Nat
    OBVIOUS
  <2>2. QED BY <2>1, PdrFacts, IdFacts, SdfFacts
<1>4. PdiVss(p) \in Seq(Seq(Values)) /\ Len(PdiVss(p)) = 4
  BY <1>1, <1>2, <1>3 DEF PdiVss
<1>5. PdiTs \in Seq(Nat) /\ Len(PdiTs) = 4 /\ DOMAIN PdiTs = 1..4 /\ Distinct(PdiTs)
  BY DEF Distinct, PdiTs, PFCP_IE_SOURCE_INTERFACE, PFCP_IE_FTEID, PFCP_IE_UE_IP_ADDRESS, PFCP_IE_SDF_FILTER
<1>6. QED BY <1>4, <1>5 DEF GroupOf

(* add_create_pdr writes the PDI's group.                                  *)
LEMMA PdiBuilt ==
    ASSUME NEW p \in PdrParams
    PROVE  PdiOf(p) = Wire(Group(PdiTs, PdiVss(p))) /\ PdiOf(p) \in Values
<1> DEFINE ue == p.ue_ip
           sdf == p.sdf_filter
           P(k) == Part(PdiTs, PdiVss(p), k)
           x1 == append_ie(PFCP_IE_SOURCE_INTERFACE, <<p.source_interface>>)
           x2 == If(p.fteid_choose, append_ie(PFCP_IE_FTEID, <<4, 0>>))
           x3 == FlattenSeq([i \in DOMAIN ue |-> append_ie(PFCP_IE_UE_IP_ADDRESS, <<2, ue[i]>>)])
           x4 == FlattenSeq([i \in DOMAIN sdf |-> append_ie(PFCP_IE_SDF_FILTER,
                     <<sdf[i].proto, sdf[i].src_ip, sdf[i].dst_ip, sdf[i].src_port, sdf[i].dst_port>>)])
<1>0. PFCP_IE_SOURCE_INTERFACE \in Nat /\ PFCP_IE_FTEID \in Nat /\ PFCP_IE_UE_IP_ADDRESS \in Nat /\ PFCP_IE_SDF_FILTER \in Nat
  BY DEF PFCP_IE_SOURCE_INTERFACE, PFCP_IE_FTEID, PFCP_IE_UE_IP_ADDRESS, PFCP_IE_SDF_FILTER
<1>1. Wire(Group(PdiTs, PdiVss(p))) = Cat(Cat(Cat(P(1), P(2)), P(3)), P(4))
  BY PdiGroup, Built
<1>2. P(1) = x1
  BY <1>0, PdrFacts, ShortValues, ListedOne DEF Part, PdiTs, PdiVss
<1>3. P(2) = x2
  <2> DEFINE v == <<4, 0>>
  <2>1. v \in Values
    BY ShortValues
  <2>2. P(2) = Wire(Listed(PFCP_IE_FTEID, FlagValues(p.fteid_choose, v)))
    BY DEF Part, PdiTs, PdiVss
  <2> HIDE DEF v, P
  <2>3. QED BY <1>0, <2>1, <2>2, FlagFacts DEF v
<1>4. P(3) = x3
  <2>1. P(3) = Wire(Listed(PFCP_IE_UE_IP_ADDRESS, UeValues(ue)))
    BY DEF Part, PdiTs, PdiVss
  <2>2. ue \in Option(Nat)
    BY PdrFacts
  <2> HIDE DEF P, ue
  <2>3. QED BY <1>0, <2>1, <2>2, IdFacts
<1>5. P(4) = x4
  <2>1. P(4) = Wire(Listed(PFCP_IE_SDF_FILTER, SdfValues(sdf)))
    BY DEF Part, PdiTs, PdiVss
  <2>2. sdf \in Option(SdfFilterParams)
    BY PdrFacts
  <2> HIDE DEF P, sdf
  <2>3. QED BY <1>0, <2>1, <2>2, SdfFacts
<1>6. Wire(Group(PdiTs, PdiVss(p))) = Cat(Cat(Cat(x1, x2), x3), x4)
  <2> HIDE DEF P, x1, x2, x3, x4
  <2>1. QED BY <1>1, <1>2, <1>3, <1>4, <1>5
<1>7. PdiOf(p) = Cat(Cat(Cat(x1, x2), x3), x4)
  BY Zenon DEF PdiOf, Cat, Given, Each
<1>8. QED BY <1>6, <1>7, PdiGroup, GroupRead

(* The IEs of a PDR are a group.                                           *)
LEMMA PdrGroup ==
    ASSUME NEW p \in PdrParams
    PROVE  GroupOf(PdrTs, PdrVss(p)) /\ Distinct(PdrTs) /\ Len(PdrTs) = 6 /\ DOMAIN PdrTs = 1..6
<1>1. <<<<p.pdr_id>>>> \in Seq(Values) /\ <<<<p.precedence>>>> \in Seq(Values) /\ <<<<p.far_id>>>> \in Seq(Values)
  BY PdrFacts, ShortValues, OneValue
<1>2. <<PdiOf(p)>> \in Seq(Values)
  BY PdiBuilt, OneValue
<1>3. IdValues(p.urr_id) \in Seq(Values) /\ FlagValues(p.outer_header_removal, <<0>>) \in Seq(Values)
  <2>1. 0 \in Nat /\ <<0>> \in Values
    BY ShortValues
  <2>2. QED BY <2>1, PdrFacts, IdFacts, FlagFacts
<1>4. PdrVss(p) \in Seq(Seq(Values)) /\ Len(PdrVss(p)) = 6
  BY <1>1, <1>2, <1>3 DEF PdrVss
<1>5. PdrTs \in Seq(Nat) /\ Len(PdrTs) = 6 /\ DOMAIN PdrTs = 1..6 /\ Distinct(PdrTs)
  BY DEF Distinct, PdrTs, PFCP_IE_PDR_ID, PFCP_IE_PRECEDENCE, PFCP_IE_PDI, PFCP_IE_FAR_ID, PFCP_IE_URR_ID,
         PFCP_IE_OUTER_HEADER_REMOVAL
<1>6. QED BY <1>4, <1>5 DEF GroupOf

(* add_create_pdr writes the PDR's group.                                  *)
LEMMA PdrBuilt ==
    ASSUME NEW p \in PdrParams
    PROVE  add_create_pdr(p) = append_ie(PFCP_IE_CREATE_PDR, PdrFields(p))
<1> DEFINE urr == p.urr_id
           P(k) == Part(PdrTs, PdrVss(p), k)
           x1 == append_ie(PFCP_IE_PDR_ID, <<p.pdr_id>>)
           x2 == append_ie(PFCP_IE_PRECEDENCE, <<p.precedence>>)
           x3 == append_ie(PFCP_IE_PDI, PdiOf(p))
           x4 == append_ie(PFCP_IE_FAR_ID, <<p.far_id>>)
           x5 == FlattenSeq([i \in DOMAIN urr |-> append_ie(PFCP_IE_URR_ID, <<urr[i]>>)])
           x6 == If(p.outer_header_removal, append_ie(PFCP_IE_OUTER_HEADER_REMOVAL, <<0>>))
<1>0. /\ PFCP_IE_PDR_ID \in Nat /\ PFCP_IE_PRECEDENCE \in Nat /\ PFCP_IE_PDI \in Nat /\ PFCP_IE_FAR_ID \in Nat
      /\ PFCP_IE_URR_ID \in Nat /\ PFCP_IE_OUTER_HEADER_REMOVAL \in Nat
  BY DEF PFCP_IE_PDR_ID, PFCP_IE_PRECEDENCE, PFCP_IE_PDI, PFCP_IE_FAR_ID, PFCP_IE_URR_ID,
         PFCP_IE_OUTER_HEADER_REMOVAL
<1>1. PdrFields(p) = Cat(Cat(Cat(Cat(Cat(P(1), P(2)), P(3)), P(4)), P(5)), P(6))
  BY PdrGroup, Built DEF PdrFields
<1>2. P(1) = x1
  BY <1>0, PdrFacts, ShortValues, ListedOne DEF Part, PdrTs, PdrVss
<1>3. P(2) = x2
  BY <1>0, PdrFacts, ShortValues, ListedOne DEF Part, PdrTs, PdrVss
<1>4. P(3) = x3
  BY <1>0, PdiBuilt, ListedOne DEF Part, PdrTs, PdrVss
<1>5. P(4) = x4
  BY <1>0, PdrFacts, ShortValues, ListedOne DEF Part, PdrTs, PdrVss
<1>6. P(5) = x5
  <2>1. P(5) = Wire(Listed(PFCP_IE_URR_ID, IdValues(urr)))
    BY DEF Part, PdrTs, PdrVss
  <2>2. urr \in Option(Nat)
    BY PdrFacts
  <2> HIDE DEF P, urr
  <2>3. QED BY <1>0, <2>1, <2>2, IdFacts
<1>7. P(6) = x6
  <2> DEFINE v == <<0>>
  <2>1. v \in Values
    BY ShortValues
  <2>2. P(6) = Wire(Listed(PFCP_IE_OUTER_HEADER_REMOVAL, FlagValues(p.outer_header_removal, v)))
    BY DEF Part, PdrTs, PdrVss
  <2> HIDE DEF v, P
  <2>3. QED BY <1>0, <2>1, <2>2, FlagFacts DEF v
<1>8. PdrFields(p) = Cat(Cat(Cat(Cat(Cat(x1, x2), x3), x4), x5), x6)
  <2> HIDE DEF P, x1, x2, x3, x4, x5, x6
  <2>1. QED BY <1>1, <1>2, <1>3, <1>4, <1>5, <1>6, <1>7
<1>9. add_create_pdr(p) = append_ie(PFCP_IE_CREATE_PDR, Cat(Cat(Cat(Cat(Cat(x1, x2), x3), x4), x5), x6))
  BY Zenon DEF add_create_pdr, Cat, Given, Each
<1>10. QED BY <1>8, <1>9

(* The IEs found in a PDI, type by type.                                   *)
LEMMA PdiTypes ==
    ASSUME NEW p \in PdrParams
    PROVE  LET ies == iter_ies(PdiOf(p))
           IN  /\ OfType(ies, PFCP_IE_SOURCE_INTERFACE) = Listed(PFCP_IE_SOURCE_INTERFACE, <<<<p.source_interface>>>>)
               /\ OfType(ies, PFCP_IE_FTEID) = Listed(PFCP_IE_FTEID, FlagValues(p.fteid_choose, <<4, 0>>))
               /\ OfType(ies, PFCP_IE_UE_IP_ADDRESS) = Listed(PFCP_IE_UE_IP_ADDRESS, UeValues(p.ue_ip))
               /\ OfType(ies, PFCP_IE_SDF_FILTER) = Listed(PFCP_IE_SDF_FILTER, SdfValues(p.sdf_filter))
<1> DEFINE ts == PdiTs
           vss == PdiVss(p)
           g == Group(ts, vss)
<1>1. iter_ies(PdiOf(p)) = g
  BY PdiGroup, PdiBuilt, GroupRead
<1>2. \A k \in 1..4 : OfType(g, ts[k]) = Listed(ts[k], vss[k])
  BY PdiGroup, GroupRead
<1>3. 1 \in 1..4 /\ 2 \in 1..4 /\ 3 \in 1..4 /\ 4 \in 1..4
  OBVIOUS
<1> HIDE DEF g
<1>4. /\ OfType(g, ts[1]) = Listed(ts[1], vss[1])
      /\ OfType(g, ts[2]) = Listed(ts[2], vss[2])
      /\ OfType(g, ts[3]) = Listed(ts[3], vss[3])
      /\ OfType(g, ts[4]) = Listed(ts[4], vss[4])
  <2> HIDE DEF ts, vss
  <2>1. QED BY <1>2, <1>3
<1>5. QED BY <1>1, <1>4 DEF PdiTs, PdiVss

(* The IEs found in a PDR, type by type.                                   *)
LEMMA PdrTypes ==
    ASSUME NEW p \in PdrParams
    PROVE  LET ies == iter_ies(PdrFields(p))
           IN  /\ PdrFields(p) \in Values
               /\ OfType(ies, PFCP_IE_PDR_ID) = Listed(PFCP_IE_PDR_ID, <<<<p.pdr_id>>>>)
               /\ OfType(ies, PFCP_IE_PRECEDENCE) = Listed(PFCP_IE_PRECEDENCE, <<<<p.precedence>>>>)
               /\ OfType(ies, PFCP_IE_PDI) = Listed(PFCP_IE_PDI, <<PdiOf(p)>>)
               /\ OfType(ies, PFCP_IE_FAR_ID) = Listed(PFCP_IE_FAR_ID, <<<<p.far_id>>>>)
               /\ OfType(ies, PFCP_IE_URR_ID) = Listed(PFCP_IE_URR_ID, IdValues(p.urr_id))
               /\ OfType(ies, PFCP_IE_OUTER_HEADER_REMOVAL)
                     = Listed(PFCP_IE_OUTER_HEADER_REMOVAL, FlagValues(p.outer_header_removal, <<0>>))
               /\ OfType(ies, PFCP_IE_SDF_FILTER) = <<>> /\ ies \in Seq(IE)
<1> DEFINE ts == PdrTs
           vss == PdrVss(p)
           g == Group(ts, vss)
<1>1. PdrFields(p) \in Values /\ iter_ies(PdrFields(p)) = g /\ g \in Seq(IE)
  BY PdrGroup, GroupRead, GroupType DEF PdrFields
<1>2. \A k \in 1..6 : OfType(g, ts[k]) = Listed(ts[k], vss[k])
  BY PdrGroup, GroupRead
<1>3. 1 \in 1..6 /\ 2 \in 1..6 /\ 3 \in 1..6 /\ 4 \in 1..6 /\ 5 \in 1..6 /\ 6 \in 1..6
  OBVIOUS
<1>a. OfType(g, PFCP_IE_SDF_FILTER) = <<>>
  <2>1. \A k \in DOMAIN ts : ts[k] # PFCP_IE_SDF_FILTER
    BY DEF PdrTs, PFCP_IE_PDR_ID, PFCP_IE_PRECEDENCE, PFCP_IE_PDI, PFCP_IE_FAR_ID, PFCP_IE_URR_ID,
         PFCP_IE_OUTER_HEADER_REMOVAL, PFCP_IE_SDF_FILTER
  <2> HIDE DEF ts, vss
  <2>2. QED BY <2>1, PdrGroup, GroupRead DEF ts, vss
<1> HIDE DEF g
<1>4. /\ OfType(g, ts[1]) = Listed(ts[1], vss[1])
      /\ OfType(g, ts[2]) = Listed(ts[2], vss[2])
      /\ OfType(g, ts[3]) = Listed(ts[3], vss[3])
      /\ OfType(g, ts[4]) = Listed(ts[4], vss[4])
      /\ OfType(g, ts[5]) = Listed(ts[5], vss[5])
      /\ OfType(g, ts[6]) = Listed(ts[6], vss[6])
  <2> HIDE DEF ts, vss
  <2>1. QED BY <1>2, <1>3
<1>5. QED BY <1>1, <1>4, <1>a DEF PdrTs, PdrVss

(* The SDF filter is read as it was written.                               *)
LEMMA SdfRead ==
    ASSUME NEW sdfs, NEW o \in Option(SdfFilterParams), sdfs = Listed(PFCP_IE_SDF_FILTER, SdfValues(o))
    PROVE  AllParse(parse_sdf_filter, sdfs) /\ LastOf(Parsed(parse_sdf_filter, sdfs)) = o
<1> DEFINE rd == Parsed(parse_sdf_filter, sdfs)
<1>1. CASE o = <<>>
  <2>1. SdfValues(o) = <<>>
    BY <1>1 DEF SdfValues
  <2>2. sdfs = <<>>
    BY <2>1, ListedNone
  <2>3. QED BY <1>1, <2>2 DEF AllParse, Parsed, LastOf, None
<1>2. CASE \E x \in SdfFilterParams : o = <<x>>
  <2>1. PICK x \in SdfFilterParams : o = <<x>>
    BY <1>2
  <2> DEFINE v == <<x.proto, x.src_ip, x.dst_ip, x.src_port, x.dst_port>>
  <2>2. /\ x.proto \in Nat /\ x.src_ip \in Nat /\ x.dst_ip \in Nat /\ x.src_port \in Nat /\ x.dst_port \in Nat
        /\ x = [proto |-> x.proto, src_ip |-> x.src_ip, dst_ip |-> x.dst_ip, src_port |-> x.src_port,
                dst_port |-> x.dst_port]
    BY DEF SdfFilterParams
  <2>3. v \in Values /\ SdfValues(o) = <<v>> /\ PFCP_IE_SDF_FILTER \in Nat
    BY <2>1, <2>2, ShortValues DEF SdfValues, PFCP_IE_SDF_FILTER
  <2>4. parse_sdf_filter(v) = <<x>>
    BY <2>2 DEF parse_sdf_filter, Ok
  <2> HIDE DEF v
  <2>5. DOMAIN sdfs = {1} /\ sdfs[1].value = v
    BY <2>3, OneIe
  <2>6. AllParse(parse_sdf_filter, sdfs)
    BY <2>4, <2>5, SMTT(60) DEF AllParse, Err
  <2>7. rd = <<x>>
    BY <2>4, <2>5 DEF Parsed
  <2>8. LastOf(rd) = <<x>>
    <3> HIDE DEF rd
    <3>1. QED BY <2>7, LastOne DEF LastOf, Some
  <2>9. QED BY <2>1, <2>6, <2>8
<1>3. QED BY <1>1, <1>2, OptionCases

(* The UE address is read as it was written.                               *)
LEMMA UeRead ==
    ASSUME NEW ues, NEW o \in Option(Nat), ues = Listed(PFCP_IE_UE_IP_ADDRESS, UeValues(o))
    PROVE  AllParse(parse_ue_ip_address, ues) /\ LastOf(Parsed(parse_ue_ip_address, ues)) = o
<1> DEFINE rd == Parsed(parse_ue_ip_address, ues)
<1>1. CASE o = <<>>
  <2>1. UeValues(o) = <<>>
    BY <1>1 DEF UeValues
  <2>2. ues = <<>>
    BY <2>1, ListedNone
  <2>3. QED BY <1>1, <2>2 DEF AllParse, Parsed, LastOf, None
<1>2. CASE \E x \in Nat : o = <<x>>
  <2>1. PICK x \in Nat : o = <<x>>
    BY <1>2
  <2> DEFINE v == <<2, x>>
  <2>3. v \in Values /\ UeValues(o) = <<v>> /\ PFCP_IE_UE_IP_ADDRESS \in Nat
    BY <2>1, ShortValues DEF UeValues, PFCP_IE_UE_IP_ADDRESS
  <2>4. parse_ue_ip_address(v) = <<x>>
    BY DEF parse_ue_ip_address, Ok, Bit
  <2> HIDE DEF v
  <2>5. DOMAIN ues = {1} /\ ues[1].value = v
    BY <2>3, OneIe
  <2>6. AllParse(parse_ue_ip_address, ues)
    BY <2>4, <2>5 DEF AllParse, Err
  <2>7. rd = <<x>>
    BY <2>4, <2>5 DEF Parsed
  <2>8. LastOf(rd) = <<x>>
    <3> HIDE DEF rd
    <3>1. QED BY <2>7, LastOne DEF LastOf, Some
  <2>9. QED BY <2>1, <2>6, <2>8
<1>3. QED BY <1>1, <1>2, OptionCases

(* The F-TEID with the CHOOSE flag is read as no tunnel and no address.    *)
LEMMA FteidRead ==
    ASSUME NEW fteids, NEW choose \in BOOLEAN, fteids = Listed(PFCP_IE_FTEID, FlagValues(choose, <<4, 0>>))
    PROVE  /\ AllParse(parse_fteid, fteids)
           /\ LastOf(Parsed(parse_fteid, fteids))
                 = IF choose THEN <<[teid |-> 0, addr |-> 0]>> ELSE <<>>
<1> DEFINE rd == Parsed(parse_fteid, fteids)
<1>1. CASE ~choose
  <2>1. fteids = <<>>
    BY <1>1, ListedNone DEF FlagValues
  <2>2. QED BY <1>1, <2>1 DEF AllParse, Parsed, LastOf, None
<1>2. CASE choose
  <2> DEFINE v == <<4, 0>>
             x == [teid |-> 0, addr |-> 0]
  <2>3. v \in Values /\ FlagValues(choose, v) = <<v>> /\ PFCP_IE_FTEID \in Nat /\ fteids = Listed(PFCP_IE_FTEID, FlagValues(choose, v))
    BY <1>2, ShortValues DEF FlagValues, PFCP_IE_FTEID
  <2>4. parse_fteid(v) = <<x>>
    BY DEF parse_fteid, Ok, Bit
  <2> HIDE DEF v, x
  <2>5. DOMAIN fteids = {1} /\ fteids[1].value = v
    BY <2>3, OneIe
  <2>6. AllParse(parse_fteid, fteids)
    BY <2>4, <2>5 DEF AllParse, Err
  <2>7. rd = <<x>>
    BY <2>4, <2>5 DEF Parsed
  <2>8. LastOf(rd) = <<x>>
    <3> HIDE DEF rd
    <3>1. QED BY <2>7, LastOne DEF LastOf, Some
  <2>9. QED BY <1>2, <2>6, <2>8 DEF x
<1>3. QED BY <1>1, <1>2

(* parse_create_pdr reads back every PDR that add_create_pdr writes, and   *)
(* no default is mistaken for a field.                                     *)
LEMMA PdrRead ==
    ASSUME NEW p \in PdrParams
    PROVE  parse_create_pdr(PdrFields(p)) = <<AsPdr(p)>>
<1> DEFINE ies == iter_ies(PdrFields(p))
           pdi == Inside(ies, PFCP_IE_PDI)
           fteids == OfType(pdi, PFCP_IE_FTEID)
           ues == OfType(pdi, PFCP_IE_UE_IP_ADDRESS)
           sdfs == SdfFilters(ies)
<1>1. /\ OfType(ies, PFCP_IE_PDR_ID) = Listed(PFCP_IE_PDR_ID, <<<<p.pdr_id>>>>)
      /\ OfType(ies, PFCP_IE_PRECEDENCE) = Listed(PFCP_IE_PRECEDENCE, <<<<p.precedence>>>>)
      /\ OfType(ies, PFCP_IE_PDI) = Listed(PFCP_IE_PDI, <<PdiOf(p)>>)
      /\ OfType(ies, PFCP_IE_FAR_ID) = Listed(PFCP_IE_FAR_ID, <<<<p.far_id>>>>)
      /\ OfType(ies, PFCP_IE_URR_ID) = Listed(PFCP_IE_URR_ID, IdValues(p.urr_id))
      /\ OfType(ies, PFCP_IE_OUTER_HEADER_REMOVAL)
                     = Listed(PFCP_IE_OUTER_HEADER_REMOVAL, FlagValues(p.outer_header_removal, <<0>>))
      /\ OfType(ies, PFCP_IE_SDF_FILTER) = <<>> /\ ies \in Seq(IE)
  BY PdrTypes
<1> HIDE DEF ies
<1>2. pdi = iter_ies(PdiOf(p))
  BY <1>1, PdiBuilt, InsideOne DEF PFCP_IE_PDI
<1>3. sdfs = OfType(pdi, PFCP_IE_SDF_FILTER)
  BY <1>1, SdfInside
<1> HIDE DEF pdi, sdfs
<1>4. /\ OfType(pdi, PFCP_IE_SOURCE_INTERFACE) = Listed(PFCP_IE_SOURCE_INTERFACE, <<<<p.source_interface>>>>)
      /\ fteids = Listed(PFCP_IE_FTEID, FlagValues(p.fteid_choose, <<4, 0>>))
      /\ ues = Listed(PFCP_IE_UE_IP_ADDRESS, UeValues(p.ue_ip))
      /\ sdfs = Listed(PFCP_IE_SDF_FILTER, SdfValues(p.sdf_filter))
  BY <1>2, <1>3, PdiTypes
<1> HIDE DEF fteids, ues
<1>5. LastField(ies, PFCP_IE_PDR_ID, 0) = p.pdr_id
  BY <1>1, PdrFacts, ReadField DEF PFCP_IE_PDR_ID
<1>6. LastField(ies, PFCP_IE_PRECEDENCE, 0) = p.precedence
  BY <1>1, PdrFacts, ReadField DEF PFCP_IE_PRECEDENCE
<1>7. LastId(ies, PFCP_IE_FAR_ID) = <<p.far_id>>
  BY <1>1, PdrFacts, ReadField DEF PFCP_IE_FAR_ID
<1>8. LastField(pdi, PFCP_IE_SOURCE_INTERFACE, 0) % 16 = p.source_interface
  <2>1. PFCP_IE_SOURCE_INTERFACE \in Nat
    BY DEF PFCP_IE_SOURCE_INTERFACE
  <2>2. LastField(pdi, PFCP_IE_SOURCE_INTERFACE, 0) = p.source_interface
    BY <1>4, <2>1, PdrFacts, ReadField
  <2>3. QED BY <2>2, PdrFacts
<1>9. LastId(ies, PFCP_IE_URR_ID) = p.urr_id
  <2>1. PFCP_IE_URR_ID \in Nat
    BY DEF PFCP_IE_URR_ID
  <2>2. QED BY <1>1, <2>1, PdrFacts, ReadOption DEF IdValues
<1>10. (OfType(ies, PFCP_IE_OUTER_HEADER_REMOVAL) # <<>>) = p.outer_header_removal
  <2>1. CASE p.outer_header_removal = TRUE
    <3> DEFINE v == <<0>>
    <3>1. v \in Values /\ FlagValues(p.outer_header_removal, v) = <<v>> /\ PFCP_IE_OUTER_HEADER_REMOVAL \in Nat
      BY <2>1, ShortValues DEF FlagValues, PFCP_IE_OUTER_HEADER_REMOVAL
    <3>2. OfType(ies, PFCP_IE_OUTER_HEADER_REMOVAL) = Listed(PFCP_IE_OUTER_HEADER_REMOVAL, <<v>>)
      BY <1>1, <3>1
    <3> HIDE DEF v
    <3>3. OfType(ies, PFCP_IE_OUTER_HEADER_REMOVAL) # <<>>
      BY <3>1, <3>2, OneIe
    <3>4. QED BY <2>1, <3>3
  <2>2. CASE p.outer_header_removal = FALSE
    <3>1. FlagValues(p.outer_header_removal, <<0>>) = <<>>
      BY <2>2 DEF FlagValues
    <3>2. OfType(ies, PFCP_IE_OUTER_HEADER_REMOVAL) = <<>>
      BY <1>1, <3>1, ListedNone
    <3>3. QED BY <2>2, <3>2
  <2>3. QED BY <2>1, <2>2, PdrFacts
<1>11. AllParse(parse_fteid, fteids) /\ LastOf(Parsed(parse_fteid, fteids)) = IF p.fteid_choose THEN <<[teid |-> 0, addr |-> 0]>> ELSE <<>>
  BY <1>4, PdrFacts, FteidRead
<1>12. AllParse(parse_ue_ip_address, ues) /\ LastOf(Parsed(parse_ue_ip_address, ues)) = p.ue_ip
  BY <1>4, PdrFacts, UeRead
<1>13. AllParse(parse_sdf_filter, sdfs) /\ LastOf(Parsed(parse_sdf_filter, sdfs)) = p.sdf_filter
  BY <1>4, PdrFacts, SdfRead
<1>14. parse_create_pdr(PdrFields(p)) =
         Ok([pdr_id |-> LastField(ies, PFCP_IE_PDR_ID, 0),
                 precedence |-> LastField(ies, PFCP_IE_PRECEDENCE, 0),
                 source_interface |-> LastField(pdi, PFCP_IE_SOURCE_INTERFACE, 0) % 16,
                 local_fteid |-> LastOf(Parsed(parse_fteid, fteids)),
                 ue_ip |-> LastOf(Parsed(parse_ue_ip_address, ues)),
                 far_id |-> LastId(ies, PFCP_IE_FAR_ID),
                 urr_id |-> LastId(ies, PFCP_IE_URR_ID),
                 outer_header_removal |-> OfType(ies, PFCP_IE_OUTER_HEADER_REMOVAL) # <<>>,
                 sdf_filter |-> LastOf(Parsed(parse_sdf_filter, sdfs))])
  BY <1>11, <1>12, <1>13 DEF parse_create_pdr, ies, pdi, fteids, ues, sdfs
<1>15. QED BY <1>5, <1>6, <1>7, <1>8, <1>9, <1>10, <1>11, <1>12, <1>13, <1>14 DEF AsPdr, Ok, Some, None

-----------------------------------------------------------------------------
(* Usage reports and Created PDRs.                                         *)

(* Usage Report: the types of its IEs, in the order the builder writes     *)
(* them.                                                                   *)
ReportTs == <<PFCP_IE_URR_ID, PFCP_IE_UR_SEQN, PFCP_IE_USAGE_REPORT_TRIGGER, PFCP_IE_VOLUME_MEASUREMENT>>
(* The values of each of them.                                             *)
ReportVss(r) == <<<<<<r.urr_id>>>>, <<<<r.ur_seqn>>>>, <<<<r.trigger, 0>>>>, <<<<7, r.total, r.ul, r.dl>>>>>>
(* The octets of a usage report.                                           *)
ReportFields(r) == Wire(Group(ReportTs, ReportVss(r)))

(* The fields of a usage report.                                           *)
LEMMA ReportFacts ==
    ASSUME NEW r \in ReportParams
    PROVE  /\ r.urr_id \in Nat /\ r.ur_seqn \in Nat /\ r.trigger \in Nat /\ r.total \in Nat /\ r.ul \in Nat /\ r.dl \in Nat
BY DEF ReportParams

(* The IEs of a usage report are a group.                                  *)
LEMMA ReportGroup ==
    ASSUME NEW r \in ReportParams
    PROVE  GroupOf(ReportTs, ReportVss(r)) /\ Distinct(ReportTs) /\ Len(ReportTs) = 4 /\ DOMAIN ReportTs = 1..4
<1>1. <<<<r.urr_id>>>> \in Seq(Values) /\ <<<<r.ur_seqn>>>> \in Seq(Values)
  BY ReportFacts, ShortValues, OneValue
<1>2. <<<<r.trigger, 0>>>> \in Seq(Values)
  BY ReportFacts, ShortValues, OneValue
<1>3. <<<<7, r.total, r.ul, r.dl>>>> \in Seq(Values)
  BY ReportFacts, ShortValues, OneValue
<1>4. ReportVss(r) \in Seq(Seq(Values)) /\ Len(ReportVss(r)) = 4
  BY <1>1, <1>2, <1>3 DEF ReportVss
<1>5. ReportTs \in Seq(Nat) /\ Len(ReportTs) = 4 /\ DOMAIN ReportTs = 1..4 /\ Distinct(ReportTs)
  BY DEF Distinct, ReportTs, PFCP_IE_URR_ID, PFCP_IE_UR_SEQN, PFCP_IE_USAGE_REPORT_TRIGGER, PFCP_IE_VOLUME_MEASUREMENT
<1>6. QED BY <1>4, <1>5 DEF GroupOf

(* The builder writes the Report Type and then the usage report's group.   *)
LEMMA ReportBuilt ==
    ASSUME NEW r \in ReportParams
    PROVE  UsageReportOf(r) = Cat(append_ie(PFCP_IE_REPORT_TYPE, <<2>>),
                                  append_ie(PFCP_IE_USAGE_REPORT_IN_SESS_RPT_REQ, ReportFields(r)))
<1> DEFINE P(k) == Part(ReportTs, ReportVss(r), k)
           x1 == append_ie(PFCP_IE_URR_ID, <<r.urr_id>>)
           x2 == append_ie(PFCP_IE_UR_SEQN, <<r.ur_seqn>>)
           x3 == append_ie(PFCP_IE_USAGE_REPORT_TRIGGER, <<r.trigger, 0>>)
           x4 == append_ie(PFCP_IE_VOLUME_MEASUREMENT, <<7, r.total, r.ul, r.dl>>)
<1>1. ReportFields(r) = Cat(Cat(Cat(P(1), P(2)), P(3)), P(4))
  BY ReportGroup, Built DEF ReportFields
<1>2. P(1) = x1
  BY ReportFacts, ShortValues, ListedOne DEF Part, ReportTs, ReportVss, PFCP_IE_URR_ID
<1>3. P(2) = x2
  BY ReportFacts, ShortValues, ListedOne, ZenonT(60) DEF Part, ReportTs, ReportVss, PFCP_IE_UR_SEQN
<1>4. P(3) = x3
  BY ReportFacts, ShortValues, ListedOne DEF Part, ReportTs, ReportVss, PFCP_IE_USAGE_REPORT_TRIGGER
<1>5. P(4) = x4
  BY ReportFacts, ShortValues, ListedOne DEF Part, ReportTs, ReportVss, PFCP_IE_VOLUME_MEASUREMENT
<1>6. ReportFields(r) = Cat(Cat(Cat(x1, x2), x3), x4)
  <2> HIDE DEF P, x1, x2, x3, x4
  <2>1. QED BY <1>1, <1>2, <1>3, <1>4, <1>5
<1>7. UsageReportOf(r) = Cat(append_ie(PFCP_IE_REPORT_TYPE, <<2>>),
          append_ie(PFCP_IE_USAGE_REPORT_IN_SESS_RPT_REQ, Cat(Cat(Cat(x1, x2), x3), x4)))
  BY Zenon DEF UsageReportOf, Cat
<1>8. QED BY <1>6, <1>7

(* The IEs found in a usage report, type by type.                          *)
LEMMA ReportTypes ==
    ASSUME NEW r \in ReportParams
    PROVE  LET ies == iter_ies(ReportFields(r))
           IN  /\ ReportFields(r) \in Values
               /\ OfType(ies, PFCP_IE_URR_ID) = Listed(PFCP_IE_URR_ID, <<<<r.urr_id>>>>)
               /\ OfType(ies, PFCP_IE_USAGE_REPORT_TRIGGER) = Listed(PFCP_IE_USAGE_REPORT_TRIGGER, <<<<r.trigger, 0>>>>)
               /\ OfType(ies, PFCP_IE_VOLUME_MEASUREMENT) = Listed(PFCP_IE_VOLUME_MEASUREMENT, <<<<7, r.total, r.ul, r.dl>>>>)
<1> DEFINE ts == ReportTs
           vss == ReportVss(r)
           g == Group(ts, vss)
<1>1. ReportFields(r) \in Values /\ iter_ies(ReportFields(r)) = g
  BY ReportGroup, GroupRead DEF ReportFields
<1>2. \A k \in 1..4 : OfType(g, ts[k]) = Listed(ts[k], vss[k])
  BY ReportGroup, GroupRead
<1>3. 1 \in 1..4 /\ 3 \in 1..4 /\ 4 \in 1..4
  OBVIOUS
<1> HIDE DEF g
<1>4. /\ OfType(g, ts[1]) = Listed(ts[1], vss[1])
      /\ OfType(g, ts[3]) = Listed(ts[3], vss[3])
      /\ OfType(g, ts[4]) = Listed(ts[4], vss[4])
  <2> HIDE DEF ts, vss
  <2>1. QED BY <1>2, <1>3
<1>5. QED BY <1>1, <1>4 DEF ReportTs, ReportVss

(* The usage report is read as it was written.                             *)
LEMMA ReportRead ==
    ASSUME NEW r \in ReportParams
    PROVE  ReadReport(ReportFields(r)) = AsReport(r)
<1> DEFINE ies == iter_ies(ReportFields(r))
           trigger == OfLength(OfType(ies, PFCP_IE_USAGE_REPORT_TRIGGER), 2)
           volume == OfLength(OfType(ies, PFCP_IE_VOLUME_MEASUREMENT), 4)
           a == <<r.trigger, 0>>
           b == <<7, r.total, r.ul, r.dl>>
<1>1. /\ OfType(ies, PFCP_IE_URR_ID) = Listed(PFCP_IE_URR_ID, <<<<r.urr_id>>>>)
      /\ OfType(ies, PFCP_IE_USAGE_REPORT_TRIGGER) = Listed(PFCP_IE_USAGE_REPORT_TRIGGER, <<a>>)
      /\ OfType(ies, PFCP_IE_VOLUME_MEASUREMENT) = Listed(PFCP_IE_VOLUME_MEASUREMENT, <<b>>)
  BY ReportTypes
<1>2. PFCP_IE_URR_ID \in Nat /\ PFCP_IE_USAGE_REPORT_TRIGGER \in Nat /\ PFCP_IE_VOLUME_MEASUREMENT \in Nat
  BY DEF PFCP_IE_URR_ID, PFCP_IE_USAGE_REPORT_TRIGGER, PFCP_IE_VOLUME_MEASUREMENT
<1>3. a \in Values /\ b \in Values
  BY ReportFacts, ShortValues
<1>4. Len(a) >= 2 /\ a[1] = r.trigger
  OBVIOUS
<1>5. Len(b) >= 4 /\ b[2] = r.total /\ b[3] = r.ul /\ b[4] = r.dl
  OBVIOUS
<1> HIDE DEF ies, a, b
<1>6. LastField(ies, PFCP_IE_URR_ID, 0) = r.urr_id
  BY <1>1, <1>2, ReportFacts, ReadField
<1>7. trigger = <<Ie(PFCP_IE_USAGE_REPORT_TRIGGER, a)>> /\ Ie(PFCP_IE_USAGE_REPORT_TRIGGER, a).value = a
  <2>1. OfType(ies, PFCP_IE_USAGE_REPORT_TRIGGER) = <<Ie(PFCP_IE_USAGE_REPORT_TRIGGER, a)>>
    BY <1>1, <1>2, <1>3, ListedOne
  <2>2. OfLength(<<Ie(PFCP_IE_USAGE_REPORT_TRIGGER, a)>>, 2) = <<Ie(PFCP_IE_USAGE_REPORT_TRIGGER, a)>>
    BY <1>2, <1>3, <1>4, OfLengthFacts
  <2>3. QED BY <1>2, <1>3, <2>1, <2>2, IeFacts
<1>8. volume = <<Ie(PFCP_IE_VOLUME_MEASUREMENT, b)>> /\ Ie(PFCP_IE_VOLUME_MEASUREMENT, b).value = b
  <2>1. OfType(ies, PFCP_IE_VOLUME_MEASUREMENT) = <<Ie(PFCP_IE_VOLUME_MEASUREMENT, b)>>
    BY <1>1, <1>2, <1>3, ListedOne
  <2>2. OfLength(<<Ie(PFCP_IE_VOLUME_MEASUREMENT, b)>>, 4) = <<Ie(PFCP_IE_VOLUME_MEASUREMENT, b)>>
    BY <1>2, <1>3, <1>5, OfLengthFacts
  <2>3. QED BY <1>2, <1>3, <2>1, <2>2, IeFacts
<1> HIDE DEF trigger, volume
<1>9. trigger # <<>> /\ Last(trigger).value = a
  <2> DEFINE x == Ie(PFCP_IE_USAGE_REPORT_TRIGGER, a)
  <2>1. trigger = <<x>> /\ x.value = a
    BY <1>7
  <2> HIDE DEF x
  <2>2. QED BY <2>1, LastOne
<1>10. volume # <<>> /\ Last(volume).value = b
  <2> DEFINE x == Ie(PFCP_IE_VOLUME_MEASUREMENT, b)
  <2>1. volume = <<x>> /\ x.value = b
    BY <1>8
  <2> HIDE DEF x
  <2>2. QED BY <2>1, LastOne
<1>11. ReadReport(ReportFields(r)) =
         [urr_id |-> LastField(ies, PFCP_IE_URR_ID, 0), trigger |-> Last(trigger).value[1],
          total |-> Last(volume).value[2], ul |-> Last(volume).value[3], dl |-> Last(volume).value[4]]
  BY <1>9, <1>10 DEF ReadReport, ies, trigger, volume
<1>12. QED BY <1>4, <1>5, <1>6, <1>9, <1>10, <1>11 DEF AsReport

-----------------------------------------------------------------------------
(* The parameters of a Created PDR.                                        *)
CreatedParams == [pdr_id : Nat, teid : Nat, addr : Nat]
(* Created PDR: the types of its IEs.                                      *)
CreatedTs == <<PFCP_IE_PDR_ID, PFCP_IE_FTEID>>
(* The values of each of them.                                             *)
CreatedVss(c) == <<<<<<c.pdr_id>>>>, <<<<2, c.teid, c.addr>>>>>>
(* The octets of a Created PDR.                                            *)
CreatedFields(c) == Wire(Group(CreatedTs, CreatedVss(c)))

(* The IEs of a Created PDR are a group.                                   *)
LEMMA CreatedGroup ==
    ASSUME NEW c \in CreatedParams
    PROVE  /\ GroupOf(CreatedTs, CreatedVss(c)) /\ Distinct(CreatedTs) /\ Len(CreatedTs) = 2
           /\ DOMAIN CreatedTs = 1..2 /\ CreatedFields(c) \in Values
<1>0. c.pdr_id \in Nat /\ c.teid \in Nat /\ c.addr \in Nat
  BY DEF CreatedParams
<1>1. <<<<c.pdr_id>>>> \in Seq(Values)
  BY <1>0, ShortValues, OneValue
<1>2. <<<<2, c.teid, c.addr>>>> \in Seq(Values)
  BY <1>0, ShortValues, OneValue
<1>4. CreatedVss(c) \in Seq(Seq(Values)) /\ Len(CreatedVss(c)) = 2
  BY <1>1, <1>2 DEF CreatedVss
<1>5. CreatedTs \in Seq(Nat) /\ Len(CreatedTs) = 2 /\ DOMAIN CreatedTs = 1..2 /\ Distinct(CreatedTs)
  BY DEF Distinct, CreatedTs, PFCP_IE_PDR_ID, PFCP_IE_FTEID
<1>6. GroupOf(CreatedTs, CreatedVss(c))
  BY <1>4, <1>5 DEF GroupOf
<1>7. QED BY <1>5, <1>6, GroupRead DEF CreatedFields

(* add_created_pdr writes that group.                                      *)
LEMMA CreatedBuilt ==
    ASSUME NEW c \in CreatedParams
    PROVE  add_created_pdr(c) = append_ie(PFCP_IE_CREATED_PDR, CreatedFields(c))
<1> DEFINE P(k) == Part(CreatedTs, CreatedVss(c), k)
           x1 == append_ie(PFCP_IE_PDR_ID, <<c.pdr_id>>)
           x2 == append_ie(PFCP_IE_FTEID, <<2, c.teid, c.addr>>)
<1>0. c.pdr_id \in Nat /\ c.teid \in Nat /\ c.addr \in Nat
  BY DEF CreatedParams
<1>1. CreatedFields(c) = Cat(P(1), P(2))
  BY CreatedGroup, Built DEF CreatedFields
<1>2. P(1) = x1
  BY <1>0, ShortValues, ListedOne DEF Part, CreatedTs, CreatedVss, PFCP_IE_PDR_ID
<1>3. P(2) = x2
  BY <1>0, ShortValues, ListedOne DEF Part, CreatedTs, CreatedVss, PFCP_IE_FTEID
<1>4. CreatedFields(c) = Cat(x1, x2)
  <2> HIDE DEF P, x1, x2
  <2>1. QED BY <1>1, <1>2, <1>3
<1>5. add_created_pdr(c) = append_ie(PFCP_IE_CREATED_PDR, Cat(x1, x2))
  BY Zenon DEF add_created_pdr, Cat
<1>6. QED BY <1>4, <1>5

(* The tunnel of a Created PDR is read as it was written.                  *)
LEMMA CreatedRead ==
    ASSUME NEW c \in CreatedParams
    PROVE  First(parse_fteid, OfType(iter_ies(CreatedFields(c)), PFCP_IE_FTEID))
              = <<[teid |-> c.teid, addr |-> c.addr]>>
<1> DEFINE g == Group(CreatedTs, CreatedVss(c))
           v == <<2, c.teid, c.addr>>
           o == OfType(g, PFCP_IE_FTEID)
           T == PFCP_IE_FTEID
<1>0. c.pdr_id \in Nat /\ c.teid \in Nat /\ c.addr \in Nat
  BY DEF CreatedParams
<1>1. iter_ies(CreatedFields(c)) = g
  BY CreatedGroup, GroupRead DEF CreatedFields
<1>2. 2 \in DOMAIN CreatedTs
  BY DEF CreatedTs
<1>3. OfType(g, CreatedTs[2]) = Listed(CreatedTs[2], CreatedVss(c)[2])
  <2> HIDE DEF g
  <2>1. QED BY <1>2, CreatedGroup, GroupRead DEF g
<1> HIDE DEF g
<1>4. o = Listed(T, <<v>>) /\ v \in Values /\ T \in Nat
  BY <1>0, <1>3, ShortValues DEF CreatedTs, CreatedVss, PFCP_IE_FTEID
<1>5. parse_fteid(v) = <<[teid |-> c.teid, addr |-> c.addr]>>
  BY DEF parse_fteid, Bit, Ok
<1> HIDE DEF v, o, T
<1>6. o # <<>> /\ o[1].value = v
  BY <1>4, OneIe
<1>7. QED BY <1>1, <1>5, <1>6 DEF First, o

-----------------------------------------------------------------------------
(* Messages: the thirteen kinds of IE that a builder may append.           *)

(* An F-SEID.                                                              *)
FseidParams == [seid : Nat, addr : Nat]
(* What a message may carry: the lists that Build appends, with their      *)
(* types.                                                                  *)
Contents ==
    [node_id : Option(Nat), cause : Option(Nat), recovery_ts : Option(Nat), features : BOOLEAN,
     fseid : Option(FseidParams), create_pdrs : Seq(PdrParams), create_fars : Seq(FarParams),
     create_urrs : Seq(UrrParams), update_fars : Seq(FarParams), update_urrs : Seq(UrrParams),
     created_pdrs : Seq(CreatedParams), report : Option(ReportParams)]

(* The values of a Node ID.                                                *)
NodeValues(o) == [i \in DOMAIN o |-> <<0, o[i]>>]
(* The values of an F-SEID.                                                *)
FseidValues(o) == [i \in DOMAIN o |-> <<2, o[i].seid, o[i].addr>>]
(* The values of the Create PDRs.                                          *)
PdrValues(l) == [i \in DOMAIN l |-> PdrFields(l[i])]
(* The values of the Create or Update FARs.                                *)
FarValues(l, T) == [i \in DOMAIN l |-> FarFields(l[i], T)]
(* The values of the Create or Update URRs.                                *)
UrrValues(l) == [i \in DOMAIN l |-> UrrFields(l[i])]
(* The values of the Created PDRs.                                         *)
CreatedValues(l) == [i \in DOMAIN l |-> CreatedFields(l[i])]
(* The value of the Report Type that goes with a usage report.             *)
ReportTypeValues(o) == [i \in DOMAIN o |-> <<2>>]
(* The value of the usage report.                                          *)
ReportValues(o) == [i \in DOMAIN o |-> ReportFields(o[i])]

(* The types of a message's IEs, in the order Build appends them.          *)
MsgTs == <<PFCP_IE_NODE_ID, PFCP_IE_CAUSE, PFCP_IE_RECOVERY_TIME_STAMP, PFCP_IE_UP_FUNCTION_FEATURES,
           PFCP_IE_FSEID, PFCP_IE_CREATE_PDR, PFCP_IE_CREATE_FAR, PFCP_IE_CREATE_URR, PFCP_IE_UPDATE_FAR,
           PFCP_IE_UPDATE_URR, PFCP_IE_CREATED_PDR, PFCP_IE_REPORT_TYPE, PFCP_IE_USAGE_REPORT_IN_SESS_RPT_REQ>>
(* The values of each of them.                                             *)
MsgVss(c) == <<NodeValues(c.node_id), IdValues(c.cause), IdValues(c.recovery_ts),
               FlagValues(c.features, <<4, 0>>), FseidValues(c.fseid), PdrValues(c.create_pdrs),
               FarValues(c.create_fars, PFCP_IE_FORWARDING_PARAMETERS), UrrValues(c.create_urrs),
               FarValues(c.update_fars, PFCP_IE_UPDATE_FORWARDING_PARAMETERS), UrrValues(c.update_urrs),
               CreatedValues(c.created_pdrs), ReportTypeValues(c.report), ReportValues(c.report)>>
(* The IEs of a message with content c.                                    *)
Ies(c) == Group(MsgTs, MsgVss(c))

(* The fields of a message's content.                                      *)
LEMMA ContentFacts ==
    ASSUME NEW c \in Contents
    PROVE  /\ c.node_id \in Option(Nat) /\ c.cause \in Option(Nat) /\ c.recovery_ts \in Option(Nat)
           /\ c.features \in BOOLEAN /\ c.fseid \in Option(FseidParams)
           /\ c.create_pdrs \in Seq(PdrParams) /\ c.create_fars \in Seq(FarParams)
           /\ c.create_urrs \in Seq(UrrParams) /\ c.update_fars \in Seq(FarParams)
           /\ c.update_urrs \in Seq(UrrParams) /\ c.created_pdrs \in Seq(CreatedParams)
           /\ c.report \in Option(ReportParams)
BY DEF Contents

(* The octets of the Node ID.                                              *)
LEMMA NodeFacts ==
    ASSUME NEW o \in Option(Nat)
    PROVE  /\ NodeValues(o) \in Seq(Values)
           /\ Wire(Listed(PFCP_IE_NODE_ID, NodeValues(o)))
                 = FlattenSeq([i \in DOMAIN o |-> append_ie(PFCP_IE_NODE_ID, <<0, o[i]>>)])
<1>1. PFCP_IE_NODE_ID \in Nat /\ 0 \in Nat
  BY DEF PFCP_IE_NODE_ID
<1>2. QED BY <1>1, OptionValues DEF NodeValues

(* The octets of the F-SEID.                                               *)
LEMMA FseidFacts ==
    ASSUME NEW o \in Option(FseidParams)
    PROVE  /\ FseidValues(o) \in Seq(Values)
           /\ Wire(Listed(PFCP_IE_FSEID, FseidValues(o)))
                 = FlattenSeq([i \in DOMAIN o |-> append_ie(PFCP_IE_FSEID, <<2, o[i].seid, o[i].addr>>)])
<1> DEFINE f == FseidValues(o)
           V(x) == <<2, x.seid, x.addr>>
           T == PFCP_IE_FSEID
<1>0. T \in Nat
  BY DEF PFCP_IE_FSEID
<1>1. o \in Seq(FseidParams) /\ \A i \in DOMAIN o : o[i] \in FseidParams
  BY OptionSeq
<1>2. f = [i \in DOMAIN o |-> f[i]] /\ \A i \in DOMAIN o : f[i] = V(o[i])
  BY DEF FseidValues
<1>3. \A x \in FseidParams : V(x) \in Values
  BY ShortValues DEF FseidParams
<1> HIDE DEF f, V, T
<1>4. \A i \in DOMAIN o : f[i] \in Values
  BY <1>1, <1>2, <1>3
<1>5. f \in Seq(Values) /\ Wire(Listed(T, f)) = FlattenSeq([i \in DOMAIN o |-> append_ie(T, f[i])])
  BY <1>0, <1>1, <1>2, <1>4, MappedValues, SMTT(60)
<1>6. [i \in DOMAIN o |-> append_ie(T, f[i])] = [i \in DOMAIN o |-> append_ie(T, V(o[i]))]
  BY <1>2
<1>7. QED BY <1>5, <1>6 DEF f, V, T

(* The octets of the Create PDRs.                                          *)
LEMMA PdrsFacts ==
    ASSUME NEW l \in Seq(PdrParams)
    PROVE  /\ PdrValues(l) \in Seq(Values)
           /\ Wire(Listed(PFCP_IE_CREATE_PDR, PdrValues(l))) = FlattenSeq([i \in DOMAIN l |-> add_create_pdr(l[i])])
<1> DEFINE f == PdrValues(l)
           T == PFCP_IE_CREATE_PDR
<1>0. T \in Nat
  BY DEF PFCP_IE_CREATE_PDR
<1>1. \A i \in DOMAIN l : l[i] \in PdrParams
  OBVIOUS
<1>2. f = [i \in DOMAIN l |-> f[i]] /\ \A i \in DOMAIN l : f[i] = PdrFields(l[i])
  BY DEF PdrValues
<1>3. \A x \in PdrParams : PdrFields(x) \in Values /\ add_create_pdr(x) = append_ie(T, PdrFields(x))
  BY PdrTypes, PdrBuilt
<1> HIDE DEF f, T
<1>4. \A i \in DOMAIN l : f[i] \in Values
  BY <1>1, <1>2, <1>3
<1>5. f \in Seq(Values) /\ Wire(Listed(T, f)) = FlattenSeq([i \in DOMAIN l |-> append_ie(T, f[i])])
  BY <1>0, <1>2, <1>4, MappedValues
<1>6. [i \in DOMAIN l |-> append_ie(T, f[i])] = [i \in DOMAIN l |-> add_create_pdr(l[i])]
  BY <1>1, <1>2, <1>3
<1>7. QED BY <1>5, <1>6 DEF f, T

(* The octets of the Create or Update FARs.                                *)
LEMMA FarsFacts ==
    ASSUME NEW l \in Seq(FarParams), NEW T \in Nat,
           NEW F \in {PFCP_IE_FORWARDING_PARAMETERS, PFCP_IE_UPDATE_FORWARDING_PARAMETERS}
    PROVE  /\ FarValues(l, F) \in Seq(Values)
           /\ Wire(Listed(T, FarValues(l, F))) = FlattenSeq([i \in DOMAIN l |-> append_ie(T, FarFields(l[i], F))])
<1> DEFINE f == FarValues(l, F)
<1>1. \A i \in DOMAIN l : l[i] \in FarParams
  OBVIOUS
<1>2. f = [i \in DOMAIN l |-> f[i]] /\ \A i \in DOMAIN l : f[i] = FarFields(l[i], F)
  BY DEF FarValues
<1>3. \A x \in FarParams : FarFields(x, F) \in Values
  BY FarTypes
<1> HIDE DEF f
<1>4. \A i \in DOMAIN l : f[i] \in Values
  BY <1>1, <1>2, <1>3
<1>5. f \in Seq(Values) /\ Wire(Listed(T, f)) = FlattenSeq([i \in DOMAIN l |-> append_ie(T, f[i])])
  BY <1>2, <1>4, MappedValues
<1>6. [i \in DOMAIN l |-> append_ie(T, f[i])] = [i \in DOMAIN l |-> append_ie(T, FarFields(l[i], F))]
  BY <1>2
<1>7. QED BY <1>5, <1>6 DEF f

(* The octets of the Create or Update URRs.                                *)
LEMMA UrrsFacts ==
    ASSUME NEW l \in Seq(UrrParams), NEW T \in Nat
    PROVE  /\ UrrValues(l) \in Seq(Values)
           /\ Wire(Listed(T, UrrValues(l))) = FlattenSeq([i \in DOMAIN l |-> append_ie(T, UrrFields(l[i]))])
<1> DEFINE f == UrrValues(l)
<1>1. \A i \in DOMAIN l : l[i] \in UrrParams
  OBVIOUS
<1>2. f = [i \in DOMAIN l |-> f[i]] /\ \A i \in DOMAIN l : f[i] = UrrFields(l[i])
  BY DEF UrrValues
<1>3. \A x \in UrrParams : UrrFields(x) \in Values
  BY UrrTypes
<1> HIDE DEF f
<1>4. \A i \in DOMAIN l : f[i] \in Values
  BY <1>1, <1>2, <1>3
<1>5. f \in Seq(Values) /\ Wire(Listed(T, f)) = FlattenSeq([i \in DOMAIN l |-> append_ie(T, f[i])])
  BY <1>2, <1>4, MappedValues
<1>6. [i \in DOMAIN l |-> append_ie(T, f[i])] = [i \in DOMAIN l |-> append_ie(T, UrrFields(l[i]))]
  BY <1>2
<1>7. QED BY <1>5, <1>6 DEF f

(* The octets of the Created PDRs.                                         *)
LEMMA CreatedsFacts ==
    ASSUME NEW l \in Seq(CreatedParams)
    PROVE  /\ CreatedValues(l) \in Seq(Values)
           /\ Wire(Listed(PFCP_IE_CREATED_PDR, CreatedValues(l))) = FlattenSeq([i \in DOMAIN l |-> add_created_pdr(l[i])])
<1> DEFINE f == CreatedValues(l)
           T == PFCP_IE_CREATED_PDR
<1>0. T \in Nat
  BY DEF PFCP_IE_CREATED_PDR
<1>1. \A i \in DOMAIN l : l[i] \in CreatedParams
  OBVIOUS
<1>2. f = [i \in DOMAIN l |-> f[i]] /\ \A i \in DOMAIN l : f[i] = CreatedFields(l[i])
  BY DEF CreatedValues
<1>3. \A x \in CreatedParams : CreatedFields(x) \in Values /\ add_created_pdr(x) = append_ie(T, CreatedFields(x))
  BY CreatedGroup, CreatedBuilt
<1> HIDE DEF f, T
<1>4. \A i \in DOMAIN l : f[i] \in Values
  BY <1>1, <1>2, <1>3
<1>5. f \in Seq(Values) /\ Wire(Listed(T, f)) = FlattenSeq([i \in DOMAIN l |-> append_ie(T, f[i])])
  BY <1>0, <1>2, <1>4, MappedValues
<1>6. [i \in DOMAIN l |-> append_ie(T, f[i])] = [i \in DOMAIN l |-> add_created_pdr(l[i])]
  BY <1>1, <1>2, <1>3
<1>7. QED BY <1>5, <1>6 DEF f, T

(* The octets of the Report Type and the usage report.                     *)
LEMMA ReportsFacts ==
    ASSUME NEW o \in Option(ReportParams)
    PROVE  /\ ReportTypeValues(o) \in Seq(Values) /\ ReportValues(o) \in Seq(Values)
           /\ FlattenSeq([i \in DOMAIN o |-> UsageReportOf(o[i])])
                 = Cat(Wire(Listed(PFCP_IE_REPORT_TYPE, ReportTypeValues(o))),
                       Wire(Listed(PFCP_IE_USAGE_REPORT_IN_SESS_RPT_REQ, ReportValues(o))))
<1> DEFINE T == PFCP_IE_REPORT_TYPE
           U == PFCP_IE_USAGE_REPORT_IN_SESS_RPT_REQ
           v == <<2>>
<1>0. T \in Nat /\ U \in Nat
  BY DEF PFCP_IE_REPORT_TYPE, PFCP_IE_USAGE_REPORT_IN_SESS_RPT_REQ
<1>1. v \in Values
  BY ShortValues
<1>e. <<>> \in Seq(Nat) /\ <<>> \in Seq(Values)
  OBVIOUS
<1>2. CASE o = <<>>
  <2>1. ReportTypeValues(o) = <<>> /\ ReportValues(o) = <<>> /\ [i \in DOMAIN o |-> UsageReportOf(o[i])] = <<>>
    BY <1>2 DEF ReportTypeValues, ReportValues
  <2>2. Cat(<<>>, <<>>) = <<>>
    BY <1>e, CatFacts
  <2>3. QED BY <1>e, <2>1, <2>2, ListedNone, FlattenEmpty
<1>3. CASE \E x \in ReportParams : o = <<x>>
  <2>1. PICK x \in ReportParams : o = <<x>>
    BY <1>3
  <2> DEFINE u == UsageReportOf(x)
             w == ReportFields(x)
  <2>2. ReportTypeValues(o) = <<v>> /\ ReportValues(o) = <<w>> /\ [i \in DOMAIN o |-> UsageReportOf(o[i])] = <<u>>
    BY <2>1 DEF ReportTypeValues, ReportValues
  <2>3. w \in Values /\ u = Cat(append_ie(T, v), append_ie(U, w))
    BY ReportTypes, ReportBuilt
  <2> HIDE DEF T, U, v, u, w
  <2>4. Wire(Listed(T, <<v>>)) = append_ie(T, v) /\ Wire(Listed(U, <<w>>)) = append_ie(U, w)
    BY <1>0, <1>1, <2>3, ListedOne
  <2>5. append_ie(T, v) \in Seq(Nat) /\ append_ie(U, w) \in Seq(Nat)
    BY <1>0, <1>1, <2>3 DEF append_ie, Values
  <2>6. u \in Seq(Nat)
    BY <2>3, <2>5, CatFacts
  <2>7. FlattenSeq(<<u>>) = u
    BY <2>6, FlattenOne
  <2>8. <<v>> \in Seq(Values) /\ <<w>> \in Seq(Values)
    BY <1>1, <2>3, OneValue
  <2>9. QED BY <2>2, <2>3, <2>4, <2>7, <2>8 DEF T, U
<1>4. QED BY <1>2, <1>3, OptionCases

(* The thirteen types of a message differ.                                 *)
LEMMA MsgTsFacts ==
    MsgTs \in Seq(Nat) /\ Len(MsgTs) = 13 /\ DOMAIN MsgTs = 1..13 /\ Distinct(MsgTs)
<1> USE DEF PFCP_IE_NODE_ID, PFCP_IE_CAUSE, PFCP_IE_RECOVERY_TIME_STAMP, PFCP_IE_UP_FUNCTION_FEATURES,
           PFCP_IE_FSEID, PFCP_IE_CREATE_PDR, PFCP_IE_CREATE_FAR, PFCP_IE_CREATE_URR, PFCP_IE_UPDATE_FAR,
           PFCP_IE_UPDATE_URR, PFCP_IE_CREATED_PDR, PFCP_IE_REPORT_TYPE, PFCP_IE_USAGE_REPORT_IN_SESS_RPT_REQ
<1>1. MsgTs \in Seq(Nat) /\ Len(MsgTs) = 13 /\ DOMAIN MsgTs = 1..13
  BY DEF MsgTs
<1>2. Distinct(MsgTs)
  BY DEF Distinct, MsgTs
<1>3. QED BY <1>1, <1>2

(* Each of them has its list of values.                                    *)
LEMMA MsgVssFacts ==
    ASSUME NEW c \in Contents
    PROVE  MsgVss(c) \in Seq(Seq(Values)) /\ Len(MsgVss(c)) = 13
<1> DEFINE a1 == NodeValues(c.node_id)
           a2 == IdValues(c.cause)
           a3 == IdValues(c.recovery_ts)
           a4 == FlagValues(c.features, <<4, 0>>)
           a5 == FseidValues(c.fseid)
           a6 == PdrValues(c.create_pdrs)
           a7 == FarValues(c.create_fars, PFCP_IE_FORWARDING_PARAMETERS)
           a8 == UrrValues(c.create_urrs)
           a9 == FarValues(c.update_fars, PFCP_IE_UPDATE_FORWARDING_PARAMETERS)
           a10 == UrrValues(c.update_urrs)
           a11 == CreatedValues(c.created_pdrs)
           a12 == ReportTypeValues(c.report)
           a13 == ReportValues(c.report)
<1>0. 0 \in Nat
  OBVIOUS
<1>1. a1 \in Seq(Values) /\ a2 \in Seq(Values) /\ a3 \in Seq(Values)
  BY <1>0, ContentFacts, NodeFacts, IdFacts
<1>2. a4 \in Seq(Values)
  <2>1. <<4, 0>> \in Values
    BY ShortValues
  <2>2. QED BY <1>0, <2>1, FlagFacts
<1>3. a5 \in Seq(Values) /\ a6 \in Seq(Values)
  BY ContentFacts, FseidFacts, PdrsFacts
<1>4. a7 \in Seq(Values) /\ a9 \in Seq(Values)
  BY <1>0, ContentFacts, FarsFacts
<1>5. a8 \in Seq(Values) /\ a10 \in Seq(Values)
  BY <1>0, ContentFacts, UrrsFacts
<1>6. a11 \in Seq(Values) /\ a12 \in Seq(Values) /\ a13 \in Seq(Values)
  BY ContentFacts, CreatedsFacts, ReportsFacts
<1>7. MsgVss(c) = <<a1, a2, a3, a4, a5, a6, a7, a8, a9, a10, a11, a12, a13>>
  BY DEF MsgVss
<1> HIDE DEF a1, a2, a3, a4, a5, a6, a7, a8, a9, a10, a11, a12, a13
<1>8. QED BY <1>1, <1>2, <1>3, <1>4, <1>5, <1>6, <1>7

(* The IEs of a message are a group, and are read back from its octets.    *)
LEMMA MsgGroup ==
    ASSUME NEW c \in Contents
    PROVE  /\ GroupOf(MsgTs, MsgVss(c)) /\ Distinct(MsgTs) /\ Ies(c) \in Seq(IE)
           /\ Wire(Ies(c)) \in Seq(Nat) /\ iter_ies(Wire(Ies(c))) = Ies(c)
           /\ \A k \in 1..13 : OfType(Ies(c), MsgTs[k]) = Listed(MsgTs[k], MsgVss(c)[k])
<1>1. GroupOf(MsgTs, MsgVss(c)) /\ Distinct(MsgTs)
  BY MsgTsFacts, MsgVssFacts DEF GroupOf
<1>2. Ies(c) \in Seq(IE)
  BY <1>1, GroupType DEF Ies
<1>3. Wire(Ies(c)) \in Seq(Nat) /\ iter_ies(Wire(Ies(c))) = Ies(c)
  BY <1>2, WireFacts, IterWire
<1>4. \A k \in 1..13 : OfType(Ies(c), MsgTs[k]) = Listed(MsgTs[k], MsgVss(c)[k])
  BY <1>1, MsgTsFacts, GroupRead DEF Ies
<1>5. QED BY <1>1, <1>2, <1>3, <1>4

(* The octets of each type are what the message's builder appends for it.  *)
LEMMA Parts ==
    ASSUME NEW c \in Contents
    PROVE  LET P(k) == Part(MsgTs, MsgVss(c), k)
           IN  /\ P(1) = FlattenSeq([i \in DOMAIN c.node_id |-> add_node_id_v4(c.node_id[i])])
               /\ P(2) = FlattenSeq([i \in DOMAIN c.cause |-> add_cause(c.cause[i])])
               /\ P(3) = FlattenSeq([i \in DOMAIN c.recovery_ts |-> add_recovery_timestamp(c.recovery_ts[i])])
               /\ P(4) = If(c.features, add_up_function_features)
               /\ P(5) = FlattenSeq([i \in DOMAIN c.fseid |-> add_fseid(c.fseid[i])])
               /\ P(6) = FlattenSeq([i \in DOMAIN c.create_pdrs |-> add_create_pdr(c.create_pdrs[i])])
               /\ P(7) = FlattenSeq([i \in DOMAIN c.create_fars |-> add_create_far(c.create_fars[i])])
               /\ P(8) = FlattenSeq([i \in DOMAIN c.create_urrs |-> add_create_urr(c.create_urrs[i])])
               /\ P(9) = FlattenSeq([i \in DOMAIN c.update_fars |-> add_update_far(c.update_fars[i])])
               /\ P(10) = FlattenSeq([i \in DOMAIN c.update_urrs |-> add_update_urr(c.update_urrs[i])])
               /\ P(11) = FlattenSeq([i \in DOMAIN c.created_pdrs |-> add_created_pdr(c.created_pdrs[i])])
               /\ Cat(P(12), P(13)) = FlattenSeq([i \in DOMAIN c.report |-> UsageReportOf(c.report[i])])
<1> DEFINE P(k) == Part(MsgTs, MsgVss(c), k)
<1>0. /\ PFCP_IE_CAUSE \in Nat /\ PFCP_IE_RECOVERY_TIME_STAMP \in Nat /\ PFCP_IE_UP_FUNCTION_FEATURES \in Nat
      /\ PFCP_IE_CREATE_FAR \in Nat /\ PFCP_IE_CREATE_URR \in Nat /\ PFCP_IE_UPDATE_FAR \in Nat /\ PFCP_IE_UPDATE_URR \in Nat
  BY DEF PFCP_IE_CAUSE, PFCP_IE_RECOVERY_TIME_STAMP, PFCP_IE_UP_FUNCTION_FEATURES,
         PFCP_IE_CREATE_FAR, PFCP_IE_CREATE_URR, PFCP_IE_UPDATE_FAR, PFCP_IE_UPDATE_URR
<1>1. P(1) = FlattenSeq([i \in DOMAIN c.node_id |-> add_node_id_v4(c.node_id[i])])
  <2>1. P(1) = Wire(Listed(PFCP_IE_NODE_ID, NodeValues(c.node_id)))
    BY DEF Part, MsgTs, MsgVss
  <2>2. QED BY <2>1, ContentFacts, NodeFacts, Zenon DEF add_node_id_v4
<1>2. P(2) = FlattenSeq([i \in DOMAIN c.cause |-> add_cause(c.cause[i])])
  <2>1. P(2) = Wire(Listed(PFCP_IE_CAUSE, IdValues(c.cause)))
    BY DEF Part, MsgTs, MsgVss
  <2>2. QED BY <1>0, <2>1, ContentFacts, IdFacts, Zenon DEF add_cause
<1>3. P(3) = FlattenSeq([i \in DOMAIN c.recovery_ts |-> add_recovery_timestamp(c.recovery_ts[i])])
  <2>1. P(3) = Wire(Listed(PFCP_IE_RECOVERY_TIME_STAMP, IdValues(c.recovery_ts)))
    BY DEF Part, MsgTs, MsgVss
  <2>2. QED BY <1>0, <2>1, ContentFacts, IdFacts, Zenon DEF add_recovery_timestamp
<1>4. P(4) = If(c.features, add_up_function_features)
  <2>0. <<4, 0>> \in Values
    BY ShortValues
  <2>1. P(4) = Wire(Listed(PFCP_IE_UP_FUNCTION_FEATURES, FlagValues(c.features, <<4, 0>>)))
    BY DEF Part, MsgTs, MsgVss
  <2>2. QED BY <1>0, <2>0, <2>1, FlagFacts, Zenon DEF add_up_function_features
<1>5. P(5) = FlattenSeq([i \in DOMAIN c.fseid |-> add_fseid(c.fseid[i])])
  <2>1. P(5) = Wire(Listed(PFCP_IE_FSEID, FseidValues(c.fseid)))
    BY DEF Part, MsgTs, MsgVss
  <2>2. QED BY <2>1, ContentFacts, FseidFacts, Zenon DEF add_fseid
<1>6. P(6) = FlattenSeq([i \in DOMAIN c.create_pdrs |-> add_create_pdr(c.create_pdrs[i])])
  <2>1. P(6) = Wire(Listed(PFCP_IE_CREATE_PDR, PdrValues(c.create_pdrs)))
    BY DEF Part, MsgTs, MsgVss
  <2>2. QED BY <2>1, ContentFacts, PdrsFacts, Zenon
<1>7. P(7) = FlattenSeq([i \in DOMAIN c.create_fars |-> add_create_far(c.create_fars[i])])
  <2>1. P(7) = Wire(Listed(PFCP_IE_CREATE_FAR, FarValues(c.create_fars, PFCP_IE_FORWARDING_PARAMETERS)))
    BY DEF Part, MsgTs, MsgVss
  <2>2. QED BY <1>0, <2>1, ContentFacts, FarsFacts, Zenon DEF add_create_far
<1>8. P(8) = FlattenSeq([i \in DOMAIN c.create_urrs |-> add_create_urr(c.create_urrs[i])])
  <2>1. P(8) = Wire(Listed(PFCP_IE_CREATE_URR, UrrValues(c.create_urrs)))
    BY DEF Part, MsgTs, MsgVss
  <2>2. QED BY <1>0, <2>1, ContentFacts, UrrsFacts, Zenon DEF add_create_urr
<1>9. P(9) = FlattenSeq([i \in DOMAIN c.update_fars |-> add_update_far(c.update_fars[i])])
  <2>1. P(9) = Wire(Listed(PFCP_IE_UPDATE_FAR, FarValues(c.update_fars, PFCP_IE_UPDATE_FORWARDING_PARAMETERS)))
    BY DEF Part, MsgTs, MsgVss
  <2>2. QED BY <1>0, <2>1, ContentFacts, FarsFacts, Zenon DEF add_update_far
<1>10. P(10) = FlattenSeq([i \in DOMAIN c.update_urrs |-> add_update_urr(c.update_urrs[i])])
  <2>1. P(10) = Wire(Listed(PFCP_IE_UPDATE_URR, UrrValues(c.update_urrs)))
    BY DEF Part, MsgTs, MsgVss
  <2>2. QED BY <1>0, <2>1, ContentFacts, UrrsFacts, Zenon DEF add_update_urr
<1>11. P(11) = FlattenSeq([i \in DOMAIN c.created_pdrs |-> add_created_pdr(c.created_pdrs[i])])
  <2>1. P(11) = Wire(Listed(PFCP_IE_CREATED_PDR, CreatedValues(c.created_pdrs)))
    BY DEF Part, MsgTs, MsgVss
  <2>2. QED BY <2>1, ContentFacts, CreatedsFacts, Zenon
<1>12. Cat(P(12), P(13)) = FlattenSeq([i \in DOMAIN c.report |-> UsageReportOf(c.report[i])])
  <2>1. P(12) = Wire(Listed(PFCP_IE_REPORT_TYPE, ReportTypeValues(c.report)))
    BY DEF Part, MsgTs, MsgVss
  <2>2. P(13) = Wire(Listed(PFCP_IE_USAGE_REPORT_IN_SESS_RPT_REQ, ReportValues(c.report)))
    BY DEF Part, MsgTs, MsgVss
  <2>3. QED BY <2>1, <2>2, ContentFacts, ReportsFacts, Zenon
<1> HIDE DEF P
<1>13. QED BY <1>1, <1>2, <1>3, <1>4, <1>5, <1>6, <1>7, <1>8, <1>9, <1>10, <1>11, <1>12, Zenon DEF P

(* Build writes the header and the group, and fills in the length.         *)
LEMMA BuildIs ==
    ASSUME NEW h, EncodeHeader(h) \in Seq(Nat), NEW c \in Contents
    PROVE  Build(h, c) = finish(Cat(EncodeHeader(h), Wire(Ies(c))))
<1> DEFINE P(k) == Part(MsgTs, MsgVss(c), k)
           e == EncodeHeader(h)
           r == FlattenSeq([i \in DOMAIN c.report |-> UsageReportOf(c.report[i])])
           w2 == Cat(P(1), P(2))
           w3 == Cat(w2, P(3))
           w4 == Cat(w3, P(4))
           w5 == Cat(w4, P(5))
           w6 == Cat(w5, P(6))
           w7 == Cat(w6, P(7))
           w8 == Cat(w7, P(8))
           w9 == Cat(w8, P(9))
           w10 == Cat(w9, P(10))
           w11 == Cat(w10, P(11))
           w12 == Cat(w11, P(12))
           w13 == Cat(w12, P(13))
<1>1. Build(h, c) = finish(Cat(Cat(Cat(Cat(Cat(Cat(Cat(Cat(Cat(Cat(Cat(Cat(e, P(1)), P(2)), P(3)), P(4)),
                           P(5)), P(6)), P(7)), P(8)), P(9)), P(10)), P(11)), r))
  <2> DEFINE x1 == FlattenSeq([i \in DOMAIN c.node_id |-> add_node_id_v4(c.node_id[i])])
             x2 == FlattenSeq([i \in DOMAIN c.cause |-> add_cause(c.cause[i])])
             x3 == FlattenSeq([i \in DOMAIN c.recovery_ts |-> add_recovery_timestamp(c.recovery_ts[i])])
             x4 == If(c.features, add_up_function_features)
             x5 == FlattenSeq([i \in DOMAIN c.fseid |-> add_fseid(c.fseid[i])])
             x6 == FlattenSeq([i \in DOMAIN c.create_pdrs |-> add_create_pdr(c.create_pdrs[i])])
             x7 == FlattenSeq([i \in DOMAIN c.create_fars |-> add_create_far(c.create_fars[i])])
             x8 == FlattenSeq([i \in DOMAIN c.create_urrs |-> add_create_urr(c.create_urrs[i])])
             x9 == FlattenSeq([i \in DOMAIN c.update_fars |-> add_update_far(c.update_fars[i])])
             x10 == FlattenSeq([i \in DOMAIN c.update_urrs |-> add_update_urr(c.update_urrs[i])])
             x11 == FlattenSeq([i \in DOMAIN c.created_pdrs |-> add_created_pdr(c.created_pdrs[i])])
  <2>1. Build(h, c) = finish(Cat(Cat(Cat(Cat(Cat(Cat(Cat(Cat(Cat(Cat(Cat(Cat(e, x1), x2), x3), x4),
                           x5), x6), x7), x8), x9), x10), x11), r))
    BY Zenon DEF Build, Cat, Given, Each
  <2>2. /\ P(1) = x1 /\ P(2) = x2 /\ P(3) = x3 /\ P(4) = x4 /\ P(5) = x5 /\ P(6) = x6 /\ P(7) = x7
        /\ P(8) = x8 /\ P(9) = x9 /\ P(10) = x10 /\ P(11) = x11
    BY Parts, Zenon
  <2> HIDE DEF P, x1, x2, x3, x4, x5, x6, x7, x8, x9, x10, x11, r, e
  <2>3. QED BY <2>1, <2>2, Zenon
<1>2. r = Cat(P(12), P(13))
  BY Parts, Zenon
<1>3. Wire(Ies(c)) = w13
  BY MsgGroup, MsgTsFacts, Built DEF Ies
<1>4. \A k \in 1..13 : P(k) \in Seq(Nat)
  BY MsgGroup, MsgTsFacts, PartType
<1>5. /\ P(1) \in Seq(Nat) /\ P(2) \in Seq(Nat) /\ P(3) \in Seq(Nat) /\ P(4) \in Seq(Nat) /\ P(5) \in Seq(Nat)
      /\ P(6) \in Seq(Nat) /\ P(7) \in Seq(Nat) /\ P(8) \in Seq(Nat) /\ P(9) \in Seq(Nat) /\ P(10) \in Seq(Nat)
      /\ P(11) \in Seq(Nat) /\ P(12) \in Seq(Nat) /\ P(13) \in Seq(Nat)
  <2> HIDE DEF P
  <2>1. QED BY <1>4
<1>6. \A a, b \in Seq(Nat) : Cat(a, b) \in Seq(Nat)
  BY CatFacts
<1>7. \A a, b, d \in Seq(Nat) : Cat(Cat(a, b), d) = Cat(a, Cat(b, d))
  BY CatFacts
<1> HIDE DEF P, e, r
<1>8. w2 \in Seq(Nat) /\ w3 \in Seq(Nat) /\ w4 \in Seq(Nat) /\ w5 \in Seq(Nat) /\ w6 \in Seq(Nat)
  BY <1>5, <1>6
<1> HIDE DEF w2, w3, w4, w5, w6
<1>9. w7 \in Seq(Nat) /\ w8 \in Seq(Nat) /\ w9 \in Seq(Nat) /\ w10 \in Seq(Nat) /\ w11 \in Seq(Nat) /\ w12 \in Seq(Nat)
  BY <1>5, <1>6, <1>8
<1> HIDE DEF w7, w8, w9, w10, w11, w12
<1>10. e \in Seq(Nat)
  BY DEF e
<1>11. \A w, x \in Seq(Nat) : Cat(Cat(e, w), x) = Cat(e, Cat(w, x))
  BY <1>7, <1>10, Zenon
<1>12. Cat(Cat(e, P(1)), P(2)) = Cat(e, w2)
  BY <1>5, <1>8, <1>9, <1>11, Zenon DEF w2
<1>13. Cat(Cat(e, w2), P(3)) = Cat(e, w3)
  BY <1>5, <1>8, <1>9, <1>11, Zenon DEF w3
<1>14. Cat(Cat(e, w3), P(4)) = Cat(e, w4)
  BY <1>5, <1>8, <1>9, <1>11, Zenon DEF w4
<1>15. Cat(Cat(e, w4), P(5)) = Cat(e, w5)
  BY <1>5, <1>8, <1>9, <1>11, Zenon DEF w5
<1>16. Cat(Cat(e, w5), P(6)) = Cat(e, w6)
  BY <1>5, <1>8, <1>9, <1>11, Zenon DEF w6
<1>17. Cat(Cat(e, w6), P(7)) = Cat(e, w7)
  BY <1>5, <1>8, <1>9, <1>11, Zenon DEF w7
<1>18. Cat(Cat(e, w7), P(8)) = Cat(e, w8)
  BY <1>5, <1>8, <1>9, <1>11, Zenon DEF w8
<1>19. Cat(Cat(e, w8), P(9)) = Cat(e, w9)
  BY <1>5, <1>8, <1>9, <1>11, Zenon DEF w9
<1>20. Cat(Cat(e, w9), P(10)) = Cat(e, w10)
  BY <1>5, <1>8, <1>9, <1>11, Zenon DEF w10
<1>21. Cat(Cat(e, w10), P(11)) = Cat(e, w11)
  BY <1>5, <1>8, <1>9, <1>11, Zenon DEF w11
<1>22. Cat(Cat(e, w11), r) = Cat(e, w13)
  <2>1. Cat(w11, Cat(P(12), P(13))) = w13
    <3>1. Cat(Cat(w11, P(12)), P(13)) = Cat(w11, Cat(P(12), P(13)))
      <4>1. w11 \in Seq(Nat) /\ P(12) \in Seq(Nat) /\ P(13) \in Seq(Nat)
        BY <1>5, <1>9
      <4>2. QED BY <1>7, <4>1, ZenonT(60)
    <3>2. QED BY <3>1 DEF w12
  <2>2. Cat(P(12), P(13)) \in Seq(Nat)
    BY <1>5, <1>6, Zenon
  <2>3. Cat(Cat(e, w11), r) = Cat(e, Cat(w11, r))
    BY <1>2, <1>9, <1>11, <2>2, Zenon
  <2>4. QED BY <1>2, <2>1, <2>3
<1> HIDE DEF w13
<1>23. QED BY <1>1, <1>3, <1>12, <1>13, <1>14, <1>15, <1>16, <1>17, <1>18, <1>19, <1>20, <1>21, <1>22 DEF e

-----------------------------------------------------------------------------
(* The header, and what cutting and extending do to a message.             *)

(* A header: version and S flag, type, length, SEID if there is one,       *)
(* sequence number, priority.                                              *)
HeaderOf(t, sd, len, n) == IF sd = <<>> THEN <<32, t, len, n, 0>> ELSE <<33, t, len, sd[1], n, 0>>
(* The header's length.                                                    *)
HeadLen(sd) == IF sd = <<>> THEN 5 ELSE 6
(* The header as DecodeHeader reads it.                                    *)
HeaderRead(t, sd, len, n) ==
    [version |-> 1, s_flag |-> sd # <<>>, mp_flag |-> FALSE, fo_flag |-> FALSE, msg_type |-> t,
     length |-> len, seid |-> sd, seq_num |-> n, priority |-> 0]

(* A sequence number on the wire is below the modulus.                     *)
LEMMA ModFacts ==
    ASSUME NEW n \in Nat
    PROVE  n % SeqNumMod \in Nat /\ n % SeqNumMod < SeqNumMod /\ SeqNumMod \in Nat
BY CodecAssumption

(* The modulus leaves smaller numbers alone and is idempotent.             *)
LEMMA ModOf ==
    ASSUME NEW n \in Nat
    PROVE  (n < SeqNumMod => n % SeqNumMod = n) /\ (n % SeqNumMod) % SeqNumMod = n % SeqNumMod
<1>1. \A m \in Nat : m < SeqNumMod => m % SeqNumMod = m
  BY CodecAssumption, SMTT(60)
<1>2. QED BY <1>1, ModFacts

(* The header is octets, five or six of them.                              *)
LEMMA HeadFacts ==
    ASSUME NEW t \in Nat, NEW sd \in Option(Nat), NEW len \in Nat, NEW n \in Nat
    PROVE  /\ HeaderOf(t, sd, len, n) \in Seq(Nat) /\ Len(HeaderOf(t, sd, len, n)) = HeadLen(sd)
           /\ HeadLen(sd) \in {5, 6}
<1>1. CASE sd = <<>>
  BY <1>1 DEF HeaderOf, HeadLen
<1>2. CASE \E x \in Nat : sd = <<x>>
  <2>1. PICK x \in Nat : sd = <<x>>
    BY <1>2
  <2>2. sd # <<>> /\ sd[1] = x
    BY <2>1
  <2>3. HeaderOf(t, sd, len, n) = <<33, t, len, x, n, 0>> /\ HeadLen(sd) = 6
    BY <2>2 DEF HeaderOf, HeadLen
  <2>4. QED BY <2>3
<1>3. QED BY <1>1, <1>2, OptionCases

(* The elements of a Cat, by index.                                        *)
LEMMA CatIndex ==
    ASSUME NEW a \in Seq(Nat), NEW b \in Seq(Nat)
    PROVE  /\ Cat(a, b) \in Seq(Nat) /\ Len(Cat(a, b)) = Len(a) + Len(b) /\ Len(a) \in Nat /\ Len(b) \in Nat
           /\ \A i \in 1..Len(a) : Cat(a, b)[i] = a[i]
           /\ \A i \in 1..Len(b) : Cat(a, b)[Len(a) + i] = b[i]
BY ConcatAt DEF Cat

(* A part of a sequence as an operator of its own, for the same reason as  *)
(* Cat.                                                                    *)
Sub(s, m, n) == SubSeq(s, m, n)

(* DropFirst, for Cat and Sub.                                             *)
LEMMA CatDrop ==
    ASSUME NEW a \in Seq(Nat), NEW b \in Seq(Nat), NEW k, NEW m, k = Len(a) + 1, m = Len(a) + Len(b)
    PROVE  Sub(Cat(a, b), k, m) = b
BY DropFirst DEF Cat, Sub

(* SubSeqOver, for Cat and Sub.                                            *)
LEMMA CatOver ==
    ASSUME NEW a \in Seq(Nat), NEW b \in Seq(Nat), NEW j \in Nat, j <= Len(b), NEW m, m = Len(a) + j
    PROVE  Sub(Cat(a, b), 1, m) = Cat(a, Sub(b, 1, j)) /\ Sub(b, 1, j) \in Seq(Nat)
<1>1. \A i \in Nat : i <= Len(b) => /\ SubSeq(a \o b, 1, Len(a) + i) = a \o SubSeq(b, 1, i)
                                    /\ SubSeq(b, 1, i) \in Seq(Nat)
  BY SubSeqOver
<1>2. \A i \in Nat : i <= Len(b) => /\ Sub(Cat(a, b), 1, Len(a) + i) = Cat(a, Sub(b, 1, i))
                                    /\ Sub(b, 1, i) \in Seq(Nat)
  BY <1>1 DEF Cat, Sub
<1>3. QED BY <1>2

(* The header's octets, concatenated.                                      *)
LEMMA TupleCat ==
    ASSUME NEW a \in Nat, NEW b \in Nat, NEW c \in Nat, NEW d \in Nat, NEW e \in Nat
    PROVE  /\ (<<a, b, c>> \o <<>>) \o <<d, e>> = <<a, b, c, d, e>>
           /\ \A x \in Nat : (<<a, b, c>> \o <<x>>) \o <<d, e>> = <<a, b, c, x, d, e>>
<1> DEFINE p == <<a, b, c>>
           q == <<d, e>>
<1>1. p \in Seq(Nat) /\ Len(p) = 3 /\ p[1] = a /\ p[2] = b /\ p[3] = c
  OBVIOUS
<1>2. q \in Seq(Nat) /\ Len(q) = 2 /\ q[1] = d /\ q[2] = e
  OBVIOUS
<1>3. p \o <<>> = p
  <2> HIDE DEF p
  <2>1. QED BY <1>1, ConcatFacts
<1>4. p \o q = <<a, b, c, d, e>>
  <2> DEFINE z == Cat(p, q)
             r == <<a, b, c, d, e>>
  <2>1. r \in Seq(Nat) /\ Len(r) = 5 /\ r[1] = a /\ r[2] = b /\ r[3] = c /\ r[4] = d /\ r[5] = e
    OBVIOUS
  <2> HIDE DEF p, q, r
  <2>2. z \in Seq(Nat) /\ Len(z) = 5 /\ z[1] = a /\ z[2] = b /\ z[3] = c /\ z[4] = d /\ z[5] = e
    <3>1. z \in Seq(Nat) /\ Len(z) = 5 /\ (\A i \in 1..3 : z[i] = p[i]) /\ (\A i \in 1..2 : z[3 + i] = q[i])
      <4>1. /\ z \in Seq(Nat) /\ Len(z) = Len(p) + Len(q)
            /\ \A i \in 1..Len(p) : z[i] = p[i]
            /\ \A i \in 1..Len(q) : z[Len(p) + i] = q[i]
        BY <1>1, <1>2, CatIndex
      <4> HIDE DEF z
      <4>2. QED BY <1>1, <1>2, <4>1
    <3> HIDE DEF z
    <3>2. z[3 + 1] = q[1] /\ z[3 + 2] = q[2]
      BY <3>1
    <3>3. QED BY <1>1, <1>2, <3>1, <3>2
  <2> HIDE DEF z
  <2>3. \A i \in 1..5 : z[i] = r[i]
    BY <2>1, <2>2
  <2>4. QED BY <2>1, <2>2, <2>3, SameSeq, ZenonT(60) DEF z, r, Cat
<1>5. ASSUME NEW x \in Nat PROVE (p \o <<x>>) \o q = <<a, b, c, x, d, e>>
  <2> DEFINE y == <<x>>
             u == Cat(p, y)
             z == Cat(u, q)
             r == <<a, b, c, x, d, e>>
  <2>0. y \in Seq(Nat) /\ Len(y) = 1 /\ y[1] = x
    OBVIOUS
  <2>1. r \in Seq(Nat) /\ Len(r) = 6 /\ r[1] = a /\ r[2] = b /\ r[3] = c /\ r[4] = x /\ r[5] = d /\ r[6] = e
    OBVIOUS
  <2> HIDE DEF p, q, r, y
  <2>2. u \in Seq(Nat) /\ Len(u) = 4 /\ u[1] = a /\ u[2] = b /\ u[3] = c /\ u[4] = x
    <3>1. u \in Seq(Nat) /\ Len(u) = 4 /\ (\A i \in 1..3 : u[i] = p[i]) /\ (\A i \in 1..1 : u[3 + i] = y[i])
      <4>1. /\ u \in Seq(Nat) /\ Len(u) = Len(p) + Len(y)
            /\ \A i \in 1..Len(p) : u[i] = p[i]
            /\ \A i \in 1..Len(y) : u[Len(p) + i] = y[i]
        BY <1>1, <2>0, CatIndex
      <4> HIDE DEF u
      <4>2. QED BY <1>1, <2>0, <4>1
    <3> HIDE DEF u
    <3>2. u[3 + 1] = y[1]
      BY <3>1
    <3>3. QED BY <1>1, <2>0, <3>1, <3>2
  <2> HIDE DEF u
  <2>3. z \in Seq(Nat) /\ Len(z) = 6 /\ z[1] = a /\ z[2] = b /\ z[3] = c /\ z[4] = x /\ z[5] = d /\ z[6] = e
    <3>1. z \in Seq(Nat) /\ Len(z) = 6 /\ (\A i \in 1..4 : z[i] = u[i]) /\ (\A i \in 1..2 : z[4 + i] = q[i])
      <4>1. /\ z \in Seq(Nat) /\ Len(z) = Len(u) + Len(q)
            /\ \A i \in 1..Len(u) : z[i] = u[i]
            /\ \A i \in 1..Len(q) : z[Len(u) + i] = q[i]
        BY <1>2, <2>2, CatIndex
      <4> HIDE DEF z
      <4>2. QED BY <1>2, <2>2, <4>1
    <3> HIDE DEF z
    <3>2. z[4 + 1] = q[1] /\ z[4 + 2] = q[2]
      BY <3>1
    <3>3. QED BY <1>2, <2>2, <3>1, <3>2
  <2> HIDE DEF z
  <2>4. \A i \in 1..6 : z[i] = r[i]
    BY <2>1, <2>3
  <2>5. z = r
    BY <2>1, <2>3, <2>4, SameSeq
  <2>6. QED BY <2>5, Zenon DEF z, r, u, y, Cat
<1>6. QED BY <1>3, <1>4, <1>5, Zenon

(* EncodeHeader writes the header with a length of zero.                   *)
LEMMA EncodeIs ==
    ASSUME NEW t \in Nat, NEW sd \in Option(Nat), NEW n \in Nat
    PROVE  EncodeHeader(NewHeader(t, sd, n)) = HeaderOf(t, sd, 0, n % SeqNumMod)
<1> DEFINE h == NewHeader(t, sd, n)
           m == n % SeqNumMod
           Flag(b, v) == IF b THEN v ELSE 0
           flags == h.version * 32 + Flag(h.fo_flag, 4) + Flag(h.mp_flag, 2) + Flag(h.s_flag, 1)
           seid == IF h.s_flag THEN h.seid ELSE <<>>
           prio == IF h.mp_flag THEN h.priority * 16 ELSE 0
<1>1. /\ h.version = 1 /\ h.s_flag = (sd # <<>>) /\ h.mp_flag = FALSE /\ h.fo_flag = FALSE /\ h.msg_type = t
      /\ h.length = 0 /\ h.seid = sd /\ h.seq_num = n /\ h.priority = 0
  BY DEF NewHeader, None
<1>2. EncodeHeader(h) = (<<flags, h.msg_type, h.length>> \o seid) \o <<SeqOctets(h.seq_num), prio>>
  BY Zenon DEF EncodeHeader
<1> HIDE DEF h
<1>3. SeqOctets(h.seq_num) = m /\ prio = 0 /\ m \in Nat
  BY <1>1, ModFacts DEF SeqOctets
<1> HIDE DEF m, prio
<1>4. CASE sd = <<>>
  <2>1. h.s_flag = FALSE
    BY <1>1, <1>4
  <2>2. flags = 32 /\ seid = <<>>
    BY <1>1, <2>1
  <2> HIDE DEF flags, seid
  <2>3. EncodeHeader(h) = (<<32, t, 0>> \o <<>>) \o <<m, 0>>
    BY <1>1, <1>2, <1>3, <2>2, Zenon
  <2>4. (<<32, t, 0>> \o <<>>) \o <<m, 0>> = <<32, t, 0, m, 0>>
    BY <1>3, TupleCat
  <2>5. QED BY <1>4, <2>3, <2>4, Zenon DEF HeaderOf, h, m
<1>5. CASE \E x \in Nat : sd = <<x>>
  <2>1. PICK x \in Nat : sd = <<x>>
    BY <1>5
  <2>2. sd # <<>> /\ sd[1] = x
    BY <2>1
  <2>3. h.s_flag = TRUE
    BY <1>1, <2>2
  <2>4. flags = 33 /\ seid = <<x>>
    BY <1>1, <2>1, <2>3
  <2> HIDE DEF flags, seid
  <2>5. EncodeHeader(h) = (<<33, t, 0>> \o <<x>>) \o <<m, 0>>
    BY <1>1, <1>2, <1>3, <2>4, Zenon
  <2>6. (<<33, t, 0>> \o <<x>>) \o <<m, 0>> = <<33, t, 0, x, m, 0>>
    BY <1>3, TupleCat, SMTT(60)
  <2>7. QED BY <2>2, <2>5, <2>6, Zenon DEF HeaderOf, h, m
<1>6. QED BY <1>4, <1>5, OptionCases

(* finish replaces the length field by the length of what follows it.      *)
LEMMA FinishIs ==
    ASSUME NEW t \in Nat, NEW sd \in Option(Nat), NEW len \in Nat, NEW n \in Nat, NEW b \in Seq(Nat)
    PROVE  /\ HeadLen(sd) + Len(b) - 3 \in Nat
           /\ finish(Cat(HeaderOf(t, sd, len, n), b)) = Cat(HeaderOf(t, sd, HeadLen(sd) + Len(b) - 3, n), b)
<1> DEFINE L == HeadLen(sd) + Len(b) - 3
           a == HeaderOf(t, sd, len, n)
           d == HeaderOf(t, sd, L, n)
           s == Cat(a, b)
           z == Cat(d, b)
           k == HeadLen(sd)
<1>1. a \in Seq(Nat) /\ Len(a) = k /\ k \in {5, 6}
  BY HeadFacts
<1>2. Len(b) \in Nat
  OBVIOUS
<1>3. L \in Nat
  BY <1>1, <1>2
<1>4. d \in Seq(Nat) /\ Len(d) = k
  BY <1>3, HeadFacts, SMTT(60)
<1>5. d[3] = L /\ \A i \in 1..k : i # 3 => d[i] = a[i]
  <2> HIDE DEF L
  <2>1. CASE sd = <<>>
    BY <2>1 DEF HeaderOf, HeadLen
  <2>2. CASE sd # <<>>
    BY <2>2 DEF HeaderOf, HeadLen
  <2>3. QED BY <2>1, <2>2
<1> HIDE DEF L, a, d, k
<1>a. /\ s \in Seq(Nat) /\ Len(s) = Len(a) + Len(b)
      /\ \A i \in 1..Len(a) : s[i] = a[i]
      /\ \A i \in 1..Len(b) : s[Len(a) + i] = b[i]
  BY <1>1, CatIndex
<1>b. /\ z \in Seq(Nat) /\ Len(z) = Len(d) + Len(b)
      /\ \A i \in 1..Len(d) : z[i] = d[i]
      /\ \A i \in 1..Len(b) : z[Len(d) + i] = b[i]
  BY <1>4, CatIndex
<1> HIDE DEF s, z
<1>6. /\ s \in Seq(Nat) /\ Len(s) = k + Len(b) /\ z \in Seq(Nat) /\ Len(z) = k + Len(b)
      /\ \A i \in 1..k : s[i] = a[i] /\ z[i] = d[i]
      /\ \A i \in 1..Len(b) : s[k + i] = b[i] /\ z[k + i] = b[i]
  BY <1>1, <1>4, <1>a, <1>b
<1>7. 3 \in 1..Len(s) /\ Len(s) - 3 = L
  BY <1>1, <1>2, <1>6, SMTT(60) DEF L, k
<1> DEFINE f == finish(s)
<1>8. f = [s EXCEPT ![3] = L]
  BY <1>7 DEF finish
<1> HIDE DEF f
<1>9. f \in Seq(Nat) /\ Len(f) = Len(s) /\ f[3] = L /\ \A i \in 1..Len(s) : i # 3 => f[i] = s[i]
  BY <1>3, <1>6, <1>7, <1>8
<1>10. \A i \in 1..Len(f) : f[i] = z[i]
  <2> SUFFICES ASSUME NEW i \in 1..Len(f) PROVE f[i] = z[i]
    OBVIOUS
  <2>0. i \in Nat /\ i >= 1 /\ i <= k + Len(b) /\ k \in Nat
    BY <1>1, <1>2, <1>6, <1>9
  <2>1. CASE i <= k
    <3>1. i \in 1..k /\ i \in 1..Len(s) /\ 3 \in 1..k
      BY <1>1, <1>2, <1>6, <2>0, <2>1
    <3>2. CASE i = 3
      BY <1>5, <1>6, <1>9, <3>1, <3>2
    <3>3. CASE i # 3
      BY <1>5, <1>6, <1>9, <3>1, <3>3
    <3>4. QED BY <3>2, <3>3
  <2>2. CASE i > k
    <3>1. PICK j \in 1..Len(b) : i = k + j
      <4>1. i - k \in 1..Len(b) /\ i = k + (i - k)
        BY <1>2, <2>0, <2>2
      <4>2. QED BY <4>1
    <3>2. i # 3 /\ i \in 1..Len(s)
      <4>1. i # 3
        BY <1>1, <2>0, <2>2
      <4>2. QED BY <1>9, <4>1
    <3>3. QED BY <1>6, <1>9, <3>1, <3>2
  <2>3. i <= k \/ i > k
    BY <2>0
  <2>4. QED BY <2>1, <2>2, <2>3
<1>11. f = z
  BY <1>6, <1>9, <1>10, SameSeq
<1>12. QED BY <1>3, <1>11 DEF f, z, s, a, d, L, k

(* DecodeHeader splits a message into its header and its body.             *)
LEMMA DecodeIs ==
    ASSUME NEW t \in Nat, NEW sd \in Option(Nat), NEW len \in Nat, NEW n \in Nat, NEW b \in Seq(Nat)
    PROVE  DecodeHeader(Cat(HeaderOf(t, sd, len, n), b)) = <<[header |-> HeaderRead(t, sd, len, n), body |-> b]>>
<1> DEFINE a == HeaderOf(t, sd, len, n)
           s == Cat(a, b)
           bit == Bit(s[1], 1)
           at == IF bit THEN 5 ELSE 4
           bad == Len(s) < 5 \/ s[1] \div 32 # 1 \/ (bit /\ Len(s) < 6)
           head == [version |-> 1, s_flag |-> bit, mp_flag |-> Bit(s[1], 2), fo_flag |-> Bit(s[1], 4),
                    msg_type |-> s[2], length |-> s[3], seid |-> IF bit THEN Some(s[4]) ELSE None,
                    seq_num |-> s[at], priority |-> IF Bit(s[1], 2) THEN s[at + 1] \div 16 ELSE 0]
           rest == SubSeq(s, at + 2, Len(s))
<1>1. DecodeHeader(s) = IF bad THEN Err ELSE Ok([header |-> head, body |-> rest])
  BY ZenonT(60) DEF DecodeHeader
<1>2. a \in Seq(Nat) /\ Len(a) = HeadLen(sd)
  BY HeadFacts
<1> HIDE DEF a
<1>3. /\ s \in Seq(Nat) /\ Len(s) = Len(a) + Len(b) /\ Len(b) \in Nat
      /\ \A i \in 1..Len(a) : s[i] = a[i]
  BY <1>2, CatIndex
<1>4. ASSUME NEW k, k = Len(a) + 1 PROVE SubSeq(s, k, Len(s)) = b
  <2> DEFINE m == Len(s)
  <2>1. a \in Seq(Nat) /\ m = Len(a) + Len(b)
    BY <1>2, <1>3
  <2> HIDE DEF m
  <2>2. Sub(Cat(a, b), k, m) = b
    BY <1>4, <2>1, CatDrop
  <2>3. QED BY <2>2 DEF m, Sub
<1> HIDE DEF s
<1>5. CASE sd = <<>>
  <2>1. a[1] = 32 /\ a[2] = t /\ a[3] = len /\ a[4] = n /\ Len(a) = 5
    BY <1>5 DEF HeaderOf, a
  <2>2. s[1] = 32 /\ s[2] = t /\ s[3] = len /\ s[4] = n /\ Len(s) >= 5
    BY <1>3, <2>1
  <2>3. ~Bit(32, 1) /\ ~Bit(32, 2) /\ ~Bit(32, 4) /\ 32 \div 32 = 1
    BY DEF Bit
  <2>4. bit = FALSE /\ Bit(s[1], 2) = FALSE /\ Bit(s[1], 4) = FALSE /\ at = 4
    BY <2>2, <2>3 DEF Bit
  <2>5. ~bad
    <3>1. Len(s) \in Nat
      BY <1>3
    <3> HIDE DEF bit
    <3>2. QED BY <2>2, <2>3, <2>4, <3>1
  <2>6. rest = b
    <3>1. at + 2 = Len(a) + 1
      BY <2>1, <2>4
    <3> HIDE DEF at
    <3>2. QED BY <1>4, <3>1
  <2>7. head = HeaderRead(t, sd, len, n)
    <3> HIDE DEF bit, at
    <3>1. QED BY <1>5, <2>2, <2>4 DEF HeaderRead, None
  <2> HIDE DEF head, rest, bad
  <2>8. QED BY <1>1, <2>5, <2>6, <2>7 DEF Ok, s, a
<1>6. CASE \E x \in Nat : sd = <<x>>
  <2>0. PICK x \in Nat : sd = <<x>>
    BY <1>6
  <2>a. sd # <<>> /\ sd[1] = x
    BY <2>0
  <2>1. a[1] = 33 /\ a[2] = t /\ a[3] = len /\ a[4] = x /\ a[5] = n /\ Len(a) = 6
    BY <2>a DEF HeaderOf, a
  <2>2. s[1] = 33 /\ s[2] = t /\ s[3] = len /\ s[4] = x /\ s[5] = n /\ Len(s) >= 6
    BY <1>3, <2>1
  <2>3. Bit(33, 1) /\ ~Bit(33, 2) /\ ~Bit(33, 4) /\ 33 \div 32 = 1
    BY DEF Bit
  <2>4. bit = TRUE /\ Bit(s[1], 2) = FALSE /\ Bit(s[1], 4) = FALSE /\ at = 5
    BY <2>2, <2>3 DEF Bit
  <2>5. ~bad
    <3>1. Len(s) \in Nat
      BY <1>3
    <3> HIDE DEF bit
    <3>2. QED BY <2>2, <2>3, <2>4, <3>1, SMTT(60)
  <2>6. rest = b
    <3>1. at + 2 = Len(a) + 1
      BY <2>1, <2>4
    <3> HIDE DEF at
    <3>2. QED BY <1>4, <3>1
  <2>7. head = HeaderRead(t, sd, len, n)
    <3>1. (sd # <<>>) = TRUE /\ Some(s[4]) = sd
      BY <2>0, <2>a, <2>2 DEF Some
    <3> HIDE DEF bit, at
    <3>2. QED BY <2>2, <2>4, <3>1 DEF HeaderRead
  <2> HIDE DEF head, rest, bad
  <2>8. QED BY <1>1, <2>5, <2>6, <2>7 DEF Ok, s, a
<1>7. QED BY <1>5, <1>6, OptionCases

(* A message cut at any octet has no header, or its own and a beginning of *)
(* its body.                                                               *)
LEMMA DecodeCut ==
    ASSUME NEW t \in Nat, NEW sd \in Option(Nat), NEW len \in Nat, NEW n \in Nat, NEW b \in Seq(Nat),
           NEW m \in 0..Len(Cat(HeaderOf(t, sd, len, n), b))
    PROVE  LET w == SubSeq(Cat(HeaderOf(t, sd, len, n), b), 1, m)
           IN  /\ w \in Seq(Nat)
               /\ \/ DecodeHeader(w) = Err
                  \/ \E k \in 0..Len(b) :
                        DecodeHeader(w) = <<[header |-> HeaderRead(t, sd, len, n), body |-> SubSeq(b, 1, k)]>>
<1> DEFINE a == HeaderOf(t, sd, len, n)
           s == Cat(a, b)
           w == SubSeq(s, 1, m)
           k == HeadLen(sd)
<1>a. a \in Seq(Nat) /\ Len(a) = k /\ k \in {5, 6}
  BY HeadFacts
<1>h. m \in 0..Len(s)
  OBVIOUS
<1> HIDE DEF a
<1>1. /\ a \in Seq(Nat) /\ Len(a) = k /\ k \in {5, 6} /\ s \in Seq(Nat) /\ Len(s) = k + Len(b) /\ Len(b) \in Nat
      /\ \A i \in 1..k : s[i] = a[i]
  <2> HIDE DEF k
  <2>1. QED BY <1>a, CatIndex
<1>2. w \in Seq(Nat) /\ Len(w) = m /\ m \in Nat /\ \A i \in 1..m : w[i] = s[i]
  <2> HIDE DEF s, k
  <2>1. QED BY <1>1, <1>h, SMTT(60)
<1>3. CASE m >= k
  <2> DEFINE j == m - k
  <2>1. j \in Nat /\ j <= Len(b) /\ m = Len(a) + j
    <3>1. k \in Nat /\ m \in Nat /\ m <= k + Len(b) /\ Len(b) \in Nat
      BY <1>1, <1>2, <1>h
    <3> HIDE DEF k
    <3>2. QED BY <1>1, <1>3, <3>1
  <2> HIDE DEF j
  <2>2. w = Cat(a, SubSeq(b, 1, j)) /\ SubSeq(b, 1, j) \in Seq(Nat)
    <3> HIDE DEF k
    <3>1. Sub(Cat(a, b), 1, m) = Cat(a, Sub(b, 1, j)) /\ Sub(b, 1, j) \in Seq(Nat)
      BY <1>1, <2>1, CatOver, SMTT(60)
    <3>2. QED BY <3>1, Zenon DEF Sub
  <2>3. DecodeHeader(w) = <<[header |-> HeaderRead(t, sd, len, n), body |-> SubSeq(b, 1, j)]>>
    <3> DEFINE y == SubSeq(b, 1, j)
    <3>1. y \in Seq(Nat) /\ w = Cat(a, y)
      BY <2>2
    <3> HIDE DEF y, w
    <3>2. DecodeHeader(Cat(a, y)) = <<[header |-> HeaderRead(t, sd, len, n), body |-> y]>>
      BY <3>1, DecodeIs, ZenonT(60) DEF a
    <3>3. QED BY <3>1, <3>2 DEF y
  <2>4. j \in 0..Len(b)
    BY <1>1, <2>1
  <2>5. QED BY <1>2, <2>3, <2>4 DEF a
<1>4. CASE m < k
  <2>1. Len(w) < 5 \/ (sd # <<>> /\ Len(w) = 5)
    BY <1>1, <1>2, <1>4 DEF HeadLen
  <2>2. CASE Len(w) < 5
    BY <1>2, <2>2 DEF DecodeHeader, a
  <2>3. CASE sd # <<>> /\ Len(w) = 5
    <3>1. a[1] = 33
      BY <2>3 DEF HeaderOf, a
    <3>2. 1 \in 1..m /\ 1 \in 1..k
      BY <1>1, <1>2, <2>3
    <3>3. w[1] = 33 /\ Len(w) < 6
      BY <1>1, <1>2, <2>3, <3>1, <3>2, SMTT(60)
    <3>4. Bit(33, 1)
      BY DEF Bit
    <3> HIDE DEF w
    <3>5. DecodeHeader(w) = Err
      BY <3>3, <3>4 DEF DecodeHeader
    <3>6. QED BY <1>2, <3>5 DEF w, a
  <2>4. QED BY <2>1, <2>2, <2>3
<1>5. m >= k \/ m < k
  BY <1>1, <1>2
<1>6. QED BY <1>3, <1>4, <1>5

(* A message is its header, with its length filled in, and the octets of   *)
(* its IEs.                                                                *)
LEMMA BuildFacts ==
    ASSUME NEW t \in Nat, NEW sd \in Option(Nat), NEW n \in Nat, NEW c \in Contents
    PROVE  LET B == Build(NewHeader(t, sd, n), c)
               L == HeadLen(sd) + Len(Wire(Ies(c))) - 3
           IN  /\ L \in Nat /\ B = Cat(HeaderOf(t, sd, L, n % SeqNumMod), Wire(Ies(c)))
               /\ B \in Seq(Nat) /\ Len(B) - 3 = L
<1> DEFINE m == n % SeqNumMod
           y == Wire(Ies(c))
           L == HeadLen(sd) + Len(y) - 3
           e == HeaderOf(t, sd, 0, m)
           d == HeaderOf(t, sd, L, m)
           B == Build(NewHeader(t, sd, n), c)
<1>1. m \in Nat /\ y \in Seq(Nat) /\ 0 \in Nat
  BY ModFacts, MsgGroup
<1>2. EncodeHeader(NewHeader(t, sd, n)) = e
  BY EncodeIs
<1> HIDE DEF m, y
<1>3. e \in Seq(Nat)
  BY <1>1, HeadFacts
<1>4. B = finish(Cat(e, y))
  BY <1>2, <1>3, BuildIs DEF y
<1>5. L \in Nat /\ finish(Cat(e, y)) = Cat(d, y)
  BY <1>1, FinishIs
<1>6. d \in Seq(Nat) /\ Len(d) = HeadLen(sd) /\ HeadLen(sd) \in {5, 6}
  <2> HIDE DEF L
  <2>1. QED BY <1>1, <1>5, HeadFacts
<1> HIDE DEF d, e
<1>7. Cat(d, y) \in Seq(Nat) /\ Len(Cat(d, y)) = Len(d) + Len(y) /\ Len(y) \in Nat
  BY <1>1, <1>6, CatIndex
<1>8. Len(B) - 3 = L
  BY <1>4, <1>5, <1>6, <1>7
<1>9. QED BY <1>4, <1>5, <1>7, <1>8 DEF d, m, y

(* The unknown IE, as an IE.                                               *)
Unknown == [ie_type |-> UnknownIe[1], value |-> SubSeq(UnknownIe, 3, Len(UnknownIe))]

(* It is an IE of a type that no decoder looks for.                        *)
LEMMA UnknownFacts ==
    /\ Unknown \in IE /\ Bytes[Unknown] = UnknownIe /\ UnknownIe \in Seq(Nat)
    /\ Unknown.ie_type \notin IeTypes
<1> DEFINE s == UnknownIe
           v == SubSeq(s, 3, Len(s))
           h == <<s[1], Len(v)>>
           z == Cat(h, v)
<1>1. s \in Seq(Nat) /\ Len(s) >= 2 /\ Len(s) \in Nat /\ s[2] = Len(s) - 2 /\ s[1] \notin IeTypes
  BY CodecAssumption
<1> HIDE DEF s
<1>2. v \in Seq(Nat) /\ Len(v) = Len(s) - 2 /\ \A i \in 1..Len(v) : v[i] = s[2 + i]
  <2> DEFINE m == 3
             k == Len(s)
  <2>1. m \in Nat /\ k \in Nat /\ m >= 1 /\ k <= Len(s) /\ m <= k + 1
    BY <1>1
  <2> HIDE DEF m, k
  <2>2. /\ SubSeq(s, m, k) \in Seq(Nat) /\ Len(SubSeq(s, m, k)) = k - m + 1
        /\ \A i \in 1..(k - m + 1) : SubSeq(s, m, k)[i] = s[m + i - 1]
    BY <1>1, <2>1, SubSeqFacts
  <2>3. v = SubSeq(s, m, k) /\ k - m + 1 = Len(s) - 2
    BY <1>1 DEF m, k
  <2>4. \A i \in 1..(k - m + 1) : m + i - 1 = 2 + i
    BY <2>1 DEF m
  <2> HIDE DEF v
  <2>5. QED BY <2>2, <2>3, <2>4
<1>3. s[1] \in Nat
  BY <1>1
<1>4. Unknown = [ie_type |-> s[1], value |-> v]
  BY DEF Unknown, s
<1> HIDE DEF v
<1>5. Unknown \in IE /\ Unknown.ie_type = s[1] /\ Unknown.value = v
  BY <1>2, <1>3, <1>4 DEF IE
<1>6. Bytes[Unknown] = z
  BY <1>5, BytesFacts DEF Cat
<1>7. h \in Seq(Nat) /\ Len(h) = 2 /\ h[1] = s[1] /\ h[2] = s[2]
  BY <1>1, <1>2, <1>3
<1> HIDE DEF h
<1>8. /\ z \in Seq(Nat) /\ Len(z) = Len(h) + Len(v)
      /\ \A i \in 1..Len(h) : z[i] = h[i]
      /\ \A i \in 1..Len(v) : z[Len(h) + i] = v[i]
  BY <1>2, <1>7, CatIndex
<1> HIDE DEF z
<1>9. \A i \in 1..Len(s) : z[i] = s[i]
  <2> SUFFICES ASSUME NEW i \in 1..Len(s) PROVE z[i] = s[i]
    OBVIOUS
  <2>1. CASE i <= 2
    <3>1. i = 1 \/ i = 2
      BY <1>1, <2>1
    <3>2. z[1] = h[1] /\ z[2] = h[2]
      BY <1>7, <1>8
    <3>3. QED BY <1>7, <3>1, <3>2
  <2>2. CASE i > 2
    <3>1. PICK j \in 1..Len(v) : i = 2 + j
      <4>1. i - 2 \in 1..Len(v) /\ i = 2 + (i - 2)
        BY <1>1, <1>2, <2>2
      <4>2. QED BY <4>1
    <3>2. QED BY <1>2, <1>7, <1>8, <3>1
  <2>3. i <= 2 \/ i > 2
    BY <1>1
  <2>4. QED BY <2>1, <2>2, <2>3
<1>10. z = s
  <2>1. Len(z) = Len(s)
    BY <1>1, <1>2, <1>7, <1>8
  <2>2. QED BY <1>1, <1>8, <1>9, <2>1, SameSeq
<1>11. QED BY <1>1, <1>5, <1>6, <1>10 DEF s

(* Put in front of a body or behind it, it leaves the IEs of every known   *)
(* type alone.                                                             *)
LEMMA UnknownAdded ==
    ASSUME NEW ies \in Seq(IE)
    PROVE  \E a, b \in Seq(IE) :
              /\ Wire(a) = Cat(UnknownIe, Wire(ies)) /\ Wire(b) = Cat(Wire(ies), UnknownIe)
              /\ \A T \in IeTypes : OfType(a, T) = OfType(ies, T) /\ OfType(b, T) = OfType(ies, T)
<1> DEFINE u == <<Unknown>>
           a == Cat(u, ies)
           b == Cat(ies, u)
<1>1. u \in Seq(IE) /\ Wire(u) = UnknownIe
  BY UnknownFacts, WireFacts
<1>2. \A T \in IeTypes : OfType(u, T) = <<>>
  BY UnknownFacts, OfTypeFacts DEF If
<1> HIDE DEF u
<1>3. a \in Seq(IE) /\ b \in Seq(IE)
  BY <1>1, CatFacts
<1>4. Wire(a) = Cat(UnknownIe, Wire(ies)) /\ Wire(b) = Cat(Wire(ies), UnknownIe)
  BY <1>1, WireFacts DEF Cat
<1>5. ASSUME NEW T \in IeTypes PROVE OfType(a, T) = OfType(ies, T) /\ OfType(b, T) = OfType(ies, T)
  <2> DEFINE o == OfType(ies, T)
  <2>1. OfType(a, T) = Cat(OfType(u, T), o) /\ OfType(b, T) = Cat(o, OfType(u, T)) /\ o \in Seq(IE)
    <3>1. OfType(Cat(u, ies), T) = Cat(OfType(u, T), OfType(ies, T))
      BY <1>1, OfTypeConcat
    <3>2. OfType(Cat(ies, u), T) = Cat(OfType(ies, T), OfType(u, T))
      BY <1>1, OfTypeConcat
    <3>3. OfType(ies, T) \in Seq(IE)
      BY OfTypeFacts
    <3>4. QED BY <3>1, <3>2, <3>3, Zenon
  <2>2. OfType(a, T) = Cat(<<>>, o) /\ OfType(b, T) = Cat(o, <<>>)
    BY <1>2, <2>1
  <2> HIDE DEF o, a, b
  <2>3. Cat(<<>>, o) = o /\ Cat(o, <<>>) = o
    BY <2>1, CatFacts
  <2>4. QED BY <2>2, <2>3 DEF o
<1> HIDE DEF a, b
<1>6. QED BY <1>3, <1>4, <1>5

-----------------------------------------------------------------------------
(* Message B with the unknown IE added behind octet at, its length filled  *)
(* in again.                                                               *)
ExtendedAt(B, at) == finish(SubSeq(B, 1, at) \o UnknownIe \o SubSeq(B, at + 1, Len(B)))
(* Datagram w is message B after fault f.                                  *)
Carries(w, B, f) ==
    \/ f = "none" /\ w = B
    \/ f = "cut" /\ \E k \in 0..Len(B) : w = SubSeq(B, 1, k)
    \/ /\ f = "extended"
       /\ \E at \in {IF Bit(B[1], 1) THEN 6 ELSE 5, Len(B)} : w = ExtendedAt(B, at)

(* The S flag tells how long the header is.                                *)
LEMMA HeadBit ==
    ASSUME NEW t \in Nat, NEW sd \in Option(Nat), NEW len \in Nat, NEW n \in Nat, NEW b \in Seq(Nat)
    PROVE  (IF Bit(Cat(HeaderOf(t, sd, len, n), b)[1], 1) THEN 6 ELSE 5) = HeadLen(sd)
<1> DEFINE a == HeaderOf(t, sd, len, n)
<1>1. a \in Seq(Nat) /\ Len(a) = HeadLen(sd) /\ HeadLen(sd) \in {5, 6}
  BY HeadFacts
<1>2. a[1] = IF sd = <<>> THEN 32 ELSE 33
  BY DEF HeaderOf
<1> HIDE DEF a
<1>3. \A i \in 1..Len(a) : Cat(a, b)[i] = a[i]
  BY <1>1, CatIndex
<1>4. 1 \in 1..Len(a)
  BY <1>1
<1>5. Cat(a, b)[1] = a[1]
  BY <1>3, <1>4
<1>6. Bit(33, 1) /\ ~Bit(32, 1)
  BY DEF Bit
<1> DEFINE x == Cat(a, b)[1]
<1>7. x = IF sd = <<>> THEN 32 ELSE 33
  BY <1>2, <1>5
<1> HIDE DEF x
<1>8. (IF Bit(x, 1) THEN 6 ELSE 5) = HeadLen(sd)
  BY <1>6, <1>7 DEF HeadLen
<1>9. QED BY <1>8 DEF x, a

(* An extended message has its header, with another length, and the body   *)
(* with the unknown IE.                                                    *)
LEMMA ExtendedIs ==
    ASSUME NEW t \in Nat, NEW sd \in Option(Nat), NEW len \in Nat, NEW n \in Nat, NEW y \in Seq(Nat)
    PROVE  LET B == Cat(HeaderOf(t, sd, len, n), y)
           IN  /\ \E l \in Nat : ExtendedAt(B, HeadLen(sd)) = Cat(HeaderOf(t, sd, l, n), Cat(UnknownIe, y))
               /\ \E l \in Nat : ExtendedAt(B, Len(B)) = Cat(HeaderOf(t, sd, l, n), Cat(y, UnknownIe))
<1> DEFINE h == HeaderOf(t, sd, len, n)
           B == Cat(h, y)
           U == UnknownIe
           k == HeadLen(sd)
<1>1. h \in Seq(Nat) /\ Len(h) = k /\ k \in {5, 6}
  BY HeadFacts
<1>2. U \in Seq(Nat)
  BY UnknownFacts
<1> HIDE DEF h, U
<1>3. B \in Seq(Nat) /\ Len(B) = Len(h) + Len(y) /\ Len(y) \in Nat
  BY <1>1, CatIndex
<1>4. \A a, b, c \in Seq(Nat) : Cat(Cat(a, b), c) = Cat(a, Cat(b, c))
  BY CatFacts
<1>5. Cat(U, y) \in Seq(Nat) /\ Cat(y, U) \in Seq(Nat)
  BY <1>2, CatFacts
<1>6. ExtendedAt(B, k) = finish(Cat(h, Cat(U, y)))
  <2>1. Sub(B, 1, k) = h
    <3> DEFINE j == 0
    <3>1. j \in Nat /\ j <= Len(y) /\ k = Len(h) + j
      BY <1>1, <1>3
    <3> HIDE DEF j, k
    <3>2. Sub(Cat(h, y), 1, k) = Cat(h, Sub(y, 1, j))
      BY <1>1, <3>1, CatOver
    <3>3. Sub(y, 1, j) = <<>>
      BY DEF Sub, j
    <3>4. Cat(h, <<>>) = h
      BY <1>1, CatFacts
    <3>5. QED BY <3>2, <3>3, <3>4
  <2>2. Sub(B, k + 1, Len(B)) = y
    <3> DEFINE m == Len(B)
               j == k + 1
    <3>1. h \in Seq(Nat) /\ m = Len(h) + Len(y) /\ j = Len(h) + 1
      BY <1>1, <1>3
    <3> HIDE DEF j, m
    <3>2. Sub(Cat(h, y), j, m) = y
      BY <3>1, CatDrop
    <3>3. QED BY <3>2 DEF j, m
  <2>3. ExtendedAt(B, k) = finish(Cat(Cat(Sub(B, 1, k), U), Sub(B, k + 1, Len(B))))
    BY Zenon DEF ExtendedAt, Cat, Sub, U
  <2>4. Cat(Cat(h, U), y) = Cat(h, Cat(U, y))
    BY <1>1, <1>2, <1>4, Zenon
  <2> HIDE DEF B
  <2>5. QED BY <2>1, <2>2, <2>3, <2>4, Zenon
<1>7. ExtendedAt(B, Len(B)) = finish(Cat(h, Cat(y, U)))
  <2> DEFINE m == Len(B)
  <2>1. Sub(B, 1, m) = B
    <3> HIDE DEF B
    <3>1. QED BY <1>3, SubSeqWhole DEF Sub, m
  <2>2. Sub(B, m + 1, m) = <<>>
    <3> HIDE DEF B
    <3>1. QED BY <1>3 DEF Sub, m
  <2>3. ExtendedAt(B, m) = finish(Cat(Cat(Sub(B, 1, m), U), Sub(B, m + 1, m)))
    BY Zenon DEF ExtendedAt, Cat, Sub, U
  <2>4. Cat(B, U) = Cat(h, Cat(y, U))
    BY <1>1, <1>2, <1>4, Zenon
  <2>5. Cat(Cat(B, U), <<>>) = Cat(B, U)
    <3> HIDE DEF B
    <3>1. Cat(B, U) \in Seq(Nat)
      BY <1>2, <1>3, CatFacts
    <3>2. QED BY <3>1, CatFacts
  <2>6. finish(Cat(Cat(Sub(B, 1, m), U), Sub(B, m + 1, m))) = finish(Cat(B, U))
    <3> HIDE DEF B, m
    <3>1. QED BY <2>1, <2>2, <2>5, Zenon
  <2>7. QED BY <2>3, <2>4, <2>6, Zenon
<1>8. ASSUME NEW z \in Seq(Nat) PROVE \E l \in Nat : finish(Cat(h, z)) = Cat(HeaderOf(t, sd, l, n), z)
  <2>1. k + Len(z) - 3 \in Nat /\ finish(Cat(h, z)) = Cat(HeaderOf(t, sd, k + Len(z) - 3, n), z)
    BY FinishIs DEF h
  <2> DEFINE l == k + Len(z) - 3
  <2>2. l \in Nat /\ finish(Cat(h, z)) = Cat(HeaderOf(t, sd, l, n), z)
    BY <2>1
  <2> HIDE DEF l
  <2>3. QED BY <2>2
<1>9. \E l \in Nat : finish(Cat(h, Cat(U, y))) = Cat(HeaderOf(t, sd, l, n), Cat(U, y))
  <2> DEFINE z == Cat(U, y)
  <2>1. z \in Seq(Nat)
    BY <1>5
  <2> HIDE DEF z
  <2>2. QED BY <1>8, <2>1 DEF z
<1>10. \E l \in Nat : finish(Cat(h, Cat(y, U))) = Cat(HeaderOf(t, sd, l, n), Cat(y, U))
  <2> DEFINE z == Cat(y, U)
  <2>1. z \in Seq(Nat)
    BY <1>5
  <2> HIDE DEF z
  <2>2. QED BY <1>8, <2>1 DEF z
<1>11. QED BY <1>6, <1>7, <1>9, <1>10, Zenon DEF h, U

(* Datagram w has the header that was sent, and body b.                    *)
HeaderArrives(w, t, sd, n, len, b) ==
    DecodeHeader(w) = <<[header |-> HeaderRead(t, sd, len, n % SeqNumMod), body |-> b]>>
(* The known IEs of the body are those of p, a beginning of what was sent. *)
BodyArrives(b, c, p, q) ==
    /\ Ies(c) = Cat(p, q) /\ iter_ies(b) \in Seq(IE)
    /\ \A T \in IeTypes : OfType(iter_ies(b), T) = OfType(p, T)

(* A cut message is refused or read as its header and the beginning of its *)
(* body.                                                                   *)
CutRead(t, sd, len, n, b, w) ==
    /\ w \in Seq(Nat)
    /\ \/ DecodeHeader(w) = Err
       \/ \E k \in 0..Len(b) :
             DecodeHeader(w) = <<[header |-> HeaderRead(t, sd, len, n), body |-> SubSeq(b, 1, k)]>>
(* A message with that header, whatever its length field, and that body.   *)
Longer(t, sd, n, w, b) == \E l \in Nat : w = Cat(HeaderOf(t, sd, l, n), b)

(* DecodeCut, in these words.                                              *)
LEMMA CutIsRead ==
    ASSUME NEW t \in Nat, NEW sd \in Option(Nat), NEW len \in Nat, NEW n \in Nat, NEW b \in Seq(Nat),
           NEW B, B = Cat(HeaderOf(t, sd, len, n), b), NEW m \in 0..Len(B), NEW w, w = Sub(B, 1, m)
    PROVE  CutRead(t, sd, len, n, b, w)
<1> DEFINE v == SubSeq(Cat(HeaderOf(t, sd, len, n), b), 1, m)
<1>0. w = v
  BY DEF Sub
<1>1. m \in 0..Len(Cat(HeaderOf(t, sd, len, n), b))
  OBVIOUS
<1>2. v \in Seq(Nat)
  BY <1>1, DecodeCut
<1>3. \/ DecodeHeader(v) = Err
      \/ \E k \in 0..Len(b) :
            DecodeHeader(v) = <<[header |-> HeaderRead(t, sd, len, n), body |-> SubSeq(b, 1, k)]>>
  BY <1>1, DecodeCut, ZenonT(60)
<1>4. QED BY <1>0, <1>2, <1>3, Zenon DEF CutRead

(* ExtendedIs, in these words.                                             *)
LEMMA ExtendedIsLonger ==
    ASSUME NEW t \in Nat, NEW sd \in Option(Nat), NEW len \in Nat, NEW n \in Nat, NEW y \in Seq(Nat),
           NEW B, B = Cat(HeaderOf(t, sd, len, n), y)
    PROVE  /\ Longer(t, sd, n, ExtendedAt(B, HeadLen(sd)), Cat(UnknownIe, y))
           /\ Longer(t, sd, n, ExtendedAt(B, Len(B)), Cat(y, UnknownIe))
<1> DEFINE D == Cat(HeaderOf(t, sd, len, n), y)
<1>1. \E l \in Nat : ExtendedAt(D, HeadLen(sd)) = Cat(HeaderOf(t, sd, l, n), Cat(UnknownIe, y))
  BY ExtendedIs, SMTT(60)
<1>2. \E l \in Nat : ExtendedAt(D, Len(D)) = Cat(HeaderOf(t, sd, l, n), Cat(y, UnknownIe))
  BY ExtendedIs, SMTT(60)
<1>3. QED BY <1>1, <1>2, Zenon DEF Longer

(* What a node finds in a datagram: its header is the one sent, its IEs a  *)
(* beginning of those sent, all of them when it was not cut; only a cut    *)
(* one is refused.                                                         *)
LEMMA ReadBack ==
    ASSUME NEW t \in Nat, NEW sd \in Option(Nat), NEW n \in Nat, NEW c \in Contents, NEW f, NEW w,
           Carries(w, Build(NewHeader(t, sd, n), c), f)
    PROVE  /\ w \in Seq(Nat)
           /\ \/ f = "cut" /\ DecodeHeader(w) = Err
              \/ \E len \in Nat, b \in Seq(Nat), p, q \in Seq(IE) :
                    /\ HeaderArrives(w, t, sd, n, len, b) /\ BodyArrives(b, c, p, q)
                    /\ f # "cut" => q = <<>>
                    /\ f = "none" => len = Len(Build(NewHeader(t, sd, n), c)) - 3
<1> DEFINE B == Build(NewHeader(t, sd, n), c)
           m == n % SeqNumMod
           i == Ies(c)
           y == Wire(i)
           L == HeadLen(sd) + Len(y) - 3
<1>1. m \in Nat /\ i \in Seq(IE) /\ y \in Seq(Nat) /\ iter_ies(y) = i
  BY ModFacts, MsgGroup
<1>2. L \in Nat /\ B = Cat(HeaderOf(t, sd, L, m), y) /\ B \in Seq(Nat) /\ Len(B) - 3 = L
  BY BuildFacts
<1>e. <<>> \in Seq(IE)
  OBVIOUS
<1>3. Carries(w, B, f)
  OBVIOUS
<1>t. m \in Nat /\ y \in Seq(Nat) /\ L \in Nat
  BY <1>1, <1>2
<1> HIDE DEF m, L, B
<1>4. CASE f = "none" /\ w = B
  <2>1. HeaderArrives(w, t, sd, n, L, y)
    <3> HIDE DEF y
    <3>1. DecodeHeader(Cat(HeaderOf(t, sd, L, m), y)) = <<[header |-> HeaderRead(t, sd, L, m), body |-> y]>>
      BY <1>t, DecodeIs, SMTT(60)
    <3>2. QED BY <1>2, <1>4, <3>1 DEF HeaderArrives, m
  <2>2. BodyArrives(y, c, i, <<>>)
    <3> HIDE DEF i, y
    <3>1. Cat(i, <<>>) = i
      BY <1>1, CatFacts
    <3>2. QED BY <1>1, <3>1 DEF BodyArrives, i
  <2> HIDE DEF i, y
  <2>3. QED BY <1>1, <1>2, <1>4, <1>e, <2>1, <2>2 DEF B
<1>5. CASE f = "cut" /\ \E k \in 0..Len(B) : w = SubSeq(B, 1, k)
  <2>1. PICK k \in 0..Len(B) : w = SubSeq(B, 1, k)
    BY <1>5
  <2>2. /\ w \in Seq(Nat)
        /\ \/ DecodeHeader(w) = Err
           \/ \E j \in 0..Len(y) : DecodeHeader(w) = <<[header |-> HeaderRead(t, sd, L, m), body |-> SubSeq(y, 1, j)]>>
    <3> HIDE DEF y
    <3>1. B = Cat(HeaderOf(t, sd, L, m), y)
      BY <1>2
    <3>2. w = Sub(B, 1, k)
      BY <2>1 DEF Sub
    <3>3. CutRead(t, sd, L, m, y, w)
      BY <1>t, <2>1, <3>1, <3>2, CutIsRead
    <3>4. QED BY <3>3, Zenon DEF CutRead
  <2>3. CASE DecodeHeader(w) = Err
    BY <1>5, <2>2, <2>3
  <2>4. CASE \E j \in 0..Len(y) : DecodeHeader(w) = <<[header |-> HeaderRead(t, sd, L, m), body |-> SubSeq(y, 1, j)]>>
    <3>1. PICK j \in 0..Len(y) : DecodeHeader(w) = <<[header |-> HeaderRead(t, sd, L, m), body |-> SubSeq(y, 1, j)]>>
      BY <2>4
    <3> DEFINE b == SubSeq(y, 1, j)
    <3>2. b \in Seq(Nat)
      <4> HIDE DEF y
      <4>1. QED BY <1>1, <3>1, SMTT(60)
    <3>3. PICK p, q \in Seq(IE) : i = p \o q /\ iter_ies(b) = p
      BY <1>1, <3>1, IterCut
    <3>4. HeaderArrives(w, t, sd, n, L, b)
      BY <3>1 DEF HeaderArrives, m
    <3> HIDE DEF b
    <3>5. BodyArrives(b, c, p, q)
      BY <3>3 DEF BodyArrives, Cat
    <3>6. QED BY <1>2, <1>5, <2>2, <3>2, <3>4, <3>5
  <2>5. QED BY <2>2, <2>3, <2>4
<1>6. CASE f = "extended" /\ \E at \in {IF Bit(B[1], 1) THEN 6 ELSE 5, Len(B)} : w = ExtendedAt(B, at)
  <2>1. (IF Bit(B[1], 1) THEN 6 ELSE 5) = HeadLen(sd)
    BY <1>1, <1>2, HeadBit
  <2>2. w = ExtendedAt(B, HeadLen(sd)) \/ w = ExtendedAt(B, Len(B))
    BY <1>6, <2>1
  <2>3. /\ Longer(t, sd, m, ExtendedAt(B, HeadLen(sd)), Cat(UnknownIe, y))
        /\ Longer(t, sd, m, ExtendedAt(B, Len(B)), Cat(y, UnknownIe))
    <3> HIDE DEF y
    <3>1. B = Cat(HeaderOf(t, sd, L, m), y)
      BY <1>2
    <3>2. QED BY <1>t, <3>1, ExtendedIsLonger
  <2>4. PICK a1, a2 \in Seq(IE) :
              /\ Wire(a1) = Cat(UnknownIe, y) /\ Wire(a2) = Cat(y, UnknownIe)
              /\ \A T \in IeTypes : OfType(a1, T) = OfType(i, T) /\ OfType(a2, T) = OfType(i, T)
    BY <1>1, UnknownAdded
  <2>5. PICK l \in Nat, a \in Seq(IE) :
              /\ w = Cat(HeaderOf(t, sd, l, m), Wire(a))
              /\ \A T \in IeTypes : OfType(a, T) = OfType(i, T)
    <3>1. CASE w = ExtendedAt(B, HeadLen(sd))
      <4>1. PICK l \in Nat : w = Cat(HeaderOf(t, sd, l, m), Wire(a1))
        BY <2>3, <2>4, <3>1 DEF Longer
      <4>2. QED BY <2>4, <4>1
    <3>2. CASE w = ExtendedAt(B, Len(B))
      <4>1. PICK l \in Nat : w = Cat(HeaderOf(t, sd, l, m), Wire(a2))
        BY <2>3, <2>4, <3>2 DEF Longer
      <4>2. QED BY <2>4, <4>1
    <3>3. QED BY <2>2, <3>1, <3>2
  <2> DEFINE b == Wire(a)
  <2>6. b \in Seq(Nat) /\ iter_ies(b) = a
    BY <2>5, WireFacts, IterWire
  <2> HIDE DEF b
  <2>7. HeaderArrives(w, t, sd, n, l, b)
    <3>1. w = Cat(HeaderOf(t, sd, l, m), b)
      BY <2>5 DEF b
    <3>2. DecodeHeader(Cat(HeaderOf(t, sd, l, m), b)) = <<[header |-> HeaderRead(t, sd, l, m), body |-> b]>>
      BY <1>1, <2>5, <2>6, DecodeIs
    <3>3. QED BY <3>1, <3>2 DEF HeaderArrives, m
  <2>8. BodyArrives(b, c, i, <<>>)
    <3> HIDE DEF i, y
    <3>1. Cat(i, <<>>) = i
      BY <1>1, CatFacts
    <3>2. QED BY <2>5, <2>6, <3>1 DEF BodyArrives, i
  <2>9. w \in Seq(Nat)
    <3> DEFINE h == HeaderOf(t, sd, l, m)
    <3>1. h \in Seq(Nat) /\ w = Cat(h, b)
      BY <1>1, <2>5, HeadFacts DEF b
    <3> HIDE DEF h
    <3>2. QED BY <2>6, <3>1, CatIndex
  <2> HIDE DEF i, y
  <2>10. f # "none" /\ f # "cut"
    BY <1>6
  <2>11. QED BY <1>1, <1>e, <2>5, <2>6, <2>7, <2>8, <2>9, <2>10
<1>7. QED BY <1>3, <1>4, <1>5, <1>6 DEF Carries

-----------------------------------------------------------------------------

-----------------------------------------------------------------------------
(* What arrives of each of a message's lists.                              *)

(* The beginning of a list of IEs of one type.                             *)
LEMMA ListBegins ==
    ASSUME NEW T \in Nat, NEW vs \in Seq(Values), NEW a \in Seq(IE), NEW b \in Seq(IE),
           Cat(a, b) = Listed(T, vs)
    PROVE  /\ Len(a) \in 0..Len(vs) /\ DOMAIN a = 1..Len(a)
           /\ \A i \in 1..Len(a) : a[i].value = vs[i]
           /\ b = <<>> => Len(a) = Len(vs)
<1> DEFINE z == Listed(T, vs)
<1>1. Len(z) = Len(vs) /\ \A i \in DOMAIN vs : z[i].value = vs[i]
  BY ListedFacts, IeFacts
<1>a. Cat(a, b) = z
  OBVIOUS
<1> HIDE DEF z
<1>2. /\ Len(Cat(a, b)) = Len(a) + Len(b) /\ Len(a) \in Nat /\ Len(b) \in Nat
      /\ \A i \in 1..Len(a) : Cat(a, b)[i] = a[i]
  BY ConcatAt DEF Cat
<1>3. Len(vs) = Len(a) + Len(b) /\ Len(vs) \in Nat /\ DOMAIN vs = 1..Len(vs)
  BY <1>1, <1>2, <1>a
<1>4. \A i \in 1..Len(a) : a[i].value = vs[i]
  <2> SUFFICES ASSUME NEW i \in 1..Len(a) PROVE a[i].value = vs[i]
    OBVIOUS
  <2>1. i \in DOMAIN vs /\ z[i] = a[i]
    BY <1>2, <1>3, <1>a
  <2>2. QED BY <1>1, <2>1
<1>5. b = <<>> => Len(b) = 0
  OBVIOUS
<1>6. QED BY <1>2, <1>3, <1>4, <1>5

(* The types of a message are known types.                                 *)
LEMMA MsgTypes ==
    ASSUME NEW k \in 1..13
    PROVE  MsgTs[k] \in IeTypes
<1>1. \/ k = 1 \/ k = 2 \/ k = 3 \/ k = 4 \/ k = 5 \/ k = 6 \/ k = 7 \/ k = 8 \/ k = 9 \/ k = 10 \/ k = 11
      \/ k = 12 \/ k = 13
  OBVIOUS
<1>2. QED BY <1>1 DEF MsgTs, IeTypes

(* The IEs at hand are the first ones of a list of values.                 *)
Begun(o, vs) ==
    /\ Len(o) \in 0..Len(vs) /\ DOMAIN o = 1..Len(o) /\ (o = <<>> <=> Len(o) = 0)
    /\ \A i \in 1..Len(o) : o[i].value = vs[i]

(* What arrives of the k-th type of a message.                             *)
LEMMA TypeArrives ==
    ASSUME NEW c \in Contents, NEW b, NEW p \in Seq(IE), NEW q \in Seq(IE), BodyArrives(b, c, p, q),
           NEW k \in 1..13
    PROVE  /\ Begun(OfType(iter_ies(b), MsgTs[k]), MsgVss(c)[k])
           /\ q = <<>> => Len(OfType(iter_ies(b), MsgTs[k])) = Len(MsgVss(c)[k])
<1> DEFINE T == MsgTs[k]
           vs == MsgVss(c)[k]
           x == OfType(p, T)
           y == OfType(q, T)
<1>1. T \in Nat /\ vs \in Seq(Values)
  <2>1. k \in DOMAIN MsgTs /\ MsgTs \in Seq(Nat)
    BY MsgTsFacts
  <2>2. k \in 1..Len(MsgVss(c)) /\ MsgVss(c) \in Seq(Seq(Values))
    BY MsgVssFacts
  <2>3. T \in Nat
    BY <2>1
  <2>4. vs \in Seq(Values)
    BY <2>2
  <2>5. QED BY <2>3, <2>4
<1>2. OfType(Cat(p, q), T) = Listed(T, vs)
  BY MsgGroup DEF BodyArrives
<1>3. OfType(Cat(p, q), T) = Cat(x, y)
  BY OfTypeConcat
<1>4. x \in Seq(IE) /\ y \in Seq(IE)
  BY OfTypeFacts
<1>5. OfType(iter_ies(b), T) = x
  BY MsgTypes DEF BodyArrives
<1>6. q = <<>> => y = <<>>
  BY OfTypeFacts
<1> HIDE DEF T, vs, x, y
<1>7. /\ Len(x) \in 0..Len(vs) /\ DOMAIN x = 1..Len(x)
      /\ \A i \in 1..Len(x) : x[i].value = vs[i]
      /\ y = <<>> => Len(x) = Len(vs)
  BY <1>1, <1>2, <1>3, <1>4, ListBegins
<1>8. x = <<>> <=> Len(x) = 0
  BY <1>4
<1>9. QED BY <1>1, <1>5, <1>6, <1>7, <1>8 DEF Begun, T, vs, x

(* Rules of a later type arrive only behind all those of an earlier one.   *)
LEMMA GroupInOrder ==
    ASSUME NEW ts, NEW vss, GroupOf(ts, vss), Distinct(ts), NEW p \in Seq(IE), NEW q \in Seq(IE),
           Cat(p, q) = Group(ts, vss), NEW j \in DOMAIN ts, NEW k \in DOMAIN ts, j < k,
           OfType(p, ts[k]) # <<>>
    PROVE  OfType(p, ts[j]) = Listed(ts[j], vss[j])
<1> DEFINE s == Segs(ts, vss)
           f == Sub(s, 1, j)
           g == Sub(s, j + 1, Len(s))
           a == FlattenSeq(f)
           b == FlattenSeq(g)
           T == ts[j]
           U == ts[k]
<1>1. /\ s \in Seq(Seq(IE)) /\ DOMAIN s = DOMAIN ts /\ DOMAIN ts = 1..Len(ts) /\ Len(s) = Len(ts) /\ Len(ts) \in Nat
      /\ \A i \in DOMAIN ts : /\ s[i] = Listed(ts[i], vss[i]) /\ ts[i] \in Nat /\ vss[i] \in Seq(Values)
  BY SegsFacts
<1>2. OfType(Cat(p, q), T) = Listed(T, vss[j])
  BY GroupRead
<1>g. Cat(p, q) = FlattenSeq(s)
  BY DEF Group
<1> HIDE DEF s
<1>3. /\ f \in Seq(Seq(IE)) /\ g \in Seq(Seq(IE)) /\ s = Cat(f, g)
      /\ \A i \in DOMAIN f : i \in DOMAIN ts /\ i <= j /\ f[i] = s[i]
      /\ \A i \in DOMAIN g : j + i \in DOMAIN ts /\ j + i > j /\ g[i] = s[j + i]
  <2>0. j \in Nat /\ j >= 1 /\ j <= Len(s)
    BY <1>1
  <2> DEFINE n == Len(s)
             m == j + 1
             S == Seq(IE)
             F == SubSeq(s, 1, j)
             G == SubSeq(s, m, n)
  <2>1. 1 \in Nat /\ m \in Nat /\ n \in Nat /\ m >= 1 /\ n <= Len(s) /\ m <= n + 1 /\ 1 <= j + 1
    BY <1>1, <2>0, SMTT(60)
  <2> HIDE DEF n, m, S
  <2>2. F \in Seq(S) /\ Len(F) = j /\ \A i \in 1..j : F[i] = s[i]
    <3>1. s \in Seq(S)
      BY <1>1 DEF S
    <3>2. QED BY <2>0, <3>1
  <2>3. G \in Seq(S) /\ Len(G) = n - m + 1 /\ \A i \in 1..(n - m + 1) : G[i] = s[m + i - 1]
    <3>1. s \in Seq(S)
      BY <1>1 DEF S
    <3>2. QED BY <2>1, <3>1, SubSeqFacts
  <2> HIDE DEF F, G
  <2>4. n - m + 1 = n - j /\ \A i \in 1..(n - j) : m + i - 1 = j + i
    BY <2>0, <2>1, SMTT(60) DEF m
  <2>5. Len(G) = n - j /\ \A i \in 1..(n - j) : G[i] = s[j + i]
    BY <2>3, <2>4
  <2>6. s = Cat(F, G)
    <3>1. /\ Cat(F, G) \in Seq(S) /\ Len(Cat(F, G)) = Len(F) + Len(G)
          /\ \A i \in 1..Len(F) : Cat(F, G)[i] = F[i]
          /\ \A i \in 1..Len(G) : Cat(F, G)[Len(F) + i] = G[i]
      <4>1. F \in Seq(S) /\ G \in Seq(S)
        BY <2>2, <2>3
      <4>2. QED BY <4>1, ConcatAt DEF Cat
    <3> DEFINE z == Cat(F, G)
    <3>2. /\ z \in Seq(S) /\ Len(z) = n
          /\ \A i \in 1..j : z[i] = s[i]
          /\ \A i \in 1..(n - j) : z[j + i] = s[j + i]
      <4>1. j + (n - j) = n
        BY <2>0, <2>1
      <4> HIDE DEF z
      <4>2. QED BY <2>2, <2>5, <3>1, <4>1, SMTT(60) DEF z
    <3> HIDE DEF z
    <3>3. \A i \in 1..n : z[i] = s[i]
      <4> SUFFICES ASSUME NEW i \in 1..n PROVE z[i] = s[i]
        OBVIOUS
      <4>1. i <= j => i \in 1..j
        BY <2>0, <2>1
      <4>2. i > j => i - j \in 1..(n - j) /\ j + (i - j) = i
        BY <2>0, <2>1
      <4>3. i <= j \/ i > j
        BY <2>0, <2>1
      <4>4. QED BY <3>2, <4>1, <4>2, <4>3
    <3>4. s \in Seq(S) /\ Len(s) = Len(z)
      BY <1>1, <3>2 DEF S, n
    <3>5. QED BY <3>2, <3>3, <3>4, SameSeq DEF z, n
  <2>7. \A i \in DOMAIN F : i \in DOMAIN ts /\ i <= j /\ F[i] = s[i]
    BY <1>1, <2>0, <2>2, SMTT(60)
  <2>8. \A i \in DOMAIN G : j + i \in DOMAIN ts /\ j + i > j /\ G[i] = s[j + i]
    <3>1. DOMAIN G = 1..(n - j) /\ n = Len(ts)
      BY <1>1, <2>3, <2>5 DEF n
    <3>2. \A i \in 1..(n - j) : j + i \in 1..n /\ j + i > j
      BY <2>0, <2>1
    <3>3. QED BY <1>1, <2>5, <3>1, <3>2
  <2>9. f = F /\ g = G
    BY DEF Sub, F, G, m, n
  <2>10. QED BY <2>2, <2>3, <2>6, <2>7, <2>8, <2>9, ZenonT(60) DEF S
<1> HIDE DEF f, g
<1>4. a \in Seq(IE) /\ b \in Seq(IE) /\ Cat(p, q) = Cat(a, b)
  <2>1. FlattenSeq(Cat(f, g)) = Cat(a, b)
    BY <1>3, FlattenCat
  <2>2. QED BY <1>g, <1>3, <2>1, FlattenType
<1>5. \A i \in DOMAIN ts : /\ i # j => OfType(s[i], T) = <<>>
                           /\ i # k => OfType(s[i], U) = <<>>
  <2> SUFFICES ASSUME NEW i \in DOMAIN ts
               PROVE  (i # j => OfType(s[i], T) = <<>>) /\ (i # k => OfType(s[i], U) = <<>>)
    OBVIOUS
  <2>1. (i # j => T # ts[i]) /\ (i # k => U # ts[i])
    BY DEF Distinct
  <2>2. \A V : V # ts[i] => OfType(Listed(ts[i], vss[i]), V) = <<>>
    BY <1>1, ListedOfType
  <2>3. QED BY <1>1, <2>1, <2>2
<1> HIDE DEF T, U
<1>6. OfType(a, U) = <<>>
  <2>1. \A i \in DOMAIN f : OfType(f[i], U) = <<>>
    <3>1. \A i \in DOMAIN f : i # k
      BY <1>1, <1>3
    <3>2. QED BY <1>3, <1>5, <3>1, SMTT(60)
  <2>2. QED BY <1>3, <2>1, NoneInSegments
<1>7. OfType(b, T) = <<>>
  <2>1. \A i \in DOMAIN g : OfType(g[i], T) = <<>>
    <3>1. \A i \in DOMAIN g : j + i # j
      BY <1>1, <1>3
    <3>2. QED BY <1>3, <1>5, <3>1, ZenonT(60)
  <2>2. QED BY <1>3, <2>1, NoneInSegments
<1> HIDE DEF a, b
<1>8. OfType(p, T) = OfType(a, T)
  <2>1. OfType(p, U) # <<>>
    BY DEF U
  <2>2. QED BY <1>4, <1>6, <1>7, <2>1, InOrder
<1>9. OfType(Cat(p, q), T) = OfType(a, T)
  <2> DEFINE o == OfType(a, T)
  <2>1. OfType(Cat(a, b), T) = Cat(OfType(a, T), OfType(b, T)) /\ o \in Seq(IE)
    <3>1. OfType(Cat(a, b), T) = Cat(OfType(a, T), OfType(b, T))
      BY <1>4, OfTypeConcat
    <3>2. o \in Seq(IE)
      BY <1>4, OfTypeFacts
    <3>3. QED BY <3>1, <3>2
  <2> HIDE DEF o
  <2>2. Cat(o, <<>>) = o
    BY <2>1, CatFacts
  <2>3. QED BY <1>4, <1>7, <2>1, <2>2 DEF o
<1>10. QED BY <1>2, <1>8, <1>9 DEF T

(* A list of rules read is the beginning of the list sent, and all of it   *)
(* when every IE arrived.                                                  *)
Starts(got, all, o) ==
    IsPrefix(got, all) /\ (got = <<>> <=> o = <<>>) /\ (Len(o) = Len(all) => got = all)

(* The first n elements of a list begin it.                                *)
LEMMA PrefixOf ==
    ASSUME NEW S, NEW all \in Seq(S), NEW o, NEW n \in 0..Len(all), Len(o) = n, (o = <<>> <=> n = 0),
           NEW got, got = [i \in 1..n |-> all[i]]
    PROVE  Starts(got, all, o) /\ got \in Seq(S)
<1>0. Len(all) \in Nat /\ n \in Nat /\ n <= Len(all) /\ \A i \in 1..Len(all) : all[i] \in S
  OBVIOUS
<1>1. got \in Seq(S) /\ Len(got) = n /\ \A i \in 1..n : got[i] = all[i]
  BY <1>0
<1>2. SubSeq(got, 1, Len(got)) = got
  BY <1>1, SubSeqWhole
<1>3. SubSeq(all, 1, n) = got
  <2> DEFINE z == SubSeq(all, 1, n)
  <2>1. z \in Seq(S) /\ Len(z) = n /\ \A i \in 1..n : z[i] = all[i]
    BY <1>0
  <2> HIDE DEF z
  <2>2. z = got
    BY <1>1, <2>1, SameSeq
  <2>3. QED BY <2>2 DEF z
<1>4. IsPrefix(got, all)
  BY <1>0, <1>1, <1>2, <1>3, Zenon DEF IsPrefix
<1>5. n = Len(all) => got = all
  BY <1>1, SameSeq
<1>6. got = <<>> <=> n = 0
  BY <1>1
<1>7. QED BY <1>1, <1>4, <1>5, <1>6 DEF Starts

(* What may be read of a PDR.                                              *)
ReadPdrs == {AsPdr(x) : x \in PdrParams}

(* One element is not none.                                                *)
LEMMA OneIsSome == \A x : <<x>> # <<>>
OBVIOUS

(* The PDRs at hand all parse, to the beginning of the list sent.          *)
LEMMA PdrsRead ==
    ASSUME NEW l \in Seq(PdrParams), NEW o, Begun(o, PdrValues(l))
    PROVE  LET all == [i \in DOMAIN l |-> AsPdr(l[i])]
           IN  /\ AllParse(parse_create_pdr, o) /\ Starts(Parsed(parse_create_pdr, o), all, o) /\ Len(all) = Len(l)
               /\ Parsed(parse_create_pdr, o) \in Seq(ReadPdrs)
<1> DEFINE all == [i \in DOMAIN l |-> AsPdr(l[i])]
           S == ReadPdrs
           n == Len(o)
<1>1. DOMAIN l = 1..Len(l) /\ Len(l) \in Nat /\ \A i \in DOMAIN l : l[i] \in PdrParams
  OBVIOUS
<1>2. PdrValues(l) = [i \in 1..Len(l) |-> PdrFields(l[i])]
  BY <1>1 DEF PdrValues
<1>3. Len(PdrValues(l)) = Len(l) /\ \A i \in 1..Len(l) : PdrValues(l)[i] = PdrFields(l[i])
  BY <1>1, <1>2
<1>4. n \in 0..Len(l) /\ DOMAIN o = 1..n /\ (o = <<>> <=> n = 0) /\ \A i \in 1..n : o[i].value = PdrFields(l[i])
  BY <1>1, <1>3 DEF Begun
<1>5. \A i \in 1..n : i \in DOMAIN l /\ l[i] \in PdrParams
  BY <1>1, <1>4
<1>6. \A i \in 1..n : parse_create_pdr(o[i].value) = <<AsPdr(l[i])>>
  BY <1>4, <1>5, PdrRead
<1>7. AllParse(parse_create_pdr, o)
  BY <1>4, <1>6, OneIsSome DEF AllParse, Err
<1>8. Parsed(parse_create_pdr, o) = [i \in 1..n |-> all[i]]
  BY <1>4, <1>5, <1>6 DEF Parsed
<1>9. all \in Seq(S) /\ Len(all) = Len(l)
  <2>1. \A i \in DOMAIN l : AsPdr(l[i]) \in S
    BY <1>1 DEF ReadPdrs
  <2> HIDE DEF S
  <2>2. QED BY <1>1, <2>1
<1> HIDE DEF all, S, n
<1>10. Starts(Parsed(parse_create_pdr, o), all, o) /\ Parsed(parse_create_pdr, o) \in Seq(S)
  BY <1>4, <1>8, <1>9, PrefixOf DEF n
<1>11. QED BY <1>7, <1>9, <1>10 DEF all, S

(* The FARs at hand all parse, to the beginning of the list sent.          *)
LEMMA FarsRead ==
    ASSUME NEW l \in Seq(FarParams), NEW o,
           NEW F \in {PFCP_IE_FORWARDING_PARAMETERS, PFCP_IE_UPDATE_FORWARDING_PARAMETERS},
           Begun(o, FarValues(l, F))
    PROVE  LET all == [i \in DOMAIN l |-> AsFar(l[i])]
           IN  /\ \A i \in DOMAIN o : ParseFar(o[i].value, F) # Err
               /\ Starts([i \in DOMAIN o |-> ParseFar(o[i].value, F)[1]], all, o) /\ Len(all) = Len(l)
<1> DEFINE all == [i \in DOMAIN l |-> AsFar(l[i])]
           S == {AsFar(x) : x \in FarParams}
           n == Len(o)
<1>1. DOMAIN l = 1..Len(l) /\ Len(l) \in Nat /\ \A i \in DOMAIN l : l[i] \in FarParams
  OBVIOUS
<1>2. FarValues(l, F) = [i \in 1..Len(l) |-> FarFields(l[i], F)]
  BY <1>1 DEF FarValues
<1>3. Len(FarValues(l, F)) = Len(l) /\ \A i \in 1..Len(l) : FarValues(l, F)[i] = FarFields(l[i], F)
  BY <1>1, <1>2
<1>4. n \in 0..Len(l) /\ DOMAIN o = 1..n /\ (o = <<>> <=> n = 0) /\ \A i \in 1..n : o[i].value = FarFields(l[i], F)
  BY <1>1, <1>3 DEF Begun
<1>5. \A i \in 1..n : i \in DOMAIN l /\ l[i] \in FarParams
  BY <1>1, <1>4
<1>6. \A i \in 1..n : ParseFar(o[i].value, F) = <<AsFar(l[i])>>
  BY <1>4, <1>5, FarRead
<1>7. \A i \in DOMAIN o : ParseFar(o[i].value, F) # Err
  BY <1>4, <1>6, OneIsSome DEF Err
<1> DEFINE got == [i \in DOMAIN o |-> ParseFar(o[i].value, F)[1]]
<1>8. got = [i \in 1..n |-> all[i]]
  BY <1>4, <1>5, <1>6
<1>9. all \in Seq(S) /\ Len(all) = Len(l)
  <2>1. \A i \in DOMAIN l : AsFar(l[i]) \in S
    BY <1>1
  <2> HIDE DEF S
  <2>2. QED BY <1>1, <2>1
<1> HIDE DEF all, S, n, got
<1>10. Starts(got, all, o)
  BY <1>4, <1>8, <1>9, PrefixOf DEF n
<1>11. QED BY <1>7, <1>9, <1>10 DEF all, got

(* The same for Create FARs.                                               *)
LEMMA CreateFarsRead ==
    ASSUME NEW l \in Seq(FarParams), NEW o, Begun(o, FarValues(l, PFCP_IE_FORWARDING_PARAMETERS))
    PROVE  LET all == [i \in DOMAIN l |-> AsFar(l[i])]
           IN  AllParse(parse_create_far, o) /\ Starts(Parsed(parse_create_far, o), all, o) /\ Len(all) = Len(l)
BY FarsRead DEF AllParse, Parsed, parse_create_far

(* The same for Update FARs.                                               *)
LEMMA UpdateFarsRead ==
    ASSUME NEW l \in Seq(FarParams), NEW o, Begun(o, FarValues(l, PFCP_IE_UPDATE_FORWARDING_PARAMETERS))
    PROVE  LET all == [i \in DOMAIN l |-> AsFar(l[i])]
           IN  AllParse(parse_update_far, o) /\ Starts(Parsed(parse_update_far, o), all, o) /\ Len(all) = Len(l)
BY FarsRead DEF AllParse, Parsed, parse_update_far

(* The URRs at hand all parse, to the beginning of the list sent.          *)
LEMMA UrrsRead ==
    ASSUME NEW l \in Seq(UrrParams), NEW o, Begun(o, UrrValues(l))
    PROVE  AllParse(parse_create_urr, o) /\ Starts(Parsed(parse_create_urr, o), l, o)
<1> DEFINE n == Len(o)
<1>1. DOMAIN l = 1..Len(l) /\ Len(l) \in Nat /\ \A i \in DOMAIN l : l[i] \in UrrParams
  OBVIOUS
<1>2. UrrValues(l) = [i \in 1..Len(l) |-> UrrFields(l[i])]
  BY <1>1 DEF UrrValues
<1>3. Len(UrrValues(l)) = Len(l) /\ \A i \in 1..Len(l) : UrrValues(l)[i] = UrrFields(l[i])
  BY <1>1, <1>2
<1>4. n \in 0..Len(l) /\ DOMAIN o = 1..n /\ (o = <<>> <=> n = 0) /\ \A i \in 1..n : o[i].value = UrrFields(l[i])
  BY <1>1, <1>3 DEF Begun
<1>5. \A i \in 1..n : i \in DOMAIN l /\ l[i] \in UrrParams
  BY <1>1, <1>4
<1>6. \A i \in 1..n : parse_create_urr(o[i].value) = <<l[i]>>
  BY <1>4, <1>5, UrrRead
<1>7. AllParse(parse_create_urr, o)
  BY <1>4, <1>6, OneIsSome DEF AllParse, Err
<1>8. Parsed(parse_create_urr, o) = [i \in 1..n |-> l[i]]
  BY <1>4, <1>5, <1>6 DEF Parsed
<1> HIDE DEF n
<1>10. Starts(Parsed(parse_create_urr, o), l, o)
  BY <1>4, <1>8, PrefixOf DEF n
<1>11. QED BY <1>7, <1>10

(* The usage reports at hand are the beginning of those sent.              *)
LEMMA ReportsRead ==
    ASSUME NEW l \in Option(ReportParams), NEW o, Begun(o, ReportValues(l))
    PROVE  LET all == [i \in DOMAIN l |-> AsReport(l[i])]
           IN  Starts([i \in DOMAIN o |-> ReadReport(o[i].value)], all, o) /\ Len(all) = Len(l)
<1> DEFINE all == [i \in DOMAIN l |-> AsReport(l[i])]
           S == {AsReport(x) : x \in ReportParams}
           n == Len(o)
           got == [i \in DOMAIN o |-> ReadReport(o[i].value)]
<1>1. DOMAIN l = 1..Len(l) /\ Len(l) \in Nat /\ \A i \in DOMAIN l : l[i] \in ReportParams
  BY OptionSeq
<1>2. ReportValues(l) = [i \in 1..Len(l) |-> ReportFields(l[i])]
  BY <1>1 DEF ReportValues
<1>3. Len(ReportValues(l)) = Len(l) /\ \A i \in 1..Len(l) : ReportValues(l)[i] = ReportFields(l[i])
  BY <1>1, <1>2
<1>4. n \in 0..Len(l) /\ DOMAIN o = 1..n /\ (o = <<>> <=> n = 0) /\ \A i \in 1..n : o[i].value = ReportFields(l[i])
  BY <1>1, <1>3 DEF Begun
<1>5. \A i \in 1..n : i \in DOMAIN l /\ l[i] \in ReportParams
  BY <1>1, <1>4
<1>6. \A i \in 1..n : ReadReport(o[i].value) = AsReport(l[i])
  BY <1>4, <1>5, ReportRead
<1>8. got = [i \in 1..n |-> all[i]]
  BY <1>4, <1>5, <1>6
<1>9. all \in Seq(S) /\ Len(all) = Len(l)
  <2>1. \A i \in DOMAIN l : AsReport(l[i]) \in S
    BY <1>1
  <2> HIDE DEF S
  <2>2. QED BY <1>1, <2>1
<1> HIDE DEF all, S, n, got
<1>10. Starts(got, all, o)
  BY <1>4, <1>8, <1>9, PrefixOf DEF n
<1>11. QED BY <1>9, <1>10 DEF all, got

-----------------------------------------------------------------------------

(* The Node ID.                                                            *)
LEMMA NodeRead ==
    ASSUME NEW a \in Option(Nat), NEW o, Begun(o, NodeValues(a))
    PROVE  First(parse_node_id, o) = IF o = <<>> THEN Err ELSE a
<1>1. CASE a = <<>>
  <2>1. NodeValues(a) = <<>>
    BY <1>1 DEF NodeValues
  <2>2. o = <<>>
    BY <2>1 DEF Begun
  <2>3. QED BY <2>2 DEF First
<1>2. CASE \E x \in Nat : a = <<x>>
  <2>1. PICK x \in Nat : a = <<x>>
    BY <1>2
  <2>2. NodeValues(a) = <<<<0, x>>>>
    BY <2>1 DEF NodeValues
  <2>3. CASE o # <<>>
    <3> DEFINE v == <<0, x>>
    <3>1. Len(v) = 2 /\ v[1] = 0 /\ v[2] = x
      OBVIOUS
    <3>2. o[1].value = v
      <4> HIDE DEF v
      <4>0. NodeValues(a) = <<v>>
        BY <2>2 DEF v
      <4>1. Len(NodeValues(a)) = 1 /\ NodeValues(a)[1] = v
        BY <4>0
      <4>2. Len(o) \in 0..1 /\ Len(o) # 0 /\ \A i \in 1..Len(o) : o[i].value = NodeValues(a)[i]
        BY <2>3, <4>1 DEF Begun
      <4>3. QED BY <4>1, <4>2
    <3> HIDE DEF v
    <3>3. parse_node_id(v) = <<x>>
      BY <3>1 DEF parse_node_id, Ok
    <3>4. QED BY <2>1, <2>3, <3>2, <3>3 DEF First
  <2>4. QED BY <2>3 DEF First
<1>3. QED BY <1>1, <1>2, OptionCases

(* The Recovery Time Stamp, and any IE of one field.                       *)
LEMMA TimeRead ==
    ASSUME NEW a \in Option(Nat), NEW o, Begun(o, IdValues(a))
    PROVE  /\ First(parse_recovery_timestamp, o) = IF o = <<>> THEN None ELSE a
           /\ o # <<>> => Len(a) = 1 /\ o[1].value # <<>> /\ o[1].value[1] = a[1]
<1>1. CASE a = <<>>
  <2>1. IdValues(a) = <<>>
    BY <1>1 DEF IdValues
  <2>2. o = <<>>
    BY <2>1 DEF Begun
  <2>3. QED BY <2>2 DEF First, Err, None
<1>2. CASE \E x \in Nat : a = <<x>>
  <2>1. PICK x \in Nat : a = <<x>>
    BY <1>2
  <2>2. IdValues(a) = <<<<x>>>>
    BY <2>1 DEF IdValues
  <2>3. CASE o # <<>>
    <3> DEFINE v == <<x>>
    <3>1. Len(v) = 1 /\ v[1] = x /\ v # <<>>
      OBVIOUS
    <3>2. o[1].value = v
      <4> HIDE DEF v
      <4>0. IdValues(a) = <<v>>
        BY <2>2 DEF v
      <4>1. Len(IdValues(a)) = 1 /\ IdValues(a)[1] = v
        BY <4>0
      <4>2. Len(o) \in 0..1 /\ Len(o) # 0 /\ \A i \in 1..Len(o) : o[i].value = IdValues(a)[i]
        BY <2>3, <4>1 DEF Begun
      <4>3. QED BY <4>1, <4>2
    <3>5. Len(a) = 1 /\ a[1] = x
      BY <2>1
    <3> HIDE DEF v
    <3>3. parse_recovery_timestamp(v) = <<x>>
      BY <3>1 DEF parse_recovery_timestamp, Ok
    <3>4. QED BY <2>1, <2>3, <3>1, <3>2, <3>3, <3>5 DEF First
  <2>4. QED BY <2>3 DEF First, Err, None
<1>3. QED BY <1>1, <1>2, OptionCases

(* The F-SEID.                                                             *)
LEMMA FseidRead ==
    ASSUME NEW a \in Option(FseidParams), NEW o, Begun(o, FseidValues(a))
    PROVE  First(parse_fseid, o) = IF o = <<>> THEN Err ELSE a
<1>1. CASE a = <<>>
  <2>1. FseidValues(a) = <<>>
    BY <1>1 DEF FseidValues
  <2>2. o = <<>>
    BY <2>1 DEF Begun
  <2>3. QED BY <2>2 DEF First
<1>2. CASE \E x \in FseidParams : a = <<x>>
  <2>1. PICK x \in FseidParams : a = <<x>>
    BY <1>2
  <2>2. FseidValues(a) = <<<<2, x.seid, x.addr>>>>
    BY <2>1 DEF FseidValues
  <2>3. CASE o # <<>>
    <3> DEFINE v == <<2, x.seid, x.addr>>
    <3>1. Len(v) = 3 /\ v[2] = x.seid /\ v[3] = x.addr
      OBVIOUS
    <3>2. o[1].value = v
      <4> HIDE DEF v
      <4>0. FseidValues(a) = <<v>>
        BY <2>2 DEF v
      <4>1. Len(FseidValues(a)) = 1 /\ FseidValues(a)[1] = v
        BY <4>0
      <4>2. Len(o) \in 0..1 /\ Len(o) # 0 /\ \A i \in 1..Len(o) : o[i].value = FseidValues(a)[i]
        BY <2>3, <4>1 DEF Begun
      <4>3. QED BY <4>1, <4>2
    <3> HIDE DEF v
    <3>3. parse_fseid(v) = <<[seid |-> x.seid, addr |-> x.addr]>>
      BY <3>1 DEF parse_fseid, Ok
    <3>5. [seid |-> x.seid, addr |-> x.addr] = x
      BY DEF FseidParams
    <3>4. QED BY <2>1, <2>3, <3>2, <3>3, <3>5 DEF First
  <2>4. QED BY <2>3 DEF First
<1>3. QED BY <1>1, <1>2, OptionCases

(* What arrives of each of a message's lists.                              *)
Arrived(ies, c) ==
    /\ ies \in Seq(IE)
    /\ Begun(OfType(ies, PFCP_IE_NODE_ID), NodeValues(c.node_id))
    /\ Begun(OfType(ies, PFCP_IE_CAUSE), IdValues(c.cause))
    /\ Begun(OfType(ies, PFCP_IE_RECOVERY_TIME_STAMP), IdValues(c.recovery_ts))
    /\ Begun(OfType(ies, PFCP_IE_FSEID), FseidValues(c.fseid))
    /\ Begun(OfType(ies, PFCP_IE_CREATE_PDR), PdrValues(c.create_pdrs))
    /\ Begun(OfType(ies, PFCP_IE_CREATE_FAR), FarValues(c.create_fars, PFCP_IE_FORWARDING_PARAMETERS))
    /\ Begun(OfType(ies, PFCP_IE_CREATE_URR), UrrValues(c.create_urrs))
    /\ Begun(OfType(ies, PFCP_IE_UPDATE_FAR), FarValues(c.update_fars, PFCP_IE_UPDATE_FORWARDING_PARAMETERS))
    /\ Begun(OfType(ies, PFCP_IE_UPDATE_URR), UrrValues(c.update_urrs))
    /\ Begun(OfType(ies, PFCP_IE_CREATED_PDR), CreatedValues(c.created_pdrs))
    /\ Begun(OfType(ies, PFCP_IE_USAGE_REPORT_IN_SESS_RPT_REQ), ReportValues(c.report))
(* All of it arrives.                                                      *)
Complete(ies, c) ==
    /\ Len(OfType(ies, PFCP_IE_NODE_ID)) = Len(c.node_id)
    /\ Len(OfType(ies, PFCP_IE_CAUSE)) = Len(c.cause)
    /\ Len(OfType(ies, PFCP_IE_RECOVERY_TIME_STAMP)) = Len(c.recovery_ts)
    /\ Len(OfType(ies, PFCP_IE_FSEID)) = Len(c.fseid)
    /\ Len(OfType(ies, PFCP_IE_CREATE_PDR)) = Len(c.create_pdrs)
    /\ Len(OfType(ies, PFCP_IE_CREATE_FAR)) = Len(c.create_fars)
    /\ Len(OfType(ies, PFCP_IE_CREATE_URR)) = Len(c.create_urrs)
    /\ Len(OfType(ies, PFCP_IE_UPDATE_FAR)) = Len(c.update_fars)
    /\ Len(OfType(ies, PFCP_IE_UPDATE_URR)) = Len(c.update_urrs)
    /\ Len(OfType(ies, PFCP_IE_CREATED_PDR)) = Len(c.created_pdrs)
    /\ Len(OfType(ies, PFCP_IE_REPORT_TYPE)) = Len(c.report)
    /\ Len(OfType(ies, PFCP_IE_USAGE_REPORT_IN_SESS_RPT_REQ)) = Len(c.report)
(* A later list arrives only behind the whole of an earlier one.           *)
Ordered(ies, c) ==
    /\ OfType(ies, PFCP_IE_FSEID) # <<>> => Len(OfType(ies, PFCP_IE_NODE_ID)) = Len(c.node_id)
    /\ OfType(ies, PFCP_IE_CREATE_FAR) # <<>> => Len(OfType(ies, PFCP_IE_CREATE_PDR)) = Len(c.create_pdrs)
    /\ OfType(ies, PFCP_IE_CREATE_URR) # <<>> => Len(OfType(ies, PFCP_IE_CREATE_FAR)) = Len(c.create_fars)
    /\ OfType(ies, PFCP_IE_UPDATE_URR) # <<>> => Len(OfType(ies, PFCP_IE_UPDATE_FAR)) = Len(c.update_fars)

(* A list has as many values as elements.                                  *)
LEMMA ValuesLen ==
    ASSUME NEW c \in Contents
    PROVE  /\ Len(NodeValues(c.node_id)) = Len(c.node_id)
           /\ Len(IdValues(c.cause)) = Len(c.cause)
           /\ Len(IdValues(c.recovery_ts)) = Len(c.recovery_ts)
           /\ Len(FseidValues(c.fseid)) = Len(c.fseid)
           /\ Len(PdrValues(c.create_pdrs)) = Len(c.create_pdrs)
           /\ Len(FarValues(c.create_fars, PFCP_IE_FORWARDING_PARAMETERS)) = Len(c.create_fars)
           /\ Len(UrrValues(c.create_urrs)) = Len(c.create_urrs)
           /\ Len(FarValues(c.update_fars, PFCP_IE_UPDATE_FORWARDING_PARAMETERS)) = Len(c.update_fars)
           /\ Len(UrrValues(c.update_urrs)) = Len(c.update_urrs)
           /\ Len(CreatedValues(c.created_pdrs)) = Len(c.created_pdrs)
           /\ Len(ReportTypeValues(c.report)) = Len(c.report)
           /\ Len(ReportValues(c.report)) = Len(c.report)
<1>1. /\ c.node_id \in Seq(Nat) /\ c.cause \in Seq(Nat) /\ c.recovery_ts \in Seq(Nat) /\ c.fseid \in Seq(FseidParams)
      /\ c.report \in Seq(ReportParams)
  BY ContentFacts, OptionSeq
<1>2. Len(NodeValues(c.node_id)) = Len(c.node_id)
  BY <1>1 DEF NodeValues
<1>3. Len(IdValues(c.cause)) = Len(c.cause) /\ Len(IdValues(c.recovery_ts)) = Len(c.recovery_ts)
  BY <1>1 DEF IdValues
<1>4. Len(FseidValues(c.fseid)) = Len(c.fseid)
  BY <1>1 DEF FseidValues
<1>5. Len(PdrValues(c.create_pdrs)) = Len(c.create_pdrs)
  BY ContentFacts DEF PdrValues
<1>6. /\ Len(FarValues(c.create_fars, PFCP_IE_FORWARDING_PARAMETERS)) = Len(c.create_fars)
      /\ Len(FarValues(c.update_fars, PFCP_IE_UPDATE_FORWARDING_PARAMETERS)) = Len(c.update_fars)
  BY ContentFacts DEF FarValues
<1>7. Len(UrrValues(c.create_urrs)) = Len(c.create_urrs) /\ Len(UrrValues(c.update_urrs)) = Len(c.update_urrs)
  BY ContentFacts DEF UrrValues
<1>8. Len(CreatedValues(c.created_pdrs)) = Len(c.created_pdrs)
  BY ContentFacts DEF CreatedValues
<1>9. Len(ReportTypeValues(c.report)) = Len(c.report) /\ Len(ReportValues(c.report)) = Len(c.report)
  BY <1>1 DEF ReportTypeValues, ReportValues
<1>10. QED BY <1>2, <1>3, <1>4, <1>5, <1>6, <1>7, <1>8, <1>9

(* When an IE of the k-th type arrives, every IE of an earlier type did.   *)
LEMMA InOrderArrives ==
    ASSUME NEW c \in Contents, NEW b, NEW p \in Seq(IE), NEW q \in Seq(IE), BodyArrives(b, c, p, q),
           NEW j \in 1..13, NEW k \in 1..13, j < k, OfType(iter_ies(b), MsgTs[k]) # <<>>
    PROVE  Len(OfType(iter_ies(b), MsgTs[j])) = Len(MsgVss(c)[j])
<1>1. OfType(iter_ies(b), MsgTs[j]) = OfType(p, MsgTs[j]) /\ OfType(iter_ies(b), MsgTs[k]) = OfType(p, MsgTs[k])
  BY MsgTypes DEF BodyArrives
<1>2. /\ GroupOf(MsgTs, MsgVss(c)) /\ Distinct(MsgTs) /\ Cat(p, q) = Group(MsgTs, MsgVss(c))
      /\ j \in DOMAIN MsgTs /\ k \in DOMAIN MsgTs
  BY MsgGroup, MsgTsFacts DEF BodyArrives, Ies
<1>3. OfType(p, MsgTs[j]) = Listed(MsgTs[j], MsgVss(c)[j])
  BY <1>1, <1>2, GroupInOrder
<1> DEFINE T == MsgTs[j]
           vs == MsgVss(c)[j]
<1>4. T \in Nat /\ vs \in Seq(Values)
  BY <1>2, SegsFacts
<1> HIDE DEF T, vs
<1>5. Len(Listed(T, vs)) = Len(vs)
  BY <1>4, ListedFacts
<1>6. QED BY <1>1, <1>3, <1>5 DEF T, vs

(* The types and values of a message by their names.                       *)
LEMMA MsgNames ==
    ASSUME NEW c
    PROVE  /\ MsgTs[1] = PFCP_IE_NODE_ID /\ MsgTs[2] = PFCP_IE_CAUSE /\ MsgTs[3] = PFCP_IE_RECOVERY_TIME_STAMP
           /\ MsgTs[5] = PFCP_IE_FSEID /\ MsgTs[6] = PFCP_IE_CREATE_PDR /\ MsgTs[7] = PFCP_IE_CREATE_FAR
           /\ MsgTs[8] = PFCP_IE_CREATE_URR /\ MsgTs[9] = PFCP_IE_UPDATE_FAR /\ MsgTs[10] = PFCP_IE_UPDATE_URR
           /\ MsgTs[11] = PFCP_IE_CREATED_PDR /\ MsgTs[12] = PFCP_IE_REPORT_TYPE
           /\ MsgTs[13] = PFCP_IE_USAGE_REPORT_IN_SESS_RPT_REQ
           /\ MsgVss(c)[1] = NodeValues(c.node_id) /\ MsgVss(c)[2] = IdValues(c.cause)
           /\ MsgVss(c)[3] = IdValues(c.recovery_ts) /\ MsgVss(c)[5] = FseidValues(c.fseid)
           /\ MsgVss(c)[6] = PdrValues(c.create_pdrs)
           /\ MsgVss(c)[7] = FarValues(c.create_fars, PFCP_IE_FORWARDING_PARAMETERS)
           /\ MsgVss(c)[8] = UrrValues(c.create_urrs)
           /\ MsgVss(c)[9] = FarValues(c.update_fars, PFCP_IE_UPDATE_FORWARDING_PARAMETERS)
           /\ MsgVss(c)[10] = UrrValues(c.update_urrs) /\ MsgVss(c)[11] = CreatedValues(c.created_pdrs)
           /\ MsgVss(c)[12] = ReportTypeValues(c.report) /\ MsgVss(c)[13] = ReportValues(c.report)
BY DEF MsgTs, MsgVss

(* A body that arrives brings the lists of the message in order, and all   *)
(* of them when nothing was cut.                                           *)
LEMMA BodyRead ==
    ASSUME NEW c \in Contents, NEW b, NEW p \in Seq(IE), NEW q \in Seq(IE), BodyArrives(b, c, p, q)
    PROVE  /\ Arrived(iter_ies(b), c) /\ Ordered(iter_ies(b), c)
           /\ q = <<>> => Complete(iter_ies(b), c)
<1> DEFINE ies == iter_ies(b)
           vss == MsgVss(c)
<1>1. ies \in Seq(IE)
  BY DEF BodyArrives
<1>2. \A k \in 1..13 : /\ Begun(OfType(ies, MsgTs[k]), vss[k])
                       /\ q = <<>> => Len(OfType(ies, MsgTs[k])) = Len(vss[k])
  BY TypeArrives
<1>3. \A j, k \in 1..13 : j < k /\ OfType(ies, MsgTs[k]) # <<>> => Len(OfType(ies, MsgTs[j])) = Len(vss[j])
  BY InOrderArrives
<1> HIDE DEF ies, vss
<1>4. /\ Begun(OfType(ies, MsgTs[1]), vss[1]) /\ Begun(OfType(ies, MsgTs[2]), vss[2])
      /\ Begun(OfType(ies, MsgTs[3]), vss[3]) /\ Begun(OfType(ies, MsgTs[5]), vss[5])
      /\ Begun(OfType(ies, MsgTs[6]), vss[6]) /\ Begun(OfType(ies, MsgTs[7]), vss[7])
      /\ Begun(OfType(ies, MsgTs[8]), vss[8]) /\ Begun(OfType(ies, MsgTs[9]), vss[9])
      /\ Begun(OfType(ies, MsgTs[10]), vss[10]) /\ Begun(OfType(ies, MsgTs[11]), vss[11])
      /\ Begun(OfType(ies, MsgTs[13]), vss[13])
  BY <1>2
<1>5. Arrived(ies, c)
  BY <1>1, <1>4, MsgNames, Zenon DEF Arrived, vss
<1>6. ASSUME q = <<>> PROVE Complete(ies, c)
  <2>1. /\ Len(OfType(ies, MsgTs[1])) = Len(vss[1]) /\ Len(OfType(ies, MsgTs[2])) = Len(vss[2])
        /\ Len(OfType(ies, MsgTs[3])) = Len(vss[3]) /\ Len(OfType(ies, MsgTs[5])) = Len(vss[5])
        /\ Len(OfType(ies, MsgTs[6])) = Len(vss[6]) /\ Len(OfType(ies, MsgTs[7])) = Len(vss[7])
        /\ Len(OfType(ies, MsgTs[8])) = Len(vss[8]) /\ Len(OfType(ies, MsgTs[9])) = Len(vss[9])
        /\ Len(OfType(ies, MsgTs[10])) = Len(vss[10]) /\ Len(OfType(ies, MsgTs[11])) = Len(vss[11])
        /\ Len(OfType(ies, MsgTs[12])) = Len(vss[12]) /\ Len(OfType(ies, MsgTs[13])) = Len(vss[13])
    BY <1>2, <1>6
  <2>2. /\ Len(vss[1]) = Len(c.node_id) /\ Len(vss[2]) = Len(c.cause) /\ Len(vss[3]) = Len(c.recovery_ts)
        /\ Len(vss[5]) = Len(c.fseid) /\ Len(vss[6]) = Len(c.create_pdrs) /\ Len(vss[7]) = Len(c.create_fars)
        /\ Len(vss[8]) = Len(c.create_urrs) /\ Len(vss[9]) = Len(c.update_fars) /\ Len(vss[10]) = Len(c.update_urrs)
        /\ Len(vss[11]) = Len(c.created_pdrs) /\ Len(vss[12]) = Len(c.report) /\ Len(vss[13]) = Len(c.report)
    BY MsgNames, ValuesLen, ZenonT(60) DEF vss
  <2>3. QED BY <2>1, <2>2, MsgNames DEF Complete
<1>7. Ordered(ies, c)
  <2>1. /\ OfType(ies, MsgTs[5]) # <<>> => Len(OfType(ies, MsgTs[1])) = Len(vss[1])
        /\ OfType(ies, MsgTs[7]) # <<>> => Len(OfType(ies, MsgTs[6])) = Len(vss[6])
        /\ OfType(ies, MsgTs[8]) # <<>> => Len(OfType(ies, MsgTs[7])) = Len(vss[7])
        /\ OfType(ies, MsgTs[10]) # <<>> => Len(OfType(ies, MsgTs[9])) = Len(vss[9])
    BY <1>3
  <2>2. QED BY <2>1, MsgNames, ValuesLen, ZenonT(60) DEF Ordered, vss
<1>8. QED BY <1>5, <1>6, <1>7 DEF ies

(* No value and one value are options.                                     *)
LEMMA OptionIntro ==
    ASSUME NEW S
    PROVE  <<>> \in Option(S) /\ \A x \in S : <<x>> \in Option(S)
BY DEF Option

-----------------------------------------------------------------------------
(* Requests: what the builders give each kind.                             *)

(* A message's content, field by field.                                    *)
Content(node, cause, ts, feat, fs, cp, cf, cu, uf, uu, cr, rep) ==
    [node_id |-> node, cause |-> cause, recovery_ts |-> ts, features |-> feat, fseid |-> fs, create_pdrs |-> cp,
     create_fars |-> cf, create_urrs |-> cu, update_fars |-> uf, update_urrs |-> uu, created_pdrs |-> cr,
     report |-> rep]

(* Fields that a message leaves empty.                                     *)
LEMMA NoneFacts ==
    /\ <<>> \in Option(Nat) /\ <<>> \in Option(FseidParams) /\ <<>> \in Option(ReportParams)
    /\ <<>> \in Seq(PdrParams) /\ <<>> \in Seq(FarParams) /\ <<>> \in Seq(UrrParams)
    /\ <<>> \in Seq(CreatedParams) /\ FALSE \in BOOLEAN /\ TRUE \in BOOLEAN /\ None = <<>>
BY OptionIntro DEF None

(* The empty content, field by field.                                      *)
LEMMA NothingIs == Nothing = Content(None, None, None, FALSE, None, <<>>, <<>>, <<>>, <<>>, <<>>, <<>>, None)
BY Zenon DEF Content, Nothing

(* The content of a Heartbeat.                                             *)
LEMMA HeartbeatContent ==
    ASSUME NEW x
    PROVE  [Nothing EXCEPT !.recovery_ts = x]
              = Content(<<>>, <<>>, x, FALSE, <<>>, <<>>, <<>>, <<>>, <<>>, <<>>, <<>>, <<>>)
<1> DEFINE no == FALSE
           yes == TRUE
           e == <<>>
           d1 == [Nothing EXCEPT !.recovery_ts = x]
<1>0. Nothing = Content(e, e, e, no, e, e, e, e, e, e, e, e)
  BY NothingIs DEF None
<1> HIDE DEF no, yes, e
<1>1. d1 = Content(e, e, x, no, e, e, e, e, e, e, e, e)
  BY <1>0 DEF Content
<1> HIDE DEF d1
<1>2. [Nothing EXCEPT !.recovery_ts = x] = d1
  BY DEF d1
<1>3. QED BY <1>1, <1>2, Zenon DEF no, yes, e

(* The content of an Association Setup Request.                            *)
LEMMA AssociationContent ==
    ASSUME NEW x, NEW y
    PROVE  [Nothing EXCEPT !.node_id = x, !.recovery_ts = y]
              = Content(x, <<>>, y, FALSE, <<>>, <<>>, <<>>, <<>>, <<>>, <<>>, <<>>, <<>>)
<1> DEFINE no == FALSE
           yes == TRUE
           e == <<>>
           d1 == [Nothing EXCEPT !.node_id = x]
           d2 == [d1 EXCEPT !.recovery_ts = y]
<1>0. Nothing = Content(e, e, e, no, e, e, e, e, e, e, e, e)
  BY NothingIs DEF None
<1> HIDE DEF no, yes, e
<1>1. d1 = Content(x, e, e, no, e, e, e, e, e, e, e, e)
  BY <1>0 DEF Content
<1> HIDE DEF d1
<1>2. d2 = Content(x, e, y, no, e, e, e, e, e, e, e, e)
  BY <1>1 DEF Content
<1> HIDE DEF d2
<1>3. [Nothing EXCEPT !.node_id = x, !.recovery_ts = y] = d2
  BY DEF d1, d2
<1>4. QED BY <1>2, <1>3, Zenon DEF no, yes, e

(* The content of a Session Establishment Request.                         *)
LEMMA EstablishmentContent ==
    ASSUME NEW x, NEW y, NEW p, NEW f, NEW u
    PROVE  [Nothing EXCEPT !.node_id = x, !.fseid = y, !.create_pdrs = p, !.create_fars = f, !.create_urrs = u]
              = Content(x, <<>>, <<>>, FALSE, y, p, f, u, <<>>, <<>>, <<>>, <<>>)
<1> DEFINE no == FALSE
           yes == TRUE
           e == <<>>
           d1 == [Nothing EXCEPT !.node_id = x]
           d2 == [d1 EXCEPT !.fseid = y]
           d3 == [d2 EXCEPT !.create_pdrs = p]
           d4 == [d3 EXCEPT !.create_fars = f]
           d5 == [d4 EXCEPT !.create_urrs = u]
<1>0. Nothing = Content(e, e, e, no, e, e, e, e, e, e, e, e)
  BY NothingIs DEF None
<1> HIDE DEF no, yes, e
<1>1. d1 = Content(x, e, e, no, e, e, e, e, e, e, e, e)
  BY <1>0 DEF Content
<1> HIDE DEF d1
<1>2. d2 = Content(x, e, e, no, y, e, e, e, e, e, e, e)
  BY <1>1 DEF Content
<1> HIDE DEF d2
<1>3. d3 = Content(x, e, e, no, y, p, e, e, e, e, e, e)
  BY <1>2 DEF Content
<1> HIDE DEF d3
<1>4. d4 = Content(x, e, e, no, y, p, f, e, e, e, e, e)
  BY <1>3 DEF Content
<1> HIDE DEF d4
<1>5. d5 = Content(x, e, e, no, y, p, f, u, e, e, e, e)
  BY <1>4 DEF Content
<1> HIDE DEF d5
<1>6. [Nothing EXCEPT !.node_id = x, !.fseid = y, !.create_pdrs = p, !.create_fars = f, !.create_urrs = u] = d5
  BY DEF d1, d2, d3, d4, d5
<1>7. QED BY <1>5, <1>6, Zenon DEF no, yes, e

(* The content of a Session Modification Request.                          *)
LEMMA ModificationContent ==
    ASSUME NEW f, NEW u
    PROVE  [Nothing EXCEPT !.update_fars = f, !.update_urrs = u]
              = Content(<<>>, <<>>, <<>>, FALSE, <<>>, <<>>, <<>>, <<>>, f, u, <<>>, <<>>)
<1> DEFINE no == FALSE
           yes == TRUE
           e == <<>>
           d1 == [Nothing EXCEPT !.update_fars = f]
           d2 == [d1 EXCEPT !.update_urrs = u]
<1>0. Nothing = Content(e, e, e, no, e, e, e, e, e, e, e, e)
  BY NothingIs DEF None
<1> HIDE DEF no, yes, e
<1>1. d1 = Content(e, e, e, no, e, e, e, e, f, e, e, e)
  BY <1>0 DEF Content
<1> HIDE DEF d1
<1>2. d2 = Content(e, e, e, no, e, e, e, e, f, u, e, e)
  BY <1>1 DEF Content
<1> HIDE DEF d2
<1>3. [Nothing EXCEPT !.update_fars = f, !.update_urrs = u] = d2
  BY DEF d1, d2
<1>4. QED BY <1>2, <1>3, Zenon DEF no, yes, e

(* The content of a Session Report Request.                                *)
LEMMA ReportContent ==
    ASSUME NEW x
    PROVE  [Nothing EXCEPT !.report = x]
              = Content(<<>>, <<>>, <<>>, FALSE, <<>>, <<>>, <<>>, <<>>, <<>>, <<>>, <<>>, x)
<1> DEFINE no == FALSE
           yes == TRUE
           e == <<>>
           d1 == [Nothing EXCEPT !.report = x]
<1>0. Nothing = Content(e, e, e, no, e, e, e, e, e, e, e, e)
  BY NothingIs DEF None
<1> HIDE DEF no, yes, e
<1>1. d1 = Content(e, e, e, no, e, e, e, e, e, e, e, x)
  BY <1>0 DEF Content
<1> HIDE DEF d1
<1>2. [Nothing EXCEPT !.report = x] = d1
  BY DEF d1
<1>3. QED BY <1>1, <1>2, Zenon DEF no, yes, e

(* The content of an answer with a cause only.                             *)
LEMMA CauseContent ==
    ASSUME NEW x
    PROVE  [Nothing EXCEPT !.cause = x]
              = Content(<<>>, x, <<>>, FALSE, <<>>, <<>>, <<>>, <<>>, <<>>, <<>>, <<>>, <<>>)
<1> DEFINE no == FALSE
           yes == TRUE
           e == <<>>
           d1 == [Nothing EXCEPT !.cause = x]
<1>0. Nothing = Content(e, e, e, no, e, e, e, e, e, e, e, e)
  BY NothingIs DEF None
<1> HIDE DEF no, yes, e
<1>1. d1 = Content(e, x, e, no, e, e, e, e, e, e, e, e)
  BY <1>0 DEF Content
<1> HIDE DEF d1
<1>2. [Nothing EXCEPT !.cause = x] = d1
  BY DEF d1
<1>3. QED BY <1>1, <1>2, Zenon DEF no, yes, e

(* The content of a positive answer, field by field.                       *)
LEMMA AcceptedIs == Accepted = Content(<<>>, Some(1), <<>>, FALSE, <<>>, <<>>, <<>>, <<>>, <<>>, <<>>, <<>>, <<>>)
BY CauseContent, Zenon DEF Accepted, CAUSE_REQUEST_ACCEPTED

(* The content of an Association Setup Response.                           *)
LEMMA AssociationAnswerContent ==
    ASSUME NEW x, NEW y
    PROVE  [Accepted EXCEPT !.node_id = x, !.features = TRUE, !.recovery_ts = y]
              = Content(x, Some(1), y, TRUE, <<>>, <<>>, <<>>, <<>>, <<>>, <<>>, <<>>, <<>>)
<1> DEFINE no == FALSE
           yes == TRUE
           e == <<>>
           d1 == [Accepted EXCEPT !.node_id = x]
           d2 == [d1 EXCEPT !.features = yes]
           d3 == [d2 EXCEPT !.recovery_ts = y]
<1>0. Accepted = Content(e, Some(1), e, no, e, e, e, e, e, e, e, e)
  BY AcceptedIs DEF None
<1> HIDE DEF no, yes, e
<1>1. d1 = Content(x, Some(1), e, no, e, e, e, e, e, e, e, e)
  BY <1>0 DEF Content
<1> HIDE DEF d1
<1>2. d2 = Content(x, Some(1), e, yes, e, e, e, e, e, e, e, e)
  BY <1>1 DEF Content
<1> HIDE DEF d2
<1>3. d3 = Content(x, Some(1), y, yes, e, e, e, e, e, e, e, e)
  BY <1>2 DEF Content
<1> HIDE DEF d3
<1>4. [Accepted EXCEPT !.node_id = x, !.features = yes, !.recovery_ts = y] = d3
  BY DEF d1, d2, d3
<1>5. QED BY <1>3, <1>4, Zenon DEF no, yes, e

(* The content of a Session Establishment Response.                        *)
LEMMA EstablishmentAnswerContent ==
    ASSUME NEW x, NEW y, NEW z
    PROVE  [Accepted EXCEPT !.node_id = x, !.fseid = y, !.created_pdrs = z]
              = Content(x, Some(1), <<>>, FALSE, y, <<>>, <<>>, <<>>, <<>>, <<>>, z, <<>>)
<1> DEFINE no == FALSE
           yes == TRUE
           e == <<>>
           d1 == [Accepted EXCEPT !.node_id = x]
           d2 == [d1 EXCEPT !.fseid = y]
           d3 == [d2 EXCEPT !.created_pdrs = z]
<1>0. Accepted = Content(e, Some(1), e, no, e, e, e, e, e, e, e, e)
  BY AcceptedIs DEF None
<1> HIDE DEF no, yes, e
<1>1. d1 = Content(x, Some(1), e, no, e, e, e, e, e, e, e, e)
  BY <1>0 DEF Content
<1> HIDE DEF d1
<1>2. d2 = Content(x, Some(1), e, no, y, e, e, e, e, e, e, e)
  BY <1>1 DEF Content
<1> HIDE DEF d2
<1>3. d3 = Content(x, Some(1), e, no, y, e, e, e, e, e, z, e)
  BY <1>2 DEF Content
<1> HIDE DEF d3
<1>4. [Accepted EXCEPT !.node_id = x, !.fseid = y, !.created_pdrs = z] = d3
  BY DEF d1, d2, d3
<1>5. QED BY <1>3, <1>4, Zenon DEF no, yes, e

(* What the builders give each kind of request.                            *)
Shape(t, c) ==
    \/ t = PFCP_HEARTBEAT_REQ
    \/ t = PFCP_ASSOCIATION_SETUP_REQ /\ Len(c.node_id) = 1 /\ Len(c.recovery_ts) = 1
    \/ /\ t = PFCP_SESSION_ESTABLISHMENT_REQ
       /\ Len(c.node_id) = 1 /\ Len(c.fseid) = 1 /\ Len(c.create_pdrs) # 0 /\ Len(c.create_fars) # 0
    \/ t = PFCP_SESSION_MODIFICATION_REQ /\ c.fseid = <<>>
    \/ t = PFCP_SESSION_DELETION_REQ
    \/ t = PFCP_SESSION_REPORT_REQ /\ Len(c.report) = 1
(* Request r has type t, SEID sd and sequence number n.                    *)
Sent(r, t, sd, n) ==
    /\ t \in Nat /\ sd \in Option(Nat) /\ n \in Nat /\ r.header = NewHeader(t, sd, n) /\ r.content \in Contents

(* Every request of the six builders has its shape.                        *)
LEMMA RequestSent ==
    ASSUME NEW r \in Requests
    PROVE  \E t, sd, n : Sent(r, t, sd, n) /\ Shape(t, r.content)
<1>c. /\ Seqs \subseteq Nat /\ Ts \subseteq Nat /\ Seids \subseteq Nat /\ SmfAddr \in Nat
      /\ PdrLists \subseteq Seq(PdrParams) /\ FarLists \subseteq Seq(FarParams)
      /\ UrrLists \subseteq Seq(UrrParams) /\ Reports \subseteq ReportParams
  BY CodecAssumption
<1>s. /\ \A x \in Nat : Some(x) \in Option(Nat) /\ Len(Some(x)) = 1
      /\ \A x \in FseidParams : Some(x) \in Option(FseidParams) /\ Len(Some(x)) = 1
      /\ \A x \in ReportParams : Some(x) \in Option(ReportParams) /\ Len(Some(x)) = 1
      /\ 0 \in Nat
  BY OptionIntro DEF Some
<1>1. ASSUME NEW seq \in Seqs, NEW ts \in Ts,
             r = HeartbeatRequest(seq, ts)
      PROVE  \E t, sd, n : Sent(r, t, sd, n) /\ Shape(t, r.content)
  <2> DEFINE c == Content(<<>>, <<>>, Some(ts), FALSE, <<>>, <<>>, <<>>, <<>>, <<>>, <<>>, <<>>, <<>>)
  <2>1. Some(ts) \in Option(Nat)
    BY <1>c, <1>s
  <2>2. /\ c \in Contents 
    BY <2>1, NoneFacts DEF Content, Contents
  <2>3. [Nothing EXCEPT !.recovery_ts = Some(ts)] = c
    BY HeartbeatContent
  <2> HIDE DEF c
  <2>4. r.header = NewHeader(PFCP_HEARTBEAT_REQ, None, seq) /\ r.content = c
    BY <1>1, <2>3 DEF HeartbeatRequest, Message, new_node_msg, new_session_msg
  <2>5. PFCP_HEARTBEAT_REQ \in Nat /\ None \in Option(Nat) /\ seq \in Nat
    BY <1>c, <1>s, NoneFacts DEF PFCP_HEARTBEAT_REQ
  <2>6. Sent(r, PFCP_HEARTBEAT_REQ, None, seq)
    BY <2>2, <2>4, <2>5 DEF Sent
  <2>7. Shape(PFCP_HEARTBEAT_REQ, r.content)
    BY <2>1, <2>2, <2>4 DEF Shape
  <2>8. QED BY <2>6, <2>7
<1>2. ASSUME NEW seq \in Seqs, NEW ts \in Ts,
             r = AssociationSetupRequest(seq, ts)
      PROVE  \E t, sd, n : Sent(r, t, sd, n) /\ Shape(t, r.content)
  <2> DEFINE c == Content(Some(SmfAddr), <<>>, Some(ts), FALSE, <<>>, <<>>, <<>>, <<>>, <<>>, <<>>, <<>>, <<>>)
  <2>1. /\ Some(ts) \in Option(Nat) /\ Some(SmfAddr) \in Option(Nat)
        /\ Len(Some(ts)) = 1 /\ Len(Some(SmfAddr)) = 1
    BY <1>c, <1>s
  <2>2. /\ c \in Contents /\ c.node_id = Some(SmfAddr) /\ c.recovery_ts = Some(ts)
    BY <2>1, NoneFacts DEF Content, Contents
  <2>3. [Nothing EXCEPT !.node_id = Some(SmfAddr), !.recovery_ts = Some(ts)] = c
    BY AssociationContent
  <2> HIDE DEF c
  <2>4. r.header = NewHeader(PFCP_ASSOCIATION_SETUP_REQ, None, seq) /\ r.content = c
    BY <1>2, <2>3 DEF AssociationSetupRequest, Message, new_node_msg, new_session_msg
  <2>5. PFCP_ASSOCIATION_SETUP_REQ \in Nat /\ None \in Option(Nat) /\ seq \in Nat
    BY <1>c, <1>s, NoneFacts DEF PFCP_ASSOCIATION_SETUP_REQ
  <2>6. Sent(r, PFCP_ASSOCIATION_SETUP_REQ, None, seq)
    BY <2>2, <2>4, <2>5 DEF Sent
  <2>7. Shape(PFCP_ASSOCIATION_SETUP_REQ, r.content)
    BY <2>1, <2>2, <2>4 DEF Shape
  <2>8. QED BY <2>6, <2>7
<1>3. ASSUME NEW seq \in Seqs, NEW cp \in Seids, NEW p \in PdrLists \ {<<>>}, NEW f \in FarLists \ {<<>>},
             NEW u \in UrrLists,
             r = build_session_establishment_request(seq, cp, p, f, u)
      PROVE  \E t, sd, n : Sent(r, t, sd, n) /\ Shape(t, r.content)
  <2> DEFINE c == Content(Some(SmfAddr), <<>>, <<>>, FALSE, Some([seid |-> cp, addr |-> SmfAddr]), p, f, u, <<>>, <<>>, <<>>, <<>>)
  <2>1. /\ Some(SmfAddr) \in Option(Nat) /\ Len(Some(SmfAddr)) = 1
        /\ Some([seid |-> cp, addr |-> SmfAddr]) \in Option(FseidParams)
        /\ Len(Some([seid |-> cp, addr |-> SmfAddr])) = 1
        /\ p \in Seq(PdrParams) /\ f \in Seq(FarParams) /\ u \in Seq(UrrParams) /\ Len(p) # 0 /\ Len(f) # 0
    BY <1>c, <1>s DEF FseidParams
  <2>2. /\ c \in Contents /\ c.node_id = Some(SmfAddr) /\ c.fseid = Some([seid |-> cp, addr |-> SmfAddr])
        /\ c.create_pdrs = p /\ c.create_fars = f
    BY <2>1, NoneFacts DEF Content, Contents
  <2>3. [Nothing EXCEPT !.node_id = Some(SmfAddr), !.fseid = Some([seid |-> cp, addr |-> SmfAddr]),
                                         !.create_pdrs = p, !.create_fars = f, !.create_urrs = u] = c
    BY EstablishmentContent
  <2> HIDE DEF c
  <2>4. r.header = NewHeader(PFCP_SESSION_ESTABLISHMENT_REQ, Some(0), seq) /\ r.content = c
    BY <1>3, <2>3 DEF build_session_establishment_request, Message, new_node_msg, new_session_msg
  <2>5. PFCP_SESSION_ESTABLISHMENT_REQ \in Nat /\ Some(0) \in Option(Nat) /\ seq \in Nat
    BY <1>c, <1>s, NoneFacts DEF PFCP_SESSION_ESTABLISHMENT_REQ
  <2>6. Sent(r, PFCP_SESSION_ESTABLISHMENT_REQ, Some(0), seq)
    BY <2>2, <2>4, <2>5 DEF Sent
  <2>7. Shape(PFCP_SESSION_ESTABLISHMENT_REQ, r.content)
    BY <2>1, <2>2, <2>4 DEF Shape
  <2>8. QED BY <2>6, <2>7
<1>4. ASSUME NEW seq \in Seqs, NEW id \in Seids, NEW f \in FarLists, NEW u \in UrrLists,
             r = SessionModificationRequest(seq, id, f, u)
      PROVE  \E t, sd, n : Sent(r, t, sd, n) /\ Shape(t, r.content)
  <2> DEFINE c == Content(<<>>, <<>>, <<>>, FALSE, <<>>, <<>>, <<>>, <<>>, f, u, <<>>, <<>>)
  <2>1. f \in Seq(FarParams) /\ u \in Seq(UrrParams)
    BY <1>c, <1>s
  <2>2. /\ c \in Contents /\ c.fseid = <<>>
    BY <2>1, NoneFacts DEF Content, Contents
  <2>3. [Nothing EXCEPT !.update_fars = f, !.update_urrs = u] = c
    BY ModificationContent
  <2> HIDE DEF c
  <2>4. r.header = NewHeader(PFCP_SESSION_MODIFICATION_REQ, Some(id), seq) /\ r.content = c
    BY <1>4, <2>3 DEF SessionModificationRequest, Message, new_node_msg, new_session_msg
  <2>5. PFCP_SESSION_MODIFICATION_REQ \in Nat /\ Some(id) \in Option(Nat) /\ seq \in Nat
    BY <1>c, <1>s, NoneFacts DEF PFCP_SESSION_MODIFICATION_REQ
  <2>6. Sent(r, PFCP_SESSION_MODIFICATION_REQ, Some(id), seq)
    BY <2>2, <2>4, <2>5 DEF Sent
  <2>7. Shape(PFCP_SESSION_MODIFICATION_REQ, r.content)
    BY <2>1, <2>2, <2>4 DEF Shape
  <2>8. QED BY <2>6, <2>7
<1>5. ASSUME NEW seq \in Seqs, NEW id \in Seids,
             r = SessionDeletionRequest(seq, id)
      PROVE  \E t, sd, n : Sent(r, t, sd, n) /\ Shape(t, r.content)
  <2> DEFINE c == Content(<<>>, <<>>, <<>>, FALSE, <<>>, <<>>, <<>>, <<>>, <<>>, <<>>, <<>>, <<>>)
  <2>1. Some(id) \in Option(Nat)
    BY <1>c, <1>s
  <2>2. /\ c \in Contents 
    BY <2>1, NoneFacts DEF Content, Contents
  <2>3. Nothing = c
    BY NothingIs DEF None
  <2> HIDE DEF c
  <2>4. r.header = NewHeader(PFCP_SESSION_DELETION_REQ, Some(id), seq) /\ r.content = c
    BY <1>5, <2>3 DEF SessionDeletionRequest, Message, new_node_msg, new_session_msg
  <2>5. PFCP_SESSION_DELETION_REQ \in Nat /\ Some(id) \in Option(Nat) /\ seq \in Nat
    BY <1>c, <1>s, NoneFacts DEF PFCP_SESSION_DELETION_REQ
  <2>6. Sent(r, PFCP_SESSION_DELETION_REQ, Some(id), seq)
    BY <2>2, <2>4, <2>5 DEF Sent
  <2>7. Shape(PFCP_SESSION_DELETION_REQ, r.content)
    BY <2>1, <2>2, <2>4 DEF Shape
  <2>8. QED BY <2>6, <2>7
<1>6. ASSUME NEW seq \in Seqs, NEW id \in Seids, NEW rep \in Reports,
             r = build_session_report_request(seq, id, rep)
      PROVE  \E t, sd, n : Sent(r, t, sd, n) /\ Shape(t, r.content)
  <2> DEFINE c == Content(<<>>, <<>>, <<>>, FALSE, <<>>, <<>>, <<>>, <<>>, <<>>, <<>>, <<>>, Some(rep))
  <2>1. Some(rep) \in Option(ReportParams) /\ Len(Some(rep)) = 1
    BY <1>c, <1>s
  <2>2. /\ c \in Contents /\ c.report = Some(rep)
    BY <2>1, NoneFacts DEF Content, Contents
  <2>3. [Nothing EXCEPT !.report = Some(rep)] = c
    BY ReportContent
  <2> HIDE DEF c
  <2>4. r.header = NewHeader(PFCP_SESSION_REPORT_REQ, Some(id), seq) /\ r.content = c
    BY <1>6, <2>3 DEF build_session_report_request, Message, new_node_msg, new_session_msg
  <2>5. PFCP_SESSION_REPORT_REQ \in Nat /\ Some(id) \in Option(Nat) /\ seq \in Nat
    BY <1>c, <1>s, NoneFacts DEF PFCP_SESSION_REPORT_REQ
  <2>6. Sent(r, PFCP_SESSION_REPORT_REQ, Some(id), seq)
    BY <2>2, <2>4, <2>5 DEF Sent
  <2>7. Shape(PFCP_SESSION_REPORT_REQ, r.content)
    BY <2>1, <2>2, <2>4 DEF Shape
  <2>8. QED BY <2>6, <2>7
<1> DEFINE R1 == {HeartbeatRequest(n, t) : n \in Seqs, t \in Ts}
           R2 == {AssociationSetupRequest(n, t) : n \in Seqs, t \in Ts}
           R3 == {build_session_establishment_request(n, cp, p, f, u) :
                     n \in Seqs, cp \in Seids, p \in PdrLists \ {<<>>}, f \in FarLists \ {<<>>}, u \in UrrLists}
           R4 == {SessionModificationRequest(n, id, f, u) : n \in Seqs, id \in Seids, f \in FarLists, u \in UrrLists}
           R5 == {SessionDeletionRequest(n, id) : n \in Seqs, id \in Seids}
           R6 == {build_session_report_request(n, id, rr) : n \in Seqs, id \in Seids, rr \in Reports}
<1>7. r \in R1 \cup R2 \cup R3 \cup R4 \cup R5 \cup R6
  BY DEF Requests
<1>8. r \in R1 => \E t, sd, n : Sent(r, t, sd, n) /\ Shape(t, r.content)
  BY <1>1
<1>9. r \in R2 => \E t, sd, n : Sent(r, t, sd, n) /\ Shape(t, r.content)
  BY <1>2
<1>10. r \in R3 => \E t, sd, n : Sent(r, t, sd, n) /\ Shape(t, r.content)
  BY <1>3
<1>11. r \in R4 => \E t, sd, n : Sent(r, t, sd, n) /\ Shape(t, r.content)
  BY <1>4
<1>12. r \in R5 => \E t, sd, n : Sent(r, t, sd, n) /\ Shape(t, r.content)
  BY <1>5
<1>13. r \in R6 => \E t, sd, n : Sent(r, t, sd, n) /\ Shape(t, r.content)
  BY <1>6
<1> HIDE DEF R1, R2, R3, R4, R5, R6
<1>14. QED BY <1>7, <1>8, <1>9, <1>10, <1>11, <1>12, <1>13

-----------------------------------------------------------------------------
(* Requests: what the decoders read.                                       *)

(* What was read of a request is the beginning of what was sent.           *)
BeginningOf(type, got, all) ==
    LET All(f) == got[f] = all[f]
        Begins(f) == IsPrefix(got[f], all[f])
    IN  \A f \in DOMAIN got :
           CASE f = "create_fars" ->
                    Begins(f) /\ (got[f] # <<>> => All("create_pdrs"))
             [] f = "create_urrs" ->
                    Begins(f) /\ (got[f] # <<>> => All("create_fars"))
             [] f = "update_urrs" ->
                    Begins(f) /\ (got[f] # <<>> => All("update_fars"))
             [] f \in {"create_pdrs", "update_fars", "reports"} -> Begins(f)
             [] f = "recovery_ts" /\ type = PFCP_HEARTBEAT_REQ ->
                    got[f] \in {None, all[f]}
             [] OTHER -> All(f)
(* What the answer to an establishment takes from the request.             *)
ForAnswer(type, got, c) ==
    type = PFCP_SESSION_ESTABLISHMENT_REQ => got.fseid = c.fseid[1] /\ got.create_pdrs \in Seq(ReadPdrs)
(* What becomes of a request read from these IEs.                          *)
Understood(t, c, ies, D) ==
    /\ D = Err => Mandatory(t) \ Types(ies) # {}
    /\ D # Err => D = <<D[1]>> /\ BeginningOf(t, D[1], AsRead(t, c)) /\ ForAnswer(t, D[1], c)
    /\ Complete(ies, c) => D = <<AsRead(t, c)>> /\ Mandatory(t) \ Types(ies) = {}

(* The numbers of the request types.                                       *)
LEMMA MessageTypes ==
    /\ PFCP_HEARTBEAT_REQ = 1 /\ PFCP_ASSOCIATION_SETUP_REQ = 5 /\ PFCP_SESSION_ESTABLISHMENT_REQ = 50
    /\ PFCP_SESSION_MODIFICATION_REQ = 52 /\ PFCP_SESSION_DELETION_REQ = 54 /\ PFCP_SESSION_REPORT_REQ = 56
BY DEF PFCP_HEARTBEAT_REQ, PFCP_ASSOCIATION_SETUP_REQ, PFCP_SESSION_ESTABLISHMENT_REQ,
       PFCP_SESSION_MODIFICATION_REQ, PFCP_SESSION_DELETION_REQ, PFCP_SESSION_REPORT_REQ

(* Which decoder DecodeRequest dispatches a type to.                       *)
LEMMA DecoderOf ==
    ASSUME NEW ies
    PROVE  /\ DecodeRequest(1, ies) = HeartbeatReq(ies) /\ DecodeRequest(5, ies) = AssociationSetupReq(ies)
           /\ DecodeRequest(50, ies) = SessionEstablishmentReq(ies)
           /\ DecodeRequest(52, ies) = SessionModificationReq(ies)
           /\ DecodeRequest(54, ies) = Ok([seid_in_header |-> TRUE])
           /\ DecodeRequest(56, ies) = SessionReportReq(ies)
BY MessageTypes DEF DecodeRequest

(* The mandatory IEs that the dictionary gives for each type.              *)
LEMMA MandatoryOf ==
    /\ Mandatory(1) = {} /\ Mandatory(2) = {} /\ Mandatory(5) = {PFCP_IE_NODE_ID, PFCP_IE_RECOVERY_TIME_STAMP}
    /\ Mandatory(6) = {PFCP_IE_NODE_ID, PFCP_IE_CAUSE, PFCP_IE_RECOVERY_TIME_STAMP}
    /\ Mandatory(50) = {PFCP_IE_NODE_ID, PFCP_IE_FSEID, PFCP_IE_CREATE_PDR, PFCP_IE_CREATE_FAR}
    /\ Mandatory(51) = {PFCP_IE_NODE_ID, PFCP_IE_CAUSE}
    /\ Mandatory(52) = {} /\ Mandatory(53) = {PFCP_IE_CAUSE} /\ Mandatory(54) = {}
    /\ Mandatory(55) = {PFCP_IE_CAUSE} /\ Mandatory(56) = {PFCP_IE_REPORT_TYPE}
BY MessageTypes DEF Mandatory

(* What the receiver should read of each type of request.                  *)
LEMMA ReadingOf ==
    ASSUME NEW c
    PROVE  /\ AsRead(1, c) = [recovery_ts |-> c.recovery_ts]
           /\ AsRead(5, c) = [node_id |-> c.node_id[1], recovery_ts |-> c.recovery_ts[1]]
           /\ AsRead(50, c) =
                 [node_id |-> c.node_id, fseid |-> c.fseid[1],
                  create_pdrs |-> [i \in DOMAIN c.create_pdrs |-> AsPdr(c.create_pdrs[i])],
                  create_fars |-> [i \in DOMAIN c.create_fars |-> AsFar(c.create_fars[i])],
                  create_urrs |-> c.create_urrs]
           /\ AsRead(52, c) =
                 [fseid |-> c.fseid,
                  update_fars |-> [i \in DOMAIN c.update_fars |-> AsFar(c.update_fars[i])],
                  update_urrs |-> c.update_urrs]
           /\ AsRead(54, c) = [seid_in_header |-> TRUE]
           /\ AsRead(56, c) = [reports |-> [i \in DOMAIN c.report |-> AsReport(c.report[i])]]
BY MessageTypes DEF AsRead

(* A heartbeat is never refused, and its time is read or missing.          *)
LEMMA HeartbeatUnderstood ==
    ASSUME NEW c \in Contents, NEW ies, Arrived(ies, c), Ordered(ies, c)
    PROVE  Understood(1, c, ies, DecodeRequest(1, ies))
<1> DEFINE o == OfType(ies, PFCP_IE_RECOVERY_TIME_STAMP)
           ts == First(parse_recovery_timestamp, o)
           t == 1
           got == [recovery_ts |-> ts]
           all == [recovery_ts |-> c.recovery_ts]
<1>1. DecodeRequest(t, ies) = <<got>>
  BY DecoderOf DEF HeartbeatReq, Ok
<1>2. AsRead(t, c) = all
  BY ReadingOf
<1>3. Mandatory(t) = {}
  BY MandatoryOf
<1>4. ts = IF o = <<>> THEN None ELSE c.recovery_ts
  BY ContentFacts, TimeRead DEF Arrived
<1>5. c.recovery_ts \in Seq(Nat) /\ (o = <<>> => Len(o) = 0)
  BY ContentFacts, OptionSeq
<1>6. Complete(ies, c) => ts = c.recovery_ts
  BY <1>4, <1>5 DEF Complete, None
<1> HIDE DEF o, ts
<1>7. BeginningOf(t, got, all) /\ ForAnswer(t, got, c)
  BY <1>4, MessageTypes DEF BeginningOf, ForAnswer
<1>8. <<got>> # <<>> /\ <<got>>[1] = got
  BY OneIsSome
<1> HIDE DEF got, all, t
<1>9. Understood(t, c, ies, <<got>>)
  <2>1. Complete(ies, c) => got = all
    BY <1>6 DEF got, all
  <2>2. QED BY <1>2, <1>3, <1>7, <1>8, <2>1 DEF Understood, Err
<1>10. QED BY <1>1, <1>9 DEF t

(* The length of a sequence, and of the empty one.                         *)
LEMMA LenFacts ==
    ASSUME NEW S, NEW s \in Seq(S)
    PROVE  Len(s) \in Nat /\ (s = <<>> <=> Len(s) = 0)
OBVIOUS

(* The same for an option.                                                 *)
LEMMA OptionLen ==
    ASSUME NEW S, NEW o \in Option(S)
    PROVE  o = <<>> <=> Len(o) = 0
BY OptionSeq, LenFacts

(* The same for the IEs at hand of a list.                                 *)
LEMMA BegunLen ==
    ASSUME NEW o, NEW vs, Begun(o, vs)
    PROVE  o = <<>> <=> Len(o) = 0
BY DEF Begun

(* An Association Setup Request is refused only without its Node ID or its *)
(* time stamp.                                                             *)
LEMMA AssociationUnderstood ==
    ASSUME NEW c \in Contents, NEW ies, Arrived(ies, c), Len(c.node_id) = 1, Len(c.recovery_ts) = 1
    PROVE  Understood(5, c, ies, DecodeRequest(5, ies))
<1> DEFINE on == OfType(ies, PFCP_IE_NODE_ID)
           ot == OfType(ies, PFCP_IE_RECOVERY_TIME_STAMP)
           node == First(parse_node_id, on)
           ts == First(parse_recovery_timestamp, ot)
           got == [node_id |-> node[1], recovery_ts |-> ts[1]]
           all == [node_id |-> c.node_id[1], recovery_ts |-> c.recovery_ts[1]]
           D == DecodeRequest(5, ies)
           tys == Types(ies)
<1>1. D = IF node = Err \/ ts = Err THEN Err ELSE <<got>>
  BY DecoderOf, Zenon DEF AssociationSetupReq, Ok
<1>2. AsRead(5, c) = all /\ Mandatory(5) = {PFCP_IE_NODE_ID, PFCP_IE_RECOVERY_TIME_STAMP}
  BY ReadingOf, MandatoryOf
<1>3. node = IF on = <<>> THEN Err ELSE c.node_id
  BY ContentFacts, NodeRead DEF Arrived
<1>4. ts = IF ot = <<>> THEN None ELSE c.recovery_ts
  BY ContentFacts, TimeRead DEF Arrived
<1>5. c.recovery_ts # <<>> /\ c.node_id # <<>>
  <2>1. c.recovery_ts \in Option(Nat) /\ c.node_id \in Option(Nat)
    BY ContentFacts
  <2>2. QED BY <2>1, OptionLen
<1>6. (PFCP_IE_NODE_ID \in tys <=> on # <<>>) /\ (PFCP_IE_RECOVERY_TIME_STAMP \in tys <=> ot # <<>>)
  BY TypesFacts DEF Arrived
<1>7. (on = <<>> <=> Len(on) = 0) /\ (ot = <<>> <=> Len(ot) = 0)
  BY BegunLen DEF Arrived
<1>8. Complete(ies, c) => on # <<>> /\ ot # <<>>
  BY <1>7 DEF Complete
<1> HIDE DEF D, on, ot, node, ts, tys
<1>9. (node = Err <=> on = <<>>) /\ (ts = Err <=> ot = <<>>)
  BY <1>3, <1>4, <1>5 DEF Err, None
<1>10. CASE on = <<>> \/ ot = <<>>
  <2>1. D = Err
    BY <1>1, <1>9, <1>10
  <2>2. ~Complete(ies, c) /\ Mandatory(5) \ tys # {}
    BY <1>2, <1>6, <1>8, <1>10
  <2>3. QED BY <2>1, <2>2 DEF Understood, D, tys
<1>11. CASE on # <<>> /\ ot # <<>>
  <2>1. D = <<got>> /\ node = c.node_id /\ ts = c.recovery_ts
    BY <1>1, <1>3, <1>4, <1>9, <1>11
  <2>2. got = all
    BY <2>1
  <2>3. BeginningOf(5, all, all) /\ ForAnswer(5, all, c)
    BY MessageTypes DEF BeginningOf, ForAnswer
  <2>4. Mandatory(5) \ tys = {}
    BY <1>2, <1>6, <1>11
  <2>5. D # Err /\ D[1] = all /\ D = <<all>>
    <3> HIDE DEF got, all
    <3>1. QED BY <2>1, <2>2, OneIsSome DEF Err
  <2> HIDE DEF got, all
  <2>6. QED BY <1>2, <2>3, <2>4, <2>5 DEF Understood, D, tys
<1>12. QED BY <1>10, <1>11

(* A Session Deletion Request is its header.                               *)
LEMMA DeletionUnderstood ==
    ASSUME NEW c \in Contents, NEW ies
    PROVE  Understood(54, c, ies, DecodeRequest(54, ies))
<1> DEFINE all == [seid_in_header |-> TRUE]
           D == DecodeRequest(54, ies)
<1>1. D = <<all>> /\ AsRead(54, c) = all /\ Mandatory(54) = {}
  BY DecoderOf, ReadingOf, MandatoryOf DEF Ok
<1>2. BeginningOf(54, all, all) /\ ForAnswer(54, all, c)
  BY MessageTypes DEF BeginningOf, ForAnswer
<1> HIDE DEF D, all
<1>3. D # Err /\ D[1] = all
  BY <1>1, OneIsSome DEF Err
<1>4. QED BY <1>1, <1>2, <1>3 DEF Understood, D

(* A Session Report Request is read up to what arrived of it.              *)
LEMMA ReportUnderstood ==
    ASSUME NEW c \in Contents, NEW ies, Arrived(ies, c), Len(c.report) = 1
    PROVE  Understood(56, c, ies, DecodeRequest(56, ies))
<1> DEFINE o == OfType(ies, PFCP_IE_USAGE_REPORT_IN_SESS_RPT_REQ)
           orr == OfType(ies, PFCP_IE_REPORT_TYPE)
           g == [i \in DOMAIN o |-> ReadReport(o[i].value)]
           a == [i \in DOMAIN c.report |-> AsReport(c.report[i])]
           got == [reports |-> g]
           all == [reports |-> a]
           D == DecodeRequest(56, ies)
           tys == Types(ies)
<1>1. D = <<got>> /\ AsRead(56, c) = all /\ Mandatory(56) = {PFCP_IE_REPORT_TYPE}
  BY DecoderOf, ReadingOf, MandatoryOf, ZenonT(60) DEF Ok, SessionReportReq
<1>2. Starts(g, a, o) /\ Len(a) = Len(c.report)
  <2>1. c.report \in Option(ReportParams) /\ Begun(o, ReportValues(c.report))
    BY ContentFacts DEF Arrived
  <2> HIDE DEF o
  <2>2. QED BY <2>1, ReportsRead
<1>3. PFCP_IE_REPORT_TYPE \in tys <=> orr # <<>>
  BY TypesFacts DEF Arrived
<1>4. orr \in Seq(IE)
  BY OfTypeFacts DEF Arrived
<1>5. Complete(ies, c) => orr # <<>> /\ Len(o) = Len(c.report)
  <2>1. orr = <<>> <=> Len(orr) = 0
    BY <1>4, LenFacts
  <2>2. Complete(ies, c) => Len(orr) = 1 /\ Len(o) = Len(c.report)
    BY DEF Complete
  <2> HIDE DEF orr, o
  <2>3. QED BY <2>1, <2>2
<1> HIDE DEF D, tys, g, a, o, orr
<1>6. BeginningOf(56, got, all) /\ ForAnswer(56, got, c)
  BY <1>2, MessageTypes DEF BeginningOf, ForAnswer, Starts
<1>7. Complete(ies, c) => got = all /\ Mandatory(56) \ tys = {}
  BY <1>1, <1>2, <1>3, <1>5 DEF Starts
<1> HIDE DEF got, all
<1>8. D # Err /\ D[1] = got
  BY <1>1, OneIsSome DEF Err
<1>9. QED BY <1>1, <1>6, <1>7, <1>8 DEF Understood, D, tys

(* A Session Modification Request is read as the beginning of its updates. *)
LEMMA ModificationUnderstood ==
    ASSUME NEW c \in Contents, NEW ies, Arrived(ies, c), Ordered(ies, c), c.fseid = <<>>
    PROVE  Understood(52, c, ies, DecodeRequest(52, ies))
<1> DEFINE os == OfType(ies, PFCP_IE_FSEID)
           fars == OfType(ies, PFCP_IE_UPDATE_FAR)
           urrs == OfType(ies, PFCP_IE_UPDATE_URR)
           fs == First(parse_fseid, os)
           gf == Parsed(parse_update_far, fars)
           gu == Parsed(parse_create_urr, urrs)
           af == [i \in DOMAIN c.update_fars |-> AsFar(c.update_fars[i])]
           au == c.update_urrs
           got == [fseid |-> fs, update_fars |-> gf, update_urrs |-> gu]
           all == [fseid |-> c.fseid, update_fars |-> af, update_urrs |-> au]
           D == DecodeRequest(52, ies)
<1>1. D = IF ~AllParse(parse_update_far, fars) \/ ~AllParse(parse_create_urr, urrs) THEN Err ELSE <<got>>
  BY DecoderOf, Zenon DEF SessionModificationReq, Ok
<1>2. AsRead(52, c) = all /\ Mandatory(52) = {}
  BY ReadingOf, MandatoryOf
<1>3. fs = <<>>
  BY ContentFacts, FseidRead DEF Arrived, Err
<1>4. AllParse(parse_update_far, fars) /\ Starts(gf, af, fars) /\ Len(af) = Len(c.update_fars)
  <2>1. c.update_fars \in Seq(FarParams) /\ Begun(fars, FarValues(c.update_fars, PFCP_IE_UPDATE_FORWARDING_PARAMETERS))
    BY ContentFacts DEF Arrived
  <2> HIDE DEF fars
  <2>2. QED BY <2>1, UpdateFarsRead
<1>5. AllParse(parse_create_urr, urrs) /\ Starts(gu, au, urrs)
  <2>1. c.update_urrs \in Seq(UrrParams) /\ Begun(urrs, UrrValues(c.update_urrs))
    BY ContentFacts DEF Arrived
  <2> HIDE DEF urrs
  <2>2. QED BY <2>1, UrrsRead
<1>6. urrs # <<>> => Len(fars) = Len(c.update_fars)
  BY DEF Ordered
<1>7. Complete(ies, c) => Len(fars) = Len(c.update_fars) /\ Len(urrs) = Len(c.update_urrs)
  BY DEF Complete
<1>8. D = <<got>>
  BY <1>1, <1>4, <1>5, Zenon
<1> HIDE DEF D, os, fars, urrs, fs, gf, gu, af, au
<1>9. /\ IsPrefix(gf, af) /\ IsPrefix(gu, au) /\ (gu # <<>> => gf = af) /\ fs = c.fseid
      /\ Complete(ies, c) => gf = af /\ gu = au
  BY <1>3, <1>4, <1>5, <1>6, <1>7 DEF Starts, au
<1>10. BeginningOf(52, got, all) /\ ForAnswer(52, got, c)
  BY <1>9, MessageTypes DEF BeginningOf, ForAnswer
<1>11. Complete(ies, c) => got = all
  BY <1>9
<1> HIDE DEF got, all
<1>12. D # Err /\ D[1] = got
  BY <1>8, OneIsSome DEF Err
<1>13. QED BY <1>2, <1>8, <1>10, <1>11, <1>12 DEF Understood, D

(* A Session Establishment Request is refused only without a mandatory IE, *)
(* and else read as the beginning of its rules.                            *)
LEMMA EstablishmentUnderstood ==
    ASSUME NEW c \in Contents, NEW ies, Arrived(ies, c), Ordered(ies, c), Len(c.node_id) = 1, Len(c.fseid) = 1,
           Len(c.create_pdrs) # 0, Len(c.create_fars) # 0
    PROVE  Understood(50, c, ies, DecodeRequest(50, ies))
<1> DEFINE on == OfType(ies, PFCP_IE_NODE_ID)
           os == OfType(ies, PFCP_IE_FSEID)
           pdrs == OfType(ies, PFCP_IE_CREATE_PDR)
           fars == OfType(ies, PFCP_IE_CREATE_FAR)
           urrs == OfType(ies, PFCP_IE_CREATE_URR)
           nd == First(parse_node_id, on)
           fs == First(parse_fseid, os)
           gp == Parsed(parse_create_pdr, pdrs)
           gf == Parsed(parse_create_far, fars)
           gu == Parsed(parse_create_urr, urrs)
           ap == [i \in DOMAIN c.create_pdrs |-> AsPdr(c.create_pdrs[i])]
           af == [i \in DOMAIN c.create_fars |-> AsFar(c.create_fars[i])]
           au == c.create_urrs
           got == [node_id |-> nd, fseid |-> fs[1], create_pdrs |-> gp, create_fars |-> gf, create_urrs |-> gu]
           all == [node_id |-> c.node_id, fseid |-> c.fseid[1], create_pdrs |-> ap, create_fars |-> af, create_urrs |-> au]
           D == DecodeRequest(50, ies)
           tys == Types(ies)
<1>1. D = IF \/ fs = Err \/ ~AllParse(parse_create_pdr, pdrs) \/ ~AllParse(parse_create_far, fars)
             \/ ~AllParse(parse_create_urr, urrs) THEN Err ELSE <<got>>
  BY DecoderOf, Zenon DEF SessionEstablishmentReq, Ok
<1>2. /\ AsRead(50, c) = all
      /\ Mandatory(50) = {PFCP_IE_NODE_ID, PFCP_IE_FSEID, PFCP_IE_CREATE_PDR, PFCP_IE_CREATE_FAR}
  BY ReadingOf, MandatoryOf, ZenonT(60)
<1>3. nd = IF on = <<>> THEN Err ELSE c.node_id
  BY ContentFacts, NodeRead DEF Arrived
<1>4. fs = IF os = <<>> THEN Err ELSE c.fseid
  BY ContentFacts, FseidRead DEF Arrived
<1>5. AllParse(parse_create_pdr, pdrs) /\ Starts(gp, ap, pdrs) /\ Len(ap) = Len(c.create_pdrs) /\ gp \in Seq(ReadPdrs)
  <2>1. c.create_pdrs \in Seq(PdrParams) /\ Begun(pdrs, PdrValues(c.create_pdrs))
    BY ContentFacts DEF Arrived
  <2> HIDE DEF pdrs
  <2>2. QED BY <2>1, PdrsRead
<1>6. AllParse(parse_create_far, fars) /\ Starts(gf, af, fars) /\ Len(af) = Len(c.create_fars)
  <2>1. c.create_fars \in Seq(FarParams) /\ Begun(fars, FarValues(c.create_fars, PFCP_IE_FORWARDING_PARAMETERS))
    BY ContentFacts DEF Arrived
  <2> HIDE DEF fars
  <2>2. QED BY <2>1, CreateFarsRead
<1>7. AllParse(parse_create_urr, urrs) /\ Starts(gu, au, urrs)
  <2>1. c.create_urrs \in Seq(UrrParams) /\ Begun(urrs, UrrValues(c.create_urrs))
    BY ContentFacts DEF Arrived
  <2> HIDE DEF urrs
  <2>2. QED BY <2>1, UrrsRead
<1>8. /\ os # <<>> => Len(on) = Len(c.node_id)
      /\ fars # <<>> => Len(pdrs) = Len(c.create_pdrs)
      /\ urrs # <<>> => Len(fars) = Len(c.create_fars)
  BY DEF Ordered
<1>9. Complete(ies, c) => /\ Len(on) = 1 /\ Len(os) = 1 /\ Len(pdrs) = Len(c.create_pdrs)
                          /\ Len(fars) = Len(c.create_fars) /\ Len(urrs) = Len(c.create_urrs)
  BY DEF Complete
<1>10. /\ on = <<>> <=> Len(on) = 0
       /\ os = <<>> <=> Len(os) = 0
       /\ pdrs = <<>> <=> Len(pdrs) = 0
       /\ fars = <<>> <=> Len(fars) = 0
  BY BegunLen DEF Arrived
<1>11. /\ PFCP_IE_NODE_ID \in tys <=> on # <<>>
       /\ PFCP_IE_FSEID \in tys <=> os # <<>>
       /\ PFCP_IE_CREATE_PDR \in tys <=> pdrs # <<>>
       /\ PFCP_IE_CREATE_FAR \in tys <=> fars # <<>>
  BY TypesFacts DEF Arrived
<1>12. c.fseid # <<>>
  <2>1. c.fseid \in Option(FseidParams)
    BY ContentFacts
  <2>2. QED BY <2>1, OptionLen
<1>13. D = IF fs = Err THEN Err ELSE <<got>>
  BY <1>1, <1>5, <1>6, <1>7, Zenon
<1> HIDE DEF D, on, os, pdrs, fars, urrs, nd, fs, gp, gf, gu, ap, af, au, tys
<1>14. Complete(ies, c) => on # <<>> /\ os # <<>> /\ Mandatory(50) \ tys = {}
  BY <1>2, <1>9, <1>10, <1>11
<1>15. CASE os = <<>>
  <2>1. D = Err /\ ~Complete(ies, c) /\ Mandatory(50) \ tys # {}
    <3> HIDE DEF got
    <3>1. QED BY <1>2, <1>4, <1>11, <1>13, <1>14, <1>15
  <2>2. QED BY <2>1 DEF Understood, D, tys
<1>16. CASE os # <<>>
  <2>1. fs # Err /\ fs = c.fseid /\ nd = c.node_id
    BY <1>3, <1>4, <1>8, <1>10, <1>12, <1>16 DEF Err
  <2>2. /\ IsPrefix(gp, ap) /\ IsPrefix(gf, af) /\ IsPrefix(gu, au) /\ (gf # <<>> => gp = ap) /\ (gu # <<>> => gf = af)
        /\ Complete(ies, c) => gp = ap /\ gf = af /\ gu = au
    BY <1>5, <1>6, <1>7, <1>8, <1>9 DEF Starts, au
  <2>3. BeginningOf(50, got, all) /\ ForAnswer(50, got, c)
    BY <1>5, <2>1, <2>2, MessageTypes DEF BeginningOf, ForAnswer
  <2>4. Complete(ies, c) => got = all
    BY <2>1, <2>2
  <2> HIDE DEF got, all
  <2>5. D = <<got>> /\ D # Err /\ D[1] = got
    BY <1>13, <2>1, OneIsSome DEF Err
  <2>6. QED BY <1>2, <1>14, <2>3, <2>4, <2>5 DEF Understood, D, tys
<1>17. QED BY <1>15, <1>16

(* Every decoder reads what the builder wrote, up to where the request was *)
(* cut, and refuses only what the dictionary calls incomplete.             *)
LEMMA RequestDecoded ==
    ASSUME NEW t, NEW c \in Contents, Shape(t, c), NEW ies, Arrived(ies, c), Ordered(ies, c)
    PROVE  Understood(t, c, ies, DecodeRequest(t, ies))
<1>1. \/ t = 1
      \/ t = 5 /\ Len(c.node_id) = 1 /\ Len(c.recovery_ts) = 1
      \/ t = 50 /\ Len(c.node_id) = 1 /\ Len(c.fseid) = 1 /\ Len(c.create_pdrs) # 0 /\ Len(c.create_fars) # 0
      \/ t = 52 /\ c.fseid = <<>>
      \/ t = 54
      \/ t = 56 /\ Len(c.report) = 1
  BY MessageTypes DEF Shape
<1>2. QED BY <1>1, HeartbeatUnderstood, AssociationUnderstood, EstablishmentUnderstood, ModificationUnderstood,
             DeletionUnderstood, ReportUnderstood

(* The mandatory IEs a node misses in a datagram.                          *)
Lacking(w) == validate(DecodeHeader(w)[1].header.msg_type, DecodeHeader(w)[1].body)
(* What a node makes of a request it does not refuse.                      *)
SeenAs(s, t, sd, n, c, f) ==
    \E len, got :
        /\ len \in Nat
        /\ s = <<[header |-> HeaderRead(t, sd, len, n % SeqNumMod), request |-> got]>>
        /\ BeginningOf(t, got, AsRead(t, c)) /\ ForAnswer(t, got, c)
        /\ f # "cut" => got = AsRead(t, c)
        /\ f = "none" => len = Len(Build(NewHeader(t, sd, n), c)) - 3

(* The only element of one.                                                *)
LEMMA OneAt == \A x : <<x>>[1] = x
OBVIOUS

(* The fields of a header read.                                            *)
LEMMA HeaderFields ==
    ASSUME NEW t, NEW sd, NEW len, NEW n
    PROVE  /\ HeaderRead(t, sd, len, n).msg_type = t /\ HeaderRead(t, sd, len, n).seq_num = n
           /\ HeaderRead(t, sd, len, n).length = len
BY DEF HeaderRead

(* A node refuses a request only when it was cut, and else sees it as it   *)
(* was sent or as a beginning of it.                                       *)
LEMMA RequestReceived ==
    ASSUME NEW t \in Nat, NEW sd \in Option(Nat), NEW n \in Nat, NEW c \in Contents, Shape(t, c), NEW f, NEW w,
           Carries(w, Build(NewHeader(t, sd, n), c), f)
    PROVE  /\ w \in Seq(Nat)
           /\ f # "cut" => Lacking(w) = {}
           /\ \/ ReadRequest(w) = Err /\ f = "cut" /\ (DecodeHeader(w) = Err \/ Lacking(w) # {})
              \/ SeenAs(ReadRequest(w), t, sd, n, c, f)
<1> DEFINE L == Len(Build(NewHeader(t, sd, n), c)) - 3
<1>1. /\ w \in Seq(Nat)
      /\ \/ f = "cut" /\ DecodeHeader(w) = Err
         \/ \E len \in Nat, b \in Seq(Nat), p, q \in Seq(IE) :
               /\ HeaderArrives(w, t, sd, n, len, b) /\ BodyArrives(b, c, p, q)
               /\ f # "cut" => q = <<>>
               /\ f = "none" => len = L
  BY ReadBack
<1> HIDE DEF L
<1>2. CASE f = "cut" /\ DecodeHeader(w) = Err
  <2>1. ReadRequest(w) = Err
    BY <1>2, Zenon DEF ReadRequest
  <2>2. QED BY <1>1, <1>2, <2>1
<1>3. CASE \E len \in Nat, b \in Seq(Nat), p, q \in Seq(IE) :
               /\ HeaderArrives(w, t, sd, n, len, b) /\ BodyArrives(b, c, p, q)
               /\ f # "cut" => q = <<>>
               /\ f = "none" => len = L
  <2>1. PICK len \in Nat, b \in Seq(Nat), p, q \in Seq(IE) :
               /\ HeaderArrives(w, t, sd, n, len, b) /\ BodyArrives(b, c, p, q)
               /\ f # "cut" => q = <<>>
               /\ f = "none" => len = L
    BY <1>3
  <2> DEFINE h == HeaderRead(t, sd, len, n % SeqNumMod)
             ies == iter_ies(b)
             D == DecodeRequest(t, ies)
             d == DecodeHeader(w)
             hb == [header |-> h, body |-> b]
  <2>2. d = <<hb>>
    BY <2>1 DEF HeaderArrives
  <2>3. h.msg_type = t
    BY HeaderFields
  <2>4. Arrived(ies, c) /\ Ordered(ies, c) /\ (q = <<>> => Complete(ies, c))
    BY <2>1, BodyRead
  <2>5. Understood(t, c, ies, D)
    BY <2>4, RequestDecoded
  <2> HIDE DEF h
  <2>6. hb.header = h /\ hb.body = b
    OBVIOUS
  <2> HIDE DEF hb
  <2>7. d # Err /\ d[1] = hb
    BY <2>2, OneIsSome, OneAt DEF Err
  <2> HIDE DEF d
  <2>8. Lacking(w) = Mandatory(t) \ Types(ies)
    BY <2>3, <2>6, <2>7 DEF Lacking, validate, d
  <2>9. ReadRequest(w) = IF D = Err THEN Err ELSE <<[header |-> h, request |-> D[1]]>>
    BY <2>3, <2>6, <2>7, Zenon DEF ReadRequest, Ok, d
  <2> HIDE DEF D, ies
  <2>10. f # "cut" => Lacking(w) = {}
    BY <2>1, <2>4, <2>5, <2>8 DEF Understood
  <2>11. CASE D = Err
    <3>1. Mandatory(t) \ Types(ies) # {}
      BY <2>5, <2>11, Zenon DEF Understood
    <3>2. f = "cut"
      BY <2>8, <2>10, <3>1
    <3>3. QED BY <1>1, <2>8, <2>9, <2>11, <3>1, <3>2
  <2>12. CASE D # Err
    <3>1. BeginningOf(t, D[1], AsRead(t, c)) /\ ForAnswer(t, D[1], c) /\ (f # "cut" => D[1] = AsRead(t, c))
      <4>1. BeginningOf(t, D[1], AsRead(t, c)) /\ ForAnswer(t, D[1], c) /\ (Complete(ies, c) => D = <<AsRead(t, c)>>)
        BY <2>5, <2>12, Zenon DEF Understood
      <4>2. QED BY <2>1, <2>4, <4>1, OneAt
    <3> DEFINE got == D[1]
    <3>2. ReadRequest(w) = <<[header |-> h, request |-> got]>>
      BY <2>9, <2>12
    <3> HIDE DEF got
    <3>3. SeenAs(ReadRequest(w), t, sd, n, c, f)
      BY <2>1, <3>1, <3>2, Zenon DEF SeenAs, got, h, L
    <3>4. QED BY <1>1, <2>10, <3>3
  <2>13. QED BY <2>11, <2>12
<1>4. QED BY <1>1, <1>2, <1>3

(* A PDR read has its identifier.                                          *)
LEMMA ReadPdrId == \A x \in ReadPdrs : x.pdr_id \in Nat
BY DEF ReadPdrs, AsPdr, PdrParams

-----------------------------------------------------------------------------
(* Answers: what the receiver sends back.                                  *)

(* Every tunnel offered for a list of PDRs is the UPF's.                   *)
Offered(l) ==
    l \in Seq(CreatedParams) /\ \A i \in DOMAIN l : l[i].teid = Teid /\ l[i].addr = UpfAddr

(* The tunnels offered for the PDRs that were read are all the UPF's.      *)
LEMMA CreatedOffered ==
    ASSUME NEW pdrs \in Seq(ReadPdrs)
    PROVE  Offered(CreatedPdrs(pdrs))
<1> DEFINE s == [i \in DOMAIN pdrs |-> If(pdrs[i].source_interface = INTERFACE_ACCESS, <<pdrs[i]>>)]
           acc == FlattenSeq(s)
           C(x) == [pdr_id |-> x.pdr_id, teid |-> Teid, addr |-> UpfAddr]
           r == [i \in DOMAIN acc |-> C(acc[i])]
<1>1. s \in Seq(Seq(ReadPdrs))
  <2>1. DOMAIN pdrs = 1..Len(pdrs) /\ Len(pdrs) \in Nat /\ \A i \in DOMAIN pdrs : pdrs[i] \in ReadPdrs
    OBVIOUS
  <2>2. \A x \in ReadPdrs : <<x>> \in Seq(ReadPdrs) /\ <<>> \in Seq(ReadPdrs)
    OBVIOUS
  <2>3. \A i \in DOMAIN pdrs : s[i] \in Seq(ReadPdrs)
    BY <2>1, <2>2 DEF If
  <2>4. s = [i \in 1..Len(pdrs) |-> s[i]]
    BY <2>1
  <2> HIDE DEF s
  <2>5. QED BY <2>1, <2>3, <2>4, MappedSeq
<1> HIDE DEF s
<1>2. acc \in Seq(ReadPdrs)
  BY <1>1, FlattenType
<1>3. CreatedPdrs(pdrs) = r
  BY DEF CreatedPdrs, Keep, Each, s
<1>4. Teid \in Nat /\ UpfAddr \in Nat
  BY CodecAssumption
<1>5. \A x \in ReadPdrs : C(x) \in CreatedParams /\ C(x).teid = Teid /\ C(x).addr = UpfAddr
  BY <1>4, ReadPdrId DEF CreatedParams
<1> HIDE DEF acc, C
<1>6. DOMAIN acc = 1..Len(acc) /\ Len(acc) \in Nat /\ \A i \in DOMAIN acc : acc[i] \in ReadPdrs
  BY <1>2
<1>7. \A i \in 1..Len(acc) : r[i] = C(acc[i]) /\ r[i] \in CreatedParams
  BY <1>5, <1>6
<1>8. r = [i \in 1..Len(acc) |-> r[i]] /\ DOMAIN r = 1..Len(acc)
  BY <1>6
<1>9. \A i \in DOMAIN r : r[i].teid = Teid /\ r[i].addr = UpfAddr
  BY <1>5, <1>6, <1>7, <1>8
<1> HIDE DEF r
<1>10. r \in Seq(CreatedParams)
  BY <1>6, <1>7, <1>8, MappedSeq
<1>11. QED BY <1>3, <1>9, <1>10 DEF Offered

-----------------------------------------------------------------------------
(* What the builders give each kind of answer.                             *)
AnswerShape(t, c) ==
    /\ c.cause = IF t = 1 THEN <<>> ELSE <<1>>
    /\ t = 5 => Len(c.node_id) = 1 /\ Len(c.recovery_ts) = 1
    /\ t = 50 => /\ Len(c.node_id) = 1 /\ Len(c.fseid) = 1 /\ c.fseid[1].seid # 0
                 /\ Offered(c.created_pdrs)
    /\ t # 50 => c.created_pdrs = <<>>
(* Answer a is one to a request of type t with sequence number m.          *)
Answered(a, t, m) ==
    \E sd \in Option(Nat) :
        /\ a.header = NewHeader(t + 1, sd, m) /\ a.content \in Contents /\ AnswerShape(t, a.content)

(* The constants that the answers are made of.                             *)
LEMMA CodecConstants ==
    /\ Ts \subseteq Nat /\ Seids \subseteq Nat /\ (\A x \in Seids : x # 0) /\ SmfAddr \in Nat /\ UpfAddr \in Nat
    /\ \A x \in Nat : Some(x) \in Option(Nat) /\ Len(Some(x)) = 1
    /\ \A x \in FseidParams : Some(x) \in Option(FseidParams) /\ Len(Some(x)) = 1 /\ Some(x)[1] = x
    /\ Some(1) = <<1>> /\ 1 \in Nat /\ 0 \in Nat
<1>1. /\ Ts \subseteq Nat /\ Seids \subseteq Nat /\ (\A x \in Seids : x # 0) /\ SmfAddr \in Nat /\ UpfAddr \in Nat
  BY CodecAssumption
<1>2. QED BY <1>1, OptionIntro DEF Some

(* The Heartbeat Response has its shape.                                   *)
LEMMA HeartbeatAnswered ==
    ASSUME NEW m, NEW t \in Ts, NEW a, a = build_heartbeat_response(m, t)
    PROVE  Answered(a, 1, m)
<1> DEFINE c == Content(<<>>, <<>>, Some(t), FALSE, <<>>, <<>>, <<>>, <<>>, <<>>, <<>>, <<>>, <<>>)
<1>1. Some(t) \in Option(Nat)
  BY CodecConstants
<1>2. c \in Contents /\ c.cause = <<>> /\ c.created_pdrs = <<>>
  BY <1>1, NoneFacts DEF Content, Contents
<1>3. [Nothing EXCEPT !.recovery_ts = Some(t)] = c
  BY HeartbeatContent
<1> HIDE DEF c
<1>4. a.header = NewHeader(1 + 1, None, m) /\ a.content = c
  BY <1>3, MessageTypes DEF build_heartbeat_response, Message, new_node_msg
<1>5. AnswerShape(1, c)
  BY <1>2 DEF AnswerShape
<1>6. QED BY <1>2, <1>4, <1>5, NoneFacts DEF Answered

(* The Association Setup Response has its shape.                           *)
LEMMA AssociationAnswered ==
    ASSUME NEW m, NEW t \in Ts, NEW a, a = build_association_setup_response(m, t)
    PROVE  Answered(a, 5, m)
<1> DEFINE c == Content(Some(UpfAddr), Some(1), Some(t), TRUE, <<>>, <<>>, <<>>, <<>>, <<>>, <<>>, <<>>, <<>>)
<1>1. /\ Some(t) \in Option(Nat) /\ Some(UpfAddr) \in Option(Nat) /\ Some(1) \in Option(Nat)
      /\ Len(Some(t)) = 1 /\ Len(Some(UpfAddr)) = 1
  BY CodecConstants
<1>2. /\ c \in Contents /\ c.cause = Some(1) /\ c.created_pdrs = <<>>
      /\ c.node_id = Some(UpfAddr) /\ c.recovery_ts = Some(t)
  BY <1>1, NoneFacts DEF Content, Contents
<1>3. [Accepted EXCEPT !.node_id = Some(UpfAddr), !.features = TRUE, !.recovery_ts = Some(t)] = c
  BY AssociationAnswerContent
<1> HIDE DEF c
<1>4. a.header = NewHeader(5 + 1, None, m) /\ a.content = c
  <2>1. a = Message(NewHeader(5 + 1, None, m), c)
    BY <1>3, MessageTypes, Zenon DEF build_association_setup_response, new_node_msg
  <2>2. QED BY <2>1 DEF Message
<1>5. AnswerShape(5, c)
  BY <1>1, <1>2, CodecConstants DEF AnswerShape
<1>6. QED BY <1>2, <1>4, <1>5, NoneFacts DEF Answered

(* The Session Establishment Response has its shape.                       *)
LEMMA EstablishmentAnswered ==
    ASSUME NEW m, NEW cp \in Nat, NEW id \in Seids, NEW l, Offered(l), NEW a,
           a = build_session_establishment_response(m, cp, id, l)
    PROVE  Answered(a, 50, m)
<1> DEFINE x == [seid |-> id, addr |-> UpfAddr]
           fs == Some(x)
           c == Content(Some(UpfAddr), Some(1), <<>>, FALSE, fs, <<>>, <<>>, <<>>, <<>>, <<>>, l, <<>>)
<1>1. /\ Some(cp) \in Option(Nat) /\ Some(UpfAddr) \in Option(Nat) /\ Some(1) \in Option(Nat)
      /\ Len(Some(UpfAddr)) = 1 /\ l \in Seq(CreatedParams)
  BY CodecConstants DEF Offered
<1>2. x \in FseidParams /\ x.seid # 0
  BY CodecConstants DEF FseidParams
<1>3. fs \in Option(FseidParams) /\ Len(fs) = 1 /\ fs[1] = x
  <2> HIDE DEF x
  <2>1. QED BY <1>2, CodecConstants
<1>4. [Accepted EXCEPT !.node_id = Some(UpfAddr), !.fseid = fs, !.created_pdrs = l] = c
  BY EstablishmentAnswerContent
<1>5. a = Message(NewHeader(50 + 1, Some(cp), m), c)
  BY <1>4, MessageTypes, Zenon DEF build_session_establishment_response, new_session_msg
<1> HIDE DEF fs, x
<1>6. /\ c \in Contents /\ c.cause = Some(1) /\ c.created_pdrs = l
      /\ c.node_id = Some(UpfAddr) /\ c.fseid = fs
  BY <1>1, <1>3, NoneFacts DEF Content, Contents
<1> HIDE DEF c
<1>7. a.header = NewHeader(50 + 1, Some(cp), m) /\ a.content = c
  BY <1>5 DEF Message
<1>8. AnswerShape(50, c)
  BY <1>1, <1>2, <1>3, <1>6, CodecConstants DEF AnswerShape
<1>9. QED BY <1>1, <1>6, <1>7, <1>8 DEF Answered

(* The responses that carry a cause only have their shape.                 *)
LEMMA CauseAnswered ==
    ASSUME NEW m, NEW t \in {52, 54, 56}, NEW id \in Seids, NEW a, a = CauseResponse(t, m, id)
    PROVE  Answered(a, t, m)
<1> DEFINE c == Content(<<>>, Some(1), <<>>, FALSE, <<>>, <<>>, <<>>, <<>>, <<>>, <<>>, <<>>, <<>>)
<1>1. Some(id) \in Option(Nat) /\ Some(1) \in Option(Nat)
  BY CodecConstants
<1>2. c \in Contents /\ c.cause = Some(1) /\ c.created_pdrs = <<>>
  BY <1>1, NoneFacts DEF Content, Contents
<1>3. Accepted = c
  BY AcceptedIs
<1> HIDE DEF c
<1>4. a.header = NewHeader(t + 1, Some(id), m) /\ a.content = c
  BY <1>3 DEF CauseResponse, Message, new_session_msg
<1>5. AnswerShape(t, c)
  BY <1>2, CodecConstants DEF AnswerShape
<1>6. QED BY <1>1, <1>2, <1>4, <1>5 DEF Answered

(* The six types of requests.                                              *)
LEMMA ShapeTypes ==
    ASSUME NEW t, NEW c, Shape(t, c)
    PROVE  t \in {1, 5, 50, 52, 54, 56} /\ t \in Nat /\ (t = 50 => Len(c.fseid) = 1)
BY MessageTypes DEF Shape

(* Which builder answers which type.                                       *)
LEMMA AnswersOf ==
    ASSUME NEW h, NEW r
    PROVE  /\ h.msg_type = 1 => Answers(h, r) = {build_heartbeat_response(h.seq_num, t) : t \in Ts}
           /\ h.msg_type = 5 => Answers(h, r) = {build_association_setup_response(h.seq_num, t) : t \in Ts}
           /\ h.msg_type = 50 => Answers(h, r) = {build_session_establishment_response(
                                      h.seq_num, r.fseid.seid, id, CreatedPdrs(r.create_pdrs)) : id \in Seids}
           /\ h.msg_type \in {52, 54, 56} => Answers(h, r) = {CauseResponse(h.msg_type, h.seq_num, id) : id \in Seids}
<1> DEFINE t == h.msg_type
           n == h.seq_num
           A1 == {build_heartbeat_response(n, x) : x \in Ts}
           A2 == {build_association_setup_response(n, x) : x \in Ts}
           A3 == {build_session_establishment_response(n, r.fseid.seid, id, CreatedPdrs(r.create_pdrs)) : id \in Seids}
           A4 == {CauseResponse(t, n, id) : id \in Seids}
<1>1. Answers(h, r) = CASE t = PFCP_HEARTBEAT_REQ -> A1
                        [] t = PFCP_ASSOCIATION_SETUP_REQ -> A2
                        [] t = PFCP_SESSION_ESTABLISHMENT_REQ -> A3
                        [] OTHER -> A4
  BY Zenon DEF Answers
<1>2. Answers(h, r) = CASE t = 1 -> A1 [] t = 5 -> A2 [] t = 50 -> A3 [] OTHER -> A4
  BY <1>1, MessageTypes
<1> HIDE DEF A1, A2, A3, A4, t
<1>3. /\ t = 1 => Answers(h, r) = A1
      /\ t = 5 => Answers(h, r) = A2
      /\ t = 50 => Answers(h, r) = A3
      /\ t \in {52, 54, 56} => Answers(h, r) = A4
  BY <1>2
<1>4. QED BY <1>3 DEF A1, A2, A3, A4, t

(* Whatever was read of a request, the answer has the shape and the        *)
(* sequence number that the requester waits for.                           *)
LEMMA AnswerSent ==
    ASSUME NEW t, NEW sd, NEW n \in Nat, NEW c \in Contents, Shape(t, c), NEW f, NEW s,
           SeenAs(s, t, sd, n, c, f), NEW a \in Answers(s[1].header, s[1].request)
    PROVE  Answered(a, t, n % SeqNumMod)
<1> DEFINE m == n % SeqNumMod
<1>1. PICK len, got : /\ len \in Nat
                      /\ s = <<[header |-> HeaderRead(t, sd, len, m), request |-> got]>>
                      /\ ForAnswer(t, got, c)
  BY DEF SeenAs
<1> DEFINE h == HeaderRead(t, sd, len, m)
           r == [header |-> h, request |-> got]
<1>2. h.msg_type = t /\ h.seq_num = m
  BY HeaderFields
<1> HIDE DEF h, m
<1>3. r.header = h /\ r.request = got
  OBVIOUS
<1>4. s = <<r>>
  BY <1>1 DEF h
<1> HIDE DEF r
<1>5. s[1] = r
  BY <1>4, OneAt
<1>6. a \in Answers(h, got)
  BY <1>3, <1>5
<1>7. CASE t = 1
  BY <1>2, <1>6, <1>7, AnswersOf, HeartbeatAnswered DEF m
<1>8. CASE t = 5
  BY <1>2, <1>6, <1>8, AnswersOf, AssociationAnswered DEF m
<1>9. CASE t = 50
  <2>1. c.fseid \in Option(FseidParams) /\ Len(c.fseid) = 1
    BY <1>9, ContentFacts, ShapeTypes
  <2>2. c.fseid[1] \in FseidParams
    BY <2>1, OptionSeq
  <2>3. got.fseid.seid \in Nat /\ Offered(CreatedPdrs(got.create_pdrs))
    BY <1>1, <1>9, <2>2, CreatedOffered, MessageTypes DEF ForAnswer, FseidParams
  <2>4. PICK id \in Seids : a = build_session_establishment_response(m, got.fseid.seid, id, CreatedPdrs(got.create_pdrs))
    BY <1>2, <1>6, <1>9, AnswersOf
  <2>5. Answered(a, 50, m)
    BY <2>3, <2>4, EstablishmentAnswered
  <2>6. QED BY <1>9, <2>5 DEF m
<1>10. CASE t \in {52, 54, 56}
  BY <1>2, <1>6, <1>10, AnswersOf, CauseAnswered DEF m
<1>11. QED BY <1>7, <1>8, <1>9, <1>10, ShapeTypes

-----------------------------------------------------------------------------
(* Answers: what the requester takes from them.                            *)

(* What has a length is not empty.                                         *)
LEMMA NotEmpty ==
    ASSUME NEW o, NEW n \in Nat, Len(o) = n, n # 0
    PROVE  o # <<>>
<1>1. o = <<>> => Len(o) = 0
  OBVIOUS
<1>2. QED BY <1>1

(* A cause that arrives is "request accepted".                             *)
LEMMA CauseAccepted ==
    ASSUME NEW t, NEW c \in Contents, AnswerShape(t, c), NEW ies, Arrived(ies, c),
           OfType(ies, PFCP_IE_CAUSE) # <<>>
    PROVE  /\ OfType(ies, PFCP_IE_CAUSE)[1].value # <<>>
           /\ OfType(ies, PFCP_IE_CAUSE)[1].value[1] = CAUSE_REQUEST_ACCEPTED
<1> DEFINE o == OfType(ies, PFCP_IE_CAUSE)
           a == c.cause
<1>1. a \in Option(Nat) /\ Begun(o, IdValues(a)) /\ o # <<>>
  BY ContentFacts DEF Arrived
<1>2. a = <<>> \/ a = <<1>>
  BY DEF AnswerShape
<1> HIDE DEF o, a
<1>3. Len(a) = 1 /\ o[1].value # <<>> /\ o[1].value[1] = a[1]
  BY <1>1, TimeRead
<1>4. a # <<>>
  BY <1>3, NotEmpty
<1>5. a[1] = 1
  BY <1>2, <1>4
<1>6. QED BY <1>3, <1>5 DEF o, CAUSE_REQUEST_ACCEPTED

(* A complete answer has every IE that the requester's dictionary asks     *)
(* for.                                                                    *)
LEMMA AnswerComplete ==
    ASSUME NEW t \in {1, 5, 50, 52, 54}, NEW c \in Contents, AnswerShape(t, c), NEW ies, Arrived(ies, c),
           Complete(ies, c)
    PROVE  Mandatory(t + 1) \ Types(ies) = {}
<1> DEFINE on == OfType(ies, PFCP_IE_NODE_ID)
           oc == OfType(ies, PFCP_IE_CAUSE)
           ot == OfType(ies, PFCP_IE_RECOVERY_TIME_STAMP)
           tys == Types(ies)
<1>1. /\ PFCP_IE_NODE_ID \in tys <=> on # <<>>
      /\ PFCP_IE_CAUSE \in tys <=> oc # <<>>
      /\ PFCP_IE_RECOVERY_TIME_STAMP \in tys <=> ot # <<>>
  BY TypesFacts DEF Arrived
<1>2. /\ on = <<>> <=> Len(on) = 0
      /\ oc = <<>> <=> Len(oc) = 0
      /\ ot = <<>> <=> Len(ot) = 0
  BY BegunLen DEF Arrived
<1>3. Len(on) = Len(c.node_id) /\ Len(oc) = Len(c.cause) /\ Len(ot) = Len(c.recovery_ts)
  BY DEF Complete
<1> HIDE DEF on, oc, ot, tys
<1>4. t # 1 => PFCP_IE_CAUSE \in tys
  <2>1. t # 1 => Len(c.cause) = 1
    BY DEF AnswerShape
  <2>2. t # 1 => oc # <<>>
    BY <1>3, <2>1, NotEmpty, ZenonT(60)
  <2>3. QED BY <1>1, <2>2
<1>5. t \in {5, 50} => PFCP_IE_NODE_ID \in tys
  BY <1>1, <1>2, <1>3 DEF AnswerShape
<1>6. t = 5 => PFCP_IE_RECOVERY_TIME_STAMP \in tys
  BY <1>1, <1>2, <1>3 DEF AnswerShape
<1>7. QED BY <1>4, <1>5, <1>6, MandatoryOf DEF tys

(* The header of an answer, read by the requester.                         *)
LEMMA AnswerDecoded ==
    ASSUME NEW t, NEW sd, NEW m, NEW len, NEW b, NEW w, HeaderArrives(w, t, sd, m, len, b)
    PROVE  /\ DecodeHeader(w) # Err /\ DecodeHeader(w)[1].body = b
           /\ DecodeHeader(w)[1].header.msg_type = t /\ DecodeHeader(w)[1].header.seq_num = m % SeqNumMod
<1> DEFINE h == HeaderRead(t, sd, len, m % SeqNumMod)
           r == [header |-> h, body |-> b]
<1>1. DecodeHeader(w) = <<r>>
  BY DEF HeaderArrives
<1>2. h.msg_type = t /\ h.seq_num = m % SeqNumMod
  BY HeaderFields
<1> HIDE DEF h
<1>3. r.header = h /\ r.body = b
  OBVIOUS
<1> HIDE DEF r
<1>4. QED BY <1>1, <1>2, <1>3, OneIsSome, OneAt DEF Err

(* extract_session_info finds the session of the answer or fails, and does *)
(* not fail when a tunnel was offered and nothing was cut.                 *)
LEMMA SessionTaken ==
    ASSUME NEW c \in Contents, AnswerShape(50, c), NEW b, NEW w, DecodeHeader(w) # Err,
           DecodeHeader(w)[1].body = b, Arrived(iter_ies(b), c)
    PROVE  LET s == [seid |-> c.fseid[1].seid, teid |-> Teid, addr |-> UpfAddr]
           IN  /\ extract_session_info(w) # Err => extract_session_info(w) = Ok(s)
               /\ Complete(iter_ies(b), c) /\ c.created_pdrs # <<>> => extract_session_info(w) = Ok(s)
<1> DEFINE s == [seid |-> c.fseid[1].seid, teid |-> Teid, addr |-> UpfAddr]
           ies == iter_ies(b)
           of == OfType(ies, PFCP_IE_FSEID)
           fseid == First(parse_fseid, of)
           created == OfType(ies, PFCP_IE_CREATED_PDR)
           fteid == First(parse_fteid, OfType(iter_ies(created[1].value), PFCP_IE_FTEID))
           e == extract_session_info(w)
<1>1. e = IF \/ DecodeHeader(w) = Err \/ fseid = Err \/ fseid[1].seid = 0 \/ created = <<>>
             \/ fteid = Err \/ fteid[1].teid = 0
          THEN Err
          ELSE Ok([seid |-> fseid[1].seid, teid |-> fteid[1].teid, addr |-> fteid[1].addr])
  BY Zenon DEF extract_session_info
<1>2. c.fseid \in Option(FseidParams) /\ Begun(of, FseidValues(c.fseid))
  BY ContentFacts DEF Arrived
<1>3. Begun(created, CreatedValues(c.created_pdrs)) /\ (of = <<>> <=> Len(of) = 0)
      /\ (created = <<>> <=> Len(created) = 0)
  BY BegunLen DEF Arrived
<1>4. fseid = IF of = <<>> THEN Err ELSE c.fseid
  BY <1>2, FseidRead
<1>5. Len(c.fseid) = 1 /\ c.fseid[1].seid # 0 /\ Offered(c.created_pdrs)
  BY DEF AnswerShape
<1>6. Complete(ies, c) => Len(of) = 1 /\ Len(created) = Len(c.created_pdrs)
  BY <1>5 DEF Complete
<1>7. created # <<>> => fteid = <<[teid |-> Teid, addr |-> UpfAddr]>>
  <2> SUFFICES ASSUME created # <<>> PROVE fteid = <<[teid |-> Teid, addr |-> UpfAddr]>>
    OBVIOUS
  <2> DEFINE l == c.created_pdrs
  <2>1. l \in Seq(CreatedParams) /\ \A i \in DOMAIN l : l[i].teid = Teid /\ l[i].addr = UpfAddr
    BY <1>5 DEF Offered
  <2> HIDE DEF l, created
  <2>2. Len(CreatedValues(l)) = Len(l) /\ \A i \in DOMAIN l : CreatedValues(l)[i] = CreatedFields(l[i])
    BY <2>1 DEF CreatedValues
  <2>3. 1 \in 1..Len(created) /\ 1 \in DOMAIN l
    BY <1>3, <2>1, <2>2 DEF Begun, l
  <2>4. created[1].value = CreatedFields(l[1])
    BY <1>3, <2>2, <2>3 DEF Begun, l
  <2>5. l[1] \in CreatedParams /\ l[1].teid = Teid /\ l[1].addr = UpfAddr
    BY <2>1, <2>3
  <2>6. QED BY <2>4, <2>5, CreatedRead
<1>8. Teid # 0
  BY CodecAssumption
<1>9. c.fseid # <<>>
  BY <1>2, <1>5, OptionLen
<1>10. c.created_pdrs # <<>> => Len(c.created_pdrs) # 0
  BY <1>5, LenFacts DEF Offered
<1> HIDE DEF e, of, fseid, created, fteid, ies
<1> DEFINE x == [teid |-> Teid, addr |-> UpfAddr]
<1>11. CASE of = <<>> \/ created = <<>>
  <2>1. e = Err
    BY <1>1, <1>4, <1>11
  <2>2. ASSUME Complete(ies, c), c.created_pdrs # <<>> PROVE FALSE
    <3> DEFINE k == Len(c.created_pdrs)
    <3>1. k \in Nat /\ k # 0
      BY <1>5, <1>10, <2>2 DEF Offered
    <3> HIDE DEF k
    <3>2. Len(of) = 1 /\ Len(created) = k
      BY <1>6, <2>2 DEF k
    <3>3. of # <<>>
      <4>1. of = <<>> => Len(of) = 0
        OBVIOUS
      <4>2. QED BY <3>2, <4>1
    <3>5. created # <<>>
      BY <3>1, <3>2, NotEmpty
    <3>4. QED BY <1>11, <3>3, <3>5
  <2>3. QED BY <2>1, <2>2 DEF e, ies
<1>12. CASE of # <<>> /\ created # <<>>
  <2>1. fseid = c.fseid /\ fseid # Err /\ fteid = <<x>>
    BY <1>4, <1>7, <1>9, <1>12 DEF Err
  <2>2. x.teid = Teid /\ x.addr = UpfAddr
    OBVIOUS
  <2> HIDE DEF x
  <2>3. fteid # Err /\ fteid[1] = x
    BY <2>1, OneIsSome, OneAt DEF Err
  <2>4. ~(\/ DecodeHeader(w) = Err \/ fseid = Err \/ fseid[1].seid = 0 \/ created = <<>>
          \/ fteid = Err \/ fteid[1].teid = 0)
    BY <1>5, <1>8, <1>12, <2>1, <2>2, <2>3
  <2>5. e = Ok([seid |-> fseid[1].seid, teid |-> fteid[1].teid, addr |-> fteid[1].addr])
    BY <1>1, <2>4, Zenon
  <2>6. e = Ok(s)
    BY <2>1, <2>2, <2>3, <2>5
  <2>7. QED BY <2>6 DEF e
<1>13. QED BY <1>11, <1>12

(* What the requester takes from an answer.                                *)
Taken(t, n, w) ==
    [valid |-> IF t = PFCP_SESSION_REPORT_REQ THEN DecodeHeader(w) # Err ELSE validate_response(t, n, w),
     session |-> IF t = PFCP_SESSION_ESTABLISHMENT_REQ THEN extract_session_info(w) ELSE None,
     recovery_ts |-> extract_recovery_ts(w)]

(* validate_response accepts no answer to a sequence number that the wire  *)
(* cannot carry, and every complete answer to one that it can.             *)
LEMMA AnswerValid ==
    ASSUME NEW t \in {1, 5, 50, 52, 54}, NEW sd, NEW n \in Nat, NEW len, NEW b, NEW c \in Contents,
           AnswerShape(t, c), NEW w, HeaderArrives(w, t + 1, sd, n % SeqNumMod, len, b), Arrived(iter_ies(b), c)
    PROVE  /\ validate_response(t, n, w) => n < SeqNumMod
           /\ Complete(iter_ies(b), c) /\ n < SeqNumMod => validate_response(t, n, w)
<1> DEFINE m == n % SeqNumMod
           d == DecodeHeader(w)
           ies == iter_ies(b)
           cause == OfType(ies, PFCP_IE_CAUSE)
<1>1. d # Err /\ d[1].body = b /\ d[1].header.msg_type = t + 1 /\ d[1].header.seq_num = m % SeqNumMod
  BY AnswerDecoded
<1>2. m % SeqNumMod = m /\ m < SeqNumMod /\ (n < SeqNumMod => m = n)
  BY ModFacts, ModOf
<1>3. cause # <<>> => cause[1].value # <<>> /\ cause[1].value[1] = CAUSE_REQUEST_ACCEPTED
  BY CauseAccepted
<1>4. Complete(ies, c) => Mandatory(t + 1) \ Types(ies) = {}
  BY AnswerComplete
<1> HIDE DEF m
<1>5. validate_response(t, n, w)
        <=> /\ m = n /\ Mandatory(t + 1) \ Types(ies) = {}
            /\ cause # <<>> => cause[1].value # <<>> /\ cause[1].value[1] = CAUSE_REQUEST_ACCEPTED
  <2>1. validate_response(t, n, w)
        <=> /\ d[1].header.msg_type = t + 1 /\ d[1].header.seq_num = n
            /\ Mandatory(t + 1) \ Types(iter_ies(d[1].body)) = {}
            /\ OfType(iter_ies(d[1].body), PFCP_IE_CAUSE) # <<>> =>
                  /\ OfType(iter_ies(d[1].body), PFCP_IE_CAUSE)[1].value # <<>>
                  /\ OfType(iter_ies(d[1].body), PFCP_IE_CAUSE)[1].value[1] = CAUSE_REQUEST_ACCEPTED
    BY <1>1, Zenon DEF validate_response, validate
  <2> HIDE DEF d
  <2>2. QED BY <1>1, <1>2, <2>1, Zenon
<1> HIDE DEF cause, ies, d
<1>6. validate_response(t, n, w) <=> m = n /\ Mandatory(t + 1) \ Types(ies) = {}
  BY <1>3, <1>5, Zenon
<1>7. QED BY <1>2, <1>4, <1>6 DEF ies

(* extract_recovery_ts finds the time sent or none.                        *)
LEMMA TimeTaken ==
    ASSUME NEW c \in Contents, NEW w, NEW b, DecodeHeader(w) # Err, DecodeHeader(w)[1].body = b,
           Arrived(iter_ies(b), c)
    PROVE  extract_recovery_ts(w) \in {None, c.recovery_ts}
<1> DEFINE o == OfType(iter_ies(b), PFCP_IE_RECOVERY_TIME_STAMP)
<1>1. extract_recovery_ts(w) = First(parse_recovery_timestamp, o)
  BY Zenon DEF extract_recovery_ts
<1>2. c.recovery_ts \in Option(Nat) /\ Begun(o, IdValues(c.recovery_ts))
  BY ContentFacts DEF Arrived
<1>3. First(parse_recovery_timestamp, o) = IF o = <<>> THEN None ELSE c.recovery_ts
  BY <1>2, TimeRead
<1> HIDE DEF o
<1>4. QED BY <1>1, <1>3

(* What the requester may take from an answer to its n-th request.         *)
TakenFrom(o, t, n, c, f) ==
    LET s == [seid |-> c.fseid[1].seid, teid |-> Teid, addr |-> UpfAddr]
    IN  /\ f # "cut" /\ n < SeqNumMod => o.valid
        /\ o.valid /\ t # PFCP_SESSION_REPORT_REQ => n < SeqNumMod
        /\ o.session # Err => o.session = Ok(s)
        /\ f # "cut" /\ c.created_pdrs # <<>> => o.session = Ok(s)
        /\ o.recovery_ts \in {None, c.recovery_ts}

(* Nothing is taken from an answer without a header.                       *)
LEMMA RefusedAnswer ==
    ASSUME NEW t, NEW n, NEW c, NEW w, DecodeHeader(w) = Err
    PROVE  TakenFrom(Taken(t, n, w), t, n, c, "cut")
<1> DEFINE o == Taken(t, n, w)
<1>1. /\ o.valid = IF t = PFCP_SESSION_REPORT_REQ THEN DecodeHeader(w) # Err ELSE validate_response(t, n, w)
      /\ o.session = IF t = PFCP_SESSION_ESTABLISHMENT_REQ THEN extract_session_info(w) ELSE None
      /\ o.recovery_ts = extract_recovery_ts(w)
  BY Zenon DEF Taken
<1>2. ~validate_response(t, n, w)
  BY Zenon DEF validate_response
<1>3. extract_session_info(w) = Err
  BY Zenon DEF extract_session_info
<1>4. extract_recovery_ts(w) = None
  BY Zenon DEF extract_recovery_ts
<1> HIDE DEF o
<1>5. (t # PFCP_SESSION_REPORT_REQ => ~o.valid) /\ o.session = Err /\ o.recovery_ts = None
  BY <1>1, <1>2, <1>3, <1>4, Zenon DEF None, Err
<1>6. TakenFrom(o, t, n, c, "cut")
  BY <1>5 DEF TakenFrom
<1>7. QED BY <1>6 DEF o

(* What the requester takes from an answer, whatever the network did to    *)
(* it.                                                                     *)
LEMMA AnswerReceived ==
    ASSUME NEW t \in {1, 5, 50, 52, 54, 56}, NEW sd \in Option(Nat), NEW n \in Nat, NEW c \in Contents,
           AnswerShape(t, c), NEW f, NEW w, Carries(w, Build(NewHeader(t + 1, sd, n % SeqNumMod), c), f)
    PROVE  w \in Seq(Nat) /\ TakenFrom(Taken(t, n, w), t, n, c, f)
<1> DEFINE m == n % SeqNumMod
           u == t + 1
<1>0. m \in Nat /\ u \in Nat
  BY ModFacts
<1>1. Carries(w, Build(NewHeader(u, sd, m), c), f)
  OBVIOUS
<1> HIDE DEF m, u
<1>2. /\ w \in Seq(Nat)
      /\ \/ f = "cut" /\ DecodeHeader(w) = Err
         \/ \E len \in Nat, b \in Seq(Nat), p, q \in Seq(IE) :
               /\ HeaderArrives(w, u, sd, m, len, b) /\ BodyArrives(b, c, p, q)
               /\ f # "cut" => q = <<>>
  BY <1>0, <1>1, ReadBack
<1>3. CASE f = "cut" /\ DecodeHeader(w) = Err
  BY <1>2, <1>3, RefusedAnswer
<1>4. CASE \E len \in Nat, b \in Seq(Nat), p, q \in Seq(IE) :
               /\ HeaderArrives(w, u, sd, m, len, b) /\ BodyArrives(b, c, p, q)
               /\ f # "cut" => q = <<>>
  <2>1. PICK len \in Nat, b \in Seq(Nat), p, q \in Seq(IE) :
               /\ HeaderArrives(w, u, sd, m, len, b) /\ BodyArrives(b, c, p, q)
               /\ f # "cut" => q = <<>>
    BY <1>4
  <2> DEFINE ies == iter_ies(b)
             o == Taken(t, n, w)
             s == [seid |-> c.fseid[1].seid, teid |-> Teid, addr |-> UpfAddr]
  <2>2. Arrived(ies, c) /\ (q = <<>> => Complete(ies, c))
    BY <2>1, BodyRead
  <2>3. DecodeHeader(w) # Err /\ DecodeHeader(w)[1].body = b
    BY <2>1, AnswerDecoded
  <2>4. /\ o.valid = IF t = 56 THEN DecodeHeader(w) # Err ELSE validate_response(t, n, w)
        /\ o.session = IF t = 50 THEN extract_session_info(w) ELSE None
        /\ o.recovery_ts = extract_recovery_ts(w)
    BY MessageTypes, Zenon DEF Taken
  <2>5. t # 56 => /\ validate_response(t, n, w) => n < SeqNumMod
                  /\ Complete(ies, c) /\ n < SeqNumMod => validate_response(t, n, w)
    <3>1. HeaderArrives(w, t + 1, sd, n % SeqNumMod, len, b)
      BY <2>1 DEF u, m
    <3>2. t # 56 => t \in {1, 5, 50, 52, 54}
      OBVIOUS
    <3>3. QED BY <2>2, <3>1, <3>2, AnswerValid
  <2>6. t = 50 => /\ extract_session_info(w) # Err => extract_session_info(w) = Ok(s)
                  /\ Complete(ies, c) /\ c.created_pdrs # <<>> => extract_session_info(w) = Ok(s)
    BY <2>2, <2>3, SessionTaken
  <2>7. extract_recovery_ts(w) \in {None, c.recovery_ts}
    BY <2>2, <2>3, TimeTaken
  <2>8. t # 50 => c.created_pdrs = <<>>
    BY DEF AnswerShape
  <2> HIDE DEF o, s, ies
  <2>9. f # "cut" => Complete(ies, c)
    BY <2>1, <2>2
  <2>10. /\ f # "cut" /\ n < SeqNumMod => o.valid
         /\ o.valid /\ t # PFCP_SESSION_REPORT_REQ => n < SeqNumMod
    BY <2>3, <2>4, <2>5, <2>9, MessageTypes, Zenon
  <2>11. /\ o.session # Err => o.session = Ok(s)
         /\ f # "cut" /\ c.created_pdrs # <<>> => o.session = Ok(s)
    <3>1. CASE t = 50
      BY <2>4, <2>6, <2>9, <3>1
    <3>2. CASE t # 50
      BY <2>4, <2>8, <3>2 DEF Err, None
    <3>3. QED BY <3>1, <3>2
  <2>12. o.recovery_ts \in {None, c.recovery_ts}
    BY <2>4, <2>7
  <2>13. TakenFrom(o, t, n, c, f)
    BY <2>10, <2>11, <2>12, Zenon DEF TakenFrom, s
  <2>14. QED BY <1>2, <2>13 DEF o
<1>5. QED BY <1>2, <1>3, <1>4

-----------------------------------------------------------------------------
(* The inductive invariant.                                                *)

(* What was decoded of request r when at most fault ft happened to its     *)
(* datagram.                                                               *)
SeenFrom(s, r, ft) ==
    \E w, f : f \in {"none", ft} /\ Carries(w, Build(r.header, r.content), f) /\ s = ReadRequest(w) /\ s # Err
(* Answer x is one to what was seen, and datagram w carries it.            *)
AnswerFrom(x, s, w, ft) ==
    \E a, f : /\ a \in Answers(s[1].header, s[1].request) /\ x = <<a>>
              /\ f \in {"none", ft} /\ Carries(w, Build(a.header, a.content), f)

(* The header of a request.                                                *)
LEMMA SentHeader ==
    ASSUME NEW r, NEW t, NEW sd, NEW n, Sent(r, t, sd, n)
    PROVE  r.header.msg_type = t /\ r.header.seq_num = n
BY DEF Sent, NewHeader

(* RequestReceived, for the requests of the model.                         *)
LEMMA RequestSeen ==
    ASSUME NEW r \in Requests, NEW f, NEW w, Carries(w, Build(r.header, r.content), f)
    PROVE  /\ w \in Seq(Nat)
           /\ f # "cut" => Lacking(w) = {}
           /\ \/ ReadRequest(w) = Err /\ f = "cut" /\ (DecodeHeader(w) = Err \/ Lacking(w) # {})
              \/ \E t, sd, n : /\ Sent(r, t, sd, n) /\ Shape(t, r.content)
                               /\ SeenAs(ReadRequest(w), t, sd, n, r.content, f)
<1>1. PICK t, sd, n : Sent(r, t, sd, n) /\ Shape(t, r.content)
  BY RequestSent
<1> DEFINE c == r.content
<1>2. t \in Nat /\ sd \in Option(Nat) /\ n \in Nat /\ c \in Contents /\ r.header = NewHeader(t, sd, n)
  BY <1>1 DEF Sent
<1>3. Carries(w, Build(NewHeader(t, sd, n), c), f) /\ Shape(t, c)
  BY <1>1, <1>2
<1> HIDE DEF c
<1>4. /\ w \in Seq(Nat)
      /\ f # "cut" => Lacking(w) = {}
      /\ \/ ReadRequest(w) = Err /\ f = "cut" /\ (DecodeHeader(w) = Err \/ Lacking(w) # {})
         \/ SeenAs(ReadRequest(w), t, sd, n, c, f)
  BY <1>2, <1>3, RequestReceived
<1>5. QED BY <1>1, <1>4 DEF c

(* What follows from having seen a request.                                *)
LEMMA SeenFacts ==
    ASSUME NEW t, NEW sd, NEW n \in Nat, NEW c, NEW f, NEW s, SeenAs(s, t, sd, n, c, f)
    PROVE  /\ s # Err /\ Len(s) = 1 /\ s = <<s[1]>> /\ s[1].header.seq_num < SeqNumMod
           /\ s[1].header.msg_type = t
           /\ BeginningOf(t, s[1].request, AsRead(t, c))
           /\ f # "cut" => s[1].request = AsRead(t, c)
           /\ [s[1].header EXCEPT !.length = 0] = [NewHeader(t, sd, n) EXCEPT !.seq_num = @ % SeqNumMod]
           /\ f = "none" => s[1].header.length = Len(Build(NewHeader(t, sd, n), c)) - 3
<1> DEFINE m == n % SeqNumMod
           L == Len(Build(NewHeader(t, sd, n), c)) - 3
<1>1. PICK len, got : /\ len \in Nat
                      /\ s = <<[header |-> HeaderRead(t, sd, len, m), request |-> got]>>
                      /\ BeginningOf(t, got, AsRead(t, c))
                      /\ f # "cut" => got = AsRead(t, c)
                      /\ f = "none" => len = L
  BY DEF SeenAs
<1> DEFINE h == HeaderRead(t, sd, len, m)
           x == [header |-> h, request |-> got]
<1>2. m < SeqNumMod
  BY ModFacts
<1> HIDE DEF L
<1>3. [h EXCEPT !.length = 0] = [NewHeader(t, sd, n) EXCEPT !.seq_num = @ % SeqNumMod]
  <2> DEFINE b == (sd # <<>>)
             no == FALSE
             g == [version |-> 1, s_flag |-> b, mp_flag |-> no, fo_flag |-> no, msg_type |-> t,
                   length |-> len, seid |-> sd, seq_num |-> m, priority |-> 0]
             k == [version |-> 1, s_flag |-> b, mp_flag |-> no, fo_flag |-> no, msg_type |-> t,
                   length |-> 0, seid |-> sd, seq_num |-> n, priority |-> 0]
  <2>1. h = g /\ NewHeader(t, sd, n) = k
    BY Zenon DEF HeaderRead, NewHeader, None
  <2> HIDE DEF h, b, no
  <2>2. [g EXCEPT !.length = 0] = [k EXCEPT !.seq_num = k.seq_num % SeqNumMod]
    OBVIOUS
  <2> HIDE DEF g, k
  <2>3. QED BY <2>1, <2>2
<1>4. h.seq_num = m /\ h.msg_type = t /\ h.length = len
  BY HeaderFields
<1> HIDE DEF h, m
<1>5. x.header = h /\ x.request = got
  OBVIOUS
<1>6. s = <<x>>
  BY <1>1 DEF h
<1> HIDE DEF x
<1>7. s[1] = x /\ Len(s) = 1 /\ s # Err
  BY <1>6, OneAt, OneIsSome DEF Err
<1>8. s = <<s[1]>>
  BY <1>6, <1>7
<1>9. QED BY <1>1, <1>2, <1>3, <1>4, <1>5, <1>7, <1>8 DEF L

(* AnswerReceived, for the answers of the model.                           *)
LEMMA AnswerTaken ==
    ASSUME NEW r \in Requests, NEW ft, NEW s, SeenFrom(s, r, ft), NEW x, NEW w, AnswerFrom(x, s, w, ft)
    PROVE  /\ w \in Seq(Nat) /\ Len(x) = 1
           /\ TakenFrom(Taken(r.header.msg_type, r.header.seq_num, w), r.header.msg_type, r.header.seq_num,
                        x[1].content, ft)
<1>1. PICK v, f : Carries(v, Build(r.header, r.content), f) /\ s = ReadRequest(v) /\ s # Err
  BY DEF SeenFrom
<1>2. PICK t, sd, n : Sent(r, t, sd, n) /\ Shape(t, r.content) /\ SeenAs(s, t, sd, n, r.content, f)
  BY <1>1, RequestSeen
<1>3. PICK a, g : /\ a \in Answers(s[1].header, s[1].request) /\ x = <<a>>
                  /\ g \in {"none", ft} /\ Carries(w, Build(a.header, a.content), g)
  BY DEF AnswerFrom
<1>4. n \in Nat /\ r.content \in Contents /\ r.header.msg_type = t /\ r.header.seq_num = n
  BY <1>2, SentHeader DEF Sent
<1> DEFINE c == r.content
<1>5. Answered(a, t, n % SeqNumMod)
  <2>1. n \in Nat /\ c \in Contents /\ Shape(t, c) /\ SeenAs(s, t, sd, n, c, f)
    BY <1>2, <1>4
  <2> HIDE DEF c
  <2>2. QED BY <1>3, <2>1, AnswerSent
<1>6. PICK sd2 \in Option(Nat) : /\ a.header = NewHeader(t + 1, sd2, n % SeqNumMod)
                                 /\ a.content \in Contents /\ AnswerShape(t, a.content)
  BY <1>5 DEF Answered
<1>7. t \in {1, 5, 50, 52, 54, 56}
  BY <1>2, ShapeTypes
<1> DEFINE d == a.content
<1>8. w \in Seq(Nat) /\ TakenFrom(Taken(t, n, w), t, n, d, g)
  <2>1. Carries(w, Build(NewHeader(t + 1, sd2, n % SeqNumMod), d), g) /\ d \in Contents /\ AnswerShape(t, d)
    BY <1>3, <1>6
  <2> HIDE DEF d
  <2>2. QED BY <1>4, <1>6, <1>7, <2>1, AnswerReceived
<1>9. TakenFrom(Taken(t, n, w), t, n, d, ft)
  <2>1. ft # "cut" => g # "cut"
    BY <1>3
  <2> HIDE DEF d
  <2>2. QED BY <1>8, <2>1, Zenon DEF TakenFrom
<1>10. x[1] = a /\ Len(x) = 1
  BY <1>3
<1>11. QED BY <1>4, <1>8, <1>9, <1>10

(* Nothing was sent.                                                       *)
Idle ==
    /\ stage = "idle" /\ req = None /\ wire = <<>> /\ fault = "none"
    /\ seen = None /\ answer = None /\ outcome = None
(* Request r is on the wire.                                               *)
UnderWay(r) ==
    /\ stage = "request" /\ Carries(wire, Build(r.header, r.content), fault)
    /\ seen = None /\ answer = None /\ outcome = None
(* Request r was refused.                                                  *)
Refused(r) ==
    /\ stage = "refused" /\ Carries(wire, Build(r.header, r.content), fault)
    /\ seen = ReadRequest(wire) /\ seen = Err /\ answer = None /\ outcome = None
(* Request r was answered; once the answer arrived, the outcome is what    *)
(* was taken from it.                                                      *)
Replied(r) ==
    /\ stage \in {"response", "done"} /\ SeenFrom(seen, r, fault) /\ AnswerFrom(answer, seen, wire, fault)
    /\ stage = "response" => outcome = None
    /\ stage = "done" => outcome = Some(Taken(r.header.msg_type, r.header.seq_num, wire))

(* The inductive invariant.                                                *)
CodecInv ==
    /\ fault \in {"none", "cut", "extended"}
    /\ \/ Idle
       \/ \E r \in Requests : req = Some(r) /\ (UnderWay(r) \/ Refused(r) \/ Replied(r))

(* Cutting a message makes it a cut one.                                   *)
LEMMA CarriesCut ==
    ASSUME NEW B, NEW w \in Seq(Nat), Carries(w, B, "none"), NEW k \in 0..Len(w) - 1
    PROVE  Carries(SubSeq(w, 1, k), B, "cut")
<1>1. w = B /\ k \in 0..Len(B)
  BY DEF Carries
<1> DEFINE v == SubSeq(w, 1, k)
<1>2. v = SubSeq(B, 1, k)
  BY <1>1
<1> HIDE DEF v
<1>3. QED BY <1>1, <1>2, Zenon DEF Carries, v

(* Adding the unknown IE to a message makes it an extended one.            *)
LEMMA CarriesExtended ==
    ASSUME NEW B, NEW w, Carries(w, B, "none"), NEW at \in {IF Bit(w[1], 1) THEN 6 ELSE 5, Len(w)}
    PROVE  Carries(finish(SubSeq(w, 1, at) \o UnknownIe \o SubSeq(w, at + 1, Len(w))), B, "extended")
<1>1. w = B
  BY DEF Carries
<1> DEFINE v == finish(SubSeq(w, 1, at) \o UnknownIe \o SubSeq(w, at + 1, Len(w)))
<1>2. v = ExtendedAt(B, at)
  BY <1>1, Zenon DEF ExtendedAt
<1>3. at \in {IF Bit(B[1], 1) THEN 6 ELSE 5, Len(B)}
  BY <1>1, Zenon
<1> HIDE DEF v
<1>4. Carries(v, B, "extended")
  BY <1>2, <1>3, Zenon DEF Carries
<1>5. QED BY <1>4 DEF v

(* Some and its value.                                                     *)
LEMMA SomeIs == \A x, y : (Some(x) = Some(y) => x = y) /\ Some(x)[1] = x /\ Len(Some(x)) = 1 /\ Some(x) = <<x>>
BY DEF Some

(* The invariant holds initially.                                          *)
LEMMA InitCodec == Init => CodecInv
BY DEF Init, CodecInv, Idle

(* Sending a request keeps it.                                             *)
LEMMA SendRequestCodec == CodecInv /\ SendRequest => CodecInv'
<1> SUFFICES ASSUME CodecInv, SendRequest PROVE CodecInv'
  OBVIOUS
<1>1. PICK r \in Requests : req' = Some(r) /\ wire' = Build(r.header, r.content)
  BY DEF SendRequest
<1>2. Idle /\ stage' = "request" /\ UNCHANGED <<fault, seen, answer, outcome>>
  BY DEF SendRequest, CodecInv, UnderWay, Refused, Replied
<1>3. fault = "none" /\ seen = None /\ answer = None /\ outcome = None
  BY <1>2 DEF Idle
<1>4. Carries(wire', Build(r.header, r.content), fault')
  BY <1>1, <1>2, <1>3, Zenon DEF Carries
<1>5. UnderWay(r)'
  BY <1>2, <1>3, <1>4, Zenon DEF UnderWay
<1>6. fault' \in {"none", "cut", "extended"}
  BY <1>2, <1>3
<1>7. QED BY <1>1, <1>5, <1>6, Zenon DEF CodecInv

(* A fault may strike the request or the answer, and only one of them.     *)
Struck(w, g) ==
    \A B : Carries(wire, B, "none") /\ wire \in Seq(Nat) => Carries(w, B, g)

(* A fault on the datagram under way keeps it.                             *)
LEMMA StruckCodec ==
    ASSUME CodecInv, stage \in {"request", "response"}, fault = "none", Struck(wire', fault'),
           fault' \in {"cut", "extended"}, UNCHANGED <<stage, req, seen, answer, outcome>>
    PROVE  CodecInv'
<1>1. PICK r \in Requests : req = Some(r) /\ (UnderWay(r) \/ Replied(r))
  BY DEF CodecInv, Idle, Refused
<1> DEFINE B == Build(r.header, r.content)
<1>2. CASE UnderWay(r)
  <2>1. Carries(wire, B, "none") /\ stage = "request" /\ seen = None /\ answer = None /\ outcome = None
    BY <1>2 DEF UnderWay
  <2> HIDE DEF B
  <2>2. wire \in Seq(Nat)
    BY <2>1, RequestSeen DEF B
  <2>3. Carries(wire', B, fault')
    BY <2>1, <2>2, Zenon DEF Struck
  <2>4. UnderWay(r)'
    BY <2>1, <2>3, Zenon DEF UnderWay, B
  <2>5. req' = Some(r) /\ fault' \in {"none", "cut", "extended"}
    BY <1>1
  <2>6. QED BY <2>4, <2>5, Zenon DEF CodecInv
<1>3. CASE Replied(r)
  <2>1. /\ SeenFrom(seen, r, fault) /\ AnswerFrom(answer, seen, wire, fault) /\ stage = "response"
        /\ outcome = None
    BY <1>3 DEF Replied
  <2>2. wire \in Seq(Nat)
    BY <2>1, AnswerTaken
  <2>3. SeenFrom(seen', r, fault')
    <3>1. PICK w, f : f \in {"none", fault} /\ Carries(w, B, f) /\ seen = ReadRequest(w) /\ seen # Err
      BY <2>1 DEF SeenFrom
    <3>2. f \in {"none", fault'} /\ seen' = seen
      BY <3>1
    <3> HIDE DEF B
    <3>3. QED BY <3>1, <3>2, Zenon DEF SeenFrom, B
  <2>4. AnswerFrom(answer', seen', wire', fault')
    <3>1. PICK a, f : /\ a \in Answers(seen[1].header, seen[1].request) /\ answer = <<a>>
                      /\ f \in {"none", fault} /\ Carries(wire, Build(a.header, a.content), f)
      BY <2>1 DEF AnswerFrom
    <3>2. Carries(wire', Build(a.header, a.content), fault')
      <4>1. f = "none"
        BY <3>1
      <4>2. QED BY <2>2, <3>1, <4>1, Zenon DEF Struck
    <3>3. fault' \in {"none", fault'} /\ answer' = answer /\ seen' = seen
      OBVIOUS
    <3>4. QED BY <3>1, <3>2, <3>3, Zenon DEF AnswerFrom
  <2>5. stage' = "response" /\ outcome' = None
    BY <2>1
  <2>6. Replied(r)'
    BY <2>3, <2>4, <2>5 DEF Replied
  <2>7. req' = Some(r) /\ fault' \in {"none", "cut", "extended"}
    BY <1>1
  <2>8. QED BY <2>6, <2>7, Zenon DEF CodecInv
<1>4. QED BY <1>1, <1>2, <1>3

(* Cutting the datagram keeps it.                                          *)
LEMMA CutCodec == CodecInv /\ Cut => CodecInv'
<1> SUFFICES ASSUME CodecInv, Cut PROVE CodecInv'
  OBVIOUS
<1>1. PICK k \in 0..Len(wire) - 1 : wire' = SubSeq(wire, 1, k)
  BY DEF Cut
<1>2. /\ stage \in {"request", "response"} /\ fault = "none" /\ fault' = "cut"
      /\ UNCHANGED <<stage, req, seen, answer, outcome>>
  BY DEF Cut
<1>3. Struck(wire', "cut")
  <2> SUFFICES ASSUME NEW B, Carries(wire, B, "none"), wire \in Seq(Nat) PROVE Carries(wire', B, "cut")
    BY Zenon DEF Struck
  <2>1. Carries(SubSeq(wire, 1, k), B, "cut")
    BY CarriesCut
  <2>2. QED BY <1>1, <2>1
<1>4. Struck(wire', fault') /\ fault' \in {"cut", "extended"}
  BY <1>2, <1>3
<1>5. QED BY <1>2, <1>4, StruckCodec

(* Adding the unknown IE keeps it.                                         *)
LEMMA ExtendCodec == CodecInv /\ Extend => CodecInv'
<1> SUFFICES ASSUME CodecInv, Extend PROVE CodecInv'
  OBVIOUS
<1>1. PICK at \in {IF Bit(wire[1], 1) THEN 6 ELSE 5, Len(wire)} :
            wire' = finish(SubSeq(wire, 1, at) \o UnknownIe \o SubSeq(wire, at + 1, Len(wire)))
  BY Zenon DEF Extend
<1>2. /\ stage \in {"request", "response"} /\ fault = "none" /\ fault' = "extended"
      /\ UNCHANGED <<stage, req, seen, answer, outcome>>
  BY DEF Extend
<1>3. Struck(wire', "extended")
  <2> SUFFICES ASSUME NEW B, Carries(wire, B, "none"), wire \in Seq(Nat) PROVE Carries(wire', B, "extended")
    BY Zenon DEF Struck
  <2>1. Carries(finish(SubSeq(wire, 1, at) \o UnknownIe \o SubSeq(wire, at + 1, Len(wire))), B, "extended")
    BY CarriesExtended
  <2>2. QED BY <1>1, <2>1, Zenon
<1>4. Struck(wire', fault') /\ fault' \in {"cut", "extended"}
  BY <1>2, <1>3
<1>5. QED BY <1>2, <1>4, StruckCodec

(* Decoding the request, and refusing or answering it, keeps it.           *)
LEMMA ReceiveRequestCodec == CodecInv /\ ReceiveRequest => CodecInv'
<1> SUFFICES ASSUME CodecInv, ReceiveRequest PROVE CodecInv'
  OBVIOUS
<1>1. stage = "request" /\ seen' = ReadRequest(wire) /\ UNCHANGED <<req, fault, outcome>>
  BY DEF ReceiveRequest
<1>2. PICK r \in Requests : req = Some(r) /\ UnderWay(r)
  BY <1>1 DEF CodecInv, Idle, Refused, Replied
<1> DEFINE B == Build(r.header, r.content)
<1>3. Carries(wire, B, fault) /\ answer = None /\ outcome = None
  BY <1>2 DEF UnderWay
<1>4. req' = Some(r) /\ fault' \in {"none", "cut", "extended"} /\ outcome' = None /\ fault' = fault
  BY <1>1, <1>2, <1>3 DEF CodecInv
<1> HIDE DEF B
<1>5. CASE seen' = Err
  <2>1. stage' = "refused" /\ wire' = wire /\ answer' = answer
    BY <1>5 DEF ReceiveRequest
  <2>2. Refused(r)'
    BY <1>1, <1>3, <1>4, <1>5, <2>1, Zenon DEF Refused, B
  <2>3. QED BY <1>4, <2>2, Zenon DEF CodecInv
<1>6. CASE seen' # Err
  <2>1. stage' = "response" /\ \E a \in Answers(seen'[1].header, seen'[1].request) :
                                 answer' = Some(a) /\ wire' = Build(a.header, a.content)
    BY <1>6 DEF ReceiveRequest
  <2>2. PICK a \in Answers(seen'[1].header, seen'[1].request) :
            answer' = Some(a) /\ wire' = Build(a.header, a.content)
    BY <2>1
  <2>3. SeenFrom(seen', r, fault')
    <3>1. fault \in {"none", fault'} /\ Carries(wire, B, fault) /\ seen' = ReadRequest(wire) /\ seen' # Err
      BY <1>1, <1>3, <1>4, <1>6
    <3>2. QED BY <3>1, Zenon DEF SeenFrom, B
  <2>4. AnswerFrom(answer', seen', wire', fault')
    <3>1. Carries(wire', Build(a.header, a.content), "none")
      BY <2>2, Zenon DEF Carries
    <3>2. answer' = <<a>> /\ "none" \in {"none", fault'}
      BY <2>2 DEF Some
    <3>3. QED BY <2>2, <3>1, <3>2, Zenon DEF AnswerFrom
  <2>5. Replied(r)'
    BY <1>4, <2>1, <2>3, <2>4 DEF Replied
  <2>6. QED BY <1>4, <2>5, Zenon DEF CodecInv
<1>7. QED BY <1>5, <1>6

(* Taking the answer keeps it.                                             *)
LEMMA ReceiveResponseCodec == CodecInv /\ ReceiveResponse => CodecInv'
<1> SUFFICES ASSUME CodecInv, ReceiveResponse PROVE CodecInv'
  OBVIOUS
<1>1. stage = "response" /\ stage' = "done" /\ UNCHANGED <<req, wire, fault, seen, answer>>
  BY DEF ReceiveResponse
<1>2. PICK r \in Requests : req = Some(r) /\ Replied(r)
  BY <1>1 DEF CodecInv, Idle, Refused, UnderWay
<1>3. outcome' = Some(Taken(req[1].header.msg_type, req[1].header.seq_num, wire))
  BY Zenon DEF ReceiveResponse, Taken
<1>4. req[1] = r
  BY <1>2, SomeIs
<1>5. outcome' = Some(Taken(r.header.msg_type, r.header.seq_num, wire'))
  BY <1>1, <1>3, <1>4
<1>6. SeenFrom(seen', r, fault') /\ AnswerFrom(answer', seen', wire', fault')
  BY <1>1, <1>2 DEF Replied
<1>7. Replied(r)'
  BY <1>1, <1>5, <1>6 DEF Replied
<1>8. req' = Some(r) /\ fault' \in {"none", "cut", "extended"}
  BY <1>1, <1>2 DEF CodecInv
<1>9. QED BY <1>7, <1>8, Zenon DEF CodecInv

(* Every step keeps it.                                                    *)
LEMMA NextCodec == CodecInv /\ [Next]_vars => CodecInv'
<1> SUFFICES ASSUME CodecInv, [Next]_vars PROVE CodecInv'
  OBVIOUS
<1>1. CASE SendRequest
  BY <1>1, SendRequestCodec
<1>2. CASE Cut
  BY <1>2, CutCodec
<1>3. CASE Extend
  BY <1>3, ExtendCodec
<1>4. CASE ReceiveRequest
  BY <1>4, ReceiveRequestCodec
<1>5. CASE ReceiveResponse
  BY <1>5, ReceiveResponseCodec
<1>6. CASE Over
  BY <1>6 DEF Over, CodecInv, Idle
<1>7. CASE UNCHANGED vars
  BY <1>7 DEF vars, CodecInv, Idle, UnderWay, Refused, Replied
<1>8. QED BY <1>1, <1>2, <1>3, <1>4, <1>5, <1>6, <1>7 DEF Next

(* The invariant holds in every reachable state.                           *)
LEMMA CodecInductive == Spec => []CodecInv
BY InitCodec, NextCodec, PTL DEF Spec

(* A request seen is one request.                                          *)
LEMMA SeenIsOne ==
    ASSUME NEW t, NEW sd, NEW n \in Nat, NEW c, NEW f, NEW s, SeenAs(s, t, sd, n, c, f)
    PROVE  s # Err /\ Len(s) = 1 /\ s = <<s[1]>> /\ s[1].header.seq_num < SeqNumMod
<1> DEFINE m == n % SeqNumMod
<1>1. PICK len, got : len \in Nat /\ s = <<[header |-> HeaderRead(t, sd, len, m), request |-> got]>>
  BY DEF SeenAs
<1> DEFINE h == HeaderRead(t, sd, len, m)
           x == [header |-> h, request |-> got]
<1>2. m < SeqNumMod /\ h.seq_num = m
  BY ModFacts, HeaderFields
<1> HIDE DEF h, m
<1>3. x.header = h
  OBVIOUS
<1>4. s = <<x>>
  BY <1>1 DEF h
<1> HIDE DEF x
<1>5. s[1] = x /\ Len(s) = 1 /\ s # Err
  BY <1>4, OneAt, OneIsSome DEF Err
<1>6. s = <<s[1]>>
  BY <1>4, <1>5
<1>7. QED BY <1>2, <1>3, <1>5, <1>6

(* The invariant implies the type invariant.                               *)
LEMMA TypeOfCodec == CodecInv => TypeOK
<1> SUFFICES ASSUME CodecInv PROVE TypeOK
  OBVIOUS
<1>1. fault \in {"none", "cut", "extended"}
  BY DEF CodecInv
<1>n. Len(None) = 0 /\ None = <<>> /\ <<>> \in Seq(Nat) /\ DOMAIN <<>> = {}
  BY DEF None
<1>2. CASE Idle
  BY <1>1, <1>2, <1>n DEF Idle, TypeOK
<1>3. CASE \E r \in Requests : req = Some(r) /\ (UnderWay(r) \/ Refused(r) \/ Replied(r))
  <2>1. PICK r \in Requests : req = Some(r) /\ (UnderWay(r) \/ Refused(r) \/ Replied(r))
    BY <1>3
  <2>2. Len(req) = 1
    BY <2>1, SomeIs
  <2>3. CASE UnderWay(r)
    <3>1. wire \in Seq(Nat) /\ stage = "request" /\ seen = <<>> /\ answer = <<>> /\ outcome = <<>>
      BY <2>3, RequestSeen DEF UnderWay, None
    <3>2. QED BY <1>1, <1>n, <2>2, <3>1 DEF TypeOK
  <2>4. CASE Refused(r)
    <3>1. wire \in Seq(Nat) /\ stage = "refused" /\ seen = <<>> /\ answer = <<>> /\ outcome = <<>>
      BY <2>4, RequestSeen DEF Refused, None, Err
    <3>2. QED BY <1>1, <1>n, <2>2, <3>1 DEF TypeOK
  <2>5. CASE Replied(r)
    <3>1. /\ SeenFrom(seen, r, fault) /\ AnswerFrom(answer, seen, wire, fault) /\ stage \in {"response", "done"}
          /\ stage = "response" => outcome = None
          /\ stage = "done" => outcome = Some(Taken(r.header.msg_type, r.header.seq_num, wire))
      BY <2>5 DEF Replied
    <3>2. wire \in Seq(Nat) /\ Len(answer) = 1
      BY <3>1, AnswerTaken
    <3>3. PICK v, f : Carries(v, Build(r.header, r.content), f) /\ seen = ReadRequest(v) /\ seen # Err
      BY <3>1 DEF SeenFrom
    <3>4. PICK t, sd, n : Sent(r, t, sd, n) /\ SeenAs(seen, t, sd, n, r.content, f)
      BY <3>3, RequestSeen
    <3>5. n \in Nat
      BY <3>4 DEF Sent
    <3>6. Len(seen) = 1 /\ seen = <<seen[1]>> /\ seen[1].header.seq_num < SeqNumMod
      <4> DEFINE c == r.content
      <4>1. n \in Nat /\ SeenAs(seen, t, sd, n, c, f)
        BY <3>4, <3>5
      <4> HIDE DEF c
      <4>2. QED BY <4>1, SeenIsOne
    <3>7. \A i \in DOMAIN seen : seen[i].header.seq_num < SeqNumMod
      <4>1. DOMAIN seen = {1}
        <5> DEFINE x == seen[1]
        <5> HIDE DEF x
        <5>1. seen = <<x>> /\ DOMAIN <<x>> = {1}
          BY <3>6 DEF x
        <5>2. QED BY <5>1
      <4>2. QED BY <3>6, <4>1
    <3>8. Len(outcome) <= 1
      <4>1. Len(outcome) = 0 \/ Len(outcome) = 1
        BY <3>1, <1>n, SomeIs
      <4> DEFINE k == Len(outcome)
      <4>2. k = 0 \/ k = 1
        BY <4>1
      <4> HIDE DEF k
      <4>3. k <= 1
        BY <4>2
      <4>4. QED BY <4>3 DEF k
    <3>9. QED BY <1>1, <2>2, <3>1, <3>2, <3>6, <3>7, <3>8 DEF TypeOK
  <2>6. QED BY <2>1, <2>3, <2>4, <2>5
<1>4. QED BY <1>2, <1>3 DEF CodecInv

(* What was decoded of the request under way.                              *)
LEMMA SeenOfReplied ==
    ASSUME NEW r \in Requests, NEW s, NEW ft, SeenFrom(s, r, ft)
    PROVE  \E t, sd, n, f : /\ Sent(r, t, sd, n) /\ f \in {"none", ft}
                            /\ SeenAs(s, t, sd, n, r.content, f)
<1>1. PICK v, f : f \in {"none", ft} /\ Carries(v, Build(r.header, r.content), f) /\ s = ReadRequest(v) /\ s # Err
  BY DEF SeenFrom
<1>2. \E t, sd, n : Sent(r, t, sd, n) /\ SeenAs(s, t, sd, n, r.content, f)
  BY <1>1, RequestSeen
<1>3. QED BY <1>1, <1>2

(* It implies that requests are understood.                                *)
LEMMA UnderstoodOfCodec == CodecInv => RequestUnderstood
<1> SUFFICES ASSUME CodecInv, stage \in {"refused", "response"}, fault # "cut"
             PROVE  /\ seen # Err /\ seen[1].request = Asked
                    /\ [seen[1].header EXCEPT !.length = 0] = [req[1].header EXCEPT !.seq_num = @ % SeqNumMod]
                    /\ fault = "none" =>
                           seen[1].header.length = Len(Build(req[1].header, req[1].content)) - 3
  BY Zenon DEF RequestUnderstood
<1>1. PICK r \in Requests : req = Some(r) /\ (Refused(r) \/ Replied(r))
  BY DEF CodecInv, Idle, UnderWay
<1>2. req[1] = r
  BY <1>1, SomeIs
<1>3. ~Refused(r)
  <2> SUFFICES ASSUME Refused(r) PROVE FALSE
    OBVIOUS
  <2>1. Carries(wire, Build(r.header, r.content), fault) /\ ReadRequest(wire) = Err
    BY DEF Refused
  <2>2. PICK t, sd, n : Sent(r, t, sd, n) /\ SeenAs(ReadRequest(wire), t, sd, n, r.content, fault)
    BY <2>1, RequestSeen
  <2>3. n \in Nat
    BY <2>2 DEF Sent
  <2>4. ReadRequest(wire) # Err
    <3> DEFINE c == r.content
    <3>1. n \in Nat /\ SeenAs(ReadRequest(wire), t, sd, n, c, fault)
      BY <2>2, <2>3
    <3> HIDE DEF c
    <3>2. QED BY <3>1, SeenIsOne
  <2>5. QED BY <2>1, <2>4
<1>4. SeenFrom(seen, r, fault)
  BY <1>1, <1>3 DEF Replied
<1>5. PICK t, sd, n, f : /\ Sent(r, t, sd, n) /\ f \in {"none", fault}
                         /\ SeenAs(seen, t, sd, n, r.content, f)
  BY <1>4, SeenOfReplied
<1>6. n \in Nat /\ r.header = NewHeader(t, sd, n) /\ r.header.msg_type = t
  BY <1>5, SentHeader DEF Sent
<1> DEFINE c == r.content
<1>7. /\ seen # Err
      /\ f # "cut" => seen[1].request = AsRead(t, c)
      /\ [seen[1].header EXCEPT !.length = 0] = [NewHeader(t, sd, n) EXCEPT !.seq_num = @ % SeqNumMod]
      /\ f = "none" => seen[1].header.length = Len(Build(NewHeader(t, sd, n), c)) - 3
  <2>1. n \in Nat /\ SeenAs(seen, t, sd, n, c, f)
    BY <1>5, <1>6
  <2> HIDE DEF c
  <2>2. QED BY <2>1, SeenFacts
<1>8. f # "cut" /\ (fault = "none" => f = "none")
  BY <1>5
<1>9. seen[1].request = Asked
  BY <1>2, <1>6, <1>7, <1>8, Zenon DEF Asked
<1>10. [seen[1].header EXCEPT !.length = 0] = [req[1].header EXCEPT !.seq_num = @ % SeqNumMod]
  <2>1. req[1].header = NewHeader(t, sd, n)
    BY <1>2, <1>6
  <2>2. QED BY <1>7, <2>1, Zenon
<1>11. fault = "none" => seen[1].header.length = Len(Build(req[1].header, req[1].content)) - 3
  BY <1>2, <1>6, <1>7, <1>8, Zenon
<1>12. QED BY <1>7, <1>9, <1>10, <1>11

(* It implies that a cut request is read as its beginning.                 *)
LEMMA BeginningOfCodec == CodecInv => CutRequestIsBeginning
<1> SUFFICES ASSUME CodecInv, stage \in {"response", "done"}
             PROVE  BeginningOf(req[1].header.msg_type, seen[1].request, Asked)
  BY Zenon DEF CutRequestIsBeginning, BeginningOf
<1>1. PICK r \in Requests : req = Some(r) /\ Replied(r)
  BY DEF CodecInv, Idle, UnderWay, Refused
<1>2. req[1] = r
  BY <1>1, SomeIs
<1>3. PICK t, sd, n, f : Sent(r, t, sd, n) /\ SeenAs(seen, t, sd, n, r.content, f)
  BY <1>1, SeenOfReplied DEF Replied
<1>4. n \in Nat /\ r.header.msg_type = t
  BY <1>3, SentHeader DEF Sent
<1> DEFINE c == r.content
<1>5. BeginningOf(t, seen[1].request, AsRead(t, c))
  <2>1. n \in Nat /\ SeenAs(seen, t, sd, n, c, f)
    BY <1>3, <1>4
  <2> HIDE DEF c
  <2>2. QED BY <2>1, SeenFacts
<1>6. Asked = AsRead(t, c)
  BY <1>2, <1>4, Zenon DEF Asked
<1>7. QED BY <1>2, <1>4, <1>5, <1>6

(* It implies that answers are understood.                                 *)
LEMMA AnswerOfCodec == CodecInv => AnswerUnderstood
<1> SUFFICES ASSUME CodecInv, stage = "done"
             PROVE  TakenFrom(outcome[1], req[1].header.msg_type, req[1].header.seq_num, answer[1].content, fault)
  BY Zenon DEF AnswerUnderstood, TakenFrom
<1>1. PICK r \in Requests : req = Some(r) /\ Replied(r)
  BY DEF CodecInv, Idle, UnderWay, Refused
<1>2. req[1] = r
  BY <1>1, SomeIs
<1>3. /\ SeenFrom(seen, r, fault) /\ AnswerFrom(answer, seen, wire, fault)
      /\ outcome = Some(Taken(r.header.msg_type, r.header.seq_num, wire))
  BY <1>1 DEF Replied
<1>4. outcome[1] = Taken(r.header.msg_type, r.header.seq_num, wire)
  BY <1>3, SomeIs, Zenon
<1>5. TakenFrom(Taken(r.header.msg_type, r.header.seq_num, wire), r.header.msg_type, r.header.seq_num,
                answer[1].content, fault)
  BY <1>3, AnswerTaken
<1>6. QED BY <1>2, <1>4, <1>5

(* It implies that the dictionary and the decoders agree.                  *)
LEMMA DictionaryOfCodec == CodecInv => DictionaryAgrees
<1> SUFFICES ASSUME CodecInv, stage \in {"request", "refused"}
             PROVE  /\ fault # "cut" => Lacking(wire) = {}
                    /\ stage = "refused" => DecodeHeader(wire) = Err \/ Lacking(wire) # {}
  BY Zenon DEF DictionaryAgrees, Lacking
<1>1. PICK r \in Requests : req = Some(r) /\ (UnderWay(r) \/ Refused(r))
  BY DEF CodecInv, Idle, Replied
<1>2. /\ Carries(wire, Build(r.header, r.content), fault)
      /\ stage = "refused" => ReadRequest(wire) = Err
  BY <1>1 DEF UnderWay, Refused
<1>3. fault # "cut" => Lacking(wire) = {}
  BY <1>2, RequestSeen
<1>4. ASSUME stage = "refused" PROVE DecodeHeader(wire) = Err \/ Lacking(wire) # {}
  <2>1. ReadRequest(wire) = Err
    BY <1>2, <1>4
  <2>2. CASE \E t, sd, n : Sent(r, t, sd, n) /\ SeenAs(ReadRequest(wire), t, sd, n, r.content, fault)
    <3>1. PICK t, sd, n : Sent(r, t, sd, n) /\ SeenAs(ReadRequest(wire), t, sd, n, r.content, fault)
      BY <2>2
    <3>2. n \in Nat
      BY <3>1 DEF Sent
    <3>3. ReadRequest(wire) # Err
      <4> DEFINE c == r.content
      <4>1. n \in Nat /\ SeenAs(ReadRequest(wire), t, sd, n, c, fault)
        BY <3>1, <3>2
      <4> HIDE DEF c
      <4>2. QED BY <4>1, SeenIsOne
    <3>4. QED BY <2>1, <3>3
  <2>3. CASE DecodeHeader(wire) = Err \/ Lacking(wire) # {}
    BY <2>3
  <2>4. QED BY <1>2, <2>2, <2>3, RequestSeen
<1>5. QED BY <1>3, <1>4

-----------------------------------------------------------------------------
(* The theorems.                                                           *)

(* The exchange of a PFCP message (build, send, decode, answer, decode)    *)
(* keeps its types, for every set of builder parameters: in particular     *)
(* every datagram is a sequence of fields, every sequence number a node    *)
(* reads fits the header's three octets (PfcpHeader::decode), and only a   *)
(* decoded request is answered.                                            *)
THEOREM CodecTypeOK == Spec => []TypeOK
BY CodecInductive, TypeOfCodec, PTL

(* A request that was not cut is understood: the header of a request read  *)
(* from it (PfcpHeader::decode) is the one the sender wrote but for the    *)
(* upper octet of the sequence number, and its rules are those the builder *)
(* was given, with every default that the parsers fill in; an IE of an     *)
(* unknown type does not disturb them (builder.rs, ie.rs).                 *)
THEOREM CodecRequestUnderstood == Spec => []RequestUnderstood
BY CodecInductive, UnderstoodOfCodec, PTL

(* A request cut at any octet and not refused is read as a beginning of    *)
(* what was sent: lists end early, a heartbeat may lack its time stamp and *)
(* nothing else is different, and a list of a later type is only there     *)
(* when those before it are whole (iter_ies stops at the first IE that is  *)
(* not whole).                                                             *)
THEOREM CodecCutRequestIsBeginning == Spec => []CutRequestIsBeginning
BY CodecInductive, BeginningOfCodec, PTL

(* Every answer that the receiver builds is understood by the requester:   *)
(* it passes validate_response when it comes whole and the request's       *)
(* sequence number fits the header's three octets, never when it does not  *)
(* fit, and extract_session_info takes the SEID and the tunnel that the    *)
(* UPF offered, or nothing.                                                *)
THEOREM CodecAnswerUnderstood == Spec => []AnswerUnderstood
BY CodecInductive, AnswerOfCodec, PTL

(* The two accounts of what a message must carry agree: a decoder refuses  *)
(* a request only when the dictionary's validate finds a mandatory IE      *)
(* missing or there is no header, and what validate finds missing in a     *)
(* request was cut from it (dict_ext.rs, messages.rs).                     *)
THEOREM CodecDictionaryAgrees == Spec => []DictionaryAgrees
BY CodecInductive, DictionaryOfCodec, PTL
=============================================================================
