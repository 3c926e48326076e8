----------------------------- MODULE Induction ------------------------------
(* Induction and recursion over natural numbers and sequences, in a form the *)
(* other proofs can cite: the predicate is a set, the step of a recursion a  *)
(* function.  The proofs rest on every non-empty set of naturals having a    *)
(* least element (WFMin).                                                    *)
EXTENDS Integers, Sequences, SequenceTheorems, WellFoundedInduction, TLAPS

NatLt == {e \in Nat \X Nat : e[1] < e[2]}

LEMMA NatLtWellFounded == IsWellFoundedOn(NatLt, Nat)
<1>1. NatLt = OpToRel(<, Nat)
  BY DEF NatLt, OpToRel
<1> QED BY <1>1, NatLessThanWellFounded

(* A set that holds 0 and the successor of each of its numbers holds all. *)
LEMMA SetInduction ==
    ASSUME NEW T, 0 \in T, \A n \in Nat : n \in T => n + 1 \in T
    PROVE  Nat \subseteq T
<1> SUFFICES ASSUME Nat \ T # {} PROVE FALSE
  OBVIOUS
<1> DEFINE U == Nat \ T
<1>1. PICK m \in U : \A y \in U : ~(<<y, m>> \in NatLt)
  <2>1. U \subseteq Nat /\ U # {}
    OBVIOUS
  <2> HIDE DEF U
  <2> QED BY <2>1, NatLtWellFounded, WFMin
<1>2. m \in Nat /\ m # 0 /\ m - 1 \in Nat /\ <<m - 1, m>> \in NatLt
  BY DEF NatLt
<1>3. m - 1 \in T
  BY <1>1, <1>2
<1>4. (m - 1) + 1 \in T
  BY <1>2, <1>3
<1> QED BY <1>2, <1>4

(* A set that holds the empty sequence and every extension of each of its
   sequences by one element holds all sequences. *)
LEMMA SeqInduction ==
    ASSUME NEW S, NEW T, <<>> \in T,
           \A s \in Seq(S), e \in S : s \in T => Append(s, e) \in T
    PROVE  Seq(S) \subseteq T
<1> DEFINE L == {n \in Nat : \A s \in Seq(S) : Len(s) = n => s \in T}
<1>1. 0 \in L
  BY EmptySeq
<1>2. ASSUME NEW n \in Nat, n \in L PROVE n + 1 \in L
  <2> SUFFICES ASSUME NEW s \in Seq(S), Len(s) = n + 1 PROVE s \in T
    OBVIOUS
  <2>1. s # <<>>
    OBVIOUS
  <2>2. PICK r \in Seq(S), e \in S : s = Append(r, e)
    BY <2>1, SequenceEmptyOrAppend
  <2>3. Len(r) = n
    BY <2>2, LenProperties
  <2> QED BY <1>2, <2>2, <2>3
<1> HIDE DEF L
<1>3. Nat \subseteq L
  BY <1>1, <1>2, SetInduction
<1>4. ASSUME NEW s \in Seq(S) PROVE s \in T
  <2>1. Len(s) \in L
    BY <1>3, LenProperties
  <2> QED BY <2>1 DEF L
<1> QED BY <1>4

(* g and h agree at 0, and at each further point up to N when they agree at the
   one before it. *)
Stepwise(g, h, N) ==
    /\ g[0] = h[0]
    /\ \A n \in 1..N : g[n - 1] = h[n - 1] => g[n] = h[n]

(* Functions that agree step by step agree where the steps lead. *)
LEMMA StepwiseEqual ==
    ASSUME NEW N \in Nat, NEW g, NEW h, Stepwise(g, h, N)
    PROVE  g[N] = h[N]
<1> DEFINE L == {n \in Nat : n <= N => g[n] = h[n]}
<1>1. 0 \in L
  BY DEF Stepwise
<1>2. ASSUME NEW n \in Nat, n \in L PROVE n + 1 \in L
  <2> SUFFICES ASSUME n + 1 <= N PROVE g[n + 1] = h[n + 1]
    OBVIOUS
  <2>1. n + 1 \in 1..N /\ (n + 1) - 1 = n /\ n <= N
    OBVIOUS
  <2> QED BY <1>2, <2>1 DEF Stepwise
<1> HIDE DEF L
<1>3. N \in L
  BY <1>1, <1>2, SetInduction
<1> QED BY <1>3 DEF L

(* F[1], ..., F[N] are steps within D, and g passes through the values they
   lead to, one after the other, from d. *)
Steps(F, D, N) == F \in [1..N -> [D -> D]]
Path(g, F, D, d, N) ==
    /\ g \in [0..N -> D]
    /\ g[0] = d
    /\ \A n \in 1..N : g[n] = F[n][g[n - 1]]

(* Steps taken from a value of D define such a path. *)
LEMMA Iteration ==
    ASSUME NEW D, NEW d \in D, NEW N \in Nat, NEW F, Steps(F, D, N)
    PROVE  \E g : Path(g, F, D, d, N)
<1> USE DEF Steps
<1> DEFINE Reaches(m) ==
      \E g \in [0..m -> D] : g[0] = d /\ \A n \in 1..m : g[n] = F[n][g[n - 1]]
<1> DEFINE L == {m \in Nat : m <= N => Reaches(m)}
<1>1. 0 \in L
  <2> DEFINE h == [n \in 0..0 |-> d]
  <2>1. h \in [0..0 -> D] /\ h[0] = d /\ \A n \in 1..0 : h[n] = F[n][h[n - 1]]
    OBVIOUS
  <2> HIDE DEF h
  <2>2. Reaches(0)
    BY <2>1
  <2> QED BY <2>2
<1>2. ASSUME NEW m \in Nat, m \in L PROVE m + 1 \in L
  <2> SUFFICES ASSUME m + 1 <= N PROVE Reaches(m + 1)
    OBVIOUS
  <2>1. PICK g \in [0..m -> D] : g[0] = d /\ \A n \in 1..m : g[n] = F[n][g[n - 1]]
    BY <1>2
  <2>2. F[m + 1][g[m]] \in D
    OBVIOUS
  <2> DEFINE h == [n \in 0..(m + 1) |-> IF n = m + 1 THEN F[m + 1][g[m]] ELSE g[n]]
  <2>3. h \in [0..(m + 1) -> D]
    BY <2>2
  <2>4. h[0] = d
    BY <2>1
  <2>5. \A n \in 1..(m + 1) : h[n] = F[n][h[n - 1]]
    <3> TAKE n \in 1..(m + 1)
    <3>1. CASE n = m + 1
      BY <3>1
    <3>2. CASE n # m + 1
      <4>1. n \in 1..m /\ n - 1 \in 0..m /\ n \in 0..(m + 1) /\ n - 1 \in 0..(m + 1)
        BY <3>2
      <4>2. h[n] = g[n] /\ h[n - 1] = g[n - 1]
        BY <3>2, <4>1
      <4> QED BY <2>1, <4>1, <4>2
    <3> QED BY <3>1, <3>2
  <2> HIDE DEF h
  <2> QED BY <2>3, <2>4, <2>5
<1> HIDE DEF L
<1>3. Nat \subseteq L
  BY <1>1, <1>2, SetInduction
<1>4. N \in L
  BY <1>3
<1> QED BY <1>4 DEF L, Path
=============================================================================
