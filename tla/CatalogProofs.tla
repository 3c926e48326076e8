---------------------------- MODULE CatalogProofs ---------------------------
(* Proofs about the catalog.                                                 *)
(*                                                                           *)
(* The log.  What a log replays to is computed entry by entry, so what it is *)
(* for every log is shown by induction over logs (Induction): it is typed;   *)
(* a log that is valid stays so when a valid operation is appended; it       *)
(* attaches no missing role; its audit ring is its end; and what it holds,   *)
(* its operations brought.  From that last fact: the snapshot of a replayed  *)
(* catalog is no longer than the log, valid, and replays to its content.     *)
(*                                                                           *)
(* The store.  Whatever processes share the file, crash and restart, every   *)
(* log on disk, in memory or in a temporary file is valid, and every live    *)
(* catalog is what its log replays to (CatalogInv).  When one process has    *)
(* the store open its log is the file as well (SoleWriterInv), and the store *)
(* implements DurableCatalog.                                                *)
(*                                                                           *)
(* The report, and the wallet: what effective_grants reports is what         *)
(* minting gives, and a wallet keeps what was stored.                        *)
EXTENDS CatalogStore, Wallet, FiniteSetTheorems, Induction

-----------------------------------------------------------------------------
(* Replaying a log *)

AuditLine == [version : Nat \ {0}, op : Recorded]
CatalogState == [content : Content, version : Nat, audit : Seq(AuditLine)]

(* The empty catalog, one operation and one fold stay within the types. *)
LEMMA EmptyIsTyped == Empty \in CatalogState /\ new \in Content
BY EmptySeq DEF Empty, new, CatalogState, Content

LEMMA ApplyTyped ==
    ASSUME NEW c \in Content, NEW o \in Recorded
    PROVE  apply(c, o) \in Content
<1> USE DEF Recorded, CatalogOp, Content
<1>1. CASE o.op = "put_role"
  BY <1>1, CatalogAssumption DEF apply
<1>2. CASE o.op = "remove_role"
  BY <1>2 DEF apply, Without
<1>3. CASE o.op = "put_policy"
  BY <1>3, CatalogAssumption DEF apply
<1>4. CASE o.op = "remove_policy"
  BY <1>4 DEF apply, Without
<1>5. CASE o.op = "attach_role"
  BY <1>5 DEF apply
<1>6. CASE o.op = "detach_role"
  BY <1>6 DEF apply
<1> QED BY <1>1, <1>2, <1>3, <1>4, <1>5, <1>6

LEMMA FoldTyped ==
    ASSUME NEW cat \in CatalogState, NEW o \in Recorded
    PROVE  fold(cat, o) \in CatalogState
<1> DEFINE v == cat.version + 1
           trail == Append(cat.audit, [version |-> v, op |-> o])
           overflow == Len(trail) - MaxAudit
<1>1. [version |-> v, op |-> o] \in AuditLine
  BY DEF AuditLine, CatalogState
<1>2. trail \in Seq(AuditLine)
  BY <1>1, AppendProperties DEF CatalogState
<1>3. SubSeq(trail, overflow + 1, Len(trail)) \in Seq(AuditLine) \/ ~(Len(trail) > MaxAudit)
  <2>1. Len(trail) \in Nat /\ MaxAudit \in Nat
    BY <1>2, LenProperties, CatalogStoreAssumption
  <2> HIDE DEF trail
  <2>2. SUFFICES ASSUME Len(trail) > MaxAudit PROVE SubSeq(trail, overflow + 1, Len(trail)) \in Seq(AuditLine)
    OBVIOUS
  <2>3. \A i \in (overflow + 1)..Len(trail) : trail[i] \in AuditLine
    BY <1>2, <2>1, <2>2, ElementOfSeq
  <2> QED BY <2>1, <2>3, SubSeqProperties
<1>4. apply(cat.content, o) \in Content /\ v \in Nat
  BY ApplyTyped DEF CatalogState
<1>5. fold(cat, o) = [content |-> apply(cat.content, o), version |-> v,
        audit |-> IF Len(trail) > MaxAudit THEN SubSeq(trail, overflow + 1, Len(trail)) ELSE trail]
  BY DEF fold
<1> HIDE DEF trail, overflow, v
<1> QED BY <1>2, <1>3, <1>4, <1>5 DEF CatalogState

(* g passes through the catalogs that the log s produces, step by step. *)
Follows(g, s) ==
    /\ g[0] = Empty
    /\ \A n \in 1..Len(s) : g[n] = fold(g[n - 1], s[n])

Passes(g, s) == g \in [0..Len(s) -> CatalogState] /\ Follows(g, s)

(* Logs with a common prefix produce the same catalogs up to its end. *)
LEMMA FollowsUnique ==
    ASSUME NEW s, NEW t, NEW N \in Nat, NEW g, NEW h,
           Len(s) \in Nat, Len(t) \in Nat, N <= Len(s), N <= Len(t),
           \A n \in 1..N : s[n] = t[n], Follows(g, s), Follows(h, t)
    PROVE  g[N] = h[N]
<1>1. \A n \in 1..N : n \in 1..Len(s) /\ n \in 1..Len(t)
  OBVIOUS
<1>2. Stepwise(g, h, N)
  BY <1>1 DEF Follows, Stepwise
<1> QED BY <1>2, StepwiseEqual

(* replay(s) is where the catalogs that s produces end. *)
LEMMA ReplayPasses ==
    ASSUME NEW s \in Seq(Recorded)
    PROVE  \E g : Passes(g, s) /\ replay(s) = g[Len(s)]
<1> DEFINE N == Len(s)
           step == [n \in 1..N |-> [cat \in CatalogState |-> fold(cat, s[n])]]
           Unroll(g) == [n \in 0..N |-> IF n = 0 THEN Empty ELSE fold(g[n - 1], s[n])]
           upto == CHOOSE g : g = Unroll(g)
<1>1. N \in Nat /\ \A n \in 1..N : s[n] \in Recorded
  BY LenProperties, ElementOfSeq
<1>2. step \in [1..N -> [CatalogState -> CatalogState]]
  BY <1>1, FoldTyped
<1>3. PICK h \in [0..N -> CatalogState] : h[0] = Empty /\ \A n \in 1..N : h[n] = step[n][h[n - 1]]
  <2>1. N \in Nat /\ Empty \in CatalogState /\ Steps(step, CatalogState, N)
    BY <1>1, <1>2, EmptyIsTyped DEF Steps
  <2> HIDE DEF step, N, CatalogState, Empty
  <2>2. \E h : Path(h, step, CatalogState, Empty, N)
    BY <2>1, Iteration
  <2> QED BY <2>2 DEF Path
<1>4. \A n \in 1..N : h[n] = fold(h[n - 1], s[n])
  <2> TAKE n \in 1..N
  <2>1. n - 1 \in 0..N /\ h[n - 1] \in CatalogState
    BY <1>1, <1>3
  <2>2. step[n][h[n - 1]] = fold(h[n - 1], s[n])
    BY <2>1
  <2> QED BY <1>3, <2>2
<1>5. h = Unroll(h)
  BY <1>1, <1>3, <1>4
<1>6. upto = Unroll(upto)
  <2> HIDE DEF Unroll
  <2> QED BY <1>5
<1>7. replay(s) = upto[N]
  BY DEF replay
<1>8. Follows(upto, s)
  <2>1. ASSUME NEW n \in 1..N PROVE Unroll(upto)[n] = fold(upto[n - 1], s[n])
    BY <1>1
  <2>2. Unroll(upto)[0] = Empty
    BY <1>1
  <2> HIDE DEF upto, Unroll
  <2> QED BY <1>6, <2>1, <2>2 DEF Follows
<1>9. Follows(h, s) /\ Passes(h, s)
  BY <1>3, <1>4 DEF Follows, Passes
<1>10. upto[N] = h[N]
  <2> HIDE DEF upto
  <2> QED BY <1>1, <1>8, <1>9, FollowsUnique
<1> HIDE DEF upto, step, Unroll
<1> QED BY <1>7, <1>9, <1>10

(* Every log of named operations replays to a typed catalog. *)
LEMMA ReplayTyped ==
    ASSUME NEW s \in Seq(Recorded)
    PROVE  replay(s) \in CatalogState
<1>1. Len(s) \in 0..Len(s)
  BY LenProperties
<1> QED BY <1>1, ReplayPasses DEF Passes

(* The empty log is the empty catalog ... *)
LEMMA ReplayEmpty == replay(<<>>) = Empty
<1>1. <<>> \in Seq(Recorded) /\ Len(<<>>) = 0
  BY EmptySeq
<1> QED BY <1>1, ReplayPasses DEF Passes, Follows

(* ... and an operation appended to a log is folded into its catalog. *)
LEMMA ReplayAppend ==
    ASSUME NEW s \in Seq(Recorded), NEW o \in Recorded
    PROVE  replay(Append(s, o)) = fold(replay(s), o)
<1> DEFINE t == Append(s, o)
           N == Len(s)
<1>1. /\ t \in Seq(Recorded) /\ N \in Nat /\ Len(t) = N + 1
      /\ \A n \in 1..N : s[n] = t[n]
      /\ t[N + 1] = o
  BY AppendProperties, LenProperties
<1>2. PICK g : Follows(g, s) /\ replay(s) = g[N]
  BY ReplayPasses DEF Passes
<1> HIDE DEF t
<1>3. PICK h : Follows(h, t) /\ replay(t) = h[N + 1]
  BY <1>1, ReplayPasses DEF Passes
<1>4. g[N] = h[N]
  BY <1>1, <1>2, <1>3, FollowsUnique
<1>5. h[N + 1] = fold(h[N], o)
  BY <1>1, <1>3 DEF Follows
<1> QED BY <1>2, <1>3, <1>4, <1>5 DEF t
-----------------------------------------------------------------------------
(* Valid logs *)

(* Every operation of the log s is valid where it stands. *)
ValidLog(s) ==
    \A i \in 1..Len(s) : validate(replay(SubSeq(s, 1, i - 1)).content, s[i])

(* Every attached role exists in c. *)
Attached(c) == \A a \in c.attachments : c.roles[a[2]] # None

(* The audit ring of cat holds the end of the log s. *)
Recent(cat, s) ==
    LET ring == cat.audit
        drop == Len(s) - Len(ring)
    IN /\ Len(ring) = IF Len(s) > MaxAudit THEN MaxAudit ELSE Len(s)
       /\ \A i \in 1..Len(ring) : ring[i] = [version |-> drop + i, op |-> s[drop + i]]

(* The prefixes of a log and of the log with one more operation. *)
LEMMA PrefixOfAppend ==
    ASSUME NEW S, NEW s \in Seq(S), NEW o \in S
    PROVE  /\ SubSeq(Append(s, o), 1, Len(s)) = s
           /\ \A i \in 1..Len(s) : SubSeq(Append(s, o), 1, i - 1) = SubSeq(s, 1, i - 1)
<1> DEFINE t == Append(s, o)
<1>1. /\ t \in Seq(S) /\ Len(s) \in Nat /\ Len(t) = Len(s) + 1
      /\ \A n \in 1..Len(s) : t[n] = s[n]
  BY AppendProperties, LenProperties
<1>2. \A n \in 1..Len(s) : s[n] \in S
  BY ElementOfSeq
<1> HIDE DEF t
<1>3. ASSUME NEW k \in 0..Len(s) PROVE SubSeq(t, 1, k) = SubSeq(s, 1, k)
  <2>1. \A i \in 1..k : i \in 1..Len(s) /\ s[i] \in S /\ t[i] \in S
    BY <1>1, <1>2
  <2>2. /\ SubSeq(s, 1, k) \in Seq(S) /\ SubSeq(t, 1, k) \in Seq(S)
        /\ Len(SubSeq(s, 1, k)) = k /\ Len(SubSeq(t, 1, k)) = k
        /\ \A i \in 1..k : SubSeq(s, 1, k)[i] = s[i] /\ SubSeq(t, 1, k)[i] = t[i]
    BY <1>1, <2>1, SubSeqProperties
  <2> QED BY <1>1, <2>1, <2>2, SeqEqual
<1>4. SubSeq(s, 1, Len(s)) = s
  BY SubSeqFull
<1>5. \A i \in 1..Len(s) : i - 1 \in 0..Len(s)
  BY <1>1
<1>6. Len(s) \in 0..Len(s)
  BY <1>1
<1> QED BY <1>3, <1>4, <1>5, <1>6 DEF t

(* The content and the version of a fold, apart from its audit ring. *)
LEMMA FoldFields ==
    ASSUME NEW cat, NEW o
    PROVE  fold(cat, o).content = apply(cat.content, o) /\ fold(cat, o).version = cat.version + 1
BY DEF fold

LEMMA ValidLogEmpty == ValidLog(<<>>)
BY EmptySeq DEF ValidLog

(* A log stays valid when an operation that is valid in its catalog is
   appended; and only then. *)
LEMMA ValidLogAppend ==
    ASSUME NEW s \in Seq(Recorded), NEW o \in Recorded
    PROVE  ValidLog(Append(s, o)) <=> ValidLog(s) /\ validate(replay(s).content, o)
<1> DEFINE t == Append(s, o)
<1>1. /\ Len(s) \in Nat /\ Len(t) = Len(s) + 1
      /\ \A n \in 1..Len(s) : t[n] = s[n]
      /\ t[Len(s) + 1] = o
  BY AppendProperties, LenProperties
<1>2. /\ SubSeq(t, 1, (Len(s) + 1) - 1) = s
      /\ \A i \in 1..Len(s) : SubSeq(t, 1, i - 1) = SubSeq(s, 1, i - 1)
  <2>1. (Len(s) + 1) - 1 = Len(s)
    BY <1>1
  <2> QED BY <2>1, PrefixOfAppend
<1> HIDE DEF t
<1>3. 1..Len(t) = 1..Len(s) \cup {Len(s) + 1}
  BY <1>1
<1>4. ValidLog(t) <=> /\ \A i \in 1..Len(s) : validate(replay(SubSeq(t, 1, i - 1)).content, t[i])
                      /\ validate(replay(SubSeq(t, 1, (Len(s) + 1) - 1)).content, t[Len(s) + 1])
  BY <1>3 DEF ValidLog
<1>5. ValidLog(t) <=> ValidLog(s) /\ validate(replay(s).content, o)
  BY <1>1, <1>2, <1>4 DEF ValidLog
<1> QED BY <1>5 DEF t

(* A valid operation attaches no role that is missing, and removing a role
   detaches it. *)
LEMMA ApplyAttached ==
    ASSUME NEW c \in Content, NEW o \in Recorded, validate(c, o), Attached(c)
    PROVE  Attached(apply(c, o))
<1> USE DEF Recorded, CatalogOp, Content, Attached
<1>1. CASE o.op = "put_role"
  BY <1>1, CatalogAssumption DEF apply
<1>2. CASE o.op = "remove_role"
  BY <1>2 DEF apply, Without
<1>3. CASE o.op \in {"put_policy", "remove_policy"}
  BY <1>3 DEF apply
<1>4. CASE o.op = "attach_role"
  BY <1>4 DEF apply, validate, get_role
<1>5. CASE o.op = "detach_role"
  BY <1>5 DEF apply
<1> QED BY <1>1, <1>2, <1>3, <1>4, <1>5

(* The catalog of a valid log attaches no missing role. *)
LEMMA ValidLogAttached ==
    ASSUME NEW s \in Seq(Recorded), ValidLog(s)
    PROVE  Attached(replay(s).content)
<1> DEFINE T == {r \in Seq(Recorded) : ValidLog(r) => Attached(replay(r).content)}
<1>1. <<>> \in T
  BY ReplayEmpty, EmptySeq DEF Empty, new, Attached
<1>2. ASSUME NEW r \in Seq(Recorded), NEW o \in Recorded, r \in T
      PROVE  Append(r, o) \in T
  <2> SUFFICES ASSUME ValidLog(Append(r, o)) PROVE Attached(replay(Append(r, o)).content)
    BY AppendProperties
  <2>1. ValidLog(r) /\ validate(replay(r).content, o)
    BY ValidLogAppend
  <2>2. replay(r).content \in Content
    BY ReplayTyped DEF CatalogState
  <2>3. Attached(apply(replay(r).content, o))
    BY <1>2, <2>1, <2>2, ApplyAttached
  <2>4. replay(Append(r, o)).content = apply(replay(r).content, o)
    BY ReplayAppend, FoldFields
  <2> QED BY <2>3, <2>4
<1> HIDE DEF T
<1>3. s \in T
  BY <1>1, <1>2, SeqInduction
<1> QED BY <1>3 DEF T

(* The version counts the operations of the log. *)
LEMMA ReplayVersion ==
    ASSUME NEW s \in Seq(Recorded)
    PROVE  replay(s).version = Len(s)
<1> DEFINE T == {r \in Seq(Recorded) : replay(r).version = Len(r)}
<1>1. <<>> \in T
  BY ReplayEmpty, EmptySeq DEF Empty
<1>2. ASSUME NEW r \in Seq(Recorded), NEW o \in Recorded, r \in T
      PROVE  Append(r, o) \in T
  <2>1. replay(Append(r, o)).version = replay(r).version + 1
    BY ReplayAppend, FoldFields
  <2> QED BY <1>2, <2>1, AppendProperties
<1> HIDE DEF T
<1>3. s \in T
  BY <1>1, <1>2, SeqInduction
<1> QED BY <1>3 DEF T

(* One more operation: its line enters the ring, and the oldest leaves a full
   one. *)
LEMMA FoldRecent ==
    ASSUME NEW s \in Seq(Recorded), NEW o \in Recorded, NEW cat \in CatalogState,
           cat.version = Len(s), Recent(cat, s)
    PROVE  Recent(fold(cat, o), Append(s, o))
<1> DEFINE t == Append(s, o)
           N == Len(s)
           line == [version |-> N + 1, op |-> o]
           ring == cat.audit
           R == Len(ring)
           trail == Append(ring, line)
           overflow == Len(trail) - MaxAudit
           ring2 == fold(cat, o).audit
<1>1. /\ N \in Nat /\ Len(t) = N + 1 /\ t[N + 1] = o
      /\ \A n \in 1..N : t[n] = s[n]
  BY AppendProperties, LenProperties
<1>2. line \in AuditLine /\ ring \in Seq(AuditLine)
  BY <1>1 DEF AuditLine, CatalogState
<1>3. /\ R \in Nat /\ Len(trail) = R + 1 /\ trail[R + 1] = line
      /\ \A i \in 1..R : trail[i] = ring[i]
      /\ trail \in Seq(AuditLine)
  BY <1>2, AppendProperties, LenProperties
<1>4. /\ R = IF N > MaxAudit THEN MaxAudit ELSE N
      /\ \A i \in 1..R : ring[i] = [version |-> (N - R) + i, op |-> s[(N - R) + i]]
  BY DEF Recent
<1>5. MaxAudit \in Nat \ {0}
  BY CatalogStoreAssumption
<1>6. ring2 = IF R + 1 > MaxAudit THEN SubSeq(trail, overflow + 1, R + 1) ELSE trail
  BY <1>3 DEF fold
<1> HIDE DEF t, N, line, trail, ring2, R, ring
<1>7. \A i \in 1..(R + 1) :
        trail[i] = [version |-> (N - R) + i, op |-> t[(N - R) + i]]
  <2> TAKE i \in 1..(R + 1)
  <2>1. CASE i = R + 1
    <3>1. (N - R) + i = N + 1
      BY <1>1, <1>3, <2>1
    <3> QED BY <1>1, <1>3, <2>1, <3>1 DEF line
  <2>2. CASE i # R + 1
    <3>1. i \in 1..R /\ (N - R) + i \in 1..N
      BY <1>1, <1>3, <1>4, <1>5, <2>2
    <3> QED BY <1>1, <1>3, <1>4, <3>1
  <2> QED BY <2>1, <2>2
<1>8. CASE R + 1 > MaxAudit
  <2>1. R = MaxAudit /\ overflow = 1 /\ N >= MaxAudit
    BY <1>1, <1>3, <1>4, <1>5, <1>8
  <2>2. ring2 = SubSeq(trail, 2, R + 1)
    <3>1. overflow + 1 = 2
      BY <2>1
    <3> HIDE DEF overflow
    <3> QED BY <1>6, <1>8, <3>1
  <2>3. \A i \in 2..(R + 1) : trail[i] \in AuditLine
    BY <1>3, ElementOfSeq
  <2>4. /\ Len(ring2) = R
        /\ \A i \in 1..R : ring2[i] = trail[i + 1]
    <3>1. 2 \in Int /\ R + 1 \in Int /\ 2 <= R + 1 /\ (R + 1) - 2 + 1 = R
      BY <1>3, <1>5, <2>1
    <3>2. /\ Len(SubSeq(trail, 2, R + 1)) = (R + 1) - 2 + 1
          /\ \A i \in 1..((R + 1) - 2 + 1) : SubSeq(trail, 2, R + 1)[i] = trail[2 + i - 1]
      BY <2>3, <3>1, SubSeqProperties
    <3>3. \A i \in 1..R : 2 + i - 1 = i + 1
      BY <1>3
    <3> QED BY <2>2, <3>1, <3>2, <3>3
  <2>5. \A i \in 1..R : ring2[i] = [version |-> ((N + 1) - R) + i, op |-> t[((N + 1) - R) + i]]
    <3> TAKE i \in 1..R
    <3>1. i + 1 \in 1..(R + 1) /\ (N - R) + (i + 1) = ((N + 1) - R) + i
      BY <1>1, <1>3
    <3> QED BY <1>7, <2>4, <3>1
  <2>6. N + 1 > MaxAudit
    BY <1>1, <1>5, <2>1
  <2>7. Recent(fold(cat, o), t)
    BY <1>1, <2>1, <2>4, <2>5, <2>6 DEF Recent, ring2
  <2> QED BY <2>7 DEF t
<1>9. CASE ~(R + 1 > MaxAudit)
  <2>1. R = N /\ ring2 = trail /\ ~(N + 1 > MaxAudit)
    BY <1>1, <1>3, <1>4, <1>5, <1>6, <1>9
  <2>2. \A i \in 1..(R + 1) : (N - R) + i = ((N + 1) - (R + 1)) + i
    BY <1>1, <1>3
  <2>3. Recent(fold(cat, o), t)
    BY <1>1, <1>3, <1>7, <2>1, <2>2 DEF Recent, ring2
  <2> QED BY <2>3 DEF t
<1> QED BY <1>8, <1>9

(* The audit ring of a replayed catalog is the end of its log. *)
LEMMA ReplayRecent ==
    ASSUME NEW s \in Seq(Recorded)
    PROVE  Recent(replay(s), s)
<1> DEFINE T == {r \in Seq(Recorded) : Recent(replay(r), r)}
<1>1. <<>> \in T
  <2>1. /\ Len(<<>>) = 0 /\ <<>> \in Seq(Recorded) /\ replay(<<>>).audit = <<>>
        /\ ~(0 > MaxAudit)
    BY ReplayEmpty, EmptySeq, CatalogStoreAssumption DEF Empty
  <2> QED BY <2>1 DEF Recent
<1>2. ASSUME NEW r \in Seq(Recorded), NEW o \in Recorded, r \in T
      PROVE  Append(r, o) \in T
  <2>1. replay(r) \in CatalogState /\ replay(r).version = Len(r)
    BY ReplayTyped, ReplayVersion
  <2>2. Recent(fold(replay(r), o), Append(r, o))
    BY <1>2, <2>1, FoldRecent
  <2> QED BY <2>2, ReplayAppend, AppendProperties
<1> HIDE DEF T
<1>3. s \in T
  BY <1>1, <1>2, SeqInduction
<1> QED BY <1>3 DEF T
-----------------------------------------------------------------------------
(* Snapshots *)

(* A finite set as a sequence: its elements, each once. *)
LEMMA SetAsSeq ==
    ASSUME NEW S, IsFiniteSet(S)
    PROVE  /\ SetToSeq(S) \in Seq(S)
           /\ Len(SetToSeq(S)) = Cardinality(S)
           /\ \A e \in S : \E i \in 1..Len(SetToSeq(S)) : SetToSeq(S)[i] = e
<1> DEFINE n == Cardinality(S)
           q == SetToSeq(S)
<1>1. n \in Nat /\ ExistsBijection(1..n, S)
  BY FS_CardinalityType
<1>2. PICK f : f \in [1..n -> S] /\ IsInjective(f)
  BY <1>1 DEF ExistsBijection, Bijection, Injection
<1>3. q \in [1..n -> S] /\ IsInjective(q)
  BY <1>2 DEF SetToSeq
<1> HIDE DEF q
<1>4. q \in Injection(1..n, S) /\ IsFiniteSet(1..n) /\ Cardinality(1..n) = n
  BY <1>1, <1>3, FS_Interval DEF Injection
<1>5. q \in Surjection(1..n, S)
  BY <1>4, FS_Injection
<1>6. \A e \in S : \E i \in 1..n : q[i] = e
  BY <1>5 DEF Surjection
<1>7. q \in Seq(S) /\ Len(q) = n
  BY <1>1, <1>3
<1> QED BY <1>6, <1>7 DEF q

(* The operations that bring back what the content c holds. *)
Attachments(c) == {[op |-> "attach_role", name |-> a[2], principal |-> a[1]] : a \in c.attachments}
Additions(c) == Puts("put_role", c.roles) \cup Puts("put_policy", c.policies) \cup Attachments(c)

Elements(s) == {s[i] : i \in 1..Len(s)}

(* One more operation is one more element. *)
LEMMA ElementsAppend ==
    ASSUME NEW S, NEW s \in Seq(S), NEW o \in S
    PROVE  Elements(Append(s, o)) = Elements(s) \cup {o}
<1>1. /\ Len(s) \in Nat /\ Len(Append(s, o)) = Len(s) + 1
      /\ \A i \in 1..Len(s) : Append(s, o)[i] = s[i]
      /\ Append(s, o)[Len(s) + 1] = o
  BY AppendProperties, LenProperties
<1>2. 1..(Len(s) + 1) = 1..Len(s) \cup {Len(s) + 1}
  BY <1>1
<1> QED BY <1>1, <1>2 DEF Elements

(* What such an operation is, and that each part of c has one. *)
LEMMA AdditionKinds ==
    ASSUME NEW c \in Content, NEW o \in Additions(c)
    PROVE  /\ o \in Recorded
           /\ \/ /\ o.op = "put_role" /\ o.name \in RoleNames
                 /\ o.doc = c.roles[o.name] /\ o.doc # None
              \/ /\ o.op = "put_policy" /\ o.name \in PolicyNames
                 /\ o.doc = c.policies[o.name] /\ o.doc # None
              \/ /\ o.op = "attach_role" /\ o.name \in RoleNames
                 /\ <<o.principal, o.name>> \in c.attachments
<1>1. CASE o \in Puts("put_role", c.roles)
  <2>1. PICK r \in RoleNames : /\ c.roles[r] # None
                               /\ o = [op |-> "put_role", name |-> r, doc |-> c.roles[r]]
    BY <1>1 DEF Puts, Content
  <2>2. c.roles[r] \in Docs
    BY <2>1 DEF Content
  <2> QED BY <2>1, <2>2, CatalogAssumption DEF Recorded, CatalogOp
<1>2. CASE o \in Puts("put_policy", c.policies)
  <2>1. PICK q \in PolicyNames : /\ c.policies[q] # None
                                 /\ o = [op |-> "put_policy", name |-> q, doc |-> c.policies[q]]
    BY <1>2 DEF Puts, Content
  <2>2. c.policies[q] \in Docs
    BY <2>1 DEF Content
  <2> QED BY <2>1, <2>2, CatalogAssumption DEF Recorded, CatalogOp
<1>3. CASE o \in Attachments(c)
  <2>1. PICK a \in c.attachments : o = [op |-> "attach_role", name |-> a[2], principal |-> a[1]]
    BY <1>3 DEF Attachments
  <2>2. a \in Principals \X RoleNames /\ a = <<a[1], a[2]>>
    BY <2>1 DEF Content
  <2> QED BY <2>1, <2>2, CatalogAssumption DEF Recorded, CatalogOp
<1> QED BY <1>1, <1>2, <1>3 DEF Additions

LEMMA AdditionOf ==
    ASSUME NEW c \in Content
    PROVE  /\ \A r \in RoleNames : c.roles[r] # None =>
                 [op |-> "put_role", name |-> r, doc |-> c.roles[r]] \in Puts("put_role", c.roles)
           /\ \A q \in PolicyNames : c.policies[q] # None =>
                 [op |-> "put_policy", name |-> q, doc |-> c.policies[q]]
                     \in Puts("put_policy", c.policies)
           /\ \A a \in c.attachments :
                 [op |-> "attach_role", name |-> a[2], principal |-> a[1]] \in Attachments(c)
BY DEF Puts, Content, Attachments

(* What each kind of operation of X brings back. *)
RolesBack(c, X) == [r \in RoleNames |->
    IF \E o \in X : o.op = "put_role" /\ o.name = r THEN c.roles[r] ELSE None]
PoliciesBack(c, X) == [q \in PolicyNames |->
    IF \E o \in X : o.op = "put_policy" /\ o.name = q THEN c.policies[q] ELSE None]
AttachmentsBack(c, X) == {a \in c.attachments :
    \E o \in X : o.op = "attach_role" /\ o.name = a[2] /\ o.principal = a[1]}

(* The part of c that the operations X bring back. *)
Restored(c, X) ==
    [roles |-> RolesBack(c, X), policies |-> PoliciesBack(c, X),
     attachments |-> AttachmentsBack(c, X)]

(* One more of these operations brings back what it stands for. *)
LEMMA RestoreOne ==
    ASSUME NEW c \in Content, NEW X \in SUBSET Additions(c), NEW o \in Additions(c)
    PROVE  apply(Restored(c, X), o) = Restored(c, X \cup {o})
<1> DEFINE Y == X \cup {o}
           R == Restored(c, X)
<1>1. CASE o.op = "put_role"
  <2>1. o.name \in RoleNames /\ o.doc = c.roles[o.name]
    BY <1>1, AdditionKinds
  <2>2. apply(R, o) = [R EXCEPT !.roles[o.name] = o.doc]
    BY <1>1 DEF apply
  <2>3. [RolesBack(c, X) EXCEPT ![o.name] = o.doc] = RolesBack(c, Y)
    BY <1>1, <2>1 DEF RolesBack
  <2>4. PoliciesBack(c, Y) = PoliciesBack(c, X) /\ AttachmentsBack(c, Y) = AttachmentsBack(c, X)
    BY <1>1 DEF PoliciesBack, AttachmentsBack
  <2> QED BY <2>2, <2>3, <2>4 DEF Restored
<1>2. CASE o.op = "put_policy"
  <2>1. o.name \in PolicyNames /\ o.doc = c.policies[o.name]
    BY <1>2, AdditionKinds
  <2>2. apply(R, o) = [R EXCEPT !.policies[o.name] = o.doc]
    BY <1>2 DEF apply
  <2>3. [PoliciesBack(c, X) EXCEPT ![o.name] = o.doc] = PoliciesBack(c, Y)
    BY <1>2, <2>1 DEF PoliciesBack
  <2>4. RolesBack(c, Y) = RolesBack(c, X) /\ AttachmentsBack(c, Y) = AttachmentsBack(c, X)
    BY <1>2 DEF RolesBack, AttachmentsBack
  <2> QED BY <2>2, <2>3, <2>4 DEF Restored
<1>3. CASE o.op = "attach_role"
  <2>1. <<o.principal, o.name>> \in c.attachments
    BY <1>3, AdditionKinds
  <2>2. apply(R, o) = [R EXCEPT !.attachments = @ \cup {<<o.principal, o.name>>}]
    BY <1>3 DEF apply
  <2>3. \A a \in c.attachments :
           (o.name = a[2] /\ o.principal = a[1]) <=> a = <<o.principal, o.name>>
    BY DEF Content
  <2>4. AttachmentsBack(c, X) \cup {<<o.principal, o.name>>} = AttachmentsBack(c, Y)
    BY <1>3, <2>1, <2>3 DEF AttachmentsBack
  <2>5. RolesBack(c, Y) = RolesBack(c, X) /\ PoliciesBack(c, Y) = PoliciesBack(c, X)
    BY <1>3 DEF RolesBack, PoliciesBack
  <2> QED BY <2>2, <2>4, <2>5 DEF Restored
<1> QED BY <1>1, <1>2, <1>3, AdditionKinds

(* A log of such operations, in any order, brings back just that part. *)
LEMMA ReplayRestores ==
    ASSUME NEW c \in Content, NEW s \in Seq(Additions(c))
    PROVE  replay(s).content = Restored(c, Elements(s))
<1> DEFINE S == Additions(c)
           T == {t \in Seq(S) : replay(t).content = Restored(c, Elements(t))}
<1>1. <<>> \in T
  <2>1. Elements(<<>>) = {} /\ <<>> \in Seq(S)
    BY EmptySeq DEF Elements
  <2>2. Restored(c, {}) = new
    BY DEF Restored, RolesBack, PoliciesBack, AttachmentsBack, new
  <2>3. replay(<<>>).content = new
    BY ReplayEmpty DEF Empty
  <2> QED BY <2>1, <2>2, <2>3
<1>2. ASSUME NEW t \in Seq(S), NEW o \in S, t \in T
      PROVE  Append(t, o) \in T
  <2>1. t \in Seq(Recorded) /\ o \in Recorded
    BY AdditionKinds, SeqMonotonic DEF S
  <2>2. Elements(t) \in SUBSET S
    BY ElementOfSeq DEF Elements
  <2>3. Elements(Append(t, o)) = Elements(t) \cup {o}
    BY ElementsAppend
  <2>4. replay(Append(t, o)).content = apply(replay(t).content, o)
    BY <2>1, ReplayAppend, FoldFields
  <2>5. apply(Restored(c, Elements(t)), o) = Restored(c, Elements(t) \cup {o})
    BY <2>2, RestoreOne
  <2> QED BY <1>2, <2>3, <2>4, <2>5, AppendProperties
<1> HIDE DEF T
<1>3. s \in T
  BY <1>1, <1>2, SeqInduction
<1> QED BY <1>3 DEF T

(* All of them bring back all of c. *)
LEMMA RestoredAll ==
    ASSUME NEW c \in Content
    PROVE  Restored(c, Additions(c)) = c
<1> DEFINE X == Additions(c)
<1>1. /\ \A o \in Puts("put_role", c.roles) \cup Puts("put_policy", c.policies) \cup Attachments(c) : o \in X
      /\ c = [roles |-> c.roles, policies |-> c.policies, attachments |-> c.attachments]
      /\ c.roles = [r \in RoleNames |-> c.roles[r]]
      /\ c.policies = [q \in PolicyNames |-> c.policies[q]]
  BY DEF Additions, Content
<1> HIDE DEF X
<1>2. RolesBack(c, X) = c.roles
  <2>1. ASSUME NEW r \in RoleNames, c.roles[r] # None
        PROVE  \E o \in X : o.op = "put_role" /\ o.name = r
    <3>1. [op |-> "put_role", name |-> r, doc |-> c.roles[r]] \in X
      BY <1>1, <2>1, AdditionOf
    <3> QED BY <3>1
  <2> QED BY <1>1, <2>1 DEF RolesBack
<1>3. PoliciesBack(c, X) = c.policies
  <2>1. ASSUME NEW q \in PolicyNames, c.policies[q] # None
        PROVE  \E o \in X : o.op = "put_policy" /\ o.name = q
    <3>1. [op |-> "put_policy", name |-> q, doc |-> c.policies[q]] \in X
      BY <1>1, <2>1, AdditionOf
    <3> QED BY <3>1
  <2> QED BY <1>1, <2>1 DEF PoliciesBack
<1>4. AttachmentsBack(c, X) = c.attachments
  <2>1. ASSUME NEW a \in c.attachments
        PROVE  \E o \in X : o.op = "attach_role" /\ o.name = a[2] /\ o.principal = a[1]
    <3>1. [op |-> "attach_role", name |-> a[2], principal |-> a[1]] \in X
      BY <1>1, AdditionOf
    <3> QED BY <3>1
  <2> QED BY <2>1 DEF AttachmentsBack
<1> QED BY <1>1, <1>2, <1>3, <1>4 DEF Restored, X

(* The three parts of a snapshot one after the other: where each element is. *)
LEMMA ThreeParts ==
    ASSUME NEW S, NEW u \in Seq(S), NEW v \in Seq(S), NEW w \in Seq(S)
    PROVE  LET s == u \o v \o w
           IN /\ s \in Seq(S) /\ Len(s) = Len(u) + Len(v) + Len(w)
              /\ \A i \in 1..Len(s) :
                    s[i] = IF i <= Len(u) THEN u[i]
                           ELSE IF i <= Len(u) + Len(v) THEN v[i - Len(u)]
                           ELSE w[i - (Len(u) + Len(v))]
<1>1. /\ u \o v \in Seq(S) /\ Len(u \o v) = Len(u) + Len(v)
      /\ \A i \in 1..(Len(u) + Len(v)) : (u \o v)[i] = IF i <= Len(u) THEN u[i] ELSE v[i - Len(u)]
  BY ConcatProperties
<1> DEFINE x == u \o v
<1>2. x \in Seq(S)
  BY <1>1
<1> HIDE DEF x
<1>3. /\ x \o w \in Seq(S) /\ Len(x \o w) = Len(x) + Len(w)
      /\ \A i \in 1..(Len(x) + Len(w)) : (x \o w)[i] = IF i <= Len(x) THEN x[i] ELSE w[i - Len(x)]
  BY <1>2, ConcatProperties
<1>4. Len(u) \in Nat /\ Len(v) \in Nat /\ Len(w) \in Nat
  BY LenProperties
<1>5. /\ Len(x) = Len(u) + Len(v)
      /\ \A i \in 1..(Len(u) + Len(v)) : x[i] = IF i <= Len(u) THEN u[i] ELSE v[i - Len(u)]
  BY <1>1 DEF x
<1>6. ASSUME NEW i \in 1..(Len(u) + Len(v) + Len(w))
      PROVE  (x \o w)[i] = IF i <= Len(u) THEN u[i]
                           ELSE IF i <= Len(u) + Len(v) THEN v[i - Len(u)]
                           ELSE w[i - (Len(u) + Len(v))]
  <2>1. CASE i <= Len(u) + Len(v)
    <3>1. i \in 1..(Len(u) + Len(v))
      BY <1>4, <2>1
    <3> QED BY <1>3, <1>4, <1>5, <2>1, <3>1
  <2>2. CASE ~(i <= Len(u) + Len(v))
    BY <1>3, <1>4, <1>5, <2>2
  <2> QED BY <2>1, <2>2
<1> QED BY <1>3, <1>4, <1>5, <1>6 DEF x

(* What the catalog of a log holds, an operation of the log brought. *)
LEMMA ApplyAdds ==
    ASSUME NEW c \in Content, NEW o \in Recorded
    PROVE  Additions(apply(c, o)) \subseteq Additions(c) \cup {o}
<1> DEFINE d == apply(c, o)
<1> USE DEF Recorded, CatalogOp
<1>1. d \in Content
  BY ApplyTyped
<1>2. ASSUME NEW r \in RoleNames, d.roles[r] # None
      PROVE  [op |-> "put_role", name |-> r, doc |-> d.roles[r]] \in Additions(c) \cup {o}
  <2>1. CASE d.roles[r] = c.roles[r]
    BY <1>2, <2>1, AdditionOf DEF Additions
  <2>2. CASE d.roles[r] # c.roles[r]
    <3>1. o.op = "put_role" /\ o.name = r /\ d.roles[r] = o.doc
      BY <1>2, <2>2 DEF apply, Without, Content
    <3>2. o = [op |-> "put_role", name |-> r, doc |-> d.roles[r]]
      BY <3>1
    <3> QED BY <3>2
  <2> QED BY <2>1, <2>2
<1>3. ASSUME NEW q \in PolicyNames, d.policies[q] # None
      PROVE  [op |-> "put_policy", name |-> q, doc |-> d.policies[q]] \in Additions(c) \cup {o}
  <2>1. CASE d.policies[q] = c.policies[q]
    BY <1>3, <2>1, AdditionOf DEF Additions
  <2>2. CASE d.policies[q] # c.policies[q]
    <3>1. o.op = "put_policy" /\ o.name = q /\ d.policies[q] = o.doc
      BY <1>3, <2>2 DEF apply, Without, Content
    <3>2. o = [op |-> "put_policy", name |-> q, doc |-> d.policies[q]]
      BY <3>1
    <3> QED BY <3>2
  <2> QED BY <2>1, <2>2
<1>4. ASSUME NEW a \in d.attachments
      PROVE  [op |-> "attach_role", name |-> a[2], principal |-> a[1]] \in Additions(c) \cup {o}
  <2>1. CASE a \in c.attachments
    BY <2>1, AdditionOf DEF Additions
  <2>2. CASE a \notin c.attachments
    <3>1. o.op = "attach_role" /\ a = <<o.principal, o.name>>
      BY <1>4, <2>2 DEF apply, Content
    <3>2. o = [op |-> "attach_role", name |-> a[2], principal |-> a[1]]
      BY <3>1
    <3> QED BY <3>2
  <2> QED BY <2>1, <2>2
<1> HIDE DEF d
<1>5. Puts("put_role", d.roles) \subseteq Additions(c) \cup {o}
  BY <1>1, <1>2 DEF Puts, Content
<1>6. Puts("put_policy", d.policies) \subseteq Additions(c) \cup {o}
  BY <1>1, <1>3 DEF Puts, Content
<1>7. Attachments(d) \subseteq Additions(c) \cup {o}
  BY <1>4 DEF Attachments
<1>8. Additions(d) \subseteq Additions(c) \cup {o}
  BY <1>5, <1>6, <1>7 DEF Additions
<1> QED BY <1>8 DEF d

(* The same of a whole log. *)
LEMMA AdditionsLogged ==
    ASSUME NEW s \in Seq(Recorded)
    PROVE  Additions(replay(s).content) \subseteq Elements(s)
<1> DEFINE T == {t \in Seq(Recorded) : Additions(replay(t).content) \subseteq Elements(t)}
<1>1. <<>> \in T
  <2>1. replay(<<>>).content = new
    BY ReplayEmpty DEF Empty
  <2>2. Additions(new) = {}
    BY DEF Additions, Puts, Attachments, new
  <2> QED BY <2>1, <2>2, EmptySeq
<1>2. ASSUME NEW t \in Seq(Recorded), NEW o \in Recorded, t \in T
      PROVE  Append(t, o) \in T
  <2>1. replay(t).content \in Content
    BY ReplayTyped DEF CatalogState
  <2>2. replay(Append(t, o)).content = apply(replay(t).content, o)
    BY ReplayAppend, FoldFields
  <2>3. Additions(apply(replay(t).content, o)) \subseteq Additions(replay(t).content) \cup {o}
    BY <2>1, ApplyAdds
  <2> QED BY <1>2, <2>2, <2>3, ElementsAppend, AppendProperties
<1> HIDE DEF T
<1>3. s \in T
  BY <1>1, <1>2, SeqInduction
<1> QED BY <1>3 DEF T

(* So it is finite, and no larger than the log. *)
LEMMA AdditionsFinite ==
    ASSUME NEW s \in Seq(Recorded)
    PROVE  /\ IsFiniteSet(Additions(replay(s).content))
           /\ Cardinality(Additions(replay(s).content)) <= Len(s)
<1> DEFINE N == Len(s)
           D == 1..N
           E == Elements(s)
<1>1. N \in Nat /\ s \in [D -> Recorded]
  BY LenProperties
<1>2. IsFiniteSet(D) /\ Cardinality(D) = N
  BY <1>1, FS_Interval
<1>3. s \in [D -> E] /\ \A e \in E : \E i \in D : s[i] = e
  BY <1>1 DEF Elements
<1> HIDE DEF D, E
<1>4. s \in Surjection(D, E)
  BY <1>3 DEF Surjection
<1>5. IsFiniteSet(E) /\ Cardinality(E) <= N
  BY <1>2, <1>4, FS_Surjection
<1>6. Additions(replay(s).content) \in SUBSET E
  BY AdditionsLogged DEF E
<1>7. /\ IsFiniteSet(Additions(replay(s).content))
      /\ Cardinality(Additions(replay(s).content)) <= Cardinality(E)
  BY <1>5, <1>6, FS_Subset
<1>8. Cardinality(E) \in Nat /\ Cardinality(Additions(replay(s).content)) \in Nat
  BY <1>5, <1>7, FS_CardinalityType
<1> QED BY <1>1, <1>5, <1>7, <1>8

(* The snapshot holds exactly these operations, each once, the roles before
   the attachments. *)
LEMMA SnapshotShape ==
    ASSUME NEW c \in Content, IsFiniteSet(Additions(c))
    PROVE  /\ snapshot(c) \in Seq(Additions(c))
           /\ Len(snapshot(c)) = Cardinality(Additions(c))
           /\ Elements(snapshot(c)) = Additions(c)
           /\ \A i, j \in 1..Len(snapshot(c)) :
                 snapshot(c)[i].op = "put_role" /\ snapshot(c)[j].op = "attach_role" => i < j
<1> DEFINE A == Puts("put_role", c.roles)
           B == Puts("put_policy", c.policies)
           D == Attachments(c)
           X == Additions(c)
           u == SetToSeq(A)
           v == SetToSeq(B)
           w == SetToSeq(D)
           s == u \o v \o w
<1>1. X = A \cup B \cup D
  BY DEF Additions
<1>2. /\ \A o \in A : o.op = "put_role"
      /\ \A o \in B : o.op = "put_policy"
      /\ \A o \in D : o.op = "attach_role"
  BY DEF Puts, Attachments
<1>3. snapshot(c) = s
  BY DEF snapshot, Attachments
<1> HIDE DEF A, B, D, X, u, v, w, s
<1>4. IsFiniteSet(X) /\ A \in SUBSET X /\ B \in SUBSET X /\ D \in SUBSET X
  BY <1>1 DEF X
<1>5. IsFiniteSet(A) /\ IsFiniteSet(B) /\ IsFiniteSet(D)
  BY <1>4, FS_Subset
<1>6. /\ u \in Seq(A) /\ Len(u) = Cardinality(A) /\ \A e \in A : \E i \in 1..Len(u) : u[i] = e
      /\ v \in Seq(B) /\ Len(v) = Cardinality(B) /\ \A e \in B : \E i \in 1..Len(v) : v[i] = e
      /\ w \in Seq(D) /\ Len(w) = Cardinality(D) /\ \A e \in D : \E i \in 1..Len(w) : w[i] = e
  BY <1>5, SetAsSeq DEF u, v, w
<1>7. u \in Seq(X) /\ v \in Seq(X) /\ w \in Seq(X)
  BY <1>4, <1>6, SeqMonotonic
<1>8. /\ s \in Seq(X) /\ Len(s) = Len(u) + Len(v) + Len(w)
      /\ \A i \in 1..Len(s) :
            s[i] = IF i <= Len(u) THEN u[i]
                   ELSE IF i <= Len(u) + Len(v) THEN v[i - Len(u)]
                   ELSE w[i - (Len(u) + Len(v))]
  BY <1>7, ThreeParts DEF s
<1>9. Len(u) \in Nat /\ Len(v) \in Nat /\ Len(w) \in Nat
  BY <1>6, LenProperties
<1>10. /\ \A i \in 1..Len(u) : u[i] \in A
       /\ \A i \in 1..Len(v) : v[i] \in B
       /\ \A i \in 1..Len(w) : w[i] \in D
  BY <1>6, ElementOfSeq
<1>11. Cardinality(X) = Cardinality(A) + Cardinality(B) + Cardinality(D)
  <2>1. A \cap B = {} /\ (A \cup B) \cap D = {}
    BY <1>2
  <2>2. /\ IsFiniteSet(A \cup B)
        /\ Cardinality(A \cup B) = Cardinality(A) + Cardinality(B) - Cardinality({})
    BY <1>5, <2>1, FS_Union
  <2>3. Cardinality((A \cup B) \cup D) = Cardinality(A \cup B) + Cardinality(D) - Cardinality({})
    BY <1>5, <2>1, <2>2, FS_Union
  <2>4. Cardinality({}) = 0
    BY FS_EmptySet
  <2> QED BY <1>1, <1>6, <1>9, <2>2, <2>3, <2>4
<1>12. ASSUME NEW i \in 1..Len(s)
       PROVE  /\ i <= Len(u) => s[i] \in A
              /\ Len(u) < i /\ i <= Len(u) + Len(v) => s[i] \in B
              /\ Len(u) + Len(v) < i => s[i] \in D
  <2>1. ASSUME i <= Len(u) PROVE s[i] \in A
    <3>1. i \in 1..Len(u) /\ s[i] = u[i]
      BY <1>8, <1>9, <2>1
    <3> QED BY <1>10, <3>1
  <2>2. ASSUME Len(u) < i, i <= Len(u) + Len(v) PROVE s[i] \in B
    <3>1. i - Len(u) \in 1..Len(v) /\ ~(i <= Len(u))
      BY <1>9, <2>2
    <3>2. s[i] = v[i - Len(u)]
      BY <1>8, <2>2, <3>1
    <3> QED BY <1>10, <3>1, <3>2
  <2>3. ASSUME Len(u) + Len(v) < i PROVE s[i] \in D
    <3>1. /\ i - (Len(u) + Len(v)) \in 1..Len(w)
          /\ ~(i <= Len(u)) /\ ~(i <= Len(u) + Len(v))
      BY <1>8, <1>9, <2>3
    <3>2. s[i] = w[i - (Len(u) + Len(v))]
      BY <1>8, <3>1
    <3> QED BY <1>10, <3>1, <3>2
  <2> QED BY <2>1, <2>2, <2>3
<1>13. Elements(s) = X
  <2>1. Elements(s) \subseteq X
    BY <1>8, ElementOfSeq DEF Elements
  <2>2. ASSUME NEW e \in A PROVE \E i \in 1..Len(s) : s[i] = e
    <3>1. PICK i \in 1..Len(u) : u[i] = e
      BY <1>6
    <3>2. i \in 1..Len(s) /\ s[i] = u[i]
      BY <1>8, <1>9
    <3> QED BY <3>1, <3>2
  <2>3. ASSUME NEW e \in B PROVE \E i \in 1..Len(s) : s[i] = e
    <3>1. PICK i \in 1..Len(v) : v[i] = e
      BY <1>6
    <3>2. /\ Len(u) + i \in 1..Len(s) /\ ~(Len(u) + i <= Len(u))
          /\ Len(u) + i <= Len(u) + Len(v) /\ (Len(u) + i) - Len(u) = i
      BY <1>8, <1>9
    <3>3. s[Len(u) + i] = v[i]
      BY <1>8, <3>2
    <3> QED BY <3>1, <3>2, <3>3
  <2>4. ASSUME NEW e \in D PROVE \E i \in 1..Len(s) : s[i] = e
    <3>1. PICK i \in 1..Len(w) : w[i] = e
      BY <1>6
    <3> DEFINE k == (Len(u) + Len(v)) + i
    <3>2. /\ k \in 1..Len(s) /\ ~(k <= Len(u))
          /\ ~(k <= Len(u) + Len(v)) /\ k - (Len(u) + Len(v)) = i
      BY <1>8, <1>9
    <3> HIDE DEF k
    <3>3. s[k] = w[i]
      BY <1>8, <3>2
    <3> QED BY <3>1, <3>2, <3>3
  <2> QED BY <1>1, <2>1, <2>2, <2>3, <2>4 DEF Elements
<1>14. ASSUME NEW i \in 1..Len(s), NEW j \in 1..Len(s),
              s[i].op = "put_role", s[j].op = "attach_role"
       PROVE  i < j
  <2>1. i <= Len(u)
    BY <1>2, <1>9, <1>12, <1>14
  <2>2. Len(u) + Len(v) < j
    BY <1>2, <1>9, <1>12, <1>14
  <2> QED BY <1>9, <2>1, <2>2
<1>15. Len(s) = Cardinality(X)
  BY <1>6, <1>8, <1>11
<1> QED BY <1>3, <1>8, <1>13, <1>14, <1>15 DEF X

(* It reloads to the content it was taken of, and every operation of it is
   valid where it stands. *)
LEMMA SnapshotRebuilds ==
    ASSUME NEW c \in Content, IsFiniteSet(Additions(c)), Attached(c)
    PROVE  /\ snapshot(c) \in Seq(Recorded)
           /\ replay(snapshot(c)).content = c
           /\ ValidLog(snapshot(c))
<1> DEFINE s == snapshot(c)
           X == Additions(c)
<1>1. /\ s \in Seq(X) /\ Elements(s) = X
      /\ \A i, j \in 1..Len(s) : s[i].op = "put_role" /\ s[j].op = "attach_role" => i < j
  BY SnapshotShape
<1>2. \A o \in X : o \in Recorded
  BY AdditionKinds
<1> HIDE DEF s, X
<1>3. s \in Seq(Recorded)
  BY <1>1, <1>2, SeqMonotonic
<1>4. replay(s).content = c
  BY <1>1, ReplayRestores, RestoredAll DEF X
<1>5. ASSUME NEW j \in 1..Len(s)
      PROVE  validate(replay(SubSeq(s, 1, j - 1)).content, s[j])
  <2> DEFINE r == SubSeq(s, 1, j - 1)
  <2>1. s[j] \in X /\ s[j] \in Recorded
    BY <1>1, <1>2, ElementOfSeq
  <2>2. /\ r \in Seq(X) /\ Len(r) = j - 1
        /\ \A i \in 1..(j - 1) : r[i] = s[i]
    <3>1. Len(s) \in Nat /\ 1 \in Int /\ j - 1 \in Int /\ \A i \in 1..(j - 1) : i \in 1..Len(s)
      BY <1>1, LenProperties
    <3>2. \A i \in 1..(j - 1) : s[i] \in X
      BY <1>1, <3>1, ElementOfSeq
    <3> QED BY <3>1, <3>2, SubSeqProperties
  <2> HIDE DEF r
  <2>3. ASSUME s[j].op = "attach_role" PROVE get_role(replay(r).content, s[j].name) # None
    <3> DEFINE x == s[j].name
               put == [op |-> "put_role", name |-> x, doc |-> c.roles[x]]
    <3>1. x \in RoleNames /\ <<s[j].principal, x>> \in c.attachments
      BY <2>1, <2>3, AdditionKinds DEF X
    <3>2. c.roles[x] # None
      BY <3>1 DEF Attached
    <3>3. put \in X
      BY <3>1, <3>2, AdditionOf DEF X, Additions
    <3>4. PICK i \in 1..Len(s) : s[i] = put
      BY <1>1, <3>3 DEF Elements
    <3>5. i < j
      BY <1>1, <2>3, <3>4
    <3>6. i \in 1..Len(r) /\ r[i] = put
      BY <2>2, <3>4, <3>5
    <3>7. \E o \in Elements(r) : o.op = "put_role" /\ o.name = x
      <4>1. put \in Elements(r) /\ put.op = "put_role" /\ put.name = x
        BY <3>6 DEF Elements
      <4> QED BY <4>1
    <3>8. replay(r).content = Restored(c, Elements(r))
      BY <2>2, ReplayRestores DEF X
    <3>9. Restored(c, Elements(r)).roles[x] = c.roles[x]
      BY <3>1, <3>7 DEF Restored, RolesBack
    <3> QED BY <3>1, <3>2, <3>8, <3>9 DEF get_role
  <2>4. s[j].op \in {"put_role", "put_policy"} => s[j].name # Blank
    BY <2>1 DEF Recorded
  <2> QED BY <2>3, <2>4 DEF validate, r
<1> QED BY <1>3, <1>4, <1>5 DEF ValidLog, s
-----------------------------------------------------------------------------
(* The store *)

(* What a process that is between two steps knows of its log. *)
ProcessInv(p) ==
    /\ ValidLog(log[p]) /\ Len(log[p]) <= MaxOps
    /\ ValidLog(pending[p]) /\ Len(pending[p]) <= MaxOps
    /\ pc[p] # "idle" => running[p]
    /\ pc[p] = "apply" => \E o \in Recorded : pending[p] = Append(log[p], o)
    /\ pc[p] = "compact" => pending[p] = snapshot(replay(log[p]).content)

(* The inductive invariant: every log in a process or on disk is valid, and
   the live catalog is what it replays to. *)
CatalogInv ==
    /\ file \in Seq(Recorded) /\ ValidLog(file) /\ Len(file) <= MaxOps
    /\ running \in [Processes -> BOOLEAN]
    /\ log \in [Processes -> Seq(Recorded)]
    /\ pending \in [Processes -> Seq(Recorded)]
    /\ pc \in [Processes -> {"idle", "apply", "compact"}]
    /\ catalog = [p \in Processes |-> replay(log[p])]
    /\ \A p \in Processes : ProcessInv(p)

(* ... and, of a sole writer, the file is the log. *)
SoleWriterInv == \A p \in Processes : running[p] => log[p] = file

(* A valid log that fits, and the snapshot of its catalog. *)
LEMMA LogFacts ==
    ASSUME NEW s \in Seq(Recorded), ValidLog(s), Len(s) <= MaxOps
    PROVE  /\ replay(s) \in CatalogState
           /\ snapshot(replay(s).content) \in Seq(Recorded)
           /\ ValidLog(snapshot(replay(s).content))
           /\ Len(snapshot(replay(s).content)) <= MaxOps
           /\ replay(snapshot(replay(s).content)).content = replay(s).content
<1> DEFINE c == replay(s).content
           X == Additions(c)
<1>1. replay(s) \in CatalogState /\ c \in Content
  BY ReplayTyped DEF CatalogState
<1>2. Attached(c) /\ IsFiniteSet(X) /\ Cardinality(X) <= Len(s)
  BY ValidLogAttached, AdditionsFinite
<1> HIDE DEF c, X
<1>3. /\ snapshot(c) \in Seq(Recorded) /\ ValidLog(snapshot(c)) /\ replay(snapshot(c)).content = c
      /\ Len(snapshot(c)) = Cardinality(X)
  BY <1>1, <1>2, SnapshotRebuilds, SnapshotShape DEF X
<1>4. Cardinality(X) \in Nat /\ Len(s) \in Nat /\ MaxOps \in Nat
  BY <1>2, FS_CardinalityType, LenProperties, CatalogStoreAssumption
<1>5. Len(snapshot(c)) <= MaxOps
  BY <1>2, <1>3, <1>4
<1> QED BY <1>1, <1>3, <1>5 DEF c

(* The log of a process that does not run. *)
LEMMA EmptyLog ==
    <<>> \in Seq(Recorded) /\ ValidLog(<<>>) /\ Len(<<>>) <= MaxOps /\ replay(<<>>) = Empty
BY EmptySeq, ValidLogEmpty, ReplayEmpty, CatalogStoreAssumption

(* CatalogInv holds at first, and every step of every process keeps it. *)
LEMMA CatalogInit == Init => CatalogInv
BY EmptyLog DEF Init, CatalogInv, ProcessInv

(* What an operation being applied leaves: its log, in memory and on disk. *)
LEMMA LogAppend ==
    ASSUME NEW s \in Seq(Recorded), NEW o \in Recorded
    PROVE  /\ Append(s, o) \in Seq(Recorded)
           /\ Len(Append(s, o)) = Len(s) + 1
           /\ Append(s, o)[Len(Append(s, o))] = o
           /\ replay(Append(s, o)) = fold(replay(s), o)
BY AppendProperties, LenProperties, ReplayAppend

LEMMA CatalogStep == CatalogInv /\ [Next]_vars => CatalogInv'
<1> SUFFICES ASSUME CatalogInv, [Next]_vars PROVE CatalogInv'
  OBVIOUS
<1> USE DEF CatalogInv
<1>1. CASE UNCHANGED vars
  BY <1>1 DEF vars, ProcessInv
<1>2. ASSUME NEW p \in Processes, open(p) PROVE CatalogInv'
  BY <1>2 DEF open, ProcessInv
<1>3. ASSUME NEW p \in Processes, apply_commit(p) PROVE CatalogInv'
  <2>1. PICK o \in Recorded : pending[p] = Append(log[p], o)
    BY <1>3 DEF apply_commit, ProcessInv
  <2>2. fold(catalog[p], pending[p][Len(pending[p])]) = replay(pending[p])
    BY <2>1, LogAppend
  <2>3. catalog' = [catalog EXCEPT ![p] = replay(pending[p])]
    BY <1>3, <2>2 DEF apply_commit
  <2> QED BY <1>3, <2>3, EmptyLog DEF apply_commit, ProcessInv
<1>4. ASSUME NEW p \in Processes, compact_write(p) PROVE CatalogInv'
  <2>1. /\ snapshot(catalog[p].content) \in Seq(Recorded)
        /\ ValidLog(snapshot(catalog[p].content))
        /\ Len(snapshot(catalog[p].content)) <= MaxOps
    BY LogFacts DEF ProcessInv
  <2> QED BY <1>4, <2>1 DEF compact_write, ProcessInv
<1>5. ASSUME NEW p \in Processes, compact_commit(p) PROVE CatalogInv'
  BY <1>5, EmptyLog DEF compact_commit, ProcessInv
<1>6. ASSUME NEW p \in Processes, write_fails(p) PROVE CatalogInv'
  BY <1>6, EmptyLog DEF write_fails, ProcessInv
<1>7. ASSUME NEW p \in Processes, exit(p) PROVE CatalogInv'
  BY <1>7, EmptyLog DEF exit, ProcessInv
<1>8. ASSUME NEW p \in Processes, NEW o \in CatalogOp, apply_write(p, o) PROVE CatalogInv'
  <2>1. o \in Recorded
    BY <1>8, CatalogAssumption DEF apply_write, validate, get_role, Recorded
  <2>2. /\ Append(log[p], o) \in Seq(Recorded) /\ ValidLog(Append(log[p], o))
        /\ Len(Append(log[p], o)) = Len(log[p]) + 1
    BY <1>8, <2>1, LogAppend, ValidLogAppend DEF apply_write, ProcessInv
  <2>3. Len(Append(log[p], o)) <= MaxOps
    BY <1>8, <2>2, LenProperties, CatalogStoreAssumption DEF apply_write
  <2> QED BY <1>8, <2>1, <2>2, <2>3 DEF apply_write, ProcessInv
<1> QED BY <1>1, <1>2, <1>3, <1>4, <1>5, <1>6, <1>7, <1>8 DEF Next

(* Whatever number of processes have the store open, in every state every log
   is valid and fits, and every live catalog is what its log replays to
   (CatalogStore::open, apply and compact). *)
THEOREM CatalogInvariant == Spec => []CatalogInv
BY CatalogInit, CatalogStep, PTL DEF Spec

(* The catalogs and logs of CatalogStore are typed: no operation without a
   name is ever recorded. *)
THEOREM CatalogTyped == Spec => []TypeOK
<1>1. CatalogInv => TypeOK
  BY ReplayTyped DEF CatalogInv, TypeOK, CatalogState, AuditLine
<1> QED BY <1>1, CatalogInvariant, PTL

(* CatalogStore::apply: every operation in the file was valid in the catalog
   the operations before it produce, also when several processes overwrite
   each other's log, and after every crash and every compaction. *)
THEOREM FileStaysValid == Spec => []FileIsValidLog
<1>1. CatalogInv => FileIsValidLog
  BY DEF CatalogInv, FileIsValidLog, ValidLog
<1> QED BY <1>1, CatalogInvariant, PTL

(* Catalog::apply and CatalogStore::validate: no process ever has a catalog in
   which a missing role is attached. *)
THEOREM RolesStayAttached == Spec => []AttachedRolesExist
<1>1. CatalogInv => AttachedRolesExist
  <2> SUFFICES ASSUME CatalogInv, NEW p \in Processes PROVE Attached(catalog[p].content)
    BY DEF AttachedRolesExist, Attached
  <2> QED BY ValidLogAttached DEF CatalogInv, ProcessInv
<1> QED BY <1>1, CatalogInvariant, PTL

(* Catalog::apply: the audit ring of every live catalog holds the last lines
   of its log with their versions, for every size of the ring. *)
THEOREM AuditStaysRecent == Spec => []AuditIsRecent
<1>1. CatalogInv => AuditIsRecent
  <2> SUFFICES ASSUME CatalogInv, NEW p \in Processes PROVE Recent(catalog[p], log[p])
    BY DEF AuditIsRecent, Recent
  <2> QED BY ReplayRecent DEF CatalogInv
<1> QED BY <1>1, CatalogInvariant, PTL

(* With one process, every step keeps its log the file. *)
LEMMA SoleWriterStep ==
    ASSUME NEW w, Processes = {w}
    PROVE  CatalogInv /\ SoleWriterInv /\ [Next]_vars => SoleWriterInv'
<1> SUFFICES ASSUME CatalogInv, SoleWriterInv, [Next]_vars PROVE SoleWriterInv'
  OBVIOUS
<1> USE DEF SoleWriterInv, CatalogInv
<1>1. CASE UNCHANGED vars
  BY <1>1 DEF vars
<1>2. ASSUME open(w) PROVE SoleWriterInv'
  BY <1>2 DEF open
<1>3. ASSUME apply_commit(w) PROVE SoleWriterInv'
  BY <1>3 DEF apply_commit
<1>4. ASSUME compact_write(w) PROVE SoleWriterInv'
  BY <1>4 DEF compact_write
<1>5. ASSUME compact_commit(w) PROVE SoleWriterInv'
  BY <1>5 DEF compact_commit
<1>6. ASSUME write_fails(w) PROVE SoleWriterInv'
  BY <1>6 DEF write_fails
<1>7. ASSUME exit(w) PROVE SoleWriterInv'
  BY <1>7 DEF exit
<1>8. ASSUME NEW o \in CatalogOp, apply_write(w, o) PROVE SoleWriterInv'
  BY <1>8 DEF apply_write
<1> QED BY <1>1, <1>2, <1>3, <1>4, <1>5, <1>6, <1>7, <1>8 DEF Next

(* So it is in every state. *)
LEMMA SoleWriterInvariant ==
    ASSUME NEW w, Processes = {w}
    PROVE  Spec => []SoleWriterInv
<1>1. Init => SoleWriterInv
  BY DEF Init, SoleWriterInv
<1>2. CatalogInv /\ SoleWriterInv /\ [Next]_vars => SoleWriterInv'
  BY SoleWriterStep
<1> QED BY <1>1, <1>2, CatalogInvariant, PTL DEF Spec

(* CatalogStore: "The on-disk log and the in-memory state never diverge" when
   one process has the store open. *)
THEOREM SoleWriterMemoryIsDisk ==
    ASSUME NEW w, Processes = {w}
    PROVE  Spec => []MemoryIsDisk
<1>1. CatalogInv /\ SoleWriterInv => MemoryIsDisk
  BY ReplayVersion DEF CatalogInv, SoleWriterInv, MemoryIsDisk
<1>2. Spec => []SoleWriterInv
  BY SoleWriterInvariant
<1> QED BY <1>1, <1>2, CatalogInvariant, PTL

(* A compaction by the sole writer. *)
LEMMA CompactionRebuilds ==
    ASSUME NEW w, Processes = {w}, CatalogInv, SoleWriterInv, compact_commit(w)
    PROVE  replay(file').content = replay(file).content
<1>1. file' = snapshot(replay(log[w]).content) /\ log[w] = file
  BY DEF compact_commit, CatalogInv, SoleWriterInv, ProcessInv
<1>2. replay(snapshot(replay(file).content)).content = replay(file).content
  BY LogFacts DEF CatalogInv
<1> QED BY <1>1, <1>2

(* CatalogStore::compact loses no role, policy or attachment when one process
   has the store open. *)
THEOREM SoleWriterCompactionKeepsState ==
    ASSUME NEW w, Processes = {w}
    PROVE  Spec => CompactionKeepsState
<1>1. CatalogInv /\ SoleWriterInv =>
         ((\E p \in Processes : compact_commit(p)) => replay(file').content = replay(file).content)
  BY CompactionRebuilds
<1>2. Spec => []SoleWriterInv
  BY SoleWriterInvariant
<1> QED BY <1>1, <1>2, CatalogInvariant, PTL DEF CompactionKeepsState

(* The content of a log computed by itself is the content of its replay. *)
LEMMA ContentReplayed ==
    ASSUME NEW s \in Seq(Recorded)
    PROVE  replay_content(s) = replay(s).content
<1> DEFINE N == Len(s)
           Unroll(g) == [n \in 0..N |-> IF n = 0 THEN new ELSE apply(g[n - 1], s[n])]
           upto == CHOOSE g : g = Unroll(g)
<1>1. N \in Nat
  BY LenProperties
<1>2. PICK h : Passes(h, s) /\ replay(s) = h[N]
  BY ReplayPasses
<1> DEFINE c == [n \in 0..N |-> h[n].content]
<1>3. \A n \in 1..N : n - 1 \in 0..N /\ h[n].content = apply(h[n - 1].content, s[n])
  BY <1>1, <1>2, FoldFields DEF Passes, Follows
<1>4. h[0].content = new
  BY <1>2 DEF Passes, Follows, Empty
<1>5. c = Unroll(c)
  <2>1. ASSUME NEW n \in 0..N PROVE c[n] = IF n = 0 THEN new ELSE apply(c[n - 1], s[n])
    <3>1. CASE n = 0
      BY <1>4, <3>1
    <3>2. CASE n # 0
      <4>1. n \in 1..N
        BY <1>1, <3>2
      <4>2. c[n] = h[n].content /\ c[n - 1] = h[n - 1].content
        BY <1>3, <4>1
      <4> QED BY <1>3, <3>2, <4>1, <4>2
    <3> QED BY <3>1, <3>2
  <2> QED BY <2>1
<1>6. upto = Unroll(upto)
  <2> HIDE DEF Unroll
  <2> QED BY <1>5
<1>7. replay_content(s) = upto[N]
  BY DEF replay_content
<1>8. \A n \in 1..N : upto[n] = apply(upto[n - 1], s[n])
  <2>1. \A n \in 1..N : Unroll(upto)[n] = apply(upto[n - 1], s[n])
    BY <1>1
  <2> HIDE DEF upto, Unroll
  <2> QED BY <1>6, <2>1
<1>9. upto[0] = new
  <2>1. Unroll(upto)[0] = new
    BY <1>1
  <2> HIDE DEF upto, Unroll
  <2> QED BY <1>6, <2>1
<1>10. c[0] = new /\ \A n \in 1..N : c[n] = apply(c[n - 1], s[n])
  BY <1>1, <1>3, <1>4
<1>11. upto[N] = c[N]
  <2> HIDE DEF upto, c
  <2>1. Stepwise(upto, c, N)
    BY <1>8, <1>9, <1>10 DEF Stepwise
  <2> QED BY <1>1, <2>1, StepwiseEqual
<1> QED BY <1>1, <1>2, <1>7, <1>11

(* Every step of the store changes the catalog on disk by one valid operation,
   or not at all. *)
LEMMA DurableStep ==
    ASSUME NEW w, Processes = {w}, CatalogInv, CatalogInv', SoleWriterInv, [Next]_vars
    PROVE  Durable!Next \/ UNCHANGED replay_content(file)
<1>0. replay_content(file) = replay(file).content /\ replay_content(file') = replay(file').content
  BY ContentReplayed DEF CatalogInv
<1>1. CASE file' = file
  BY <1>1
<1>2. ASSUME apply_commit(w) PROVE Durable!Next
  <2>1. PICK o \in Recorded : pending[w] = Append(log[w], o)
    BY <1>2 DEF apply_commit, CatalogInv, ProcessInv
  <2>2. log[w] = file /\ file' = Append(file, o) /\ file \in Seq(Recorded)
    BY <1>2, <2>1 DEF apply_commit, CatalogInv, SoleWriterInv, ProcessInv
  <2>3. ValidLog(Append(file, o))
    BY <2>1, <2>2 DEF CatalogInv, ProcessInv
  <2>4. validate(replay(file).content, o)
    BY <2>2, <2>3, ValidLogAppend
  <2>5. replay(file').content = apply(replay(file).content, o)
    BY <2>2, ReplayAppend, FoldFields
  <2>6. o \in CatalogOp
    BY DEF Recorded
  <2>7. /\ o \in Durable!CatalogOp
        /\ Durable!validate(replay_content(file), o)
        /\ replay_content(file') = Durable!apply(replay_content(file), o)
    BY <1>0, <2>4, <2>5, <2>6
       DEF Durable!CatalogOp, CatalogOp, Durable!validate, validate, Durable!get_role, get_role,
           Durable!apply, apply, Durable!Without, Without
  <2> QED BY <2>7 DEF Durable!Next, Durable!Apply
<1>3. ASSUME compact_commit(w) PROVE UNCHANGED replay_content(file)
  BY <1>0, <1>3, CompactionRebuilds
<1>4. ASSUME NEW p \in Processes,
             \/ open(p) \/ compact_write(p) \/ write_fails(p) \/ exit(p)
             \/ \E o \in CatalogOp : apply_write(p, o)
      PROVE  file' = file
  BY <1>4 DEF open, compact_write, write_fails, exit, apply_write
<1>5. UNCHANGED vars => file' = file
  BY DEF vars
<1> QED BY <1>1, <1>2, <1>3, <1>4, <1>5 DEF Next

(* The store of one process implements DurableCatalog: through crashes, failed
   writes, compactions and restarts the catalog on disk changes by one valid
   operation at a time. *)
THEOREM SoleWriterImplementsDurableCatalog ==
    ASSUME NEW w, Processes = {w}
    PROVE  Spec => ImplementsDurableCatalog
<1>1. Init => Durable!Init
  <2>1. replay_content(<<>>) = new
    <3>1. replay_content(<<>>) = replay(<<>>).content
      BY EmptyLog, ContentReplayed
    <3>2. Empty.content = new
      BY DEF Empty
    <3> QED BY <3>1, <3>2, ReplayEmpty
  <2>2. new = Durable!new
    BY DEF new, Durable!new
  <2> QED BY <2>1, <2>2 DEF Init, Durable!Init
<1>2. CatalogInv /\ CatalogInv' /\ SoleWriterInv /\ [Next]_vars =>
         [Durable!Next]_(replay_content(file))
  BY DurableStep
<1>3. Spec => []SoleWriterInv
  BY SoleWriterInvariant
<1> QED BY <1>1, <1>2, <1>3, CatalogInvariant, PTL DEF Spec, ImplementsDurableCatalog, Durable!Spec

(* What an operation adds to the bytes of a log. *)
Size(o) == IF "doc" \in DOMAIN o THEN Weight[o.doc] ELSE 1

(* That is a number. *)
LEMMA SizeTyped ==
    ASSUME NEW o \in Recorded
    PROVE  Size(o) \in Nat
<1>1. CASE o.op \in {"put_role", "put_policy"}
  <2>1. "doc" \in DOMAIN o /\ o.doc \in Docs
    BY <1>1 DEF Recorded, CatalogOp
  <2> QED BY <2>1, CatalogStoreAssumption DEF Size
<1>2. CASE o.op \notin {"put_role", "put_policy"}
  <2>1. "doc" \notin DOMAIN o
    BY <1>2 DEF Recorded, CatalogOp
  <2> QED BY <2>1 DEF Size
<1> QED BY <1>1, <1>2

(* h holds the sums of v up to each point. *)
Adds(h, v, N) ==
    /\ h \in [0..N -> Nat]
    /\ h[0] = 0
    /\ \A n \in 1..N : h[n] = h[n - 1] + v[n]

(* Such sums exist. *)
LEMMA SumsExist ==
    ASSUME NEW N \in Nat, NEW v \in [1..N -> Nat]
    PROVE  \E h : Adds(h, v, N)
<1> DEFINE step == [n \in 1..N |-> [x \in Nat |-> x + v[n]]]
           D == Nat
<1>1. step \in [1..N -> [Nat -> Nat]]
  <2>1. \A n \in 1..N : \A x \in Nat : x + v[n] \in Nat
    OBVIOUS
  <2> QED BY <2>1
<1>2. 0 \in D /\ Steps(step, D, N)
  BY <1>1 DEF Steps
<1>3. \A n \in 1..N : \A x \in Nat : step[n][x] = x + v[n]
  OBVIOUS
<1> HIDE DEF step, D
<1>4. PICK h : Path(h, step, D, 0, N)
  BY <1>2, Iteration
<1>5. h \in [0..N -> Nat] /\ h[0] = 0 /\ \A n \in 1..N : h[n] = step[n][h[n - 1]]
  BY <1>4 DEF Path, D
<1>6. ASSUME NEW n \in 1..N PROVE h[n] = h[n - 1] + v[n]
  <2>1. n - 1 \in 0..N
    OBVIOUS
  <2>2. h[n - 1] \in Nat
    BY <1>5, <2>1
  <2> QED BY <1>3, <1>5, <2>2
<1> QED BY <1>5, <1>6 DEF Adds

(* Larger terms have a larger sum, and one that is larger by b makes it larger
   by b. *)
LEMMA SumsGrow ==
    ASSUME NEW N \in Nat, NEW v \in [1..N -> Nat], NEW w \in [1..N -> Nat],
           NEW g, NEW h, Adds(g, v, N), Adds(h, w, N),
           \A n \in 1..N : v[n] <= w[n],
           NEW k \in 1..N, NEW b \in Nat, v[k] + b <= w[k]
    PROVE  g[N] + b <= h[N]
<1> DEFINE L == {n \in Nat : n <= N => g[n] <= h[n] /\ (k <= n => g[n] + b <= h[n])}
<1>1. 0 \in L
  BY DEF Adds
<1>2. ASSUME NEW n \in Nat, n \in L PROVE n + 1 \in L
  <2> SUFFICES ASSUME n + 1 <= N
               PROVE  g[n + 1] <= h[n + 1] /\ (k <= n + 1 => g[n + 1] + b <= h[n + 1])
    OBVIOUS
  <2>1. n + 1 \in 1..N /\ (n + 1) - 1 = n /\ n <= N /\ n \in 0..N
    OBVIOUS
  <2>2. g[n + 1] = g[n] + v[n + 1] /\ h[n + 1] = h[n] + w[n + 1]
    BY <2>1 DEF Adds
  <2>3. g[n] \in Nat /\ h[n] \in Nat /\ v[n + 1] \in Nat /\ w[n + 1] \in Nat
    BY <2>1 DEF Adds
  <2>4. v[n + 1] <= w[n + 1]
    BY <2>1
  <2>5. g[n] <= h[n] /\ (k <= n => g[n] + b <= h[n])
    BY <1>2, <2>1
  <2>6. /\ \A x, y, i, j \in Nat : x <= y /\ i <= j => x + i <= y + j
        /\ \A x, y, i, j \in Nat : x + b <= y /\ i <= j => (x + i) + b <= y + j
        /\ \A x, y, i, j \in Nat : x <= y /\ i + b <= j => (x + i) + b <= y + j
    OBVIOUS
  <2>7. g[n + 1] <= h[n + 1]
    BY <2>2, <2>3, <2>4, <2>5, <2>6
  <2>8. ASSUME k <= n PROVE g[n + 1] + b <= h[n + 1]
    BY <2>2, <2>3, <2>4, <2>5, <2>6, <2>8
  <2>9. ASSUME k = n + 1 PROVE g[n + 1] + b <= h[n + 1]
    BY <2>2, <2>3, <2>5, <2>6, <2>9
  <2>10. k <= n + 1 => k <= n \/ k = n + 1
    OBVIOUS
  <2> QED BY <2>7, <2>8, <2>9, <2>10
<1> HIDE DEF L
<1>3. N \in L
  BY <1>1, <1>2, SetInduction
<1> QED BY <1>3 DEF L

(* The sizes along s of the operations in X. *)
Within(s, X) == [n \in 1..Len(s) |-> IF s[n] \in X THEN Size(s[n]) ELSE 0]

(* These are numbers. *)
LEMMA WithinTyped ==
    ASSUME NEW s \in Seq(Recorded), NEW X
    PROVE  Within(s, X) \in [1..Len(s) -> Nat]
BY SizeTyped, ElementOfSeq DEF Within

(* bytes(s) is the sum of the sizes along s. *)
LEMMA BytesAreSum ==
    ASSUME NEW s \in Seq(Recorded), NEW X, Elements(s) \subseteq X
    PROVE  \E h : Adds(h, Within(s, X), Len(s)) /\ bytes(s) = h[Len(s)]
<1> DEFINE N == Len(s)
           Unroll(g) == [n \in 0..N |-> IF n = 0 THEN 0 ELSE g[n - 1] + Size(s[n])]
           upto == CHOOSE g : g = Unroll(g)
<1>1. N \in Nat
  BY LenProperties
<1>2. PICK h : Adds(h, Within(s, X), N)
  BY <1>1, WithinTyped, SumsExist
<1>3. \A n \in 1..N : Within(s, X)[n] = Size(s[n])
  BY DEF Within, Elements
<1>4. \A n \in 1..N : h[n] = h[n - 1] + Size(s[n])
  BY <1>2, <1>3 DEF Adds
<1>5. h = Unroll(h)
  BY <1>1, <1>2, <1>4 DEF Adds
<1>6. upto = Unroll(upto)
  <2> HIDE DEF Unroll
  <2> QED BY <1>5
<1>7. bytes(s) = upto[N]
  BY DEF bytes, Size
<1>8. Stepwise(upto, h, N)
  <2>1. ASSUME NEW n \in 1..N PROVE Unroll(upto)[n] = upto[n - 1] + Size(s[n])
    BY <1>1
  <2>2. Unroll(upto)[0] = 0 /\ h[0] = 0
    BY <1>1, <1>2 DEF Adds
  <2> HIDE DEF upto, Unroll
  <2> QED BY <1>4, <1>6, <2>1, <2>2 DEF Stepwise
<1> HIDE DEF upto, Unroll
<1>9. upto[N] = h[N]
  BY <1>1, <1>8, StepwiseEqual
<1> QED BY <1>2, <1>7, <1>9

(* No operation twice. *)
Distinct(s) == \A i, j \in 1..Len(s) : s[i] = s[j] => i = j

(* Operations of a log, each taken once, weigh no more than the log. *)
LEMMA DistinctWeighLess ==
    ASSUME NEW s \in Seq(Recorded), NEW t \in Seq(Recorded),
           Distinct(t), Elements(t) \subseteq Elements(s)
    PROVE  bytes(t) <= bytes(s)
<1> DEFINE N == Len(s)
           T == {r \in Seq(Recorded) : Distinct(r) /\ Elements(r) \subseteq Elements(s) =>
                   /\ bytes(r) \in Nat
                   /\ \A h : Adds(h, Within(s, Elements(r)), N) => bytes(r) <= h[N]}
<1>1. N \in Nat
  BY LenProperties
<1>2. <<>> \in T
  <2>1. bytes(<<>>) = 0
    <3>1. PICK h : Adds(h, Within(<<>>, Elements(<<>>)), Len(<<>>)) /\ bytes(<<>>) = h[Len(<<>>)]
      BY EmptySeq, BytesAreSum
    <3> QED BY <3>1 DEF Adds
  <2>2. \A h : Adds(h, Within(s, Elements(<<>>)), N) => 0 <= h[N]
    BY <1>1 DEF Adds
  <2> QED BY <2>1, <2>2, EmptySeq
<1>3. ASSUME NEW r \in Seq(Recorded), NEW e \in Recorded, r \in T
      PROVE  Append(r, e) \in T
  <2> DEFINE q == Append(r, e)
             M == Len(r)
             A == Elements(r)
             B == Elements(q)
  <2>1. /\ q \in Seq(Recorded) /\ M \in Nat /\ Len(q) = M + 1
        /\ \A i \in 1..M : q[i] = r[i]
        /\ q[M + 1] = e
    BY AppendProperties, LenProperties
  <2>2. B = A \cup {e}
    BY ElementsAppend
  <2> HIDE DEF q, M, A, B, T
  <2>3. SUFFICES ASSUME Distinct(q), B \subseteq Elements(s)
                 PROVE  /\ bytes(q) \in Nat
                        /\ \A h : Adds(h, Within(s, B), N) => bytes(q) <= h[N]
    BY <2>1 DEF T, q, B
  <2>4. Distinct(r) /\ e \notin A
    <3>1. \A i \in 1..M : i \in 1..(M + 1) /\ i # M + 1
      BY <2>1
    <3>2. M + 1 \in 1..(M + 1)
      BY <2>1
    <3> QED BY <2>1, <2>3, <3>1, <3>2 DEF Distinct, A, M, Elements
  <2>5. /\ bytes(r) \in Nat
        /\ \A h : Adds(h, Within(s, A), N) => bytes(r) <= h[N]
    BY <1>3, <2>2, <2>3, <2>4 DEF T, A
  <2>6. Size(e) \in Nat
    BY SizeTyped
  <2>7. bytes(q) = bytes(r) + Size(e)
    <3>1. PICK f : Adds(f, Within(q, B), M + 1) /\ bytes(q) = f[M + 1]
      BY <2>1, BytesAreSum DEF B
    <3>2. PICK g : Adds(g, Within(r, B), M) /\ bytes(r) = g[M]
      BY <2>2, BytesAreSum DEF A, M
    <3>3. \A n \in 1..M : n \in 1..(M + 1) /\ Within(q, B)[n] = Within(r, B)[n]
      BY <2>1 DEF Within, M
    <3>4. Stepwise(f, g, M)
      BY <3>1, <3>2, <3>3 DEF Stepwise, Adds
    <3>5. f[M] = g[M]
      BY <2>1, <3>4, StepwiseEqual
    <3>6. Within(q, B)[M + 1] = Size(e)
      BY <2>1, <2>2 DEF Within
    <3>7. M + 1 \in 1..(M + 1) /\ (M + 1) - 1 = M
      BY <2>1
    <3> QED BY <3>1, <3>2, <3>5, <3>6, <3>7 DEF Adds
  <2>8. ASSUME NEW h, Adds(h, Within(s, B), N) PROVE bytes(q) <= h[N]
    <3>1. PICK g : Adds(g, Within(s, A), N)
      BY <1>1, WithinTyped, SumsExist
    <3>2. PICK k \in 1..N : s[k] = e
      BY <2>2, <2>3 DEF Elements
    <3>3. \A n \in 1..N : Within(s, A)[n] <= Within(s, B)[n]
      <4> TAKE n \in 1..N
      <4>1. Size(s[n]) \in Nat
        BY SizeTyped, ElementOfSeq
      <4> QED BY <2>2, <4>1 DEF Within
    <3>4. Within(s, A)[k] = 0 /\ Within(s, B)[k] = Size(e)
      BY <2>2, <2>4, <3>2 DEF Within
    <3>5. /\ Within(s, A) \in [1..N -> Nat] /\ Within(s, B) \in [1..N -> Nat]
          /\ Within(s, A)[k] + Size(e) <= Within(s, B)[k]
      BY <2>6, <3>4, WithinTyped
    <3> DEFINE v == Within(s, A)
               w == Within(s, B)
               b == Size(e)
    <3>6. /\ N \in Nat /\ b \in Nat /\ k \in 1..N
          /\ v \in [1..N -> Nat] /\ w \in [1..N -> Nat]
          /\ Adds(g, v, N) /\ Adds(h, w, N)
          /\ \A n \in 1..N : v[n] <= w[n]
          /\ v[k] + b <= w[k]
      BY <1>1, <2>6, <2>8, <3>1, <3>2, <3>3, <3>5
    <3> HIDE DEF N, v, w, b
    <3>7. g[N] + b <= h[N]
      BY <3>6, SumsGrow
    <3>9. g[N] \in Nat /\ h[N] \in Nat
      BY <3>6 DEF Adds
    <3>10. \A x, y, z \in Nat : x <= y /\ y + b <= z => x + b <= z
      BY <3>6
    <3>8. bytes(r) <= g[N] /\ bytes(r) \in Nat /\ bytes(q) = bytes(r) + b
      BY <2>5, <2>7, <3>1 DEF v, b
    <3> QED BY <3>7, <3>8, <3>9, <3>10
  <2> QED BY <2>5, <2>6, <2>7, <2>8
<1>4. t \in T
  <2> HIDE DEF T
  <2> QED BY <1>2, <1>3, SeqInduction
<1>5. PICK h : Adds(h, Within(s, Elements(t)), N)
  BY <1>1, WithinTyped, SumsExist
<1>6. bytes(t) \in Nat /\ bytes(t) <= h[N]
  BY <1>4, <1>5
<1>7. PICK g : Adds(g, Within(s, Elements(s)), N) /\ bytes(s) = g[N]
  BY BytesAreSum
<1>8. CASE N = 0
  BY <1>5, <1>6, <1>7, <1>8 DEF Adds
<1>9. CASE N # 0
  <2>1. \A n \in 1..N : Within(s, Elements(t))[n] <= Within(s, Elements(s))[n]
    <3> TAKE n \in 1..N
    <3>1. Size(s[n]) \in Nat /\ s[n] \in Elements(s)
      BY SizeTyped, ElementOfSeq DEF Elements
    <3> QED BY <3>1 DEF Within
  <2>2. 1 \in 1..N /\ Within(s, Elements(t)) \in [1..N -> Nat]
        /\ Within(s, Elements(s)) \in [1..N -> Nat]
    BY <1>1, <1>9, WithinTyped
  <2> HIDE DEF N
  <2>3. Within(s, Elements(t))[1] + 0 <= Within(s, Elements(s))[1]
    BY <2>1, <2>2
  <2>4. h[N] + 0 <= g[N]
    BY <1>1, <1>5, <1>7, <2>1, <2>2, <2>3, SumsGrow
  <2>5. h[N] \in Nat /\ g[N] \in Nat
    BY <1>1, <1>5, <1>7 DEF Adds
  <2> QED BY <1>6, <1>7, <2>4, <2>5
<1> QED BY <1>8, <1>9

(* The snapshot of what a log replays to: no operation twice, none that the
   log does not have. *)
LEMMA SnapshotNoLarger ==
    ASSUME NEW s \in Seq(Recorded)
    PROVE  /\ Len(snapshot(replay(s).content)) <= Len(s)
           /\ bytes(snapshot(replay(s).content)) <= bytes(s)
<1> DEFINE c == replay(s).content
           X == Additions(c)
           t == snapshot(c)
           D == 1..Len(t)
<1>1. c \in Content
  BY ReplayTyped DEF CatalogState
<1>2. IsFiniteSet(X) /\ Cardinality(X) <= Len(s) /\ X \subseteq Elements(s)
  BY AdditionsFinite, AdditionsLogged
<1> HIDE DEF c, X
<1>3. t \in Seq(X) /\ Len(t) = Cardinality(X) /\ Elements(t) = X
  BY <1>1, <1>2, SnapshotShape DEF X
<1>4. t \in Seq(Recorded)
  <2>1. X \subseteq Recorded
    BY <1>2, ElementOfSeq DEF Elements
  <2> QED BY <1>3, <2>1, SeqMonotonic
<1> HIDE DEF t, X
<1>5. Len(t) \in Nat /\ IsFiniteSet(D) /\ Cardinality(D) = Len(t)
  <2>1. Len(t) \in Nat
    BY <1>4, LenProperties
  <2>2. \A n \in Nat : IsFiniteSet(1..n) /\ Cardinality(1..n) = n
    BY FS_Interval
  <2> QED BY <2>1, <2>2
<1>6. t \in [D -> X] /\ \A e \in X : \E i \in D : t[i] = e
  BY <1>3, LenProperties DEF Elements
<1>7. Distinct(t)
  <2> HIDE DEF D
  <2>1. t \in Surjection(D, X)
    BY <1>6 DEF Surjection
  <2>2. Cardinality(D) = Cardinality(X)
    BY <1>3, <1>5
  <2>3. t \in Injection(D, X)
    BY <1>5, <2>1, <2>2, FS_SurjSameCardinalityImpliesInj
  <2> QED BY <2>3 DEF Injection, IsInjective, Distinct, D
<1>8. bytes(t) <= bytes(s)
  BY <1>2, <1>3, <1>4, <1>7, DistinctWeighLess
<1> QED BY <1>2, <1>3, <1>8 DEF t, c

(* CatalogStore::compact: compaction never grows a log, in operations or in
   bytes, whoever else writes the file. *)
THEOREM CompactionNeverGrows == Spec => CompactionShrinks
<1>1. CatalogInv /\ [Next]_vars =>
        [\A p \in Processes : compact_write(p) =>
            Len(pending'[p]) <= Len(log[p]) /\ bytes(pending'[p]) <= bytes(log[p])]_vars
  <2> SUFFICES ASSUME CatalogInv, NEW p \in Processes, compact_write(p)
               PROVE  Len(pending'[p]) <= Len(log[p]) /\ bytes(pending'[p]) <= bytes(log[p])
    OBVIOUS
  <2>1. pending'[p] = snapshot(replay(log[p]).content) /\ log[p] \in Seq(Recorded)
    BY DEF CatalogInv, compact_write
  <2> QED BY <2>1, SnapshotNoLarger
<1> QED BY <1>1, CatalogInvariant, PTL DEF Spec, CompactionShrinks
-----------------------------------------------------------------------------
(* The report *)

(* The scopes of several documents together are the scopes of each, and what
   they gather in one scope is what each gathers in it. *)
LEMMA ScopesOfMany ==
    ASSUME NEW D
    PROVE  /\ ScopeKeys(UNION D) = UNION {ScopeKeys(p) : p \in D}
           /\ \A k : InScope(UNION D, k) = UNION {InScope(p, k) : p \in D}
BY DEF ScopeKeys, InScope, allows

(* What a scope gathers from several documents expands to what each gives. *)
LEMMA ScopeExpands ==
    ASSUME NEW D, NEW k
    PROVE  expand_actions(StatementActions(InScope(UNION D, k))) =
               UNION {CompileScope(p, k).abilities : p \in {q \in D : k \in ScopeKeys(q)}}
<1>0. InScope(UNION D, k) = UNION {InScope(p, k) : p \in D}
  BY ScopesOfMany
<1> DEFINE giving(p) == expand_actions(StatementActions(InScope(p, k)))
           E == {q \in D : k \in ScopeKeys(q)}
<1>1. \A p : CompileScope(p, k).abilities = giving(p)
  BY DEF CompileScope
<1>2. ASSUME NEW e \in giving(UNION D) PROVE \E p \in E : e \in giving(p)
  <2>1. PICK s \in InScope(UNION D, k) : \E a \in s.actions : e \in Expansion(a)
    BY <1>2 DEF expand_actions, StatementActions
  <2>2. PICK p \in D : s \in InScope(p, k)
    BY <1>0, <2>1
  <2>3. k \in ScopeKeys(p)
    BY <2>2 DEF InScope, ScopeKeys
  <2>4. e \in giving(p)
    BY <2>1, <2>2 DEF expand_actions, StatementActions
  <2> QED BY <2>2, <2>3, <2>4
<1>3. ASSUME NEW p \in E, NEW e \in giving(p) PROVE e \in giving(UNION D)
  <2>1. InScope(p, k) \subseteq InScope(UNION D, k)
    BY <1>0
  <2> QED BY <1>3, <2>1 DEF expand_actions, StatementActions
<1>4. UNION {CompileScope(p, k).abilities : p \in E} = UNION {giving(p) : p \in E}
  BY <1>1
<1> HIDE DEF giving, E
<1>5. giving(UNION D) = UNION {giving(p) : p \in E}
  BY <1>2, <1>3
<1> QED BY <1>4, <1>5 DEF giving, E

(* effective_grants in any catalog c whatever: a group for each scope of an
   attached role and no other, from the roles that mint in it, spelling what
   they mint in it. *)
THEOREM ReportIsMint ==
    ASSUME NEW c, NEW x
    PROVE  LET roles == roles_for(c, x)
               report == effective_grants(c, x)
               minting(k) == {r \in roles : k \in ScopeKeys(c.roles[r])}
           IN /\ {g.scope : g \in report} = UNION {ScopeKeys(c.roles[r]) : r \in roles}
              /\ \A g, h \in report : g.scope = h.scope => g = h
              /\ \A g \in report :
                    /\ g.from_roles = minting(g.scope)
                    /\ expand_actions(g.abilities) =
                          UNION {CompileScope(c.roles[r], g.scope).abilities : r \in minting(g.scope)}
<1> DEFINE roles == roles_for(c, x)
           report == effective_grants(c, x)
           minting(k) == {r \in roles : k \in ScopeKeys(c.roles[r])}
           D == {c.roles[r] : r \in roles}
           all == UNION D
           group(k) == [scope |-> k, abilities |-> StatementActions(InScope(all, k)),
                        from_roles |-> minting(k)]
<1>1. report = {group(k) : k \in ScopeKeys(all)}
  BY DEF effective_grants
<1>2. ScopeKeys(all) = UNION {ScopeKeys(c.roles[r]) : r \in roles}
  <2>1. UNION {ScopeKeys(p) : p \in D} = UNION {ScopeKeys(c.roles[r]) : r \in roles}
    OBVIOUS
  <2> QED BY <2>1, ScopesOfMany
<1>3. ASSUME NEW k
      PROVE  expand_actions(StatementActions(InScope(all, k))) =
                 UNION {CompileScope(c.roles[r], k).abilities : r \in minting(k)}
  <2>1. {CompileScope(p, k).abilities : p \in {q \in D : k \in ScopeKeys(q)}}
           = {CompileScope(c.roles[r], k).abilities : r \in minting(k)}
    OBVIOUS
  <2> QED BY <2>1, ScopeExpands
<1>4. \A k : /\ group(k).scope = k /\ group(k).from_roles = minting(k)
             /\ group(k).abilities = StatementActions(InScope(all, k))
  OBVIOUS
<1> HIDE DEF group, minting, all, report, roles
<1>5. {g.scope : g \in report} = ScopeKeys(all) /\ \A g, h \in report : g.scope = h.scope => g = h
  BY <1>1, <1>4
<1>6. ASSUME NEW g \in report
      PROVE  /\ g.from_roles = minting(g.scope)
             /\ expand_actions(g.abilities) =
                   UNION {CompileScope(c.roles[r], g.scope).abilities : r \in minting(g.scope)}
  <2>1. PICK k \in ScopeKeys(all) : g = group(k)
    BY <1>1
  <2> QED BY <1>3, <1>4, <2>1
<1> QED BY <1>2, <1>5, <1>6 DEF minting, report, roles

(* The report is what minting gives in every state of every process, for any
   number of operations, roles and principals. *)
THEOREM EffectiveMinted == Spec => []EffectiveIsMint
<1>1. EffectiveIsMint
  BY ReportIsMint DEF EffectiveIsMint
<1> QED BY <1>1, PTL

-----------------------------------------------------------------------------
(* The wallet *)

Wallets == [Labels -> HeldTokens \cup {NoToken}]

(* The copy of the only command at work is the wallet, but for the label it is
   about once it saves. *)
WalletInv(s) ==
    /\ wallet \in Wallets /\ kept = wallet
    /\ shell \in [Shells -> [step : {"prompt", "opened", "saving"},
                             label : Labels \cup {UnfitLabel}, copy : Wallets]]
    /\ shell[s].step = "opened" => shell[s].copy = wallet
    /\ shell[s].step = "saving" =>
          /\ shell[s].label \in Labels
          /\ \A l \in Labels \ {shell[s].label} : shell[s].copy[l] = wallet[l]

(* Every step of the only command keeps it. *)
LEMMA WalletStep ==
    ASSUME NEW s, Shells = {s}, WalletInv(s), [WalletNext]_walletVars
    PROVE  WalletInv(s)'
<1> USE DEF WalletInv, Wallets
<1>1. Prompt \in [step : {"prompt", "opened", "saving"},
                  label : Labels \cup {UnfitLabel}, copy : Wallets]
  BY DEF Prompt, NoWallet
<1>2. CASE wallet_open(s)
  BY <1>1, <1>2 DEF wallet_open, Prompt
<1>3. ASSUME NEW l \in Labels, NEW w \in Wallets, shell[s].step = "opened",
             \A k \in Labels \ {l} : w[k] = shell[s].copy[k], Saving(s, l, w)
      PROVE  WalletInv(s)'
  BY <1>3 DEF Saving
<1>4. ASSUME NEW l \in Labels \cup {UnfitLabel}, NEW t \in HeldTokens \cup {UnfitToken}, add(s, l, t)
      PROVE  WalletInv(s)'
  <2> DEFINE w == [shell[s].copy EXCEPT ![l] = t]
  <2>1. /\ l \in Labels /\ t \in HeldTokens /\ shell[s].step = "opened"
        /\ Saving(s, l, w)
    BY <1>4 DEF add
  <2>2. w \in Wallets /\ \A k \in Labels \ {l} : w[k] = shell[s].copy[k]
    BY <2>1
  <2> HIDE DEF w
  <2> QED BY <1>3, <2>1, <2>2
<1>5. ASSUME NEW l \in Labels \cup {UnfitLabel}, remove(s, l)
      PROVE  WalletInv(s)'
  <2> DEFINE w == [shell[s].copy EXCEPT ![l] = NoToken]
  <2>1. l \in Labels /\ shell[s].step = "opened" /\ Saving(s, l, w)
    BY <1>5 DEF remove
  <2>2. w \in Wallets /\ \A k \in Labels \ {l} : w[k] = shell[s].copy[k]
    BY <2>1
  <2> HIDE DEF w
  <2> QED BY <1>3, <2>1, <2>2
<1>6. CASE wallet_rename(s)
  <2>1. shell[s].label \in Labels /\ shell[s].copy \in Wallets
    BY <1>6 DEF wallet_rename
  <2>2. [kept EXCEPT ![shell[s].label] = shell[s].copy[shell[s].label]] = shell[s].copy
    BY <1>6, <2>1 DEF wallet_rename
  <2> QED BY <1>1, <1>6, <2>1, <2>2 DEF wallet_rename, Prompt
<1>7. CASE wallet_fail(s)
  BY <1>1, <1>7 DEF wallet_fail, Prompt
<1>8. CASE UNCHANGED walletVars
  BY <1>8 DEF walletVars
<1> QED BY <1>2, <1>4, <1>5, <1>6, <1>7, <1>8 DEF WalletNext

(* Wallet: with one command at a time nothing stored is lost and nothing
   removed comes back, whatever commands fail or are killed. *)
THEOREM SoleCommandStored ==
    ASSUME NEW s, Shells = {s}
    PROVE  WalletSpec => []StoredUntilRemoved
<1>1. WalletInit => WalletInv(s)
  BY DEF WalletInit, WalletInv, Wallets, Prompt, NoWallet
<1>2. WalletInv(s) /\ [WalletNext]_walletVars => WalletInv(s)'
  BY WalletStep
<1>3. WalletInv(s) => StoredUntilRemoved
  BY DEF WalletInv, StoredUntilRemoved
<1> QED BY <1>1, <1>2, <1>3, PTL DEF WalletSpec
=============================================================================
