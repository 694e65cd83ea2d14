---------------------------- MODULE SequenceLemmas ----------------------------
(***************************************************************************)
(* Induction for the provers that are installed.  They cannot instantiate  *)
(* an induction rule, which takes a predicate; here a predicate is the set *)
(* of what satisfies it, and a loop is a function of its step.             *)
(***************************************************************************)
EXTENDS Filters, Integers, WellFoundedInduction, SequenceTheorems,
        TLAPS

Less == {p \in Nat \X Nat : p[1] < p[2]}

LEMMA LeastElement ==
    ASSUME NEW A \in SUBSET Nat, A # {}
    PROVE  \E m \in A : \A n \in A : m <= n
<1>1. IsWellFoundedOn(Less, Nat)
  BY NatLessThanWellFounded DEF OpToRel, Less
<1>2. PICK m \in A : \A n \in A : ~(<<n, m>> \in Less)
  BY <1>1, WFMin
<1>3. ASSUME NEW n \in A PROVE m <= n
  <2>1. m \in Nat /\ n \in Nat
    OBVIOUS
  <2>2. n < m => <<n, m>> \in Less
    BY <2>1 DEF Less
  <2> QED
    BY <1>2, <2>1, <2>2
<1> QED
  BY <1>3

(* What holds of 0 and is handed on from i - 1 to i holds up to n. *)
LEMMA Induct ==
    ASSUME NEW n \in Nat, NEW P, 0 \in P, \A i \in 1 .. n : i - 1 \in P => i \in P
    PROVE  \A i \in 0 .. n : i \in P
<1> DEFINE A == {i \in 0 .. n : i \notin P}
<1> SUFFICES ASSUME A # {} PROVE FALSE
  OBVIOUS
<1>1. A \in SUBSET Nat
  OBVIOUS
<1>2. PICK m \in A : \A i \in A : m <= i
  BY <1>1, LeastElement
<1>3. m \in 1 .. n /\ m - 1 \in 0 .. n
  BY <1>2
<1>4. m - 1 \notin A
  BY <1>2, <1>3
<1> QED
  BY <1>2, <1>3, <1>4

(* The values a loop of n steps goes through, all of them in D.            *)
Loop(F, n, D, base, step) ==
    /\ F \in [0 .. n -> D]
    /\ F[0] = base
    /\ \A i \in 1 .. n : F[i] = step[i][F[i - 1]]

LEMMA LoopExists ==
    ASSUME NEW n \in Nat, NEW D, NEW base \in D, NEW step \in [1 .. n -> [D -> D]]
    PROVE  \E F : Loop(F, n, D, base, step)
<1> DEFINE Loops(F, k) ==
             F[0] = base /\ \A i \in 1 .. k : F[i] = step[i][F[i - 1]]
           P == {k \in 0 .. n : \E F \in [0 .. k -> D] : Loops(F, k)}
<1>1. 0 \in P
  <2>1. \E F \in [0 .. 0 -> D] : Loops(F, 0)
    <3> DEFINE F == [i \in 0 .. 0 |-> base]
    <3>1. F \in [0 .. 0 -> D] /\ F[0] = base
      OBVIOUS
    <3>2. \A i \in 1 .. 0 : F[i] = step[i][F[i - 1]]
      OBVIOUS
    <3> HIDE DEF F
    <3> QED
      BY <3>1, <3>2
  <2> HIDE DEF Loops
  <2> QED
    BY <2>1
<1>2. ASSUME NEW k \in 1 .. n, k - 1 \in P
      PROVE  k \in P
  <2>1. PICK G \in [0 .. k - 1 -> D] : Loops(G, k - 1)
    BY <1>2
  <2> DEFINE F == [i \in 0 .. k |-> IF i = k THEN step[k][G[k - 1]] ELSE G[i]]
  <2>2. k - 1 \in 0 .. k - 1 /\ G[k - 1] \in D
    OBVIOUS
  <2>3. step[k] \in [D -> D]
    OBVIOUS
  <2>4. step[k][G[k - 1]] \in D
    BY <2>2, <2>3
  <2>5. F \in [0 .. k -> D]
    <3>1. ASSUME NEW i \in 0 .. k, i # k PROVE G[i] \in D
      <4>1. i \in 0 .. k - 1
        BY <3>1
      <4> QED
        BY <4>1
    <3> QED
      BY <2>4, <3>1
  <2>6. /\ F[0] = G[0] /\ F[k] = step[k][G[k - 1]] /\ F[k - 1] = G[k - 1]
        /\ \A i \in 1 .. k - 1 : F[i] = G[i] /\ F[i - 1] = G[i - 1]
    OBVIOUS
  <2>7. Loops(F, k)
    <3> HIDE DEF F
    <3> SUFFICES ASSUME NEW i \in 1 .. k PROVE F[i] = step[i][F[i - 1]]
      BY <2>1, <2>6
    <3>1. CASE i = k
      BY <2>6, <3>1
    <3>2. CASE i # k
      <4>1. i \in 1 .. k - 1
        BY <3>2
      <4> QED
        BY <2>1, <2>6, <4>1
    <3> QED
      BY <3>1, <3>2
  <2> HIDE DEF F, Loops
  <2> QED
    BY <2>5, <2>7
<1>3. n \in P
  <2> HIDE DEF P
  <2>1. \A k \in 0 .. n : k \in P
    BY <1>1, <1>2, Induct
  <2> QED
    BY <2>1
<1> QED
  BY <1>3 DEF Loop

(* Every sequence is reached from the empty one by appending.              *)
LEMMA SequenceInduct ==
    ASSUME NEW S, NEW P, <<>> \in P,
           \A s \in Seq(S), x \in S : s \in P => Append(s, x) \in P
    PROVE  \A s \in Seq(S) : s \in P
<1> SUFFICES ASSUME NEW s \in Seq(S) PROVE s \in P
  OBVIOUS
<1> DEFINE N == {k \in 0 .. Len(s) : SubSeq(s, 1, k) \in P}
<1>1. Len(s) \in Nat
  OBVIOUS
<1>2. 0 \in N
  <2>1. SubSeq(s, 1, 0) = <<>>
    OBVIOUS
  <2>2. SubSeq(s, 1, 0) \in P
    BY <2>1
  <2>3. 0 \in 0 .. Len(s)
    BY <1>1
  <2> QED
    BY <2>2, <2>3
<1>3. ASSUME NEW k \in 1 .. Len(s), k - 1 \in N PROVE k \in N
  <2>1. SubSeq(s, 1, k - 1) \in Seq(S) /\ s[k] \in S
    OBVIOUS
  <2>2. SubSeq(s, 1, k) = Append(SubSeq(s, 1, k - 1), s[k])
    <3>1. 1 \in 1 .. Len(s)
      OBVIOUS
    <3>2. SubSeq(s, 1, k) = SubSeq(s, 1, k - 1) \o <<s[k]>>
      BY <3>1, SubSeqRecursiveSecond
    <3> QED
      BY <2>1, <3>2, AppendIsConcat
  <2>3. SubSeq(s, 1, k) \in P
    BY <1>3, <2>1, <2>2
  <2> QED
    BY <2>3
<1>4. Len(s) \in N
  <2> HIDE DEF N
  <2>1. \A k \in 0 .. Len(s) : k \in N
    BY <1>1, <1>2, <1>3, Induct
  <2> QED
    BY <1>1, <2>1
<1>5. SubSeq(s, 1, Len(s)) = s
  OBVIOUS
<1> QED
  BY <1>4, <1>5

-----------------------------------------------------------------------------
(* Filter by membership in a set, which is how the lemmas that follow name *)
(* a test.                                                                 *)
Keep(s, T) == Filter(s, LAMBDA x : x \in T)

(* The loop of Filter, by its recursion equation.                          *)
Filters(F, s, T) ==
    F = [i \in 0 .. Len(s) |->
           IF i = 0 THEN <<>>
           ELSE IF s[i] \in T THEN Append(F[i - 1], s[i]) ELSE F[i - 1]]

LEMMA FilterExists ==
    ASSUME NEW S, NEW s \in Seq(S), NEW T
    PROVE  \E F : Filters(F, s, T)
<1> DEFINE n == Len(s)
           D == Seq(S)
           base == <<>>
           step == [i \in 1 .. n |->
                      [q \in Seq(S) |-> IF s[i] \in T THEN Append(q, s[i]) ELSE q]]
<1>1. n \in Nat /\ base \in D
  OBVIOUS
<1>2. step \in [1 .. n -> [D -> D]]
  <2>1. ASSUME NEW i \in 1 .. n, NEW q \in Seq(S)
        PROVE  (IF s[i] \in T THEN Append(q, s[i]) ELSE q) \in Seq(S)
    <3>1. s[i] \in S
      OBVIOUS
    <3> QED
      BY <3>1
  <2> QED
    BY <2>1
<1> HIDE DEF n, D, base, step
<1>3. PICK F : Loop(F, n, D, base, step)
  BY <1>1, <1>2, LoopExists
<1> USE DEF n, D, base, step, Loop
<1>4. ASSUME NEW i \in 1 .. n
      PROVE  F[i] = IF s[i] \in T THEN Append(F[i - 1], s[i]) ELSE F[i - 1]
  <2>1. i - 1 \in 0 .. n
    BY <1>1
  <2>2. F \in [0 .. n -> Seq(S)]
    BY <1>3
  <2>3. F[i - 1] \in Seq(S)
    BY <2>1, <2>2
  <2> QED
    BY <1>3, <2>3
<1>5. Filters(F, s, T)
  <2>1. F = [i \in 0 .. n |-> F[i]]
    BY <1>3
  <2>2. ASSUME NEW i \in 0 .. n
        PROVE  F[i] = IF i = 0 THEN <<>>
                      ELSE IF s[i] \in T THEN Append(F[i - 1], s[i]) ELSE F[i - 1]
    <3>1. CASE i = 0
      BY <1>3, <3>1
    <3>2. CASE i # 0
      <4>1. i \in 1 .. n
        BY <1>1, <3>2
      <4> QED
        BY <1>4, <3>2, <4>1
    <3> QED
      BY <3>1, <3>2
  <2> HIDE DEF step
  <2> QED
    BY <2>1, <2>2 DEF Filters
<1> QED
  BY <1>5

LEMMA FiltersFrom ==
    ASSUME NEW S, NEW s \in Seq(S), NEW T, NEW F, Filters(F, s, T)
    PROVE  F[0] = <<>>
<1>1. 0 \in 0 .. Len(s)
  OBVIOUS
<1> QED
  BY <1>1 DEF Filters

LEMMA FiltersUntil ==
    ASSUME NEW S, NEW s \in Seq(S), NEW T, NEW F, Filters(F, s, T)
    PROVE  \A i \in 1 .. Len(s) :
             F[i] = IF s[i] \in T THEN Append(F[i - 1], s[i]) ELSE F[i - 1]
<1>1. Len(s) \in Nat
  OBVIOUS
<1>2. ASSUME NEW i \in 1 .. Len(s)
      PROVE  F[i] = IF s[i] \in T THEN Append(F[i - 1], s[i]) ELSE F[i - 1]
  <2>1. i \in 0 .. Len(s) /\ i # 0
    BY <1>1
  <2> QED
    BY <2>1 DEF Filters
<1> QED
  BY <1>2

(* Two loops that keep the same elements of the first n agree on them.     *)
LEMMA FiltersAgree ==
    ASSUME NEW S, NEW s \in Seq(S), NEW T, NEW F, Filters(F, s, T),
           NEW R, NEW t \in Seq(R), NEW U, NEW G, Filters(G, t, U),
           NEW n \in Nat, n <= Len(s), n <= Len(t),
           \A i \in 1 .. n : s[i] = t[i] /\ (s[i] \in T <=> t[i] \in U)
    PROVE  F[n] = G[n]
<1> DEFINE P == {i \in 0 .. n : F[i] = G[i]}
<1>1. 0 \in P
  BY FiltersFrom
<1>2. ASSUME NEW i \in 1 .. n, i - 1 \in P PROVE i \in P
  <2>1. i \in 1 .. Len(s) /\ i \in 1 .. Len(t)
    OBVIOUS
  <2>2. F[i] = IF s[i] \in T THEN Append(F[i - 1], s[i]) ELSE F[i - 1]
    BY <2>1, FiltersUntil
  <2>3. G[i] = IF t[i] \in U THEN Append(G[i - 1], t[i]) ELSE G[i - 1]
    BY <2>1, FiltersUntil
  <2>4. F[i] = G[i]
    BY <1>2, <2>2, <2>3
  <2> QED
    BY <2>4
<1>3. n \in P
  <2> HIDE DEF P
  <2>1. \A i \in 0 .. n : i \in P
    BY <1>1, <1>2, Induct
  <2> QED
    BY <2>1
<1> QED
  BY <1>3

LEMMA KeepFilters ==
    ASSUME NEW S, NEW s \in Seq(S), NEW T
    PROVE  \E F : Filters(F, s, T) /\ Keep(s, T) = F[Len(s)]
<1> DEFINE F == CHOOSE G : Filters(G, s, T)
<1>1. Filters(F, s, T)
  BY FilterExists
<1>2. Keep(s, T) = F[Len(s)]
  BY DEF Keep, Filter, Filters
<1> QED
  BY <1>1, <1>2

LEMMA FilterIsKeep ==
    ASSUME NEW S, NEW s \in Seq(S), NEW T, NEW F, Filters(F, s, T)
    PROVE  F[Len(s)] = Keep(s, T)
<1>1. PICK G : Filters(G, s, T) /\ Keep(s, T) = G[Len(s)]
  BY KeepFilters
<1>2. Len(s) \in Nat /\ Len(s) <= Len(s)
  OBVIOUS
<1> QED
  BY <1>1, <1>2, FiltersAgree

LEMMA KeepType ==
    ASSUME NEW S, NEW s \in Seq(S), NEW T
    PROVE  Keep(s, T) \in Seq(S)
<1>1. PICK F : Filters(F, s, T) /\ Keep(s, T) = F[Len(s)]
  BY KeepFilters
<1> DEFINE P == {i \in 0 .. Len(s) : F[i] \in Seq(S)}
<1>2. Len(s) \in Nat
  OBVIOUS
<1>3. 0 \in P
  <2>1. F[0] = <<>>
    BY <1>1, FiltersFrom
  <2>2. F[0] \in Seq(S) /\ 0 \in 0 .. Len(s)
    BY <1>2, <2>1
  <2> QED
    BY <2>2
<1>4. ASSUME NEW i \in 1 .. Len(s), i - 1 \in P PROVE i \in P
  <2>1. F[i] = IF s[i] \in T THEN Append(F[i - 1], s[i]) ELSE F[i - 1]
    BY <1>1, FiltersUntil
  <2>2. s[i] \in S /\ F[i - 1] \in Seq(S)
    BY <1>4
  <2>3. F[i] \in Seq(S)
    BY <2>1, <2>2
  <2> QED
    BY <2>3
<1>5. Len(s) \in P
  <2> HIDE DEF P
  <2>1. \A i \in 0 .. Len(s) : i \in P
    BY <1>2, <1>3, <1>4, Induct
  <2> QED
    BY <1>2, <2>1
<1> QED
  BY <1>1, <1>5

LEMMA KeepEmpty ==
    ASSUME NEW T
    PROVE  Keep(<<>>, T) = <<>>
<1> DEFINE e == <<>>
<1>1. e \in Seq({}) /\ Len(e) = 0
  OBVIOUS
<1> HIDE DEF e
<1>2. PICK F : Filters(F, e, T) /\ Keep(e, T) = F[Len(e)]
  BY <1>1, KeepFilters
<1>3. F[0] = <<>>
  BY <1>1, <1>2, FiltersFrom
<1> QED
  BY <1>1, <1>2, <1>3 DEF e

LEMMA KeepAppend ==
    ASSUME NEW S, NEW s \in Seq(S), NEW x \in S, NEW T
    PROVE  Keep(Append(s, x), T) = IF x \in T THEN Append(Keep(s, T), x) ELSE Keep(s, T)
<1> DEFINE t == Append(s, x)
           n == Len(s)
<1>1. /\ t \in Seq(S) /\ Len(t) = n + 1 /\ t[n + 1] = x /\ n \in Nat
      /\ \A i \in 1 .. n : t[i] = s[i]
  OBVIOUS
<1> HIDE DEF t
<1>2. PICK F : Filters(F, s, T) /\ Keep(s, T) = F[n]
  BY KeepFilters
<1>3. PICK G : Filters(G, t, T) /\ Keep(t, T) = G[n + 1]
  BY <1>1, KeepFilters
<1>4. F[n] = G[n]
  <2>1. n <= Len(s) /\ n <= Len(t) /\ \A i \in 1 .. n : s[i] = t[i] /\ (s[i] \in T <=> t[i] \in T)
    BY <1>1
  <2> HIDE DEF n
  <2> QED
    BY <1>1, <1>2, <1>3, <2>1, FiltersAgree
<1>5. G[n + 1] = IF t[n + 1] \in T THEN Append(G[n + 1 - 1], t[n + 1]) ELSE G[n + 1 - 1]
  <2>1. n + 1 \in 1 .. Len(t)
    BY <1>1
  <2> HIDE DEF n
  <2> QED
    BY <1>1, <1>3, <2>1, FiltersUntil
<1>6. n + 1 - 1 = n
  BY <1>1
<1> QED
  BY <1>1, <1>2, <1>3, <1>4, <1>5, <1>6 DEF t

(* Only the membership of the elements matters.                            *)
LEMMA KeepSame ==
    ASSUME NEW S, NEW s \in Seq(S), NEW T, NEW U,
           \A i \in 1 .. Len(s) : s[i] \in T <=> s[i] \in U
    PROVE  Keep(s, T) = Keep(s, U)
<1>1. PICK F : Filters(F, s, T) /\ Keep(s, T) = F[Len(s)]
  BY KeepFilters
<1>2. PICK G : Filters(G, s, U) /\ Keep(s, U) = G[Len(s)]
  BY KeepFilters
<1>3. F[Len(s)] = G[Len(s)]
  <2>1. Len(s) \in Nat /\ Len(s) <= Len(s)
    OBVIOUS
  <2> QED
    BY <1>1, <1>2, <2>1, FiltersAgree
<1> QED
  BY <1>1, <1>2, <1>3

LEMMA KeepKeep ==
    ASSUME NEW S, NEW T, NEW U
    PROVE  \A s \in Seq(S) : Keep(Keep(s, T), U) = Keep(s, T \cap U)
<1> DEFINE P == {s \in Seq(S) : Keep(Keep(s, T), U) = Keep(s, T \cap U)}
<1>1. <<>> \in P
  BY KeepEmpty
<1>2. ASSUME NEW s \in Seq(S), NEW x \in S, s \in P PROVE Append(s, x) \in P
  <2>1. Keep(s, T) \in Seq(S)
    BY KeepType
  <2>2. /\ Keep(Append(s, x), T) = IF x \in T THEN Append(Keep(s, T), x) ELSE Keep(s, T)
        /\ Keep(Append(s, x), T \cap U) =
             IF x \in T \cap U THEN Append(Keep(s, T \cap U), x) ELSE Keep(s, T \cap U)
        /\ Keep(Append(Keep(s, T), x), U) =
             IF x \in U THEN Append(Keep(Keep(s, T), U), x) ELSE Keep(Keep(s, T), U)
    BY <2>1, KeepAppend
  <2>3. Keep(Keep(s, T), U) = Keep(s, T \cap U) /\ Append(s, x) \in Seq(S)
    BY <1>2
  <2>4. Keep(Keep(Append(s, x), T), U) = Keep(Append(s, x), T \cap U)
    <3>1. CASE x \notin T
      BY <2>2, <2>3, <3>1
    <3>2. CASE x \in T /\ x \notin U
      BY <2>2, <2>3, <3>2
    <3>3. CASE x \in T /\ x \in U
      BY <2>2, <2>3, <3>3
    <3> QED
      BY <3>1, <3>2, <3>3
  <2> QED
    BY <2>3, <2>4
<1> HIDE DEF P
<1>3. \A s \in Seq(S) : s \in P
  BY <1>1, <1>2, SequenceInduct
<1> QED
  BY <1>3 DEF P

(* What is kept. *)
LEMMA KeepMembers ==
    ASSUME NEW S, NEW T
    PROVE  \A s \in Seq(S) : \A x :
             (\E i \in 1 .. Len(Keep(s, T)) : Keep(s, T)[i] = x)
               <=> x \in T /\ \E i \in 1 .. Len(s) : s[i] = x
<1> DEFINE In(s, x) == \E i \in 1 .. Len(s) : s[i] = x
           P == {s \in Seq(S) : \A x : In(Keep(s, T), x) <=> x \in T /\ In(s, x)}
<1>1. <<>> \in P
  BY KeepEmpty
<1>2. ASSUME NEW s \in Seq(S), NEW y \in S PROVE \A x : In(Append(s, y), x) <=> In(s, x) \/ x = y
  <2>1. /\ Len(Append(s, y)) = Len(s) + 1 /\ Len(s) \in Nat
        /\ Append(s, y)[Len(s) + 1] = y /\ \A i \in 1 .. Len(s) : Append(s, y)[i] = s[i]
    OBVIOUS
  <2>2. \A i \in 1 .. Len(s) + 1 : i \in 1 .. Len(s) \/ i = Len(s) + 1
    BY <2>1
  <2>3. Len(s) + 1 \in 1 .. Len(s) + 1 /\ \A i \in 1 .. Len(s) : i \in 1 .. Len(s) + 1
    BY <2>1
  <2> QED
    BY <2>1, <2>2, <2>3
<1>3. ASSUME NEW s \in Seq(S), NEW y \in S, s \in P PROVE Append(s, y) \in P
  <2>1. Keep(s, T) \in Seq(S) /\ Append(s, y) \in Seq(S)
    BY KeepType
  <2>2. Keep(Append(s, y), T) = IF y \in T THEN Append(Keep(s, T), y) ELSE Keep(s, T)
    BY KeepAppend
  <2>3. \A x : In(Append(Keep(s, T), y), x) <=> In(Keep(s, T), x) \/ x = y
    BY <1>2, <2>1
  <2>4. \A x : In(Append(s, y), x) <=> In(s, x) \/ x = y
    BY <1>2
  <2>5. \A x : In(Keep(s, T), x) <=> x \in T /\ In(s, x)
    BY <1>3
  <2> HIDE DEF In
  <2>6. \A x : In(Keep(Append(s, y), T), x) <=> x \in T /\ In(Append(s, y), x)
    BY <2>2, <2>3, <2>4, <2>5
  <2> QED
    BY <2>1, <2>6
<1> HIDE DEF P
<1>4. \A s \in Seq(S) : s \in P
  BY <1>1, <1>3, SequenceInduct
<1> QED
  BY <1>4 DEF P

LEMMA KeepNone ==
    ASSUME NEW S
    PROVE  \A s \in Seq(S) : Keep(s, {}) = <<>>
<1> DEFINE P == {s \in Seq(S) : Keep(s, {}) = <<>>}
<1>1. <<>> \in P
  BY KeepEmpty
<1>2. ASSUME NEW s \in Seq(S), NEW x \in S, s \in P PROVE Append(s, x) \in P
  <2>1. Keep(Append(s, x), {}) = IF x \in {} THEN Append(Keep(s, {}), x) ELSE Keep(s, {})
    BY KeepAppend
  <2>2. Append(s, x) \in Seq(S)
    OBVIOUS
  <2> QED
    BY <1>2, <2>1, <2>2
<1> HIDE DEF P
<1>3. \A s \in Seq(S) : s \in P
  BY <1>1, <1>2, SequenceInduct
<1> QED
  BY <1>3 DEF P

(* A new message at the end, among what is kept or not.                    *)
NewTo(h, x) == \A i \in 1 .. Len(h) : h[i] # x

LEMMA KeepNew ==
    ASSUME NEW S, NEW h \in Seq(S), NEW x \in S, NewTo(h, x)
    PROVE  /\ \A T : Keep(Append(h, x), T \ {x}) = Keep(h, T)
           /\ \A T : Keep(Append(h, x), T \cup {x}) = Append(Keep(h, T), x)
<1> SUFFICES ASSUME NEW T
             PROVE  /\ Keep(Append(h, x), T \ {x}) = Keep(h, T)
                    /\ Keep(Append(h, x), T \cup {x}) = Append(Keep(h, T), x)
  OBVIOUS
<1>1. Keep(h, T \ {x}) = Keep(h, T)
  <2> DEFINE U == T \ {x}
  <2>1. \A i \in 1 .. Len(h) : h[i] \in U <=> h[i] \in T
    BY DEF NewTo
  <2> HIDE DEF U
  <2>2. Keep(h, U) = Keep(h, T)
    BY <2>1, KeepSame
  <2> QED
    BY <2>2 DEF U
<1>2. Keep(h, T \cup {x}) = Keep(h, T)
  <2> DEFINE U == T \cup {x}
  <2>1. \A i \in 1 .. Len(h) : h[i] \in U <=> h[i] \in T
    BY DEF NewTo
  <2> HIDE DEF U
  <2>2. Keep(h, U) = Keep(h, T)
    BY <2>1, KeepSame
  <2> QED
    BY <2>2 DEF U
<1>3. \A U : Keep(Append(h, x), U) = IF x \in U THEN Append(Keep(h, U), x) ELSE Keep(h, U)
  BY KeepAppend
<1> QED
  BY <1>1, <1>2, <1>3
===============================================================================
