---------------------------- MODULE LoopTheorems ----------------------------
(***************************************************************************)
(* Induction and loops, for the proofs about every component.  A loop of   *)
(* the code is a recursive function of the number of rounds in the model;  *)
(* it is the only function that begins and goes on like the loop.          *)
(*                                                                         *)
(* The loops over a merge record, of which several components make use:    *)
(* the ranges of decodeAll and mergePartial hold exactly the ids that were *)
(* handed to them, and reading them with decodeLoop does to a copy what    *)
(* the operations did.                                                     *)
(***************************************************************************)
EXTENDS MergeActionTracker, SequenceTheorems, FiniteSetTheorems,
        WellFoundedInduction, TLAPS

(* Induction, stated for sets because no prover takes a predicate.         *)
Below == {pair \in Nat \X Nat : pair[1] < pair[2]}

LEMMA NatSetInduction ==
    ASSUME NEW T, 0 \in T, \A n \in Nat : n \in T => n + 1 \in T
    PROVE  Nat \subseteq T
<1> SUFFICES ASSUME Nat \ T # {} PROVE FALSE
  OBVIOUS
<1>1. IsWellFoundedOn(Below, Nat)
  BY NatLessThanWellFounded DEF OpToRel, Below
<1>2. PICK x \in Nat \ T : \A y \in Nat \ T : <<y, x>> \notin Below
  BY <1>1, WFMin
<1>3. x - 1 \in Nat /\ <<x - 1, x>> \in Below
  BY <1>2 DEF Below
<1>4. x - 1 \in T
  BY <1>2, <1>3
<1>5. (x - 1) + 1 \in T
  BY <1>3, <1>4
<1> QED
  BY <1>2, <1>5

(* The least of some numbers, and the greatest of finitely many.           *)
LEMMA LeastOf ==
    ASSUME NEW times, times \subseteq Nat, times # {}
    PROVE  \E t \in times : \A u \in times : t <= u
<1>1. IsWellFoundedOn(Below, Nat)
  BY NatLessThanWellFounded DEF OpToRel, Below
<1>2. PICK t \in times : \A u \in times : <<u, t>> \notin Below
  BY <1>1, WFMin
<1>3. ASSUME NEW u \in times PROVE t <= u
  <2>1. u \in Nat /\ t \in Nat
    OBVIOUS
  <2>2. <<u, t>> \in Nat \X Nat /\ <<u, t>>[1] = u /\ <<u, t>>[2] = t
    BY <2>1
  <2>3. ~ (u < t)
    BY <1>2, <2>1, <2>2 DEF Below
  <2> QED
    BY <2>1, <2>3
<1> QED
  BY <1>3

LEMMA GreatestOf ==
    ASSUME NEW L \in Nat, NEW places, places \subseteq 1 .. L, places # {}
    PROVE  /\ Max(places) \in places
           /\ \A n \in places : n <= Max(places)
<1> DEFINE below == {L - n : n \in places}
<1>0. places \subseteq Int /\ \A n \in places : n <= L
  OBVIOUS
<1>1. below \subseteq Nat /\ below # {}
  <2>1. \A n \in places : L - n \in Nat
    BY <1>0
  <2>2. PICK n \in places : TRUE
    OBVIOUS
  <2>3. L - n \in below
    OBVIOUS
  <2> QED
    BY <2>1, <2>3
<1>2. PICK t \in below : \A u \in below : t <= u
  BY <1>1, LeastOf
<1>3. PICK m \in places : t = L - m
  BY <1>2
<1>4. \A n \in places : m >= n
  <2> SUFFICES ASSUME NEW n \in places PROVE m >= n
    OBVIOUS
  <2>1. L - n \in below /\ n \in Nat /\ m \in Nat
    OBVIOUS
  <2> HIDE DEF below
  <2>2. L - m <= L - n
    BY <1>2, <1>3, <2>1
  <2> QED
    BY <2>1, <2>2
<1> HIDE DEF below
<1>5. Max(places) \in places /\ \A n \in places : Max(places) >= n
  BY <1>4 DEF Max
<1>6. ASSUME NEW n \in places PROVE n <= Max(places)
  <2>1. n \in Int /\ Max(places) \in Int
    BY <1>0, <1>5
  <2> QED
    BY <1>5, <2>1
<1> QED
  BY <1>5, <1>6

LEMMA SeqInduction ==
    ASSUME NEW C, NEW T, <<>> \in T,
           \A s \in Seq(C), e \in C : s \in T => Append(s, e) \in T
    PROVE  Seq(C) \subseteq T
<1> DEFINE N == {n \in Nat : \A s \in Seq(C) : Len(s) = n => s \in T}
<1>1. 0 \in N
  BY EmptySeq
<1>2. ASSUME NEW n \in Nat, n \in N PROVE n + 1 \in N
  <2> SUFFICES ASSUME NEW s \in Seq(C), Len(s) = n + 1 PROVE s \in T
    OBVIOUS
  <2>1. s # <<>>
    OBVIOUS
  <2>2. PICK r \in Seq(C), e \in C : s = Append(r, e)
    BY <2>1, SequenceEmptyOrAppend
  <2>3. Len(r) = n
    BY <2>2, AppendProperties, LenProperties
  <2> QED
    BY <1>2, <2>2, <2>3
<1>3. Nat \subseteq N
  BY <1>1, <1>2, NatSetInduction
<1> QED
  BY <1>3, LenProperties

(* A loop over 1 .. L has a run, and only one.                             *)
IsRun(f, X, first, step, L) ==
    /\ f \in [0 .. L -> X]
    /\ f[0] = first
    /\ \A n \in 1 .. L : f[n] = step[<<f[n - 1], n>>]

LEMMA LoopRuns ==
    ASSUME NEW X, NEW first \in X, NEW L \in Nat, NEW step \in [X \X (1 .. L) -> X]
    PROVE  \E f : IsRun(f, X, first, step, L)
<1> DEFINE RunsTo(f, k) ==
              /\ f \in [0 .. k -> X]
              /\ f[0] = first
              /\ \A n \in 1 .. k : f[n] = step[<<f[n - 1], n>>]
           T == {k \in Nat : k <= L => \E f : RunsTo(f, k)}
<1>1. 0 \in T
  <2>1. RunsTo([n \in 0 .. 0 |-> first], 0)
    OBVIOUS
  <2> QED
    BY <2>1
<1>2. ASSUME NEW k \in Nat, k \in T PROVE k + 1 \in T
  <2> SUFFICES ASSUME k + 1 <= L PROVE \E f : RunsTo(f, k + 1)
    OBVIOUS
  <2>1. PICK g : RunsTo(g, k)
    BY <1>2
  <2> DEFINE f == [n \in 0 .. k + 1 |-> IF n = k + 1 THEN step[<<g[k], k + 1>>] ELSE g[n]]
  <2>2. g[k] \in X /\ k + 1 \in 1 .. L
    BY <2>1
  <2>3. step[<<g[k], k + 1>>] \in X
    BY <2>2
  <2>4. f \in [0 .. k + 1 -> X]
    BY <2>1, <2>3
  <2>5. f[0] = first
    BY <2>1
  <2>6. ASSUME NEW n \in 1 .. k + 1 PROVE f[n] = step[<<f[n - 1], n>>]
    <3>1. n - 1 \in 0 .. k /\ f[n - 1] = g[n - 1]
      OBVIOUS
    <3>2. CASE n = k + 1
      <4>1. f[n] = step[<<g[k], k + 1>>] /\ n - 1 = k
        BY <3>2
      <4> QED
        BY <3>1, <3>2, <4>1
    <3>3. CASE n \in 1 .. k
      BY <2>1, <3>1, <3>3
    <3> QED
      BY <3>2, <3>3
  <2>7. RunsTo(f, k + 1)
    BY <2>4, <2>5, <2>6
  <2> QED
    BY <2>7
<1>3. L \in T
  BY <1>1, <1>2, NatSetInduction
<1> QED
  BY <1>3 DEF IsRun

(* A loop whose value after round n is always one of J[n] has a run.       *)
StaysIn(J, body, L) == \A n \in 1 .. L : \A w \in J[n - 1] : body[<<w, n>>] \in J[n]

StayingRun(f, J, body, first, L) ==
    /\ f[0] = first
    /\ \A n \in 0 .. L : f[n] \in J[n]
    /\ \A n \in 1 .. L : f[n] = body[<<f[n - 1], n>>]

LEMMA RunStays ==
    ASSUME NEW L \in Nat, NEW J, NEW body, StaysIn(J, body, L), NEW first \in J[0]
    PROVE  \E f : StayingRun(f, J, body, first, L)
<1> DEFINE X == UNION {J[n] : n \in 0 .. L}
           step == [p \in X \X (1 .. L) |-> IF body[p] \in X THEN body[p] ELSE p[1]]
<1>1. \A n \in 0 .. L : \A w \in J[n] : w \in X
  OBVIOUS
<1>2. first \in X
  BY <1>1
<1>3. step \in [X \X (1 .. L) -> X]
  <2>1. ASSUME NEW p \in X \X (1 .. L) PROVE (IF body[p] \in X THEN body[p] ELSE p[1]) \in X
    <3> HIDE DEF X
    <3> QED
      OBVIOUS
  <2> HIDE DEF X
  <2> QED
    BY <2>1
<1> HIDE DEF X
<1>4. PICK f : IsRun(f, X, first, step, L)
  <2> HIDE DEF step
  <2> QED
    BY <1>2, <1>3, LoopRuns
<1>5. f \in [0 .. L -> X] /\ f[0] = first /\ \A n \in 1 .. L : f[n] = step[<<f[n - 1], n>>]
  BY <1>4 DEF IsRun
<1>6. ASSUME NEW n \in 1 .. L, f[n - 1] \in J[n - 1]
      PROVE  f[n] = body[<<f[n - 1], n>>] /\ f[n] \in J[n]
  <2>1. n - 1 \in 0 .. L /\ n \in 0 .. L
    OBVIOUS
  <2>2. <<f[n - 1], n>> \in X \X (1 .. L)
    BY <1>1, <1>6, <2>1
  <2>3. body[<<f[n - 1], n>>] \in J[n]
    BY <1>6 DEF StaysIn
  <2>4. body[<<f[n - 1], n>>] \in X
    BY <1>1, <2>1, <2>3
  <2>5. f[n] = body[<<f[n - 1], n>>]
    BY <1>5, <2>2, <2>4
  <2> QED
    BY <2>3, <2>5
<1> DEFINE T == {n \in Nat : n <= L => f[n] \in J[n]}
<1>7. 0 \in T
  BY <1>5
<1>8. ASSUME NEW n \in Nat, n \in T PROVE n + 1 \in T
  <2> SUFFICES ASSUME n + 1 <= L PROVE f[n + 1] \in J[n + 1]
    OBVIOUS
  <2>1. n + 1 \in 1 .. L /\ (n + 1) - 1 = n /\ n <= L
    OBVIOUS
  <2>2. f[n] \in J[n]
    BY <1>8, <2>1
  <2> QED
    BY <1>6, <2>1, <2>2
<1>9. \A n \in 0 .. L : f[n] \in J[n]
  <2> HIDE DEF T
  <2>1. Nat \subseteq T
    BY <1>7, <1>8, NatSetInduction
  <2> QED
    BY <2>1 DEF T
<1>10. \A n \in 1 .. L : f[n] = body[<<f[n - 1], n>>]
  <2> SUFFICES ASSUME NEW n \in 1 .. L PROVE f[n] = body[<<f[n - 1], n>>]
    OBVIOUS
  <2>1. n - 1 \in 0 .. L
    OBVIOUS
  <2> QED
    BY <1>6, <1>9, <2>1
<1> QED
  BY <1>5, <1>9, <1>10 DEF StayingRun

(* Two loops of L rounds that begin with the same value and do the same to *)
(* it in each round.                                                       *)
InStep(f, g, L) ==
    /\ L \in Nat /\ f[0] = g[0]
    /\ \A n \in 1 .. L : f[n - 1] = g[n - 1] => f[n] = g[n]

LEMMA LoopsAgree ==
    ASSUME NEW f, NEW g, NEW L, InStep(f, g, L)
    PROVE  \A n \in 0 .. L : f[n] = g[n]
<1> DEFINE T == {n \in Nat : n <= L => f[n] = g[n]}
<1>1. 0 \in T
  BY DEF InStep
<1>2. ASSUME NEW n \in Nat, n \in T PROVE n + 1 \in T
  BY <1>2 DEF InStep
<1>3. Nat \subseteq T
  BY <1>1, <1>2, NatSetInduction
<1> QED
  BY <1>3 DEF InStep

-------------------------------------------------------------------------------
(* A sum over a finite set M is a fold: what has been added up of the      *)
(* numbers of a subset s is t[s].                                          *)
AnyOf(s) == CHOOSE m \in s : TRUE

SumsUp(M, f, t) ==
    t = [s \in SUBSET M |-> IF s = {} THEN 0 ELSE f[AnyOf(s)] + t[s \ {AnyOf(s)}]]

LEMMA OneLess ==
    ASSUME NEW M, IsFiniteSet(M), NEW s \in SUBSET M, s # {}
    PROVE  /\ AnyOf(s) \in M
           /\ s \ {AnyOf(s)} \in SUBSET M
           /\ Cardinality(s) \in Nat
           /\ Cardinality(s \ {AnyOf(s)}) = Cardinality(s) - 1
<1>1. AnyOf(s) \in s
  BY DEF AnyOf
<1>2. IsFiniteSet(s)
  BY FS_Subset
<1> QED
  BY <1>1, <1>2, FS_CardinalityType, FS_RemoveElement

(* The same, with any way c to choose what is taken next.                  *)
FoldsUp(M, f, c, t) ==
    t = [s \in SUBSET M |-> IF s = {} THEN 0 ELSE f[c[s]] + t[s \ {c[s]}]]

LEMMA FoldExists ==
    ASSUME NEW M, IsFiniteSet(M), NEW f, NEW c, \A s \in SUBSET M : s # {} => c[s] \in s
    PROVE  \E t : FoldsUp(M, f, c, t)
<1> DEFINE Body(t, s) == IF s = {} THEN 0 ELSE f[c[s]] + t[s \ {c[s]}]
           UpTo(t, n) == \A s \in SUBSET M : Cardinality(s) <= n => t[s] = Body(t, s)
           Good == {n \in Nat : \E t : DOMAIN t = SUBSET M /\ UpTo(t, n)}
<1>0. ASSUME NEW s \in SUBSET M, s # {}
      PROVE  /\ s \ {c[s]} \in SUBSET M
             /\ Cardinality(s) \in Nat
             /\ Cardinality(s \ {c[s]}) = Cardinality(s) - 1
  BY <1>0, FS_Subset, FS_CardinalityType, FS_RemoveElement
<1>1. 0 \in Good
  <2> DEFINE t == [s \in SUBSET M |-> 0]
  <2>1. ASSUME NEW s \in SUBSET M, Cardinality(s) <= 0 PROVE s = {}
    BY <2>1, FS_Subset, FS_CardinalityType, FS_EmptySet
  <2>2. UpTo(t, 0)
    BY <2>1
  <2>3. DOMAIN t = SUBSET M
    OBVIOUS
  <2> HIDE DEF t, UpTo
  <2> QED
    BY <2>2, <2>3
<1>2. ASSUME NEW n \in Nat, n \in Good PROVE n + 1 \in Good
  <2>1. PICK t : DOMAIN t = SUBSET M /\ UpTo(t, n)
    BY <1>2
  <2> DEFINE u == [s \in SUBSET M |-> Body(t, s)]
  <2>2. ASSUME NEW s \in SUBSET M, Cardinality(s) <= n + 1
        PROVE  u[s] = Body(u, s)
    <3>1. CASE s = {}
      BY <3>1
    <3>2. CASE s # {}
      <4> DEFINE less == s \ {c[s]}
      <4>1. less \in SUBSET M /\ Cardinality(less) <= n
        BY <1>2, <2>2, <3>2, <1>0
      <4>2. u[less] = Body(t, less) /\ t[less] = Body(t, less)
        BY <2>1, <4>1
      <4>3. u[s] = f[c[s]] + t[less]
        BY <3>2
      <4> QED
        BY <3>2, <4>2, <4>3
    <3> QED
      BY <3>1, <3>2
  <2>3. UpTo(u, n + 1) /\ DOMAIN u = SUBSET M
    BY <2>2
  <2> HIDE DEF u, UpTo
  <2> QED
    BY <1>2, <2>3
<1>3. Nat \subseteq Good
  <2> HIDE DEF Good
  <2> QED
    BY <1>1, <1>2, NatSetInduction
<1>4. Cardinality(M) \in Nat
  BY FS_CardinalityType
<1>5. PICK t : DOMAIN t = SUBSET M /\ UpTo(t, Cardinality(M))
  BY <1>3, <1>4
<1> DEFINE u == [s \in SUBSET M |-> Body(t, s)]
<1>6. ASSUME NEW s \in SUBSET M PROVE t[s] = Body(t, s)
  BY <1>5, FS_Subset
<1>7. u = [s \in SUBSET M |-> Body(u, s)]
  <2>1. ASSUME NEW s \in SUBSET M PROVE Body(t, s) = Body(u, s)
    BY <1>0, <1>6
  <2> QED
    BY <2>1
<1> QED
  BY <1>7 DEF FoldsUp

LEMMA SumExists ==
    ASSUME NEW M, IsFiniteSet(M), NEW f
    PROVE  \E t : SumsUp(M, f, t)
<1> DEFINE c == [s \in SUBSET M |-> AnyOf(s)]
<1>1. \A s \in SUBSET M : c[s] = AnyOf(s) /\ (s # {} => c[s] \in s)
  BY DEF AnyOf
<1> HIDE DEF c
<1>2. PICK t : FoldsUp(M, f, c, t)
  BY <1>1, FoldExists
<1>3. t = [s \in SUBSET M |-> IF s = {} THEN 0 ELSE f[AnyOf(s)] + t[s \ {AnyOf(s)}]]
  BY <1>1, <1>2 DEF FoldsUp
<1> QED
  BY <1>3 DEF SumsUp

(* The sum of larger numbers is larger, and that of nothing is nothing.    *)
LEMMA SumGrows ==
    ASSUME NEW M, IsFiniteSet(M), NEW f, NEW g, NEW t, NEW u, SumsUp(M, f, t), SumsUp(M, g, u),
           \A m \in M : f[m] \in Nat /\ g[m] \in Nat /\ f[m] <= g[m]
    PROVE  /\ t[M] \in Nat /\ u[M] \in Nat /\ t[M] <= u[M]
           /\ (\A m \in M : f[m] = 0) => t[M] = 0
<1> DEFINE Grow(s) == /\ t[s] \in Nat /\ u[s] \in Nat /\ t[s] <= u[s]
                      /\ (\A m \in M : f[m] = 0) => t[s] = 0
           Good == {n \in Nat : \A s \in SUBSET M : Cardinality(s) <= n => Grow(s)}
<1>1. ASSUME NEW s \in SUBSET M
      PROVE  /\ t[s] = IF s = {} THEN 0 ELSE f[AnyOf(s)] + t[s \ {AnyOf(s)}]
             /\ u[s] = IF s = {} THEN 0 ELSE g[AnyOf(s)] + u[s \ {AnyOf(s)}]
  BY DEF SumsUp
<1>2. 0 \in Good
  <2>1. ASSUME NEW s \in SUBSET M, Cardinality(s) <= 0 PROVE s = {}
    BY <2>1, FS_Subset, FS_CardinalityType, FS_EmptySet
  <2> SUFFICES ASSUME NEW s \in SUBSET M, Cardinality(s) <= 0 PROVE Grow(s)
    OBVIOUS
  <2>2. t[s] = 0 /\ u[s] = 0
    BY <1>1, <2>1
  <2> QED
    BY <2>2
<1>3. ASSUME NEW n \in Nat, n \in Good PROVE n + 1 \in Good
  <2> SUFFICES ASSUME NEW s \in SUBSET M, Cardinality(s) <= n + 1 PROVE Grow(s)
    OBVIOUS
  <2>1. CASE s = {}
    <3>1. t[s] = 0 /\ u[s] = 0
      BY <1>1, <2>1
    <3> QED
      BY <3>1
  <2>2. CASE s # {}
    <3> DEFINE x == AnyOf(s)
               less == s \ {x}
    <3>1. x \in M /\ less \in SUBSET M /\ Cardinality(less) <= n
      BY <2>2, OneLess
    <3>2. Grow(less)
      BY <1>3, <3>1
    <3>3. t[s] = f[x] + t[less] /\ u[s] = g[x] + u[less]
      BY <1>1, <2>2
    <3>4. f[x] \in Nat /\ g[x] \in Nat /\ f[x] <= g[x]
      BY <3>1
    <3>5. (\A m \in M : f[m] = 0) => f[x] = 0
      BY <3>1
    <3> HIDE DEF x, less
    <3>6. t[s] \in Nat /\ u[s] \in Nat /\ t[s] <= u[s]
      BY <3>2, <3>3, <3>4
    <3>7. (\A m \in M : f[m] = 0) => t[s] = 0
      <4> SUFFICES ASSUME \A m \in M : f[m] = 0 PROVE t[s] = 0
        OBVIOUS
      <4>1. t[less] = 0 /\ f[x] = 0
        BY <3>2, <3>5
      <4> QED
        BY <3>3, <4>1
    <3> QED
      BY <3>6, <3>7
  <2> QED
    BY <2>1, <2>2
<1>4. Nat \subseteq Good
  <2> HIDE DEF Good
  <2> QED
    BY <1>2, <1>3, NatSetInduction
<1>5. Cardinality(M) \in Nat
  BY FS_CardinalityType
<1> QED
  BY <1>4, <1>5

(* Numbers can be added up in any order.                                   *)
Numbers(f, M) == \A x \in M : f[x] \in Int

LEMMA SumTakesAny ==
    ASSUME NEW M, IsFiniteSet(M), NEW f, NEW t, SumsUp(M, f, t), Numbers(f, M)
    PROVE  /\ t[{}] = 0
           /\ \A s \in SUBSET M : t[s] \in Int
           /\ \A s \in SUBSET M : \A x \in s : t[s] = f[x] + t[s \ {x}]
<1> DEFINE AnyNext(s) == t[s] \in Int /\ \A x \in s : t[s] = f[x] + t[s \ {x}]
           Good == {n \in Nat : \A s \in SUBSET M : Cardinality(s) <= n => AnyNext(s)}
<1>1. ASSUME NEW s \in SUBSET M
      PROVE  t[s] = IF s = {} THEN 0 ELSE f[AnyOf(s)] + t[s \ {AnyOf(s)}]
  BY DEF SumsUp
<1>2. 0 \in Good
  <2>1. ASSUME NEW s \in SUBSET M, Cardinality(s) <= 0 PROVE s = {}
    BY <2>1, FS_Subset, FS_CardinalityType, FS_EmptySet
  <2> SUFFICES ASSUME NEW s \in SUBSET M, Cardinality(s) <= 0 PROVE AnyNext(s)
    OBVIOUS
  <2>2. t[s] = 0 /\ s = {}
    BY <1>1, <2>1
  <2> QED
    BY <2>2
<1>3. ASSUME NEW n \in Nat, n \in Good PROVE n + 1 \in Good
  <2> SUFFICES ASSUME NEW s \in SUBSET M, Cardinality(s) <= n + 1 PROVE AnyNext(s)
    OBVIOUS
  <2>1. CASE s = {}
    <3>1. t[s] = 0
      BY <1>1, <2>1
    <3> QED
      BY <2>1, <3>1
  <2>2. CASE s # {}
    <3> DEFINE y == AnyOf(s)
               less == s \ {y}
    <3>1. y \in s /\ y \in M /\ less \in SUBSET M /\ Cardinality(less) <= n
      <4>1. y \in s
        BY <2>2 DEF AnyOf
      <4> QED
        BY <2>2, <4>1, OneLess
    <3>2. AnyNext(less)
      BY <1>3, <3>1
    <3>3. t[s] = f[y] + t[less] /\ f[y] \in Int
      BY <1>1, <2>2, <3>1 DEF Numbers
    <3>4. ASSUME NEW x \in s PROVE t[s] = f[x] + t[s \ {x}]
      <4>1. CASE x = y
        BY <3>3, <4>1
      <4>2. CASE x # y
        <5> DEFINE other == s \ {x}
                   both == less \ {x}
        <5>1. x \in less /\ y \in other /\ other \ {y} = both /\ other \in SUBSET M /\ x \in M
          BY <3>1, <4>2
        <5>2. t[less] = f[x] + t[both]
          BY <3>2, <5>1
        <5>3. IsFiniteSet(s) /\ Cardinality(s) \in Nat /\ Cardinality(other) = Cardinality(s) - 1
          BY FS_Subset, FS_CardinalityType, FS_RemoveElement
        <5>4. AnyNext(other)
          <6>1. Cardinality(other) <= n
            BY <5>3
          <6> HIDE DEF AnyNext, other
          <6> QED
            BY <1>3, <5>1, <6>1
        <5>5. t[other] = f[y] + t[both]
          BY <5>1, <5>4
        <5>6. IsFiniteSet(less) /\ Cardinality(less) \in Nat /\ Cardinality(both) = Cardinality(less) - 1
          BY <3>1, <5>1, FS_Subset, FS_CardinalityType, FS_RemoveElement
        <5>7. both \in SUBSET M /\ Cardinality(both) <= n
          BY <3>1, <5>6
        <5>8. t[both] \in Int
          BY <1>3, <5>7
        <5>9. f[x] \in Int
          BY <5>1 DEF Numbers
        <5> HIDE DEF y, less, other, both
        <5>10. f[y] + (f[x] + t[both]) = f[x] + (f[y] + t[both])
          BY <3>3, <5>8, <5>9
        <5> QED
          BY <3>3, <5>2, <5>5, <5>10 DEF other
      <4> QED
        BY <4>1, <4>2
    <3>5. t[s] \in Int
      BY <3>2, <3>3
    <3> QED
      BY <3>4, <3>5
  <2> QED
    BY <2>1, <2>2
<1>4. Nat \subseteq Good
  <2> HIDE DEF Good
  <2> QED
    BY <1>2, <1>3, NatSetInduction
<1>5. ASSUME NEW s \in SUBSET M PROVE AnyNext(s)
  <2>1. Cardinality(s) \in Nat
    BY FS_Subset, FS_CardinalityType
  <2>2. Cardinality(s) \in Good /\ Cardinality(s) <= Cardinality(s)
    BY <1>4, <2>1
  <2> HIDE DEF AnyNext
  <2> QED
    BY <2>2
<1>6. t[{}] = 0
  BY <1>1
<1> QED
  BY <1>5, <1>6

-------------------------------------------------------------------------------
(* Copies and codes of any ids; every operation leads to a copy again.     *)
Copies(tiles) == [fb : SUBSET Int, image : [tiles -> SUBSET Int]]
Ranged(key) == [key : {key}, from : Int, to : Int]
Codes == [key : {"MERGE_ALL_TILES"}] \cup Ranged("DECODE") \cup Ranged("MERGE_TILE")

LEMMA MergeTilesType ==
    ASSUME NEW Image, NEW copy \in Copies(Image), NEW tiles
    PROVE  /\ MergeTiles(copy, tiles) \in Copies(Image)
           /\ MergeTiles(copy, tiles).fb = copy.fb
           /\ MergeTiles(copy, tiles).image =
                [t \in Image |-> IF t \in tiles THEN copy.fb ELSE copy.image[t]]
BY DEF MergeTiles, Copies

LEMMA DecodeMessagesType ==
    ASSUME NEW Image, NEW copy \in Copies(Image), NEW ids \in SUBSET Int
    PROVE  /\ DecodeMessages(copy, ids) \in Copies(Image)
           /\ DecodeMessages(copy, ids).fb = copy.fb \cup ids
           /\ DecodeMessages(copy, ids).image = copy.image
BY DEF DecodeMessages, Copies

LEMMA ApplyCodeType ==
    ASSUME NEW Image, NEW copy \in Copies(Image), NEW code \in Codes
    PROVE  ApplyCode(copy, code) \in Copies(Image)
<1>1. code.key = "MERGE_ALL_TILES" \/ (code.from \in Int /\ code.to \in Int)
  BY DEF Codes, Ranged
<1>2. CASE code.key = "MERGE_ALL_TILES"
  BY <1>2, MergeTilesType DEF ApplyCode
<1>3. CASE code.key # "MERGE_ALL_TILES" /\ code.key = "DECODE"
  <2>1. code.from .. code.to \in SUBSET Int
    BY <1>1, <1>3
  <2> QED
    BY <1>3, <2>1, DecodeMessagesType DEF ApplyCode
<1>4. CASE code.key # "MERGE_ALL_TILES" /\ code.key # "DECODE"
  BY <1>4, MergeTilesType DEF ApplyCode
<1> QED
  BY <1>2, <1>3, <1>4

(* The loop of decodeLoop, as a function of the number of codes read.      *)
IsDecodeRun(f, Image, copy, data) ==
    /\ f \in [0 .. Len(data) -> Copies(Image)]
    /\ f[0] = copy
    /\ \A n \in 1 .. Len(data) : f[n] = ApplyCode(f[n - 1], data[n])
    /\ DecodeLoop(copy, data) = f[Len(data)]

LEMMA DecodeLoopRuns ==
    ASSUME NEW Image, NEW copy \in Copies(Image), NEW data \in Seq(Codes)
    PROVE  \E f : IsDecodeRun(f, Image, copy, data)
<1> DEFINE L == Len(data)
           step == [p \in Copies(Image) \X (1 .. L) |-> ApplyCode(p[1], data[p[2]])]
           Run(f) == f = [n \in 0 .. L |->
                            IF n = 0 THEN copy ELSE ApplyCode(f[n - 1], data[n])]
           After == CHOOSE f : Run(f)
<1>1. L \in Nat /\ \A n \in 1 .. L : data[n] \in Codes
  BY LenProperties, ElementOfSeq
<1>2. step \in [Copies(Image) \X (1 .. L) -> Copies(Image)]
  BY <1>1, ApplyCodeType
<1> HIDE DEF step
<1>3. PICK g : IsRun(g, Copies(Image), copy, step, L)
  BY <1>1, <1>2, LoopRuns
<1>4. /\ g \in [0 .. L -> Copies(Image)]
      /\ g[0] = copy
      /\ \A n \in 1 .. L : g[n] = ApplyCode(g[n - 1], data[n])
  <2>1. g \in [0 .. L -> Copies(Image)] /\ g[0] = copy
    BY <1>3 DEF IsRun
  <2>2. ASSUME NEW n \in 1 .. L PROVE g[n] = ApplyCode(g[n - 1], data[n])
    <3>1. g[n] = step[<<g[n - 1], n>>]
      BY <1>3 DEF IsRun
    <3>2. n - 1 \in 0 .. L
      BY <1>1
    <3>3. <<g[n - 1], n>> \in Copies(Image) \X (1 .. L)
      BY <2>1, <3>2
    <3> QED
      BY <3>1, <3>3 DEF step
  <2> QED
    BY <2>1, <2>2
<1>5. Run(g)
  <2>1. g = [n \in 0 .. L |-> g[n]]
    BY <1>4
  <2>2. \A n \in 0 .. L : g[n] = IF n = 0 THEN copy ELSE ApplyCode(g[n - 1], data[n])
    BY <1>1, <1>4
  <2> QED
    BY <2>1, <2>2
<1>6. Run(After)
  BY <1>5
<1>7. DecodeLoop(copy, data) = After[L]
  BY DEF DecodeLoop
<1> HIDE DEF After
<1>8. \A n \in 0 .. L : After[n] = IF n = 0 THEN copy ELSE ApplyCode(After[n - 1], data[n])
  BY <1>6
<1>9. \A n \in 0 .. L : After[n] = g[n]
  <2>1. After[0] = g[0]
    BY <1>1, <1>4, <1>8
  <2>2. ASSUME NEW n \in 1 .. L, After[n - 1] = g[n - 1] PROVE After[n] = g[n]
    <3>1. n \in 0 .. L /\ n # 0
      BY <1>1
    <3>2. After[n] = ApplyCode(After[n - 1], data[n])
      BY <1>8, <3>1
    <3>3. g[n] = ApplyCode(g[n - 1], data[n])
      BY <1>4
    <3> QED
      BY <2>2, <3>2, <3>3
  <2>3. \A n \in 1 .. L : After[n - 1] = g[n - 1] => After[n] = g[n]
    BY <2>2
  <2>4. InStep(After, g, L)
    BY <1>1, <2>1, <2>3 DEF InStep
  <2> QED
    BY <2>4, LoopsAgree
<1>10. g[L] = DecodeLoop(copy, data)
  BY <1>1, <1>7, <1>9
<1>11. IsDecodeRun(g, Image, copy, data)
  BY <1>4, <1>10 DEF IsDecodeRun
<1> QED
  BY <1>11

LEMMA DecodeLoopEmpty ==
    ASSUME NEW Image, NEW copy \in Copies(Image)
    PROVE  DecodeLoop(copy, <<>>) = copy
<1>1. <<>> \in Seq(Codes) /\ Len(<<>>) = 0
  BY EmptySeq
<1>2. PICK f : IsDecodeRun(f, Image, copy, <<>>)
  BY <1>1, DecodeLoopRuns
<1> QED
  BY <1>1, <1>2 DEF IsDecodeRun

LEMMA DecodeLoopType ==
    ASSUME NEW Image, NEW copy \in Copies(Image), NEW data \in Seq(Codes)
    PROVE  DecodeLoop(copy, data) \in Copies(Image)
<1>1. PICK f : IsDecodeRun(f, Image, copy, data)
  BY DecodeLoopRuns
<1>2. Len(data) \in 0 .. Len(data)
  BY LenProperties
<1> QED
  BY <1>1, <1>2 DEF IsDecodeRun

LEMMA DecodeLoopAppend ==
    ASSUME NEW Image, NEW copy \in Copies(Image), NEW data \in Seq(Codes), NEW code \in Codes
    PROVE  DecodeLoop(copy, Append(data, code)) = ApplyCode(DecodeLoop(copy, data), code)
<1> DEFINE L == Len(data)
           longer == Append(data, code)
<1>1. /\ longer \in Seq(Codes) /\ Len(longer) = L + 1 /\ longer[L + 1] = code
      /\ \A n \in 1 .. L : longer[n] = data[n]
      /\ L \in Nat
  BY AppendProperties, LenProperties
<1> HIDE DEF longer
<1>2. PICK f :
         /\ f[0] = copy
         /\ \A n \in 1 .. L : f[n] = ApplyCode(f[n - 1], data[n])
         /\ DecodeLoop(copy, data) = f[L]
  BY DecodeLoopRuns DEF IsDecodeRun
<1>3. PICK g :
         /\ g[0] = copy
         /\ \A n \in 1 .. L + 1 : g[n] = ApplyCode(g[n - 1], longer[n])
         /\ DecodeLoop(copy, longer) = g[L + 1]
  <2>1. PICK g : IsDecodeRun(g, Image, copy, longer)
    BY <1>1, DecodeLoopRuns
  <2> QED
    BY <1>1, <2>1 DEF IsDecodeRun
<1>4. \A n \in 0 .. L : g[n] = f[n]
  <2>1. ASSUME NEW n \in 1 .. L, g[n - 1] = f[n - 1] PROVE g[n] = f[n]
    <3>1. n \in 1 .. L + 1 /\ longer[n] = data[n]
      BY <1>1
    <3>2. f[n] = ApplyCode(f[n - 1], data[n])
      BY <1>2
    <3>3. g[n] = ApplyCode(g[n - 1], longer[n])
      BY <1>3, <3>1
    <3> QED
      BY <2>1, <3>1, <3>2, <3>3
  <2>2. g[0] = f[0] /\ L \in Nat
    BY <1>1, <1>2, <1>3
  <2>3. InStep(g, f, L)
    BY <2>1, <2>2 DEF InStep
  <2> QED
    BY <2>3, LoopsAgree
<1>5. g[L + 1] = ApplyCode(g[L], code)
  <2>1. L + 1 \in 1 .. L + 1 /\ (L + 1) - 1 = L
    BY <1>1
  <2> QED
    BY <1>1, <1>3, <2>1
<1> QED
  BY <1>1, <1>2, <1>3, <1>4, <1>5 DEF longer

LEMMA DecodeLoopConcat ==
    ASSUME NEW Image, NEW copy \in Copies(Image), NEW first \in Seq(Codes), NEW second \in Seq(Codes)
    PROVE  DecodeLoop(copy, first \o second) = DecodeLoop(DecodeLoop(copy, first), second)
<1> DEFINE T == {s \in Seq(Codes) :
                   DecodeLoop(copy, first \o s) = DecodeLoop(DecodeLoop(copy, first), s)}
<1>1. DecodeLoop(copy, first) \in Copies(Image)
  BY DecodeLoopType
<1>2. <<>> \in T
  BY <1>1, EmptySeq, ConcatEmptySeq, DecodeLoopEmpty
<1>3. ASSUME NEW s \in Seq(Codes), NEW code \in Codes, s \in T PROVE Append(s, code) \in T
  <2>1. first \o s \in Seq(Codes) /\ Append(s, code) \in Seq(Codes)
    BY ConcatProperties, AppendProperties
  <2>2. first \o Append(s, code) = Append(first \o s, code)
    <3>1. <<code>> \in Seq(Codes)
      OBVIOUS
    <3>2. Append(s, code) = s \o <<code>> /\ Append(first \o s, code) = (first \o s) \o <<code>>
      BY <2>1, AppendIsConcat
    <3> QED
      BY <3>1, <3>2, ConcatAssociative
  <2>3. DecodeLoop(copy, Append(first \o s, code)) = ApplyCode(DecodeLoop(copy, first \o s), code)
    BY <2>1, DecodeLoopAppend
  <2>4. DecodeLoop(DecodeLoop(copy, first), Append(s, code))
          = ApplyCode(DecodeLoop(DecodeLoop(copy, first), s), code)
    BY <1>1, DecodeLoopAppend
  <2> QED
    BY <1>3, <2>1, <2>2, <2>3, <2>4
<1>4. Seq(Codes) \subseteq T
  BY <1>2, <1>3, SeqInduction
<1> QED
  BY <1>4

-------------------------------------------------------------------------------
(* Ranges hold the ids that they were made of, and no other ones.          *)
IdRange == {range \in [from : Int, to : Int] : range.from <= range.to}
Covered(ranges) ==
    {id \in Int : \E i \in 1 .. Len(ranges) : ranges[i].from <= id /\ id <= ranges[i].to}

LEMMA CoveredEmpty == Covered(<<>>) = {}
BY EmptySeq DEF Covered

LEMMA CoveredAppend ==
    ASSUME NEW ranges \in Seq(IdRange), NEW range \in IdRange
    PROVE  Covered(Append(ranges, range)) = Covered(ranges) \cup (range.from .. range.to)
<1> DEFINE longer == Append(ranges, range)
<1>1. /\ Len(longer) = Len(ranges) + 1 /\ longer[Len(ranges) + 1] = range
      /\ \A i \in 1 .. Len(ranges) : longer[i] = ranges[i]
      /\ Len(ranges) \in Nat
  BY AppendProperties, LenProperties
<1> HIDE DEF longer
<1>2. \A i : i \in 1 .. Len(longer) <=> i \in 1 .. Len(ranges) \/ i = Len(ranges) + 1
  BY <1>1
<1>3. range.from \in Int /\ range.to \in Int
  BY DEF IdRange
<1>4. ASSUME NEW id \in Int
      PROVE  id \in Covered(longer) <=> id \in Covered(ranges) \/ id \in range.from .. range.to
  BY <1>1, <1>2, <1>3 DEF Covered
<1>5. range.from .. range.to \subseteq Int
  BY <1>3
<1> QED
  BY <1>4, <1>5 DEF Covered, longer

LEMMA AddToRangesCovers ==
    ASSUME NEW ranges \in Seq(IdRange), NEW id \in Int
    PROVE  /\ AddToRanges(ranges, id) \in Seq(IdRange)
           /\ Covered(AddToRanges(ranges, id)) = Covered(ranges) \cup {id}
<1>1. CASE ~ Extends(ranges, id)
  <2> DEFINE single == [from |-> id, to |-> id]
  <2>1. single \in IdRange /\ single.from .. single.to = {id}
    BY DEF IdRange
  <2>2. AddToRanges(ranges, id) = Append(ranges, single)
    BY <1>1 DEF AddToRanges
  <2> HIDE DEF single
  <2> QED
    BY <2>1, <2>2, CoveredAppend, AppendProperties
<1>2. CASE Extends(ranges, id)
  <2>1. ranges # <<>> /\ id = Last(ranges).to + 1
    BY <1>2 DEF Extends
  <2>2. PICK front \in Seq(IdRange), last \in IdRange : ranges = Append(front, last)
    BY <2>1, SequenceEmptyOrAppend
  <2>3. Last(ranges) = last
    BY <2>2, AppendProperties, LenProperties DEF Last
  <2>4. Front(ranges) = front
    <3>1. Len(ranges) = Len(front) + 1 /\ Len(front) \in Nat
          /\ \A i \in 1 .. Len(front) : ranges[i] = front[i]
      BY <2>2, AppendProperties, LenProperties
    <3>2. Front(ranges) = SubSeq(ranges, 1, Len(front))
      BY <3>1 DEF Front
    <3>3. Front(ranges) \in Seq(IdRange) /\ Len(Front(ranges)) = Len(front)
          /\ \A i \in 1 .. Len(front) : Front(ranges)[i] = ranges[i]
      BY <3>1, <3>2, SubSeqProperties
    <3> QED
      BY <3>1, <3>3, SeqEqual
  <2> DEFINE longer == [last EXCEPT !.to = id]
  <2>5. /\ longer \in IdRange /\ last.from \in Int /\ last.to \in Int
        /\ longer.from = last.from /\ longer.to = last.to + 1 /\ last.from <= last.to
    BY <2>1, <2>3 DEF IdRange
  <2>6. AddToRanges(ranges, id) = Append(front, longer)
    BY <1>2, <2>3, <2>4 DEF AddToRanges
  <2> HIDE DEF longer
  <2>7. longer.from .. longer.to = (last.from .. last.to) \cup {id}
    BY <2>1, <2>3, <2>5
  <2>8. Covered(Append(front, longer)) = Covered(front) \cup (longer.from .. longer.to)
    BY <2>5, CoveredAppend
  <2>9. Covered(ranges) = Covered(front) \cup (last.from .. last.to)
    BY <2>2, CoveredAppend
  <2> QED
    BY <2>5, <2>6, <2>7, <2>8, <2>9, AppendProperties
<1> QED
  BY <1>1, <1>2

LEMMA RangesCover ==
    ASSUME NEW ids \in Seq(Int)
    PROVE  /\ Ranges(ids) \in Seq(IdRange)
           /\ Covered(Ranges(ids)) = {ids[i] : i \in 1 .. Len(ids)}
<1> DEFINE L == Len(ids)
           X == Seq(IdRange)
           step == [p \in X \X (1 .. L) |-> AddToRanges(p[1], ids[p[2]])]
           Run(f) == f = [n \in 0 .. L |->
                            IF n = 0 THEN <<>> ELSE AddToRanges(f[n - 1], ids[n])]
           After == CHOOSE f : Run(f)
<1>1. L \in Nat /\ \A n \in 1 .. L : ids[n] \in Int
  BY LenProperties, ElementOfSeq
<1>2. step \in [X \X (1 .. L) -> X]
  BY <1>1, AddToRangesCovers
<1>3. <<>> \in X
  BY EmptySeq
<1> HIDE DEF step, X
<1>4. PICK g : IsRun(g, X, <<>>, step, L)
  BY <1>1, <1>2, <1>3, LoopRuns
<1>5. g \in [0 .. L -> X] /\ g[0] = <<>>
  BY <1>4 DEF IsRun
<1>6. ASSUME NEW n \in 1 .. L PROVE g[n] = AddToRanges(g[n - 1], ids[n])
  <2>1. g[n] = step[<<g[n - 1], n>>]
    BY <1>4 DEF IsRun
  <2>2. n - 1 \in 0 .. L
    BY <1>1
  <2>3. <<g[n - 1], n>> \in X \X (1 .. L)
    BY <1>5, <2>2
  <2> QED
    BY <2>1, <2>3 DEF step
<1>7. Run(g)
  <2>1. g = [n \in 0 .. L |-> g[n]]
    BY <1>5
  <2>2. \A n \in 0 .. L : g[n] = IF n = 0 THEN <<>> ELSE AddToRanges(g[n - 1], ids[n])
    BY <1>1, <1>5, <1>6
  <2> QED
    BY <2>1, <2>2
<1>8. Run(After)
  BY <1>7
<1>9. Ranges(ids) = After[L]
  BY DEF Ranges
<1> HIDE DEF After
<1>10. \A n \in 0 .. L : After[n] = IF n = 0 THEN <<>> ELSE AddToRanges(After[n - 1], ids[n])
  BY <1>8
<1> DEFINE T == {n \in Nat : n <= L =>
                   /\ After[n] \in Seq(IdRange)
                   /\ Covered(After[n]) = {ids[i] : i \in 1 .. n}}
<1>11. 0 \in T
  <2>1. After[0] = <<>> /\ {ids[i] : i \in 1 .. 0} = {}
    BY <1>1, <1>10
  <2> QED
    BY <2>1, CoveredEmpty, EmptySeq
<1>12. ASSUME NEW n \in Nat, n \in T PROVE n + 1 \in T
  <2> SUFFICES ASSUME n + 1 <= L
               PROVE  /\ After[n + 1] \in Seq(IdRange)
                      /\ Covered(After[n + 1]) = {ids[i] : i \in 1 .. n + 1}
    OBVIOUS
  <2>1. After[n] \in Seq(IdRange) /\ Covered(After[n]) = {ids[i] : i \in 1 .. n}
    BY <1>1, <1>12
  <2>2. After[n + 1] = AddToRanges(After[n], ids[n + 1])
    <3>1. n + 1 \in 0 .. L /\ n + 1 # 0 /\ (n + 1) - 1 = n
      BY <1>1
    <3> QED
      BY <1>10, <3>1
  <2>3. ids[n + 1] \in Int
    BY <1>1
  <2>4. {ids[i] : i \in 1 .. n + 1} = {ids[i] : i \in 1 .. n} \cup {ids[n + 1]}
    OBVIOUS
  <2> QED
    BY <2>1, <2>2, <2>3, <2>4, AddToRangesCovers
<1>13. L \in T
  BY <1>1, <1>11, <1>12, NatSetInduction
<1> QED
  BY <1>1, <1>9, <1>13

-------------------------------------------------------------------------------
(* The codes of ranges do to a copy what one operation on the ids does.    *)
Coded(key, ranges) == [i \in DOMAIN ranges |-> Code(key, ranges[i])]

LEMMA CodedAppend ==
    ASSUME NEW key \in {"DECODE", "MERGE_TILE"},
           NEW ranges \in Seq(IdRange), NEW range \in IdRange
    PROVE  /\ Coded(key, ranges) \in Seq(Codes)
           /\ Code(key, range) \in Codes
           /\ Coded(key, Append(ranges, range)) = Append(Coded(key, ranges), Code(key, range))
<1>1. \A r \in IdRange : Code(key, r) \in Codes
  BY DEF Code, Codes, Ranged, IdRange
<1>2. ASSUME NEW rs \in Seq(IdRange)
      PROVE  /\ Coded(key, rs) \in Seq(Codes)
             /\ Len(Coded(key, rs)) = Len(rs)
             /\ \A i \in 1 .. Len(rs) : Coded(key, rs)[i] = Code(key, rs[i])
  <2>1. Len(rs) \in Nat /\ DOMAIN rs = 1 .. Len(rs) /\ \A i \in 1 .. Len(rs) : rs[i] \in IdRange
    BY LenProperties, ElementOfSeq
  <2>2. Coded(key, rs) = [i \in 1 .. Len(rs) |-> Code(key, rs[i])]
    BY <2>1 DEF Coded
  <2> QED
    BY <1>1, <2>1, <2>2
<1> DEFINE longer == Append(ranges, range)
<1>3. /\ longer \in Seq(IdRange) /\ Len(longer) = Len(ranges) + 1
      /\ longer[Len(ranges) + 1] = range /\ Len(ranges) \in Nat
      /\ \A i \in 1 .. Len(ranges) : longer[i] = ranges[i]
  BY AppendProperties, LenProperties
<1> HIDE DEF longer
<1>4. Coded(key, longer) = Append(Coded(key, ranges), Code(key, range))
  <2> DEFINE a == Coded(key, longer)
             b == Append(Coded(key, ranges), Code(key, range))
  <2>1. /\ a \in Seq(Codes) /\ Len(a) = Len(ranges) + 1
        /\ \A i \in 1 .. Len(ranges) + 1 : a[i] = Code(key, longer[i])
    BY <1>2, <1>3
  <2>2. /\ b \in Seq(Codes) /\ Len(b) = Len(ranges) + 1
        /\ \A i \in 1 .. Len(ranges) : b[i] = Code(key, ranges[i])
        /\ b[Len(ranges) + 1] = Code(key, range)
    BY <1>1, <1>2, AppendProperties
  <2> HIDE DEF a, b
  <2>3. \A i \in 1 .. Len(a) : a[i] = b[i]
    BY <1>3, <2>1, <2>2
  <2>4. a = b
    BY <2>1, <2>2, <2>3, SeqEqual
  <2> QED
    BY <2>4 DEF a, b
<1> QED
  BY <1>1, <1>2, <1>4 DEF longer

LEMMA CodedEmpty == \A key : Coded(key, <<>>) = <<>>
BY DEF Coded

LEMMA ReplayOfDecode ==
    ASSUME NEW Image, NEW copy \in Copies(Image), NEW ranges \in Seq(IdRange)
    PROVE  DecodeLoop(copy, Coded("DECODE", ranges)) = DecodeMessages(copy, Covered(ranges))
<1> DEFINE T == {rs \in Seq(IdRange) :
                   DecodeLoop(copy, Coded("DECODE", rs)) = DecodeMessages(copy, Covered(rs))}
<1>1. <<>> \in T
  <2>1. DecodeMessages(copy, {}) = copy
    BY DEF DecodeMessages, Copies
  <2> QED
    BY <2>1, CodedEmpty, CoveredEmpty, DecodeLoopEmpty, EmptySeq
<1>2. ASSUME NEW rs \in Seq(IdRange), NEW range \in IdRange, rs \in T
      PROVE  Append(rs, range) \in T
  <2> DEFINE ids == Covered(rs)
             more == range.from .. range.to
             code == Code("DECODE", range)
  <2>1. ids \in SUBSET Int /\ more \in SUBSET Int
    BY DEF Covered, IdRange
  <2>2. DecodeLoop(copy, Coded("DECODE", Append(rs, range)))
          = ApplyCode(DecodeMessages(copy, ids), code)
    <3>1. /\ Coded("DECODE", rs) \in Seq(Codes) /\ code \in Codes
          /\ Coded("DECODE", Append(rs, range)) = Append(Coded("DECODE", rs), code)
      BY CodedAppend
    <3>2. DecodeLoop(copy, Coded("DECODE", rs)) = DecodeMessages(copy, ids)
      BY <1>2
    <3> HIDE DEF code, ids
    <3> QED
      BY <3>1, <3>2, DecodeLoopAppend
  <2>3. ApplyCode(DecodeMessages(copy, ids), code)
          = DecodeMessages(DecodeMessages(copy, ids), more)
    <3>1. code.key = "DECODE" /\ code.from = range.from /\ code.to = range.to
      BY DEF Code
    <3> QED
      BY <3>1 DEF ApplyCode
  <2> HIDE DEF ids, more
  <2>4. DecodeMessages(DecodeMessages(copy, ids), more) = DecodeMessages(copy, ids \cup more)
    BY <2>1 DEF DecodeMessages, Copies
  <2>5. Covered(Append(rs, range)) = ids \cup more
    BY CoveredAppend DEF ids, more
  <2> QED
    BY <2>2, <2>3, <2>4, <2>5, AppendProperties
<1>3. Seq(IdRange) \subseteq T
  BY <1>1, <1>2, SeqInduction
<1> QED
  BY <1>3

LEMMA ReplayOfMerge ==
    ASSUME NEW Image, NEW copy \in Copies(Image), NEW ranges \in Seq(IdRange)
    PROVE  DecodeLoop(copy, Coded("MERGE_TILE", ranges)) = MergeTiles(copy, Covered(ranges))
<1> DEFINE T == {rs \in Seq(IdRange) :
                   DecodeLoop(copy, Coded("MERGE_TILE", rs)) = MergeTiles(copy, Covered(rs))}
<1>1. <<>> \in T
  <2>1. MergeTiles(copy, {}) = copy
    BY DEF MergeTiles, Copies
  <2> QED
    BY <2>1, CodedEmpty, CoveredEmpty, DecodeLoopEmpty, EmptySeq
<1>2. ASSUME NEW rs \in Seq(IdRange), NEW range \in IdRange, rs \in T
      PROVE  Append(rs, range) \in T
  <2> DEFINE tiles == Covered(rs)
             more == range.from .. range.to
             code == Code("MERGE_TILE", range)
  <2>1. DecodeLoop(copy, Coded("MERGE_TILE", Append(rs, range)))
          = ApplyCode(MergeTiles(copy, tiles), code)
    <3>1. /\ Coded("MERGE_TILE", rs) \in Seq(Codes) /\ code \in Codes
          /\ Coded("MERGE_TILE", Append(rs, range)) = Append(Coded("MERGE_TILE", rs), code)
      BY CodedAppend
    <3>2. DecodeLoop(copy, Coded("MERGE_TILE", rs)) = MergeTiles(copy, tiles)
      BY <1>2
    <3> HIDE DEF code, tiles
    <3> QED
      BY <3>1, <3>2, DecodeLoopAppend
  <2>2. ApplyCode(MergeTiles(copy, tiles), code) = MergeTiles(MergeTiles(copy, tiles), more)
    <3>1. code.key = "MERGE_TILE" /\ code.from = range.from /\ code.to = range.to
      BY DEF Code
    <3> QED
      BY <3>1 DEF ApplyCode
  <2> HIDE DEF tiles, more
  <2>3. MergeTiles(MergeTiles(copy, tiles), more) = MergeTiles(copy, tiles \cup more)
    BY DEF MergeTiles, Copies
  <2>4. Covered(Append(rs, range)) = tiles \cup more
    BY CoveredAppend DEF tiles, more
  <2> QED
    BY <2>1, <2>2, <2>3, <2>4, AppendProperties
<1>3. Seq(IdRange) \subseteq T
  BY <1>1, <1>2, SeqInduction
<1> QED
  BY <1>3

(* Upwards goes through all the ids of a finite set.                       *)
LEMMA UpwardsEnumerates ==
    ASSUME NEW ids \in SUBSET Int, IsFiniteSet(ids)
    PROVE  /\ Upwards(ids) \in Seq(ids) /\ Len(Upwards(ids)) = Cardinality(ids)
           /\ {Upwards(ids)[i] : i \in 1 .. Len(Upwards(ids))} = ids
<1> DEFINE n == Cardinality(ids)
           Lower(id) == {lower \in ids : lower < id}
           rank == [id \in ids |-> Cardinality(Lower(id))]
<1>1. n \in Nat
  BY FS_CardinalityType
<1>2. ASSUME NEW a \in ids
      PROVE  /\ rank[a] \in 0 .. n - 1
             /\ \A b \in ids : a < b => rank[a] < rank[b]
  <2>1. IsFiniteSet(Lower(a)) /\ Cardinality(Lower(a)) \in Nat
    BY FS_Subset, FS_CardinalityType
  <2>2. ASSUME NEW S \in SUBSET ids, Lower(a) \subseteq S, a \in S
        PROVE  Cardinality(Lower(a)) < Cardinality(S) /\ Cardinality(S) \in Nat
    <3>1. IsFiniteSet(S) /\ Cardinality(S) \in Nat
      BY FS_Subset, FS_CardinalityType
    <3>2. Cardinality(Lower(a)) <= Cardinality(S)
          /\ (Cardinality(S) = Cardinality(Lower(a)) => S = Lower(a))
      BY <2>2, <3>1, FS_Subset
    <3>3. a \notin Lower(a)
      OBVIOUS
    <3> QED
      BY <2>1, <2>2, <3>1, <3>2, <3>3
  <2>3. Cardinality(Lower(a)) < n
    BY <2>2
  <2>4. ASSUME NEW b \in ids, a < b PROVE Cardinality(Lower(a)) < Cardinality(Lower(b))
    <3>1. ASSUME NEW lower \in ids, lower < a PROVE lower < b
      <4>1. lower \in Int /\ a \in Int /\ b \in Int
        OBVIOUS
      <4> QED
        BY <2>4, <3>1, <4>1
    <3>2. Lower(a) \subseteq Lower(b) /\ a \in Lower(b)
      BY <2>4, <3>1
    <3> QED
      BY <2>2, <3>2
  <2> QED
    BY <1>1, <2>1, <2>3, <2>4
<1>3. rank \in [ids -> 0 .. n - 1]
  BY <1>2
<1>4. \A id \in ids : Cardinality(Lower(id)) = rank[id]
  OBVIOUS
<1>5. Upwards(ids) = [i \in 1 .. n |-> CHOOSE id \in ids : Cardinality(Lower(id)) = i - 1]
  BY DEF Upwards
<1> HIDE DEF rank
<1>6. \A a, b \in ids : rank[a] = rank[b] => a = b
  BY <1>2, <1>3
<1>7. rank \in Surjection(ids, 0 .. n - 1)
  <2> DEFINE ranks == 0 .. n - 1
  <2>1. rank \in Injection(ids, ranks)
    BY <1>3, <1>6 DEF Injection, IsInjective
  <2>2. IsFiniteSet(ranks) /\ Cardinality(ranks) = n
    BY <1>1, FS_Interval, SMTT(30)
  <2>3. IsFiniteSet(ids) /\ Cardinality(ids) = n
    BY <1>1
  <2>4. rank \in Surjection(ids, ranks)
    <3> HIDE DEF ranks, n
    <3> QED
      BY <2>1, <2>2, <2>3, FS_Injection
  <2> QED
    BY <2>4
<1> DEFINE Nth(i) == CHOOSE id \in ids : Cardinality(Lower(id)) = i - 1
<1>8. ASSUME NEW i \in 1 .. n PROVE Nth(i) \in ids /\ rank[Nth(i)] = i - 1
  <2>1. i - 1 \in 0 .. n - 1
    BY <1>1
  <2>2. \E id \in ids : rank[id] = i - 1
    BY <1>7, <2>1 DEF Surjection
  <2> QED
    BY <1>4, <2>2
<1>9. ASSUME NEW id \in ids PROVE \E i \in 1 .. n : Nth(i) = id
  <2>1. rank[id] + 1 \in 1 .. n /\ (rank[id] + 1) - 1 = rank[id]
    BY <1>1, <1>3
  <2> QED
    BY <1>6, <1>8, <2>1
<1> HIDE DEF Nth, n
<1>10. Upwards(ids) = [i \in 1 .. n |-> Nth(i)]
  BY <1>5 DEF Nth, n
<1>11. Upwards(ids) \in Seq(ids) /\ Len(Upwards(ids)) = n
  BY <1>1, <1>8, <1>10 DEF n
<1>12. {Upwards(ids)[i] : i \in 1 .. n} = {Nth(i) : i \in 1 .. n}
  BY <1>10
<1>13. {Nth(i) : i \in 1 .. n} = ids
  BY <1>8, <1>9
<1> QED
  BY <1>11, <1>12, <1>13 DEF n

-------------------------------------------------------------------------------
(* What each operation appends to the record does, replayed, the same.     *)
LEMMA TrackedDecode ==
    ASSUME NEW Image, NEW copy \in Copies(Image), NEW ids \in Seq(Int), ids # <<>>
    PROVE  /\ DecodeCodes(ids) \in Seq(Codes)
           /\ DecodeLoop(copy, DecodeCodes(ids))
                = DecodeMessages(copy, {ids[i] : i \in 1 .. Len(ids)})
<1>1. Ranges(ids) \in Seq(IdRange) /\ Covered(Ranges(ids)) = {ids[i] : i \in 1 .. Len(ids)}
  BY RangesCover
<1>2. DecodeCodes(ids) = Coded("DECODE", Ranges(ids))
  BY DEF DecodeCodes, RangesToDecode, Coded
<1>3. Coded("DECODE", Ranges(ids)) \in Seq(Codes)
  <2>1. [from |-> 0, to |-> 0] \in IdRange
    BY DEF IdRange
  <2> QED
    BY <1>1, <2>1, CodedAppend
<1> QED
  BY <1>1, <1>2, <1>3, ReplayOfDecode

LEMMA TrackedMergePartial ==
    ASSUME NEW Image, NEW copy \in Copies(Image), NEW tiles \in SUBSET Int, IsFiniteSet(tiles)
    PROVE  LET codes == Coded("MERGE_TILE", Ranges(Upwards(tiles)))
           IN  /\ codes \in Seq(Codes)
               /\ DecodeLoop(copy, codes) = MergeTiles(copy, tiles)
<1> DEFINE s == Upwards(tiles)
<1>1. s \in Seq(tiles) /\ {s[i] : i \in 1 .. Len(s)} = tiles
  BY UpwardsEnumerates
<1> HIDE DEF s
<1>2. s \in Seq(Int)
  BY <1>1, SeqMonotonic
<1>3. Ranges(s) \in Seq(IdRange) /\ Covered(Ranges(s)) = tiles
  BY <1>1, <1>2, RangesCover
<1>4. Coded("MERGE_TILE", Ranges(s)) \in Seq(Codes)
  <2>1. [from |-> 0, to |-> 0] \in IdRange
    BY DEF IdRange
  <2> QED
    BY <1>3, <2>1, CodedAppend
<1> QED
  BY <1>3, <1>4, ReplayOfMerge DEF s

LEMMA TrackedMergeFull ==
    ASSUME NEW Image, NEW copy \in Copies(Image)
    PROVE  LET code == [key |-> "MERGE_ALL_TILES"]
           IN  code \in Codes /\ ApplyCode(copy, code) = MergeTiles(copy, Image)
BY DEF Codes, ApplyCode, Copies
===============================================================================
