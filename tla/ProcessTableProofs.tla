------------------------- MODULE ProcessTableProofs -------------------------
(***************************************************************************)
(* What the handlers of ProcessTable do to a struct process, for any       *)
(* number of blocks, call stacks and reallocs: each of them keeps Sound    *)
(* (the types, the reference counts and the number of blocks); which of    *)
(* them keep the counters of the process and those of its call stacks; and *)
(* what each leaves behind, block by block and entry by entry, as the      *)
(* proofs about Allocations need it.                                       *)
(***************************************************************************)
EXTENDS ProcessTable, FiniteSetTheorems, SequenceTheorems, TLAPS

-----------------------------------------------------------------------------
(* Bytes, a sum over a finite set.  Its definition is recursive; the       *)
(* induction is on a smallest set where the claim fails.                   *)

Sized(B) == IsFiniteSet(B) /\ \A b \in B : b.size \in Int

Pick(s) == CHOOSE x \in s : TRUE
Sums(S) == {g \in [SUBSET S -> Int] :
              \A s \in SUBSET S : g[s] = IF s = {} THEN 0 ELSE Pick(s).size + g[s \ {Pick(s)}]}
Sum(S) == CHOOSE g : g = [s \in SUBSET S |-> IF s = {} THEN 0 ELSE Pick(s).size + g[s \ {Pick(s)}]]

\* What Bytes stands for.
LEMMA BytesUnfold == ASSUME NEW B PROVE Bytes(B) = Sum(B)[B]
  BY DEF Bytes, MapThenSumSet, MapThenFoldSet, Sum, Pick

\* An element of a nonempty set is picked.
LEMMA PickIn == ASSUME NEW s, s # {} PROVE Pick(s) \in s
  BY DEF Pick

\* Among the subsets of a finite set with a property there is a smallest one.
LEMMA SmallestSubset ==
  ASSUME NEW S, IsFiniteSet(S), NEW F \in SUBSET (SUBSET S), F # {}
  PROVE  \E U \in F : \A V \in F : V \subseteq U => V = U
  <1>1. IsWellFoundedOn(StrictSubsetOrdering(S), SUBSET S)
    BY FS_StrictSubsetOrderingWellFounded, FS_FiniteSubsetsOfFinite
  <1>2. \E U \in F : \A V \in F : ~(<<V, U>> \in StrictSubsetOrdering(S))
    BY <1>1, WFMin
  <1> QED BY <1>2 DEF StrictSubsetOrdering

\* There is at most one such function.
LEMMA SumsUnique ==
  ASSUME NEW S, IsFiniteSet(S), NEW g \in Sums(S), NEW T \in SUBSET S, NEW h \in Sums(T)
  PROVE  g[T] = h[T]
  <1> DEFINE F == {s \in SUBSET T : g[s] # h[s]}
  <1> SUFFICES ASSUME F # {} PROVE FALSE
    OBVIOUS
  <1>1. IsFiniteSet(T)
    BY FS_Subset
  <1>2. PICK U \in F : \A V \in F : V \subseteq U => V = U
    <2>1. F \in SUBSET (SUBSET T)
      OBVIOUS
    <2> HIDE DEF F
    <2> QED BY <1>1, <2>1, SmallestSubset
  <1>3. U # {}
    BY <1>2 DEF Sums
  <1>4. Pick(U) \in U
    BY <1>3, PickIn
  <1>5. g[U \ {Pick(U)}] = h[U \ {Pick(U)}]
    BY <1>2, <1>4
  <1>6. g[U] = Pick(U).size + g[U \ {Pick(U)}] /\ h[U] = Pick(U).size + h[U \ {Pick(U)}]
    BY <1>3 DEF Sums
  <1> QED BY <1>2, <1>5, <1>6

\* There is one.
LEMMA SumsExist == ASSUME NEW S, Sized(S) PROVE Sums(S) # {}
  <1> DEFINE F == {T \in SUBSET S : Sums(T) = {}}
  <1> SUFFICES ASSUME F # {} PROVE FALSE
    OBVIOUS
  <1>1. PICK U \in F : \A V \in F : V \subseteq U => V = U
    <2>1. F \in SUBSET (SUBSET S)
      OBVIOUS
    <2> HIDE DEF F
    <2> QED BY <2>1, SmallestSubset DEF Sized
  <1> DEFINE c(V) == CHOOSE g \in Sums(V) : TRUE
             Rest(V) == V \ {Pick(V)}
             G == [V \in SUBSET U |-> IF V = {} THEN 0 ELSE Pick(V).size + c(Rest(V))[Rest(V)]]
  <1>2. ASSUME NEW V \in SUBSET U, V # {} PROVE Pick(V) \in V /\ Pick(V) \in S /\ Rest(V) # U /\ Rest(V) \in SUBSET U
    BY <1>1, <1>2, PickIn
  <1>3. ASSUME NEW V \in SUBSET U, V # U PROVE c(V) \in Sums(V) /\ IsFiniteSet(V)
    BY <1>1, <1>3, FS_Subset DEF Sized
  <1>4. ASSUME NEW V \in SUBSET U, V # {} PROVE c(Rest(V))[Rest(V)] \in Int /\ Pick(V).size \in Int
    <2>1. c(Rest(V)) \in Sums(Rest(V))
      BY <1>2, <1>3, <1>4
    <2> QED BY <1>2, <1>4, <2>1 DEF Sums, Sized
  <1>5. G \in [SUBSET U -> Int]
    BY <1>4
  <1>6. ASSUME NEW V \in SUBSET U, V # {} PROVE G[V] = Pick(V).size + G[Rest(V)]
    <2> DEFINE W == Rest(V)
    <2>1. W \in SUBSET U /\ W # U /\ c(W) \in Sums(W) /\ IsFiniteSet(W)
      BY <1>2, <1>3, <1>6
    <2>2. CASE W = {}
      <3>1. c(W)[W] = 0
        BY <2>1, <2>2 DEF Sums
      <3> QED BY <1>6, <2>1, <2>2, <3>1
    <2>3. CASE W # {}
      <3> DEFINE X == Rest(W)
      <3>1. X \in SUBSET W /\ X \in SUBSET U /\ X # U /\ c(X) \in Sums(X)
        BY <1>2, <1>3, <2>1, <2>3
      <3>2. c(W)[X] = c(X)[X]
        BY <2>1, <3>1, SumsUnique
      <3>3. c(W)[W] = Pick(W).size + c(W)[X]
        BY <2>1, <2>3 DEF Sums
      <3>4. G[W] = Pick(W).size + c(X)[X]
        BY <2>1, <2>3
      <3> HIDE DEF c, W, X
      <3>5. G[V] = Pick(V).size + c(W)[W]
        BY <1>6 DEF W
      <3> QED BY <3>2, <3>3, <3>4, <3>5 DEF W
    <2> QED BY <2>2, <2>3
  <1>7. G[{}] = 0
    OBVIOUS
  <1>8. G \in Sums(U)
    <2> HIDE DEF G
    <2> QED BY <1>5, <1>6, <1>7 DEF Sums
  <1> QED BY <1>1, <1>8

\* Bytes is the value of any of them.
LEMMA BytesIs == ASSUME NEW S, Sized(S), NEW g \in Sums(S), NEW T \in SUBSET S PROVE Bytes(T) = g[T]
  <1>1. IsFiniteSet(T) /\ Sized(T)
    BY FS_Subset DEF Sized
  <1>2. PICK h \in Sums(T) : TRUE
    BY <1>1, SumsExist
  <1>3. h = [s \in SUBSET T |-> IF s = {} THEN 0 ELSE Pick(s).size + h[s \ {Pick(s)}]]
    BY <1>2 DEF Sums
  <1>4. Sum(T) = [s \in SUBSET T |-> IF s = {} THEN 0 ELSE Pick(s).size + Sum(T)[s \ {Pick(s)}]]
    BY <1>3 DEF Sum
  <1>5. Sum(T) \in Sums(T)
    <2> DEFINE F == {s \in SUBSET T : Sum(T)[s] \notin Int}
    <2>1. CASE F # {}
      <3>1. PICK U \in F : \A V \in F : V \subseteq U => V = U
        <4>1. F \in SUBSET (SUBSET T)
          OBVIOUS
        <4> HIDE DEF F
        <4> QED BY <1>1, <2>1, <4>1, SmallestSubset
      <3>2. U # {}
        BY <1>4, <3>1
      <3>3. Pick(U) \in U /\ Sum(T)[U \ {Pick(U)}] \in Int
        BY <3>1, <3>2, PickIn
      <3>4. Sum(T)[U] = Pick(U).size + Sum(T)[U \ {Pick(U)}]
        BY <1>4, <3>1, <3>2
      <3> QED BY <1>1, <3>1, <3>3, <3>4 DEF Sized
    <2>2. CASE F = {}
      <3>1. DOMAIN Sum(T) = SUBSET T
        BY <1>4
      <3>2. Sum(T) \in [SUBSET T -> Int]
        BY <1>4, <2>2
      <3> QED BY <1>4, <3>2 DEF Sums
    <2> QED BY <2>1, <2>2
  <1>6. Sum(T)[T] = g[T]
    BY <1>5, SumsUnique DEF Sized
  <1> QED BY <1>6, BytesUnfold

\* Bytes is an integer; nothing has no bytes; a block adds its size.
LEMMA BytesFacts ==
  ASSUME NEW B, Sized(B)
  PROVE  /\ Bytes(B) \in Int
         /\ B = {} => Bytes(B) = 0
         /\ \A b \in B : Bytes(B) = b.size + Bytes(B \ {b})
  <1>1. PICK g \in Sums(B) : TRUE
    BY SumsExist
  <1>2. \A T \in SUBSET B : Bytes(T) = g[T]
    BY BytesIs
  <1>3. Bytes(B) \in Int /\ (B = {} => Bytes(B) = 0)
    BY <1>2 DEF Sums
  <1>4. ASSUME NEW b \in B PROVE g[B] = b.size + g[B \ {b}]
    <2> DEFINE F == {T \in SUBSET B : \E x \in T : g[T] # x.size + g[T \ {x}]}
    <2> SUFFICES ASSUME F # {} PROVE FALSE
      OBVIOUS
    <2>1. PICK U \in F : \A V \in F : V \subseteq U => V = U
      <3>1. F \in SUBSET (SUBSET B)
        OBVIOUS
      <3> HIDE DEF F
      <3> QED BY <3>1, SmallestSubset DEF Sized
    <2>2. PICK x \in U : g[U] # x.size + g[U \ {x}]
      BY <2>1
    <2> DEFINE p == Pick(U)
    <2>3. p \in U /\ g[U] = p.size + g[U \ {p}]
      BY <2>1, <2>2, PickIn DEF Sums
    <2>4. p # x
      BY <2>2, <2>3
    <2>5. U \ {p} \notin F /\ U \ {x} \notin F
      BY <2>1, <2>2, <2>3
    <2> HIDE DEF p
    <2> DEFINE R == (U \ {x}) \ {p}
    <2>6. R = (U \ {p}) \ {x}
      OBVIOUS
    <2>7. g[U \ {p}] = x.size + g[R] /\ g[U \ {x}] = p.size + g[R]
      BY <2>1, <2>2, <2>3, <2>4, <2>5, <2>6
    <2>8. p.size \in Int /\ x.size \in Int /\ g[R] \in Int
      BY <2>1, <2>3 DEF Sums, Sized
    <2> HIDE DEF R, F
    <2>9. g[U] = x.size + g[U \ {x}]
      BY <2>3, <2>7, <2>8
    <2> QED BY <2>2, <2>9
  <1> QED BY <1>2, <1>3, <1>4

-----------------------------------------------------------------------------
(* What is counted.                                                        *)

Unique(B) == \A b, c \in B : b.id = c.id => b = c
EntriesIn(L, s) == {i \in DOMAIN L : L[i].addr # 0 /\ L[i].stack = s}
Users(P, s) == Cardinality(On(P.blocks, s)) + Cardinality(Entries(P, s))

\* The references of every node, the count of allocations, and unique pointers.
Referenced(P) ==
  \A s \in Stacks : P.nodes[s].refcnt \in {1 + Users(P, s)} \cup (IF Users(P, s) = 0 THEN {0} ELSE {})
Sound(P) ==
  /\ P \in Process /\ IsFiniteSet(P.blocks) /\ Unique(P.blocks)
  /\ P.n_allocations = Cardinality(P.blocks) /\ Referenced(P)

\* The blocks of a call stack can be counted.
LEMMA OnFinite ==
  ASSUME NEW B, IsFiniteSet(B), NEW s PROVE IsFiniteSet(On(B, s)) /\ Cardinality(On(B, s)) \in Nat
  BY FS_Subset, FS_CardinalityType DEF On

\* One block more, and one less.
LEMMA OnAdd ==
  ASSUME NEW B, IsFiniteSet(B), NEW b, b \notin B, NEW s
  PROVE  Cardinality(On(B \cup {b}, s)) = Cardinality(On(B, s)) + (IF b.stack = s THEN 1 ELSE 0)
  <1>1. CASE b.stack = s
    <2>1. On(B \cup {b}, s) = On(B, s) \cup {b} /\ b \notin On(B, s)
      BY <1>1 DEF On
    <2> QED BY <1>1, <2>1, OnFinite, FS_AddElement
  <1>2. CASE b.stack # s
    <2>1. On(B \cup {b}, s) = On(B, s)
      BY <1>2 DEF On
    <2> QED BY <1>2, <2>1, OnFinite
  <1> QED BY <1>1, <1>2

\* One block less on its call stack, and as many on the others.
LEMMA OnRemove ==
  ASSUME NEW B, IsFiniteSet(B), NEW b \in B, NEW s
  PROVE  Cardinality(On(B \ {b}, s)) = Cardinality(On(B, s)) - (IF b.stack = s THEN 1 ELSE 0)
  <1>1. CASE b.stack = s
    <2>1. On(B \ {b}, s) = On(B, s) \ {b} /\ b \in On(B, s)
      BY <1>1 DEF On
    <2> QED BY <1>1, <2>1, OnFinite, FS_RemoveElement
  <1>2. CASE b.stack # s
    <2>1. On(B \ {b}, s) = On(B, s)
      BY <1>2 DEF On
    <2> QED BY <1>2, <2>1, OnFinite
  <1> QED BY <1>1, <1>2

\* The entries of a list can be counted.
LEMMA EntriesFinite ==
  ASSUME NEW L \in Seq(ReallocEntry), NEW s
  PROVE  IsFiniteSet(EntriesIn(L, s)) /\ Cardinality(EntriesIn(L, s)) \in Nat
  <1>1. IsFiniteSet(1..Len(L)) /\ EntriesIn(L, s) \in SUBSET (1..Len(L))
    BY FS_Interval DEF EntriesIn
  <1> QED BY <1>1, FS_Subset, FS_CardinalityType

\* One entry more.
LEMMA EntriesAppend ==
  ASSUME NEW L \in Seq(ReallocEntry), NEW re \in ReallocEntry, NEW s
  PROVE  Cardinality(EntriesIn(Append(L, re), s)) =
           Cardinality(EntriesIn(L, s)) + (IF re.addr # 0 /\ re.stack = s THEN 1 ELSE 0)
  <1> DEFINE n == Len(L) + 1
  <1>1. /\ n \notin DOMAIN L /\ DOMAIN Append(L, re) = DOMAIN L \cup {n} /\ Append(L, re)[n] = re
        /\ \A i \in DOMAIN L : Append(L, re)[i] = L[i]
    OBVIOUS
  <1> HIDE DEF n
  <1>2. CASE re.addr # 0 /\ re.stack = s
    <2>1. EntriesIn(Append(L, re), s) = EntriesIn(L, s) \cup {n} /\ n \notin EntriesIn(L, s)
      BY <1>1, <1>2 DEF EntriesIn
    <2> QED BY <1>2, <2>1, EntriesFinite, FS_AddElement
  <1>3. CASE ~(re.addr # 0 /\ re.stack = s)
    <2>1. EntriesIn(Append(L, re), s) = EntriesIn(L, s)
      BY <1>1, <1>3 DEF EntriesIn
    <2> QED BY <1>3, <2>1, EntriesFinite
  <1> QED BY <1>2, <1>3

\* One entry less: what realloc_del leaves of the list.
Without(L, i) == SubSeq(L, 1, i - 1) \o SubSeq(L, i + 1, Len(L))

\* realloc_del moves the entries behind the removed one up by one and keeps the rest.
LEMMA WithoutIs ==
  ASSUME NEW L \in Seq(ReallocEntry), NEW i \in DOMAIN L
  PROVE  /\ Without(L, i) \in Seq(ReallocEntry) /\ DOMAIN Without(L, i) = 1..(Len(L) - 1)
         /\ \A j \in 1..(Len(L) - 1) : Without(L, i)[j] = L[IF j < i THEN j ELSE j + 1]
  <1>1. Len(L) \in Nat /\ i \in 1..Len(L) /\ \A j \in 1..Len(L) : L[j] \in ReallocEntry
    OBVIOUS
  <1> DEFINE A == SubSeq(L, 1, i - 1)
             C == SubSeq(L, i + 1, Len(L))
  <1>2. A \in Seq(ReallocEntry) /\ Len(A) = i - 1 /\ \A j \in 1..(i - 1) : A[j] = L[j]
    BY <1>1, SubSeqProperties
  <1>3. C \in Seq(ReallocEntry) /\ Len(C) = Len(L) - i /\ \A j \in 1..(Len(L) - i) : C[j] = L[i + j]
    BY <1>1, SubSeqProperties
  <1> HIDE DEF A, C
  <1>4. /\ A \o C \in Seq(ReallocEntry) /\ Len(A \o C) = Len(L) - 1
        /\ \A j \in 1..(Len(L) - 1) : (A \o C)[j] = IF j <= i - 1 THEN A[j] ELSE C[j - (i - 1)]
    <2>1. Len(A) + Len(C) = Len(L) - 1
      BY <1>1, <1>2, <1>3
    <2>2. /\ A \o C \in Seq(ReallocEntry) /\ Len(A \o C) = Len(A) + Len(C)
          /\ \A j \in 1..(Len(A) + Len(C)) : (A \o C)[j] = IF j <= Len(A) THEN A[j] ELSE C[j - Len(A)]
      BY <1>2, <1>3
    <2> QED BY <1>2, <2>1, <2>2
  <1>5. DOMAIN (A \o C) = 1..(Len(L) - 1)
    BY <1>4
  <1>6. ASSUME NEW j \in 1..(Len(L) - 1) PROVE (A \o C)[j] = L[IF j < i THEN j ELSE j + 1]
    <2>1. CASE j < i
      BY <1>1, <1>2, <1>4, <2>1
    <2>2. CASE ~(j < i)
      <3>1. j - (i - 1) \in 1..(Len(L) - i) /\ i + (j - (i - 1)) = j + 1
        BY <1>1, <2>2
      <3>2. (A \o C)[j] = C[j - (i - 1)]
        BY <1>1, <1>4, <2>2
      <3>3. C[j - (i - 1)] = L[i + (j - (i - 1))]
        BY <1>3, <3>1
      <3> QED BY <2>2, <3>1, <3>2, <3>3
    <2> QED BY <2>1, <2>2
  <1> QED BY <1>4, <1>5, <1>6 DEF Without, A, C

\* A removed entry takes its reference along, and no other.
LEMMA EntriesRemove ==
  ASSUME NEW L \in Seq(ReallocEntry), NEW i \in DOMAIN L, NEW s
  PROVE  Cardinality(EntriesIn(Without(L, i), s)) =
           Cardinality(EntriesIn(L, s)) - (IF L[i].addr # 0 /\ L[i].stack = s THEN 1 ELSE 0)
  <1> DEFINE X == EntriesIn(Without(L, i), s)
             Y == EntriesIn(L, s) \ {i}
             f == [j \in X |-> IF j < i THEN j ELSE j + 1]
  <1>1. i \in Nat /\ Len(L) \in Nat /\ DOMAIN L = 1..Len(L)
    OBVIOUS
  <1>2. X \subseteq 1..(Len(L) - 1)
    BY WithoutIs DEF EntriesIn
  <1>3. f \in [X -> Y]
    <2> SUFFICES ASSUME NEW j \in X PROVE (IF j < i THEN j ELSE j + 1) \in Y
      OBVIOUS
    <2> DEFINE k == IF j < i THEN j ELSE j + 1
    <2>1. j \in 1..(Len(L) - 1) /\ Without(L, i)[j] = L[k]
      BY <1>2, WithoutIs
    <2>2. k \in DOMAIN L /\ k # i
      BY <1>1, <2>1
    <2>3. L[k].addr # 0 /\ L[k].stack = s
      BY <2>1 DEF EntriesIn
    <2> QED BY <2>2, <2>3 DEF EntriesIn
  <1>4. \A j, k \in X : f[j] = f[k] => j = k
    BY <1>1, <1>2
  <1>5. ASSUME NEW k \in Y PROVE \E j \in X : f[j] = k
    <2> DEFINE j == IF k < i THEN k ELSE k - 1
    <2>1. k \in 1..Len(L) /\ k # i
      BY <1>1 DEF EntriesIn
    <2>2. j \in 1..(Len(L) - 1) /\ (IF j < i THEN j ELSE j + 1) = k
      BY <1>1, <2>1
    <2>3. j \in X
      <3>1. j \in DOMAIN Without(L, i) /\ Without(L, i)[j] = L[k]
        BY <2>2, WithoutIs
      <3>2. L[k].addr # 0 /\ L[k].stack = s
        BY DEF EntriesIn
      <3> HIDE DEF j
      <3> QED BY <3>1, <3>2 DEF EntriesIn
    <2> QED BY <2>2, <2>3
  <1>6. ExistsBijection(X, Y)
    BY <1>3, <1>4, <1>5 DEF ExistsBijection, Bijection, Injection, Surjection, IsInjective
  <1>7. IsFiniteSet(X) /\ Cardinality(X) \in Nat
    BY WithoutIs, EntriesFinite
  <1>8. Cardinality(Y) = Cardinality(X)
    BY <1>6, <1>7, FS_Bijection
  <1>9. IsFiniteSet(EntriesIn(L, s)) /\ Cardinality(EntriesIn(L, s)) \in Nat
    BY EntriesFinite
  <1>10. i \in EntriesIn(L, s) <=> L[i].addr # 0 /\ L[i].stack = s
    BY DEF EntriesIn
  <1>11. Cardinality(Y) = IF i \in EntriesIn(L, s) THEN Cardinality(EntriesIn(L, s)) - 1
                          ELSE Cardinality(EntriesIn(L, s))
    BY <1>9, FS_RemoveElement
  <1> HIDE DEF X, Y
  <1> QED BY <1>8, <1>9, <1>10, <1>11 DEF X

\* The pointer of a new block is one that no block has.
LEMMA NewId ==
  ASSUME NEW B \in SUBSET Block, IsFiniteSet(B)
  PROVE  LET id == Min((1..(Cardinality(B) + 1)) \ {b.id : b \in B})
         IN id \in Nat \ {0} /\ \A b \in B : b.id # id
  <1> DEFINE n == Cardinality(B)
             I == {b.id : b \in B}
             F == (1..(n + 1)) \ I
  <1>1. n \in Nat
    BY FS_CardinalityType
  <1>2. IsFiniteSet(1..(n + 1)) /\ Cardinality(1..(n + 1)) = n + 1
    BY <1>1, FS_Interval
  <1>3. IsFiniteSet(I) /\ Cardinality(I) <= n
    <2> DEFINE f == [b \in B |-> b.id]
    <2>1. f \in Surjection(B, I)
      BY DEF Surjection
    <2> QED BY <2>1, FS_Surjection
  <1>4. F # {}
    <2> SUFFICES ASSUME F = {} PROVE FALSE
      OBVIOUS
    <2>1. 1..(n + 1) \in SUBSET I
      OBVIOUS
    <2>2. Cardinality(1..(n + 1)) <= Cardinality(I)
      BY <1>3, <2>1, FS_Subset
    <2>3. Cardinality(I) \in Nat
      BY <1>3, FS_CardinalityType
    <2> QED BY <1>1, <1>2, <1>3, <2>2, <2>3
  <1>5. \E x \in F : \A y \in F : x <= y
    <2> DEFINE H == {1..x : x \in F}
    <2>1. H \in SUBSET (SUBSET (1..(n + 1))) /\ H # {}
      BY <1>1, <1>4
    <2>2. PICK U \in H : \A V \in H : V \subseteq U => V = U
      <3> DEFINE T == 1..(n + 1)
      <3>1. IsFiniteSet(T) /\ H \in SUBSET (SUBSET T)
        BY <1>2, <2>1
      <3>2. H # {}
        BY <2>1
      <3> HIDE DEF H, T
      <3> QED BY <3>1, <3>2, SmallestSubset
    <2>3. PICK x \in F : U = 1..x
      BY <2>2
    <2>4. ASSUME NEW y \in F, y < x PROVE FALSE
      <3>1. 1..y \in H /\ 1..y \subseteq U
        BY <1>1, <2>3, <2>4
      <3>2. x \in 1..x /\ x \notin 1..y
        BY <1>1, <2>4
      <3> QED BY <2>2, <2>3, <3>1, <3>2
    <2> QED BY <1>1, <2>4
  <1>6. Min(F) \in F
    BY <1>5 DEF Min
  <1> QED BY <1>1, <1>6

-----------------------------------------------------------------------------
(* The helpers: what they leave of a process.                              *)

SameTable(P, Q) == /\ Q.blocks = P.blocks /\ Q.realloc_list = P.realloc_list
                   /\ Q.n_allocations = P.n_allocations

\* Two processes with the same marks, with the same sums, two nodes with the same counters.
SameMarks(P, Q) == Q.known = P.known /\ Q.tracing = P.tracing /\ Q.attached = P.attached
SameTally(P, Q) == /\ Q.bytes_used = P.bytes_used /\ Q.leaks = P.leaks
                   /\ Q.leaked_bytes = P.leaked_bytes
SameCounts(v, w) == /\ w.n_allocations = v.n_allocations /\ w.bytes_used = v.bytes_used
                    /\ w.leaks = v.leaks /\ w.bytes_leaked = v.bytes_leaked
SameRefs(P, Q) == \A r \in Stacks : Q.nodes[r].refcnt = P.nodes[r].refcnt

\* The fields of a process.
LEMMA Fields ==
  ASSUME NEW P \in Process
  PROVE  /\ P.nodes \in [Stacks -> Node] /\ P.blocks \in SUBSET Block
         /\ P.realloc_list \in Seq(ReallocEntry)
         /\ P.n_allocations \in Int /\ P.bytes_used \in Int /\ P.leaks \in Int /\ P.leaked_bytes \in Int
         /\ \A s \in Stacks : /\ P.nodes[s] \in Node /\ P.nodes[s].refcnt \in Int
                              /\ P.nodes[s].n_allocations \in Int /\ P.nodes[s].bytes_used \in Int
                              /\ P.nodes[s].leaks \in Int /\ P.nodes[s].bytes_leaked \in Int
  BY DEF Process, Node

\* An assignment to the nodes.
LEMMA SetNodes ==
  ASSUME NEW P \in Process, NEW N \in [Stacks -> Node]
  PROVE  /\ [P EXCEPT !.nodes = N] \in Process /\ [P EXCEPT !.nodes = N].nodes = N
         /\ SameTable(P, [P EXCEPT !.nodes = N]) /\ SameMarks(P, [P EXCEPT !.nodes = N])
         /\ SameTally(P, [P EXCEPT !.nodes = N])
  BY DEF Process, SameTable, SameMarks, SameTally

\* An assignment to one node.
LEMMA SetNode ==
  ASSUME NEW P \in Process, NEW s \in Stacks, NEW v \in Node
  PROVE  /\ [P EXCEPT !.nodes[s] = v] \in Process /\ SameTable(P, [P EXCEPT !.nodes[s] = v])
         /\ SameMarks(P, [P EXCEPT !.nodes[s] = v]) /\ SameTally(P, [P EXCEPT !.nodes[s] = v])
         /\ \A r \in Stacks : [P EXCEPT !.nodes[s] = v].nodes[r] = IF r = s THEN v ELSE P.nodes[r]
  <1> DEFINE N == [P.nodes EXCEPT ![s] = v]
  <1>1. N \in [Stacks -> Node] /\ \A r \in Stacks : N[r] = IF r = s THEN v ELSE P.nodes[r]
    BY Fields
  <1>2. [P EXCEPT !.nodes[s] = v] = [P EXCEPT !.nodes = N]
    OBVIOUS
  <1> HIDE DEF N
  <1> DEFINE Q == [P EXCEPT !.nodes = N]
  <1>3. Q \in Process /\ Q.nodes = N /\ SameTable(P, Q) /\ SameMarks(P, Q) /\ SameTally(P, Q)
    BY <1>1, SetNodes
  <1> HIDE DEF Q
  <1>5. \A r \in Stacks : Q.nodes[r] = IF r = s THEN v ELSE P.nodes[r]
    BY <1>1, <1>3
  <1> QED BY <1>2, <1>3, <1>5 DEF Q

\* stack_get adds a reference to one node.
LEMMA GetIs ==
  ASSUME NEW P \in Process, NEW s \in Stacks
  PROVE  /\ stack_get(P, s) \in Process /\ SameTable(P, stack_get(P, s))
         /\ SameMarks(P, stack_get(P, s)) /\ SameTally(P, stack_get(P, s))
         /\ \A r \in Stacks : /\ stack_get(P, s).nodes[r].refcnt =
                                   P.nodes[r].refcnt + (IF r = s THEN 1 ELSE 0)
                              /\ SameCounts(P.nodes[r], stack_get(P, s).nodes[r])
  <1> DEFINE v == [P.nodes[s] EXCEPT !.refcnt = @ + 1]
             Q == stack_get(P, s)
  <1>1. v \in Node /\ v.refcnt = P.nodes[s].refcnt + 1 /\ SameCounts(P.nodes[s], v)
    BY Fields DEF Node, SameCounts
  <1>2. Q = [P EXCEPT !.nodes[s] = v]
    BY DEF stack_get
  <1> HIDE DEF v, Q
  <1>3. /\ Q \in Process /\ SameTable(P, Q) /\ SameMarks(P, Q) /\ SameTally(P, Q)
        /\ \A r \in Stacks : Q.nodes[r] = IF r = s THEN v ELSE P.nodes[r]
    BY <1>1, <1>2, SetNode
  <1>4. \A r \in Stacks : /\ Q.nodes[r].refcnt = P.nodes[r].refcnt + (IF r = s THEN 1 ELSE 0)
                          /\ SameCounts(P.nodes[r], Q.nodes[r])
    BY <1>1, <1>3, Fields DEF SameCounts
  <1> QED BY <1>3, <1>4 DEF Q

\* stack_put takes one back.
LEMMA PutIs ==
  ASSUME NEW P \in Process, NEW s \in Stacks
  PROVE  /\ stack_put(P, s) \in Process /\ SameTable(P, stack_put(P, s))
         /\ SameMarks(P, stack_put(P, s)) /\ SameTally(P, stack_put(P, s))
         /\ \A r \in Stacks : /\ stack_put(P, s).nodes[r].refcnt =
                                   P.nodes[r].refcnt - (IF r = s THEN 1 ELSE 0)
                              /\ SameCounts(P.nodes[r], stack_put(P, s).nodes[r])
  <1> DEFINE v == [P.nodes[s] EXCEPT !.refcnt = @ - 1]
             Q == stack_put(P, s)
  <1>1. v \in Node /\ v.refcnt = P.nodes[s].refcnt - 1 /\ SameCounts(P.nodes[s], v)
    BY Fields DEF Node, SameCounts
  <1>2. Q = [P EXCEPT !.nodes[s] = v]
    BY DEF stack_put
  <1> HIDE DEF v, Q
  <1>3. /\ Q \in Process /\ SameTable(P, Q) /\ SameMarks(P, Q) /\ SameTally(P, Q)
        /\ \A r \in Stacks : Q.nodes[r] = IF r = s THEN v ELSE P.nodes[r]
    BY <1>1, <1>2, SetNode
  <1>4. \A r \in Stacks : /\ Q.nodes[r].refcnt = P.nodes[r].refcnt - (IF r = s THEN 1 ELSE 0)
                          /\ SameCounts(P.nodes[r], Q.nodes[r])
    BY <1>1, <1>3, Fields DEF SameCounts
  <1> QED BY <1>3, <1>4 DEF Q

\* stack_add makes a node that is not there, with the tree's reference.
LEMMA AddIs ==
  ASSUME NEW P \in Process, NEW s \in Stacks
  PROVE  /\ stack_add(P, s) \in Process /\ SameTable(P, stack_add(P, s))
         /\ SameMarks(P, stack_add(P, s)) /\ SameTally(P, stack_add(P, s))
         /\ \A r \in Stacks :
              /\ stack_add(P, s).nodes[r].refcnt =
                   IF r = s /\ P.nodes[r].refcnt = 0 THEN 1 ELSE P.nodes[r].refcnt
              /\ SameCounts(IF r = s /\ P.nodes[r].refcnt = 0 THEN NoNode ELSE P.nodes[r],
                            stack_add(P, s).nodes[r])
  <1> DEFINE v == [NoNode EXCEPT !.refcnt = 1]
             Q == stack_add(P, s)
  <1>1. v \in Node /\ v.refcnt = 1 /\ SameCounts(NoNode, v)
    BY DEF Node, NoNode, SameCounts
  <1>2. CASE P.nodes[s].refcnt = 0
    <2>1. Q = [P EXCEPT !.nodes[s] = v]
      BY <1>2 DEF stack_add
    <2> HIDE DEF v, Q
    <2>2. /\ Q \in Process /\ SameTable(P, Q) /\ SameMarks(P, Q) /\ SameTally(P, Q)
          /\ \A r \in Stacks : Q.nodes[r] = IF r = s THEN v ELSE P.nodes[r]
      BY <1>1, <2>1, SetNode
    <2>3. \A r \in Stacks :
            /\ Q.nodes[r].refcnt = IF r = s /\ P.nodes[r].refcnt = 0 THEN 1 ELSE P.nodes[r].refcnt
            /\ SameCounts(IF r = s /\ P.nodes[r].refcnt = 0 THEN NoNode ELSE P.nodes[r], Q.nodes[r])
      BY <1>1, <1>2, <2>2 DEF SameCounts
    <2> QED BY <2>2, <2>3 DEF Q
  <1>3. CASE P.nodes[s].refcnt # 0
    BY <1>3 DEF stack_add, SameTable, SameMarks, SameTally, SameCounts
  <1> QED BY <1>2, <1>3

\* What a leaked block adds to the counters of leaks.
Leak(b) == IF "leaked" \in b.flags THEN 1 ELSE 0
LeakSize(b) == IF "leaked" \in b.flags THEN b.size ELSE 0

\* process_release_mem takes away as much.
LEMMA LeakIs ==
  ASSUME NEW b \in Block
  PROVE  /\ Cardinality(Leaked({b})) = Leak(b) /\ Leak(b) \in {0, 1}
         /\ Leak(b) * b.size = LeakSize(b) /\ LeakSize(b) \in Nat
  <1>1. Leaked({b}) = IF "leaked" \in b.flags THEN {b} ELSE {}
    BY DEF Leaked
  <1>2. Cardinality({b}) = 1 /\ Cardinality({}) = 0
    BY FS_Singleton, FS_EmptySet
  <1>3. b.size \in Nat
    BY DEF Block
  <1>4. 1 * b.size = b.size /\ 0 * b.size = 0
    BY <1>3
  <1> QED BY <1>1, <1>2, <1>3, <1>4 DEF Leak, LeakSize

\* A node of which some counters are assigned to is a node, with its references.
Recounted(w, x, y, z) == [w EXCEPT !.leaks = x, !.bytes_leaked = y, !.bytes_used = z]

\* An assignment to the leak counters of a node keeps its type and its references.
LEMMA Recount ==
  ASSUME NEW w \in Node, NEW x \in Int, NEW y \in Int, NEW z \in Int
  PROVE  /\ Recounted(w, x, y, z) \in Node /\ Recounted(w, x, y, z).refcnt = w.refcnt
         /\ Recounted(w, x, y, z).n_allocations = w.n_allocations
         /\ Recounted(w, x, y, z).leaks = x /\ Recounted(w, x, y, z).bytes_leaked = y
         /\ Recounted(w, x, y, z).bytes_used = z
  BY DEF Node, Recounted

\* ... and so is one on which allocations are counted.
Allocated(w, x, y) == [w EXCEPT !.n_allocations = x, !.bytes_used = y]

\* An assignment to the allocation counters of a node keeps its type and its references.
LEMMA Allocate ==
  ASSUME NEW w \in Node, NEW x \in Int, NEW y \in Int
  PROVE  /\ Allocated(w, x, y) \in Node /\ Allocated(w, x, y).refcnt = w.refcnt
         /\ Allocated(w, x, y).n_allocations = x /\ Allocated(w, x, y).bytes_used = y
         /\ Allocated(w, x, y).leaks = w.leaks /\ Allocated(w, x, y).bytes_leaked = w.bytes_leaked
  BY DEF Node, Allocated

\* What an unsigned int keeps of an unsigned long: all of it, if it fits.
LEMMA UIntIs ==
  ASSUME NEW n \in Int
  PROVE  UInt(n) \in Int /\ (n \in Nat => UInt(n) \in 0..n) /\ (n \in Nat /\ n < UIntMod => UInt(n) = n)
  <1>1. UInt(n) \in Int
    BY TableAssumption DEF UInt
  <1>2. n \in Nat => UInt(n) \in 0..n
    BY TableAssumption DEF UInt
  <1>3. n \in Nat /\ n < UIntMod => UInt(n) = n
    BY TableAssumption DEF UInt
  <1> QED BY <1>1, <1>2, <1>3

\* What n bytes of the block b that are released take from its node.
Released(v, w, b, n) ==
  /\ w.n_allocations = v.n_allocations /\ w.bytes_used = v.bytes_used - UInt(n)
  /\ w.leaks = v.leaks - Leak(b) /\ w.bytes_leaked = v.bytes_leaked - LeakSize(b)

\* process_release_mem changes no reference, and the sums by what is released.
LEMMA ReleaseIs ==
  ASSUME NEW P \in Process, NEW b \in Block, NEW n \in Int, NEW Q, Q = release_mem(P, b, n)
  PROVE  /\ Q \in Process /\ SameTable(P, Q) /\ SameMarks(P, Q) /\ SameRefs(P, Q)
         /\ Q.bytes_used = P.bytes_used - UInt(n) /\ Q.leaks = P.leaks - Leak(b)
         /\ Q.leaked_bytes = P.leaked_bytes - LeakSize(b)
         /\ \A r \in Stacks : IF r = b.stack THEN Released(P.nodes[r], Q.nodes[r], b, n)
                              ELSE SameCounts(P.nodes[r], Q.nodes[r])
  <1> DEFINE leak == Leak(b)
             k == LeakSize(b)
             s == b.stack
             w == P.nodes[s]
             v == [w EXCEPT !.leaks = @ - leak, !.bytes_leaked = @ - k, !.bytes_used = @ - UInt(n)]
             R == [P EXCEPT !.nodes[s] = v]
  <1>1. Cardinality(Leaked({b})) = leak /\ leak * b.size = k /\ leak \in Int /\ k \in Int
    BY LeakIs
  <1>2. s \in Stacks
    BY DEF Block
  <1>3. Q = [P EXCEPT !.nodes[s] = v, !.leaks = @ - leak, !.leaked_bytes = @ - k, !.bytes_used = @ - UInt(n)]
    BY <1>1 DEF release_mem
  <1>0. UInt(n) \in Int
    BY UIntIs
  <1> HIDE DEF leak, k, s
  <1>4. v \in Node /\ v.refcnt = w.refcnt /\ Released(w, v, b, n)
    <2>1. w \in Node
      BY <1>2, Fields
    <2> HIDE DEF w
    <2>2. w.leaks - leak \in Int /\ w.bytes_leaked - k \in Int /\ w.bytes_used - UInt(n) \in Int
      BY <1>0, <1>1, <2>1 DEF Node
    <2>3. v = Recounted(w, w.leaks - leak, w.bytes_leaked - k, w.bytes_used - UInt(n))
      BY DEF Recounted
    <2> HIDE DEF v
    <2>4. /\ v \in Node /\ v.refcnt = w.refcnt /\ v.n_allocations = w.n_allocations
          /\ v.leaks = w.leaks - leak /\ v.bytes_leaked = w.bytes_leaked - k
          /\ v.bytes_used = w.bytes_used - UInt(n)
      BY <2>1, <2>2, <2>3, Recount
    <2> QED BY <2>4 DEF Released, leak, k
  <1> HIDE DEF v
  <1>5. /\ R \in Process /\ SameTable(P, R) /\ SameMarks(P, R)
        /\ \A r \in Stacks : R.nodes[r] = IF r = s THEN v ELSE P.nodes[r]
    BY <1>2, <1>4, SetNode
  <1>6. P.leaks - leak \in Int /\ P.leaked_bytes - k \in Int /\ P.bytes_used - UInt(n) \in Int
    BY <1>0, <1>1, Fields
  <1>9. Q = [R EXCEPT !.leaks = P.leaks - leak, !.leaked_bytes = P.leaked_bytes - k,
                      !.bytes_used = P.bytes_used - UInt(n)]
    BY <1>3
  <1> HIDE DEF R
  <1>7. Q \in Process
    BY <1>5, <1>6, <1>9 DEF Process
  <1>8. /\ SameTable(R, Q) /\ SameMarks(R, Q) /\ Q.nodes = R.nodes
        /\ Q.bytes_used = P.bytes_used - UInt(n) /\ Q.leaks = P.leaks - leak
        /\ Q.leaked_bytes = P.leaked_bytes - k
    BY <1>5, <1>9 DEF Process, SameTable, SameMarks
  <1>10. SameTable(P, Q) /\ SameMarks(P, Q) /\ SameRefs(P, Q)
    BY <1>4, <1>5, <1>8 DEF SameTable, SameMarks, SameRefs
  <1>11. \A r \in Stacks : IF r = s THEN Released(P.nodes[r], Q.nodes[r], b, n)
                           ELSE SameCounts(P.nodes[r], Q.nodes[r])
    BY <1>4, <1>5, <1>8 DEF SameCounts
  <1> QED BY <1>7, <1>8, <1>10, <1>11 DEF leak, k, s

\* An assignment to the blocks, to one node and to the count of allocations.
Rebuilt(P, B, s, v, k) == [P EXCEPT !.blocks = B, !.nodes[s] = v, !.n_allocations = k]

\* What such an assignment leaves of a struct process: only the named fields differ.
LEMMA RebuiltIs ==
  ASSUME NEW P \in Process, NEW B \in SUBSET Block, NEW s \in Stacks, NEW v \in Node, NEW k \in Int
  PROVE  LET Q == Rebuilt(P, B, s, v, k)
         IN /\ Q \in Process /\ Q.blocks = B /\ Q.n_allocations = k /\ Q.realloc_list = P.realloc_list
            /\ SameMarks(P, Q) /\ SameTally(P, Q)
            /\ \A r \in Stacks : Q.nodes[r] = IF r = s THEN v ELSE P.nodes[r]
  <1> DEFINE N == [P.nodes EXCEPT ![s] = v]
             Q == Rebuilt(P, B, s, v, k)
  <1>1. N \in [Stacks -> Node] /\ \A r \in Stacks : N[r] = IF r = s THEN v ELSE P.nodes[r]
    BY Fields
  <1>2. Q = [P EXCEPT !.blocks = B, !.nodes = N, !.n_allocations = k]
    BY DEF Rebuilt
  <1> HIDE DEF N, Q
  <1>3. Q \in Process /\ Q.nodes = N
    BY <1>1, <1>2 DEF Process
  <1>4. Q.blocks = B /\ Q.n_allocations = k /\ Q.realloc_list = P.realloc_list
    BY <1>2 DEF Process
  <1>5. SameMarks(P, Q) /\ SameTally(P, Q)
    BY <1>2 DEF Process, SameMarks, SameTally
  <1> QED BY <1>1, <1>3, <1>4, <1>5 DEF Q

\* What process_rb_insert_block does: a block with a new pointer, one allocation
\* and one reference more; the bytes of the process are left to the caller.
LEMMA InsertIs ==
  ASSUME NEW P \in Process, IsFiniteSet(P.blocks), NEW a \in Nat, NEW n \in Nat, NEW s \in Stacks,
         NEW flags \in SUBSET {"leaked", "scanned"}, NEW Q, Q = rb_insert_block(P, a, n, s, flags)
  PROVE  /\ Q \in Process /\ Q.realloc_list = P.realloc_list
         /\ Q.n_allocations = P.n_allocations + 1
         /\ \E b \in Block : /\ b.stack = s /\ b.addr = a /\ b.size = n /\ b.flags = flags
                             /\ \A c \in P.blocks : c.id # b.id
                             /\ Q.blocks = P.blocks \cup {b}
         /\ SameMarks(P, Q) /\ SameTally(P, Q)
         /\ \A r \in Stacks :
              /\ Q.nodes[r].refcnt = P.nodes[r].refcnt + (IF r = s THEN 1 ELSE 0)
              /\ Q.nodes[r].n_allocations = P.nodes[r].n_allocations + (IF r = s THEN 1 ELSE 0)
              /\ Q.nodes[r].bytes_used = P.nodes[r].bytes_used + (IF r = s THEN n ELSE 0)
              /\ Q.nodes[r].leaks = P.nodes[r].leaks /\ Q.nodes[r].bytes_leaked = P.nodes[r].bytes_leaked
  <1> DEFINE id == Min((1..(Cardinality(P.blocks) + 1)) \ {b.id : b \in P.blocks})
             new == [id |-> id, addr |-> a, size |-> n, stack |-> s, flags |-> flags]
             B == P.blocks \cup {new}
             w == P.nodes[s]
             v == [w EXCEPT !.n_allocations = @ + 1, !.bytes_used = @ + n]
             k == P.n_allocations + 1
  <1>1. id \in Nat \ {0} /\ \A b \in P.blocks : b.id # id
    BY NewId, Fields
  <1>2. Q = stack_get(Rebuilt(P, B, s, v, k), s)
    BY DEF rb_insert_block, Rebuilt
  <1> HIDE DEF id
  <1>3. /\ new \in Block /\ new.stack = s /\ \A c \in P.blocks : c.id # new.id
        /\ new.addr = a /\ new.size = n /\ new.flags = flags
    BY <1>1 DEF Block
  <1>4. B \in SUBSET Block /\ k \in Int
    BY <1>3, Fields
  <1>5. /\ v \in Node /\ v.refcnt = w.refcnt /\ v.n_allocations = w.n_allocations + 1
        /\ v.bytes_used = w.bytes_used + n /\ v.leaks = w.leaks /\ v.bytes_leaked = w.bytes_leaked
    <2>1. w \in Node
      BY Fields
    <2> HIDE DEF w
    <2>2. w.n_allocations + 1 \in Int /\ w.bytes_used + n \in Int
      BY <2>1 DEF Node
    <2>3. v = Allocated(w, w.n_allocations + 1, w.bytes_used + n)
      BY DEF Allocated
    <2> HIDE DEF v
    <2> QED BY <2>1, <2>2, <2>3, Allocate
  <1> HIDE DEF new, B, v, k, w
  <1> DEFINE R == Rebuilt(P, B, s, v, k)
  <1>6. /\ R \in Process /\ R.blocks = B /\ R.n_allocations = k /\ R.realloc_list = P.realloc_list
        /\ SameMarks(P, R) /\ SameTally(P, R)
        /\ \A r \in Stacks : R.nodes[r] = IF r = s THEN v ELSE P.nodes[r]
    BY <1>4, <1>5, RebuiltIs
  <1> HIDE DEF R
  <1>7. /\ Q \in Process /\ SameTable(R, Q) /\ SameMarks(R, Q) /\ SameTally(R, Q)
        /\ \A r \in Stacks : /\ Q.nodes[r].refcnt = R.nodes[r].refcnt + (IF r = s THEN 1 ELSE 0)
                             /\ SameCounts(R.nodes[r], Q.nodes[r])
    BY <1>2, <1>6, GetIs DEF R
  <1>8. Q.blocks = B /\ Q.n_allocations = k /\ Q.realloc_list = P.realloc_list
    BY <1>6, <1>7 DEF SameTable
  <1>9. SameMarks(P, Q) /\ SameTally(P, Q)
    BY <1>6, <1>7 DEF SameMarks, SameTally
  <1>10. ASSUME NEW r \in Stacks
         PROVE
           /\ Q.nodes[r].refcnt = P.nodes[r].refcnt + (IF r = s THEN 1 ELSE 0)
           /\ Q.nodes[r].n_allocations = P.nodes[r].n_allocations + (IF r = s THEN 1 ELSE 0)
           /\ Q.nodes[r].bytes_used = P.nodes[r].bytes_used + (IF r = s THEN n ELSE 0)
           /\ Q.nodes[r].leaks = P.nodes[r].leaks /\ Q.nodes[r].bytes_leaked = P.nodes[r].bytes_leaked
    <2>1. /\ Q.nodes[r].refcnt = R.nodes[r].refcnt + (IF r = s THEN 1 ELSE 0)
          /\ SameCounts(R.nodes[r], Q.nodes[r]) /\ R.nodes[r] = IF r = s THEN v ELSE P.nodes[r]
      BY <1>6, <1>7
    <2>2. CASE r = s
      <3>1. R.nodes[r] = v /\ P.nodes[r] = w
        BY <2>1, <2>2 DEF w
      <3> QED BY <1>5, <2>1, <2>2, <3>1 DEF SameCounts
    <2>3. CASE r # s
      <3>1. /\ P.nodes[r].refcnt \in Int /\ P.nodes[r].n_allocations \in Int
            /\ P.nodes[r].bytes_used \in Int
        BY Fields
      <3> QED BY <2>1, <2>3, <3>1 DEF SameCounts
    <2> QED BY <2>2, <2>3
  <1> QED BY <1>3, <1>7, <1>8, <1>9, <1>10 DEF B, k

\* What process_rb_delete_block does: a block, an allocation and a reference less,
\* and what the block added to the sums.
LEMMA DeleteIs ==
  ASSUME NEW P \in Process, NEW b \in P.blocks, NEW Q, Q = rb_delete_block(P, b)
  PROVE  /\ Q \in Process /\ Q.realloc_list = P.realloc_list
         /\ Q.n_allocations = P.n_allocations - 1 /\ Q.blocks = P.blocks \ {b}
         /\ SameMarks(P, Q)
         /\ Q.bytes_used = P.bytes_used - UInt(b.size) /\ Q.leaks = P.leaks - Leak(b)
         /\ Q.leaked_bytes = P.leaked_bytes - LeakSize(b)
         /\ \A r \in Stacks :
              /\ Q.nodes[r].refcnt = P.nodes[r].refcnt - (IF r = b.stack THEN 1 ELSE 0)
              /\ Q.nodes[r].n_allocations = P.nodes[r].n_allocations - (IF r = b.stack THEN 1 ELSE 0)
              /\ Q.nodes[r].bytes_used = P.nodes[r].bytes_used - (IF r = b.stack THEN UInt(b.size) ELSE 0)
              /\ Q.nodes[r].leaks = P.nodes[r].leaks - (IF r = b.stack THEN Leak(b) ELSE 0)
              /\ Q.nodes[r].bytes_leaked = P.nodes[r].bytes_leaked - (IF r = b.stack THEN LeakSize(b) ELSE 0)
  <1> DEFINE s == b.stack
             M == release_mem(P, b, b.size)
             w == M.nodes[s]
             v == [w EXCEPT !.n_allocations = @ - 1]
             B == M.blocks \ {b}
             k == M.n_allocations - 1
  <1>1. b \in Block /\ s \in Stacks /\ b.size \in Int /\ Leak(b) \in Int /\ LeakSize(b) \in Int
    <2>1. b \in Block
      BY Fields
    <2>2. Leak(b) \in Int /\ LeakSize(b) \in Int
      <3>1. Leak(b) \in {0, 1} /\ LeakSize(b) \in Nat
        BY <2>1, LeakIs, Zenon
      <3> QED BY <3>1
    <2>3. b.stack \in Stacks /\ b.size \in Int
      BY <2>1 DEF Block
    <2> QED BY <2>1, <2>2, <2>3
  <1>2. Q = stack_put(Rebuilt(M, B, s, v, k), s)
    BY DEF rb_delete_block, Rebuilt
  <1>3. /\ M \in Process /\ SameTable(P, M) /\ SameMarks(P, M) /\ SameRefs(P, M)
        /\ M.bytes_used = P.bytes_used - UInt(b.size) /\ M.leaks = P.leaks - Leak(b)
        /\ M.leaked_bytes = P.leaked_bytes - LeakSize(b)
        /\ \A r \in Stacks : IF r = s THEN Released(P.nodes[r], M.nodes[r], b, b.size)
                             ELSE SameCounts(P.nodes[r], M.nodes[r])
    BY <1>1, ReleaseIs
  <1> HIDE DEF s, M
  <1>4. B \in SUBSET Block /\ k \in Int
    BY <1>3, Fields
  <1>5. /\ v \in Node /\ v.refcnt = w.refcnt /\ v.n_allocations = w.n_allocations - 1
        /\ v.bytes_used = w.bytes_used /\ v.leaks = w.leaks /\ v.bytes_leaked = w.bytes_leaked
    <2>1. w \in Node
      BY <1>1, <1>3, Fields
    <2> HIDE DEF w
    <2> QED BY <2>1 DEF Node
  <1> HIDE DEF B, v, k, w
  <1> DEFINE R == Rebuilt(M, B, s, v, k)
  <1>6. /\ R \in Process /\ R.blocks = B /\ R.n_allocations = k /\ R.realloc_list = M.realloc_list
        /\ SameMarks(M, R) /\ SameTally(M, R)
        /\ \A r \in Stacks : R.nodes[r] = IF r = s THEN v ELSE M.nodes[r]
    BY <1>1, <1>3, <1>4, <1>5, RebuiltIs
  <1> HIDE DEF R
  <1>7. /\ Q \in Process /\ SameTable(R, Q) /\ SameMarks(R, Q) /\ SameTally(R, Q)
        /\ \A r \in Stacks : /\ Q.nodes[r].refcnt = R.nodes[r].refcnt - (IF r = s THEN 1 ELSE 0)
                             /\ SameCounts(R.nodes[r], Q.nodes[r])
    BY <1>1, <1>2, <1>6, PutIs DEF R
  <1>8. Q.blocks = B /\ Q.n_allocations = k /\ Q.realloc_list = P.realloc_list
    BY <1>3, <1>6, <1>7 DEF SameTable
  <1>9. /\ SameMarks(P, Q) /\ Q.bytes_used = P.bytes_used - UInt(b.size) /\ Q.leaks = P.leaks - Leak(b)
        /\ Q.leaked_bytes = P.leaked_bytes - LeakSize(b)
    BY <1>3, <1>6, <1>7 DEF SameMarks, SameTally
  <1>10. B = P.blocks \ {b} /\ k = P.n_allocations - 1
    BY <1>3 DEF B, k, SameTable
  <1>11. \A r \in Stacks : Q.nodes[r].refcnt = P.nodes[r].refcnt - (IF r = s THEN 1 ELSE 0)
    BY <1>3, <1>5, <1>6, <1>7 DEF w, SameRefs
  <1>12. ASSUME NEW r \in Stacks
         PROVE  /\ Q.nodes[r].n_allocations = P.nodes[r].n_allocations - (IF r = s THEN 1 ELSE 0)
                /\ Q.nodes[r].bytes_used = P.nodes[r].bytes_used - (IF r = s THEN UInt(b.size) ELSE 0)
                /\ Q.nodes[r].leaks = P.nodes[r].leaks - (IF r = s THEN Leak(b) ELSE 0)
                /\ Q.nodes[r].bytes_leaked = P.nodes[r].bytes_leaked - (IF r = s THEN LeakSize(b) ELSE 0)
    <2>1. SameCounts(R.nodes[r], Q.nodes[r]) /\ R.nodes[r] = IF r = s THEN v ELSE M.nodes[r]
      BY <1>6, <1>7
    <2>2. IF r = s THEN Released(P.nodes[r], M.nodes[r], b, b.size)
                   ELSE SameCounts(P.nodes[r], M.nodes[r])
      BY <1>3
    <2>3. CASE r = s
      <3>1. R.nodes[r] = v /\ M.nodes[r] = w /\ Released(P.nodes[r], w, b, b.size)
        BY <2>1, <2>2, <2>3 DEF w
      <3> QED BY <1>5, <2>1, <2>3, <3>1 DEF SameCounts, Released
    <2>4. CASE r # s
      <3>1. /\ P.nodes[r].leaks \in Int /\ P.nodes[r].n_allocations \in Int
            /\ P.nodes[r].bytes_used \in Int /\ P.nodes[r].bytes_leaked \in Int
        BY Fields
      <3> QED BY <2>1, <2>2, <2>4, <3>1 DEF SameCounts
    <2> QED BY <2>3, <2>4
  <1> QED BY <1>7, <1>8, <1>9, <1>10, <1>11, <1>12 DEF s

-----------------------------------------------------------------------------
(* The helpers keep a process sound.                                       *)

\* The users of a node can be counted.
LEMMA UsersNat ==
  ASSUME NEW P, Sound(P), NEW s \in Stacks
  PROVE  /\ Cardinality(On(P.blocks, s)) \in Nat /\ Cardinality(Entries(P, s)) \in Nat
         /\ Users(P, s) = Cardinality(On(P.blocks, s)) + Cardinality(Entries(P, s)) /\ Users(P, s) \in Nat
  <1>1. P.realloc_list \in Seq(ReallocEntry) /\ IsFiniteSet(P.blocks)
    BY Fields DEF Sound
  <1>2. Cardinality(On(P.blocks, s)) \in Nat
    BY <1>1, OnFinite
  <1>3. Cardinality(EntriesIn(P.realloc_list, s)) \in Nat
    BY <1>1, EntriesFinite
  <1>4. Entries(P, s) = EntriesIn(P.realloc_list, s)
    BY DEF Entries, EntriesIn
  <1> QED BY <1>2, <1>3, <1>4 DEF Users

\* A process that differs in what is not counted is sound too.
LEMMA SoundSame ==
  ASSUME NEW P, Sound(P), NEW Q \in Process, SameTable(P, Q), SameRefs(P, Q) PROVE Sound(Q)
  <1>1. \A s \in Stacks : Users(Q, s) = Users(P, s)
    BY DEF Users, Entries, SameTable
  <1> QED BY <1>1 DEF Sound, SameTable, SameRefs, Referenced

\* stack_add leaves a node that can be referenced.
LEMMA AddSound ==
  ASSUME NEW P, Sound(P), NEW s \in Stacks
  PROVE  Sound(stack_add(P, s)) /\ stack_add(P, s).nodes[s].refcnt # 0
         /\ SameTable(P, stack_add(P, s))
  <1> DEFINE Q == stack_add(P, s)
  <1>1. /\ Q \in Process /\ SameTable(P, Q)
        /\ \A r \in Stacks : Q.nodes[r].refcnt =
                               IF r = s /\ P.nodes[r].refcnt = 0 THEN 1 ELSE P.nodes[r].refcnt
    BY AddIs DEF Sound
  <1> HIDE DEF Q
  <1>2. \A r \in Stacks : Users(Q, r) = Users(P, r) /\ Users(P, r) \in Nat
    BY <1>1, UsersNat DEF Users, Entries, SameTable
  <1>3. Referenced(Q)
    BY <1>1, <1>2 DEF Referenced, Sound
  <1>4. Sound(Q)
    BY <1>1, <1>3 DEF Sound, SameTable
  <1>5. Q.nodes[s].refcnt # 0
    BY <1>1
  <1> QED BY <1>1, <1>4, <1>5 DEF Q

\* process_rb_insert_block on a node that is there.
LEMMA InsertSound ==
  ASSUME NEW P, Sound(P), NEW a \in Nat, NEW n \in Nat, NEW s \in Stacks,
         NEW flags \in SUBSET {"leaked", "scanned"}, P.nodes[s].refcnt # 0
  PROVE  Sound(rb_insert_block(P, a, n, s, flags))
         /\ rb_insert_block(P, a, n, s, flags).realloc_list = P.realloc_list
  <1> DEFINE Q == rb_insert_block(P, a, n, s, flags)
  <1>1. P \in Process /\ IsFiniteSet(P.blocks) /\ Unique(P.blocks)
        /\ P.n_allocations = Cardinality(P.blocks)
    BY DEF Sound
  <1>2. /\ Q \in Process /\ Q.realloc_list = P.realloc_list
        /\ Q.n_allocations = P.n_allocations + 1
        /\ \E b \in Block : /\ b.stack = s /\ \A c \in P.blocks : c.id # b.id
                            /\ Q.blocks = P.blocks \cup {b}
        /\ \A r \in Stacks : Q.nodes[r].refcnt = P.nodes[r].refcnt + (IF r = s THEN 1 ELSE 0)
    BY <1>1, InsertIs
  <1> HIDE DEF Q
  <1>3. PICK b \in Block : /\ b.stack = s /\ \A c \in P.blocks : c.id # b.id
                           /\ Q.blocks = P.blocks \cup {b}
    BY <1>2
  <1>4. b \notin P.blocks
    BY <1>3
  <1>5. IsFiniteSet(Q.blocks) /\ Cardinality(Q.blocks) = Cardinality(P.blocks) + 1
    <2>1. /\ IsFiniteSet(P.blocks \cup {b})
          /\ Cardinality(P.blocks \cup {b}) = Cardinality(P.blocks) + 1
      BY <1>1, <1>4, FS_AddElement
    <2> QED BY <1>3, <2>1
  <1>6. Unique(Q.blocks)
    BY <1>1, <1>3 DEF Unique
  <1>7. \A r \in Stacks : Users(Q, r) = Users(P, r) + (IF r = s THEN 1 ELSE 0) /\ Users(P, r) \in Nat
    <2> SUFFICES ASSUME NEW r \in Stacks
                 PROVE Users(Q, r) = Users(P, r) + (IF r = s THEN 1 ELSE 0) /\ Users(P, r) \in Nat
      OBVIOUS
    <2>1. Cardinality(On(Q.blocks, r)) = Cardinality(On(P.blocks, r)) + (IF b.stack = r THEN 1 ELSE 0)
      BY <1>1, <1>3, <1>4, OnAdd
    <2>2. Entries(Q, r) = Entries(P, r)
      BY <1>2 DEF Entries
    <2> QED BY <1>3, <2>1, <2>2, UsersNat DEF Users
  <1>8. Referenced(Q)
    <2> SUFFICES ASSUME NEW r \in Stacks
                 PROVE Q.nodes[r].refcnt \in {1 + Users(Q, r)} \cup (IF Users(Q, r) = 0 THEN {0} ELSE {})
      BY DEF Referenced
    <2>1. P.nodes[r].refcnt \in {1 + Users(P, r)} \cup (IF Users(P, r) = 0 THEN {0} ELSE {})
      BY DEF Sound, Referenced
    <2> QED BY <1>2, <1>7, <2>1
  <1> QED BY <1>1, <1>2, <1>5, <1>6, <1>8 DEF Sound, Q

\* process_rb_delete_block.
LEMMA DeleteSound ==
  ASSUME NEW P, Sound(P), NEW b \in P.blocks
  PROVE  Sound(rb_delete_block(P, b)) /\ rb_delete_block(P, b).blocks = P.blocks \ {b}
         /\ rb_delete_block(P, b).realloc_list = P.realloc_list
  <1> DEFINE Q == rb_delete_block(P, b)
  <1>1. P \in Process /\ IsFiniteSet(P.blocks) /\ Unique(P.blocks)
        /\ P.n_allocations = Cardinality(P.blocks)
    BY DEF Sound
  <1>2. /\ Q \in Process /\ Q.realloc_list = P.realloc_list
        /\ Q.n_allocations = P.n_allocations - 1 /\ Q.blocks = P.blocks \ {b}
        /\ \A r \in Stacks : Q.nodes[r].refcnt = P.nodes[r].refcnt - (IF r = b.stack THEN 1 ELSE 0)
    BY <1>1, DeleteIs
  <1> HIDE DEF Q
  <1>3. IsFiniteSet(Q.blocks) /\ Cardinality(Q.blocks) = Cardinality(P.blocks) - 1
    BY <1>1, <1>2, FS_RemoveElement
  <1>4. Unique(Q.blocks)
    BY <1>1, <1>2 DEF Unique
  <1>5. ASSUME NEW r \in Stacks
        PROVE Q.nodes[r].refcnt \in {1 + Users(Q, r)} \cup (IF Users(Q, r) = 0 THEN {0} ELSE {})
    <2>1. Cardinality(On(Q.blocks, r)) = Cardinality(On(P.blocks, r)) - (IF b.stack = r THEN 1 ELSE 0)
      BY <1>1, <1>2, OnRemove
    <2>2. Entries(Q, r) = Entries(P, r)
      BY <1>2 DEF Entries
    <2>3. Users(Q, r) = Users(P, r) - (IF b.stack = r THEN 1 ELSE 0) /\ Users(P, r) \in Nat
      BY <2>1, <2>2, UsersNat DEF Users
    <2>4. b.stack = r => Cardinality(On(P.blocks, r)) # 0
      <3>1. b.stack = r => b \in On(P.blocks, r)
        BY DEF On
      <3> QED BY <1>1, <3>1, OnFinite, FS_EmptySet
    <2>5. b.stack = r => Users(P, r) # 0
      BY <2>4, UsersNat
    <2>6. P.nodes[r].refcnt \in {1 + Users(P, r)} \cup (IF Users(P, r) = 0 THEN {0} ELSE {})
      BY DEF Sound, Referenced
    <2> QED BY <1>2, <2>3, <2>5, <2>6
  <1> QED BY <1>1, <1>2, <1>3, <1>4, <1>5 DEF Sound, Referenced, Q

\* An entry of realloc_list that holds a reference, and one that holds none.
LEMMA EnterSound ==
  ASSUME NEW P, Sound(P), NEW re \in ReallocEntry, re.addr # 0, P.nodes[re.stack].refcnt # 0
  PROVE  Sound([stack_get(P, re.stack) EXCEPT !.realloc_list = Append(@, re)])
         /\ [stack_get(P, re.stack) EXCEPT !.realloc_list = Append(@, re)].blocks = P.blocks
  <1> DEFINE s == re.stack
             G == stack_get(P, s)
             L == Append(G.realloc_list, re)
             Q == [G EXCEPT !.realloc_list = L]
  <1>1. s \in Stacks /\ P \in Process
    BY DEF ReallocEntry, Sound
  <1>2. /\ G \in Process /\ SameTable(P, G)
        /\ \A r \in Stacks : G.nodes[r].refcnt = P.nodes[r].refcnt + (IF r = s THEN 1 ELSE 0)
    BY <1>1, GetIs
  <1> HIDE DEF s, G
  <1>3. L \in Seq(ReallocEntry)
    BY <1>2, Fields
  <1>4. L = Append(P.realloc_list, re)
    BY <1>2 DEF SameTable
  <1> HIDE DEF L
  <1>5. Q \in Process /\ Q.realloc_list = L /\ Q.nodes = G.nodes
        /\ Q.blocks = P.blocks /\ Q.n_allocations = P.n_allocations
    BY <1>2, <1>3 DEF Process, SameTable
  <1>6. Q = [stack_get(P, re.stack) EXCEPT !.realloc_list = Append(@, re)]
    BY DEF L, G, s
  <1> HIDE DEF Q
  <1>7. ASSUME NEW r \in Stacks
        PROVE Q.nodes[r].refcnt \in {1 + Users(Q, r)} \cup (IF Users(Q, r) = 0 THEN {0} ELSE {})
    <2>1. On(Q.blocks, r) = On(P.blocks, r)
      BY <1>5
    <2>2. Cardinality(EntriesIn(L, r)) = Cardinality(EntriesIn(P.realloc_list, r)) + (IF s = r THEN 1 ELSE 0)
      BY <1>1, <1>4, Fields, EntriesAppend DEF s
    <2>3. Entries(Q, r) = EntriesIn(L, r) /\ Entries(P, r) = EntriesIn(P.realloc_list, r)
      BY <1>5 DEF Entries, EntriesIn
    <2>4. Users(Q, r) = Users(P, r) + (IF s = r THEN 1 ELSE 0) /\ Users(P, r) \in Nat
      BY <2>1, <2>2, <2>3, UsersNat DEF Users
    <2>5. P.nodes[r].refcnt \in {1 + Users(P, r)} \cup (IF Users(P, r) = 0 THEN {0} ELSE {})
      BY DEF Sound, Referenced
    <2>6. Q.nodes[r].refcnt = P.nodes[r].refcnt + (IF r = s THEN 1 ELSE 0)
      BY <1>2, <1>5
    <2>7. s = r => P.nodes[r].refcnt # 0
      BY DEF s
    <2> QED BY <2>4, <2>5, <2>6, <2>7
  <1>8. Sound(Q)
    BY <1>5, <1>7 DEF Sound, Referenced
  <1> QED BY <1>5, <1>6, <1>8

\* The entry of a block that was not found.
LEMMA EnterUnknown ==
  ASSUME NEW P, Sound(P), NEW re \in ReallocEntry, re.addr = 0
  PROVE  Sound([P EXCEPT !.realloc_list = Append(@, re)])
  <1> DEFINE L == Append(P.realloc_list, re)
             Q == [P EXCEPT !.realloc_list = L]
  <1>1. P \in Process
    BY DEF Sound
  <1>2. L \in Seq(ReallocEntry)
    BY <1>1, Fields
  <1>3. \A r \in Stacks : Cardinality(EntriesIn(L, r)) = Cardinality(EntriesIn(P.realloc_list, r))
    <2> TAKE r \in Stacks
    <2>1. P.realloc_list \in Seq(ReallocEntry)
      BY <1>1, Fields
    <2> QED BY <2>1, EntriesAppend, EntriesFinite
  <1> HIDE DEF L
  <1>4. Q \in Process /\ Q.realloc_list = L /\ Q.nodes = P.nodes
        /\ Q.blocks = P.blocks /\ Q.n_allocations = P.n_allocations
    BY <1>1, <1>2 DEF Process
  <1>5. Q = [P EXCEPT !.realloc_list = Append(@, re)]
    BY DEF L
  <1> HIDE DEF Q
  <1>6. \A r \in Stacks : Users(Q, r) = Users(P, r)
    <2> TAKE r \in Stacks
    <2>1. Entries(Q, r) = EntriesIn(L, r) /\ Entries(P, r) = EntriesIn(P.realloc_list, r)
      BY <1>4 DEF Entries, EntriesIn
    <2> QED BY <1>3, <1>4, <2>1 DEF Users
  <1>7. Sound(Q)
    BY <1>4, <1>6 DEF Sound, Referenced
  <1> QED BY <1>5, <1>7

\* realloc_del.
LEMMA DelSound ==
  ASSUME NEW P, Sound(P), NEW i \in DOMAIN P.realloc_list
  PROVE  Sound(realloc_del(P, i))
  <1> DEFINE re == P.realloc_list[i]
             s == re.stack
             L == Without(P.realloc_list, i)
             Q == [P EXCEPT !.realloc_list = L]
             R == IF re.addr = 0 THEN Q ELSE stack_put(Q, s)
  <1>1. P \in Process /\ P.realloc_list \in Seq(ReallocEntry)
    BY Fields DEF Sound
  <1>2. re \in ReallocEntry /\ s \in Stacks
    <2>1. re \in ReallocEntry
      BY <1>1
    <2> HIDE DEF re
    <2> QED BY <2>1 DEF ReallocEntry
  <1>3. L \in Seq(ReallocEntry)
    BY <1>1, WithoutIs
  <1>4. \A r \in Stacks : Cardinality(EntriesIn(L, r)) = Cardinality(EntriesIn(P.realloc_list, r))
                              - (IF re.addr # 0 /\ s = r THEN 1 ELSE 0)
    BY <1>1, EntriesRemove
  <1>5. R = realloc_del(P, i)
    BY DEF realloc_del, Without
  <1> HIDE DEF L, s
  <1>6. Q \in Process /\ Q.realloc_list = L /\ Q.nodes = P.nodes
        /\ Q.blocks = P.blocks /\ Q.n_allocations = P.n_allocations
    BY <1>1, <1>3 DEF Process
  <1> HIDE DEF Q
  <1>7. /\ R \in Process /\ SameTable(Q, R)
        /\ \A r \in Stacks : R.nodes[r].refcnt =
                               P.nodes[r].refcnt - (IF re.addr # 0 /\ s = r THEN 1 ELSE 0)
    <2>1. CASE re.addr = 0
      <3>1. R = Q
        BY <2>1
      <3> HIDE DEF R
      <3> QED BY <1>1, <1>6, <2>1, <3>1, Fields DEF SameTable
    <2>2. CASE re.addr # 0
      <3>1. R = stack_put(Q, s)
        BY <2>2
      <3>2. /\ R \in Process /\ SameTable(Q, R)
            /\ \A r \in Stacks : R.nodes[r].refcnt = Q.nodes[r].refcnt - (IF r = s THEN 1 ELSE 0)
        BY <1>2, <1>6, <3>1, PutIs
      <3> HIDE DEF R
      <3> QED BY <1>6, <2>2, <3>2
    <2> QED BY <2>1, <2>2
  <1> HIDE DEF R
  <1>8. ASSUME NEW r \in Stacks
        PROVE R.nodes[r].refcnt \in {1 + Users(R, r)} \cup (IF Users(R, r) = 0 THEN {0} ELSE {})
    <2>1. On(R.blocks, r) = On(P.blocks, r)
      BY <1>6, <1>7 DEF SameTable
    <2>2. Entries(R, r) = EntriesIn(L, r) /\ Entries(P, r) = EntriesIn(P.realloc_list, r)
      BY <1>6, <1>7 DEF Entries, EntriesIn, SameTable
    <2>3. /\ Users(R, r) = Users(P, r) - (IF re.addr # 0 /\ s = r THEN 1 ELSE 0)
          /\ Users(P, r) \in Nat /\ Users(R, r) \in Nat
      <3>1. Cardinality(EntriesIn(L, r)) \in Nat /\ Cardinality(On(P.blocks, r)) \in Nat
        BY <1>3, EntriesFinite, UsersNat
      <3> QED BY <1>4, <2>1, <2>2, <3>1, UsersNat DEF Users
    <2>4. P.nodes[r].refcnt \in {1 + Users(P, r)} \cup (IF Users(P, r) = 0 THEN {0} ELSE {})
      BY DEF Sound, Referenced
    <2> QED BY <1>7, <2>3, <2>4
  <1>9. R.blocks = P.blocks /\ R.n_allocations = P.n_allocations
    BY <1>6, <1>7 DEF SameTable
  <1> QED BY <1>5, <1>7, <1>8, <1>9 DEF Sound, Referenced

\* Assignments to what is not counted: the bytes,
LEMMA AssignSound ==
  ASSUME NEW P, Sound(P), NEW x \in Int
  PROVE  /\ Sound([P EXCEPT !.bytes_used = x])
  <1>1. P \in Process
    BY DEF Sound
  <1>2. ASSUME NEW Q, \/ Q = [P EXCEPT !.bytes_used = x]
        PROVE  Sound(Q)
    <2>1. Q \in Process
      BY <1>1, <1>2 DEF Process
    <2>2. /\ Q.blocks = P.blocks /\ Q.realloc_list = P.realloc_list
          /\ Q.n_allocations = P.n_allocations /\ Q.nodes = P.nodes
      BY <1>1, <1>2 DEF Process
    <2>3. SameTable(P, Q) /\ SameRefs(P, Q)
      BY <2>2 DEF SameTable, SameRefs
    <2> QED BY <2>1, <2>3, SoundSame
  <1> QED BY <1>2

\* ... and the marks that the process is traced and was attached to.
LEMMA MarkSound ==
  ASSUME NEW P, Sound(P)
  PROVE  /\ Sound([P EXCEPT !.tracing = FALSE])
         /\ Sound([P EXCEPT !.attached = TRUE])
         /\ Sound([P EXCEPT !.tracing = TRUE, !.attached = TRUE])
  <1>1. P \in Process
    BY DEF Sound
  <1>2. ASSUME NEW Q, \/ Q = [P EXCEPT !.tracing = FALSE]
                      \/ Q = [P EXCEPT !.attached = TRUE]
                      \/ Q = [P EXCEPT !.tracing = TRUE, !.attached = TRUE]
        PROVE  Sound(Q)
    <2>1. Q \in Process
      BY <1>1, <1>2 DEF Process
    <2>2. /\ Q.blocks = P.blocks /\ Q.realloc_list = P.realloc_list
          /\ Q.n_allocations = P.n_allocations /\ Q.nodes = P.nodes
      BY <1>1, <1>2 DEF Process
    <2>3. SameTable(P, Q) /\ SameRefs(P, Q)
      BY <2>2 DEF SameTable, SameRefs
    <2> QED BY <2>1, <2>3, SoundSame
  <1> QED BY <1>2

-----------------------------------------------------------------------------
(* Blocks that change but keep their pointer and their call stack.         *)

Image(f, B) == {f[b] : b \in B}

\* Such a change keeps the number of the blocks.
LEMMA ImageCount ==
  ASSUME NEW B \in SUBSET Block, IsFiniteSet(B), Unique(B), NEW f \in [B -> Block],
         \A b \in B : f[b].id = b.id, NEW C \in SUBSET B
  PROVE  IsFiniteSet(Image(f, C)) /\ Cardinality(Image(f, C)) = Cardinality(C)
  <1> DEFINE g == [b \in C |-> f[b]]
             G == Image(f, C)
  <1>1. \A b, c \in B : f[b] = f[c] => b = c
    BY DEF Unique
  <1>2. g \in [C -> G]
    BY DEF Image
  <1>3. \A b, c \in C : g[b] = g[c] => b = c
    BY <1>1
  <1>4. \A x \in G : \E b \in C : g[b] = x
    BY DEF Image
  <1> HIDE DEF g, G
  <1>5. ExistsBijection(C, G)
    BY <1>2, <1>3, <1>4 DEF ExistsBijection, Bijection, Injection, Surjection, IsInjective
  <1>6. IsFiniteSet(C)
    BY FS_Subset
  <1> QED BY <1>5, <1>6, FS_Bijection DEF G

\* Such a change keeps every count.
LEMMA Relabel ==
  ASSUME NEW B \in SUBSET Block, IsFiniteSet(B), Unique(B), NEW f \in [B -> Block],
         \A b \in B : f[b].id = b.id /\ f[b].stack = b.stack, NEW F, F = Image(f, B)
  PROVE  /\ F \in SUBSET Block /\ IsFiniteSet(F) /\ Unique(F) /\ Cardinality(F) = Cardinality(B)
         /\ \A s \in Stacks : Cardinality(On(F, s)) = Cardinality(On(B, s))
  <1>1. F \in SUBSET Block /\ Unique(F)
    BY DEF Unique, Image
  <1>2. \A b, c \in B : f[b] = f[c] => b = c
    BY DEF Unique
  <1>3. ASSUME NEW C, C \subseteq B, NEW G, G = {f[b] : b \in C}
        PROVE  IsFiniteSet(G) /\ Cardinality(G) = Cardinality(C)
    BY <1>3, ImageCount DEF Image
  <1>4. IsFiniteSet(F) /\ Cardinality(F) = Cardinality(B)
    BY <1>3 DEF Image
  <1>5. ASSUME NEW s \in Stacks PROVE Cardinality(On(F, s)) = Cardinality(On(B, s))
    <2>1. On(F, s) = {f[b] : b \in On(B, s)}
      BY DEF On, Image
    <2>2. On(B, s) \subseteq B
      BY DEF On
    <2> QED BY <1>3, <2>1, <2>2
  <1> QED BY <1>1, <1>4, <1>5

\* A process with other blocks of the same pointers and call stacks is sound.
LEMMA RelabelSound ==
  ASSUME NEW P, Sound(P), NEW f \in [P.blocks -> Block],
         \A b \in P.blocks : f[b].id = b.id /\ f[b].stack = b.stack,
         NEW Q \in Process, Q.blocks = Image(f, P.blocks),
         Q.n_allocations = P.n_allocations, Q.realloc_list = P.realloc_list, SameRefs(P, Q)
  PROVE  Sound(Q)
  <1>1. P.blocks \in SUBSET Block /\ IsFiniteSet(P.blocks) /\ Unique(P.blocks)
    BY Fields DEF Sound
  <1>2. /\ IsFiniteSet(Q.blocks) /\ Unique(Q.blocks) /\ Cardinality(Q.blocks) = Cardinality(P.blocks)
        /\ \A s \in Stacks : Cardinality(On(Q.blocks, s)) = Cardinality(On(P.blocks, s))
    <2> DEFINE B == P.blocks
               F == Q.blocks
    <2>1. /\ B \in SUBSET Block /\ IsFiniteSet(B) /\ Unique(B) /\ f \in [B -> Block]
          /\ \A b \in B : f[b].id = b.id /\ f[b].stack = b.stack
          /\ F = Image(f, B)
      BY <1>1
    <2> HIDE DEF B, F
    <2>2. /\ IsFiniteSet(F) /\ Unique(F) /\ Cardinality(F) = Cardinality(B)
          /\ \A s \in Stacks : Cardinality(On(F, s)) = Cardinality(On(B, s))
      BY <2>1, Relabel
    <2> QED BY <2>2 DEF B, F
  <1>3. \A s \in Stacks : Users(Q, s) = Users(P, s)
    BY <1>2 DEF Users, Entries
  <1> QED BY <1>2, <1>3 DEF Sound, Referenced, SameRefs

\* f gives the flag to the blocks in D and changes nothing else.
Flags(f, B, D, flag) ==
  \A b \in B : /\ f[b].id = b.id /\ f[b].stack = b.stack /\ f[b].addr = b.addr /\ f[b].size = b.size
               /\ f[b].flags = IF b \in D THEN b.flags \cup {flag} ELSE b.flags

\* What process_scan and process_leaks_scan do to the blocks.
LEMMA FlaggedBy ==
  ASSUME NEW B \in SUBSET Block, NEW D \in SUBSET B, NEW flag \in {"leaked", "scanned"}
  PROVE  \E f \in [B -> Block] : Flags(f, B, D, flag) /\ Flagged(B, D, flag) = Image(f, B)
  <1> DEFINE m(b) == [b EXCEPT !.flags = @ \cup {flag}]
             f == [b \in B |-> IF b \in D THEN m(b) ELSE b]
  <1>1. \A b \in B : /\ m(b) \in Block /\ m(b).id = b.id /\ m(b).stack = b.stack
                     /\ m(b).addr = b.addr /\ m(b).size = b.size /\ m(b).flags = b.flags \cup {flag}
    BY DEF Block
  <1>2. Flagged(B, D, flag) = (B \ D) \cup {m(b) : b \in D}
    BY DEF Flagged
  <1> HIDE DEF m
  <1>3. f \in [B -> Block] /\ Flags(f, B, D, flag)
    BY <1>1 DEF Flags
  <1>4. Flagged(B, D, flag) = Image(f, B)
    BY <1>2 DEF Image
  <1> QED BY <1>3, <1>4

\* ... the pointers and the call stacks stay.
LEMMA FlaggedIs ==
  ASSUME NEW B \in SUBSET Block, NEW D \in SUBSET B, NEW flag \in {"leaked", "scanned"}
  PROVE  \E f \in [B -> Block] : /\ \A b \in B : f[b].id = b.id /\ f[b].stack = b.stack
                                 /\ Flagged(B, D, flag) = Image(f, B)
  <1>1. PICK f \in [B -> Block] : Flags(f, B, D, flag) /\ Flagged(B, D, flag) = Image(f, B)
    BY FlaggedBy
  <1>2. \A b \in B : f[b].id = b.id /\ f[b].stack = b.stack
    BY <1>1 DEF Flags
  <1> QED BY <1>1, <1>2

-----------------------------------------------------------------------------
(* The handlers keep a process sound.                                      *)

\* process_alloc, its last turn.
LEMMA AllocSound ==
  ASSUME NEW P, Sound(P), NEW a \in Nat, NEW n \in Nat, NEW s \in Stacks
  PROVE  Sound(alloc_insert(P, a, n, s))
  <1> DEFINE A == stack_add(P, s)
             Q == rb_insert_block(A, a, n, s, {})
  <1>1. Sound(A) /\ A.nodes[s].refcnt # 0
    BY AddSound
  <1>2. {} \in SUBSET {"leaked", "scanned"}
    OBVIOUS
  <1>3. Sound(Q)
    BY <1>1, <1>2, InsertSound
  <1>4. alloc_insert(P, a, n, s) = [Q EXCEPT !.bytes_used = Q.bytes_used + n]
    BY DEF alloc_insert
  <1> HIDE DEF Q
  <1>5. Q.bytes_used + n \in Int
    BY <1>3, Fields DEF Sound
  <1> QED BY <1>3, <1>4, <1>5, AssignSound

\* A block of which the address, the size and the flags are assigned to.
Shrunk(b, x, y, z) == [b EXCEPT !.addr = x, !.size = y, !.flags = z]

\* A shrunk block is a block, with its identity and its call stack.
LEMMA Shrink ==
  ASSUME NEW b \in Block, NEW x \in Nat, NEW y \in Nat, NEW z \in SUBSET {"leaked", "scanned"}
  PROVE  /\ Shrunk(b, x, y, z) \in Block
         /\ Shrunk(b, x, y, z).id = b.id /\ Shrunk(b, x, y, z).stack = b.stack
         /\ Shrunk(b, x, y, z).addr = x /\ Shrunk(b, x, y, z).size = y /\ Shrunk(b, x, y, z).flags = z
  BY DEF Block, Shrunk

\* process_munmap, on a block that loses its first n bytes.
LEMMA PrefixSound ==
  ASSUME NEW P, Sound(P), NEW b \in P.blocks, NEW n \in Nat, n < b.size
  PROVE  Sound(munmap_prefix(P, b, n))
  <1> DEFINE R == release_mem(P, b, n)
             rest == [b EXCEPT !.addr = @ + n, !.size = @ - n, !.flags = @ \ {"leaked"}]
             B == (R.blocks \ {b}) \cup {rest}
             Q == [R EXCEPT !.blocks = B]
             f == [c \in P.blocks |-> IF c = b THEN rest ELSE c]
  <1>1. P \in Process /\ b \in Block /\ P.blocks \in SUBSET Block
    BY Fields DEF Sound
  <1>2. R \in Process /\ SameTable(P, R) /\ SameRefs(P, R)
    BY <1>1, ReleaseIs
  <1>3. Q = munmap_prefix(P, b, n)
    BY DEF munmap_prefix
  <1>4. rest \in Block /\ rest.id = b.id /\ rest.stack = b.stack
    <2>1. b.addr + n \in Nat /\ b.size - n \in Nat /\ b.flags \ {"leaked"} \in SUBSET {"leaked", "scanned"}
      BY <1>1 DEF Block
    <2>2. rest = Shrunk(b, b.addr + n, b.size - n, b.flags \ {"leaked"})
      BY DEF Shrunk
    <2> HIDE DEF rest
    <2> QED BY <1>1, <2>1, <2>2, Shrink
  <1> HIDE DEF R, rest
  <1>5. B \in SUBSET Block
    BY <1>1, <1>2, <1>4 DEF SameTable
  <1>6. f \in [P.blocks -> Block] /\ \A c \in P.blocks : f[c].id = c.id /\ f[c].stack = c.stack
    BY <1>1, <1>4
  <1>7. B = Image(f, P.blocks)
    BY <1>2 DEF SameTable, Image
  <1> HIDE DEF B, f
  <1>8. Q \in Process /\ Q.blocks = B /\ Q.nodes = R.nodes
        /\ Q.n_allocations = P.n_allocations /\ Q.realloc_list = P.realloc_list
    BY <1>2, <1>5 DEF Process, SameTable
  <1> HIDE DEF Q
  <1>9. SameRefs(P, Q)
    BY <1>2, <1>8 DEF SameRefs
  <1>10. Q.blocks = Image(f, P.blocks)
    BY <1>7, <1>8
  <1>11. Sound(Q)
    BY <1>6, <1>8, <1>9, <1>10, RelabelSound
  <1> QED BY <1>3, <1>11

\* The node of a block is there.
LEMMA NodeOfBlock ==
  ASSUME NEW P, Sound(P), NEW b \in P.blocks
  PROVE  b.stack \in Stacks /\ P.nodes[b.stack].refcnt # 0
  <1> DEFINE s == b.stack
  <1>1. b \in Block /\ s \in Stacks /\ IsFiniteSet(P.blocks)
    BY Fields DEF Sound, Block
  <1>2. b \in On(P.blocks, s)
    BY DEF On
  <1>3. Cardinality(On(P.blocks, s)) # 0
    BY <1>1, <1>2, OnFinite, FS_EmptySet
  <1> HIDE DEF s
  <1>4. Users(P, s) \in Nat /\ Users(P, s) # 0
    BY <1>1, <1>3, UsersNat
  <1>5. P.nodes[s].refcnt \in {1 + Users(P, s)} \cup (IF Users(P, s) = 0 THEN {0} ELSE {})
    BY <1>1 DEF Sound, Referenced
  <1> QED BY <1>1, <1>4, <1>5 DEF s

\* The call stack a wrong free is charged to.
LEMMA ChargedStack ==
  ASSUME NEW op PROVE ChargedTo(op) \in {"free", "enter"} /\ ChargedTo(op) \in Stacks
  BY DEF ChargedTo, Stacks

\* process_free of a block.
LEMMA FreeSound ==
  ASSUME NEW P, Sound(P), NEW b \in P.blocks, NEW op, NEW tid,
         op = "enter" => tid \in Threads /\ b.addr # 0
  PROVE  Sound(free_block(P, b, op, tid))
  <1> DEFINE Q == IF Mismatched(b) THEN stack_add(P, ChargedTo(op)) ELSE P
             re == [tid |-> tid, addr |-> b.addr, size |-> b.size, stack |-> b.stack, flags |-> b.flags]
             R == [stack_get(Q, re.stack) EXCEPT !.realloc_list = Append(@, re)]
             E == IF op = "enter" THEN R ELSE Q
  <1>1. Sound(Q) /\ Q.blocks = P.blocks
    BY ChargedStack, AddSound DEF SameTable
  <1>2. rb_delete_block(E, b) = free_block(P, b, op, tid)
    BY DEF free_block
  <1> HIDE DEF Q
  <1>3. b \in Q.blocks /\ b \in Block
    BY <1>1, Fields DEF Sound
  <1>4. CASE op = "enter"
    <2>1. re \in ReallocEntry /\ re.addr # 0
      BY <1>3, <1>4 DEF Block, ReallocEntry
    <2>2. re.stack = b.stack
      OBVIOUS
    <2>3. Q.nodes[re.stack].refcnt # 0
      BY <1>1, <1>3, <2>2, NodeOfBlock
    <2> HIDE DEF re
    <2>4. Sound(R) /\ R.blocks = Q.blocks
      BY <1>1, <2>1, <2>3, EnterSound
    <2>5. E = R
      BY <1>4
    <2> HIDE DEF R, E
    <2> QED BY <1>2, <1>3, <2>4, <2>5, DeleteSound
  <1>5. CASE op # "enter"
    <2>1. E = Q
      BY <1>5
    <2> HIDE DEF E
    <2> QED BY <1>1, <1>2, <1>3, <2>1, DeleteSound
  <1> QED BY <1>4, <1>5

\* process_free of what is not known.
LEMMA UnknownSound ==
  ASSUME NEW P, Sound(P), NEW op, NEW tid, op = "enter" => tid \in Threads
  PROVE  Sound(free_unknown(P, op, tid))
  <1> DEFINE Q == IF Badfree(P) THEN stack_add(P, ChargedTo(op)) ELSE P
             re == [tid |-> tid, addr |-> 0, size |-> 0, stack |-> "free", flags |-> {}]
             R == [Q EXCEPT !.realloc_list = Append(@, re)]
  <1>1. Sound(Q)
    BY ChargedStack, AddSound
  <1>2. free_unknown(P, op, tid) = IF op = "enter" THEN R ELSE Q
    BY DEF free_unknown
  <1> HIDE DEF Q
  <1>3. CASE op = "enter"
    <2>1. re \in ReallocEntry /\ re.addr = 0
      BY <1>3 DEF ReallocEntry, Stacks
    <2> HIDE DEF re
    <2>2. Sound(R)
      BY <1>1, <2>1, EnterUnknown
    <2> HIDE DEF R
    <2> QED BY <1>2, <1>3, <2>2
  <1>4. CASE op # "enter"
    BY <1>1, <1>2, <1>4
  <1> QED BY <1>3, <1>4

\* The node an entry of realloc_list refers to is there.
LEMMA NodeOfEntry ==
  ASSUME NEW P, Sound(P), NEW i \in DOMAIN P.realloc_list, P.realloc_list[i].addr # 0
  PROVE  P.nodes[P.realloc_list[i].stack].refcnt # 0
  <1> DEFINE re == P.realloc_list[i]
             s == re.stack
  <1>1. P.realloc_list \in Seq(ReallocEntry)
    BY Fields DEF Sound
  <1>2. s \in Stacks
    <2>1. re \in ReallocEntry
      BY <1>1
    <2> HIDE DEF re
    <2> QED BY <2>1 DEF ReallocEntry
  <1>3. i \in EntriesIn(P.realloc_list, s)
    BY DEF EntriesIn
  <1>4. Entries(P, s) = EntriesIn(P.realloc_list, s)
    BY DEF Entries, EntriesIn
  <1>5. Cardinality(Entries(P, s)) # 0
    BY <1>1, <1>3, <1>4, EntriesFinite, FS_EmptySet
  <1> HIDE DEF s
  <1>6. Users(P, s) \in Nat /\ Users(P, s) # 0
    BY <1>2, <1>5, UsersNat
  <1>7. P.nodes[s].refcnt \in {1 + Users(P, s)} \cup (IF Users(P, s) = 0 THEN {0} ELSE {})
    BY <1>2 DEF Sound, Referenced
  <1> QED BY <1>6, <1>7 DEF s

\* process_realloc_done.
LEMMA DoneSound ==
  ASSUME NEW P, Sound(P), NEW i \in DOMAIN P.realloc_list, NEW a
  PROVE  Sound(realloc_done(P, a, i))
  <1> DEFINE re == P.realloc_list[i]
             Q == IF a = 0 /\ re.addr # 0
                  THEN rb_insert_block(P, re.addr, re.size, re.stack, re.flags) ELSE P
  <1>1. P.realloc_list \in Seq(ReallocEntry)
    BY Fields DEF Sound
  <1>2. re \in ReallocEntry
    BY <1>1
  <1>3. re.addr # 0 => P.nodes[re.stack].refcnt # 0
    BY NodeOfEntry
  <1>4. realloc_done(P, a, i) = realloc_del(Q, i)
    BY DEF realloc_done
  <1> HIDE DEF re
  <1>5. /\ re.addr \in Nat /\ re.size \in Nat /\ re.stack \in Stacks
        /\ re.flags \in SUBSET {"leaked", "scanned"}
    BY <1>2 DEF ReallocEntry
  <1>6. Sound(Q) /\ Q.realloc_list = P.realloc_list
    BY <1>3, <1>5, InsertSound
  <1> HIDE DEF Q
  <1>7. i \in DOMAIN Q.realloc_list
    BY <1>6
  <1> QED BY <1>4, <1>6, <1>7, DelSound

\* process_leaks_scan.
LEMMA LeaksScanSound ==
  ASSUME NEW P, Sound(P), NEW mode \in {"all", "new", "leak"}
  PROVE  Sound(leaks_scan(P, mode)) /\ ScanSet(P, mode) \in SUBSET P.blocks
  <1> DEFINE D == ScanSet(P, mode)
             F == Flagged(P.blocks, D, "scanned")
             Q == [P EXCEPT !.blocks = F]
  <1>1. P \in Process /\ P.blocks \in SUBSET Block
    BY Fields DEF Sound
  <1>2. D \in SUBSET P.blocks
    BY DEF ScanSet, Leaked
  <1>3. Q = leaks_scan(P, mode)
    BY DEF leaks_scan
  <1> HIDE DEF D
  <1>4. PICK f \in [P.blocks -> Block] : /\ \A b \in P.blocks : f[b].id = b.id /\ f[b].stack = b.stack
                                         /\ F = Image(f, P.blocks)
    BY <1>1, <1>2, FlaggedIs
  <1>5. F \in SUBSET Block
    BY <1>4 DEF Image
  <1> HIDE DEF F
  <1>6. Q \in Process /\ Q.blocks = F /\ Q.nodes = P.nodes
        /\ Q.n_allocations = P.n_allocations /\ Q.realloc_list = P.realloc_list
    BY <1>1, <1>5 DEF Process
  <1> HIDE DEF Q
  <1>7. SameRefs(P, Q) /\ Q.blocks = Image(f, P.blocks)
    BY <1>4, <1>6 DEF SameRefs
  <1>8. Sound(Q)
    BY <1>4, <1>6, <1>7, RelabelSound
  <1> QED BY <1>2, <1>3, <1>8 DEF D

\* The bytes of blocks of a process are an integer.
LEMMA BytesInt ==
  ASSUME NEW P, Sound(P), NEW B \in SUBSET P.blocks
  PROVE  Bytes(B) \in Int /\ IsFiniteSet(B) /\ Cardinality(B) \in Nat
  <1>1. IsFiniteSet(P.blocks) /\ P.blocks \in SUBSET Block
    BY Fields DEF Sound
  <1>2. IsFiniteSet(B)
    BY <1>1, FS_Subset
  <1>3. Sized(B)
    BY <1>1, <1>2 DEF Sized, Block
  <1> QED BY <1>2, <1>3, BytesFacts, FS_CardinalityType

\* The counters of a node for blocks that leaked.
LeakCounted(w, x, y) == [w EXCEPT !.leaks = x, !.bytes_leaked = y]

\* Counting leaks on a node keeps its type and its references.
LEMMA LeakCount ==
  ASSUME NEW w \in Node, NEW x \in Int, NEW y \in Int
  PROVE  LeakCounted(w, x, y) \in Node /\ LeakCounted(w, x, y).refcnt = w.refcnt
  BY DEF Node, LeakCounted

\* Assignments to the blocks, the nodes and the leaks.
Scanned(P, F, N, x, y) == [P EXCEPT !.blocks = F, !.nodes = N, !.leaks = x, !.leaked_bytes = y]

\* A scan leaves the number of allocations and the pending reallocs alone.
LEMMA ScannedIs ==
  ASSUME NEW P \in Process, NEW F \in SUBSET Block, NEW N \in [Stacks -> Node], NEW x \in Int, NEW y \in Int
  PROVE  LET Q == Scanned(P, F, N, x, y)
         IN /\ Q \in Process /\ Q.blocks = F /\ Q.nodes = N /\ Q.n_allocations = P.n_allocations
            /\ Q.realloc_list = P.realloc_list
  BY DEF Scanned, Process

\* process_scan.
LEMMA ScanSoundly ==
  ASSUME NEW P, Sound(P), NEW A
  PROVE  Sound(process_scan(P, A))
  <1> DEFINE D == {b \in P.blocks : b.addr \in A /\ "leaked" \notin b.flags}
             F == Flagged(P.blocks, D, "leaked")
             c(w, B) == [w EXCEPT !.leaks = @ + Cardinality(B), !.bytes_leaked = @ + Bytes(B)]
             N == [s \in Stacks |-> c(P.nodes[s], On(D, s))]
             x == P.leaks + Cardinality(D)
             y == P.leaked_bytes + Bytes(D)
             Q == process_scan(P, A)
  <1>1. P \in Process /\ P.blocks \in SUBSET Block /\ D \in SUBSET P.blocks
    BY Fields DEF Sound
  <1>2. Q = Scanned(P, F, N, x, y)
    BY DEF process_scan, Scanned
  <1> HIDE DEF D, Q
  <1>3. PICK f \in [P.blocks -> Block] : /\ \A b \in P.blocks : f[b].id = b.id /\ f[b].stack = b.stack
                                         /\ F = Image(f, P.blocks)
    BY <1>1, FlaggedIs
  <1>4. F \in SUBSET Block
    BY <1>3 DEF Image
  <1>5. x \in Int /\ y \in Int
    BY <1>1, BytesInt, Fields
  <1>6. ASSUME NEW s \in Stacks
        PROVE  c(P.nodes[s], On(D, s)) \in Node /\ c(P.nodes[s], On(D, s)).refcnt = P.nodes[s].refcnt
    <2> DEFINE w == P.nodes[s]
               B == On(D, s)
    <2>1. B \in SUBSET P.blocks
      BY <1>1 DEF On
    <2>2. Cardinality(B) \in Int /\ Bytes(B) \in Int
      BY <2>1, BytesInt
    <2>3. w \in Node /\ w.leaks \in Int /\ w.bytes_leaked \in Int
      BY <1>1, Fields
    <2>4. c(w, B) = LeakCounted(w, w.leaks + Cardinality(B), w.bytes_leaked + Bytes(B))
      BY DEF LeakCounted
    <2> HIDE DEF w, B, c
    <2>5. c(w, B) \in Node /\ c(w, B).refcnt = w.refcnt
      BY <2>2, <2>3, <2>4, LeakCount
    <2> QED BY <2>5 DEF w, B
  <1> HIDE DEF c, F, x, y
  <1>7. N \in [Stacks -> Node] /\ \A s \in Stacks : N[s].refcnt = P.nodes[s].refcnt
    BY <1>6
  <1> HIDE DEF N
  <1>8. /\ Q \in Process /\ Q.blocks = F /\ Q.nodes = N /\ Q.n_allocations = P.n_allocations
        /\ Q.realloc_list = P.realloc_list
    BY <1>1, <1>2, <1>4, <1>5, <1>7, ScannedIs
  <1>9. SameRefs(P, Q) /\ Q.blocks = Image(f, P.blocks)
    BY <1>3, <1>7, <1>8 DEF SameRefs
  <1>10. Sound(Q)
    BY <1>3, <1>8, <1>9, RelabelSound
  <1> QED BY <1>10 DEF Q

\* What a reset leaves of the nodes.
PutBack(w, x, y) == [w EXCEPT !.n_allocations = x, !.refcnt = y]

\* The node a reset leaves is a node, with the references it was given.
LEMMA PutBackIs ==
  ASSUME NEW w \in Node, NEW x \in Int, NEW y \in Int
  PROVE  PutBack(w, x, y) \in Node /\ PutBack(w, x, y).refcnt = y
  BY DEF Node, PutBack

\* Assignments to the counters of a process.
Zeroed(P, w, x, y, z) == [P EXCEPT !.n_allocations = w, !.bytes_used = x, !.leaks = y, !.leaked_bytes = z]

\* Zeroing the counters of a struct process keeps its type.
LEMMA ZeroedIs ==
  ASSUME NEW P \in Process, NEW w \in Int, NEW x \in Int, NEW y \in Int, NEW z \in Int
  PROVE  Zeroed(P, w, x, y, z) \in Process
  BY DEF Zeroed, Process

\* Nothing uses the nodes of a process without blocks and entries.
LEMMA EmptyUsers ==
  ASSUME NEW Q, Q.blocks = {}, Q.realloc_list = <<>>, NEW s
  PROVE  Users(Q, s) = 0
  <1>1. On(Q.blocks, s) = {} /\ Entries(Q, s) = {}
    BY DEF On, Entries
  <1> QED BY <1>1, FS_EmptySet DEF Users

\* process_reset_allocations: nothing is left but the references of the tree,
\* and neither fatal() of process_reset and process_reset_allocations is reached.
LEMMA ResetSound ==
  ASSUME NEW P, Sound(P)
  PROVE  /\ Sound(reset_allocations(P)) /\ reset_allocations(P).n_allocations = 0
         /\ ~ResetFails(P)
  <1> DEFINE k(s) == Cardinality(On(P.blocks, s))
             e(s) == Cardinality(Entries(P, s))
             put(w, blocks, entries) == [w EXCEPT !.n_allocations = @ - blocks, !.refcnt = @ - blocks - entries]
             N == [s \in Stacks |-> put(P.nodes[s], k(s), e(s))]
             n == P.n_allocations - Cardinality(P.blocks)
             Q == reset_allocations(P)
  <1>1. P \in Process /\ n = 0
    BY Fields DEF Sound
  <1>2. Q = [P EXCEPT !.blocks = {}, !.nodes = N, !.realloc_list = <<>>, !.n_allocations = n,
                      !.bytes_used = 0, !.leaks = 0, !.leaked_bytes = 0]
    BY DEF reset_allocations
  <1>3. ASSUME NEW s \in Stacks
        PROVE  put(P.nodes[s], k(s), e(s)) \in Node /\ put(P.nodes[s], k(s), e(s)).refcnt \in {0, 1}
    <2> DEFINE w == P.nodes[s]
               b == k(s)
               r == e(s)
    <2>1. b \in Nat /\ r \in Nat /\ Users(P, s) = b + r
      BY UsersNat
    <2>2. w \in Node /\ w.refcnt \in Int /\ w.n_allocations \in Int
      BY <1>1, Fields
    <2>3. w.refcnt \in {1 + Users(P, s)} \cup (IF Users(P, s) = 0 THEN {0} ELSE {})
      BY DEF Sound, Referenced
    <2>4. put(w, b, r) = PutBack(w, w.n_allocations - b, w.refcnt - b - r)
      BY DEF PutBack
    <2> HIDE DEF w, b, r, put
    <2>5. w.n_allocations - b \in Int /\ w.refcnt - b - r \in Int
      BY <2>1, <2>2
    <2>6. put(w, b, r) \in Node /\ put(w, b, r).refcnt = w.refcnt - b - r
      BY <2>2, <2>4, <2>5, PutBackIs
    <2>7. w.refcnt - b - r \in {0, 1}
      BY <2>1, <2>3
    <2> QED BY <2>6, <2>7 DEF w, b, r
  <1> HIDE DEF put, k, e
  <1>4. N \in [Stacks -> Node] /\ \A s \in Stacks : N[s].refcnt \in {0, 1}
    BY <1>3
  <1> HIDE DEF N, n, Q
  <1>5. Q \in Process
    <2> DEFINE A == [P EXCEPT !.blocks = {}, !.nodes = N, !.realloc_list = <<>>]
    <2>1. <<>> \in Seq(ReallocEntry)
      OBVIOUS
    <2>2. A \in Process
      BY <1>1, <1>4, <2>1 DEF Process
    <2>3. Q = Zeroed(A, 0, 0, 0, 0)
      BY <1>1, <1>2 DEF Zeroed
    <2> HIDE DEF A
    <2> QED BY <2>2, <2>3, ZeroedIs
  <1>6. Q.blocks = {} /\ Q.nodes = N /\ Q.n_allocations = 0 /\ Q.realloc_list = <<>>
    BY <1>1, <1>2 DEF Process
  <1>7. \A s \in Stacks : Users(Q, s) = 0
    BY <1>6, EmptyUsers
  <1>8. Referenced(Q)
    BY <1>4, <1>6, <1>7 DEF Referenced
  <1>9. IsFiniteSet(Q.blocks) /\ Cardinality(Q.blocks) = 0 /\ Unique(Q.blocks)
    BY <1>6, FS_EmptySet DEF Unique
  <1>10. Sound(Q)
    BY <1>5, <1>6, <1>8, <1>9 DEF Sound
  <1>11. \A s \in Stacks : Q.nodes[s].refcnt \in {0, 1}
    BY <1>4, <1>6
  <1> QED BY <1>6, <1>10, <1>11 DEF Q, ResetFails

\* process_new.
LEMMA NewSound ==
  ASSUME NEW k \in BOOLEAN, NEW t \in BOOLEAN, NEW a \in BOOLEAN
  PROVE  Sound(process_new(k, t, a))
  <1> DEFINE N == [s \in Stacks |-> NoNode]
             Q == [known |-> k, tracing |-> t, attached |-> a,
                   n_allocations |-> 0, bytes_used |-> 0, leaks |-> 0, leaked_bytes |-> 0,
                   blocks |-> {}, nodes |-> N, realloc_list |-> <<>>]
  <1>1. N \in [Stacks -> Node] /\ \A s \in Stacks : N[s].refcnt = 0
    BY DEF NoNode, Node
  <1>2. Q = process_new(k, t, a)
    BY DEF process_new
  <1> HIDE DEF N
  <1>3. Q \in Process
    BY <1>1 DEF Process
  <1>4. Q.blocks = {} /\ Q.nodes = N /\ Q.n_allocations = 0 /\ Q.realloc_list = <<>>
    OBVIOUS
  <1> HIDE DEF Q
  <1>5. \A s \in Stacks : Users(Q, s) = 0
    BY <1>4, EmptyUsers
  <1>6. Referenced(Q)
    BY <1>1, <1>4, <1>5 DEF Referenced
  <1>7. IsFiniteSet(Q.blocks) /\ Cardinality(Q.blocks) = 0 /\ Unique(Q.blocks)
    BY <1>4, FS_EmptySet DEF Unique
  <1> QED BY <1>2, <1>3, <1>4, <1>6, <1>7 DEF Sound

\* The node of a child: references for the tree and for each block.
Cloned(w, x, y, z) == [stack_clone(w) EXCEPT !.refcnt = x, !.n_allocations = y, !.bytes_used = z]

\* The node of a child is a node, with the references it was given.
LEMMA CloneIs ==
  ASSUME NEW w \in Node, NEW x \in Int, NEW y \in Int, NEW z \in Int
  PROVE  Cloned(w, x, y, z) \in Node /\ Cloned(w, x, y, z).refcnt = x
  BY DEF Node, Cloned, stack_clone

\* Assignments to the blocks and their nodes.
Stocked(P, B, k, x, N) == [P EXCEPT !.blocks = B, !.n_allocations = k, !.bytes_used = x, !.nodes = N]

\* What filling the table of a child leaves of it: only the named fields differ.
LEMMA StockedIs ==
  ASSUME NEW P \in Process, NEW B \in SUBSET Block, NEW k \in Int, NEW x \in Int, NEW N \in [Stacks -> Node]
  PROVE  LET Q == Stocked(P, B, k, x, N)
         IN /\ Q \in Process /\ Q.blocks = B /\ Q.n_allocations = k /\ Q.nodes = N
            /\ Q.realloc_list = P.realloc_list
  BY DEF Stocked, Process

\* process_duplicate: the child is sound and has the allocations of its parent
\* (the assert of process.c:911).
LEMMA DuplicateSound ==
  ASSUME NEW P, Sound(P), NEW copy, Sound(copy)
  PROVE  /\ Sound(process_duplicate(P, copy))
         /\ process_duplicate(P, copy).n_allocations = copy.n_allocations
  <1> DEFINE A == process_new(TRUE, P.tracing, copy.attached)
             N == ClonedNodes(copy)
             B == copy.blocks
             x == Bytes(B)
             Q == process_duplicate(P, copy)
  <1>1. P.tracing \in BOOLEAN /\ copy.attached \in BOOLEAN /\ copy \in Process
    BY DEF Sound, Process
  <1>2. Sound(A) /\ A.realloc_list = <<>>
    BY <1>1, NewSound DEF process_new
  <1>3. x \in Int /\ B \in SUBSET Block /\ Unique(B) /\ IsFiniteSet(B)
        /\ copy.n_allocations = Cardinality(B) /\ Cardinality(B) \in Nat
    BY <1>1, BytesInt, Fields, FS_CardinalityType DEF Sound
  <1>4. Q = Stocked(A, B, Cardinality(B), x, N)
    BY DEF process_duplicate, Stocked
  <1>5. ASSUME NEW s \in Stacks
        PROVE  /\ N[s] \in Node
               /\ N[s].refcnt = IF On(B, s) = {} THEN 0 ELSE 1 + Cardinality(On(B, s))
    <2> DEFINE w == copy.nodes[s]
               C == On(B, s)
               c == [stack_clone(w) EXCEPT !.refcnt = @ + Cardinality(C),
                                           !.n_allocations = @ + Cardinality(C),
                                           !.bytes_used = @ + Bytes(C)]
               v == stack_clone(w)
    <2>1. N[s] = IF C = {} THEN NoNode ELSE c
      BY DEF ClonedNodes
    <2>2. Cardinality(C) \in Nat /\ Bytes(C) \in Int
      <3>1. C \in SUBSET B
        BY DEF On
      <3> QED BY <3>1, BytesInt
    <2>3. w \in Node
      BY <1>1, Fields
    <2>4. NoNode \in Node /\ NoNode.refcnt = 0
      BY DEF NoNode, Node
    <2>5. c = Cloned(w, v.refcnt + Cardinality(C), v.n_allocations + Cardinality(C), v.bytes_used + Bytes(C))
      BY DEF Cloned
    <2> HIDE DEF C, w, c
    <2>6. v.refcnt = 1 /\ v.n_allocations \in Int /\ v.bytes_used \in Int
      BY <2>3 DEF stack_clone, Node
    <2> HIDE DEF v
    <2>7. v.refcnt + Cardinality(C) \in Int /\ v.n_allocations + Cardinality(C) \in Int
          /\ v.bytes_used + Bytes(C) \in Int
      BY <2>2, <2>6
    <2>8. c \in Node /\ c.refcnt = v.refcnt + Cardinality(C)
      BY <2>3, <2>5, <2>7, CloneIs
    <2> HIDE DEF N
    <2>9. N[s] \in Node /\ N[s].refcnt = IF C = {} THEN 0 ELSE 1 + Cardinality(C)
      BY <2>1, <2>4, <2>6, <2>8
    <2> QED BY <2>9 DEF C
  <1>6. N \in [Stacks -> Node]
    <2>1. N = [s \in Stacks |-> N[s]]
      BY DEF ClonedNodes
    <2> HIDE DEF N
    <2> QED BY <1>5, <2>1
  <1> HIDE DEF A, N, B, x, Q
  <1>7. A \in Process /\ Cardinality(B) \in Int
    BY <1>2, <1>3 DEF Sound
  <1>8. /\ Q \in Process /\ Q.blocks = B /\ Q.nodes = N /\ Q.n_allocations = Cardinality(B)
        /\ Q.realloc_list = <<>>
    BY <1>2, <1>3, <1>4, <1>6, <1>7, StockedIs
  <1>9. ASSUME NEW s \in Stacks
        PROVE  Q.nodes[s].refcnt \in {1 + Users(Q, s)} \cup (IF Users(Q, s) = 0 THEN {0} ELSE {})
    <2>1. Entries(Q, s) = {}
      BY <1>8 DEF Entries
    <2>2. Users(Q, s) = Cardinality(On(B, s)) /\ Cardinality(On(B, s)) \in Nat
      BY <1>3, <1>8, <2>1, FS_EmptySet, OnFinite DEF Users
    <2>3. On(B, s) = {} => Cardinality(On(B, s)) = 0
      BY FS_EmptySet
    <2> QED BY <1>5, <1>8, <2>2, <2>3
  <1>10. Sound(Q)
    BY <1>3, <1>8, <1>9 DEF Sound, Referenced
  <1> QED BY <1>3, <1>8, <1>10 DEF Q

-----------------------------------------------------------------------------
(* What the counters count.                                                *)

\* C has n blocks more than B, of x bytes, and l leaked ones more, of y bytes.
Grown(B, C, n, x, l, y) ==
  /\ Cardinality(C) = Cardinality(B) + n /\ Bytes(C) = Bytes(B) + x
  /\ Cardinality(Leaked(C)) = Cardinality(Leaked(B)) + l /\ Bytes(Leaked(C)) = Bytes(Leaked(B)) + y

\* The counters are integers.
LEMMA CountsInt ==
  ASSUME NEW B \in SUBSET Block, IsFiniteSet(B)
  PROVE  /\ Cardinality(B) \in Int /\ Bytes(B) \in Int /\ Sized(B)
         /\ IsFiniteSet(Leaked(B)) /\ Leaked(B) \in SUBSET Block
         /\ Cardinality(Leaked(B)) \in Int /\ Bytes(Leaked(B)) \in Int /\ Sized(Leaked(B))
  <1>1. Leaked(B) \in SUBSET B
    BY DEF Leaked
  <1>2. IsFiniteSet(Leaked(B))
    BY <1>1, FS_Subset
  <1>3. Sized(B) /\ Sized(Leaked(B))
    BY <1>1, <1>2 DEF Sized, Block
  <1>4. Cardinality(B) \in Nat /\ Cardinality(Leaked(B)) \in Nat
    BY <1>2, FS_CardinalityType
  <1> QED BY <1>1, <1>2, <1>3, <1>4, BytesFacts

\* A block more adds one, its size, and as much to the leaks if it is leaked.
LEMMA CountAdd ==
  ASSUME NEW B \in SUBSET Block, IsFiniteSet(B), NEW b \in Block, b \notin B
  PROVE  Grown(B, B \cup {b}, 1, b.size, Leak(b), LeakSize(b))
  <1> DEFINE C == B \cup {b}
             L == Leaked(B)
             M == Leaked(C)
  <1>1. C \in SUBSET Block /\ IsFiniteSet(C) /\ Cardinality(C) = Cardinality(B) + 1 /\ C \ {b} = B
    BY FS_AddElement
  <1>2. b.size \in Nat
    BY DEF Block
  <1>3. Sized(C) /\ Sized(M) /\ Bytes(B) \in Int /\ Bytes(L) \in Int /\ IsFiniteSet(L) /\ Cardinality(L) \in Int
        /\ Cardinality(B) \in Int
    BY <1>1, CountsInt
  <1>4. Bytes(C) = Bytes(B) + b.size
    <2>1. b \in C
      OBVIOUS
    <2> HIDE DEF C
    <2>2. Bytes(C) = b.size + Bytes(C \ {b})
      BY <1>3, <2>1, BytesFacts
    <2>3. Bytes(C \ {b}) = Bytes(B)
      BY <1>1, Zenon
    <2> QED BY <1>2, <1>3, <2>2, <2>3
  <1>5. Cardinality(M) = Cardinality(L) + Leak(b) /\ Bytes(M) = Bytes(L) + LeakSize(b)
    <2>1. CASE "leaked" \in b.flags
      <3>1. M = L \cup {b} /\ b \notin L /\ M \ {b} = L /\ b \in M
        BY <2>1 DEF Leaked
      <3> HIDE DEF M, L
      <3>2. Cardinality(M) = Cardinality(L) + 1
        BY <1>3, <3>1, FS_AddElement
      <3>3. Bytes(M) = b.size + Bytes(L)
        BY <1>3, <3>1, BytesFacts
      <3> QED BY <1>2, <1>3, <2>1, <3>2, <3>3 DEF Leak, LeakSize
    <2>2. CASE "leaked" \notin b.flags
      <3>1. M = L
        BY <2>2 DEF Leaked
      <3> HIDE DEF M, L
      <3> QED BY <1>3, <2>2, <3>1 DEF Leak, LeakSize
    <2> QED BY <2>1, <2>2
  <1> QED BY <1>1, <1>4, <1>5 DEF Grown

\* A block less takes them away again.
LEMMA CountRemove ==
  ASSUME NEW B \in SUBSET Block, IsFiniteSet(B), NEW b \in B
  PROVE  Grown(B, B \ {b}, -1, -b.size, -Leak(b), -LeakSize(b))
  <1> DEFINE A == B \ {b}
  <1>1. A \in SUBSET Block /\ IsFiniteSet(A) /\ b \notin A /\ b \in Block
    BY FS_Subset
  <1>2. A \cup {b} = B
    OBVIOUS
  <1>3. Grown(A, A \cup {b}, 1, b.size, Leak(b), LeakSize(b))
    <2> HIDE DEF A
    <2> QED BY <1>1, CountAdd
  <1>4. Grown(A, B, 1, b.size, Leak(b), LeakSize(b))
    BY <1>2, <1>3, Zenon
  <1>5. b.size \in Int /\ Leak(b) \in Int /\ LeakSize(b) \in Int
    <2>1. b.size \in Nat
      BY <1>1 DEF Block
    <2> QED BY <2>1 DEF Leak, LeakSize
  <1> HIDE DEF A
  <1>6. /\ Cardinality(A) \in Int /\ Bytes(A) \in Int
        /\ Cardinality(Leaked(A)) \in Int /\ Bytes(Leaked(A)) \in Int
    BY <1>1, CountsInt
  <1>7. Grown(B, A, -1, -b.size, -Leak(b), -LeakSize(b))
    BY <1>4, <1>5, <1>6 DEF Grown
  <1> QED BY <1>7 DEF A

\* The bytes of two sets of blocks with nothing in common.
LEMMA BytesUnion ==
  ASSUME NEW B, Sized(B), NEW C, Sized(C), B \cap C = {}
  PROVE  Bytes(B \cup C) = Bytes(B) + Bytes(C)
  <1> DEFINE F == {V \in SUBSET C : Bytes(B \cup V) # Bytes(B) + Bytes(V)}
  <1> SUFFICES ASSUME Bytes(B \cup C) # Bytes(B) + Bytes(C) PROVE FALSE
    OBVIOUS
  <1>1. IsFiniteSet(C) /\ F \in SUBSET (SUBSET C) /\ F # {}
    BY DEF Sized
  <1>2. PICK U \in F : \A V \in F : V \subseteq U => V = U
    <2> HIDE DEF F
    <2> QED BY <1>1, SmallestSubset
  <1>3. ASSUME NEW V \in SUBSET C PROVE Sized(V) /\ Sized(B \cup V)
    BY <1>3, FS_Subset, FS_Union DEF Sized
  <1>4. Bytes(B) \in Int
    BY BytesFacts
  <1>5. U # {}
    <2>1. Bytes({}) = 0
      BY <1>3, BytesFacts
    <2>2. Bytes(B \cup {}) = Bytes(B)
      <3>1. B \cup {} = B
        OBVIOUS
      <3> QED BY <3>1, Zenon
    <2>3. Bytes(B \cup {}) = Bytes(B) + Bytes({})
      BY <1>4, <2>1, <2>2
    <2>4. Bytes(B \cup U) # Bytes(B) + Bytes(U)
      BY <1>2
    <2> QED BY <2>3, <2>4, Zenon
  <1>6. PICK b \in U : TRUE
    BY <1>5
  <1> DEFINE V == U \ {b}
  <1>7. V \in SUBSET C /\ V \subseteq U /\ V # U /\ b \in C /\ b \notin B
    BY <1>2, <1>6
  <1>8. Bytes(B \cup V) = Bytes(B) + Bytes(V)
    BY <1>2, <1>7
  <1>9. Bytes(U) = b.size + Bytes(V)
    BY <1>2, <1>3, <1>6, BytesFacts
  <1>10. Bytes(B \cup U) = b.size + Bytes(B \cup V)
    <2>1. b \in B \cup U /\ (B \cup U) \ {b} = B \cup V
      BY <1>6, <1>7
    <2>2. Sized(B \cup U)
      BY <1>2, <1>3
    <2> QED BY <2>1, <2>2, BytesFacts
  <1>11. b.size \in Int /\ Bytes(V) \in Int
    BY <1>3, <1>7, BytesFacts DEF Sized
  <1> QED BY <1>2, <1>4, <1>8, <1>9, <1>10, <1>11

\* A change of the blocks that keeps their sizes keeps their bytes.
LEMMA BytesImage ==
  ASSUME NEW B \in SUBSET Block, IsFiniteSet(B), Unique(B), NEW f \in [B -> Block],
         \A b \in B : f[b].id = b.id /\ f[b].size = b.size
  PROVE  Bytes(Image(f, B)) = Bytes(B)
  <1> DEFINE F == {V \in SUBSET B : Bytes(Image(f, V)) # Bytes(V)}
  <1> SUFFICES ASSUME Bytes(Image(f, B)) # Bytes(B) PROVE FALSE
    OBVIOUS
  <1>1. F \in SUBSET (SUBSET B) /\ F # {}
    OBVIOUS
  <1>2. PICK U \in F : \A V \in F : V \subseteq U => V = U
    <2> HIDE DEF F
    <2> QED BY <1>1, SmallestSubset
  <1>3. ASSUME NEW V \in SUBSET B PROVE Sized(V) /\ Sized(Image(f, V))
    <2>1. IsFiniteSet(V) /\ IsFiniteSet(Image(f, V))
      BY FS_Subset, ImageCount
    <2>2. V \in SUBSET Block /\ Image(f, V) \in SUBSET Block
      BY DEF Image
    <2> QED BY <2>1, <2>2, CountsInt
  <1>4. U # {}
    <2>1. Image(f, {}) = {}
      BY DEF Image
    <2> QED BY <2>1
  <1>5. PICK b \in U : TRUE
    BY <1>4
  <1> DEFINE V == U \ {b}
  <1>6. V \in SUBSET B /\ V \subseteq U /\ V # U /\ b \in B
    BY <1>2, <1>5
  <1>7. Bytes(Image(f, V)) = Bytes(V)
    BY <1>2, <1>6
  <1>8. Bytes(U) = b.size + Bytes(V)
    BY <1>2, <1>3, <1>5, BytesFacts
  <1>9. Bytes(Image(f, U)) = f[b].size + Bytes(Image(f, V))
    <2>1. f[b] \in Image(f, U) /\ Image(f, U) \ {f[b]} = Image(f, V)
      BY <1>2, <1>5, <1>6 DEF Image, Unique
    <2>2. Sized(Image(f, U))
      BY <1>2, <1>3
    <2> QED BY <2>1, <2>2, BytesFacts
  <1> QED BY <1>2, <1>6, <1>7, <1>8, <1>9

\* Flags change neither the number nor the bytes of blocks.
LEMMA FlaggedCount ==
  ASSUME NEW B \in SUBSET Block, IsFiniteSet(B), Unique(B), NEW D, NEW flag, NEW f \in [B -> Block],
         Flags(f, B, D, flag), NEW C \in SUBSET B
  PROVE  Cardinality(Image(f, C)) = Cardinality(C) /\ Bytes(Image(f, C)) = Bytes(C)
  <1> DEFINE g == [b \in C |-> f[b]]
  <1>1. IsFiniteSet(C) /\ C \in SUBSET Block /\ Unique(C)
    BY FS_Subset DEF Unique
  <1>2. g \in [C -> Block] /\ Image(g, C) = Image(f, C)
    BY DEF Image
  <1>3. \A b \in C : g[b].id = b.id /\ g[b].size = b.size
    BY DEF Flags
  <1> HIDE DEF g
  <1>4. Cardinality(Image(g, C)) = Cardinality(C)
    BY <1>1, <1>2, <1>3, ImageCount
  <1>5. Bytes(Image(g, C)) = Bytes(C)
    BY <1>1, <1>2, <1>3, BytesImage
  <1> QED BY <1>2, <1>4, <1>5

\* A process_scan that finds the blocks D leaked adds them to the leaks.
LEMMA CountFlag ==
  ASSUME NEW B \in SUBSET Block, IsFiniteSet(B), Unique(B), NEW D \in SUBSET B,
         \A b \in D : "leaked" \notin b.flags
  PROVE  Grown(B, Flagged(B, D, "leaked"), 0, 0, Cardinality(D), Bytes(D))
  <1> DEFINE F == Flagged(B, D, "leaked")
             L == Leaked(B)
  <1>1. PICK f \in [B -> Block] : Flags(f, B, D, "leaked") /\ F = Image(f, B)
    BY FlaggedBy
  <1> HIDE DEF F
  <1>2. Leaked(F) = Image(f, L \cup D) /\ L \cup D \in SUBSET B /\ L \cap D = {}
    <2>1. L \cup D \in SUBSET B /\ L \cap D = {}
      BY DEF Leaked
    <2>2. \A b \in B : "leaked" \in f[b].flags <=> b \in L \cup D
      BY <1>1 DEF Leaked, Flags
    <2> HIDE DEF L
    <2>3. Leaked(F) = Image(f, L \cup D)
      BY <1>1, <2>1, <2>2 DEF Leaked, Image
    <2> QED BY <2>1, <2>3
  <1>3. Cardinality(F) = Cardinality(B) /\ Bytes(F) = Bytes(B)
    BY <1>1, FlaggedCount
  <1>4. Cardinality(Leaked(F)) = Cardinality(L \cup D) /\ Bytes(Leaked(F)) = Bytes(L \cup D)
    BY <1>1, <1>2, FlaggedCount
  <1>5. IsFiniteSet(D) /\ IsFiniteSet(L) /\ Sized(D) /\ Sized(L) /\ Cardinality(D) \in Int /\ Cardinality(L) \in Int
    BY <1>2, FS_Subset, CountsInt
  <1> HIDE DEF L
  <1>6. Cardinality(L \cup D) = Cardinality(L) + Cardinality(D)
    <2>1. Cardinality(L \cap D) = 0
      BY <1>2, FS_EmptySet, Zenon
    <2>2. Cardinality(L \cup D) = Cardinality(L) + Cardinality(D) - Cardinality(L \cap D)
      BY <1>5, FS_Union
    <2> QED BY <1>5, <2>1, <2>2
  <1>7. Bytes(L \cup D) = Bytes(L) + Bytes(D)
    BY <1>2, <1>5, BytesUnion
  <1>8. Cardinality(B) \in Int /\ Bytes(B) \in Int
    BY CountsInt
  <1> QED BY <1>3, <1>4, <1>6, <1>7, <1>8 DEF Grown, F, L

\* A process_leaks_scan, which marks the blocks D it asks about, changes no count.
LEMMA CountMark ==
  ASSUME NEW B \in SUBSET Block, IsFiniteSet(B), Unique(B), NEW D \in SUBSET B
  PROVE  Grown(B, Flagged(B, D, "scanned"), 0, 0, 0, 0)
  <1> DEFINE F == Flagged(B, D, "scanned")
             L == Leaked(B)
  <1>1. PICK f \in [B -> Block] : Flags(f, B, D, "scanned") /\ F = Image(f, B)
    BY FlaggedBy
  <1> HIDE DEF F
  <1>2. Leaked(F) = Image(f, L) /\ L \in SUBSET B
    <2>1. L \in SUBSET B
      BY DEF Leaked
    <2>2. ASSUME NEW b \in B PROVE "leaked" \in f[b].flags <=> b \in L
      <3>1. f[b].flags = IF b \in D THEN b.flags \cup {"scanned"} ELSE b.flags
        BY <1>1 DEF Flags
      <3>2. "leaked" \in f[b].flags <=> "leaked" \in b.flags
        BY <3>1
      <3> QED BY <3>2 DEF Leaked
    <2> HIDE DEF L
    <2>3. Leaked(F) = Image(f, L)
      BY <1>1, <2>1, <2>2 DEF Leaked, Image
    <2> QED BY <2>1, <2>3
  <1>3. Cardinality(F) = Cardinality(B) /\ Bytes(F) = Bytes(B)
    BY <1>1, FlaggedCount
  <1>4. Cardinality(Leaked(F)) = Cardinality(L) /\ Bytes(Leaked(F)) = Bytes(L)
    BY <1>1, <1>2, FlaggedCount
  <1>5. /\ Cardinality(B) \in Int /\ Bytes(B) \in Int
        /\ Cardinality(L) \in Int /\ Bytes(L) \in Int
    BY CountsInt
  <1> QED BY <1>3, <1>4, <1>5 DEF Grown, F, L

\* The counters of a call stack count the blocks B.
NodeCounts(w, B) ==
  /\ w.n_allocations = Cardinality(B) /\ w.bytes_used = Bytes(B)
  /\ w.leaks = Cardinality(Leaked(B)) /\ w.bytes_leaked = Bytes(Leaked(B))

\* The bytes, the leaks and the call stacks of a process are counted right.
Weighed(P) == P.bytes_used = Bytes(P.blocks)
LeaksCounted(P) ==
  P.leaks = Cardinality(Leaked(P.blocks)) /\ P.leaked_bytes = Bytes(Leaked(P.blocks))
StackCounted(P) == \A s \in Stacks : NodeCounts(P.nodes[s], On(P.blocks, s))
Keeps(P, Q) ==
  /\ Weighed(P) => Weighed(Q)
  /\ LeaksCounted(P) => LeaksCounted(Q)
  /\ StackCounted(P) => StackCounted(Q)

\* The blocks of a call stack when one comes or goes, or some are flagged.
LEMMA OnChanges ==
  ASSUME NEW B \in SUBSET Block, NEW s
  PROVE  /\ \A b : On(B \cup {b}, s) = IF b.stack = s THEN On(B, s) \cup {b} ELSE On(B, s)
         /\ \A b : On(B \ {b}, s) = IF b.stack = s THEN On(B, s) \ {b} ELSE On(B, s)
         /\ \A D \in SUBSET B, flag \in {"leaked", "scanned"} :
              On(Flagged(B, D, flag), s) = Flagged(On(B, s), On(D, s), flag)
  <1>1. ASSUME NEW b
        PROVE  /\ On(B \cup {b}, s) = IF b.stack = s THEN On(B, s) \cup {b} ELSE On(B, s)
               /\ On(B \ {b}, s) = IF b.stack = s THEN On(B, s) \ {b} ELSE On(B, s)
    BY DEF On
  <1>2. ASSUME NEW D \in SUBSET B, NEW flag \in {"leaked", "scanned"}
        PROVE  On(Flagged(B, D, flag), s) = Flagged(On(B, s), On(D, s), flag)
    <2> DEFINE m(b) == [b EXCEPT !.flags = @ \cup {flag}]
    <2>1. \A b \in B : m(b).stack = b.stack
      BY DEF Block
    <2>2. /\ Flagged(B, D, flag) = (B \ D) \cup {m(b) : b \in D}
          /\ Flagged(On(B, s), On(D, s), flag) = (On(B, s) \ On(D, s)) \cup {m(b) : b \in On(D, s)}
      BY DEF Flagged
    <2> HIDE DEF m
    <2> QED BY <2>1, <2>2 DEF On
  <1> QED BY <1>1, <1>2

\* The blocks of a process can be counted, and so can those of its call stacks.
LEMMA Countable ==
  ASSUME NEW P, Sound(P)
  PROVE  /\ P \in Process /\ P.blocks \in SUBSET Block /\ IsFiniteSet(P.blocks) /\ Unique(P.blocks)
         /\ \A s \in Stacks : /\ On(P.blocks, s) \in SUBSET Block /\ IsFiniteSet(On(P.blocks, s))
                              /\ Unique(On(P.blocks, s))
  <1>1. P \in Process /\ P.blocks \in SUBSET Block /\ IsFiniteSet(P.blocks) /\ Unique(P.blocks)
    BY Fields DEF Sound
  <1> QED BY <1>1, OnFinite DEF On, Unique

\* Where nothing is counted differently, the counters stay right.
LEMMA SameKeeps ==
  ASSUME NEW P, NEW Q, Q.blocks = P.blocks, SameTally(P, Q),
         \A r \in Stacks : SameCounts(P.nodes[r], Q.nodes[r])
  PROVE  Keeps(P, Q)
  BY DEF Keeps, Weighed, LeaksCounted, StackCounted, NodeCounts, SameTally, SameCounts

\* stack_get and stack_put count references only; stack_add makes a node that
\* counts nothing, and it is one that no block uses.
LEMMA StacksKeep ==
  ASSUME NEW P, Sound(P), NEW s \in Stacks
  PROVE  Keeps(P, stack_get(P, s)) /\ Keeps(P, stack_put(P, s)) /\ Keeps(P, stack_add(P, s))
  <1>1. P \in Process
    BY DEF Sound
  <1>2. Keeps(P, stack_get(P, s))
    BY <1>1, GetIs, SameKeeps DEF SameTable
  <1>3. Keeps(P, stack_put(P, s))
    BY <1>1, PutIs, SameKeeps DEF SameTable
  <1>4. Keeps(P, stack_add(P, s))
    <2> DEFINE Q == stack_add(P, s)
    <2>1. /\ SameTable(P, Q) /\ SameTally(P, Q)
          /\ \A r \in Stacks :
               SameCounts(IF r = s /\ P.nodes[r].refcnt = 0 THEN NoNode ELSE P.nodes[r], Q.nodes[r])
      BY <1>1, AddIs
    <2> HIDE DEF Q
    <2>2. (Weighed(P) => Weighed(Q)) /\ (LeaksCounted(P) => LeaksCounted(Q))
      BY <2>1 DEF Weighed, LeaksCounted, SameTable, SameTally
    <2>3. ASSUME StackCounted(P), NEW r \in Stacks PROVE NodeCounts(Q.nodes[r], On(Q.blocks, r))
      <3>1. NodeCounts(P.nodes[r], On(P.blocks, r)) /\ Q.blocks = P.blocks
        BY <2>1, <2>3 DEF StackCounted, SameTable
      <3>2. CASE r = s /\ P.nodes[r].refcnt = 0
        <4>1. On(P.blocks, r) = {}
          BY <3>2, NodeOfBlock DEF On
        <4>2. NodeCounts(NoNode, {})
          <5>1. Leaked({}) = {}
            BY DEF Leaked
          <5>2. Bytes({}) = 0
            <6>1. Sized({})
              BY FS_EmptySet DEF Sized
            <6> QED BY <6>1, BytesFacts
          <5> QED BY <5>1, <5>2, FS_EmptySet DEF NodeCounts, NoNode
        <4> QED BY <2>1, <3>1, <3>2, <4>1, <4>2 DEF NodeCounts, SameCounts
      <3>3. CASE ~(r = s /\ P.nodes[r].refcnt = 0)
        <4>1. SameCounts(P.nodes[r], Q.nodes[r])
          BY <2>1, <3>3
        <4> QED BY <3>1, <4>1 DEF NodeCounts, SameCounts
      <3> QED BY <3>2, <3>3
    <2> QED BY <2>2, <2>3 DEF Keeps, StackCounted, Q
  <1> QED BY <1>2, <1>3, <1>4

\* The entries of realloc_list are not counted.
LEMMA ListKeeps ==
  ASSUME NEW P \in Process, NEW L PROVE Keeps(P, [P EXCEPT !.realloc_list = L])
  <1> DEFINE Q == [P EXCEPT !.realloc_list = L]
  <1>1. Q.blocks = P.blocks /\ Q.nodes = P.nodes /\ SameTally(P, Q)
    BY DEF Process, SameTally
  <1> HIDE DEF Q
  <1>2. \A r \in Stacks : SameCounts(P.nodes[r], Q.nodes[r])
    BY <1>1 DEF SameCounts
  <1> QED BY <1>1, <1>2, SameKeeps DEF Q

\* process_rb_delete_block.
LEMMA DeleteKeeps ==
  ASSUME NEW P, Sound(P), NEW b \in P.blocks, b.size < UIntMod PROVE Keeps(P, rb_delete_block(P, b))
  <1> DEFINE Q == rb_delete_block(P, b)
             B == P.blocks
  <1>1. P \in Process /\ B \in SUBSET Block /\ IsFiniteSet(B) /\ b \in Block
    BY Countable
  <1>0. UInt(b.size) = b.size
    BY <1>1, UIntIs DEF Block
  <1>2. /\ Q.blocks = B \ {b} /\ Q.bytes_used = P.bytes_used - b.size /\ Q.leaks = P.leaks - Leak(b)
        /\ Q.leaked_bytes = P.leaked_bytes - LeakSize(b)
        /\ \A r \in Stacks :
               /\ Q.nodes[r].n_allocations = P.nodes[r].n_allocations - (IF r = b.stack THEN 1 ELSE 0)
               /\ Q.nodes[r].bytes_used = P.nodes[r].bytes_used - (IF r = b.stack THEN b.size ELSE 0)
               /\ Q.nodes[r].leaks = P.nodes[r].leaks - (IF r = b.stack THEN Leak(b) ELSE 0)
               /\ Q.nodes[r].bytes_leaked = P.nodes[r].bytes_leaked - (IF r = b.stack THEN LeakSize(b) ELSE 0)
    BY <1>0, <1>1, DeleteIs
  <1>3. b.size \in Int /\ Leak(b) \in Int /\ LeakSize(b) \in Int
    <2>1. b.size \in Nat
      BY <1>1 DEF Block
    <2> QED BY <2>1 DEF Leak, LeakSize
  <1> HIDE DEF Q
  <1>4. (Weighed(P) => Weighed(Q)) /\ (LeaksCounted(P) => LeaksCounted(Q))
    <2>1. Grown(B, B \ {b}, -1, -b.size, -Leak(b), -LeakSize(b))
      BY <1>1, CountRemove
    <2>2. Bytes(B) \in Int /\ Cardinality(Leaked(B)) \in Int /\ Bytes(Leaked(B)) \in Int
      BY <1>1, CountsInt
    <2> QED BY <1>2, <1>3, <2>1, <2>2 DEF Weighed, LeaksCounted, Grown
  <1>5. ASSUME StackCounted(P), NEW r \in Stacks PROVE NodeCounts(Q.nodes[r], On(Q.blocks, r))
    <2> DEFINE C == On(B, r)
    <2>1. NodeCounts(P.nodes[r], C)
      BY <1>5 DEF StackCounted
    <2>2. C \in SUBSET Block /\ IsFiniteSet(C)
      BY Countable
    <2>3. On(Q.blocks, r) = IF b.stack = r THEN C \ {b} ELSE C
      <3>1. On(B \ {b}, r) = IF b.stack = r THEN C \ {b} ELSE C
        BY DEF On
      <3>2. Q.blocks = B \ {b}
        BY <1>2
      <3> QED BY <3>1, <3>2, Zenon
    <2>4. b.stack = r => b \in C
      BY DEF On
    <2> HIDE DEF C
    <2>5. /\ Cardinality(C) \in Int /\ Bytes(C) \in Int
          /\ Cardinality(Leaked(C)) \in Int /\ Bytes(Leaked(C)) \in Int
      BY <2>2, CountsInt
    <2>6. CASE b.stack = r
      <3>1. Grown(C, C \ {b}, -1, -b.size, -Leak(b), -LeakSize(b))
        BY <2>2, <2>4, <2>6, CountRemove
      <3> DEFINE E == C \ {b}
      <3>2. On(Q.blocks, r) = E
        BY <2>3, <2>6
      <3>3. Grown(C, E, -1, -b.size, -Leak(b), -LeakSize(b))
        BY <3>1
      <3> HIDE DEF E
      <3>4. NodeCounts(Q.nodes[r], E)
        BY <1>2, <1>3, <2>1, <2>5, <2>6, <3>3 DEF NodeCounts, Grown
      <3> QED BY <3>2, <3>4
    <2>7. CASE b.stack # r
      <3>1. On(Q.blocks, r) = C
        BY <2>3, <2>7
      <3>2. NodeCounts(Q.nodes[r], C)
        BY <1>2, <2>1, <2>5, <2>7 DEF NodeCounts
      <3> QED BY <3>1, <3>2
    <2> QED BY <2>6, <2>7
  <1> QED BY <1>4, <1>5 DEF Keeps, StackCounted, Q

\* process_rb_insert_block: the bytes of the process are left to the caller, and
\* a block that comes back leaked is not counted again.
LEMMA InsertKeeps ==
  ASSUME NEW P, Sound(P), NEW a \in Nat, NEW n \in Nat, NEW s \in Stacks,
         NEW flags \in SUBSET {"leaked", "scanned"}, "leaked" \notin flags,
         NEW Q, Q = rb_insert_block(P, a, n, s, flags)
  PROVE  /\ Weighed(P) => Q.bytes_used + n = Bytes(Q.blocks)
         /\ LeaksCounted(P) => LeaksCounted(Q)
         /\ StackCounted(P) => StackCounted(Q)
  <1> DEFINE B == P.blocks
  <1>1. P \in Process /\ B \in SUBSET Block /\ IsFiniteSet(B)
    BY Countable
  <1>2. PICK b \in Block : /\ b.stack = s /\ b.addr = a /\ b.size = n /\ b.flags = flags
                           /\ \A c \in B : c.id # b.id
                           /\ Q.blocks = B \cup {b}
    BY <1>1, InsertIs
  <1>3. /\ SameTally(P, Q)
        /\ \A r \in Stacks :
               /\ Q.nodes[r].n_allocations = P.nodes[r].n_allocations + (IF r = s THEN 1 ELSE 0)
               /\ Q.nodes[r].bytes_used = P.nodes[r].bytes_used + (IF r = s THEN n ELSE 0)
               /\ Q.nodes[r].leaks = P.nodes[r].leaks /\ Q.nodes[r].bytes_leaked = P.nodes[r].bytes_leaked
    BY <1>1, InsertIs
  <1>4. b \notin B /\ Leak(b) = 0 /\ LeakSize(b) = 0
    BY <1>2 DEF Leak, LeakSize
  <1>5. ASSUME NEW C \in SUBSET B
        PROVE  /\ Cardinality(C \cup {b}) = Cardinality(C) + 1 /\ Bytes(C \cup {b}) = Bytes(C) + n
               /\ Cardinality(Leaked(C \cup {b})) = Cardinality(Leaked(C))
               /\ Bytes(Leaked(C \cup {b})) = Bytes(Leaked(C))
    <2>1. C \in SUBSET Block /\ IsFiniteSet(C) /\ b \notin C
      BY <1>1, <1>4, FS_Subset
    <2>2. Grown(C, C \cup {b}, 1, b.size, Leak(b), LeakSize(b))
      BY <2>1, CountAdd
    <2>3. /\ Cardinality(Leaked(C)) \in Int /\ Bytes(Leaked(C)) \in Int
      BY <2>1, CountsInt
    <2> QED BY <1>2, <1>4, <2>2, <2>3 DEF Grown
  <1>6. (Weighed(P) => Q.bytes_used + n = Bytes(Q.blocks)) /\ (LeaksCounted(P) => LeaksCounted(Q))
    <2> DEFINE E == B \cup {b}
    <2>1. /\ Bytes(E) = Bytes(B) + n /\ Cardinality(Leaked(E)) = Cardinality(Leaked(B))
          /\ Bytes(Leaked(E)) = Bytes(Leaked(B)) /\ Q.blocks = E
      BY <1>2, <1>5
    <2> HIDE DEF E
    <2> QED BY <1>3, <2>1 DEF Weighed, LeaksCounted, SameTally
  <1>7. ASSUME StackCounted(P), NEW r \in Stacks PROVE NodeCounts(Q.nodes[r], On(Q.blocks, r))
    <2> DEFINE C == On(B, r)
               E == C \cup {b}
    <2>1. NodeCounts(P.nodes[r], C)
      BY <1>7 DEF StackCounted
    <2>2. C \in SUBSET B
      BY DEF On
    <2>3. On(Q.blocks, r) = IF r = s THEN E ELSE C
      <3>1. On(B \cup {b}, r) = IF b.stack = r THEN E ELSE C
        BY DEF On
      <3>2. Q.blocks = B \cup {b} /\ b.stack = s
        BY <1>2
      <3> QED BY <3>1, <3>2, Zenon
    <2>4. /\ Cardinality(E) = Cardinality(C) + 1 /\ Bytes(E) = Bytes(C) + n
          /\ Cardinality(Leaked(E)) = Cardinality(Leaked(C))
          /\ Bytes(Leaked(E)) = Bytes(Leaked(C))
      BY <1>5, <2>2
    <2>5. /\ Cardinality(C) \in Int /\ Bytes(C) \in Int
      BY <1>1, <2>2, FS_Subset, CountsInt
    <2> HIDE DEF C, E
    <2>6. CASE r = s
      <3>1. NodeCounts(Q.nodes[r], E)
        BY <1>3, <2>1, <2>4, <2>5, <2>6 DEF NodeCounts
      <3> QED BY <2>3, <2>6, <3>1
    <2>7. CASE r # s
      <3>1. NodeCounts(Q.nodes[r], C)
        BY <1>3, <2>1, <2>5, <2>7 DEF NodeCounts
      <3> QED BY <2>3, <2>7, <3>1
    <2> QED BY <2>6, <2>7
  <1> QED BY <1>6, <1>7 DEF StackCounted

\* process_alloc, its last turn.
LEMMA AllocKeeps ==
  ASSUME NEW P, Sound(P), NEW a \in Nat, NEW n \in Nat, NEW s \in Stacks
  PROVE  Keeps(P, alloc_insert(P, a, n, s))
  <1> DEFINE A == stack_add(P, s)
             I == rb_insert_block(A, a, n, s, {})
             Q == alloc_insert(P, a, n, s)
  <1>1. Sound(A) /\ A.nodes[s].refcnt # 0 /\ Keeps(P, A)
    BY AddSound, StacksKeep
  <1>2. Q = [I EXCEPT !.bytes_used = I.bytes_used + n]
    BY DEF alloc_insert
  <1> HIDE DEF A
  <1>3. /\ Weighed(A) => I.bytes_used + n = Bytes(I.blocks)
        /\ LeaksCounted(A) => LeaksCounted(I)
        /\ StackCounted(A) => StackCounted(I)
    <2>1. {} \in SUBSET {"leaked", "scanned"} /\ "leaked" \notin {}
      OBVIOUS
    <2> QED BY <1>1, <2>1, InsertKeeps
  <1>4. I \in Process
    BY <1>1, InsertSound DEF Sound
  <1> HIDE DEF I
  <1>5. /\ Q.blocks = I.blocks /\ Q.nodes = I.nodes /\ Q.leaks = I.leaks
        /\ Q.leaked_bytes = I.leaked_bytes /\ Q.bytes_used = I.bytes_used + n
    BY <1>2, <1>4 DEF Process
  <1> HIDE DEF Q
  <1>6. /\ Weighed(A) => Weighed(Q)
        /\ LeaksCounted(A) => LeaksCounted(Q)
        /\ StackCounted(A) => StackCounted(Q)
    BY <1>3, <1>5 DEF Weighed, LeaksCounted, StackCounted
  <1>7. Keeps(P, Q)
    BY <1>1, <1>6 DEF Keeps
  <1> QED BY <1>7 DEF Q

\* process_free.
LEMMA FreeKeeps ==
  ASSUME NEW P, Sound(P), NEW b \in P.blocks, b.size < UIntMod, NEW op, NEW tid,
         op = "enter" => tid \in Threads /\ b.addr # 0
  PROVE  Keeps(P, free_block(P, b, op, tid))
  <1> DEFINE Q == IF Mismatched(b) THEN stack_add(P, ChargedTo(op)) ELSE P
             re == [tid |-> tid, addr |-> b.addr, size |-> b.size, stack |-> b.stack, flags |-> b.flags]
             G == stack_get(Q, re.stack)
             R == [G EXCEPT !.realloc_list = Append(@, re)]
             E == IF op = "enter" THEN R ELSE Q
  <1>1. Sound(Q) /\ Q.blocks = P.blocks /\ Keeps(P, Q)
    BY ChargedStack, AddSound, StacksKeep DEF SameTable, Keeps
  <1>2. rb_delete_block(E, b) = free_block(P, b, op, tid)
    BY DEF free_block
  <1> HIDE DEF Q
  <1>3. b \in Q.blocks /\ b \in Block
    BY <1>1, Fields DEF Sound
  <1>4. CASE op = "enter"
    <2>1. re \in ReallocEntry /\ re.addr # 0
      BY <1>3, <1>4 DEF Block, ReallocEntry
    <2>2. re.stack = b.stack /\ b.stack \in Stacks
      BY <1>3 DEF Block
    <2>3. Q.nodes[re.stack].refcnt # 0
      BY <1>1, <1>3, <2>2, NodeOfBlock
    <2>4. Keeps(Q, G) /\ G \in Process
      BY <1>1, <2>2, StacksKeep, GetIs DEF Sound
    <2> HIDE DEF re
    <2>5. Sound(R) /\ R.blocks = Q.blocks
      BY <1>1, <2>1, <2>3, EnterSound
    <2>6. Keeps(G, R)
      <3> HIDE DEF G
      <3> QED BY <2>4, ListKeeps
    <2>7. E = R
      BY <1>4
    <2> HIDE DEF R, E, G
    <2>8. Keeps(R, rb_delete_block(R, b))
      BY <1>3, <2>5, DeleteKeeps
    <2> QED BY <1>1, <1>2, <2>4, <2>6, <2>7, <2>8 DEF Keeps
  <1>5. CASE op # "enter"
    <2>1. E = Q
      BY <1>5
    <2> HIDE DEF E
    <2>2. Keeps(Q, rb_delete_block(Q, b))
      BY <1>1, <1>3, DeleteKeeps
    <2> QED BY <1>1, <1>2, <2>1, <2>2 DEF Keeps
  <1> QED BY <1>4, <1>5

\* ... of what is not known.
LEMMA UnknownKeeps ==
  ASSUME NEW P, Sound(P), NEW op, NEW tid PROVE Keeps(P, free_unknown(P, op, tid))
  <1> DEFINE Q == IF Badfree(P) THEN stack_add(P, ChargedTo(op)) ELSE P
             re == [tid |-> tid, addr |-> 0, size |-> 0, stack |-> "free", flags |-> {}]
             R == [Q EXCEPT !.realloc_list = Append(@, re)]
  <1>1. Sound(Q) /\ Keeps(P, Q)
    BY ChargedStack, AddSound, StacksKeep DEF Keeps
  <1>2. free_unknown(P, op, tid) = IF op = "enter" THEN R ELSE Q
    BY DEF free_unknown
  <1> HIDE DEF Q
  <1>3. Keeps(Q, R)
    BY <1>1, ListKeeps DEF Sound
  <1> HIDE DEF R
  <1> QED BY <1>1, <1>2, <1>3 DEF Keeps

\* process_munmap on a block that loses its first n bytes: what is left of it is
\* no longer leaked.
LEMMA PrefixIs ==
  ASSUME NEW P, Sound(P), NEW b \in P.blocks, NEW n \in Nat, n < b.size, NEW Q, Q = munmap_prefix(P, b, n)
  PROVE  /\ \E c \in Block : /\ c.id = b.id /\ c.stack = b.stack /\ c.addr = b.addr + n
                             /\ c.size = b.size - n /\ c.flags = b.flags \ {"leaked"}
                             /\ Q.blocks = (P.blocks \ {b}) \cup {c}
         /\ SameMarks(P, Q) /\ SameRefs(P, Q) /\ Q.realloc_list = P.realloc_list
         /\ Q.bytes_used = P.bytes_used - UInt(n) /\ Q.leaks = P.leaks - Leak(b)
         /\ Q.leaked_bytes = P.leaked_bytes - LeakSize(b)
         /\ \A r \in Stacks : IF r = b.stack THEN Released(P.nodes[r], Q.nodes[r], b, n)
                              ELSE SameCounts(P.nodes[r], Q.nodes[r])
  <1> DEFINE R == release_mem(P, b, n)
             c == [b EXCEPT !.addr = @ + n, !.size = @ - n, !.flags = @ \ {"leaked"}]
             B == (R.blocks \ {b}) \cup {c}
  <1>1. P \in Process /\ b \in Block /\ P.blocks \in SUBSET Block
    BY Fields DEF Sound
  <1>2. Q = [R EXCEPT !.blocks = B]
    BY DEF munmap_prefix
  <1>3. /\ c \in Block /\ c.id = b.id /\ c.stack = b.stack /\ c.addr = b.addr + n
        /\ c.size = b.size - n /\ c.flags = b.flags \ {"leaked"}
    <2>1. b.addr + n \in Nat /\ b.size - n \in Nat /\ b.flags \ {"leaked"} \in SUBSET {"leaked", "scanned"}
      BY <1>1 DEF Block
    <2>2. c = Shrunk(b, b.addr + n, b.size - n, b.flags \ {"leaked"})
      BY DEF Shrunk
    <2> HIDE DEF c
    <2> QED BY <1>1, <2>1, <2>2, Shrink
  <1>4. /\ R \in Process /\ SameTable(P, R) /\ SameMarks(P, R) /\ SameRefs(P, R)
        /\ R.bytes_used = P.bytes_used - UInt(n) /\ R.leaks = P.leaks - Leak(b)
        /\ R.leaked_bytes = P.leaked_bytes - LeakSize(b)
        /\ \A r \in Stacks : IF r = b.stack THEN Released(P.nodes[r], R.nodes[r], b, n)
                             ELSE SameCounts(P.nodes[r], R.nodes[r])
    BY <1>1, ReleaseIs
  <1> HIDE DEF R, c
  <1>5. B = (P.blocks \ {b}) \cup {c}
    BY <1>4 DEF SameTable
  <1> HIDE DEF B
  <1>6. /\ Q.blocks = B /\ Q.nodes = R.nodes /\ Q.realloc_list = R.realloc_list
        /\ Q.known = R.known /\ Q.tracing = R.tracing /\ Q.attached = R.attached
        /\ Q.bytes_used = R.bytes_used /\ Q.leaks = R.leaks /\ Q.leaked_bytes = R.leaked_bytes
    BY <1>2, <1>4 DEF Process
  <1>7. SameMarks(P, Q) /\ SameRefs(P, Q) /\ Q.realloc_list = P.realloc_list
    BY <1>4, <1>6 DEF SameMarks, SameRefs, SameTable
  <1> QED BY <1>3, <1>4, <1>5, <1>6, <1>7

\* ... and the counters stay right.
LEMMA PrefixKeeps ==
  ASSUME NEW P, Sound(P), NEW b \in P.blocks, NEW n \in Nat, n < b.size, b.size < UIntMod
  PROVE  Keeps(P, munmap_prefix(P, b, n))
  <1> DEFINE Q == munmap_prefix(P, b, n)
             B == P.blocks
  <1>1. P \in Process /\ B \in SUBSET Block /\ IsFiniteSet(B) /\ Unique(B) /\ b \in Block
    BY Countable
  <1>2. PICK c \in Block : /\ c.id = b.id /\ c.stack = b.stack /\ c.size = b.size - n
                           /\ c.flags = b.flags \ {"leaked"} /\ Q.blocks = (B \ {b}) \cup {c}
    BY PrefixIs
  <1>0. UInt(n) = n
    <2>1. b.size \in Nat
      BY <1>1 DEF Block
    <2> QED BY <2>1, TableAssumption, UIntIs
  <1>3. /\ Q.bytes_used = P.bytes_used - n /\ Q.leaks = P.leaks - Leak(b)
        /\ Q.leaked_bytes = P.leaked_bytes - LeakSize(b)
        /\ \A r \in Stacks : IF r = b.stack THEN Released(P.nodes[r], Q.nodes[r], b, n)
                             ELSE SameCounts(P.nodes[r], Q.nodes[r])
    BY <1>0, PrefixIs
  <1> HIDE DEF Q
  <1>4. b.size \in Nat /\ Leak(b) \in Int /\ LeakSize(b) \in Int /\ Leak(c) = 0 /\ LeakSize(c) = 0
    <2>1. b.size \in Nat
      BY <1>1 DEF Block
    <2> QED BY <1>2, <2>1 DEF Leak, LeakSize
  <1>5. ASSUME NEW C \in SUBSET B, b \in C
        PROVE  Grown(C, (C \ {b}) \cup {c}, 0, -n, -Leak(b), -LeakSize(b))
    <2> DEFINE A == C \ {b}
    <2>1. C \in SUBSET Block /\ IsFiniteSet(C) /\ A \in SUBSET Block /\ IsFiniteSet(A) /\ c \notin A
      BY <1>1, <1>2, <1>5, FS_Subset DEF Unique
    <2>2. Grown(C, A, -1, -b.size, -Leak(b), -LeakSize(b))
      BY <1>5, <2>1, CountRemove
    <2>3. Grown(A, A \cup {c}, 1, c.size, Leak(c), LeakSize(c))
      <3> HIDE DEF A
      <3> QED BY <2>1, CountAdd
    <2>4. /\ Cardinality(C) \in Int /\ Bytes(C) \in Int
          /\ Cardinality(Leaked(C)) \in Int /\ Bytes(Leaked(C)) \in Int
      BY <2>1, CountsInt
    <2> HIDE DEF A
    <2>5. Grown(C, A \cup {c}, 0, -n, -Leak(b), -LeakSize(b))
      BY <1>2, <1>4, <2>2, <2>3, <2>4 DEF Grown
    <2> QED BY <2>5 DEF A
  <1>6. (Weighed(P) => Weighed(Q)) /\ (LeaksCounted(P) => LeaksCounted(Q))
    <2> DEFINE E == (B \ {b}) \cup {c}
    <2>1. Grown(B, E, 0, -n, -Leak(b), -LeakSize(b)) /\ Q.blocks = E
      BY <1>2, <1>5
    <2>2. Bytes(B) \in Int /\ Cardinality(Leaked(B)) \in Int /\ Bytes(Leaked(B)) \in Int
      BY <1>1, CountsInt
    <2> HIDE DEF E
    <2> QED BY <1>3, <1>4, <2>1, <2>2 DEF Weighed, LeaksCounted, Grown
  <1>7. ASSUME StackCounted(P), NEW r \in Stacks PROVE NodeCounts(Q.nodes[r], On(Q.blocks, r))
    <2> DEFINE C == On(B, r)
               E == (C \ {b}) \cup {c}
    <2>1. NodeCounts(P.nodes[r], C) /\ C \in SUBSET B /\ (b.stack = r => b \in C)
      BY <1>7 DEF StackCounted, On
    <2>2. On(Q.blocks, r) = IF b.stack = r THEN E ELSE C
      <3>1. On((B \ {b}) \cup {c}, r) = IF b.stack = r THEN E ELSE C
        BY <1>2 DEF On
      <3>2. Q.blocks = (B \ {b}) \cup {c}
        BY <1>2
      <3> QED BY <3>1, <3>2, Zenon
    <2>3. b.stack = r => Grown(C, E, 0, -n, -Leak(b), -LeakSize(b))
      BY <1>5, <2>1
    <2>4. /\ Cardinality(C) \in Int /\ Bytes(C) \in Int
          /\ Cardinality(Leaked(C)) \in Int /\ Bytes(Leaked(C)) \in Int
      BY <1>1, <2>1, FS_Subset, CountsInt
    <2> HIDE DEF C, E
    <2>5. CASE b.stack = r
      <3>1. NodeCounts(Q.nodes[r], E)
        BY <1>0, <1>3, <1>4, <2>1, <2>3, <2>4, <2>5 DEF NodeCounts, Grown, Released
      <3> QED BY <2>2, <2>5, <3>1
    <2>6. CASE b.stack # r
      <3>1. SameCounts(P.nodes[r], Q.nodes[r])
        BY <1>3, <2>6
      <3>2. NodeCounts(Q.nodes[r], C)
        BY <2>1, <3>1 DEF NodeCounts, SameCounts
      <3> QED BY <2>2, <2>6, <3>2
    <2> QED BY <2>5, <2>6
  <1> QED BY <1>6, <1>7 DEF Keeps, StackCounted, Q

\* process_realloc_done: when the realloc succeeded nothing is counted; when it
\* failed the block is counted again on its call stack, but not in the bytes of
\* the process (client/process.c:1520), nor as a leak.
LEMMA DoneKeeps ==
  ASSUME NEW P, Sound(P), NEW i \in DOMAIN P.realloc_list, NEW a
  PROVE  /\ a # 0 => Keeps(P, realloc_done(P, a, i))
         /\ "leaked" \notin P.realloc_list[i].flags =>
              (StackCounted(P) => StackCounted(realloc_done(P, a, i)))
  <1> DEFINE re == P.realloc_list[i]
             Q == IF a = 0 /\ re.addr # 0
                  THEN rb_insert_block(P, re.addr, re.size, re.stack, re.flags) ELSE P
             R == [Q EXCEPT !.realloc_list = SubSeq(@, 1, i - 1) \o SubSeq(@, i + 1, Len(@))]
  <1>1. re \in ReallocEntry
    BY Fields DEF Sound
  <1>2. re.addr # 0 => P.nodes[re.stack].refcnt # 0
    BY NodeOfEntry
  <1>3. realloc_done(P, a, i) = realloc_del(Q, i)
    BY DEF realloc_done
  <1> HIDE DEF re
  <1>4. /\ re.addr \in Nat /\ re.size \in Nat /\ re.stack \in Stacks
        /\ re.flags \in SUBSET {"leaked", "scanned"}
    BY <1>1 DEF ReallocEntry
  <1>5. Sound(Q) /\ Q.realloc_list = P.realloc_list
    BY <1>2, <1>4, InsertSound
  <1>6. /\ a # 0 => Keeps(P, Q)
        /\ "leaked" \notin re.flags => (StackCounted(P) => StackCounted(Q))
    BY <1>4, InsertKeeps DEF Keeps
  <1> HIDE DEF Q
  <1>7. Keeps(Q, realloc_del(Q, i))
    <2>1. realloc_del(Q, i) = IF re.addr = 0 THEN R ELSE stack_put(R, re.stack)
      BY <1>5 DEF realloc_del, re
    <2>2. Keeps(Q, R)
      BY <1>5, ListKeeps DEF Sound
    <2>3. R \in Process
      <3>1. Without(Q.realloc_list, i) \in Seq(ReallocEntry)
        BY <1>5, Fields, WithoutIs DEF Sound
      <3>2. R = [Q EXCEPT !.realloc_list = Without(Q.realloc_list, i)]
        BY DEF Without
      <3> HIDE DEF R
      <3> QED BY <1>5, <3>1, <3>2 DEF Sound, Process
    <2> HIDE DEF R
    <2>4. Keeps(R, stack_put(R, re.stack))
      BY <1>4, <2>3, PutIs, SameKeeps DEF SameTable
    <2> QED BY <2>1, <2>2, <2>4 DEF Keeps
  <1> QED BY <1>3, <1>6, <1>7 DEF Keeps, re

\* process_leaks_scan marks the blocks it asks about and changes nothing else.
LEMMA LeaksScanIs ==
  ASSUME NEW P, Sound(P), NEW mode \in {"all", "new", "leak"}, NEW Q, Q = leaks_scan(P, mode)
  PROVE  /\ Q.blocks = Flagged(P.blocks, ScanSet(P, mode), "scanned") /\ Q.nodes = P.nodes
         /\ Q.realloc_list = P.realloc_list /\ SameMarks(P, Q) /\ SameTally(P, Q)
         /\ ScanSet(P, mode) \in SUBSET P.blocks
  <1> DEFINE F == Flagged(P.blocks, ScanSet(P, mode), "scanned")
  <1>1. P \in Process /\ ScanSet(P, mode) \in SUBSET P.blocks
    BY LeaksScanSound DEF Sound
  <1>2. Q = [P EXCEPT !.blocks = F]
    BY DEF leaks_scan
  <1> HIDE DEF F
  <1>3. /\ Q.blocks = F /\ Q.nodes = P.nodes /\ Q.realloc_list = P.realloc_list
        /\ SameMarks(P, Q) /\ SameTally(P, Q)
    BY <1>1, <1>2 DEF Process, SameMarks, SameTally
  <1> QED BY <1>1, <1>3 DEF F

\* ... so the counters stay right.
LEMMA LeaksScanKeeps ==
  ASSUME NEW P, Sound(P), NEW mode \in {"all", "new", "leak"} PROVE Keeps(P, leaks_scan(P, mode))
  <1> DEFINE Q == leaks_scan(P, mode)
             B == P.blocks
             D == ScanSet(P, mode)
  <1>1. /\ Q.blocks = Flagged(B, D, "scanned") /\ Q.nodes = P.nodes /\ SameTally(P, Q)
        /\ D \in SUBSET B
    BY LeaksScanIs
  <1>2. B \in SUBSET Block /\ IsFiniteSet(B) /\ Unique(B)
    BY Countable
  <1> HIDE DEF Q, D
  <1>3. (Weighed(P) => Weighed(Q)) /\ (LeaksCounted(P) => LeaksCounted(Q))
    <2> DEFINE F == Flagged(B, D, "scanned")
    <2>1. Grown(B, F, 0, 0, 0, 0) /\ Q.blocks = F
      BY <1>1, <1>2, CountMark
    <2>2. Bytes(B) \in Int /\ Cardinality(Leaked(B)) \in Int /\ Bytes(Leaked(B)) \in Int
      BY <1>2, CountsInt
    <2> HIDE DEF F
    <2> QED BY <1>1, <2>1, <2>2 DEF Weighed, LeaksCounted, Grown, SameTally
  <1>4. ASSUME StackCounted(P), NEW r \in Stacks PROVE NodeCounts(Q.nodes[r], On(Q.blocks, r))
    <2> DEFINE C == On(B, r)
               E == Flagged(C, On(D, r), "scanned")
    <2>1. NodeCounts(P.nodes[r], C) /\ On(D, r) \in SUBSET C
      BY <1>1, <1>4 DEF StackCounted, On
    <2>2. On(Q.blocks, r) = E
      <3>1. On(Flagged(B, D, "scanned"), r) = E
        BY <1>1, <1>2, OnChanges
      <3> QED BY <1>1, <3>1
    <2>3. C \in SUBSET Block /\ IsFiniteSet(C) /\ Unique(C)
      BY Countable
    <2> HIDE DEF C
    <2>4. Grown(C, E, 0, 0, 0, 0)
      BY <2>1, <2>3, CountMark
    <2>5. /\ Cardinality(C) \in Int /\ Bytes(C) \in Int
          /\ Cardinality(Leaked(C)) \in Int /\ Bytes(Leaked(C)) \in Int
      BY <2>3, CountsInt
    <2> HIDE DEF E
    <2>6. NodeCounts(Q.nodes[r], E)
      BY <1>1, <2>1, <2>4, <2>5 DEF NodeCounts, Grown
    <2> QED BY <2>2, <2>6
  <1> QED BY <1>3, <1>4 DEF Keeps, StackCounted, Q

\* The blocks a process_scan finds leaked.
Missed(P, A) == {b \in P.blocks : b.addr \in A /\ "leaked" \notin b.flags}

\* process_scan flags them and counts them as leaks.
LEMMA ScanIs ==
  ASSUME NEW P, Sound(P), NEW A, NEW Q, Q = process_scan(P, A), NEW D, D = Missed(P, A)
  PROVE  /\ Q.blocks = Flagged(P.blocks, D, "leaked") /\ Q.realloc_list = P.realloc_list
         /\ SameMarks(P, Q) /\ SameRefs(P, Q) /\ D \in SUBSET P.blocks
         /\ Q.bytes_used = P.bytes_used /\ Q.leaks = P.leaks + Cardinality(D)
         /\ Q.leaked_bytes = P.leaked_bytes + Bytes(D)
         /\ \A r \in Stacks : /\ Q.nodes[r].n_allocations = P.nodes[r].n_allocations
                              /\ Q.nodes[r].bytes_used = P.nodes[r].bytes_used
                              /\ Q.nodes[r].leaks = P.nodes[r].leaks + Cardinality(On(D, r))
                              /\ Q.nodes[r].bytes_leaked = P.nodes[r].bytes_leaked + Bytes(On(D, r))
  <1> DEFINE F == Flagged(P.blocks, D, "leaked")
             c(w, B) == [w EXCEPT !.leaks = @ + Cardinality(B), !.bytes_leaked = @ + Bytes(B)]
             N == [s \in Stacks |-> c(P.nodes[s], On(D, s))]
             x == P.leaks + Cardinality(D)
             y == P.leaked_bytes + Bytes(D)
  <1>1. P \in Process /\ D \in SUBSET P.blocks
    BY DEF Sound, Missed
  <1>2. Q = [P EXCEPT !.blocks = F, !.nodes = N, !.leaks = x, !.leaked_bytes = y]
    BY DEF process_scan, Missed
  <1>3. ASSUME NEW r \in Stacks
        PROVE  /\ N[r].refcnt = P.nodes[r].refcnt
               /\ N[r].n_allocations = P.nodes[r].n_allocations /\ N[r].bytes_used = P.nodes[r].bytes_used
               /\ N[r].leaks = P.nodes[r].leaks + Cardinality(On(D, r))
               /\ N[r].bytes_leaked = P.nodes[r].bytes_leaked + Bytes(On(D, r))
    <2> DEFINE w == P.nodes[r]
    <2>1. w \in Node
      BY <1>1, Fields
    <2>2. N[r] = c(w, On(D, r))
      OBVIOUS
    <2> HIDE DEF w, N
    <2>3. /\ N[r].refcnt = w.refcnt /\ N[r].n_allocations = w.n_allocations /\ N[r].bytes_used = w.bytes_used
          /\ N[r].leaks = w.leaks + Cardinality(On(D, r))
          /\ N[r].bytes_leaked = w.bytes_leaked + Bytes(On(D, r))
      BY <2>1, <2>2 DEF Node
    <2> QED BY <2>3 DEF w
  <1> HIDE DEF F, N, x, y
  <1>4. /\ Q.blocks = F /\ Q.nodes = N /\ Q.leaks = x /\ Q.leaked_bytes = y
        /\ Q.realloc_list = P.realloc_list /\ Q.bytes_used = P.bytes_used /\ SameMarks(P, Q)
    BY <1>1, <1>2 DEF Process, SameMarks
  <1>5. SameRefs(P, Q)
    BY <1>3, <1>4 DEF SameRefs
  <1> QED BY <1>1, <1>3, <1>4, <1>5 DEF F, x, y

\* ... so the counters stay right.
LEMMA ScanKeeps ==
  ASSUME NEW P, Sound(P), NEW A PROVE Keeps(P, process_scan(P, A))
  <1> DEFINE Q == process_scan(P, A)
             B == P.blocks
             D == Missed(P, A)
  <1>1. /\ Q.blocks = Flagged(B, D, "leaked") /\ D \in SUBSET B
        /\ Q.bytes_used = P.bytes_used /\ Q.leaks = P.leaks + Cardinality(D)
        /\ Q.leaked_bytes = P.leaked_bytes + Bytes(D)
        /\ \A r \in Stacks : /\ Q.nodes[r].n_allocations = P.nodes[r].n_allocations
                             /\ Q.nodes[r].bytes_used = P.nodes[r].bytes_used
                             /\ Q.nodes[r].leaks = P.nodes[r].leaks + Cardinality(On(D, r))
                             /\ Q.nodes[r].bytes_leaked = P.nodes[r].bytes_leaked + Bytes(On(D, r))
    BY ScanIs
  <1>2. B \in SUBSET Block /\ IsFiniteSet(B) /\ Unique(B)
    BY Countable
  <1>3. \A b \in D : "leaked" \notin b.flags
    BY DEF Missed
  <1> HIDE DEF Q, D
  <1>4. (Weighed(P) => Weighed(Q)) /\ (LeaksCounted(P) => LeaksCounted(Q))
    <2> DEFINE F == Flagged(B, D, "leaked")
    <2>1. Grown(B, F, 0, 0, Cardinality(D), Bytes(D)) /\ Q.blocks = F
      BY <1>1, <1>2, <1>3, CountFlag
    <2>2. Bytes(B) \in Int
      BY <1>2, CountsInt
    <2> HIDE DEF F
    <2> QED BY <1>1, <2>1, <2>2 DEF Weighed, LeaksCounted, Grown
  <1>5. ASSUME StackCounted(P), NEW r \in Stacks PROVE NodeCounts(Q.nodes[r], On(Q.blocks, r))
    <2> DEFINE C == On(B, r)
               G == On(D, r)
               E == Flagged(C, G, "leaked")
    <2>1. NodeCounts(P.nodes[r], C) /\ G \in SUBSET C /\ \A b \in G : "leaked" \notin b.flags
      BY <1>1, <1>3, <1>5 DEF StackCounted, On
    <2>2. On(Q.blocks, r) = E
      <3>1. On(Flagged(B, D, "leaked"), r) = E
        BY <1>1, <1>2, OnChanges
      <3> QED BY <1>1, <3>1
    <2>3. C \in SUBSET Block /\ IsFiniteSet(C) /\ Unique(C)
      BY Countable
    <2> HIDE DEF C
    <2>4. /\ Q.nodes[r].n_allocations = P.nodes[r].n_allocations
          /\ Q.nodes[r].bytes_used = P.nodes[r].bytes_used
          /\ Q.nodes[r].leaks = P.nodes[r].leaks + Cardinality(G)
          /\ Q.nodes[r].bytes_leaked = P.nodes[r].bytes_leaked + Bytes(G)
      BY <1>1
    <2> HIDE DEF G
    <2>5. Grown(C, E, 0, 0, Cardinality(G), Bytes(G))
      BY <2>1, <2>3, CountFlag
    <2>6. Cardinality(C) \in Int /\ Bytes(C) \in Int
      BY <2>3, CountsInt
    <2> HIDE DEF E
    <2>7. NodeCounts(Q.nodes[r], E)
      BY <2>1, <2>4, <2>5, <2>6 DEF NodeCounts, Grown
    <2> QED BY <2>2, <2>7
  <1> QED BY <1>4, <1>5 DEF Keeps, StackCounted, Q

\* No blocks, nothing to count.
LEMMA CountNothing ==
  Cardinality({}) = 0 /\ Bytes({}) = 0 /\ Leaked({}) = {}
  <1>1. Sized({})
    BY FS_EmptySet DEF Sized
  <1> QED BY <1>1, FS_EmptySet, BytesFacts DEF Leaked

\* process_reset_allocations: nothing is left, and the process counts nothing.
LEMMA ResetIs ==
  ASSUME NEW P, Sound(P), NEW Q, Q = reset_allocations(P)
  PROVE  /\ Q.blocks = {} /\ Q.realloc_list = <<>> /\ SameMarks(P, Q)
         /\ Weighed(Q) /\ LeaksCounted(Q)
         /\ \A s \in Stacks : Q.nodes[s].refcnt = P.nodes[s].refcnt - Users(P, s)
  <1> DEFINE k(s) == Cardinality(On(P.blocks, s))
             e(s) == Cardinality(Entries(P, s))
             put(w, blocks, entries) == [w EXCEPT !.n_allocations = @ - blocks, !.refcnt = @ - blocks - entries]
             N == [s \in Stacks |-> put(P.nodes[s], k(s), e(s))]
             n == P.n_allocations - Cardinality(P.blocks)
  <1>1. P \in Process
    BY DEF Sound
  <1>2. Q = [P EXCEPT !.blocks = {}, !.nodes = N, !.realloc_list = <<>>, !.n_allocations = n,
                      !.bytes_used = 0, !.leaks = 0, !.leaked_bytes = 0]
    BY DEF reset_allocations
  <1>3. ASSUME NEW s \in Stacks PROVE N[s].refcnt = P.nodes[s].refcnt - Users(P, s)
    <2> DEFINE w == P.nodes[s]
               b == k(s)
               r == e(s)
    <2>1. b \in Nat /\ r \in Nat /\ Users(P, s) = b + r
      BY UsersNat
    <2>2. w \in Node /\ w.refcnt \in Int
      BY <1>1, Fields
    <2>3. N[s] = put(w, b, r)
      OBVIOUS
    <2> HIDE DEF w, b, r, N
    <2>4. N[s].refcnt = w.refcnt - b - r
      BY <2>2, <2>3 DEF Node
    <2>5. N[s].refcnt = w.refcnt - Users(P, s)
      BY <2>1, <2>2, <2>4
    <2> QED BY <2>5 DEF w
  <1> HIDE DEF N, n
  <1>4. /\ Q.blocks = {} /\ Q.nodes = N /\ Q.realloc_list = <<>> /\ SameMarks(P, Q)
        /\ Q.bytes_used = 0 /\ Q.leaks = 0 /\ Q.leaked_bytes = 0
    BY <1>1, <1>2 DEF Process, SameMarks
  <1>5. Weighed(Q) /\ LeaksCounted(Q)
    BY <1>4, CountNothing DEF Weighed, LeaksCounted
  <1> QED BY <1>3, <1>4, <1>5

\* process_new counts nothing.
LEMMA NewCounted ==
  ASSUME NEW k, NEW t, NEW a, NEW Q, Q = process_new(k, t, a)
  PROVE  Weighed(Q) /\ LeaksCounted(Q) /\ StackCounted(Q)
  <1>1. /\ Q.blocks = {} /\ Q.nodes = [s \in Stacks |-> NoNode]
        /\ Q.bytes_used = 0 /\ Q.leaks = 0 /\ Q.leaked_bytes = 0
    BY DEF process_new
  <1>2. \A s \in Stacks : On(Q.blocks, s) = {} /\ Q.nodes[s] = NoNode
    BY <1>1 DEF On
  <1>3. NodeCounts(NoNode, {})
    BY CountNothing DEF NodeCounts, NoNode
  <1>4. StackCounted(Q)
    BY <1>2, <1>3 DEF StackCounted
  <1> QED BY <1>1, <1>4, CountNothing DEF Weighed, LeaksCounted

\* process_duplicate: the child weighs what its blocks weigh; the leaks of its
\* parent are flagged in it, but it does not count them.
LEMMA DuplicateIs ==
  ASSUME NEW P, Sound(P), NEW copy, Sound(copy), NEW Q, Q = process_duplicate(P, copy)
  PROVE  /\ Q.known /\ Q.tracing = P.tracing /\ Q.attached = copy.attached
         /\ Q.blocks = copy.blocks /\ Q.realloc_list = <<>>
         /\ Q.bytes_used = Bytes(copy.blocks) /\ Weighed(Q)
         /\ Leaked(copy.blocks) = {} => LeaksCounted(Q)
         /\ \A s \in Stacks : On(copy.blocks, s) = {} => Q.nodes[s].refcnt = 0
  <1> DEFINE A == process_new(TRUE, P.tracing, copy.attached)
             N == ClonedNodes(copy)
             B == copy.blocks
  <1>1. /\ A.known /\ A.tracing = P.tracing /\ A.attached = copy.attached /\ A.realloc_list = <<>>
        /\ A.leaks = 0 /\ A.leaked_bytes = 0 /\ A \in Process
    <2>1. P.tracing \in BOOLEAN /\ copy.attached \in BOOLEAN
      BY DEF Sound, Process
    <2> QED BY <2>1, NewSound DEF Sound, process_new
  <1>2. Q = [A EXCEPT !.blocks = B, !.n_allocations = Cardinality(B), !.bytes_used = Bytes(B), !.nodes = N]
    BY DEF process_duplicate
  <1>3. \A s \in Stacks : On(B, s) = {} => N[s] = NoNode
    BY DEF ClonedNodes
  <1> HIDE DEF A, N
  <1>4. /\ Q.known = A.known /\ Q.tracing = A.tracing /\ Q.attached = A.attached
        /\ Q.blocks = B /\ Q.realloc_list = A.realloc_list /\ Q.bytes_used = Bytes(B)
        /\ Q.leaks = A.leaks /\ Q.leaked_bytes = A.leaked_bytes /\ Q.nodes = N
    BY <1>1, <1>2 DEF Process
  <1>5. Leaked(B) = {} => LeaksCounted(Q)
    BY <1>1, <1>4, CountNothing DEF LeaksCounted
  <1> QED BY <1>1, <1>3, <1>4, <1>5 DEF Weighed, NoNode

-----------------------------------------------------------------------------
(* What the handlers leave of the blocks, the marks and the entries.       *)

\* The entry process_free makes of a block it frees for a realloc, and of one
\* it does not know.
EntryFor(b, tid) == [tid |-> tid, addr |-> b.addr, size |-> b.size, stack |-> b.stack, flags |-> b.flags]
EntryForNone(tid) == [tid |-> tid, addr |-> 0, size |-> 0, stack |-> "free", flags |-> {}]

\* No wrong free is charged to the program.
Uncharged(P, Q) == \A s \in {"free", "enter"} : Q.nodes[s].refcnt = P.nodes[s].refcnt

\* The call stacks of wrong frees are among those of the table.
LEMMA ChargedNodes ==
  ASSUME NEW P \in Process PROVE \A s \in {"free", "enter"} : s \in Stacks /\ P.nodes[s].refcnt \in Int
  BY Fields DEF Stacks

\* The blocks B and one more, at a, of n bytes, made by s.
OneMore(B, C, a, n, s, flags) ==
  \E b \in Block : /\ b.stack = s /\ b.addr = a /\ b.size = n /\ b.flags = flags
                   /\ b \notin B /\ C = B \cup {b}

\* process_alloc: one block more, of the call stack of the call.
LEMMA AllocIs ==
  ASSUME NEW P, Sound(P), NEW a \in Nat, NEW n \in Nat, NEW s \in Stacks, NEW Q, Q = alloc_insert(P, a, n, s)
  PROVE  /\ OneMore(P.blocks, Q.blocks, a, n, s, {})
         /\ Q.realloc_list = P.realloc_list /\ SameMarks(P, Q)
         /\ \A r \in Stacks \ {s} : Q.nodes[r].refcnt = P.nodes[r].refcnt
  <1> DEFINE A == stack_add(P, s)
             I == rb_insert_block(A, a, n, s, {})
  <1>1. /\ A \in Process /\ SameTable(P, A) /\ SameMarks(P, A)
        /\ \A r \in Stacks \ {s} : A.nodes[r].refcnt = P.nodes[r].refcnt
    BY AddIs DEF Sound
  <1>2. Q = [I EXCEPT !.bytes_used = I.bytes_used + n]
    BY DEF alloc_insert
  <1>3. {} \in SUBSET {"leaked", "scanned"} /\ IsFiniteSet(A.blocks)
    BY <1>1 DEF Sound, SameTable
  <1> HIDE DEF A
  <1>4. /\ I \in Process /\ I.realloc_list = A.realloc_list /\ SameMarks(A, I)
        /\ \A r \in Stacks : I.nodes[r].refcnt = A.nodes[r].refcnt + (IF r = s THEN 1 ELSE 0)
    BY <1>1, <1>3, InsertIs
  <1>5. PICK b \in Block : /\ b.stack = s /\ b.addr = a /\ b.size = n /\ b.flags = {}
                           /\ \A c \in A.blocks : c.id # b.id
                           /\ I.blocks = A.blocks \cup {b}
    BY <1>1, <1>3, InsertIs
  <1> HIDE DEF I
  <1>6. /\ Q.blocks = I.blocks /\ Q.nodes = I.nodes /\ Q.realloc_list = I.realloc_list
        /\ Q.known = I.known /\ Q.tracing = I.tracing /\ Q.attached = I.attached
    BY <1>2, <1>4 DEF Process
  <1>7. b \notin P.blocks /\ Q.blocks = P.blocks \cup {b}
    BY <1>1, <1>5, <1>6 DEF SameTable
  <1>8. Q.realloc_list = P.realloc_list /\ SameMarks(P, Q)
    BY <1>1, <1>4, <1>6 DEF SameTable, SameMarks
  <1>9. ASSUME NEW r \in Stacks \ {s} PROVE Q.nodes[r].refcnt = P.nodes[r].refcnt
    <2>1. A.nodes[r].refcnt \in Int
      BY <1>1, Fields
    <2> QED BY <1>1, <1>4, <1>6, <2>1
  <1> QED BY <1>5, <1>7, <1>8, <1>9 DEF OneMore

\* process_free of a block: it is gone; a realloc leaves an entry.
LEMMA FreeIs ==
  ASSUME NEW P, Sound(P), NEW b \in P.blocks, NEW op, NEW tid,
         op = "enter" => tid \in Threads, NEW Q, Q = free_block(P, b, op, tid)
  PROVE  /\ Q.blocks = P.blocks \ {b} /\ SameMarks(P, Q)
         /\ Q.realloc_list = IF op = "enter" THEN Append(P.realloc_list, EntryFor(b, tid)) ELSE P.realloc_list
         /\ b.stack \in {"malloc", "realloc"} => Uncharged(P, Q)
  <1> DEFINE A == IF Mismatched(b) THEN stack_add(P, ChargedTo(op)) ELSE P
             re == EntryFor(b, tid)
             G == stack_get(A, b.stack)
             R == [G EXCEPT !.realloc_list = Append(G.realloc_list, re)]
             E == IF op = "enter" THEN R ELSE A
  <1>1. /\ A \in Process /\ SameTable(P, A) /\ SameMarks(P, A)
        /\ b.stack \in {"malloc", "realloc"} => Uncharged(P, A)
    BY ChargedStack, AddIs DEF Sound, SameTable, SameMarks, Uncharged, Mismatched
  <1>2. Q = rb_delete_block(E, b)
    BY DEF free_block, EntryFor
  <1>3. b \in Block /\ b.stack \in Stacks
    BY Fields DEF Sound, Block
  <1> HIDE DEF A
  <1>4. /\ G \in Process /\ SameTable(A, G) /\ SameMarks(A, G)
        /\ b.stack \notin {"free", "enter"} => Uncharged(A, G)
    <2>1. \A s \in {"free", "enter"} : s \in Stacks /\ A.nodes[s].refcnt \in Int
      BY <1>1, ChargedNodes
    <2> QED BY <1>1, <1>3, <2>1, GetIs DEF Uncharged
  <1> HIDE DEF G
  <1>5. op = "enter" => /\ R \in Process /\ R.blocks = G.blocks /\ R.nodes = G.nodes /\ SameMarks(G, R)
                        /\ R.realloc_list = Append(G.realloc_list, re)
    <2> SUFFICES ASSUME op = "enter"
                 PROVE  /\ R \in Process /\ R.blocks = G.blocks /\ R.nodes = G.nodes /\ SameMarks(G, R)
                        /\ R.realloc_list = Append(G.realloc_list, re)
      OBVIOUS
    <2>1. re \in ReallocEntry
      BY <1>3 DEF EntryFor, ReallocEntry, Block
    <2> DEFINE L == Append(G.realloc_list, re)
    <2>2. L \in Seq(ReallocEntry)
      <3> HIDE DEF re
      <3> QED BY <1>4, <2>1, Fields
    <2> HIDE DEF L
    <2>3. R = [G EXCEPT !.realloc_list = L]
      BY DEF L
    <2> HIDE DEF R
    <2>4. /\ R \in Process /\ R.blocks = G.blocks /\ R.nodes = G.nodes /\ SameMarks(G, R) /\ R.realloc_list = L
      BY <1>4, <2>2, <2>3 DEF Process, SameMarks
    <2> QED BY <2>4 DEF L
  <1> HIDE DEF R, re
  <1>6. /\ E \in Process /\ E.blocks = P.blocks /\ SameMarks(P, E)
        /\ E.realloc_list = IF op = "enter" THEN Append(P.realloc_list, re) ELSE P.realloc_list
        /\ b.stack \in {"malloc", "realloc"} => Uncharged(P, E)
    BY <1>1, <1>4, <1>5 DEF SameTable, SameMarks, Uncharged
  <1> HIDE DEF E
  <1>7. /\ Q.blocks = E.blocks \ {b} /\ SameMarks(E, Q) /\ Q.realloc_list = E.realloc_list
        /\ \A r \in Stacks : Q.nodes[r].refcnt = E.nodes[r].refcnt - (IF r = b.stack THEN 1 ELSE 0)
    BY <1>2, <1>6, DeleteIs
  <1>8. b.stack \in {"malloc", "realloc"} => Uncharged(P, Q)
    <2>1. \A s \in {"free", "enter"} : s \in Stacks /\ E.nodes[s].refcnt \in Int
      BY <1>6, ChargedNodes
    <2> QED BY <1>6, <1>7, <2>1 DEF Uncharged
  <1> QED BY <1>6, <1>7, <1>8 DEF SameMarks, re

\* ... of what is not known: a realloc leaves an entry without a block.  While the
\* bookkeeping began late, nothing is charged to the program.
LEMMA UnknownIs ==
  ASSUME NEW P, Sound(P), NEW op, NEW tid, op = "enter" => tid \in Threads,
         NEW Q, Q = free_unknown(P, op, tid)
  PROVE  /\ Q.blocks = P.blocks /\ SameMarks(P, Q)
         /\ Q.realloc_list = IF op = "enter" THEN Append(P.realloc_list, EntryForNone(tid)) ELSE P.realloc_list
         /\ P.attached => Uncharged(P, Q)
  <1> DEFINE A == IF Badfree(P) THEN stack_add(P, ChargedTo(op)) ELSE P
             L == Append(A.realloc_list, EntryForNone(tid))
             R == [A EXCEPT !.realloc_list = L]
  <1>1. /\ A \in Process /\ SameTable(P, A) /\ SameMarks(P, A)
        /\ P.attached => Uncharged(P, A)
    BY ChargedStack, AddIs DEF Sound, SameTable, SameMarks, Uncharged, Badfree
  <1>2. Q = IF op = "enter" THEN R ELSE A
    BY DEF free_unknown, EntryForNone
  <1> HIDE DEF A, L
  <1>3. R.blocks = A.blocks /\ R.nodes = A.nodes /\ SameMarks(A, R) /\ R.realloc_list = L
    BY <1>1 DEF Process, SameMarks
  <1> HIDE DEF R
  <1> QED BY <1>1, <1>2, <1>3 DEF SameTable, SameMarks, Uncharged, L

\* process_realloc_done: the entry is gone; when the realloc failed, the block
\* it was made of is back.
LEMMA DoneIs ==
  ASSUME NEW P, Sound(P), NEW i \in DOMAIN P.realloc_list, NEW a, NEW Q, Q = realloc_done(P, a, i),
         NEW re, re = P.realloc_list[i]
  PROVE  /\ Q.realloc_list = Without(P.realloc_list, i) /\ SameMarks(P, Q)
         /\ ~(a = 0 /\ re.addr # 0) => Q.blocks = P.blocks
         /\ a = 0 /\ re.addr # 0 => OneMore(P.blocks, Q.blocks, re.addr, re.size, re.stack, re.flags)
         /\ re.addr = 0 \/ re.stack \notin {"free", "enter"} => Uncharged(P, Q)
  <1> DEFINE A == IF a = 0 /\ re.addr # 0
                  THEN rb_insert_block(P, re.addr, re.size, re.stack, re.flags) ELSE P
             L == Without(A.realloc_list, i)
             R == [A EXCEPT !.realloc_list = L]
  <1>1. /\ P \in Process /\ IsFiniteSet(P.blocks) /\ re \in ReallocEntry
    BY Fields DEF Sound
  <1>2. Q = realloc_del(A, i)
    BY DEF realloc_done
  <1>3. /\ re.addr \in Nat /\ re.size \in Nat /\ re.stack \in Stacks
        /\ re.flags \in SUBSET {"leaked", "scanned"}
    BY <1>1 DEF ReallocEntry
  <1>4. \A s \in {"free", "enter"} : s \in Stacks /\ P.nodes[s].refcnt \in Int
    BY <1>1, ChargedNodes
  <1>5. a = 0 /\ re.addr # 0 =>
          /\ A \in Process /\ A.realloc_list = P.realloc_list /\ SameMarks(P, A)
          /\ \A r \in Stacks : A.nodes[r].refcnt = P.nodes[r].refcnt + (IF r = re.stack THEN 1 ELSE 0)
          /\ \E b \in Block : /\ b.stack = re.stack /\ b.addr = re.addr /\ b.size = re.size
                              /\ b.flags = re.flags /\ \A c \in P.blocks : c.id # b.id
                              /\ A.blocks = P.blocks \cup {b}
    <2> SUFFICES ASSUME a = 0 /\ re.addr # 0
                 PROVE  /\ A \in Process /\ A.realloc_list = P.realloc_list /\ SameMarks(P, A)
                        /\ \A r \in Stacks : A.nodes[r].refcnt = P.nodes[r].refcnt + (IF r = re.stack THEN 1 ELSE 0)
                        /\ \E b \in Block : /\ b.stack = re.stack /\ b.addr = re.addr /\ b.size = re.size
                                            /\ b.flags = re.flags /\ \A c \in P.blocks : c.id # b.id
                                            /\ A.blocks = P.blocks \cup {b}
      OBVIOUS
    <2>1. A = rb_insert_block(P, re.addr, re.size, re.stack, re.flags)
      OBVIOUS
    <2> HIDE DEF A
    <2> QED BY <1>1, <1>3, <2>1, InsertIs
  <1>6. ~(a = 0 /\ re.addr # 0) => A = P
    OBVIOUS
  <1> HIDE DEF A
  <1>7. /\ A \in Process /\ A.realloc_list = P.realloc_list /\ SameMarks(P, A)
        /\ re.addr = 0 \/ re.stack \notin {"free", "enter"} => Uncharged(P, A)
    <2>1. CASE a = 0 /\ re.addr # 0
      BY <1>4, <1>5, <2>1 DEF Uncharged
    <2>2. CASE ~(a = 0 /\ re.addr # 0)
      BY <1>1, <1>6, <2>2 DEF SameMarks, Uncharged
    <2> QED BY <2>1, <2>2
  <1>8. Q = IF re.addr = 0 THEN R ELSE stack_put(R, re.stack)
    BY <1>2, <1>7 DEF realloc_del, Without
  <1>9. L \in Seq(ReallocEntry)
    BY <1>1, <1>7, Fields, WithoutIs
  <1> HIDE DEF L
  <1>10. R \in Process /\ R.blocks = A.blocks /\ R.nodes = A.nodes /\ SameMarks(A, R) /\ R.realloc_list = L
    BY <1>7, <1>9 DEF Process, SameMarks
  <1> HIDE DEF R
  <1>11. /\ Q.realloc_list = R.realloc_list /\ Q.blocks = R.blocks /\ SameMarks(R, Q)
         /\ re.addr = 0 \/ re.stack \notin {"free", "enter"} => Uncharged(R, Q)
    <2>1. CASE re.addr = 0
      BY <1>8, <2>1 DEF SameMarks, Uncharged
    <2>2. CASE re.addr # 0
      <3>1. \A s \in {"free", "enter"} : R.nodes[s].refcnt \in Int
        BY <1>10, ChargedNodes
      <3>2. /\ SameTable(R, Q) /\ SameMarks(R, Q)
            /\ \A r \in Stacks : Q.nodes[r].refcnt = R.nodes[r].refcnt - (IF r = re.stack THEN 1 ELSE 0)
        BY <1>3, <1>8, <1>10, <2>2, PutIs
      <3> QED BY <1>4, <2>2, <3>1, <3>2 DEF SameTable, Uncharged
    <2> QED BY <2>1, <2>2
  <1>12. Q.realloc_list = Without(P.realloc_list, i) /\ SameMarks(P, Q) /\ Q.blocks = A.blocks
    BY <1>7, <1>10, <1>11 DEF SameMarks, L
  <1>13. re.addr = 0 \/ re.stack \notin {"free", "enter"} => Uncharged(P, Q)
    BY <1>7, <1>10, <1>11 DEF Uncharged
  <1>14. a = 0 /\ re.addr # 0 => OneMore(P.blocks, Q.blocks, re.addr, re.size, re.stack, re.flags)
    BY <1>5, <1>12 DEF OneMore
  <1> QED BY <1>6, <1>12, <1>13, <1>14
-----------------------------------------------------------------------------
(* Blocks whose size fits in an unsigned int.                              *)

Fits(P) == /\ \A b \in P.blocks : b.size < UIntMod
           /\ \A i \in DOMAIN P.realloc_list : P.realloc_list[i].size < UIntMod

\* An entry of such a block joins the reallocs.
LEMMA AppendFits ==
  ASSUME NEW P, Sound(P), Fits(P), NEW e, e.size < UIntMod
  PROVE  \A i \in DOMAIN Append(P.realloc_list, e) : Append(P.realloc_list, e)[i].size < UIntMod
  <1> DEFINE L == P.realloc_list
  <1>1. L \in Seq(ReallocEntry) /\ \A i \in DOMAIN L : L[i].size < UIntMod
    BY Fields DEF Sound, Fits
  <1> HIDE DEF L
  <1>2. \A i \in DOMAIN Append(L, e) : Append(L, e)[i].size < UIntMod
    <2>1. DOMAIN Append(L, e) = 1..(Len(L) + 1) /\ DOMAIN L = 1..Len(L) /\ Len(L) \in Nat
      BY <1>1
    <2>2. \A i \in 1..(Len(L) + 1) : Append(L, e)[i] = IF i = Len(L) + 1 THEN e ELSE L[i]
      BY <1>1
    <2> QED BY <1>1, <2>1, <2>2
  <1> QED BY <1>2 DEF L

\* The handlers make no block larger than those there were and the new ones.
LEMMA HandlersFit ==
  ASSUME NEW P, Sound(P), Fits(P)
  PROVE  /\ \A b \in P.blocks : Fits(rb_delete_block(P, b))
         /\ \A a \in Nat, n \in Nat, s \in Stacks : n < UIntMod => Fits(alloc_insert(P, a, n, s))
         /\ \A b \in P.blocks, n \in Nat : n < b.size => Fits(munmap_prefix(P, b, n))
         /\ \A A : Fits(process_scan(P, A))
         /\ \A mode \in {"all", "new", "leak"} : Fits(leaks_scan(P, mode))
  <1>1. ASSUME NEW b \in P.blocks PROVE Fits(rb_delete_block(P, b))
    <2> DEFINE Q == rb_delete_block(P, b)
    <2>1. Q.blocks = P.blocks \ {b} /\ Q.realloc_list = P.realloc_list
      BY DeleteIs DEF Sound
    <2> HIDE DEF Q
    <2>2. Fits(Q)
      BY <2>1 DEF Fits
    <2> QED BY <2>2 DEF Q
  <1>2. ASSUME NEW a \in Nat, NEW n \in Nat, NEW s \in Stacks, n < UIntMod
        PROVE  Fits(alloc_insert(P, a, n, s))
    <2> DEFINE Q == alloc_insert(P, a, n, s)
    <2>1. OneMore(P.blocks, Q.blocks, a, n, s, {}) /\ Q.realloc_list = P.realloc_list
      BY AllocIs
    <2> HIDE DEF Q
    <2>2. Fits(Q)
      BY <1>2, <2>1 DEF Fits, OneMore
    <2> QED BY <2>2 DEF Q
  <1>3. ASSUME NEW b \in P.blocks, NEW n \in Nat, n < b.size PROVE Fits(munmap_prefix(P, b, n))
    <2> DEFINE Q == munmap_prefix(P, b, n)
    <2>1. PICK c \in Block : c.size = b.size - n /\ Q.blocks = (P.blocks \ {b}) \cup {c}
      BY <1>3, PrefixIs
    <2>2. Q.realloc_list = P.realloc_list
      BY <1>3, PrefixIs
    <2>3. b.size \in Nat /\ b.size < UIntMod
      BY Fields DEF Sound, Block, Fits
    <2>4. c.size < UIntMod
      BY <2>1, <2>3, TableAssumption
    <2> HIDE DEF Q
    <2>5. Fits(Q)
      BY <2>1, <2>2, <2>4 DEF Fits
    <2> QED BY <2>5 DEF Q
  <1>4. ASSUME NEW Q, NEW D \in SUBSET P.blocks, NEW flag \in {"leaked", "scanned"},
               Q.blocks = Flagged(P.blocks, D, flag), Q.realloc_list = P.realloc_list
        PROVE  Fits(Q)
    <2>1. P.blocks \in SUBSET Block
      BY Fields DEF Sound
    <2>2. PICK f \in [P.blocks -> Block] :
            Flags(f, P.blocks, D, flag) /\ Flagged(P.blocks, D, flag) = Image(f, P.blocks)
      BY <2>1, FlaggedBy
    <2>3. ASSUME NEW c \in Q.blocks PROVE c.size < UIntMod
      <3>1. PICK b \in P.blocks : c = f[b]
        BY <1>4, <2>2 DEF Image
      <3>2. f[b].size = b.size
        BY <2>2 DEF Flags
      <3> QED BY <3>1, <3>2 DEF Fits
    <2> QED BY <1>4, <2>3 DEF Fits
  <1>5. ASSUME NEW A PROVE Fits(process_scan(P, A))
    <2> DEFINE Q == process_scan(P, A)
               D == Missed(P, A)
    <2>1. Q.blocks = Flagged(P.blocks, D, "leaked") /\ Q.realloc_list = P.realloc_list /\ D \in SUBSET P.blocks
      BY ScanIs
    <2> HIDE DEF Q, D
    <2>2. Fits(Q)
      BY <1>4, <2>1
    <2> QED BY <2>2 DEF Q
  <1>6. ASSUME NEW mode \in {"all", "new", "leak"} PROVE Fits(leaks_scan(P, mode))
    <2> DEFINE Q == leaks_scan(P, mode)
               D == ScanSet(P, mode)
    <2>1. Q.blocks = Flagged(P.blocks, D, "scanned") /\ Q.realloc_list = P.realloc_list /\ D \in SUBSET P.blocks
      BY LeaksScanIs
    <2> HIDE DEF Q, D
    <2>2. Fits(Q)
      BY <1>4, <2>1
    <2> QED BY <2>2 DEF Q
  <1> QED BY <1>1, <1>2, <1>3, <1>5, <1>6

\* ... nor do those of frees and reallocs.
LEMMA FreesFit ==
  ASSUME NEW P, Sound(P), Fits(P), NEW op, NEW tid, op = "enter" => tid \in Threads
  PROVE  (\A b \in P.blocks : Fits(free_block(P, b, op, tid))) /\ Fits(free_unknown(P, op, tid))
  <1>1. ASSUME NEW b \in P.blocks PROVE Fits(free_block(P, b, op, tid))
    <2> DEFINE Q == free_block(P, b, op, tid)
               e == EntryFor(b, tid)
    <2>1. /\ Q.blocks = P.blocks \ {b}
          /\ Q.realloc_list = IF op = "enter" THEN Append(P.realloc_list, e) ELSE P.realloc_list
      BY FreeIs
    <2>2. e.size < UIntMod
      BY DEF EntryFor, Fits
    <2> HIDE DEF Q, e
    <2>3. \A i \in DOMAIN Q.realloc_list : Q.realloc_list[i].size < UIntMod
      <3>1. CASE op = "enter"
        BY <2>1, <2>2, <3>1, AppendFits
      <3>2. CASE op # "enter"
        BY <2>1, <3>2 DEF Fits
      <3> QED BY <3>1, <3>2
    <2>4. Fits(Q)
      BY <2>1, <2>3 DEF Fits
    <2> QED BY <2>4 DEF Q
  <1>2. Fits(free_unknown(P, op, tid))
    <2> DEFINE Q == free_unknown(P, op, tid)
               e == EntryForNone(tid)
    <2>1. /\ Q.blocks = P.blocks
          /\ Q.realloc_list = IF op = "enter" THEN Append(P.realloc_list, e) ELSE P.realloc_list
      BY UnknownIs
    <2>2. e.size < UIntMod
      <3>1. e.size = 0
        BY DEF EntryForNone
      <3> QED BY <3>1, TableAssumption
    <2> HIDE DEF Q, e
    <2>3. \A i \in DOMAIN Q.realloc_list : Q.realloc_list[i].size < UIntMod
      <3>1. CASE op = "enter"
        BY <2>1, <2>2, <3>1, AppendFits
      <3>2. CASE op # "enter"
        BY <2>1, <3>2 DEF Fits
      <3> QED BY <3>1, <3>2
    <2>4. Fits(Q)
      BY <2>1, <2>3 DEF Fits
    <2> QED BY <2>4 DEF Q
  <1> QED BY <1>1, <1>2

\* ... nor does the end of a realloc.
LEMMA DoneFits ==
  ASSUME NEW P, Sound(P), Fits(P), NEW i \in DOMAIN P.realloc_list, NEW a
  PROVE  Fits(realloc_done(P, a, i))
  <1> DEFINE Q == realloc_done(P, a, i)
             L == P.realloc_list
             re == P.realloc_list[i]
  <1>1. L \in Seq(ReallocEntry)
    BY Fields DEF Sound
  <1>2. /\ Q.realloc_list = Without(L, i)
        /\ Q.blocks = P.blocks \/ \E b \in Block : b.size = re.size /\ Q.blocks = P.blocks \cup {b}
    <2>1. /\ Q.realloc_list = Without(P.realloc_list, i)
          /\ ~(a = 0 /\ re.addr # 0) => Q.blocks = P.blocks
          /\ a = 0 /\ re.addr # 0 => OneMore(P.blocks, Q.blocks, re.addr, re.size, re.stack, re.flags)
      BY DoneIs
    <2> QED BY <2>1 DEF OneMore
  <1>3. re.size < UIntMod
    BY DEF Fits
  <1> HIDE DEF Q, L, re
  <1>4. \A b \in Q.blocks : b.size < UIntMod
    BY <1>2, <1>3 DEF Fits
  <1>5. ASSUME NEW j \in DOMAIN Without(L, i) PROVE Without(L, i)[j].size < UIntMod
    <2>1. i \in DOMAIN L /\ Len(L) \in Nat /\ DOMAIN L = 1..Len(L)
      BY <1>1 DEF L
    <2>2. j \in 1..(Len(L) - 1) /\ Without(L, i)[j] = L[IF j < i THEN j ELSE j + 1]
      BY <1>1, <1>5, <2>1, WithoutIs
    <2>3. (IF j < i THEN j ELSE j + 1) \in DOMAIN L
      BY <2>1, <2>2
    <2> QED BY <2>2, <2>3 DEF Fits, L
  <1>6. Fits(Q)
    BY <1>2, <1>4, <1>5 DEF Fits
  <1> QED BY <1>6 DEF Q

\* A wrong free is charged: its call stack is in the tree afterwards.
LEMMA FreeCharges ==
  ASSUME NEW P, Sound(P), NEW b \in P.blocks, NEW op, NEW tid,
         op = "enter" => tid \in Threads, b.stack \notin {"free", "enter"}, Mismatched(b),
         P.nodes[ChargedTo(op)].refcnt = 0
  PROVE  free_block(P, b, op, tid).nodes[ChargedTo(op)].refcnt # 0
  <1> DEFINE c == ChargedTo(op)
             A == stack_add(P, c)
             G == stack_get(A, b.stack)
             L == Append(G.realloc_list, EntryFor(b, tid))
             R == [G EXCEPT !.realloc_list = L]
             E == IF op = "enter" THEN R ELSE A
  <1>1. c \in {"free", "enter"} /\ c \in Stacks
    BY ChargedStack
  <1>2. free_block(P, b, op, tid) = rb_delete_block(E, b)
    BY DEF free_block, EntryFor
  <1>3. b \in Block /\ b.stack \in Stacks /\ b.stack # c /\ P.nodes[c].refcnt = 0
    BY <1>1, Fields DEF Sound, Block
  <1> HIDE DEF c
  <1>4. A \in Process /\ SameTable(P, A) /\ A.nodes[c].refcnt = 1
    BY <1>1, <1>3, AddIs DEF Sound
  <1> HIDE DEF A
  <1>5. G \in Process /\ SameTable(A, G) /\ G.nodes[c].refcnt = 1
    BY <1>1, <1>3, <1>4, GetIs
  <1> HIDE DEF G
  <1>6. op = "enter" => R \in Process /\ R.blocks = G.blocks /\ R.nodes = G.nodes
    <2> SUFFICES ASSUME op = "enter" PROVE R \in Process /\ R.blocks = G.blocks /\ R.nodes = G.nodes
      OBVIOUS
    <2>1. EntryFor(b, tid) \in ReallocEntry
      BY <1>3 DEF EntryFor, ReallocEntry, Block
    <2>2. L \in Seq(ReallocEntry)
      BY <1>5, <2>1, Fields
    <2> HIDE DEF L
    <2> QED BY <1>5, <2>2 DEF Process
  <1> HIDE DEF R
  <1>7. E \in Process /\ E.blocks = P.blocks /\ E.nodes[c].refcnt = 1
    BY <1>4, <1>5, <1>6 DEF SameTable
  <1> HIDE DEF E
  <1>8. rb_delete_block(E, b).nodes[c].refcnt = 1
    BY <1>1, <1>3, <1>7, DeleteIs
  <1> QED BY <1>2, <1>8 DEF c

\* ... and so is one of an unknown address.
LEMMA UnknownCharges ==
  ASSUME NEW P, Sound(P), NEW op, NEW tid, Badfree(P), P.nodes[ChargedTo(op)].refcnt = 0
  PROVE  free_unknown(P, op, tid).nodes[ChargedTo(op)].refcnt # 0
  <1> DEFINE c == ChargedTo(op)
             A == stack_add(P, c)
             L == Append(A.realloc_list, EntryForNone(tid))
             R == [A EXCEPT !.realloc_list = L]
  <1>1. c \in Stacks
    BY ChargedStack
  <1>2. free_unknown(P, op, tid) = IF op = "enter" THEN R ELSE A
    BY DEF free_unknown, EntryForNone
  <1> HIDE DEF L
  <1>3. A \in Process /\ A.nodes[c].refcnt = 1
    BY <1>1, AddIs DEF Sound
  <1> HIDE DEF A, c
  <1>4. R.nodes = A.nodes
    BY <1>3 DEF Process
  <1> HIDE DEF R
  <1> QED BY <1>2, <1>3, <1>4 DEF c
=============================================================================
