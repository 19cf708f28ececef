-------------------------- MODULE ZdcEntityProofs ---------------------------
(***************************************************************************)
(* What the operators of ZdcEntity compute that several proofs need: the   *)
(* size of the serialised list, which the code adds up in a loop.  The     *)
(* inductions are on the least counterexample, a set being what the        *)
(* library's well-foundedness theorems can be instantiated with.           *)
(***************************************************************************)
EXTENDS ZdcEntity, FiniteSetTheorems, WellFoundedInduction, TLAPS

\* From the strict inclusion of the finite sets 0 .. n - 1.
LEMMA LeastElement ==
  ASSUME NEW T, T \subseteq Nat, T # {}
  PROVE  \E n \in T : \A m \in T : n <= m
<1> DEFINE Below(n) == 0 .. n - 1
           B        == {Below(n) : n \in T}
           R        == StrictSubsetOrdering(Nat)
           F        == FiniteSubsetsOf(Nat)
<1>1. IsWellFoundedOn(R, F)
  BY FS_StrictSubsetOrderingWellFounded
<1>2. B # {} /\ B \subseteq F
  <2>1. \A n \in Nat : IsFiniteSet(Below(n)) /\ Below(n) \subseteq Nat
    BY FS_Interval
  <2> QED
    BY <2>1 DEF FiniteSubsetsOf
<1>3. PICK b \in B : \A c \in B : ~(<<c, b>> \in R)
  <2> HIDE DEF R, F, B
  <2> QED
    BY <1>1, <1>2, WFMin
<1>4. PICK n \in T : b = Below(n)
  OBVIOUS
<1>5. ASSUME NEW m \in T, m < n PROVE FALSE
  <2>1. Below(m) \subseteq Below(n) /\ Below(m) \subseteq Nat /\ Below(n) \subseteq Nat
    BY <1>5
  <2>2. m \in Below(n) /\ m \notin Below(m)
    BY <1>5
  <2>3. <<Below(m), Below(n)>> \in R
    BY <2>1, <2>2 DEF StrictSubsetOrdering
  <2>4. Below(m) \in B
    OBVIOUS
  <2> QED
    BY <1>3, <1>4, <2>3, <2>4
<1> QED
  BY <1>5

\* Natural induction on a set.
LEMMA Induction ==
  ASSUME NEW nb \in Nat, NEW P, 0 \in P,
         \A n \in 0 .. nb : n # 0 /\ n - 1 \in P => n \in P
  PROVE  0 .. nb \subseteq P
<1> DEFINE Bad == (0 .. nb) \ P
<1> SUFFICES ASSUME Bad # {} PROVE FALSE
  OBVIOUS
<1>1. PICK n \in Bad : \A m \in Bad : n <= m
  <2>1. Bad \subseteq Nat
    OBVIOUS
  <2> HIDE DEF Bad
  <2> QED
    BY <2>1, LeastElement
<1>2. n \in 0 .. nb /\ n # 0
  BY <1>1
<1>3. n - 1 \in 0 .. nb /\ ~(n <= n - 1)
  BY <1>2
<1> QED
  BY <1>1, <1>2, <1>3

-----------------------------------------------------------------------------
\* idx adds up the entries of the first nb slots.
AddsUp(idx, entities, nb) ==
  /\ idx \in [0 .. nb -> Nat]
  /\ \A i \in 0 .. nb : idx[i] = IF i = 0 THEN 0 ELSE idx[i - 1] + 3 + entities[i - 1].ke_size

Sized(entities, nb) == \A i \in 0 .. nb - 1 : entities[i].ke_size \in Nat

LEMMA AddsUpExists ==
  ASSUME NEW nb \in Nat, NEW entities, Sized(entities, nb)
  PROVE  \E idx : AddsUp(idx, entities, nb)
<1> DEFINE P == {n \in 0 .. nb : \E idx : AddsUp(idx, entities, n)}
<1>1. 0 \in P
  <2>1. AddsUp([i \in 0 .. 0 |-> 0], entities, 0)
    BY DEF AddsUp
  <2> QED
    BY <2>1
<1>2. ASSUME NEW n \in 0 .. nb, n # 0, n - 1 \in P
      PROVE  n \in P
  <2>1. PICK idx : AddsUp(idx, entities, n - 1)
    BY <1>2
  <2> DEFINE size == entities[n - 1].ke_size
             next == [i \in 0 .. n |-> IF i < n THEN idx[i] ELSE idx[n - 1] + 3 + size]
  <2>2. size \in Nat
    BY <1>2 DEF Sized
  <2>3. idx \in [0 .. n - 1 -> Nat]
    BY <2>1 DEF AddsUp
  <2>4. next \in [0 .. n -> Nat]
    <3> HIDE DEF size
    <3> QED
      BY <1>2, <2>2, <2>3
  <2>5. \A i \in 0 .. n : next[i] = IF i = 0 THEN 0 ELSE next[i - 1] + 3 + entities[i - 1].ke_size
    BY <1>2, <2>1, <2>3 DEF AddsUp
  <2> HIDE DEF next
  <2>6. AddsUp(next, entities, n)
    BY <2>4, <2>5 DEF AddsUp
  <2> QED
    BY <2>6
<1>3. 0 .. nb \subseteq P
  <2> HIDE DEF P
  <2> QED
    BY <1>1, <1>2, Induction
<1> QED
  BY <1>3

\* The recursion of ListIdx has a solution, and ListIdx is it.
LEMMA ListIdxUnfolds ==
  ASSUME NEW nb \in Nat, NEW entities, Sized(entities, nb)
  PROVE  ListIdx(entities, nb) =
           [i \in 0 .. nb |->
              IF i = 0 THEN 0 ELSE ListIdx(entities, nb)[i - 1] + 3 + entities[i - 1].ke_size]
<1>1. PICK idx : AddsUp(idx, entities, nb)
  BY AddsUpExists
<1>2. idx = [i \in 0 .. nb |->
               IF i = 0 THEN 0 ELSE idx[i - 1] + 3 + entities[i - 1].ke_size]
  BY <1>1 DEF AddsUp
<1> QED
  BY <1>2 DEF ListIdx

\* tmp_idx starts at 0, and grows with every slot by the bytes of its entry.
LEMMA ListIdxGrows ==
  ASSUME NEW nb \in Nat, NEW entities, Sized(entities, nb)
  PROVE  /\ ListIdx(entities, nb) \in [0 .. nb -> Nat]
         /\ ListIdx(entities, nb)[0] = 0
         /\ \A i \in 0 .. nb - 1 : ListIdx(entities, nb)[i + 1] =
              ListIdx(entities, nb)[i] + 3 + entities[i].ke_size
<1> DEFINE idx == ListIdx(entities, nb)
           P   == {n \in 0 .. nb : idx[n] \in Nat}
<1>1. idx = [i \in 0 .. nb |-> IF i = 0 THEN 0 ELSE idx[i - 1] + 3 + entities[i - 1].ke_size]
  BY ListIdxUnfolds
<1> HIDE DEF idx
<1>2. 0 \in P
  BY <1>1
<1>3. ASSUME NEW n \in 0 .. nb, n # 0, n - 1 \in P
      PROVE  n \in P
  <2>1. idx[n] = idx[n - 1] + 3 + entities[n - 1].ke_size
    BY <1>1, <1>3
  <2>2. entities[n - 1].ke_size \in Nat /\ idx[n - 1] \in Nat
    BY <1>3 DEF Sized
  <2> QED
    BY <2>1, <2>2
<1>4. 0 .. nb \subseteq P
  <2> HIDE DEF P
  <2> QED
    BY <1>2, <1>3, Induction
<1>5. idx \in [0 .. nb -> Nat]
  BY <1>1, <1>4
<1>6. ASSUME NEW i \in 0 .. nb - 1
      PROVE  idx[i + 1] = idx[i] + 3 + entities[i].ke_size
  <2>1. i + 1 \in 0 .. nb /\ i + 1 # 0 /\ i + 1 - 1 = i
    OBVIOUS
  <2> QED
    BY <1>1, <2>1
<1> QED
  BY <1>1, <1>5, <1>6 DEF idx

\* The list of slots with at most bytes each stays within their product: with
\* 64 bytes for each entry in the buffer it fits.
LEMMA ListIdxBound ==
  ASSUME NEW nb \in Nat, NEW entities, Sized(entities, nb),
         \A i \in 0 .. nb - 1 : entities[i].ke_size <= 61
  PROVE  ListIdx(entities, nb)[nb] <= 64 * nb
<1> DEFINE idx == ListIdx(entities, nb)
           P   == {n \in 0 .. nb : idx[n] <= 64 * n}
<1>1. /\ idx \in [0 .. nb -> Nat] /\ idx[0] = 0
      /\ \A i \in 0 .. nb - 1 : idx[i + 1] = idx[i] + 3 + entities[i].ke_size
  BY ListIdxGrows
<1> HIDE DEF idx
<1>2. 0 \in P
  BY <1>1
<1>3. ASSUME NEW n \in 0 .. nb, n # 0, n - 1 \in P
      PROVE  n \in P
  <2>1. n - 1 \in 0 .. nb - 1 /\ n - 1 + 1 = n
    BY <1>3
  <2>2. idx[n] = idx[n - 1] + 3 + entities[n - 1].ke_size
    BY <1>1, <2>1
  <2>3. entities[n - 1].ke_size \in Nat /\ entities[n - 1].ke_size <= 61
    BY <2>1 DEF Sized
  <2>4. idx[n - 1] \in Nat /\ idx[n - 1] <= 64 * (n - 1)
    BY <1>1, <1>3
  <2> QED
    BY <2>2, <2>3, <2>4
<1>4. 0 .. nb \subseteq P
  <2> HIDE DEF P
  <2> QED
    BY <1>2, <1>3, Induction
<1> QED
  BY <1>4 DEF idx

\* No prefix of the list is longer than the list.
LEMMA ListIdxMonotonic ==
  ASSUME NEW nb \in Nat, NEW entities, Sized(entities, nb), NEW i \in 0 .. nb
  PROVE  ListIdx(entities, nb)[i] <= ListIdx(entities, nb)[nb]
<1> DEFINE idx == ListIdx(entities, nb)
           P   == {n \in 0 .. nb : i <= n => idx[i] <= idx[n]}
<1>1. /\ idx \in [0 .. nb -> Nat]
      /\ \A j \in 0 .. nb - 1 : idx[j + 1] = idx[j] + 3 + entities[j].ke_size
  BY ListIdxGrows
<1> HIDE DEF idx
<1>2. 0 \in P
  BY <1>1
<1>3. ASSUME NEW n \in 0 .. nb, n # 0, n - 1 \in P
      PROVE  n \in P
  <2>1. n - 1 \in 0 .. nb - 1 /\ n - 1 + 1 = n
    BY <1>3
  <2>2. idx[n] = idx[n - 1] + 3 + entities[n - 1].ke_size
    BY <1>1, <2>1
  <2>3. entities[n - 1].ke_size \in Nat /\ idx[n - 1] \in Nat /\ idx[n] \in Nat
    BY <1>1, <2>1 DEF Sized
  <2>4. CASE i <= n - 1
    <3>1. idx[i] \in Nat /\ idx[i] <= idx[n - 1]
      BY <1>1, <1>3, <2>4
    <3> QED
      BY <2>2, <2>3, <3>1
  <2>5. CASE i = n
    BY <2>3, <2>5
  <2>6. CASE i > n
    BY <2>6
  <2> QED
    BY <2>4, <2>5, <2>6
<1>4. 0 .. nb \subseteq P
  <2> HIDE DEF P
  <2> QED
    BY <1>2, <1>3, Induction
<1> QED
  BY <1>4 DEF idx
=============================================================================
