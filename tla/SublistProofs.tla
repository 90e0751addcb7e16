---------------------------- MODULE SublistProofs ----------------------------
(***************************************************************************)
(* What Picked returns, for lists of any length.  That the places of a     *)
(* list can be put in order is shown by taking the least length at which   *)
(* they might not be.                                                      *)
(***************************************************************************)
EXTENDS Sublists, Integers, Sequences, FiniteSetTheorems, WellFoundedInduction, TLAPS

\* A set of numbers has a least element if it has any.
LEMMA LeastOf ==
    ASSUME NEW S \in SUBSET Nat, S # {}
    PROVE  \E n \in S : \A m \in S : n <= m
<1>1. PICK n \in S : \A m \in S : <<m, n>> \notin OpToRel(<, Nat)
  BY NatLessThanWellFounded, WFMin
<1>2. \A m \in S : ~(m < n)
  BY <1>1 DEF OpToRel
<1> QED
  BY <1>2

\* ... and a greatest, if none is beyond some number.
LEMMA GreatestOf ==
    ASSUME NEW n \in Nat, NEW S \in SUBSET (1 .. n), S # {}
    PROVE  \E x \in S : \A y \in S : x >= y
<1> DEFINE T == {m \in Nat : n - m \in S}
<1>1. PICK x \in S : x \in 1 .. n
  OBVIOUS
<1>2. n - x \in T
  BY <1>1
<1>3. PICK m \in T : \A k \in T : m <= k
  BY <1>2, LeastOf
<1>4. \A y \in S : y \in Nat /\ n - y \in T
  OBVIOUS
<1>5. \A y \in S : m <= n - y
  BY <1>3, <1>4
<1>6. m \in Nat /\ n - m \in S
  BY <1>3
<1> QED
  BY <1>4, <1>5, <1>6

Listed(at) ==
    \E k \in Nat : \E p \in [1 .. k -> at] :
        Increasing(p) /\ \A x \in at : \E i \in 1 .. k : p[i] = x

\* A list one longer lists a set of one more, if that is greater than the rest.
LEMMA ListedNext ==
    ASSUME NEW m \in Nat, m > 0, NEW at \in SUBSET (1 .. m), m \in at, Listed(at \ {m})
    PROVE  Listed(at)
<1>0. PICK k \in Nat : \E p \in [1 .. k -> at \ {m}] :
        Increasing(p) /\ \A x \in at \ {m} : \E i \in 1 .. k : p[i] = x
  BY DEF Listed
<1>1. PICK p \in [1 .. k -> at \ {m}] :
        Increasing(p) /\ \A x \in at \ {m} : \E i \in 1 .. k : p[i] = x
  BY <1>0
<1> DEFINE q == [i \in 1 .. k + 1 |-> IF i = k + 1 THEN m ELSE p[i]]
<1>2. q \in [1 .. k + 1 -> at]
  OBVIOUS
<1> \A x \in at \ {m} : x \in Nat /\ x < m
  OBVIOUS
<1>3. \A i \in 1 .. k : q[i] = p[i] /\ p[i] \in Nat /\ p[i] < m
  <2> TAKE i \in 1 .. k
  <2>1. p[i] \in at \ {m}
    OBVIOUS
  <2>2. q[i] = p[i]
    OBVIOUS
  <2>3. p[i] \in Nat /\ p[i] < m
    BY <2>1
  <2> QED
    BY <2>2, <2>3
<1>4. Increasing(q)
  <2> SUFFICES ASSUME NEW i \in 1 .. k + 1, NEW j \in 1 .. k + 1, i < j PROVE q[i] < q[j]
    BY DEF Increasing
  <2>1. i \in 1 .. k /\ (j = k + 1 \/ j \in 1 .. k)
    OBVIOUS
  <2>2. CASE j = k + 1
    BY <2>1, <2>2, <1>3
  <2>3. CASE j \in 1 .. k
    BY <2>1, <2>3, <1>1, <1>3 DEF Increasing
  <2> QED
    BY <2>1, <2>2, <2>3
<1>5. \A x \in at : \E i \in 1 .. k + 1 : q[i] = x
  <2> TAKE x \in at
  <2>1. CASE x = m
    BY <2>1
  <2>2. CASE x # m
    BY <2>2, <1>1, <1>3
  <2> QED
    BY <2>1, <2>2
<1> QED
  BY <1>2, <1>4, <1>5 DEF Listed

\* Every set of places can be put in order.
LEMMA AllListed ==
    ASSUME NEW n \in Nat, NEW at \in SUBSET (1 .. n)
    PROVE  Listed(at)
<1> DEFINE Bad == {m \in Nat : \E a \in SUBSET (1 .. m) : ~Listed(a)}
<1> SUFFICES Bad = {}
  OBVIOUS
<1> SUFFICES ASSUME Bad # {} PROVE FALSE
  OBVIOUS
<1>1. PICK m \in Bad : \A k \in Bad : m <= k
  BY LeastOf
<1>2. PICK a \in SUBSET (1 .. m) : ~Listed(a)
  OBVIOUS
<1>3. m > 0
  <2> SUFFICES ASSUME m = 0 PROVE FALSE
    OBVIOUS
  <2>1. a = {}
    OBVIOUS
  <2>2. [i \in 1 .. 0 |-> i] \in [1 .. 0 -> a] /\ Increasing([i \in 1 .. 0 |-> i])
    BY DEF Increasing
  <2> QED
    BY <1>2, <2>1, <2>2 DEF Listed
<1>4. \A b \in SUBSET (1 .. m - 1) : Listed(b)
  BY <1>1, <1>3
<1>5. a \ {m} \in SUBSET (1 .. m - 1) /\ (m \notin a => a \in SUBSET (1 .. m - 1))
  BY <1>3
<1> QED
  BY <1>2, <1>3, <1>4, <1>5, ListedNext

\* The places in order are all of them, each once.
LEMMA InOrderLists ==
    ASSUME NEW n \in Nat, NEW at \in SUBSET (1 .. n)
    PROVE  LET p == InOrder(at)
           IN  /\ Cardinality(at) \in Nat
               /\ p \in [1 .. Cardinality(at) -> at]
               /\ Increasing(p)
               /\ \A x \in at : \E i \in DOMAIN p : p[i] = x
<1>0. PICK k \in Nat : \E p \in [1 .. k -> at] :
        Increasing(p) /\ \A x \in at : \E i \in 1 .. k : p[i] = x
  BY AllListed DEF Listed
<1>1. PICK p \in [1 .. k -> at] :
        Increasing(p) /\ \A x \in at : \E i \in 1 .. k : p[i] = x
  BY <1>0
<1> \A x \in at : x \in Nat
  OBVIOUS
<1>2. p \in Bijection(1 .. k, at)
  <2>0. \A i \in 1 .. k : p[i] \in Nat
    OBVIOUS
  <2>1. \A i, j \in 1 .. k : p[i] = p[j] => i = j
    BY <1>1, <2>0 DEF Increasing
  <2> QED
    BY <1>1, <2>1 DEF Bijection, Injection, Surjection, IsInjective
<1>3. Cardinality(at) = k /\ IsFiniteSet(at)
  BY <1>2, FS_CountingElements, FS_NatBijection, FS_BoundedSetOfNaturals DEF ExistsBijection
<1>4. InOrder(at) \in [1 .. k -> at] /\ Increasing(InOrder(at))
  BY <1>1, <1>3 DEF InOrder
<1>5. \A i, j \in 1 .. k : InOrder(at)[i] = InOrder(at)[j] => i = j
  <2>1. \A i \in 1 .. k : InOrder(at)[i] \in Nat
    BY <1>4
  <2> QED
    BY <1>4, <2>1 DEF Increasing
<1>6. InOrder(at) \in Surjection(1 .. k, at)
  <2>1. InOrder(at) \in Injection(1 .. k, at)
    BY <1>4, <1>5 DEF Injection, IsInjective
  <2>2. IsFiniteSet(1 .. k) /\ Cardinality(1 .. k) = k
    BY FS_Interval
  <2> QED
    BY <1>3, <2>1, <2>2, FS_Injection
<1>7. \A x \in at : \E i \in 1 .. k : InOrder(at)[i] = x
  BY <1>6 DEF Surjection
<1> QED
  BY <1>3, <1>4, <1>7

\* What is picked is a list of exactly those entries, none twice that was not.
LEMMA PickedOf ==
    ASSUME NEW S, NEW list \in Seq(S), NEW at \in SUBSET (DOMAIN list)
    PROVE  LET l == Picked(list, at)
           IN  /\ l \in Seq(S)
               /\ \A i \in DOMAIN l : \E j \in at : l[i] = list[j]
               /\ \A j \in at : \E i \in DOMAIN l : l[i] = list[j]
               /\ \A i, j \in DOMAIN l : i # j =>
                    \E a, b \in at : a # b /\ l[i] = list[a] /\ l[j] = list[b]
<1>1. at \in SUBSET (1 .. Len(list)) /\ Len(list) \in Nat
  OBVIOUS
<1> DEFINE p == InOrder(at)
<1> HIDE DEF p
<1>2. /\ Cardinality(at) \in Nat
      /\ p \in [1 .. Cardinality(at) -> at]
      /\ \A x \in at : \E i \in DOMAIN p : p[i] = x
      /\ Increasing(p)
  BY <1>1, InOrderLists DEF p
<1>3. Picked(list, at) = [n \in 1 .. Cardinality(at) |-> list[p[n]]]
  BY <1>2 DEF Picked, p
<1>4. \A n \in 1 .. Cardinality(at) : list[p[n]] \in S
  BY <1>2
<1>5. Picked(list, at) \in Seq(S)
  BY <1>2, <1>3, <1>4
<1>6. \A i, j \in 1 .. Cardinality(at) : i # j => p[i] # p[j]
  <2> TAKE i, j \in 1 .. Cardinality(at)
  <2>1. p[i] \in at /\ p[j] \in at /\ \A x \in at : x \in Nat
    BY <1>1, <1>2
  <2>2. p[i] \in Nat /\ p[j] \in Nat
    BY <2>1
  <2>3. (i < j => p[i] < p[j]) /\ (j < i => p[j] < p[i])
    BY <1>2 DEF Increasing
  <2> QED
    BY <2>2, <2>3
<1> QED
  BY <1>2, <1>3, <1>5, <1>6
=============================================================================
