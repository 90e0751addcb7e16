------------------------ MODULE BreakpointTableProofs ------------------------
(***************************************************************************)
(* Proofs about BreakpointTable for every address space, set of owners and *)
(* table size: the table's invariants, and that it implements the claims;  *)
(* and about BreakpointArrival: what the loop over the table comes to.     *)
(***************************************************************************)
EXTENDS BreakpointArrival, SequenceTheorems, SublistProofs, TLAPS

IInv ==
    /\ TypeOK
    /\ WellFormed
    /\ PcMapExact

\* What erasing one element leaves behind.
LEMMA RemoveAtFacts ==
    ASSUME NEW S, NEW t \in Seq(S), NEW i \in DOMAIN t
    PROVE  /\ RemoveAt(t, i) \in Seq(S)
           /\ Len(RemoveAt(t, i)) = Len(t) - 1
           /\ \A j \in 1 .. Len(t) - 1 :
                 RemoveAt(t, i)[j] = IF j < i THEN t[j] ELSE t[j + 1]
<1> DEFINE a == SubSeq(t, 1, i - 1)
           b == SubSeq(t, i + 1, Len(t))
<1>1. Len(t) \in Nat /\ i \in 1 .. Len(t) /\ \A j \in 1 .. Len(t) : t[j] \in S
    OBVIOUS
<1>2. a \in Seq(S) /\ Len(a) = i - 1 /\ \A j \in 1 .. i - 1 : a[j] = t[j]
    BY <1>1
<1>3. b \in Seq(S) /\ Len(b) = Len(t) - i /\ \A j \in 1 .. Len(t) - i : b[j] = t[i + j]
    BY <1>1
<1>4. RemoveAt(t, i) = a \o b
    BY DEF RemoveAt
<1> HIDE DEF a, b
<1>5. a \o b \in Seq(S) /\ Len(a \o b) = Len(t) - 1
    BY <1>1, <1>2, <1>3
<1>6. ASSUME NEW j \in 1 .. Len(t) - 1
      PROVE  (a \o b)[j] = IF j < i THEN t[j] ELSE t[j + 1]
    <2>1. j \in Int /\ i \in Int
        BY <1>1
    <2>a. Len(a) = i - 1 /\ j \in 1 .. Len(a) + Len(b)
        BY <1>1, <1>2, <1>3, <2>1
    <2>b. (a \o b)[j] = IF j <= Len(a) THEN a[j] ELSE b[j - Len(a)]
        BY <1>2, <1>3, <2>a, ConcatProperties
    <2>2. (a \o b)[j] = IF j <= i - 1 THEN a[j] ELSE b[j - (i - 1)]
        BY <2>a, <2>b
    <2>3. CASE j < i
        BY <1>2, <2>1, <2>2, <2>3
    <2>4. CASE ~(j < i)
        <3>1. j - (i - 1) \in 1 .. Len(t) - i /\ i + (j - (i - 1)) = j + 1
            BY <1>1, <2>1, <2>4
        <3>2. QED
            BY <1>3, <2>1, <2>2, <2>4, <3>1
    <2>5. QED
        BY <2>3, <2>4
<1>7. QED
    BY <1>4, <1>5, <1>6

\* Normalising is idempotent and stays inside the keys.
LEMMA NormalisedFacts ==
    ASSUME TableAssumption, NEW k \in Key
    PROVE  /\ Normalised(k) \in Key
           /\ Normalised(Normalised(k)) = Normalised(k)
           /\ Normalised(k)[1] = k[1]
BY DEF TableAssumption, Normalised, Banked, Key, Selector

\* Under the invariant an index found is the only one with its key.
LEMMA FindFacts ==
    ASSUME TypeOK, WellFormed, NEW k \in Key, NEW i \in Find(k)
    PROVE  /\ i \in DOMAIN table
           /\ table[i] \in Entry
           /\ table[i].key = Normalised(k)
           /\ \A j \in DOMAIN table : table[j].key = Normalised(k) => j = i
BY DEF TypeOK, WellFormed, Find

\* A step that leaves every key in place and no entry without an owner keeps
\* the invariant.
LEMMA SameKeys ==
    ASSUME IInv, table' \in Seq(Entry), Len(table') = Len(table), pcMap' = pcMap,
           \A i \in DOMAIN table : table'[i].key = table[i].key /\ table'[i].owners # {}
    PROVE  IInv'
<1>1. DOMAIN table' = DOMAIN table
    BY DEF IInv, TypeOK
<1>2. TypeOK'
    BY DEF IInv, TypeOK
<1>3. WellFormed'
    BY <1>1 DEF IInv, WellFormed
<1>4. PcMapExact'
    BY <1>1 DEF IInv, PcMapExact, PcsOf
<1>5. QED
    BY <1>2, <1>3, <1>4 DEF IInv

\* Keeping some of the entries, in any order but each at most once, keeps the
\* invariant when the bitmap is rebuilt.
LEMMA Subtable ==
    ASSUME IInv, NEW n \in 0 .. Len(table), NEW f \in [1 .. n -> DOMAIN table],
           \A i, j \in 1 .. n : f[i] = f[j] => i = j,
           table' \in Seq(Entry), Len(table') = n, pcMap' = PcsOf(table'),
           \A i \in 1 .. n : /\ table'[i].key = table[f[i]].key
                             /\ table'[i].owners # {}
    PROVE  IInv'
<1>1. DOMAIN table' = 1 .. n /\ n \in Nat /\ Len(table) \in Nat
    BY DEF IInv, TypeOK
<1>2. WellFormed'
    BY <1>1 DEF IInv, WellFormed
<1>3. PcMapExact'
    BY DEF PcMapExact
<1>4. TypeOK'
    <2>1. \A i \in DOMAIN table' : table'[i].key[1] \in Pc
        <3>1. \A i \in DOMAIN table' : table'[i] \in Entry
            OBVIOUS
        <3>2. \A e \in Entry : e.key[1] \in Pc
            BY DEF Entry, Key
        <3>3. QED
            BY <3>1, <3>2
    <2>2. pcMap' \subseteq Pc
        BY <2>1 DEF PcsOf
    <2>3. Len(table') <= MaxEntries
        BY <1>1, TableAssumption DEF IInv, TypeOK, TableAssumption
    <2>4. QED
        BY <2>2, <2>3 DEF TypeOK
<1>5. QED
    BY <1>2, <1>3, <1>4 DEF IInv

\* The empty table.
LEMMA InitIInv == Init => IInv
    BY TableAssumption DEF Init, IInv, TypeOK, WellFormed, PcMapExact, PcsOf, TableAssumption

\* The table without its entry i, f saying where each entry was.
Erased(i, n, f) ==
    /\ \A j, k \in 1 .. n : f[j] = f[k] => j = k
    /\ table' \in Seq(Entry) /\ Len(table') = n /\ pcMap' = PcsOf(table')
    /\ \A j \in 1 .. n : table'[j] = table[f[j]] /\ f[j] # i
    /\ \A k \in DOMAIN table : k # i => \E j \in 1 .. n : f[j] = k

\* An entry erased: the others keep their order.
LEMMA EraseFacts ==
    ASSUME TypeOK, NEW i \in DOMAIN table, Erase(i)
    PROVE  \E n \in 0 .. Len(table) : \E f \in [1 .. n -> DOMAIN table] : Erased(i, n, f)
<1> DEFINE n == Len(table) - 1
           f == [j \in 1 .. n |-> IF j < i THEN j ELSE j + 1]
<1>1. /\ table \in Seq(Entry) /\ Len(table) \in Nat /\ i \in 1 .. Len(table)
      /\ table' = RemoveAt(table, i)
      /\ pcMap' = PcsOf(table')
    BY DEF TypeOK, Erase
<1>2. /\ table' \in Seq(Entry)
      /\ Len(table') = n
      /\ \A j \in 1 .. n : table'[j] = IF j < i THEN table[j] ELSE table[j + 1]
    BY <1>1, RemoveAtFacts
<1>3. n \in 0 .. Len(table) /\ f \in [1 .. n -> DOMAIN table]
    BY <1>1
<1>4. \A j, k \in 1 .. n : f[j] = f[k] => j = k
    BY <1>1
<1>5. \A j \in 1 .. n : table'[j] = table[f[j]] /\ f[j] # i
    BY <1>1, <1>2
<1>6. ASSUME NEW k \in DOMAIN table, k # i PROVE \E j \in 1 .. n : f[j] = k
    <2>1. CASE k < i
        BY <1>1, <1>6, <2>1
    <2>2. CASE k > i
        <3>1. k - 1 \in 1 .. n /\ f[k - 1] = k
            BY <1>1, <1>6, <2>2
        <3>2. QED
            BY <3>1
    <2>3. QED
        BY <1>1, <1>6, <2>1, <2>2
<1> HIDE DEF n, f
<1>7. QED
    BY <1>1, <1>2, <1>3, <1>4, <1>5, <1>6 DEF Erased

\* Erasing an entry keeps the invariant.
LEMMA EraseIInv ==
    ASSUME IInv, NEW i \in DOMAIN table, Erase(i)
    PROVE  IInv'
<1>1. PICK n \in 0 .. Len(table) : \E f \in [1 .. n -> DOMAIN table] : Erased(i, n, f)
    BY EraseFacts DEF IInv
<1>2. PICK f \in [1 .. n -> DOMAIN table] : Erased(i, n, f)
    BY <1>1
<1>3. /\ \A j, k \in 1 .. n : f[j] = f[k] => j = k
      /\ table' \in Seq(Entry) /\ Len(table') = n /\ pcMap' = PcsOf(table')
      /\ \A j \in 1 .. n : table'[j].key = table[f[j]].key /\ table'[j].owners # {}
    BY <1>2 DEF Erased, IInv, WellFormed
<1>4. QED
    BY <1>3, Subtable

\* A claim, added or joined to an entry.
LEMMA AddForIInv ==
    ASSUME IInv, NEW k \in Key, NEW o \in Owner, AddFor(k, o)
    PROVE  IInv'
<1>1. CASE AddExisting(k, o)
    <2>1. PICK i \in Find(k) :
            table' = [table EXCEPT ![i].owners = @ \cup {o}, ![i].enabled = TRUE]
        BY <1>1 DEF AddExisting
    <2>2. i \in DOMAIN table /\ table[i] \in Entry /\ table \in Seq(Entry)
        BY FindFacts DEF IInv, TypeOK
    <2> DEFINE e == [table[i] EXCEPT !.owners = @ \cup {o}, !.enabled = TRUE]
    <2>3. e \in Entry /\ e.key = table[i].key /\ e.owners # {}
        BY <2>2 DEF Entry
    <2>4. table' = [table EXCEPT ![i] = e]
        BY <2>1, <2>2 DEF Entry
    <2> HIDE DEF e
    <2>5. table' \in Seq(Entry) /\ Len(table') = Len(table)
        BY <2>2, <2>3, <2>4
    <2>6. \A j \in DOMAIN table : table'[j].key = table[j].key /\ table'[j].owners # {}
        BY <2>2, <2>3, <2>4 DEF IInv, WellFormed
    <2>7. QED
        BY <1>1, <2>5, <2>6, SameKeys DEF AddExisting
<1>2. CASE AddNew(k, o)
    <2> DEFINE e == [key |-> Normalised(k), owners |-> {o}, enabled |-> TRUE]
    <2>1. /\ table' = Append(table, e)
          /\ pcMap' = pcMap \cup {k[1]}
          /\ Len(table) < MaxEntries
          /\ Find(k) = {}
        BY <1>2 DEF AddNew
    <2>2. e \in Entry /\ e.key = Normalised(k) /\ e.key[1] = k[1] /\ k[1] \in Pc /\ e.owners # {}
          /\ e.key = Normalised(e.key)
        BY NormalisedFacts, TableAssumption DEF Entry, Key
    <2>3. \A i \in DOMAIN table : table[i].key # Normalised(k)
        BY <2>1 DEF IInv, WellFormed, Find, TypeOK
    <2> HIDE DEF e
    <2>4. /\ table \in Seq(Entry) /\ Len(table) \in Nat
          /\ table' \in Seq(Entry) /\ Len(table') = Len(table) + 1
          /\ \A i \in DOMAIN table : table'[i] = table[i]
          /\ table'[Len(table) + 1] = e
          /\ DOMAIN table' = DOMAIN table \cup {Len(table) + 1}
        BY <2>1, <2>2 DEF IInv, TypeOK
    <2>5. TypeOK'
        BY <2>1, <2>2, <2>4, TableAssumption DEF IInv, TypeOK, TableAssumption
    <2>6. WellFormed'
        BY <2>2, <2>3, <2>4 DEF IInv, WellFormed
    <2>7. PcMapExact'
        BY <2>1, <2>2, <2>4 DEF IInv, PcMapExact, PcsOf
    <2>8. QED
        BY <2>5, <2>6, <2>7 DEF IInv
<1>3. QED
    BY <1>1, <1>2 DEF AddFor

\* A claim let go of, with the entry if it was the last.
LEMMA RemoveForIInv ==
    ASSUME IInv, NEW k \in Key, NEW o \in Owner, RemoveFor(k, o)
    PROVE  IInv'
<1>1. PICK i \in Find(k) :
        /\ o \in table[i].owners
        /\ IF table[i].owners = {o}
             THEN Erase(i)
             ELSE /\ table' = [table EXCEPT ![i].owners = @ \ {o}]
                  /\ UNCHANGED pcMap
    BY DEF RemoveFor
<1>2. i \in DOMAIN table /\ table[i] \in Entry /\ table \in Seq(Entry)
    BY FindFacts DEF IInv, TypeOK
<1>3. CASE table[i].owners = {o}
    BY <1>1, <1>2, <1>3, EraseIInv
<1>4. CASE table[i].owners # {o}
    <2> DEFINE e == [table[i] EXCEPT !.owners = @ \ {o}]
    <2>1. e \in Entry /\ e.key = table[i].key /\ e.owners # {}
        BY <1>1, <1>2, <1>4 DEF Entry
    <2>2. table' = [table EXCEPT ![i] = e]
        BY <1>1, <1>2, <1>4 DEF Entry
    <2> HIDE DEF e
    <2>3. table' \in Seq(Entry) /\ Len(table') = Len(table)
        BY <1>2, <2>1, <2>2
    <2>4. \A j \in DOMAIN table : table'[j].key = table[j].key /\ table'[j].owners # {}
        BY <1>2, <2>1, <2>2 DEF IInv, WellFormed
    <2>5. QED
        BY <1>1, <1>4, <2>3, <2>4, SameKeys
<1>5. QED
    BY <1>3, <1>4

\* What the backwards loop of debug_bp_clear_owner leaves, f saying where each
\* entry was: the entries somebody else owns, each once.
Kept(o, n, f) ==
    /\ \A i, j \in 1 .. n : f[i] = f[j] => i = j
    /\ table' \in Seq(Entry) /\ Len(table') = n /\ pcMap' = PcsOf(table')
    /\ \A i \in 1 .. n : /\ table'[i].key = table[f[i]].key
                         /\ table'[i].owners = table[f[i]].owners \ {o}
                         /\ table'[i].owners # {}
                         /\ table'[i].enabled = table[f[i]].enabled
    /\ \A i \in DOMAIN table : table[i].owners \ {o} # {} => \E j \in 1 .. n : f[j] = i

\* The entries left when an owner lets go of everything.
LEMMA KeepOwnedFacts ==
    ASSUME TypeOK, NEW o \in Owner, KeepOwned(Released(table, o))
    PROVE  \E n \in 0 .. Len(table) : \E f \in [1 .. n -> DOMAIN table] : Kept(o, n, f)
<1> DEFINE t == Released(table, o)
<1>1. table \in Seq(Entry) /\ Len(table) \in Nat /\ DOMAIN table = 1 .. Len(table)
    BY DEF TypeOK
<1>2. ASSUME NEW i \in DOMAIN table
      PROVE  /\ t[i] \in Entry
             /\ t[i].key = table[i].key
             /\ t[i].owners = table[i].owners \ {o}
             /\ t[i].enabled = table[i].enabled
    <2>1. table[i] \in Entry /\ t[i] = [table[i] EXCEPT !.owners = @ \ {o}]
        BY <1>1, <1>2 DEF Released
    <2>2. QED
        BY <2>1 DEF Entry
<1>3. t \in [1 .. Len(table) -> Entry]
    BY <1>1, <1>2 DEF Released
<1>4. DOMAIN t = DOMAIN table /\ Len(t) = Len(table)
    BY <1>1, <1>3
<1>5. PICK n \in 0 .. Len(t) :
        \E f \in [1 .. n -> {i \in DOMAIN t : t[i].owners # {}}] :
            /\ \A i, j \in 1 .. n : i < j => f[i] < f[j]
            /\ \A i \in DOMAIN t : t[i].owners # {} => \E j \in 1 .. n : f[j] = i
            /\ table' = [j \in 1 .. n |-> t[f[j]]]
            /\ pcMap' = PcsOf([j \in 1 .. n |-> t[f[j]]])
    BY DEF KeepOwned
<1>6. PICK f \in [1 .. n -> {i \in DOMAIN t : t[i].owners # {}}] :
            /\ \A i, j \in 1 .. n : i < j => f[i] < f[j]
            /\ \A i \in DOMAIN t : t[i].owners # {} => \E j \in 1 .. n : f[j] = i
            /\ table' = [j \in 1 .. n |-> t[f[j]]]
            /\ pcMap' = PcsOf([j \in 1 .. n |-> t[f[j]]])
    BY <1>5
<1> HIDE DEF t
<1>7. n \in 0 .. Len(table) /\ f \in [1 .. n -> DOMAIN table]
    BY <1>4, <1>6
<1>8. \A i, j \in 1 .. n : f[i] = f[j] => i = j
    <2> SUFFICES ASSUME NEW i \in 1 .. n, NEW j \in 1 .. n, i < j PROVE f[i] # f[j]
        BY <1>7
    <2>1. f[i] < f[j] /\ f[i] \in Nat /\ f[j] \in Nat
        BY <1>1, <1>6, <1>7
    <2>2. QED
        BY <2>1
<1>9. \A i \in 1 .. n : f[i] \in DOMAIN table /\ t[f[i]].owners # {} /\ table'[i] = t[f[i]]
    BY <1>4, <1>6
<1>10. table' \in [1 .. n -> Entry]
    BY <1>2, <1>6, <1>9
<1>11. table' \in Seq(Entry) /\ Len(table') = n
    BY <1>7, <1>10
<1>12. \A i \in 1 .. n : /\ table'[i].key = table[f[i]].key
                        /\ table'[i].owners = table[f[i]].owners \ {o}
                        /\ table'[i].owners # {}
                        /\ table'[i].enabled = table[f[i]].enabled
    BY <1>2, <1>9
<1>13. \A i \in DOMAIN table : table[i].owners \ {o} # {} => \E j \in 1 .. n : f[j] = i
    BY <1>2, <1>4, <1>6
<1>14. QED
    BY <1>6, <1>7, <1>8, <1>11, <1>12, <1>13 DEF Kept

\* That keeps the invariant.
LEMMA ClearOwnerIInv ==
    ASSUME IInv, NEW o \in Owner, ClearOwner(o)
    PROVE  IInv'
<1>1. TypeOK /\ KeepOwned(Released(table, o))
    BY DEF IInv, ClearOwner
<1>2. PICK n \in 0 .. Len(table) : \E f \in [1 .. n -> DOMAIN table] : Kept(o, n, f)
    BY <1>1, KeepOwnedFacts
<1>3. PICK f \in [1 .. n -> DOMAIN table] : Kept(o, n, f)
    BY <1>2
<1>4. /\ \A i, j \in 1 .. n : f[i] = f[j] => i = j
      /\ table' \in Seq(Entry) /\ Len(table') = n /\ pcMap' = PcsOf(table')
      /\ \A i \in 1 .. n : table'[i].key = table[f[i]].key /\ table'[i].owners # {}
    BY <1>3 DEF Kept
<1>5. QED
    BY <1>4, Subtable

\* So does switching an entry on or off.
LEMMA SetEnabledIInv ==
    ASSUME IInv, NEW k \in Key, NEW on \in BOOLEAN, SetEnabled(k, on)
    PROVE  IInv'
<1>1. PICK i \in Find(k) : table' = [table EXCEPT ![i].enabled = on]
    BY DEF SetEnabled
<1>2. i \in DOMAIN table /\ table[i] \in Entry /\ table \in Seq(Entry)
    BY FindFacts DEF IInv, TypeOK
<1> DEFINE e == [table[i] EXCEPT !.enabled = on]
<1>3. e \in Entry /\ e.key = table[i].key /\ e.owners = table[i].owners
    BY <1>2 DEF Entry
<1>4. table' = [table EXCEPT ![i] = e]
    BY <1>1, <1>2 DEF Entry
<1> HIDE DEF e
<1>5. table' \in Seq(Entry) /\ Len(table') = Len(table)
    BY <1>2, <1>3, <1>4
<1>6. \A j \in DOMAIN table : table'[j].key = table[j].key /\ table'[j].owners # {}
    BY <1>2, <1>3, <1>4 DEF IInv, WellFormed
<1>7. QED
    BY <1>5, <1>6, SameKeys DEF SetEnabled

\* Every step keeps it.
LEMMA NextIInv == IInv /\ [Next]_tableVars => IInv'
<1> SUFFICES ASSUME IInv, [Next]_tableVars PROVE IInv'
    OBVIOUS
<1>1. ASSUME NEW k \in Key, Delete(k) PROVE IInv'
    BY <1>1, EraseIInv, FindFacts DEF Delete, IInv
<1>2. ASSUME NEW k \in Key, NEW o \in Owner, AddFor(k, o) \/ RemoveFor(k, o) \/ ToggleFor(k, o)
      PROVE  IInv'
    BY <1>1, <1>2, AddForIInv, RemoveForIInv DEF ToggleFor, AddFor
<1>3. CASE ClearTable
    BY <1>3, TableAssumption
    DEF ClearTable, IInv, TypeOK, WellFormed, PcMapExact, PcsOf, TableAssumption
<1>4. CASE UNCHANGED tableVars
    BY <1>4 DEF tableVars, IInv, TypeOK, WellFormed, PcMapExact, PcsOf
<1>5. QED
    BY <1>2, <1>3, <1>4, ClearOwnerIInv, SetEnabledIInv DEF Next

\* And so it always holds.
LEMMA SpecIInv == Spec => []IInv
    BY InitIInv, NextIInv, PTL DEF Spec

-----------------------------------------------------------------------------

\* The array and the bitmap hold what their C types say.
THEOREM TypeCorrect == Spec => []TypeOK
    BY SpecIInv, PTL DEF IInv

\* One entry per normalised key, none without an owner, after any calls.
THEOREM TableWellFormed == Spec => []WellFormed
    BY SpecIInv, PTL DEF IInv

\* The bitmap has exactly the PCs of the array, after any calls.
THEOREM BitmapExact == Spec => []PcMapExact
    BY SpecIInv, PTL DEF IInv

\* The CPU loop's shortcut loses no breakpoint: where the bitmap is clear, no
\* entry can match, whatever banks are mapped (DEBUGNothingToDo).
THEOREM ShortcutSound ==
    ASSUME NEW pc, NEW pb, NEW cur
    PROVE  Spec => [](pc \notin pcMap => ~CanStop(pc, pb, cur))
<1>1. IInv => (pc \notin pcMap => ~CanStop(pc, pb, cur))
    BY DEF IInv, PcMapExact, PcsOf, CanStop, Matches
<1>2. QED
    BY <1>1, SpecIInv, PTL

-----------------------------------------------------------------------------
(* Every call on the array is one on the claims.                           *)

\* No entry, no claim.
LEMMA InitClaims == Init => Claims!ClaimsInit
    BY DEF Init, Claims!ClaimsInit, ClaimsOf, OffOf

\* Membership of a claim, and of a claimed key, read off a table.
OwnedTable(t) ==
    /\ t \in Seq(Entry)
    /\ \A i \in DOMAIN t : t[i].owners # {}

\* The claims are the pairs of an owner and the key of an entry of theirs.
LEMMA ClaimFacts ==
    ASSUME NEW t, OwnedTable(t)
    PROVE  /\ \A o, k : <<o, k>> \in ClaimsOf(t) <=>
                /\ o \in Owner /\ k \in Key
                /\ \E i \in DOMAIN t : t[i].key = k /\ o \in t[i].owners
           /\ \A k : k \in Claims!Claimed(ClaimsOf(t)) <=> \E i \in DOMAIN t : t[i].key = k
           /\ \A k : k \in OffOf(t) <=> \E i \in DOMAIN t : t[i].key = k /\ ~t[i].enabled
<1>1. \A i \in DOMAIN t :
        /\ t[i].key \in Key
        /\ t[i].owners \subseteq Owner
        /\ t[i].owners # {}
    <2>1. \A i \in DOMAIN t : t[i] \in Entry
        BY DEF OwnedTable
    <2>2. QED
        BY <2>1 DEF OwnedTable, Entry
<1>2. \A o, k : <<o, k>> \in ClaimsOf(t) <=>
                /\ o \in Owner /\ k \in Key
                /\ \E i \in DOMAIN t : t[i].key = k /\ o \in t[i].owners
    BY DEF ClaimsOf
<1>3. \A k : k \in OffOf(t) <=> \E i \in DOMAIN t : t[i].key = k /\ ~t[i].enabled
    BY <1>1 DEF OffOf
<1>4. ASSUME NEW k, NEW i \in DOMAIN t, t[i].key = k
      PROVE  k \in Claims!Claimed(ClaimsOf(t))
    <2>1. PICK o \in Owner : o \in t[i].owners
        BY <1>1
    <2>2. <<o, k>> \in ClaimsOf(t)
        BY <1>1, <1>2, <1>4, <2>1
    <2>3. QED
        BY <2>2 DEF Claims!Claimed
<1>5. ASSUME NEW k \in Claims!Claimed(ClaimsOf(t))
      PROVE  \E i \in DOMAIN t : t[i].key = k
    BY DEF Claims!Claimed, ClaimsOf
<1>6. QED
    BY <1>2, <1>3, <1>4, <1>5

\* Keeping some entries, with some of their owners, gives up exactly the
\* claims that went.
LEMMA Dropping ==
    ASSUME IInv, IInv', NEW n \in Nat, NEW f \in [1 .. n -> DOMAIN table],
           DOMAIN table' = 1 .. n,
           \A i \in 1 .. n : /\ table'[i].key = table[f[i]].key
                             /\ table'[i].enabled = table[f[i]].enabled,
           NEW cs,
           ClaimsOf(table)' = ClaimsOf(table) \ cs
    PROVE  Claims!Drop(cs)
<1>0. OwnedTable(table) /\ OwnedTable(table')
    BY DEF OwnedTable, IInv, TypeOK, WellFormed
<1>1. ASSUME NEW k PROVE k \in OffOf(table)' <=>
                            k \in OffOf(table) /\ k \in Claims!Claimed(ClaimsOf(table)')
    <2>1. ASSUME k \in OffOf(table)'
          PROVE  k \in OffOf(table) /\ k \in Claims!Claimed(ClaimsOf(table)')
        <3>1. PICK i \in 1 .. n : table'[i].key = k /\ ~table'[i].enabled
            BY <2>1, <1>0, ClaimFacts
        <3>2. f[i] \in DOMAIN table /\ table[f[i]].key = k /\ ~table[f[i]].enabled
            BY <3>1
        <3>3. QED
            BY <3>1, <3>2, <1>0, ClaimFacts
    <2>2. ASSUME k \in OffOf(table), k \in Claims!Claimed(ClaimsOf(table)')
          PROVE  k \in OffOf(table)'
        <3>1. PICK j \in DOMAIN table : table[j].key = k /\ ~table[j].enabled
            BY <2>2, <1>0, ClaimFacts
        <3>a. \E i \in DOMAIN table' : table'[i].key = k
            <4>1. PICK c \in ClaimsOf(table') : c[2] = k
                BY <2>2 DEF Claims!Claimed
            <4>2. QED
                BY <4>1 DEF ClaimsOf
        <3>2. PICK i \in 1 .. n : table'[i].key = k
            BY <3>a
        <3>3. f[i] = j
            BY <3>1, <3>2 DEF IInv, WellFormed
        <3>4. QED
            BY <3>1, <3>2, <3>3, <1>0, ClaimFacts
    <2>3. QED
        BY <2>1, <2>2
<1>2. OffOf(table)' = OffOf(table) \cap Claims!Claimed(ClaimsOf(table) \ cs)
    BY <1>1
<1>3. QED
    BY <1>2 DEF Claims!Drop

\* Erasing an entry drops the claims at its key and no other.
LEMMA EraseDrops ==
    ASSUME IInv, NEW i \in DOMAIN table, Erase(i), NEW cs,
           \A o, k : <<o, k>> \in ClaimsOf(table) =>
                       (<<o, k>> \in cs <=> k = table[i].key)
    PROVE  Claims!Drop(cs)
<1>1. PICK n \in 0 .. Len(table) : \E f \in [1 .. n -> DOMAIN table] : Erased(i, n, f)
    BY EraseFacts DEF IInv
<1>2. PICK f \in [1 .. n -> DOMAIN table] : Erased(i, n, f)
    BY <1>1
<1>3. IInv' /\ n \in Nat /\ DOMAIN table' = 1 .. n
    BY <1>2, EraseIInv DEF Erased, IInv, TypeOK
<1>0. OwnedTable(table) /\ OwnedTable(table')
    BY <1>3 DEF OwnedTable, IInv, TypeOK, WellFormed
<1>4. ASSUME NEW o, NEW k PROVE <<o, k>> \in ClaimsOf(table)' <=>
                                  <<o, k>> \in ClaimsOf(table) /\ <<o, k>> \notin cs
    <2>1. ASSUME <<o, k>> \in ClaimsOf(table)'
          PROVE  <<o, k>> \in ClaimsOf(table) /\ <<o, k>> \notin cs
        <3>1. PICK j \in 1 .. n : table'[j].key = k /\ o \in table'[j].owners
            BY <1>3, <2>1, <1>0, ClaimFacts
        <3>2. f[j] \in DOMAIN table /\ f[j] # i /\ table[f[j]].key = k /\ o \in table[f[j]].owners
            BY <1>2, <3>1 DEF Erased
        <3>3. k # table[i].key
            BY <3>2 DEF IInv, WellFormed
        <3>4. <<o, k>> \in ClaimsOf(table)
            BY <1>3, <2>1, <3>2, <1>0, ClaimFacts
        <3>5. QED
            BY <3>3, <3>4
    <2>2. ASSUME <<o, k>> \in ClaimsOf(table), <<o, k>> \notin cs
          PROVE  <<o, k>> \in ClaimsOf(table)'
        <3>1. PICK m \in DOMAIN table : table[m].key = k /\ o \in table[m].owners
            BY <2>2, <1>0, ClaimFacts
        <3>2. m # i
            BY <2>2, <3>1
        <3>3. PICK j \in 1 .. n : f[j] = m
            BY <1>2, <3>2 DEF Erased
        <3>4. table'[j].key = k /\ o \in table'[j].owners
            BY <1>2, <3>1, <3>3 DEF Erased
        <3>5. o \in Owner /\ k \in Key
            BY <2>2, <1>0, ClaimFacts
        <3>6. QED
            BY <1>3, <3>4, <3>5, <1>0, ClaimFacts
    <2>3. QED
        BY <2>1, <2>2
<1>5. ClaimsOf(table)' = ClaimsOf(table) \ cs
    BY <1>4 DEF ClaimsOf
<1>6. \A j \in 1 .. n : /\ table'[j].key = table[f[j]].key
                        /\ table'[j].enabled = table[f[j]].enabled
    BY <1>2 DEF Erased
<1>7. QED
    BY <1>3, <1>5, <1>6, Dropping

\* An entry edited in place, its key kept.
LEMMA EditedInPlace ==
    ASSUME IInv, NEW i \in DOMAIN table, NEW e \in Entry, e.key = table[i].key, e.owners # {},
           table' = [table EXCEPT ![i] = e], pcMap' = pcMap
    PROVE  /\ IInv' /\ DOMAIN table' = DOMAIN table
           /\ table'[i] = e
           /\ \A j \in DOMAIN table : j # i => table'[j] = table[j]
           /\ \A j \in DOMAIN table : table'[j].key = table[j].key
<1>1. table' \in Seq(Entry) /\ Len(table') = Len(table) /\ table \in Seq(Entry)
    BY DEF IInv, TypeOK
<1>2. \A j \in DOMAIN table : table'[j].key = table[j].key /\ table'[j].owners # {}
    BY DEF IInv, TypeOK, WellFormed
<1>3. IInv'
    BY <1>1, <1>2, SameKeys
<1>4. QED
    BY <1>1, <1>2, <1>3

\* A new entry is a claim more.
LEMMA AddNewClaims ==
    ASSUME IInv, IInv', NEW k \in Key, NEW o \in Owner, AddNew(k, o)
    PROVE  Claims!Claim(o, Normalised(k))
<1> DEFINE e == [key |-> Normalised(k), owners |-> {o}, enabled |-> TRUE]
<1>0. OwnedTable(table) /\ OwnedTable(table') /\ Normalised(k) \in Key
    BY NormalisedFacts, TableAssumption DEF OwnedTable, IInv, TypeOK, WellFormed
<1>1. table \in Seq(Entry) /\ e \in Entry /\ table' = Append(table, e)
    BY <1>0 DEF AddNew, IInv, TypeOK, Entry
<1>2. \A i \in DOMAIN table : table[i].key # Normalised(k)
    BY DEF AddNew, IInv, WellFormed, Find, TypeOK
<1>3. e.key = Normalised(k) /\ e.owners = {o} /\ e.enabled
    OBVIOUS
<1> HIDE DEF e
<1>4. /\ DOMAIN table' = DOMAIN table \cup {Len(table) + 1}
      /\ \A i \in DOMAIN table : table'[i] = table[i]
      /\ table'[Len(table) + 1] = e
    BY <1>1
<1>5. ASSUME NEW p, NEW x PROVE <<p, x>> \in ClaimsOf(table)' <=>
                                  <<p, x>> \in ClaimsOf(table) \/ <<p, x>> = <<o, Normalised(k)>>
    <2>1. <<p, x>> \in ClaimsOf(table') <=>
            /\ p \in Owner /\ x \in Key
            /\ \E i \in DOMAIN table' : table'[i].key = x /\ p \in table'[i].owners
        BY <1>0, ClaimFacts
    <2>2. <<p, x>> \in ClaimsOf(table) <=>
            /\ p \in Owner /\ x \in Key
            /\ \E i \in DOMAIN table : table[i].key = x /\ p \in table[i].owners
        BY <1>0, ClaimFacts
    <2>3. QED
        BY <1>0, <1>3, <1>4, <2>1, <2>2
<1>6. ClaimsOf(table)' = ClaimsOf(table) \cup {<<o, Normalised(k)>>}
    BY <1>0, <1>5 DEF ClaimsOf
<1>7. ASSUME NEW x PROVE x \in OffOf(table)' <=> x \in OffOf(table) /\ x # Normalised(k)
    <2>1. x \in OffOf(table') <=> \E i \in DOMAIN table' : table'[i].key = x /\ ~table'[i].enabled
        BY <1>0, ClaimFacts
    <2>2. x \in OffOf(table) <=> \E i \in DOMAIN table : table[i].key = x /\ ~table[i].enabled
        BY <1>0, ClaimFacts
    <2>3. QED
        BY <1>2, <1>3, <1>4, <2>1, <2>2
<1>8. OffOf(table)' = OffOf(table) \ {Normalised(k)}
    BY <1>7
<1>9. QED
    BY <1>6, <1>8 DEF Claims!Claim

\* So is an owner joined to an entry, unless they were there.
LEMMA AddExistingClaims ==
    ASSUME IInv, NEW k \in Key, NEW o \in Owner, AddExisting(k, o)
    PROVE  Claims!Claim(o, Normalised(k))
<1>1. PICK i \in Find(k) :
        table' = [table EXCEPT ![i].owners = @ \cup {o}, ![i].enabled = TRUE]
    BY DEF AddExisting
<1>2. /\ i \in DOMAIN table /\ table[i] \in Entry /\ table[i].key = Normalised(k)
      /\ \A j \in DOMAIN table : table[j].key = Normalised(k) => j = i
      /\ pcMap' = pcMap
    BY FindFacts DEF IInv, AddExisting
<1> DEFINE e == [table[i] EXCEPT !.owners = @ \cup {o}, !.enabled = TRUE]
<1>3. /\ e \in Entry /\ e.key = table[i].key /\ e.owners = table[i].owners \cup {o} /\ e.enabled
      /\ table' = [table EXCEPT ![i] = e]
    BY <1>1, <1>2 DEF Entry
<1> HIDE DEF e
<1>4. e.owners # {}
    BY <1>3
<1>5. /\ IInv' /\ DOMAIN table' = DOMAIN table
      /\ table'[i] = e
      /\ \A j \in DOMAIN table : j # i => table'[j] = table[j]
    BY <1>2, <1>3, <1>4, EditedInPlace
<1>0. OwnedTable(table) /\ OwnedTable(table') /\ Normalised(k) \in Key
    BY <1>5, NormalisedFacts, TableAssumption DEF OwnedTable, IInv, TypeOK, WellFormed
<1>6. ASSUME NEW p, NEW x PROVE <<p, x>> \in ClaimsOf(table)' <=>
                                  <<p, x>> \in ClaimsOf(table) \/ <<p, x>> = <<o, Normalised(k)>>
    <2>1. <<p, x>> \in ClaimsOf(table') <=>
            /\ p \in Owner /\ x \in Key
            /\ \E j \in DOMAIN table' : table'[j].key = x /\ p \in table'[j].owners
        BY <1>0, ClaimFacts
    <2>2. <<p, x>> \in ClaimsOf(table) <=>
            /\ p \in Owner /\ x \in Key
            /\ \E j \in DOMAIN table : table[j].key = x /\ p \in table[j].owners
        BY <1>0, ClaimFacts
    <2>3. QED
        BY <1>0, <1>2, <1>3, <1>5, <2>1, <2>2
<1>7. ClaimsOf(table)' = ClaimsOf(table) \cup {<<o, Normalised(k)>>}
    BY <1>0, <1>6 DEF ClaimsOf
<1>8. ASSUME NEW x PROVE x \in OffOf(table)' <=> x \in OffOf(table) /\ x # Normalised(k)
    <2>1. x \in OffOf(table') <=> \E j \in DOMAIN table' : table'[j].key = x /\ ~table'[j].enabled
        BY <1>0, ClaimFacts
    <2>2. x \in OffOf(table) <=> \E j \in DOMAIN table : table[j].key = x /\ ~table[j].enabled
        BY <1>0, ClaimFacts
    <2>3. QED
        BY <1>2, <1>3, <1>5, <2>1, <2>2
<1>9. OffOf(table)' = OffOf(table) \ {Normalised(k)}
    BY <1>8
<1>10. QED
    BY <1>7, <1>9 DEF Claims!Claim

\* Adding is claiming.
LEMMA AddForClaims ==
    ASSUME IInv, NEW k \in Key, NEW o \in Owner, AddFor(k, o)
    PROVE  Claims!ClaimsNext
<1>1. Claims!Claim(o, Normalised(k))
    BY AddForIInv, AddNewClaims, AddExistingClaims DEF AddFor
<1>2. Normalised(k) \in Key
    BY NormalisedFacts, TableAssumption
<1>3. QED
    BY <1>1, <1>2 DEF Claims!ClaimsNext

\* A person's delete lets go of every claim at a key.
LEMMA DeleteClaims ==
    ASSUME IInv, NEW k \in Key, Delete(k)
    PROVE  Claims!ClaimsNext
<1>1. PICK i \in Find(k) : Erase(i)
    BY DEF Delete
<1>2. i \in DOMAIN table /\ table[i].key = Normalised(k)
    BY FindFacts DEF IInv
<1> DEFINE cs == {c \in ClaimsOf(table) : c[2] = Normalised(k)}
<1>3. \A o, x : <<o, x>> \in ClaimsOf(table) => (<<o, x>> \in cs <=> x = table[i].key)
    BY <1>2
<1> HIDE DEF cs
<1>4. Claims!Drop(cs)
    BY <1>1, <1>2, <1>3, EraseDrops
<1>5. Claims!DeleteKey(Normalised(k)) /\ Normalised(k) \in Key
    BY <1>4, NormalisedFacts, TableAssumption DEF Claims!DeleteKey, cs
<1>6. QED
    BY <1>5 DEF Claims!ClaimsNext

\* Removing is letting go of one.
LEMMA RemoveForUnclaims ==
    ASSUME IInv, NEW k \in Key, NEW o \in Owner, RemoveFor(k, o)
    PROVE  Claims!Unclaim(o, Normalised(k))
<1> DEFINE cs == {<<o, Normalised(k)>>}
<1>1. PICK i \in Find(k) :
        /\ o \in table[i].owners
        /\ IF table[i].owners = {o}
             THEN Erase(i)
             ELSE /\ table' = [table EXCEPT ![i].owners = @ \ {o}]
                  /\ UNCHANGED pcMap
    BY DEF RemoveFor
<1>2. /\ i \in DOMAIN table /\ table[i] \in Entry /\ table[i].key = Normalised(k)
      /\ \A j \in DOMAIN table : table[j].key = Normalised(k) => j = i
      /\ table \in Seq(Entry)
    BY FindFacts DEF IInv, TypeOK
<1>0. OwnedTable(table) /\ Normalised(k) \in Key
    BY NormalisedFacts, TableAssumption DEF OwnedTable, IInv, TypeOK, WellFormed
<1>3. ASSUME table[i].owners = {o} PROVE Claims!Drop(cs)
    <2>1. ASSUME NEW p, NEW x, <<p, x>> \in ClaimsOf(table), x = table[i].key PROVE p = o
        <3>1. PICK j \in DOMAIN table : table[j].key = x /\ p \in table[j].owners
            BY <1>0, <2>1, ClaimFacts
        <3>2. QED
            BY <1>2, <1>3, <2>1, <3>1
    <2>2. \A p, x : <<p, x>> \in ClaimsOf(table) => (<<p, x>> \in cs <=> x = table[i].key)
        BY <1>2, <2>1
    <2>3. QED
        BY <1>1, <1>2, <1>3, <2>2, EraseDrops
<1>4. ASSUME table[i].owners # {o} PROVE Claims!Drop(cs)
    <2> DEFINE e == [table[i] EXCEPT !.owners = @ \ {o}]
               f == [j \in 1 .. Len(table) |-> j]
    <2>1. /\ e \in Entry /\ e.key = table[i].key /\ e.owners = table[i].owners \ {o}
          /\ e.owners # {} /\ e.enabled = table[i].enabled
          /\ table' = [table EXCEPT ![i] = e] /\ pcMap' = pcMap
        BY <1>1, <1>2, <1>4 DEF Entry
    <2> HIDE DEF e
    <2>2. /\ IInv' /\ DOMAIN table' = DOMAIN table
          /\ table'[i] = e
          /\ \A j \in DOMAIN table : j # i => table'[j] = table[j]
        BY <1>2, <2>1, EditedInPlace
    <2>0. OwnedTable(table')
        BY <2>2 DEF OwnedTable, IInv, TypeOK, WellFormed
    <2>3. /\ Len(table) \in Nat /\ DOMAIN table = 1 .. Len(table)
          /\ f \in [1 .. Len(table) -> DOMAIN table]
        BY <1>2
    <2>4. \A j \in 1 .. Len(table) : /\ table'[j].key = table[f[j]].key
                                     /\ table'[j].enabled = table[f[j]].enabled
        BY <2>1, <2>2, <2>3
    <2>5. ASSUME NEW p, NEW x PROVE <<p, x>> \in ClaimsOf(table)' <=>
                                      <<p, x>> \in ClaimsOf(table) /\ <<p, x>> \notin cs
        <3>1. <<p, x>> \in ClaimsOf(table') <=>
                /\ p \in Owner /\ x \in Key
                /\ \E j \in DOMAIN table' : table'[j].key = x /\ p \in table'[j].owners
            BY <2>0, ClaimFacts
        <3>2. <<p, x>> \in ClaimsOf(table) <=>
                /\ p \in Owner /\ x \in Key
                /\ \E j \in DOMAIN table : table[j].key = x /\ p \in table[j].owners
            BY <1>0, ClaimFacts
        <3>3. QED
            BY <1>2, <2>1, <2>2, <3>1, <3>2
    <2> HIDE DEF f, cs
    <2>6. ClaimsOf(table)' = ClaimsOf(table) \ cs
        BY <2>5 DEF ClaimsOf
    <2>7. QED
        BY <2>2, <2>3, <2>4, <2>6, Dropping
<1>5. QED
    BY <1>3, <1>4 DEF Claims!Unclaim

\* Clearing an owner is letting go of all of theirs.
LEMMA ClearOwnerUnclaims ==
    ASSUME IInv, NEW o \in Owner, ClearOwner(o)
    PROVE  Claims!UnclaimAll(o)
<1> DEFINE cs == {c \in ClaimsOf(table) : c[1] = o}
<1>1. TypeOK /\ KeepOwned(Released(table, o)) /\ IInv'
    BY ClearOwnerIInv DEF IInv, ClearOwner
<1>2. PICK n \in 0 .. Len(table) : \E f \in [1 .. n -> DOMAIN table] : Kept(o, n, f)
    BY <1>1, KeepOwnedFacts
<1>3. PICK f \in [1 .. n -> DOMAIN table] : Kept(o, n, f)
    BY <1>2
<1>0. OwnedTable(table) /\ OwnedTable(table')
    BY <1>1 DEF OwnedTable, IInv, TypeOK, WellFormed
<1>4. n \in Nat /\ DOMAIN table' = 1 .. n
    BY <1>3 DEF Kept, IInv, TypeOK
<1>5. ASSUME NEW p, NEW x PROVE <<p, x>> \in ClaimsOf(table)' <=>
                                  <<p, x>> \in ClaimsOf(table) /\ <<p, x>> \notin cs
    <2>1. <<p, x>> \in ClaimsOf(table') <=>
            /\ p \in Owner /\ x \in Key
            /\ \E j \in DOMAIN table' : table'[j].key = x /\ p \in table'[j].owners
        BY <1>0, ClaimFacts
    <2>2. <<p, x>> \in ClaimsOf(table) <=>
            /\ p \in Owner /\ x \in Key
            /\ \E j \in DOMAIN table : table[j].key = x /\ p \in table[j].owners
        BY <1>0, ClaimFacts
    <2>3. ASSUME NEW j \in DOMAIN table', table'[j].key = x, p \in table'[j].owners
          PROVE  p # o /\ \E m \in DOMAIN table : table[m].key = x /\ p \in table[m].owners
        <3>1. /\ f[j] \in DOMAIN table
              /\ table[f[j]].key = x
              /\ p \in table[f[j]].owners \ {o}
            BY <1>3, <1>4, <2>3 DEF Kept
        <3>2. QED
            BY <3>1
    <2>4. ASSUME NEW m \in DOMAIN table, table[m].key = x, p \in table[m].owners, p # o
          PROVE  \E j \in DOMAIN table' : table'[j].key = x /\ p \in table'[j].owners
        <3>1. PICK j \in 1 .. n : f[j] = m
            BY <1>3, <2>4 DEF Kept
        <3>2. table'[j].key = x /\ p \in table'[j].owners
            BY <1>3, <2>4, <3>1 DEF Kept
        <3>3. QED
            BY <1>4, <3>2
    <2>5. QED
        BY <2>1, <2>2, <2>3, <2>4
<1> HIDE DEF cs
<1>6. ClaimsOf(table)' = ClaimsOf(table) \ cs
    <2>1. ClaimsOf(table)' \subseteq Owner \X Key /\ ClaimsOf(table) \subseteq Owner \X Key
        BY DEF ClaimsOf
    <2>2. QED
        BY <1>5, <2>1
<1>7. \A j \in 1 .. n : /\ table'[j].key = table[f[j]].key
                        /\ table'[j].enabled = table[f[j]].enabled
    BY <1>3 DEF Kept
<1>8. Claims!Drop(cs)
    BY <1>1, <1>4, <1>6, <1>7, Dropping
<1>9. QED
    BY <1>8 DEF Claims!UnclaimAll, cs

\* Switching an entry changes no claim.
LEMMA SetEnabledClaims ==
    ASSUME IInv, NEW k \in Key, NEW on \in BOOLEAN, SetEnabled(k, on)
    PROVE  Claims!ClaimsNext
<1>1. PICK i \in Find(k) : table' = [table EXCEPT ![i].enabled = on]
    BY DEF SetEnabled
<1>2. /\ i \in DOMAIN table /\ table[i] \in Entry /\ table[i].key = Normalised(k)
      /\ \A j \in DOMAIN table : table[j].key = Normalised(k) => j = i
      /\ pcMap' = pcMap
    BY FindFacts DEF IInv, SetEnabled
<1> DEFINE e == [table[i] EXCEPT !.enabled = on]
<1>3. /\ e \in Entry /\ e.key = table[i].key /\ e.owners = table[i].owners /\ e.enabled = on
      /\ table' = [table EXCEPT ![i] = e]
    BY <1>1, <1>2 DEF Entry
<1> HIDE DEF e
<1>4. e.owners # {}
    BY <1>2, <1>3 DEF IInv, WellFormed
<1>5. /\ IInv' /\ DOMAIN table' = DOMAIN table
      /\ table'[i] = e
      /\ \A j \in DOMAIN table : j # i => table'[j] = table[j]
    BY <1>2, <1>3, <1>4, EditedInPlace
<1>0. OwnedTable(table) /\ OwnedTable(table') /\ Normalised(k) \in Key
    BY <1>5, NormalisedFacts, TableAssumption DEF OwnedTable, IInv, TypeOK, WellFormed
<1>6. ASSUME NEW p, NEW x PROVE <<p, x>> \in ClaimsOf(table)' <=> <<p, x>> \in ClaimsOf(table)
    <2>1. <<p, x>> \in ClaimsOf(table') <=>
            /\ p \in Owner /\ x \in Key
            /\ \E j \in DOMAIN table' : table'[j].key = x /\ p \in table'[j].owners
        BY <1>0, ClaimFacts
    <2>2. <<p, x>> \in ClaimsOf(table) <=>
            /\ p \in Owner /\ x \in Key
            /\ \E j \in DOMAIN table : table[j].key = x /\ p \in table[j].owners
        BY <1>0, ClaimFacts
    <2>3. QED
        BY <1>2, <1>3, <1>5, <2>1, <2>2
<1>7. ClaimsOf(table)' = ClaimsOf(table)
    <2>1. ClaimsOf(table)' \subseteq Owner \X Key /\ ClaimsOf(table) \subseteq Owner \X Key
        BY DEF ClaimsOf
    <2>2. QED
        BY <1>6, <2>1
<1>8. ASSUME NEW x PROVE x \in OffOf(table)' <=>
                           IF x = Normalised(k) THEN ~on ELSE x \in OffOf(table)
    <2>1. x \in OffOf(table') <=> \E j \in DOMAIN table' : table'[j].key = x /\ ~table'[j].enabled
        BY <1>0, ClaimFacts
    <2>2. x \in OffOf(table) <=> \E j \in DOMAIN table : table[j].key = x /\ ~table[j].enabled
        BY <1>0, ClaimFacts
    <2>3. CASE x = Normalised(k)
        BY <1>2, <1>3, <1>5, <2>1, <2>3
    <2>4. CASE x # Normalised(k)
        BY <1>2, <1>3, <1>5, <2>1, <2>2, <2>4
    <2>5. QED
        BY <2>3, <2>4
<1>9. OffOf(table)' = IF on THEN OffOf(table) \ {Normalised(k)} ELSE OffOf(table) \cup {Normalised(k)}
    BY <1>8
<1>10. Normalised(k) \in Claims!Claimed(ClaimsOf(table))
    BY <1>0, <1>2, ClaimFacts
<1>11. Claims!Switch(Normalised(k), on)
    BY <1>7, <1>9, <1>10 DEF Claims!Switch
<1>12. QED
    BY <1>0, <1>11 DEF Claims!ClaimsNext

\* Clearing the table lets go of everything.
LEMMA ClearTableClaims == ClearTable => Claims!ClaimsNext
<1>1. ASSUME ClearTable PROVE ClaimsOf(table)' = {} /\ OffOf(table)' = {}
    BY <1>1 DEF ClearTable, ClaimsOf, OffOf
<1>2. ASSUME ClearTable PROVE Claims!DeleteAll
    BY <1>1, <1>2 DEF Claims!DeleteAll, Claims!Drop, Claims!Claimed
<1>3. QED
    BY <1>2 DEF Claims!ClaimsNext

\* Every step is a step of the claims or none.
LEMMA NextClaims == IInv /\ [Next]_tableVars => [Claims!ClaimsNext]_(Claims!claimVars)
<1> SUFFICES ASSUME IInv, [Next]_tableVars
             PROVE  Claims!ClaimsNext \/ UNCHANGED Claims!claimVars
    OBVIOUS
<1>1. ASSUME NEW k \in Key, NEW o \in Owner, RemoveFor(k, o) PROVE Claims!ClaimsNext
    <2>1. Claims!Unclaim(o, Normalised(k)) /\ Normalised(k) \in Key
        BY <1>1, RemoveForUnclaims, NormalisedFacts, TableAssumption
    <2>2. QED
        BY <2>1 DEF Claims!ClaimsNext
<1>2. ASSUME NEW k \in Key, NEW o \in Owner, AddFor(k, o) \/ ToggleFor(k, o)
      PROVE  Claims!ClaimsNext
    BY <1>2, AddForClaims, DeleteClaims DEF ToggleFor, AddFor
<1>3. ASSUME NEW o \in Owner, ClearOwner(o) PROVE Claims!ClaimsNext
    BY <1>3, ClearOwnerUnclaims DEF Claims!ClaimsNext
<1>4. CASE UNCHANGED tableVars
    BY <1>4 DEF tableVars, Claims!claimVars, ClaimsOf, OffOf
<1>5. QED
    BY <1>1, <1>2, <1>3, <1>4, SetEnabledClaims, ClearTableClaims DEF Next

\* Whatever calls the owners make, in any order, the array behaves as a set of
\* independent claims: it implements BreakpointClaims.
THEOREM Refinement == Spec => ImplementsClaims
    BY InitClaims, NextClaims, SpecIInv, PTL DEF Spec, ImplementsClaims, Claims!ClaimsSpec

\* The claims of everyone but o.
OthersClaims(o) == {c \in ClaimsOf(table) : c[1] # o}

\* A claim let go of takes no other's.
LEMMA LettingGo ==
    ASSUME IInv, NEW o \in Owner, (\E k \in Key : RemoveFor(k, o)) \/ ClearOwner(o)
    PROVE  OthersClaims(o)' = OthersClaims(o)
<1>1. ASSUME NEW k \in Key, RemoveFor(k, o) PROVE OthersClaims(o)' = OthersClaims(o)
    <2>1. ClaimsOf(table)' = ClaimsOf(table) \ {<<o, Normalised(k)>>}
        BY <1>1, RemoveForUnclaims DEF Claims!Unclaim, Claims!Drop
    <2>2. QED
        BY <2>1 DEF OthersClaims
<1>2. ASSUME ClearOwner(o) PROVE OthersClaims(o)' = OthersClaims(o)
    <2>1. ClaimsOf(table)' = ClaimsOf(table) \ {c \in ClaimsOf(table) : c[1] = o}
        BY <1>2, ClearOwnerUnclaims DEF Claims!UnclaimAll, Claims!Drop
    <2>2. QED
        BY <2>1 DEF OthersClaims
<1>3. QED
    BY <1>1, <1>2

\* However many owners share the table, one of them letting go of a breakpoint
\* or of all its own takes nothing from another.
THEOREM Independence == Spec => OwnersIndependent
<1>1. IInv /\ [Next]_tableVars =>
        [\A o \in Owner :
           (\E k \in Key : RemoveFor(k, o)) \/ ClearOwner(o) =>
             {c \in ClaimsOf(table') : c[1] # o} = {c \in ClaimsOf(table) : c[1] # o}]_tableVars
    BY LettingGo DEF OthersClaims
<1>2. QED
    BY <1>1, SpecIInv, PTL DEF Spec, OwnersIndependent

-----------------------------------------------------------------------------
(* Arrivals: the table with its records.                                   *)

ArrivalInv == IInv /\ ArrivalTypeOK

\* A record, found or fresh, is one.
LEMMA RecordIs ==
    ASSUME ArrivalAssumption, ArrivalTypeOK, NEW k
    PROVE  RecordOf(k) \in Record /\ RecordOf(k).hits <= MaxHits
<1>1. CASE k \in DOMAIN conds
    BY <1>1 DEF ArrivalTypeOK, RecordOf
<1>2. CASE k \notin DOMAIN conds
    <2>1. FreshRecord \in Record /\ FreshRecord.hits <= MaxHits
        BY DEF ArrivalAssumption, FreshRecord, Record
    <2> QED BY <1>2, <2>1 DEF RecordOf
<1> QED BY <1>1, <1>2

\* Whatever touches one record and leaves the table alone keeps the invariant.
LEMMA EditIs ==
    ASSUME ArrivalInv, NEW k \in Key, NEW r \in Record, r.hits <= MaxHits, Edit(k, r)
    PROVE  ArrivalInv'
<1> DEFINE n == Normalised(k)
<1>1. n \in Key /\ n = Normalised(n)
    BY NormalisedFacts, TableAssumption
<1> HIDE DEF n
<1>2. conds' = [x \in DOMAIN conds \cup {n} |-> IF x = n THEN r ELSE conds[x]]
    BY DEF Edit, Put, n
<1>3. DOMAIN conds' \subseteq {x \in Key : x = Normalised(x)}
    BY <1>1, <1>2 DEF ArrivalInv, ArrivalTypeOK
<1>4. ASSUME NEW x \in DOMAIN conds'
      PROVE  conds'[x] \in Record /\ conds'[x].hits <= MaxHits
    <2>1. conds'[x] = IF x = n THEN r ELSE conds[x]
        BY <1>2
    <2>2. x # n => x \in DOMAIN conds
        BY <1>2
    <2> QED BY <2>1, <2>2 DEF ArrivalInv, ArrivalTypeOK
<1>5. UNCHANGED tableVars /\ stopped' = stopped
    BY DEF Edit
<1>6. IInv'
    BY <1>5, NextIInv DEF ArrivalInv
<1>7. TypeOK'
    BY <1>6 DEF IInv
<1> QED BY <1>3, <1>4, <1>5, <1>6, <1>7 DEF ArrivalInv, ArrivalTypeOK

\* Every call that edits a record keeps it.
LEMMA EditRecordIs ==
    ASSUME ArrivalAssumption, ArrivalInv, EditRecord
    PROVE  ArrivalInv'
<1>1. PICK k \in Key :
        \/ SetCondition(k)
        \/ \E n \in Ignores : SetIgnore(k, n)
        \/ \E opened \in BOOLEAN : SetDump(k, opened)
        \/ ClearCondition(k) \/ ClearDump(k) \/ ResetHits(k) \/ Forget(k)
    BY DEF EditRecord
<1> DEFINE r == RecordOf(Normalised(k))
<1>2. r \in Record /\ r.hits <= MaxHits
    BY RecordIs DEF ArrivalInv
<1> HIDE DEF r
<1>3. CASE SetCondition(k)
    <2>1. Edit(k, [r EXCEPT !.hasCond = TRUE])
        BY <1>3 DEF SetCondition, r
    <2>2. /\ [r EXCEPT !.hasCond = TRUE] \in Record
          /\ [r EXCEPT !.hasCond = TRUE].hits <= MaxHits
        BY <1>2 DEF Record
    <2> QED BY <2>1, <2>2, EditIs
<1>4. CASE \E n \in Ignores : SetIgnore(k, n)
    <2>1. PICK n \in Ignores : Edit(k, [r EXCEPT !.ignore = n])
        BY <1>4 DEF SetIgnore, r
    <2>2. /\ [r EXCEPT !.ignore = n] \in Record
          /\ [r EXCEPT !.ignore = n].hits <= MaxHits
        BY <1>2 DEF Record, ArrivalAssumption
    <2> QED BY <2>1, <2>2, EditIs
<1>5. CASE (\E opened \in BOOLEAN : SetDump(k, opened)) \/ ClearDump(k)
    <2>1. PICK on \in BOOLEAN : Edit(k, [r EXCEPT !.dump = on])
        BY <1>5 DEF SetDump, ClearDump, r
    <2>2. /\ [r EXCEPT !.dump = on] \in Record
          /\ [r EXCEPT !.dump = on].hits <= MaxHits
        BY <1>2 DEF Record
    <2> QED BY <2>1, <2>2, EditIs
<1>6. CASE ClearCondition(k)
    <2>1. Edit(k, [r EXCEPT !.hasCond = FALSE])
        BY <1>6 DEF ClearCondition, r
    <2>2. /\ [r EXCEPT !.hasCond = FALSE] \in Record
          /\ [r EXCEPT !.hasCond = FALSE].hits <= MaxHits
        BY <1>2 DEF Record
    <2> QED BY <2>1, <2>2, EditIs
<1>7. CASE ResetHits(k)
    <2>1. Edit(k, [r EXCEPT !.hits = 0])
        BY <1>7 DEF ResetHits, r
    <2>2. /\ [r EXCEPT !.hits = 0] \in Record
          /\ [r EXCEPT !.hits = 0].hits <= MaxHits
        BY <1>2 DEF Record, ArrivalAssumption
    <2> QED BY <2>1, <2>2, EditIs
<1>8. CASE Forget(k)
    <2>1. /\ conds' = [x \in DOMAIN conds \ {Normalised(k)} |-> conds[x]]
          /\ UNCHANGED tableVars /\ stopped' = stopped
        BY <1>8 DEF Forget
    <2>2. IInv'
        BY <2>1, NextIInv DEF ArrivalInv
    <2>3. TypeOK'
        BY <2>2 DEF IInv
    <2> QED BY <2>1, <2>2, <2>3 DEF ArrivalInv, ArrivalTypeOK
<1> QED BY <1>1, <1>3, <1>4, <1>5, <1>6, <1>7, <1>8

\* So does an arrival.
LEMMA ArriveIs ==
    ASSUME ArrivalAssumption, ArrivalInv, NEW pc, NEW pb, NEW cur, NEW sat, NEW oom,
           Arrive(pc, pb, cur, sat, oom)
    PROVE  ArrivalInv'
<1> DEFINE matched == {i \in DOMAIN table : Matches(table[i], pc, pb, cur)}
           failing == {i \in matched : table[i].key \in oom \ DOMAIN conds}
           stopping == failing \cup {i \in matched : Stopping(i, sat)}
           counted == {table[i].key : i \in Reached(matched, stopping) \ failing}
<1>1. /\ \A k \in counted : RecordOf(k).hits < MaxHits
      /\ conds' = [k \in DOMAIN conds \cup counted |->
                       IF k \in counted /\ Satisfied(k, sat)
                         THEN [RecordOf(k) EXCEPT !.hits = @ + 1]
                         ELSE RecordOf(k)]
      /\ stopped' = (Reached(matched, stopping) \cap stopping # {})
      /\ UNCHANGED tableVars
    BY DEF Arrive
<1>2. counted \subseteq {table[i].key : i \in DOMAIN table}
    BY DEF Reached
<1>3. {table[i].key : i \in DOMAIN table} \subseteq {k \in Key : k = Normalised(k)}
    <2>1. ASSUME NEW i \in DOMAIN table
          PROVE  table[i].key \in Key /\ table[i].key = Normalised(table[i].key)
        <3>1. table[i] \in Entry
            BY DEF ArrivalInv, IInv, TypeOK
        <3>2. table[i].key \in Key
            BY <3>1 DEF Entry
        <3> QED BY <3>2 DEF ArrivalInv, IInv, WellFormed
    <2> QED BY <2>1
<1> HIDE DEF counted, stopping, failing, matched
<1>4. DOMAIN conds' \subseteq {k \in Key : k = Normalised(k)}
    BY <1>1, <1>2, <1>3 DEF ArrivalInv, ArrivalTypeOK
<1>5. ASSUME NEW k \in DOMAIN conds'
      PROVE  conds'[k] \in Record /\ conds'[k].hits <= MaxHits
    <2> DEFINE r == RecordOf(k)
    <2>1. r \in Record /\ r.hits <= MaxHits
        BY RecordIs DEF ArrivalInv
    <2>2. conds'[k] = IF k \in counted /\ Satisfied(k, sat) THEN [r EXCEPT !.hits = @ + 1] ELSE r
        BY <1>1
    <2>3. k \in counted => r.hits < MaxHits
        BY <1>1
    <2> HIDE DEF r
    <2>4. r.hits < MaxHits => /\ [r EXCEPT !.hits = @ + 1] \in Record
                              /\ [r EXCEPT !.hits = @ + 1].hits <= MaxHits
        BY <2>1 DEF Record, ArrivalAssumption
    <2> QED BY <2>1, <2>2, <2>3, <2>4
<1>6. IInv' /\ TypeOK'
    BY <1>1, NextIInv DEF ArrivalInv, IInv
<1>7. stopped' \in BOOLEAN
    BY <1>1
<1> QED BY <1>4, <1>5, <1>6, <1>7 DEF ArrivalInv, ArrivalTypeOK

\* And every step.
LEMMA ArrivalNextIs ==
    ASSUME ArrivalAssumption
    PROVE  ArrivalInv /\ [ArrivalNext]_vars => ArrivalInv'
<1> SUFFICES ASSUME ArrivalInv, [ArrivalNext]_vars PROVE ArrivalInv'
    OBVIOUS
<1>1. ASSUME [Next]_tableVars, conds' = conds \/ conds' = <<>>, stopped' = stopped
      PROVE  ArrivalInv'
    <2>1. IInv' /\ TypeOK'
        BY <1>1, NextIInv DEF ArrivalInv, IInv
    <2>2. conds' = <<>> => DOMAIN conds' = {}
        OBVIOUS
    <2> QED BY <1>1, <2>1, <2>2 DEF ArrivalInv, ArrivalTypeOK
<1>2. EditTable => Next /\ conds' = conds /\ stopped' = stopped
    BY DEF EditTable, Next, KeepRecords
<1>3. ClearAll => Next /\ conds' = <<>> /\ stopped' = stopped
    BY DEF ClearAll, Next
<1>4. UNCHANGED vars => UNCHANGED tableVars /\ conds' = conds /\ stopped' = stopped
    BY DEF vars, tableVars
<1>5. ArrivalStep => ArrivalInv'
    BY ArriveIs DEF ArrivalStep
<1> QED BY <1>1, <1>2, <1>3, <1>4, <1>5, EditRecordIs DEF ArrivalNext

\* The records hold what their C types say, under normalised keys.
LEMMA ArrivalSpecInv ==
    ASSUME ArrivalAssumption
    PROVE  ArrivalSpec => []ArrivalInv
<1>1. ArrivalInit => ArrivalInv
    <2>1. DOMAIN <<>> = {}
        OBVIOUS
    <2> QED BY <2>1, InitIInv DEF ArrivalInit, ArrivalInv, ArrivalTypeOK, IInv
<1>2. ArrivalInv /\ [ArrivalNext]_vars => ArrivalInv'
    BY ArrivalNextIs
<1> QED BY <1>1, <1>2, PTL DEF ArrivalSpec

\* An entry that is due answers "stop".
LEMMA DueIsStopping ==
    ASSUME ArrivalAssumption, ArrivalInv, NEW i \in DOMAIN table, NEW sat
    PROVE  Stopping(i, sat) <=>
             /\ RecordOf(table[i].key).hasCond => table[i].key \in sat
             /\ RecordOf(table[i].key).hits >= RecordOf(table[i].key).ignore
             /\ ~RecordOf(table[i].key).dump
<1> DEFINE r == RecordOf(table[i].key)
<1>1. r.hits \in Nat /\ r.ignore \in Nat
    BY RecordIs DEF ArrivalInv, Record
<1>2. r.hits + 1 > r.ignore <=> r.hits >= r.ignore
    BY <1>1
<1>3. Stopping(i, sat) <=> (r.hasCond => table[i].key \in sat) /\ r.hits + 1 > r.ignore /\ ~r.dump
    BY DEF Stopping, Satisfied
<1> QED BY <1>2, <1>3

\* An arrival stops exactly when some armed entry there is due, for tables of
\* any size and order: the loop of debug_bp_on_arrival ends at an entry that
\* answers "stop" and at no other, so it gets to the first of those.
THEOREM ArrivalsStopWhenDue ==
    ASSUME ArrivalAssumption
    PROVE  ArrivalSpec => StopsExactlyWhenDue
<1> DEFINE Due(i, sat) ==
             /\ RecordOf(table[i].key).hasCond => table[i].key \in sat
             /\ RecordOf(table[i].key).hits >= RecordOf(table[i].key).ignore
             /\ ~RecordOf(table[i].key).dump
<1>1. ASSUME ArrivalInv, NEW pc \in Pc, NEW pb \in PBank, NEW cur \in MappedBank,
             NEW sat \in SUBSET Conditional, Arrive(pc, pb, cur, sat, {})
      PROVE  stopped' <=> \E i \in DOMAIN table :
                             /\ Matches(table[i], pc, pb, cur)
                             /\ RecordOf(table[i].key).hasCond => table[i].key \in sat
                             /\ RecordOf(table[i].key).hits >= RecordOf(table[i].key).ignore
                             /\ ~RecordOf(table[i].key).dump
    <2> DEFINE matched == {i \in DOMAIN table : Matches(table[i], pc, pb, cur)}
               failing == {i \in matched : table[i].key \in {} \ DOMAIN conds}
               stops == {i \in matched : Stopping(i, sat)}
               reached == Reached(matched, failing \cup stops)
    <2>1. stopped' <=> reached \cap (failing \cup stops) # {}
        BY <1>1 DEF Arrive
    <2>2. failing = {}
        OBVIOUS
    <2>3. stops \subseteq Nat /\ matched \subseteq Nat
        BY <1>1 DEF ArrivalInv, IInv, TypeOK
    <2>4. reached \cap (failing \cup stops) = {i \in stops : \A j \in matched : j < i => j \notin stops}
        BY <2>2 DEF Reached
    <2>5. stops # {} => \E i \in stops : \A j \in matched : j < i => j \notin stops
        <3>1. SUFFICES ASSUME stops # {}
                       PROVE  \E i \in stops : \A j \in matched : j < i => j \notin stops
            OBVIOUS
        <3> HIDE DEF stops, matched
        <3>2. PICK i \in stops : \A j \in stops : i <= j
            BY <2>3, <3>1, LeastOf
        <3> QED BY <2>3, <3>2
    <2>6. stopped' <=> stops # {}
        BY <2>1, <2>4, <2>5
    <2>7. \A i \in DOMAIN table : Stopping(i, sat) <=> Due(i, sat)
        BY <1>1, DueIsStopping
    <2>8. stops # {} <=> \E i \in DOMAIN table : Matches(table[i], pc, pb, cur) /\ Due(i, sat)
        BY <2>7
    <2> QED BY <2>6, <2>8
<1> DEFINE A == \A pc \in Pc, pb \in PBank, cur \in MappedBank, sat \in SUBSET Conditional :
          Arrive(pc, pb, cur, sat, {}) =>
            (stopped' <=> \E i \in DOMAIN table :
                             /\ Matches(table[i], pc, pb, cur)
                             /\ RecordOf(table[i].key).hasCond => table[i].key \in sat
                             /\ RecordOf(table[i].key).hits >= RecordOf(table[i].key).ignore
                             /\ ~RecordOf(table[i].key).dump)
<1>2. ArrivalInv => A
    BY <1>1, Zenon
<1>3. ArrivalInv /\ [ArrivalNext]_vars => [A]_vars
    BY <1>2
<1> QED BY <1>3, ArrivalSpecInv, PTL DEF ArrivalSpec, StopsExactlyWhenDue
===============================================================================
