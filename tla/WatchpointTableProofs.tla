------------------------ MODULE WatchpointTableProofs ------------------------
(***************************************************************************)
(* Proofs about WatchpointTable for every machine, size of the table, list *)
(* of data breakpoints and number of owners: what a client's list and its  *)
(* leaving do to the watches it asked for, and not to anybody else's.      *)
(***************************************************************************)
EXTENDS WatchpointTable, SublistProofs

Watch ==
    [key : Key, len : Nat, active : BOOLEAN, filtered : BOOLEAN, test : Tests,
     owners : SUBSET WatchOwner]

\* A watch whoever owns it; and with an owner less, or one more.
Bare(w) == [w EXCEPT !.owners = {}]
Off(w, o) == [w EXCEPT !.owners = @ \ {o}]
On(w, o) == [w EXCEPT !.owners = @ \cup {o}]

\* What o's watches are but for who else owns them.
Profile(o, t) == {Bare(t[i]) : i \in {j \in DOMAIN t : o \in t[j].owners}}

\* The keys o owns.
Keys(o, t) == {t[i].key : i \in {j \in DOMAIN t : o \in t[j].owners}}

\* Owners come and go, and the rest of a watch stays.
LEMMA OwnersOnly ==
    ASSUME NEW w \in Watch, NEW o
    PROVE  /\ Off(w, o) \in Watch /\ Off(w, o).owners = w.owners \ {o}
           /\ Off(w, o).key = w.key /\ Bare(Off(w, o)) = Bare(w)
           /\ o \in WatchOwner => On(w, o) \in Watch
           /\ On(w, o).owners = w.owners \cup {o}
           /\ On(w, o).key = w.key /\ Bare(On(w, o)) = Bare(w)
BY DEF Watch, Off, On, Bare

\* A key normalised is a key.
LEMMA NormalisedKey == ASSUME NEW k \in Key PROVE Normalised(k) \in Key
BY DEF Key, Normalised, Addr

\* Keys without a bank are normal.
LEMMA PlainKey == ASSUME NEW a \in Addr PROVE <<a, ANY>> \in Key /\ Normalised(<<a, ANY>>) = <<a, ANY>>
BY DEF Key, Normalised, Addr

\* Owners are somebody.
LEMMA Owners == DapSource \in WatchOwner /\ DapConsole \in WatchOwner /\ Local \subseteq WatchOwner
BY DEF WatchOwner

\* What is left of a table when places go.
LEMMA PickedWatches ==
    ASSUME NEW t \in Seq(Watch), NEW at \in SUBSET (DOMAIN t)
    PROVE  /\ Picked(t, at) \in Seq(Watch)
           /\ \A i \in DOMAIN Picked(t, at) : \E j \in at : Picked(t, at)[i] = t[j]
           /\ \A j \in at : \E i \in DOMAIN Picked(t, at) : Picked(t, at)[i] = t[j]
BY PickedOf

\* Stores are stopped by watches, not by their places.
LEMMA CaughtByProfile ==
    ASSUME NEW t \in Seq(Watch), NEW u \in Seq(Watch), NEW o, Profile(o, t) = Profile(o, u)
    PROVE  CaughtFor(o, t) = CaughtFor(o, u)
<1> DEFINE Hits(w, st) == /\ Covers(w, st[1]) /\ BankOK(w, st[2])
                          /\ w.filtered => st[3] \in w.test
<1>1. ASSUME NEW v \in Seq(Watch), NEW st
      PROVE  Stops(Picked(v, {i \in DOMAIN v : o \in v[i].owners}), st[1], st[2], st[3])
               <=> \E w \in Profile(o, v) : Hits(w, st)
  <2> DEFINE at == {i \in DOMAIN v : o \in v[i].owners}
  <2>1. /\ \A i \in DOMAIN Picked(v, at) : \E j \in at : Picked(v, at)[i] = v[j]
        /\ \A j \in at : \E i \in DOMAIN Picked(v, at) : Picked(v, at)[i] = v[j]
    <3>1. at \in SUBSET (DOMAIN v)
      OBVIOUS
    <3> HIDE DEF at
    <3> QED BY <3>1, PickedWatches
  <2>2. Stops(Picked(v, at), st[1], st[2], st[3]) <=> \E j \in at : Hits(v[j], st)
    BY <2>1 DEF Stops
  <2>3. \A j \in at : Hits(v[j], st) <=> Hits(Bare(v[j]), st)
    <3> SUFFICES ASSUME NEW j \in at PROVE Hits(v[j], st) <=> Hits(Bare(v[j]), st)
      OBVIOUS
    <3>1. v[j] \in Watch
      OBVIOUS
    <3> QED BY <3>1 DEF Watch, Covers, BankOK, Bare
  <2>4. Profile(o, v) = {Bare(v[j]) : j \in at}
    BY DEF Profile
  <2>5. Stops(Picked(v, at), st[1], st[2], st[3]) <=> \E w \in Profile(o, v) : Hits(w, st)
    <3> HIDE DEF at, Hits
    <3> QED BY <2>2, <2>3, <2>4
  <2> QED BY <2>5
<1> HIDE DEF Hits
<1> QED BY <1>1 DEF CaughtFor

\* debug_wp_clear_owner takes one owner's name off, and nothing else.
LEMMA Releases ==
    ASSUME NEW t \in Seq(Watch), NEW o
    PROVE  /\ Release(t, o) \in Seq(Watch)
           /\ \A i \in DOMAIN Release(t, o) :
                \E j \in DOMAIN t : Release(t, o)[i] = Off(t[j], o)
           /\ \A j \in DOMAIN t : t[j].owners \ {o} # {} =>
                \E i \in DOMAIN Release(t, o) : Release(t, o)[i] = Off(t[j], o)
<1> DEFINE u == [i \in DOMAIN t |-> Off(t[i], o)]
           at == {i \in DOMAIN u : u[i].owners # {}}
<1>1. u \in Seq(Watch) /\ DOMAIN u = DOMAIN t
  <2>1. ASSUME NEW i \in DOMAIN t PROVE Off(t[i], o) \in Watch
    <3>1. t[i] \in Watch
      OBVIOUS
    <3> QED BY <3>1, OwnersOnly
  <2> QED BY <2>1
<1>2. Release(t, o) = Picked(u, at)
  BY DEF Release, Owned, Off
<1>3. \A j \in DOMAIN t : u[j] = Off(t[j], o) /\ u[j].owners = t[j].owners \ {o}
  <2> SUFFICES ASSUME NEW j \in DOMAIN t PROVE u[j].owners = t[j].owners \ {o}
    OBVIOUS
  <2>1. t[j] \in Watch
    OBVIOUS
  <2> QED BY <2>1, OwnersOnly
<1>4. at = {j \in DOMAIN t : t[j].owners \ {o} # {}}
  BY <1>1, <1>3
<1>5. at \in SUBSET (DOMAIN u)
  OBVIOUS
<1> HIDE DEF u, at
<1>6. /\ Picked(u, at) \in Seq(Watch)
      /\ \A i \in DOMAIN Picked(u, at) : \E j \in at : Picked(u, at)[i] = u[j]
      /\ \A j \in at : \E i \in DOMAIN Picked(u, at) : Picked(u, at)[i] = u[j]
  BY <1>1, <1>5, PickedWatches
<1>7. \A j \in at : j \in DOMAIN t /\ u[j] = Off(t[j], o)
  BY <1>3, <1>4
<1>8. \A i \in DOMAIN Release(t, o) :
        \E j \in DOMAIN t : Release(t, o)[i] = Off(t[j], o)
  BY <1>2, <1>6, <1>7
<1>9. \A j \in DOMAIN t : t[j].owners \ {o} # {} =>
        \E i \in DOMAIN Release(t, o) : Release(t, o)[i] = Off(t[j], o)
  <2> SUFFICES ASSUME NEW j \in DOMAIN t, t[j].owners \ {o} # {}
               PROVE  \E i \in DOMAIN Release(t, o) : Release(t, o)[i] = Off(t[j], o)
    OBVIOUS
  <2>1. j \in at
    BY <1>4
  <2> QED BY <1>2, <1>6, <1>7, <2>1
<1> QED BY <1>2, <1>6, <1>8, <1>9

\* Of others' watches it keeps everything, and the one who releases keeps none.
LEMMA ReleaseKeepsOthers ==
    ASSUME NEW t \in Seq(Watch), NEW o, NEW p
    PROVE  /\ p # o => Profile(p, Release(t, o)) = Profile(p, t)
           /\ Keys(o, Release(t, o)) = {}
<1> DEFINE r == Release(t, o)
<1>1. /\ r \in Seq(Watch)
      /\ \A i \in DOMAIN r : \E j \in DOMAIN t : r[i] = Off(t[j], o)
      /\ \A j \in DOMAIN t : t[j].owners \ {o} # {} =>
           \E i \in DOMAIN r : r[i] = Off(t[j], o)
  BY Releases
<1>2. ASSUME NEW j \in DOMAIN t, NEW w, w = Off(t[j], o)
      PROVE  /\ w.owners = t[j].owners \ {o}
             /\ Bare(w) = Bare(t[j])
  <2>1. t[j] \in Watch
    OBVIOUS
  <2> QED BY <1>2, <2>1, OwnersOnly
<1> HIDE DEF r
<1>3. Keys(o, r) = {}
  BY <1>1, <1>2 DEF Keys
<1>4. ASSUME p # o PROVE Profile(p, r) = Profile(p, t)
  <2>1. ASSUME NEW x \in Profile(p, r) PROVE x \in Profile(p, t)
    <3>1. PICK i \in DOMAIN r : p \in r[i].owners /\ x = Bare(r[i])
      BY DEF Profile
    <3>2. PICK j \in DOMAIN t : r[i] = Off(t[j], o)
      BY <1>1
    <3>3. p \in t[j].owners /\ x = Bare(t[j])
      BY <1>2, <3>1, <3>2
    <3> QED BY <3>3 DEF Profile
  <2>2. ASSUME NEW x \in Profile(p, t) PROVE x \in Profile(p, r)
    <3>1. PICK j \in DOMAIN t : p \in t[j].owners /\ x = Bare(t[j])
      BY DEF Profile
    <3>2. t[j].owners \ {o} # {}
      BY <1>4, <3>1
    <3>3. PICK i \in DOMAIN r : r[i] = Off(t[j], o)
      BY <1>1, <3>2
    <3>4. p \in r[i].owners /\ x = Bare(r[i])
      BY <1>2, <1>4, <3>1, <3>3
    <3> QED BY <3>4 DEF Profile
  <2> QED BY <2>1, <2>2
<1> QED BY <1>3, <1>4 DEF r

\* A new watch.
LEMMA FreshWatch ==
    ASSUME WatchAssumption, NEW k \in Key, NEW n \in Nat, NEW o \in WatchOwner
    PROVE  Fresh(k, n, o) \in Watch
<1>1. FirstTest \in Tests
  BY DEF WatchAssumption
<1>2. Length(n) \in Nat
  BY DEF Length
<1> QED BY <1>1, <1>2, NormalisedKey DEF Fresh, Watch

\* debug_wp_add_for: what the caller watches is the key asked for besides, if the
\* table had room; others' watches stay as they are.
LEMMA Adds ==
    ASSUME WatchAssumption, NEW t \in Seq(Watch), NEW k \in Key, NEW n \in Nat, NEW o \in WatchOwner, NEW p
    PROVE  LET u == Add(t, k, n, o)
           IN  /\ u \in Seq(Watch)
               /\ Len(t) <= Len(u)
               /\ p # o => Profile(p, u) = Profile(p, t)
               /\ Keys(o, t) \subseteq Keys(o, u)
               /\ Keys(o, u) \subseteq Keys(o, t) \cup {Normalised(k)}
               /\ Len(u) < MaxWatchpoints => Normalised(k) \in Keys(o, u)
<1> DEFINE u == Add(t, k, n, o)
<1>0. \A i \in DOMAIN t : t[i] \in Watch
  OBVIOUS
<1>1. CASE Find(t, k) # {}
  <2> DEFINE w(i) == IF i \in Find(t, k) THEN On(t[i], o) ELSE t[i]
  <2>1. u = [i \in DOMAIN t |-> w(i)]
    BY <1>1 DEF Add, On
  <2>2. ASSUME NEW i \in DOMAIN t
        PROVE  /\ w(i) \in Watch /\ w(i).key = t[i].key
               /\ w(i).owners = IF i \in Find(t, k) THEN t[i].owners \cup {o} ELSE t[i].owners
               /\ Bare(w(i)) = Bare(t[i])
    <3>1. t[i] \in Watch
      BY <1>0
    <3> QED BY <3>1, OwnersOnly
  <2>3. u \in Seq(Watch) /\ Len(u) = Len(t) /\ DOMAIN u = DOMAIN t /\ \A i \in DOMAIN t : u[i] = w(i)
    <3> HIDE DEF w, u
    <3>1. DOMAIN t = 1 .. Len(t) /\ Len(t) \in Nat
      OBVIOUS
    <3>2. u \in [1 .. Len(t) -> Watch]
      BY <2>1, <2>2, <3>1
    <3>3. u \in Seq(Watch) /\ Len(u) = Len(t)
      BY <3>1, <3>2
    <3> QED BY <2>1, <3>1, <3>3
  <2>4. \A i \in Find(t, k) : i \in DOMAIN t /\ t[i].key = Normalised(k)
    BY DEF Find
  <2> HIDE DEF w, u
  <2>5. ASSUME p # o PROVE Profile(p, u) = Profile(p, t)
    BY <2>2, <2>3, <2>5 DEF Profile
  <2>6. Keys(o, t) \subseteq Keys(o, u)
    BY <2>2, <2>3 DEF Keys
  <2>7. ASSUME NEW x \in Keys(o, u) PROVE x \in Keys(o, t) \cup {Normalised(k)}
    <3>1. PICK i \in DOMAIN u : o \in u[i].owners /\ x = u[i].key
      BY DEF Keys
    <3>2. i \in DOMAIN t /\ u[i] = w(i) /\ x = t[i].key
      BY <2>2, <2>3, <3>1
    <3>3. CASE i \in Find(t, k)
      BY <2>4, <3>2, <3>3
    <3>4. CASE i \notin Find(t, k)
      <4>1. o \in t[i].owners
        BY <2>2, <3>1, <3>2, <3>4
      <4> QED BY <3>2, <4>1 DEF Keys
    <3> QED BY <3>3, <3>4
  <2>8. Normalised(k) \in Keys(o, u)
    <3>1. PICK i \in Find(t, k) : i \in DOMAIN t /\ t[i].key = Normalised(k)
      BY <1>1, <2>4
    <3>2. i \in DOMAIN u /\ o \in u[i].owners /\ u[i].key = Normalised(k)
      BY <2>2, <2>3, <3>1
    <3> QED BY <3>2 DEF Keys
  <2> QED BY <2>3, <2>5, <2>6, <2>7, <2>8 DEF u
<1>2. CASE Find(t, k) = {} /\ Len(t) < MaxWatchpoints
  <2> DEFINE f == Fresh(k, n, o)
  <2>1. u = Append(t, f)
    BY <1>2 DEF Add
  <2>2. f \in Watch /\ f.key = Normalised(k) /\ f.owners = {o}
    BY FreshWatch DEF Fresh
  <2> HIDE DEF f, u
  <2>3. /\ u \in Seq(Watch) /\ Len(u) = Len(t) + 1
        /\ DOMAIN t = 1 .. Len(t) /\ DOMAIN u = 1 .. Len(t) + 1
        /\ \A i \in 1 .. Len(t) : u[i] = t[i]
        /\ u[Len(t) + 1] = f
    BY <2>1, <2>2
  <2>4. Len(t) \in Nat /\ Len(t) + 1 \in DOMAIN u /\ DOMAIN u = DOMAIN t \cup {Len(t) + 1}
        /\ \A i \in DOMAIN t : u[i] = t[i]
    BY <2>3
  <2>5. ASSUME p # o PROVE Profile(p, u) = Profile(p, t)
    <3>1. {j \in DOMAIN u : p \in u[j].owners} = {j \in DOMAIN t : p \in t[j].owners}
      BY <2>2, <2>3, <2>4, <2>5
    <3> QED BY <2>4, <3>1 DEF Profile
  <2>6. Keys(o, u) = Keys(o, t) \cup {Normalised(k)}
    BY <2>2, <2>3, <2>4 DEF Keys
  <2> QED BY <2>3, <2>4, <2>5, <2>6 DEF u
<1>3. CASE Find(t, k) = {} /\ ~(Len(t) < MaxWatchpoints)
  <2>1. u = t
    BY <1>3 DEF Add
  <2>2. Len(t) \in Nat
    OBVIOUS
  <2> QED BY <1>3, <2>1, <2>2
<1> QED BY <1>1, <1>2, <1>3
\* debug_wp_set_value narrows watches; they stay watches.
LEMMA Filters ==
    ASSUME NEW t \in Seq(Watch), NEW k, NEW test \in Tests
    PROVE  Filter(t, k, test) \in Seq(Watch)
<1> DEFINE w(i) == IF i \in Find(t, k)
                     THEN [t[i] EXCEPT !.filtered = TRUE, !.test = test]
                     ELSE t[i]
<1>1. ASSUME NEW i \in DOMAIN t PROVE w(i) \in Watch
  <2>1. t[i] \in Watch
    OBVIOUS
  <2> QED BY <2>1 DEF Watch
<1>2. Filter(t, k, test) = [i \in DOMAIN t |-> w(i)]
  BY DEF Filter
<1>3. DOMAIN t = 1 .. Len(t) /\ Len(t) \in Nat
  OBVIOUS
<1> HIDE DEF w
<1>4. [i \in DOMAIN t |-> w(i)] \in [1 .. Len(t) -> Watch]
  BY <1>1, <1>3
<1> QED BY <1>2, <1>3, <1>4

\* One entry of a client's list leaves watches; one without a condition watches
\* its address for the client, if there is room, and is nothing to anybody else.
LEMMA Takes ==
    ASSUME WatchAssumption, NEW t \in Seq(Watch), NEW b \in DataBreakpoint
    PROVE  LET u == Take(t, b)
           IN  /\ u \in Seq(Watch)
               /\ b.cond = {} =>
                    /\ Len(t) <= Len(u)
                    /\ \A p : p # DapSource => Profile(p, u) = Profile(p, t)
                    /\ Keys(DapSource, t) \subseteq Keys(DapSource, u)
                    /\ Keys(DapSource, u) \subseteq Keys(DapSource, t) \cup {<<b.addr, ANY>>}
                    /\ Len(u) < MaxWatchpoints => <<b.addr, ANY>> \in Keys(DapSource, u)
<1> DEFINE k == <<b.addr, ANY>>
           v == Add(t, k, 1, DapSource)
<1>1. b.addr \in Addr /\ (b.cond = {} \/ \E test \in Tests : b.cond = {test})
  BY DEF DataBreakpoint
<1>2. k \in Key /\ Normalised(k) = k
  BY <1>1, PlainKey
<1>3. DapSource \in WatchOwner /\ 1 \in Nat
  BY Owners
<1> HIDE DEF k
<1>4. /\ v \in Seq(Watch)
      /\ Len(t) <= Len(v)
      /\ \A p : p # DapSource => Profile(p, v) = Profile(p, t)
      /\ Keys(DapSource, t) \subseteq Keys(DapSource, v)
      /\ Keys(DapSource, v) \subseteq Keys(DapSource, t) \cup {k}
      /\ Len(v) < MaxWatchpoints => k \in Keys(DapSource, v)
  BY <1>2, <1>3, Adds
<1>5. CASE b.cond = {}
  <2>1. Take(t, b) = v
    BY <1>5 DEF Take, k
  <2> HIDE DEF v
  <2> QED BY <1>4, <2>1 DEF k
<1>6. CASE b.cond # {}
  <2>1. PICK test \in Tests : b.cond = {test}
    BY <1>1, <1>6
  <2>2. (CHOOSE x \in b.cond : TRUE) = test
    BY <2>1
  <2>3. Take(t, b) = Filter(v, k, test)
    BY <1>6, <2>2 DEF Take, k
  <2> HIDE DEF v
  <2> QED BY <1>4, <1>6, <2>3, Filters
<1> QED BY <1>5, <1>6

-----------------------------------------------------------------------------
(* A client's whole list.                                                  *)

\* What handle_dap_set_data_breakpoints has made of the table after each entry
\* of the first n.
IsTrail(f, t, list, n) ==
    f = [m \in 0 .. n |-> IF m = 0 THEN Release(t, DapSource) ELSE Take(f[m - 1], list[m])]

\* The trail goes to the end of every list.
LEMMA TrailExists ==
    ASSUME NEW t, NEW list, NEW k \in Nat
    PROVE  \E f : IsTrail(f, t, list, k)
<1> DEFINE Bad == {n \in Nat : ~\E f : IsTrail(f, t, list, n)}
<1> SUFFICES Bad = {}
  OBVIOUS
<1> SUFFICES ASSUME Bad # {} PROVE FALSE
  OBVIOUS
<1>1. PICK n \in Bad : \A m \in Bad : n <= m
  BY LeastOf
<1>2. CASE n = 0
  <2> DEFINE f == [m \in 0 .. 0 |-> Release(t, DapSource)]
  <2>1. f = [m \in 0 .. 0 |-> IF m = 0 THEN Release(t, DapSource) ELSE Take(f[m - 1], list[m])]
    BY \A m \in 0 .. 0 : m = 0
  <2> QED BY <1>1, <1>2, <2>1 DEF IsTrail
<1>3. CASE n # 0
  <2>1. n - 1 \in Nat /\ n - 1 \notin Bad /\ n \in Nat
    BY <1>1, <1>3
  <2>2. PICK f : IsTrail(f, t, list, n - 1)
    BY <2>1
  <2> DEFINE g == [m \in 0 .. n |-> IF m < n THEN f[m] ELSE Take(f[n - 1], list[n])]
             h == [m \in 0 .. n |-> IF m = 0 THEN Release(t, DapSource) ELSE Take(g[m - 1], list[m])]
  <2>3. ASSUME NEW m \in 0 .. n PROVE g[m] = h[m]
    <3>1. CASE m = 0
      <4>1. f[0] = Release(t, DapSource)
        BY <2>1, <2>2 DEF IsTrail
      <4> QED BY <1>3, <2>1, <3>1, <4>1
    <3>2. CASE m # 0 /\ m < n
      <4>1. m \in 0 .. n - 1 /\ m - 1 \in 0 .. n /\ m - 1 < n
        BY <2>1, <3>2
      <4>2. f[m] = Take(f[m - 1], list[m])
        BY <2>2, <3>2, <4>1 DEF IsTrail
      <4>3. g[m - 1] = f[m - 1]
        BY <4>1
      <4> QED BY <3>2, <4>2, <4>3
    <3>3. CASE m # 0 /\ ~(m < n)
      <4>1. m = n /\ n - 1 \in 0 .. n /\ n - 1 < n
        BY <2>1, <3>3
      <4>2. g[n - 1] = f[n - 1]
        BY <4>1
      <4> QED BY <3>3, <4>1, <4>2
    <3> QED BY <3>1, <3>2, <3>3
  <2>4. g = h
    BY <2>3
  <2>5. IsTrail(g, t, list, n)
    BY <2>4 DEF IsTrail
  <2> QED BY <1>1, <2>5
<1> QED BY <1>2, <1>3

\* And its end is what the whole list makes of the table.
LEMMA TrailEnds ==
    ASSUME NEW t, NEW list, Len(list) \in Nat
    PROVE  \E f : /\ IsTrail(f, t, list, Len(list))
                  /\ DataBreakpoints(t, list) = f[Len(list)]
<1> DEFINE f == CHOOSE g : IsTrail(g, t, list, Len(list))
<1>1. IsTrail(f, t, list, Len(list))
  BY TrailExists
<1>2. DataBreakpoints(t, list) = f[Len(list)]
  BY DEF DataBreakpoints, IsTrail
<1> QED BY <1>1, <1>2

\* What holds of the table a client's list starts from, and is kept by each
\* entry, holds at the end: stated of the watches there are, of what others
\* watch, and of what the client does.
LEMMA Trail ==
    ASSUME WatchAssumption, NEW t \in Seq(Watch), NEW list \in Seq(DataBreakpoint),
           NEW f, IsTrail(f, t, list, Len(list)), NEW k \in 0 .. Len(list)
    PROVE  /\ f[k] \in Seq(Watch)
           /\ (\A i \in DOMAIN list : list[i].cond = {}) =>
                /\ \A p : p # DapSource => Profile(p, f[k]) = Profile(p, t)
                /\ Keys(DapSource, f[k]) \subseteq {<<list[i].addr, ANY>> : i \in 1 .. k}
                /\ Len(f[k]) < MaxWatchpoints =>
                     Keys(DapSource, f[k]) = {<<list[i].addr, ANY>> : i \in 1 .. k}
<1> DEFINE Plain == \A i \in DOMAIN list : list[i].cond = {}
           Some(n) == {<<list[i].addr, ANY>> : i \in 1 .. n}
           Fine(n) == /\ f[n] \in Seq(Watch)
                      /\ Plain =>
                           /\ \A p : p # DapSource => Profile(p, f[n]) = Profile(p, t)
                           /\ Keys(DapSource, f[n]) \subseteq Some(n)
                           /\ Len(f[n]) < MaxWatchpoints => Keys(DapSource, f[n]) = Some(n)
           Bad == {n \in 0 .. Len(list) : ~Fine(n)}
<1>0. Len(list) \in Nat /\ DOMAIN list = 1 .. Len(list)
  OBVIOUS
<1>1. Fine(0)
  <2>1. f[0] = Release(t, DapSource)
    BY <1>0 DEF IsTrail
  <2>2. f[0] \in Seq(Watch) /\ Keys(DapSource, f[0]) = {}
        /\ \A p : p # DapSource => Profile(p, f[0]) = Profile(p, t)
    <3>1. Release(t, DapSource) \in Seq(Watch)
      BY Releases
    <3>2. /\ Keys(DapSource, Release(t, DapSource)) = {}
          /\ \A p : p # DapSource => Profile(p, Release(t, DapSource)) = Profile(p, t)
      BY ReleaseKeepsOthers
    <3> QED BY <2>1, <3>1, <3>2
  <2>3. Some(0) = {}
    OBVIOUS
  <2> HIDE DEF Plain, Some
  <2> QED BY <2>2, <2>3
<1>2. ASSUME NEW n \in 1 .. Len(list), Fine(n - 1) PROVE Fine(n)
  <2>1. f[n] = Take(f[n - 1], list[n]) /\ list[n] \in DataBreakpoint /\ n \in DOMAIN list
    <3>1. n \in 0 .. Len(list) /\ n # 0
      BY <1>0
    <3>2. f[n] = Take(f[n - 1], list[n])
      BY <3>1 DEF IsTrail
    <3> QED BY <1>0, <3>2
  <2>2. f[n - 1] \in Seq(Watch)
    BY <1>2
  <2>3. Some(n) = Some(n - 1) \cup {<<list[n].addr, ANY>>}
    <3>1. 1 .. n = (1 .. n - 1) \cup {n}
      BY <1>0
    <3> QED BY <3>1
  <2>4. Plain => list[n].cond = {}
    BY <2>1
  <2> DEFINE old == f[n - 1]
             new == f[n]
             here == <<list[n].addr, ANY>>
  <2>5. /\ new \in Seq(Watch)
        /\ Plain =>
             /\ Len(old) <= Len(new)
             /\ \A p : p # DapSource => Profile(p, new) = Profile(p, old)
             /\ Keys(DapSource, old) \subseteq Keys(DapSource, new)
             /\ Keys(DapSource, new) \subseteq Keys(DapSource, old) \cup {here}
             /\ Len(new) < MaxWatchpoints => here \in Keys(DapSource, new)
    <3> DEFINE b == list[n]
    <3>1. old \in Seq(Watch) /\ b \in DataBreakpoint /\ new = Take(old, b) /\ (Plain => b.cond = {})
      BY <2>1, <2>2, <2>4
    <3>2. here = <<b.addr, ANY>>
      OBVIOUS
    <3> HIDE DEF Plain, old, new, b, here
    <3> QED BY <3>1, <3>2, Takes
  <2>6. /\ Plain =>
             /\ \A p : p # DapSource => Profile(p, old) = Profile(p, t)
             /\ Keys(DapSource, old) \subseteq Some(n - 1)
             /\ Len(old) < MaxWatchpoints => Keys(DapSource, old) = Some(n - 1)
    <3> HIDE DEF Plain, Some
    <3> QED BY <1>2
  <2>7. Len(old) \in Nat /\ Len(new) \in Nat /\ MaxWatchpoints \in Nat
    BY <2>2, <2>5 DEF WatchAssumption
  <2> HIDE DEF old, new, here, Plain, Some
  <2>8. Len(new) < MaxWatchpoints /\ Len(old) <= Len(new) => Len(old) < MaxWatchpoints
    BY <2>7
  <2>9. Some(n) = Some(n - 1) \cup {here}
    BY <2>3 DEF here
  <2>10. /\ new \in Seq(Watch)
         /\ Plain =>
              /\ \A p : p # DapSource => Profile(p, new) = Profile(p, t)
              /\ Keys(DapSource, new) \subseteq Some(n)
              /\ Len(new) < MaxWatchpoints => Keys(DapSource, new) = Some(n)
    BY <2>5, <2>6, <2>8, <2>9
  <2> QED BY <2>10 DEF new
<1> HIDE DEF Fine
<1>3. Bad = {}
  <2> SUFFICES ASSUME Bad # {} PROVE FALSE
    OBVIOUS
  <2>1. Bad \in SUBSET Nat
    BY <1>0
  <2>2. PICK n \in Bad : \A m \in Bad : n <= m
    BY <2>1, LeastOf
  <2>3. n # 0 /\ n \in 0 .. Len(list) /\ ~Fine(n)
    BY <1>1, <2>2
  <2>4. n \in 1 .. Len(list) /\ n - 1 \in 0 .. Len(list) /\ n - 1 \notin Bad
    BY <1>0, <2>2, <2>3
  <2>5. Fine(n - 1)
    BY <2>4
  <2> QED BY <1>2, <2>3, <2>4, <2>5
<1>4. Fine(k)
  BY <1>3
<1> QED BY <1>4 DEF Fine

\* What a list without conditions makes of the table.
LEMMA PlainListSets ==
    ASSUME WatchAssumption, NEW t \in Seq(Watch), NEW list \in PlainLists
    PROVE  LET u == DataBreakpoints(t, list)
           IN  /\ \A p : p # DapSource => Profile(p, u) = Profile(p, t)
               /\ Keys(DapSource, u) \subseteq Asked(list)
               /\ Len(u) < MaxWatchpoints => Keys(DapSource, u) = Asked(list)
<1>1. list \in Seq(DataBreakpoint) /\ \A i \in DOMAIN list : list[i].cond = {}
  <2>1. PICK n \in 0 .. 2 : list \in [1 .. n -> [addr : Addr, cond : {{}}]]
    BY DEF PlainLists, ListsOf
  <2>2. \A b \in [addr : Addr, cond : {{}}] : b \in DataBreakpoint /\ b.cond = {}
    BY DEF DataBreakpoint
  <2>3. \A i \in 1 .. n : list[i] \in DataBreakpoint /\ list[i].cond = {}
    BY <2>1, <2>2
  <2> QED BY <2>1, <2>3
<1>2. Len(list) \in Nat /\ DOMAIN list = 1 .. Len(list)
  BY <1>1
<1>3. PICK f : /\ IsTrail(f, t, list, Len(list))
               /\ DataBreakpoints(t, list) = f[Len(list)]
  BY <1>2, TrailEnds
<1>4. Len(list) \in 0 .. Len(list)
  BY <1>2
<1> HIDE DEF IsTrail
<1> DEFINE u == f[Len(list)]
<1>5. /\ \A p : p # DapSource => Profile(p, u) = Profile(p, t)
      /\ Keys(DapSource, u) \subseteq {<<list[i].addr, ANY>> : i \in 1 .. Len(list)}
      /\ Len(u) < MaxWatchpoints =>
           Keys(DapSource, u) = {<<list[i].addr, ANY>> : i \in 1 .. Len(list)}
  BY <1>1, <1>3, <1>4, Trail
<1>6. Asked(list) = {<<list[i].addr, ANY>> : i \in 1 .. Len(list)}
  BY <1>2 DEF Asked
<1> QED BY <1>3, <1>5, <1>6

\* Lists without conditions are lists.
LEMMA PlainIsList == \A list \in PlainLists : list \in Lists
<1> SUFFICES ASSUME NEW list \in PlainLists PROVE list \in Lists
  OBVIOUS
<1>1. PICK n \in 0 .. 2 : list \in [1 .. n -> [addr : Addr, cond : {{}}]]
  BY DEF PlainLists, ListsOf
<1>2. [addr : Addr, cond : {{}}] \subseteq DataBreakpoint
  BY DEF DataBreakpoint
<1>3. list \in [1 .. n -> DataBreakpoint]
  BY <1>1, <1>2
<1> QED BY <1>3 DEF Lists, ListsOf

\* Every list leaves watches.
LEMMA ListSets ==
    ASSUME WatchAssumption, NEW t \in Seq(Watch), NEW list \in Lists
    PROVE  DataBreakpoints(t, list) \in Seq(Watch)
<1>1. list \in Seq(DataBreakpoint)
  <2>1. PICK n \in 0 .. 2 : list \in [1 .. n -> DataBreakpoint]
    BY DEF Lists, ListsOf
  <2> QED BY <2>1
<1>2. Len(list) \in Nat
  BY <1>1
<1>3. PICK f : /\ IsTrail(f, t, list, Len(list))
               /\ DataBreakpoints(t, list) = f[Len(list)]
  BY <1>2, TrailEnds
<1>4. Len(list) \in 0 .. Len(list)
  BY <1>2
<1> QED BY <1>1, <1>3, <1>4, Trail

-----------------------------------------------------------------------------
(* Every step.                                                             *)

\* Nothing in the table is p's.
NoneOf(p, t) == \A i \in DOMAIN t : p \notin t[i].owners

\* Which is to say that p watches nothing.
LEMMA NoneIsNoProfile ==
    ASSUME NEW t, NEW p
    PROVE  NoneOf(p, t) <=> Profile(p, t) = {}
BY DEF NoneOf, Profile

\* A session that goes takes its two owners' names off, and leaves everybody
\* else's watches as they are.
LEMMA Forsakes ==
    ASSUME NEW t \in Seq(Watch)
    PROVE  /\ Forsaken(t) \in Seq(Watch)
           /\ \A p : p # DapSource /\ p # DapConsole => Profile(p, Forsaken(t)) = Profile(p, t)
           /\ NoneOf(DapSource, Forsaken(t)) /\ NoneOf(DapConsole, Forsaken(t))
<1> DEFINE u == Release(t, DapSource)
           v == Release(u, DapConsole)
<1>1. u \in Seq(Watch) /\ v \in Seq(Watch)
  <2>1. u \in Seq(Watch)
    BY Releases
  <2> HIDE DEF u
  <2> QED BY <2>1, Releases
<1>2. \A p : p # DapSource => Profile(p, u) = Profile(p, t)
  BY ReleaseKeepsOthers
<1>3. \A p : p # DapConsole => Profile(p, v) = Profile(p, u)
  <2> HIDE DEF u
  <2> QED BY <1>1, ReleaseKeepsOthers
<1>4. \A o : \A w \in Seq(Watch) : NoneOf(o, Release(w, o))
  <2> SUFFICES ASSUME NEW o, NEW w \in Seq(Watch) PROVE NoneOf(o, Release(w, o))
    OBVIOUS
  <2>1. Keys(o, Release(w, o)) = {}
    BY ReleaseKeepsOthers
  <2> QED BY <2>1 DEF Keys, NoneOf
<1>5. NoneOf(DapSource, u) /\ NoneOf(DapConsole, v)
  <2>1. NoneOf(DapSource, u)
    BY <1>4
  <2>2. NoneOf(DapConsole, v)
    <3> HIDE DEF u
    <3> QED BY <1>1, <1>4
  <2> QED BY <2>1, <2>2
<1>6. NoneOf(DapSource, v)
  <2>1. CASE DapSource = DapConsole
    BY <1>5, <2>1
  <2>2. CASE DapSource # DapConsole
    <3> HIDE DEF u, v
    <3> QED BY <1>3, <1>5, <2>2, NoneIsNoProfile
  <2> QED BY <2>1, <2>2
<1>7. Forsaken(t) = v
  BY DEF Forsaken
<1> HIDE DEF u, v
<1> QED BY <1>1, <1>2, <1>3, <1>5, <1>6, <1>7

\* An entry that goes gives nobody a watch.
LEMMA Deletes ==
    ASSUME NEW t \in Seq(Watch), NEW k, NEW p
    PROVE  /\ Without(t, k) \in Seq(Watch)
           /\ NoneOf(p, t) => NoneOf(p, Without(t, k))
<1> DEFINE at == DOMAIN t \ Find(t, k)
<1>1. at \in SUBSET (DOMAIN t)
  OBVIOUS
<1>2. Without(t, k) = Picked(t, at)
  BY DEF Without
<1> HIDE DEF at
<1> QED BY <1>1, <1>2, PickedWatches DEF NoneOf

\* Nor does an edit.
LEMMA Edits ==
    ASSUME NEW t \in Seq(Watch), NEW k, NEW on \in BOOLEAN, NEW test \in Tests, NEW u,
           u \in {Activate(t, k, on), Filter(t, k, test), Unfilter(t, k)}
    PROVE  /\ u \in Seq(Watch)
           /\ \A p : NoneOf(p, t) => NoneOf(p, u)
<1>1. DOMAIN t = 1 .. Len(t) /\ Len(t) \in Nat /\ \A i \in DOMAIN t : t[i] \in Watch
  OBVIOUS
<1>2. DOMAIN u = DOMAIN t /\ u = [i \in DOMAIN t |-> u[i]]
  BY DEF Activate, Filter, Unfilter
<1>3. ASSUME NEW i \in DOMAIN t
      PROVE  u[i] \in Watch /\ u[i].owners = t[i].owners
  <2>1. t[i] \in Watch
    BY <1>1
  <2>2. CASE u = Activate(t, k, on)
    <3>1. u[i] = [t[i] EXCEPT !.active = IF i \in Find(t, k) THEN on ELSE t[i].active]
      BY <2>2 DEF Activate
    <3> QED BY <2>1, <3>1 DEF Watch
  <2>3. CASE u = Filter(t, k, test)
    <3>1. u[i] = IF i \in Find(t, k)
                   THEN [t[i] EXCEPT !.filtered = TRUE, !.test = test]
                   ELSE t[i]
      BY <2>3 DEF Filter
    <3> QED BY <2>1, <3>1 DEF Watch
  <2>4. CASE u = Unfilter(t, k)
    <3>1. u[i] = [t[i] EXCEPT !.filtered = t[i].filtered /\ i \notin Find(t, k)]
      BY <2>4 DEF Unfilter
    <3>2. (t[i].filtered /\ i \notin Find(t, k)) \in BOOLEAN
      BY <2>1 DEF Watch
    <3> QED BY <2>1, <3>1, <3>2 DEF Watch
  <2> QED BY <2>2, <2>3, <2>4
<1>4. u \in [1 .. Len(t) -> Watch]
  BY <1>1, <1>2, <1>3
<1>5. u \in Seq(Watch)
  BY <1>1, <1>4
<1> QED BY <1>2, <1>3, <1>5 DEF NoneOf

\* The table holds watches, and none is a client's while there is no client.
WatchInv ==
    /\ watches \in Seq(Watch)
    /\ session \in BOOLEAN
    /\ ~session => NoneOf(DapSource, watches) /\ NoneOf(DapConsole, watches)

\* To begin with.
LEMMA WatchStart == Init => WatchInv
<1> SUFFICES ASSUME Init PROVE WatchInv
  OBVIOUS
<1>1. watches = <<>> /\ session = FALSE
  BY DEF Init
<1>2. DOMAIN watches = {} /\ watches \in Seq(Watch)
  BY <1>1
<1> QED BY <1>1, <1>2 DEF WatchInv, NoneOf

\* And after every step.
LEMMA WatchStep ==
    WatchAssumption /\ WatchInv /\ [Next]_watchVars => WatchInv'
<1> SUFFICES ASSUME WatchAssumption, WatchInv, [Next]_watchVars PROVE WatchInv'
  OBVIOUS
<1>0. watches \in Seq(Watch) /\ session \in BOOLEAN
  BY DEF WatchInv
<1>1. CASE Connect
  BY <1>0, <1>1 DEF Connect, WatchInv
<1>2. CASE Leave
  <2>1. watches' = Forsaken(watches) /\ session' = FALSE
    BY <1>2 DEF Leave
  <2> QED BY <1>0, <2>1, Forsakes DEF WatchInv
<1>3. ASSUME NEW list \in Lists, SetDataBreakpoints(list) PROVE WatchInv'
  <2>1. session = TRUE /\ session' = TRUE /\ watches' = DataBreakpoints(watches, list)
    BY <1>0, <1>3 DEF SetDataBreakpoints
  <2> QED BY <1>0, <2>1, ListSets DEF WatchInv
<1>4. ASSUME NEW a \in Addr, NEW n \in 1 .. MaxLen, ConsoleAdd(a, n) PROVE WatchInv'
  <2>1. session = TRUE /\ session' = TRUE /\ watches' = Add(watches, <<a, ANY>>, n, DapConsole)
    BY <1>0, <1>4 DEF ConsoleAdd
  <2>2. <<a, ANY>> \in Key /\ n \in Nat /\ DapConsole \in WatchOwner
    BY PlainKey, Owners DEF WatchAssumption
  <2> QED BY <1>0, <2>1, <2>2, Adds DEF WatchInv
<1>5. CASE ConsoleClear
  <2>1. session' = TRUE /\ watches' = <<>>
    BY <1>0, <1>5 DEF ConsoleClear
  <2>2. watches' \in Seq(Watch)
    BY <2>1
  <2> QED BY <2>1, <2>2 DEF WatchInv
<1>6. ASSUME NEW k \in Key, Delete(k) PROVE WatchInv'
  <2>1. session' = session /\ watches' = Without(watches, k)
    BY <1>6 DEF Delete
  <2> QED BY <1>0, <2>1, Deletes DEF WatchInv
<1>7. ASSUME NEW k \in Key, NEW n \in 0 .. MaxLen, NEW o \in Local, LocalAdd(k, n, o)
      PROVE  WatchInv'
  <2>1. session' = session /\ watches' = Add(watches, k, n, o)
    BY <1>7 DEF LocalAdd
  <2>2. n \in Nat /\ o \in WatchOwner /\ o # DapSource /\ o # DapConsole
    BY Owners DEF WatchAssumption
  <2>3. watches' \in Seq(Watch)
    BY <1>0, <2>1, <2>2, Adds
  <2>4. ASSUME NEW p, p # o, NoneOf(p, watches) PROVE NoneOf(p, watches')
    <3>1. Profile(p, watches') = Profile(p, watches)
      BY <1>0, <2>1, <2>2, <2>4, Adds
    <3> QED BY <2>4, <3>1, NoneIsNoProfile
  <2> QED BY <2>1, <2>2, <2>3, <2>4 DEF WatchInv
<1>8. ASSUME NEW i \in DOMAIN watches, Edit(i) PROVE WatchInv'
  <2>1. PICK on \in BOOLEAN, test \in Tests :
          watches' \in {Activate(watches, watches[i].key, on),
                        Filter(watches, watches[i].key, test),
                        Unfilter(watches, watches[i].key)}
    BY <1>8 DEF Edit, WatchAssumption
  <2>2. session' = session
    BY <1>8 DEF Edit
  <2> QED BY <1>0, <2>1, <2>2, Edits DEF WatchInv
<1>9. CASE UNCHANGED watchVars
  BY <1>0, <1>9 DEF watchVars, WatchInv, NoneOf
<1> QED BY <1>1, <1>2, <1>3, <1>4, <1>5, <1>6, <1>7, <1>8, <1>9 DEF Next

\* A client that leaves, or restates its data breakpoints without conditions,
\* changes nothing about the stores that anybody else's watches stop.
THEOREM WatchersKeepTheirs == ASSUME WatchAssumption PROVE Spec => OthersUntouched
<1>1. ASSUME WatchInv, NEW o \in WatchOwner \ {DapSource},
             \/ Leave /\ o \in Local
             \/ \E list \in PlainLists : SetDataBreakpoints(list)
      PROVE  CaughtFor(o, watches') = CaughtFor(o, watches)
  <2>0. watches \in Seq(Watch)
    BY <1>1 DEF WatchInv
  <2>1. CASE Leave /\ o \in Local
    <3>1. watches' = Forsaken(watches) /\ o # DapSource /\ o # DapConsole
      BY <2>1 DEF Leave, WatchAssumption
    <3>2. watches' \in Seq(Watch) /\ Profile(o, watches') = Profile(o, watches)
      BY <2>0, <3>1, Forsakes
    <3> QED BY <2>0, <3>2, CaughtByProfile
  <2>2. CASE \E list \in PlainLists : SetDataBreakpoints(list)
    <3>1. PICK list \in PlainLists : watches' = DataBreakpoints(watches, list)
      BY <2>2 DEF SetDataBreakpoints
    <3>2. watches' \in Seq(Watch) /\ Profile(o, watches') = Profile(o, watches)
      <4>1. list \in Lists
        BY PlainIsList
      <4> QED BY <2>0, <3>1, <4>1, ListSets, PlainListSets
    <3> QED BY <2>0, <3>2, CaughtByProfile
  <2> QED BY <1>1, <2>1, <2>2
<1>2. WatchInv =>
        [\A o \in WatchOwner \ {DapSource} :
           (\/ Leave /\ o \in Local
            \/ \E list \in PlainLists : SetDataBreakpoints(list))
           => CaughtFor(o, watches') = CaughtFor(o, watches)]_watchVars
  BY <1>1
<1>3. WatchInv /\ [Next]_watchVars => WatchInv'
  BY WatchStep
<1> QED BY <1>2, <1>3, WatchStart, PTL DEF Spec, OthersUntouched

\* A client's watches are those it last asked for and no others, unless the
\* table is full, and a client that has gone leaves none.
THEOREM ClientsWatchWhatTheyAsked == ASSUME WatchAssumption PROVE Spec => WatchesAsAsked
<1>1. ASSUME WatchInv, NEW list \in PlainLists, SetDataBreakpoints(list)
      PROVE  /\ DapWatches(watches') \subseteq Asked(list)
             /\ Len(watches') < MaxWatchpoints => DapWatches(watches') = Asked(list)
  <2>1. watches \in Seq(Watch) /\ watches' = DataBreakpoints(watches, list)
    BY <1>1 DEF WatchInv, SetDataBreakpoints
  <2>2. DapWatches(watches') = Keys(DapSource, watches')
    BY DEF DapWatches, Keys
  <2> QED BY <2>1, <2>2, PlainListSets
<1>2. ASSUME WatchInv', ~session', NEW i \in DOMAIN watches'
      PROVE  watches'[i].owners \subseteq Local
  <2>1. watches' \in Seq(Watch) /\ DapSource \notin watches'[i].owners /\ DapConsole \notin watches'[i].owners
    BY <1>2 DEF WatchInv, NoneOf
  <2>2. watches'[i] \in Watch
    BY <1>2, <2>1
  <2> QED BY <2>1, <2>2 DEF Watch, WatchOwner
<1>3. WatchInv /\ WatchInv' =>
        [/\ \A list \in PlainLists :
              SetDataBreakpoints(list) =>
                /\ DapWatches(watches') \subseteq Asked(list)
                /\ Len(watches') < MaxWatchpoints => DapWatches(watches') = Asked(list)
         /\ ~session' => \A i \in DOMAIN watches' : watches'[i].owners \subseteq Local]_watchVars
  BY <1>1, <1>2
<1>4. WatchInv /\ [Next]_watchVars => WatchInv'
  BY WatchStep
<1> QED BY <1>3, <1>4, WatchStart, PTL DEF Spec, WatchesAsAsked

============================================================================
