------------------------- MODULE DapBreakpointsProofs -------------------------
(***************************************************************************)
(* Proofs about DapBreakpoints for every set of files, lines, functions,   *)
(* addresses, banks, conditions and debug infos, and any number of claims  *)
(* and requests.                                                           *)
(*                                                                         *)
(* Every handler is an operator on the session's state.  A lemma "...Is"   *)
(* says what one does to each field of it; a lemma "...Keeps" that it      *)
(* keeps the list, the claims and the records in step (Keeping); a lemma   *)
(* "...Quiet" that it leaves dumps alone.  ShapeStep, ListStep and         *)
(* DumpStep put them together, one case per action.                        *)
(***************************************************************************)
EXTENDS DapBreakpoints, SublistProofs

Fields == {"claims", "gone", "recs", "over", "bps", "funcs", "seg"}

Entry ==
    [site : Site, pin : Selector, cond : Cond \cup {None}, key : Key,
     verified : BOOLEAN, shown : BOOLEAN]

Record == [cond : Cond \cup {None}, dump : BOOLEAN]

\* The lists: one entry for a site, and none shown that is not verified.
Listing(bps) ==
    /\ bps \in Seq(Entry)
    /\ \A i \in DOMAIN bps : bps[i].shown => bps[i].verified
    /\ \A i, j \in DOMAIN bps : bps[i].site = bps[j].site => i = j

Called(funcs) == DOMAIN funcs \subseteq Name /\ \A n \in DOMAIN funcs : funcs[n] \in Key

Shape(s) ==
    /\ DOMAIN s = Fields
    /\ s.claims \subseteq Owner \X Key
    /\ s.gone \subseteq (Owner \X Key) \ s.claims
    /\ s.recs \in [Key -> Record]
    /\ s.over \subseteq Key
    /\ Listing(s.bps)
    /\ Called(s.funcs)
    /\ s.seg \in Selector

Places == [Place -> Addr \cup {None}]

-----------------------------------------------------------------------------
(* The core table's calls.                                                 *)

\* A normalised key is a key, and normalising it again changes nothing.
LEMMA NormalIn ==
    ASSUME NEW a \in Addr, NEW b \in Selector
    PROVE  /\ Normal(a, b) \in Key /\ Normal(a, b)[1] = a
           /\ Normal(a, Normal(a, b)[2]) = Normal(a, b)
BY DapAssumption DEF Normal, Key, Selector

\* Claims made for an owner.
LEMMA AddForIs ==
    ASSUME NEW s, Shape(s), NEW o \in Owner, NEW ks \in SUBSET Key
    PROVE  LET r == AddFor(s, o, ks)
           IN  /\ Shape(r)
               /\ r.claims = s.claims \cup ({o} \X ks) /\ r.gone = s.gone \ ({o} \X ks)
               /\ r.recs = s.recs /\ r.over = s.over /\ r.bps = s.bps /\ r.funcs = s.funcs
               /\ r.seg = s.seg
<1> DEFINE r == AddFor(s, o, ks)
<1>1. /\ DOMAIN r = Fields
      /\ r.claims = s.claims \cup ({o} \X ks) /\ r.gone = s.gone \ ({o} \X ks)
      /\ r.recs = s.recs /\ r.over = s.over /\ r.bps = s.bps /\ r.funcs = s.funcs
      /\ r.seg = s.seg
  BY DEF AddFor, Shape, Fields
<1> HIDE DEF r
<1>2. r.claims \subseteq Owner \X Key /\ r.gone \subseteq (Owner \X Key) \ r.claims
  BY <1>1 DEF Shape
<1> QED
  BY <1>1, <1>2 DEF Shape, r

\* Claims an owner lets go of.
LEMMA RemoveForIs ==
    ASSUME NEW s, Shape(s), NEW o \in Owner, NEW ks
    PROVE  LET r == RemoveFor(s, o, ks)
           IN  /\ Shape(r)
               /\ r.claims = s.claims \ ({o} \X ks) /\ r.gone = s.gone
               /\ r.recs = s.recs /\ r.over = s.over /\ r.bps = s.bps /\ r.funcs = s.funcs
               /\ r.seg = s.seg
<1> DEFINE r == RemoveFor(s, o, ks)
<1>1. /\ DOMAIN r = Fields
      /\ r.claims = s.claims \ ({o} \X ks) /\ r.gone = s.gone
      /\ r.recs = s.recs /\ r.over = s.over /\ r.bps = s.bps /\ r.funcs = s.funcs
      /\ r.seg = s.seg
  BY DEF RemoveFor, Shape, Fields
<1> HIDE DEF r
<1>2. r.claims \subseteq Owner \X Key /\ r.gone \subseteq (Owner \X Key) \ r.claims
  BY <1>1 DEF Shape
<1> QED
  BY <1>1, <1>2 DEF Shape, r

\* Nothing but an owner's claims goes when all of them do.
LEMMA ClearOwnerIs ==
    ASSUME NEW s, Shape(s), NEW o \in Owner
    PROVE  LET r == ClearOwner(s, o)
           IN  /\ Shape(r)
               /\ \A x : x \in r.claims <=> x \in s.claims /\ x[1] # o
               /\ r.gone = s.gone
               /\ r.recs = s.recs /\ r.over = s.over /\ r.bps = s.bps /\ r.funcs = s.funcs
               /\ r.seg = s.seg
<1>1. RemoveFor(s, o, HeldBy(s, o)).claims = s.claims \ ({o} \X HeldBy(s, o))
  BY RemoveForIs
<1>2. \A x : x \in s.claims \ ({o} \X HeldBy(s, o)) <=> x \in s.claims /\ x[1] # o
  BY DEF HeldBy, Shape
<1> QED
  BY <1>1, <1>2, RemoveForIs DEF ClearOwner

\* Where a record is forgotten it is an empty one.
LEMMA ForgetIs ==
    ASSUME NEW s, Shape(s), NEW ks
    PROVE  LET r == ForgetUnclaimed(s, ks)
           IN  /\ Shape(r)
               /\ r.claims = s.claims /\ r.gone = s.gone
               /\ r.recs = [k \in Key |-> IF k \in ks \ Claimed(s) THEN NoRecord ELSE s.recs[k]]
               /\ r.over = s.over /\ r.bps = s.bps /\ r.funcs = s.funcs /\ r.seg = s.seg
<1> DEFINE r == ForgetUnclaimed(s, ks)
<1>1. /\ DOMAIN r = Fields
      /\ r.claims = s.claims /\ r.gone = s.gone
      /\ r.recs = [k \in Key |-> IF k \in ks \ Claimed(s) THEN NoRecord ELSE s.recs[k]]
      /\ r.over = s.over /\ r.bps = s.bps /\ r.funcs = s.funcs /\ r.seg = s.seg
  BY DEF ForgetUnclaimed, Shape, Fields
<1> HIDE DEF r
<1>2. r.recs \in [Key -> Record]
  BY <1>1 DEF Shape, NoRecord, Record
<1> QED
  BY <1>1, <1>2 DEF Shape, r

\* Dumps closed at some keys.
LEMMA ClearDumpsIs ==
    ASSUME NEW s, Shape(s), NEW ks
    PROVE  LET r == ClearDumps(s, ks)
           IN  /\ Shape(r)
               /\ r.claims = s.claims /\ r.gone = s.gone
               /\ \A k \in Key : /\ r.recs[k].cond = s.recs[k].cond
                                 /\ r.recs[k].dump <=> s.recs[k].dump /\ k \notin ks
               /\ r.over = s.over /\ r.bps = s.bps /\ r.funcs = s.funcs /\ r.seg = s.seg
<1> DEFINE r == ClearDumps(s, ks)
<1>1. /\ DOMAIN r = Fields
      /\ r.claims = s.claims /\ r.gone = s.gone
      /\ r.recs = [k \in Key |-> IF k \in ks THEN [s.recs[k] EXCEPT !.dump = FALSE] ELSE s.recs[k]]
      /\ r.over = s.over /\ r.bps = s.bps /\ r.funcs = s.funcs /\ r.seg = s.seg
  BY DEF ClearDumps, Shape, Fields
<1> HIDE DEF r
<1>2. \A k \in Key : s.recs[k] \in Record
  BY DEF Shape
<1>3. \A k \in Key : /\ r.recs[k] \in Record
                     /\ r.recs[k].cond = s.recs[k].cond
                     /\ r.recs[k].dump <=> s.recs[k].dump /\ k \notin ks
  <2> TAKE k \in Key
  <2>1. CASE k \in ks
    BY <1>1, <1>2, <2>1 DEF Record
  <2>2. CASE k \notin ks
    BY <1>1, <1>2, <2>2
  <2> QED
    BY <2>1, <2>2
<1>4. r.recs \in [Key -> Record]
  BY <1>1, <1>3
<1> QED
  BY <1>1, <1>3, <1>4 DEF Shape, r

-----------------------------------------------------------------------------
(* Source breakpoints.                                                     *)

\* The key of an entry located at an address.
LEMMA KeyForIn ==
    ASSUME NEW s, Shape(s), NEW e \in Entry, NEW a \in Addr
    PROVE  /\ KeyFor(s, e, a) \in Key /\ KeyFor(s, e, a)[1] = a
           /\ Normal(a, KeyFor(s, e, a)[2]) = KeyFor(s, e, a)
<1>1. s.seg \in Selector /\ e.pin \in Selector
  BY DEF Shape, Entry
<1>2. (IF e.pin = ANY THEN s.seg ELSE e.pin) \in Selector
  BY <1>1
<1> QED
  BY <1>2, NormalIn DEF KeyFor

\* Of several places in a list the greatest is one of them.
LEMMA MaxOf ==
    ASSUME NEW n \in Nat, NEW S \in SUBSET (1 .. n), S # {}
    PROVE  Max(S) \in S
BY GreatestOf DEF Max

\* The places to look for, with addresses to be found.
Known(s, is, where) ==
    /\ is \subseteq DOMAIN s.bps
    /\ where \in Places
    /\ \A i \in is : where[s.bps[i].site] \in Addr

KeyNow(s, i, where) == KeyFor(s, s.bps[i], where[s.bps[i].site])

\* Locating some entries of the list changes those and nothing else.
LEMMA LocatedIs ==
    ASSUME NEW s, Shape(s), NEW is, NEW where, Known(s, is, where)
    PROVE  LET r == Located(s, is, where)
           IN  /\ Shape(r)
               /\ r.claims = s.claims /\ r.gone = s.gone /\ r.recs = s.recs /\ r.over = s.over
               /\ r.funcs = s.funcs /\ r.seg = s.seg
               /\ DOMAIN r.bps = DOMAIN s.bps
               /\ \A i \in DOMAIN s.bps :
                    /\ r.bps[i].site = s.bps[i].site /\ r.bps[i].pin = s.bps[i].pin
                    /\ r.bps[i].cond = s.bps[i].cond
               /\ \A i \in is : /\ r.bps[i].key = KeyNow(s, i, where)
                                /\ r.bps[i].verified /\ r.bps[i].shown
               /\ \A i \in DOMAIN s.bps \ is : r.bps[i] = s.bps[i]
<1> DEFINE r == Located(s, is, where)
           new(i) == [s.bps[i] EXCEPT !.key = KeyNow(s, i, where), !.verified = TRUE, !.shown = TRUE]
<1>1. /\ DOMAIN r = Fields
      /\ r.claims = s.claims /\ r.gone = s.gone /\ r.recs = s.recs /\ r.over = s.over
      /\ r.funcs = s.funcs /\ r.seg = s.seg
      /\ r.bps = [i \in DOMAIN s.bps |-> IF i \in is THEN new(i) ELSE s.bps[i]]
  BY DEF Located, Shape, Fields, KeyNow
<1> HIDE DEF r
<1>2. \A i \in DOMAIN s.bps : s.bps[i] \in Entry
  BY DEF Shape, Listing
<1>3. \A i \in is : KeyNow(s, i, where) \in Key
  BY <1>2, KeyForIn DEF KeyNow, Known
<1>4. \A i \in is : /\ new(i) \in Entry
                    /\ new(i).site = s.bps[i].site /\ new(i).pin = s.bps[i].pin
                    /\ new(i).cond = s.bps[i].cond
                    /\ new(i).key = KeyNow(s, i, where) /\ new(i).verified /\ new(i).shown
  <2> TAKE i \in is
  <2> DEFINE k == KeyNow(s, i, where)
             e == s.bps[i]
  <2>1. k \in Key /\ e \in Entry
    BY <1>2, <1>3 DEF Known
  <2> HIDE DEF k, e
  <2>2. [e EXCEPT !.key = k, !.verified = TRUE, !.shown = TRUE] \in Entry
    BY <2>1 DEF Entry
  <2> QED
    BY <2>1, <2>2 DEF Entry, k, e
<1> HIDE DEF new
<1>5. Len(s.bps) \in Nat /\ DOMAIN s.bps = 1 .. Len(s.bps)
  BY DEF Shape, Listing
<1>6. r.bps \in Seq(Entry) /\ DOMAIN r.bps = DOMAIN s.bps
  BY <1>1, <1>2, <1>4, <1>5 DEF Known
<1>7. \A i \in DOMAIN s.bps : i \notin is => r.bps[i] = s.bps[i]
  BY <1>1
<1>8. \A i \in is : r.bps[i] = new(i)
  BY <1>1 DEF Known
<1>9. \A i \in DOMAIN s.bps : /\ r.bps[i].site = s.bps[i].site /\ r.bps[i].pin = s.bps[i].pin
                              /\ r.bps[i].cond = s.bps[i].cond
  BY <1>4, <1>7, <1>8
<1>10. Listing(r.bps)
  BY <1>4, <1>6, <1>7, <1>8, <1>9 DEF Shape, Listing
<1> QED
  BY <1>1, <1>4, <1>6, <1>7, <1>8, <1>9, <1>10 DEF Shape, r

\* The keys of the entries at some places.
KeysAt(bps, is) == {bps[i].key : i \in is}

\* A key at which conditions are stated has one of the conditions stated there.
LEMMA StatedIs ==
    ASSUME NEW s, Shape(s), NEW is \in SUBSET (DOMAIN s.bps)
    PROVE  LET r == Stated(s, is)
           IN  /\ Shape(r)
               /\ r.claims = s.claims /\ r.gone = s.gone /\ r.bps = s.bps
               /\ r.funcs = s.funcs /\ r.seg = s.seg
               /\ r.over = s.over \ KeysAt(s.bps, is)
               /\ \A k \in Key : r.recs[k].dump <=> s.recs[k].dump
               /\ \A k \in Key \ KeysAt(s.bps, is) : r.recs[k] = s.recs[k]
               /\ \A k \in KeysAt(s.bps, is) :
                    \E i \in is : s.bps[i].key = k /\ r.recs[k].cond = s.bps[i].cond
<1> DEFINE r == Stated(s, is)
           at(k) == {i \in is : s.bps[i].key = k}
           last(k) == s.bps[Max(at(k))].cond
<1>1. /\ DOMAIN r = Fields
      /\ r.claims = s.claims /\ r.gone = s.gone /\ r.bps = s.bps
      /\ r.funcs = s.funcs /\ r.seg = s.seg
      /\ r.over = s.over \ KeysAt(s.bps, is)
      /\ r.recs = [k \in Key |-> IF at(k) = {} THEN s.recs[k] ELSE [s.recs[k] EXCEPT !.cond = last(k)]]
  BY DEF Stated, Shape, Fields, KeysAt
<1> HIDE DEF r
<1>2. /\ Len(s.bps) \in Nat /\ DOMAIN s.bps = 1 .. Len(s.bps)
      /\ \A i \in DOMAIN s.bps : s.bps[i] \in Entry
  BY DEF Shape, Listing
<1>3. \A k \in Key : at(k) # {} => Max(at(k)) \in at(k)
  <2> SUFFICES ASSUME NEW k \in Key, at(k) # {} PROVE Max(at(k)) \in at(k)
    OBVIOUS
  <2>1. at(k) \in SUBSET (1 .. Len(s.bps))
    BY <1>2
  <2> QED
    BY <1>2, <2>1, MaxOf
<1>4. \A k \in Key : (at(k) = {} <=> k \notin KeysAt(s.bps, is))
  BY DEF KeysAt
<1>5. \A k \in Key : s.recs[k] \in Record
  BY DEF Shape
<1>6. \A k \in KeysAt(s.bps, is) : k \in Key
  BY <1>2 DEF KeysAt, Entry
<1>7. \A k \in Key : k \in KeysAt(s.bps, is) =>
        /\ r.recs[k] \in Record
        /\ r.recs[k].dump = s.recs[k].dump
        /\ \E i \in is : s.bps[i].key = k /\ r.recs[k].cond = s.bps[i].cond
  <2> SUFFICES ASSUME NEW k \in Key, k \in KeysAt(s.bps, is)
               PROVE  /\ r.recs[k] \in Record
                      /\ r.recs[k].dump = s.recs[k].dump
                      /\ \E i \in is : s.bps[i].key = k /\ r.recs[k].cond = s.bps[i].cond
    OBVIOUS
  <2>1. PICK i \in is : s.bps[i].key = k /\ last(k) = s.bps[i].cond
    BY <1>3, <1>4
  <2>2. last(k) \in Cond \cup {None}
    BY <1>2, <2>1 DEF Entry
  <2>3. r.recs[k] = [s.recs[k] EXCEPT !.cond = last(k)]
    BY <1>1, <1>4
  <2> HIDE DEF last
  <2>4. [s.recs[k] EXCEPT !.cond = last(k)] \in Record
    BY <1>5, <2>2 DEF Record
  <2>5. r.recs[k].dump = s.recs[k].dump /\ r.recs[k].cond = last(k)
    BY <1>5, <2>3 DEF Record
  <2> QED
    BY <2>1, <2>3, <2>4, <2>5
<1>8. \A k \in Key : k \notin KeysAt(s.bps, is) => r.recs[k] = s.recs[k]
  BY <1>1, <1>4
<1>9. r.recs \in [Key -> Record]
  <2>1. \A k \in Key : r.recs[k] \in Record
    BY <1>5, <1>7, <1>8
  <2> QED
    BY <1>1, <2>1
<1>10. Shape(r)
  BY <1>1, <1>9 DEF Shape
<1> QED
  BY <1>1, <1>6, <1>7, <1>8, <1>10 DEF r

\* Arming the entries at some places of the list.
NewKeys(s, is, where) == {KeyNow(s, i, where) : i \in is}

\* What arming does to the claims, the list and the records.
LEMMA ResolveIs ==
    ASSUME NEW s, Shape(s), NEW is, NEW where, Known(s, is, where)
    PROVE  LET r == Resolve(s, is, where)
           IN  /\ Shape(r)
               /\ r.claims = s.claims \cup ({"source"} \X NewKeys(s, is, where))
               /\ r.gone = s.gone \ ({"source"} \X NewKeys(s, is, where))
               /\ r.over = s.over \ NewKeys(s, is, where)
               /\ r.funcs = s.funcs /\ r.seg = s.seg
               /\ DOMAIN r.bps = DOMAIN s.bps
               /\ \A i \in DOMAIN s.bps :
                    /\ r.bps[i].site = s.bps[i].site /\ r.bps[i].pin = s.bps[i].pin
                    /\ r.bps[i].cond = s.bps[i].cond
               /\ \A i \in is : /\ r.bps[i].key = KeyNow(s, i, where)
                                /\ r.bps[i].verified /\ r.bps[i].shown
               /\ \A i \in DOMAIN s.bps \ is : r.bps[i] = s.bps[i]
               /\ \A k \in Key : r.recs[k].dump <=> s.recs[k].dump
               /\ \A k \in Key \ NewKeys(s, is, where) : r.recs[k] = s.recs[k]
               /\ \A k \in NewKeys(s, is, where) :
                    \E i \in is : KeyNow(s, i, where) = k /\ r.recs[k].cond = s.bps[i].cond
<1> DEFINE t == Located(s, is, where)
           u == Stated(t, is)
           ks == KeysAt(t.bps, is)
<1>1. /\ Shape(t)
      /\ t.claims = s.claims /\ t.gone = s.gone /\ t.recs = s.recs /\ t.over = s.over
      /\ t.funcs = s.funcs /\ t.seg = s.seg
      /\ DOMAIN t.bps = DOMAIN s.bps
      /\ \A i \in DOMAIN s.bps :
           /\ t.bps[i].site = s.bps[i].site /\ t.bps[i].pin = s.bps[i].pin
           /\ t.bps[i].cond = s.bps[i].cond
      /\ \A i \in is : /\ t.bps[i].key = KeyNow(s, i, where)
                       /\ t.bps[i].verified /\ t.bps[i].shown
      /\ \A i \in DOMAIN s.bps \ is : t.bps[i] = s.bps[i]
  BY LocatedIs
<1>2. Resolve(s, is, where) = AddFor(u, "source", ks)
  BY DEF Resolve, KeysAt
<1> HIDE DEF t
<1>3. ks = NewKeys(s, is, where)
  BY <1>1 DEF KeysAt, NewKeys
<1>4. is \in SUBSET (DOMAIN t.bps)
  BY <1>1 DEF Known
<1>5. /\ Shape(u)
      /\ u.claims = t.claims /\ u.gone = t.gone /\ u.bps = t.bps
      /\ u.funcs = t.funcs /\ u.seg = t.seg
      /\ u.over = t.over \ ks
      /\ \A k \in Key : u.recs[k].dump <=> t.recs[k].dump
      /\ \A k \in Key \ ks : u.recs[k] = t.recs[k]
      /\ \A k \in ks : \E i \in is : t.bps[i].key = k /\ u.recs[k].cond = t.bps[i].cond
  BY <1>1, <1>4, StatedIs
<1>6. ks \in SUBSET Key
  <2>1. \A i \in DOMAIN t.bps : t.bps[i] \in Entry
    BY <1>1 DEF Shape, Listing
  <2>2. \A i \in DOMAIN t.bps : t.bps[i].key \in Key
    BY <2>1 DEF Entry
  <2> QED
    BY <1>4, <2>2 DEF KeysAt
<1> HIDE DEF u, ks
<1> DEFINE r == AddFor(u, "source", ks)
<1>7. /\ Shape(r)
      /\ r.claims = u.claims \cup ({"source"} \X ks) /\ r.gone = u.gone \ ({"source"} \X ks)
      /\ r.recs = u.recs /\ r.over = u.over /\ r.bps = u.bps /\ r.funcs = u.funcs
      /\ r.seg = u.seg
  BY <1>5, <1>6, AddForIs DEF Owner
<1> HIDE DEF r
<1>8. \A k \in ks : \E i \in is : KeyNow(s, i, where) = k /\ r.recs[k].cond = s.bps[i].cond
  BY <1>1, <1>4, <1>5, <1>7
<1>9. \A i \in DOMAIN s.bps :
        /\ r.bps[i].site = s.bps[i].site /\ r.bps[i].pin = s.bps[i].pin
        /\ r.bps[i].cond = s.bps[i].cond
  BY <1>1, <1>5, <1>7
<1>10. \A i \in is : r.bps[i].key = KeyNow(s, i, where) /\ r.bps[i].verified /\ r.bps[i].shown
  BY <1>1, <1>5, <1>7
<1>11. \A i \in DOMAIN s.bps \ is : r.bps[i] = s.bps[i]
  BY <1>1, <1>5, <1>7
<1>12. /\ \A k \in Key : r.recs[k].dump <=> s.recs[k].dump
       /\ \A k \in Key \ ks : r.recs[k] = s.recs[k]
  BY <1>1, <1>5, <1>7
<1>13. /\ r.claims = s.claims \cup ({"source"} \X ks) /\ r.gone = s.gone \ ({"source"} \X ks)
       /\ r.over = s.over \ ks /\ r.funcs = s.funcs /\ r.seg = s.seg
       /\ DOMAIN r.bps = DOMAIN s.bps
  BY <1>1, <1>5, <1>7
<1>14. Resolve(s, is, where) = r
  BY <1>2 DEF r
<1> QED
  BY <1>3, <1>7, <1>8, <1>9, <1>10, <1>11, <1>12, <1>13, <1>14

\* Another list of source breakpoints in the state.
LEMMA WithBps ==
    ASSUME NEW s, Shape(s), NEW l, Listing(l)
    PROVE  LET r == [s EXCEPT !.bps = l]
           IN  /\ Shape(r)
               /\ r.claims = s.claims /\ r.gone = s.gone /\ r.recs = s.recs /\ r.over = s.over
               /\ r.bps = l /\ r.funcs = s.funcs /\ r.seg = s.seg
<1> DEFINE r == [s EXCEPT !.bps = l]
<1>1. /\ DOMAIN r = Fields
      /\ r.claims = s.claims /\ r.gone = s.gone /\ r.recs = s.recs /\ r.over = s.over
      /\ r.bps = l /\ r.funcs = s.funcs /\ r.seg = s.seg
  BY DEF Shape, Fields
<1> HIDE DEF r
<1> QED
  BY <1>1 DEF Shape, r

\* Other function breakpoints in the state.
LEMMA WithFuncs ==
    ASSUME NEW s, Shape(s), NEW l, Called(l)
    PROVE  LET r == [s EXCEPT !.funcs = l]
           IN  /\ Shape(r)
               /\ r.claims = s.claims /\ r.gone = s.gone /\ r.recs = s.recs /\ r.over = s.over
               /\ r.bps = s.bps /\ r.funcs = l /\ r.seg = s.seg
<1> DEFINE r == [s EXCEPT !.funcs = l]
<1>1. /\ DOMAIN r = Fields
      /\ r.claims = s.claims /\ r.gone = s.gone /\ r.recs = s.recs /\ r.over = s.over
      /\ r.bps = s.bps /\ r.funcs = l /\ r.seg = s.seg
  BY DEF Shape, Fields
<1> HIDE DEF r
<1> QED
  BY <1>1 DEF Shape, r

\* Another bank for the segment.
LEMMA LearnIs ==
    ASSUME NEW s, Shape(s), NEW b \in Selector
    PROVE  LET r == Learn(s, b)
           IN  /\ Shape(r)
               /\ r.claims = s.claims /\ r.gone = s.gone /\ r.recs = s.recs /\ r.over = s.over
               /\ r.bps = s.bps /\ r.funcs = s.funcs /\ r.seg = b
<1> DEFINE r == Learn(s, b)
<1>1. /\ DOMAIN r = Fields
      /\ r.claims = s.claims /\ r.gone = s.gone /\ r.recs = s.recs /\ r.over = s.over
      /\ r.bps = s.bps /\ r.funcs = s.funcs /\ r.seg = b
  BY DEF Shape, Fields, Learn
<1> HIDE DEF r
<1> QED
  BY <1>1 DEF Shape, r

\* The segment's bank forgotten, if it is unloaded.
LEMMA UnlearnIs ==
    ASSUME NEW s, Shape(s), NEW range
    PROVE  LET r == Unlearn(s, range)
           IN  /\ Shape(r)
               /\ r.claims = s.claims /\ r.gone = s.gone /\ r.recs = s.recs /\ r.over = s.over
               /\ r.bps = s.bps /\ r.funcs = s.funcs
BY LearnIs DEF Unlearn, Selector

\* What is left of the list without a file.
LEMMA OthersAre ==
    ASSUME NEW bps, Listing(bps), NEW f
    PROVE  LET l == OthersOf(bps, f)
           IN  /\ Listing(l)
               /\ \A i \in DOMAIN l :
                    l[i].site[1] # f /\ \E j \in DOMAIN bps : bps[j] = l[i]
<1> DEFINE l == OthersOf(bps, f)
           at == {i \in DOMAIN bps : bps[i].site[1] # f}
<1>1. bps \in Seq(Entry) /\ at \in SUBSET (DOMAIN bps)
  BY DEF Listing
<1>2. l = Picked(bps, at)
  BY DEF OthersOf
<1>6. \A j \in at : j \in DOMAIN bps /\ bps[j].site[1] # f
  OBVIOUS
<1> HIDE DEF l, at
<1>3. /\ l \in Seq(Entry)
      /\ \A i \in DOMAIN l : \E j \in at : l[i] = bps[j]
      /\ \A i, j \in DOMAIN l : i # j => \E a, b \in at : a # b /\ l[i] = bps[a] /\ l[j] = bps[b]
  BY <1>1, <1>2, PickedOf
<1>4. \A i, j \in DOMAIN l : l[i].site = l[j].site => i = j
  BY <1>3, <1>6 DEF Listing
<1>5. \A i \in DOMAIN l : l[i].shown => l[i].verified
  BY <1>3, <1>6 DEF Listing
<1> QED
  BY <1>3, <1>4, <1>5, <1>6 DEF Listing, l

\* The keys other files' breakpoints are asserted at again.
KeptKeys(s, f) == NormalKeys({e \in Range(OthersOf(s.bps, f)) : e.verified})

\* The first half of setBreakpoints.
LEMMA RestateIs ==
    ASSUME NEW s, Shape(s), NEW f
    PROVE  LET r == Restate(s, f)
           IN  /\ Shape(r)
               /\ \A x : x \in r.claims <=>
                    (x \in s.claims /\ x[1] # "source") \/ x \in {"source"} \X KeptKeys(s, f)
               /\ r.gone = s.gone \ ({"source"} \X KeptKeys(s, f))
               /\ r.recs = s.recs /\ r.over = s.over /\ r.bps = OthersOf(s.bps, f)
               /\ r.funcs = s.funcs /\ r.seg = s.seg
<1> DEFINE t == ClearOwner(s, "source")
           u == [t EXCEPT !.bps = OthersOf(s.bps, f)]
           ks == KeptKeys(s, f)
<1>1. /\ Shape(t)
      /\ \A x : x \in t.claims <=> x \in s.claims /\ x[1] # "source"
      /\ t.gone = s.gone /\ t.recs = s.recs /\ t.over = s.over /\ t.funcs = s.funcs /\ t.seg = s.seg
  BY ClearOwnerIs DEF Owner
<1> HIDE DEF t
<1>2. Listing(OthersOf(s.bps, f))
  BY OthersAre DEF Shape
<1>3. /\ Shape(u)
      /\ u.claims = t.claims /\ u.gone = t.gone /\ u.recs = t.recs /\ u.over = t.over
      /\ u.bps = OthersOf(s.bps, f) /\ u.funcs = t.funcs /\ u.seg = t.seg
  BY <1>1, <1>2, WithBps
<1>4. Restate(s, f) = AddFor(u, "source", ks)
  BY DEF Restate, KeptKeys, t
<1> HIDE DEF u
<1>5. ks \in SUBSET Key
  <2>1. \A e \in Range(OthersOf(s.bps, f)) : e \in Entry
    BY <1>2 DEF Range, Listing
  <2>2. \A e \in Entry : e.key \in Addr \X Selector
    BY DEF Entry, Key
  <2>3. \A e \in Entry : Normal(e.key[1], e.key[2]) \in Key
    BY <2>2, NormalIn
  <2> QED
    BY <2>1, <2>3 DEF KeptKeys, NormalKeys
<1> HIDE DEF ks
<1> DEFINE r == AddFor(u, "source", ks)
<1>6. /\ Shape(r)
      /\ r.claims = u.claims \cup ({"source"} \X ks) /\ r.gone = u.gone \ ({"source"} \X ks)
      /\ r.recs = u.recs /\ r.over = u.over /\ r.bps = u.bps /\ r.funcs = u.funcs /\ r.seg = u.seg
  BY <1>3, <1>5, AddForIs DEF Owner
<1> HIDE DEF r
<1>7. \A x : x \in r.claims <=> (x \in s.claims /\ x[1] # "source") \/ x \in {"source"} \X ks
  BY <1>1, <1>3, <1>6
<1> QED
  BY <1>1, <1>3, <1>4, <1>6, <1>7 DEF ks, r

\* A key normalised is a key at the same address.
LEMMA NormalTwice ==
    ASSUME NEW k \in Key
    PROVE  Normal(k[1], k[2]) \in Key /\ Normal(k[1], k[2])[1] = k[1]
<1>1. k[1] \in Addr /\ k[2] \in Selector
  BY DEF Key
<1> QED
  BY <1>1, NormalIn

\* A request's entries before any of them is located.
NewEntries(f, lines, wants) == [i \in DOMAIN lines |-> Pending(<<f, lines[i]>>, wants[i])]

Asked(s, f, lines, wants) ==
    [Restate(s, f) EXCEPT !.bps = @ \o NewEntries(f, lines, wants)]

Resolvable(s, f, lines, wants) ==
    LET t == Asked(s, f, lines, wants)
    IN  {i \in Len(Restate(s, f).bps) + 1 .. Len(t.bps) : info[t.bps[i].site] # None}

\* A new entry of the list.
LEMMA PendingIs ==
    ASSUME NEW f \in File, NEW l \in Line, NEW w \in Wants
    PROVE  LET e == Pending(<<f, l>>, w)
           IN  /\ e \in Entry /\ ~e.verified /\ ~e.shown /\ e.site = <<f, l>>
               /\ e.pin = w.pin /\ e.cond = w.cond
<1>1. w \in Want
  BY DapAssumption
<1>2. <<0, ANY>> \in Key /\ <<f, l>> \in Site
  BY DapAssumption DEF Key, Selector, Site
<1>3. w.pin \in Selector /\ w.cond \in Cond \cup {None}
  BY <1>1 DEF Want
<1> QED
  BY <1>2, <1>3 DEF Pending, Entry

\* A request's lines, each named once.
LEMMA ListsAre ==
    ASSUME NEW lines \in Lists
    PROVE  \E n \in Nat : /\ lines \in [1 .. n -> Line]
                          /\ \A i, j \in 1 .. n : lines[i] = lines[j] => i = j
<1>1. PICK n \in 0 .. MaxWants : lines \in [1 .. n -> Line] /\ IsInjective(lines)
  BY DEF Lists
<1> QED
  BY <1>1, DapAssumption DEF IsInjective

\* The list with the request's entries behind what stayed.
LEMMA AskedIs ==
    ASSUME NEW s, Shape(s), NEW f \in File, NEW lines \in Lists, NEW wants \in [DOMAIN lines -> Wants]
    PROVE  LET t == Asked(s, f, lines, wants)
               r == Restate(s, f)
           IN  /\ Shape(t)
               /\ t.claims = r.claims /\ t.gone = r.gone /\ t.recs = r.recs /\ t.over = r.over
               /\ t.funcs = r.funcs /\ t.seg = r.seg
               /\ DOMAIN r.bps \subseteq DOMAIN t.bps
               /\ \A i \in DOMAIN r.bps : t.bps[i] = r.bps[i]
               /\ \A i \in DOMAIN t.bps \ DOMAIN r.bps :
                    /\ ~t.bps[i].verified /\ ~t.bps[i].shown
                    /\ \E w \in Wants : t.bps[i].pin = w.pin /\ t.bps[i].cond = w.cond
               /\ Len(r.bps) + 1 .. Len(t.bps) = DOMAIN t.bps \ DOMAIN r.bps
<1> DEFINE r == Restate(s, f)
           old == OthersOf(s.bps, f)
           new == NewEntries(f, lines, wants)
           l == old \o new
<1>1. Shape(r) /\ r.bps = old
  BY RestateIs
<1>2. /\ Listing(old)
      /\ \A i \in DOMAIN old : old[i].site[1] # f
  BY OthersAre DEF Shape
<1>3. PICK n \in Nat : /\ lines \in [1 .. n -> Line]
                       /\ \A i, j \in 1 .. n : lines[i] = lines[j] => i = j
  BY ListsAre
<1>4. \A i \in 1 .. n :
        /\ new[i] \in Entry /\ ~new[i].verified /\ ~new[i].shown
        /\ new[i].site = <<f, lines[i]>>
        /\ \E w \in Wants : new[i].pin = w.pin /\ new[i].cond = w.cond
  <2> TAKE i \in 1 .. n
  <2>1. new[i] = Pending(<<f, lines[i]>>, wants[i]) /\ lines[i] \in Line /\ wants[i] \in Wants
    BY <1>3 DEF NewEntries
  <2> QED
    BY <2>1, PendingIs
<1>5. new \in Seq(Entry) /\ Len(new) = n /\ DOMAIN new = 1 .. n
  <2>1. DOMAIN new = 1 .. n /\ new = [i \in 1 .. n |-> new[i]]
    BY <1>3 DEF NewEntries
  <2> HIDE DEF new
  <2>2. [i \in 1 .. n |-> new[i]] \in Seq(Entry) /\ Len([i \in 1 .. n |-> new[i]]) = n
    BY <1>4
  <2> QED
    BY <2>1, <2>2
<1> HIDE DEF new, old, r
<1>6. /\ old \in Seq(Entry) /\ Len(old) \in Nat
      /\ DOMAIN old = 1 .. Len(old)
  BY <1>2 DEF Listing
<1>7. /\ l \in Seq(Entry) /\ Len(l) = Len(old) + n /\ DOMAIN l = 1 .. Len(old) + n
      /\ \A i \in 1 .. Len(old) : l[i] = old[i]
      /\ \A i \in Len(old) + 1 .. Len(old) + n : l[i] = new[i - Len(old)] /\ i - Len(old) \in 1 .. n
  BY <1>5, <1>6
<1> HIDE DEF l
<1>8. \A i \in DOMAIN l \ DOMAIN old :
        /\ ~l[i].verified /\ ~l[i].shown
        /\ l[i].site = <<f, lines[i - Len(old)]>>
        /\ \E w \in Wants : l[i].pin = w.pin /\ l[i].cond = w.cond
  <2> TAKE i \in DOMAIN l \ DOMAIN old
  <2>1. i \in Len(old) + 1 .. Len(old) + n
    BY <1>6, <1>7
  <2> QED
    BY <1>4, <1>7, <2>1
<1>9. \A i, j \in DOMAIN l : l[i].site = l[j].site => i = j
  <2> TAKE i, j \in DOMAIN l
  <2>1. CASE i \in DOMAIN old /\ j \in DOMAIN old
    BY <2>1, <1>2, <1>6, <1>7 DEF Listing
  <2>2. CASE i \notin DOMAIN old /\ j \notin DOMAIN old
    <3>1. i - Len(old) \in 1 .. n /\ j - Len(old) \in 1 .. n
      BY <2>2, <1>6, <1>7
    <3>2. l[i].site = l[j].site => lines[i - Len(old)] = lines[j - Len(old)]
      BY <2>2, <1>8
    <3>3. i - Len(old) = j - Len(old) => i = j
      BY <1>6, <1>7
    <3> QED
      BY <1>3, <3>1, <3>2, <3>3
  <2>3. CASE i \in DOMAIN old /\ j \notin DOMAIN old
    <3>1. l[i].site[1] # f /\ l[j].site[1] = f
      BY <2>3, <1>2, <1>6, <1>7, <1>8
    <3> QED
      BY <3>1
  <2>4. CASE i \notin DOMAIN old /\ j \in DOMAIN old
    <3>1. l[j].site[1] # f /\ l[i].site[1] = f
      BY <2>4, <1>2, <1>6, <1>7, <1>8
    <3> QED
      BY <3>1
  <2> QED
    BY <2>1, <2>2, <2>3, <2>4
<1>10. \A i \in DOMAIN l : l[i].shown => l[i].verified
  <2> TAKE i \in DOMAIN l
  <2>1. CASE i \in DOMAIN old
    BY <2>1, <1>2, <1>6, <1>7 DEF Listing
  <2>2. CASE i \notin DOMAIN old
    BY <2>2, <1>8
  <2> QED
    BY <2>1, <2>2
<1>11. Listing(l)
  BY <1>7, <1>9, <1>10 DEF Listing
<1>12. Asked(s, f, lines, wants) = [r EXCEPT !.bps = l]
  BY <1>1 DEF Asked, r, l, new
<1> DEFINE t == [r EXCEPT !.bps = l]
<1>13. /\ Shape(t)
       /\ t.claims = r.claims /\ t.gone = r.gone /\ t.recs = r.recs /\ t.over = r.over
       /\ t.bps = l /\ t.funcs = r.funcs /\ t.seg = r.seg
  BY <1>1, <1>11, WithBps
<1> HIDE DEF t
<1>14. /\ DOMAIN r.bps \subseteq DOMAIN t.bps
       /\ \A i \in DOMAIN r.bps : t.bps[i] = r.bps[i]
       /\ Len(r.bps) + 1 .. Len(t.bps) = DOMAIN t.bps \ DOMAIN r.bps
  BY <1>1, <1>6, <1>7, <1>13
<1>15. \A i \in DOMAIN t.bps \ DOMAIN r.bps :
         /\ ~t.bps[i].verified /\ ~t.bps[i].shown
         /\ \E w \in Wants : t.bps[i].pin = w.pin /\ t.bps[i].cond = w.cond
  BY <1>1, <1>8, <1>13
<1> QED
  BY <1>12, <1>13, <1>14, <1>15 DEF r, t

\* setBreakpoints is the arming of those whose place is known.
LEMMA SetBreakpointsIs ==
    ASSUME NEW s, Shape(s), NEW f \in File, NEW lines \in Lists, NEW wants \in [DOMAIN lines -> Wants],
           info \in Places
    PROVE  LET t == Asked(s, f, lines, wants)
               is == Resolvable(s, f, lines, wants)
           IN  /\ Shape(t) /\ Known(t, is, info)
               /\ is = {i \in DOMAIN t.bps \ DOMAIN Restate(s, f).bps : info[t.bps[i].site] # None}
               /\ SetBreakpoints(s, f, lines, wants) = Resolve(t, is, info)
<1> DEFINE t == Asked(s, f, lines, wants)
           is == Resolvable(s, f, lines, wants)
<1>1. SetBreakpoints(s, f, lines, wants) = Resolve(t, is, info)
  BY DEF SetBreakpoints, Asked, Resolvable, NewEntries
<1>2. /\ Shape(t)
      /\ Len(Restate(s, f).bps) + 1 .. Len(t.bps) = DOMAIN t.bps \ DOMAIN Restate(s, f).bps
  BY AskedIs
<1>3. is = {i \in DOMAIN t.bps \ DOMAIN Restate(s, f).bps : info[t.bps[i].site] # None}
  BY <1>2 DEF Resolvable
<1> HIDE DEF t, is
<1>4. \A i \in DOMAIN t.bps : t.bps[i].site \in Place
  <2>1. \A i \in DOMAIN t.bps : t.bps[i] \in Entry
    BY <1>2 DEF Shape, Listing
  <2> QED
    BY <2>1 DEF Entry, Place
<1>5. \A i \in DOMAIN t.bps : info[t.bps[i].site] \in Addr \cup {None}
  BY <1>4 DEF Places
<1>6. Known(t, is, info)
  BY <1>3, <1>5 DEF Known
<1> QED
  BY <1>1, <1>2, <1>3, <1>6 DEF t, is

-----------------------------------------------------------------------------
(* Functions and instructions.                                             *)

\* All an owner claimed is let go of, and these keys claimed.
Instead(s, r, o, ks) ==
    \A x : x \in r.claims <=> (x \in s.claims /\ x[1] # o) \/ x \in {o} \X ks

\* What setFunctionBreakpoints changes.
LEMMA SetFunctionsIs ==
    ASSUME NEW s, Shape(s), NEW names \in SUBSET Name, info \in Places
    PROVE  LET r == SetFunctions(s, names)
           IN  /\ Shape(r)
               /\ \E ks \in SUBSET Key : /\ Instead(s, r, "function", ks)
                                         /\ r.gone = s.gone \ ({"function"} \X ks)
               /\ r.recs = s.recs /\ r.over = s.over /\ r.bps = s.bps /\ r.seg = s.seg
<1> DEFINE keys == [n \in {m \in names : info[m] # None} |-> Normal(info[n], s.seg)]
           ks == {keys[n] : n \in DOMAIN keys}
           t == ClearOwner(s, "function")
           u == AddFor(t, "function", ks)
           r == [u EXCEPT !.funcs = keys]
<1>1. /\ Shape(t)
      /\ \A x : x \in t.claims <=> x \in s.claims /\ x[1] # "function"
      /\ t.gone = s.gone /\ t.recs = s.recs /\ t.over = s.over /\ t.bps = s.bps /\ t.seg = s.seg
  BY ClearOwnerIs DEF Owner
<1>2. \A n \in DOMAIN keys : keys[n] \in Key /\ n \in Name
  <2> TAKE n \in DOMAIN keys
  <2>1. n \in Name /\ info[n] # None /\ keys[n] = Normal(info[n], s.seg)
    OBVIOUS
  <2>2. info[n] \in Addr /\ s.seg \in Selector
    BY <2>1 DEF Places, Place, Shape
  <2> QED
    BY <2>1, <2>2, NormalIn
<1>3. Called(keys) /\ ks \in SUBSET Key
  BY <1>2 DEF Called
<1>4. SetFunctions(s, names) = r
  BY DEF SetFunctions
<1> HIDE DEF t, keys, ks
<1>5. /\ Shape(u)
      /\ u.claims = t.claims \cup ({"function"} \X ks) /\ u.gone = t.gone \ ({"function"} \X ks)
      /\ u.recs = t.recs /\ u.over = t.over /\ u.bps = t.bps /\ u.seg = t.seg
  BY <1>1, <1>3, AddForIs DEF Owner
<1> HIDE DEF u
<1>6. /\ Shape(r)
      /\ r.claims = u.claims /\ r.gone = u.gone /\ r.recs = u.recs /\ r.over = u.over
      /\ r.bps = u.bps /\ r.seg = u.seg
  BY <1>3, <1>5, WithFuncs
<1> HIDE DEF r
<1>7. Instead(s, r, "function", ks) /\ r.gone = s.gone \ ({"function"} \X ks)
  BY <1>1, <1>5, <1>6 DEF Instead
<1> QED
  BY <1>1, <1>3, <1>4, <1>5, <1>6, <1>7

Unopened(wants) == {k \in DOMAIN wants : wants[k].dump /\ ~wants[k].opens}

\* What setInstructionBreakpoints changes: a dump is left only where it was asked
\* for or is somebody else's, and a condition only goes with the record.
LEMMA SetInstructionsIs ==
    ASSUME NEW s, Shape(s), NEW wants, DOMAIN wants \in SUBSET Key,
           \A k \in DOMAIN wants : wants[k] \in DumpWants
    PROVE  LET r == SetInstructions(s, wants)
               kept == DOMAIN wants \ Unopened(wants)
           IN  /\ Shape(r)
               /\ Instead(s, r, "instruction", kept)
               /\ r.gone = s.gone \ ({"instruction"} \X DOMAIN wants)
               /\ r.over = s.over \cup DOMAIN wants
               /\ r.bps = s.bps /\ r.funcs = s.funcs /\ r.seg = s.seg
               /\ \A k \in Key : r.recs[k].dump =>
                    \/ k \in kept
                    \/ s.recs[k].dump /\ k \notin HeldBy(s, "instruction") \cup DOMAIN wants
               /\ \A k \in Key \ DOMAIN wants :
                    \/ r.recs[k].cond = s.recs[k].cond
                    \/ k \in HeldBy(s, "instruction") \ Claimed(r)
<1> DEFINE old == HeldBy(s, "instruction")
           c0 == ClearDumps(s, old)
           t == ClearOwner(c0, "instruction")
           a == AddFor(t, "instruction", DOMAIN wants)
           recs == [k \in Key |-> IF k \in DOMAIN wants
                                    THEN [cond |-> wants[k].cond, dump |-> wants[k].dump]
                                    ELSE a.recs[k]]
           u == [a EXCEPT !.recs = recs, !.over = @ \cup DOMAIN wants]
           failed == Unopened(wants)
           c1 == ClearDumps(u, failed)
           v == RemoveFor(c1, "instruction", failed)
           r == ForgetUnclaimed(v, failed \cup old)
<1>1. SetInstructions(s, wants) = r
  BY DEF SetInstructions, Unopened
<1>2. /\ Shape(c0)
      /\ c0.claims = s.claims /\ c0.gone = s.gone /\ c0.over = s.over
      /\ c0.bps = s.bps /\ c0.funcs = s.funcs /\ c0.seg = s.seg
      /\ \A k \in Key : /\ c0.recs[k].cond = s.recs[k].cond
                        /\ c0.recs[k].dump <=> s.recs[k].dump /\ k \notin old
  BY ClearDumpsIs
<1> HIDE DEF c0
<1>3. /\ Shape(t)
      /\ \A x : x \in t.claims <=> x \in s.claims /\ x[1] # "instruction"
      /\ t.gone = s.gone /\ t.recs = c0.recs /\ t.over = s.over
      /\ t.bps = s.bps /\ t.funcs = s.funcs /\ t.seg = s.seg
  BY <1>2, ClearOwnerIs DEF Owner
<1> HIDE DEF t
<1>4. /\ Shape(a)
      /\ a.claims = t.claims \cup ({"instruction"} \X DOMAIN wants)
      /\ a.gone = t.gone \ ({"instruction"} \X DOMAIN wants)
      /\ a.recs = c0.recs /\ a.over = s.over
      /\ a.bps = s.bps /\ a.funcs = s.funcs /\ a.seg = s.seg
  BY <1>3, AddForIs DEF Owner
<1> HIDE DEF a
<1>5. recs \in [Key -> Record]
  <2>1. \A k \in DOMAIN wants : /\ wants[k].cond \in Cond \cup {None} /\ wants[k].dump \in BOOLEAN
    BY DapAssumption
  <2>2. \A k \in Key : a.recs[k] \in Record
    BY <1>4 DEF Shape
  <2> QED
    BY <2>1, <2>2 DEF Record
<1>6. \A k \in Key : /\ k \in DOMAIN wants => recs[k].dump = wants[k].dump
                     /\ k \notin DOMAIN wants => recs[k] = c0.recs[k]
  BY <1>4
<1> HIDE DEF recs
<1>7. /\ DOMAIN u = Fields
      /\ u.claims = a.claims /\ u.gone = a.gone /\ u.recs = recs
      /\ u.over = s.over \cup DOMAIN wants
      /\ u.bps = s.bps /\ u.funcs = s.funcs /\ u.seg = s.seg
  BY <1>4 DEF Shape, Fields
<1> HIDE DEF u
<1>8. Shape(u)
  BY <1>4, <1>5, <1>7 DEF Shape
<1>9. /\ Shape(c1)
      /\ c1.claims = u.claims /\ c1.gone = u.gone /\ c1.over = u.over
      /\ c1.bps = s.bps /\ c1.funcs = s.funcs /\ c1.seg = s.seg
      /\ \A k \in Key : /\ c1.recs[k].cond = recs[k].cond
                        /\ c1.recs[k].dump <=> recs[k].dump /\ k \notin failed
  BY <1>7, <1>8, ClearDumpsIs
<1> HIDE DEF c1
<1>10. /\ Shape(v)
       /\ v.claims = c1.claims \ ({"instruction"} \X failed) /\ v.gone = u.gone /\ v.over = u.over
       /\ v.recs = c1.recs /\ v.bps = s.bps /\ v.funcs = s.funcs /\ v.seg = s.seg
  BY <1>9, RemoveForIs DEF Owner
<1> HIDE DEF v
<1>11. /\ Shape(r)
       /\ r.claims = v.claims /\ r.gone = v.gone /\ r.over = u.over
       /\ r.recs = [k \in Key |-> IF k \in (failed \cup old) \ Claimed(v) THEN NoRecord ELSE c1.recs[k]]
       /\ r.bps = s.bps /\ r.funcs = s.funcs /\ r.seg = s.seg
  BY <1>10, ForgetIs
<1>12. Claimed(v) = Claimed(r)
  BY <1>11 DEF Claimed
<1>13. failed \subseteq DOMAIN wants /\ \A k \in DOMAIN wants \ failed : ~wants[k].dump \/ wants[k].opens
  BY DEF Unopened
<1> HIDE DEF r, failed, old
<1>14. Instead(s, r, "instruction", DOMAIN wants \ failed)
  <2>1. \A x : x \in r.claims <=> (x \in t.claims \/ x \in {"instruction"} \X DOMAIN wants)
                                  /\ x \notin {"instruction"} \X failed
    BY <1>4, <1>7, <1>9, <1>10, <1>11
  <2>2. \A x : x \in t.claims => x \notin {"instruction"} \X failed
    BY <1>3
  <2>3. \A x : x \in {"instruction"} \X (DOMAIN wants \ failed) <=>
               x \in {"instruction"} \X DOMAIN wants /\ x \notin {"instruction"} \X failed
    OBVIOUS
  <2> QED
    BY <1>3, <2>1, <2>2, <2>3 DEF Instead
<1>15. \A k \in Key : r.recs[k].dump =>
         k \in DOMAIN wants \ failed \/ (s.recs[k].dump /\ k \notin old \cup DOMAIN wants)
  <2> SUFFICES ASSUME NEW k \in Key, r.recs[k].dump
               PROVE  k \in DOMAIN wants \ failed \/ (s.recs[k].dump /\ k \notin old \cup DOMAIN wants)
    OBVIOUS
  <2>1. r.recs[k] = c1.recs[k]
    BY <1>11 DEF NoRecord
  <2>2. recs[k].dump /\ k \notin failed
    BY <1>9, <2>1
  <2>3. CASE k \in DOMAIN wants
    BY <2>2, <2>3
  <2>4. CASE k \notin DOMAIN wants
    BY <2>2, <2>4, <1>6, <1>2
  <2> QED
    BY <2>3, <2>4
<1>16. \A k \in Key \ DOMAIN wants : r.recs[k].cond = s.recs[k].cond \/ k \in old \ Claimed(r)
  <2> SUFFICES ASSUME NEW k \in Key \ DOMAIN wants, k \notin old \ Claimed(r)
               PROVE  r.recs[k].cond = s.recs[k].cond
    OBVIOUS
  <2>1. r.recs[k] = c1.recs[k]
    BY <1>11, <1>12, <1>13
  <2> QED
    BY <2>1, <1>2, <1>6, <1>9
<1>17. /\ r.gone = s.gone \ ({"instruction"} \X DOMAIN wants) /\ r.over = s.over \cup DOMAIN wants
       /\ r.bps = s.bps /\ r.funcs = s.funcs /\ r.seg = s.seg
  BY <1>3, <1>4, <1>7, <1>9, <1>10, <1>11
<1> QED
  BY <1>1, <1>11, <1>14, <1>15, <1>16, <1>17 DEF failed, old

-----------------------------------------------------------------------------
(* Loads.                                                                  *)

Hit(s, range) == {i \in DOMAIN s.bps : s.bps[i].verified /\ s.bps[i].key[1] \in range}

\* What was replaced is neither shown nor claimed.
LEMMA InvalidateIs ==
    ASSUME NEW s, Shape(s), NEW range
    PROVE  LET r == Invalidate(s, range)
           IN  /\ Shape(r)
               /\ r.claims = s.claims \ ({"source"} \X NormalKeys({s.bps[i] : i \in Hit(s, range)}))
               /\ r.gone = s.gone /\ r.recs = s.recs /\ r.over = s.over
               /\ r.funcs = s.funcs /\ r.seg = s.seg
               /\ \A i \in Hit(s, range) : ~r.bps[i].shown
<1> DEFINE hit == Hit(s, range)
           ks == NormalKeys({s.bps[i] : i \in hit})
           t == RemoveFor(s, "source", ks)
           new(i) == [s.bps[i] EXCEPT !.key[1] = 0, !.shown = FALSE]
           l == [i \in DOMAIN s.bps |-> IF i \in hit THEN new(i) ELSE s.bps[i]]
           r == [t EXCEPT !.bps = l]
<1>1. /\ Shape(t)
      /\ t.claims = s.claims \ ({"source"} \X ks) /\ t.gone = s.gone
      /\ t.recs = s.recs /\ t.over = s.over /\ t.bps = s.bps /\ t.funcs = s.funcs
      /\ t.seg = s.seg
  BY RemoveForIs DEF Owner
<1>2. Invalidate(s, range) = [t EXCEPT !.bps = [i \in DOMAIN @ |->
          IF i \in hit THEN [@[i] EXCEPT !.key[1] = 0, !.shown = FALSE] ELSE @[i]]]
  BY DEF Invalidate, Hit
<1> HIDE DEF t
<1>3. Invalidate(s, range) = r
  BY <1>1, <1>2
<1>4. hit \subseteq DOMAIN s.bps /\ \A i \in DOMAIN s.bps : s.bps[i] \in Entry
  BY DEF Shape, Listing, Hit
<1> HIDE DEF hit, ks
<1>5. \A i \in DOMAIN s.bps :
        /\ new(i) \in Entry /\ new(i).site = s.bps[i].site /\ ~new(i).shown
  <2> TAKE i \in DOMAIN s.bps
  <2> DEFINE e == s.bps[i]
             k == [e.key EXCEPT ![1] = 0]
  <2>1. e \in Entry
    BY <1>4
  <2> HIDE DEF e
  <2>2. e.key \in Addr \X Selector
    BY <2>1 DEF Entry, Key
  <2>3. k = <<0, e.key[2]>>
    BY <2>2
  <2>4. k \in Key
    BY <2>2, <2>3, DapAssumption DEF Key
  <2>5. [e EXCEPT !.key[1] = 0, !.shown = FALSE] = [e EXCEPT !.key = k, !.shown = FALSE]
    BY <2>1 DEF Entry
  <2> HIDE DEF k
  <2>6. [e EXCEPT !.key = k, !.shown = FALSE] \in Entry
    BY <2>1, <2>4 DEF Entry
  <2>7. [e EXCEPT !.key = k, !.shown = FALSE].site = e.site /\ ~[e EXCEPT !.key = k, !.shown = FALSE].shown
    BY <2>1 DEF Entry
  <2> QED
    BY <2>5, <2>6, <2>7 DEF e
<1> HIDE DEF new
<1>6. /\ Len(s.bps) \in Nat /\ DOMAIN s.bps = 1 .. Len(s.bps)
  BY DEF Shape, Listing
<1>7. /\ l \in Seq(Entry) /\ DOMAIN l = DOMAIN s.bps
      /\ \A i \in DOMAIN s.bps : l[i].site = s.bps[i].site
      /\ \A i \in DOMAIN s.bps : l[i] = s.bps[i] \/ ~l[i].shown
      /\ \A i \in hit : ~l[i].shown
  BY <1>4, <1>5, <1>6
<1> HIDE DEF l
<1>8. Listing(l)
  BY <1>7 DEF Shape, Listing
<1>9. /\ Shape(r)
      /\ r.claims = t.claims /\ r.gone = t.gone /\ r.recs = t.recs /\ r.over = t.over
      /\ r.bps = l /\ r.funcs = t.funcs /\ r.seg = t.seg
  BY <1>1, <1>8, WithBps
<1> QED
  BY <1>1, <1>3, <1>7, <1>9 DEF hit, ks

\* A breakpoint's place in the program.
LEMMA SitesAre ==
    ASSUME NEW s, Shape(s), NEW where \in Places
    PROVE  \A i \in DOMAIN s.bps : /\ s.bps[i].site \in Site /\ s.bps[i].site \in Place
                                   /\ where[s.bps[i].site] \in Addr \cup {None}
                                   /\ s.bps[i].key \in Key /\ s.bps[i].key[1] \in Addr
                                   /\ s.bps[i].verified \in BOOLEAN /\ s.bps[i].shown \in BOOLEAN
<1> TAKE i \in DOMAIN s.bps
<1>1. s.bps[i] \in Entry
  BY DEF Shape, Listing
<1>2. s.bps[i].site \in Site /\ s.bps[i].key \in Key
      /\ s.bps[i].verified \in BOOLEAN /\ s.bps[i].shown \in BOOLEAN
  BY <1>1 DEF Entry
<1> QED
  BY <1>2 DEF Place, Places, Key

Waiting(s, where) == {i \in DOMAIN s.bps : ~s.bps[i].verified /\ where[s.bps[i].site] # None}

\* Retrying arms what waits and can be located.
LEMMA RetryIs ==
    ASSUME NEW s, Shape(s), NEW where \in Places
    PROVE  /\ Known(s, Waiting(s, where), where)
           /\ Retry(s, where) = Resolve(s, Waiting(s, where), where)
<1>1. Retry(s, where) = Resolve(s, Waiting(s, where), where)
  BY DEF Retry, Waiting
<1> QED
  BY <1>1, SitesAre DEF Known, Waiting

\* Claims moved; a record is lost only where nobody else claims.
LEMMA MoveIs ==
    ASSUME NEW s, Shape(s), NEW o \in Owner, NEW from, NEW to \in SUBSET Key
    PROVE  LET r == Move(s, o, from, to)
           IN  /\ Shape(r)
               /\ r.claims = (s.claims \ ({o} \X from)) \cup ({o} \X to)
               /\ r.gone = s.gone \ ({o} \X to)
               /\ r.over = s.over /\ r.bps = s.bps /\ r.funcs = s.funcs /\ r.seg = s.seg
               /\ \A k \in Key :
                    \/ r.recs[k] = s.recs[k]
                    \/ /\ k \in from /\ r.recs[k] = NoRecord
                       /\ \A p \in Owner \ {o} : <<p, k>> \notin s.claims
<1> DEFINE t == RemoveFor(s, o, from)
           u == ForgetUnclaimed(t, from)
           r == AddFor(u, o, to)
<1>1. /\ Shape(t)
      /\ t.claims = s.claims \ ({o} \X from) /\ t.gone = s.gone
      /\ t.recs = s.recs /\ t.over = s.over /\ t.bps = s.bps /\ t.funcs = s.funcs
      /\ t.seg = s.seg
  BY RemoveForIs
<1>2. Move(s, o, from, to) = r
  BY DEF Move
<1> HIDE DEF t
<1>3. /\ Shape(u)
      /\ u.claims = t.claims /\ u.gone = t.gone
      /\ u.recs = [k \in Key |-> IF k \in from \ Claimed(t) THEN NoRecord ELSE t.recs[k]]
      /\ u.over = t.over /\ u.bps = t.bps /\ u.funcs = t.funcs /\ u.seg = t.seg
  BY <1>1, ForgetIs
<1> HIDE DEF u
<1>4. /\ Shape(r)
      /\ r.claims = u.claims \cup ({o} \X to) /\ r.gone = u.gone \ ({o} \X to)
      /\ r.recs = u.recs /\ r.over = u.over /\ r.bps = u.bps /\ r.funcs = u.funcs
      /\ r.seg = u.seg
  BY <1>3, AddForIs
<1> HIDE DEF r
<1>5. \A k \in Key : r.recs[k] = s.recs[k] \/ (k \in from \ Claimed(t) /\ r.recs[k] = NoRecord)
  BY <1>1, <1>3, <1>4
<1>6. \A k : k \notin Claimed(t) => \A p \in Owner \ {o} : <<p, k>> \notin s.claims
  <2> SUFFICES ASSUME NEW k, NEW p \in Owner \ {o}, <<p, k>> \in s.claims
               PROVE  k \in Claimed(t)
    OBVIOUS
  <2>1. <<p, k>> \in t.claims
    BY <1>1
  <2> QED
    BY <2>1 DEF Claimed
<1> QED
  BY <1>1, <1>2, <1>3, <1>4, <1>5, <1>6

\* The source breakpoints a bank's discovery moves, and the state once it has.
Moved(s, where) ==
    {i \in DOMAIN s.bps :
        LET e == s.bps[i] IN
        /\ e.verified
        /\ where[e.site] = e.key[1]
        /\ KeyFor(s, e, e.key[1]) # e.key}

Lifted(s, where) == Move(s, "source", KeysAt(s.bps, Moved(s, where)), {})

SourcesMoved(s, where) == Resolve(Lifted(s, where), Moved(s, where), where)

\* The claims of what moves, lifted.
LEMMA LiftedIs ==
    ASSUME NEW s, Shape(s), NEW where
    PROVE  LET from == KeysAt(s.bps, Moved(s, where))
               m == Lifted(s, where)
           IN  /\ Shape(m)
               /\ m.claims = s.claims \ ({"source"} \X from) /\ m.gone = s.gone
               /\ m.over = s.over /\ m.bps = s.bps /\ m.funcs = s.funcs /\ m.seg = s.seg
               /\ \A k \in Key : m.recs[k] = s.recs[k] \/ (k \in from /\ m.recs[k] = NoRecord)
<1> DEFINE from == KeysAt(s.bps, Moved(s, where))
           m == Lifted(s, where)
<1>1. {} \in SUBSET Key /\ {"source"} \X {} = {} /\ "source" \in Owner
  BY DEF Owner
<1>2. m = Move(s, "source", from, {})
  BY DEF Lifted
<1> HIDE DEF m, from
<1>3. /\ Shape(m)
      /\ m.claims = (s.claims \ ({"source"} \X from)) \cup ({"source"} \X {})
      /\ m.gone = s.gone \ ({"source"} \X {})
      /\ m.over = s.over /\ m.bps = s.bps /\ m.funcs = s.funcs /\ m.seg = s.seg
      /\ \A k \in Key : m.recs[k] = s.recs[k] \/ (k \in from /\ m.recs[k] = NoRecord)
  BY <1>1, <1>2, MoveIs
<1> QED
  BY <1>1, <1>3 DEF m, from

\* Moving the functions touches no source claim, and no record under one.
LEMMA RebankIs ==
    ASSUME NEW s, Shape(s), NEW where \in Places
    PROVE  LET m == Lifted(s, where)
               t == SourcesMoved(s, where)
               r == Rebank(s, where)
           IN  /\ Known(m, Moved(s, where), where)
               /\ Shape(t) /\ Shape(r)
               /\ \A x : x[1] # "function" => /\ x \in r.claims <=> x \in t.claims
                                              /\ x \in r.gone <=> x \in t.gone
               /\ r.gone \subseteq t.gone
               /\ r.bps = t.bps /\ r.over = t.over /\ r.seg = t.seg
               /\ \A k \in Key : \/ r.recs[k] = t.recs[k]
                                 \/ /\ Name # {} /\ <<"source", k>> \notin t.claims
                                    /\ r.recs[k] = NoRecord
<1> DEFINE is == Moved(s, where)
           m == Lifted(s, where)
           t == SourcesMoved(s, where)
<1>1. Shape(m) /\ m.bps = s.bps
  BY LiftedIs
<1> HIDE DEF m
<1>2. Known(m, is, where)
  BY <1>1, SitesAre DEF Known, Moved
<1>3. Shape(t)
  BY <1>1, <1>2, ResolveIs DEF SourcesMoved, m
<1> HIDE DEF t
<1> DEFINE called == {n \in DOMAIN t.funcs :
                        where[n] = t.funcs[n][1] /\ Normal(where[n], t.seg) # t.funcs[n]}
           old == {t.funcs[n] : n \in called}
           new == {Normal(where[n], t.seg) : n \in called}
           u == Move(t, "function", old, new)
           funcs == [n \in DOMAIN t.funcs |-> IF n \in called THEN Normal(where[n], t.seg) ELSE t.funcs[n]]
           r == [u EXCEPT !.funcs = funcs]
<1>4. \A n \in called : n \in Name /\ Normal(where[n], t.seg) \in Key
  <2> TAKE n \in called
  <2>1. n \in Name /\ t.funcs[n] \in Key /\ where[n] = t.funcs[n][1]
    BY <1>3 DEF Shape, Called
  <2>2. where[n] \in Addr /\ t.seg \in Selector
    BY <1>3, <2>1 DEF Key, Shape
  <2> QED
    BY <2>1, <2>2, NormalIn
<1>5. new \in SUBSET Key
  BY <1>4
<1>6. Name = {} => old = {}
  BY <1>4
<1>7. Called(funcs)
  BY <1>3, <1>4 DEF Shape, Called
<1>8. Rebank(s, where) = [u EXCEPT !.funcs = [n \in DOMAIN @ |->
                             IF n \in called THEN Normal(where[n], t.seg) ELSE @[n]]]
  BY DEF Rebank, t, SourcesMoved, Lifted, Moved, KeysAt
<1> HIDE DEF old, new, called
<1>9. /\ Shape(u)
      /\ u.claims = (t.claims \ ({"function"} \X old)) \cup ({"function"} \X new)
      /\ u.gone = t.gone \ ({"function"} \X new)
      /\ u.over = t.over /\ u.bps = t.bps /\ u.funcs = t.funcs /\ u.seg = t.seg
      /\ \A k \in Key : \/ u.recs[k] = t.recs[k]
                        \/ /\ k \in old /\ u.recs[k] = NoRecord
                           /\ <<"source", k>> \notin t.claims
  <2>1. {"function", "source"} \subseteq Owner
    BY DEF Owner
  <2> QED
    BY <1>3, <1>5, <2>1, MoveIs
<1> HIDE DEF u
<1>10. Rebank(s, where) = r
  <2>1. DOMAIN u.funcs = DOMAIN t.funcs /\ \A n \in DOMAIN t.funcs : u.funcs[n] = t.funcs[n]
    BY <1>9
  <2>2. "funcs" \in DOMAIN u
    BY <1>9 DEF Shape, Fields
  <2> QED
    BY <1>8, <2>1, <2>2
<1> HIDE DEF funcs
<1>11. /\ Shape(r)
       /\ r.claims = u.claims /\ r.gone = u.gone /\ r.recs = u.recs /\ r.over = u.over
       /\ r.bps = u.bps /\ r.seg = u.seg
  BY <1>7, <1>9, WithFuncs
<1> HIDE DEF r
<1>12. \A x : x[1] # "function" => /\ x \in r.claims <=> x \in t.claims
                                   /\ x \in r.gone <=> x \in t.gone
  <2>1. \A x, ks : x \in {"function"} \X ks => x[1] = "function"
    OBVIOUS
  <2> QED
    BY <1>9, <1>11, <2>1
<1>13. \A k \in Key : \/ r.recs[k] = t.recs[k]
                       \/ /\ Name # {} /\ <<"source", k>> \notin t.claims
                          /\ r.recs[k] = NoRecord
  BY <1>6, <1>9, <1>11
<1> QED
  BY <1>1, <1>2, <1>3, <1>9, <1>10, <1>11, <1>12, <1>13 DEF m, t

\* What a session leaves: no list and no claim of a source or an instruction.
LEMMA ReleaseIs ==
    ASSUME NEW s, Shape(s)
    PROVE  LET r == Release(s)
           IN  /\ Shape(r) /\ r.bps = <<>> /\ r.gone = s.gone
               /\ \A k \in Key : <<"source", k>> \notin r.claims /\ <<"instruction", k>> \notin r.claims
<1> DEFINE t == ClearOwner(s, "source")
           u == ClearOwner(t, "function")
           v == ClearOwner(u, "instruction")
           w == [v EXCEPT !.bps = <<>>]
<1>1. Shape(t) /\ t.gone = s.gone /\ \A x : x \in t.claims <=> x \in s.claims /\ x[1] # "source"
  BY ClearOwnerIs DEF Owner
<1>2. Release(s) = [w EXCEPT !.funcs = <<>>]
  BY DEF Release
<1> HIDE DEF t
<1>3. Shape(u) /\ u.gone = t.gone /\ \A x : x \in u.claims <=> x \in t.claims /\ x[1] # "function"
  BY <1>1, ClearOwnerIs DEF Owner
<1> HIDE DEF u
<1>4. Shape(v) /\ v.gone = u.gone /\ \A x : x \in v.claims <=> x \in u.claims /\ x[1] # "instruction"
  BY <1>3, ClearOwnerIs DEF Owner
<1> HIDE DEF v
<1>5. Listing(<<>>) /\ Called(<<>>)
  BY DEF Listing, Called
<1>6. Shape(w) /\ w.claims = v.claims /\ w.gone = v.gone /\ w.bps = <<>>
  BY <1>4, <1>5, WithBps
<1> HIDE DEF w
<1> DEFINE r == [w EXCEPT !.funcs = <<>>]
<1>7. Shape(r) /\ r.claims = w.claims /\ r.gone = w.gone /\ r.bps = <<>>
  BY <1>5, <1>6, WithFuncs
<1> HIDE DEF r
<1>8. \A k \in Key : <<"source", k>> \notin r.claims /\ <<"instruction", k>> \notin r.claims
  BY <1>1, <1>3, <1>4, <1>6, <1>7
<1> QED
  BY <1>1, <1>2, <1>3, <1>4, <1>6, <1>7, <1>8 DEF r

-----------------------------------------------------------------------------
(* The type invariant.                                                     *)

TypeInv == info \in Places /\ Shape(d) /\ session \in 1 .. Sessions

Deleted(s, k) ==
    LET held == {x \in s.claims : x[2] = k}
    IN  [s EXCEPT !.claims = @ \ held, !.gone = @ \cup held]

\* What a person's delete changes.
LEMMA DeletedIs ==
    ASSUME NEW s, Shape(s), NEW k
    PROVE  LET r == Deleted(s, k)
           IN  /\ Shape(r)
               /\ \A x : x \in r.claims <=> x \in s.claims /\ x[2] # k
               /\ \A x : x \in r.gone <=> x \in s.gone \/ (x \in s.claims /\ x[2] = k)
               /\ r.recs = s.recs /\ r.over = s.over /\ r.bps = s.bps /\ r.funcs = s.funcs
               /\ r.seg = s.seg
<1> DEFINE r == Deleted(s, k)
           held == {x \in s.claims : x[2] = k}
<1>1. /\ DOMAIN r = Fields
      /\ r.claims = s.claims \ held /\ r.gone = s.gone \cup held
      /\ r.recs = s.recs /\ r.over = s.over /\ r.bps = s.bps /\ r.funcs = s.funcs
      /\ r.seg = s.seg
  BY DEF Deleted, Shape, Fields
<1> HIDE DEF r
<1>2. r.claims \subseteq Owner \X Key /\ r.gone \subseteq (Owner \X Key) \ r.claims
  BY <1>1 DEF Shape
<1> QED
  BY <1>1, <1>2 DEF Shape, r

\* What a load replaced is invalidated, and its bank forgotten.
Dropped(s, range) == Unlearn(Invalidate(s, range), range)

\* What a load replaced, and the bank forgotten with it.
LEMMA DroppedIs ==
    ASSUME NEW s, Shape(s), NEW range
    PROVE  LET r == Dropped(s, range)
           IN  /\ Shape(r)
               /\ r.claims = s.claims \ ({"source"} \X NormalKeys({s.bps[i] : i \in Hit(s, range)}))
               /\ r.gone = s.gone /\ r.recs = s.recs /\ r.over = s.over /\ r.funcs = s.funcs
               /\ \A i \in Hit(s, range) : ~r.bps[i].shown
<1> DEFINE t == Invalidate(s, range)
<1>1. /\ Shape(t)
      /\ t.claims = s.claims \ ({"source"} \X NormalKeys({s.bps[i] : i \in Hit(s, range)}))
      /\ t.gone = s.gone /\ t.recs = s.recs /\ t.over = s.over /\ t.funcs = s.funcs
      /\ \A i \in Hit(s, range) : ~t.bps[i].shown
  BY InvalidateIs
<1> HIDE DEF t
<1>2. LET r == Unlearn(t, range)
      IN  /\ Shape(r)
          /\ r.claims = t.claims /\ r.gone = t.gone /\ r.recs = t.recs /\ r.over = t.over
          /\ r.bps = t.bps /\ r.funcs = t.funcs
  BY <1>1, UnlearnIs
<1> QED
  BY <1>1, <1>2 DEF Dropped, t

\* The two loads that bring debug info.
LEMMA LoadsAre ==
    ASSUME TypeInv, LoadProgram \/ ReplaceInfo
    PROVE  /\ info' \in Infos /\ session' = session
           /\ \E range : LET t == Dropped(d, range) IN
                /\ ~Reloads => t.bps = d.bps
                /\ \/ d' = t /\ \A x \in Place : info'[x] \in {info[x], None}
                   \/ d' = Retry(t, info')
                   \/ \E b \in Selector : d' = Rebank(Learn(Retry(t, info'), b), info')
<1>1. CASE LoadProgram
  <2>1. PICK new \in Infos, range \in SUBSET Addr, read \in BOOLEAN, b \in Selector :
          LET t == Dropped(d, range)
          IN  /\ ~Reloads => t.bps = d.bps
              /\ ~read => \A x \in Place : new[x] = (IF info[x] \in range THEN None ELSE info[x])
              /\ info' = new
              /\ d' = IF ~read THEN t
                      ELSE IF b = ANY THEN Retry(t, new)
                      ELSE Rebank(Learn(Retry(t, new), b), new)
              /\ UNCHANGED session
    BY <1>1 DEF LoadProgram, Dropped
  <2> QED
    BY <2>1
<1>2. CASE ReplaceInfo
  <2>1. PICK new \in Infos :
          LET t == Dropped(d, Addr)
          IN  /\ ~Reloads => t.bps = d.bps
              /\ info' = new
              /\ d' = Retry(t, new)
              /\ UNCHANGED session
    BY <1>2 DEF ReplaceInfo, Dropped
  <2> QED
    BY <2>1
<1> QED
  BY <1>1, <1>2

\* A retry keeps the lists what they are.
LEMMA RetryShape ==
    ASSUME NEW s, Shape(s), NEW where \in Places
    PROVE  Shape(Retry(s, where))
<1> DEFINE is == Waiting(s, where)
<1>1. Known(s, is, where) /\ Retry(s, where) = Resolve(s, is, where)
  BY RetryIs
<1> HIDE DEF is
<1> QED
  BY <1>1, ResolveIs

\* A request for instruction breakpoints names keys.
LEMMA InstructionsAre ==
    ASSUME ClientSetsInstructions
    PROVE  /\ UNCHANGED <<info, session>>
           /\ \E wants : /\ DOMAIN wants \in SUBSET Key
                         /\ \A k \in DOMAIN wants : wants[k] \in DumpWants
                         /\ d' = SetInstructions(d, wants)
<1>1. PICK keys \in SUBSET {Normal(k[1], k[2]) : k \in Key} :
        \E wants \in [keys -> DumpWants] : Step(SetInstructions(d, wants))
  BY DEF ClientSetsInstructions
<1>2. PICK wants \in [keys -> DumpWants] : Step(SetInstructions(d, wants))
  BY <1>1
<1>3. keys \in SUBSET Key
  BY NormalTwice
<1> QED
  BY <1>2, <1>3 DEF Step

\* A load that nothing describes takes debug info away and moves no breakpoint.
LEMMA UndescribedIs ==
    ASSUME TypeInv, LoadUndescribed
    PROVE  /\ session' = session /\ info' \in Places
           /\ \E range \in SUBSET Addr :
                /\ \A x \in Place : info'[x] = IF info[x] \in range THEN None ELSE info[x]
                /\ d' = Unlearn(d, range)
BY DEF LoadUndescribed, TypeInv, Places

\* Every step keeps the types.
LEMMA ShapeStep ==
    ASSUME TypeInv, [Next]_vars
    PROVE  TypeInv'
<1> USE DEF TypeInv
<1>0. Infos \subseteq Places
  BY DapAssumption DEF Places
<1>1. CASE ClientSetsBreakpoints
  <2>1. PICK f \in File, lines \in Lists : \E wants \in [DOMAIN lines -> Wants] :
          Step(SetBreakpoints(d, f, lines, wants))
    BY <1>1 DEF ClientSetsBreakpoints
  <2>2. PICK wants \in [DOMAIN lines -> Wants] : Step(SetBreakpoints(d, f, lines, wants))
    BY <2>1
  <2> DEFINE t == Asked(d, f, lines, wants)
             is == Resolvable(d, f, lines, wants)
  <2>3. Shape(t) /\ Known(t, is, info) /\ SetBreakpoints(d, f, lines, wants) = Resolve(t, is, info)
    BY SetBreakpointsIs
  <2> HIDE DEF t, is
  <2> QED
    BY <2>2, <2>3, ResolveIs DEF Step
<1>2. CASE ClientSetsFunctions
  BY <1>2, SetFunctionsIs DEF ClientSetsFunctions, Step
<1>3. CASE ClientSetsInstructions
  <2>1. UNCHANGED <<info, session>>
    BY <1>3, InstructionsAre
  <2>2. PICK wants : /\ DOMAIN wants \in SUBSET Key
                     /\ \A k \in DOMAIN wants : wants[k] \in DumpWants
                     /\ d' = SetInstructions(d, wants)
    BY <1>3, InstructionsAre
  <2>3. Shape(SetInstructions(d, wants))
    BY <2>2, SetInstructionsIs
  <2> QED
    BY <2>1, <2>2, <2>3
<1>4. CASE NewSession
  <2>1. Shape(Release(d))
    BY ReleaseIs
  <2>2. /\ d' = Release(d) /\ info' = info
        /\ session' = session + 1 /\ session < Sessions
    BY <1>4 DEF NewSession
  <2>3. session' \in 1 .. Sessions
    BY <2>2, DapAssumption
  <2> QED
    BY <2>1, <2>2, <2>3
<1>5. CASE LoadProgram \/ ReplaceInfo
  <2>1. PICK range : LET t == Dropped(d, range) IN
          \/ d' = t
          \/ d' = Retry(t, info')
          \/ \E b \in Selector : d' = Rebank(Learn(Retry(t, info'), b), info')
    BY <1>5, LoadsAre
  <2>2. info' \in Places /\ session' = session
    BY <1>0, <1>5, LoadsAre
  <2> DEFINE t == Dropped(d, range)
             u == Retry(t, info')
  <2>3. Shape(t)
    BY DroppedIs
  <2> HIDE DEF t
  <2>4. Shape(u)
    BY <2>2, <2>3, RetryShape
  <2> HIDE DEF u
  <2>5. \A b \in Selector : Shape(Learn(u, b))
    BY <2>4, LearnIs
  <2>6. \A b \in Selector : Shape(Rebank(Learn(u, b), info'))
    BY <2>2, <2>5, RebankIs
  <2>7. d' = t \/ d' = u \/ \E b \in Selector : d' = Rebank(Learn(u, b), info')
    BY <2>1 DEF t, u
  <2> QED
    BY <2>2, <2>3, <2>4, <2>6, <2>7
<1>6. CASE LoadAgain
  <2>1. PICK b \in Bank : Step(Rebank(Learn(d, b), info))
    BY <1>6 DEF LoadAgain
  <2>2. Shape(Learn(d, b))
    BY LearnIs DEF Selector
  <2> QED
    BY <2>1, <2>2, RebankIs DEF Step
<1>7. CASE LoadUndescribed
  BY <1>7, UndescribedIs, UnlearnIs
<1>8. CASE PersonToggles
  <2>1. PICK k \in Toggled : Step(Deleted(d, k)) \/ Step(AddFor(d, "other", {k}))
    BY <1>8 DEF PersonToggles, Deleted
  <2>2. {k} \in SUBSET Key /\ "other" \in Owner
    BY DapAssumption DEF Owner
  <2> QED
    BY <2>1, <2>2, DeletedIs, AddForIs DEF Step
<1>9. CASE UNCHANGED vars
  BY <1>9 DEF vars
<1> QED
  BY <1>1, <1>2, <1>3, <1>4, <1>5, <1>6, <1>7, <1>8, <1>9 DEF Next

\* They hold at the start.
LEMMA ShapeInit ==
    ASSUME Init
    PROVE  TypeInv
<1>1. info \in Places /\ session \in 1 .. Sessions
  BY DapAssumption DEF Init, Places
<1>2. Listing(<<>>) /\ Called(<<>>)
  BY DEF Listing, Called
<1>3. [k \in Key |-> NoRecord] \in [Key -> Record]
  BY DEF NoRecord, Record
<1>4. Shape(d)
  <2>1. /\ DOMAIN d = Fields
        /\ d.claims = {} /\ d.gone = {} /\ d.recs = [k \in Key |-> NoRecord] /\ d.over = {}
        /\ d.bps = <<>> /\ d.funcs = <<>> /\ d.seg = ANY
    BY DEF Init, Fields
  <2> QED
    BY <2>1, <1>2, <1>3 DEF Shape, Selector
<1> QED
  BY <1>1, <1>4 DEF TypeInv

\* And so always.
LEMMA ShapeKept == Spec => []TypeInv
  BY ShapeInit, ShapeStep, PTL DEF Spec

\* The server's lists keep their types through every request, load and
\* deletion: one entry for a line, and none shown that is not verified
\* (debug_server.c, dap_bps).
THEOREM TypeCorrect == Spec => []TypeOK
<1>1. TypeInv => TypeOK
  <2> SUFFICES ASSUME TypeInv PROVE TypeOK
    OBVIOUS
  <2>1. \A i \in DOMAIN d.bps : d.bps[i].site \in Site /\ d.bps[i].key \in Key
    BY SitesAre DEF TypeInv
  <2>2. \A e \in Range(d.bps) : e.site \in Site /\ e.key \in Key /\ (e.shown => e.verified)
    BY <2>1 DEF TypeInv, Shape, Listing, Range
  <2> QED
    BY <2>2 DEF TypeOK, TypeInv, Shape, Listing, Called, Places, Record
<1> QED
  BY <1>1, ShapeKept, PTL

-----------------------------------------------------------------------------
(* What is shown, what is armed and what is said of it.                    *)

\* Two lines may lie at one address.
Shares(x, y) == x # y /\ \E f, g \in Infos : f[x] = g[y] /\ f[x] # None

\* No load replaces what a breakpoint rests on, and lines that share an address
\* share it in every debug info, with nobody pinning one of them to a bank.
KeepOptions ==
    /\ ~Reloads
    /\ \A x, y \in Site : Shares(x, y) =>
         (\A f \in Infos : f[x] = f[y]) /\ (\A w \in Wants : w.pin = ANY)

\* No two lines share an address, and no function's record goes with a claim
\* that a person deleted.
ApartOptions ==
    /\ ~Reloads
    /\ \A x, y \in Site : ~Shares(x, y)
    /\ Name = {} \/ Toggled = {}

\* Places as debug infos give them, some perhaps forgotten.
Given(where) ==
    /\ where \in Places
    /\ \A x \in Site : where[x] # None => \E f \in Infos : f[x] = where[x]
    /\ KeepOptions => \A x, y \in Site : Shares(x, y) => where[x] = where[y]

\* A verified breakpoint is shown, at an address some debug info had for it.
Bound(s) ==
    /\ \A i \in DOMAIN s.bps :
         s.bps[i].verified =>
            /\ s.bps[i].shown
            /\ Normal(s.bps[i].key[1], s.bps[i].key[2]) = s.bps[i].key
            /\ \E f \in Infos : f[s.bps[i].site] = s.bps[i].key[1]
    /\ \A i \in DOMAIN s.bps : \E w \in Wants : s.bps[i].pin = w.pin

\* Leaving aside some places of the list: what is shown is armed, or was until
\* a person took it away, and what is armed is shown.
Book(s, is) ==
    /\ \A i \in DOMAIN s.bps \ is :
         s.bps[i].shown => <<"source", s.bps[i].key>> \in s.claims \cup s.gone
    /\ \A k : <<"source", k>> \in s.claims =>
         \E i \in DOMAIN s.bps \ is : s.bps[i].shown /\ s.bps[i].key = k
    /\ Toggled = {} => s.gone = {}

\* Leaving them aside: each has its condition, and an instruction breakpoint
\* beside one that has it last does not go with the record.
Told(s, is) ==
    \A i \in DOMAIN s.bps \ is :
        s.bps[i].shown /\ s.bps[i].key \notin s.over =>
            /\ s.recs[s.bps[i].key].cond = s.bps[i].cond
            /\ <<"instruction", s.bps[i].key>> \in s.claims =>
                 <<"source", s.bps[i].key>> \in s.claims

Keeping(s, is) ==
    /\ Shape(s) /\ Bound(s)
    /\ KeepOptions => Book(s, is)
    /\ ApartOptions => Told(s, is)

\* Lines that share nothing share it in every debug info.
LEMMA ApartKeeps == ApartOptions => KeepOptions
BY DEF ApartOptions, KeepOptions

\* Lines that share nothing have keys of their own.
LEMMA Separate ==
    ASSUME NEW s, Shape(s), Bound(s), ApartOptions,
           NEW i \in DOMAIN s.bps, NEW j \in DOMAIN s.bps,
           s.bps[i].verified, s.bps[j].verified, s.bps[i].key = s.bps[j].key
    PROVE  i = j
<1>1. s.bps[i].site \in Site /\ s.bps[j].site \in Site /\ s.bps[i].key[1] \in Addr
  <2>1. s.bps[i] \in Entry /\ s.bps[j] \in Entry
    BY DEF Shape, Listing
  <2> QED
    BY <2>1 DEF Entry, Key
<1>2. PICK f \in Infos : f[s.bps[i].site] = s.bps[i].key[1]
  BY DEF Bound
<1>3. PICK g \in Infos : g[s.bps[j].site] = s.bps[j].key[1]
  BY DEF Bound
<1>4. s.bps[i].key[1] # None
  BY <1>1, DapAssumption
<1>5. s.bps[i].site = s.bps[j].site
  BY <1>1, <1>2, <1>3, <1>4 DEF ApartOptions, Shares
<1> QED
  BY <1>5 DEF Shape, Listing

\* What shares a key is moved to another bank together.
LEMMA Together ==
    ASSUME NEW s, Shape(s), Bound(s), KeepOptions, NEW where, Given(where),
           NEW i \in Moved(s, where), NEW j \in DOMAIN s.bps,
           s.bps[j].shown, s.bps[i].key = s.bps[j].key
    PROVE  j \in Moved(s, where)
<1>1. i \in DOMAIN s.bps /\ s.bps[i].verified /\ s.bps[j].verified
  BY DEF Moved, Shape, Listing
<1>2. s.bps[i].site \in Site /\ s.bps[j].site \in Site /\ s.bps[i].key[1] \in Addr
  <2>1. s.bps[i] \in Entry /\ s.bps[j] \in Entry
    BY <1>1 DEF Shape, Listing
  <2> QED
    BY <2>1 DEF Entry, Key
<1>3. CASE i = j
  BY <1>3
<1>4. CASE i # j
  <2>1. s.bps[i].site # s.bps[j].site
    BY <1>1, <1>4 DEF Shape, Listing
  <2>2. PICK f \in Infos : f[s.bps[i].site] = s.bps[i].key[1]
    BY <1>1 DEF Bound
  <2>3. PICK g \in Infos : g[s.bps[j].site] = s.bps[j].key[1]
    BY <1>1 DEF Bound
  <2>4. Shares(s.bps[i].site, s.bps[j].site)
    BY <1>2, <2>1, <2>2, <2>3, DapAssumption DEF Shares
  <2>5. where[s.bps[i].site] = where[s.bps[j].site]
    BY <1>2, <2>4 DEF Given
  <2>6. s.bps[i].pin = ANY /\ s.bps[j].pin = ANY
    <3>1. \A w \in Wants : w.pin = ANY
      BY <1>2, <2>4 DEF KeepOptions
    <3> QED
      BY <1>1, <3>1 DEF Bound
  <2>7. KeyFor(s, s.bps[i], s.bps[i].key[1]) = KeyFor(s, s.bps[j], s.bps[j].key[1])
    BY <2>6 DEF KeyFor
  <2> QED
    BY <1>1, <2>5, <2>7 DEF Moved
<1> QED
  BY <1>3, <1>4

\* Arming some entries leaves no place aside.
LEMMA ResolveBound ==
    ASSUME NEW s, Shape(s), Bound(s), NEW is, NEW where, Given(where), Known(s, is, where)
    PROVE  Bound(Resolve(s, is, where))
<1> DEFINE r == Resolve(s, is, where)
<1>1. /\ DOMAIN r.bps = DOMAIN s.bps
      /\ \A i \in DOMAIN s.bps : r.bps[i].site = s.bps[i].site /\ r.bps[i].pin = s.bps[i].pin
      /\ \A i \in is : /\ r.bps[i].key = KeyNow(s, i, where)
                       /\ r.bps[i].verified /\ r.bps[i].shown
      /\ \A i \in DOMAIN s.bps \ is : r.bps[i] = s.bps[i]
  BY ResolveIs
<1> HIDE DEF r
<1>2. \A i \in is : /\ i \in DOMAIN s.bps /\ s.bps[i] \in Entry
                    /\ s.bps[i].site \in Site /\ where[s.bps[i].site] \in Addr
  <2> TAKE i \in is
  <2>1. i \in DOMAIN s.bps /\ where[s.bps[i].site] \in Addr
    BY DEF Known
  <2>2. s.bps[i] \in Entry
    BY <2>1 DEF Shape, Listing
  <2> QED
    BY <2>1, <2>2 DEF Entry
<1>3. \A i \in is : /\ Normal(r.bps[i].key[1], r.bps[i].key[2]) = r.bps[i].key
                    /\ \E f \in Infos : f[r.bps[i].site] = r.bps[i].key[1]
  <2> TAKE i \in is
  <2>1. /\ KeyNow(s, i, where)[1] = where[s.bps[i].site]
        /\ Normal(where[s.bps[i].site], KeyNow(s, i, where)[2]) = KeyNow(s, i, where)
    BY <1>2, KeyForIn DEF KeyNow
  <2>2. \E f \in Infos : f[s.bps[i].site] = where[s.bps[i].site]
    BY <1>2, DapAssumption DEF Given
  <2> QED
    BY <1>1, <1>2, <2>1, <2>2
<1> QED
  BY <1>1, <1>3 DEF Bound, r

\* What is armed now is shown, and the other way round.
LEMMA ResolveBook ==
    ASSUME NEW s, Shape(s), NEW is, NEW where, Known(s, is, where), Book(s, is)
    PROVE  Book(Resolve(s, is, where), {})
<1> DEFINE r == Resolve(s, is, where)
           ks == NewKeys(s, is, where)
<1>1. /\ r.claims = s.claims \cup ({"source"} \X ks)
      /\ r.gone = s.gone \ ({"source"} \X ks)
      /\ DOMAIN r.bps = DOMAIN s.bps
      /\ \A i \in is : /\ r.bps[i].key = KeyNow(s, i, where)
                       /\ r.bps[i].verified /\ r.bps[i].shown
      /\ \A i \in DOMAIN s.bps \ is : r.bps[i] = s.bps[i]
  BY ResolveIs
<1> HIDE DEF r
<1>2. is \subseteq DOMAIN s.bps
  BY DEF Known
<1>3. \A i \in is : r.bps[i].key \in ks
  BY <1>1 DEF NewKeys
<1>4. \A k \in ks : \E i \in is : r.bps[i].shown /\ r.bps[i].key = k
  BY <1>1 DEF NewKeys
<1> HIDE DEF ks
<1>5. \A i \in DOMAIN r.bps : r.bps[i].shown => <<"source", r.bps[i].key>> \in r.claims \cup r.gone
  <2> TAKE i \in DOMAIN r.bps
  <2>1. CASE i \in is
    BY <1>1, <1>3, <2>1
  <2>2. CASE i \notin is
    BY <1>1, <2>2 DEF Book
  <2> QED
    BY <2>1, <2>2
<1>6. \A k : <<"source", k>> \in r.claims => \E i \in DOMAIN r.bps : r.bps[i].shown /\ r.bps[i].key = k
  <2> SUFFICES ASSUME NEW k, <<"source", k>> \in r.claims
               PROVE  \E i \in DOMAIN r.bps : r.bps[i].shown /\ r.bps[i].key = k
    OBVIOUS
  <2>1. CASE k \in ks
    BY <1>1, <1>2, <1>4, <2>1
  <2>2. CASE k \notin ks
    <3>1. <<"source", k>> \in s.claims
      BY <1>1, <2>2
    <3>2. PICK i \in DOMAIN s.bps \ is : s.bps[i].shown /\ s.bps[i].key = k
      BY <3>1 DEF Book
    <3> QED
      BY <1>1, <3>2
  <2> QED
    BY <2>1, <2>2
<1>7. Toggled = {} => r.gone = {}
  BY <1>1 DEF Book
<1> QED
  BY <1>5, <1>6, <1>7 DEF Book, r

\* Its condition was stated with it.
LEMMA ResolveTold ==
    ASSUME NEW s, Shape(s), Bound(s), ApartOptions, NEW is, NEW where, Given(where),
           Known(s, is, where), Told(s, is)
    PROVE  Told(Resolve(s, is, where), {})
<1> DEFINE r == Resolve(s, is, where)
           ks == NewKeys(s, is, where)
<1>1. /\ Shape(r)
      /\ r.claims = s.claims \cup ({"source"} \X ks)
      /\ r.over = s.over \ ks
      /\ DOMAIN r.bps = DOMAIN s.bps
      /\ \A i \in DOMAIN s.bps : r.bps[i].cond = s.bps[i].cond
      /\ \A i \in is : /\ r.bps[i].key = KeyNow(s, i, where)
                       /\ r.bps[i].verified /\ r.bps[i].shown
      /\ \A i \in DOMAIN s.bps \ is : r.bps[i] = s.bps[i]
      /\ \A k \in Key \ ks : r.recs[k] = s.recs[k]
      /\ \A k \in ks : \E i \in is : KeyNow(s, i, where) = k /\ r.recs[k].cond = s.bps[i].cond
  BY ResolveIs
<1>2. Bound(r)
  BY ResolveBound
<1> HIDE DEF r
<1>3. is \subseteq DOMAIN s.bps
  BY DEF Known
<1>4. \A i \in is : r.bps[i].key \in ks
  BY <1>1 DEF NewKeys
<1>5. \A k \in ks : \E i \in is : r.bps[i].key = k /\ r.recs[k].cond = r.bps[i].cond
  BY <1>1, <1>3
<1> HIDE DEF ks
<1> SUFFICES ASSUME NEW i \in DOMAIN r.bps, r.bps[i].shown, r.bps[i].key \notin r.over
             PROVE  /\ r.recs[r.bps[i].key].cond = r.bps[i].cond
                    /\ <<"instruction", r.bps[i].key>> \in r.claims =>
                         <<"source", r.bps[i].key>> \in r.claims
  BY DEF Told, r
<1>6. r.bps[i].key \in Key /\ r.bps[i].verified
  <2>1. r.bps[i] \in Entry
    BY <1>1 DEF Shape, Listing
  <2> QED
    BY <1>1, <2>1 DEF Entry, Shape, Listing
<1>7. \A j \in is : r.bps[j].key = r.bps[i].key => j = i
  BY <1>1, <1>2, <1>3, <1>6, Separate
<1>8. CASE i \in is
  <2>1. r.recs[r.bps[i].key].cond = r.bps[i].cond
    BY <1>4, <1>5, <1>7, <1>8
  <2> QED
    BY <1>1, <1>4, <1>8, <2>1
<1>9. CASE i \notin is
  <2>1. r.bps[i].key \notin ks
    BY <1>5, <1>7, <1>9
  <2>2. /\ s.bps[i] = r.bps[i] /\ s.bps[i].shown /\ s.bps[i].key \notin s.over
        /\ r.recs[r.bps[i].key] = s.recs[s.bps[i].key]
    BY <1>1, <1>6, <1>9, <2>1
  <2>3. \A o : <<o, r.bps[i].key>> \in r.claims <=> <<o, r.bps[i].key>> \in s.claims
    BY <1>1, <2>1
  <2> QED
    BY <1>1, <1>9, <2>2, <2>3 DEF Told
<1> QED
  BY <1>8, <1>9

\* All three together.
LEMMA ResolveKeeps ==
    ASSUME NEW s, NEW is, Keeping(s, is), NEW where, Given(where), Known(s, is, where)
    PROVE  Keeping(Resolve(s, is, where), {})
<1>1. Shape(Resolve(s, is, where))
  BY ResolveIs DEF Keeping
<1> QED
  BY <1>1, ResolveBound, ResolveBook, ResolveTold DEF Keeping

\* What a call leaves alone that only has to do with others' claims.
Still(s, r) ==
    /\ Shape(r) /\ r.bps = s.bps /\ r.over = s.over
    /\ \A k : /\ <<"source", k>> \in r.claims <=> <<"source", k>> \in s.claims
              /\ <<"instruction", k>> \in r.claims => <<"instruction", k>> \in s.claims
    /\ \A k : <<"source", k>> \in s.gone => <<"source", k>> \in r.gone
    /\ r.gone \subseteq s.gone
    /\ \A k \in Key : \/ r.recs[k].cond = s.recs[k].cond
                      \/ Name # {} /\ <<"source", k>> \notin s.claims

\* What only has to do with others' claims keeps them.
LEMMA StillKeeps ==
    ASSUME NEW s, NEW is, Keeping(s, is), NEW r, Still(s, r)
    PROVE  Keeping(r, is)
<1>1. Shape(r) /\ Bound(r)
  BY DEF Keeping, Still, Bound
<1>2. ASSUME KeepOptions PROVE Book(r, is)
  <2>1. Book(s, is)
    BY <1>2 DEF Keeping
  <2>2. \A k : <<"source", k>> \in s.claims \cup s.gone => <<"source", k>> \in r.claims \cup r.gone
    BY DEF Still
  <2>3. r.bps = s.bps /\ \A k : <<"source", k>> \in r.claims => <<"source", k>> \in s.claims
    BY DEF Still
  <2>4. Toggled = {} => r.gone = {}
    BY <2>1 DEF Book, Still
  <2> QED
    BY <2>1, <2>2, <2>3, <2>4 DEF Book
<1>3. ASSUME ApartOptions PROVE Told(r, is)
  <2>1. Book(s, is) /\ Told(s, is)
    BY <1>3, ApartKeeps DEF Keeping
  <2>2. Name = {} \/ s.gone = {}
    BY <1>3, <2>1 DEF ApartOptions, Book
  <2>3. r.bps = s.bps /\ r.over = s.over
    BY DEF Still
  <2> SUFFICES ASSUME NEW i \in DOMAIN s.bps \ is, s.bps[i].shown, s.bps[i].key \notin s.over
               PROVE  /\ r.recs[s.bps[i].key].cond = s.bps[i].cond
                      /\ <<"instruction", s.bps[i].key>> \in r.claims =>
                           <<"source", s.bps[i].key>> \in r.claims
    BY <2>3 DEF Told
  <2>4. s.bps[i].key \in Key
    <3>1. s.bps[i] \in Entry
      BY DEF Keeping, Shape, Listing
    <3> QED
      BY <3>1 DEF Entry
  <2>5. Name # {} => <<"source", s.bps[i].key>> \in s.claims
    BY <2>1, <2>2 DEF Book
  <2>6. r.recs[s.bps[i].key].cond = s.recs[s.bps[i].key].cond
    BY <2>4, <2>5 DEF Still
  <2> QED
    BY <2>1, <2>6 DEF Told, Still
<1> QED
  BY <1>1, <1>2, <1>3 DEF Keeping

\* The entries that stay are verified ones that are armed again, and others.
LEMMA KeptAre ==
    ASSUME NEW s, Shape(s), Bound(s), NEW f
    PROVE  LET l == OthersOf(s.bps, f)
           IN  /\ \A i \in DOMAIN l : l[i].verified => l[i].key \in KeptKeys(s, f)
               /\ \A k \in KeptKeys(s, f) : \E i \in DOMAIN l : l[i].verified /\ l[i].key = k
               /\ \A i \in DOMAIN l : \E j \in DOMAIN s.bps : s.bps[j] = l[i]
<1> DEFINE l == OthersOf(s.bps, f)
<1>1. \A i \in DOMAIN l : \E j \in DOMAIN s.bps : s.bps[j] = l[i]
  BY OthersAre DEF Shape
<1> HIDE DEF l
<1>2. \A i \in DOMAIN l : l[i].verified => Normal(l[i].key[1], l[i].key[2]) = l[i].key
  BY <1>1 DEF Bound
<1>3. KeptKeys(s, f) = NormalKeys({e \in Range(l) : e.verified})
  BY DEF KeptKeys, l
<1> QED
  BY <1>1, <1>2, <1>3 DEF NormalKeys, Range, l

\* What stayed of the list is armed again, and the new entries are not shown yet.
LEMMA AskedKeeps ==
    ASSUME NEW s, Keeping(s, {}), info \in Places,
           NEW f \in File, NEW lines \in Lists, NEW wants \in [DOMAIN lines -> Wants]
    PROVE  Keeping(Asked(s, f, lines, wants), Resolvable(s, f, lines, wants))
<1> DEFINE r == Restate(s, f)
           t == Asked(s, f, lines, wants)
           is == Resolvable(s, f, lines, wants)
           ks == KeptKeys(s, f)
<1>1. Shape(s) /\ Bound(s)
  BY DEF Keeping
<1>2. /\ r.gone = s.gone \ ({"source"} \X ks)
      /\ \A x : x \in r.claims <=> (x \in s.claims /\ x[1] # "source") \/ x \in {"source"} \X ks
      /\ r.recs = s.recs /\ r.over = s.over /\ r.bps = OthersOf(s.bps, f)
  BY <1>1, RestateIs
<1>3. /\ \A i \in DOMAIN r.bps : r.bps[i].verified => r.bps[i].key \in ks
      /\ \A k \in ks : \E i \in DOMAIN r.bps : r.bps[i].verified /\ r.bps[i].key = k
      /\ \A i \in DOMAIN r.bps : \E j \in DOMAIN s.bps : s.bps[j] = r.bps[i]
  BY <1>1, <1>2, KeptAre
<1>4. /\ Shape(t)
      /\ t.claims = r.claims /\ t.gone = r.gone /\ t.recs = r.recs /\ t.over = r.over
      /\ DOMAIN r.bps \subseteq DOMAIN t.bps
      /\ \A i \in DOMAIN r.bps : t.bps[i] = r.bps[i]
      /\ \A i \in DOMAIN t.bps \ DOMAIN r.bps :
           /\ ~t.bps[i].verified /\ ~t.bps[i].shown
           /\ \E w \in Wants : t.bps[i].pin = w.pin /\ t.bps[i].cond = w.cond
  BY <1>1, AskedIs
<1>5. is \subseteq DOMAIN t.bps \ DOMAIN r.bps
  BY <1>1, SetBreakpointsIs
<1> HIDE DEF r, t, is, ks
<1>6. Bound(t)
  <2>1. \A i \in DOMAIN t.bps : t.bps[i].verified =>
          /\ t.bps[i].shown
          /\ Normal(t.bps[i].key[1], t.bps[i].key[2]) = t.bps[i].key
          /\ \E g \in Infos : g[t.bps[i].site] = t.bps[i].key[1]
    <3> SUFFICES ASSUME NEW i \in DOMAIN t.bps, t.bps[i].verified
                 PROVE  /\ t.bps[i].shown
                        /\ Normal(t.bps[i].key[1], t.bps[i].key[2]) = t.bps[i].key
                        /\ \E g \in Infos : g[t.bps[i].site] = t.bps[i].key[1]
      OBVIOUS
    <3>1. PICK j \in DOMAIN s.bps : s.bps[j] = t.bps[i]
      BY <1>3, <1>4
    <3> QED
      BY <1>1, <3>1 DEF Bound
  <2>2. \A i \in DOMAIN t.bps : \E w \in Wants : t.bps[i].pin = w.pin
    <3> TAKE i \in DOMAIN t.bps
    <3>1. CASE i \in DOMAIN r.bps
      <4>1. PICK j \in DOMAIN s.bps : s.bps[j] = t.bps[i]
        BY <1>3, <1>4, <3>1
      <4> QED
        BY <1>1, <4>1 DEF Bound
    <3>2. CASE i \notin DOMAIN r.bps
      BY <1>4, <3>2
    <3> QED
      BY <3>1, <3>2
  <2> QED
    BY <2>1, <2>2 DEF Bound
<1>7. \A k : <<"source", k>> \in t.claims <=> k \in ks
  BY <1>2, <1>4
<1>8. \A i \in DOMAIN t.bps : t.bps[i].shown =>
        i \in DOMAIN r.bps /\ <<"source", t.bps[i].key>> \in t.claims
  <2> SUFFICES ASSUME NEW i \in DOMAIN t.bps, t.bps[i].shown
               PROVE  i \in DOMAIN r.bps /\ <<"source", t.bps[i].key>> \in t.claims
    OBVIOUS
  <2>1. i \in DOMAIN r.bps
    BY <1>4
  <2>2. t.bps[i].verified
    BY <1>4 DEF Shape, Listing
  <2> QED
    BY <1>3, <1>4, <1>7, <2>1, <2>2
<1>9. ASSUME KeepOptions PROVE Book(t, is)
  <2>1. \A k \in ks : \E i \in DOMAIN t.bps \ is : t.bps[i].shown /\ t.bps[i].key = k
    <3> TAKE k \in ks
    <3>1. PICK i \in DOMAIN r.bps : r.bps[i].verified /\ r.bps[i].key = k
      BY <1>3
    <3>2. i \in DOMAIN t.bps \ is /\ t.bps[i] = r.bps[i]
      BY <1>4, <1>5
    <3> QED
      BY <1>6, <3>1, <3>2 DEF Bound
  <2>2. Toggled = {} => t.gone = {}
    BY <1>2, <1>4, <1>9 DEF Keeping, Book
  <2> QED
    BY <1>7, <1>8, <2>1, <2>2 DEF Book
<1>10. ASSUME ApartOptions PROVE Told(t, is)
  <2> SUFFICES ASSUME NEW i \in DOMAIN t.bps \ is, t.bps[i].shown, t.bps[i].key \notin t.over
               PROVE  /\ t.recs[t.bps[i].key].cond = t.bps[i].cond
                      /\ <<"source", t.bps[i].key>> \in t.claims
    BY DEF Told
  <2>1. PICK j \in DOMAIN s.bps : s.bps[j] = t.bps[i]
    BY <1>3, <1>4, <1>8
  <2>2. Told(s, {})
    BY <1>10 DEF Keeping
  <2>3. t.recs = s.recs /\ t.over = s.over /\ s.bps[j].shown
    BY <1>2, <1>4, <2>1
  <2>4. s.recs[s.bps[j].key].cond = s.bps[j].cond
    BY <2>1, <2>2, <2>3 DEF Told
  <2> QED
    BY <1>8, <2>1, <2>3, <2>4
<1> QED
  BY <1>4, <1>6, <1>9, <1>10 DEF Keeping, t, is

\* setBreakpoints keeps the book.
LEMMA SetBreakpointsKeeps ==
    ASSUME NEW s, Keeping(s, {}), Given(info),
           NEW f \in File, NEW lines \in Lists, NEW wants \in [DOMAIN lines -> Wants]
    PROVE  Keeping(SetBreakpoints(s, f, lines, wants), {})
<1>1. info \in Places
  BY DEF Given
<1> DEFINE t == Asked(s, f, lines, wants)
           is == Resolvable(s, f, lines, wants)
<1>2. Keeping(t, is)
  BY <1>1, AskedKeeps
<1>3. Known(t, is, info) /\ SetBreakpoints(s, f, lines, wants) = Resolve(t, is, info)
  BY <1>1, SetBreakpointsIs DEF Keeping
<1> HIDE DEF t, is
<1> QED
  BY <1>2, <1>3, ResolveKeeps

\* So does setFunctionBreakpoints.
LEMMA SetFunctionsKeeps ==
    ASSUME NEW s, Keeping(s, {}), Given(info), NEW names \in SUBSET Name
    PROVE  Keeping(SetFunctions(s, names), {})
<1> DEFINE r == SetFunctions(s, names)
<1>1. info \in Places /\ Shape(s)
  BY DEF Given, Keeping
<1>2. /\ Shape(r)
      /\ \E ks \in SUBSET Key : /\ Instead(s, r, "function", ks)
                                /\ r.gone = s.gone \ ({"function"} \X ks)
      /\ r.recs = s.recs /\ r.over = s.over /\ r.bps = s.bps /\ r.seg = s.seg
  BY <1>1, SetFunctionsIs
<1> HIDE DEF r
<1>3. PICK ks \in SUBSET Key : /\ Instead(s, r, "function", ks)
                               /\ r.gone = s.gone \ ({"function"} \X ks)
  BY <1>2
<1>4. Still(s, r)
  BY <1>2, <1>3 DEF Still, Instead
<1> QED
  BY <1>4, StillKeeps DEF r

\* So does learning a bank ...
LEMMA LearnKeeps ==
    ASSUME NEW s, Keeping(s, {}), NEW b \in Selector
    PROVE  Keeping(Learn(s, b), {})
<1> DEFINE r == Learn(s, b)
<1>1. /\ Shape(r)
      /\ r.claims = s.claims /\ r.gone = s.gone /\ r.recs = s.recs /\ r.over = s.over
      /\ r.bps = s.bps
  BY LearnIs DEF Keeping
<1> HIDE DEF r
<1>2. Still(s, r)
  BY <1>1 DEF Still
<1> QED
  BY <1>2, StillKeeps DEF r

\* ... and forgetting one.
LEMMA UnlearnKeeps ==
    ASSUME NEW s, Keeping(s, {}), NEW range
    PROVE  Keeping(Unlearn(s, range), {})
BY LearnKeeps DEF Unlearn, Selector

\* A load that replaces what no breakpoint rests on takes no claim.
LEMMA DroppedKeeps ==
    ASSUME NEW s, Keeping(s, {}), NEW range, Dropped(s, range).bps = s.bps
    PROVE  Keeping(Dropped(s, range), {})
<1> DEFINE r == Dropped(s, range)
<1>1. /\ Shape(r)
      /\ r.claims = s.claims \ ({"source"} \X NormalKeys({s.bps[i] : i \in Hit(s, range)}))
      /\ r.gone = s.gone /\ r.recs = s.recs /\ r.over = s.over
      /\ \A i \in Hit(s, range) : ~r.bps[i].shown
      /\ r.bps = s.bps
  <2>1. Shape(s)
    BY DEF Keeping
  <2> QED
    BY <2>1, DroppedIs
<1> HIDE DEF r
<1>2. Hit(s, range) = {}
  BY <1>1 DEF Hit, Keeping, Bound
<1>3. NormalKeys({s.bps[i] : i \in Hit(s, range)}) = {}
  BY <1>2 DEF NormalKeys
<1>4. r.claims = s.claims
  BY <1>1, <1>3
<1>5. Still(s, r)
  BY <1>1, <1>4 DEF Still
<1> QED
  BY <1>5, StillKeeps DEF r

\* What waits is armed by a retry.
LEMMA RetryKeeps ==
    ASSUME NEW s, Keeping(s, {}), NEW where, Given(where)
    PROVE  Keeping(Retry(s, where), {})
<1> DEFINE is == Waiting(s, where)
<1>1. where \in Places /\ Shape(s)
  BY DEF Given, Keeping
<1>2. Known(s, is, where) /\ Retry(s, where) = Resolve(s, is, where)
  BY <1>1, RetryIs
<1>3. \A i \in is : ~s.bps[i].shown
  BY DEF Keeping, Shape, Listing, Waiting
<1> HIDE DEF is
<1>4. Keeping(s, is)
  BY <1>3 DEF Keeping, Book, Told
<1> QED
  BY <1>2, <1>4, ResolveKeeps

\* Lifting the claims of what moves leaves the others' as they were.
LEMMA LiftedKeeps ==
    ASSUME NEW s, Keeping(s, {}), NEW where, Given(where)
    PROVE  Keeping(Lifted(s, where), Moved(s, where))
<1> DEFINE is == Moved(s, where)
           from == KeysAt(s.bps, is)
           m == Lifted(s, where)
<1>1. where \in Places /\ Shape(s) /\ Bound(s)
  BY DEF Given, Keeping
<1>2. /\ Shape(m)
      /\ m.claims = s.claims \ ({"source"} \X from)
      /\ m.gone = s.gone /\ m.over = s.over /\ m.bps = s.bps
      /\ \A k \in Key : m.recs[k] = s.recs[k] \/ (k \in from /\ m.recs[k] = NoRecord)
  BY <1>1, LiftedIs
<1> HIDE DEF m
<1>3. Bound(m)
  BY <1>1, <1>2 DEF Bound
<1>4. \A k \in from : \E i \in is : s.bps[i].key = k
  BY DEF KeysAt
<1>5. \A i \in is : s.bps[i].key \in from
  BY DEF KeysAt
<1> HIDE DEF from, is
<1>6. KeepOptions => \A i \in DOMAIN s.bps \ is : s.bps[i].shown => s.bps[i].key \notin from
  BY <1>1, <1>4, Together DEF is
<1>7. \A k : /\ <<"source", k>> \in m.claims <=> <<"source", k>> \in s.claims /\ k \notin from
             /\ <<"instruction", k>> \in m.claims <=> <<"instruction", k>> \in s.claims
  BY <1>2
<1>8. ASSUME KeepOptions PROVE Book(m, is)
  <2>1. Book(s, {})
    BY <1>8 DEF Keeping
  <2>2. \A i \in DOMAIN s.bps \ is :
          s.bps[i].shown => <<"source", s.bps[i].key>> \in m.claims \cup m.gone
    BY <1>2, <1>6, <1>7, <1>8, <2>1 DEF Book
  <2>3. \A k : <<"source", k>> \in m.claims =>
          \E i \in DOMAIN s.bps \ is : s.bps[i].shown /\ s.bps[i].key = k
    <3> SUFFICES ASSUME NEW k, <<"source", k>> \in m.claims
                 PROVE  \E i \in DOMAIN s.bps \ is : s.bps[i].shown /\ s.bps[i].key = k
      OBVIOUS
    <3>1. PICK i \in DOMAIN s.bps : s.bps[i].shown /\ s.bps[i].key = k
      BY <1>7, <2>1 DEF Book
    <3> QED
      BY <1>5, <1>7, <3>1
  <2> QED
    BY <1>2, <2>1, <2>2, <2>3 DEF Book
<1>9. ASSUME ApartOptions PROVE Told(m, is)
  <2>1. Told(s, {}) /\ KeepOptions
    BY <1>9, ApartKeeps DEF Keeping
  <2> SUFFICES ASSUME NEW i \in DOMAIN s.bps \ is, s.bps[i].shown, s.bps[i].key \notin s.over
               PROVE  /\ m.recs[s.bps[i].key].cond = s.bps[i].cond
                      /\ <<"instruction", s.bps[i].key>> \in m.claims =>
                           <<"source", s.bps[i].key>> \in m.claims
    BY <1>2 DEF Told
  <2>2. s.bps[i].key \in Key
    <3>1. s.bps[i] \in Entry
      BY <1>1 DEF Shape, Listing
    <3> QED
      BY <3>1 DEF Entry
  <2>3. s.bps[i].key \notin from
    BY <1>6, <2>1
  <2>4. m.recs[s.bps[i].key] = s.recs[s.bps[i].key]
    BY <1>2, <2>2, <2>3
  <2> QED
    BY <1>7, <2>1, <2>3, <2>4 DEF Told
<1> QED
  BY <1>2, <1>3, <1>8, <1>9 DEF Keeping, m, is

\* What moves is armed in its new bank.
LEMMA RebankKeeps ==
    ASSUME NEW s, Keeping(s, {}), NEW where, Given(where)
    PROVE  Keeping(Rebank(s, where), {})
<1> DEFINE is == Moved(s, where)
           m == Lifted(s, where)
           t == SourcesMoved(s, where)
           r == Rebank(s, where)
<1>1. where \in Places /\ Shape(s)
  BY DEF Given, Keeping
<1>2. Keeping(m, is)
  BY LiftedKeeps
<1>3. /\ Known(m, is, where) /\ t = Resolve(m, is, where) /\ Shape(r)
      /\ \A x : x[1] # "function" => /\ x \in r.claims <=> x \in t.claims
                                     /\ x \in r.gone <=> x \in t.gone
      /\ r.bps = t.bps /\ r.over = t.over
      /\ \A k \in Key : \/ r.recs[k] = t.recs[k]
                        \/ /\ Name # {} /\ <<"source", k>> \notin t.claims
                           /\ r.recs[k] = NoRecord
      /\ r.gone \subseteq t.gone
  BY <1>1, RebankIs DEF SourcesMoved
<1> HIDE DEF is, m, t, r
<1>4. Keeping(t, {})
  BY <1>2, <1>3, ResolveKeeps
<1>5. Still(t, r)
  BY <1>3 DEF Still
<1> QED
  BY <1>4, <1>5, StillKeeps DEF r

\* An instruction breakpoint has the last word at its key, and takes no source
\* breakpoint's record with it.
LEMMA SetInstructionsKeeps ==
    ASSUME NEW s, Keeping(s, {}), NEW wants, DOMAIN wants \in SUBSET Key,
           \A k \in DOMAIN wants : wants[k] \in DumpWants
    PROVE  Keeping(SetInstructions(s, wants), {})
<1> DEFINE r == SetInstructions(s, wants)
           kept == DOMAIN wants \ Unopened(wants)
<1>1. Shape(s) /\ Bound(s)
  BY DEF Keeping
<1>2. /\ Shape(r)
      /\ Instead(s, r, "instruction", kept)
      /\ r.gone = s.gone \ ({"instruction"} \X DOMAIN wants)
      /\ r.over = s.over \cup DOMAIN wants
      /\ r.bps = s.bps
      /\ \A k \in Key \ DOMAIN wants :
           \/ r.recs[k].cond = s.recs[k].cond
           \/ k \in HeldBy(s, "instruction") \ Claimed(r)
  BY <1>1, SetInstructionsIs
<1>3. kept \subseteq DOMAIN wants
  OBVIOUS
<1> HIDE DEF r, kept
<1>4. \A k : /\ <<"source", k>> \in r.claims <=> <<"source", k>> \in s.claims
             /\ <<"source", k>> \in r.gone <=> <<"source", k>> \in s.gone
             /\ <<"instruction", k>> \in r.claims <=> k \in kept
  BY <1>2 DEF Instead
<1>5. Bound(r)
  BY <1>1, <1>2 DEF Bound
<1>6. ASSUME KeepOptions PROVE Book(r, {})
  <2>1. Book(s, {})
    BY <1>6 DEF Keeping
  <2>2. Toggled = {} => r.gone = {}
    BY <1>2, <2>1 DEF Book
  <2>3. \A k : <<"source", k>> \in s.claims \cup s.gone => <<"source", k>> \in r.claims \cup r.gone
    BY <1>4
  <2>4. r.bps = s.bps /\ \A k : <<"source", k>> \in r.claims => <<"source", k>> \in s.claims
    BY <1>2, <1>4
  <2> QED
    BY <2>1, <2>2, <2>3, <2>4 DEF Book
<1>7. ASSUME ApartOptions PROVE Told(r, {})
  <2>1. Told(s, {})
    BY <1>7 DEF Keeping
  <2> SUFFICES ASSUME NEW i \in DOMAIN s.bps, s.bps[i].shown, s.bps[i].key \notin r.over
               PROVE  /\ r.recs[s.bps[i].key].cond = s.bps[i].cond
                      /\ <<"instruction", s.bps[i].key>> \notin r.claims
    BY <1>2 DEF Told
  <2>2. s.bps[i].key \in Key \ DOMAIN wants /\ s.bps[i].key \notin s.over
    <3>1. s.bps[i] \in Entry
      BY <1>1 DEF Shape, Listing
    <3> QED
      BY <1>2, <3>1 DEF Entry
  <2>3. /\ s.recs[s.bps[i].key].cond = s.bps[i].cond
        /\ <<"instruction", s.bps[i].key>> \in s.claims => <<"source", s.bps[i].key>> \in s.claims
    BY <2>1, <2>2 DEF Told
  <2>4. s.bps[i].key \notin HeldBy(s, "instruction") \ Claimed(r)
    <3>1. \A o : <<o, s.bps[i].key>> \in r.claims => s.bps[i].key \in Claimed(r)
      BY DEF Claimed
    <3> QED
      BY <1>4, <2>3, <3>1 DEF HeldBy
  <2> QED
    BY <1>2, <1>3, <1>4, <2>2, <2>3, <2>4
<1> QED
  BY <1>2, <1>5, <1>6, <1>7 DEF Keeping, r

\* A person takes every claim at a key.
LEMMA DeletedKeeps ==
    ASSUME NEW s, Keeping(s, {}), NEW k \in Toggled
    PROVE  Keeping(Deleted(s, k), {})
<1> DEFINE r == Deleted(s, k)
<1>1. /\ Shape(r)
      /\ \A x : x \in r.claims <=> x \in s.claims /\ x[2] # k
      /\ \A x : x \in r.gone <=> x \in s.gone \/ (x \in s.claims /\ x[2] = k)
      /\ r.recs = s.recs /\ r.over = s.over /\ r.bps = s.bps
  BY DeletedIs DEF Keeping
<1> HIDE DEF r
<1>2. Bound(r)
  BY <1>1 DEF Keeping, Bound
<1>3. ASSUME KeepOptions PROVE Book(r, {})
  <2>1. Book(s, {})
    BY <1>3 DEF Keeping
  <2> QED
    BY <1>1, <2>1 DEF Book
<1>4. ASSUME ApartOptions PROVE Told(r, {})
  <2>1. Told(s, {})
    BY <1>4 DEF Keeping
  <2> QED
    BY <1>1, <2>1 DEF Told
<1> QED
  BY <1>1, <1>2, <1>3, <1>4 DEF Keeping, r

\* A person's own breakpoint.
LEMMA AddedKeeps ==
    ASSUME NEW s, Keeping(s, {}), NEW k \in Toggled
    PROVE  Keeping(AddFor(s, "other", {k}), {})
<1> DEFINE r == AddFor(s, "other", {k})
<1>1. {k} \in SUBSET Key /\ "other" \in Owner /\ Shape(s)
  BY DapAssumption DEF Owner, Keeping
<1>2. /\ Shape(r)
      /\ r.claims = s.claims \cup ({"other"} \X {k}) /\ r.gone = s.gone \ ({"other"} \X {k})
      /\ r.recs = s.recs /\ r.over = s.over /\ r.bps = s.bps
  BY <1>1, AddForIs
<1> HIDE DEF r
<1>3. Still(s, r)
  BY <1>2 DEF Still
<1> QED
  BY <1>3, StillKeeps DEF r

\* The next session begins with an empty list and no source claim.
LEMMA ReleaseKeeps ==
    ASSUME NEW s, Keeping(s, {})
    PROVE  Keeping(Release(s), {})
<1> DEFINE r == Release(s)
<1>1. /\ Shape(r) /\ r.bps = <<>> /\ r.gone = s.gone
      /\ \A k \in Key : <<"source", k>> \notin r.claims
  BY ReleaseIs DEF Keeping
<1> HIDE DEF r
<1>2. \A k : <<"source", k>> \notin r.claims
  BY <1>1 DEF Shape
<1>3. DOMAIN r.bps = {}
  BY <1>1
<1> QED
  BY <1>1, <1>2, <1>3 DEF Keeping, Bound, Book, Told, r

\* A breakpoint whose place is known is shown.
Caught(s, where) == \A i \in DOMAIN s.bps : where[s.bps[i].site] # None => s.bps[i].shown

ListInv == TypeInv /\ Given(info) /\ Keeping(d, {}) /\ Caught(d, info)

\* After an arming of all that can be located, all of them are shown.
LEMMA ResolveCaught ==
    ASSUME NEW s, Shape(s), NEW is, NEW where, Known(s, is, where),
           \A i \in DOMAIN s.bps \ is : where[s.bps[i].site] # None => s.bps[i].shown
    PROVE  Caught(Resolve(s, is, where), where)
<1> DEFINE r == Resolve(s, is, where)
<1>1. /\ DOMAIN r.bps = DOMAIN s.bps
      /\ \A i \in is : r.bps[i].shown
      /\ \A i \in DOMAIN s.bps \ is : r.bps[i] = s.bps[i]
  BY ResolveIs
<1> HIDE DEF r
<1> QED
  BY <1>1 DEF Caught, r

\* setBreakpoints arms what its debug info knows.
LEMMA SetBreakpointsCaught ==
    ASSUME NEW s, Shape(s), Caught(s, info), info \in Places,
           NEW f \in File, NEW lines \in Lists, NEW wants \in [DOMAIN lines -> Wants]
    PROVE  Caught(SetBreakpoints(s, f, lines, wants), info)
<1> DEFINE r == Restate(s, f)
           t == Asked(s, f, lines, wants)
           is == Resolvable(s, f, lines, wants)
<1>1. /\ Known(t, is, info) /\ SetBreakpoints(s, f, lines, wants) = Resolve(t, is, info)
      /\ is = {i \in DOMAIN t.bps \ DOMAIN r.bps : info[t.bps[i].site] # None}
      /\ Shape(t)
  BY SetBreakpointsIs
<1>2. \A i \in DOMAIN r.bps : t.bps[i] = r.bps[i]
  BY AskedIs
<1>3. \A i \in DOMAIN r.bps : \E j \in DOMAIN s.bps : s.bps[j] = r.bps[i]
  <2>1. r.bps = OthersOf(s.bps, f)
    BY RestateIs
  <2> QED
    BY <2>1, OthersAre DEF Shape
<1> HIDE DEF r, t, is
<1>4. \A i \in DOMAIN t.bps \ is : info[t.bps[i].site] # None => t.bps[i].shown
  <2> SUFFICES ASSUME NEW i \in DOMAIN t.bps \ is, info[t.bps[i].site] # None
               PROVE  t.bps[i].shown
    OBVIOUS
  <2>1. i \in DOMAIN r.bps
    BY <1>1
  <2>2. PICK j \in DOMAIN s.bps : s.bps[j] = t.bps[i]
    BY <1>2, <1>3, <2>1
  <2> QED
    BY <2>2 DEF Caught
<1> QED
  BY <1>1, <1>4, ResolveCaught

\* A retry arms whatever the new debug info knows.
LEMMA RetryCaught ==
    ASSUME NEW s, Shape(s), Bound(s), NEW where \in Places
    PROVE  Caught(Retry(s, where), where)
<1> DEFINE is == Waiting(s, where)
<1>1. Known(s, is, where) /\ Retry(s, where) = Resolve(s, is, where)
  BY RetryIs
<1>2. \A i \in DOMAIN s.bps \ is : where[s.bps[i].site] # None => s.bps[i].shown
  BY DEF Waiting, Bound
<1> HIDE DEF is
<1> QED
  BY <1>1, <1>2, ResolveCaught

\* A move to another bank hides nothing.
LEMMA RebankCaught ==
    ASSUME NEW s, Shape(s), NEW where \in Places, Caught(s, where)
    PROVE  Caught(Rebank(s, where), where)
<1> DEFINE is == Moved(s, where)
           m == Lifted(s, where)
           t == SourcesMoved(s, where)
           r == Rebank(s, where)
<1>1. Shape(m) /\ m.bps = s.bps
  BY LiftedIs
<1>2. Known(m, is, where) /\ t = Resolve(m, is, where) /\ r.bps = t.bps
  BY RebankIs DEF SourcesMoved
<1> HIDE DEF is, m, t, r
<1>3. Caught(t, where)
  BY <1>1, <1>2, ResolveCaught DEF Caught
<1> QED
  BY <1>2, <1>3 DEF Caught, r

\* Places that are debug infos', and places some of which are forgotten.
LEMMA GivenAre ==
    /\ \A f \in Infos : Given(f)
    /\ \A f, g : /\ Given(f) /\ g \in Places
                 /\ \E range : \A x \in Place : g[x] = IF f[x] \in range THEN None ELSE f[x]
                 => Given(g)
<1>1. Site \subseteq Place
  BY DEF Place
<1>2. ASSUME NEW f \in Infos PROVE Given(f)
  BY DapAssumption DEF Given, Places, KeepOptions
<1>3. ASSUME NEW f, NEW g, NEW range, Given(f), g \in Places,
             \A x \in Place : g[x] = IF f[x] \in range THEN None ELSE f[x]
      PROVE  Given(g)
  <2>1. \A x \in Site : g[x] # None => g[x] = f[x]
    BY <1>1, <1>3
  <2>2. \A x, y \in Site : f[x] = f[y] => g[x] = g[y]
    BY <1>1, <1>3
  <2> QED
    BY <1>3, <2>1, <2>2 DEF Given
<1> QED
  BY <1>2, <1>3

\* Every step keeps the list true, if no load replaces what breakpoints rest on.
LEMMA ListStep ==
    ASSUME ListInv, [Next]_vars, ~Reloads
    PROVE  ListInv'
<1>0. /\ TypeInv /\ Given(info) /\ Keeping(d, {}) /\ Caught(d, info)
      /\ info \in Places /\ Shape(d) /\ Bound(d)
  BY DEF ListInv, TypeInv, Keeping
<1>1. TypeInv'
  BY <1>0, ShapeStep
<1>2. CASE ClientSetsBreakpoints
  <2>1. PICK f \in File, lines \in Lists : \E wants \in [DOMAIN lines -> Wants] :
          Step(SetBreakpoints(d, f, lines, wants))
    BY <1>2 DEF ClientSetsBreakpoints
  <2>2. PICK wants \in [DOMAIN lines -> Wants] : Step(SetBreakpoints(d, f, lines, wants))
    BY <2>1
  <2>3. Keeping(SetBreakpoints(d, f, lines, wants), {})
    BY <1>0, SetBreakpointsKeeps
  <2>4. Caught(SetBreakpoints(d, f, lines, wants), info)
    BY <1>0, SetBreakpointsCaught
  <2> QED
    BY <1>0, <1>1, <2>2, <2>3, <2>4 DEF ListInv, Step
<1>3. CASE ClientSetsFunctions
  <2>1. PICK names \in SUBSET Name : Step(SetFunctions(d, names))
    BY <1>3 DEF ClientSetsFunctions
  <2>2. Keeping(SetFunctions(d, names), {})
    BY <1>0, SetFunctionsKeeps
  <2>3. SetFunctions(d, names).bps = d.bps
    BY <1>0, SetFunctionsIs
  <2>4. Caught(SetFunctions(d, names), info)
    BY <1>0, <2>3 DEF Caught
  <2> QED
    BY <1>0, <1>1, <2>1, <2>2, <2>4 DEF ListInv, Step
<1>4. CASE ClientSetsInstructions
  <2>1. UNCHANGED info
    BY <1>4, InstructionsAre
  <2>2. PICK wants : /\ DOMAIN wants \in SUBSET Key
                     /\ \A k \in DOMAIN wants : wants[k] \in DumpWants
                     /\ d' = SetInstructions(d, wants)
    BY <1>4, InstructionsAre
  <2>3. Keeping(SetInstructions(d, wants), {})
    BY <1>0, <2>2, SetInstructionsKeeps
  <2>4. SetInstructions(d, wants).bps = d.bps
    BY <1>0, <2>2, SetInstructionsIs
  <2>5. Caught(SetInstructions(d, wants), info)
    BY <1>0, <2>4 DEF Caught
  <2> QED
    BY <1>0, <1>1, <2>1, <2>2, <2>3, <2>5 DEF ListInv
<1>5. CASE NewSession
  <2>1. Keeping(Release(d), {})
    BY <1>0, ReleaseKeeps
  <2>2. Release(d).bps = <<>>
    BY <1>0, ReleaseIs
  <2>3. Caught(Release(d), info)
    BY <2>2 DEF Caught
  <2>4. d' = Release(d) /\ info' = info
    BY <1>5 DEF NewSession
  <2> QED
    BY <1>0, <1>1, <2>1, <2>3, <2>4 DEF ListInv
<1>6. CASE LoadProgram \/ ReplaceInfo
  <2>1. PICK range : LET t == Dropped(d, range) IN
          /\ t.bps = d.bps
          /\ \/ d' = t /\ \A x \in Place : info'[x] \in {info[x], None}
             \/ d' = Retry(t, info')
             \/ \E b \in Selector : d' = Rebank(Learn(Retry(t, info'), b), info')
    BY <1>0, <1>6, LoadsAre
  <2>2. info' \in Places /\ Given(info')
    <3>1. info' \in Infos
      BY <1>0, <1>6, LoadsAre
    <3> QED
      BY <3>1, GivenAre DEF Given
  <2> DEFINE t == Dropped(d, range)
             u == Retry(t, info')
  <2>3. Keeping(t, {}) /\ t.bps = d.bps
    BY <1>0, <2>1, DroppedKeeps
  <2>4. /\ t.bps = d.bps
        /\ \/ d' = t /\ \A x \in Place : info'[x] \in {info[x], None}
           \/ d' = u
           \/ \E b \in Selector : d' = Rebank(Learn(u, b), info')
    BY <2>1
  <2> HIDE DEF t
  <2>5. Keeping(u, {}) /\ Shape(u) /\ Caught(u, info')
    BY <2>2, <2>3, RetryKeeps, RetryCaught DEF Keeping
  <2> HIDE DEF u
  <2>6. CASE d' = t /\ \A x \in Place : info'[x] \in {info[x], None}
    <3>1. \A i \in DOMAIN d.bps : d.bps[i].site \in Place
      BY <1>0, SitesAre
    <3>2. Caught(d, info)
      BY <1>0
    <3>3. Caught(t, info')
      BY <2>3, <2>6, <3>1, <3>2 DEF Caught
    <3> QED
      BY <1>1, <2>2, <2>3, <2>6, <3>3 DEF ListInv
  <2>7. CASE d' = u
    BY <1>1, <2>2, <2>5, <2>7 DEF ListInv
  <2>8. CASE \E b \in Selector : d' = Rebank(Learn(u, b), info')
    <3>1. PICK b \in Selector : d' = Rebank(Learn(u, b), info')
      BY <2>8
    <3>2. Keeping(Learn(u, b), {}) /\ Shape(Learn(u, b)) /\ Learn(u, b).bps = u.bps
      BY <2>5, LearnKeeps, LearnIs
    <3>3. Caught(Learn(u, b), info')
      BY <2>5, <3>2 DEF Caught
    <3>4. Keeping(Rebank(Learn(u, b), info'), {}) /\ Caught(Rebank(Learn(u, b), info'), info')
      BY <2>2, <3>2, <3>3, RebankKeeps, RebankCaught
    <3> QED
      BY <1>1, <2>2, <3>1, <3>4 DEF ListInv
  <2> QED
    BY <2>4, <2>6, <2>7, <2>8
<1>7. CASE LoadAgain
  <2>1. PICK b \in Bank : Step(Rebank(Learn(d, b), info))
    BY <1>7 DEF LoadAgain
  <2>2. b \in Selector
    BY DEF Selector
  <2>3. Keeping(Learn(d, b), {}) /\ Shape(Learn(d, b)) /\ Learn(d, b).bps = d.bps
    BY <1>0, <2>2, LearnKeeps, LearnIs
  <2>4. Caught(Learn(d, b), info)
    BY <1>0, <2>3 DEF Caught
  <2>5. Keeping(Rebank(Learn(d, b), info), {}) /\ Caught(Rebank(Learn(d, b), info), info)
    BY <1>0, <2>3, <2>4, RebankKeeps, RebankCaught
  <2> QED
    BY <1>0, <1>1, <2>1, <2>5 DEF ListInv, Step
<1>8. CASE LoadUndescribed
  <2>1. PICK range \in SUBSET Addr :
          /\ \A x \in Place : info'[x] = IF info[x] \in range THEN None ELSE info[x]
          /\ d' = Unlearn(d, range)
    BY <1>0, <1>8, UndescribedIs
  <2>2. info' \in Places
    BY <1>0, <1>8, UndescribedIs
  <2>3. Given(info')
    BY <1>0, <2>1, <2>2, GivenAre
  <2>4. Keeping(Unlearn(d, range), {}) /\ Unlearn(d, range).bps = d.bps
    BY <1>0, UnlearnKeeps, UnlearnIs
  <2>5. \A i \in DOMAIN d.bps : d.bps[i].site \in Place
    BY <1>0, SitesAre
  <2>6. Caught(Unlearn(d, range), info')
    BY <1>0, <2>1, <2>4, <2>5 DEF Caught
  <2> QED
    BY <1>1, <2>1, <2>3, <2>4, <2>6 DEF ListInv
<1>9. CASE PersonToggles
  <2>1. PICK k \in Toggled : Step(Deleted(d, k)) \/ Step(AddFor(d, "other", {k}))
    BY <1>9 DEF PersonToggles, Deleted
  <2>2. Keeping(Deleted(d, k), {}) /\ Keeping(AddFor(d, "other", {k}), {})
    BY <1>0, DeletedKeeps, AddedKeeps
  <2>3. Deleted(d, k).bps = d.bps /\ AddFor(d, "other", {k}).bps = d.bps
    <3>1. {k} \in SUBSET Key /\ "other" \in Owner
      BY DapAssumption DEF Owner
    <3> QED
      BY <1>0, <3>1, DeletedIs, AddForIs
  <2>4. Caught(Deleted(d, k), info) /\ Caught(AddFor(d, "other", {k}), info)
    BY <1>0, <2>3 DEF Caught
  <2> QED
    BY <1>0, <1>1, <2>1, <2>2, <2>4 DEF ListInv, Step
<1>10. CASE UNCHANGED vars
  BY <1>0, <1>1, <1>10 DEF ListInv, vars
<1> QED
  BY <1>2, <1>3, <1>4, <1>5, <1>6, <1>7, <1>8, <1>9, <1>10 DEF Next

\* It is at the start.
LEMMA ListInit ==
    ASSUME Init
    PROVE  ListInv
<1>1. TypeInv
  BY ShapeInit
<1>2. Given(info)
  BY GivenAre DEF Init
<1>3. d.bps = <<>> /\ d.claims = {} /\ d.gone = {}
  BY DEF Init
<1> QED
  BY <1>1, <1>2, <1>3 DEF ListInv, TypeInv, Keeping, Bound, Book, Told, Caught

\* And so always.
LEMMA ListKept ==
    ASSUME ~Reloads
    PROVE  Spec => []ListInv
<1>1. ListInv /\ [Next]_vars => ListInv'
  BY ListStep
<1> QED
  BY <1>1, ListInit, PTL DEF Spec

\* A breakpoint whose line some debug info comes to know is armed at that very
\* load, as long as no load replaces what a breakpoint rests on (debug_server.c,
\* retry_unverified_breakpoints).
THEOREM PendingAlwaysCatchesUp ==
    ASSUME ~Reloads
    PROVE  Spec => []PendingCatchesUp
<1>1. ListInv => PendingCatchesUp
  BY DEF ListInv, Caught, PendingCatchesUp, Range
<1> QED
  BY <1>1, ListKept, PTL

\* What the client shows as verified is armed unless a person took it away,
\* through requests of any file, loads, banks and sessions (debug_server.c).
THEOREM ShownAreArmed ==
    ASSUME KeepOptions
    PROVE  Spec => []ShownIsArmed
<1>1. ListInv => ShownIsArmed
  <2> SUFFICES ASSUME ListInv PROVE ShownIsArmed
    OBVIOUS
  <2>1. Book(d, {}) /\ Shape(d)
    BY DEF ListInv, Keeping
  <2>2. \A i \in DOMAIN d.bps : d.bps[i].key \in Key
    <3>1. \A i \in DOMAIN d.bps : d.bps[i] \in Entry
      BY <2>1 DEF Shape, Listing
    <3> QED
      BY <3>1 DEF Entry
  <2> QED
    BY <2>1, <2>2 DEF Book, ShownIsArmed, HeldBy, DeletedOf, Range
<1>2. ~Reloads
  BY DEF KeepOptions
<1> QED
  BY <1>1, <1>2, ListKept, PTL

\* Nothing is armed for a source line that the client does not show
\* (debug_server.c, handle_dap_set_breakpoints).
THEOREM ArmedAreShown ==
    ASSUME KeepOptions
    PROVE  Spec => []ArmedIsShown
<1>1. ListInv => ArmedIsShown
  BY DEF ListInv, Keeping, Book, ArmedIsShown, HeldBy, Range
<1>2. ~Reloads
  BY DEF KeepOptions
<1> QED
  BY <1>1, <1>2, ListKept, PTL

\* A breakpoint with its address to itself has the condition its client stated,
\* whatever loads, moves and instruction breakpoints came between
\* (debug_server.c, dap_apply_bp_condition).
THEOREM ConditionsAreAsStated ==
    ASSUME ApartOptions
    PROVE  Spec => []ConditionAsStated
<1>1. ListInv => ConditionAsStated
  BY DEF ListInv, Keeping, Told, ConditionAsStated
<1>2. ~Reloads
  BY DEF ApartOptions
<1> QED
  BY <1>1, <1>2, ListKept, PTL

-----------------------------------------------------------------------------
(* Dumps.                                                                  *)

\* Every dump is at an instruction breakpoint, or where a person deleted one.
Dumping(s) ==
    \A k \in Key : s.recs[k].dump => <<"instruction", k>> \in s.claims \cup s.gone

\* What asks for no dump and takes no instruction breakpoint.
Quiet(s, r) ==
    /\ \A k \in Key : r.recs[k].dump => s.recs[k].dump
    /\ \A k : <<"instruction", k>> \in s.claims \cup s.gone =>
         <<"instruction", k>> \in r.claims \cup r.gone

\* What asks for no dump and takes no instruction breakpoint keeps them matched.
LEMMA QuietKeeps ==
    ASSUME NEW s, NEW r, Dumping(s), Quiet(s, r)
    PROVE  Dumping(r)
BY DEF Dumping, Quiet

\* Arming source breakpoints is such a thing ...
LEMMA ResolveQuiet ==
    ASSUME NEW s, Shape(s), NEW is, NEW where, Known(s, is, where)
    PROVE  Quiet(s, Resolve(s, is, where))
<1> DEFINE r == Resolve(s, is, where)
           ks == NewKeys(s, is, where)
<1>1. /\ r.claims = s.claims \cup ({"source"} \X ks)
      /\ r.gone = s.gone \ ({"source"} \X ks)
      /\ \A k \in Key : r.recs[k].dump <=> s.recs[k].dump
  BY ResolveIs
<1> HIDE DEF r, ks
<1> QED
  BY <1>1 DEF Quiet, r

\* ... and so is setBreakpoints,
LEMMA SetBreakpointsQuiet ==
    ASSUME NEW s, Shape(s), info \in Places,
           NEW f \in File, NEW lines \in Lists, NEW wants \in [DOMAIN lines -> Wants]
    PROVE  Quiet(s, SetBreakpoints(s, f, lines, wants))
<1> DEFINE r == Restate(s, f)
           t == Asked(s, f, lines, wants)
           is == Resolvable(s, f, lines, wants)
           ks == KeptKeys(s, f)
<1>1. /\ r.gone = s.gone \ ({"source"} \X ks)
      /\ \A x : x \in r.claims <=> (x \in s.claims /\ x[1] # "source") \/ x \in {"source"} \X ks
      /\ r.recs = s.recs
  BY RestateIs
<1>2. t.claims = r.claims /\ t.gone = r.gone /\ t.recs = r.recs /\ Shape(t)
  BY AskedIs
<1>3. Known(t, is, info) /\ SetBreakpoints(s, f, lines, wants) = Resolve(t, is, info)
  BY SetBreakpointsIs
<1> HIDE DEF r, t, is, ks
<1>4. Quiet(t, Resolve(t, is, info))
  BY <1>2, <1>3, ResolveQuiet
<1>5. \A k : <<"instruction", k>> \in s.claims \cup s.gone => <<"instruction", k>> \in t.claims \cup t.gone
  BY <1>1, <1>2
<1> QED
  BY <1>1, <1>2, <1>3, <1>4, <1>5 DEF Quiet

\* a retry,
LEMMA RetryQuiet ==
    ASSUME NEW s, Shape(s), NEW where \in Places
    PROVE  Quiet(s, Retry(s, where))
<1> DEFINE is == Waiting(s, where)
<1>1. Known(s, is, where) /\ Retry(s, where) = Resolve(s, is, where)
  BY RetryIs
<1> HIDE DEF is
<1> QED
  BY <1>1, ResolveQuiet

\* what a load replaces,
LEMMA DroppedQuiet ==
    ASSUME NEW s, Shape(s), NEW range
    PROVE  Shape(Dropped(s, range)) /\ Quiet(s, Dropped(s, range))
<1> DEFINE r == Dropped(s, range)
<1>1. /\ Shape(r)
      /\ r.claims = s.claims \ ({"source"} \X NormalKeys({s.bps[i] : i \in Hit(s, range)}))
      /\ r.gone = s.gone /\ r.recs = s.recs /\ r.over = s.over /\ r.funcs = s.funcs
      /\ \A i \in Hit(s, range) : ~r.bps[i].shown
  BY DroppedIs
<1> HIDE DEF r
<1> QED
  BY <1>1 DEF Quiet, r

\* and a move to another bank.
LEMMA RebankQuiet ==
    ASSUME NEW s, Shape(s), NEW where \in Places
    PROVE  Quiet(s, Rebank(s, where))
<1> DEFINE is == Moved(s, where)
           from == KeysAt(s.bps, is)
           m == Lifted(s, where)
           t == SourcesMoved(s, where)
           r == Rebank(s, where)
<1>1. where \in Places /\ Shape(s)
  OBVIOUS
<1>2. /\ Shape(m)
      /\ m.claims = s.claims \ ({"source"} \X from)
      /\ m.gone = s.gone /\ m.over = s.over /\ m.bps = s.bps
      /\ \A k \in Key : \/ m.recs[k] = s.recs[k]
                        \/ k \in from /\ m.recs[k] = NoRecord
  BY <1>1, LiftedIs
<1>3. /\ Known(m, is, where) /\ t = Resolve(m, is, where)
      /\ \A x : x[1] # "function" => /\ x \in r.claims <=> x \in t.claims
                                     /\ x \in r.gone <=> x \in t.gone
      /\ r.bps = t.bps /\ r.over = t.over
      /\ \A k \in Key : \/ r.recs[k] = t.recs[k]
                        \/ /\ Name # {} /\ <<"source", k>> \notin t.claims
                           /\ r.recs[k] = NoRecord
  BY <1>1, RebankIs DEF SourcesMoved
<1> HIDE DEF is, from, m, t, r
<1>4. Quiet(m, t)
  BY <1>2, <1>3, ResolveQuiet
<1>5. ~NoRecord.dump
  BY DEF NoRecord
<1>6. \A k \in Key : r.recs[k].dump => s.recs[k].dump
  <2> TAKE k \in Key
  <2>1. r.recs[k].dump => t.recs[k].dump
    BY <1>3, <1>5
  <2>2. t.recs[k].dump => m.recs[k].dump
    BY <1>4 DEF Quiet
  <2>3. m.recs[k].dump => s.recs[k].dump
    BY <1>2, <1>5
  <2> QED
    BY <2>1, <2>2, <2>3
<1>7. \A k : <<"instruction", k>> \in s.claims \cup s.gone => <<"instruction", k>> \in r.claims \cup r.gone
  <2> SUFFICES ASSUME NEW k, <<"instruction", k>> \in s.claims \cup s.gone
               PROVE  <<"instruction", k>> \in r.claims \cup r.gone
    OBVIOUS
  <2>1. <<"instruction", k>> \in m.claims \cup m.gone
    BY <1>2
  <2>2. <<"instruction", k>> \in t.claims \cup t.gone
    BY <1>4, <2>1 DEF Quiet
  <2> QED
    BY <1>3, <2>2
<1> QED
  BY <1>6, <1>7 DEF Quiet, r

\* A bank becomes known.
LEMMA BankDumping ==
    ASSUME NEW s, Shape(s), Dumping(s), NEW where \in Places, NEW b \in Selector
    PROVE  Dumping(Rebank(Learn(s, b), where))
<1> DEFINE u == Learn(s, b)
<1>1. Shape(u) /\ u.claims = s.claims /\ u.gone = s.gone /\ u.recs = s.recs
  BY LearnIs
<1> HIDE DEF u
<1>2. Dumping(u)
  BY <1>1 DEF Dumping
<1>3. Quiet(u, Rebank(u, where))
  BY <1>1, RebankQuiet
<1> QED
  BY <1>2, <1>3, QuietKeeps DEF u

\* setInstructionBreakpoints closes every dump it does not ask for.
LEMMA SetInstructionsDumping ==
    ASSUME NEW s, Shape(s), Dumping(s), NEW wants, DOMAIN wants \in SUBSET Key,
           \A k \in DOMAIN wants : wants[k] \in DumpWants
    PROVE  Dumping(SetInstructions(s, wants))
<1> DEFINE r == SetInstructions(s, wants)
           kept == DOMAIN wants \ Unopened(wants)
<1>1. /\ Instead(s, r, "instruction", kept)
      /\ r.gone = s.gone \ ({"instruction"} \X DOMAIN wants)
      /\ \A k \in Key : r.recs[k].dump =>
           \/ k \in kept
           \/ s.recs[k].dump /\ k \notin HeldBy(s, "instruction") \cup DOMAIN wants
  BY SetInstructionsIs
<1> HIDE DEF r, kept
<1> SUFFICES ASSUME NEW k \in Key, r.recs[k].dump
             PROVE  <<"instruction", k>> \in r.claims \cup r.gone
  BY DEF Dumping, r
<1>2. CASE k \in kept
  BY <1>1, <1>2 DEF Instead
<1>3. CASE s.recs[k].dump /\ k \notin HeldBy(s, "instruction") \cup DOMAIN wants
  <2>1. <<"instruction", k>> \in s.gone
    BY <1>3 DEF Dumping, HeldBy
  <2> QED
    BY <1>1, <1>3, <2>1
<1> QED
  BY <1>1, <1>2, <1>3

DumpInv == TypeInv /\ Dumping(d)

\* Every step keeps the dumps asked for, within a session.
LEMMA DumpStep ==
    ASSUME DumpInv, [Next]_vars, Sessions = 1
    PROVE  DumpInv'
<1>0. TypeInv /\ Dumping(d) /\ info \in Places /\ Shape(d)
  BY DEF DumpInv, TypeInv
<1>1. TypeInv'
  BY <1>0, ShapeStep
<1>2. CASE ClientSetsBreakpoints
  <2>1. PICK f \in File, lines \in Lists : \E wants \in [DOMAIN lines -> Wants] :
          Step(SetBreakpoints(d, f, lines, wants))
    BY <1>2 DEF ClientSetsBreakpoints
  <2>2. PICK wants \in [DOMAIN lines -> Wants] : Step(SetBreakpoints(d, f, lines, wants))
    BY <2>1
  <2>3. Quiet(d, SetBreakpoints(d, f, lines, wants))
    BY <1>0, SetBreakpointsQuiet
  <2> QED
    BY <1>0, <1>1, <2>2, <2>3, QuietKeeps DEF DumpInv, Step
<1>3. CASE ClientSetsFunctions
  <2>1. PICK names \in SUBSET Name : Step(SetFunctions(d, names))
    BY <1>3 DEF ClientSetsFunctions
  <2> DEFINE r == SetFunctions(d, names)
  <2>2. /\ \E ks \in SUBSET Key : /\ Instead(d, r, "function", ks)
                                  /\ r.gone = d.gone \ ({"function"} \X ks)
        /\ r.recs = d.recs
    BY <1>0, SetFunctionsIs
  <2>3. d' = r
    BY <2>1 DEF Step
  <2> HIDE DEF r
  <2>4. PICK ks \in SUBSET Key : /\ Instead(d, r, "function", ks)
                                 /\ r.gone = d.gone \ ({"function"} \X ks)
    BY <2>2
  <2>5. Quiet(d, r)
    BY <2>2, <2>4 DEF Quiet, Instead
  <2> QED
    BY <1>0, <1>1, <2>3, <2>5, QuietKeeps DEF DumpInv
<1>4. CASE ClientSetsInstructions
  <2>1. PICK wants : /\ DOMAIN wants \in SUBSET Key
                     /\ \A k \in DOMAIN wants : wants[k] \in DumpWants
                     /\ d' = SetInstructions(d, wants)
    BY <1>4, InstructionsAre
  <2>2. Dumping(SetInstructions(d, wants))
    BY <1>0, <2>1, SetInstructionsDumping
  <2> QED
    BY <1>1, <2>1, <2>2 DEF DumpInv
<1>5. CASE NewSession
  <2>1. session < Sessions /\ session \in 1 .. Sessions
    BY <1>0, <1>5 DEF NewSession, TypeInv
  <2> QED
    BY <2>1
<1>6. CASE LoadProgram \/ ReplaceInfo
  <2>1. info' \in Places
    BY <1>0, <1>6, LoadsAre, DapAssumption DEF Places
  <2>2. PICK range : LET t == Dropped(d, range) IN
          \/ d' = t
          \/ d' = Retry(t, info')
          \/ \E b \in Selector : d' = Rebank(Learn(Retry(t, info'), b), info')
    BY <1>0, <1>6, LoadsAre
  <2> DEFINE t == Dropped(d, range)
             u == Retry(t, info')
  <2>3. Shape(t) /\ Quiet(d, t)
    BY <1>0, DroppedQuiet
  <2>4. d' = t \/ d' = u \/ \E b \in Selector : d' = Rebank(Learn(u, b), info')
    BY <2>2
  <2> HIDE DEF t
  <2>5. Shape(u) /\ Quiet(t, u)
    BY <2>1, <2>3, RetryShape, RetryQuiet
  <2> HIDE DEF u
  <2>6. Dumping(t) /\ Dumping(u)
    BY <1>0, <2>3, <2>5, QuietKeeps
  <2>7. \A b \in Selector : Dumping(Rebank(Learn(u, b), info'))
    BY <2>1, <2>5, <2>6, BankDumping
  <2> QED
    BY <1>1, <2>4, <2>6, <2>7 DEF DumpInv
<1>7. CASE LoadAgain
  <2>1. PICK b \in Bank : Step(Rebank(Learn(d, b), info))
    BY <1>7 DEF LoadAgain
  <2>2. Dumping(Rebank(Learn(d, b), info))
    BY <1>0, BankDumping DEF Selector
  <2> QED
    BY <1>0, <1>1, <2>1, <2>2 DEF DumpInv, Step
<1>8. CASE LoadUndescribed
  <2>1. PICK range : d' = Unlearn(d, range)
    BY <1>0, <1>8, UndescribedIs
  <2>2. Unlearn(d, range).claims = d.claims /\ Unlearn(d, range).gone = d.gone
        /\ Unlearn(d, range).recs = d.recs
    BY <1>0, UnlearnIs
  <2> QED
    BY <1>0, <1>1, <2>1, <2>2 DEF DumpInv, Dumping
<1>9. CASE PersonToggles
  <2>1. PICK k \in Toggled : Step(Deleted(d, k)) \/ Step(AddFor(d, "other", {k}))
    BY <1>9 DEF PersonToggles, Deleted
  <2> DEFINE r == Deleted(d, k)
             a == AddFor(d, "other", {k})
  <2>2. {k} \in SUBSET Key /\ "other" \in Owner
    BY DapAssumption DEF Owner
  <2>3. /\ \A x : x \in r.claims <=> x \in d.claims /\ x[2] # k
        /\ \A x : x \in r.gone <=> x \in d.gone \/ (x \in d.claims /\ x[2] = k)
        /\ r.recs = d.recs
    BY <1>0, DeletedIs
  <2>4. /\ a.claims = d.claims \cup ({"other"} \X {k}) /\ a.gone = d.gone \ ({"other"} \X {k})
        /\ a.recs = d.recs
    BY <1>0, <2>2, AddForIs
  <2>5. d' = r \/ d' = a
    BY <2>1 DEF Step
  <2> HIDE DEF r, a
  <2>6. Quiet(d, r)
    BY <2>3 DEF Quiet
  <2>7. Quiet(d, a)
    BY <2>4 DEF Quiet
  <2> QED
    BY <1>0, <1>1, <2>5, <2>6, <2>7, QuietKeeps DEF DumpInv
<1>10. CASE UNCHANGED vars
  BY <1>0, <1>1, <1>10 DEF DumpInv, vars
<1> QED
  BY <1>2, <1>3, <1>4, <1>5, <1>6, <1>7, <1>8, <1>9, <1>10 DEF Next

\* None is at the start.
LEMMA DumpInit ==
    ASSUME Init
    PROVE  DumpInv
<1>1. d.recs = [k \in Key |-> NoRecord]
  BY DEF Init
<1> QED
  BY <1>1, ShapeInit DEF DumpInv, Dumping, NoRecord

\* Within a session no dump outlives the request for it, whatever loads and
\* other requests come between (debug_server.c,
\* handle_dap_set_instruction_breakpoints).
THEOREM DumpsAreAlwaysAsked ==
    ASSUME Sessions = 1
    PROVE  Spec => []DumpsAreAsked
<1>1. DumpInv => DumpsAreAsked
  BY DEF DumpInv, Dumping, DumpsAreAsked, HeldBy, DeletedOf
<1>2. DumpInv /\ [Next]_vars => DumpInv'
  BY DumpStep
<1> QED
  BY <1>1, <1>2, DumpInit, PTL DEF Spec
===============================================================================
