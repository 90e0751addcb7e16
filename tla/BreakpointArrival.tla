-------------------------- MODULE BreakpointArrival --------------------------
(***************************************************************************)
(* What happens when the CPU arrives at an address (src/src/debug_core.c,  *)
(* debug_bp_on_arrival): the breakpoint table together with the separate   *)
(* table of conditions, ignore budgets, hit counts and dumps.              *)
(*                                                                         *)
(* The records are keyed like the breakpoints but live apart from them, so *)
(* a count outlives the entry it belongs to.  A condition's truth is a     *)
(* fact about the registers and memory of the moment, so an arrival is     *)
(* given the set of keys whose condition holds.                            *)
(***************************************************************************)
EXTENDS BreakpointTable

CONSTANTS
    MappedBank,   \* the banks a window register can hold
    Ignores,      \* the ignore budgets a client asks for
    MaxHits       \* bound on a hit count, a uint32_t in the code

\* The constants are as the definitions need them.
ArrivalAssumption ==
    /\ X16Bank \subseteq MappedBank
    /\ ANY \notin MappedBank
    /\ Ignores \subseteq Nat
    /\ MaxHits \in Nat

Record == [hasCond : BOOLEAN, ignore : Nat, hits : Nat, dump : BOOLEAN]
FreshRecord == [hasCond |-> FALSE, ignore |-> 0, hits |-> 0, dump |-> FALSE]

VARIABLES
    conds,     \* bpConds: the records in use, as a function on their keys
    stopped    \* what the last arrival answered

vars == <<table, pcMap, conds, stopped>>

\* cond_find, or what cond_ensure would make.
RecordOf(k) == IF k \in DOMAIN conds THEN conds[k] ELSE FreshRecord

HitCount(k) == RecordOf(Normalised(k)).hits

\* cond_ensure followed by an assignment to the record.
Put(k, r) == conds' = [x \in DOMAIN conds \cup {k} |-> IF x = k THEN r ELSE conds[x]]

-----------------------------------------------------------------------------
(* Faults the properties are there to catch.                               *)

\* Reached with the loop ending at the first matching entry, whatever it says.
ReachedFirstOnly(matched, stopping) == {i \in matched : \A j \in matched : i <= j}

-----------------------------------------------------------------------------
(* Arrival.                                                                *)

\* cond_satisfied
Satisfied(k, sat) == RecordOf(k).hasCond => k \in sat

\* Entry i answers "stop": its condition holds, the budget is spent, and it is
\* not a dump, which writes and runs on.
Stopping(i, sat) ==
    LET r == RecordOf(table[i].key)
    IN  /\ Satisfied(table[i].key, sat)
        /\ r.hits + 1 > r.ignore
        /\ ~r.dump

\* The entries the loop gets to before one of them ends it.
Reached(matched, stopping) ==
    {i \in matched : \A j \in matched : j < i => j \notin stopping}

\* debug_bp_on_arrival.  A matching entry whose record cannot be allocated
\* (oom) stops the machine at once.
Arrive(pc, pb, cur, sat, oom) ==
    LET matched == {i \in DOMAIN table : Matches(table[i], pc, pb, cur)}
        failing == {i \in matched : table[i].key \in oom \ DOMAIN conds}
        stopping == failing \cup {i \in matched : Stopping(i, sat)}
        counted == {table[i].key : i \in Reached(matched, stopping) \ failing}
    IN  /\ \A k \in counted : RecordOf(k).hits < MaxHits
        /\ conds' = [k \in DOMAIN conds \cup counted |->
                       IF k \in counted /\ Satisfied(k, sat)
                         THEN [RecordOf(k) EXCEPT !.hits = @ + 1]
                         ELSE RecordOf(k)]
        /\ stopped' = (Reached(matched, stopping) \cap stopping # {})
        /\ UNCHANGED tableVars

-----------------------------------------------------------------------------
(* The calls that edit a record, each on the normalised key.               *)

Edit(k, r) == Put(Normalised(k), r) /\ UNCHANGED <<tableVars, stopped>>

\* debug_bp_set_condition
SetCondition(k) == Edit(k, [RecordOf(Normalised(k)) EXCEPT !.hasCond = TRUE])

\* debug_bp_set_ignore
SetIgnore(k, n) == Edit(k, [RecordOf(Normalised(k)) EXCEPT !.ignore = n])

\* debug_bp_set_dump.  When the file cannot be opened the record loses the
\* dump it had.
SetDump(k, opened) == Edit(k, [RecordOf(Normalised(k)) EXCEPT !.dump = opened])

\* debug_bp_clear_condition: the test goes, the count and the budget stay.
ClearCondition(k) ==
    /\ Normalised(k) \in DOMAIN conds
    /\ Edit(k, [RecordOf(Normalised(k)) EXCEPT !.hasCond = FALSE])

\* debug_bp_clear_dump
ClearDump(k) ==
    /\ Normalised(k) \in DOMAIN conds
    /\ Edit(k, [RecordOf(Normalised(k)) EXCEPT !.dump = FALSE])

\* debug_bp_reset_hits
ResetHits(k) ==
    /\ Normalised(k) \in DOMAIN conds
    /\ Edit(k, [RecordOf(Normalised(k)) EXCEPT !.hits = 0])

\* debug_bp_forget
Forget(k) ==
    /\ conds' = [x \in DOMAIN conds \ {Normalised(k)} |-> conds[x]]
    /\ UNCHANGED <<tableVars, stopped>>

\* debug_bp_clear_all and debug_core_free discard the records too.
ClearAll ==
    /\ ClearTable
    /\ conds' = <<>>
    /\ UNCHANGED stopped

-----------------------------------------------------------------------------
(* Every other call on the table leaves the records alone.                 *)

KeepRecords == UNCHANGED <<conds, stopped>>

EditTable ==
    /\ \/ \E k \in Key, o \in Owner : AddFor(k, o) \/ RemoveFor(k, o) \/ ToggleFor(k, o)
       \/ \E o \in Owner : ClearOwner(o)
       \/ \E k \in Key, on \in BOOLEAN : SetEnabled(k, on)
    /\ KeepRecords

EditRecord ==
    \E k \in Key :
        \/ SetCondition(k)
        \/ \E n \in Ignores : SetIgnore(k, n)
        \/ \E opened \in BOOLEAN : SetDump(k, opened)
        \/ ClearCondition(k)
        \/ ClearDump(k)
        \/ ResetHits(k)
        \/ Forget(k)

\* Whose condition can fail, and whose record may have to be allocated.
Conditional == {k \in DOMAIN conds : conds[k].hasCond}
Recordless == {table[i].key : i \in DOMAIN table} \ DOMAIN conds

ArrivalStep ==
    \E pc \in Pc, pb \in PBank, cur \in MappedBank :
        \E sat \in SUBSET Conditional, oom \in SUBSET Recordless : Arrive(pc, pb, cur, sat, oom)

ArrivalInit ==
    /\ Init
    /\ conds = <<>>
    /\ stopped = FALSE

ArrivalNext ==
    \/ EditTable
    \/ EditRecord
    \/ ClearAll
    \/ ArrivalStep

ArrivalSpec == ArrivalInit /\ [][ArrivalNext]_vars

-----------------------------------------------------------------------------
(* Properties.                                                             *)

ArrivalTypeOK ==
    /\ TypeOK
    /\ DOMAIN conds \subseteq {k \in Key : k = Normalised(k)}
    /\ \A k \in DOMAIN conds : conds[k] \in Record /\ conds[k].hits <= MaxHits
    /\ stopped \in BOOLEAN

\* Whether an arrival stops does not depend on the order breakpoints were set
\* in: it stops exactly when some armed entry there is due -- condition met,
\* budget spent, not a dump -- or when a record could not be allocated.  In
\* particular a dump, an unmet condition or an unspent budget on one entry
\* never hides another entry that is due (debug_core.h, "A breakpoint stops
\* when its condition (if any) holds AND it has been hit more times than its
\* ignore count").
StopsExactlyWhenDue ==
    [][ \A pc \in Pc, pb \in PBank, cur \in MappedBank, sat \in SUBSET Conditional :
          Arrive(pc, pb, cur, sat, {}) =>
            (stopped' <=> \E i \in DOMAIN table :
                             /\ Matches(table[i], pc, pb, cur)
                             /\ RecordOf(table[i].key).hasCond => table[i].key \in sat
                             /\ RecordOf(table[i].key).hits >= RecordOf(table[i].key).ignore
                             /\ ~RecordOf(table[i].key).dump) ]_vars

\* Every armed entry the CPU arrives at with its condition met counts the hit
\* (debug_core.h, "Counting is per breakpoint and starts the first time that
\* breakpoint is reached").
EveryArrivalCounts ==
    [][ \A pc \in Pc, pb \in PBank, cur \in MappedBank, sat \in SUBSET Conditional :
          Arrive(pc, pb, cur, sat, {}) =>
            \A i \in DOMAIN table :
                Matches(table[i], pc, pb, cur) /\ Satisfied(table[i].key, sat) =>
                    HitCount(table[i].key)' = HitCount(table[i].key) + 1 ]_vars
=============================================================================
