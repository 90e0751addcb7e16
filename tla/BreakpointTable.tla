--------------------------- MODULE BreakpointTable ---------------------------
(***************************************************************************)
(* The breakpoint table of the debugger core (src/src/debug_core.c).       *)
(*                                                                         *)
(* One array entry per distinct (pc, program bank, window selector), each  *)
(* with the set of owners that asked for it, and beside the array a bitmap *)
(* of the PCs that occur in it.  The CPU loop consults only the bitmap on  *)
(* most instructions, so the bitmap being exact is what makes a breakpoint *)
(* fire at all.  The callers (command line, text and graphical debugger,   *)
(* DAP session, step machinery) may make any call at any time.             *)
(***************************************************************************)
EXTENDS Integers, SequencesExt

CONSTANTS
    AddrTop,      \* the last address; addresses wrap here
    BankedFrom,   \* the first address inside a banked window ($A000)
    PBank,        \* program banks, 0 among them
    X16Bank,      \* RAM/ROM window banks
    ANY,          \* DEBUG_BANK_ANY
    Owner,        \* debug_owner_t
    Gen2,         \* is_gen2: a program bank other than 0 is flat memory
    MaxEntries    \* bound on the array; the code's grows with realloc

ASSUME TableAssumption ==
    /\ AddrTop \in Nat
    /\ BankedFrom \in Nat
    /\ 0 \in PBank
    /\ ANY \notin X16Bank
    /\ Gen2 \in BOOLEAN
    /\ MaxEntries \in Nat

Pc == 0 .. AddrTop
Selector == X16Bank \cup {ANY}
Key == Pc \X PBank \X Selector
Entry == [key : Key, owners : SUBSET Owner, enabled : BOOLEAN]

VARIABLES
    table,    \* breakPoints[0 .. numBreakpoints - 1]
    pcMap     \* debug_bp_pc_map, as the set of PCs whose bit is set

tableVars == <<table, pcMap>>

-----------------------------------------------------------------------------
(* Faults the properties are there to catch, each the body a plausible     *)
(* slip would give the definition named with it.                           *)

\* Erase clearing the one bit of the PC that went.
EraseOneBit(i) ==
    /\ table' = RemoveAt(table, i)
    /\ pcMap' = pcMap \ {table[i].key[1]}

\* RemoveFor disarming the address for every owner.
RemoveForAll(k, o) ==
    \E i \in DOMAIN table :
        /\ table[i].key = k
        /\ o \in table[i].owners
        /\ table' = RemoveAt(table, i)
        /\ pcMap' = {table'[j].key[1] : j \in DOMAIN table'}

\* AddExisting leaving a breakpoint that was switched off as it is.
AddExistingStillOff(k, o) ==
    /\ \E i \in DOMAIN table : table[i].key = k /\ table' = [table EXCEPT ![i].owners = @ \cup {o}]
    /\ UNCHANGED pcMap

-----------------------------------------------------------------------------
(* Addresses and selectors.                                                *)

\* addr_is_banked
Banked(pc, pb) == pc >= BankedFrom /\ (Gen2 => pb = 0)

\* normalise_bank: where banks select nothing there is nothing to record.
Normalised(k) == IF Banked(k[1], k[2]) THEN k ELSE <<k[1], k[2], ANY>>

\* bank_selector_matches, cur being the bank mapped in the address's window.
SelectorMatches(sel, pc, pb, cur) == ~Banked(pc, pb) \/ sel \in {ANY, cur}

\* bp_matches
Matches(e, pc, pb, cur) ==
    /\ e.enabled
    /\ e.key[1] = pc
    /\ e.key[2] = pb
    /\ SelectorMatches(e.key[3], pc, pb, cur)

-----------------------------------------------------------------------------
(* The array.                                                              *)

\* debug_bp_find: the index of the first entry with this key, if any.
Find(k) ==
    {i \in DOMAIN table :
        /\ table[i].key = Normalised(k)
        /\ \A j \in DOMAIN table : table[j].key = Normalised(k) => i <= j}

PcsOf(t) == {t[i].key[1] : i \in DOMAIN t}

\* bp_erase, bp_map_rebuild
Erase(i) ==
    /\ table' = RemoveAt(table, i)
    /\ pcMap' = PcsOf(RemoveAt(table, i))

\* t with o's bit cleared everywhere.
Released(t, o) == [i \in DOMAIN t |-> [t[i] EXCEPT !.owners = @ \ {o}]]

\* The entries of t that somebody still owns, in their order.
KeepOwned(t) ==
    \E n \in 0 .. Len(t) :
        \E f \in [1 .. n -> {i \in DOMAIN t : t[i].owners # {}}] :
            /\ \A i, j \in 1 .. n : i < j => f[i] < f[j]
            /\ \A i \in DOMAIN t : t[i].owners # {} => \E j \in 1 .. n : f[j] = i
            /\ table' = [j \in 1 .. n |-> t[f[j]]]
            /\ pcMap' = PcsOf([j \in 1 .. n |-> t[f[j]]])

-----------------------------------------------------------------------------
(* Operations.                                                             *)

\* debug_bp_add_for, EXISTED: the owner joins and the entry is armed again.
AddExisting(k, o) ==
    /\ \E i \in Find(k) :
          table' = [table EXCEPT ![i].owners = @ \cup {o}, ![i].enabled = TRUE]
    /\ UNCHANGED pcMap

\* debug_bp_add_for, CREATED.  Out of memory (FULL) it changes nothing.
AddNew(k, o) ==
    /\ Find(k) = {}
    /\ Len(table) < MaxEntries
    /\ table' = Append(table, [key |-> Normalised(k), owners |-> {o}, enabled |-> TRUE])
    /\ pcMap' = pcMap \cup {k[1]}

AddFor(k, o) == AddExisting(k, o) \/ AddNew(k, o)

\* debug_bp_remove_for: the entry goes with its last owner.
RemoveFor(k, o) ==
    \E i \in Find(k) :
        /\ o \in table[i].owners
        /\ IF table[i].owners = {o}
             THEN Erase(i)
             ELSE /\ table' = [table EXCEPT ![i].owners = @ \ {o}]
                  /\ UNCHANGED pcMap

\* debug_bp_clear_owner
ClearOwner(o) ==
    /\ \E i \in DOMAIN table : o \in table[i].owners
    /\ KeepOwned(Released(table, o))

\* debug_bp_delete: a person's delete is not a reference count operation.
Delete(k) == \E i \in Find(k) : Erase(i)

\* debug_bp_toggle_for
ToggleFor(k, o) == Delete(k) \/ AddNew(k, o)

\* debug_bp_set_enabled
SetEnabled(k, on) ==
    /\ \E i \in Find(k) : table' = [table EXCEPT ![i].enabled = on]
    /\ UNCHANGED pcMap

\* The table's part of debug_bp_clear_all and debug_core_free.
ClearTable ==
    /\ table' = <<>>
    /\ pcMap' = {}

Init ==
    /\ table = <<>>
    /\ pcMap = {}

Next ==
    \/ \E k \in Key, o \in Owner : AddFor(k, o) \/ RemoveFor(k, o) \/ ToggleFor(k, o)
    \/ \E o \in Owner : ClearOwner(o)
    \/ \E k \in Key, on \in BOOLEAN : SetEnabled(k, on)
    \/ ClearTable

Spec == Init /\ [][Next]_tableVars

-----------------------------------------------------------------------------
(* Properties.                                                             *)

TypeOK ==
    /\ table \in Seq(Entry)
    /\ Len(table) <= MaxEntries
    /\ pcMap \subseteq Pc

\* One entry per key, under its normalised key, and never an entry nobody
\* owns: the three facts debug_core.h states of a live entry.
WellFormed ==
    /\ \A i, j \in DOMAIN table : table[i].key = table[j].key => i = j
    /\ \A i \in DOMAIN table : table[i].key = Normalised(table[i].key)
    /\ \A i \in DOMAIN table : table[i].owners # {}

\* The bitmap has a bit for exactly the PCs in the array.  A missing bit is a
\* breakpoint the CPU loop runs straight through (debugger.h, DEBUGNothingToDo).
PcMapExact == pcMap = PcsOf(table)

\* What a breakpoint needs to stop the machine: the current bank selected in
\* its window, the program bank the CPU is in.
CanStop(pc, pb, cur) == \E i \in DOMAIN table : Matches(table[i], pc, pb, cur)

\* The claims the array stands for, and the breakpoints it has switched off.
ClaimsOf(t) == {c \in Owner \X Key : \E i \in DOMAIN t : t[i].key = c[2] /\ c[1] \in t[i].owners}

OffOf(t) == {k \in Key : \E i \in DOMAIN t : t[i].key = k /\ ~t[i].enabled}

Claims == INSTANCE BreakpointClaims WITH claims <- ClaimsOf(table), off <- OffOf(table)

\* Owners hold exactly the breakpoints they claimed and did not give up, and no
\* call by one owner costs another its claim: the array implements the claims
\* of BreakpointClaims (debug_core.h, "Every entry records which owners asked
\* for it").
ImplementsClaims == Claims!ClaimsSpec

\* What one owner gives up, one breakpoint or all of its own, costs no other
\* owner a claim: "the entry survives until the last of them lets go"
\* (debug_core.h).
OwnersIndependent ==
    [][ \A o \in Owner :
          (\E k \in Key : RemoveFor(k, o)) \/ ClearOwner(o) =>
            {c \in ClaimsOf(table') : c[1] # o} = {c \in ClaimsOf(table) : c[1] # o} ]_tableVars
=============================================================================
