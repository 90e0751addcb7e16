--------------------------- MODULE WatchpointTable ---------------------------
(***************************************************************************)
(* Memory write watchpoints (src/src/debug_core.c, "Memory write           *)
(* watchpoints") and everybody who sets them: -wp, the graphical debugger, *)
(* and a DAP client through its data breakpoints and its console.          *)
(*                                                                         *)
(* Every CPU store scans the table.  Entries are shared: one per (address, *)
(* bank selector), with the set of owners that asked for it, but a single  *)
(* length, switch and value filter between them.                           *)
(***************************************************************************)
EXTENDS Integers, SequencesExt, Sublists

CONSTANTS
    AddrTop,         \* the last address
    BankedFrom,      \* the first address inside a banked window ($A000)
    X16Bank,         \* RAM/ROM window banks
    ANY,             \* DEBUG_BANK_ANY
    Local,           \* the owners on this side: command line, graphical debugger
    DapSource,       \* the owner of a client's data breakpoints
    DapConsole,      \* the owner of what a client types at its console
    MaxLen,          \* bound on the lengths asked for
    Value,           \* bytes stored
    Tests,           \* what a filter may ask of a value: sets of values let through
    FirstTest,       \* the filter a new entry is given, switched off (== 0)
    MaxWatchpoints   \* MAX_WATCHPOINTS

\* What the module takes for granted of them.
WatchAssumption ==
    /\ AddrTop \in Nat
    /\ BankedFrom \in Nat
    /\ ANY \notin X16Bank
    /\ DapSource \notin Local
    /\ DapConsole \notin Local
    /\ MaxLen \in Nat \ {0}
    /\ Tests \subseteq SUBSET Value
    /\ FirstTest \in Tests
    /\ MaxWatchpoints \in Nat

Addr == 0 .. AddrTop
Key == Addr \X (X16Bank \cup {ANY})
WatchOwner == Local \cup {DapSource, DapConsole}

\* A data breakpoint as the client states it, with one condition or none.
DataBreakpoint == [addr : Addr, cond : {{}} \cup {{test} : test \in Tests}]

VARIABLES
    watches,   \* watchPoints[0 .. numWatchpoints - 1], each with its key, length,
               \* switch, filter and owners
    session    \* a DAP client is connected

watchVars == <<watches, session>>

-----------------------------------------------------------------------------
(* Identity.                                                               *)

\* normalise_bank, with the program bank 0 that a watch is always given.
Normalised(k) == IF k[1] >= BankedFrom THEN k ELSE <<k[1], ANY>>

\* wp_find
Find(t, k) == {i \in DOMAIN t : t[i].key = Normalised(k)}

\* The length a call with this argument records.
Length(n) == IF n = 0 THEN 1 ELSE n

\* wp_erase, of what nobody owns any more.
Owned(t) == Picked(t, {i \in DOMAIN t : t[i].owners # {}})

Fresh(k, n, o) ==
    [key |-> Normalised(k), len |-> Length(n), active |-> TRUE,
     filtered |-> FALSE, test |-> FirstTest, owners |-> {o}]

-----------------------------------------------------------------------------
(* More slips the properties are there to catch.                           *)

\* An existing watch brought to the state a new one would have.
AddAfresh(t, k, n, o) ==
    IF Find(t, k) # {}
      THEN [i \in DOMAIN t |-> IF i \in Find(t, k)
                                 THEN [Fresh(k, n, o) EXCEPT !.owners = t[i].owners \cup {o}]
                                 ELSE t[i]]
      ELSE IF Len(t) < MaxWatchpoints THEN Append(t, Fresh(k, n, o)) ELSE t

\* Releasing from the front: the entry after one that went is never looked at.
ReleaseForwards(t, o) ==
    LET alone(i) == t[i].owners = {o}
        skipped(i) == i > 1 /\ alone(i - 1) /\ ~(i > 2 /\ alone(i - 2))
        mark == [i \in DOMAIN t |-> IF skipped(i) THEN t[i] ELSE [t[i] EXCEPT !.owners = @ \ {o}]]
    IN  Owned(mark)

\* A client's list added to what it asked for before.
DataBreakpointsOntop(t, list) ==
    FoldLeft(LAMBDA u, b :
                IF Find(u, <<b.addr, ANY>>) # {} \/ Len(u) = MaxWatchpoints THEN u
                ELSE Append(u, Fresh(<<b.addr, ANY>>, 1, DapSource)),
             t, list)

-----------------------------------------------------------------------------
(* The table's operations, as functions of the table.                      *)

\* debug_wp_add_for: EXISTED leaves length, switch and filter as the first
\* owner set them; FULL changes nothing.
Add(t, k, n, o) ==
    IF Find(t, k) # {}
      THEN [i \in DOMAIN t |-> IF i \in Find(t, k)
                                 THEN [t[i] EXCEPT !.owners = @ \cup {o}]
                                 ELSE t[i]]
      ELSE IF Len(t) < MaxWatchpoints THEN Append(t, Fresh(k, n, o)) ELSE t

\* debug_wp_clear_owner
Release(t, o) ==
    Owned([i \in DOMAIN t |-> [t[i] EXCEPT !.owners = @ \ {o}]])

\* debug_wp_delete: whoever asked for it.
Without(t, k) == Picked(t, DOMAIN t \ Find(t, k))

\* debug_wp_set_value
Filter(t, k, test) ==
    [i \in DOMAIN t |-> IF i \in Find(t, k)
                          THEN [t[i] EXCEPT !.filtered = TRUE, !.test = test]
                          ELSE t[i]]

\* debug_wp_clear_value
Unfilter(t, k) == [i \in DOMAIN t |-> [t[i] EXCEPT !.filtered = @ /\ i \notin Find(t, k)]]

\* debug_wp_set_active
Activate(t, k, on) == [i \in DOMAIN t |-> [t[i] EXCEPT !.active = IF i \in Find(t, k) THEN on ELSE @]]

\* One entry of a client's list: added, then narrowed if it states a condition,
\* unless the table was full.
Take(t, b) ==
    LET k == <<b.addr, ANY>>
        u == Add(t, k, 1, DapSource)
    IN  IF b.cond = {} THEN u ELSE Filter(u, k, CHOOSE test \in b.cond : TRUE)

\* handle_dap_set_data_breakpoints
DataBreakpoints(t, list) ==
    LET after[n \in 0 .. Len(list)] ==
            IF n = 0 THEN Release(t, DapSource) ELSE Take(after[n - 1], list[n])
    IN  after[Len(list)]

\* dap_release_session_state, as far as it concerns watches.
Forsaken(t) == Release(Release(t, DapSource), DapConsole)

-----------------------------------------------------------------------------
(* Stores.                                                                 *)

\* wp_covers_addr: no wrap at the top of memory.
Covers(w, a) == w.active /\ a >= w.key[1] /\ a < w.key[1] + w.len

\* wp_bank_ok: judged on the watch's own start address.
BankOK(w, mapped) == w.key[1] < BankedFrom \/ w.key[2] \in {ANY, mapped}

\* debug_wp_check_write.  write6502 asks it of the program's own stores to bank
\* 0, never of a debug write.
Stops(t, a, mapped, value) ==
    \E i \in DOMAIN t :
        /\ Covers(t[i], a)
        /\ BankOK(t[i], mapped)
        /\ t[i].filtered => value \in t[i].test

-----------------------------------------------------------------------------
(* Callers.                                                                *)

Connect == ~session /\ session' = TRUE /\ UNCHANGED watches

\* The session ends, however it does.
Leave == session /\ session' = FALSE /\ watches' = Forsaken(watches)

\* setDataBreakpoints
SetDataBreakpoints(list) ==
    /\ session
    /\ watches' = DataBreakpoints(watches, list)
    /\ UNCHANGED session

\* The console's watch_add and watch_clear.
ConsoleAdd(a, n) ==
    session /\ watches' = Add(watches, <<a, ANY>>, n, DapConsole) /\ UNCHANGED session

ConsoleClear == session /\ watches' = <<>> /\ UNCHANGED session

\* The console's watch_remove and the debugger's delete.
Delete(k) == Find(watches, k) # {} /\ watches' = Without(watches, k) /\ UNCHANGED session

\* -wp, and the debugger's "Break on write", which names no bank.
LocalAdd(k, n, o) == watches' = Add(watches, k, n, o) /\ UNCHANGED session

\* The debugger's list: each row is edited under its own key.
Edit(i) ==
    /\ \/ \E on \in BOOLEAN : watches' = Activate(watches, watches[i].key, on)
       \/ \E test \in Tests : watches' = Filter(watches, watches[i].key, test)
       \/ watches' = Unfilter(watches, watches[i].key)
    /\ UNCHANGED session

Init == watches = <<>> /\ session = FALSE

\* Lists of up to two data breakpoints, and those that state no condition.
ListsOf(S) == UNION {[1 .. n -> S] : n \in 0 .. 2}
Lists == ListsOf(DataBreakpoint)
PlainLists == ListsOf([addr : Addr, cond : {{}}])

Next ==
    \/ Connect
    \/ Leave
    \/ \E list \in Lists : SetDataBreakpoints(list)
    \/ \E a \in Addr, n \in 1 .. MaxLen : ConsoleAdd(a, n)
    \/ ConsoleClear
    \/ \E k \in Key : Delete(k)
    \/ \E k \in Key, n \in 0 .. MaxLen, o \in Local : LocalAdd(k, n, o)
    \/ \E i \in DOMAIN watches : Edit(i)

Spec == Init /\ [][Next]_watchVars

-----------------------------------------------------------------------------
(* Properties.                                                             *)

\* The stores that o's watches stop, by address, bank mapped and value.
CaughtFor(o, t) ==
    {st \in Addr \X X16Bank \X Value :
        Stops(Picked(t, {i \in DOMAIN t : o \in t[i].owners}), st[1], st[2], st[3])}

\* A client that leaves, or restates its data breakpoints without conditions,
\* changes nothing about the stores that anybody else's watches stop ("Watches
\* the console made are owned separately and are left alone, as are any from
\* -wp").
OthersUntouched ==
    [][ \A o \in WatchOwner \ {DapSource} :
          \/ Leave /\ o \in Local
          \/ \E list \in PlainLists : SetDataBreakpoints(list)
          => CaughtFor(o, watches') = CaughtFor(o, watches) ]_watchVars

Asked(list) == {<<list[i].addr, ANY>> : i \in DOMAIN list}
DapWatches(t) == {t[i].key : i \in {j \in DOMAIN t : DapSource \in t[j].owners}}

\* A client's watches are those it last asked for and no others, whoever else
\* watches the same addresses, unless the table is full: a list replaces the one
\* before it ("The client's complete list, so let go of the previous one"), and
\* a client that has gone leaves none, which could halt a machine "with nobody
\* able to resume it" (debug_server.c, watch_add).
WatchesAsAsked ==
    [][ /\ \A list \in PlainLists :
             SetDataBreakpoints(list) =>
               /\ DapWatches(watches') \subseteq Asked(list)
               /\ Len(watches') < MaxWatchpoints => DapWatches(watches') = Asked(list)
        /\ ~session' => \A i \in DOMAIN watches' : watches'[i].owners \subseteq Local
      ]_watchVars

\* A client's conditions, too, narrow nobody else's watch.  The code narrows the
\* entry the owners share.
ConditionsTouchNobody ==
    [][ \A o \in Local :
          (\E list \in Lists : SetDataBreakpoints(list)) =>
            CaughtFor(o, watches') = CaughtFor(o, watches) ]_watchVars
=============================================================================
