---------------------------- MODULE DapBreakpoints ----------------------------
(***************************************************************************)
(* The breakpoints of a DAP session (src/src/debug_server.c) over the core *)
(* table, with the program loads that move them (src/src/dbg_load.c).      *)
(*                                                                         *)
(* The server keeps, for every source line the client asked about, the     *)
(* address the debug info gave for it, and holds one claim per address in  *)
(* the core's table for all of them together.  A load replaces debug info, *)
(* unloads what it describes, arms what was waiting for it, and may show   *)
(* that a banked segment lives in another bank than was thought.           *)
(*                                                                         *)
(* The core table is the set of claims BreakpointTable is shown to keep;   *)
(* conditions and dumps live in records of their own, keyed by address.    *)
(* Every handler is an operator from the session's state to the next one.  *)
(***************************************************************************)
EXTENDS Naturals, FiniteSetsExt, Functions, SequencesExt, Sublists

CONSTANTS
    File, Line,   \* what a source breakpoint names
    Name,         \* function names
    Addr,         \* addresses, 0 among them
    Banked,       \* the addresses inside the banked window
    Bank, ANY,    \* the window's banks, and the selector for all of them
    None,         \* no address, no condition
    Cond,         \* the conditions a client states
    Infos,        \* the debug infos that may be loaded
    Wants,        \* what is asked of a line: a bank, or ANY, and a condition
    DumpWants,    \* what is asked of an instruction: a condition, a dump or
                  \* not, and whether its file opens
    MaxWants,     \* bound on the lines and addresses of one request
    Toggled,      \* bound: the keys a person toggles
    Reloads,      \* whether a load may replace what breakpoints rest on
    Sessions      \* bound on the sessions

Site == File \X Line
Place == Site \cup Name
Selector == Bank \cup {ANY}
Key == Addr \X Selector
Owner == {"source", "function", "instruction", "other"}
Want == [pin : Selector, cond : Cond \cup {None}]

ASSUME DapAssumption ==
    /\ 0 \in Addr /\ Banked \subseteq Addr \ {0}
    /\ ANY \notin Bank /\ Wants \subseteq Want
    /\ DumpWants \subseteq [cond : Cond \cup {None}, dump : BOOLEAN, opens : BOOLEAN]
    /\ None \notin Addr \cup Cond
    /\ Infos \subseteq [Place -> Addr \cup {None}]
    /\ Toggled \subseteq Key
    /\ MaxWants \in Nat /\ Sessions \in Nat \ {0} /\ Reloads \in BOOLEAN

VARIABLES
    info,      \* dbg_info: where each place is, if that is known
    d,         \* the claims and records of the core, and the server's lists
    session    \* which session this is

vars == <<info, d, session>>

\* normalise_bank
Normal(a, b) == <<a, IF a \in Banked THEN b ELSE ANY>>

NoRecord == [cond |-> None, dump |-> FALSE]

HeldBy(s, o) == {k \in Key : <<o, k>> \in s.claims}
DeletedOf(s, o) == {k \in Key : <<o, k>> \in s.gone}
Claimed(s) == {x[2] : x \in s.claims}

-----------------------------------------------------------------------------
(* The core table, as far as a session uses it.                            *)

\* debug_bp_add_for.  gone: the claims a person deleted, not in the code.
AddFor(s, o, ks) == [s EXCEPT !.claims = @ \cup ({o} \X ks), !.gone = @ \ ({o} \X ks)]

\* debug_bp_remove_for
RemoveFor(s, o, ks) == [s EXCEPT !.claims = @ \ ({o} \X ks)]

\* debug_bp_clear_owner
ClearOwner(s, o) == RemoveFor(s, o, HeldBy(s, o))

\* debug_bp_forget, where nothing is left at the key
ForgetUnclaimed(s, ks) ==
    [s EXCEPT !.recs = [k \in Key |-> IF k \in ks \ Claimed(s) THEN NoRecord ELSE @[k]]]

\* debug_bp_clear_dump
ClearDumps(s, ks) ==
    [s EXCEPT !.recs = [k \in Key |-> IF k \in ks THEN [@[k] EXCEPT !.dump = FALSE] ELSE @[k]]]

-----------------------------------------------------------------------------
(* Source breakpoints.                                                     *)

\* dap_cond_bank_pin: the bank the condition names, or the segment's.
KeyFor(s, e, a) == Normal(a, IF e.pin = ANY THEN s.seg ELSE e.pin)

\* The entries at these places of the list get the address debug info has for
\* them, and the client is told.
Located(s, is, where) ==
    [s EXCEPT !.bps = [i \in DOMAIN @ |->
        IF i \in is
          THEN [@[i] EXCEPT !.key = KeyFor(s, s.bps[i], where[s.bps[i].site]),
                            !.verified = TRUE, !.shown = TRUE]
          ELSE @[i]]]

\* As if the condition were kept under a key without its bank.
StatedPlainly(s, is) ==
    [s EXCEPT !.recs = [k \in Key |->
        LET at == {i \in is : <<s.bps[i].key[1], ANY>> = k}
        IN  IF at = {} THEN @[k] ELSE [@[k] EXCEPT !.cond = s.bps[Max(at)].cond]]]

\* dap_apply_bp_condition, down the list: of several at one key the last has
\* the last word.
Stated(s, is) ==
    [s EXCEPT !.recs = [k \in Key |->
        LET at == {i \in is : s.bps[i].key = k}
        IN  IF at = {} THEN @[k] ELSE [@[k] EXCEPT !.cond = s.bps[Max(at)].cond]],
              !.over = @ \ {s.bps[i].key : i \in is}]

\* Arm the entries at these places of the list: condition stated, claim made.
Resolve(s, is, where) ==
    LET t == Located(s, is, where)
    IN  AddFor(Stated(t, is), "source", {t.bps[i].key : i \in is})

\* A breakpoint nothing describes yet.
Pending(x, want) ==
    [site |-> x, pin |-> want.pin, cond |-> want.cond, key |-> <<0, ANY>>,
     verified |-> FALSE, shown |-> FALSE]

\* The core normalises the key it is given.
NormalKeys(entries) == {Normal(e.key[1], e.key[2]) : e \in entries}

\* The breakpoints of other files, in their order.
OthersOf(list, f) == Picked(list, {i \in DOMAIN list : list[i].site[1] # f})

\* As if the survivors were added back whether they had been armed or not.
RestateAll(s, f) ==
    LET kept == OthersOf(s.bps, f)
    IN  AddFor([ClearOwner(s, "source") EXCEPT !.bps = kept], "source", NormalKeys(Range(kept)))

\* As if removing this file's breakpoints one at a time were enough to leave
\* the others' alone.
RestateNothing(s, f) ==
    LET gone == {i \in DOMAIN s.bps : s.bps[i].site[1] = f}
    IN  [RemoveFor(s, "source", NormalKeys({s.bps[i] : i \in gone}))
           EXCEPT !.bps = OthersOf(@, f)]

\* The first half of setBreakpoints: forget every source claim, drop this
\* file's breakpoints, and assert again the verified ones of other files.
Restate(s, f) ==
    LET kept == OthersOf(s.bps, f)
    IN  AddFor([ClearOwner(s, "source") EXCEPT !.bps = kept], "source",
            NormalKeys({e \in Range(kept) : e.verified}))

\* handle_dap_set_breakpoints: the file's lines, each with what is wanted.
SetBreakpoints(s, f, lines, wants) ==
    LET r == Restate(s, f)
        new == [i \in DOMAIN lines |-> Pending(<<f, lines[i]>>, wants[i])]
        t == [r EXCEPT !.bps = @ \o new]
    IN  Resolve(t, {i \in Len(r.bps) + 1 .. Len(t.bps) : info[t.bps[i].site] # None}, info)

-----------------------------------------------------------------------------
(* Function and instruction breakpoints.                                   *)

\* handle_dap_set_function_breakpoints.  No condition is stated for one.
SetFunctions(s, names) ==
    LET keys == [n \in {m \in names : info[m] # None} |-> Normal(info[n], s.seg)]
    IN  [AddFor(ClearOwner(s, "function"), "function", {keys[n] : n \in DOMAIN keys})
           EXCEPT !.funcs = keys]

\* As if the previous set's dumps were left open.
SetInstructionsKeepingDumps(s, wants) ==
    LET t == AddFor(ClearOwner(s, "instruction"), "instruction", DOMAIN wants)
        u == [t EXCEPT !.recs = [k \in Key |->
                IF k \in DOMAIN wants THEN [cond |-> wants[k].cond, dump |-> wants[k].dump] ELSE @[k]]]
    IN  u

\* handle_dap_set_instruction_breakpoints, wants being a function on keys.  A
\* dump that cannot be opened takes its breakpoint with it.  over: the keys at
\* which an instruction breakpoint had the last word, not in the code.
SetInstructions(s, wants) ==
    LET old == HeldBy(s, "instruction")
        t == ClearOwner(ClearDumps(s, old), "instruction")
        u == [AddFor(t, "instruction", DOMAIN wants) EXCEPT
                !.recs = [k \in Key |->
                  IF k \in DOMAIN wants THEN [cond |-> wants[k].cond, dump |-> wants[k].dump] ELSE @[k]],
                !.over = @ \cup DOMAIN wants]
        failed == {k \in DOMAIN wants : wants[k].dump /\ ~wants[k].opens}
        v == RemoveFor(ClearDumps(u, failed), "instruction", failed)
    IN  ForgetUnclaimed(v, failed \cup old)

-----------------------------------------------------------------------------
(* Loads.                                                                  *)

\* invalidate_breakpoints_in_range.  The entry stays verified.
Invalidate(s, range) ==
    LET hit == {i \in DOMAIN s.bps : s.bps[i].verified /\ s.bps[i].key[1] \in range}
    IN  [RemoveFor(s, "source", NormalKeys({s.bps[i] : i \in hit}))
           EXCEPT !.bps = [i \in DOMAIN @ |->
              IF i \in hit THEN [@[i] EXCEPT !.key[1] = 0, !.shown = FALSE] ELSE @[i]]]

\* As if a pending breakpoint waited for the client to ask again.
RetryNothing(s, where) == s

\* retry_unverified_breakpoints
Retry(s, where) ==
    Resolve(s, {i \in DOMAIN s.bps : ~s.bps[i].verified /\ where[s.bps[i].site] # None}, where)

\* Move one owner's claim to another bank: move_bp_bank, for several at once.
Move(s, o, from, to) == AddFor(ForgetUnclaimed(RemoveFor(s, o, from), from), o, to)

\* rebank_breakpoints, once the segment's bank is known: the sources, whose
\* conditions move with them, and the functions.
Rebank(s, where) ==
    LET moved == {i \in DOMAIN s.bps :
                    LET e == s.bps[i] IN
                    /\ e.verified
                    /\ where[e.site] = e.key[1]
                    /\ KeyFor(s, e, e.key[1]) # e.key}
        t == Resolve(Move(s, "source", {s.bps[i].key : i \in moved}, {}), moved, where)
        called == {n \in DOMAIN t.funcs :
                    where[n] = t.funcs[n][1] /\ Normal(where[n], t.seg) # t.funcs[n]}
        old == {t.funcs[n] : n \in called}
        new == {Normal(where[n], t.seg) : n \in called}
    IN  [Move(t, "function", old, new) EXCEPT !.funcs = [n \in DOMAIN @ |->
            IF n \in called THEN Normal(where[n], t.seg) ELSE @[n]]]

\* What is known of the banked segment: dbg_info_note_bank_load, and nothing
\* once the segment is unloaded.
Learn(s, b) == [s EXCEPT !.seg = b]

Unlearn(s, range) == IF range \cap Banked # {} THEN Learn(s, ANY) ELSE s

\* There is a banked segment to learn about.
Describes(where) == \E x \in Place : where[x] \in Banked

\* dap_release_session_state
Release(s) ==
    [ClearOwner(ClearOwner(ClearOwner(s, "source"), "function"), "instruction")
       EXCEPT !.bps = <<>>, !.funcs = <<>>]

-----------------------------------------------------------------------------
(* The requests, the loads, and a person at the keyboard.                  *)

Step(s) == d' = s /\ UNCHANGED <<info, session>>

\* A request names each line once.
Lists == {l \in UNION {[1 .. n -> Line] : n \in 0 .. MaxWants} : IsInjective(l)}

ClientSetsBreakpoints ==
    \E f \in File, lines \in Lists :
        \E wants \in [DOMAIN lines -> Wants] : Step(SetBreakpoints(d, f, lines, wants))

ClientSetsFunctions == \E names \in SUBSET Name : Step(SetFunctions(d, names))

ClientSetsInstructions ==
    \E keys \in SUBSET {Normal(k[1], k[2]) : k \in Key} :
        /\ Cardinality(keys) <= MaxWants
        /\ \E wants \in [keys -> DumpWants] : Step(SetInstructions(d, wants))

\* The session ends and another begins.
NewSession ==
    /\ session < Sessions
    /\ d' = Release(d)
    /\ session' = session + 1
    /\ UNCHANGED info

\* What may be known after a load that replaced what lay in range.
Merged(new, range) ==
    \A x \in Place :
        /\ info[x] \notin range \cup {None} => new[x] = info[x]
        /\ new[x] # info[x] => new[x] \in range \cup {None}

\* dbg_load_poll for a file that is not merged yet: a failed read stops there.
LoadProgram ==
    \E new \in Infos, range \in SUBSET Addr, read \in BOOLEAN, b \in Selector :
        LET t == Unlearn(Invalidate(d, range), range)
        IN  /\ range # {}
            /\ b # ANY => Describes(new)
            /\ ~Reloads => t.bps = d.bps
            /\ Merged(new, range)
            /\ ~read => \A x \in Place : new[x] = (IF info[x] \in range THEN None ELSE info[x])
            /\ info' = new
            /\ d' = IF ~read THEN t
                    ELSE IF b = ANY THEN Retry(t, new)
                    ELSE Rebank(Learn(Retry(t, new), b), new)
            /\ UNCHANGED session

\* dbg_load_poll for one that is: only the bank is news.
LoadAgain ==
    \E b \in Bank : Describes(info) /\ Step(Rebank(Learn(d, b), info))

\* dbg_load_poll for a file nothing describes, discard_range: the debug info of
\* what it replaced goes, and the breakpoints are not looked at.
LoadUndescribed ==
    \E range \in SUBSET Addr :
        /\ \E x \in Place : info[x] \in range
        /\ info' = [x \in Place |-> IF info[x] \in range THEN None ELSE info[x]]
        /\ d' = Unlearn(d, range)
        /\ UNCHANGED session

\* dbg_load_replace: everything goes, and what the new file has comes in.
ReplaceInfo ==
    \E new \in Infos :
        LET t == Unlearn(Invalidate(d, Addr), Addr)
        IN  /\ ~Reloads => t.bps = d.bps
            /\ info' = new
            /\ d' = Retry(t, new)
            /\ UNCHANGED session

\* F9, debug_bp_toggle_for: a person deletes whatever is there, whoever asked
\* for it, or adds a breakpoint of their own.
PersonToggles ==
    \E k \in Toggled :
        LET held == {x \in d.claims : x[2] = k}
        IN  IF held # {}
              THEN Step([d EXCEPT !.claims = @ \ held, !.gone = @ \cup held])
              ELSE Step(AddFor(d, "other", {k}))

Init ==
    /\ info \in Infos
    /\ d = [claims |-> {}, gone |-> {}, recs |-> [k \in Key |-> NoRecord], over |-> {},
            bps |-> <<>>, funcs |-> <<>>, seg |-> ANY]
    /\ session = 1

Next ==
    \/ ClientSetsBreakpoints \/ ClientSetsFunctions \/ ClientSetsInstructions \/ NewSession
    \/ LoadProgram \/ LoadAgain \/ LoadUndescribed \/ ReplaceInfo
    \/ PersonToggles

Spec == Init /\ [][Next]_vars

-----------------------------------------------------------------------------
(* Properties.                                                             *)

\* The lists have their types, each site is asked for once, and nothing is
\* shown to be verified that is not (debug_server.c, dap_bps).
TypeOK ==
    /\ info \in [Place -> Addr \cup {None}]
    /\ d.claims \subseteq Owner \X Key
    /\ d.gone \subseteq (Owner \X Key) \ d.claims
    /\ d.recs \in [Key -> [cond : Cond \cup {None}, dump : BOOLEAN]]
    /\ d.over \subseteq Key
    /\ \A e \in Range(d.bps) :
         e.site \in Site /\ e.key \in Key /\ (e.shown => e.verified)
    /\ \A i, j \in DOMAIN d.bps : d.bps[i].site = d.bps[j].site => i = j
    /\ DOMAIN d.funcs \subseteq Name
    /\ d.seg \in Selector /\ session \in 1 .. Sessions

\* What the client shows as verified stops the machine, unless a person took
\* it away: "leaving the client showing a verified breakpoint that no longer
\* stops anything" (debug_server.c, handle_dap_set_breakpoints) never happens.
ShownIsArmed ==
    \A e \in Range(d.bps) : e.shown => e.key \in HeldBy(d, "source") \cup DeletedOf(d, "source")

\* Nothing is armed that the client does not show: no "unrelated breakpoint at
\* $0000" (the same handler).
ArmedIsShown ==
    HeldBy(d, "source") \subseteq {e.key : e \in {x \in Range(d.bps) : x.shown}}

\* A breakpoint whose line the debug info has is armed: one that was waiting is
\* armed when the .dbg arrives and "the client's view catches up on its own".
PendingCatchesUp == \A e \in Range(d.bps) : info[e.site] # None => e.shown

\* What is shown as verified is where the debug info says the line is: of a load
\* that nothing describes, "anything they completely replaced is still
\* invalidated" (dbg_load.c, dbg_load_poll).
ShownIsDescribed == \A e \in Range(d.bps) : e.shown => info[e.site] = e.key[1]

\* A function breakpoint nobody else claims is free of conditions: a client
\* that states none does not "inherit the one it had before"
\* (debug_server.c, dap_apply_bp_condition).
FunctionsUnconditional ==
    \A n \in DOMAIN d.funcs :
        (\A o \in Owner \ {"function"} : d.funcs[n] \notin HeldBy(d, o)) =>
            d.recs[d.funcs[n]].cond = None

\* A source breakpoint with its address to itself has the condition the client
\* stated, unless an instruction breakpoint had the last word there:
\* re-adding the survivors of a request loses nothing, because "conditions and
\* hit counts live on the address rather than the claim" (debug_server.c,
\* handle_dap_set_breakpoints).
ConditionAsStated ==
    \A i \in DOMAIN d.bps :
        LET e == d.bps[i] IN
        /\ e.shown
        /\ e.key \notin d.over
        /\ \A j \in DOMAIN d.bps \ {i} : d.bps[j].key # e.key
        => d.recs[e.key].cond = e.cond

\* Only the dump that was asked for is ever taken: none is left on a record to
\* "ride along on the next plain breakpoint at that address"
\* (debug_server.c, handle_dap_set_instruction_breakpoints).
DumpsAreAsked ==
    \A k \in Key : d.recs[k].dump => k \in HeldBy(d, "instruction") \cup DeletedOf(d, "instruction")
=============================================================================
