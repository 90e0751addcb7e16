----------------------------- MODULE DebugLoad -----------------------------
(***************************************************************************)
(* Debug info for the programs a guest loads (dbg_load.c), and as much of  *)
(* the store it keeps in step (dbg_info.c) as that takes: which modules'   *)
(* records describe which address, how many copies of a record there are, *)
(* and the RAM bank seen for a segment.                                    *)
(*                                                                         *)
(* A file on the host stands for the program and the .dbg beside it: its   *)
(* Extent is the envelope of the segments that .dbg declares, empty when   *)
(* there is none (or when the file is a .dbg itself).  One segment and     *)
(* one line per address are kept for each module.  A path, a directory to  *)
(* search and the list of source files are left out.                       *)
(***************************************************************************)
EXTENDS Naturals, Sequences, FiniteSets

CONSTANTS
    Channels,   \* the channels of the DOS device a file is opened on
    Files,      \* host files
    Extent,     \* file -> the interval its debug info covers, {} for none
    Top,        \* the last address of the machine, $FFFF in the code
    Window,     \* the addresses that show a RAM bank, $A000-$BFFF
    Banks,      \* RAM bank numbers
    AtStart,    \* files whose .dbg was named with -dbgfile
    Readings,   \* what reading a .dbg may find: subset of {"good", "short"}
    Replacing,  \* the same for the file a user replaces all debug info by
    Copies,     \* bound: no more copies of a record than this are counted
    Nil

ASSUME ExtentAssumption ==
    /\ Extent \in [Files -> SUBSET (1 .. Top)]
    /\ Top \in Nat \ {0} /\ Copies \in Nat \ {0}
    /\ \A f \in Files : \A a, b \in Extent[f] : a .. b \subseteq Extent[f]
    /\ Window \subseteq 1 .. Top /\ 0 \in Banks
    /\ AtStart \subseteq Files /\ Nil \notin Files

VARIABLES
    collecting,   \* per channel: the path, first place and size so far
    registry,     \* the modules known to be merged, over their extents
    lines,        \* file -> address -> copies of its record there
    segments,     \* file -> copies of its segment
    bank,         \* file -> the bank its segment was seen in
    owners,       \* the modules read since dbg_info was last freed
    loaded,       \* it has accepted one of them
    enabled,      \* whether loads are followed at all
    pending       \* the load the last step finished, taken in the same step

store == <<registry, lines, segments, bank, owners, loaded>>

dbgVars == <<collecting, store, enabled, pending>>

Idle == [path |-> Nil, addr |-> 0, bank |-> 0, size |-> 0]

NoLoad == [path |-> Nil, addr |-> 0, bank |-> 0, size |-> 0]

AddCopy(n) == IF n = Copies THEN n ELSE n + 1

(***************************************************************************)
(* A channel's record of a load.                                           *)
(***************************************************************************)

\* A file was opened for reading: forget what the channel held; collect only
\* while loads are followed.
Begin(c, f) ==
    [collecting EXCEPT ![c] = IF enabled THEN [Idle EXCEPT !.path = f] ELSE Idle]

\* n bytes landed from addr on, the first of them in bank b.
Noted(r, addr, b, n) ==
    IF r.path = Nil \/ n = 0 THEN r
    ELSE IF r.size = 0 THEN [r EXCEPT !.addr = addr, !.bank = b, !.size = n]
    ELSE [r EXCEPT !.size = @ + n]

AbandonNothing(c) == collecting

Abandon(c) == [collecting EXCEPT ![c] = Idle]

(***************************************************************************)
(* The store.  Unloading a range drops the lines in it and the segments    *)
(* wholly inside it, and does nothing before a first file was accepted.    *)
(* Reading a .dbg appends, also when it turns out to be half written: the  *)
(* reading is refused then, and what it appended stays.                    *)
(***************************************************************************)

UnloadLines(range) ==
    IF loaded
    THEN [f \in Files |-> [a \in 1 .. Top |-> IF a \in range THEN 0 ELSE lines[f][a]]]
    ELSE lines

UnloadSegments(range) ==
    IF loaded
    THEN [f \in Files |-> IF Extent[f] \subseteq range THEN 0 ELSE segments[f]]
    ELSE segments

UnloadBanks(range) ==
    [f \in Files |-> IF loaded /\ Extent[f] \subseteq range THEN Nil ELSE bank[f]]

AppendLines(table, f) ==
    [table EXCEPT ![f] = [a \in 1 .. Top |-> IF a \in Extent[f] THEN AddCopy(@[a]) ELSE @[a]]]

AppendSegment(table, f) == [table EXCEPT ![f] = AddCopy(@)]

\* The debug info of every module the registry knows and the range covers
\* whole is unloaded; a module only partly covered keeps all of its own.
Discard(addr, size) ==
    LET range   == addr .. (IF addr + size - 1 > Top THEN Top ELSE addr + size - 1)
        covered == {f \in registry : Extent[f] \subseteq range}
        gone    == UNION {Extent[f] : f \in covered}
        dropped(f) == loaded /\ \E g \in covered : Extent[f] \subseteq Extent[g]
    IN  /\ registry' = registry \ covered
        /\ lines' = UnloadLines(gone)
        /\ segments' = [f \in Files |-> IF dropped(f) THEN 0 ELSE segments[f]]
        /\ bank' = [f \in Files |-> IF dropped(f) THEN Nil ELSE bank[f]]
        /\ UNCHANGED <<owners, loaded>>

\* The segment a load fills exactly, by its start and size, header included
\* or not; none when two match.
Filled(count, ev) ==
    LET fits == {f \in Files : /\ count[f] > 0
                               /\ ev.addr \in Extent[f]
                               /\ \A a \in Extent[f] : ev.addr <= a
                               /\ ev.size \in {Cardinality(Extent[f]), Cardinality(Extent[f]) + 2}}
    IN  IF \E f \in fits : fits = {f} /\ count[f] = 1 THEN fits ELSE {}

NoteBankOnce(count, table, ev) ==
    [f \in Files |-> IF ev.addr \in Window /\ f \in Filled(count, ev) /\ table[f] = Nil
                     THEN ev.bank ELSE table[f]]

\* The bank the program went into is noted on every load of it.
NoteBank(count, table, ev) ==
    [f \in Files |-> IF ev.addr \in Window /\ f \in Filled(count, ev) THEN ev.bank ELSE table[f]]

\* What is still live when a range has been taken over.
StillLiveAll(range) == registry

StillLive(range) == {g \in registry : Extent[g] \cap range = {}}

\* The file's records are not live: unload its own envelope, whatever it
\* holds, and read the .dbg.  What overlaps is forgotten even if that fails.
Merge(ev) ==
    \E reading \in Readings :
        LET f      == ev.path
            range  == Extent[f]
            count  == AppendSegment(UnloadSegments(range), f)
            kept   == StillLive(range)
        IN  /\ lines' = AppendLines(UnloadLines(range), f)
            /\ segments' = count
            /\ owners' = owners \cup {f}
            /\ IF reading = "good"
               THEN /\ registry' = kept \cup {f}
                    /\ bank' = NoteBank(count, UnloadBanks(range), ev)
                    /\ loaded' = TRUE
               ELSE /\ registry' = kept
                    /\ bank' = UnloadBanks(range)
                    /\ UNCHANGED loaded

\* dbg_load_poll: what becomes of a finished load, right after the call that
\* finished it.
Poll(ev) ==
    /\ pending' = ev
    /\ \/ /\ ev.path = Nil \/ ~enabled
          /\ UNCHANGED store
       \/ /\ enabled /\ ev.path # Nil /\ ev.path \notin registry
          /\ Extent[ev.path] = {}
          /\ Discard(ev.addr, ev.size)
       \/ /\ enabled /\ ev.path # Nil /\ ev.path \notin registry
          /\ Extent[ev.path] # {}
          /\ Merge(ev)
       \/ /\ enabled /\ ev.path \in registry
          /\ bank' = NoteBank(segments, bank, ev)
          /\ UNCHANGED <<registry, lines, segments, owners, loaded>>

Unfinished == Poll(NoLoad)

(***************************************************************************)
(* The debugger is switched on or off, by its keys or by the machine.      *)
(***************************************************************************)
Follow ==
    /\ enabled' = ~enabled
    /\ Unfinished
    /\ UNCHANGED collecting

\* The user's replacement of all debug info by one file.  Everything is freed
\* first; a file that is refused leaves what it appended, and every file read
\* before is read again, whole.
Replace(f) ==
    /\ Extent[f] # {}
    /\ registry' = {}
    /\ bank' = [g \in Files |-> Nil]
    /\ \E reading \in Replacing :
          LET again     == IF reading = "good" THEN {} ELSE owners
              copies(g) == Cardinality({f} \cap {g}) + Cardinality(again \cap {g})
          IN  /\ lines' = [g \in Files |-> [a \in 1 .. Top |->
                              IF a \in Extent[g] THEN copies(g) ELSE 0]]
              /\ segments' = [g \in Files |-> copies(g)]
              /\ owners' = {f} \cup again
              /\ loaded' = (reading = "good" \/ again # {})
    /\ pending' = NoLoad
    /\ UNCHANGED <<collecting, enabled>>

DbgInit ==
    /\ collecting = [c \in Channels |-> Idle]
    /\ registry = {}
    /\ lines = [f \in Files |-> [a \in 1 .. Top |-> IF f \in AtStart /\ a \in Extent[f] THEN 1 ELSE 0]]
    /\ segments = [f \in Files |-> IF f \in AtStart THEN 1 ELSE 0]
    /\ bank = [f \in Files |-> Nil]
    /\ owners = AtStart
    /\ loaded = (AtStart # {})
    /\ enabled \in BOOLEAN
    /\ pending = NoLoad

(***************************************************************************)
(* The store on its own: any load may finish, anywhere and of any size.  A *)
(* bank matters in the window only, and one file without debug info is     *)
(* like another.                                                           *)
(***************************************************************************)
Described == {f \in Files : Extent[f] # {}}

Different ==
    Described \cup (IF Described = Files THEN {} ELSE {CHOOSE f \in Files \ Described : TRUE})

Load ==
    /\ \E f \in Different, a \in 1 .. Top, b \in Banks, n \in 1 .. Top :
          /\ a \notin Window => b = 0
          /\ Poll([path |-> f, addr |-> a, bank |-> b, size |-> n])
    /\ UNCHANGED <<collecting, enabled>>

DbgNext == Load \/ Follow \/ \E f \in Files : Replace(f)

DbgSpec == DbgInit /\ [][DbgNext]_dbgVars

(***************************************************************************)
(* Properties of the store.                                                *)
(***************************************************************************)

\* A module the registry takes for live is: its own records describe all of
\* its extent, and nobody else's describe any (dbg_load.c dbg_load_poll).  A
\* wrong entry would skip the reading that brings the records back.
RegistryIsLive ==
    \A f \in registry :
        /\ segments[f] > 0
        /\ \A a \in Extent[f], g \in Files : lines[g][a] > 0 <=> g = f

\* No record is there twice, however often modules displace each other and
\* come back (dbg_load.c, the note on parsed: "the exact duplication this
\* exists to prevent").  Violated where none was there at the start: until a
\* first one is accepted nothing is unloaded, so a .dbg found half written is
\* appended to by the next reading of it.
RecordsOnce ==
    \A f \in Files : segments[f] <= 1 /\ \A a \in 1 .. Top : lines[f][a] <= 1

\* Whenever a program lands where its segment is linked in the bank window,
\* the first time or again, its segment is known by the bank it went to now
\* (dbg_load.c dbg_load_poll, dbg_info.c dbg_info_note_bank_load).
BankFollows ==
    [][ /\ pending'.path \in registry' /\ enabled
        /\ pending'.addr \in Window
        /\ Extent[pending'.path] = pending'.addr .. pending'.addr + pending'.size - 1
        => bank'[pending'.path] = pending'.bank ]_dbgVars
============================================================================
