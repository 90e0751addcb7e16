--------------------------- MODULE MCDapBreakpoints ---------------------------
(* Two source files of one base name, a plain line at 1 and a banked one, the *)
(* function's first, at 2.                                                    *)
EXTENDS DapBreakpoints

Known == [1 .. 2 -> BOOLEAN]
InfoOf(known) ==
    [x \in Place |->
        LET l == IF x \in Name THEN 2 ELSE x[2] IN IF known[l] THEN l ELSE None]
MCInfos == {InfoOf(known) : known \in Known}

\* Two files that have nothing in common, of one line each at the address of
\* the file's number, and no functions.
ApartInfos == {[x \in Place |-> IF known[x[1]] THEN x[1] ELSE None] : known \in Known}

Nowhere == {}
PlainKey == {<<1, ANY>>}
BankedKey == {<<2, 5>>}

Plain == {[pin |-> ANY, cond |-> None]}
Conditional == {[pin |-> ANY, cond |-> x] : x \in Cond \cup {None}}
Pinned == {[pin |-> b, cond |-> None] : b \in Selector}
\* A pin comes with a condition here, so that the instance stays small.
Terms == Conditional \cup [pin : Bank, cond : Cond]
NoDumps == {}
SomeDumps ==
    {[cond |-> None, dump |-> FALSE, opens |-> TRUE]}
    \cup [cond : Cond, dump : {TRUE}, opens : BOOLEAN]
Dumping == [cond : Cond \cup {None}, dump : BOOLEAN, opens : BOOLEAN]
=============================================================================
