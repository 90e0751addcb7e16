-------------------------- MODULE MCBreakpointTable --------------------------
(***************************************************************************)
(* The two tables of debug_core.c on a first-generation machine with one   *)
(* unbanked and one banked address: breakpoints, or write watchpoints with *)
(* a single bank and the one filter == 0 over the values 0 and 1.  They    *)
(* share no state; a behaviour is one table's, chosen at the start.        *)
(***************************************************************************)
EXTENDS BreakpointTable

CONSTANTS
    Tables,     \* which tables to start
    ui, source, console

VARIABLES which, watches, session

EqualsZero == {0}

W == INSTANCE WatchpointTable WITH
        X16Bank <- {1}, Local <- {ui}, DapSource <- source, DapConsole <- console,
        MaxLen <- 2, Value <- {0, 1}, Tests <- {EqualsZero}, FirstTest <- EqualsZero,
        MaxWatchpoints <- 2

ASSUME W!WatchAssumption

TablesInit == which \in Tables /\ Init /\ W!Init

TablesNext ==
    \/ which = "breakpoints" /\ Next /\ UNCHANGED <<which, watches, session>>
    \/ which = "watchpoints" /\ W!Next /\ UNCHANGED <<which, tableVars>>

TablesSpec == TablesInit /\ [][TablesNext]_<<which, tableVars, watches, session>>

\* The properties of WatchpointTable, by the names the configuration gives.
OthersUntouched == W!OthersUntouched
WatchesAsAsked == W!WatchesAsAsked
ConditionsTouchNobody == W!ConditionsTouchNobody
=============================================================================
