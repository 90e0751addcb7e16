-------------------------- MODULE BreakpointClaims --------------------------
(***************************************************************************)
(* What the breakpoint table promises its users, with no table in it.      *)
(* Several owners that do not know about each other each claim the         *)
(* breakpoints they want; a breakpoint exists for as long as anyone claims *)
(* it, stops the machine unless it is switched off, and a claim ends only  *)
(* when its owner drops it or a person deletes the breakpoint outright.    *)
(***************************************************************************)
CONSTANTS
    Owner,   \* who may want a breakpoint (debug_owner_t)
    Key      \* what identifies one: address, program bank, window selector

VARIABLES
    claims,  \* the pairs <<owner, key>> in force
    off      \* the keys claimed but disabled

claimVars == <<claims, off>>

Claimed(cs) == {c[2] : c \in cs}

ClaimsTypeOK ==
    /\ claims \subseteq Owner \X Key
    /\ off \subseteq Claimed(claims)

ClaimsInit ==
    /\ claims = {}
    /\ off = {}

\* Asking for a breakpoint is asking for it to be armed.
Claim(o, k) ==
    /\ claims' = claims \cup {<<o, k>>}
    /\ off' = off \ {k}

\* Give up a set of claims; a breakpoint nobody claims is gone.
Drop(cs) ==
    /\ claims' = claims \ cs
    /\ off' = off \cap Claimed(claims \ cs)

Unclaim(o, k) == Drop({<<o, k>>})

UnclaimAll(o) == Drop({c \in claims : c[1] = o})

\* A person's delete, whoever asked for the breakpoint.
DeleteKey(k) == Drop({c \in claims : c[2] = k})

DeleteAll == Drop(claims)

Switch(k, on) ==
    /\ k \in Claimed(claims)
    /\ off' = IF on THEN off \ {k} ELSE off \cup {k}
    /\ UNCHANGED claims

ClaimsNext ==
    \/ \E o \in Owner, k \in Key : Claim(o, k) \/ Unclaim(o, k)
    \/ \E o \in Owner : UnclaimAll(o)
    \/ \E k \in Key : DeleteKey(k)
    \/ \E k \in Key, on \in BOOLEAN : Switch(k, on)
    \/ DeleteAll

ClaimsSpec == ClaimsInit /\ [][ClaimsNext]_claimVars
=============================================================================
