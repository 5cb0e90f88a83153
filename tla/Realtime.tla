------------------------------- MODULE Realtime -------------------------------
(***************************************************************************)
(* Presence and the call registry together.  The two services share the    *)
(* sockets but no state, and neither reads what the other writes, so every *)
(* behaviour is checked as one of either: their states are added up        *)
(* instead of multiplied.                                                  *)
(***************************************************************************)
EXTENDS Presence, CallRegistry

VARIABLE about  \* the service whose steps the behaviour shows

RealtimeInit == about \in {"presence", "calls"} /\ Init /\ CallInit

RealtimeNext ==
    \/ about = "presence" /\ Next /\ UNCHANGED <<about, callVars>>
    \/ about = "calls" /\ CallNext /\ UNCHANGED <<about, vars>>

RealtimeSpec == RealtimeInit /\ [][RealtimeNext]_<<about, vars, callVars>>

\* The variables of both modules have the values their actions expect.
RealtimeTypeOK == TypeOK /\ CallTypeOK
================================================================================
