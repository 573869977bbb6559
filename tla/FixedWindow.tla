----------------------------- MODULE FixedWindow ------------------------------
(***************************************************************************)
(* What a fixed-window limiter promises, minute by minute: no more than    *)
(* Limit requests are admitted by the count, and none is refused before    *)
(* more than Limit have been counted. Storefront implements it.            *)
(***************************************************************************)
EXTENDS Naturals

CONSTANT Limit

VARIABLES
    minute,   \* the current one
    counted,  \* requests counted in it
    admitted, \* of those, admitted on the strength of the count
    refused   \* and refused

windowVars == <<minute, counted, admitted, refused>>

WindowInit == minute = 0 /\ counted = 0 /\ admitted = 0 /\ refused = 0

Count ==
    /\ counted' = counted + 1
    /\ UNCHANGED <<minute, admitted, refused>>

\* A request that is counted and judged in one step.
CountAndAdmit ==
    /\ counted' = counted + 1
    /\ admitted < Limit /\ admitted' = admitted + 1
    /\ UNCHANGED <<minute, refused>>

Admit ==
    /\ admitted < Limit /\ admitted < counted
    /\ admitted' = admitted + 1
    /\ UNCHANGED <<minute, counted, refused>>

CountAndRefuse ==
    /\ counted >= Limit
    /\ counted' = counted + 1
    /\ refused' = refused + 1
    /\ UNCHANGED <<minute, admitted>>

NextMinute ==
    /\ minute' = minute + 1
    /\ counted' = 0 /\ admitted' = 0 /\ refused' = 0

WindowNext == Count \/ CountAndAdmit \/ Admit \/ CountAndRefuse \/ NextMinute

WindowSpec == WindowInit /\ [][WindowNext]_windowVars

=============================================================================
