----------------------------- MODULE MCRegistry -----------------------------
(***************************************************************************)
(* The registry on a small instance: a model listed and not routed yet,    *)
(* one process with one call, and two operators.                           *)
(***************************************************************************)
EXTENDS ProviderRegistry, TLC

CONSTANTS vendor, talk, api, turn

MCProviderOf == [m \in Models |-> vendor]
MCRetries == [m \in Models \cup EnvModels |-> IF m = talk THEN 1 ELSE 0]
MCModel == [m \in Models |-> [live |-> TRUE, enabled |-> TRUE, modality |-> "chat"]]
MCProv == [p \in Providers |-> [enabled |-> TRUE, local |-> FALSE]]
MCRoute == [t \in Tasks |-> {}]
MCProcOf == [c \in Callers |-> api]

=============================================================================
