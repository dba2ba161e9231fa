------------------------------ MODULE MCMetering ------------------------------
(* A bounded instance of Metering for TLC. *)
EXTENDS Metering

\* Every kind, and any two that differ in what they leave behind.
MCKinds == <<{"restricted", "images", "probe"}, {"messages", "gemini"}>>

\* The key's own cached sum goes only with age; PostRecord removes the others.
MCRules == <<[scope |-> "key", max |-> 2]>>
============================================================================
