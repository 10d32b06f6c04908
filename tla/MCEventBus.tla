---------------------------- MODULE MCEventBus ----------------------------
(***************************************************************************)
(* Instances of EventBus for TLC: a lead session with two children.        *)
(***************************************************************************)
EXTENDS EventBus

CONSTANTS lead, left, right

LeadAndChildren == [s \in Session |-> IF s = lead THEN NoParent ELSE lead]

Ask(sid, scope, exclude) == [sid |-> sid, scope |-> scope, exclude |-> exclude]

\* Every scope, with and without exclusion of the client's own source.
SomeProfiles ==
    {Ask(lead, "session", {}), Ask(lead, "descendants", {"bridge"}),
     Ask(left, "subtree", {}), Ask(left, "session", {"bridge"})}

Event(sid, hint) == [sid |-> sid, hint |-> hint]

SomeInputs ==
    {Event(lead, "none"), Event(left, "bridge"), Event(right, "none")}
=============================================================================
