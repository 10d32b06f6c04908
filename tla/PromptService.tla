--------------------------- MODULE PromptService ---------------------------
(***************************************************************************)
(* What a session promises about the prompts it accepts, whatever tasks,   *)
(* queues and locks it uses: a prompt gets at most one turn, and turns do  *)
(* not overlap.  A prompt may also be given up before its turn begins: its *)
(* run is cancelled, or the session closes.                                *)
(***************************************************************************)
CONSTANTS Msg, None

VARIABLES
    accepted,  \* the prompts the session has taken
    turn,      \* the prompt whose turn is being executed, or None
    over       \* the prompts whose turn is over, or that were given up

vars == <<accepted, turn, over>>

Init ==
    /\ accepted = {}
    /\ turn = None
    /\ over = {}

Accept(m) ==
    /\ m \notin accepted
    /\ accepted' = accepted \cup {m}
    /\ UNCHANGED <<turn, over>>

\* A prompt that arrives at an idle session is accepted as its turn begins.
Begin(m) ==
    /\ turn = None
    /\ m \notin over
    /\ turn' = m
    /\ accepted' = accepted \cup {m}
    /\ UNCHANGED over

End ==
    /\ turn # None
    /\ turn' = None
    /\ over' = over \cup {turn}
    /\ UNCHANGED accepted

\* The next prompt's turn begins in the step that ends the one before.
Handover(m) ==
    /\ turn # None
    /\ m \in accepted \ (over \cup {turn})
    /\ turn' = m
    /\ over' = over \cup {turn}
    /\ UNCHANGED accepted

\* An empty prompt is over as it is accepted.
Skip(m) ==
    /\ m \notin accepted
    /\ accepted' = accepted \cup {m}
    /\ over' = over \cup {m}
    /\ UNCHANGED turn

GiveUp(m) ==
    /\ m \in accepted \ over
    /\ m # turn
    /\ over' = over \cup {m}
    /\ UNCHANGED <<accepted, turn>>

Next ==
    \/ End
    \/ \E m \in Msg : Accept(m) \/ Begin(m) \/ Handover(m) \/ Skip(m) \/ GiveUp(m)

Spec == Init /\ [][Next]_vars
=============================================================================
