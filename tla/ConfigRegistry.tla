--------------------------- MODULE ConfigRegistry ---------------------------
(***************************************************************************)
(* What the array registry promises to the controller (UpdateArrays and    *)
(* GetPowerStoreArrays of package array, src/unnamed/part_001): a          *)
(* register holding the registry built from the config file.  Each change *)
(* of the file is followed by a reload, which installs the whole registry *)
(* the file's content yields, or, if the file does not load, keeps the    *)
(* registry as it was.                                                     *)
(***************************************************************************)
CONSTANTS
    Files,      \* the contents the config file may have
    Load(_),    \* what loading a content gives: [ok |-> ..., reg |-> ...]
    Empty       \* the registry before the first reload

VARIABLES
    config,     \* the content of the config file
    registry,   \* the installed registry
    stale       \* a change of the file not reloaded yet
vars == <<config, registry, stale>>

Init ==
    /\ config \in Files
    /\ registry = Empty
    /\ stale = TRUE

\* The operator edits the file.
Edit ==
    /\ \E f \in Files \ {config} : config' = f
    /\ stale' = TRUE
    /\ UNCHANGED registry

\* A reload of the current content, atomic.
Reload ==
    /\ stale
    /\ registry' = IF Load(config).ok THEN Load(config).reg ELSE registry
    /\ stale' = FALSE
    /\ UNCHANGED config

Next == Edit \/ Reload

Safety == Init /\ [][Next]_vars

\* Every change is reloaded.
Spec == Safety /\ WF_vars(Reload)
=============================================================================
