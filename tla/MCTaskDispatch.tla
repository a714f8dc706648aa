--------------------------- MODULE MCTaskDispatch ---------------------------
(* A pinned and an unpinned speech service, and a speech task without a model. *)
EXTENDS TaskDispatch

CONSTANTS x1, x2

MCFacts == [x \in Services |->
    [kind |-> "audio", task |-> TRUE, models |-> {"m"}, capabilities |-> {"tts"},
     fixed |-> IF x = x1 THEN "m" ELSE None]]

MCRequest == [t \in Tasks |-> [kind |-> "audio", task |-> TRUE, load |-> None,
                               capability |-> "tts"]]
=============================================================================
