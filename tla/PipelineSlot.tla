---------------------------- MODULE PipelineSlot ----------------------------
(* What PipelineCache promises to the card it loads models on: one place.    *)
(* A bundle is loaded only when the place is empty, and whatever was there   *)
(* has been released, or given up by a cancelled caller, before.             *)
CONSTANTS Bundles

VARIABLE slot

Empty == [phase |-> "empty"]
Holding(phase, b) == [phase |-> phase, bundle |-> b]

Init == slot = Empty

StartLoading == slot = Empty /\ \E b \in Bundles : slot' = Holding("loading", b)

FinishLoading ==
    \E b \in Bundles : slot = Holding("loading", b) /\ slot' = Holding("ready", b)

StartReleasing ==
    \E b \in Bundles : slot = Holding("ready", b) /\ slot' = Holding("releasing", b)

(* A load fails or is given up, a release ends or is given up. *)
Vacate ==
    /\ \E b \in Bundles : slot \in {Holding("loading", b), Holding("releasing", b)}
    /\ slot' = Empty

(* A release ends and the next load follows at once. *)
Replace ==
    \E a, b \in Bundles :
        a # b /\ slot = Holding("releasing", a) /\ slot' = Holding("loading", b)

Next == StartLoading \/ FinishLoading \/ StartReleasing \/ Vacate \/ Replace

Spec == Init /\ [][Next]_slot
=============================================================================
