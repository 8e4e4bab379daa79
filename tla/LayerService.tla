---------------------------- MODULE LayerService ----------------------------
(***************************************************************************)
(* What an automaton of fsm.c promises to the layers around it.  LCP and    *)
(* every NCP offer this service, and the model of the session uses its      *)
(* tables in place of the automata.                                        *)
(***************************************************************************)
EXTENDS LayerSteps

VARIABLES layer, calls

Take(steps) == \E s \in steps : layer = s.from /\ layer' = s.to /\ calls' = s.cb

Init == layer = "INITIAL" /\ calls = {}

(* An event that changes nothing makes no callback.                        *)
Idle == layer' = layer /\ calls' = {}

Next ==
    \/ Take(LowerUpSteps)
    \/ Take(LowerDownSteps)
    \/ Take(OpenSteps)
    \/ Take(CloseSteps)
    \/ Take(EventSteps)
    \/ Idle

Spec == Init /\ [][Next]_<<layer, calls>>
=============================================================================
