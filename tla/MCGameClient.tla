---------------------------- MODULE MCGameClient ----------------------------
(* Callers that connect directly, by a plan with a fallback, or with options *)
(* that are refused, one after the other.                                    *)
EXTENDS GameClient

Direct(n) == [kind |-> "connect", key |-> NoKey, valid |-> TRUE, candidates |-> <<"ws">>, batches |-> n]
Refused == [Direct(0) EXCEPT !.valid = FALSE]
Plan(key, n) == [kind |-> "plan", key |-> key, valid |-> TRUE, candidates |-> <<"wt", "ws">>, batches |-> n]
BadPlan == [Plan("Q", 0) EXCEPT !.valid = FALSE]

ProgramsHere == {<<Plan("P", 1), Direct(1)>>, <<Direct(3), Refused>>,
                 <<BadPlan, Plan("P", 0), Plan("P", 0)>>}

=============================================================================
