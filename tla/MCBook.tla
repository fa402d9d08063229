-------------------------------- MODULE MCBook --------------------------------
(* The order book under both sets of inputs of MCOrderBook: orders that    *)
(* match, and orders that wait as stops or are linked.                     *)
EXTENDS MCOrderBook

(* A behaviour takes all its orders from one of the two sets. *)
VARIABLE scenario
InputsOf(sc) == IF sc = "match" THEN MatchInputs ELSE StopInputs
BookInputs   == MatchInputs \cup StopInputs
BookInit == Init /\ scenario \in {"match", "stops"}
BookNext ==
  /\ \/ \E o \in InputsOf(scenario) : Place(o)
     \/ \E i \in Id : CancelOrder(i)
     \/ Step
  /\ UNCHANGED scenario
BookSpec == BookInit /\ [][BookNext]_<<vars, scenario>> /\ WF_vars(Step)
===============================================================================
