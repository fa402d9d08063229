----------------------------- MODULE MCGateway ------------------------------
(* A small instance of Gateway. *)
EXTENDS Gateway, TLC

(* One request stamped early enough that its window begins at time 0, in   *)
(* either case.                                                            *)
MCSignatures == [key : Keys, ts : {1}, hex : Spellings]

(* The tiers count in different keys, so each is loaded on its own. *)
MCWorkloads == {{<<"auth", FALSE>>}, {<<"orders", FALSE>>}, {<<"orders", TRUE>>}}

MCHorizon == [w \in MCWorkloads |-> IF <<"orders", TRUE>> \in w THEN 3 ELSE 4]

MCSymmetry == Permutations(Requests) \cup Permutations(Spellings)
=============================================================================
