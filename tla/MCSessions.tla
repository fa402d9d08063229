----------------------------- MODULE MCSessions -----------------------------
(* A small instance of Sessions. *)
EXTENDS Sessions, TLC

(* Signup and login create the sessions that refreshes and the second factor *)
(* work on; refreshes and the second factor share no state with each other.  *)
MCWorkloads == {{"signup", "login"}, {"signup", "refresh"},
                {"signup", "login", "setup", "verify", "disable"}}

MCSymmetry == Permutations(Requests)
=============================================================================
