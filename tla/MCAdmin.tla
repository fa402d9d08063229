------------------------------ MODULE MCAdmin ------------------------------
(* Two administrators or an administrator and a trader share the link, and *)
(* the market maker goes around it.                                        *)
EXTENDS Admin

MCTraders == {"ann", "bob"}
MCSymbols == {"btc", "eth"}
MCWorkloads ==
  {{"halt", "resume", "place", "direct", "ann", "death"},
   {"halt", "resume", "reuse", "db_error"},
   {"halt", "place", "direct", "ann", "error"},
   {"place", "ann", "bob", "cancel_all", "slow"},
   {"place", "ann", "bob", "cancel_all", "break"},
   {"place", "ann", "cancel_all", "reuse", "direct"},
   {"place", "ann", "freeze", "user_cancel", "db_error"},
   {"view", "slow"}}

(* For the statements the code does not meet. *)
MCView    == {{"view", "slow"}}
MCReuse   == {{"halt", "resume", "reuse"}}
MCRestart == {{"halt", "direct", "ann", "death"}}
=============================================================================
