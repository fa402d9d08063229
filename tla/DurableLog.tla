----------------------------- MODULE DurableLog -----------------------------
(* What the engine expects of an append-only file: what can be read back   *)
(* only ever grows, and an append that returned Ok can be read back, now   *)
(* and after every crash and restart.                                      *)
EXTENDS Naturals, Sequences

VARIABLES
  log,      \* the commands a reader gets, in order
  acked     \* the commands whose append returned Ok

LogInit == log = <<>> /\ acked = {}

Stored(l) == {l[k] : k \in DOMAIN l}

Extends(new, old) == Len(old) <= Len(new) /\ SubSeq(new, 1, Len(old)) = old

LogStep ==
  /\ Extends(log', log)
  /\ acked \subseteq acked' /\ acked' \subseteq Stored(log')

LogSpec == LogInit /\ [][LogStep]_<<log, acked>>
=============================================================================
