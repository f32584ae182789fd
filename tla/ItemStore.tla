----------------------------- MODULE ItemStore ------------------------------
(***************************************************************************)
(* What the pipeline of one item type promises: a log of accepted items, a *)
(* prefix of it that is counted as written, and the items readers of the   *)
(* storage can see.  Items become visible in any order and are never taken *)
(* back; the counted prefix is visible, and nothing is visible that was    *)
(* not accepted.  An item may become visible long before it is counted (a  *)
(* write that fails half way), and whether the rest of the log is ever     *)
(* counted is not part of this module.                                     *)
(***************************************************************************)
EXTENDS Integers, Sequences

CONSTANT Item
VARIABLES log, counted, visible

storeVars == <<log, counted, visible>>

Logged == {log[i] : i \in 1..Len(log)}

Init == log = <<>> /\ counted = 0 /\ visible = {}

Accept ==
  /\ \E item \in Item : item \notin Logged /\ log' = Append(log, item)
  /\ UNCHANGED <<counted, visible>>

Store ==
  /\ counted' \in counted..Len(log)
  /\ visible' \in SUBSET Logged
  /\ visible \subseteq visible'
  /\ \A i \in 1..counted' : log[i] \in visible'
  /\ UNCHANGED log

Next == Accept \/ Store

Spec == Init /\ [][Next]_storeVars
=============================================================================
