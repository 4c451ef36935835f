-------------------------- MODULE OneShotDispatch ---------------------------
(***************************************************************************)
(* What durable execution promises about one promoted action, without its  *)
(* records, claims and workers: the tool call is fired at most once, a     *)
(* verdict is given at most once, and a verdict given by the program       *)
(* itself is one the call justifies.  A human may settle an action whose   *)
(* call is still on its way, so a human verdict does not rule out a later  *)
(* Fire; a verdict of the program does.                                    *)
(***************************************************************************)

EXTENDS Naturals

CONSTANT Promotions

VARIABLES
  calls,    \* promotion -> how many tool calls were started for it
  verdict,  \* promotion -> open, succeeded or failed
  author    \* promotion -> nobody, program or human: who gave the verdict

abstract == <<calls, verdict, author>>

Init ==
  /\ calls = [p \in Promotions |-> 0]
  /\ verdict = [p \in Promotions |-> "open"]
  /\ author = [p \in Promotions |-> "nobody"]

Fire(p) ==
  /\ calls[p] = 0
  /\ author[p] # "program"
  /\ calls' = [calls EXCEPT ![p] = 1]
  /\ UNCHANGED <<verdict, author>>

Settle(p, v, by) ==
  /\ verdict[p] = "open"
  /\ by = "program" /\ v = "succeeded" => calls[p] > 0
  /\ verdict' = [verdict EXCEPT ![p] = v]
  /\ author' = [author EXCEPT ![p] = by]
  /\ UNCHANGED calls

Next ==
  \E p \in Promotions :
    \/ Fire(p)
    \/ \E v \in {"succeeded", "failed"}, by \in {"program", "human"} : Settle(p, v, by)

Spec == Init /\ [][Next]_abstract
=============================================================================
