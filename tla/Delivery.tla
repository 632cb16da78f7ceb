------------------------------ MODULE Delivery ------------------------------
(***************************************************************************)
(* What edge synchronization promises, whatever is lost, repeated or       *)
(* restarted on the way (docs/contracts/api-and-sync.md, "Local commit     *)
(* sequence"): an operation that the outlet logs takes effect at core at   *)
(* most once, after all earlier operations of its causality stream, and is *)
(* marked synchronized only after it took effect.  SyncPipeline implements *)
(* this specification.                                                     *)
(***************************************************************************)
EXTENDS Naturals, Sequences

VARIABLES
  log,        \* operations in the order the outlet committed them
  effects,    \* operations in the order core committed them
  confirmed   \* ids marked synchronized at the outlet

deliveryVars == <<log, effects, confirmed>>

Logged   == {log[i] : i \in DOMAIN log}
Effected == {effects[i] : i \in DOMAIN effects}

LogOperation(op) ==
  /\ op.id \notin {e.id : e \in Logged}
  /\ log' = Append(log, op)
  /\ UNCHANGED <<effects, confirmed>>

\* The earliest operation of its stream without an effect takes its effect.
Effect(i) ==
  /\ log[i] \notin Effected
  /\ \A j \in 1..(i - 1) : log[j].stream = log[i].stream => log[j] \in Effected
  /\ effects' = Append(effects, log[i])
  /\ UNCHANGED <<log, confirmed>>

\* A batch of results confirms several operations at once.
Confirm(C) ==
  /\ C \subseteq {e.id : e \in Effected}
  /\ confirmed' = confirmed \cup C
  /\ UNCHANGED <<log, effects>>

DeliveryInit == log = <<>> /\ effects = <<>> /\ confirmed = {}

DeliveryNext ==
  \/ /\ Len(log') = Len(log) + 1
     /\ LogOperation(log'[Len(log')])
  \/ \E i \in DOMAIN log : Effect(i)
  \/ Confirm(confirmed')

DeliverySpec == DeliveryInit /\ [][DeliveryNext]_deliveryVars
=============================================================================
