-------------------------- MODULE MCEvalSupervisor --------------------------
(* EvalSupervisor on small instances: the waiter alone, or with the guard.  *)
EXTENDS EvalSupervisor

WaiterAndGuard == {"waiter", "guard"}
WaiterOnly == {"waiter"}

=============================================================================
