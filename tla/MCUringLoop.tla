---------------------------- MODULE MCUringLoop ----------------------------
(* UringLoop for model checking: a ring in the proportion of fuseuring_run, *)
(* and rings far too small, one whose submissions also fail.               *)
EXTENDS UringLoop

CONSTANTS i1, i2, i3

Workers ==
  {[ios |-> {i1, i2}, sq |-> 4, cq |-> 8, kinds |-> Kinds, faults |-> {"task_error"}],
   [ios |-> {i1, i2}, sq |-> 3, cq |-> 3, kinds |-> Kinds, faults |-> FaultKinds],
   [ios |-> {i1, i2, i3}, sq |-> 3, cq |-> 3, kinds |-> {"reply"}, faults |-> {}]}
=============================================================================
