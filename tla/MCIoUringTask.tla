--------------------------- MODULE MCIoUringTask ---------------------------
(* IoUringTask for model checking: one slot with all the coroutines, and   *)
(* two slots whose coroutines take and give back blocks in every order.    *)
EXTENDS IoUringTask, TLC

TwoWorkers ==
  {[slots |-> 1, coros |-> AllCoros, big |-> {"queue_fuse_read"}],
   [slots |-> 2, coros |-> {"queue_fuse_read", "read_rbytes", "handler"}, big |-> {}]}

Symmetry == Permutations(Blocks)
=============================================================================
