------------------------- MODULE MCFuseuringWorkers -------------------------
(* FuseuringWorkers for model checking: one worker that gets two slots,    *)
(* and two workers with one each.                                          *)
EXTENDS FuseuringWorkers

TwoCommands == {[max_fuse_ios |-> 1, max_background |-> 2, n_threads |-> 1],
                [max_fuse_ios |-> 1, max_background |-> 1, n_threads |-> 2]}
=============================================================================
