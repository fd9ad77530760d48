---------------------------- MODULE IoUringTask ----------------------------
(***************************************************************************)
(* The coroutines of fuse_io_context.h: promises, io_uring_task, who       *)
(* resumes whom and who frees which frame, on one thread, with the list    *)
(* that malloc_cache keeps of freed frames.                                *)
(*                                                                         *)
(* A coroutine starts at once, on the native stack of its caller, and runs *)
(* until it waits for io_uring or ends; one that ends resumes its awaiter  *)
(* from inside its final_suspend, on top of the native stack, and that     *)
(* awaiter frees its frame while it is still there.                        *)
(*                                                                         *)
(* What a coroutine does between its calls is FuseRequest's.  Here it      *)
(* waits for io_uring, calls what its source calls, or ends early.         *)
(***************************************************************************)
EXTENDS Integers, Sequences, FiniteSets

CONSTANTS
  Blocks,  \* addresses a frame can have
  None,    \* a null pointer
  Workers  \* the workers to check: the number of slots (max_fuse_ios), the coroutines
           \* that are called, and those whose frame is larger than
           \* malloc_cache_item_size

\* handler: handle_*; send: send_attr.
AllCoros == {"queue_read_set_rc", "queue_fuse_read", "read_rbytes", "handler",
          "send", "send_reply"}

ASSUME TaskAssumption ==
  /\ IsFiniteSet(Blocks) /\ None \notin Blocks
  /\ Workers \subseteq [slots : Nat \ {0}, coros : SUBSET AllCoros, big : SUBSET AllCoros]

Callees ==
  [c \in AllCoros |->
     CASE c = "queue_read_set_rc" -> {"queue_fuse_read"}
       [] c = "queue_fuse_read"   -> {"read_rbytes", "handler"}
       [] c = "handler"           -> {"send", "send_reply"}
       [] c = "send"              -> {"send_reply"}
       [] OTHER                   -> {}]

\* The coroutines that wait for io_uring themselves.
IoCoros == {"queue_fuse_read", "read_rbytes", "handler", "send_reply"}

VARIABLES
  worker,  \* the one of Workers that runs
  phase,   \* where run() is
  ios,     \* free slots (fuse_ring.ios)
  failed,  \* last_rc # 0
  frame,   \* the frame in each block
  cache,   \* the list at malloc_cache_head
  stack,   \* the native stack above run()
  discard  \* the frame of the io_uring_task_discard that run() has got

vars == <<worker, phase, ios, failed, frame, cache, stack, discard>>

\* first: nothing awaited yet; body: resumed after io_uring; called: a coroutine it has
\* started has returned to it; resumed: by the final_suspend of the one it awaits;
\* read: read_rbytes is done; last: it has nothing left to do but to return.
Points == {"first", "body", "called", "await", "resumed", "read", "last", "io", "final"}

\* coro, at: which coroutine, and where it is; awaiter, res_state: of its promise; task:
\* the frame of the io_uring_task that it has got from the coroutine it has called.
Frame == [coro : AllCoros, at : Points, awaiter : Blocks \cup {None},
          res_state : {"Init", "Detached", "Res"}, task : Blocks \cup {None}]
NoFrame == [coro |-> "none", at |-> "none", awaiter |-> None, res_state |-> "Init",
            task |-> None]
NewFrame(c) == [NoFrame EXCEPT !.coro = c, !.at = "first"]

Live   == {b \in Blocks : frame[b] # NoFrame}
Unused == {b \in Blocks \ Live : \A i \in 1..Len(cache) : cache[i] # b}

\* A native frame: the coroutine at b runs, or is in its final_suspend.
Activation == [b : Blocks, final : BOOLEAN]
Runs(b)    == [b |-> b, final |-> FALSE]
Final(b)   == [b |-> b, final |-> TRUE]
Below      == Tail(stack)
Top        == Head(stack).b
Self       == frame[Top]
Running(P) == stack # <<>> /\ ~Head(stack).final /\ Self.at \in P
InLoop     == stack = <<>> /\ discard = None

-----------------------------------------------------------------------------
(* malloc_cache and malloc_cache_free.                                     *)

\* A block for a new frame of coroutine c.
malloc_cache(c, b) ==
  \/ c \notin worker.big /\ cache # <<>> /\ b = Head(cache) /\ cache' = Tail(cache)
  \/ (c \in worker.big \/ cache = <<>>) /\ b \in Unused /\ UNCHANGED cache

\* The list with block b of F's frames in front, unless that frame is too large for it.
malloc_cache_free(F, b, list) == IF F[b].coro \in worker.big THEN list ELSE <<b>> \o list

\* Frame b of F is destroyed; list is the free list by then.
Destroy(F, b, list) ==
  /\ frame' = [F EXCEPT ![b] = NoFrame]
  /\ cache' = malloc_cache_free(F, b, list)

\* Mutant: the frame is destroyed whether its coroutine has ended or not.
EndTask_Destroy(F, b) == Destroy(F, b, cache)

\* ~io_uring_task: the frame of a coroutine that has ended is destroyed, one that has
\* not is left to itself.
EndTask(F, b) ==
  \/ /\ F[b].at = "final"
     /\ Destroy(F, b, cache)
  \/ /\ F[b].at # "final"
     /\ frame' = [F EXCEPT ![b].res_state = "Detached"]
     /\ UNCHANGED cache

-----------------------------------------------------------------------------
(* run() and the coroutines.                                               *)

\* queue_read_set_rc(queue_read)
Start ==
  /\ phase = "fill" /\ InLoop /\ ios > 0
  /\ \E b \in Blocks :
       /\ malloc_cache("queue_read_set_rc", b)
       /\ frame' = [frame EXCEPT ![b] = NewFrame("queue_read_set_rc")]
       /\ stack' = <<Runs(b)>>
       /\ discard' = b
  /\ UNCHANGED <<phase, ios, failed>>

\* The discarded task goes out of scope once the call returns.
Discard ==
  /\ stack = <<>> /\ discard # None
  /\ EndTask(frame, discard)
  /\ discard' = None
  /\ UNCHANGED <<phase, ios, failed, stack>>

\* The running coroutine calls c.  queue_fuse_read takes a slot, and calls only when it
\* has read something.
Call(c) ==
  /\ Running({"first", "body", "read"})
  /\ c \in Callees[Self.coro] \cap worker.coros
  /\ Self.coro = "queue_fuse_read" => <<Self.at, c>> \in
       {<<"body", "read_rbytes">>, <<"body", "handler">>, <<"read", "handler">>}
  /\ \E b \in Blocks :
       /\ malloc_cache(c, b)
       /\ frame' = [frame EXCEPT ![Top].at = "called", ![Top].task = b, ![b] = NewFrame(c)]
       /\ stack' = <<Runs(b)>> \o stack
  /\ ios' = IF c = "queue_fuse_read" THEN ios - 1 ELSE ios
  /\ UNCHANGED <<phase, failed, discard>>

\* co_await io.complete(...)
AwaitIo ==
  /\ Running({"first", "body"})
  /\ Self.coro \in IoCoros
  /\ frame' = [frame EXCEPT ![Top].at = "io"]
  /\ stack' = Below
  /\ UNCHANGED <<phase, ios, failed, cache, discard>>

\* Mutant: a coroutine that has ended is waited for like any other.
AwaitTask_Always ==
  /\ Running({"called"})
  /\ frame' = [frame EXCEPT ![Self.task].awaiter = Top, ![Top].at = "await"]
  /\ stack' = Below
  /\ UNCHANGED <<phase, ios, failed, cache, discard>>

\* co_await of a coroutine that has no result yet.
AwaitTask ==
  /\ Running({"called"})
  /\ frame[Self.task].res_state # "Res"
  /\ frame' = [frame EXCEPT ![Self.task].awaiter = Top, ![Top].at = "await"]
  /\ stack' = Below
  /\ UNCHANGED <<phase, ios, failed, cache, discard>>

\* Mutant: the caller tries again what it has called.
TakeResult_Again ==
  LET t == Self.task
  IN /\ \/ Running({"resumed"})
        \/ Running({"called"}) /\ frame[t].res_state = "Res"
     /\ EndTask([frame EXCEPT ![Top].at = "body", ![Top].task = None], t)
     /\ UNCHANGED <<phase, ios, failed, stack, discard>>

\* await_resume, and the end of the task.
TakeResult ==
  LET t == Self.task
      p == IF frame[t].coro = "read_rbytes" THEN "read" ELSE "last"
  IN /\ \/ Running({"resumed"})
        \/ Running({"called"}) /\ frame[t].res_state = "Res"
     /\ EndTask([frame EXCEPT ![Top].at = p, ![Top].task = None], t)
     /\ UNCHANGED <<phase, ios, failed, stack, discard>>

\* Mutant: a handler has a FuseIoVal of its own, not a reference.
Returning_ByValue ==
  /\ Running({"first", "body", "read", "last"})
  /\ Self.coro \notin IoCoros => Self.at = "last"
  /\ ios' = IF Self.coro \in {"queue_fuse_read", "handler"} THEN ios + 1 ELSE ios
  /\ failed' \in IF Self.coro = "queue_read_set_rc" THEN {failed, TRUE} ELSE {failed}
  /\ UNCHANGED <<phase, discard>>

\* co_return: the result, then the locals (the slot), then final_suspend.
Returning ==
  /\ Running({"first", "body", "read", "last"})
  /\ Self.coro \notin IoCoros => Self.at = "last"
  /\ ios' = IF Self.coro = "queue_fuse_read" THEN ios + 1 ELSE ios
  /\ failed' \in IF Self.coro = "queue_read_set_rc" THEN {failed, TRUE} ELSE {failed}
  /\ UNCHANGED <<phase, discard>>

\* return_value: a detached promise keeps no result.
Detached == Self.res_state = "Detached"
\* Mutant: no promise keeps one.
Returned_Unset == [frame EXCEPT ![Top].at = "final"]
Returned == [frame EXCEPT ![Top].at = "final",
                          ![Top].res_state = IF Detached THEN @ ELSE "Res"]

\* Mutant: the coroutine destroys its own frame when it has resumed its awaiter.
ReturnToAwaiter_Destroy ==
  /\ Returning
  /\ ~Detached /\ Self.awaiter # None
  /\ Destroy([Returned EXCEPT ![Self.awaiter].at = "resumed"], Top, cache)
  /\ stack' = <<Runs(Self.awaiter), Final(Top)>> \o Below

\* final_suspend with an awaiter: it is resumed on top of the native stack.
ReturnToAwaiter ==
  /\ Returning
  /\ ~Detached /\ Self.awaiter # None
  /\ frame' = [Returned EXCEPT ![Self.awaiter].at = "resumed"]
  /\ stack' = <<Runs(Self.awaiter), Final(Top)>> \o Below
  /\ UNCHANGED cache

\* final_suspend without one: the frame is left for the task to destroy.
ReturnToCaller ==
  /\ Returning
  /\ ~Detached /\ Self.awaiter = None
  /\ frame' = Returned
  /\ stack' = Below
  /\ UNCHANGED cache

\* Mutant: a detached coroutine is left for its task to destroy.
ReturnDetached_Leak ==
  /\ Returning
  /\ Detached
  /\ frame' = Returned
  /\ stack' = Below
  /\ UNCHANGED cache

\* final_suspend of a detached coroutine: it destroys its awaiter and itself.
ReturnDetached ==
  /\ Returning
  /\ Detached
  /\ LET a == Self.awaiter
         F == IF a = None THEN Returned ELSE [Returned EXCEPT ![a] = NoFrame]
     IN Destroy(F, Top, IF a = None THEN cache ELSE malloc_cache_free(Returned, a, cache))
  /\ stack' = Below

\* The awaiter has suspended or ended: final_suspend returns, without a look at a frame
\* that may be another's by now.
Unwind ==
  /\ stack # <<>> /\ Head(stack).final
  /\ stack' = Below
  /\ UNCHANGED <<phase, ios, failed, frame, cache, discard>>

\* No slot is left: wait for completions.
Filled ==
  /\ phase = "fill" /\ InLoop /\ ios = 0
  /\ phase' = "reap"
  /\ UNCHANGED <<ios, failed, frame, cache, stack, discard>>

\* fuseuring_handle_cqe resumes a coroutine.
Cqe ==
  /\ phase = "reap" /\ InLoop
  /\ \E b \in Live :
       /\ frame[b].at = "io"
       /\ frame' = [frame EXCEPT ![b].at = "body"]
       /\ stack' = <<Runs(b)>>
  /\ UNCHANGED <<phase, ios, failed, cache, discard>>

EndBatch ==
  /\ phase = "reap" /\ InLoop /\ ~failed
  /\ phase' = "fill"
  /\ UNCHANGED <<ios, failed, frame, cache, stack, discard>>

\* run() returns, and fuseuring_run clears the cache.  Frames in use stay allocated.
clear_malloc_cache ==
  /\ phase = "reap" /\ InLoop /\ failed
  /\ phase' = "exit"
  /\ cache' = <<>>
  /\ UNCHANGED <<ios, failed, frame, stack, discard>>

Init ==
  /\ worker \in Workers
  /\ phase = "fill" /\ ios = worker.slots /\ failed = FALSE
  /\ frame = [b \in Blocks |-> NoFrame]
  /\ cache = <<>> /\ stack = <<>> /\ discard = None

Exited == phase = "exit" /\ UNCHANGED vars

Step ==
  \/ Start \/ Discard
  \/ \E c \in AllCoros : Call(c)
  \/ AwaitIo \/ AwaitTask \/ TakeResult
  \/ ReturnToAwaiter \/ ReturnToCaller \/ ReturnDetached
  \/ Unwind
  \/ Filled \/ Cqe \/ EndBatch \/ clear_malloc_cache

Next ==
  \/ Step /\ UNCHANGED worker
  \/ Exited

Spec == Init /\ [][Next]_vars

-----------------------------------------------------------------------------
(* Properties.                                                             *)

TypeOK ==
  /\ worker \in Workers
  /\ phase \in {"fill", "reap", "exit"}
  /\ ios \in 0..worker.slots /\ failed \in BOOLEAN
  /\ frame \in [Blocks -> Frame \cup {NoFrame}]
  /\ cache \in Seq(Blocks)
  /\ stack \in Seq(Activation)
  /\ discard \in Blocks \cup {None}

\* The list of free blocks holds each once, and none with a frame: no frame is freed
\* twice, by its task and by its own final_suspend, or while another has its block.
CacheClean ==
  /\ \A i, j \in 1..Len(cache) : cache[i] = cache[j] => i = j
  /\ \A i \in 1..Len(cache) : cache[i] \notin Live

\* Every frame that will be run, resumed or destroyed is there: those on the native
\* stack that are not in their final_suspend, and what promises and tasks point to.
NoDangling ==
  /\ \A i \in 1..Len(stack) : ~stack[i].final => stack[i].b \in Live
  /\ \A b \in Live : /\ frame[b].awaiter # None /\ frame[b].at # "final" =>
                          frame[b].awaiter \in Live
                     /\ frame[b].task # None => frame[b].task \in Live
  /\ discard # None => discard \in Live

\* assert(has_res()) of await_resume: an awaiter is resumed when the result is there.
ResultThere ==
  \A b \in Live : frame[b].at = "resumed" => frame[frame[b].task].res_state = "Res"

\* A coroutine that waits will be resumed by the one it waits for, and by no other.
AwaiterWaits ==
  \A b \in Live :
    /\ frame[b].at = "await" => LET t == frame[frame[b].task]
                                IN t.awaiter = b /\ t.at # "final"
    /\ frame[b].awaiter # None /\ frame[b].at # "final" =>
         LET p == frame[frame[b].awaiter] IN p.at = "await" /\ p.task = b

\* Between two steps of the loop, each slot that is in use has the frames of one
\* queue_read_set_rc and all it awaits, and there are no others.
Roots == {b \in Live : frame[b].coro = "queue_read_set_rc"}
NoLeak ==
  InLoop => /\ \A b \in Live \ Roots : \E p \in Live : frame[p].at = "await" /\ frame[p].task = b
            /\ Cardinality(Roots) = worker.slots - ios

\* The native stack grows with the calls of one request, not with its completions.
StackBounded == Len(stack) <= 5
=============================================================================
