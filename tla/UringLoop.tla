------------------------------ MODULE UringLoop ------------------------------
(***************************************************************************)
(* The loop of fuse_io_context with the two rings of its io_uring and      *)
(* their sizes: run(), fuseuring_submit, fuseuring_handle_cqe and get_sqe, *)
(* one call of get_sqe to a step.  FuseRequest is what the coroutines do   *)
(* between their awaits; here a coroutine is only the chain it queues and  *)
(* awaits, and which chains may follow it.                                 *)
(*                                                                         *)
(* An entry <<io, k>> is step k of the chain of slot io; `where' tells     *)
(* which of the two queues it is in, or that the kernel has it.            *)
(***************************************************************************)
EXTENDS Integers, FiniteSets

CONSTANTS
  Ios,        \* the slots of the worker
  NoIo,       \* not a slot
  Rings       \* the workers to check: the slots in use (max_fuse_ios), the sizes of
              \* the submission queue (kring_entries) and of the completion queue, the
              \* Kinds of chains the requests lead to, and the FaultKinds that may occur

\* submit_error: a submission fails (ENOMEM, EINTR, ...), but not with EBUSY.
\* task_error: a handler fails.
FaultKinds == {"submit_error", "task_error"}

Kinds == {"fuse_read", "fuse_header", "rbytes", "reply", "read", "write"}

ASSUME RingAssumption ==
  /\ IsFiniteSet(Ios) /\ NoIo \notin Ios
  /\ Rings \subseteq [ios : SUBSET Ios, sq : Nat, cq : Nat,
                      kinds : SUBSET Kinds, faults : SUBSET FaultKinds]
  /\ \A r \in Rings : r.ios # {} /\ r.sq >= 3 /\ r.cq >= r.sq

\* The number of steps of a chain.
ChainLen(kind) == CASE kind \in {"fuse_header", "rbytes"} -> 1
                    [] kind \in {"fuse_read", "reply"}    -> 2
                    [] OTHER                              -> 3

\* The chains a coroutine may queue when the one it awaited is complete.
Follow(kind) ==
  CASE kind \in {"fuse_read", "fuse_header"} ->
         {"fuse_header", "rbytes", "reply", "read", "write"}
    [] kind = "rbytes" -> {"rbytes", "reply", "read", "write"}
    [] kind = "write"  -> {"reply"}
    [] OTHER           -> {}

VARIABLES
  ring,        \* the one of Rings it runs on
  phase,       \* where run() is
  chain,       \* the chain each slot's coroutine queues or awaits
  cur,         \* the slot whose coroutine is queueing its chain, and at which
               \* of its entries
  where,       \* where each entry is
  tocomplete,  \* IoUringAwaiterGlobalRes::tocomplete
  count,       \* completions reaped in this batch, not yet given back
  ring_submit, \* fuse_ring.ring_submit
  stray,       \* entries taken from the ring that nobody has filled in
  last_rc      \* fuse_io_context::last_rc

slotVars == <<chain, where, tocomplete>>
vars     == <<ring, phase, cur, slotVars, count, ring_submit, stray, last_rc>>

Entries == Ios \X (1..3)
Places  == {"none", "sq", "kernel", "cq", "overflow"}
At(p)   == {e \in Entries : where[e] = p}

Idle    == [io |-> NoIo, k |-> 1]
Busy    == cur.io # NoIo
Chain   == chain[cur.io]
Peeked  == Chain \notin {"fuse_header", "rbytes"}

SqUsed  == Cardinality(At("sq")) + stray
SqRoom  == ring.sq - SqUsed
CqUsed  == Cardinality(At("cq")) + count
CqRoom  == ring.cq - CqUsed

\* The rings that fuseuring_run sets up: max(100, 2 * max_fuse_ios) submissions,
\* to which the kernel gives twice as many completions.
RunSizes == ring.sq >= 2 * Cardinality(ring.ios) /\ ring.cq = 2 * ring.sq

-----------------------------------------------------------------------------
(* io_uring_enter (external).  What did not fit into the completion queue  *)
(* is kept aside and moved there by the next call, which fails with EBUSY  *)
(* when it cannot move all of it.                                          *)

Ebusy == Cardinality(At("overflow")) > CqRoom

\* The completions S are moved to the completion queue.
Flushable(S) == /\ S \subseteq At("overflow")
                /\ \/ Ebusy /\ Cardinality(S) = CqRoom
                   \/ ~Ebusy /\ S = At("overflow")

Flushed(S) == [e \in Entries |-> IF e \in S THEN "cq" ELSE where[e]]

\* All that is in the submission queue goes to the kernel.
Entered == [e \in Entries |-> CASE where[e] = "sq"       -> "kernel"
                                [] where[e] = "overflow" -> "cq"
                                [] OTHER                 -> where[e]]

\* An entry nobody has filled in still holds an old operation, whose awaiter is
\* gone: the kernel executes it, and its completion is written to freed memory.
EnterRings(next) ==
  /\ ~Ebusy
  /\ where' = Entered
  /\ stray' = 0
  /\ phase' = IF stray > 0 THEN "undefined" ELSE next

-----------------------------------------------------------------------------
(* The coroutines, as far as they use the rings.                           *)

\* A coroutine begins to queue a chain.
Begin(io, kind) ==
  /\ chain' = [chain EXCEPT ![io] = kind]
  /\ cur'   = [io |-> io, k |-> 1]

\* co_return rc of the slot's coroutine.
Return(io, rc) ==
  /\ chain'   = [chain EXCEPT ![io] = "pool"]
  /\ last_rc' = IF rc # 0 THEN rc ELSE last_rc

\* The last entry of a chain is followed by co_await io.complete(...).
TakeSqe ==
  LET e    == <<cur.io, cur.k>>
      last == cur.k = ChainLen(Chain)
  IN /\ where' = [where EXCEPT ![e] = "sq"]
     /\ cur'   = IF last THEN Idle ELSE [cur EXCEPT !.k = @ + 1]
     /\ tocomplete' = IF last THEN [tocomplete EXCEPT ![cur.io] = cur.k]
                              ELSE tocomplete
     /\ UNCHANGED <<phase, chain, count, stray, last_rc>>

\* Mutant: room for one entry is enough to begin a chain.
get_sqe_peek_One ==
  /\ Busy /\ cur.k = 1 /\ Peeked
  /\ SqRoom >= 1
  /\ TakeSqe
  /\ UNCHANGED ring_submit

\* get_sqe(n), n > 1: there must be room for all the chain.
get_sqe_peek ==
  /\ Busy /\ cur.k = 1 /\ Peeked
  /\ SqRoom >= ChainLen(Chain)
  /\ TakeSqe
  /\ UNCHANGED ring_submit

\* No room: submit, and look again.
get_sqe_peek_submit ==
  /\ Busy /\ cur.k = 1 /\ Peeked
  /\ SqRoom < ChainLen(Chain)
  /\ EnterRings(phase)
  /\ UNCHANGED <<cur, chain, tocomplete, count, ring_submit, last_rc>>

\* EBUSY: go round again.
get_sqe_peek_ebusy ==
  /\ Busy /\ cur.k = 1 /\ Peeked
  /\ SqRoom < ChainLen(Chain)
  /\ Ebusy
  /\ \E S \in SUBSET At("overflow") : Flushable(S) /\ where' = Flushed(S)
  /\ UNCHANGED <<phase, cur, chain, tocomplete, count, ring_submit, stray, last_rc>>

\* get_sqe fails: the coroutine gives up.  queue_fuse_read calls get_sqe a second
\* time before it looks at the result of the first; here that call finds an entry left,
\* or no entry and its submission fails too.
get_sqe_peek_fail ==
  /\ "submit_error" \in ring.faults
  /\ Busy /\ cur.k = 1 /\ Peeked
  /\ SqRoom < ChainLen(Chain)
  /\ stray' = IF Chain = "fuse_read" /\ SqRoom > 0 THEN stray + 1 ELSE stray
  /\ ring_submit' = (ring_submit \/ Chain = "fuse_read")
  /\ \E S \in SUBSET At("overflow") :
       /\ \/ S = {}
          \/ Chain = "fuse_read" /\ SqRoom < 1 /\ Ebusy /\ Flushable(S)
       /\ where' = Flushed(S)
  /\ Return(cur.io, -1)
  /\ cur' = Idle
  /\ UNCHANGED <<phase, tocomplete, count>>

\* The same, but the second get_sqe() of queue_fuse_read finds no entry left, submits
\* with success and gets one.
get_sqe_peek_fail_submit ==
  /\ "submit_error" \in ring.faults
  /\ Busy /\ cur.k = 1 /\ Chain = "fuse_read"
  /\ SqRoom < 1 /\ ~Ebusy
  /\ where' = Entered
  /\ phase' = IF stray > 0 THEN "undefined" ELSE phase
  /\ stray' = 1
  /\ ring_submit' = TRUE
  /\ Return(cur.io, -1)
  /\ cur' = Idle
  /\ UNCHANGED <<tocomplete, count>>

\* get_sqe(), for the further entries of a chain and for the chains of one.
Single == Busy /\ (cur.k > 1 \/ ~Peeked)

get_sqe ==
  /\ Single
  /\ SqRoom >= 1
  /\ TakeSqe
  /\ ring_submit' = TRUE

get_sqe_submit ==
  /\ Single
  /\ SqRoom < 1
  /\ EnterRings(phase)
  /\ ring_submit' = TRUE
  /\ UNCHANGED <<cur, chain, tocomplete, count, last_rc>>

\* Every error is final here, EBUSY too.  The loop after a short read of the header
\* and the second get_sqe() of send_reply do not look at the result.
get_sqe_fail ==
  /\ Single
  /\ SqRoom < 1
  /\ Ebusy \/ "submit_error" \in ring.faults
  /\ \E S \in SUBSET At("overflow") :
       /\ \/ Ebusy /\ Flushable(S)
          \/ ~Ebusy /\ S = {}
       /\ where' = Flushed(S)
  /\ phase' = IF Chain \in {"fuse_header", "reply"} THEN "undefined" ELSE phase
  /\ ring_submit' = TRUE
  /\ Return(cur.io, -1)
  /\ cur' = Idle
  /\ UNCHANGED <<tocomplete, count, stray>>

GetSqe ==
  \/ get_sqe_peek \/ get_sqe_peek_submit \/ get_sqe_peek_ebusy
  \/ get_sqe_peek_fail \/ get_sqe_peek_fail_submit
  \/ get_sqe \/ get_sqe_submit \/ get_sqe_fail

-----------------------------------------------------------------------------
(* run()                                                                   *)

\* while(!fuse_ring.ios.empty()) queue_read_set_rc(queue_read)
queue_read(io) ==
  /\ phase = "fill" /\ ~Busy
  /\ chain[io] = "pool"
  /\ Begin(io, "fuse_read")
  /\ UNCHANGED <<phase, where, tocomplete, count, ring_submit, stray, last_rc>>

filled ==
  /\ phase = "fill" /\ ~Busy
  /\ \A io \in ring.ios : chain[io] # "pool"
  /\ phase' = "submit"
  /\ UNCHANGED <<cur, slotVars, count, ring_submit, stray, last_rc>>

\* fuseuring_submit(true)
fuseuring_submit ==
  /\ phase = "submit"
  /\ EnterRings("wait")
  /\ ring_submit' = FALSE
  /\ UNCHANGED <<cur, chain, tocomplete, count, last_rc>>

\* EBUSY is tried again if there was something to submit, and ends the loop if not.
fuseuring_submit_ebusy ==
  /\ phase = "submit" /\ Ebusy
  /\ \E S \in SUBSET At("overflow") : Flushable(S) /\ where' = Flushed(S)
  /\ phase' = IF ring_submit THEN "submit" ELSE "exit"
  /\ UNCHANGED <<cur, chain, tocomplete, count, ring_submit, stray, last_rc>>

fuseuring_submit_fail ==
  /\ "submit_error" \in ring.faults
  /\ phase = "submit"
  /\ phase' = "exit"
  /\ UNCHANGED <<cur, slotVars, count, ring_submit, stray, last_rc>>

\* The wait is over when the completion queue is not empty.
waited ==
  /\ phase = "wait" /\ CqUsed > 0
  /\ phase' = "reap"
  /\ UNCHANGED <<cur, slotVars, count, ring_submit, stray, last_rc>>

\* Mutant: the awaiter is resumed by each completion of its chain.
handle_cqe_Each(e) ==
  LET io == e[1]
  IN /\ phase = "reap" /\ ~Busy /\ where[e] = "cq"
     /\ where' = [where EXCEPT ![e] = "none"]
     /\ count' = count + 1
     /\ tocomplete' = [tocomplete EXCEPT ![io] = @ - 1]
     /\ \/ /\ Return(io, 0)
           /\ UNCHANGED cur
        \/ \E kind \in Follow(chain[io]) \cap ring.kinds : Begin(io, kind) /\ UNCHANGED last_rc
     /\ UNCHANGED <<phase, ring_submit, stray>>

\* fuseuring_handle_cqe: the last completion of a chain resumes the coroutine, which
\* ends or goes on to its next chain.
handle_cqe(e) ==
  LET io   == e[1]
      left == tocomplete[io] - 1
  IN /\ phase = "reap" /\ ~Busy /\ where[e] = "cq"
     /\ where' = [where EXCEPT ![e] = "none"]
     /\ count' = count + 1
     /\ tocomplete' = [tocomplete EXCEPT ![io] = left]
     /\ \/ /\ left > 0
           /\ UNCHANGED <<cur, chain, last_rc>>
        \/ /\ left = 0
           /\ \E rc \in IF "task_error" \in ring.faults THEN {0, -1} ELSE {0} : Return(io, rc)
           /\ UNCHANGED cur
        \/ /\ left = 0
           /\ \E kind \in Follow(chain[io]) \cap ring.kinds : Begin(io, kind)
           /\ UNCHANGED last_rc
     /\ UNCHANGED <<phase, ring_submit, stray>>

\* Mutant: the completions of the batch are not given back to the kernel.
cq_advance_Forgotten ==
  /\ phase = "reap" /\ ~Busy /\ At("cq") = {}
  /\ phase' = IF last_rc # 0 THEN "exit" ELSE "fill"
  /\ UNCHANGED <<cur, slotVars, count, ring_submit, stray, last_rc>>

\* Mutant: a failed task does not end the loop.
cq_advance_GoOn ==
  /\ phase = "reap" /\ ~Busy /\ At("cq") = {}
  /\ count' = 0
  /\ phase' = "fill"
  /\ UNCHANGED <<cur, slotVars, ring_submit, stray, last_rc>>

\* io_uring_cq_advance at the end of the batch, and the test of last_rc.
cq_advance ==
  /\ phase = "reap" /\ ~Busy /\ At("cq") = {}
  /\ count' = 0
  /\ phase' = IF last_rc # 0 THEN "exit" ELSE "fill"
  /\ UNCHANGED <<cur, slotVars, ring_submit, stray, last_rc>>

Loop ==
  \/ \E io \in ring.ios : queue_read(io)
  \/ filled
  \/ fuseuring_submit \/ fuseuring_submit_ebusy \/ fuseuring_submit_fail
  \/ waited
  \/ \E e \in Entries : handle_cqe(e)
  \/ cq_advance

Worker ==
  /\ phase \notin {"exit", "undefined"}
  /\ GetSqe \/ Loop
  /\ UNCHANGED ring

-----------------------------------------------------------------------------
(* The kernel executes a chain in order (external).                        *)

Complete(e) ==
  /\ where[e] = "kernel"
  /\ \A k \in 1..(e[2] - 1) : where[<<e[1], k>>] # "kernel"
  /\ where' = [where EXCEPT ![e] = IF CqRoom > 0 THEN "cq" ELSE "overflow"]
  /\ UNCHANGED <<phase, cur, chain, tocomplete, count, ring_submit, stray, last_rc>>

Kernel(io) ==
  /\ phase \notin {"exit", "undefined"}
  /\ \E k \in 1..3 : Complete(<<io, k>>)
  /\ UNCHANGED ring

Init ==
  /\ ring \in Rings
  /\ phase = "fill"
  /\ chain = [io \in Ios |-> "pool"]
  /\ cur = Idle
  /\ where = [e \in Entries |-> "none"]
  /\ tocomplete = [io \in Ios |-> 0]
  /\ count = 0
  /\ ring_submit = FALSE
  /\ stray = 0
  /\ last_rc = 0

Returned == phase \in {"exit", "undefined"} /\ UNCHANGED vars

Next ==
  \/ Worker
  \/ \E io \in Ios : Kernel(io)
  \/ Returned

\* The thread runs, and the kernel completes what it can; but a read of the device
\* may wait for ever, so nothing is assumed of the first step of fuse_read.
Fairness ==
  /\ WF_vars(Worker)
  /\ \A io \in Ios : WF_vars(chain[io] # "fuse_read" /\ Kernel(io))
  /\ \A io \in Ios : WF_vars(Kernel(io) /\ where[<<io, 1>>] # "kernel")

Spec     == Init /\ [][Next]_vars
FairSpec == Spec /\ Fairness

-----------------------------------------------------------------------------
(* Properties.                                                             *)

TypeOK ==
  /\ ring \in Rings
  /\ phase \in {"fill", "submit", "wait", "reap", "exit", "undefined"}
  /\ chain \in [Ios -> Kinds \cup {"pool"}]
  /\ cur \in [io : Ios \cup {NoIo}, k : 1..3]
  /\ where \in [Entries -> Places]
  /\ tocomplete \in [Ios -> 0..3]
  /\ count \in Nat /\ stray \in Nat
  /\ ring_submit \in BOOLEAN
  /\ last_rc \in {0, -1}

\* No submission splits a chain: the io_uring_submit of get_sqe comes before its first
\* entry or after its last, because of the peek.  A link would end there, and a reply
\* could be sent before the data is in the pipe.
ChainTogether ==
  Busy => \A k \in 1..(cur.k - 1) : where[<<cur.io, k>>] = "sq"

\* Once a chain is begun there is room for the rest of it: the get_sqe() calls whose
\* result send_reply and the handlers do not need to check never fail.
PeekHolds ==
  Busy /\ cur.k > 1 => SqRoom >= ChainLen(Chain) - cur.k + 1

\* A coroutine is resumed when nothing of its chain is left in either queue or in the
\* kernel, no sooner and no later: the buffers it owns are its own again.
Accounted ==
  \A io \in Ios : cur.io # io =>
    tocomplete[io] = Cardinality({k \in 1..3 : where[<<io, k>>] # "none"})

\* The completions of all chains fit the completion queue when the loop goes to wait,
\* so that EBUSY never meets fuseuring_submit, which would not reap to make room.
WaitNeverBusy == RunSizes /\ phase = "submit" => ~Ebusy

\* A get_sqe that meets EBUSY inside the reaping loop tries again and again, and never
\* gets its entry: the room it waits for in the completion queue is made by the end of
\* that loop only.
MetEbusy == Busy /\ cur.k = 1 /\ Peeked /\ SqRoom < ChainLen(Chain) /\ Ebusy
BusyForGood ==
  [][MetEbusy /\ "submit_error" \notin ring.faults => MetEbusy']_vars

\* "Task failed rc=... Shutting down." (fuse_io_context.cpp:109): a task that fails
\* ends the loop, if io_uring does not fail.
FailureStops ==
  RunSizes /\ ring.faults = {"task_error"} /\ last_rc # 0 ~> phase = "exit"
=============================================================================
