---------------------------- MODULE FuseSession ----------------------------
(***************************************************************************)
(* What a worker promises to the kernel it serves, without saying how: it  *)
(* takes requests in the order they came, works on each in one slot, and   *)
(* gives the slot back only when the kernel does not wait for that request *)
(* any more, or when it is about to stop.  FuseRequest implements this     *)
(* (FuseRequestRefine).                                                    *)
(***************************************************************************)
EXTENDS Naturals, Sequences

CONSTANTS
  Slots,  \* the worker's slots
  Reqs,   \* identities of requests
  NoReq   \* not a request

VARIABLES
  running, \* the worker has not returned
  failed,  \* a task has failed: the worker is about to stop
  mounted, \* the connection is up
  queue,   \* the requests waiting to be taken, oldest first
  kstate,  \* what the kernel knows of each request
  excused, \* the requests whose reply the kernel may not get, see NothingLost
  work     \* the request each slot works on

vars == <<running, failed, mounted, queue, kstate, excused, work>>

States == {"none", "pending", "processing", "answered", "noreply", "aborted"}

\* The slot that works on u may be given back.
Over(u) == kstate[u] # "processing" \/ u \in excused

Init ==
  /\ running = TRUE /\ failed = FALSE /\ mounted = TRUE
  /\ queue = <<>>
  /\ kstate = [u \in Reqs |-> "none"]
  /\ excused \subseteq Reqs
  /\ work = [s \in Slots |-> NoReq]

\* The request u becomes another one.
Renewed(u) == excused' \in SUBSET Reqs /\ excused' \ {u} = excused \ {u}

\* A user of the mount makes a request.
Send(u) ==
  /\ running /\ mounted /\ kstate[u] = "none"
  /\ queue' = Append(queue, u)
  /\ kstate' = [kstate EXCEPT ![u] = "pending"]
  /\ Renewed(u)
  /\ UNCHANGED <<running, failed, mounted, work>>

\* A slot takes the oldest request, which may be one without a reply.
Take(s) ==
  /\ running /\ queue # <<>> /\ work[s] = NoReq
  /\ queue' = Tail(queue)
  /\ \E k \in {"processing", "noreply"} :
       kstate' = [kstate EXCEPT ![Head(queue)] = k]
  /\ work' = [work EXCEPT ![s] = Head(queue)]
  /\ UNCHANGED <<running, failed, mounted, excused>>

\* The slot's reply reaches the kernel.
Answer(s) ==
  /\ running /\ work[s] # NoReq
  /\ kstate[work[s]] = "processing"
  /\ kstate' = [kstate EXCEPT ![work[s]] = "answered"]
  /\ UNCHANGED <<running, failed, mounted, queue, excused, work>>

\* The slot is given back: the request is over, or the worker about to stop.
Release(s) ==
  /\ running /\ work[s] # NoReq
  /\ work' = [work EXCEPT ![s] = NoReq]
  /\ failed' \in {failed, TRUE}
  /\ Over(work[s]) \/ failed'
  /\ UNCHANGED <<running, mounted, queue, kstate, excused>>

\* A slot that has not got a request fails.
Fail ==
  /\ running /\ \E s \in Slots : work[s] = NoReq
  /\ failed' = TRUE
  /\ UNCHANGED <<running, mounted, queue, kstate, excused, work>>

Stop ==
  /\ running /\ failed
  /\ running' = FALSE
  /\ UNCHANGED <<failed, mounted, queue, kstate, excused, work>>

\* The identity of a request that is over is used for a new one.
Recycle(u) ==
  /\ running /\ kstate[u] \in {"answered", "noreply"}
  /\ \A s \in Slots : work[s] # u
  /\ kstate' = [kstate EXCEPT ![u] = "none"]
  /\ Renewed(u)
  /\ UNCHANGED <<running, failed, mounted, queue, work>>

\* An unmount ends every request the kernel still has.
Unmount ==
  /\ running /\ mounted
  /\ mounted' = FALSE
  /\ queue' = <<>>
  /\ kstate' = [u \in Reqs |-> IF kstate[u] \in {"pending", "processing"}
                               THEN "aborted" ELSE kstate[u]]
  /\ UNCHANGED <<running, failed, excused, work>>

Stopped == ~running /\ UNCHANGED vars

Next ==
  \/ \E u \in Reqs : Send(u) \/ Recycle(u)
  \/ \E s \in Slots : Take(s) \/ Answer(s) \/ Release(s)
  \/ Fail \/ Stop \/ Unmount \/ Stopped

Spec == Init /\ [][Next]_vars

-----------------------------------------------------------------------------
(* Properties.                                                             *)

TypeOK ==
  /\ running \in BOOLEAN /\ failed \in BOOLEAN /\ mounted \in BOOLEAN
  /\ queue \in Seq(Reqs)
  /\ kstate \in [Reqs -> States]
  /\ excused \subseteq Reqs
  /\ work \in [Slots -> Reqs \cup {NoReq}]

\* A pending request is in the device's queue exactly once, and only pending ones are.
QueuedOnce ==
  /\ \A u \in Reqs : kstate[u] = "pending" <=> \E i \in 1..Len(queue) : queue[i] = u
  /\ \A i, j \in 1..Len(queue) : queue[i] = queue[j] => i = j

\* No two slots work on one request, and none on one that has not been sent.
OneHolder ==
  /\ \A s, t \in Slots : work[s] = work[t] /\ work[s] # NoReq => s = t
  /\ \A s \in Slots : work[s] # NoReq => kstate[work[s]] \notin {"none", "pending"}

\* A request the kernel waits for is in the hands of a slot, or the worker is about to
\* stop: send_reply or an error return is the only way out of queue_fuse_read.
NothingLost ==
  failed \/ \A u \in Reqs \ excused :
              kstate[u] = "processing" => \E s \in Slots : work[s] = u

SessionInv == TypeOK /\ QueuedOnce /\ OneHolder /\ NothingLost
=============================================================================
