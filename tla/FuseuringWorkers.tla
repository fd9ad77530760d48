--------------------------- MODULE FuseuringWorkers ---------------------------
(***************************************************************************)
(* The life of the program after the handshake: fuseuring_main starts the  *)
(* workers and joins them; fuseuring_run sets a worker up, lets it serve,  *)
(* and tears it down.  All the workers share one table of descriptors, in  *)
(* which the kernel gives out the lowest free number, so that the number   *)
(* of a closed descriptor is soon that of another thread's.                *)
(*                                                                         *)
(* What a worker does while it serves is FuseRequest's and UringLoop's.    *)
(***************************************************************************)
EXTENDS Integers, Sequences, FiniteSets

CONSTANTS
  Commands, \* the command lines: [fuse max ios], [fuse max_background] and
            \* [number of threads]
  MaxFd     \* the largest descriptor number

ASSUME WorkersAssumption ==
  /\ MaxFd \in Nat \ (0..4)
  /\ Commands \subseteq [max_fuse_ios : Nat \ {0}, max_background : Nat \ {0},
                         n_threads : Nat]

VARIABLES
  cmd,        \* the one of Commands it is started with
  mounted,    \* the fuse connection is up
  main_at,    \* where fuseuring_main is
  thread_rc,  \* what it will return
  uring_fd,   \* fuse_uring.ring_fd, a number that may be stale
  table,      \* what each descriptor number stands for
  at,         \* where each worker is in fuseuring_run
  rc,         \* its result
  ring_fd,    \* its ring
  fixed_fds,  \* the descriptors it registers
  pipe_fds,   \* the descriptors it will close
  ios         \* the slots it has made: indices of registered files

vars == <<cmd, mounted, main_at, thread_rc, uring_fd, table, at, rc, ring_fd, fixed_fds,
          pipe_fds, ios>>
localVars == <<rc, ring_fd, fixed_fds, pipe_fds, ios>>

Fds     == 0..MaxFd
Kinds   == {"free", "std", "backing", "fuse", "ring", "pipe_out", "pipe_in", "session"}
MAIN    == -1   \* the owner of what fuseuring_main and main have opened
Object(owner, kind, slot) == [owner |-> owner, kind |-> kind, slot |-> slot]
Free    == Object(MAIN, "free", 0)
Backing == 3
FuseFd  == 4

\* The workers.  With n_threads <= 1 fuseuring_main calls fuseuring_run itself.
AllWorkers == UNION {0..c.n_threads : c \in Commands}
Single     == cmd.n_threads <= 1
Workers    == 0..(IF Single THEN 0 ELSE cmd.n_threads - 1)
\* max_fuse_ios of fuseuring_run: with one thread it is max_background.
SlotsOf(t) == IF Single THEN cmd.max_background ELSE cmd.max_fuse_ios

-----------------------------------------------------------------------------
(* The descriptor table (external).                                        *)

FreeFds == {fd \in Fds : table[fd] = Free}
Lowest(fd, S) == fd \in S /\ \A x \in S : fd <= x

\* Open obj as fd; both as fd and gd.
Opens(fd, obj) ==
  /\ Lowest(fd, FreeFds)
  /\ table' = [table EXCEPT ![fd] = obj]
Opens2(fd, obj, gd, obj2) ==
  /\ Lowest(fd, FreeFds) /\ Lowest(gd, FreeFds \ {fd})
  /\ table' = [table EXCEPT ![fd] = obj, ![gd] = obj2]

-----------------------------------------------------------------------------
(* fuseuring_main, after the handshake, and main.                          *)

Init ==
  /\ cmd \in Commands
  /\ mounted = TRUE
  /\ main_at = "start" /\ thread_rc = 0 /\ uring_fd = 0
  /\ table = [fd \in Fds |-> CASE fd \in 0..2   -> Object(MAIN, "std", 0)
                               [] fd = Backing  -> Object(MAIN, "backing", 0)
                               [] fd = FuseFd   -> Object(MAIN, "fuse", 0)
                               [] OTHER         -> Free]
  /\ at        = [t \in Workers |-> "none"]
  /\ rc        = [t \in Workers |-> 0]
  /\ ring_fd   = [t \in Workers |-> 0]
  /\ fixed_fds = [t \in Workers |-> <<>>]
  /\ pipe_fds  = [t \in Workers |-> <<>>]
  /\ ios       = [t \in Workers |-> <<>>]

\* n_threads <= 1
call_run ==
  /\ main_at = "start" /\ Single
  /\ at' = [at EXCEPT ![0] = "ring"]
  /\ main_at' = "join"
  /\ UNCHANGED <<cmd, mounted, thread_rc, uring_fd, table, localVars>>

\* The ring that all workers share the kernel's threads of; it is worker 0's own.
queue_init ==
  /\ main_at = "start" /\ ~Single
  /\ \/ \E fd \in Fds : /\ Opens(fd, Object(0, "ring", 0))
                        /\ uring_fd' = fd
                        /\ main_at' = "create"
                        /\ UNCHANGED thread_rc
     \/ /\ main_at' = "returned" /\ thread_rc' = 10
        /\ table' = [table EXCEPT ![Backing] = Free]
        /\ UNCHANGED uring_fd
  /\ UNCHANGED <<cmd, mounted, at, localVars>>

\* threads.push_back(std::thread(...))
create(t) ==
  /\ main_at = "create" /\ at[t] = "none"
  /\ \A u \in 0..(t - 1) : at[u] # "none"
  /\ at' = [at EXCEPT ![t] = "ring"]
  /\ main_at' = IF t = cmd.n_threads - 1 THEN "join" ELSE "create"
  /\ UNCHANGED <<cmd, mounted, thread_rc, uring_fd, table, localVars>>

\* thread.join() of all, and close(backing_fd) in main.
join ==
  /\ main_at = "join"
  /\ \A t \in Workers : at[t] = "returned"
  /\ main_at' = "returned"
  /\ table' = [table EXCEPT ![Backing] = Free]
  /\ UNCHANGED <<cmd, mounted, thread_rc, uring_fd, at, localVars>>

-----------------------------------------------------------------------------
(* fuseuring_run                                                           *)

\* Mutant: the results of the workers are added up.
Return_Sum(t, r) ==
  /\ at' = [at EXCEPT ![t] = "returned"]
  /\ rc' = [rc EXCEPT ![t] = r]
  /\ thread_rc' = thread_rc + r

\* return r.  thread_rc is written without a lock.
Return(t, r) ==
  /\ at' = [at EXCEPT ![t] = "returned"]
  /\ rc' = [rc EXCEPT ![t] = r]
  /\ thread_rc' = IF r # 0 THEN r ELSE thread_rc

Goto(t, place) == at' = [at EXCEPT ![t] = place] /\ UNCHANGED <<rc, thread_rc>>

Globals == <<cmd, mounted, main_at, uring_fd>>

\* Mutant: a worker tries again until it can attach.
setup_ring_Retry(t) ==
  /\ at[t] = "ring"
  /\ \/ /\ ~Single /\ t = 0
        /\ ring_fd' = [ring_fd EXCEPT ![t] = uring_fd]
        /\ UNCHANGED table
     \/ /\ Single \/ t # 0
        /\ table[uring_fd].kind = "ring"
        /\ \E fd \in Fds : /\ Opens(fd, Object(t, "ring", 0))
                           /\ ring_fd' = [ring_fd EXCEPT ![t] = fd]
  /\ fixed_fds' = [fixed_fds EXCEPT ![t] = <<Backing>>]
  /\ Goto(t, "pipe")
  /\ UNCHANGED <<Globals, pipe_fds, ios>>

\* The ring: worker 0 is given one, the others attach to it by its number.
setup_ring(t) ==
  /\ at[t] = "ring"
  /\ \/ /\ ~Single /\ t = 0
        /\ ring_fd' = [ring_fd EXCEPT ![t] = uring_fd]
        /\ fixed_fds' = [fixed_fds EXCEPT ![t] = <<Backing>>]
        /\ Goto(t, "pipe")
        /\ UNCHANGED table
     \/ /\ Single \/ t # 0
        /\ Single \/ table[uring_fd].kind = "ring"
        /\ \E fd \in Fds : /\ Opens(fd, Object(t, "ring", 0))
                           /\ ring_fd' = [ring_fd EXCEPT ![t] = fd]
        /\ fixed_fds' = [fixed_fds EXCEPT ![t] = <<Backing>>]
        /\ Goto(t, "pipe")
     \/ /\ Single \/ t # 0
        /\ Return(t, 10)
        /\ UNCHANGED <<ring_fd, fixed_fds, table>>
  /\ UNCHANGED <<Globals, pipe_fds, ios>>

Slot(t) == Len(ios[t]) + 1

\* Mutant: the numbers to close are taken from the slot, where they are indices by then.
create_pipe_Indices(t) ==
  /\ at[t] = "pipe"
  /\ \E fd, gd \in Fds :
       /\ Opens2(fd, Object(t, "pipe_out", Slot(t)), gd, Object(t, "pipe_in", Slot(t)))
       /\ fixed_fds' = [fixed_fds EXCEPT ![t] = @ \o <<fd, gd>>]
       /\ pipe_fds' = [pipe_fds EXCEPT ![t] =
                         @ \o <<Len(fixed_fds[t]), Len(fixed_fds[t]) + 1>>]
  /\ Goto(t, "clone")
  /\ UNCHANGED <<Globals, ring_fd, ios>>

\* pipe2 and F_SETPIPE_SZ for the next slot.
create_pipe(t) ==
  /\ at[t] = "pipe"
  /\ \/ \E fd, gd \in Fds :
          /\ Opens2(fd, Object(t, "pipe_out", Slot(t)), gd, Object(t, "pipe_in", Slot(t)))
          /\ \/ /\ fixed_fds' = [fixed_fds EXCEPT ![t] = @ \o <<fd, gd>>]
                /\ pipe_fds' = [pipe_fds EXCEPT ![t] = @ \o <<fd, gd>>]
                /\ Goto(t, "clone")
             \/ /\ Return(t, 12)
                /\ UNCHANGED <<fixed_fds, pipe_fds>>
     \/ /\ Return(t, 11)
        /\ UNCHANGED <<table, fixed_fds, pipe_fds>>
  /\ UNCHANGED <<Globals, ring_fd, ios>>

\* Mutant: the index of the descriptor is its place before it was added.
clone_fuse_fd_Before(t) ==
  /\ at[t] = "clone"
  /\ \E fd \in Fds :
       /\ Opens(fd, Object(t, "session", Slot(t)))
       /\ LET n == Len(fixed_fds[t])
          IN ios' = [ios EXCEPT ![t] = Append(@, [pipe0 |-> n - 2, pipe1 |-> n - 1,
                                                  fuse_fd |-> n - 1])]
       /\ fixed_fds' = [fixed_fds EXCEPT ![t] = Append(@, fd)]
       /\ Goto(t, IF Slot(t) = SlotsOf(t) THEN "register" ELSE "pipe")
  /\ UNCHANGED <<Globals, ring_fd, pipe_fds>>

\* clone_fuse_fd: a session of its own for the slot, which is complete with that.
clone_fuse_fd(t) ==
  /\ at[t] = "clone"
  /\ \/ \E fd \in Fds :
          /\ Opens(fd, Object(t, "session", Slot(t)))
          /\ \/ LET n == Len(fixed_fds[t])   \* the indices count from 0
                IN /\ ios' = [ios EXCEPT ![t] = Append(@, [pipe0 |-> n - 2, pipe1 |-> n - 1,
                                                           fuse_fd |-> n])]
                   /\ fixed_fds' = [fixed_fds EXCEPT ![t] = Append(@, fd)]
                   /\ Goto(t, IF Slot(t) = SlotsOf(t) THEN "register" ELSE "pipe")
             \/ Return(t, 13) /\ UNCHANGED <<ios, fixed_fds>>
     \/ /\ Return(t, 13)
        /\ UNCHANGED <<table, ios, fixed_fds>>
  /\ UNCHANGED <<Globals, ring_fd, pipe_fds>>

\* io_uring_register_files, io_uring_register_buffers, fstat
register(t) ==
  /\ at[t] = "register"
  /\ \/ Goto(t, "serve")
     \/ \E r \in {13, 14, 15} : Return(t, r)
  /\ UNCHANGED <<Globals, table, ring_fd, fixed_fds, pipe_fds, ios>>

\* run() returns when a task has failed or io_uring has; after an unmount every read
\* of a session fails.
run_returns(t) ==
  /\ at[t] = "serve"
  /\ at' = [at EXCEPT ![t] = "exit"]
  /\ \E r \in {18, 19} : rc' = [rc EXCEPT ![t] = r]
  /\ UNCHANGED <<Globals, thread_rc, table, ring_fd, fixed_fds, pipe_fds, ios>>

\* io_uring_queue_exit
queue_exit(t) ==
  /\ at[t] = "exit"
  /\ table' = [table EXCEPT ![ring_fd[t]] = Free]
  /\ Goto(t, "close")
  /\ UNCHANGED <<Globals, ring_fd, fixed_fds, pipe_fds, ios>>

close_pipes(t) ==
  /\ at[t] = "close"
  /\ \/ /\ pipe_fds[t] # <<>>
        /\ table' = [table EXCEPT ![Head(pipe_fds[t])] = Free]
        /\ pipe_fds' = [pipe_fds EXCEPT ![t] = Tail(@)]
        /\ UNCHANGED <<at, rc, thread_rc>>
     \/ /\ pipe_fds[t] = <<>>
        /\ Return(t, rc[t])
        /\ UNCHANGED <<table, pipe_fds>>
  /\ UNCHANGED <<Globals, ring_fd, fixed_fds, ios>>

Setup(t)    == setup_ring(t) \/ create_pipe(t) \/ clone_fuse_fd(t) \/ register(t)
Teardown(t) == queue_exit(t) \/ close_pipes(t)

\* The file system is unmounted, by a user or by umount(8).
Unmount ==
  /\ mounted /\ mounted' = FALSE
  /\ UNCHANGED <<cmd, main_at, thread_rc, uring_fd, table, at, localVars>>

Returned == main_at = "returned" /\ UNCHANGED vars

Main == call_run \/ queue_init \/ (\E t \in Workers : create(t)) \/ join

Next ==
  \/ main_at # "returned" /\ (Main \/ \E t \in Workers : Setup(t) \/ run_returns(t) \/ Teardown(t))
  \/ Unmount
  \/ Returned

\* Every thread runs.  A worker serves for as long as it likes, but not without a mount
\* (UnmountStops of FuseRequest).
Fairness ==
  /\ WF_vars(Main)
  /\ \A t \in AllWorkers : WF_vars(t \in Workers /\ (Setup(t) \/ Teardown(t)))
  /\ \A t \in AllWorkers : WF_vars(t \in Workers /\ ~mounted /\ run_returns(t))

Spec     == Init /\ [][Next]_vars
FairSpec == Spec /\ Fairness

-----------------------------------------------------------------------------
(* Properties.                                                             *)

Places == {"none", "ring", "pipe", "clone", "register", "serve", "exit", "close", "returned"}

TypeOK ==
  /\ cmd \in Commands /\ mounted \in BOOLEAN
  /\ main_at \in {"start", "create", "join", "returned"}
  /\ thread_rc \in 0..19 /\ uring_fd \in Fds
  /\ \A fd \in Fds : /\ table[fd].owner \in Workers \cup {MAIN}
                     /\ table[fd].kind \in Kinds /\ table[fd].slot \in Nat
  /\ at \in [Workers -> Places] /\ rc \in [Workers -> 0..19] /\ ring_fd \in [Workers -> Fds]
  /\ \A t \in Workers : /\ fixed_fds[t] \in Seq(Fds) /\ pipe_fds[t] \in Seq(Fds)
                        /\ Len(ios[t]) <= SlotsOf(t)

\* The registered files that a slot names by index are the two ends of its own pipe and
\* its own session, and the first is the backing file: no slot reads from or replies to
\* another's.
Registered(t, i) == table[fixed_fds[t][i + 1]]
SlotWiring ==
  \A t \in Workers : at[t] = "serve" =>
    /\ Registered(t, 0).kind = "backing"
    /\ Len(ios[t]) = SlotsOf(t)
    /\ \A s \in 1..Len(ios[t]) :
         /\ Registered(t, ios[t][s].pipe0)   = Object(t, "pipe_out", s)
         /\ Registered(t, ios[t][s].pipe1)   = Object(t, "pipe_in", s)
         /\ Registered(t, ios[t][s].fuse_fd) = Object(t, "session", s)

\* A worker that has served leaves its sessions open and nothing else, and nobody closes
\* a descriptor of a worker that serves: numbers are not closed twice, nor after another
\* thread has got them.
Owned(t, kinds) == {fd \in Fds : table[fd].owner = t /\ table[fd].kind \in kinds}
DescriptorsKept ==
  \A t \in Workers :
    /\ at[t] = "serve" => Cardinality(Owned(t, Kinds \ {"free"})) = 3 * Len(ios[t]) + 1
    /\ at[t] = "returned" /\ rc[t] >= 18 =>
         /\ Owned(t, Kinds \ {"free", "session"}) = {}
         /\ Cardinality(Owned(t, {"session"})) = Len(ios[t])

\* umount(8) ends the program, wherever its workers are: each of them returns, and
\* fuseuring_main has all of them to join.
UnmountEnds == ~mounted ~> main_at = "returned"

=============================================================================
