------------------------ MODULE FuseuringWorkersProofs ------------------------
(***************************************************************************)
(* Proofs about FuseuringWorkers: whatever the command line and the number *)
(* of descriptors, the registered files of a worker are its own and those  *)
(* its slots name, and what a worker closes is its own.                    *)
(*                                                                         *)
(* WInv is the inductive invariant: the types, what fuseuring_main has     *)
(* done (MainInv), and for each worker what it has opened so far           *)
(* (WorkerInv).  A step of one worker changes only what the table says of  *)
(* free descriptors and of its own (Frame).                                *)
(***************************************************************************)
EXTENDS FuseuringWorkers, FiniteSetTheorems, TLAPS

NonFree    == Kinds \ {"free"}
NonSession == Kinds \ {"free", "session"}
Objects    == [owner : Workers \cup {MAIN}, kind : Kinds, slot : Nat]
Files      == [pipe0 : Nat, pipe1 : Nat, fuse_fd : Nat]

Before == {"none", "ring"}
Making == {"pipe", "clone", "register", "serve"}
Up     == Making \cup {"exit"}

\* The types, with the domains of the functions.
WType ==
  /\ cmd \in Commands /\ mounted \in BOOLEAN
  /\ main_at \in {"start", "create", "join", "returned"}
  /\ thread_rc \in 0..19 /\ uring_fd \in Fds
  /\ table \in [Fds -> Objects]
  /\ at \in [Workers -> Places] /\ rc \in [Workers -> 0..19] /\ ring_fd \in [Workers -> Fds]
  /\ fixed_fds \in [Workers -> Seq(Fds)] /\ pipe_fds \in [Workers -> Seq(Fds)]
  /\ ios \in [Workers -> Seq(Files)]

\* fuseuring_main calls or starts a worker once, and closes the backing file when all
\* have returned.
MainInv ==
  /\ main_at = "start" => \A t \in Workers : at[t] = "none"
  /\ main_at = "create" => ~Single
  /\ main_at = "returned" => \A t \in Workers : at[t] \in {"none", "returned"}
  /\ main_at # "returned" => table[Backing] = Object(MAIN, "backing", 0)

\* What OwnedIn says of table, said of any table.
OwnedIn(tab, t, kinds) == {fd \in Fds : tab[fd].owner = t /\ tab[fd].kind \in kinds}

\* Worker 0 owns the ring that fuseuring_main has made.
GivenRing(t) == t = 0 /\ ~Single /\ main_at \in {"create", "join"}

\* A worker that has not begun has nothing but that ring.
NotBegun(t) ==
  at[t] \in Before =>
    /\ ios[t] = <<>> /\ pipe_fds[t] = <<>>
    /\ OwnedIn(table, t, NonFree) = IF GivenRing(t) THEN {uring_fd} ELSE {}
    /\ GivenRing(t) => table[uring_fd] = Object(t, "ring", 0)

\* 2 in the middle of a slot.
Half(t) == IF at[t] = "clone" THEN 2 ELSE 0

\* The slots it has made.
SlotCount(t) ==
  /\ Len(ios[t]) <= SlotsOf(t)
  /\ at[t] \in {"pipe", "clone"} => Len(ios[t]) < SlotsOf(t)
  /\ at[t] \in {"register", "serve", "exit", "close"} => Len(ios[t]) = SlotsOf(t)

\* What it registers: the backing file, and three descriptors of each slot.
Wiring(t) ==
  at[t] \in Making =>
    /\ Len(fixed_fds[t]) = 1 + 3 * Len(ios[t]) + Half(t)
    /\ fixed_fds[t][1] = Backing
    /\ \A s \in 1..Len(ios[t]) :
         /\ ios[t][s] = [pipe0 |-> 3 * s - 2, pipe1 |-> 3 * s - 1, fuse_fd |-> 3 * s]
         /\ table[fixed_fds[t][3 * s - 1]] = Object(t, "pipe_out", s)
         /\ table[fixed_fds[t][3 * s]]     = Object(t, "pipe_in", s)
         /\ table[fixed_fds[t][3 * s + 1]] = Object(t, "session", s)
    /\ at[t] = "clone" =>
         /\ table[fixed_fds[t][3 * Slot(t) - 1]] = Object(t, "pipe_out", Slot(t))
         /\ table[fixed_fds[t][3 * Slot(t)]]     = Object(t, "pipe_in", Slot(t))

Elements(seq) == {seq[i] : i \in 1..Len(seq)}

\* What it has open besides its sessions is what it will close: its ring, and the pipes,
\* each of them once.
Closes(t) ==
  /\ at[t] \in Up =>
       /\ table[ring_fd[t]] = Object(t, "ring", 0)
       /\ OwnedIn(table, t, NonSession) = {ring_fd[t]} \cup Elements(pipe_fds[t])
  /\ at[t] \in Up \cup {"close"} =>
       /\ \A i, j \in 1..Len(pipe_fds[t]) : pipe_fds[t][i] = pipe_fds[t][j] => i = j
       /\ \A i \in 1..Len(pipe_fds[t]) :
            /\ table[pipe_fds[t][i]].owner = t
            /\ table[pipe_fds[t][i]].kind \in {"pipe_out", "pipe_in"}
  /\ at[t] = "close" => OwnedIn(table, t, NonSession) = Elements(pipe_fds[t])
  /\ at[t] = "returned" /\ rc[t] >= 18 => OwnedIn(table, t, NonSession) = {}
  /\ at[t] \in {"exit", "close"} => rc[t] \in {18, 19}

\* How many descriptors it has.
Counts(t) ==
  /\ at[t] \in Making =>
       Cardinality(OwnedIn(table, t, NonFree)) = 1 + 3 * Len(ios[t]) + Half(t)
  /\ at[t] \in Up \cup {"close"} \/ (at[t] = "returned" /\ rc[t] >= 18) =>
       Cardinality(OwnedIn(table, t, {"session"})) = Len(ios[t])

WorkerInv(t) == NotBegun(t) /\ SlotCount(t) /\ Wiring(t) /\ Closes(t) /\ Counts(t)

WInv == WType /\ MainInv /\ \A t \in Workers : WorkerInv(t)

-----------------------------------------------------------------------------
(* The table of descriptors.                                               *)

\* The workers, and how many slots each has.
LEMMA WorkerFacts ==
  ASSUME cmd \in Commands
  PROVE  /\ Workers \subseteq Nat /\ MAIN \notin Workers /\ 0 \in Workers
         /\ \A t \in Workers : SlotsOf(t) \in Nat \ {0}
         /\ \A t \in Workers : ~Single => t <= cmd.n_threads - 1
<1>1. cmd.n_threads \in Nat /\ cmd.max_fuse_ios \in Nat \ {0}
      /\ cmd.max_background \in Nat \ {0}
  BY WorkersAssumption
<1>. QED
  BY <1>1 DEF Workers, Single, SlotsOf, MAIN

LEMMA FdFacts == Backing \in Fds /\ FuseFd \in Fds /\ Fds \subseteq Nat /\ IsFiniteSet(Fds)
<1>1. MaxFd \in Nat /\ MaxFd > 4
  BY WorkersAssumption
<1>2. 0 \in Int /\ MaxFd \in Int
  BY <1>1
<1>3. IsFiniteSet(0..MaxFd)
  BY <1>2, FS_Interval, Zenon
<1>. QED
  BY <1>1, <1>3 DEF Fds, Backing, FuseFd

LEMMA OwnedFinite ==
  ASSUME NEW tab, NEW t, NEW kinds
  PROVE  IsFiniteSet(OwnedIn(tab, t, kinds))
BY FdFacts, FS_Subset DEF OwnedIn

\* Objects of the kinds there are.
LEMMA ObjectTyped ==
  ASSUME NEW t \in Workers \cup {MAIN}, NEW kind \in Kinds, NEW slot \in Nat
  PROVE  /\ Object(t, kind, slot) \in Objects
         /\ Object(t, kind, slot).owner = t /\ Object(t, kind, slot).kind = kind
         /\ Object(t, kind, slot).slot = slot
BY DEF Object, Objects

LEMMA FreeFacts == Free \in Objects /\ Free.owner = MAIN /\ Free.kind = "free"
BY DEF Free, Object, Objects, Kinds

\* One more open descriptor, and its count.
Opened(tab, new, fd, t) ==
  /\ tab[fd].owner # t /\ new[fd].owner = t
  /\ \A x \in Fds \ {fd} : new[x] = tab[x]

Gained(tab, new, fd, t, kinds) ==
  /\ OwnedIn(new, t, kinds) = OwnedIn(tab, t, kinds) \cup {fd}
  /\ Cardinality(OwnedIn(new, t, kinds)) = Cardinality(OwnedIn(tab, t, kinds)) + 1

LEMMA OpenedOne ==
  ASSUME NEW tab, NEW new, NEW fd \in Fds, NEW t, NEW kinds, Opened(tab, new, fd, t)
  PROVE  /\ new[fd].kind \in kinds => Gained(tab, new, fd, t, kinds)
         /\ new[fd].kind \notin kinds => OwnedIn(new, t, kinds) = OwnedIn(tab, t, kinds)
<1>1. fd \notin OwnedIn(tab, t, kinds)
  BY DEF OwnedIn, Opened
<1>2. new[fd].kind \in kinds => OwnedIn(new, t, kinds) = OwnedIn(tab, t, kinds) \cup {fd}
  BY DEF OwnedIn, Opened
<1>3. new[fd].kind \notin kinds => OwnedIn(new, t, kinds) = OwnedIn(tab, t, kinds)
  BY DEF OwnedIn, Opened
<1>4. Cardinality(OwnedIn(tab, t, kinds) \cup {fd}) = Cardinality(OwnedIn(tab, t, kinds)) + 1
  BY <1>1, OwnedFinite, FS_AddElement
<1>. QED
  BY <1>2, <1>3, <1>4 DEF Gained

-----------------------------------------------------------------------------
(* What a step leaves alone.                                               *)

\* The step changes nothing of worker u.
Untouched(u) ==
  /\ at'[u] = at[u] /\ rc'[u] = rc[u] /\ ring_fd'[u] = ring_fd[u]
  /\ fixed_fds'[u] = fixed_fds[u] /\ pipe_fds'[u] = pipe_fds[u] /\ ios'[u] = ios[u]
  /\ \A fd \in Fds : table[fd].owner = u \/ table'[fd].owner = u => table'[fd] = table[fd]

LEMMA SameOwned ==
  ASSUME NEW u, NEW kinds, Untouched(u)
  PROVE  OwnedIn(table', u, kinds) = OwnedIn(table, u, kinds)
BY DEF OwnedIn, Untouched

\* Then what is known of u is still so.
LEMMA Frame ==
  ASSUME WType, NEW u \in Workers, WorkerInv(u), Untouched(u),
         cmd' = cmd, GivenRing(u) => uring_fd' = uring_fd,
         at[u] \in Before => (GivenRing(u)' <=> GivenRing(u))
  PROVE  WorkerInv(u)'
<1>0. u \in Nat /\ u # MAIN
  BY WorkerFacts DEF WType
<1>a. /\ OwnedIn(table', u, NonFree) = OwnedIn(table, u, NonFree)
      /\ OwnedIn(table', u, NonSession) = OwnedIn(table, u, NonSession)
      /\ OwnedIn(table', u, {"session"}) = OwnedIn(table, u, {"session"})
  BY SameOwned
<1>b. SlotsOf(u)' = SlotsOf(u) /\ Slot(u)' = Slot(u) /\ Half(u)' = Half(u)
  BY DEF SlotsOf, Single, Slot, Half, Untouched
<1>c. \A fd \in Fds : table[fd].owner = u => table'[fd] = table[fd]
  BY DEF Untouched
<1>d. \A kind, slot : Object(u, kind, slot).owner = u
  BY DEF Object
<1>1. NotBegun(u)'
  <2> SUFFICES ASSUME at[u] \in Before
               PROVE /\ ios'[u] = <<>> /\ pipe_fds'[u] = <<>>
                     /\ OwnedIn(table', u, NonFree) = IF GivenRing(u)' THEN {uring_fd'} ELSE {}
                     /\ GivenRing(u)' => table'[uring_fd'] = Object(u, "ring", 0)
    BY DEF NotBegun, Untouched
  <2>1. GivenRing(u)' <=> GivenRing(u)
    OBVIOUS
  <2>2. GivenRing(u) => table'[uring_fd] = Object(u, "ring", 0)
    <3>1. uring_fd \in Fds /\ (GivenRing(u) => table[uring_fd] = Object(u, "ring", 0))
      BY DEF NotBegun, WorkerInv, WType
    <3>. QED
      BY <3>1, <1>c, <1>d
  <2>3. /\ ios[u] = <<>> /\ pipe_fds[u] = <<>>
        /\ OwnedIn(table, u, NonFree) = IF GivenRing(u) THEN {uring_fd} ELSE {}
    BY DEF NotBegun, WorkerInv
  <2>. QED
    BY <2>1, <2>2, <2>3, <1>a DEF Untouched
<1>2. SlotCount(u)'
  BY <1>b DEF SlotCount, WorkerInv, Untouched
<1>3. Wiring(u)'
  <2> SUFFICES ASSUME at[u] \in Making PROVE Wiring(u)'
    BY DEF Wiring, Untouched
  <2>1. /\ fixed_fds[u] \in Seq(Fds) /\ ios[u] \in Seq(Files)
        /\ Len(ios[u]) \in Nat
        /\ Len(fixed_fds[u]) = 1 + 3 * Len(ios[u]) + Half(u)
        /\ Half(u) \in {0, 2}
        /\ at[u] = "clone" => Half(u) = 2
    BY DEF WType, WorkerInv, Wiring, Half
  <2>2. \A i \in 1..Len(fixed_fds[u]) :
           table[fixed_fds[u][i]].owner = u => table'[fixed_fds[u][i]] = table[fixed_fds[u][i]]
    BY <1>c, <2>1
  <2>3. ASSUME NEW s \in 1..Len(ios[u])
        PROVE  /\ ios[u][s] = [pipe0 |-> 3 * s - 2, pipe1 |-> 3 * s - 1, fuse_fd |-> 3 * s]
               /\ table'[fixed_fds[u][3 * s - 1]] = Object(u, "pipe_out", s)
               /\ table'[fixed_fds[u][3 * s]]     = Object(u, "pipe_in", s)
               /\ table'[fixed_fds[u][3 * s + 1]] = Object(u, "session", s)
    <3>1. /\ 3 * s - 1 \in 1..Len(fixed_fds[u]) /\ 3 * s \in 1..Len(fixed_fds[u])
          /\ 3 * s + 1 \in 1..Len(fixed_fds[u])
      BY <2>1
    <3>2. /\ ios[u][s] = [pipe0 |-> 3 * s - 2, pipe1 |-> 3 * s - 1, fuse_fd |-> 3 * s]
          /\ table[fixed_fds[u][3 * s - 1]] = Object(u, "pipe_out", s)
          /\ table[fixed_fds[u][3 * s]]     = Object(u, "pipe_in", s)
          /\ table[fixed_fds[u][3 * s + 1]] = Object(u, "session", s)
      BY DEF WorkerInv, Wiring
    <3>3. \A i \in 1..Len(fixed_fds[u]) : \A kind, slot :
             table[fixed_fds[u][i]] = Object(u, kind, slot)
               => table'[fixed_fds[u][i]] = Object(u, kind, slot)
      BY <2>2, <1>d
    <3> DEFINE out == 3 * s - 1
    <3>a. out \in 1..Len(fixed_fds[u]) /\ table[fixed_fds[u][out]] = Object(u, "pipe_out", s)
      BY <3>1, <3>2
    <3> HIDE DEF out
    <3>4. table'[fixed_fds[u][out]] = Object(u, "pipe_out", s)
      BY <3>a, <3>3
    <3>5. table'[fixed_fds[u][3 * s]] = Object(u, "pipe_in", s)
      BY <3>1, <3>2, <3>3
    <3>6. table'[fixed_fds[u][3 * s + 1]] = Object(u, "session", s)
      BY <3>1, <3>2, <3>3
    <3>. QED
      BY <3>2, <3>4, <3>5, <3>6 DEF out
  <2>4. ASSUME at[u] = "clone"
        PROVE  /\ table'[fixed_fds[u][3 * Slot(u) - 1]] = Object(u, "pipe_out", Slot(u))
               /\ table'[fixed_fds[u][3 * Slot(u)]]     = Object(u, "pipe_in", Slot(u))
    <3>1. /\ 3 * Slot(u) - 1 \in 1..Len(fixed_fds[u]) /\ 3 * Slot(u) \in 1..Len(fixed_fds[u])
      BY <2>1, <2>4 DEF Slot
    <3>2. /\ table[fixed_fds[u][3 * Slot(u) - 1]] = Object(u, "pipe_out", Slot(u))
          /\ table[fixed_fds[u][3 * Slot(u)]]     = Object(u, "pipe_in", Slot(u))
      BY <2>4 DEF WorkerInv, Wiring
    <3>. QED
      BY <3>1, <3>2, <2>2, <1>d
  <2>5. fixed_fds[u][1] = Backing
    BY DEF WorkerInv, Wiring
  <2>. QED
    BY <2>1, <2>3, <2>4, <2>5, <1>b DEF Wiring, Untouched
<1>4. Closes(u)'
  <2>0. pipe_fds[u] \in Seq(Fds) /\ ring_fd[u] \in Fds
    BY DEF WType
  <2>1. ASSUME at[u] \in Up PROVE table'[ring_fd[u]] = Object(u, "ring", 0)
    <3>1. table[ring_fd[u]] = Object(u, "ring", 0)
      BY <2>1 DEF WorkerInv, Closes
    <3>. QED
      BY <3>1, <2>0, <1>c, <1>d
  <2>2. ASSUME at[u] \in Up \cup {"close"}, NEW i \in 1..Len(pipe_fds[u])
        PROVE  table'[pipe_fds[u][i]].owner = u
               /\ table'[pipe_fds[u][i]].kind \in {"pipe_out", "pipe_in"}
    <3>1. /\ table[pipe_fds[u][i]].owner = u
          /\ table[pipe_fds[u][i]].kind \in {"pipe_out", "pipe_in"}
      BY <2>2 DEF WorkerInv, Closes
    <3>2. pipe_fds[u][i] \in Fds
      BY <2>0
    <3>. QED
      BY <3>1, <3>2, <1>c
  <2>. QED
    BY <2>1, <2>2, <1>a DEF Closes, WorkerInv, Untouched
<1>5. Counts(u)'
  BY <1>a, <1>b DEF Counts, WorkerInv, Untouched
<1>. QED
  BY <1>1, <1>2, <1>3, <1>4, <1>5 DEF WorkerInv

\* A step of worker t: what it changes is its own.
LocalStep(t) ==
  /\ main_at \in {"create", "join"} /\ UNCHANGED <<cmd, mounted, main_at, uring_fd>>
  /\ at[t] # "none"
  /\ \A u \in Workers \ {t} :
       /\ at'[u] = at[u] /\ rc'[u] = rc[u] /\ ring_fd'[u] = ring_fd[u]
       /\ fixed_fds'[u] = fixed_fds[u] /\ pipe_fds'[u] = pipe_fds[u] /\ ios'[u] = ios[u]
  /\ \A fd \in Fds : table'[fd] # table[fd] =>
       (table[fd] = Free \/ table[fd].owner = t) /\ table'[fd].owner \in {t, MAIN}

LEMMA SameCommand ==
  ASSUME cmd' = cmd
  PROVE  Workers' = Workers /\ Objects' = Objects /\ Single' = Single
         /\ \A t : SlotsOf(t)' = SlotsOf(t)
BY DEF Objects, Workers, Single, SlotsOf

LEMMA LocalKeeps ==
  ASSUME WInv, NEW t \in Workers, LocalStep(t), WType', WorkerInv(t)'
  PROVE  WInv'
<1>0. Workers \subseteq Nat /\ MAIN \notin Workers
  BY WorkerFacts DEF WInv, WType
<1>1. Workers' = Workers /\ Single' = Single
  BY SameCommand DEF LocalStep
<1>2. MainInv'
  <2>1. table[Backing] = Object(MAIN, "backing", 0) /\ Backing \in Fds
    BY FdFacts DEF WInv, MainInv, LocalStep
  <2>2. table[Backing] # Free /\ table[Backing].owner # t
    BY <2>1, <1>0 DEF Free, Object
  <2>3. table'[Backing] = Object(MAIN, "backing", 0)
    BY <2>1, <2>2 DEF LocalStep
  <2>. QED
    BY <1>1, <2>3 DEF WInv, MainInv, LocalStep
<1>3. ASSUME NEW u \in Workers, u # t PROVE WorkerInv(u)'
  <2>1. \A fd \in Fds : table[fd].owner = u \/ table'[fd].owner = u => table'[fd] = table[fd]
    BY <1>0, <1>3, FreeFacts DEF LocalStep
  <2>2. Untouched(u)
    BY <1>3, <2>1 DEF LocalStep, Untouched
  <2>3. cmd' = cmd /\ uring_fd' = uring_fd /\ (GivenRing(u)' <=> GivenRing(u))
    BY <1>1 DEF LocalStep, GivenRing
  <2>. QED
    BY <2>2, <2>3, Frame DEF WInv
<1>. QED
  BY <1>1, <1>2, <1>3 DEF WInv

\* Nothing more is said of a worker that gave up while it was set up.
LEMMA GaveUp ==
  ASSUME WInv, NEW t \in Workers, cmd' = cmd, ios'[t] = ios[t],
         at'[t] = "returned", rc'[t] \in Nat, rc'[t] < 18
  PROVE  WorkerInv(t)'
<1>1. Len(ios[t]) <= SlotsOf(t) /\ SlotsOf(t)' = SlotsOf(t)
  BY SameCommand DEF WInv, WorkerInv, SlotCount
<1>. QED
  BY <1>1 DEF WorkerInv, NotBegun, SlotCount, Wiring, Closes, Counts, Before, Making, Up

\* A worker runs while fuseuring_main makes threads or joins them.
LEMMA Running ==
  ASSUME WInv, NEW t \in Workers, at[t] \notin {"none", "returned"}
  PROVE  main_at \in {"create", "join"}
BY DEF WInv, WType, MainInv

-----------------------------------------------------------------------------
(* The steps of fuseuring_run.                                             *)

\* The three sets of descriptors of a worker that has one, its ring.
LEMMA OnlyRing ==
  ASSUME NEW tab \in [Fds -> Objects], NEW t, NEW fd \in Fds,
         tab[fd] = Object(t, "ring", 0), OwnedIn(tab, t, NonFree) = {fd}
  PROVE  /\ OwnedIn(tab, t, NonSession) = {fd} /\ OwnedIn(tab, t, {"session"}) = {}
         /\ Cardinality(OwnedIn(tab, t, NonFree)) = 1
         /\ Cardinality(OwnedIn(tab, t, {"session"})) = 0
<1>1. Object(t, "ring", 0).owner = t /\ Object(t, "ring", 0).kind = "ring"
  BY DEF Object
<1>2. OwnedIn(tab, t, NonSession) \subseteq OwnedIn(tab, t, NonFree)
  BY DEF OwnedIn, NonSession, NonFree
<1>3. OwnedIn(tab, t, {"session"}) \subseteq OwnedIn(tab, t, NonFree)
  BY DEF OwnedIn, NonFree, Kinds
<1>4. fd \in OwnedIn(tab, t, NonSession) /\ fd \notin OwnedIn(tab, t, {"session"})
  BY <1>1 DEF OwnedIn, NonSession, Kinds
<1>5. OwnedIn(tab, t, NonSession) = {fd} /\ OwnedIn(tab, t, {"session"}) = {}
  BY <1>2, <1>3, <1>4
<1>. QED
  BY <1>5, FS_Singleton, FS_EmptySet

\* Then the worker is ready for its first slot.
LEMMA RingReady ==
  ASSUME WInv, NEW t \in Workers, WType', cmd' = cmd, at[t] = "ring", at'[t] = "pipe",
         ios'[t] = ios[t], pipe_fds'[t] = pipe_fds[t], fixed_fds'[t] = <<Backing>>,
         OwnedIn(table', t, NonFree) = {ring_fd'[t]},
         table'[ring_fd'[t]] = Object(t, "ring", 0)
  PROVE  WorkerInv(t)'
<1>0. Workers' = Workers /\ Objects' = Objects /\ SlotsOf(t)' = SlotsOf(t)
  BY SameCommand
<1>1. SlotsOf(t) \in Nat \ {0}
  BY WorkerFacts DEF WInv, WType
<1>2. ios'[t] = <<>> /\ pipe_fds'[t] = <<>>
  BY DEF WInv, WorkerInv, NotBegun, Before
<1>3. table' \in [Fds -> Objects] /\ ring_fd'[t] \in Fds
  BY <1>0 DEF WType
<1>4. /\ OwnedIn(table', t, NonSession) = {ring_fd'[t]}
      /\ Cardinality(OwnedIn(table', t, NonFree)) = 1
      /\ Cardinality(OwnedIn(table', t, {"session"})) = 0
  <2>1. OwnedIn(table', t, NonSession) = {ring_fd'[t]}
    BY <1>3, OnlyRing
  <2>2. Cardinality(OwnedIn(table', t, NonFree)) = 1
    BY <1>3, OnlyRing
  <2>3. Cardinality(OwnedIn(table', t, {"session"})) = 0
    BY <1>3, OnlyRing
  <2>. QED
    BY <2>1, <2>2, <2>3
<1>5. NotBegun(t)' /\ SlotCount(t)'
  BY <1>0, <1>1, <1>2 DEF NotBegun, SlotCount, Before
<1>6. Wiring(t)'
  BY <1>2 DEF Wiring, Half
<1>7. Closes(t)'
  BY <1>2, <1>4 DEF Closes, Up, Making, Elements
<1>8. Counts(t)'
  BY <1>2, <1>4 DEF Counts, Up, Making, Half
<1>. QED
  BY <1>5, <1>6, <1>7, <1>8 DEF WorkerInv

\* What the steps change of the table, and what they do not.
LEMMA TypeKept ==
  ASSUME WType, NEW t \in Workers, UNCHANGED <<cmd, mounted, main_at, uring_fd>>,
         thread_rc' \in 0..19, table' \in [Fds -> Objects],
         at' \in [Workers -> Places], rc' \in [Workers -> 0..19],
         ring_fd' \in [Workers -> Fds], fixed_fds' \in [Workers -> Seq(Fds)],
         pipe_fds' \in [Workers -> Seq(Fds)], ios' \in [Workers -> Seq(Files)]
  PROVE  WType'
BY SameCommand DEF WType

LEMMA ReturnTyped ==
  ASSUME WType, NEW t \in Workers, NEW r \in 0..19, Return(t, r)
  PROVE  /\ at' \in [Workers -> Places] /\ at'[t] = "returned"
         /\ rc' \in [Workers -> 0..19] /\ rc'[t] = r /\ thread_rc' \in 0..19
         /\ \A u \in Workers \ {t} : at'[u] = at[u] /\ rc'[u] = rc[u]
BY DEF WType, Return, Places

LEMMA GotoTyped ==
  ASSUME WType, NEW t \in Workers, NEW place \in Places, Goto(t, place)
  PROVE  /\ at' \in [Workers -> Places] /\ at'[t] = place
         /\ rc' \in [Workers -> 0..19] /\ rc'[t] = rc[t] /\ thread_rc' \in 0..19
         /\ \A u \in Workers \ {t} : at'[u] = at[u] /\ rc'[u] = rc[u]
BY DEF WType, Goto

LEMMA SetupRingStep ==
  ASSUME WInv, NEW t \in Workers, setup_ring(t)
  PROVE  WInv'
<1>0. /\ WType /\ t \in Nat /\ MAIN \notin Workers
      /\ main_at \in {"create", "join"} /\ at[t] = "ring"
      /\ UNCHANGED <<cmd, mounted, main_at, uring_fd, pipe_fds, ios>>
  BY WorkerFacts, Running DEF WInv, WType, setup_ring, Globals
<1>1. /\ GivenRing(t) <=> (t = 0 /\ ~Single)
      /\ OwnedIn(table, t, NonFree) = IF GivenRing(t) THEN {uring_fd} ELSE {}
      /\ GivenRing(t) => table[uring_fd] = Object(t, "ring", 0)
  BY <1>0 DEF WInv, WorkerInv, NotBegun, Before, GivenRing
<1>2. <<Backing>> \in Seq(Fds)
  BY FdFacts
<1>3. CASE /\ ~Single /\ t = 0
           /\ ring_fd' = [ring_fd EXCEPT ![t] = uring_fd]
           /\ fixed_fds' = [fixed_fds EXCEPT ![t] = <<Backing>>]
           /\ Goto(t, "pipe")
           /\ UNCHANGED table
  <2>1. /\ ring_fd' \in [Workers -> Fds] /\ ring_fd'[t] = uring_fd
        /\ fixed_fds' \in [Workers -> Seq(Fds)] /\ fixed_fds'[t] = <<Backing>>
        /\ \A u \in Workers \ {t} : ring_fd'[u] = ring_fd[u] /\ fixed_fds'[u] = fixed_fds[u]
    BY <1>0, <1>2, <1>3 DEF WType
  <2>2. WType'
    BY <1>0, <1>3, <2>1, GotoTyped, TypeKept DEF WType, Places
  <2>3. LocalStep(t)
    BY <1>0, <1>3, <2>1, GotoTyped DEF LocalStep, Places
  <2>4. WorkerInv(t)'
    BY <1>0, <1>1, <1>3, <2>1, <2>2, GotoTyped, RingReady DEF Places
  <2>. QED
    BY <2>2, <2>3, <2>4, LocalKeeps
<1>4. CASE /\ Single \/ t # 0
           /\ \E fd \in Fds : /\ Opens(fd, Object(t, "ring", 0))
                              /\ ring_fd' = [ring_fd EXCEPT ![t] = fd]
           /\ fixed_fds' = [fixed_fds EXCEPT ![t] = <<Backing>>]
           /\ Goto(t, "pipe")
  <2>0. PICK fd \in Fds : /\ Opens(fd, Object(t, "ring", 0))
                          /\ ring_fd' = [ring_fd EXCEPT ![t] = fd]
    BY <1>4
  <2> DEFINE obj == Object(t, "ring", 0)
  <2>a. obj \in Objects /\ obj.owner = t /\ obj.kind = "ring"
    BY ObjectTyped DEF Kinds
  <2>b. table[fd] = Free /\ table' = [table EXCEPT ![fd] = obj]
    BY <2>0 DEF Opens, Lowest, FreeFds
  <2> HIDE DEF obj
  <2>1. /\ ring_fd' \in [Workers -> Fds] /\ ring_fd'[t] = fd
        /\ fixed_fds' \in [Workers -> Seq(Fds)] /\ fixed_fds'[t] = <<Backing>>
        /\ \A u \in Workers \ {t} : ring_fd'[u] = ring_fd[u] /\ fixed_fds'[u] = fixed_fds[u]
    BY <1>0, <1>2, <1>4, <2>0 DEF WType
  <2>2. table' \in [Fds -> Objects] /\ table'[fd] = obj
        /\ \A x \in Fds \ {fd} : table'[x] = table[x]
    BY <1>0, <2>a, <2>b DEF WType
  <2>3. WType'
    BY <1>0, <1>4, <2>1, <2>2, GotoTyped, TypeKept DEF WType, Places
  <2>4. LocalStep(t)
    BY <1>0, <1>4, <2>1, <2>2, <2>a, <2>b, GotoTyped DEF LocalStep, Places
  <2>5. OwnedIn(table', t, NonFree) = {fd}
    <3>1. table[fd].owner # t /\ table'[fd].owner = t /\ table'[fd].kind \in NonFree
      BY <1>0, <2>2, <2>a, <2>b, FreeFacts DEF NonFree, Kinds
    <3>2. Opened(table, table', fd, t)
      BY <2>2, <3>1 DEF Opened
    <3>3. OwnedIn(table', t, NonFree) = OwnedIn(table, t, NonFree) \cup {fd}
      <4>1. Gained(table, table', fd, t, NonFree)
        BY <3>1, <3>2, OpenedOne
      <4>. QED
        BY <4>1 DEF Gained
    <3>. QED
      BY <1>1, <1>4, <2>b, <3>3
  <2>6. WorkerInv(t)'
    BY <1>0, <1>4, <2>1, <2>2, <2>3, <2>5, GotoTyped, RingReady DEF Places, obj
  <2>. QED
    BY <2>3, <2>4, <2>6, LocalKeeps
<1>5. CASE /\ Return(t, 10)
           /\ UNCHANGED <<ring_fd, fixed_fds, table>>
  <2>0. /\ at' \in [Workers -> Places] /\ at'[t] = "returned"
        /\ rc' \in [Workers -> 0..19] /\ rc'[t] = 10 /\ thread_rc' \in 0..19
        /\ \A u \in Workers \ {t} : at'[u] = at[u] /\ rc'[u] = rc[u]
    BY <1>0, <1>5, 10 \in 0..19, ReturnTyped
  <2>1. WType'
    BY <1>0, <1>5, <2>0, TypeKept DEF WType
  <2>2. LocalStep(t)
    BY <1>0, <1>5, <2>0 DEF LocalStep
  <2>3. WorkerInv(t)'
    BY <1>0, <2>0, GaveUp
  <2>. QED
    BY <2>1, <2>2, <2>3, LocalKeeps
<1>. QED
  BY <1>3, <1>4, <1>5 DEF setup_ring

\* Slot s as WInv wants it, in any table and sequences.
SlotOK(tab, t, files, fds, s) ==
  /\ files[s] = [pipe0 |-> 3 * s - 2, pipe1 |-> 3 * s - 1, fuse_fd |-> 3 * s]
  /\ tab[fds[3 * s - 1]] = Object(t, "pipe_out", s)
  /\ tab[fds[3 * s]]     = Object(t, "pipe_in", s)
  /\ tab[fds[3 * s + 1]] = Object(t, "session", s)

\* What has been opened for a worker stays wired while the rest is opened.
Grown(t, tab, fds) ==
  /\ \A x \in Fds : table[x].owner = t => tab[x] = table[x]
  /\ \A i \in 1..Len(fixed_fds[t]) : fds[i] = fixed_fds[t][i]

LEMMA FilesKept ==
  ASSUME WInv, NEW t \in Workers, at[t] \in Making,
         NEW tab, NEW fds, Grown(t, tab, fds)
  PROVE  \A i \in 1..Len(fixed_fds[t]) : \A kind, s :
           table[fixed_fds[t][i]] = Object(t, kind, s) => tab[fds[i]] = Object(t, kind, s)
<1>. SUFFICES ASSUME NEW i \in 1..Len(fixed_fds[t]), NEW kind, NEW s,
                     table[fixed_fds[t][i]] = Object(t, kind, s)
              PROVE  tab[fds[i]] = Object(t, kind, s)
  OBVIOUS
<1>1. fixed_fds[t] \in Seq(Fds)
  BY DEF WInv, WType
<1>2. fixed_fds[t][i] \in Fds /\ fds[i] = fixed_fds[t][i]
  BY <1>1 DEF Grown
<1>3. table[fixed_fds[t][i]].owner = t
  BY DEF Object
<1>. QED
  BY <1>2, <1>3 DEF Grown

LEMMA SlotsKept ==
  ASSUME WInv, NEW t \in Workers, at[t] \in Making,
         NEW tab, NEW fds, Grown(t, tab, fds),
         NEW files, \A i \in 1..Len(ios[t]) : files[i] = ios[t][i]
  PROVE  \A s \in 1..Len(ios[t]) : SlotOK(tab, t, files, fds, s)
<1>. SUFFICES ASSUME NEW s \in 1..Len(ios[t]) PROVE SlotOK(tab, t, files, fds, s)
  OBVIOUS
<1>1. /\ Len(ios[t]) \in Nat /\ Half(t) \in {0, 2}
      /\ Len(fixed_fds[t]) = 1 + 3 * Len(ios[t]) + Half(t)
  BY DEF WInv, WType, WorkerInv, Wiring, Half
<1>2. /\ 3 * s - 1 \in 1..Len(fixed_fds[t]) /\ 3 * s \in 1..Len(fixed_fds[t])
      /\ 3 * s + 1 \in 1..Len(fixed_fds[t])
  BY <1>1
<1>3. SlotOK(table, t, ios[t], fixed_fds[t], s)
  BY DEF WInv, WorkerInv, Wiring, SlotOK
<1>4. \A i \in 1..Len(fixed_fds[t]) : \A kind, x :
        table[fixed_fds[t][i]] = Object(t, kind, x) => tab[fds[i]] = Object(t, kind, x)
  BY FilesKept
<1>5. tab[fds[3 * s - 1]] = Object(t, "pipe_out", s)
  BY <1>2, <1>3, <1>4 DEF SlotOK
<1>6. tab[fds[3 * s]] = Object(t, "pipe_in", s)
  BY <1>2, <1>3, <1>4 DEF SlotOK
<1>7. tab[fds[3 * s + 1]] = Object(t, "session", s)
  BY <1>2, <1>3, <1>4 DEF SlotOK
<1>. QED
  BY <1>3, <1>5, <1>6, <1>7 DEF SlotOK

LEMMA PipeKept ==
  ASSUME WInv, NEW t \in Workers, at[t] = "clone",
         NEW tab, NEW fds, Grown(t, tab, fds)
  PROVE  /\ tab[fds[3 * Slot(t) - 1]] = Object(t, "pipe_out", Slot(t))
         /\ tab[fds[3 * Slot(t)]]     = Object(t, "pipe_in", Slot(t))
<1>0. at[t] \in Making
  BY DEF Making
<1>1. Len(ios[t]) \in Nat /\ Len(fixed_fds[t]) = 1 + 3 * Len(ios[t]) + 2
  BY <1>0 DEF WInv, WType, WorkerInv, Wiring, Half
<1>2. 3 * Slot(t) - 1 \in 1..Len(fixed_fds[t]) /\ 3 * Slot(t) \in 1..Len(fixed_fds[t])
  BY <1>1 DEF Slot
<1>3. /\ table[fixed_fds[t][3 * Slot(t) - 1]] = Object(t, "pipe_out", Slot(t))
      /\ table[fixed_fds[t][3 * Slot(t)]]     = Object(t, "pipe_in", Slot(t))
  BY <1>0 DEF WInv, WorkerInv, Wiring
<1>4. \A i \in 1..Len(fixed_fds[t]) : \A kind, x :
        table[fixed_fds[t][i]] = Object(t, kind, x) => tab[fds[i]] = Object(t, kind, x)
  BY <1>0, FilesKept
<1>. QED
  BY <1>2, <1>3, <1>4

\* Two elements at the end of a sequence.
LastTwo(new, seq, a, b) ==
  /\ Len(new) = Len(seq) + 2 /\ Len(seq) \in Nat
  /\ \A i \in 1..Len(new) : i \in 1..Len(seq) \/ i = Len(seq) + 1 \/ i = Len(seq) + 2
  /\ \A i \in 1..Len(seq) : new[i] = seq[i]
  /\ new[Len(seq) + 1] = a /\ new[Len(seq) + 2] = b
  /\ Elements(new) = Elements(seq) \cup {a, b}

LEMMA AppendedTwo ==
  ASSUME NEW S, NEW seq \in Seq(S), NEW a \in S, NEW b \in S
  PROVE  seq \o <<a, b>> \in Seq(S) /\ LastTwo(seq \o <<a, b>>, seq, a, b)
<1> DEFINE new == seq \o <<a, b>>
<1>1. /\ new \in Seq(S) /\ Len(new) = Len(seq) + 2 /\ Len(seq) \in Nat
      /\ \A i \in 1..Len(seq) : new[i] = seq[i]
      /\ new[Len(seq) + 1] = a /\ new[Len(seq) + 2] = b
  OBVIOUS
<1> HIDE DEF new
<1>2. \A n \in Nat : 1..(n + 2) = 1..n \cup {n + 1, n + 2}
  OBVIOUS
<1>3. 1..Len(new) = 1..Len(seq) \cup {Len(seq) + 1, Len(seq) + 2}
  BY <1>1, <1>2
<1>4. Elements(new) = {new[i] : i \in 1..Len(seq)} \cup {a, b}
  BY <1>1, <1>3, Zenon DEF Elements
<1>5. {new[i] : i \in 1..Len(seq)} = Elements(seq)
  BY <1>1, Zenon DEF Elements
<1>6. Elements(new) = Elements(seq) \cup {a, b}
  BY <1>4, <1>5
<1>7. LastTwo(new, seq, a, b)
  BY <1>1, <1>3, <1>6 DEF LastTwo
<1>. QED
  BY <1>1, <1>7 DEF new

\* Both ends of a pipe are opened: what that does to the table.
LEMMA PipeOpened ==
  ASSUME WType, NEW t \in Workers, NEW fd \in Fds, NEW gd \in Fds,
         Opens2(fd, Object(t, "pipe_out", Slot(t)), gd, Object(t, "pipe_in", Slot(t)))
  PROVE  /\ fd # gd /\ table[fd] = Free /\ table[gd] = Free
         /\ table'[fd] = Object(t, "pipe_out", Slot(t))
         /\ table'[gd] = Object(t, "pipe_in", Slot(t))
         /\ \A x \in Fds \ {fd, gd} : table'[x] = table[x]
         /\ \A x \in Fds : table[x].owner = t => table'[x] = table[x]
         /\ table' \in [Fds -> Objects]
         /\ OwnedIn(table', t, NonSession) = OwnedIn(table, t, NonSession) \cup {fd, gd}
         /\ OwnedIn(table', t, {"session"}) = OwnedIn(table, t, {"session"})
         /\ Cardinality(OwnedIn(table', t, NonFree)) = Cardinality(OwnedIn(table, t, NonFree)) + 2
<1> DEFINE o1 == Object(t, "pipe_out", Slot(t))
           o2 == Object(t, "pipe_in", Slot(t))
<1>0. MAIN \notin Workers /\ t # MAIN /\ table \in [Fds -> Objects] /\ Slot(t) \in Nat
  BY WorkerFacts DEF WType, Slot
<1>1. /\ o1 \in Objects /\ o1.owner = t /\ o1.kind = "pipe_out"
      /\ o2 \in Objects /\ o2.owner = t /\ o2.kind = "pipe_in"
  BY <1>0, ObjectTyped DEF Kinds
<1>2. /\ fd # gd /\ table[fd] = Free /\ table[gd] = Free
      /\ table' = [table EXCEPT ![fd] = o1, ![gd] = o2]
  BY DEF Opens2, Lowest, FreeFds
<1> HIDE DEF o1, o2
<1> DEFINE mid == [table EXCEPT ![fd] = o1]
<1>3. /\ mid[fd] = o1 /\ mid[gd] = Free /\ \A x \in Fds \ {fd} : mid[x] = table[x]
      /\ table'[gd] = o2 /\ \A x \in Fds \ {gd} : table'[x] = mid[x]
      /\ table' \in [Fds -> Objects]
  BY <1>0, <1>1, <1>2
<1> HIDE DEF mid
<1>4. table[fd].owner # t /\ mid[gd].owner # t
  BY <1>0, <1>2, <1>3, FreeFacts
<1>5. /\ OwnedIn(mid, t, NonSession) = OwnedIn(table, t, NonSession) \cup {fd}
      /\ OwnedIn(mid, t, {"session"}) = OwnedIn(table, t, {"session"})
      /\ Cardinality(OwnedIn(mid, t, NonFree)) = Cardinality(OwnedIn(table, t, NonFree)) + 1
  <2>1. mid[fd].kind \in NonSession /\ mid[fd].kind \in NonFree
        /\ mid[fd].kind \notin {"session"} /\ mid[fd].owner = t
    BY <1>1, <1>3 DEF NonSession, NonFree, Kinds
  <2>2. Opened(table, mid, fd, t)
    BY <2>1, <1>3, <1>4 DEF Opened
  <2>3. Gained(table, mid, fd, t, NonSession) /\ Gained(table, mid, fd, t, NonFree)
    BY <2>1, <2>2, OpenedOne
  <2>4. OwnedIn(mid, t, {"session"}) = OwnedIn(table, t, {"session"})
    BY <2>1, <2>2, OpenedOne
  <2>. QED
    BY <2>3, <2>4 DEF Gained
<1>6. /\ OwnedIn(table', t, NonSession) = OwnedIn(mid, t, NonSession) \cup {gd}
      /\ OwnedIn(table', t, {"session"}) = OwnedIn(mid, t, {"session"})
      /\ Cardinality(OwnedIn(table', t, NonFree)) = Cardinality(OwnedIn(mid, t, NonFree)) + 1
  <2>1. table'[gd].kind \in NonSession /\ table'[gd].kind \in NonFree
        /\ table'[gd].kind \notin {"session"} /\ table'[gd].owner = t
    BY <1>1, <1>3 DEF NonSession, NonFree, Kinds
  <2>2. Opened(mid, table', gd, t)
    BY <2>1, <1>3, <1>4 DEF Opened
  <2>3. Gained(mid, table', gd, t, NonSession) /\ Gained(mid, table', gd, t, NonFree)
    BY <2>1, <2>2, OpenedOne
  <2>4. OwnedIn(table', t, {"session"}) = OwnedIn(mid, t, {"session"})
    BY <2>1, <2>2, OpenedOne
  <2>. QED
    BY <2>3, <2>4 DEF Gained
<1>7. /\ table'[fd] = o1 /\ \A x \in Fds \ {fd, gd} : table'[x] = table[x]
      /\ \A x \in Fds : table[x].owner = t => table'[x] = table[x]
  BY <1>0, <1>2, <1>3, FreeFacts
<1>8. Cardinality(OwnedIn(table', t, NonFree)) = Cardinality(OwnedIn(table, t, NonFree)) + 2
  <2>1. Cardinality(OwnedIn(table, t, NonFree)) \in Nat
    BY OwnedFinite, FS_CardinalityType
  <2>. QED
    BY <1>5, <1>6, <2>1
<1>. QED
  BY <1>2, <1>3, <1>5, <1>6, <1>7, <1>8 DEF o1, o2

LEMMA PipeMade ==
  ASSUME WInv, NEW t \in Workers, at[t] = "pipe", WType', UNCHANGED <<cmd, ring_fd, ios>>,
         NEW fd \in Fds, NEW gd \in Fds,
         Opens2(fd, Object(t, "pipe_out", Slot(t)), gd, Object(t, "pipe_in", Slot(t))),
         fixed_fds'[t] = fixed_fds[t] \o <<fd, gd>>, pipe_fds'[t] = pipe_fds[t] \o <<fd, gd>>,
         at'[t] = "clone"
  PROVE  WorkerInv(t)'
<1>0. /\ WType /\ fixed_fds[t] \in Seq(Fds) /\ pipe_fds[t] \in Seq(Fds) /\ Len(ios[t]) \in Nat
      /\ ring_fd[t] \in Fds /\ t # MAIN
      /\ SlotsOf(t)' = SlotsOf(t) /\ ios'[t] = ios[t] /\ Slot(t)' = Slot(t)
      /\ SlotsOf(t) \in Nat
  <2>1. WType /\ SlotsOf(t)' = SlotsOf(t) /\ ios'[t] = ios[t] /\ Slot(t)' = Slot(t)
    BY SameCommand DEF WInv, Slot
  <2>2. SlotsOf(t) \in Nat /\ t # MAIN
    BY <2>1, WorkerFacts DEF WType
  <2>. QED
    <3>1. /\ fixed_fds[t] \in Seq(Fds) /\ pipe_fds[t] \in Seq(Fds) /\ ring_fd[t] \in Fds
          /\ ios[t] \in Seq(Files)
      BY <2>1 DEF WType
    <3>2. Len(ios[t]) \in Nat
      BY <3>1
    <3>. QED
      BY <2>1, <2>2, <3>1, <3>2
<1>1. /\ fd # gd /\ table[fd] = Free /\ table[gd] = Free
      /\ table'[fd] = Object(t, "pipe_out", Slot(t))
      /\ table'[gd] = Object(t, "pipe_in", Slot(t))
      /\ \A x \in Fds : table[x].owner = t => table'[x] = table[x]
      /\ OwnedIn(table', t, NonSession) = OwnedIn(table, t, NonSession) \cup {fd, gd}
      /\ OwnedIn(table', t, {"session"}) = OwnedIn(table, t, {"session"})
      /\ Cardinality(OwnedIn(table', t, NonFree)) = Cardinality(OwnedIn(table, t, NonFree)) + 2
  BY <1>0, PipeOpened
<1>2. /\ LastTwo(fixed_fds'[t], fixed_fds[t], fd, gd)
      /\ Len(fixed_fds'[t]) = Len(fixed_fds[t]) + 2
      /\ \A i \in 1..Len(fixed_fds[t]) : fixed_fds'[t][i] = fixed_fds[t][i]
      /\ fixed_fds'[t][Len(fixed_fds[t]) + 1] = fd /\ fixed_fds'[t][Len(fixed_fds[t]) + 2] = gd
  <2>1. LastTwo(fixed_fds'[t], fixed_fds[t], fd, gd)
    BY <1>0, AppendedTwo
  <2>. QED
    BY <2>1 DEF LastTwo
<1>3. LastTwo(pipe_fds'[t], pipe_fds[t], fd, gd)
  BY <1>0, AppendedTwo
<1>4. /\ Len(ios[t]) < SlotsOf(t) /\ fixed_fds[t][1] = Backing
      /\ Len(fixed_fds[t]) = 1 + 3 * Len(ios[t])
      /\ table[ring_fd[t]] = Object(t, "ring", 0)
      /\ OwnedIn(table, t, NonSession) = {ring_fd[t]} \cup Elements(pipe_fds[t])
      /\ \A i, j \in 1..Len(pipe_fds[t]) : pipe_fds[t][i] = pipe_fds[t][j] => i = j
      /\ \A i \in 1..Len(pipe_fds[t]) :
            /\ table[pipe_fds[t][i]].owner = t
            /\ table[pipe_fds[t][i]].kind \in {"pipe_out", "pipe_in"}
      /\ Cardinality(OwnedIn(table, t, NonFree)) = 1 + 3 * Len(ios[t])
      /\ Cardinality(OwnedIn(table, t, {"session"})) = Len(ios[t])
  <2>1. at[t] \in Making /\ at[t] \in Up /\ Half(t) = 0
    BY DEF Half, Making, Up
  <2>2. SlotCount(t) /\ Wiring(t) /\ Closes(t) /\ Counts(t)
    BY DEF WInv, WorkerInv
  <2>3. /\ Len(ios[t]) < SlotsOf(t) /\ fixed_fds[t][1] = Backing
        /\ Len(fixed_fds[t]) = 1 + 3 * Len(ios[t])
    BY <1>0, <2>1, <2>2 DEF SlotCount, Wiring
  <2>4. /\ Cardinality(OwnedIn(table, t, NonFree)) = 1 + 3 * Len(ios[t])
        /\ Cardinality(OwnedIn(table, t, {"session"})) = Len(ios[t])
    BY <1>0, <2>1, <2>2 DEF Counts
  <2>. QED
    BY <2>1, <2>2, <2>3, <2>4 DEF Closes
<1>5. NotBegun(t)' /\ SlotCount(t)'
  BY <1>0, <1>4 DEF NotBegun, SlotCount, Before
<1>6. Wiring(t)'
  <2>1. \A s \in 1..Len(ios[t]) : SlotOK(table', t, ios[t], fixed_fds'[t], s)
    BY <1>1, <1>2, SlotsKept DEF Making, Grown
  <2>2. /\ table'[fixed_fds'[t][3 * Slot(t) - 1]] = Object(t, "pipe_out", Slot(t))
        /\ table'[fixed_fds'[t][3 * Slot(t)]]     = Object(t, "pipe_in", Slot(t))
    <3>1. 3 * Slot(t) - 1 = Len(fixed_fds[t]) + 1 /\ 3 * Slot(t) = Len(fixed_fds[t]) + 2
      BY <1>0, <1>4 DEF Slot
    <3>. QED
      BY <3>1, <1>1, <1>2
  <2>3. /\ Len(fixed_fds'[t]) = 1 + 3 * Len(ios[t]) + 2 /\ fixed_fds'[t][1] = Backing
    BY <1>0, <1>2, <1>4
  <2>. QED
    BY <1>0, <2>1, <2>2, <2>3 DEF Wiring, Half, SlotOK
<1>7. Closes(t)'
  <2>b. Elements(pipe_fds'[t]) = Elements(pipe_fds[t]) \cup {fd, gd}
    BY <1>3 DEF LastTwo
  <2>0. \A i \in 1..Len(pipe_fds'[t]) :
              \/ i \in 1..Len(pipe_fds[t])
              \/ i = Len(pipe_fds[t]) + 1
              \/ i = Len(pipe_fds[t]) + 2
    BY <1>3 DEF LastTwo
  <2>1. \A i \in 1..Len(pipe_fds[t]) : /\ pipe_fds'[t][i] = pipe_fds[t][i]
                                       /\ pipe_fds'[t][i] \in Fds \ {fd, gd}
    <3>1. \A i \in 1..Len(pipe_fds[t]) : pipe_fds[t][i] \in Fds
      BY <1>0
    <3>. QED
      <4>1. \A i \in 1..Len(pipe_fds[t]) : pipe_fds'[t][i] = pipe_fds[t][i]
        BY <1>3 DEF LastTwo
      <4>2. table[fd].owner # t /\ table[gd].owner # t
        BY <1>0, <1>1, FreeFacts
      <4>3. \A i \in 1..Len(pipe_fds[t]) : table[pipe_fds[t][i]].owner = t
        BY <1>4
      <4>. QED
        BY <3>1, <4>1, <4>2, <4>3
  <2>a. pipe_fds'[t][Len(pipe_fds[t]) + 1] = fd /\ pipe_fds'[t][Len(pipe_fds[t]) + 2] = gd
    BY <1>3 DEF LastTwo
  <2>2. ASSUME NEW i \in 1..Len(pipe_fds'[t]), NEW j \in 1..Len(pipe_fds'[t]),
               pipe_fds'[t][i] = pipe_fds'[t][j]
        PROVE  i = j
    <3>1. CASE i \in 1..Len(pipe_fds[t]) /\ j \in 1..Len(pipe_fds[t])
      BY <1>4, <2>1, <2>2, <3>1
    <3>2. CASE ~(i \in 1..Len(pipe_fds[t]) /\ j \in 1..Len(pipe_fds[t]))
      BY <1>1, <2>0, <2>1, <2>a, <2>2, <3>2
    <3>. QED
      BY <3>1, <3>2
  <2>3. ASSUME NEW i \in 1..Len(pipe_fds'[t])
        PROVE  /\ table'[pipe_fds'[t][i]].owner = t
               /\ table'[pipe_fds'[t][i]].kind \in {"pipe_out", "pipe_in"}
    <3>1. CASE i \in 1..Len(pipe_fds[t])
      <4>1. /\ pipe_fds'[t][i] = pipe_fds[t][i] /\ pipe_fds[t][i] \in Fds
            /\ table[pipe_fds[t][i]].owner = t
            /\ table[pipe_fds[t][i]].kind \in {"pipe_out", "pipe_in"}
        BY <1>4, <2>1, <3>1
      <4>. QED
        BY <4>1, <1>1
    <3>2. CASE i \notin 1..Len(pipe_fds[t])
      <4>1. pipe_fds'[t][i] \in {fd, gd}
        BY <2>0, <2>a, <3>2
      <4>. QED
        BY <4>1, <1>1 DEF Object
    <3>. QED
      BY <3>1, <3>2
  <2>4. table'[ring_fd[t]] = Object(t, "ring", 0)
    <3>1. Object(t, "ring", 0).owner = t
      BY DEF Object
    <3>. QED
      BY <3>1, <1>0, <1>1, <1>4
  <2>. QED
    BY <1>0, <1>1, <1>4, <2>b, <2>2, <2>3, <2>4 DEF Closes, Up, Making
<1>8. Counts(t)'
  BY <1>0, <1>1, <1>4 DEF Counts, Half, Making
<1>. QED
  BY <1>5, <1>6, <1>7, <1>8 DEF WorkerInv

\* A worker that gives up, having opened some descriptors.
LEMMA GivesUp ==
  ASSUME WInv, NEW t \in Workers, at[t] \notin {"none", "returned"},
         NEW r \in 10..15, Return(t, r), UNCHANGED <<Globals, ring_fd, fixed_fds, pipe_fds, ios>>,
         table' \in [Fds -> Objects],
         \A x \in Fds : table'[x] # table[x] => table[x] = Free /\ table'[x].owner = t
  PROVE  WInv'
<1>0. /\ WType /\ main_at \in {"create", "join"}
      /\ UNCHANGED <<cmd, mounted, main_at, uring_fd>> /\ r \in 0..19
  BY Running DEF WInv, Globals
<1>1. /\ at' \in [Workers -> Places] /\ at'[t] = "returned"
      /\ rc' \in [Workers -> 0..19] /\ rc'[t] = r /\ thread_rc' \in 0..19
      /\ \A u \in Workers \ {t} : at'[u] = at[u] /\ rc'[u] = rc[u]
  BY <1>0, ReturnTyped
<1>2. WType'
  BY <1>0, <1>1, TypeKept DEF WType
<1>3. LocalStep(t)
  BY <1>0, <1>1 DEF LocalStep
<1>4. WorkerInv(t)'
  BY <1>0, <1>1, GaveUp
<1>. QED
  BY <1>2, <1>3, <1>4, LocalKeeps

LEMMA CreatePipeStep ==
  ASSUME WInv, NEW t \in Workers, create_pipe(t)
  PROVE  WInv'
<1>0. /\ WType /\ main_at \in {"create", "join"} /\ at[t] = "pipe"
      /\ UNCHANGED <<Globals, ring_fd, ios>>
      /\ UNCHANGED <<cmd, mounted, main_at, uring_fd>>
  BY Running DEF WInv, create_pipe, Globals
<1>1. ASSUME NEW fd \in Fds, NEW gd \in Fds,
             Opens2(fd, Object(t, "pipe_out", Slot(t)), gd, Object(t, "pipe_in", Slot(t))),
             fixed_fds' = [fixed_fds EXCEPT ![t] = @ \o <<fd, gd>>],
             pipe_fds' = [pipe_fds EXCEPT ![t] = @ \o <<fd, gd>>],
             Goto(t, "clone")
      PROVE  WInv'
  <2>1. /\ fixed_fds[t] \o <<fd, gd>> \in Seq(Fds) /\ pipe_fds[t] \o <<fd, gd>> \in Seq(Fds)
    BY <1>0, AppendedTwo DEF WType
  <2>2. /\ fixed_fds' \in [Workers -> Seq(Fds)] /\ fixed_fds'[t] = fixed_fds[t] \o <<fd, gd>>
        /\ pipe_fds' \in [Workers -> Seq(Fds)] /\ pipe_fds'[t] = pipe_fds[t] \o <<fd, gd>>
        /\ \A u \in Workers \ {t} : fixed_fds'[u] = fixed_fds[u] /\ pipe_fds'[u] = pipe_fds[u]
    BY <1>0, <1>1, <2>1 DEF WType
  <2>3. /\ at' \in [Workers -> Places] /\ at'[t] = "clone"
        /\ rc' \in [Workers -> 0..19] /\ thread_rc' \in 0..19
        /\ \A u \in Workers \ {t} : at'[u] = at[u] /\ rc'[u] = rc[u]
    BY <1>0, <1>1, "clone" \in Places, GotoTyped DEF Places
  <2>4. /\ table' \in [Fds -> Objects] /\ table[fd] = Free /\ table[gd] = Free
        /\ table'[fd].owner = t /\ table'[gd].owner = t
        /\ \A x \in Fds \ {fd, gd} : table'[x] = table[x]
    BY <1>0, <1>1, PipeOpened DEF Object
  <2>5. WType'
    BY <1>0, <2>2, <2>3, <2>4, TypeKept DEF WType
  <2>6. LocalStep(t)
    BY <1>0, <2>2, <2>3, <2>4 DEF LocalStep
  <2>7. WorkerInv(t)'
    BY <1>0, <1>1, <2>2, <2>3, <2>5, PipeMade
  <2>. QED
    BY <2>5, <2>6, <2>7, LocalKeeps
<1>2. ASSUME NEW fd \in Fds, NEW gd \in Fds,
             Opens2(fd, Object(t, "pipe_out", Slot(t)), gd, Object(t, "pipe_in", Slot(t))),
             Return(t, 12), UNCHANGED <<fixed_fds, pipe_fds>>
      PROVE  WInv'
  <2>1. /\ table' \in [Fds -> Objects] /\ table[fd] = Free /\ table[gd] = Free
        /\ table'[fd].owner = t /\ table'[gd].owner = t
        /\ \A x \in Fds \ {fd, gd} : table'[x] = table[x]
    BY <1>0, <1>2, PipeOpened DEF Object
  <2>2. 12 \in 10..15
    OBVIOUS
  <2>. QED
    BY <1>0, <1>2, <2>1, <2>2, GivesUp
<1>3. ASSUME Return(t, 11), UNCHANGED <<table, fixed_fds, pipe_fds>>
      PROVE  WInv'
  <2>1. 11 \in 10..15 /\ table' \in [Fds -> Objects]
    BY <1>0, <1>3 DEF WType
  <2>. QED
    BY <1>0, <1>3, <2>1, GivesUp
<1>. QED
  BY <1>1, <1>2, <1>3 DEF create_pipe

\* A session is opened: what that does to the table.
LEMMA SessionOpened ==
  ASSUME WType, NEW t \in Workers, NEW fd \in Fds, Opens(fd, Object(t, "session", Slot(t)))
  PROVE  /\ table[fd] = Free /\ table'[fd] = Object(t, "session", Slot(t))
         /\ \A x \in Fds \ {fd} : table'[x] = table[x]
         /\ \A x \in Fds : table[x].owner = t => table'[x] = table[x]
         /\ table' \in [Fds -> Objects]
         /\ OwnedIn(table', t, NonSession) = OwnedIn(table, t, NonSession)
         /\ Cardinality(OwnedIn(table', t, {"session"}))
              = Cardinality(OwnedIn(table, t, {"session"})) + 1
         /\ Cardinality(OwnedIn(table', t, NonFree)) = Cardinality(OwnedIn(table, t, NonFree)) + 1
<1> DEFINE obj == Object(t, "session", Slot(t))
<1>0. MAIN \notin Workers /\ t # MAIN /\ table \in [Fds -> Objects] /\ Slot(t) \in Nat
  BY WorkerFacts DEF WType, Slot
<1>1. obj \in Objects /\ obj.owner = t /\ obj.kind = "session"
  BY <1>0, ObjectTyped DEF Kinds
<1>2. table[fd] = Free /\ table' = [table EXCEPT ![fd] = obj]
  BY DEF Opens, Lowest, FreeFds
<1> HIDE DEF obj
<1>3. /\ table'[fd] = obj /\ \A x \in Fds \ {fd} : table'[x] = table[x]
      /\ table' \in [Fds -> Objects]
  BY <1>0, <1>1, <1>2
<1>4. table[fd].owner # t
  BY <1>0, <1>2, FreeFacts
<1>5. Opened(table, table', fd, t)
  BY <1>1, <1>3, <1>4 DEF Opened
<1>6. table'[fd].kind \notin NonSession /\ table'[fd].kind \in NonFree
      /\ table'[fd].kind \in {"session"}
  BY <1>1, <1>3 DEF NonSession, NonFree, Kinds
<1>7. OwnedIn(table', t, NonSession) = OwnedIn(table, t, NonSession)
  BY <1>5, <1>6, OpenedOne
<1>8. Gained(table, table', fd, t, {"session"}) /\ Gained(table, table', fd, t, NonFree)
  BY <1>5, <1>6, OpenedOne
<1>. QED
  BY <1>2, <1>3, <1>4, <1>7, <1>8 DEF obj, Gained

LEMMA SlotDone ==
  ASSUME WInv, NEW t \in Workers, at[t] = "clone", WType', UNCHANGED <<cmd, ring_fd, pipe_fds>>,
         NEW fd \in Fds, Opens(fd, Object(t, "session", Slot(t))),
         fixed_fds'[t] = Append(fixed_fds[t], fd),
         ios'[t] = Append(ios[t], [pipe0 |-> Len(fixed_fds[t]) - 2,
                                   pipe1 |-> Len(fixed_fds[t]) - 1,
                                   fuse_fd |-> Len(fixed_fds[t])]),
         at'[t] = IF Slot(t) = SlotsOf(t) THEN "register" ELSE "pipe"
  PROVE  WorkerInv(t)'
<1>0. /\ WType /\ fixed_fds[t] \in Seq(Fds) /\ pipe_fds[t] \in Seq(Fds) /\ Len(ios[t]) \in Nat
      /\ ring_fd[t] \in Fds /\ t # MAIN /\ ios[t] \in Seq(Files)
      /\ SlotsOf(t)' = SlotsOf(t) /\ SlotsOf(t) \in Nat
  <2>1. WType /\ SlotsOf(t)' = SlotsOf(t)
    BY SameCommand DEF WInv
  <2>2. SlotsOf(t) \in Nat /\ t # MAIN
    BY <2>1, WorkerFacts DEF WType
  <2>. QED
    BY <2>1, <2>2 DEF WType
<1>1. /\ table[fd] = Free /\ table'[fd] = Object(t, "session", Slot(t))
      /\ \A x \in Fds : table[x].owner = t => table'[x] = table[x]
      /\ OwnedIn(table', t, NonSession) = OwnedIn(table, t, NonSession)
      /\ Cardinality(OwnedIn(table', t, {"session"}))
              = Cardinality(OwnedIn(table, t, {"session"})) + 1
      /\ Cardinality(OwnedIn(table', t, NonFree)) = Cardinality(OwnedIn(table, t, NonFree)) + 1
  BY <1>0, SessionOpened
<1>2. /\ Len(fixed_fds'[t]) = Len(fixed_fds[t]) + 1
      /\ \A i \in 1..Len(fixed_fds[t]) : fixed_fds'[t][i] = fixed_fds[t][i]
      /\ fixed_fds'[t][Len(fixed_fds[t]) + 1] = fd
  BY <1>0
<1>4. /\ Len(ios[t]) < SlotsOf(t) /\ fixed_fds[t][1] = Backing
      /\ Len(fixed_fds[t]) = 1 + 3 * Len(ios[t]) + 2
      /\ Cardinality(OwnedIn(table, t, NonFree)) = 1 + 3 * Len(ios[t]) + 2
      /\ Cardinality(OwnedIn(table, t, {"session"})) = Len(ios[t])
      /\ Closes(t)
  <2>1. at[t] \in Making /\ at[t] \in Up /\ Half(t) = 2
    BY DEF Half, Making, Up
  <2>2. SlotCount(t) /\ Wiring(t) /\ Closes(t) /\ Counts(t)
    BY DEF WInv, WorkerInv
  <2>3. /\ Len(ios[t]) < SlotsOf(t) /\ fixed_fds[t][1] = Backing
        /\ Len(fixed_fds[t]) = 1 + 3 * Len(ios[t]) + 2
    BY <1>0, <2>1, <2>2 DEF SlotCount, Wiring
  <2>4. /\ Cardinality(OwnedIn(table, t, NonFree)) = 1 + 3 * Len(ios[t]) + 2
        /\ Cardinality(OwnedIn(table, t, {"session"})) = Len(ios[t])
    BY <1>0, <2>1, <2>2 DEF Counts
  <2>. QED
    BY <2>2, <2>3, <2>4
<1>3. /\ Len(ios'[t]) = Len(ios[t]) + 1 /\ Slot(t) = Len(ios[t]) + 1
      /\ \A i \in 1..Len(ios[t]) : ios'[t][i] = ios[t][i]
      /\ ios'[t][Slot(t)] = [pipe0 |-> 3 * Slot(t) - 2, pipe1 |-> 3 * Slot(t) - 1,
                             fuse_fd |-> 3 * Slot(t)]
  <2> DEFINE n   == Len(fixed_fds[t])
             new == [pipe0 |-> n - 2, pipe1 |-> n - 1, fuse_fd |-> n]
  <2>1. n = 3 * Slot(t) /\ Slot(t) = Len(ios[t]) + 1 /\ Slot(t) \in Nat
    BY <1>0, <1>4 DEF Slot
  <2>2. new = [pipe0 |-> 3 * Slot(t) - 2, pipe1 |-> 3 * Slot(t) - 1, fuse_fd |-> 3 * Slot(t)]
    BY <2>1
  <2>3. ios'[t] = Append(ios[t], new)
    OBVIOUS
  <2> HIDE DEF new, n
  <2>4. /\ Len(ios'[t]) = Len(ios[t]) + 1
        /\ \A i \in 1..Len(ios[t]) : ios'[t][i] = ios[t][i]
        /\ ios'[t][Len(ios[t]) + 1] = new
    BY <1>0, <2>3
  <2>. QED
    BY <2>1, <2>2, <2>4
<1>5. at'[t] \in {"register", "pipe"} /\ (at'[t] = "register" <=> Slot(t) = SlotsOf(t))
  OBVIOUS
<1>6. NotBegun(t)' /\ SlotCount(t)'
  BY <1>0, <1>3, <1>4, <1>5 DEF NotBegun, SlotCount, Before
<1>7. Wiring(t)'
  <2>1. /\ \A s \in 1..Len(ios[t]) : SlotOK(table', t, ios'[t], fixed_fds'[t], s)
        /\ table'[fixed_fds'[t][3 * Slot(t) - 1]] = Object(t, "pipe_out", Slot(t))
        /\ table'[fixed_fds'[t][3 * Slot(t)]]     = Object(t, "pipe_in", Slot(t))
    <3>1. at[t] \in Making
      BY DEF Making
    <3>2. \A i \in 1..Len(ios[t]) : ios'[t][i] = ios[t][i]
      BY <1>3
    <3>. QED
      <4>1. Grown(t, table', fixed_fds'[t])
        BY <1>1, <1>2 DEF Grown
      <4>3. \A s \in 1..Len(ios[t]) : SlotOK(table', t, ios'[t], fixed_fds'[t], s)
        BY <4>1, <3>1, <3>2, SlotsKept
      <4>4. /\ table'[fixed_fds'[t][3 * Slot(t) - 1]] = Object(t, "pipe_out", Slot(t))
            /\ table'[fixed_fds'[t][3 * Slot(t)]]     = Object(t, "pipe_in", Slot(t))
        BY <4>1, PipeKept
      <4>. QED
        BY <4>3, <4>4
  <2>2. SlotOK(table', t, ios'[t], fixed_fds'[t], Slot(t))
    <3>1. 3 * Slot(t) + 1 = Len(fixed_fds[t]) + 1
      BY <1>0, <1>3, <1>4
    <3>2. table'[fixed_fds'[t][3 * Slot(t) + 1]] = Object(t, "session", Slot(t))
      BY <3>1, <1>1, <1>2
    <3>. QED
      BY <3>2, <2>1, <1>3 DEF SlotOK
  <2>3. \A s \in 1..Len(ios'[t]) : SlotOK(table', t, ios'[t], fixed_fds'[t], s)
    <3>1. \A s \in 1..Len(ios'[t]) : s \in 1..Len(ios[t]) \/ s = Slot(t)
      <4>1. \A n \in Nat : \A s \in 1..(n + 1) : s \in 1..n \/ s = n + 1
        OBVIOUS
      <4>2. Len(ios[t]) \in Nat /\ Len(ios'[t]) = Len(ios[t]) + 1 /\ Slot(t) = Len(ios[t]) + 1
        BY <1>0, <1>3
      <4>. QED
        BY <4>1, <4>2
    <3>. QED
      BY <3>1, <2>1, <2>2
  <2>4. Len(fixed_fds'[t]) = 1 + 3 * Len(ios'[t]) /\ fixed_fds'[t][1] = Backing
    BY <1>0, <1>2, <1>3, <1>4
  <2>5. Half(t)' = 0
    BY <1>5 DEF Half
  <2>. QED
    <3>1. at'[t] # "clone"
      BY <1>5
    <3>2. \A s \in 1..Len(ios'[t]) :
            /\ ios'[t][s] = [pipe0 |-> 3 * s - 2, pipe1 |-> 3 * s - 1, fuse_fd |-> 3 * s]
            /\ table'[fixed_fds'[t][3 * s - 1]] = Object(t, "pipe_out", s)
            /\ table'[fixed_fds'[t][3 * s]]     = Object(t, "pipe_in", s)
            /\ table'[fixed_fds'[t][3 * s + 1]] = Object(t, "session", s)
      BY <2>3 DEF SlotOK
    <3>3. Len(fixed_fds'[t]) = 1 + 3 * Len(ios'[t]) + 0
      BY <1>0, <1>3, <2>4
    <3>. QED
      BY <3>1, <3>2, <3>3, <2>4, <2>5 DEF Wiring
<1>8. Closes(t)'
  <2>0. Object(t, "ring", 0).owner = t
    BY DEF Object
  <2>1. /\ table[ring_fd[t]] = Object(t, "ring", 0)
        /\ OwnedIn(table, t, NonSession) = {ring_fd[t]} \cup Elements(pipe_fds[t])
        /\ \A i, j \in 1..Len(pipe_fds[t]) : pipe_fds[t][i] = pipe_fds[t][j] => i = j
        /\ \A i \in 1..Len(pipe_fds[t]) :
             /\ table[pipe_fds[t][i]].owner = t
             /\ table[pipe_fds[t][i]].kind \in {"pipe_out", "pipe_in"}
    BY <1>4 DEF Closes, Up, Making
  <2>2. table'[ring_fd[t]] = Object(t, "ring", 0)
    BY <1>0, <1>1, <2>0, <2>1
  <2>3. \A i \in 1..Len(pipe_fds[t]) : pipe_fds[t][i] \in Fds
    BY <1>0
  <2>4. \A i \in 1..Len(pipe_fds[t]) :
             /\ table'[pipe_fds[t][i]].owner = t
             /\ table'[pipe_fds[t][i]].kind \in {"pipe_out", "pipe_in"}
    BY <1>1, <2>1, <2>3
  <2>. QED
    BY <1>1, <1>5, <2>1, <2>2, <2>4 DEF Closes
<1>9. Counts(t)'
  <2>1. Half(t)' = 0
    BY <1>5 DEF Half
  <2>2. at'[t] \in Up /\ at'[t] \in Making
    BY <1>5 DEF Up, Making
  <2>. QED
    <3>1. Cardinality(OwnedIn(table', t, NonFree)) = 1 + 3 * Len(ios'[t]) + 0
      BY <1>0, <1>1, <1>3, <1>4
    <3>2. Cardinality(OwnedIn(table', t, {"session"})) = Len(ios'[t])
      BY <1>1, <1>3, <1>4
    <3>. QED
      BY <2>1, <2>2, <3>1, <3>2 DEF Counts
<1>. QED
  BY <1>6, <1>7, <1>8, <1>9 DEF WorkerInv

LEMMA CloneStep ==
  ASSUME WInv, NEW t \in Workers, clone_fuse_fd(t)
  PROVE  WInv'
<1>0. /\ WType /\ main_at \in {"create", "join"} /\ at[t] = "clone"
      /\ UNCHANGED <<Globals, ring_fd, pipe_fds>>
      /\ UNCHANGED <<cmd, mounted, main_at, uring_fd>>
  BY Running DEF WInv, clone_fuse_fd, Globals
<1> DEFINE n    == Len(fixed_fds[t])
           slot == [pipe0 |-> n - 2, pipe1 |-> n - 1, fuse_fd |-> n]
           next == IF Slot(t) = SlotsOf(t) THEN "register" ELSE "pipe"
<1>1. ASSUME NEW fd \in Fds, Opens(fd, Object(t, "session", Slot(t))),
             ios' = [ios EXCEPT ![t] = Append(@, slot)],
             fixed_fds' = [fixed_fds EXCEPT ![t] = Append(@, fd)],
             Goto(t, next)
      PROVE  WInv'
  <2>1. n \in Nat /\ n >= 3
    <3>1. Len(ios[t]) \in Nat /\ n = 1 + 3 * Len(ios[t]) + 2
      BY <1>0 DEF WInv, WType, WorkerInv, Wiring, Making, Half
    <3>. QED
      BY <3>1
  <2>2. slot \in Files
    BY <2>1 DEF Files
  <2> HIDE DEF slot
  <2>3. /\ ios' \in [Workers -> Seq(Files)] /\ ios'[t] = Append(ios[t], slot)
        /\ \A u \in Workers \ {t} : ios'[u] = ios[u]
    BY <1>0, <1>1, <2>2 DEF WType
  <2>4. /\ fixed_fds' \in [Workers -> Seq(Fds)] /\ fixed_fds'[t] = Append(fixed_fds[t], fd)
        /\ \A u \in Workers \ {t} : fixed_fds'[u] = fixed_fds[u]
    BY <1>0, <1>1 DEF WType
  <2>5. next \in Places
    BY DEF Places
  <2> HIDE DEF next
  <2>6. /\ at' \in [Workers -> Places] /\ at'[t] = next
        /\ rc' \in [Workers -> 0..19] /\ thread_rc' \in 0..19
        /\ \A u \in Workers \ {t} : at'[u] = at[u] /\ rc'[u] = rc[u]
    BY <1>0, <1>1, <2>5, GotoTyped
  <2>7. /\ table' \in [Fds -> Objects] /\ table[fd] = Free /\ table'[fd].owner = t
        /\ \A x \in Fds \ {fd} : table'[x] = table[x]
    BY <1>0, <1>1, SessionOpened DEF Object
  <2>8. WType'
    BY <1>0, <2>3, <2>4, <2>6, <2>7, TypeKept DEF WType
  <2>9. LocalStep(t)
    BY <1>0, <2>3, <2>4, <2>6, <2>7 DEF LocalStep
  <2>10. WorkerInv(t)'
    BY <1>0, <1>1, <2>3, <2>4, <2>6, <2>8, SlotDone DEF slot, next
  <2>. QED
    BY <2>8, <2>9, <2>10, LocalKeeps
<1>2. ASSUME NEW fd \in Fds, Opens(fd, Object(t, "session", Slot(t))),
             Return(t, 13), UNCHANGED <<ios, fixed_fds>>
      PROVE  WInv'
  <2>1. /\ table' \in [Fds -> Objects] /\ table[fd] = Free /\ table'[fd].owner = t
        /\ \A x \in Fds \ {fd} : table'[x] = table[x]
    BY <1>0, <1>2, SessionOpened DEF Object
  <2>2. 13 \in 10..15
    OBVIOUS
  <2>. QED
    BY <1>0, <1>2, <2>1, <2>2, GivesUp
<1>3. ASSUME Return(t, 13), UNCHANGED <<table, ios, fixed_fds>>
      PROVE  WInv'
  <2>1. 13 \in 10..15 /\ table' \in [Fds -> Objects]
    BY <1>0, <1>3 DEF WType
  <2>. QED
    BY <1>0, <1>3, <2>1, GivesUp
<1>. QED
  BY <1>1, <1>2, <1>3 DEF clone_fuse_fd

\* A step from one place to the next that changes nothing else of what WInv says.
LEMMA PlaceStep ==
  ASSUME WInv, NEW t \in Workers,
         \/ at[t] = "register" /\ at'[t] = "serve" /\ rc'[t] = rc[t]
         \/ at[t] = "serve" /\ at'[t] = "exit" /\ rc'[t] \in {18, 19},
         cmd' = cmd, UNCHANGED <<table, ring_fd, fixed_fds, pipe_fds, ios>>
  PROVE  WorkerInv(t)'
<1>0. SlotsOf(t)' = SlotsOf(t) /\ WorkerInv(t)
  BY SameCommand DEF WInv
<1>1. NotBegun(t)' /\ SlotCount(t)'
  BY <1>0 DEF WorkerInv, NotBegun, SlotCount, Before
<1>2. Wiring(t)'
  BY <1>0 DEF WorkerInv, Wiring, Making, Half, Slot
<1>3. Closes(t)'
  BY <1>0 DEF WorkerInv, Closes, Up, Making
<1>4. Counts(t)'
  BY <1>0 DEF WorkerInv, Counts, Up, Making, Half
<1>. QED
  BY <1>1, <1>2, <1>3, <1>4 DEF WorkerInv

LEMMA RegisterStep ==
  ASSUME WInv, NEW t \in Workers, register(t)
  PROVE  WInv'
<1>0. /\ WType /\ main_at \in {"create", "join"} /\ at[t] = "register"
      /\ UNCHANGED <<Globals, table, ring_fd, fixed_fds, pipe_fds, ios>>
      /\ UNCHANGED <<cmd, mounted, main_at, uring_fd>>
      /\ table' \in [Fds -> Objects]
  BY Running DEF WInv, WType, register, Globals
<1>1. CASE Goto(t, "serve")
  <2>1. /\ at' \in [Workers -> Places] /\ at'[t] = "serve" /\ rc'[t] = rc[t]
        /\ rc' \in [Workers -> 0..19] /\ thread_rc' \in 0..19
        /\ \A u \in Workers \ {t} : at'[u] = at[u] /\ rc'[u] = rc[u]
    BY <1>0, <1>1, "serve" \in Places, GotoTyped DEF Places
  <2>2. WType'
    BY <1>0, <2>1, TypeKept DEF WType
  <2>3. LocalStep(t)
    BY <1>0, <2>1 DEF LocalStep
  <2>4. WorkerInv(t)'
    BY <1>0, <2>1, PlaceStep
  <2>. QED
    BY <2>2, <2>3, <2>4, LocalKeeps
<1>2. ASSUME NEW r \in {13, 14, 15}, Return(t, r) PROVE WInv'
  <2>1. r \in 10..15
    OBVIOUS
  <2>. QED
    BY <1>0, <1>2, <2>1, GivesUp
<1>. QED
  BY <1>1, <1>2 DEF register

LEMMA RunReturnsStep ==
  ASSUME WInv, NEW t \in Workers, run_returns(t)
  PROVE  WInv'
<1>0. /\ WType /\ main_at \in {"create", "join"} /\ at[t] = "serve"
      /\ UNCHANGED <<cmd, mounted, main_at, uring_fd>>
      /\ UNCHANGED <<thread_rc, table, ring_fd, fixed_fds, pipe_fds, ios>>
      /\ table' \in [Fds -> Objects] /\ at' = [at EXCEPT ![t] = "exit"]
  BY Running DEF WInv, WType, run_returns, Globals
<1>1. PICK r \in {18, 19} : rc' = [rc EXCEPT ![t] = r]
  BY DEF run_returns
<1>2. /\ at' \in [Workers -> Places] /\ at'[t] = "exit" /\ rc'[t] \in {18, 19}
      /\ rc' \in [Workers -> 0..19]
      /\ \A u \in Workers \ {t} : at'[u] = at[u] /\ rc'[u] = rc[u]
  BY <1>0, <1>1 DEF WType, Places
<1>3. WType'
  BY <1>0, <1>2, TypeKept DEF WType
<1>4. LocalStep(t)
  BY <1>0, <1>2 DEF LocalStep
<1>5. WorkerInv(t)'
  BY <1>0, <1>2, PlaceStep
<1>. QED
  BY <1>3, <1>4, <1>5, LocalKeeps

\* A descriptor of worker t, not a session, is closed: what that does to the table.
Lost(t, fd) ==
  /\ OwnedIn(table', t, NonSession) = OwnedIn(table, t, NonSession) \ {fd}
  /\ OwnedIn(table', t, {"session"}) = OwnedIn(table, t, {"session"})

LEMMA FdClosed ==
  ASSUME WType, NEW t \in Workers, NEW fd \in Fds, table[fd].owner = t,
         table[fd].kind # "session", table' = [table EXCEPT ![fd] = Free]
  PROVE  /\ table' \in [Fds -> Objects] /\ table'[fd] = Free
         /\ \A x \in Fds \ {fd} : table'[x] = table[x]
         /\ Lost(t, fd)
<1>0. MAIN \notin Workers /\ table \in [Fds -> Objects]
  BY WorkerFacts DEF WType
<1>1. /\ table' \in [Fds -> Objects] /\ table'[fd] = Free
      /\ \A x \in Fds \ {fd} : table'[x] = table[x]
  BY <1>0, FreeFacts
<1>2. table'[fd].owner # t
  BY <1>0, <1>1, FreeFacts
<1>3. OwnedIn(table', t, NonSession) = OwnedIn(table, t, NonSession) \ {fd}
  BY <1>1, <1>2 DEF OwnedIn
<1>4. OwnedIn(table', t, {"session"}) = OwnedIn(table, t, {"session"})
  BY <1>1, <1>2 DEF OwnedIn
<1>. QED
  BY <1>1, <1>3, <1>4 DEF Lost

LEMMA QueueExitStep ==
  ASSUME WInv, NEW t \in Workers, queue_exit(t)
  PROVE  WInv'
<1>0. /\ WType /\ main_at \in {"create", "join"} /\ at[t] = "exit"
      /\ UNCHANGED <<cmd, mounted, main_at, uring_fd>>
      /\ UNCHANGED <<ring_fd, fixed_fds, pipe_fds, ios>>
      /\ table' = [table EXCEPT ![ring_fd[t]] = Free] /\ Goto(t, "close")
      /\ SlotsOf(t)' = SlotsOf(t) /\ ring_fd[t] \in Fds /\ pipe_fds[t] \in Seq(Fds)
  <2>1. /\ WType /\ main_at \in {"create", "join"} /\ at[t] = "exit"
        /\ UNCHANGED <<cmd, mounted, main_at, uring_fd>>
        /\ UNCHANGED <<ring_fd, fixed_fds, pipe_fds, ios>>
        /\ table' = [table EXCEPT ![ring_fd[t]] = Free] /\ Goto(t, "close")
    BY Running DEF WInv, queue_exit, Globals
  <2>. QED
    BY <2>1, SameCommand DEF WType
<1>1. /\ SlotCount(t) /\ Closes(t) /\ Counts(t) /\ rc[t] \in {18, 19}
      /\ table[ring_fd[t]] = Object(t, "ring", 0)
      /\ OwnedIn(table, t, NonSession) = {ring_fd[t]} \cup Elements(pipe_fds[t])
      /\ \A i, j \in 1..Len(pipe_fds[t]) : pipe_fds[t][i] = pipe_fds[t][j] => i = j
      /\ \A i \in 1..Len(pipe_fds[t]) :
            /\ table[pipe_fds[t][i]].owner = t
            /\ table[pipe_fds[t][i]].kind \in {"pipe_out", "pipe_in"}
  BY <1>0 DEF WInv, WorkerInv, Closes, Up
<1>2. table[ring_fd[t]].owner = t /\ table[ring_fd[t]].kind = "ring"
  BY <1>1 DEF Object
<1>3. /\ table' \in [Fds -> Objects] /\ table'[ring_fd[t]] = Free
      /\ \A x \in Fds \ {ring_fd[t]} : table'[x] = table[x]
      /\ OwnedIn(table', t, NonSession) = OwnedIn(table, t, NonSession) \ {ring_fd[t]}
      /\ OwnedIn(table', t, {"session"}) = OwnedIn(table, t, {"session"})
  <2>1. /\ table' \in [Fds -> Objects] /\ table'[ring_fd[t]] = Free
        /\ \A x \in Fds \ {ring_fd[t]} : table'[x] = table[x]
        /\ Lost(t, ring_fd[t])
    BY <1>0, <1>2, FdClosed
  <2>. QED
    BY <2>1 DEF Lost
<1>4. /\ at' \in [Workers -> Places] /\ at'[t] = "close" /\ rc'[t] = rc[t]
      /\ rc' \in [Workers -> 0..19] /\ thread_rc' \in 0..19
      /\ \A u \in Workers \ {t} : at'[u] = at[u] /\ rc'[u] = rc[u]
  BY <1>0, "close" \in Places, GotoTyped DEF Places
<1>5. WType'
  BY <1>0, <1>3, <1>4, TypeKept DEF WType
<1>6. LocalStep(t)
  BY <1>0, <1>2, <1>3, <1>4, FreeFacts DEF LocalStep
<1>7. WorkerInv(t)'
  <2>1. \A i \in 1..Len(pipe_fds[t]) :
          /\ pipe_fds[t][i] \in Fds /\ pipe_fds[t][i] # ring_fd[t]
          /\ table'[pipe_fds[t][i]].owner = t
          /\ table'[pipe_fds[t][i]].kind \in {"pipe_out", "pipe_in"}
    <3>1. \A i \in 1..Len(pipe_fds[t]) : pipe_fds[t][i] \in Fds
      BY <1>0
    <3>2. \A i \in 1..Len(pipe_fds[t]) : pipe_fds[t][i] # ring_fd[t]
      BY <1>1, <1>2
    <3>. QED
      BY <3>1, <3>2, <1>1, <1>3
  <2>2. OwnedIn(table', t, NonSession) = Elements(pipe_fds[t])
    <3>1. ring_fd[t] \notin Elements(pipe_fds[t])
      BY <2>1 DEF Elements
    <3>. QED
      BY <3>1, <1>1, <1>3
  <2>3. NotBegun(t)' /\ SlotCount(t)' /\ Wiring(t)'
    BY <1>0, <1>1, <1>4 DEF NotBegun, SlotCount, Wiring, Before, Making
  <2>4. Closes(t)'
    BY <1>0, <1>1, <1>4, <2>1, <2>2 DEF Closes, Up, Making
  <2>5. Counts(t)'
    BY <1>0, <1>1, <1>3, <1>4 DEF Counts, Up, Making
  <2>. QED
    BY <2>3, <2>4, <2>5 DEF WorkerInv
<1>. QED
  BY <1>5, <1>6, <1>7, LocalKeeps

\* The head of a sequence of distinct elements, and the rest.
LEMMA HeadAndTail ==
  ASSUME NEW S, NEW seq \in Seq(S), seq # <<>>,
         \A i, j \in 1..Len(seq) : seq[i] = seq[j] => i = j
  PROVE  /\ Tail(seq) \in Seq(S) /\ Head(seq) = seq[1] /\ Head(seq) \in S /\ 1 \in 1..Len(seq)
         /\ \A i \in 1..Len(Tail(seq)) : /\ i + 1 \in 1..Len(seq) /\ Tail(seq)[i] = seq[i + 1]
                                         /\ Tail(seq)[i] # Head(seq) /\ Tail(seq)[i] \in S
         /\ \A i, j \in 1..Len(Tail(seq)) : Tail(seq)[i] = Tail(seq)[j] => i = j
         /\ Elements(Tail(seq)) = Elements(seq) \ {Head(seq)}
<1>1. /\ Len(seq) \in Nat /\ Len(seq) >= 1 /\ Head(seq) = seq[1] /\ Tail(seq) \in Seq(S)
      /\ Len(Tail(seq)) = Len(seq) - 1
      /\ \A i \in 1..Len(Tail(seq)) : Tail(seq)[i] = seq[i + 1]
      /\ \A i \in 1..Len(seq) : seq[i] \in S
  OBVIOUS
<1> DEFINE tail == Tail(seq)
<1> HIDE DEF tail
<1>a. /\ Len(tail) = Len(seq) - 1 /\ \A i \in 1..Len(tail) : tail[i] = seq[i + 1]
  BY <1>1 DEF tail
<1>2. \A i \in 1..Len(tail) : i + 1 \in 1..Len(seq) /\ i + 1 # 1
  BY <1>1, <1>a
<1>3. \A i \in 1..Len(tail) : tail[i] # seq[1] /\ tail[i] \in S
  BY <1>1, <1>a, <1>2
<1>4. ASSUME NEW i \in 1..Len(tail), NEW j \in 1..Len(tail), tail[i] = tail[j] PROVE i = j
  <2>1. i + 1 = j + 1
    BY <1>a, <1>2, <1>4
  <2>. QED
    BY <2>1
<1>5. ASSUME NEW k \in 1..Len(seq), k # 1 PROVE \E i \in 1..Len(tail) : seq[k] = tail[i]
  <2>1. k - 1 \in 1..Len(tail) /\ (k - 1) + 1 = k
    BY <1>1, <1>a, <1>5
  <2>. QED
    BY <2>1, <1>a
<1>6. Elements(tail) = Elements(seq) \ {seq[1]}
  <2>1. ASSUME NEW x \in Elements(tail) PROVE x \in Elements(seq) \ {seq[1]}
    <3>1. PICK i \in 1..Len(tail) : x = tail[i]
      BY DEF Elements
    <3>. QED
      BY <3>1, <1>a, <1>2, <1>3 DEF Elements
  <2>2. ASSUME NEW x \in Elements(seq) \ {seq[1]} PROVE x \in Elements(tail)
    <3>1. PICK k \in 1..Len(seq) : x = seq[k]
      BY DEF Elements
    <3>. QED
      BY <3>1, <1>5 DEF Elements
  <2>. QED
    BY <2>1, <2>2
<1>7. 1 \in 1..Len(seq)
  BY <1>1
<1>. QED
  BY <1>1, <1>a, <1>2, <1>3, <1>4, <1>6, <1>7 DEF tail

LEMMA ClosePipesStep ==
  ASSUME WInv, NEW t \in Workers, close_pipes(t)
  PROVE  WInv'
<1>0. /\ WType /\ main_at \in {"create", "join"} /\ at[t] = "close"
      /\ UNCHANGED <<cmd, mounted, main_at, uring_fd>>
      /\ UNCHANGED <<ring_fd, fixed_fds, ios>> /\ table \in [Fds -> Objects]
      /\ SlotsOf(t)' = SlotsOf(t) /\ pipe_fds[t] \in Seq(Fds)
  <2>1. /\ WType /\ main_at \in {"create", "join"} /\ at[t] = "close"
        /\ UNCHANGED <<cmd, mounted, main_at, uring_fd>>
        /\ UNCHANGED <<ring_fd, fixed_fds, ios>>
    BY Running DEF WInv, close_pipes, Globals
  <2>. QED
    BY <2>1, SameCommand DEF WType
<1>1. /\ SlotCount(t) /\ Closes(t) /\ Counts(t) /\ rc[t] \in {18, 19}
      /\ OwnedIn(table, t, NonSession) = Elements(pipe_fds[t])
      /\ Cardinality(OwnedIn(table, t, {"session"})) = Len(ios[t])
      /\ \A i, j \in 1..Len(pipe_fds[t]) : pipe_fds[t][i] = pipe_fds[t][j] => i = j
      /\ \A i \in 1..Len(pipe_fds[t]) :
            /\ table[pipe_fds[t][i]].owner = t
            /\ table[pipe_fds[t][i]].kind \in {"pipe_out", "pipe_in"}
  BY <1>0 DEF WInv, WorkerInv, Closes, Counts
<1>2. CASE /\ pipe_fds[t] # <<>>
           /\ table' = [table EXCEPT ![Head(pipe_fds[t])] = Free]
           /\ pipe_fds' = [pipe_fds EXCEPT ![t] = Tail(@)]
           /\ UNCHANGED <<at, rc, thread_rc>>
  <2> DEFINE fd == Head(pipe_fds[t])
             tail == Tail(pipe_fds[t])
  <2>1. /\ tail \in Seq(Fds) /\ fd = pipe_fds[t][1] /\ fd \in Fds /\ 1 \in 1..Len(pipe_fds[t])
        /\ \A i \in 1..Len(tail) : /\ i + 1 \in 1..Len(pipe_fds[t]) /\ tail[i] = pipe_fds[t][i + 1]
                                   /\ tail[i] # fd /\ tail[i] \in Fds
        /\ \A i, j \in 1..Len(tail) : tail[i] = tail[j] => i = j
    BY <1>0, <1>1, <1>2, HeadAndTail
  <2>a. Elements(tail) = Elements(pipe_fds[t]) \ {fd}
    BY <1>0, <1>1, <1>2, HeadAndTail
  <2>b. table' = [table EXCEPT ![fd] = Free] /\ pipe_fds' = [pipe_fds EXCEPT ![t] = tail]
    BY <1>2
  <2> HIDE DEF fd, tail
  <2>2. table[fd].owner = t /\ table[fd].kind \in {"pipe_out", "pipe_in"}
    BY <1>1, <2>1
  <2>3. /\ table' \in [Fds -> Objects] /\ table'[fd] = Free
        /\ \A x \in Fds \ {fd} : table'[x] = table[x]
        /\ OwnedIn(table', t, NonSession) = OwnedIn(table, t, NonSession) \ {fd}
        /\ OwnedIn(table', t, {"session"}) = OwnedIn(table, t, {"session"})
    <3>1. /\ WType /\ fd \in Fds /\ table[fd].owner = t /\ table[fd].kind # "session"
          /\ table' = [table EXCEPT ![fd] = Free]
      BY <1>0, <2>1, <2>2, <2>b
    <3>2. /\ table' \in [Fds -> Objects] /\ table'[fd] = Free
          /\ \A x \in Fds \ {fd} : table'[x] = table[x]
          /\ Lost(t, fd)
      BY <3>1, FdClosed
    <3>. QED
      BY <3>2 DEF Lost
  <2>4. /\ pipe_fds' \in [Workers -> Seq(Fds)] /\ pipe_fds'[t] = tail
        /\ \A u \in Workers \ {t} : pipe_fds'[u] = pipe_fds[u]
    BY <1>0, <2>1, <2>b DEF WType
  <2>5. WType'
    BY <1>0, <1>2, <2>3, <2>4, TypeKept DEF WType
  <2>6. LocalStep(t)
    BY <1>0, <1>2, <2>2, <2>3, <2>4, FreeFacts DEF LocalStep
  <2>7. WorkerInv(t)'
    <3>1. \A i \in 1..Len(tail) : /\ table'[tail[i]].owner = t
                                  /\ table'[tail[i]].kind \in {"pipe_out", "pipe_in"}
      BY <1>1, <2>1, <2>3
    <3>2. OwnedIn(table', t, NonSession) = Elements(tail)
      BY <1>1, <2>a, <2>3
    <3>3. NotBegun(t)' /\ SlotCount(t)' /\ Wiring(t)'
      BY <1>0, <1>1, <1>2 DEF NotBegun, SlotCount, Wiring, Before, Making
    <3>4. Closes(t)'
      <4>1. at'[t] = "close" /\ rc'[t] \in {18, 19}
        BY <1>0, <1>1, <1>2
      <4>. QED
        BY <4>1, <2>1, <2>4, <3>1, <3>2 DEF Closes, Up, Making
    <3>5. Counts(t)'
      BY <1>0, <1>1, <1>2, <2>3 DEF Counts, Up, Making
    <3>. QED
      BY <3>3, <3>4, <3>5 DEF WorkerInv
  <2>. QED
    BY <2>5, <2>6, <2>7, LocalKeeps
<1>3. CASE /\ pipe_fds[t] = <<>>
           /\ Return(t, rc[t])
           /\ UNCHANGED <<table, pipe_fds>>
  <2>1. /\ at' \in [Workers -> Places] /\ at'[t] = "returned"
        /\ rc' \in [Workers -> 0..19] /\ rc'[t] = rc[t] /\ thread_rc' \in 0..19
        /\ \A u \in Workers \ {t} : at'[u] = at[u] /\ rc'[u] = rc[u]
    <3>1. rc[t] \in 0..19
      BY <1>0 DEF WType
    <3>. QED
      BY <1>0, <1>3, <3>1, ReturnTyped
  <2>2. WType'
    BY <1>0, <1>3, <2>1, TypeKept DEF WType
  <2>3. LocalStep(t)
    BY <1>0, <1>3, <2>1 DEF LocalStep
  <2>4. WorkerInv(t)'
    <3>1. OwnedIn(table', t, NonSession) = {}
      BY <1>1, <1>3 DEF Elements
    <3>2. NotBegun(t)' /\ SlotCount(t)' /\ Wiring(t)'
      BY <1>0, <1>1, <2>1 DEF NotBegun, SlotCount, Wiring, Before, Making
    <3>3. Closes(t)'
      BY <2>1, <3>1 DEF Closes, Up, Making
    <3>4. Counts(t)'
      BY <1>0, <1>1, <1>3, <2>1 DEF Counts, Up, Making
    <3>. QED
      BY <3>2, <3>3, <3>4 DEF WorkerInv
  <2>. QED
    BY <2>2, <2>3, <2>4, LocalKeeps
<1>. QED
  BY <1>2, <1>3 DEF close_pipes

-----------------------------------------------------------------------------
(* The steps of fuseuring_main, and the invariant.                         *)

LEMMA InitInv == Init => WInv
<1>. SUFFICES ASSUME Init PROVE WInv
  OBVIOUS
<1>0. /\ Workers \subseteq Nat /\ MAIN \notin Workers /\ cmd \in Commands
      /\ \A t \in Workers : SlotsOf(t) \in Nat \ {0}
  BY WorkerFacts DEF Init
<1>1. \A fd \in Fds : table[fd] \in Objects /\ table[fd].owner = MAIN
  BY DEF Init, Object, Objects, Free, Kinds
<1>2. WType
  <2>1. table \in [Fds -> Objects]
    BY <1>1 DEF Init
  <2>2. 0 \in Fds
    BY FdFacts, WorkersAssumption DEF Fds
  <2>. QED
    BY <2>1, <2>2 DEF Init, WType, Places
<1>3. MainInv
  <2>1. table[Backing] = Object(MAIN, "backing", 0)
    <3>1. Backing \in Fds /\ Backing \notin 0..2 /\ Backing # FuseFd
      BY FdFacts DEF Backing, FuseFd
    <3>. QED
      BY <3>1 DEF Init
  <2>. QED
    BY <2>1 DEF Init, MainInv
<1>4. ASSUME NEW t \in Workers PROVE WorkerInv(t)
  <2>1. at[t] = "none" /\ ios[t] = <<>> /\ pipe_fds[t] = <<>> /\ ~GivenRing(t)
    BY DEF Init, GivenRing
  <2>2. OwnedIn(table, t, NonFree) = {}
    BY <1>0, <1>1 DEF OwnedIn
  <2>3. NotBegun(t)
    BY <2>1, <2>2 DEF NotBegun
  <2>4. SlotCount(t)
    BY <1>0, <2>1 DEF SlotCount
  <2>. QED
    BY <2>1, <2>3, <2>4 DEF WorkerInv, Wiring, Closes, Counts, Up, Making
<1>. QED
  BY <1>2, <1>3, <1>4 DEF WInv

\* A worker is called or started: it goes on with what it had.
LEMMA Started ==
  ASSUME WInv, NEW t \in Workers, at[t] = "none", at' = [at EXCEPT ![t] = "ring"],
         UNCHANGED <<cmd, mounted, thread_rc, uring_fd, table, localVars>>,
         \A u \in Workers : GivenRing(u)' <=> GivenRing(u),
         main_at # "returned", main_at' \in {"create", "join"}, main_at' = "create" => ~Single
  PROVE  WInv'
<1>0. /\ WType /\ UNCHANGED <<rc, ring_fd, fixed_fds, pipe_fds, ios>>
      /\ Workers' = Workers /\ Objects' = Objects /\ Single' = Single /\ SlotsOf(t)' = SlotsOf(t)
  BY SameCommand DEF WInv, localVars
<1>1. at' \in [Workers -> Places] /\ at'[t] = "ring" /\ \A u \in Workers \ {t} : at'[u] = at[u]
  BY <1>0 DEF WType, Places
<1>2. WType'
  BY <1>0, <1>1 DEF WType
<1>3. MainInv'
  BY <1>0 DEF WInv, MainInv
<1>4. WorkerInv(t)'
  <2>1. NotBegun(t) /\ SlotCount(t)
    BY DEF WInv, WorkerInv
  <2>2. NotBegun(t)'
    BY <1>0, <1>1, <2>1 DEF NotBegun, Before
  <2>3. SlotCount(t)'
    BY <1>0, <1>1, <2>1 DEF SlotCount
  <2>. QED
    BY <1>1, <2>2, <2>3 DEF WorkerInv, Wiring, Closes, Counts, Up, Making
<1>5. ASSUME NEW u \in Workers, u # t PROVE WorkerInv(u)'
  <2>1. Untouched(u)
    BY <1>0, <1>1, <1>5 DEF Untouched
  <2>. QED
    BY <1>0, <2>1, Frame DEF WInv
<1>. QED
  BY <1>0, <1>2, <1>3, <1>4, <1>5 DEF WInv

\* fuseuring_main or main closes the backing file, when no worker runs.
LEMMA BackingClosed ==
  ASSUME WInv, UNCHANGED <<cmd, mounted, uring_fd, at, localVars>>,
         table' = [table EXCEPT ![Backing] = Free], main_at # "returned",
         main_at' = "returned", thread_rc' \in 0..19,
         main_at = "start" \/ \A t \in Workers : at[t] = "returned"
  PROVE  WInv'
<1>0. /\ WType /\ UNCHANGED <<rc, ring_fd, fixed_fds, pipe_fds, ios>>
      /\ Workers' = Workers /\ Objects' = Objects /\ MAIN \notin Workers
  BY SameCommand, WorkerFacts DEF WInv, WType, localVars
<1>1. table[Backing] = Object(MAIN, "backing", 0) /\ Backing \in Fds
  BY FdFacts DEF WInv, MainInv
<1>2. table' \in [Fds -> Objects]
  BY <1>0, <1>1, FreeFacts DEF WType
<1>3. WType'
  BY <1>0, <1>2 DEF WType
<1>4. MainInv'
  BY <1>0 DEF WInv, MainInv
<1>5. ASSUME NEW u \in Workers PROVE WorkerInv(u)'
  <2>1. \A fd \in Fds : table[fd].owner = u \/ table'[fd].owner = u => table'[fd] = table[fd]
    BY <1>0, <1>1, FreeFacts DEF WType, Object
  <2>2. Untouched(u)
    BY <1>0, <2>1 DEF Untouched
  <2>3. at[u] \in Before => (GivenRing(u)' <=> GivenRing(u))
    BY DEF Before, GivenRing
  <2>. QED
    BY <1>0, <2>2, <2>3, Frame DEF WInv
<1>. QED
  BY <1>0, <1>3, <1>4, <1>5 DEF WInv

\* The ring that the workers will share.
LEMMA QueueInitStep ==
  ASSUME WInv, queue_init
  PROVE  WInv'
<1>0. /\ WType /\ main_at = "start" /\ ~Single /\ UNCHANGED <<cmd, mounted, at, localVars>>
      /\ UNCHANGED <<rc, ring_fd, fixed_fds, pipe_fds, ios>>
      /\ Workers' = Workers /\ Objects' = Objects /\ Single' = Single
      /\ MAIN \notin Workers /\ 0 \in Workers
  BY SameCommand, WorkerFacts DEF WInv, WType, queue_init, localVars
<1>1. ASSUME NEW fd \in Fds, Opens(fd, Object(0, "ring", 0)), uring_fd' = fd,
             main_at' = "create", thread_rc' = thread_rc
      PROVE  WInv'
  <2>0. /\ \A t \in Workers : at[t] = "none" /\ WorkerInv(t)
        /\ table[Backing] = Object(MAIN, "backing", 0) /\ Backing \in Fds
    BY <1>0, FdFacts DEF WInv, MainInv
  <2> DEFINE obj == Object(0, "ring", 0)
  <2>1. obj \in Objects /\ obj.owner = 0 /\ obj.kind = "ring"
    BY <1>0, ObjectTyped DEF Kinds
  <2>2. table[fd] = Free /\ table' = [table EXCEPT ![fd] = obj]
    BY <1>1 DEF Opens, Lowest, FreeFds
  <2> HIDE DEF obj
  <2>3. /\ table' \in [Fds -> Objects] /\ table'[fd] = obj
        /\ \A x \in Fds \ {fd} : table'[x] = table[x]
    BY <1>0, <2>1, <2>2 DEF WType
  <2>4. WType'
    BY <1>0, <1>1, <2>3 DEF WType
  <2>5. MainInv'
    <3>1. Backing # fd
      BY <2>0, <2>2 DEF Object, Free
    <3>. QED
      BY <1>0, <1>1, <2>0, <2>3, <3>1 DEF MainInv
  <2>6. WorkerInv(0)'
    <3>1. NotBegun(0) /\ SlotCount(0) /\ at[0] = "none" /\ ~GivenRing(0)
      BY <1>0, <2>0 DEF WorkerInv, GivenRing
    <3>2. OwnedIn(table, 0, NonFree) = {}
      BY <3>1 DEF NotBegun, Before
    <3>3. Opened(table, table', fd, 0) /\ table'[fd].kind \in NonFree
      BY <1>0, <2>1, <2>2, <2>3, FreeFacts DEF Opened, NonFree, Kinds
    <3>4. Gained(table, table', fd, 0, NonFree)
      BY <3>3, OpenedOne
    <3>5. OwnedIn(table', 0, NonFree) = {fd}
      BY <3>2, <3>4 DEF Gained
    <3>6. NotBegun(0)'
      <4>1. ios'[0] = <<>> /\ pipe_fds'[0] = <<>>
        BY <1>0, <3>1 DEF NotBegun, Before
      <4>2. GivenRing(0)'
        BY <1>0, <1>1 DEF GivenRing
      <4>3. table'[uring_fd'] = Object(0, "ring", 0) /\ uring_fd' = fd
        BY <1>1, <2>3 DEF obj
      <4>. QED
        BY <3>5, <4>1, <4>2, <4>3 DEF NotBegun
    <3>7. SlotCount(0)'
      BY <1>0, <3>1, SameCommand DEF SlotCount
    <3>. QED
      BY <1>0, <3>1, <3>6, <3>7 DEF WorkerInv, Wiring, Closes, Counts, Up, Making
  <2>7. ASSUME NEW u \in Workers, u # 0 PROVE WorkerInv(u)'
    <3>0. WorkerInv(u) /\ u # MAIN
      BY <1>0, <2>0, <2>7
    <3>1. \A x \in Fds : table[x].owner = u \/ table'[x].owner = u => table'[x] = table[x]
      BY <2>1, <2>2, <2>3, <2>7, <3>0, FreeFacts
    <3>2. Untouched(u)
      BY <1>0, <3>1 DEF Untouched
    <3>. QED
      <4>1. ~GivenRing(u) /\ ~GivenRing(u)'
        BY <1>0, <2>7 DEF GivenRing
      <4>. QED
        BY <1>0, <3>0, <3>2, <4>1, Frame
  <2>. QED
    BY <1>0, <2>4, <2>5, <2>6, <2>7 DEF WInv
<1>2. ASSUME main_at' = "returned", thread_rc' = 10,
             table' = [table EXCEPT ![Backing] = Free], UNCHANGED uring_fd
      PROVE  WInv'
  BY <1>0, <1>2, BackingClosed
<1>. QED
  BY <1>1, <1>2 DEF queue_init

LEMMA StepInv == WInv /\ [Next]_vars => WInv'
<1>. SUFFICES ASSUME WInv, [Next]_vars PROVE WInv'
  OBVIOUS
<1>0. WType /\ 0 \in Workers
  BY WorkerFacts DEF WInv, WType
<1>1. CASE call_run
  <2>1. at[0] = "none" /\ Single
    BY <1>0, <1>1 DEF WInv, MainInv, call_run
  <2>2. \A u \in Workers : GivenRing(u)' <=> GivenRing(u)
    BY <1>1, <2>1 DEF call_run, GivenRing, Single
  <2>. QED
    BY <1>0, <1>1, <2>1, <2>2, Started DEF call_run
<1>2. CASE queue_init
  BY <1>2, QueueInitStep
<1>3. ASSUME NEW t \in Workers, create(t) PROVE WInv'
  <2>1. ~Single /\ at[t] = "none" /\ main_at = "create"
    BY <1>3 DEF WInv, MainInv, create
  <2>2. \A u \in Workers : GivenRing(u)' <=> GivenRing(u)
    BY <1>3, <2>1 DEF create, GivenRing, Single
  <2>. QED
    BY <1>3, <2>1, <2>2, Started DEF create
<1>4. CASE join
  <2>1. thread_rc' \in 0..19
    BY <1>0, <1>4 DEF WType, join
  <2>. QED
    BY <1>4, <2>1, BackingClosed DEF join
<1>5. ASSUME NEW t \in Workers, Setup(t) \/ run_returns(t) \/ Teardown(t) PROVE WInv'
  BY <1>5, SetupRingStep, CreatePipeStep, CloneStep, RegisterStep, RunReturnsStep,
     QueueExitStep, ClosePipesStep DEF Setup, Teardown
<1>6. CASE Unmount \/ UNCHANGED vars
  <2>1. /\ UNCHANGED <<cmd, main_at, thread_rc, uring_fd, table, at>>
        /\ UNCHANGED <<rc, ring_fd, fixed_fds, pipe_fds, ios>>
        /\ mounted' \in BOOLEAN
    BY <1>0, <1>6 DEF Unmount, vars, localVars, WType
  <2>2. Workers' = Workers /\ Objects' = Objects /\ Single' = Single
    BY <2>1, SameCommand
  <2>3. WType' /\ MainInv'
    BY <2>1, <2>2 DEF WInv, WType, MainInv
  <2>4. ASSUME NEW u \in Workers PROVE WorkerInv(u)'
    <3>1. Untouched(u)
      BY <2>1 DEF Untouched
    <3>2. GivenRing(u)' <=> GivenRing(u)
      BY <2>1, <2>2 DEF GivenRing
    <3>. QED
      BY <2>1, <3>1, <3>2, Frame DEF WInv
  <2>. QED
    BY <2>2, <2>3, <2>4 DEF WInv
<1>. QED
  BY <1>1, <1>2, <1>3, <1>4, <1>5, <1>6 DEF Next, Main, Returned

\* What has been opened, and for whom, is known in every reachable state: the actions of
\* fuseuring_main and fuseuring_run keep WInv.
THEOREM WorkersInvariance == Spec => []WInv
<1>1. Init => WInv
  BY InitInv
<1>2. WInv /\ [Next]_vars => WInv'
  BY StepInv
<1>. QED
  BY <1>1, <1>2, PTL DEF Spec

\* The variables of fuseuring_main and of fuseuring_run keep their types.
THEOREM WorkersTypes == Spec => []TypeOK
<1>1. WInv => TypeOK
  BY DEF WInv, WType, TypeOK, WorkerInv, SlotCount, Objects
<1>. QED
  BY <1>1, WorkersInvariance, PTL

\* A worker that serves has registered the backing file first, and each of its slots names
\* its own pipe and its own session among the registered files, for every number of slots.
THEOREM SlotsWired == Spec => []SlotWiring
<1>1. WInv => SlotWiring
  <2>. SUFFICES ASSUME WInv, NEW t \in Workers, at[t] = "serve"
                PROVE  /\ Registered(t, 0).kind = "backing"
                       /\ Len(ios[t]) = SlotsOf(t)
                       /\ \A s \in 1..Len(ios[t]) :
                            /\ Registered(t, ios[t][s].pipe0)   = Object(t, "pipe_out", s)
                            /\ Registered(t, ios[t][s].pipe1)   = Object(t, "pipe_in", s)
                            /\ Registered(t, ios[t][s].fuse_fd) = Object(t, "session", s)
    BY DEF SlotWiring
  <2>1. main_at \in {"create", "join"} /\ SlotCount(t) /\ Wiring(t)
    BY Running DEF WInv, WorkerInv
  <2>2. table[Backing].kind = "backing"
    BY <2>1 DEF WInv, MainInv, Object
  <2>3. fixed_fds[t][1] = Backing /\ Len(ios[t]) = SlotsOf(t)
    BY <2>1 DEF Wiring, SlotCount, Making
  <2>4. ASSUME NEW s \in 1..Len(ios[t])
        PROVE  /\ Registered(t, ios[t][s].pipe0)   = Object(t, "pipe_out", s)
               /\ Registered(t, ios[t][s].pipe1)   = Object(t, "pipe_in", s)
               /\ Registered(t, ios[t][s].fuse_fd) = Object(t, "session", s)
    <3>1. /\ ios[t][s] = [pipe0 |-> 3 * s - 2, pipe1 |-> 3 * s - 1, fuse_fd |-> 3 * s]
          /\ table[fixed_fds[t][3 * s - 1]] = Object(t, "pipe_out", s)
          /\ table[fixed_fds[t][3 * s]]     = Object(t, "pipe_in", s)
          /\ table[fixed_fds[t][3 * s + 1]] = Object(t, "session", s)
      BY <2>1 DEF Wiring, Making
    <3>2. /\ ios[t][s].pipe0 + 1 = 3 * s - 1 /\ ios[t][s].pipe1 + 1 = 3 * s
          /\ ios[t][s].fuse_fd + 1 = 3 * s + 1
      BY <3>1
    <3>. QED
      BY <3>1, <3>2 DEF Registered
  <2>5. Registered(t, 0).kind = "backing"
    BY <2>2, <2>3 DEF Registered
  <2>. QED
    BY <2>3, <2>4, <2>5
<1>. QED
  BY <1>1, WorkersInvariance, PTL

\* A worker that serves has its ring and three descriptors of each slot, and one that has
\* served has left its sessions open and nothing else, whatever the threads besides it
\* open and close.
THEOREM NothingElseClosed == Spec => []DescriptorsKept
<1>1. WInv => DescriptorsKept
  <2>. SUFFICES ASSUME WInv, NEW t \in Workers
                PROVE  /\ at[t] = "serve" =>
                            Cardinality(Owned(t, Kinds \ {"free"})) = 3 * Len(ios[t]) + 1
                       /\ at[t] = "returned" /\ rc[t] >= 18 =>
                            /\ Owned(t, Kinds \ {"free", "session"}) = {}
                            /\ Cardinality(Owned(t, {"session"})) = Len(ios[t])
    BY DEF DescriptorsKept
  <2>1. /\ Owned(t, Kinds \ {"free"}) = OwnedIn(table, t, NonFree)
        /\ Owned(t, Kinds \ {"free", "session"}) = OwnedIn(table, t, NonSession)
        /\ Owned(t, {"session"}) = OwnedIn(table, t, {"session"})
    BY DEF Owned, OwnedIn, NonFree, NonSession
  <2>2. Counts(t) /\ Closes(t) /\ Len(ios[t]) \in Nat
    BY DEF WInv, WorkerInv, WType
  <2>3. ASSUME at[t] = "serve"
        PROVE  Cardinality(OwnedIn(table, t, NonFree)) = 3 * Len(ios[t]) + 1
    BY <2>2, <2>3 DEF Counts, Making, Half
  <2>. QED
    BY <2>1, <2>2, <2>3 DEF Counts, Closes
<1>. QED
  BY <1>1, WorkersInvariance, PTL

=============================================================================
